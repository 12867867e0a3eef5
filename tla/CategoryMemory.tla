--------------------------- MODULE CategoryMemory ---------------------------
(***************************************************************************)
(* Category memory: what a category-strategy run remembers of its own      *)
(* findings, and what later runs make of it.                               *)
(*                                                                         *)
(* A run retrieves the memory of its category, composes an answer from the *)
(* case's own facts with that memory beside it, and then stores the        *)
(* findings worth keeping, in one transaction and with no lock. Neither    *)
(* half is fenced: the run may be of an attempt that was superseded, or    *)
(* the second of a case whose first run stored already.                    *)
(*                                                                         *)
(* A text is its template and the percentages in it, which is all that the *)
(* comparisons look at. No finding carries the date of its event, so the   *)
(* comparisons of dated findings are not reached.                          *)
(***************************************************************************)
EXTENDS Integers, Sequences, FiniteSets

CONSTANTS
  Run,       \* runs of the category-strategy journey
  Supplier,
  Facts,     \* what the kernel may know of a case (KernelFacts below)
  None,      \* an absent figure or name
  Limit      \* how many records a retrieval returns

FactTypes == {"spend_concentration", "supplier_strategy_classification",
              "price_movement", "specification_change_price_impact",
              "market_driver_price_correlation", "market_driver_no_internal_movement",
              "contract_adjustment_mechanism",
              "supplier_claim_price_history_contradiction", "spend_only_movement"}

\* Shares and movements are whole percentages. A supplier may have no share.
KernelFacts ==
  [subject   : Supplier \cup {None},
   share     : [Supplier -> 0..100 \cup {None}],
   outgrows  : SUBSET Supplier,     \* spend grows faster than the category's
   open      : SUBSET Supplier,     \* qualification not complete
   mechanism : BOOLEAN,             \* the case states an adjustment clause,
   quotes    : Seq(Int),            \* in words that quote these percentages
   disproved : BOOLEAN,             \* claims a rise, history shows none
   price     : Int \cup {None},
   spend     : Int \cup {None},
   specified : BOOLEAN,             \* a change of specification was reported
   drivers   : BOOLEAN]             \* a market driver was reported

ASSUME MemoryAssumption ==
  /\ None \notin Supplier \cup Int
  /\ Limit \in Nat
  /\ Facts \subseteq KernelFacts

VARIABLES
  items,        \* memory_items: the columns that never change, by id
  superseded,   \* the ids whose temporal_status is SUPERSEDED
  contradicts,  \* <<a, b>>: b is in the contradicts_ids of a
  stage,        \* of a run: idle, storing (its transaction is open), done
  todo,         \* the candidates that its transaction has not stored yet
  tx,           \* what its open transaction has written
  compared,     \* the records its answer compares with, and how
  started       \* how many store transactions have begun

memoryRows == <<items, superseded, contradicts>>
memoryVars == <<memoryRows, stage, todo, tx, compared, started>>

Id == Run \X (Nat \ {0})
NoItem == <<>>

EmptyTx == [new |-> <<>>, superseded |-> {}, links |-> {}, at |-> 0]

-----------------------------------------------------------------------------
(***************************************************************************)
(* The answer of a run: supplier strategies, findings, comparisons         *)
(***************************************************************************)

\* classify_supplier_strategy, on the case's own facts alone.
Strategy(f, s) ==
  LET share == f.share[s] IN
  IF share # None /\ share >= 50 THEN "challenge"
  ELSE IF s \in f.open THEN "qualify"
  ELSE IF share # None /\ share >= 25 /\ s \in f.outgrows THEN "develop"
  ELSE "monitor"

Finding(fact, supplier, label, figures, implied, state, impact) ==
  [fact |-> fact, supplier |-> supplier, state |-> state, impact |-> impact,
   value |-> [label |-> label, figures |-> figures, implied |-> implied]]

\* A finding per supplier with a share, but for those whose strategy says it.
ConcentrationFindings(f) ==
  { Finding("spend_concentration", s, "holds", <<f.share[s]>>, <<>>, "CALCULATED",
            IF f.share[s] >= 50 THEN "DECISION_CHANGING"
            ELSE IF f.share[s] >= 25 THEN "MATERIAL_RISK" ELSE "BACKGROUND")
      : s \in {s \in Supplier : /\ f.share[s] # None
                                /\ Strategy(f, s) \notin {"challenge", "develop"}} }

StrategyImpact == [challenge |-> "DECISION_CHANGING",
                   qualify   |-> "DECISION_CRITICAL_UNKNOWN",
                   develop   |-> "MATERIAL_RISK",
                   monitor   |-> "BACKGROUND"]

\* The reason, which is also the implication, gives the share when it is what
\* decides, and quotes the memory it was shown after it (quoted[s]).
StrategyFindings(f, quoted) ==
  { LET strategy == Strategy(f, s)
        share == IF strategy \in {"challenge", "develop"} THEN <<f.share[s]>> ELSE <<>>
    IN Finding("supplier_strategy_classification", s, strategy, <<>>, share \o quoted[s],
               IF strategy = "qualify" THEN "UNKNOWN" ELSE "CALCULATED",
               StrategyImpact[strategy])
      : s \in Supplier }

\* A clause on adjustments, and a claim that its own history disproves: both
\* are the supplier's statements, so they belong to the subject of the case.
StatementFindings(f) ==
  (IF f.mechanism
   THEN {Finding("contract_adjustment_mechanism", f.subject, "mechanism", f.quotes,
                 <<>>, "SUPPLIER_CLAIM", "DECISION_CRITICAL_UNKNOWN")}
   ELSE {}) \cup
  (IF f.disproved
   THEN {Finding("supplier_claim_price_history_contradiction", f.subject, "disproved",
                 <<>>, <<>>, "CONTRADICTED", "MATERIAL_RISK")}
   ELSE {})

\* What moved in the category as a whole: the price, or else the spend.
MovementFact(f) ==
  IF f.price # None
  THEN IF f.price > 0 /\ f.specified THEN "specification_change_price_impact"
       ELSE IF f.price > 0 /\ f.drivers THEN "market_driver_price_correlation"
       ELSE "price_movement"
  ELSE IF f.spend \notin {None, 0} THEN "spend_only_movement"
  ELSE IF f.drivers THEN "market_driver_no_internal_movement"
  ELSE None

MovementFindings(f) ==
  LET fact == MovementFact(f) IN
  IF fact = None THEN {}
  ELSE { Finding(fact, None, fact,
                 IF f.price # None THEN <<f.price>>
                 ELSE IF fact = "spend_only_movement" THEN <<f.spend>> ELSE <<>>,
                 <<>>,
                 IF fact = "market_driver_no_internal_movement"
                 THEN "EXTERNAL_MARKET_EVIDENCE" ELSE "CALCULATED",
                 IF fact = "price_movement" /\ f.price <= 0
                 THEN "BACKGROUND" ELSE "DECISION_CRITICAL_UNKNOWN") }

\* apply_decision_impact_guardrails.
Guarded(finding) ==
  [finding EXCEPT !.impact =
     IF finding.state = "CONTRADICTED" /\ @ = "BACKGROUND" THEN "MATERIAL_RISK"
     ELSE IF finding.state = "SUPPLIER_CLAIM" /\ @ = "DECISION_CHANGING"
     THEN "DECISION_CRITICAL_UNKNOWN" ELSE @]

Findings(f, quoted) ==
  { Guarded(x) : x \in ConcentrationFindings(f) \cup StrategyFindings(f, quoted)
                         \cup StatementFindings(f) \cup MovementFindings(f) }

-----------------------------------------------------------------------------
(***************************************************************************)
(* Memory beside the current evidence: retrieval and comparison            *)
(***************************************************************************)

Key(f, supplier, fact) == <<f.subject, supplier, fact>>
KeySubject(key) == key[1]
KeySupplier(key) == key[2]
KeyFact(key) == key[3]

Linked(i) == {j \in DOMAIN items : <<i, j>> \in contradicts}

RetrievalStrength ==
  [VERIFIED |-> 0, CALCULATED |-> 1, EXTERNAL_MARKET_EVIDENCE |-> 2,
   SUPPLIER_CLAIM |-> 3, STAKEHOLDER_VIEW |-> 4, INFERRED |-> 5,
   CONTRADICTED |-> 6, ASSUMED |-> 7, UNKNOWN |-> 8]

\* Contradictions first, then what is current, the strongest, the latest.
\* created_at is the start of a transaction: its rows tie, and come here in
\* the order of their insertion.
Rank(i) ==
  <<IF Linked(i) # {} THEN 0 ELSE 1,
    IF i \in superseded THEN 1 ELSE 0,
    RetrievalStrength[items[i].state],
    0 - items[i].at,
    i[2]>>

RankedBefore(i, j) ==
  \E p \in 1..5 : /\ Rank(i)[p] < Rank(j)[p]
                  /\ \A q \in 1..(p - 1) : Rank(i)[q] = Rank(j)[q]

\* retrieve_memory, for the subject of the case; the 4 * Limit latest records
\* that it ranks are taken to be all of them.
Retrieved(f) ==
  IF f.subject = None THEN {}
  ELSE LET mine == {i \in DOMAIN items : KeySubject(items[i].key) = f.subject}
       IN {i \in mine : Cardinality({j \in mine : RankedBefore(j, i)}) < Limit}

First(S) == CHOOSE i \in S : \A j \in S \ {i} : RankedBefore(i, j)
Last(S) == CHOOSE i \in S : \A j \in S \ {i} : RankedBefore(j, i)

Numbers(value) == IF value.figures # <<>> THEN value.figures ELSE value.implied

Text(value) == <<value.label, value.figures>>

ClaimConsistencyFacts ==
  {"supplier_claim_price_history_contradiction", "contract_adjustment_mechanism"}

\* reconcile_one, of a record with a current finding of the same proposition.
Relation(i, value) ==
  LET old == Numbers(items[i].value)
      new == Numbers(value)
  IN IF i \in superseded THEN "STALE"
     ELSE IF old # <<>> /\ new # <<>>
          THEN IF old = new THEN "SUPPORTS"
               ELSE IF KeyFact(items[i].key) \in ClaimConsistencyFacts
                    THEN "CONTRADICTS" ELSE "DIFFERS"
     ELSE IF Text(items[i].value) # Text(value) THEN "DIFFERS" ELSE "RECURS"

ConcentrationFacts == {"spend_concentration", "supplier_strategy_classification"}

Share(f, s) == [label |-> "holds", figures |-> <<f.share[s]>>, implied |-> <<>>]

\* reconcile_memory_for_category: the records on the share of a supplier; each
\* that the loop meets replaces the one before, so the last in rank stays.
ShareMemory(f, s, seen) ==
  IF f.share[s] = None THEN {}
  ELSE {i \in seen : /\ KeySupplier(items[i].key) = s
                     /\ KeyFact(items[i].key) \in ConcentrationFacts}

RelatedMemory(f, s, seen) ==
  IF f.share[s] = None THEN {}
  ELSE {i \in seen : /\ KeySupplier(items[i].key) = s
                     /\ KeyFact(items[i].key) \notin ConcentrationFacts}

\* What the reason of a strategy repeats of the memory it was given.
Quoted(f, seen) ==
  [s \in Supplier |->
     (LET m == ShareMemory(f, s, seen) IN
      IF m # {} /\ Relation(Last(m), Share(f, s)) \in {"DIFFERS", "RECURS"}
      THEN items[Last(m)].value.figures ELSE <<>>)
     \o
     (LET m == RelatedMemory(f, s, seen) IN
      IF m # {} THEN items[First(m)].value.figures \o items[First(m)].value.implied
      ELSE <<>>)]

\* build_360_findings: the first record of the proposition of a finding.
FindingMemory(f, x, seen) ==
  {i \in seen : /\ KeyFact(items[i].key) = x.fact
                /\ x.supplier # None => KeySupplier(items[i].key) = x.supplier}

\* Every comparison that the answer states: with the strategy of a supplier,
\* and with a finding.
Comparisons(f, seen) ==
  { [item |-> Last(ShareMemory(f, s, seen)),
     says |-> Relation(Last(ShareMemory(f, s, seen)), Share(f, s))]
      : s \in {s \in Supplier : ShareMemory(f, s, seen) # {}} } \cup
  { [item |-> First(FindingMemory(f, x, seen)),
     says |-> Relation(First(FindingMemory(f, x, seen)), x.value)]
      : x \in {x \in Findings(f, Quoted(f, seen)) : FindingMemory(f, x, seen) # {}} }

-----------------------------------------------------------------------------
(***************************************************************************)
(* What is worth keeping, and how it is kept                               *)
(***************************************************************************)

LongTermFacts == {"spend_concentration", "supplier_strategy_classification",
                  "contract_adjustment_mechanism",
                  "supplier_claim_price_history_contradiction"}

\* extract_candidates. Every finding here has a recognised fact type, an
\* evidence state and a source, which are its other conditions.
Accepted(f, x) ==
  /\ x.impact # "BACKGROUND" \/ x.fact \in LongTermFacts
  /\ f.subject # None \/ x.supplier # None

Candidates(f, seen) ==
  { [key |-> Key(f, x.supplier, x.fact), value |-> x.value, state |-> x.state]
      : x \in {x \in Findings(f, Quoted(f, seen)) : Accepted(f, x)} }

\* _values_conflict.
ValuesConflict(old, new) ==
  \/ /\ old.figures # <<>> /\ new.figures # <<>>
     /\ old.figures # new.figures
  \/ /\ Text(old) # Text(new)
     /\ (old.figures # <<>>) # (new.figures # <<>>)

StoreStrength ==
  [ASSUMED |-> 0, UNKNOWN |-> 1, INFERRED |-> 2, STAKEHOLDER_VIEW |-> 3,
   SUPPLIER_CLAIM |-> 4, EXTERNAL_MARKET_EVIDENCE |-> 5, CALCULATED |-> 6,
   VERIFIED |-> 7, CONTRADICTED |-> 0 - 1]

\* What a statement of r's transaction reads: committed rows and its own.
Visible(r) ==
  [i \in DOMAIN items \cup DOMAIN tx[r].new |->
     IF i \in DOMAIN items THEN items[i] ELSE tx[r].new[i]]

CurrentOf(r, key) ==
  {i \in DOMAIN Visible(r) : /\ Visible(r)[i].key = key
                             /\ i \notin superseded \cup tx[r].superseded}

\* Broken: ORDER BY version LIMIT 1.
Oldest(r, key) ==
  {i \in CurrentOf(r, key) :
     \A j \in CurrentOf(r, key) : Visible(r)[i].version <= Visible(r)[j].version}

\* ORDER BY version DESC LIMIT 1: of several, any.
Newest(r, key) ==
  {i \in CurrentOf(r, key) :
     \A j \in CurrentOf(r, key) : Visible(r)[j].version <= Visible(r)[i].version}

MemoryInit ==
  /\ items = <<>>
  /\ superseded = {}
  /\ contradicts = {}
  /\ stage = [r \in Run |-> "idle"]
  /\ todo = [r \in Run |-> {}]
  /\ tx = [r \in Run |-> EmptyTx]
  /\ compared = [r \in Run |-> {}]
  /\ started = 0

\* Retrieval, composition and extraction: what memory said at one moment. A
\* retrieval that fails counts as an empty memory. Two runs with the same
\* facts may be runs of the same case.
Compose(r, f) ==
  /\ stage[r] = "idle"
  /\ \E seen \in {Retrieved(f), {}} :
       /\ compared' = [compared EXCEPT ![r] = Comparisons(f, seen)]
       /\ todo' = [todo EXCEPT ![r] = Candidates(f, seen)]
  /\ started' = started + 1
  /\ tx' = [tx EXCEPT ![r].at = started']
  /\ stage' = [stage EXCEPT ![r] = "storing"]
  /\ UNCHANGED memoryRows

\* Broken: the link back, from the old record to the new one, is not written.
WriteOneWayLink(r, c, version, supersedes, superseding, links) ==
  LET id == <<r, Cardinality(DOMAIN tx[r].new) + 1>>
      row == [key |-> c.key, value |-> c.value, state |-> c.state,
              version |-> version, supersedes |-> supersedes, at |-> tx[r].at,
              saw |-> DOMAIN items]
  IN tx' = [tx EXCEPT
       ![r].new = [i \in DOMAIN @ \cup {id} |-> IF i = id THEN row ELSE @[i]],
       ![r].superseded = @ \cup superseding,
       ![r].links = @ \cup {<<id, i>> : i \in links}]

\* The transaction of r writes a new record and what goes with it.
Write(r, c, version, supersedes, superseding, links) ==
  LET id == <<r, Cardinality(DOMAIN tx[r].new) + 1>>
      row == [key |-> c.key, value |-> c.value, state |-> c.state,
              version |-> version, supersedes |-> supersedes, at |-> tx[r].at,
              saw |-> DOMAIN items]  \* history: what was committed by then
  IN tx' = [tx EXCEPT
       ![r].new = [i \in DOMAIN @ \cup {id} |-> IF i = id THEN row ELSE @[i]],
       ![r].superseded = @ \cup superseding,
       ![r].links = @ \cup {<<id, i>> : i \in links} \cup {<<i, id>> : i \in links}]

StoreFirst(r, c) ==
  /\ CurrentOf(r, c.key) = {}
  /\ Write(r, c, 1, NoItem, {}, {})

StoreDuplicate(r, c) ==
  /\ \E old \in Newest(r, c.key) : ~ValuesConflict(Visible(r)[old].value, c.value)
  /\ UNCHANGED tx

\* Broken: every value that is found again becomes a version.
StoreAgain(r, c) ==
  \E old \in Newest(r, c.key) : Write(r, c, Visible(r)[old].version + 1, old, {}, {old})

\* A value that conflicts becomes the next version. Stronger evidence ends the
\* old record; otherwise both stay current, each linked to the other.
StoreConflict(r, c) ==
  \E old \in Newest(r, c.key) :
    /\ ValuesConflict(Visible(r)[old].value, c.value)
    /\ LET stronger == StoreStrength[c.state] > StoreStrength[Visible(r)[old].state]
       IN Write(r, c, Visible(r)[old].version + 1, old,
                IF stronger THEN {old} ELSE {}, IF stronger THEN {} ELSE {old})

\* One turn of the loop of store_candidates; the order of findings is open.
StoreOne(r) ==
  /\ stage[r] = "storing"
  /\ \E c \in todo[r] :
       /\ StoreFirst(r, c) \/ StoreDuplicate(r, c) \/ StoreConflict(r, c)
       /\ todo' = [todo EXCEPT ![r] = @ \ {c}]
  /\ UNCHANGED <<memoryRows, stage, compared, started>>

\* Broken: contradicts_ids is set where it should be appended to.
StoreCommitSetsLinks(r) ==
  /\ stage[r] = "storing"
  /\ todo[r] = {}
  /\ items' = [i \in DOMAIN items \cup DOMAIN tx[r].new |-> Visible(r)[i]]
  /\ superseded' = superseded \cup tx[r].superseded
  /\ contradicts' = tx[r].links \cup
       {l \in contradicts : \A k \in tx[r].links : k[1] # l[1]}
  /\ tx' = [tx EXCEPT ![r] = EmptyTx]
  /\ stage' = [stage EXCEPT ![r] = "done"]
  /\ UNCHANGED <<todo, compared, started>>

\* Broken: the answer is compared with memory again, once its own is there.
StoreCommitThenCompare(r) ==
  /\ stage[r] = "storing"
  /\ todo[r] = {}
  /\ items' = [i \in DOMAIN items \cup DOMAIN tx[r].new |-> Visible(r)[i]]
  /\ superseded' = superseded \cup tx[r].superseded
  /\ contradicts' = contradicts \cup tx[r].links
  /\ compared' = [compared EXCEPT
       ![r] = {[item |-> i, says |-> "SUPPORTS"] : i \in DOMAIN tx[r].new}]
  /\ tx' = [tx EXCEPT ![r] = EmptyTx]
  /\ stage' = [stage EXCEPT ![r] = "done"]
  /\ UNCHANGED <<todo, started>>

StoreCommit(r) ==
  /\ stage[r] = "storing"
  /\ todo[r] = {}
  /\ items' = [i \in DOMAIN items \cup DOMAIN tx[r].new |-> Visible(r)[i]]
  /\ superseded' = superseded \cup tx[r].superseded
  /\ contradicts' = contradicts \cup tx[r].links
  /\ tx' = [tx EXCEPT ![r] = EmptyTx]
  /\ stage' = [stage EXCEPT ![r] = "done"]
  /\ UNCHANGED <<todo, compared, started>>

\* Broken: what was written before the failure is left in the transaction.
StoreFailsHalfway(r) ==
  /\ stage[r] = "storing"
  /\ todo' = [todo EXCEPT ![r] = {}]
  /\ stage' = [stage EXCEPT ![r] = "done"]
  /\ UNCHANGED <<memoryRows, tx, compared, started>>

\* Any exception, or a process that dies: everything is rolled back, and the
\* answer stands.
StoreFails(r) ==
  /\ stage[r] = "storing"
  /\ tx' = [tx EXCEPT ![r] = EmptyTx]
  /\ todo' = [todo EXCEPT ![r] = {}]
  /\ stage' = [stage EXCEPT ![r] = "done"]
  /\ UNCHANGED <<memoryRows, compared, started>>

MemoryNext ==
  \E r \in Run :
    \/ \E f \in Facts : Compose(r, f)
    \/ StoreOne(r)
    \/ StoreCommit(r)
    \/ StoreFails(r)

MemorySpec == MemoryInit /\ [][MemoryNext]_memoryVars

-----------------------------------------------------------------------------
(***************************************************************************)
(* Properties                                                              *)
(***************************************************************************)

RowOK(row) ==
  /\ row.version \in Nat \ {0}
  /\ row.state \in DOMAIN StoreStrength
  /\ row.at \in Nat
  /\ row.saw \subseteq Id

\* The tables and the open transactions are well formed: only a transaction
\* that is open has written anything, and under its own ids.
MemoryTypeOK ==
  /\ DOMAIN items \subseteq Id
  /\ \A i \in DOMAIN items : RowOK(items[i])
  /\ superseded \subseteq DOMAIN items
  /\ stage \in [Run -> {"idle", "storing", "done"}]
  /\ started \in Nat
  /\ \A r \in Run :
       /\ \A i \in DOMAIN tx[r].new : i \in Id /\ i[1] = r /\ RowOK(tx[r].new[i])
       /\ stage[r] # "storing" => tx[r].new = <<>> /\ todo[r] = {}

\* Neither of two rival values silently wins: a later version is recorded of
\* the one that it disagreed with, of the same proposition, and either ended
\* it with stronger evidence or is linked with it, each to the other.
RivalsAreLinked ==
  /\ \A i \in DOMAIN items : items[i].version > 1 =>
       LET old == items[i].supersedes IN
       /\ old \in DOMAIN items
       /\ items[old].key = items[i].key
       /\ items[i].version = items[old].version + 1
       /\ ValuesConflict(items[old].value, items[i].value)
       /\ \/ /\ old \in superseded
             /\ StoreStrength[items[i].state] > StoreStrength[items[old].state]
          \/ {<<i, old>>, <<old, i>>} \subseteq contradicts
  /\ \A link \in contradicts :
       /\ <<link[2], link[1]>> \in contradicts
       /\ {link[1], link[2]} \subseteq DOMAIN items

\* With no unique key and no lock, a proposition may get two first records, or
\* two records of one version; but only from transactions that overlapped: a
\* record that was committed when another was written has a lower version.
VersionsInOrder ==
  \A i, j \in DOMAIN items :
    items[i].key = items[j].key /\ i \in items[j].saw
      => items[i].version < items[j].version

\* The history is kept: no record is removed or rewritten, none that was
\* superseded becomes current again, and no link is dropped.
MemoryKept ==
  [][ /\ \A i \in DOMAIN items : i \in DOMAIN items' /\ items'[i] = items[i]
      /\ superseded \subseteq superseded'
      /\ contradicts \subseteq contradicts' ]_memoryVars

\* A value that memory has already is recorded again, by a retry of its case or
\* by another one, only after a rival took its place as the latest version;
\* runs that overlapped are again the exception.
RepeatsNeedARival ==
  \A i, j \in DOMAIN items :
    /\ items[i].key = items[j].key /\ i \in items[j].saw
    /\ ~ValuesConflict(items[i].value, items[j].value)
    => \E k \in DOMAIN items : /\ items[k].key = items[j].key
                               /\ items[k].version >= items[i].version
                               /\ ValuesConflict(items[k].value, items[j].value)

\* An answer compares with committed records of other runs only: never with
\* what it is about to store, nor with a store that is later rolled back.
NeverFromOwnWrite ==
  \A r \in Run : \A c \in compared[r] : c.item \in DOMAIN items /\ c.item[1] # r
=============================================================================
