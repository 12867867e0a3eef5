-------------------------- MODULE CaseEvidenceProofs --------------------------
(***************************************************************************)
(* Proofs about CaseEvidence, for all texts, updates and answers, and any  *)
(* number of tabs: what is recorded of the source of a value stands, and   *)
(* is what happened when the case was classified.                          *)
(*                                                                         *)
(* Evidence that is normalised a second time looks like the model's own    *)
(* claim, whoever gave it. The proof shows why that does no harm: a field  *)
(* that had a source is on record from the first pass, and an entry that   *)
(* is there is kept; a field that had none cannot come to agree or         *)
(* conflict, since nothing is found for it in the text the second time.    *)
(***************************************************************************)
EXTENDS CaseEvidence, TLAPS

RowField == {"status", "type", "mode", "llm", "found", "vendors", "stored", "prov", "asked"}

IsRow(r) == r = [f \in RowField |-> r[f]]

\* A row has its columns.
RowsAreWhole ==
  row = [c \in CaseName |-> row[c]] /\ \A c \in CaseName : IsRow(row[c])

Early == {"absent", "classifying"}

\* Until a case is classified nothing is on record of it, and nobody works on it.
NothingEarly ==
  \A c \in CaseName :
    row[c].status \in Early => DOMAIN row[c].prov = {} /\ worker[c] = Absent

\* The text gave the field a value, or its suppliers did.
HasSource(r, f) ==
  Claimed(r.llm, f) # Absent \/ At(r.found, f) # Absent \/ Varies(r.vendors, f)

\* Every source of the first pass is on record.
SourcesRecorded ==
  row["created"].status \notin Early =>
    \A f \in PatternFields(row["created"].type) :
      HasSource(row["created"], f) => f \in DOMAIN row["created"].prov

\* An entry for a field that is not found in the text.
Plain(entry) == entry.source # "both_agree" /\ entry.conflicting = FALSE

\* A worker has nothing else to say of such a field.
PlainWorker(n, r) ==
  \A f \in PatternFields(r.type) \cap DOMAIN n.prov :
    At(r.found, f) = Absent => Plain(n.prov[f])

WorkersArePlain ==
  \A c \in CaseName : worker[c] # Absent => PlainWorker(worker[c], row[c])

\* The inductive invariant.
EvidenceInv ==
  /\ RowsAreWhole
  /\ worker = [c \in CaseName |-> worker[c]]
  /\ NothingEarly
  /\ SourcesRecorded
  /\ WorkersArePlain
  /\ ProvenanceIsHonest

-----------------------------------------------------------------------------
(* Normalisation                                                           *)

LEMMA NothingIn == DOMAIN Empty = {}
BY DEF Empty

WithFreight(vendors, freight) ==
  [s \in DOMAIN vendors |->
     IF At(freight, s) = Absent THEN vendors[s]
     ELSE [vendors[s] EXCEPT !.freight = freight[s]]]

HasValue(given, suppliers, found, f) ==
  Claimed(given, f) # Absent \/ At(found, f) # Absent \/ Varies(suppliers, f)

FromModel == [source |-> "llm_extraction", conflicting |-> FALSE]

EntryOf(given, suppliers, found, f) ==
  IF Varies(suppliers, f) THEN FromModel
  ELSE [source |-> Resolve(Claimed(given, f), At(found, f)).source,
        conflicting |-> Resolve(Claimed(given, f), At(found, f)).conflict]

\* The provenance of a pass has an entry for each field that has a value.
LEMMA PassRecords ==
  ASSUME NEW type, NEW given, NEW freight, NEW vendors, NEW found,
         NEW f \in PatternFields(type)
  PROVE  LET prov == Normalised(type, given, freight, vendors, found).prov
             suppliers == WithFreight(vendors, freight)
         IN /\ HasValue(given, suppliers, found, f) =>
                 /\ f \in DOMAIN prov
                 /\ prov[f] = EntryOf(given, suppliers, found, f)
            /\ ~HasValue(given, suppliers, found, f) /\ f \in DOMAIN prov =>
                 prov[f] = FromModel
<1> DEFINE suppliers == WithFreight(vendors, freight)
           there == {g \in PatternFields(type) :
                       Claimed(given, g) # Absent \/ At(found, g) # Absent
                         \/ Varies(suppliers, g)}
           resolved == [g \in there |->
                          IF Varies(suppliers, g)
                          THEN [value |-> Absent, source |-> "llm_extraction", conflict |-> FALSE]
                          ELSE Resolve(Claimed(given, g), At(found, g))]
           first == [g \in DOMAIN resolved |->
                       [source |-> resolved[g].source, conflicting |-> resolved[g].conflict]]
           others == (DOMAIN given \cap (PlainTexts(type) \cup PlainNumbers(type)))
                       \ {"freight_cost_or_estimate"}
           rest == [g \in others |-> FromModel]
           prov == Normalised(type, given, freight, vendors, found).prov
<1>1. prov = Over(first, rest)
  BY DEF Normalised, WithFreight, FromModel
<1>2. f \in there <=> HasValue(given, suppliers, found, f)
  BY Zenon DEF HasValue
<1>3. f \in there => first[f] = EntryOf(given, suppliers, found, f)
  <2> SUFFICES ASSUME f \in there PROVE first[f] = EntryOf(given, suppliers, found, f)
    OBVIOUS
  <2>1. first[f] = [source |-> resolved[f].source, conflicting |-> resolved[f].conflict]
    OBVIOUS
  <2>2. CASE Varies(suppliers, f)
    <3>1. resolved[f] = [value |-> Absent, source |-> "llm_extraction", conflict |-> FALSE]
      BY <2>2
    <3> QED
      BY <2>1, <2>2, <3>1 DEF EntryOf, FromModel
  <2>3. CASE ~Varies(suppliers, f)
    <3>1. resolved[f] = Resolve(Claimed(given, f), At(found, f))
      BY <2>3
    <3> QED
      BY <2>1, <2>3, <3>1, Zenon DEF EntryOf
  <2> QED
    BY <2>2, <2>3
<1>4. DOMAIN first = there /\ DOMAIN rest = others /\ \A g \in others : rest[g] = FromModel
  OBVIOUS
<1> HIDE DEF prov, first, rest, there, others, resolved, suppliers
<1>5. /\ DOMAIN prov = there \cup others
      /\ \A g \in DOMAIN prov : prov[g] = IF g \in there THEN first[g] ELSE rest[g]
  BY <1>1, <1>4 DEF Over
<1>6. /\ HasValue(given, suppliers, found, f) =>
           f \in DOMAIN prov /\ prov[f] = EntryOf(given, suppliers, found, f)
      /\ ~HasValue(given, suppliers, found, f) /\ f \in DOMAIN prov => prov[f] = FromModel
  BY <1>2, <1>3, <1>4, <1>5
<1> QED
  BY <1>6 DEF prov, suppliers

\* Two sources agree, or conflict, only where the text has a value.
LEMMA ResolveIs ==
  ASSUME NEW claimed, NEW found, claimed # Absent \/ found # Absent
  PROVE  LET r == Resolve(claimed, found) IN
         /\ r.source = "both_agree" => claimed # Absent /\ claimed = found
         /\ r.conflict = (claimed # Absent /\ found # Absent /\ claimed # found)
<1> DEFINE source == CASE claimed = Absent -> "deterministic_fallback"
                       [] claimed = found -> "both_agree"
                       [] OTHER -> "llm_extraction"
           conflict == claimed # Absent /\ found # Absent /\ claimed # found
<1>1. Resolve(claimed, found).source = source /\ Resolve(claimed, found).conflict = conflict
  BY DEF Resolve
<1>2. source = "both_agree" => claimed # Absent /\ claimed = found
  <2>1. CASE claimed = Absent
    <3>1. claimed # found
      BY <2>1
    <3>2. source = "deterministic_fallback"
      BY <2>1, <3>1, Zenon
    <3> QED
      BY <3>2
  <2>2. CASE claimed # Absent /\ claimed = found
    BY <2>2
  <2>3. CASE claimed # Absent /\ claimed # found
    <3>1. source = "llm_extraction"
      BY <2>3, Zenon
    <3> QED
      BY <3>1
  <2> QED
    BY <2>1, <2>2, <2>3
<1> HIDE DEF source, conflict
<1>3. /\ Resolve(claimed, found).source = "both_agree" => claimed # Absent /\ claimed = found
      /\ Resolve(claimed, found).conflict = conflict
  BY <1>1, <1>2
<1> QED
  BY <1>3 DEF conflict

LEMMA PlainWhereNotFound ==
  ASSUME NEW type, NEW given, NEW freight, NEW vendors, NEW found,
         NEW f \in PatternFields(type), At(found, f) = Absent,
         f \in DOMAIN Normalised(type, given, freight, vendors, found).prov
  PROVE  Plain(Normalised(type, given, freight, vendors, found).prov[f])
<1> DEFINE suppliers == WithFreight(vendors, freight)
           entry == Normalised(type, given, freight, vendors, found).prov[f]
           claimed == Claimed(given, f)
<1>1. Plain(FromModel)
  BY DEF Plain, FromModel
<1>2. CASE ~HasValue(given, suppliers, found, f)
  <2>1. entry = FromModel
    BY <1>2, PassRecords
  <2> QED
    BY <1>1, <2>1
<1>3. CASE HasValue(given, suppliers, found, f)
  <2>1. entry = EntryOf(given, suppliers, found, f)
    BY <1>3, PassRecords
  <2>2. CASE Varies(suppliers, f)
    BY <1>1, <2>1, <2>2 DEF EntryOf
  <2>3. CASE ~Varies(suppliers, f)
    <3>1. claimed # Absent
      BY <1>3, <2>3 DEF HasValue
    <3>2. /\ Resolve(claimed, Absent).source # "both_agree"
          /\ Resolve(claimed, Absent).conflict = FALSE
      <4> HIDE DEF claimed
      <4> QED
        BY <3>1, ResolveIs
    <3>3. entry = [source |-> Resolve(claimed, Absent).source,
                   conflicting |-> Resolve(claimed, Absent).conflict]
      BY <2>1, <2>3 DEF EntryOf
    <3> QED
      BY <3>2, <3>3 DEF Plain
  <2> QED
    BY <2>2, <2>3
<1> QED
  BY <1>2, <1>3

-----------------------------------------------------------------------------
(* The first pass                                                          *)

HonestEntry(entry, claimed, found, vary) ==
  /\ entry.source = "both_agree" => claimed # Absent /\ claimed = found
  /\ entry.conflicting <=>
       {claimed, found} \cap {Absent} = {} /\ claimed # found /\ ~vary

LEMMA NoFreightSame ==
  ASSUME NEW vendors, NEW f
  PROVE  Varies(WithFreight(vendors, Empty), f) = Varies(vendors, f)
<1> DEFINE suppliers == WithFreight(vendors, Empty)
<1>1. \A s : At(Empty, s) = Absent
  BY NothingIn DEF At
<1>2. suppliers = [s \in DOMAIN vendors |-> vendors[s]]
  BY <1>1 DEF WithFreight
<1>3. DOMAIN suppliers = DOMAIN vendors /\ \A s \in DOMAIN vendors : suppliers[s] = vendors[s]
  BY <1>2
<1> HIDE DEF suppliers
<1>4. {suppliers[s][VendorAttr[f]] : s \in DOMAIN suppliers}
        = {vendors[s][VendorAttr[f]] : s \in DOMAIN vendors}
  BY <1>3
<1>5. Varies(suppliers, f) = Varies(vendors, f)
  BY <1>4 DEF Varies
<1> QED
  BY <1>5 DEF suppliers

LEMMA HonestFirst ==
  ASSUME NEW type, NEW given, NEW vendors, NEW found, NEW f \in PatternFields(type)
  PROVE  LET prov == Normalised(type, given, Empty, vendors, found).prov
         IN /\ HasValue(given, vendors, found, f) => f \in DOMAIN prov
            /\ f \in DOMAIN prov =>
                 HonestEntry(prov[f], Claimed(given, f), At(found, f), Varies(vendors, f))
<1> DEFINE suppliers == WithFreight(vendors, Empty)
           prov == Normalised(type, given, Empty, vendors, found).prov
           claimed == Claimed(given, f)
           text == At(found, f)
           vary == Varies(vendors, f)
<1>1. Varies(suppliers, f) = vary
  BY NoFreightSame
<1>2. HasValue(given, suppliers, found, f) <=> HasValue(given, vendors, found, f)
  BY <1>1 DEF HasValue
<1>3. HasValue(given, vendors, found, f) => f \in DOMAIN prov
  BY <1>2, PassRecords
<1>4. ASSUME f \in DOMAIN prov PROVE HonestEntry(prov[f], claimed, text, vary)
  <2>1. CASE ~HasValue(given, suppliers, found, f)
    <3>1. prov[f] = FromModel
      BY <1>4, <2>1, PassRecords
    <3>2. claimed = Absent
      BY <2>1 DEF HasValue
    <3> HIDE DEF prov, claimed, text, vary
    <3> QED
      BY <3>1, <3>2 DEF HonestEntry, FromModel
  <2>2. CASE HasValue(given, suppliers, found, f) /\ vary
    <3>0. prov[f] = EntryOf(given, suppliers, found, f)
      BY <2>2, PassRecords
    <3>1. prov[f] = FromModel
      BY <1>1, <2>2, <3>0, Zenon DEF EntryOf
    <3>2. vary
      BY <2>2
    <3> HIDE DEF prov, claimed, text, vary
    <3> QED
      BY <3>1, <3>2 DEF HonestEntry, FromModel
  <2>3. CASE HasValue(given, suppliers, found, f) /\ ~vary
    <3>1. prov[f] = [source |-> Resolve(claimed, text).source,
                     conflicting |-> Resolve(claimed, text).conflict]
      BY <1>1, <2>3, PassRecords DEF EntryOf
    <3>2. ~vary /\ (claimed # Absent \/ text # Absent)
      BY <1>1, <2>3 DEF HasValue
    <3> HIDE DEF prov, claimed, text, vary
    <3>3. /\ Resolve(claimed, text).source = "both_agree" => claimed # Absent /\ claimed = text
          /\ Resolve(claimed, text).conflict
               = (claimed # Absent /\ text # Absent /\ claimed # text)
      BY <3>2, ResolveIs
    <3>4. /\ prov[f].source = "both_agree" => claimed # Absent /\ claimed = text
          /\ prov[f].conflicting = (claimed # Absent /\ text # Absent /\ claimed # text)
      BY <3>1, <3>3
    <3>5. {claimed, text} \cap {Absent} = {} <=> claimed # Absent /\ text # Absent
      OBVIOUS
    <3> QED
      BY <3>2, <3>4, <3>5, Zenon DEF HonestEntry
  <2> QED
    BY <2>1, <2>2, <2>3
<1> QED
  BY <1>3, <1>4

-----------------------------------------------------------------------------
(* Steps that leave the sources of a case alone                            *)

Quiet(c) ==
  /\ row'[c].type = row[c].type /\ row'[c].llm = row[c].llm
  /\ row'[c].found = row[c].found /\ row'[c].vendors = row[c].vendors
  /\ row'[c].prov = row[c].prov

\* The case is classified after the step if it was before.
KeepsAge(c) == row'[c].status \in Early <=> row[c].status \in Early

SourcesStand ==
  \A c \in CaseName : \A f \in DOMAIN row[c].prov :
    f \in DOMAIN row'[c].prov /\ row'[c].prov[f] = row[c].prov[f]

\* A case that is classified stays so.
Grows == \A c \in CaseName : row[c].status \notin Early => row'[c].status \notin Early

Keeps == EvidenceInv' /\ SourcesStand /\ Grows

LEMMA QuietStep ==
  ASSUME EvidenceInv, RowsAreWhole', worker' = [c \in CaseName |-> worker'[c]],
         \A c \in CaseName : Quiet(c) /\ KeepsAge(c),
         \A c \in CaseName :
           \/ worker'[c] \in {worker[c], Absent}
           \/ row'[c].status \notin Early /\ PlainWorker(worker'[c], row[c])
  PROVE  Keeps
<1>1. NothingEarly'
  BY DEF EvidenceInv, NothingEarly, Quiet, KeepsAge
<1>2. SourcesRecorded'
  BY DEF EvidenceInv, SourcesRecorded, HasSource, Quiet, KeepsAge, CaseName
<1>3. WorkersArePlain'
  BY DEF EvidenceInv, WorkersArePlain, PlainWorker, Quiet
<1>4. ProvenanceIsHonest'
  BY DEF EvidenceInv, ProvenanceIsHonest, Quiet, CaseName
<1>5. SourcesStand
  BY DEF SourcesStand, Quiet
<1>6. Grows
  BY DEF Grows, KeepsAge
<1> QED
  BY <1>1, <1>2, <1>3, <1>4, <1>5, <1>6 DEF EvidenceInv, Keeps

With(r, f, x) == [r EXCEPT ![f] = x]

LEMMA RowChanged ==
  ASSUME NEW r, IsRow(r), NEW f \in RowField, NEW x
  PROVE  /\ IsRow(With(r, f, x)) /\ With(r, f, x)[f] = x
         /\ \A g \in RowField \ {f} : With(r, f, x)[g] = r[g]
<1> DEFINE same == [g \in RowField |-> r[g]]
           then == [g \in RowField |-> IF g = f THEN x ELSE r[g]]
<1>1. r = same
  BY Zenon DEF IsRow
<1>2. [same EXCEPT ![f] = x] = then
  OBVIOUS
<1>3. With(r, f, x) = then
  BY <1>1, <1>2, Zenon DEF With
<1>4. then = [g \in RowField |-> then[g]] /\ then[f] = x /\ \A g \in RowField \ {f} : then[g] = r[g]
  OBVIOUS
<1> HIDE DEF then
<1> QED
  BY <1>3, <1>4 DEF IsRow

\* A row that has changed in its status, its evidence or its questions.
Kept(new, r) ==
  /\ IsRow(new)
  /\ new.type = r.type /\ new.llm = r.llm /\ new.found = r.found /\ new.vendors = r.vendors
  /\ new.prov = r.prov

LEMMA KeptFields ==
  ASSUME NEW r, IsRow(r), NEW s, NEW x, NEW y
  PROVE  /\ Kept(With(r, "status", s), r) /\ With(r, "status", s).status = s
         /\ Kept(With(r, "stored", x), r) /\ With(r, "stored", x).status = r.status
         /\ Kept(With(r, "asked", y), r) /\ With(r, "asked", y).status = r.status
<1>1. \A f \in {"status", "stored", "asked"} : \A v :
         /\ IsRow(With(r, f, v)) /\ With(r, f, v)[f] = v
         /\ \A g \in RowField \ {f} : With(r, f, v)[g] = r[g]
  BY RowChanged DEF RowField
<1> QED
  BY <1>1 DEF Kept, RowField

LEMMA KeptAgain ==
  ASSUME NEW r, NEW q, Kept(q, r), NEW s, NEW x, NEW y
  PROVE  /\ Kept(With(q, "status", s), r) /\ With(q, "status", s).status = s
         /\ Kept(With(q, "stored", x), r) /\ With(q, "stored", x).status = q.status
         /\ Kept(With(q, "asked", y), r) /\ With(q, "asked", y).status = q.status
<1>1. IsRow(q)
  BY DEF Kept
<1>2. \A p : Kept(p, q) => Kept(p, r)
  BY DEF Kept
<1> QED
  BY <1>1, <1>2, KeptFields

LEMMA RowStep ==
  ASSUME RowsAreWhole, NEW c \in CaseName, NEW new, IsRow(new), row' = [row EXCEPT ![c] = new]
  PROVE  RowsAreWhole' /\ row'[c] = new /\ \A d \in CaseName \ {c} : row'[d] = row[d]
<1>1. row' = [d \in CaseName |-> IF d = c THEN new ELSE row[d]]
  BY DEF RowsAreWhole
<1>2. row'[c] = new /\ \A d \in CaseName \ {c} : row'[d] = row[d]
  BY <1>1
<1>3. row' = [d \in CaseName |-> row'[d]]
  BY <1>1, <1>2
<1>4. \A d \in CaseName : IsRow(row[d])
  BY DEF RowsAreWhole
<1>5. \A d \in CaseName : IsRow(row'[d])
  BY <1>2, <1>4
<1> QED
  BY <1>2, <1>3, <1>5 DEF RowsAreWhole

\* What a step may do to a worker that leaves its row alone: nothing, stop, or
\* take evidence that is plain.
WorkersMay ==
  /\ worker' = [c \in CaseName |-> worker'[c]]
  /\ \A c \in CaseName :
       \/ worker'[c] \in {worker[c], Absent}
       \/ row'[c].status \notin Early /\ PlainWorker(worker'[c], row[c])

LEMMA KeptStep ==
  ASSUME EvidenceInv, NEW c \in CaseName, NEW new, Kept(new, row[c]),
         new.status \in Early <=> row[c].status \in Early,
         row' = [row EXCEPT ![c] = new], WorkersMay
  PROVE  Keeps
<1>1. RowsAreWhole' /\ row'[c] = new /\ \A d \in CaseName \ {c} : row'[d] = row[d]
  BY RowStep DEF EvidenceInv, Kept
<1>2. \A d \in CaseName : Quiet(d) /\ KeepsAge(d)
  <2> SUFFICES ASSUME NEW d \in CaseName PROVE Quiet(d) /\ KeepsAge(d)
    OBVIOUS
  <2>1. CASE d = c
    BY <1>1, <2>1 DEF Quiet, KeepsAge, Kept
  <2>2. CASE d # c
    BY <1>1, <2>2 DEF Quiet, KeepsAge
  <2> QED
    BY <2>1, <2>2
<1> QED
  BY <1>1, <1>2, QuietStep DEF WorkersMay

LEMMA SameRowStep ==
  ASSUME EvidenceInv, row' = row, WorkersMay
  PROVE  Keeps
<1>1. RowsAreWhole'
  BY DEF EvidenceInv, RowsAreWhole
<1>2. \A d \in CaseName : Quiet(d) /\ KeepsAge(d)
  BY DEF Quiet, KeepsAge
<1> QED
  BY <1>1, <1>2, QuietStep DEF WorkersMay

LEMMA IdleWorkers ==
  ASSUME EvidenceInv, worker' = worker
  PROVE  WorkersMay
BY DEF EvidenceInv, WorkersMay

-----------------------------------------------------------------------------
(* One lemma for each action                                               *)

LEMMA RespondReadKeeps ==
  ASSUME EvidenceInv, NEW t, NEW c, NEW S, NEW v, RespondRead(t, c, S, v)
  PROVE  Keeps
BY IdleWorkers, SameRowStep DEF RespondRead

LEMMA RespondStoreKeeps ==
  ASSUME EvidenceInv, NEW t, RespondStore(t), tab[t].case \in CaseName
  PROVE  Keeps
<1> DEFINE c == tab[t].case
           new == With(row[c], "stored", tab[t].merged)
<1>1. worker' = worker /\ row' \in {row, [row EXCEPT ![c] = new]}
  BY DEF RespondStore, With
<1>2. Kept(new, row[c]) /\ new.status = row[c].status
  BY KeptFields DEF EvidenceInv, RowsAreWhole
<1> HIDE DEF new
<1> QED
  BY <1>1, <1>2, IdleWorkers, SameRowStep, KeptStep

LEMMA RespondClaimKeeps ==
  ASSUME EvidenceInv, NEW t, RespondClaim(t), tab[t].case \in CaseName
  PROVE  Keeps
<1> DEFINE c == tab[t].case
           new == With(row[c], "status", "reasoning")
<1>1. /\ worker' = worker
      /\ row' = row \/ (row[c].status = "awaiting" /\ row' = [row EXCEPT ![c] = new])
  BY DEF RespondClaim, With
<1>2. Kept(new, row[c]) /\ new.status = "reasoning"
  BY KeptFields DEF EvidenceInv, RowsAreWhole
<1> HIDE DEF new
<1> QED
  BY <1>1, <1>2, IdleWorkers, SameRowStep, KeptStep DEF Early

LEMMA RespondCheckKeeps ==
  ASSUME EvidenceInv, NEW t, RespondCheck(t), tab[t].case \in CaseName,
         row[tab[t].case].status \notin Early
  PROVE  Keeps
<1> DEFINE c == tab[t].case
           missing == Missing(row[c].mode, OfStored(c, tab[t].merged))
           first == With(row[c], "status", "awaiting")
           new == With(first, "asked", missing)
<1>1. worker' = worker
  BY DEF RespondCheck
<1>2. row' = row \/ row' = [row EXCEPT ![c].status = "awaiting", ![c].asked = missing]
  BY Zenon DEF RespondCheck
<1> HIDE DEF missing
<1>3. Kept(first, row[c]) /\ first.status = "awaiting"
  BY KeptFields DEF EvidenceInv, RowsAreWhole
<1>4. [row EXCEPT ![c].status = "awaiting", ![c].asked = missing] = [row EXCEPT ![c] = new]
  BY DEF EvidenceInv, RowsAreWhole, With
<1> HIDE DEF first
<1>5. Kept(new, row[c]) /\ new.status = "awaiting"
  BY <1>3, KeptAgain
<1> HIDE DEF new
<1> QED
  BY <1>1, <1>2, <1>4, <1>5, IdleWorkers, SameRowStep, KeptStep DEF Early

LEMMA WorkerReadsKeeps ==
  ASSUME EvidenceInv, NEW c \in CaseName, WorkerReads(c)
  PROVE  Keeps
<1> DEFINE new == With(row[c], "status", "unavailable")
           n == OfStored(c, row[c].stored)
<1>1. row[c].status = "reasoning"
  BY DEF WorkerReads
<1>2. CASE worker' = worker /\ row' = [row EXCEPT ![c] = new]
  <2>1. Kept(new, row[c]) /\ new.status = "unavailable"
    BY KeptFields DEF EvidenceInv, RowsAreWhole
  <2> HIDE DEF new
  <2> QED
    BY <1>1, <1>2, <2>1, IdleWorkers, KeptStep DEF Early
<1>3. CASE worker' = [worker EXCEPT ![c] = n] /\ row' = row
  <2>1. PlainWorker(n, row[c])
    BY PlainWhereNotFound DEF PlainWorker, OfStored
  <2> HIDE DEF n
  <2>2. /\ worker' = [d \in CaseName |-> worker'[d]]
        /\ worker'[c] = n /\ \A d \in CaseName \ {c} : worker'[d] = worker[d]
    BY <1>3 DEF EvidenceInv
  <2>3. WorkersMay
    BY <1>1, <1>3, <2>1, <2>2 DEF WorkersMay, Early
  <2> QED
    BY <1>3, <2>3, SameRowStep
<1>4. \/ worker' = worker /\ row' = [row EXCEPT ![c] = new]
      \/ worker' = [worker EXCEPT ![c] = n] /\ row' = row
  BY DEF WorkerReads, With
<1> QED
  BY <1>2, <1>3, <1>4, Zenon

LEMMA WorkerFailsKeeps ==
  ASSUME EvidenceInv, NEW c \in CaseName, WorkerFails(c)
  PROVE  Keeps
<1> DEFINE new == With(row[c], "status", "unavailable")
<1>1. row' = [row EXCEPT ![c] = new] /\ worker' = [worker EXCEPT ![c] = Absent]
  BY DEF WorkerFails, With
<1>2. Kept(new, row[c]) /\ new.status = "unavailable"
  BY KeptFields DEF EvidenceInv, RowsAreWhole
<1>3. row[c].status \notin Early
  BY DEF WorkerFails, EvidenceInv, NothingEarly
<1> HIDE DEF new
<1>4. WorkersMay
  BY <1>1 DEF EvidenceInv, WorkersMay
<1> QED
  BY <1>1, <1>2, <1>3, <1>4, KeptStep DEF Early

LEMMA RetryStoredKeeps ==
  ASSUME EvidenceInv, NEW c \in CaseName, RetryStored(c)
  PROVE  Keeps
<1> DEFINE new == With(row[c], "status", "reasoning")
<1>1. row' = [row EXCEPT ![c] = new] /\ worker' = worker /\ row[c].status = "unavailable"
  BY DEF RetryStored, With
<1>2. Kept(new, row[c]) /\ new.status = "reasoning"
  BY KeptFields DEF EvidenceInv, RowsAreWhole
<1> HIDE DEF new
<1> QED
  BY <1>1, <1>2, IdleWorkers, KeptStep DEF Early

LEMMA UpdateOutOfScopeKeeps ==
  ASSUME EvidenceInv, UpdateOutOfScope
  PROVE  Keeps
<1> DEFINE c == "continued"
           questions == Asking({"continuation_scope_confirmation"})
           first == With(row[c], "status", "awaiting")
           new == With(first, "asked", questions)
<1>1. /\ c \in CaseName /\ worker' = worker /\ row[c].status = "updating"
      /\ row' = [row EXCEPT ![c].status = "awaiting", ![c].asked = questions]
  BY DEF UpdateOutOfScope, CaseName
<1> HIDE DEF questions
<1>2. [row EXCEPT ![c].status = "awaiting", ![c].asked = questions] = [row EXCEPT ![c] = new]
  BY DEF EvidenceInv, RowsAreWhole, With
<1> HIDE DEF c
<1>3. Kept(first, row[c]) /\ first.status = "awaiting"
  BY <1>1, KeptFields DEF EvidenceInv, RowsAreWhole
<1> HIDE DEF first
<1>4. Kept(new, row[c]) /\ new.status = "awaiting"
  BY <1>3, KeptAgain
<1> HIDE DEF new
<1> QED
  BY <1>1, <1>2, <1>4, IdleWorkers, KeptStep DEF Early

LEMMA UpdateFailsKeeps ==
  ASSUME EvidenceInv, UpdateFails
  PROVE  Keeps
<1> DEFINE c == "continued"
           new == With(row[c], "status", "unavailable")
<1>1. /\ c \in CaseName /\ worker' = worker /\ row[c].status = "updating"
      /\ row' = [row EXCEPT ![c] = new]
  BY DEF UpdateFails, CaseName, With
<1>2. Kept(new, row[c]) /\ new.status = "unavailable"
  BY <1>1, KeptFields DEF EvidenceInv, RowsAreWhole
<1> HIDE DEF new, c
<1> QED
  BY <1>1, <1>2, IdleWorkers, KeptStep DEF Early

LEMMA UpdateReconciledKeeps ==
  ASSUME EvidenceInv, UpdateReconciled
  PROVE  Keeps
<1> DEFINE c == "continued"
           n == Normalised(row[c].type, row[c].llm, Empty, row[c].vendors, row[c].found)
           was == row[c].stored
           changed == Changed(was.flat, n.flat)
           asks == changed # {} \/ n.conflicts # {}
           status == IF asks THEN "awaiting" ELSE "reasoning"
           questions == IF asks THEN Asking({"continuation_evidence_confirmation"}) ELSE {}
           stored == [flat |-> Over(n.flat, was.flat), freight |-> was.freight,
                      suppliers |-> IF n.suppliers = Empty THEN was.suppliers
                                    ELSE n.suppliers,
                      pending |-> changed]
           first == With(row[c], "status", status)
           second == With(first, "stored", stored)
           new == With(second, "asked", questions)
<1>1. c \in CaseName /\ worker' = worker /\ row[c].status = "updating"
  BY DEF UpdateReconciled, CaseName
<1>2. row' = [row EXCEPT ![c] = new]
  BY DEF UpdateReconciled, With
<1>3. status \notin Early
  BY DEF Early
<1> HIDE DEF status, stored, questions, c
<1>4. Kept(first, row[c]) /\ first.status = status
  BY <1>1, KeptFields DEF EvidenceInv, RowsAreWhole
<1> HIDE DEF first
<1>5. Kept(second, row[c]) /\ second.status = status
  BY <1>4, KeptAgain
<1> HIDE DEF second
<1>6. Kept(new, row[c]) /\ new.status = status
  BY <1>5, KeptAgain
<1> HIDE DEF new
<1> QED
  BY <1>1, <1>2, <1>3, <1>6, IdleWorkers, KeptStep DEF Early

\* What the worker adds is about fields that had no source: the others are on
\* record, and an entry that is there is kept.
LEMMA WorkerPublishesKeeps ==
  ASSUME EvidenceInv, NEW c \in CaseName, WorkerPublishes(c)
  PROVE  Keeps
<1> DEFINE prov == Over(row[c].prov, worker[c].prov)
           first == With(row[c], "status", "completed")
           new == With(first, "prov", prov)
<1>1. /\ row[c].status = "reasoning" /\ worker[c] # Absent
      /\ worker' = [worker EXCEPT ![c] = Absent]
      /\ row' = [row EXCEPT ![c].status = "completed", ![c].prov = prov]
  BY DEF WorkerPublishes, MergedProvenance
<1>2. /\ DOMAIN prov = DOMAIN row[c].prov \cup DOMAIN worker[c].prov
      /\ \A f \in DOMAIN prov :
           prov[f] = IF f \in DOMAIN row[c].prov THEN row[c].prov[f] ELSE worker[c].prov[f]
  BY DEF Over
<1> HIDE DEF prov
<1>3. [row EXCEPT ![c].status = "completed", ![c].prov = prov] = [row EXCEPT ![c] = new]
  BY DEF EvidenceInv, RowsAreWhole, With
<1>4. Kept(first, row[c]) /\ first.status = "completed"
  BY KeptFields DEF EvidenceInv, RowsAreWhole
<1> HIDE DEF first
<1>5. /\ IsRow(new) /\ new.prov = prov /\ new.status = "completed"
      /\ new.type = row[c].type /\ new.llm = row[c].llm
      /\ new.found = row[c].found /\ new.vendors = row[c].vendors
  BY <1>4, RowChanged DEF Kept, RowField
<1> HIDE DEF new
<1>6. RowsAreWhole' /\ row'[c] = new /\ \A d \in CaseName \ {c} : row'[d] = row[d]
  BY <1>1, <1>3, <1>5, RowStep DEF EvidenceInv
<1>7. /\ worker' = [d \in CaseName |-> worker'[d]] /\ worker'[c] = Absent
      /\ \A d \in CaseName \ {c} : worker'[d] = worker[d]
  BY <1>1 DEF EvidenceInv
<1>8. NothingEarly'
  BY <1>5, <1>6, <1>7 DEF EvidenceInv, NothingEarly, Early
<1>9. WorkersArePlain'
  BY <1>6, <1>7 DEF EvidenceInv, WorkersArePlain, PlainWorker
<1>10. SourcesStand
  BY <1>2, <1>5, <1>6 DEF SourcesStand
<1>11. Grows
  BY <1>5, <1>6 DEF Grows, Early
<1>12. SourcesRecorded'
  <2>1. CASE c = "created"
    BY <1>1, <1>2, <1>5, <1>6, <2>1 DEF EvidenceInv, SourcesRecorded, HasSource, Early
  <2>2. CASE c # "created"
    BY <1>6, <2>2 DEF EvidenceInv, SourcesRecorded, HasSource, CaseName
  <2> QED
    BY <2>1, <2>2
<1>13. ProvenanceIsHonest'
  <2>1. CASE c = "created"
    <3> SUFFICES ASSUME NEW f \in DOMAIN prov \cap PatternFields(row[c].type)
                 PROVE  HonestEntry(prov[f], Claimed(row[c].llm, f), At(row[c].found, f),
                                    Varies(row[c].vendors, f))
      BY <1>5, <1>6, <2>1 DEF ProvenanceIsHonest, HonestEntry
    <3>1. CASE f \in DOMAIN row[c].prov
      BY <1>2, <2>1, <3>1 DEF EvidenceInv, ProvenanceIsHonest, HonestEntry
    <3>2. CASE f \notin DOMAIN row[c].prov
      <4>1. At(row[c].found, f) = Absent
        BY <1>1, <2>1, <3>2 DEF EvidenceInv, SourcesRecorded, HasSource, Early
      <4>2. f \in DOMAIN worker[c].prov /\ prov[f] = worker[c].prov[f]
        BY <1>2, <3>2
      <4>3. Plain(prov[f])
        BY <1>1, <4>1, <4>2 DEF EvidenceInv, WorkersArePlain, PlainWorker
      <4> QED
        BY <4>1, <4>3 DEF Plain, HonestEntry
    <3> QED
      BY <3>1, <3>2
  <2>2. CASE c # "created"
    BY <1>6, <2>2 DEF EvidenceInv, ProvenanceIsHonest, CaseName
  <2> QED
    BY <2>1, <2>2
<1> QED
  BY <1>6, <1>7, <1>8, <1>9, <1>10, <1>11, <1>12, <1>13 DEF EvidenceInv, Keeps

\* A new row, with nothing on record.
LEMMA NewRow ==
  ASSUME NEW s, NEW type, NEW mode, NEW x
  PROVE  LET new == [NoRow EXCEPT !.status = s, !.type = type, !.mode = mode, !.llm = x.llm,
                                  !.found = x.found, !.vendors = x.vendors]
         IN IsRow(new) /\ new.status = s /\ DOMAIN new.prov = {}
<1> DEFINE a == With(NoRow, "status", s)
           b == With(a, "type", type)
           c == With(b, "mode", mode)
           d == With(c, "llm", x.llm)
           e == With(d, "found", x.found)
           new == With(e, "vendors", x.vendors)
           Fresh(r) == IsRow(r) /\ r.status = s /\ DOMAIN r.prov = {}
<1>1. IsRow(NoRow) /\ DOMAIN NoRow.prov = {}
  BY NothingIn DEF NoRow, IsRow, RowField
<1>2. Fresh(a)
  BY <1>1, RowChanged DEF RowField
<1>3. ASSUME NEW r, Fresh(r), NEW f \in {"type", "mode", "llm", "found", "vendors"}, NEW v
      PROVE  Fresh(With(r, f, v))
  BY <1>3, RowChanged DEF RowField
<1> HIDE DEF a, Fresh
<1>4. Fresh(b)
  BY <1>2, <1>3
<1> HIDE DEF b
<1>5. Fresh(c)
  BY <1>3, <1>4
<1> HIDE DEF c
<1>6. Fresh(d)
  BY <1>3, <1>5
<1> HIDE DEF d
<1>7. Fresh(e)
  BY <1>3, <1>6
<1> HIDE DEF e
<1>8. Fresh(new)
  BY <1>3, <1>7
<1>9. new = [NoRow EXCEPT !.status = s, !.type = type, !.mode = mode, !.llm = x.llm,
                          !.found = x.found, !.vendors = x.vendors]
  BY Zenon DEF a, b, c, d, e, With
<1> QED
  BY <1>8, <1>9, Zenon DEF Fresh

LEMMA CreateCaseKeeps ==
  ASSUME EvidenceInv, NEW x, CreateCase(x)
  PROVE  Keeps
<1> DEFINE new == [NoRow EXCEPT !.status = "classifying", !.type = x.type, !.mode = x.mode,
                                !.llm = x.llm, !.found = x.found, !.vendors = x.vendors]
<1>1. /\ worker' = worker /\ row["created"].status = "absent"
      /\ row' = [row EXCEPT !["created"] = new]
  BY DEF CreateCase
<1>2. IsRow(new) /\ new.status = "classifying" /\ DOMAIN new.prov = {}
  BY NewRow
<1> HIDE DEF new
<1>3. /\ RowsAreWhole' /\ row'["created"] = new
      /\ \A d \in CaseName \ {"created"} : row'[d] = row[d]
  BY <1>1, <1>2, RowStep DEF EvidenceInv, CaseName
<1>4. DOMAIN row["created"].prov = {} /\ worker["created"] = Absent
  BY <1>1 DEF EvidenceInv, NothingEarly, Early, CaseName
<1>5. NothingEarly'
  BY <1>1, <1>2, <1>3, <1>4 DEF EvidenceInv, NothingEarly, CaseName
<1>6. SourcesRecorded'
  BY <1>2, <1>3 DEF SourcesRecorded, Early
<1>7. WorkersArePlain'
  BY <1>1, <1>3, <1>4 DEF EvidenceInv, WorkersArePlain, PlainWorker
<1>8. ProvenanceIsHonest'
  BY <1>2, <1>3 DEF ProvenanceIsHonest
<1>9. SourcesStand /\ Grows
  BY <1>1, <1>3, <1>4 DEF SourcesStand, Grows, Early
<1> QED
  BY <1>1, <1>3, <1>5, <1>6, <1>7, <1>8, <1>9 DEF EvidenceInv, Keeps

LEMMA ContinueCaseKeeps ==
  ASSUME EvidenceInv, NEW x, ContinueCase(x)
  PROVE  Keeps
<1> DEFINE p == row["created"]
           first == [NoRow EXCEPT !.status = "updating", !.type = p.type, !.mode = p.mode,
                                  !.llm = x.llm, !.found = x.found, !.vendors = x.vendors]
           new == With(first, "stored", p.stored)
<1>1. /\ worker' = worker /\ row["continued"].status = "absent"
      /\ row' = [row EXCEPT !["continued"] = new]
  BY DEF ContinueCase, With
<1>2. IsRow(first) /\ first.status = "updating" /\ DOMAIN first.prov = {}
  BY NewRow
<1> HIDE DEF first
<1>3. IsRow(new) /\ new.status = "updating"
  BY <1>2, KeptFields DEF Kept
<1> HIDE DEF new
<1>4. /\ RowsAreWhole' /\ row'["continued"] = new
      /\ \A d \in CaseName \ {"continued"} : row'[d] = row[d]
  BY <1>1, <1>3, RowStep DEF EvidenceInv, CaseName
<1>5. DOMAIN row["continued"].prov = {} /\ worker["continued"] = Absent
  BY <1>1 DEF EvidenceInv, NothingEarly, Early, CaseName
<1>6. row'["created"] = row["created"]
  BY <1>4 DEF CaseName
<1>7. NothingEarly'
  BY <1>1, <1>3, <1>4, <1>5 DEF EvidenceInv, NothingEarly, Early
<1>8. SourcesRecorded'
  BY <1>6 DEF EvidenceInv, SourcesRecorded, HasSource
<1>9. WorkersArePlain'
  BY <1>1, <1>4, <1>5 DEF EvidenceInv, WorkersArePlain, PlainWorker
<1>10. ProvenanceIsHonest'
  BY <1>6 DEF EvidenceInv, ProvenanceIsHonest
<1>11. SourcesStand /\ Grows
  BY <1>3, <1>4, <1>5 DEF SourcesStand, Grows, Early
<1> QED
  BY <1>1, <1>4, <1>7, <1>8, <1>9, <1>10, <1>11 DEF EvidenceInv, Keeps

LEMMA ClassifiedKeeps ==
  ASSUME EvidenceInv, Classified
  PROVE  Keeps
<1> DEFINE c == "created"
           n == Normalised(row[c].type, row[c].llm, Empty, row[c].vendors, row[c].found)
           missing == IF row[c].mode = "market_intelligence" THEN {} ELSE Missing(row[c].mode, n)
           status == IF missing = {} THEN "reasoning" ELSE "awaiting"
           stored == [flat |-> n.flat, freight |-> Empty, suppliers |-> n.suppliers,
                      pending |-> {}]
           first == With(row[c], "status", status)
           second == With(first, "stored", stored)
           third == With(second, "prov", n.prov)
           new == With(third, "asked", missing)
<1>1. c \in CaseName /\ worker' = worker /\ row[c].status = "classifying"
  BY DEF Classified, CaseName
<1>2. row' = [row EXCEPT ![c] = new]
  BY DEF Classified, With
<1>3. status \notin Early
  BY DEF Early
<1>4. n.prov = Normalised(row[c].type, row[c].llm, Empty, row[c].vendors, row[c].found).prov
  OBVIOUS
<1> HIDE DEF n, missing, status, stored, c
<1>5. Kept(first, row[c]) /\ first.status = status
  BY <1>1, KeptFields DEF EvidenceInv, RowsAreWhole
<1> HIDE DEF first
<1>6. Kept(second, row[c]) /\ second.status = status
  BY <1>5, KeptAgain
<1> HIDE DEF second
<1>7. /\ IsRow(third) /\ third.prov = n.prov /\ third.status = status
      /\ third.type = row[c].type /\ third.llm = row[c].llm
      /\ third.found = row[c].found /\ third.vendors = row[c].vendors
  BY <1>6, RowChanged DEF Kept, RowField
<1> HIDE DEF third
<1>8. Kept(new, third) /\ new.status = status
  BY <1>7, KeptFields
<1> HIDE DEF new
<1>9. /\ new.prov = n.prov /\ new.type = row[c].type /\ new.llm = row[c].llm
      /\ new.found = row[c].found /\ new.vendors = row[c].vendors
  BY <1>7, <1>8 DEF Kept
<1>10. RowsAreWhole' /\ row'[c] = new /\ \A d \in CaseName \ {c} : row'[d] = row[d]
  BY <1>1, <1>2, <1>8, RowStep DEF EvidenceInv, Kept
<1>11. DOMAIN row[c].prov = {} /\ worker[c] = Absent
  BY <1>1 DEF EvidenceInv, NothingEarly, Early
<1>12. NothingEarly'
  BY <1>1, <1>3, <1>8, <1>10 DEF EvidenceInv, NothingEarly
<1>13. WorkersArePlain'
  BY <1>1, <1>10, <1>11 DEF EvidenceInv, WorkersArePlain, PlainWorker
<1>14. SourcesStand /\ Grows
  BY <1>3, <1>8, <1>10, <1>11 DEF SourcesStand, Grows
<1>15. ASSUME NEW f \in PatternFields(row[c].type)
       PROVE  /\ HasSource(row[c], f) => f \in DOMAIN n.prov
              /\ f \in DOMAIN n.prov =>
                   HonestEntry(n.prov[f], Claimed(row[c].llm, f), At(row[c].found, f),
                               Varies(row[c].vendors, f))
  BY <1>4, HonestFirst DEF HasSource, HasValue
<1>16. SourcesRecorded'
  BY <1>9, <1>10, <1>15 DEF SourcesRecorded, HasSource, c
<1>17. ProvenanceIsHonest'
  BY <1>9, <1>10, <1>15 DEF ProvenanceIsHonest, HonestEntry, c
<1> QED
  BY <1>1, <1>10, <1>12, <1>13, <1>14, <1>16, <1>17 DEF EvidenceInv, Keeps

-----------------------------------------------------------------------------
(* The tabs, which only ever answer for a case that is classified          *)

TabField == {"pc", "case", "merged", "before", "answers"}

IsTab(r) == r = [f \in TabField |-> r[f]] /\ r.case \in CaseName

TabsLate ==
  /\ tab = [t \in Tab |-> tab[t]]
  /\ \A t \in Tab :
       IsTab(tab[t]) /\ (tab[t].pc # "idle" => row[tab[t].case].status \notin Early)

LEMMA TabStep ==
  ASSUME TabsLate, Grows, NEW t \in Tab, NEW new, tab' = [tab EXCEPT ![t] = new], IsTab(new),
         new.pc # "idle" => row[new.case].status \notin Early
  PROVE  TabsLate'
<1>1. /\ tab' = [u \in Tab |-> tab'[u]]
      /\ tab'[t] = new /\ \A u \in Tab \ {t} : tab'[u] = tab[u]
  BY DEF TabsLate
<1>2. ASSUME NEW u \in Tab
      PROVE  IsTab(tab'[u]) /\ (tab'[u].pc # "idle" => row'[tab'[u].case].status \notin Early)
  <2>1. CASE u = t
    BY <1>1, <2>1 DEF Grows, IsTab
  <2>2. CASE u # t
    BY <1>1, <2>2 DEF Grows, IsTab, TabsLate
  <2> QED
    BY <2>1, <2>2
<1> QED
  BY <1>1, <1>2 DEF TabsLate, IsTab

LEMMA SameTabs ==
  ASSUME TabsLate, Grows, tab' = tab
  PROVE  TabsLate'
BY DEF TabsLate, Grows, IsTab

LEMMA IdleIsTab == IsTab(Idle) /\ Idle.pc = "idle"
BY DEF Idle, IsTab, TabField, CaseName

LEMMA TabMoves ==
  ASSUME NEW r, IsTab(r), NEW pc
  PROVE  /\ IsTab([r EXCEPT !.pc = pc])
         /\ [r EXCEPT !.pc = pc].pc = pc /\ [r EXCEPT !.pc = pc].case = r.case
<1> DEFINE same == [f \in TabField |-> r[f]]
           then == [f \in TabField |-> IF f = "pc" THEN pc ELSE r[f]]
           new == [r EXCEPT !.pc = pc]
<1>1. r = same
  BY Zenon DEF IsTab
<1>2. [same EXCEPT !.pc = pc] = then
  OBVIOUS
<1>3. new = then
  BY <1>1, <1>2, Zenon
<1>4. then = [f \in TabField |-> then[f]] /\ then.pc = pc /\ then.case = r.case
  BY DEF TabField
<1> HIDE DEF then, new
<1>5. IsTab(new) /\ new.pc = pc /\ new.case = r.case
  BY <1>3, <1>4 DEF IsTab
<1> QED
  BY <1>5 DEF new

LEMMA RespondReadTabs ==
  ASSUME TabsLate, Grows, NEW t \in Tab, NEW c \in CaseName, NEW S, NEW v,
         RespondRead(t, c, S, v)
  PROVE  TabsLate'
<1> DEFINE merged == [flat |-> Over(AnswerField(S, v), row[c].stored.flat),
                      freight |-> Over(AnswerFreight(S, v), row[c].stored.freight),
                      suppliers |-> row[c].stored.suppliers, pending |-> {}]
           answers == AnswerField(S, v)
           before == row[c].stored
           new == [pc |-> "store", case |-> c, before |-> before, answers |-> answers,
                   merged |-> merged]
<1>1. tab' = [tab EXCEPT ![t] = new] /\ row[c].status = "awaiting"
  BY DEF RespondRead
<1> HIDE DEF merged, answers, before
<1>2. new = [f \in TabField |-> new[f]] /\ new.case = c
  BY DEF TabField
<1> HIDE DEF new
<1>3. IsTab(new)
  BY <1>2 DEF IsTab
<1> QED
  BY <1>1, <1>2, <1>3, TabStep DEF Early

LEMMA RespondTabs ==
  ASSUME TabsLate, Grows, NEW t \in Tab, RespondStore(t) \/ RespondClaim(t) \/ RespondCheck(t)
  PROVE  TabsLate'
<1> DEFINE claim == [tab[t] EXCEPT !.pc = "claim"]
           check == [tab[t] EXCEPT !.pc = "check"]
<1>1. /\ tab[t].pc # "idle"
      /\ tab' \in {[tab EXCEPT ![t] = Idle], [tab EXCEPT ![t] = claim], [tab EXCEPT ![t] = check]}
  BY DEF RespondStore, RespondClaim, RespondCheck
<1>2. /\ IsTab(claim) /\ claim.case = tab[t].case
      /\ IsTab(check) /\ check.case = tab[t].case
  BY TabMoves DEF TabsLate
<1>3. row[tab[t].case].status \notin Early
  BY <1>1 DEF TabsLate
<1> HIDE DEF claim, check
<1> QED
  BY <1>1, <1>2, <1>3, IdleIsTab, TabStep

-----------------------------------------------------------------------------
(* The theorems                                                            *)

IInv == EvidenceInv /\ TabsLate

LEMMA InitHolds == EvidenceInit => IInv
<1> SUFFICES ASSUME EvidenceInit PROVE IInv
  OBVIOUS
<1>1. /\ row = [c \in CaseName |-> NoRow] /\ worker = [c \in CaseName |-> Absent]
      /\ tab = [t \in Tab |-> Idle]
  BY DEF EvidenceInit
<1>2. IsRow(NoRow) /\ NoRow.status = "absent" /\ DOMAIN NoRow.prov = {}
  BY NothingIn DEF NoRow, IsRow, RowField
<1>3. \A c \in CaseName : row[c] = NoRow /\ worker[c] = Absent
  BY <1>1
<1>4. RowsAreWhole
  BY <1>1, <1>2, <1>3 DEF RowsAreWhole
<1>5. worker = [c \in CaseName |-> worker[c]] /\ NothingEarly /\ WorkersArePlain
  BY <1>1, <1>2, <1>3 DEF NothingEarly, WorkersArePlain
<1>6. SourcesRecorded /\ ProvenanceIsHonest
  BY <1>2, <1>3 DEF SourcesRecorded, ProvenanceIsHonest, Early, CaseName
<1>7. TabsLate
  BY <1>1, IdleIsTab DEF TabsLate
<1> QED
  BY <1>4, <1>5, <1>6, <1>7 DEF IInv, EvidenceInv

LEMMA StepHolds == IInv /\ [EvidenceNext]_evidenceVars => IInv' /\ SourcesStand
<1> SUFFICES ASSUME IInv, [EvidenceNext]_evidenceVars PROVE Keeps /\ TabsLate'
  BY DEF IInv, Keeps
<1>1. EvidenceInv /\ TabsLate
  BY DEF IInv
<1>2. CASE \E x \in CaseText : CreateCase(x)
  <2>1. Keeps /\ tab' = tab
    BY <1>1, <1>2, CreateCaseKeeps DEF CreateCase
  <2> QED
    BY <1>1, <2>1, SameTabs DEF Keeps
<1>3. CASE \E x \in Update : ContinueCase(x)
  <2>1. Keeps /\ tab' = tab
    BY <1>1, <1>3, ContinueCaseKeeps DEF ContinueCase
  <2> QED
    BY <1>1, <2>1, SameTabs DEF Keeps
<1>4. CASE Classified \/ UpdateOutOfScope \/ UpdateReconciled \/ UpdateFails
  <2>1. Keeps
    BY <1>1, <1>4, ClassifiedKeeps, UpdateOutOfScopeKeeps, UpdateReconciledKeeps,
       UpdateFailsKeeps
  <2>2. tab' = tab
    BY <1>4 DEF Classified, UpdateOutOfScope, UpdateReconciled, UpdateFails
  <2> QED
    BY <1>1, <2>1, <2>2, SameTabs DEF Keeps
<1>5. CASE \E t \in Tab, c \in CaseName : \E S \in Answered(row[c].asked), v \in Answer :
             RespondRead(t, c, S, v)
  <2> PICK t \in Tab, c \in CaseName :
             \E S \in Answered(row[c].asked), v \in Answer : RespondRead(t, c, S, v)
    BY <1>5
  <2> PICK S \in Answered(row[c].asked), v \in Answer : RespondRead(t, c, S, v)
    OBVIOUS
  <2>1. Keeps
    BY <1>1, RespondReadKeeps
  <2> QED
    BY <1>1, <2>1, RespondReadTabs DEF Keeps
<1>6. CASE \E t \in Tab : RespondStore(t) \/ RespondClaim(t) \/ RespondCheck(t)
  <2> PICK t \in Tab : RespondStore(t) \/ RespondClaim(t) \/ RespondCheck(t)
    BY <1>6
  <2>1. /\ tab[t].case \in CaseName
        /\ tab[t].pc # "idle" => row[tab[t].case].status \notin Early
    BY <1>1 DEF TabsLate, IsTab
  <2>2. RespondCheck(t) => tab[t].pc # "idle"
    BY DEF RespondCheck
  <2>3. Keeps
    BY <1>1, <2>1, <2>2, RespondStoreKeeps, RespondClaimKeeps, RespondCheckKeeps
  <2> QED
    BY <1>1, <2>3, RespondTabs DEF Keeps
<1>7. CASE \E c \in CaseName :
             WorkerReads(c) \/ WorkerPublishes(c) \/ WorkerFails(c) \/ RetryStored(c)
  <2>1. Keeps
    BY <1>1, <1>7, WorkerReadsKeeps, WorkerPublishesKeeps, WorkerFailsKeeps, RetryStoredKeeps
  <2>2. tab' = tab
    BY <1>7 DEF WorkerReads, WorkerPublishes, WorkerFails, RetryStored
  <2> QED
    BY <1>1, <2>1, <2>2, SameTabs DEF Keeps
<1>8. CASE UNCHANGED evidenceVars
  <2>1. row' = row /\ worker' = worker /\ tab' = tab
    BY <1>8 DEF evidenceVars
  <2>2. Keeps
    BY <1>1, <2>1, IdleWorkers, SameRowStep
  <2> QED
    BY <1>1, <2>1, <2>2, SameTabs DEF Keeps
<1> QED
  BY <1>2, <1>3, <1>4, <1>5, <1>6, <1>7, <1>8 DEF EvidenceNext

\* What the provenance of a case says, to its end, is what happened when
\* normalize_evidence first saw it: sources that agree both had the value, and
\* a conflict is on record where they differed, however often the evidence is
\* answered, stored, normalised again and merged.
THEOREM ProvenanceStaysHonest == EvidenceSpec => []ProvenanceIsHonest
<1>1. IInv => ProvenanceIsHonest
  BY DEF IInv, EvidenceInv
<1> QED
  BY <1>1, InitHolds, StepHolds, PTL DEF EvidenceSpec

\* The source that _merge_final_provenance first recorded of a field is never
\* replaced or lost, by an answer, a retry, a continuation or a later pass.
THEOREM FirstSourcesStand == EvidenceSpec => FirstSourceStands
<1>1. IInv /\ [EvidenceNext]_evidenceVars =>
        [\A c \in CaseName : \A f \in DOMAIN row[c].prov :
           f \in DOMAIN row'[c].prov /\ row'[c].prov[f] = row[c].prov[f]]_evidenceVars
  BY StepHolds DEF SourcesStand
<1> QED
  BY <1>1, InitHolds, StepHolds, PTL DEF EvidenceSpec, FirstSourceStands
=============================================================================
