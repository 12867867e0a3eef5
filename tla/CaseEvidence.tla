---------------------------- MODULE CaseEvidence ----------------------------
(***************************************************************************)
(* The evidence of a case: what the classifier extracts and what patterns  *)
(* find in the text become one normalised record; a gate asks for what is  *)
(* missing; answers are merged into what is stored; the worker normalises  *)
(* it again and reasons; a continuation reconciles an update with what its *)
(* parent had.                                                             *)
(*                                                                         *)
(* A record is a function from the fields that are present, as a dict of   *)
(* the code is. Lists of claims, views and prices pass through unchanged   *)
(* and are left out. Attempts, jobs and deaths are in JobLifecycle: here   *)
(* one worker at a time takes what was queued.                             *)
(***************************************************************************)
EXTENDS Integers, FiniteSets

CONSTANTS
  Vendor,    \* the suppliers that texts may name
  CaseText,  \* what a user may write as a new case: its type and mode, what the
             \* classifier extracts of it and what the patterns find in it
  Update,    \* the same for what happened since, without type and mode
  Answer,    \* the values that a user may answer with
  Tab,       \* browser tabs that answer the questions of a case
  Absent     \* a value that is not there

\* A value is a number, a text that reads as a number, or another text.
ValueShape == {"number", "numeral", "text"} \X Int

VARIABLES
  row,       \* of the created case and its continuation: the table's row
  queued,    \* the cases whose job is queued
  tab,       \* of a tab: the answer that its request carries, and how far it is
  worker,    \* the evidence that a worker reasons on
  basis,     \* history: the evidence of a published position
  raced,     \* history: two answers to the same questions have overlapped
  allowed    \* history: the fields that a user answered or confirmed

evidenceVars == <<row, queued, tab, worker, basis, raced, allowed>>

-----------------------------------------------------------------------------
(***************************************************************************)
(* normalize_evidence                                                      *)
(***************************************************************************)

\* The fields that are also looked for by patterns in the text.
CommonPatterns == {"supplier_region_or_market", "supplier_currency", "incoterm",
                   "duty_or_tax_rate_percent", "annual_volume_units"}
PricePatterns == {"annual_spend_usd", "requested_increase_percent"}

PatternFields(type) ==
  CommonPatterns \cup (IF type = "price_increase" THEN PricePatterns ELSE {})

\* What may differ from one supplier to another without being a conflict.
PerVendor == {"incoterm", "supplier_region_or_market", "supplier_currency"}

CoercedFields == {"duty_or_tax_rate_percent", "annual_volume_units", "unit_price_usd",
                  "annual_spend_usd"}

PlainNumbers(type) ==
  {"unit_price_usd"} \cup
  (IF type = "price_increase"
   THEN {"category_annual_spend_usd", "category_prior_annual_spend_usd",
         "category_annual_volume_units", "category_prior_annual_volume_units"}
   ELSE {})

RequiredOf ==
  [price_increase |-> {"current_price_or_terms", "requested_increase_percent",
                       "suppliers_stated_justification",
                       "how_critical_is_this_supplier_relationship"},
   quote_comparison |-> {"number_of_suppliers_being_compared", "price_per_supplier",
                         "payment_terms_per_supplier", "lead_time_per_supplier",
                         "quality_or_defect_history_per_supplier",
                         "is_this_a_new_or_incumbent_relationship"},
   problem_solving |-> {"problem_statement", "current_condition", "desired_condition"}]

PlainTexts(type) ==
  (RequiredOf[type] \ {"requested_increase_percent"}) \cup
  (IF type = "price_increase"
   THEN {"freight_cost_or_estimate", "specification_change_description"} ELSE {})

At(dict, f) == IF f \in DOMAIN dict THEN dict[f] ELSE Absent
Present(dict) == [f \in {f \in DOMAIN dict : dict[f] # Absent} |-> dict[f]]
Over(new, old) ==
  [f \in DOMAIN new \cup DOMAIN old |-> IF f \in DOMAIN new THEN new[f] ELSE old[f]]

TermOfVendor == {"incoterm", "region", "currency", "freight", "otif", "spend", "prior"}

\* What the model and the patterns make of a text. A pattern that looks for a
\* number returns one; the model may put anything anywhere.
ReadingOK(x) ==
  /\ \A f \in DOMAIN x.llm : x.llm[f] \in ValueShape \cup {Absent}
  /\ \A f \in DOMAIN x.found :
       /\ x.found[f] \in ValueShape
       /\ f \in CoercedFields \cup {"requested_increase_percent"} =>
            x.found[f][1] = "number"
  /\ DOMAIN x.vendors \subseteq Vendor
  /\ \A s \in DOMAIN x.vendors :
       x.vendors[s] \in [TermOfVendor -> ValueShape \cup {Absent}]

ASSUME EvidenceAssumption ==
  /\ Absent \notin ValueShape
  /\ Answer \subseteq ValueShape
  /\ \A x \in CaseText : ReadingOK(x) /\ x.type \in DOMAIN RequiredOf
  /\ \A x \in Update : ReadingOK(x)

\* _coerce_number: prose where a number belongs is no evidence.
Coerced(v) == IF v = Absent \/ v[1] = "text" THEN Absent ELSE <<"number", v[2]>>

\* _coerce_text, where a bare number is as good as a text.
Texted(v) == IF v # Absent /\ v[1] = "number" THEN <<"numeral", v[2]>> ELSE v

\* The model's claim on a field. A text is not trusted to be the percentage.
Claimed(given, f) ==
  LET v == At(given, f) IN
  CASE f \in CoercedFields -> Coerced(v)
    [] f = "requested_increase_percent" ->
         IF v # Absent /\ v[1] = "number" THEN v ELSE Absent
    [] OTHER -> v

\* Broken: the two are taken to agree wherever both are present.
ResolveTrusting(claimed, found) ==
  [value |-> IF claimed # Absent THEN claimed ELSE found,
   source |-> CASE claimed = Absent -> "deterministic_fallback"
                [] found = Absent -> "llm_extraction"
                [] OTHER -> "both_agree",
   conflict |-> FALSE]

\* _resolve_field, of which the claim is the primary value.
Resolve(claimed, found) ==
  [value |-> IF claimed # Absent THEN claimed ELSE found,
   source |-> CASE claimed = Absent -> "deterministic_fallback"
                [] claimed = found -> "both_agree"
                [] OTHER -> "llm_extraction",
   conflict |-> claimed # Absent /\ found # Absent /\ claimed # found]

VendorAttr == [incoterm |-> "incoterm", supplier_region_or_market |-> "region",
               supplier_currency |-> "currency"]

Varies(vendors, f) ==
  f \in PerVendor /\
  Cardinality({vendors[s][VendorAttr[f]] : s \in DOMAIN vendors} \ {Absent}) >= 2

BuyerPays == {<<"text", 1>>, <<"text", 2>>}  \* of the Incoterms: EXW, FCA, FAS, FOB

\* The figures of the category are not coerced: prose among them raises.
Raises(type, given) ==
  \E f \in PlainNumbers(type) \ CoercedFields :
    At(given, f) # Absent /\ At(given, f)[1] = "text"

\* The evidence, its provenance, and whether freight is for the buyer to pay.
Normalised(type, given, freight, vendors, found) ==
  LET suppliers ==
        [s \in DOMAIN vendors |->
           IF At(freight, s) = Absent THEN vendors[s]
           ELSE [vendors[s] EXCEPT !.freight = freight[s]]]
      resolved ==
        [f \in {f \in PatternFields(type) :
                  Claimed(given, f) # Absent \/ At(found, f) # Absent
                    \/ Varies(suppliers, f)} |->
           IF Varies(suppliers, f)
           THEN [value |-> Absent, source |-> "llm_extraction", conflict |-> FALSE]
           ELSE Resolve(Claimed(given, f), At(found, f))]
      pattern == [f \in DOMAIN resolved |-> resolved[f].value]
      plain == [f \in PlainNumbers(type) \cup PlainTexts(type) |->
                  IF f \in PlainTexts(type) THEN Texted(At(given, f))
                  ELSE IF At(given, f) = Absent THEN Absent ELSE Coerced(At(given, f))]
      spend == At(pattern, "annual_spend_usd")
      price == IF /\ type = "price_increase" /\ spend # Absent
                  /\ plain["current_price_or_terms"] = Absent
               THEN [current_price_or_terms |-> <<"text", spend[2]>>] ELSE <<>>
      flat == Present(Over(price, Over(pattern, plain)))
  IN [type      |-> type,
      flat      |-> flat,
      suppliers |-> suppliers,
      prov      |-> Over([f \in DOMAIN resolved |->
                            [source |-> resolved[f].source,
                             conflicting |-> resolved[f].conflict]],
                         [f \in (DOMAIN given \cap (PlainTexts(type) \cup PlainNumbers(type)))
                                  \ {"freight_cost_or_estimate"} |->
                            [source |-> "llm_extraction", conflicting |-> FALSE]]),
      conflicts |-> {f \in DOMAIN resolved : resolved[f].conflict},
      freightRelevant |-> \/ At(flat, "incoterm") \in BuyerPays
                          \/ \E s \in DOMAIN suppliers : suppliers[s].incoterm \in BuyerPays]

-----------------------------------------------------------------------------
(***************************************************************************)
(* check_missing_evidence                                                  *)
(***************************************************************************)

Asking(fields) == {<<"field", f>> : f \in fields}

Compared(n, now, before) == {now, before} \subseteq DOMAIN n.flat

SignalIsThere(n) ==
  \/ Compared(n, "category_annual_spend_usd", "category_prior_annual_spend_usd")
  \/ Compared(n, "category_annual_volume_units", "category_prior_annual_volume_units")
  \/ "specification_change_description" \in DOMAIN n.flat
  \/ \E s \in DOMAIN n.suppliers :
       n.suppliers[s].otif # Absent \/ (n.suppliers[s].spend # Absent
                                        /\ n.suppliers[s].prior # Absent)

SpendIsThere(n) ==
  \/ "category_annual_spend_usd" \in DOMAIN n.flat
  \/ \E s \in DOMAIN n.suppliers : n.suppliers[s].spend # Absent

VendorFreightMissing(n) ==
  {<<"freight", s>> : s \in {s \in DOMAIN n.suppliers :
                               /\ n.suppliers[s].incoterm \in BuyerPays
                               /\ n.suppliers[s].freight = Absent}}

Missing(mode, n) ==
  CASE n.type = "problem_solving" ->
         IF "problem_statement" \notin DOMAIN n.flat THEN Asking({"problem_statement"})
         ELSE IF {"current_condition", "desired_condition"} \cap DOMAIN n.flat = {}
              THEN Asking({"current_condition"}) ELSE {}
    [] n.type # "problem_solving" /\ mode = "commercial_signal" ->
         IF SignalIsThere(n) THEN {} ELSE Asking({"category_annual_spend_usd"})
    [] n.type # "problem_solving" /\ mode = "category_strategy" ->
         IF SpendIsThere(n) THEN {} ELSE Asking({"category_annual_spend_usd"})
    [] OTHER ->
         Asking((RequiredOf[n.type] \cup
                   IF n.type = "price_increase" /\ n.freightRelevant
                   THEN {"freight_cost_or_estimate"} ELSE {}) \ DOMAIN n.flat)
         \cup IF n.type = "quote_comparison" THEN VendorFreightMissing(n) ELSE {}

-----------------------------------------------------------------------------
(***************************************************************************)
(* A case from its question to its position                                *)
(***************************************************************************)

CaseName == {"created", "continued"}

Empty == <<>>

EmptyStore == [flat |-> Empty, freight |-> Empty, suppliers |-> Empty, pending |-> {}]

NoRow == [status |-> "absent", type |-> "none", mode |-> "none", llm |-> Empty,
          found |-> Empty, vendors |-> Empty, stored |-> EmptyStore, prov |-> Empty, asked |-> {}]

Idle == [pc |-> "idle", case |-> "created", merged |-> EmptyStore, before |-> EmptyStore,
         answers |-> Empty]

EvidenceInit ==
  /\ row = [c \in CaseName |-> NoRow]
  /\ queued = {}
  /\ tab = [t \in Tab |-> Idle]
  /\ worker = [c \in CaseName |-> Absent]
  /\ basis = [c \in CaseName |-> Absent]
  /\ raced = {}
  /\ allowed = {}

OfStored(c, stored) ==
  Normalised(row[c].type, stored.flat, stored.freight, stored.suppliers, row[c].found)

CreateCase(x) ==
  /\ row["created"].status = "absent"
  /\ row' = [row EXCEPT !["created"] =
       [NoRow EXCEPT !.status = "classifying", !.type = x.type, !.mode = x.mode,
                     !.llm = x.llm, !.found = x.found, !.vendors = x.vendors]]
  /\ UNCHANGED <<queued, tab, worker, basis, raced, allowed>>

\* The classifier's answer is normalised and stored with its provenance; then
\* the gate asks, or the case is queued. Market intelligence passes the gate.
\* Where the normalisation raises, the row stays as it is.
Classified ==
  LET c == "created"
      n == Normalised(row[c].type, row[c].llm, Empty, row[c].vendors, row[c].found)
      missing == IF row[c].mode = "market_intelligence" THEN {} ELSE Missing(row[c].mode, n)
  IN /\ row[c].status = "classifying"
     /\ ~Raises(row[c].type, row[c].llm)
     /\ row' = [row EXCEPT ![c] =
          [@ EXCEPT !.status = IF missing = {} THEN "reasoning" ELSE "awaiting",
                    !.stored = [flat |-> n.flat, freight |-> Empty,
                                suppliers |-> n.suppliers, pending |-> {}],
                    !.prov = n.prov,
                    !.asked = missing]]
     /\ queued' = IF missing = {} THEN queued \cup {c} ELSE queued
     /\ UNCHANGED <<tab, worker, basis, raced, allowed>>

\* The answers to some of the questions on the page, each with the same value.
AnswerField(S, v) == [f \in {q[2] : q \in {q \in S : q[1] = "field"}} |-> v]
AnswerFreight(S, v) == [s \in {q[2] : q \in {q \in S : q[1] = "freight"}} |-> v]

\* respond reads the row, and merges the answers into what it read. Pending
\* changes of a continuation need the confirmation, else 422.
RespondRead(t, c, S, v) ==
  /\ tab[t].pc = "idle" /\ row[c].status = "awaiting"
  /\ S \subseteq row[c].asked /\ (S # {} \/ row[c].stored.pending # {})
  /\ tab' = [tab EXCEPT ![t] =
       [pc |-> "store", case |-> c, before |-> row[c].stored,
        answers |-> AnswerField(S, v),
        merged |-> [flat |-> Over(AnswerField(S, v), row[c].stored.flat),
                    freight |-> Over(AnswerFreight(S, v), row[c].stored.freight),
                    suppliers |-> row[c].stored.suppliers, pending |-> {}]]]
  /\ UNCHANGED <<row, queued, worker, basis, raced, allowed>>

\* UPDATE ... WHERE status = 'awaiting_user_input', of the whole evidence.
RespondStore(t) ==
  LET c == tab[t].case
      awaiting == row[c].status = "awaiting"
  IN /\ tab[t].pc = "store"
     /\ tab' = [tab EXCEPT ![t].pc = "claim"]
     /\ row' = IF awaiting THEN [row EXCEPT ![c].stored = tab[t].merged] ELSE row
     /\ raced' = IF awaiting /\ row[c].stored # tab[t].before THEN raced \cup {c} ELSE raced
     /\ allowed' = IF awaiting
                   THEN allowed \cup {<<c, f>> : f \in DOMAIN tab[t].answers
                                                         \cup tab[t].before.pending}
                   ELSE allowed
     /\ UNCHANGED <<queued, worker, basis>>

\* start_new_attempt: one of the tabs that answered goes on, which need not be
\* the one whose answers are stored.
RespondClaim(t) ==
  LET c == tab[t].case IN
  /\ tab[t].pc = "claim"
  /\ IF row[c].status = "awaiting"
     THEN /\ row' = [row EXCEPT ![c].status = "reasoning"]
          /\ tab' = [tab EXCEPT ![t].pc = "check"]
          /\ raced' = IF row[c].stored # tab[t].merged THEN raced \cup {c} ELSE raced
     ELSE tab' = [tab EXCEPT ![t] = Idle] /\ UNCHANGED <<row, raced>>
  /\ UNCHANGED <<queued, worker, basis, allowed>>

\* Broken: the answer is queued whatever it leaves unanswered.
RespondUnchecked(t) ==
  /\ tab[t].pc = "check"
  /\ tab' = [tab EXCEPT ![t] = Idle]
  /\ queued' = queued \cup {tab[t].case}
  /\ UNCHANGED <<row, worker, basis, raced, allowed>>

\* The gate looks at what this request merged, not at what is stored. Where the
\* normalisation raises, 500: the case is left to an attempt that nobody runs.
RespondCheck(t) ==
  LET c == tab[t].case
      missing == Missing(row[c].mode, OfStored(c, tab[t].merged))
  IN /\ tab[t].pc = "check"
     /\ tab' = [tab EXCEPT ![t] = Idle]
     /\ IF Raises(row[c].type, tab[t].merged.flat) THEN UNCHANGED <<row, queued>>
        ELSE IF missing = {}
        THEN queued' = queued \cup {c} /\ UNCHANGED row
        ELSE /\ row' = [row EXCEPT ![c].status = "awaiting", ![c].asked = missing]
             /\ UNCHANGED queued
     /\ UNCHANGED <<worker, basis, raced, allowed>>

\* _run_queued_job normalises what is stored, and does not ask the gate again.
WorkerReads(c) ==
  /\ c \in queued /\ row[c].status = "reasoning" /\ worker[c] = Absent
  /\ queued' = queued \ {c}
  /\ IF Raises(row[c].type, row[c].stored.flat)
     THEN row' = [row EXCEPT ![c].status = "unavailable"] /\ UNCHANGED worker
     ELSE worker' = [worker EXCEPT ![c] = OfStored(c, row[c].stored)] /\ UNCHANGED row
  /\ UNCHANGED <<tab, basis, raced, allowed>>

\* Broken: the provenance of this pass replaces what was there.
MergedProvenanceFresh(old, new) == Over(new, old)

\* _merge_final_provenance: an entry that is there is not replaced.
MergedProvenance(old, new) == Over(old, new)

WorkerPublishes(c) ==
  /\ worker[c] # Absent /\ row[c].status = "reasoning"
  /\ row' = [row EXCEPT ![c].status = "completed",
                        ![c].prov = MergedProvenance(@, worker[c].prov)]
  /\ basis' = [basis EXCEPT ![c] = worker[c]]
  /\ worker' = [worker EXCEPT ![c] = Absent]
  /\ UNCHANGED <<queued, tab, raced, allowed>>

WorkerFails(c) ==
  /\ worker[c] # Absent
  /\ row' = [row EXCEPT ![c].status = "unavailable"]
  /\ worker' = [worker EXCEPT ![c] = Absent]
  /\ UNCHANGED <<queued, tab, basis, raced, allowed>>

\* _restart_reasoning_from_stored_evidence, which normalises before it queues.
RetryStored(c) ==
  /\ row[c].status = "unavailable"
  /\ row' = [row EXCEPT ![c].status = "reasoning"]
  /\ queued' = IF Raises(row[c].type, row[c].stored.flat) THEN queued ELSE queued \cup {c}
  /\ UNCHANGED <<tab, worker, basis, raced, allowed>>

-----------------------------------------------------------------------------
(* continue_case                                                           *)

\* The new case starts with its parent's evidence, and an update as its text.
ContinueCase(x) ==
  LET p == row["created"] IN
  /\ p.status = "completed" /\ row["continued"].status = "absent"
  /\ row' = [row EXCEPT !["continued"] =
       [NoRow EXCEPT !.status = "updating", !.type = p.type, !.mode = p.mode,
                     !.llm = x.llm, !.found = x.found, !.vendors = x.vendors,
                     !.stored = p.stored]]
  /\ UNCHANGED <<queued, tab, worker, basis, raced, allowed>>

\* Broken: a value that differs replaces the parent's without a question.
ChangedNone(old, new) == {}

Changed(old, new) == {f \in DOMAIN new \cap DOMAIN old : new[f] # old[f]}

\* The update is classified. One of another type is asked about and not used.
UpdateOutOfScope ==
  LET c == "continued" IN
  /\ row[c].status = "updating"
  /\ row' = [row EXCEPT ![c].status = "awaiting",
                        ![c].asked = Asking({"continuation_scope_confirmation"})]
  /\ UNCHANGED <<queued, tab, worker, basis, raced, allowed>>

\* Broken: the case is queued whether or not there is something to confirm.
UpdateQueued ==
  LET c == "continued"
      n == Normalised(row[c].type, row[c].llm, Empty, row[c].vendors, row[c].found)
      changed == Changed(row[c].stored.flat, n.flat)
  IN /\ row[c].status = "updating"
     /\ row' = [row EXCEPT ![c] =
          [@ EXCEPT !.status = IF changed = {} THEN "reasoning" ELSE "awaiting",
                    !.stored.flat = Over(n.flat, row[c].stored.flat),
                    !.stored.pending = changed,
                    !.asked = Asking({"continuation_evidence_confirmation"})]]
     /\ queued' = queued \cup {c}
     /\ UNCHANGED <<tab, worker, basis, raced, allowed>>

\* Values that change, or an update that conflicts with itself, wait for a
\* confirmation. The list that respond looks at holds the changed ones only.
UpdateReconciled ==
  LET c == "continued"
      n == Normalised(row[c].type, row[c].llm, Empty, row[c].vendors, row[c].found)
      was == row[c].stored
      changed == Changed(was.flat, n.flat)
      asks == changed # {} \/ n.conflicts # {}
  IN /\ row[c].status = "updating"
     /\ ~Raises(row[c].type, row[c].llm)
     /\ row' = [row EXCEPT ![c] =
          [@ EXCEPT !.status = IF asks THEN "awaiting" ELSE "reasoning",
                    !.stored = [flat |-> Over(n.flat, was.flat), freight |-> was.freight,
                                suppliers |-> IF n.suppliers = Empty THEN was.suppliers
                                              ELSE n.suppliers,
                                pending |-> changed],
                    !.asked = IF asks
                              THEN Asking({"continuation_evidence_confirmation"}) ELSE {}]]
     /\ queued' = IF asks THEN queued ELSE queued \cup {c}
     /\ UNCHANGED <<tab, worker, basis, raced, allowed>>

\* The classifier fails: what is stored is the parent's.
UpdateFails ==
  LET c == "continued" IN
  /\ row[c].status = "updating"
  /\ row' = [row EXCEPT ![c].status = "unavailable"]
  /\ UNCHANGED <<queued, tab, worker, basis, raced, allowed>>

\* All the questions, or one of them.
Answered(asked) == {asked} \cup {{q} : q \in asked}

EvidenceNext ==
  \/ \E x \in CaseText : CreateCase(x)
  \/ \E x \in Update : ContinueCase(x)
  \/ Classified \/ UpdateOutOfScope \/ UpdateReconciled \/ UpdateFails
  \/ \E t \in Tab :
       \/ \E c \in CaseName : \E S \in Answered(row[c].asked), v \in Answer :
            RespondRead(t, c, S, v)
       \/ RespondStore(t) \/ RespondClaim(t) \/ RespondCheck(t)
  \/ \E c \in CaseName :
       WorkerReads(c) \/ WorkerPublishes(c) \/ WorkerFails(c) \/ RetryStored(c)

EvidenceSpec == EvidenceInit /\ [][EvidenceNext]_evidenceVars
-----------------------------------------------------------------------------
(***************************************************************************)
(* Properties                                                              *)
(***************************************************************************)

StoreOK(stored, type) ==
  /\ \A f \in DOMAIN stored.flat : stored.flat[f] \in ValueShape
  /\ DOMAIN stored.freight \cup DOMAIN stored.suppliers \subseteq Vendor
  /\ stored.pending \subseteq DOMAIN stored.flat

\* Rows, tabs and workers are well formed, and a worker holds only evidence of a
\* case that is being reasoned on, which has no question open.
EvidenceTypeOK ==
  /\ \A c \in CaseName :
       /\ row[c].status \in {"absent", "classifying", "updating", "awaiting", "reasoning",
                             "unavailable", "completed"}
       /\ StoreOK(row[c].stored, row[c].type)
       /\ worker[c] # Absent => row[c].status = "reasoning" /\ c \notin queued
       /\ (basis[c] # Absent) <=> (row[c].status = "completed")
  /\ queued \subseteq {c \in CaseName : row[c].status = "reasoning"}
  /\ \A t \in Tab : tab[t].pc \in {"idle", "store", "claim", "check"}
  /\ raced \subseteq CaseName

ReasonedOn(c) == {worker[c], basis[c]} \ {Absent}

\* No case is reasoned on while a required answer is missing, through answers,
\* questions asked again, retries and failures. Two answers that overlap are
\* the exception: the last one stored replaces the other, and the gate looks at
\* the one that was claimed. In a continuation, which does not ask the gate, so
\* is freight that the update made relevant, and spend that only the suppliers of
\* the parent had, where the update replaced them.
AskedBeforeReasoned ==
  raced = {} =>
    \A c \in CaseName : \A n \in ReasonedOn(c) :
      row[c].mode # "market_intelligence" =>
        \A q \in Missing(row[c].mode, n) :
          c = "continued" /\ (\/ q[1] = "freight" \/ q[2] = "freight_cost_or_estimate"
                               \/ /\ q[2] = "category_annual_spend_usd"
                                  /\ n.suppliers # basis["created"].suppliers)

\* Where a value came from is recorded once: no later pass over stored evidence,
\* where a resolved value looks like the model's own claim, changes it.
FirstSourceStands ==
  [][ \A c \in CaseName : \A f \in DOMAIN row[c].prov :
        f \in DOMAIN row'[c].prov /\ row'[c].prov[f] = row[c].prov[f] ]_evidenceVars

\* What the provenance of a case says, to its end, is what happened when it was
\* classified: two sources agree only where both had the value, and a conflict
\* is on record where they differed, unless the suppliers themselves differ.
ProvenanceIsHonest ==
  LET r == row["created"] IN
  \A f \in DOMAIN r.prov \cap PatternFields(r.type) :
    LET claimed == Claimed(r.llm, f)
        found == At(r.found, f)
    IN /\ r.prov[f].source = "both_agree" => claimed # Absent /\ claimed = found
       /\ r.prov[f].conflicting <=>
            {claimed, found} \cap {Absent} = {} /\ claimed # found /\ ~Varies(r.vendors, f)

\* A value of the parent is replaced in its continuation by what a user
\* answered or confirmed, and by nothing else.
ChangeIsConfirmed ==
  \A n \in ReasonedOn("continued") :
    \A f \in DOMAIN n.flat \cap DOMAIN basis["created"].flat :
      n.flat[f] # basis["created"].flat[f] => <<"continued", f>> \in allowed

\* normalize.py on its numbers: prose where a number belongs is a missing value,
\* and does not crash the request. Then no case is left as 'reasoning' with
\* neither a job, nor a worker, nor a request that is about to queue it.
ReasoningHasAWorker ==
  \A c \in CaseName :
    row[c].status = "reasoning" =>
      \/ c \in queued
      \/ worker[c] # Absent
      \/ \E t \in Tab : tab[t].pc = "check" /\ tab[t].case = c
=============================================================================
