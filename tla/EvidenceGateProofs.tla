-------------------------- MODULE EvidenceGateProofs --------------------------
(***************************************************************************)
(* Proofs about the gate of CaseEvidence and about its continuations, for  *)
(* all texts, updates and answers, and any number of tabs: nothing that is *)
(* required is missing from what a worker reasons on, and a continuation   *)
(* changes nothing of its parent that nobody answered or confirmed.        *)
(*                                                                         *)
(* The gate looks at one pass over the evidence and the worker at another. *)
(* So the argument is about what a second pass makes of stored evidence:   *)
(* each field, in terms of what was given (Reading); hence that a pass     *)
(* over its own result finds the same, and that a continuation has what    *)
(* its parent had. The invariant then says of every case that it came past *)
(* the gate with the evidence that it still stores.                        *)
(***************************************************************************)
EXTENDS CaseEvidenceProofs

-----------------------------------------------------------------------------
(* The invariant                                                           *)

Types == DOMAIN RequiredOf

StoreIs(stored) ==
  /\ \A f \in DOMAIN stored.flat : stored.flat[f] \in ValueShape
  /\ DOMAIN stored.freight \cup DOMAIN stored.suppliers \subseteq Vendor
  /\ stored.pending \subseteq DOMAIN stored.flat

Status == {"absent", "classifying", "updating", "awaiting", "reasoning", "unavailable",
           "completed"}

\* What rows, tabs and questions hold.
ContentOK ==
  /\ \A c \in CaseName :
       /\ row[c].status \in Status
       /\ row[c].status # "absent" => ReadingOK(row[c]) /\ row[c].type \in Types
       /\ StoreIs(row[c].stored)
       /\ \A q \in row[c].asked : q[1] = "freight" => q[2] \in Vendor
  /\ \A t \in Tab : StoreIs(tab[t].merged) /\ tab[t].merged.pending = {}
  /\ basis = [c \in CaseName |-> basis[c]]
  /\ raced \subseteq CaseName

\* Who has a case at the moment: a request at the gate, the queue or a worker.
HoldersOK ==
  /\ queued \subseteq {c \in CaseName : row[c].status = "reasoning"}
  /\ \A c \in CaseName :
       /\ worker[c] # Absent => row[c].status = "reasoning" /\ c \notin queued
       /\ basis[c] # Absent <=> row[c].status = "completed"
  /\ \A t \in Tab :
       /\ tab[t].pc \in {"idle", "store", "claim", "check"}
       /\ tab[t].pc # "idle" => row[tab[t].case].status # "updating"
       /\ tab[t].pc = "check" =>
            /\ row[tab[t].case].status = "reasoning"
            /\ tab[t].case \notin queued /\ worker[tab[t].case] = Absent
            /\ \A u \in Tab \ {t} : tab[u].pc = "check" => tab[u].case # tab[t].case

\* Changes wait for a confirmation while the case does, and then for nobody.
PendingWaits ==
  \A c \in CaseName : row[c].stored.pending # {} =>
    /\ row[c].status = "awaiting"
    /\ \A t \in Tab : tab[t].case = c => tab[t].pc \notin {"claim", "check"}

\* What a pass makes of a row.
Pass(r) == Normalised(r.type, r.stored.flat, r.stored.freight, r.stored.suppliers, r.found)

\* Workers and positions are made of what is stored.
MadeOfStored == \A c \in CaseName : \A n \in ReasonedOn(c) : n = Pass(row[c])

\* A continuation is of a published case and starts with its evidence.
ContinuesIt ==
  LET p == row["created"] r == row["continued"] IN
  /\ p.status # "updating"
  /\ r.status # "absent" =>
       p.status = "completed" /\ r.type = p.type /\ r.mode = p.mode
  /\ r.status = "updating" => r.stored = p.stored

\* What the first text said is in the evidence: nothing of the created case comes
\* from its text alone, or is derived, when the evidence is read again.
Held(type, found, vendors, flat) ==
  /\ \A f \in PatternFields(type) :
       At(found, f) # Absent => Claimed(flat, f) # Absent \/ Varies(vendors, f)
  /\ type = "price_increase" /\ Claimed(flat, "annual_spend_usd") # Absent =>
       At(flat, "current_price_or_terms") # Absent

HeldIn(flat) ==
  Held(row["created"].type, row["created"].found, row["created"].vendors, flat)

CreatedHolds ==
  LET r == row["created"] IN
  r.status \notin Early =>
    /\ r.stored.suppliers = WithFreight(r.vendors, Empty)
    /\ HeldIn(r.stored.flat)
    /\ \A t \in Tab : tab[t].pc # "idle" /\ tab[t].case = "created" =>
         /\ HeldIn(tab[t].merged.flat)
         /\ tab[t].merged.suppliers = r.stored.suppliers
    /\ \A q \in r.asked :
         q[1] = "field" /\ q[2] \in PatternFields(r.type) =>
           q[2] = "requested_increase_percent" /\ At(r.found, q[2]) = Absent

\* The parent's fields are there, and each that differs is accounted for.
Accounted(was, flat, extra, by) ==
  \A f \in DOMAIN was :
    /\ f \in DOMAIN flat
    /\ flat[f] # was[f] => f \in extra \/ <<"continued", f>> \in by

ChangesAccounted ==
  LET was == row["created"].stored.flat
      stored == row["continued"].stored
  IN row["continued"].status # "absent" =>
       /\ Accounted(was, stored.flat, stored.pending, allowed)
       /\ \A t \in Tab : tab[t].pc = "store" /\ tab[t].case = "continued" =>
            Accounted(was, tab[t].merged.flat,
                      DOMAIN tab[t].answers \cup tab[t].before.pending, allowed)

\* What a continuation may lack.
Excused(c, q, suppliers, before) ==
  c = "continued" /\ (\/ q[1] = "freight" \/ q[2] = "freight_cost_or_estimate"
                      \/ q[2] = "category_annual_spend_usd" /\ suppliers # before)

GateIsMet(c, r, parent) ==
  r.mode # "market_intelligence" =>
    \A q \in Missing(r.mode, Pass(r)) : Excused(c, q, Pass(r).suppliers, Pass(parent).suppliers)

Settled(c) ==
  c \in queued \/ worker[c] # Absent \/ row[c].status \in {"unavailable", "completed"}

\* A case that is past the gate has all that the gate asks for.
PastTheGate ==
  raced = {} =>
    /\ \A t \in Tab : tab[t].pc = "check" => row[tab[t].case].stored = tab[t].merged
    /\ \A c \in CaseName : Settled(c) => GateIsMet(c, row[c], row["created"])

\* The inductive invariant, beside that of CaseEvidenceProofs.
GateInv ==
  /\ IInv
  /\ ContentOK
  /\ HoldersOK
  /\ PendingWaits
  /\ MadeOfStored
  /\ ContinuesIt
  /\ CreatedHolds
  /\ ChangesAccounted
  /\ PastTheGate

-----------------------------------------------------------------------------
(* What a pass makes of each field                                         *)

Fields(type) == PatternFields(type) \cup PlainNumbers(type) \cup PlainTexts(type)

PatternOf(given, suppliers, found, f) ==
  IF Varies(suppliers, f) THEN Absent
  ELSE IF Claimed(given, f) # Absent THEN Claimed(given, f) ELSE At(found, f)

\* The price is derived from the annual spend where nothing is said of it.
Derives(type, given, suppliers, found) ==
  /\ type = "price_increase"
  /\ PatternOf(given, suppliers, found, "annual_spend_usd") # Absent
  /\ Texted(At(given, "current_price_or_terms")) = Absent

Reading(type, given, suppliers, found, f) ==
  IF f \in PatternFields(type) THEN PatternOf(given, suppliers, found, f)
  ELSE IF f = "current_price_or_terms" /\ Derives(type, given, suppliers, found)
  THEN <<"text", PatternOf(given, suppliers, found, "annual_spend_usd")[2]>>
  ELSE IF f \in PlainTexts(type) THEN Texted(At(given, f))
  ELSE Coerced(At(given, f))

\* A field is looked for by a pattern or is plain, and never both.
LEMMA FieldsApart ==
  ASSUME NEW type \in Types
  PROVE  /\ PatternFields(type) \cap (PlainNumbers(type) \cup PlainTexts(type)) = {}
         /\ PlainNumbers(type) \cap PlainTexts(type) = {}
         /\ type = "price_increase" =>
              /\ "annual_spend_usd" \in PatternFields(type)
              /\ "current_price_or_terms" \in PlainTexts(type)
<1>1. type \in {"price_increase", "quote_comparison", "problem_solving"}
  BY DEF Types, RequiredOf
<1>2. CASE type = "price_increase"
  BY <1>2 DEF RequiredOf, PatternFields, CommonPatterns, PricePatterns, PlainNumbers, PlainTexts
<1>3. CASE type = "quote_comparison"
  BY <1>3 DEF RequiredOf, PatternFields, CommonPatterns, PricePatterns, PlainNumbers, PlainTexts
<1>4. CASE type = "problem_solving"
  BY <1>4 DEF RequiredOf, PatternFields, CommonPatterns, PricePatterns, PlainNumbers, PlainTexts
<1> QED
  BY <1>1, <1>2, <1>3, <1>4

LEMMA PresentIs ==
  ASSUME NEW dict
  PROVE  /\ DOMAIN Present(dict) = {f \in DOMAIN dict : dict[f] # Absent}
         /\ \A f \in DOMAIN Present(dict) : Present(dict)[f] = dict[f]
BY DEF Present

LEMMA OverIs ==
  ASSUME NEW new, NEW old
  PROVE  /\ DOMAIN Over(new, old) = DOMAIN new \cup DOMAIN old
         /\ \A f \in DOMAIN new : Over(new, old)[f] = new[f]
         /\ \A f \in DOMAIN old \ DOMAIN new : Over(new, old)[f] = old[f]
BY DEF Over

\* Normalised is the reading of each field, where there is one.
LEMMA PassReads ==
  ASSUME NEW type \in Types, NEW given, NEW freight, NEW vendors, NEW found
  PROVE  LET n == Normalised(type, given, freight, vendors, found)
             suppliers == WithFreight(vendors, freight)
         IN /\ n.type = type /\ n.suppliers = suppliers
            /\ DOMAIN n.flat =
                 {f \in Fields(type) : Reading(type, given, suppliers, found, f) # Absent}
            /\ \A f \in DOMAIN n.flat : n.flat[f] = Reading(type, given, suppliers, found, f)
            /\ n.freightRelevant <=>
                 \/ At(n.flat, "incoterm") \in BuyerPays
                 \/ \E s \in DOMAIN suppliers : suppliers[s].incoterm \in BuyerPays
<1> DEFINE suppliers == WithFreight(vendors, freight)
           there == {g \in PatternFields(type) :
                       Claimed(given, g) # Absent \/ At(found, g) # Absent
                         \/ Varies(suppliers, g)}
           resolved == [g \in there |->
                          IF Varies(suppliers, g)
                          THEN [value |-> Absent, source |-> "llm_extraction", conflict |-> FALSE]
                          ELSE Resolve(Claimed(given, g), At(found, g))]
           pattern == [g \in DOMAIN resolved |-> resolved[g].value]
           plain == [g \in PlainNumbers(type) \cup PlainTexts(type) |->
                      IF g \in PlainTexts(type) THEN Texted(At(given, g))
                      ELSE IF At(given, g) = Absent THEN Absent ELSE Coerced(At(given, g))]
           spend == At(pattern, "annual_spend_usd")
           price == IF /\ type = "price_increase" /\ spend # Absent
                       /\ plain["current_price_or_terms"] = Absent
                    THEN [current_price_or_terms |-> <<"text", spend[2]>>] ELSE <<>>
           under == Over(pattern, plain)
           all == Over(price, under)
           n == Normalised(type, given, freight, vendors, found)
           R(f) == Reading(type, given, suppliers, found, f)
<1>1. /\ n.type = type /\ n.suppliers = suppliers /\ n.flat = Present(all)
      /\ n.freightRelevant = (\/ At(n.flat, "incoterm") \in BuyerPays
                              \/ \E s \in DOMAIN suppliers :
                                   suppliers[s].incoterm \in BuyerPays)
  BY DEF Normalised, WithFreight
\* The patterns.
<1>2. /\ DOMAIN pattern = there
      /\ \A g \in there : pattern[g] = PatternOf(given, suppliers, found, g)
      /\ \A g \in PatternFields(type) \ there : PatternOf(given, suppliers, found, g) = Absent
  <2>1. DOMAIN pattern = there
    OBVIOUS
  <2>2. ASSUME NEW g \in there PROVE pattern[g] = PatternOf(given, suppliers, found, g)
    <3>1. pattern[g] = resolved[g].value
      OBVIOUS
    <3>2. CASE Varies(suppliers, g)
      <4>1. resolved[g] = [value |-> Absent, source |-> "llm_extraction", conflict |-> FALSE]
        BY <3>2
      <4>2. PatternOf(given, suppliers, found, g) = Absent
        BY <3>2 DEF PatternOf
      <4> QED
        BY <3>1, <4>1, <4>2
    <3>3. CASE ~Varies(suppliers, g)
      <4>1. resolved[g] = Resolve(Claimed(given, g), At(found, g))
        BY <3>3
      <4>2. Resolve(Claimed(given, g), At(found, g)).value
              = IF Claimed(given, g) # Absent THEN Claimed(given, g) ELSE At(found, g)
        BY DEF Resolve
      <4> QED
        BY <3>1, <3>3, <4>1, <4>2, Zenon DEF PatternOf
    <3> QED
      BY <3>2, <3>3
  <2>3. \A g \in PatternFields(type) \ there : PatternOf(given, suppliers, found, g) = Absent
    BY DEF PatternOf
  <2> QED
    BY <2>1, <2>2, <2>3
\* The plain fields.
<1>3. /\ DOMAIN plain = PlainNumbers(type) \cup PlainTexts(type)
      /\ \A g \in PlainTexts(type) : plain[g] = Texted(At(given, g))
      /\ \A g \in PlainNumbers(type) \ PlainTexts(type) : plain[g] = Coerced(At(given, g))
  BY DEF Coerced
<1>4. /\ DOMAIN under = there \cup PlainNumbers(type) \cup PlainTexts(type)
      /\ \A g \in there : under[g] = pattern[g]
      /\ \A g \in (PlainNumbers(type) \cup PlainTexts(type)) \ there : under[g] = plain[g]
  <2> HIDE DEF pattern, plain, there
  <2>1. /\ DOMAIN under = DOMAIN pattern \cup DOMAIN plain
        /\ \A g \in DOMAIN pattern : under[g] = pattern[g]
        /\ \A g \in DOMAIN plain \ DOMAIN pattern : under[g] = plain[g]
    BY OverIs
  <2> HIDE DEF under
  <2> QED
    BY <1>2, <1>3, <2>1
\* The price.
<1>5. spend = IF "annual_spend_usd" \in there
              THEN PatternOf(given, suppliers, found, "annual_spend_usd") ELSE Absent
  <2> HIDE DEF pattern, there
  <2> QED
    BY <1>2 DEF At
<1>6. type = "price_increase" =>
        spend = PatternOf(given, suppliers, found, "annual_spend_usd")
  <2> HIDE DEF pattern, there, spend
  <2> QED
    BY <1>2, <1>5, FieldsApart
<1>7. type = "price_increase" =>
        plain["current_price_or_terms"] = Texted(At(given, "current_price_or_terms"))
  <2> HIDE DEF plain
  <2> QED
    BY <1>3, FieldsApart
<1>8. /\ Derives(type, given, suppliers, found) =>
           /\ DOMAIN price = {"current_price_or_terms"}
           /\ price["current_price_or_terms"] = <<"text", spend[2]>>
      /\ ~Derives(type, given, suppliers, found) => DOMAIN price = {}
  <2>1. Derives(type, given, suppliers, found) <=>
          /\ type = "price_increase" /\ spend # Absent
          /\ plain["current_price_or_terms"] = Absent
    <3> HIDE DEF plain, spend
    <3> QED
      BY <1>6, <1>7 DEF Derives
  <2> HIDE DEF plain, spend
  <2>2. CASE Derives(type, given, suppliers, found)
    <3>1. price = [current_price_or_terms |-> <<"text", spend[2]>>]
      BY <2>1, <2>2
    <3> HIDE DEF price
    <3> QED
      BY <2>2, <3>1
  <2>3. CASE ~Derives(type, given, suppliers, found)
    <3>1. price = <<>>
      BY <2>1, <2>3
    <3> HIDE DEF price
    <3> QED
      BY <2>3, <3>1
  <2> QED
    BY <2>2, <2>3
<1>9. /\ DOMAIN all = DOMAIN price \cup DOMAIN under
      /\ \A g \in DOMAIN price : all[g] = price[g]
      /\ \A g \in DOMAIN under \ DOMAIN price : all[g] = under[g]
  <2> HIDE DEF price, under
  <2> QED
    BY OverIs
<1>10. Derives(type, given, suppliers, found) => type = "price_increase"
  BY DEF Derives
<1>11. there \subseteq PatternFields(type)
  OBVIOUS
<1> HIDE DEF there, resolved, pattern, plain, spend, price, under, all, n, suppliers
\* Together.
<1>12. ASSUME NEW f \in DOMAIN all PROVE f \in Fields(type) /\ all[f] = R(f)
  <2>1. CASE f \in there
    <3>1. f \in PatternFields(type) /\ f \notin DOMAIN price
      BY <1>8, <1>10, <1>11, <2>1, FieldsApart
    <3>2. all[f] = PatternOf(given, suppliers, found, f)
      BY <1>2, <1>4, <1>9, <2>1, <3>1
    <3> QED
      BY <3>1, <3>2 DEF Fields, Reading
  <2>2. CASE f \in DOMAIN price
    <3>1. /\ Derives(type, given, suppliers, found) /\ f = "current_price_or_terms"
          /\ type = "price_increase"
      BY <1>8, <1>10, <2>2
    <3>2. f \in PlainTexts(type) /\ f \notin PatternFields(type)
      BY <3>1, FieldsApart
    <3>3. all[f] = <<"text", spend[2]>>
      BY <1>8, <1>9, <2>2, <3>1
    <3> QED
      BY <1>6, <3>1, <3>2, <3>3 DEF Fields, Reading
  <2>3. CASE f \notin there /\ f \notin DOMAIN price
    <3>1. f \in PlainNumbers(type) \cup PlainTexts(type) /\ all[f] = plain[f]
      BY <1>4, <1>9, <2>3
    <3>2. f \notin PatternFields(type)
      BY <3>1, FieldsApart
    <3>3. ~(f = "current_price_or_terms" /\ Derives(type, given, suppliers, found))
      BY <1>8, <2>3
    <3>4. f \in PlainTexts(type) => all[f] = Texted(At(given, f))
      BY <1>3, <3>1
    <3>5. f \notin PlainTexts(type) => all[f] = Coerced(At(given, f))
      BY <1>3, <3>1
    <3> QED
      BY <3>1, <3>2, <3>3, <3>4, <3>5 DEF Fields, Reading
  <2> QED
    BY <2>1, <2>2, <2>3
<1>13. ASSUME NEW f \in Fields(type), R(f) # Absent PROVE f \in DOMAIN all
  <2>1. CASE f \in PatternFields(type)
    <3>1. PatternOf(given, suppliers, found, f) # Absent
      BY <1>13, <2>1 DEF Reading
    <3> QED
      BY <1>2, <1>4, <1>9, <2>1, <3>1
  <2>2. CASE f \notin PatternFields(type)
    BY <1>4, <1>9, <2>2 DEF Fields
  <2> QED
    BY <2>1, <2>2
<1>14. /\ DOMAIN n.flat = {f \in DOMAIN all : all[f] # Absent}
       /\ \A f \in DOMAIN n.flat : n.flat[f] = all[f]
  BY <1>1, PresentIs
<1>15. DOMAIN n.flat = {f \in Fields(type) : R(f) # Absent}
  <2> HIDE DEF R
  <2> QED
    BY <1>12, <1>13, <1>14
<1>16. \A f \in DOMAIN n.flat : n.flat[f] = R(f)
  BY <1>12, <1>14
<1> QED
  BY <1>1, <1>15, <1>16 DEF n, suppliers

-----------------------------------------------------------------------------
(* A pass over stored evidence                                             *)

Values == ValueShape \cup {Absent}

GivenOK(given) == \A f \in DOMAIN given : given[f] \in Values

MustBeNumbers == CoercedFields \cup {"requested_increase_percent"}

FoundOK(found) ==
  \A f \in DOMAIN found :
    found[f] \in ValueShape /\ (f \in MustBeNumbers => found[f][1] = "number")

VendorsOK(vendors) ==
  \A s \in DOMAIN vendors : vendors[s] \in [TermOfVendor -> Values]

\* A present value is its kind and its integer.
LEMMA ShapeOf ==
  ASSUME NEW v \in ValueShape
  PROVE  /\ v # Absent /\ v = <<v[1], v[2]>>
         /\ v[1] \in {"number", "numeral", "text"} /\ v[2] \in Int
BY EvidenceAssumption DEF ValueShape

LEMMA CoercedIs ==
  ASSUME NEW v \in Values
  PROVE  /\ Coerced(v) \in Values
         /\ Coerced(v) # Absent => Coerced(v) \in ValueShape /\ Coerced(v)[1] = "number"
         /\ v # Absent /\ v[1] = "number" => Coerced(v) = v
         /\ Coerced(Absent) = Absent
<1>1. CASE v = Absent
  BY <1>1, EvidenceAssumption DEF Coerced, Values
<1>2. CASE v \in ValueShape
  <2>1. v # Absent /\ v = <<v[1], v[2]>> /\ v[2] \in Int
    BY <1>2, ShapeOf
  <2>2. <<"number", v[2]>> \in ValueShape
    BY <2>1 DEF ValueShape
  <2>3. CASE v[1] = "text"
    BY <2>1, <2>3 DEF Coerced, Values
  <2>4. CASE v[1] # "text"
    <3>1. Coerced(v) = <<"number", v[2]>>
      BY <2>1, <2>4 DEF Coerced
    <3> QED
      BY <2>1, <2>2, <3>1 DEF Values, Coerced
  <2> QED
    BY <2>3, <2>4
<1> QED
  BY <1>1, <1>2 DEF Values

LEMMA TextedIs ==
  ASSUME NEW v \in Values
  PROVE  /\ Texted(v) \in Values
         /\ Texted(v) = Absent <=> v = Absent
         /\ Texted(Texted(v)) = Texted(v)
<1>1. CASE v = Absent
  BY <1>1 DEF Texted, Values
<1>2. CASE v \in ValueShape
  <2>1. v # Absent /\ v = <<v[1], v[2]>> /\ v[2] \in Int
    BY <1>2, ShapeOf
  <2>2. <<"numeral", v[2]>> \in ValueShape
    BY <2>1 DEF ValueShape
  <2>3. <<"numeral", v[2]>> # Absent
    BY <2>2, ShapeOf
  <2>4. CASE v[1] = "number"
    <3>1. Texted(v) = <<"numeral", v[2]>>
      BY <2>1, <2>4 DEF Texted
    <3>2. Texted(<<"numeral", v[2]>>) = <<"numeral", v[2]>>
      BY DEF Texted
    <3> QED
      BY <2>1, <2>2, <2>3, <3>1, <3>2 DEF Values
  <2>5. CASE v[1] # "number"
    <3>1. Texted(v) = v
      BY <2>5 DEF Texted
    <3> QED
      BY <2>1, <3>1
  <2> QED
    BY <2>4, <2>5
<1> QED
  BY <1>1, <1>2 DEF Values

LEMMA AtIs ==
  ASSUME NEW given, GivenOK(given), NEW f
  PROVE  At(given, f) \in Values
BY DEF GivenOK, At, Values

LEMMA FoundIs ==
  ASSUME NEW found, FoundOK(found), NEW f, At(found, f) # Absent
  PROVE  At(found, f) \in ValueShape /\ (f \in MustBeNumbers => At(found, f)[1] = "number")
BY DEF FoundOK, At

\* The claim on a field, of the value that is given for it.
LEMMA ClaimedIs ==
  ASSUME NEW given, GivenOK(given), NEW f
  PROVE  /\ Claimed(given, f) \in Values
         /\ Claimed(given, f) # Absent =>
              /\ At(given, f) # Absent
              /\ f \in MustBeNumbers => Claimed(given, f)[1] = "number"
         /\ At(given, f) # Absent /\ (f \in MustBeNumbers => At(given, f)[1] = "number") =>
              Claimed(given, f) = At(given, f)
<1> DEFINE v == At(given, f)
<1>0. v \in Values
  BY AtIs
<1>1. CASE f \in CoercedFields
  <2>1. Claimed(given, f) = Coerced(v)
    <3>1. f # "requested_increase_percent"
      BY <1>1 DEF CoercedFields
    <3> QED
      BY <1>1, <3>1, Zenon DEF Claimed
  <2>2. f \in MustBeNumbers
    BY <1>1 DEF MustBeNumbers
  <2> HIDE DEF v
  <2>3. /\ Coerced(v) \in Values
        /\ Coerced(v) # Absent => Coerced(v) \in ValueShape /\ Coerced(v)[1] = "number"
        /\ v # Absent /\ v[1] = "number" => Coerced(v) = v
        /\ Coerced(Absent) = Absent
    BY <1>0, CoercedIs
  <2>4. Coerced(v) # Absent => v # Absent
    BY <2>3
  <2> QED
    BY <2>1, <2>2, <2>3, <2>4 DEF v
<1>2. CASE f \notin CoercedFields /\ f = "requested_increase_percent"
  <2>1. Claimed(given, f) = IF v # Absent /\ v[1] = "number" THEN v ELSE Absent
    BY <1>2 DEF Claimed
  <2> HIDE DEF v
  <2>2. /\ Claimed(given, f) \in Values
        /\ Claimed(given, f) # Absent => v # Absent /\ Claimed(given, f)[1] = "number"
        /\ v # Absent /\ v[1] = "number" => Claimed(given, f) = v
    BY <1>0, <2>1 DEF Values
  <2> QED
    BY <1>2, <2>2 DEF MustBeNumbers, v
<1>3. CASE f \notin CoercedFields /\ f # "requested_increase_percent"
  <2>1. Claimed(given, f) = v
    BY <1>3, Zenon DEF Claimed
  <2>2. f \notin MustBeNumbers
    BY <1>3 DEF MustBeNumbers
  <2> QED
    BY <1>0, <2>1, <2>2
<1> QED
  BY <1>1, <1>2, <1>3

LEMMA PatternIs ==
  ASSUME NEW given, GivenOK(given), NEW suppliers, NEW found, FoundOK(found), NEW f,
         PatternOf(given, suppliers, found, f) # Absent
  PROVE  /\ ~Varies(suppliers, f)
         /\ Claimed(given, f) # Absent \/ At(found, f) # Absent
         /\ PatternOf(given, suppliers, found, f) \in ValueShape
         /\ f \in MustBeNumbers => PatternOf(given, suppliers, found, f)[1] = "number"
<1>1. ~Varies(suppliers, f)
  BY DEF PatternOf
<1>2. PatternOf(given, suppliers, found, f)
        = IF Claimed(given, f) # Absent THEN Claimed(given, f) ELSE At(found, f)
  BY <1>1 DEF PatternOf
<1>3. CASE Claimed(given, f) # Absent
  <2>1. Claimed(given, f) \in ValueShape
    BY <1>3, ClaimedIs DEF Values
  <2> QED
    BY <1>1, <1>2, <1>3, <2>1, ClaimedIs
<1>4. CASE Claimed(given, f) = Absent
  <2>1. PatternOf(given, suppliers, found, f) = At(found, f)
    BY <1>2, <1>4
  <2>2. At(found, f) \in ValueShape /\ (f \in MustBeNumbers => At(found, f)[1] = "number")
    BY <2>1, FoundIs
  <2> QED
    BY <1>1, <2>1, <2>2
<1> QED
  BY <1>3, <1>4

LEMMA ReadingIs ==
  ASSUME NEW type \in Types, NEW given, GivenOK(given), NEW suppliers,
         NEW found, FoundOK(found), NEW f
  PROVE  Reading(type, given, suppliers, found, f) \in Values
<1> DEFINE spend == PatternOf(given, suppliers, found, "annual_spend_usd")
<1>1. PatternOf(given, suppliers, found, f) \in Values
  BY PatternIs DEF Values
<1>2. At(given, f) \in Values
  BY AtIs
<1>3. Texted(At(given, f)) \in Values /\ Coerced(At(given, f)) \in Values
  BY <1>2, TextedIs, CoercedIs
<1>4. Derives(type, given, suppliers, found) => <<"text", spend[2]>> \in Values
  <2> SUFFICES ASSUME Derives(type, given, suppliers, found)
               PROVE  <<"text", spend[2]>> \in Values
    OBVIOUS
  <2>1. spend \in ValueShape
    BY PatternIs DEF Derives
  <2> HIDE DEF spend
  <2>2. spend[2] \in Int
    BY <2>1, ShapeOf
  <2> QED
    BY <2>2 DEF Values, ValueShape
<1> QED
  BY <1>1, <1>3, <1>4, Zenon DEF Reading

\* The evidence of a pass can be stored.
LEMMA PassStores ==
  ASSUME NEW type \in Types, NEW given, GivenOK(given), NEW freight, NEW vendors,
         NEW found, FoundOK(found)
  PROVE  LET n == Normalised(type, given, freight, vendors, found) IN
         /\ \A f \in DOMAIN n.flat : n.flat[f] \in ValueShape
         /\ DOMAIN n.suppliers = DOMAIN vendors
<1> DEFINE n == Normalised(type, given, freight, vendors, found)
           suppliers == WithFreight(vendors, freight)
<1>1. ASSUME NEW f \in DOMAIN n.flat PROVE n.flat[f] \in ValueShape
  <2>1. /\ n.flat[f] = Reading(type, given, suppliers, found, f)
        /\ Reading(type, given, suppliers, found, f) # Absent
    BY PassReads
  <2>2. Reading(type, given, suppliers, found, f) \in Values
    BY ReadingIs
  <2> QED
    BY <2>1, <2>2 DEF Values
<1>2. n.suppliers = suppliers
  BY PassReads
<1>3. DOMAIN suppliers = DOMAIN vendors
  BY DEF WithFreight
<1> QED
  BY <1>1, <1>2, <1>3

\* Freight is none of the terms that are compared between suppliers.
LEMMA FreightIsApart ==
  ASSUME NEW vendors, VendorsOK(vendors), NEW freight, NEW f
  PROVE  Varies(WithFreight(vendors, freight), f) = Varies(vendors, f)
<1> DEFINE suppliers == WithFreight(vendors, freight)
           a == VendorAttr[f]
<1>1. CASE f \in PerVendor
  <2>1. a \in {"incoterm", "region", "currency"}
    BY <1>1 DEF VendorAttr, PerVendor
  <2> HIDE DEF a
  <2>2. DOMAIN suppliers = DOMAIN vendors
    BY DEF WithFreight
  <2>3. ASSUME NEW s \in DOMAIN vendors PROVE suppliers[s][a] = vendors[s][a]
    <3>1. vendors[s] \in [TermOfVendor -> Values]
      BY DEF VendorsOK
    <3>2. suppliers[s] = vendors[s] \/ suppliers[s] = [vendors[s] EXCEPT !.freight = freight[s]]
      BY DEF WithFreight
    <3> HIDE DEF suppliers
    <3> QED
      BY <2>1, <3>1, <3>2 DEF TermOfVendor
  <2> HIDE DEF suppliers
  <2>4. {suppliers[s][a] : s \in DOMAIN suppliers} = {vendors[s][a] : s \in DOMAIN vendors}
    BY <2>2, <2>3
  <2>5. Varies(suppliers, f) = Varies(vendors, f)
    BY <2>4 DEF Varies, a
  <2> QED
    BY <2>5 DEF suppliers
<1>2. CASE f \notin PerVendor
  BY <1>2 DEF Varies
<1> QED
  BY <1>1, <1>2

LEMMA NoFreightNothing ==
  ASSUME NEW vendors
  PROVE  /\ WithFreight(WithFreight(vendors, Empty), Empty) = WithFreight(vendors, Empty)
         /\ DOMAIN WithFreight(vendors, Empty) = DOMAIN vendors
         /\ \A s \in DOMAIN vendors : WithFreight(vendors, Empty)[s] = vendors[s]
<1>1. \A s : At(Empty, s) = Absent
  BY NothingIn DEF At
<1>2. \A w : WithFreight(w, Empty) = [s \in DOMAIN w |-> w[s]]
  BY <1>1 DEF WithFreight
<1> DEFINE w == WithFreight(vendors, Empty)
<1>3. w = [s \in DOMAIN vendors |-> vendors[s]]
  BY <1>2
<1>4. WithFreight(w, Empty) = [s \in DOMAIN w |-> w[s]]
  BY <1>2
<1> HIDE DEF w
<1>5. WithFreight(w, Empty) = w /\ DOMAIN w = DOMAIN vendors
      /\ \A s \in DOMAIN vendors : w[s] = vendors[s]
  BY <1>3, <1>4
<1> QED
  BY <1>5 DEF w

\* A pass over what a first pass stored finds the same.
LEMMA PassAgain ==
  ASSUME NEW type \in Types, NEW given, GivenOK(given), NEW vendors, NEW found, FoundOK(found)
  PROVE  LET n == Normalised(type, given, Empty, vendors, found)
             m == Normalised(type, n.flat, Empty, n.suppliers, found)
         IN /\ m.type = n.type /\ m.suppliers = n.suppliers
            /\ DOMAIN m.flat = DOMAIN n.flat
            /\ \A f \in DOMAIN n.flat : m.flat[f] = n.flat[f]
            /\ m.freightRelevant <=> n.freightRelevant
<1> DEFINE n == Normalised(type, given, Empty, vendors, found)
           m == Normalised(type, n.flat, Empty, n.suppliers, found)
           S == WithFreight(vendors, Empty)
           R(f) == Reading(type, given, S, found, f)
           Again(f) == Reading(type, n.flat, S, found, f)
           first(f) == PatternOf(given, S, found, f)
           second(f) == PatternOf(n.flat, S, found, f)
<1>1. /\ n.type = type /\ n.suppliers = S
      /\ DOMAIN n.flat = {f \in Fields(type) : R(f) # Absent}
      /\ \A f \in DOMAIN n.flat : n.flat[f] = R(f)
      /\ n.freightRelevant <=>
           (At(n.flat, "incoterm") \in BuyerPays
             \/ \E s \in DOMAIN S : S[s].incoterm \in BuyerPays)
  BY PassReads
<1>2. WithFreight(n.suppliers, Empty) = S
  BY <1>1, NoFreightNothing
<1>3. /\ m.type = type /\ m.suppliers = S
      /\ DOMAIN m.flat = {f \in Fields(type) : Again(f) # Absent}
      /\ \A f \in DOMAIN m.flat : m.flat[f] = Again(f)
      /\ m.freightRelevant <=>
           (At(m.flat, "incoterm") \in BuyerPays
             \/ \E s \in DOMAIN S : S[s].incoterm \in BuyerPays)
  <2> DEFINE flat == n.flat
             w == n.suppliers
  <2> HIDE DEF n, S, flat, w
  <2>1. /\ m.type = type /\ m.suppliers = WithFreight(w, Empty)
        /\ DOMAIN m.flat =
             {f \in Fields(type) : Reading(type, flat, WithFreight(w, Empty), found, f) # Absent}
        /\ \A f \in DOMAIN m.flat :
             m.flat[f] = Reading(type, flat, WithFreight(w, Empty), found, f)
        /\ m.freightRelevant <=>
             (At(m.flat, "incoterm") \in BuyerPays
               \/ \E s \in DOMAIN WithFreight(w, Empty) :
                    WithFreight(w, Empty)[s].incoterm \in BuyerPays)
    BY PassReads DEF flat, w
  <2> QED
    BY <1>2, <2>1 DEF flat, w
<1>4. GivenOK(n.flat)
  BY PassStores DEF GivenOK, Values
<1>5. \A f \in Fields(type) : At(n.flat, f) = R(f)
  BY <1>1 DEF At
<1> HIDE DEF n, m, S
<1>6. ASSUME NEW f \in PatternFields(type) PROVE second(f) = first(f)
  <2>1. At(n.flat, f) = first(f)
    BY <1>5 DEF Fields, Reading
  <2>2. CASE Varies(S, f)
    BY <2>2 DEF PatternOf
  <2>3. CASE ~Varies(S, f) /\ first(f) = Absent
    <3>1. Claimed(n.flat, f) = Absent
      BY <1>4, <2>1, <2>3, ClaimedIs
    <3>2. At(found, f) = Absent
      BY <2>3 DEF PatternOf
    <3> QED
      BY <2>3, <3>1, <3>2 DEF PatternOf
  <2>4. CASE ~Varies(S, f) /\ first(f) # Absent
    <3>1. f \in MustBeNumbers => first(f)[1] = "number"
      BY <2>4, PatternIs
    <3>2. Claimed(n.flat, f) = first(f)
      BY <1>4, <2>1, <2>4, <3>1, ClaimedIs
    <3> QED
      BY <2>4, <3>2 DEF PatternOf
  <2> QED
    BY <2>2, <2>3, <2>4
<1>7. ASSUME NEW f \in Fields(type) PROVE Again(f) = R(f)
  <2>1. CASE f \in PatternFields(type)
    BY <1>6, <2>1 DEF Reading
  <2>2. CASE f \in PlainTexts(type) /\ f \notin PatternFields(type)
    <3> DEFINE v == At(given, f)
    <3>1. v \in Values
      BY AtIs
    <3>2. CASE f = "current_price_or_terms" /\ Derives(type, given, S, found)
      <4>1. R(f) = <<"text", first("annual_spend_usd")[2]>>
        BY <2>2, <3>2 DEF Reading
      <4>2. R(f) # Absent /\ Texted(R(f)) = R(f)
        <5>1. first("annual_spend_usd") \in ValueShape
          BY <3>2, PatternIs DEF Derives
        <5>2. first("annual_spend_usd")[2] \in Int
          BY <5>1, ShapeOf
        <5> HIDE DEF R
        <5>3. R(f) \in ValueShape /\ R(f)[1] = "text"
          BY <4>1, <5>2 DEF ValueShape
        <5> QED
          BY <5>3, ShapeOf DEF Texted
      <4>3. ~Derives(type, n.flat, S, found)
        BY <1>5, <3>2, <4>2, Zenon DEF Derives
      <4>4. Again(f) = Texted(At(n.flat, f))
        BY <2>2, <4>3 DEF Reading
      <4> QED
        BY <1>5, <4>2, <4>4
    <3>3. CASE ~(f = "current_price_or_terms" /\ Derives(type, given, S, found))
      <4>1. R(f) = Texted(v)
        BY <2>2, <3>3 DEF Reading
      <4>2. Texted(R(f)) = R(f)
        BY <3>1, <4>1, TextedIs
      <4>3. ~(f = "current_price_or_terms" /\ Derives(type, n.flat, S, found))
        <5> SUFFICES ASSUME f = "current_price_or_terms", Derives(type, n.flat, S, found)
                     PROVE  FALSE
          OBVIOUS
        <5>1. type = "price_increase" /\ second("annual_spend_usd") # Absent
          BY DEF Derives
        <5>2. "annual_spend_usd" \in PatternFields(type)
          BY <5>1, FieldsApart
        <5>3. first("annual_spend_usd") # Absent
          BY <1>6, <5>1, <5>2
        <5>4. Texted(At(given, f)) # Absent
          BY <3>3, <5>1, <5>3 DEF Derives
        <5>5. Texted(At(n.flat, f)) = Absent
          BY DEF Derives
        <5> QED
          BY <1>5, <4>1, <4>2, <5>4, <5>5
      <4>4. Again(f) = Texted(At(n.flat, f))
        BY <2>2, <4>3 DEF Reading
      <4> QED
        BY <1>5, <4>2, <4>4
    <3> QED
      BY <3>2, <3>3
  <2>3. CASE f \notin PlainTexts(type) /\ f \notin PatternFields(type)
    <3>1. f # "current_price_or_terms" \/ type # "price_increase"
      BY <2>3, FieldsApart
    <3>2. R(f) = Coerced(At(given, f)) /\ Again(f) = Coerced(At(n.flat, f))
      BY <2>3, <3>1 DEF Reading, Derives
    <3>3. At(given, f) \in Values
      BY AtIs
    <3>4. Coerced(Coerced(At(given, f))) = Coerced(At(given, f))
      <4> DEFINE v == Coerced(At(given, f))
      <4>1. /\ v \in Values /\ (v # Absent => v[1] = "number")
            /\ Coerced(Absent) = Absent
        BY <3>3, CoercedIs
      <4> HIDE DEF v
      <4>2. v # Absent => Coerced(v) = v
        BY <4>1, CoercedIs
      <4>3. Coerced(v) = v
        BY <4>1, <4>2
      <4> QED
        BY <4>3 DEF v
    <3> QED
      BY <1>5, <3>2, <3>4
  <2> QED
    BY <2>1, <2>2, <2>3
<1> HIDE DEF R, Again
<1>8. DOMAIN m.flat = DOMAIN n.flat /\ \A f \in DOMAIN n.flat : m.flat[f] = n.flat[f]
  BY <1>1, <1>3, <1>7
<1>9. At(m.flat, "incoterm") = At(n.flat, "incoterm")
  BY <1>8 DEF At
<1>10. m.freightRelevant <=> n.freightRelevant
  BY <1>1, <1>3, <1>9
<1> QED
  BY <1>1, <1>3, <1>8, <1>10 DEF n, m

-----------------------------------------------------------------------------
(* What the gate makes of a pass                                           *)

LEMMA MissingSame ==
  ASSUME NEW mode, NEW n, NEW m, m.type = n.type, DOMAIN m.flat = DOMAIN n.flat,
         m.suppliers = n.suppliers, m.freightRelevant <=> n.freightRelevant
  PROVE  Missing(mode, m) = Missing(mode, n)
<1>1. SignalIsThere(m) = SignalIsThere(n) /\ SpendIsThere(m) = SpendIsThere(n)
  BY Zenon DEF SignalIsThere, SpendIsThere, Compared
<1>2. VendorFreightMissing(m) = VendorFreightMissing(n)
  BY Zenon DEF VendorFreightMissing
<1> DEFINE freight(x) == IF x.type = "price_increase" /\ x.freightRelevant
                         THEN {"freight_cost_or_estimate"} ELSE {}
<1>3. freight(m) = freight(n)
  OBVIOUS
<1> QED
  BY <1>1, <1>2, <1>3, Zenon DEF Missing

\* The gate of each type, in the modes that it distinguishes.
Ordinary(mode, n) ==
  n.type # "problem_solving" /\ mode \notin {"commercial_signal", "category_strategy"}

OrdinaryMissing(n) ==
  Asking((RequiredOf[n.type] \cup
            IF n.type = "price_increase" /\ n.freightRelevant
            THEN {"freight_cost_or_estimate"} ELSE {}) \ DOMAIN n.flat)
  \cup IF n.type = "quote_comparison" THEN VendorFreightMissing(n) ELSE {}

LEMMA MissingCases ==
  ASSUME NEW mode, NEW n
  PROVE  /\ n.type = "problem_solving" =>
              Missing(mode, n) =
                IF "problem_statement" \notin DOMAIN n.flat THEN Asking({"problem_statement"})
                ELSE IF {"current_condition", "desired_condition"} \cap DOMAIN n.flat = {}
                     THEN Asking({"current_condition"}) ELSE {}
         /\ n.type # "problem_solving" /\ mode = "commercial_signal" =>
              Missing(mode, n) =
                IF SignalIsThere(n) THEN {} ELSE Asking({"category_annual_spend_usd"})
         /\ n.type # "problem_solving" /\ mode = "category_strategy" =>
              Missing(mode, n) =
                IF SpendIsThere(n) THEN {} ELSE Asking({"category_annual_spend_usd"})
         /\ Ordinary(mode, n) => Missing(mode, n) = OrdinaryMissing(n)
<1> DEFINE a == IF "problem_statement" \notin DOMAIN n.flat THEN Asking({"problem_statement"})
                ELSE IF {"current_condition", "desired_condition"} \cap DOMAIN n.flat = {}
                     THEN Asking({"current_condition"}) ELSE {}
           b == IF SignalIsThere(n) THEN {} ELSE Asking({"category_annual_spend_usd"})
           c == IF SpendIsThere(n) THEN {} ELSE Asking({"category_annual_spend_usd"})
           d == OrdinaryMissing(n)
<1>1. Missing(mode, n) =
        CASE n.type = "problem_solving" -> a
          [] n.type # "problem_solving" /\ mode = "commercial_signal" -> b
          [] n.type # "problem_solving" /\ mode = "category_strategy" -> c
          [] OTHER -> d
  BY Zenon DEF Missing, OrdinaryMissing
<1> HIDE DEF a, b, c, d
<1>2. "commercial_signal" # "category_strategy"
  OBVIOUS
<1>3. n.type = "problem_solving" => Missing(mode, n) = a
  BY <1>1
<1>4. n.type # "problem_solving" /\ mode = "commercial_signal" => Missing(mode, n) = b
  BY <1>1, <1>2
<1>5. n.type # "problem_solving" /\ mode = "category_strategy" => Missing(mode, n) = c
  BY <1>1, <1>2
<1>6. Ordinary(mode, n) => Missing(mode, n) = d
  BY <1>1, Zenon DEF Ordinary
<1> QED
  BY <1>3, <1>4, <1>5, <1>6 DEF a, b, c, d

\* What is asked for: freight of a supplier, or a field, which is one that is
\* looked for by a pattern only where it has no value.
LEMMA MissingAsks ==
  ASSUME NEW mode, NEW n, n.type \in Types, NEW q \in Missing(mode, n)
  PROVE  \/ q[1] = "freight" /\ q[2] \in DOMAIN n.suppliers
         \/ /\ q[1] = "field"
            /\ q[2] \in PatternFields(n.type) =>
                 q[2] = "requested_increase_percent" /\ q[2] \notin DOMAIN n.flat
<1>t. n.type \in {"price_increase", "quote_comparison", "problem_solving"}
  BY DEF Types, RequiredOf
<1>1. \A fields : q \in Asking(fields) => q[1] = "field" /\ q[2] \in fields
  BY DEF Asking
<1>2. CASE n.type = "problem_solving"
  <2>1. q \in Asking({"problem_statement"}) \/ q \in Asking({"current_condition"})
    BY <1>2, MissingCases
  <2>2. q[1] = "field" /\ q[2] \in {"problem_statement", "current_condition"}
    BY <1>1, <2>1
  <2>3. q[2] \notin PatternFields(n.type)
    BY <1>2, <2>2 DEF PatternFields, CommonPatterns
  <2> QED
    BY <2>2, <2>3
<1>3. CASE n.type # "problem_solving" /\ mode \in {"commercial_signal", "category_strategy"}
  <2>1. q \in Asking({"category_annual_spend_usd"})
    BY <1>3, MissingCases
  <2>2. q[1] = "field" /\ q[2] = "category_annual_spend_usd"
    BY <1>1, <2>1
  <2>3. q[2] \notin PatternFields(n.type)
    BY <2>2 DEF PatternFields, CommonPatterns, PricePatterns
  <2> QED
    BY <2>2, <2>3
<1>4. CASE Ordinary(mode, n)
  <2>0. q \in OrdinaryMissing(n)
    BY <1>4, MissingCases
  <2>1. CASE q \in VendorFreightMissing(n)
    BY <2>1 DEF VendorFreightMissing
  <2>2. CASE q \notin VendorFreightMissing(n)
    <3>1. q \in Asking((RequiredOf[n.type] \cup
                          IF n.type = "price_increase" /\ n.freightRelevant
                          THEN {"freight_cost_or_estimate"} ELSE {}) \ DOMAIN n.flat)
      BY <2>0, <2>2 DEF OrdinaryMissing
    <3>2. /\ q[1] = "field" /\ q[2] \notin DOMAIN n.flat
          /\ q[2] \in RequiredOf[n.type] \cup {"freight_cost_or_estimate"}
      BY <1>1, <3>1
    <3>3. q[2] \in PatternFields(n.type) => q[2] = "requested_increase_percent"
      <4>1. CASE n.type = "price_increase"
        BY <3>2, <4>1 DEF RequiredOf, PatternFields, CommonPatterns, PricePatterns
      <4>2. CASE n.type = "quote_comparison"
        BY <3>2, <4>2 DEF RequiredOf, PatternFields, CommonPatterns
      <4> QED
        BY <1>4, <1>t, <4>1, <4>2 DEF Ordinary
    <3> QED
      BY <3>2, <3>3
  <2> QED
    BY <2>1, <2>2
<1> QED
  BY <1>2, <1>3, <1>4 DEF Ordinary

AskedFields(type) == PlainNumbers(type) \cup PlainTexts(type) \cup {"requested_increase_percent"}

\* Evidence that has every such field of evidence that nothing was missing from
\* lacks no more than freight, or the spend of suppliers that are not there.
LEMMA MissingGrows ==
  ASSUME NEW mode, NEW n, NEW m, n.type \in Types, m.type = n.type,
         Missing(mode, m) = {}, DOMAIN m.flat \subseteq Fields(m.type),
         \A f \in DOMAIN m.flat : f \in AskedFields(n.type) => f \in DOMAIN n.flat,
         NEW q \in Missing(mode, n)
  PROVE  \/ q[1] = "freight" \/ q[2] = "freight_cost_or_estimate"
         \/ q[2] = "category_annual_spend_usd" /\ n.suppliers # m.suppliers
<1>t. n.type \in {"price_increase", "quote_comparison", "problem_solving"}
  BY DEF Types, RequiredOf
<1>1. \A fields : q \in Asking(fields) => q[1] = "field" /\ q[2] \in fields
  BY DEF Asking
<1>2. \A f : Asking({f}) # {}
  BY DEF Asking
<1>3. CASE n.type = "problem_solving"
  <2>1. /\ "problem_statement" \in DOMAIN m.flat
        /\ {"current_condition", "desired_condition"} \cap DOMAIN m.flat # {}
    BY <1>2, <1>3, MissingCases
  <2>2. {"problem_statement", "current_condition", "desired_condition"}
           \subseteq AskedFields(n.type)
    BY <1>3 DEF AskedFields, PlainTexts, RequiredOf
  <2>3. /\ "problem_statement" \in DOMAIN n.flat
        /\ {"current_condition", "desired_condition"} \cap DOMAIN n.flat # {}
    BY <2>1, <2>2
  <2> QED
    BY <1>3, <2>3, MissingCases
<1>4. CASE n.type # "problem_solving" /\ mode \in {"commercial_signal", "category_strategy"}
  <2>1. q[2] = "category_annual_spend_usd"
    <3>1. q \in Asking({"category_annual_spend_usd"})
      BY <1>4, MissingCases
    <3> QED
      BY <1>1, <3>1
  <2>2. SUFFICES ASSUME n.suppliers = m.suppliers PROVE FALSE
    BY <2>1
  <2>3. CASE n.type = "price_increase"
    <3>1. {"category_annual_spend_usd", "category_prior_annual_spend_usd",
           "category_annual_volume_units", "category_prior_annual_volume_units",
           "specification_change_description"} \subseteq AskedFields(n.type)
      BY <2>3 DEF AskedFields, PlainTexts, PlainNumbers
    <3>2. SignalIsThere(m) => SignalIsThere(n)
      BY <2>2, <3>1 DEF SignalIsThere, Compared
    <3>3. SpendIsThere(m) => SpendIsThere(n)
      BY <2>2, <3>1 DEF SpendIsThere
    <3> QED
      BY <1>2, <1>4, <3>2, <3>3, MissingCases
  <2>4. CASE n.type = "quote_comparison"
    <3>1. {"category_annual_spend_usd", "category_prior_annual_spend_usd",
           "category_annual_volume_units", "category_prior_annual_volume_units",
           "specification_change_description"} \cap DOMAIN m.flat = {}
      BY <2>4 DEF Fields, PatternFields, CommonPatterns, PlainNumbers, PlainTexts, RequiredOf
    <3>2. SignalIsThere(m) => SignalIsThere(n)
      BY <2>2, <3>1 DEF SignalIsThere, Compared
    <3>3. SpendIsThere(m) => SpendIsThere(n)
      BY <2>2, <3>1 DEF SpendIsThere
    <3> QED
      BY <1>2, <1>4, <3>2, <3>3, MissingCases
  <2> QED
    BY <1>4, <1>t, <2>3, <2>4
<1>5. CASE Ordinary(mode, n)
  <2>0. q \in OrdinaryMissing(n) /\ OrdinaryMissing(m) = {}
    BY <1>5, MissingCases DEF Ordinary
  <2>1. CASE q \in VendorFreightMissing(n)
    BY <2>1 DEF VendorFreightMissing
  <2>2. CASE q \notin VendorFreightMissing(n)
    <3>1. q \in Asking((RequiredOf[n.type] \cup
                          IF n.type = "price_increase" /\ n.freightRelevant
                          THEN {"freight_cost_or_estimate"} ELSE {}) \ DOMAIN n.flat)
      BY <2>0, <2>2 DEF OrdinaryMissing
    <3>2. /\ q[1] = "field" /\ q[2] \notin DOMAIN n.flat
          /\ q[2] \in RequiredOf[n.type] \cup {"freight_cost_or_estimate"}
      BY <1>1, <3>1
    <3>3. RequiredOf[n.type] \subseteq DOMAIN m.flat
      <4>1. Asking(RequiredOf[m.type] \ DOMAIN m.flat) = {}
        BY <2>0 DEF OrdinaryMissing, Asking
      <4> QED
        BY <4>1 DEF Asking
    <3>4. RequiredOf[n.type] \subseteq AskedFields(n.type)
      BY DEF AskedFields, PlainTexts
    <3> QED
      BY <3>2, <3>3, <3>4
  <2> QED
    BY <2>1, <2>2
<1> QED
  BY <1>3, <1>4, <1>5 DEF Ordinary

-----------------------------------------------------------------------------
(* What the first text said is in the evidence, and stays                  *)

\* What was given for a field, as it is read.
Said(type, given, f) ==
  IF f \in PatternFields(type) THEN Claimed(given, f)
  ELSE IF f \in PlainTexts(type) THEN Texted(At(given, f)) ELSE Coerced(At(given, f))

\* Nothing is given where nothing is said.
LEMMA SaidIs ==
  ASSUME NEW given, GivenOK(given), NEW type, NEW f, Said(type, given, f) # Absent
  PROVE  At(given, f) # Absent /\ f \in DOMAIN given
<1>1. At(given, f) \in Values
  BY AtIs
<1>2. Claimed(given, f) # Absent => At(given, f) # Absent
  BY ClaimedIs
<1>3. At(given, f) = Absent => Texted(At(given, f)) = Absent /\ Coerced(At(given, f)) = Absent
  BY <1>1, TextedIs DEF Coerced
<1>4. At(given, f) # Absent
  BY <1>2, <1>3 DEF Said
<1> QED
  BY <1>4 DEF At

\* Evidence that holds what its text said is read as what was given.
LEMMA HeldReads ==
  ASSUME NEW type \in Types, NEW given, GivenOK(given), NEW vendors, NEW suppliers,
         NEW found, Held(type, found, vendors, given), NEW f \in Fields(type),
         \A g : Varies(suppliers, g) = Varies(vendors, g),
         Reading(type, given, suppliers, found, f) # Absent
  PROVE  Reading(type, given, suppliers, found, f) = Said(type, given, f)
<1>1. CASE f \in PatternFields(type)
  <2>1. /\ Reading(type, given, suppliers, found, f) = PatternOf(given, suppliers, found, f)
        /\ Said(type, given, f) = Claimed(given, f)
    BY <1>1 DEF Reading, Said
  <2>2. ~Varies(vendors, f) /\ (Claimed(given, f) # Absent \/ At(found, f) # Absent)
    BY <2>1 DEF PatternOf
  <2>3. Claimed(given, f) # Absent
    BY <1>1, <2>2 DEF Held
  <2> QED
    BY <2>1, <2>2, <2>3 DEF PatternOf
<1>2. CASE f \notin PatternFields(type)
  <2>1. ~Derives(type, given, suppliers, found)
    <3> DEFINE spend == "annual_spend_usd"
    <3> SUFFICES ASSUME Derives(type, given, suppliers, found) PROVE FALSE
      OBVIOUS
    <3>1. /\ type = "price_increase" /\ spend \in PatternFields(type)
          /\ PatternOf(given, suppliers, found, spend) # Absent
          /\ Texted(At(given, "current_price_or_terms")) = Absent
      BY FieldsApart DEF Derives
    <3>2. Claimed(given, spend) # Absent \/ At(found, spend) # Absent
      BY <3>1 DEF PatternOf
    <3>3. ~Varies(vendors, spend)
      BY DEF Varies, PerVendor
    <3>4. Claimed(given, spend) # Absent
      BY <3>1, <3>2, <3>3 DEF Held
    <3>5. At(given, "current_price_or_terms") # Absent
      BY <3>1, <3>4 DEF Held
    <3> QED
      BY <3>1, <3>5, AtIs, TextedIs
  <2> QED
    BY <1>2, <2>1 DEF Reading, Said
<1> QED
  BY <1>1, <1>2

\* Evidence where the same is given for a field reads it the same, or not at all
\* because suppliers differ in it.
LEMMA SaidAgain ==
  ASSUME NEW type \in Types, NEW given, GivenOK(given), NEW flat, GivenOK(flat),
         NEW suppliers, NEW found, NEW f \in Fields(type), At(flat, f) = At(given, f),
         Said(type, given, f) # Absent
  PROVE  \/ Reading(type, flat, suppliers, found, f) = Said(type, given, f)
         \/ /\ Reading(type, flat, suppliers, found, f) = Absent
            /\ f \in PatternFields(type) /\ f \in PerVendor
<1>1. Said(type, flat, f) = Said(type, given, f)
  <2>1. Claimed(flat, f) = Claimed(given, f)
    BY DEF Claimed
  <2> QED
    BY <2>1 DEF Said
<1>2. CASE f \in PatternFields(type)
  BY <1>1, <1>2 DEF Reading, Said, PatternOf, Varies
<1>3. CASE f \notin PatternFields(type)
  <2>1. f = "current_price_or_terms" => ~Derives(type, flat, suppliers, found)
    <3> SUFFICES ASSUME f = "current_price_or_terms", Derives(type, flat, suppliers, found)
                 PROVE  FALSE
      OBVIOUS
    <3>1. f \in PlainTexts(type) /\ Texted(At(flat, f)) = Absent
      BY FieldsApart DEF Derives
    <3> QED
      BY <1>1, <1>3, <3>1 DEF Said
  <2> QED
    BY <1>1, <1>3, <2>1 DEF Reading, Said
<1> QED
  BY <1>2, <1>3

\* A continuation that has a field as its parent stored it reads it as its parent
\* did. It has what may be asked for.
LEMMA PassContinues ==
  ASSUME NEW type \in Types, NEW given, GivenOK(given), NEW flat, GivenOK(flat),
         NEW vendors, VendorsOK(vendors), NEW freight, NEW found,
         Held(type, found, vendors, given),
         NEW freight2, NEW vendors2, NEW found2, NEW f,
         f \in DOMAIN Normalised(type, given, freight, WithFreight(vendors, Empty), found).flat
  PROVE  LET m == Normalised(type, given, freight, WithFreight(vendors, Empty), found)
             n == Normalised(type, flat, freight2, vendors2, found2)
         IN /\ f \in DOMAIN given
            /\ f \in DOMAIN flat /\ flat[f] = given[f] =>
                 /\ f \in AskedFields(type) => f \in DOMAIN n.flat
                 /\ f \in DOMAIN n.flat => n.flat[f] = m.flat[f]
<1> DEFINE w == WithFreight(vendors, Empty)
           m == Normalised(type, given, freight, w, found)
           n == Normalised(type, flat, freight2, vendors2, found2)
           S == WithFreight(w, freight)
           T == WithFreight(vendors2, freight2)
           R == Reading(type, given, S, found, f)
           Q == Reading(type, flat, T, found2, f)
<1>1. VendorsOK(w)
  BY NoFreightNothing DEF VendorsOK
<1>2. \A g : Varies(S, g) = Varies(vendors, g)
  BY <1>1, FreightIsApart, NoFreightSame
<1> HIDE DEF w
<1>3. f \in Fields(type) /\ R # Absent /\ m.flat[f] = R
  BY PassReads DEF w
<1>4. /\ f \in DOMAIN n.flat <=> Q # Absent
      /\ f \in DOMAIN n.flat => n.flat[f] = Q
  BY <1>3, PassReads
<1>5. R = Said(type, given, f)
  <2> HIDE DEF S
  <2> QED
    BY <1>2, <1>3, HeldReads
<1>6. f \in DOMAIN given /\ At(given, f) # Absent
  BY <1>3, <1>5, SaidIs
<1>7. ASSUME f \in DOMAIN flat, flat[f] = given[f]
      PROVE  /\ f \in AskedFields(type) => f \in DOMAIN n.flat
             /\ f \in DOMAIN n.flat => n.flat[f] = m.flat[f]
  <2>1. At(flat, f) = At(given, f)
    BY <1>6, <1>7 DEF At
  <2>2. \/ Q = R
        \/ Q = Absent /\ f \in PatternFields(type) /\ f \in PerVendor
    BY <1>3, <1>5, <2>1, SaidAgain
  <2>3. f \in AskedFields(type) /\ f \in PatternFields(type) => f \notin PerVendor
    BY FieldsApart DEF AskedFields, PerVendor
  <2> HIDE DEF Q, R
  <2> QED
    BY <1>3, <1>4, <2>2, <2>3
<1> QED
  BY <1>6, <1>7 DEF m, n, w

\* The first pass leaves all that the text said in the evidence.
LEMMA HeldPass ==
  ASSUME NEW type \in Types, NEW given, GivenOK(given), NEW vendors, NEW found, FoundOK(found)
  PROVE  Held(type, found, vendors, Normalised(type, given, Empty, vendors, found).flat)
<1> DEFINE n == Normalised(type, given, Empty, vendors, found)
           S == WithFreight(vendors, Empty)
           R(f) == Reading(type, given, S, found, f)
           pattern(f) == PatternOf(given, S, found, f)
<1>1. /\ DOMAIN n.flat = {f \in Fields(type) : R(f) # Absent}
      /\ \A f \in DOMAIN n.flat : n.flat[f] = R(f)
  BY PassReads
<1>2. GivenOK(n.flat)
  BY PassStores DEF GivenOK, Values
<1> HIDE DEF n
<1>3. ASSUME NEW f \in PatternFields(type), At(found, f) # Absent, ~Varies(vendors, f)
      PROVE  Claimed(n.flat, f) # Absent
  <2>1. ~Varies(S, f)
    BY <1>3, NoFreightSame
  <2>2. pattern(f) # Absent
    BY <1>3, <2>1 DEF PatternOf
  <2>3. f \in MustBeNumbers => pattern(f)[1] = "number"
    BY <2>2, PatternIs
  <2>4. R(f) = pattern(f)
    BY <1>3 DEF Reading
  <2> HIDE DEF S, R
  <2>5. At(n.flat, f) = pattern(f)
    BY <1>1, <1>3, <2>2, <2>4 DEF At, Fields
  <2> QED
    BY <1>2, <2>2, <2>3, <2>5, ClaimedIs
<1>4. ASSUME type = "price_increase", Claimed(n.flat, "annual_spend_usd") # Absent
      PROVE  At(n.flat, "current_price_or_terms") # Absent
  <2> DEFINE spend == "annual_spend_usd"
             price == "current_price_or_terms"
  <2>1. /\ spend \in PatternFields(type)
        /\ price \in PlainTexts(type) /\ price \notin PatternFields(type)
    BY <1>4, FieldsApart
  <2>2. At(n.flat, spend) # Absent
    BY <1>2, <1>4, ClaimedIs
  <2>3. R(spend) # Absent
    BY <1>1, <2>2 DEF At
  <2>4. pattern(spend) # Absent
    BY <2>1, <2>3 DEF Reading
  <2>5. R(price) # Absent
    <3>1. CASE Derives(type, given, S, found)
      <4>1. R(price) = <<"text", pattern(spend)[2]>>
        BY <2>1, <3>1 DEF Reading
      <4>2. pattern(spend) \in ValueShape
        BY <2>4, PatternIs
      <4>3. pattern(spend)[2] \in Int
        BY <4>2, ShapeOf
      <4> HIDE DEF R
      <4>4. R(price) \in ValueShape
        BY <4>1, <4>3 DEF ValueShape
      <4> QED
        BY <4>4, EvidenceAssumption
    <3>2. CASE ~Derives(type, given, S, found)
      <4>1. R(price) = Texted(At(given, price))
        BY <2>1, <3>2 DEF Reading
      <4> QED
        BY <1>4, <2>4, <3>2, <4>1 DEF Derives
    <3> QED
      BY <3>1, <3>2
  <2> HIDE DEF R
  <2>6. price \in DOMAIN n.flat /\ n.flat[price] = R(price)
    BY <1>1, <2>1, <2>5 DEF Fields
  <2> QED
    BY <2>5, <2>6 DEF At
<1> QED
  BY <1>3, <1>4, Zenon DEF Held, n

\* No answer takes it out: no pattern is asked about that found something.
LEMMA HeldAnswer ==
  ASSUME NEW type \in Types, NEW found, NEW vendors, NEW flat, Held(type, found, vendors, flat),
         NEW answers, \A f \in DOMAIN answers : answers[f] \in ValueShape,
         \A f \in DOMAIN answers \cap PatternFields(type) :
           f = "requested_increase_percent" /\ At(found, f) = Absent
  PROVE  Held(type, found, vendors, Over(answers, flat))
<1> DEFINE new == Over(answers, flat)
<1>0. /\ DOMAIN new = DOMAIN answers \cup DOMAIN flat
      /\ \A f \in DOMAIN answers : new[f] = answers[f]
      /\ \A f \in DOMAIN flat \ DOMAIN answers : new[f] = flat[f]
  BY OverIs
<1> HIDE DEF new
<1>1. /\ \A f : f \in DOMAIN answers => At(new, f) # Absent
      /\ \A f : f \notin DOMAIN answers => At(new, f) = At(flat, f)
  <2>1. ASSUME NEW f \in DOMAIN answers PROVE At(new, f) # Absent
    BY <1>0, EvidenceAssumption DEF At
  <2>2. ASSUME NEW f, f \notin DOMAIN answers PROVE At(new, f) = At(flat, f)
    BY <1>0, <2>2 DEF At
  <2> QED
    BY <2>1, <2>2
<1>2. ASSUME NEW f, f \notin DOMAIN answers PROVE Claimed(new, f) = Claimed(flat, f)
  <2>1. At(new, f) = At(flat, f)
    BY <1>1, <1>2
  <2> QED
    BY <2>1 DEF Claimed
<1>3. ASSUME NEW f \in PatternFields(type), At(found, f) # Absent
      PROVE  Claimed(new, f) # Absent \/ Varies(vendors, f)
  <2>1. f \notin DOMAIN answers
    BY <1>3
  <2> QED
    BY <1>2, <1>3, <2>1 DEF Held
<1>4. ASSUME type = "price_increase", Claimed(new, "annual_spend_usd") # Absent
      PROVE  At(new, "current_price_or_terms") # Absent
  <2>1. "annual_spend_usd" \notin DOMAIN answers
    BY <1>4, FieldsApart
  <2>2. Claimed(flat, "annual_spend_usd") # Absent
    BY <1>2, <1>4, <2>1
  <2>3. At(flat, "current_price_or_terms") # Absent
    BY <1>4, <2>2 DEF Held
  <2> QED
    BY <1>1, <2>3
<1> QED
  BY <1>3, <1>4, Zenon DEF Held, new

-----------------------------------------------------------------------------
(* What a step may do to rows and tabs                                     *)

SameText(c) ==
  /\ row'[c].type = row[c].type /\ row'[c].mode = row[c].mode
  /\ row'[c].llm = row[c].llm /\ row'[c].found = row[c].found
  /\ row'[c].vendors = row[c].vendors

Updated(c, status, stored, asked) ==
  /\ \A d \in CaseName : SameText(d)
  /\ row'[c].status = status /\ row'[c].stored = stored /\ row'[c].asked = asked
  /\ \A d \in CaseName \ {c} :
       row'[d].status = row[d].status /\ row'[d].stored = row[d].stored
         /\ row'[d].asked = row[d].asked

Rewritten(new, r, status, stored, asked) ==
  /\ IsRow(new)
  /\ new.type = r.type /\ new.mode = r.mode /\ new.llm = r.llm
  /\ new.found = r.found /\ new.vendors = r.vendors
  /\ new.status = status /\ new.stored = stored /\ new.asked = asked

LEMMA NotRewritten ==
  ASSUME NEW r, IsRow(r)
  PROVE  Rewritten(r, r, r.status, r.stored, r.asked)
BY DEF Rewritten

LEMMA Rewriting ==
  ASSUME NEW r, NEW q, NEW status, NEW stored, NEW asked,
         Rewritten(q, r, status, stored, asked), NEW x
  PROVE  /\ Rewritten(With(q, "status", x), r, x, stored, asked)
         /\ Rewritten(With(q, "stored", x), r, status, x, asked)
         /\ Rewritten(With(q, "asked", x), r, status, stored, x)
         /\ Rewritten(With(q, "prov", x), r, status, stored, asked)
<1>1. \A f \in {"status", "stored", "asked", "prov"} :
         /\ IsRow(With(q, f, x)) /\ With(q, f, x)[f] = x
         /\ \A g \in RowField \ {f} : With(q, f, x)[g] = q[g]
  BY RowChanged DEF RowField, Rewritten
<1> QED
  BY <1>1 DEF Rewritten, RowField

LEMMA RowRewritten ==
  ASSUME RowsAreWhole, NEW c \in CaseName, NEW new, NEW status, NEW stored, NEW asked,
         Rewritten(new, row[c], status, stored, asked), row' = [row EXCEPT ![c] = new]
  PROVE  Updated(c, status, stored, asked)
<1>1. row'[c] = new /\ \A d \in CaseName \ {c} : row'[d] = row[d]
  BY RowStep DEF Rewritten
<1> QED
  BY <1>1 DEF Updated, SameText, Rewritten

LEMMA NotUpdated ==
  ASSUME row' = row, NEW c \in CaseName
  PROVE  Updated(c, row[c].status, row[c].stored, row[c].asked)
BY DEF Updated, SameText

LEMMA StatusUpdated ==
  ASSUME RowsAreWhole, NEW c \in CaseName, NEW status, row' = [row EXCEPT ![c].status = status]
  PROVE  Updated(c, status, row[c].stored, row[c].asked)
<1> DEFINE new == With(row[c], "status", status)
<1>1. row' = [row EXCEPT ![c] = new]
  BY DEF With
<1>2. Rewritten(new, row[c], status, row[c].stored, row[c].asked)
  BY NotRewritten, Rewriting DEF RowsAreWhole
<1> HIDE DEF new
<1> QED
  BY <1>1, <1>2, RowRewritten

LEMMA StoredUpdated ==
  ASSUME RowsAreWhole, NEW c \in CaseName, NEW stored, row' = [row EXCEPT ![c].stored = stored]
  PROVE  Updated(c, row[c].status, stored, row[c].asked)
<1> DEFINE new == With(row[c], "stored", stored)
<1>1. row' = [row EXCEPT ![c] = new]
  BY DEF With
<1>2. Rewritten(new, row[c], row[c].status, stored, row[c].asked)
  BY NotRewritten, Rewriting DEF RowsAreWhole
<1> HIDE DEF new
<1> QED
  BY <1>1, <1>2, RowRewritten

LEMMA AskedUpdated ==
  ASSUME RowsAreWhole, NEW c \in CaseName, NEW status, NEW asked,
         row' = [row EXCEPT ![c].status = status, ![c].asked = asked]
  PROVE  Updated(c, status, row[c].stored, asked)
<1> DEFINE first == With(row[c], "status", status)
           new == With(first, "asked", asked)
<1>1. row' = [row EXCEPT ![c] = new]
  BY DEF With, RowsAreWhole
<1>2. Rewritten(first, row[c], status, row[c].stored, row[c].asked)
  BY NotRewritten, Rewriting DEF RowsAreWhole
<1> HIDE DEF first
<1>3. Rewritten(new, row[c], status, row[c].stored, asked)
  BY <1>2, Rewriting
<1> HIDE DEF new
<1> QED
  BY <1>1, <1>3, RowRewritten

LEMMA PublishedUpdated ==
  ASSUME RowsAreWhole, NEW c \in CaseName, WorkerPublishes(c)
  PROVE  Updated(c, "completed", row[c].stored, row[c].asked)
<1> DEFINE prov == MergedProvenance(row[c].prov, worker[c].prov)
           first == With(row[c], "status", "completed")
           new == With(first, "prov", prov)
<1>1. row' = [row EXCEPT ![c].status = "completed", ![c].prov = prov]
  BY DEF WorkerPublishes
<1> HIDE DEF prov
<1>2. row' = [row EXCEPT ![c] = new]
  BY <1>1 DEF With, RowsAreWhole
<1>3. Rewritten(first, row[c], "completed", row[c].stored, row[c].asked)
  BY NotRewritten, Rewriting DEF RowsAreWhole
<1> HIDE DEF first
<1>4. Rewritten(new, row[c], "completed", row[c].stored, row[c].asked)
  BY <1>3, Rewriting
<1> HIDE DEF new
<1> QED
  BY <1>2, <1>4, RowRewritten

\* The first pass, and what the gate makes of it.
FirstPass(c) ==
  Normalised(row[c].type, row[c].llm, Empty, row[c].vendors, row[c].found)

AsksFirst ==
  IF row["created"].mode = "market_intelligence" THEN {}
  ELSE Missing(row["created"].mode, FirstPass("created"))

LEMMA ClassifiedUpdated ==
  ASSUME RowsAreWhole, Classified
  PROVE  LET n == FirstPass("created") IN
         Updated("created", IF AsksFirst = {} THEN "reasoning" ELSE "awaiting",
                 [flat |-> n.flat, freight |-> Empty, suppliers |-> n.suppliers,
                  pending |-> {}], AsksFirst)
<1> DEFINE c == "created"
           n == FirstPass(c)
           status == IF AsksFirst = {} THEN "reasoning" ELSE "awaiting"
           stored == [flat |-> n.flat, freight |-> Empty, suppliers |-> n.suppliers,
                      pending |-> {}]
           first == With(row[c], "status", status)
           second == With(first, "stored", stored)
           third == With(second, "prov", n.prov)
           new == With(third, "asked", AsksFirst)
<1>1. row' = [row EXCEPT ![c] = new]
  BY DEF Classified, With, AsksFirst, FirstPass
<1>2. c \in CaseName
  BY DEF CaseName
<1> HIDE DEF status, stored, c
<1>3. Rewritten(first, row[c], status, row[c].stored, row[c].asked)
  BY <1>2, NotRewritten, Rewriting DEF RowsAreWhole
<1> HIDE DEF first
<1>4. Rewritten(second, row[c], status, stored, row[c].asked)
  BY <1>3, Rewriting
<1> HIDE DEF second
<1>5. Rewritten(third, row[c], status, stored, row[c].asked)
  BY <1>4, Rewriting
<1> HIDE DEF third
<1>6. Rewritten(new, row[c], status, stored, AsksFirst)
  BY <1>5, Rewriting
<1> HIDE DEF new
<1>7. Updated(c, status, stored, AsksFirst)
  BY <1>1, <1>2, <1>6, RowRewritten
<1> QED
  BY <1>7 DEF c, status, stored

\* What an update changes, and what makes it wait.
ChangesOfUpdate == Changed(row["continued"].stored.flat, FirstPass("continued").flat)

UpdateAsks == ChangesOfUpdate # {} \/ FirstPass("continued").conflicts # {}

StoredOfUpdate ==
  LET n == FirstPass("continued")
      was == row["continued"].stored
  IN [flat |-> Over(n.flat, was.flat), freight |-> was.freight,
      suppliers |-> IF n.suppliers = Empty THEN was.suppliers ELSE n.suppliers,
      pending |-> ChangesOfUpdate]

LEMMA ReconciledUpdated ==
  ASSUME RowsAreWhole, UpdateReconciled
  PROVE  Updated("continued", IF UpdateAsks THEN "awaiting" ELSE "reasoning", StoredOfUpdate,
                 IF UpdateAsks THEN Asking({"continuation_evidence_confirmation"}) ELSE {})
<1> DEFINE c == "continued"
           status == IF UpdateAsks THEN "awaiting" ELSE "reasoning"
           asked == IF UpdateAsks THEN Asking({"continuation_evidence_confirmation"}) ELSE {}
           first == With(row[c], "status", status)
           second == With(first, "stored", StoredOfUpdate)
           new == With(second, "asked", asked)
<1>1. row' = [row EXCEPT ![c] = new]
  BY DEF UpdateReconciled, With, UpdateAsks, StoredOfUpdate, ChangesOfUpdate, FirstPass
<1>2. c \in CaseName
  BY DEF CaseName
<1> HIDE DEF status, asked, c
<1>3. Rewritten(first, row[c], status, row[c].stored, row[c].asked)
  BY <1>2, NotRewritten, Rewriting DEF RowsAreWhole
<1> HIDE DEF first
<1>4. Rewritten(second, row[c], status, StoredOfUpdate, row[c].asked)
  BY <1>3, Rewriting
<1> HIDE DEF second
<1>5. Rewritten(new, row[c], status, StoredOfUpdate, asked)
  BY <1>4, Rewriting
<1> HIDE DEF new
<1>6. Updated(c, status, StoredOfUpdate, asked)
  BY <1>1, <1>2, <1>5, RowRewritten
<1> QED
  BY <1>6 DEF c, status, asked

TabTo(t, pc, case, merged) ==
  /\ tab'[t].pc = pc /\ tab'[t].case = case /\ tab'[t].merged = merged
  /\ \A u \in Tab \ {t} : tab'[u] = tab[u]

LEMMA TabSet ==
  ASSUME TabsLate, NEW t \in Tab, NEW new, tab' = [tab EXCEPT ![t] = new]
  PROVE  tab'[t] = new /\ TabTo(t, new.pc, new.case, new.merged)
<1>1. tab'[t] = new /\ \A u \in Tab \ {t} : tab'[u] = tab[u]
  BY DEF TabsLate
<1> QED
  BY <1>1 DEF TabTo

LEMMA TabSetPc ==
  ASSUME TabsLate, NEW t \in Tab, NEW pc, tab' = [tab EXCEPT ![t].pc = pc]
  PROVE  TabTo(t, pc, tab[t].case, tab[t].merged)
<1> DEFINE r == tab[t]
           same == [f \in TabField |-> r[f]]
           then == [f \in TabField |-> IF f = "pc" THEN pc ELSE r[f]]
           new == [r EXCEPT !.pc = pc]
<1>1. r = same
  BY Zenon DEF TabsLate, IsTab
<1>2. [same EXCEPT !.pc = pc] = then
  OBVIOUS
<1>3. new = then
  BY <1>1, <1>2, Zenon
<1>4. then.pc = pc /\ then.case = r.case /\ then.merged = r.merged
  BY DEF TabField
<1> HIDE DEF then
<1>5. tab' = [tab EXCEPT ![t] = new]
  OBVIOUS
<1> HIDE DEF new
<1> QED
  BY <1>3, <1>4, <1>5, TabSet

LEMMA TabSetIdle ==
  ASSUME TabsLate, NEW t \in Tab, tab' = [tab EXCEPT ![t] = Idle]
  PROVE  TabTo(t, "idle", "created", EmptyStore)
BY TabSet DEF Idle

-----------------------------------------------------------------------------
(* The conjuncts of the invariant, where a step leaves them alone          *)

LEMMA ContentStays ==
  ASSUME ContentOK,
         \A c \in CaseName : SameText(c) /\ row'[c].status \in Status,
         \A c \in CaseName : row'[c].status # "absent" => row[c].status # "absent",
         \A c \in CaseName : row'[c].stored = row[c].stored \/ StoreIs(row'[c].stored),
         \A c \in CaseName : \A q \in row'[c].asked :
           q \in row[c].asked \/ q[1] # "freight" \/ q[2] \in Vendor,
         \A t \in Tab :
           tab'[t].merged = tab[t].merged
             \/ (StoreIs(tab'[t].merged) /\ tab'[t].merged.pending = {}),
         basis' = [c \in CaseName |-> basis'[c]], raced' \subseteq CaseName
  PROVE  ContentOK'
<1>1. ASSUME NEW c \in CaseName
      PROVE  /\ row'[c].status \in Status
             /\ row'[c].status # "absent" => ReadingOK(row'[c]) /\ row'[c].type \in Types
             /\ StoreIs(row'[c].stored)
             /\ \A q \in row'[c].asked : q[1] = "freight" => q[2] \in Vendor
  <2>1. row'[c].status # "absent" => ReadingOK(row'[c]) /\ row'[c].type \in Types
    <3>1. ReadingOK(row[c]) => ReadingOK(row'[c])
      BY DEF ReadingOK, SameText
    <3> QED
      BY <3>1 DEF ContentOK, SameText
  <2>2. StoreIs(row'[c].stored)
    BY DEF ContentOK
  <2>3. \A q \in row'[c].asked : q[1] = "freight" => q[2] \in Vendor
    BY DEF ContentOK
  <2> QED
    BY <2>1, <2>2, <2>3
<1>2. \A t \in Tab : StoreIs(tab'[t].merged) /\ tab'[t].merged.pending = {}
  BY DEF ContentOK
<1> QED
  BY <1>1, <1>2 DEF ContentOK, StoreIs, ReadingOK

\* A pass depends on what is stored, its type and its text.
LEMMA PassSame ==
  ASSUME NEW c \in CaseName, SameText(c), row'[c].stored = row[c].stored
  PROVE  Pass(row'[c]) = Pass(row[c])
BY Zenon DEF Pass, SameText

LEMMA MadeStays ==
  ASSUME MadeOfStored, \A c \in CaseName : SameText(c),
         \A c \in CaseName :
           \/ /\ row'[c].stored = row[c].stored
              /\ worker'[c] \in {worker[c], Absent, Pass(row[c])}
              /\ basis'[c] \in {basis[c], worker[c]}
           \/ worker'[c] = Absent /\ basis'[c] = Absent
  PROVE  MadeOfStored'
<1> SUFFICES ASSUME NEW c \in CaseName, NEW n \in {worker'[c], basis'[c]} \ {Absent}
             PROVE  n = Pass(row'[c])
  BY DEF MadeOfStored, ReasonedOn, Pass
<1>1. /\ row'[c].stored = row[c].stored
      /\ worker'[c] \in {worker[c], Absent, Pass(row[c])}
      /\ basis'[c] \in {basis[c], worker[c]}
  OBVIOUS
<1>2. \A m \in {worker[c], basis[c]} \ {Absent} : m = Pass(row[c])
  BY Zenon DEF MadeOfStored, ReasonedOn
<1>3. Pass(row'[c]) = Pass(row[c])
  BY <1>1, PassSame
<1>4. n # Absent /\ n \in {worker[c], basis[c], Pass(row[c])}
  BY <1>1
<1> QED
  BY <1>2, <1>3, <1>4

LEMMA ContinuesStays ==
  ASSUME ContinuesIt, \A c \in CaseName : SameText(c),
         row["created"].status = "completed" =>
           row'["created"].status = "completed" /\ row'["created"].stored = row["created"].stored,
         row'["created"].status # "updating",
         row'["continued"].status # "absent" => row["continued"].status # "absent",
         row'["continued"].status = "updating" =>
           row["continued"].status = "updating"
             /\ row'["continued"].stored = row["continued"].stored
  PROVE  ContinuesIt'
BY DEF ContinuesIt, SameText, CaseName

LEMMA CreatedStays ==
  ASSUME CreatedHolds, SameText("created"),
         row'["created"].status \notin Early => row["created"].status \notin Early,
         row["created"].status \notin Early =>
           /\ row'["created"].stored.suppliers = row["created"].stored.suppliers
           /\ row'["created"].stored = row["created"].stored
                \/ HeldIn(row'["created"].stored.flat)
           /\ \A t \in Tab : tab'[t].pc # "idle" /\ tab'[t].case = "created" =>
                \/ tab[t].pc # "idle" /\ tab[t].case = "created" /\ tab'[t].merged = tab[t].merged
                \/ /\ HeldIn(tab'[t].merged.flat)
                   /\ tab'[t].merged.suppliers = row["created"].stored.suppliers
           /\ \A q \in row'["created"].asked :
                \/ q \in row["created"].asked
                \/ q[1] = "field" /\ q[2] \in PatternFields(row["created"].type) =>
                     q[2] = "requested_increase_percent"
                       /\ At(row["created"].found, q[2]) = Absent
  PROVE  CreatedHolds'
<1> SUFFICES ASSUME row'["created"].status \notin Early
             PROVE  /\ row'["created"].stored.suppliers =
                          WithFreight(row'["created"].vendors, Empty)
                    /\ HeldIn(row["created"].stored.flat)'
                    /\ \A t \in Tab : tab'[t].pc # "idle" /\ tab'[t].case = "created" =>
                         /\ HeldIn(tab[t].merged.flat)'
                         /\ tab'[t].merged.suppliers = row'["created"].stored.suppliers
                    /\ \A q \in row'["created"].asked :
                         q[1] = "field" /\ q[2] \in PatternFields(row'["created"].type) =>
                           q[2] = "requested_increase_percent"
                             /\ At(row'["created"].found, q[2]) = Absent
  BY DEF CreatedHolds
<1>1. row["created"].status \notin Early
  OBVIOUS
<1>2. row'["created"].stored.suppliers = WithFreight(row'["created"].vendors, Empty)
  BY <1>1 DEF CreatedHolds, SameText
<1>3. HeldIn(row["created"].stored.flat)'
  BY <1>1 DEF CreatedHolds, SameText, HeldIn
<1>4. ASSUME NEW t \in Tab, tab'[t].pc # "idle", tab'[t].case = "created"
      PROVE  /\ HeldIn(tab[t].merged.flat)'
             /\ tab'[t].merged.suppliers = row'["created"].stored.suppliers
  BY <1>1, <1>4 DEF CreatedHolds, SameText, HeldIn
<1>5. ASSUME NEW q \in row'["created"].asked, q[1] = "field",
             q[2] \in PatternFields(row'["created"].type)
      PROVE  q[2] = "requested_increase_percent" /\ At(row'["created"].found, q[2]) = Absent
  <2>1. /\ row'["created"].type = row["created"].type
        /\ row'["created"].found = row["created"].found
    BY DEF SameText
  <2>2. CASE q \in row["created"].asked
    BY <1>1, <1>5, <2>1, <2>2 DEF CreatedHolds
  <2>3. CASE q \notin row["created"].asked
    BY <1>1, <1>5, <2>1, <2>3
  <2> QED
    BY <2>2, <2>3
<1> QED
  BY <1>2, <1>3, <1>4, <1>5

LEMMA AccountedGrows ==
  ASSUME NEW was, NEW flat, NEW extra, NEW by, Accounted(was, flat, extra, by),
         NEW more, NEW then, by \subseteq then,
         \A f \in extra : f \in more \/ <<"continued", f>> \in then
  PROVE  Accounted(was, flat, more, then)
BY DEF Accounted

LEMMA ChangesStay ==
  ASSUME ChangesAccounted, allowed' = allowed,
         row'["continued"].status # "absent" =>
           /\ row["continued"].status # "absent"
           /\ row'["created"].stored = row["created"].stored
           /\ row'["continued"].stored = row["continued"].stored
           /\ \A t \in Tab : tab'[t].pc = "store" /\ tab'[t].case = "continued" =>
                \/ tab'[t] = tab[t]
                \/ Accounted(row["created"].stored.flat, tab'[t].merged.flat,
                             DOMAIN tab'[t].answers \cup tab'[t].before.pending, allowed)
  PROVE  ChangesAccounted'
BY DEF ChangesAccounted, Accounted

LEMMA GateSame ==
  ASSUME NEW c \in CaseName, SameText(c), row'[c].stored = row[c].stored,
         SameText("created"), row'["created"].stored = row["created"].stored
  PROVE  GateIsMet(c, row'[c], row'["created"]) <=> GateIsMet(c, row[c], row["created"])
<1>1. Pass(row'[c]) = Pass(row[c]) /\ Pass(row'["created"]) = Pass(row["created"])
  BY PassSame DEF CaseName
<1>2. row'[c].mode = row[c].mode
  BY DEF SameText
<1> QED
  BY <1>1, <1>2, Zenon DEF GateIsMet

LEMMA PastStays ==
  ASSUME PastTheGate, \A c \in CaseName : SameText(c), raced' = {} => raced = {},
         raced' = {} =>
           /\ \A t \in Tab : tab'[t].pc = "check" =>
                \/ tab'[t] = tab[t] /\ row'[tab[t].case].stored = row[tab[t].case].stored
                \/ row'[tab'[t].case].stored = tab'[t].merged
           /\ \A c \in CaseName : Settled(c)' =>
                \/ /\ Settled(c) /\ row'[c].stored = row[c].stored
                   /\ row'["created"].stored = row["created"].stored
                \/ GateIsMet(c, row'[c], row'["created"])
  PROVE  PastTheGate'
<1> SUFFICES ASSUME raced' = {}
             PROVE  /\ \A t \in Tab : tab'[t].pc = "check" =>
                         row'[tab'[t].case].stored = tab'[t].merged
                    /\ \A c \in CaseName : Settled(c)' =>
                         GateIsMet(c, row'[c], row'["created"])
  BY DEF PastTheGate, GateIsMet, Pass
<1>1. ASSUME NEW t \in Tab, tab'[t].pc = "check"
      PROVE  row'[tab'[t].case].stored = tab'[t].merged
  BY <1>1 DEF PastTheGate
<1>2. ASSUME NEW c \in CaseName, Settled(c)' PROVE GateIsMet(c, row'[c], row'["created"])
  <2>1. CASE /\ Settled(c) /\ row'[c].stored = row[c].stored
             /\ row'["created"].stored = row["created"].stored
    <3>1. GateIsMet(c, row[c], row["created"])
      BY <2>1 DEF PastTheGate
    <3>2. SameText("created")
      BY DEF CaseName
    <3> QED
      BY <2>1, <3>1, <3>2, GateSame
  <2> QED
    BY <1>2, <2>1
<1> QED
  BY <1>1, <1>2

LEMMA HoldersStay ==
  ASSUME HoldersOK, NEW c \in CaseName, queued' \subseteq CaseName,
         \A d \in CaseName \ {c} :
           /\ row'[d].status = row[d].status /\ worker'[d] = worker[d] /\ basis'[d] = basis[d]
           /\ d \in queued' <=> d \in queued,
         c \in queued' => row'[c].status = "reasoning" /\ worker'[c] = Absent,
         worker'[c] # Absent => row'[c].status = "reasoning",
         basis'[c] # Absent <=> row'[c].status = "completed",
         \A t \in Tab :
           \/ tab'[t] = tab[t]
           \/ tab'[t].pc = "idle"
           \/ tab'[t].case = c /\ tab'[t].pc \in {"store", "claim", "check"},
         \A t \in Tab : tab'[t].case = c /\ tab'[t].pc # "idle" =>
           /\ row'[c].status # "updating"
           /\ tab'[t].pc = "check" =>
                /\ row'[c].status = "reasoning" /\ c \notin queued' /\ worker'[c] = Absent
                /\ \A u \in Tab \ {t} : tab'[u].pc = "check" => tab'[u].case # c,
         \A t \in Tab : tab[t].case \in CaseName
  PROVE  HoldersOK'
<1>1. queued' \subseteq {d \in CaseName : row'[d].status = "reasoning"}
  BY DEF HoldersOK
<1>2. \A d \in CaseName :
        /\ worker'[d] # Absent => row'[d].status = "reasoning" /\ d \notin queued'
        /\ basis'[d] # Absent <=> row'[d].status = "completed"
  BY DEF HoldersOK
<1>3. ASSUME NEW t \in Tab
      PROVE  /\ tab'[t].pc \in {"idle", "store", "claim", "check"}
             /\ tab'[t].pc # "idle" => row'[tab'[t].case].status # "updating"
             /\ tab'[t].pc = "check" =>
                  /\ row'[tab'[t].case].status = "reasoning"
                  /\ tab'[t].case \notin queued' /\ worker'[tab'[t].case] = Absent
                  /\ \A u \in Tab \ {t} : tab'[u].pc = "check" => tab'[u].case # tab'[t].case
  <2>1. CASE tab'[t].pc = "idle"
    BY <2>1
  <2>2. CASE tab'[t].case = c /\ tab'[t].pc # "idle"
    <3>1. tab'[t].pc \in {"idle", "store", "claim", "check"}
      BY DEF HoldersOK
    <3> QED
      BY <2>2, <3>1
  <2>3. CASE tab'[t].case # c /\ tab'[t].pc # "idle"
    <3>1. tab'[t] = tab[t]
      BY <2>3
    <3>2. tab[t].case \in CaseName \ {c}
      BY <2>3, <3>1
    <3>3. ASSUME tab[t].pc = "check", NEW u \in Tab \ {t}, tab'[u].pc = "check"
          PROVE  tab'[u].case # tab[t].case
      <4>1. CASE tab'[u].case = c
        BY <3>2, <4>1
      <4>2. CASE tab'[u].case # c
        <5>1. tab'[u] = tab[u]
          BY <3>3, <4>2
        <5> QED
          BY <3>3, <5>1 DEF HoldersOK
      <4> QED
        BY <4>1, <4>2
    <3> QED
      BY <2>3, <3>1, <3>2, <3>3 DEF HoldersOK
  <2> QED
    BY <2>1, <2>2, <2>3
<1> QED
  BY <1>1, <1>2, <1>3 DEF HoldersOK

\* The invariant, beside that of CaseEvidenceProofs.
Rest ==
  /\ ContentOK /\ HoldersOK /\ PendingWaits /\ MadeOfStored
  /\ ContinuesIt /\ CreatedHolds /\ ChangesAccounted /\ PastTheGate

-----------------------------------------------------------------------------
(* Answers                                                                 *)

LEMMA AnswersAre ==
  ASSUME NEW S, NEW v
  PROVE  /\ \A f \in DOMAIN AnswerField(S, v) :
              AnswerField(S, v)[f] = v /\ \E q \in S : q[1] = "field" /\ q[2] = f
         /\ \A s \in DOMAIN AnswerFreight(S, v) : \E q \in S : q[1] = "freight" /\ q[2] = s
BY DEF AnswerField, AnswerFreight

LEMMA RespondReadGate ==
  ASSUME GateInv, IInv', NEW t \in Tab, NEW c \in CaseName, NEW S, NEW v \in Answer,
         RespondRead(t, c, S, v)
  PROVE  Rest'
<1> DEFINE answers == AnswerField(S, v)
           freight == AnswerFreight(S, v)
           before == row[c].stored
           merged == [flat |-> Over(answers, before.flat),
                      freight |-> Over(freight, before.freight),
                      suppliers |-> before.suppliers, pending |-> {}]
           new == [pc |-> "store", case |-> c, before |-> before, answers |-> answers,
                   merged |-> merged]
<1>1. /\ tab[t].pc = "idle" /\ row[c].status = "awaiting" /\ S \subseteq row[c].asked
      /\ row' = row /\ queued' = queued /\ worker' = worker /\ basis' = basis
      /\ raced' = raced /\ allowed' = allowed
  BY DEF RespondRead
<1>2. tab' = [tab EXCEPT ![t] = new]
  BY DEF RespondRead
<1>i. /\ ContentOK /\ HoldersOK /\ PendingWaits /\ MadeOfStored
      /\ ContinuesIt /\ CreatedHolds /\ ChangesAccounted /\ PastTheGate
      /\ RowsAreWhole /\ TabsLate
  BY DEF GateInv, IInv, EvidenceInv
<1>3. /\ \A f \in DOMAIN answers : answers[f] = v /\ \E q \in S : q[1] = "field" /\ q[2] = f
      /\ \A s \in DOMAIN freight : \E q \in S : q[1] = "freight" /\ q[2] = s
  BY AnswersAre
<1>4. v \in ValueShape
  BY EvidenceAssumption
<1> HIDE DEF answers, freight
<1>5. /\ new.pc = "store" /\ new.case = c /\ new.merged = merged
      /\ new.answers = answers /\ new.before = before
  OBVIOUS
<1>6. /\ merged.flat = Over(answers, before.flat)
      /\ merged.freight = Over(freight, before.freight)
      /\ merged.suppliers = before.suppliers /\ merged.pending = {}
  OBVIOUS
<1> HIDE DEF new, merged
<1>7. tab'[t] = new /\ \A u \in Tab \ {t} : tab'[u] = tab[u]
  BY <1>2, <1>i DEF TabsLate
<1>8. \A d \in CaseName : SameText(d)
  BY <1>1 DEF SameText
<1>9. StoreIs(merged)
  <2>1. StoreIs(before) /\ \A q \in row[c].asked : q[1] = "freight" => q[2] \in Vendor
    BY <1>i DEF ContentOK
  <2>2. \A f \in DOMAIN merged.flat : merged.flat[f] \in ValueShape
    <3>1. /\ DOMAIN merged.flat = DOMAIN answers \cup DOMAIN before.flat
          /\ \A f \in DOMAIN answers : merged.flat[f] = answers[f]
          /\ \A f \in DOMAIN before.flat \ DOMAIN answers : merged.flat[f] = before.flat[f]
      BY <1>6 DEF Over
    <3> QED
      BY <1>3, <1>4, <2>1, <3>1 DEF StoreIs
  <2>3. DOMAIN merged.freight \subseteq Vendor
    <3>1. DOMAIN merged.freight = DOMAIN freight \cup DOMAIN before.freight
      BY <1>6 DEF Over
    <3>2. DOMAIN freight \subseteq Vendor
      BY <1>1, <1>3, <2>1
    <3> QED
      BY <2>1, <3>1, <3>2 DEF StoreIs
  <2> HIDE DEF before
  <2> QED
    BY <1>6, <2>1, <2>2, <2>3 DEF StoreIs
<1>10. ContentOK'
  <2>1. \A u \in Tab : tab'[u].merged = tab[u].merged
                        \/ (StoreIs(tab'[u].merged) /\ tab'[u].merged.pending = {})
    BY <1>5, <1>6, <1>7, <1>9
  <2>2. /\ basis' = [d \in CaseName |-> basis'[d]] /\ raced' \subseteq CaseName
        /\ \A d \in CaseName : row'[d].status \in Status
    BY <1>1, <1>i DEF ContentOK
  <2> QED
    BY <1>1, <1>8, <1>i, <2>1, <2>2, ContentStays
<1>11. HoldersOK'
  <2>1. /\ queued' \subseteq CaseName /\ c \notin queued
        /\ worker[c] = Absent /\ basis[c] = Absent
        /\ \A u \in Tab : tab[u].pc = "check" => tab[u].case # c
    BY <1>1, <1>i DEF HoldersOK
  <2>2. \A u \in Tab : tab[u].case \in CaseName
    BY <1>i DEF TabsLate, IsTab
  <2>3. \A u \in Tab : tab'[u] = tab[u] \/ (tab'[u].case = c /\ tab'[u].pc = "store")
    BY <1>5, <1>7
  <2>4. \A u \in Tab : ~(tab'[u].case = c /\ tab'[u].pc = "check")
    BY <2>1, <2>3
  <2> QED
    BY <1>1, <1>i, <2>1, <2>2, <2>3, <2>4, HoldersStay
<1>12. PendingWaits'
  BY <1>1, <1>5, <1>7, <1>i DEF PendingWaits
<1>13. MadeOfStored'
  BY <1>1, <1>8, <1>i, MadeStays
<1>14. ContinuesIt'
  BY <1>1, <1>i DEF ContinuesIt
<1>15. CreatedHolds'
  <2>1. ASSUME c = "created"
        PROVE  HeldIn(merged.flat) /\ merged.suppliers = row["created"].stored.suppliers
    <3>0. row["created"].status \notin Early
      BY <1>1, <2>1 DEF Early
    <3>1. /\ HeldIn(before.flat)
          /\ \A q \in row["created"].asked :
               q[1] = "field" /\ q[2] \in PatternFields(row["created"].type) =>
                 q[2] = "requested_increase_percent" /\ At(row["created"].found, q[2]) = Absent
      BY <1>i, <2>1, <3>0 DEF CreatedHolds
    <3>2. row["created"].type \in Types
      BY <1>i, <3>0 DEF ContentOK, Early, CaseName
    <3>3. \A f \in DOMAIN answers : answers[f] \in ValueShape
      BY <1>3, <1>4
    <3>4. \A f \in DOMAIN answers \cap PatternFields(row["created"].type) :
             f = "requested_increase_percent" /\ At(row["created"].found, f) = Absent
      BY <1>1, <1>3, <2>1, <3>1
    <3>5. HeldIn(Over(answers, before.flat))
      BY <3>1, <3>2, <3>3, <3>4, HeldAnswer DEF HeldIn
    <3> QED
      BY <1>6, <2>1, <3>5
  <2>2. \A u \in Tab : tab'[u].pc # "idle" /\ tab'[u].case = "created" =>
           \/ tab[u].pc # "idle" /\ tab[u].case = "created" /\ tab'[u].merged = tab[u].merged
           \/ /\ HeldIn(tab'[u].merged.flat)
              /\ tab'[u].merged.suppliers = row["created"].stored.suppliers
    BY <1>5, <1>7, <2>1
  <2>3. SameText("created")
    BY <1>8 DEF CaseName
  <2> QED
    BY <1>1, <1>i, <2>2, <2>3, CreatedStays
<1>16. ChangesAccounted'
  <2>1. ASSUME c = "continued"
        PROVE  Accounted(row["created"].stored.flat, merged.flat,
                         DOMAIN answers \cup before.pending, allowed)
    <3>1. Accounted(row["created"].stored.flat, before.flat, before.pending, allowed)
      BY <1>1, <1>i, <2>1 DEF ChangesAccounted
    <3>2. /\ DOMAIN merged.flat = DOMAIN answers \cup DOMAIN before.flat
          /\ \A f \in DOMAIN before.flat \ DOMAIN answers : merged.flat[f] = before.flat[f]
      BY <1>6 DEF Over
    <3> QED
      BY <3>1, <3>2 DEF Accounted
  <2>2. \A u \in Tab : tab'[u].pc = "store" /\ tab'[u].case = "continued" =>
           \/ tab'[u] = tab[u]
           \/ Accounted(row["created"].stored.flat, tab'[u].merged.flat,
                        DOMAIN tab'[u].answers \cup tab'[u].before.pending, allowed)
    BY <1>5, <1>7, <2>1
  <2> QED
    BY <1>1, <1>i, <2>2, ChangesStay
<1>17. PastTheGate'
  <2>1. \A u \in Tab : tab'[u].pc = "check" => tab'[u] = tab[u]
    BY <1>5, <1>7
  <2>2. \A d \in CaseName : Settled(d)' => Settled(d)
    BY <1>1 DEF Settled
  <2> QED
    BY <1>1, <1>8, <1>i, <2>1, <2>2, PastStays
<1> QED
  BY <1>10, <1>11, <1>12, <1>13, <1>14, <1>15, <1>16, <1>17 DEF Rest

LEMMA RespondStoreGate ==
  ASSUME GateInv, IInv', NEW t \in Tab, RespondStore(t)
  PROVE  Rest'
<1> DEFINE c == tab[t].case
           merged == tab[t].merged
           gained == {<<c, f>> : f \in DOMAIN tab[t].answers \cup tab[t].before.pending}
<1>i. /\ ContentOK /\ HoldersOK /\ PendingWaits /\ MadeOfStored
      /\ ContinuesIt /\ CreatedHolds /\ ChangesAccounted /\ PastTheGate
      /\ RowsAreWhole /\ TabsLate
  BY DEF GateInv, IInv, EvidenceInv
<1>1. /\ tab[t].pc = "store" /\ tab' = [tab EXCEPT ![t].pc = "claim"]
      /\ queued' = queued /\ worker' = worker /\ basis' = basis
  BY DEF RespondStore
<1>2. /\ c \in CaseName /\ \A u \in Tab : tab[u].case \in CaseName
      /\ row[c].status \notin Early
  BY <1>1, <1>i DEF TabsLate, IsTab
<1>3. TabTo(t, "claim", c, merged)
  BY <1>1, <1>i, TabSetPc
<1>4. /\ row[c].status = "awaiting" =>
           /\ row' = [row EXCEPT ![c].stored = merged]
           /\ raced' = IF row[c].stored # tab[t].before THEN raced \cup {c} ELSE raced
           /\ allowed' = allowed \cup gained
      /\ row[c].status # "awaiting" => row' = row /\ raced' = raced /\ allowed' = allowed
  BY DEF RespondStore
<1>5. /\ row[c].status = "awaiting" => Updated(c, row[c].status, merged, row[c].asked)
      /\ row[c].status # "awaiting" => Updated(c, row[c].status, row[c].stored, row[c].asked)
  BY <1>2, <1>4, <1>i, StoredUpdated, NotUpdated
<1>6. /\ \A d \in CaseName :
           SameText(d) /\ row'[d].status = row[d].status /\ row'[d].asked = row[d].asked
      /\ \A d \in CaseName \ {c} : row'[d].stored = row[d].stored
      /\ row'[c].stored = IF row[c].status = "awaiting" THEN merged ELSE row[c].stored
  BY <1>2, <1>5 DEF Updated
<1>7. /\ tab'[t].pc = "claim" /\ tab'[t].case = c /\ tab'[t].merged = merged
      /\ \A u \in Tab \ {t} : tab'[u] = tab[u]
  BY <1>3 DEF TabTo
<1>8. StoreIs(merged) /\ merged.pending = {}
  BY <1>i DEF ContentOK
<1>9. row[c].status = "awaiting" => c \notin queued /\ worker[c] = Absent /\ basis[c] = Absent
  BY <1>2, <1>i DEF HoldersOK
<1>10. row[c].status = "awaiting" /\ c = "created" => row["continued"].status = "absent"
  BY <1>i DEF ContinuesIt
<1> HIDE DEF merged, c
<1>11. ContentOK'
  <2>1. \A u \in Tab : tab'[u].merged = tab[u].merged
    BY <1>7 DEF merged
  <2>2. /\ basis' = [d \in CaseName |-> basis'[d]] /\ raced' \subseteq CaseName
        /\ \A d \in CaseName : row'[d].status \in Status
    BY <1>1, <1>2, <1>4, <1>6, <1>i DEF ContentOK
  <2> QED
    BY <1>6, <1>8, <1>i, <2>1, <2>2, ContentStays
<1>12. HoldersOK'
  <2>1. queued' \subseteq CaseName
    BY <1>1, <1>i DEF HoldersOK
  <2>2. /\ c \in queued => row[c].status = "reasoning" /\ worker[c] = Absent
        /\ worker[c] # Absent => row[c].status = "reasoning"
        /\ basis[c] # Absent <=> row[c].status = "completed"
    BY <1>2, <1>i DEF HoldersOK
  <2>3. \A u \in Tab : tab'[u] = tab[u] \/ (u = t /\ tab'[u].case = c /\ tab'[u].pc = "claim")
    BY <1>7
  <2>4. \A u \in Tab : tab'[u].case = c /\ tab'[u].pc # "idle" =>
          /\ row'[c].status # "updating"
          /\ tab'[u].pc = "check" =>
               /\ row'[c].status = "reasoning" /\ c \notin queued' /\ worker'[c] = Absent
               /\ \A w \in Tab \ {u} : tab'[w].pc = "check" => tab'[w].case # c
    <3> SUFFICES ASSUME NEW u \in Tab, tab'[u].case = c, tab'[u].pc # "idle"
                 PROVE  /\ row[c].status # "updating"
                        /\ tab'[u].pc = "check" =>
                             /\ row[c].status = "reasoning" /\ c \notin queued
                             /\ worker[c] = Absent
                             /\ \A w \in Tab \ {u} : tab'[w].pc = "check" => tab'[w].case # c
      BY <1>1, <1>2, <1>6
    <3>1. row[c].status # "updating"
      BY <1>1, <1>i DEF HoldersOK, c
    <3>2. ASSUME tab'[u].pc = "check"
          PROVE  /\ row[c].status = "reasoning" /\ c \notin queued /\ worker[c] = Absent
                 /\ \A w \in Tab \ {u} : tab'[w].pc = "check" => tab'[w].case # c
      <4>1. tab'[u] = tab[u]
        BY <2>3, <3>2
      <4>2. /\ row[c].status = "reasoning" /\ c \notin queued /\ worker[c] = Absent
            /\ \A w \in Tab \ {u} : tab[w].pc = "check" => tab[w].case # c
        BY <1>i, <3>2, <4>1 DEF HoldersOK
      <4>3. \A w \in Tab : tab'[w].pc = "check" => tab'[w] = tab[w]
        BY <2>3
      <4> QED
        BY <4>2, <4>3
    <3> QED
      BY <3>1, <3>2
  <2> QED
    BY <1>1, <1>2, <1>6, <1>i, <2>1, <2>2, <2>3, <2>4, HoldersStay
<1>13. PendingWaits'
  <2>1. row'[c].stored.pending = {}
    <3>1. CASE row[c].status = "awaiting"
      BY <1>6, <1>8, <3>1
    <3>2. CASE row[c].status # "awaiting"
      BY <1>2, <1>6, <1>i, <3>2 DEF PendingWaits
    <3> QED
      BY <3>1, <3>2
  <2>2. ASSUME NEW d \in CaseName, row'[d].stored.pending # {}
        PROVE  /\ row'[d].status = "awaiting"
               /\ \A u \in Tab : tab'[u].case = d => tab'[u].pc \notin {"claim", "check"}
    <3>1. d # c /\ row'[d].stored = row[d].stored /\ row'[d].status = row[d].status
      BY <1>6, <2>1, <2>2
    <3> QED
      BY <1>7, <1>i, <2>2, <3>1 DEF PendingWaits
  <2> QED
    BY <2>2 DEF PendingWaits
<1>14. MadeOfStored'
  BY <1>1, <1>2, <1>6, <1>9, <1>i, MadeStays
<1>15. ContinuesIt'
  BY <1>2, <1>6, <1>i, ContinuesStays DEF ContinuesIt, CaseName
<1>16. CreatedHolds'
  <2>1. tab[t].pc # "idle"
    BY <1>1
  <2>2. ASSUME c = "created", row["created"].status \notin Early
        PROVE  HeldIn(merged.flat) /\ merged.suppliers = row["created"].stored.suppliers
    BY <1>i, <2>1, <2>2 DEF CreatedHolds, c, merged
  <2>3. /\ SameText("created") /\ row'["created"].asked = row["created"].asked
        /\ row'["created"].status = row["created"].status
        /\ row'["created"].stored = row["created"].stored
             \/ (c = "created" /\ row'["created"].stored = merged)
    BY <1>2, <1>6 DEF CaseName
  <2>4. \A u \in Tab : tab'[u].pc # "idle" /\ tab'[u].case = "created" =>
          tab[u].pc # "idle" /\ tab[u].case = "created" /\ tab'[u].merged = tab[u].merged
    BY <1>7, <2>1 DEF c, merged
  <2> QED
    BY <1>i, <2>2, <2>3, <2>4, CreatedStays
<1>17. ChangesAccounted'
  <2> DEFINE was == row["created"].stored.flat
  <2> SUFFICES ASSUME row["continued"].status # "absent"
               PROVE  /\ Accounted(was, row'["continued"].stored.flat,
                                   row'["continued"].stored.pending, allowed')
                      /\ \A u \in Tab : tab'[u].pc = "store" /\ tab'[u].case = "continued" =>
                           Accounted(was, tab'[u].merged.flat,
                                     DOMAIN tab'[u].answers \cup tab'[u].before.pending, allowed')
    <3>1. row'["continued"].status = row["continued"].status
      BY <1>6 DEF CaseName
    <3>2. row["continued"].status # "absent" => row'["created"].stored = row["created"].stored
      BY <1>2, <1>6, <1>10 DEF CaseName
    <3> QED
      BY <3>1, <3>2 DEF ChangesAccounted, Accounted
  <2>1. allowed \subseteq allowed'
    BY <1>4
  <2>2. Accounted(was, row["continued"].stored.flat, row["continued"].stored.pending, allowed)
    BY <1>i DEF ChangesAccounted
  <2>3. Accounted(was, row'["continued"].stored.flat, row'["continued"].stored.pending, allowed')
    <3>1. CASE row'["continued"].stored = row["continued"].stored
      <4> HIDE DEF was
      <4> QED
        BY <2>1, <2>2, <3>1, AccountedGrows
    <3>2. CASE row'["continued"].stored # row["continued"].stored
      <4>1. c = "continued" /\ row[c].status = "awaiting" /\ row'["continued"].stored = merged
        BY <1>2, <1>6, <3>2 DEF CaseName
      <4>2. Accounted(was, merged.flat, DOMAIN tab[t].answers \cup tab[t].before.pending, allowed)
        BY <1>1, <1>i, <4>1 DEF ChangesAccounted, c, merged
      <4>3. \A f \in DOMAIN tab[t].answers \cup tab[t].before.pending :
              <<"continued", f>> \in allowed'
        BY <1>4, <4>1
      <4> HIDE DEF was
      <4>4. Accounted(was, merged.flat, row'["continued"].stored.pending, allowed')
        BY <2>1, <4>2, <4>3, AccountedGrows
      <4> QED
        BY <4>1, <4>4
    <3> QED
      BY <3>1, <3>2
  <2>4. ASSUME NEW u \in Tab, tab'[u].pc = "store", tab'[u].case = "continued"
        PROVE  Accounted(was, tab'[u].merged.flat,
                         DOMAIN tab'[u].answers \cup tab'[u].before.pending, allowed')
    <3>1. tab'[u] = tab[u]
      BY <1>7, <2>4
    <3>2. Accounted(was, tab[u].merged.flat, DOMAIN tab[u].answers \cup tab[u].before.pending,
                    allowed)
      BY <1>i, <2>4, <3>1 DEF ChangesAccounted
    <3> HIDE DEF was
    <3> QED
      BY <2>1, <3>1, <3>2, AccountedGrows
  <2> QED
    BY <2>3, <2>4
<1>18. PastTheGate'
  <2>1. raced' = {} => raced = {}
    BY <1>4
  <2>2. ASSUME NEW u \in Tab, tab'[u].pc = "check"
        PROVE  tab'[u] = tab[u] /\ row'[tab[u].case].stored = row[tab[u].case].stored
    <3>1. tab'[u] = tab[u]
      BY <1>7, <2>2
    <3>2. row[tab[u].case].status = "reasoning"
      BY <1>i, <2>2, <3>1 DEF HoldersOK
    <3>3. tab[u].case \in CaseName
      BY <1>2
    <3> QED
      BY <1>6, <3>1, <3>2, <3>3
  <2>3. ASSUME NEW d \in CaseName, Settled(d)'
        PROVE  /\ Settled(d) /\ row'[d].stored = row[d].stored
               /\ row'["created"].stored = row["created"].stored
    <3>1. Settled(d)
      BY <1>1, <1>6, <2>3 DEF Settled
    <3>2. row[d].status # "absent" /\ row[d].status # "awaiting"
      BY <1>i, <3>1 DEF Settled, HoldersOK
    <3>3. row'[d].stored = row[d].stored
      BY <1>6, <3>2
    <3>4. row'["created"].stored = row["created"].stored
      <4>1. CASE row[c].status = "awaiting" /\ c = "created"
        BY <1>10, <3>2, <4>1 DEF CaseName
      <4>2. CASE ~(row[c].status = "awaiting" /\ c = "created")
        BY <1>6, <4>2 DEF CaseName
      <4> QED
        BY <4>1, <4>2
    <3> QED
      BY <3>1, <3>3, <3>4
  <2>4. \A d \in CaseName : SameText(d)
    BY <1>6
  <2> QED
    BY <1>i, <2>1, <2>2, <2>3, <2>4, PastStays
<1> QED
  BY <1>11, <1>12, <1>13, <1>14, <1>15, <1>16, <1>17, <1>18 DEF Rest

\* An answer is taken only where all the changes have their confirmation.
LEMMA RespondClaimGate ==
  ASSUME GateInv, IInv', NEW t \in Tab, RespondClaim(t)
  PROVE  Rest'
<1> DEFINE c == tab[t].case
           claims == row[c].status = "awaiting"
<1>i. /\ ContentOK /\ HoldersOK /\ PendingWaits /\ MadeOfStored
      /\ ContinuesIt /\ CreatedHolds /\ ChangesAccounted /\ PastTheGate
      /\ RowsAreWhole /\ TabsLate
  BY DEF GateInv, IInv, EvidenceInv
<1>1. /\ tab[t].pc = "claim" /\ allowed' = allowed
      /\ queued' = queued /\ worker' = worker /\ basis' = basis
  BY DEF RespondClaim
<1>2. /\ c \in CaseName /\ \A u \in Tab : tab[u].case \in CaseName
      /\ row[c].status \notin Early
  BY <1>1, <1>i DEF TabsLate, IsTab
<1>3. /\ claims =>
           /\ row' = [row EXCEPT ![c].status = "reasoning"]
           /\ tab' = [tab EXCEPT ![t].pc = "check"]
           /\ raced' = IF row[c].stored # tab[t].merged THEN raced \cup {c} ELSE raced
      /\ ~claims => row' = row /\ tab' = [tab EXCEPT ![t] = Idle] /\ raced' = raced
  BY DEF RespondClaim
<1>4. Updated(c, IF claims THEN "reasoning" ELSE row[c].status, row[c].stored, row[c].asked)
  BY <1>2, <1>3, <1>i, StatusUpdated, NotUpdated
<1>5. /\ \A d \in CaseName : SameText(d) /\ row'[d].stored = row[d].stored
                             /\ row'[d].asked = row[d].asked
      /\ row'[c].status = IF claims THEN "reasoning" ELSE row[c].status
      /\ \A d \in CaseName \ {c} : row'[d].status = row[d].status
  BY <1>2, <1>4 DEF Updated
<1>6. /\ claims => TabTo(t, "check", c, tab[t].merged)
      /\ ~claims => TabTo(t, "idle", "created", EmptyStore)
  BY <1>3, <1>i, TabSetPc, TabSetIdle
<1>7. /\ \A u \in Tab \ {t} : tab'[u] = tab[u]
      /\ claims => tab'[t].pc = "check" /\ tab'[t].case = c /\ tab'[t].merged = tab[t].merged
      /\ ~claims => tab'[t].pc = "idle" /\ tab'[t].merged = EmptyStore
  BY <1>6 DEF TabTo
<1>8. claims => c \notin queued /\ worker[c] = Absent /\ basis[c] = Absent
  BY <1>2, <1>i DEF HoldersOK
<1>9. row[c].stored.pending = {}
  BY <1>1, <1>2, <1>i DEF PendingWaits
<1>10. StoreIs(EmptyStore) /\ EmptyStore.pending = {}
  BY NothingIn DEF StoreIs, EmptyStore
<1> HIDE DEF c, claims
<1>11. ContentOK'
  <2>1. \A u \in Tab : tab'[u].merged = tab[u].merged
                        \/ (StoreIs(tab'[u].merged) /\ tab'[u].merged.pending = {})
    BY <1>7, <1>10
  <2>2. /\ basis' = [d \in CaseName |-> basis'[d]] /\ raced' \subseteq CaseName
        /\ \A d \in CaseName : row'[d].status \in Status
        /\ \A d \in CaseName : row'[d].status # "absent" => row[d].status # "absent"
    BY <1>1, <1>2, <1>3, <1>5, <1>i DEF ContentOK, Status, Early
  <2> QED
    BY <1>5, <1>i, <2>1, <2>2, ContentStays
<1>12. HoldersOK'
  <2>1. queued' \subseteq CaseName
    BY <1>1, <1>i DEF HoldersOK
  <2>2. /\ c \in queued => row'[c].status = "reasoning" /\ worker[c] = Absent
        /\ worker[c] # Absent => row'[c].status = "reasoning"
        /\ basis[c] # Absent <=> row'[c].status = "completed"
    BY <1>2, <1>5, <1>8, <1>i DEF HoldersOK, claims
  <2>3. \A u \in Tab : \/ tab'[u] = tab[u] \/ tab'[u].pc = "idle"
                       \/ (u = t /\ claims /\ tab'[u].case = c /\ tab'[u].pc = "check")
    BY <1>7
  <2>4. \A u \in Tab : tab'[u].case = c /\ tab'[u].pc # "idle" =>
          /\ row'[c].status # "updating"
          /\ tab'[u].pc = "check" =>
               /\ row'[c].status = "reasoning" /\ c \notin queued' /\ worker'[c] = Absent
               /\ \A w \in Tab \ {u} : tab'[w].pc = "check" => tab'[w].case # c
    <3>1. row'[c].status # "updating"
      BY <1>1, <1>5, <1>i DEF HoldersOK, c
    <3>2. CASE claims
      <4>1. \A w \in Tab : tab[w].case = c => tab[w].pc # "check"
        BY <1>i, <3>2 DEF HoldersOK, claims
      <4>2. \A w \in Tab : tab'[w].case = c /\ tab'[w].pc = "check" => w = t
        BY <2>3, <4>1
      <4> QED
        BY <1>1, <1>5, <1>8, <3>1, <3>2, <4>2
    <3>3. CASE ~claims
      <4>1. \A w \in Tab : tab'[w].pc # "idle" => tab'[w] = tab[w]
        BY <2>3, <3>3
      <4>2. \A w \in Tab : tab[w].case = c /\ tab[w].pc = "check" =>
              /\ row[c].status = "reasoning" /\ c \notin queued /\ worker[c] = Absent
              /\ \A x \in Tab \ {w} : tab[x].pc = "check" => tab[x].case # c
        BY <1>i DEF HoldersOK
      <4> QED
        BY <1>1, <1>5, <3>1, <3>3, <4>1, <4>2
    <3> QED
      BY <3>2, <3>3
  <2> QED
    BY <1>1, <1>2, <1>5, <1>i, <2>1, <2>2, <2>3, <2>4, HoldersStay
<1>13. PendingWaits'
  <2>1. ASSUME NEW d \in CaseName, row'[d].stored.pending # {}
        PROVE  /\ row'[d].status = "awaiting"
               /\ \A u \in Tab : tab'[u].case = d => tab'[u].pc \notin {"claim", "check"}
    <3>1. d # c /\ row'[d].stored = row[d].stored /\ row'[d].status = row[d].status
      BY <1>5, <1>9, <2>1
    <3> QED
      BY <1>7, <1>i, <2>1, <3>1 DEF PendingWaits
  <2> QED
    BY <2>1 DEF PendingWaits
<1>14. MadeOfStored'
  BY <1>1, <1>5, <1>i, MadeStays
<1>15. ContinuesIt'
  <2>1. \A d \in CaseName : row[d].status = "completed" => row'[d].status = "completed"
    BY <1>5 DEF claims
  <2>2. \A d \in CaseName : row'[d].status = "updating" => row[d].status = "updating"
    BY <1>5
  <2>3. \A d \in CaseName : row'[d].status # "absent" => row[d].status # "absent"
    BY <1>2, <1>5 DEF Early
  <2> QED
    BY <1>5, <1>i, <2>1, <2>2, <2>3, ContinuesStays DEF ContinuesIt, CaseName
<1>16. CreatedHolds'
  <2>1. /\ SameText("created") /\ row'["created"].asked = row["created"].asked
        /\ row'["created"].status \notin Early => row["created"].status \notin Early
        /\ row'["created"].stored = row["created"].stored
    BY <1>2, <1>5 DEF CaseName
  <2>2. \A u \in Tab : tab'[u].pc # "idle" /\ tab'[u].case = "created" =>
          tab[u].pc # "idle" /\ tab[u].case = "created" /\ tab'[u].merged = tab[u].merged
    BY <1>1, <1>7 DEF c
  <2> QED
    BY <1>i, <2>1, <2>2, CreatedStays
<1>17. ChangesAccounted'
  <2>1. /\ row'["continued"].status # "absent" => row["continued"].status # "absent"
        /\ row'["created"].stored = row["created"].stored
        /\ row'["continued"].stored = row["continued"].stored
    BY <1>2, <1>5 DEF CaseName, Early
  <2>2. \A u \in Tab : tab'[u].pc = "store" => tab'[u] = tab[u]
    BY <1>7
  <2> QED
    BY <1>1, <1>i, <2>1, <2>2, ChangesStay
<1>18. PastTheGate'
  <2>1. raced' = {} => raced = {} /\ (claims => row[c].stored = tab[t].merged)
    BY <1>3
  <2>2. ASSUME raced' = {}, NEW u \in Tab, tab'[u].pc = "check"
        PROVE  \/ tab'[u] = tab[u] /\ row'[tab[u].case].stored = row[tab[u].case].stored
               \/ row'[tab'[u].case].stored = tab'[u].merged
    BY <1>2, <1>5, <1>7, <2>1, <2>2
  <2>3. ASSUME NEW d \in CaseName, Settled(d)'
        PROVE  /\ Settled(d) /\ row'[d].stored = row[d].stored
               /\ row'["created"].stored = row["created"].stored
    BY <1>1, <1>5, <2>3 DEF Settled, CaseName
  <2>4. \A d \in CaseName : SameText(d)
    BY <1>5
  <2> QED
    BY <1>i, <2>1, <2>2, <2>3, <2>4, PastStays
<1> QED
  BY <1>11, <1>12, <1>13, <1>14, <1>15, <1>16, <1>17, <1>18 DEF Rest

-----------------------------------------------------------------------------
(* Steps that store nothing: the gate, the worker, retries                 *)

\* What is asked for next: nothing that the first text had said.
AsksWell(c, asked) ==
  \A q \in asked :
    /\ q[1] # "freight" \/ q[2] \in Vendor
    /\ c = "created" /\ q[1] = "field" /\ q[2] \in PatternFields(row[c].type) =>
         q[2] = "requested_increase_percent" /\ At(row[c].found, q[2]) = Absent

LEMMA StatusGate ==
  ASSUME GateInv, NEW c \in CaseName, NEW asked,
         NEW status \in Status \ (Early \cup {"updating"}),
         Updated(c, status, row[c].stored, asked), raced' = raced, allowed' = allowed,
         row[c].status \notin Early \cup {"awaiting", "completed"},
         asked = row[c].asked \/ AsksWell(c, asked),
         \A t \in Tab : tab'[t] = tab[t] \/ (tab'[t].pc = "idle" /\ tab'[t].merged = EmptyStore),
         \A t \in Tab : tab'[t].pc = "check" => tab'[t].case # c,
         queued' \subseteq CaseName, \A d \in CaseName \ {c} : d \in queued' <=> d \in queued,
         worker' = [d \in CaseName |-> IF d = c THEN worker'[c] ELSE worker[d]],
         basis' = [d \in CaseName |-> IF d = c THEN basis'[c] ELSE basis[d]],
         c \in queued' => status = "reasoning" /\ worker'[c] = Absent,
         worker'[c] # Absent => status = "reasoning",
         basis'[c] # Absent <=> status = "completed",
         worker'[c] \in {worker[c], Absent, Pass(row[c])},
         basis'[c] \in {basis[c], worker[c]},
         raced = {} /\ Settled(c)' => Settled(c) \/ GateIsMet(c, row[c], row["created"])
  PROVE  Rest'
<1>i. /\ ContentOK /\ HoldersOK /\ PendingWaits /\ MadeOfStored
      /\ ContinuesIt /\ CreatedHolds /\ ChangesAccounted /\ PastTheGate
      /\ RowsAreWhole /\ TabsLate
  BY DEF GateInv, IInv, EvidenceInv
<1>1. /\ \A d \in CaseName : SameText(d) /\ row'[d].stored = row[d].stored
      /\ row'[c].status = status /\ row'[c].asked = asked
      /\ \A d \in CaseName \ {c} : row'[d].status = row[d].status /\ row'[d].asked = row[d].asked
  BY DEF Updated
<1>2. \A u \in Tab : tab[u].case \in CaseName
  BY <1>i DEF TabsLate, IsTab
<1>3. StoreIs(EmptyStore) /\ EmptyStore.pending = {}
  BY NothingIn DEF StoreIs, EmptyStore
<1>4. /\ \A d \in CaseName \ {c} : worker'[d] = worker[d] /\ basis'[d] = basis[d]
      /\ basis' = [d \in CaseName |-> basis'[d]]
  OBVIOUS
<1>5. /\ \A d \in CaseName : row'[d].status = "updating" => row[d].status = "updating"
      /\ \A d \in CaseName : row'[d].status \in Early <=> row[d].status \in Early
      /\ \A d \in CaseName : row'[d].status # "absent" => row[d].status # "absent"
  BY <1>1 DEF Early
<1>6. ContentOK'
  <2>1. \A u \in Tab : tab'[u].merged = tab[u].merged
                        \/ (StoreIs(tab'[u].merged) /\ tab'[u].merged.pending = {})
    BY <1>3
  <2>2. raced' \subseteq CaseName /\ \A d \in CaseName : row'[d].status \in Status
    BY <1>1, <1>i DEF ContentOK
  <2>3. \A d \in CaseName : \A q \in row'[d].asked :
          q \in row[d].asked \/ q[1] # "freight" \/ q[2] \in Vendor
    BY <1>1 DEF AsksWell
  <2> QED
    BY <1>1, <1>4, <1>5, <1>i, <2>1, <2>2, <2>3, ContentStays
<1>7. HoldersOK'
  BY <1>1, <1>2, <1>4, <1>i, HoldersStay
<1>8. PendingWaits'
  <2>1. row[c].stored.pending = {}
    BY <1>i DEF PendingWaits
  <2>2. ASSUME NEW d \in CaseName, row'[d].stored.pending # {}
        PROVE  /\ row'[d].status = "awaiting"
               /\ \A u \in Tab : tab'[u].case = d => tab'[u].pc \notin {"claim", "check"}
    <3>1. d # c /\ row'[d].stored = row[d].stored /\ row'[d].status = row[d].status
      BY <1>1, <2>1, <2>2
    <3>2. \A u \in Tab : tab[u].case = d => tab[u].pc \notin {"claim", "check"}
      BY <1>i, <2>2, <3>1 DEF PendingWaits
    <3>3. row'[d].status = "awaiting"
      BY <1>i, <2>2, <3>1 DEF PendingWaits
    <3> QED
      BY <3>2, <3>3
  <2> QED
    BY <2>2 DEF PendingWaits
<1>9. MadeOfStored'
  <2>1. \A d \in CaseName : /\ row'[d].stored = row[d].stored
                            /\ worker'[d] \in {worker[d], Absent, Pass(row[d])}
                            /\ basis'[d] \in {basis[d], worker[d]}
    BY <1>1, <1>4
  <2> QED
    BY <1>1, <1>i, <2>1, MadeStays
<1>10. ContinuesIt'
  <2>1. /\ row["created"].status = "completed" =>
             row'["created"].status = "completed"
               /\ row'["created"].stored = row["created"].stored
        /\ row'["created"].status # "updating"
        /\ row'["continued"].status # "absent" => row["continued"].status # "absent"
        /\ row'["continued"].status = "updating" =>
             row["continued"].status = "updating"
               /\ row'["continued"].stored = row["continued"].stored
    BY <1>1, <1>5, <1>i DEF CaseName, ContinuesIt
  <2> QED
    BY <1>1, <1>i, <2>1, ContinuesStays
<1>11. CreatedHolds'
  <2>1. /\ SameText("created")
        /\ row'["created"].status \notin Early => row["created"].status \notin Early
        /\ row'["created"].stored = row["created"].stored
    BY <1>1, <1>5 DEF CaseName
  <2>2. \A u \in Tab : tab'[u].pc # "idle" => tab'[u] = tab[u]
    OBVIOUS
  <2>3. \A q \in row'["created"].asked :
          \/ q \in row["created"].asked
          \/ q[1] = "field" /\ q[2] \in PatternFields(row["created"].type) =>
               q[2] = "requested_increase_percent" /\ At(row["created"].found, q[2]) = Absent
    BY <1>1 DEF AsksWell, CaseName
  <2> QED
    BY <1>i, <2>1, <2>2, <2>3, CreatedStays
<1>12. ChangesAccounted'
  <2>1. /\ row'["continued"].status # "absent" => row["continued"].status # "absent"
        /\ row'["created"].stored = row["created"].stored
        /\ row'["continued"].stored = row["continued"].stored
    BY <1>1, <1>5 DEF CaseName
  <2>2. \A u \in Tab : tab'[u].pc = "store" => tab'[u] = tab[u]
    OBVIOUS
  <2> QED
    BY <1>i, <2>1, <2>2, ChangesStay
<1>13. PastTheGate'
  <2>1. ASSUME NEW u \in Tab, tab'[u].pc = "check"
        PROVE  tab'[u] = tab[u] /\ row'[tab[u].case].stored = row[tab[u].case].stored
    BY <1>1, <1>2, <2>1
  <2>2. ASSUME raced = {}, NEW d \in CaseName, Settled(d)'
        PROVE  \/ /\ Settled(d) /\ row'[d].stored = row[d].stored
                  /\ row'["created"].stored = row["created"].stored
               \/ GateIsMet(d, row'[d], row'["created"])
    <3>1. /\ row'[d].stored = row[d].stored /\ row'["created"].stored = row["created"].stored
          /\ SameText(d) /\ SameText("created")
      BY <1>1 DEF CaseName
    <3>2. CASE d = c
      BY <2>2, <3>1, <3>2, GateSame
    <3>3. CASE d # c
      <4>1. Settled(d)
        BY <1>1, <1>4, <2>2, <3>3 DEF Settled
      <4> QED
        BY <3>1, <4>1
    <3> QED
      BY <3>2, <3>3
  <2> QED
    BY <1>1, <1>i, <2>1, <2>2, PastStays
<1> QED
  BY <1>6, <1>7, <1>8, <1>9, <1>10, <1>11, <1>12, <1>13 DEF Rest

\* What the gate asks of the created case is nothing that the text had said.
LEMMA GateAsksWell ==
  ASSUME NEW c \in CaseName, row[c].type \in Types, NEW mode, NEW given, NEW freight, NEW vendors,
         DOMAIN vendors \subseteq Vendor
  PROVE  AsksWell(c, Missing(mode, Normalised(row[c].type, given, freight, vendors,
                                              row[c].found)))
<1> DEFINE type == row[c].type
           found == row[c].found
           n == Normalised(type, given, freight, vendors, found)
           S == WithFreight(vendors, freight)
<1>1. /\ n.type = type /\ n.suppliers = S
      /\ DOMAIN n.flat = {f \in Fields(type) : Reading(type, given, S, found, f) # Absent}
  BY PassReads
<1>2. DOMAIN S = DOMAIN vendors
  BY DEF WithFreight
<1> HIDE DEF n
<1>3. ASSUME NEW q \in Missing(mode, n)
      PROVE  \/ q[1] = "freight" /\ q[2] \in DOMAIN n.suppliers
             \/ /\ q[1] = "field"
                /\ q[2] \in PatternFields(type) =>
                     q[2] = "requested_increase_percent" /\ q[2] \notin DOMAIN n.flat
  BY <1>1, MissingAsks
<1>4. ASSUME NEW f \in PatternFields(type), f = "requested_increase_percent",
             f \notin DOMAIN n.flat
      PROVE  At(found, f) = Absent
  <2>1. Reading(type, given, S, found, f) = Absent
    BY <1>1, <1>4 DEF Fields
  <2>2. PatternOf(given, S, found, f) = Absent
    BY <2>1 DEF Reading
  <2>3. ~Varies(S, f)
    BY <1>4 DEF Varies, PerVendor
  <2> QED
    BY <2>2, <2>3 DEF PatternOf
<1>5. ASSUME NEW q \in Missing(mode, n)
      PROVE  /\ q[1] # "freight" \/ q[2] \in Vendor
             /\ q[1] = "field" /\ q[2] \in PatternFields(type) =>
                  q[2] = "requested_increase_percent" /\ At(found, q[2]) = Absent
  <2>1. q[1] = "freight" => q[2] \in Vendor
    BY <1>1, <1>2, <1>3
  <2>2. ASSUME q[1] = "field", q[2] \in PatternFields(type)
        PROVE  q[2] = "requested_increase_percent" /\ At(found, q[2]) = Absent
    <3>1. q[2] = "requested_increase_percent" /\ q[2] \notin DOMAIN n.flat
      BY <1>3, <2>2
    <3> QED
      BY <1>4, <2>2, <3>1
  <2> QED
    BY <2>1, <2>2
<1> QED
  BY <1>5, Zenon DEF AsksWell, n

\* The gate lets through what is stored, unless answers have overlapped.
LEMMA RespondCheckGate ==
  ASSUME GateInv, IInv', NEW t \in Tab, RespondCheck(t), NEW c \in CaseName, c = tab[t].case
  PROVE  Rest'
<1> DEFINE merged == tab[t].merged
           missing == Missing(row[c].mode, OfStored(c, merged))
           raises == Raises(row[c].type, merged.flat)
           status == IF ~raises /\ missing # {} THEN "awaiting" ELSE "reasoning"
           asked == IF ~raises /\ missing # {} THEN missing ELSE row[c].asked
<1>i. ContentOK /\ HoldersOK /\ MadeOfStored /\ PastTheGate /\ RowsAreWhole /\ TabsLate
  BY DEF GateInv, IInv, EvidenceInv
<1>1. /\ tab[t].pc = "check" /\ raced' = raced /\ allowed' = allowed
      /\ worker' = worker /\ basis' = basis /\ tab' = [tab EXCEPT ![t] = Idle]
  BY DEF RespondCheck
<1>2. /\ row[c].status = "reasoning" /\ row[c].type \in Types
      /\ c \notin queued /\ worker[c] = Absent /\ basis[c] = Absent
      /\ \A u \in Tab \ {t} : tab[u].pc = "check" => tab[u].case # c
  <2>2. /\ row[c].status = "reasoning" /\ c \notin queued /\ worker[c] = Absent
        /\ \A u \in Tab \ {t} : tab[u].pc = "check" => tab[u].case # c
    BY <1>1, <1>i DEF HoldersOK
  <2> QED
    BY <1>i, <2>2 DEF HoldersOK, ContentOK
<1>3. /\ ~raises /\ missing # {} =>
           /\ row' = [row EXCEPT ![c].status = "awaiting", ![c].asked = missing]
           /\ queued' = queued
      /\ raises => row' = row /\ queued' = queued
      /\ ~raises /\ missing = {} => row' = row /\ queued' = queued \cup {c}
  BY DEF RespondCheck
<1>4. AsksWell(c, missing)
  <2>1. DOMAIN merged.suppliers \subseteq Vendor
    BY <1>i DEF ContentOK, StoreIs
  <2> QED
    BY <1>2, <2>1, GateAsksWell DEF OfStored
<1>5. ASSUME raced = {}, missing = {} PROVE GateIsMet(c, row[c], row["created"])
  <2>1. row[c].stored = merged
    BY <1>1, <1>5, <1>i DEF PastTheGate
  <2>2. Missing(row[c].mode, Pass(row[c])) = {}
    BY <1>5, <2>1 DEF OfStored, Pass
  <2> QED
    BY <2>2 DEF GateIsMet
<1>6. TabTo(t, "idle", "created", EmptyStore)
  BY <1>1, <1>i, TabSetIdle
<1> HIDE DEF missing, raises, merged
<1>7. Updated(c, status, row[c].stored, asked)
  <2>1. CASE ~raises /\ missing # {}
    BY <1>2, <1>3, <1>i, <2>1, AskedUpdated
  <2>2. CASE ~(~raises /\ missing # {})
    BY <1>2, <1>3, <2>2, NotUpdated
  <2> QED
    BY <2>1, <2>2
<1>8. /\ status \in Status \ (Early \cup {"updating"}) /\ status # "completed"
      /\ asked = row[c].asked \/ AsksWell(c, asked)
      /\ row[c].status \notin Early \cup {"awaiting", "completed"}
  BY <1>2, <1>4 DEF Status, Early
<1>9. /\ \A u \in Tab : tab'[u] = tab[u] \/ (tab'[u].pc = "idle" /\ tab'[u].merged = EmptyStore)
      /\ \A u \in Tab : tab'[u].pc = "check" => tab'[u].case # c
  BY <1>2, <1>6 DEF TabTo
<1>10. /\ queued' \subseteq CaseName /\ \A d \in CaseName \ {c} : d \in queued' <=> d \in queued
       /\ c \in queued' => status = "reasoning" /\ missing = {}
  BY <1>2, <1>3, <1>i DEF HoldersOK
<1>11. /\ worker' = [d \in CaseName |-> IF d = c THEN worker'[c] ELSE worker[d]]
       /\ basis' = [d \in CaseName |-> IF d = c THEN basis'[c] ELSE basis[d]]
  <2>1. worker = [d \in CaseName |-> worker[d]] /\ basis = [d \in CaseName |-> basis[d]]
    BY <1>i DEF ContentOK, GateInv, IInv, EvidenceInv
  <2> QED
    BY <1>1, <2>1
<1>12. raced = {} /\ Settled(c)' => GateIsMet(c, row[c], row["created"])
  <2>1. row'[c].status = status
    BY <1>7 DEF Updated
  <2>2. status \notin {"unavailable", "completed"}
    OBVIOUS
  <2>3. Settled(c)' => c \in queued'
    BY <1>1, <1>2, <2>1, <2>2 DEF Settled
  <2> QED
    BY <1>5, <1>10, <2>3
<1> HIDE DEF status, asked
<1>13. worker'[c] = Absent /\ basis'[c] = Absent /\ worker[c] = Absent /\ basis[c] = Absent
  BY <1>1, <1>2
<1>14. /\ raced' = raced /\ allowed' = allowed
       /\ raced = {} /\ Settled(c)' => Settled(c) \/ GateIsMet(c, row[c], row["created"])
       /\ worker'[c] \in {worker[c], Absent, Pass(row[c])} /\ basis'[c] \in {basis[c], worker[c]}
  BY <1>1, <1>12, <1>13
<1>15. /\ c \in queued' => status = "reasoning" /\ worker'[c] = Absent
       /\ worker'[c] # Absent => status = "reasoning"
       /\ basis'[c] # Absent <=> status = "completed"
  BY <1>8, <1>10, <1>13
<1> QED
  BY <1>7, <1>8, <1>9, <1>10, <1>11, <1>14, <1>15, StatusGate

LEMMA WorkerReadsGate ==
  ASSUME GateInv, IInv', NEW c \in CaseName, WorkerReads(c)
  PROVE  Rest'
<1> DEFINE raises == Raises(row[c].type, row[c].stored.flat)
           status == IF raises THEN "unavailable" ELSE "reasoning"
<1>i. ContentOK /\ HoldersOK /\ RowsAreWhole /\ worker = [d \in CaseName |-> worker[d]]
  BY DEF GateInv, IInv, EvidenceInv
<1>1. /\ c \in queued /\ row[c].status = "reasoning" /\ worker[c] = Absent
      /\ tab' = tab /\ basis' = basis /\ raced' = raced /\ allowed' = allowed
      /\ queued' = queued \ {c}
  BY DEF WorkerReads
<1>2. /\ raises => row' = [row EXCEPT ![c].status = "unavailable"] /\ worker' = worker
      /\ ~raises => row' = row /\ worker' = [worker EXCEPT ![c] = Pass(row[c])]
  BY DEF WorkerReads, OfStored, Pass
<1> HIDE DEF raises
<1>3. Updated(c, status, row[c].stored, row[c].asked)
  BY <1>1, <1>2, <1>i, StatusUpdated, NotUpdated
<1>4. /\ status \in Status \ (Early \cup {"updating"}) /\ status # "completed"
      /\ row[c].status \notin Early \cup {"awaiting", "completed"}
  BY <1>1 DEF Status, Early
<1>5. /\ queued \subseteq CaseName /\ basis[c] = Absent /\ Settled(c)
      /\ \A u \in Tab : tab[u].pc = "check" => tab[u].case # c
  BY <1>1, <1>i DEF HoldersOK, Settled
<1>6. /\ worker' = [d \in CaseName |-> IF d = c THEN worker'[c] ELSE worker[d]]
      /\ worker'[c] \in {Absent, Pass(row[c])}
      /\ worker'[c] # Absent => status = "reasoning"
  BY <1>1, <1>2, <1>i
<1>7. basis' = [d \in CaseName |-> IF d = c THEN basis'[c] ELSE basis[d]]
  BY <1>1, <1>i DEF ContentOK
<1> HIDE DEF status
<1> QED
  BY <1>1, <1>3, <1>4, <1>5, <1>6, <1>7, StatusGate

LEMMA WorkerEndsGate ==
  ASSUME GateInv, IInv', NEW c \in CaseName, WorkerPublishes(c) \/ WorkerFails(c)
  PROVE  Rest'
<1> DEFINE status == IF WorkerPublishes(c) THEN "completed" ELSE "unavailable"
<1>i. ContentOK /\ HoldersOK /\ RowsAreWhole /\ worker = [d \in CaseName |-> worker[d]]
  BY DEF GateInv, IInv, EvidenceInv
<1>1. /\ worker[c] # Absent /\ tab' = tab /\ raced' = raced /\ allowed' = allowed
      /\ queued' = queued /\ worker' = [worker EXCEPT ![c] = Absent]
  BY DEF WorkerPublishes, WorkerFails
<1>2. /\ WorkerPublishes(c) => basis' = [basis EXCEPT ![c] = worker[c]]
      /\ WorkerFails(c) => basis' = basis /\ row' = [row EXCEPT ![c].status = "unavailable"]
  BY DEF WorkerPublishes, WorkerFails
<1>3. Updated(c, status, row[c].stored, row[c].asked)
  BY <1>2, <1>i, PublishedUpdated, StatusUpdated
<1>4. /\ row[c].status = "reasoning" /\ basis[c] = Absent /\ c \notin queued /\ Settled(c)
      /\ queued \subseteq CaseName
      /\ \A u \in Tab : tab[u].pc = "check" => tab[u].case # c
  BY <1>1, <1>i DEF HoldersOK, Settled
<1>5. /\ status \in Status \ (Early \cup {"updating"}) /\ status # "reasoning"
      /\ row[c].status \notin Early \cup {"awaiting", "completed"}
  BY <1>4 DEF Status, Early
<1>6. worker'[c] = Absent
      /\ worker' = [d \in CaseName |-> IF d = c THEN worker'[c] ELSE worker[d]]
  BY <1>1, <1>i
<1>7. basis = [d \in CaseName |-> basis[d]]
  BY <1>i DEF ContentOK
<1>8. /\ basis'[c] \in {basis[c], worker[c]} /\ (basis'[c] # Absent <=> status = "completed")
      /\ basis' = [d \in CaseName |-> IF d = c THEN basis'[c] ELSE basis[d]]
  <2>1. CASE WorkerPublishes(c)
    BY <1>1, <1>2, <1>7, <2>1
  <2>2. CASE ~WorkerPublishes(c)
    BY <1>2, <1>4, <1>7, <2>2
  <2> QED
    BY <2>1, <2>2
<1> HIDE DEF status
<1>9. /\ \A t \in Tab : tab'[t] = tab[t] \/ (tab'[t].pc = "idle" /\ tab'[t].merged = EmptyStore)
      /\ \A t \in Tab : tab'[t].pc = "check" => tab'[t].case # c
      /\ queued' \subseteq CaseName /\ \A d \in CaseName \ {c} : d \in queued' <=> d \in queued
      /\ c \in queued' => status = "reasoning" /\ worker'[c] = Absent
  BY <1>1, <1>4
<1>10. /\ raced' = raced /\ allowed' = allowed
       /\ raced = {} /\ Settled(c)' => Settled(c) \/ GateIsMet(c, row[c], row["created"])
       /\ worker'[c] # Absent => status = "reasoning"
       /\ worker'[c] \in {worker[c], Absent, Pass(row[c])}
  BY <1>1, <1>4, <1>6
<1> QED
  BY <1>3, <1>5, <1>6, <1>8, <1>9, <1>10, StatusGate

LEMMA RetryStoredGate ==
  ASSUME GateInv, IInv', NEW c \in CaseName, RetryStored(c)
  PROVE  Rest'
<1>i. ContentOK /\ HoldersOK /\ RowsAreWhole /\ worker = [d \in CaseName |-> worker[d]]
  BY DEF GateInv, IInv, EvidenceInv
<1>1. /\ row[c].status = "unavailable" /\ row' = [row EXCEPT ![c].status = "reasoning"]
      /\ tab' = tab /\ basis' = basis /\ worker' = worker /\ raced' = raced /\ allowed' = allowed
      /\ queued' \in {queued, queued \cup {c}}
  BY DEF RetryStored
<1>2. Updated(c, "reasoning", row[c].stored, row[c].asked)
  BY <1>1, <1>i, StatusUpdated
<1>3. /\ queued \subseteq CaseName /\ basis[c] = Absent /\ worker[c] = Absent /\ Settled(c)
      /\ \A u \in Tab : tab[u].pc = "check" => tab[u].case # c
  BY <1>1, <1>i DEF HoldersOK, Settled
<1>4. /\ "reasoning" \in Status \ (Early \cup {"updating"})
      /\ row[c].status \notin Early \cup {"awaiting", "completed"}
  BY <1>1 DEF Status, Early
<1>5. /\ worker' = [d \in CaseName |-> IF d = c THEN worker'[c] ELSE worker[d]]
      /\ basis' = [d \in CaseName |-> IF d = c THEN basis'[c] ELSE basis[d]]
  BY <1>1, <1>i DEF ContentOK
<1> QED
  BY <1>1, <1>2, <1>3, <1>4, <1>5, StatusGate

-----------------------------------------------------------------------------
(* Continuations                                                           *)

\* What is known of the texts of a case.
LEMMA TextsAreRead ==
  ASSUME ContentOK, NEW c \in CaseName, row[c].status # "absent"
  PROVE  /\ row[c].type \in Types /\ GivenOK(row[c].llm) /\ FoundOK(row[c].found)
         /\ VendorsOK(row[c].vendors) /\ DOMAIN row[c].vendors \subseteq Vendor
<1>1. ReadingOK(row[c]) /\ row[c].type \in Types
  BY DEF ContentOK
<1>2. GivenOK(row[c].llm) /\ FoundOK(row[c].found)
  BY <1>1 DEF ReadingOK, GivenOK, FoundOK, Values, MustBeNumbers
<1>3. VendorsOK(row[c].vendors)
  BY <1>1 DEF ReadingOK, VendorsOK, Values
<1> QED
  BY <1>1, <1>2, <1>3 DEF ReadingOK

\* A continuation that keeps what its parent stored has what the gate asks for,
\* but for freight and for suppliers that were replaced.
LEMMA GateOfContinuation ==
  ASSUME GateInv, raced = {}, row["created"].status = "completed",
         NEW r, r.type = row["created"].type, r.mode = row["created"].mode,
         GivenOK(r.stored.flat),
         \A f \in DOMAIN row["created"].stored.flat :
           f \in DOMAIN r.stored.flat /\ r.stored.flat[f] = row["created"].stored.flat[f]
  PROVE  GateIsMet("continued", r, row["created"])
<1> DEFINE p == row["created"]
           m == Pass(p)
           n == Pass(r)
<1>i. ContentOK /\ CreatedHolds /\ PastTheGate
  BY DEF GateInv
<1>1. "created" \in CaseName /\ p.status # "absent" /\ p.status \notin Early
  BY DEF CaseName, Early
<1>2. p.type \in Types /\ VendorsOK(p.vendors)
  BY <1>1, <1>i, TextsAreRead
<1>3. GivenOK(p.stored.flat)
  BY <1>1, <1>i DEF ContentOK, StoreIs, GivenOK, Values
<1>4. /\ Held(p.type, p.found, p.vendors, p.stored.flat)
      /\ p.stored.suppliers = WithFreight(p.vendors, Empty)
  BY <1>1, <1>i DEF CreatedHolds, HeldIn
<1>5. m = Normalised(p.type, p.stored.flat, p.stored.freight, WithFreight(p.vendors, Empty),
                     p.found)
  BY <1>4 DEF Pass
<1>6. n = Normalised(p.type, r.stored.flat, r.stored.freight, r.stored.suppliers, r.found)
  BY DEF Pass
<1> HIDE DEF m, n
<1>7. ASSUME NEW f \in DOMAIN m.flat, f \in AskedFields(p.type) PROVE f \in DOMAIN n.flat
  <2> DEFINE given == p.stored.flat
             flat == r.stored.flat
             vendors == p.vendors
  <2>1. f \in DOMAIN given /\ f \in DOMAIN flat /\ flat[f] = given[f]
    <3>1. f \in DOMAIN given
      BY <1>2, <1>3, <1>4, <1>5, <1>7, PassContinues
    <3> QED
      BY <3>1
  <2> QED
    BY <1>2, <1>3, <1>4, <1>5, <1>6, <1>7, <2>1, PassContinues
<1>8. m.type = p.type /\ n.type = p.type /\ DOMAIN m.flat \subseteq Fields(p.type)
  BY <1>2, <1>5, <1>6, PassReads
<1>9. ASSUME r.mode # "market_intelligence" PROVE Missing(p.mode, m) = {}
  <2>1. GateIsMet("created", p, p)
    BY <1>1, <1>i DEF PastTheGate, Settled
  <2>2. \A q \in Missing(p.mode, m) : Excused("created", q, m.suppliers, m.suppliers)
    BY <1>9, <2>1 DEF GateIsMet, m
  <2> QED
    BY <2>2 DEF Excused
<1>10. ASSUME r.mode # "market_intelligence", NEW q \in Missing(r.mode, n)
       PROVE  Excused("continued", q, n.suppliers, m.suppliers)
  <2>1. \/ q[1] = "freight" \/ q[2] = "freight_cost_or_estimate"
        \/ q[2] = "category_annual_spend_usd" /\ n.suppliers # m.suppliers
    BY <1>2, <1>7, <1>8, <1>9, <1>10, MissingGrows
  <2> QED
    BY <2>1 DEF Excused
<1> QED
  BY <1>10 DEF GateIsMet, m, n

\* What holds of a continuation until its update is classified.
LEMMA WhileUpdating ==
  ASSUME GateInv, row["continued"].status = "updating"
  PROVE  /\ row["created"].status = "completed"
         /\ row["continued"].type = row["created"].type
         /\ row["continued"].mode = row["created"].mode
         /\ row["continued"].stored = row["created"].stored
         /\ "continued" \notin queued /\ worker["continued"] = Absent
         /\ basis["continued"] = Absent /\ queued \subseteq CaseName
         /\ \A t \in Tab : tab[t].case = "continued" => tab[t].pc = "idle"
         /\ row["continued"].stored.pending = {}
<1>i. HoldersOK /\ ContinuesIt /\ PendingWaits
  BY DEF GateInv
<1>1. /\ row["created"].status = "completed"
      /\ row["continued"].type = row["created"].type
      /\ row["continued"].mode = row["created"].mode
      /\ row["continued"].stored = row["created"].stored
  BY <1>i DEF ContinuesIt
<1>2. /\ "continued" \notin queued /\ worker["continued"] = Absent
      /\ basis["continued"] = Absent /\ queued \subseteq CaseName
  BY <1>i DEF HoldersOK, CaseName
<1>3. \A t \in Tab : tab[t].case = "continued" => tab[t].pc = "idle"
  BY <1>i DEF HoldersOK
<1>4. row["continued"].stored.pending = {}
  BY <1>i DEF PendingWaits, CaseName
<1> QED
  BY <1>1, <1>2, <1>3, <1>4

LEMMA UpdateOutOfScopeGate ==
  ASSUME GateInv, IInv', NEW c, c = "continued", UpdateOutOfScope
  PROVE  Rest'
<1> DEFINE asked == Asking({"continuation_scope_confirmation"})
<1>i. ContentOK /\ RowsAreWhole /\ worker = [d \in CaseName |-> worker[d]]
  BY DEF GateInv, IInv, EvidenceInv
<1>1. /\ c \in CaseName /\ row[c].status = "updating"
      /\ row' = [row EXCEPT ![c].status = "awaiting", ![c].asked = asked]
      /\ tab' = tab /\ basis' = basis /\ worker' = worker /\ raced' = raced
      /\ allowed' = allowed /\ queued' = queued
  BY DEF UpdateOutOfScope, CaseName
<1>2. AsksWell(c, asked)
  BY DEF AsksWell, Asking
<1> HIDE DEF asked
<1>3. Updated(c, "awaiting", row[c].stored, asked)
  BY <1>1, <1>i, AskedUpdated
<1>4. /\ c \notin queued /\ worker[c] = Absent /\ basis[c] = Absent /\ queued \subseteq CaseName
      /\ \A t \in Tab : tab[t].case = c => tab[t].pc = "idle"
  BY <1>1, WhileUpdating
<1>5. /\ "awaiting" \in Status \ (Early \cup {"updating"})
      /\ row[c].status \notin Early \cup {"awaiting", "completed"}
  BY <1>1 DEF Status, Early
<1>6. /\ worker' = [d \in CaseName |-> IF d = c THEN worker'[c] ELSE worker[d]]
      /\ basis' = [d \in CaseName |-> IF d = c THEN basis'[c] ELSE basis[d]]
  BY <1>1, <1>i DEF ContentOK
<1>7. ~Settled(c)'
  BY <1>1, <1>3, <1>4 DEF Settled, Updated
<1> QED
  BY <1>1, <1>2, <1>3, <1>4, <1>5, <1>6, <1>7, StatusGate

LEMMA UpdateFailsGate ==
  ASSUME GateInv, IInv', NEW c, c = "continued", UpdateFails
  PROVE  Rest'
<1>i. ContentOK /\ RowsAreWhole /\ worker = [d \in CaseName |-> worker[d]]
  BY DEF GateInv, IInv, EvidenceInv
<1>1. /\ c \in CaseName /\ row[c].status = "updating"
      /\ row' = [row EXCEPT ![c].status = "unavailable"]
      /\ tab' = tab /\ basis' = basis /\ worker' = worker /\ raced' = raced
      /\ allowed' = allowed /\ queued' = queued
  BY DEF UpdateFails, CaseName
<1>2. Updated(c, "unavailable", row[c].stored, row[c].asked)
  BY <1>1, <1>i, StatusUpdated
<1>3. /\ c \notin queued /\ worker[c] = Absent /\ basis[c] = Absent /\ queued \subseteq CaseName
      /\ \A t \in Tab : tab[t].case = c => tab[t].pc = "idle"
      /\ row["created"].status = "completed" /\ row[c].type = row["created"].type
      /\ row[c].mode = row["created"].mode /\ row[c].stored = row["created"].stored
  BY <1>1, WhileUpdating
<1>4. /\ "unavailable" \in Status \ (Early \cup {"updating"})
      /\ row[c].status \notin Early \cup {"awaiting", "completed"}
  BY <1>1 DEF Status, Early
<1>5. /\ worker' = [d \in CaseName |-> IF d = c THEN worker'[c] ELSE worker[d]]
      /\ basis' = [d \in CaseName |-> IF d = c THEN basis'[c] ELSE basis[d]]
  BY <1>1, <1>i DEF ContentOK
<1>6. ASSUME raced = {} PROVE GateIsMet(c, row[c], row["created"])
  <2>1. GivenOK(row[c].stored.flat)
    BY <1>1, <1>i DEF ContentOK, StoreIs, GivenOK, Values
  <2> QED
    BY <1>3, <1>6, <2>1, GateOfContinuation
<1> QED
  BY <1>1, <1>2, <1>3, <1>4, <1>5, <1>6, StatusGate

\* Where nothing was changed, the continuation has what its parent had; where
\* something was, it waits.
LEMMA UpdateReconciledGate ==
  ASSUME GateInv, IInv', NEW c, c = "continued", UpdateReconciled
  PROVE  Rest'
<1> DEFINE n == FirstPass(c)
           p == row["created"]
           was == p.stored
           status == IF UpdateAsks THEN "awaiting" ELSE "reasoning"
           asked == IF UpdateAsks THEN Asking({"continuation_evidence_confirmation"}) ELSE {}
<1>i. /\ ContentOK /\ HoldersOK /\ PendingWaits /\ MadeOfStored
      /\ ContinuesIt /\ CreatedHolds /\ ChangesAccounted /\ PastTheGate
      /\ RowsAreWhole /\ TabsLate /\ worker = [d \in CaseName |-> worker[d]]
  BY DEF GateInv, IInv, EvidenceInv
<1>1. /\ c \in CaseName /\ row[c].status = "updating" /\ tab' = tab /\ basis' = basis
      /\ worker' = worker /\ raced' = raced /\ allowed' = allowed
  BY DEF UpdateReconciled, CaseName
<1>2. queued' = IF UpdateAsks THEN queued ELSE queued \cup {c}
  BY DEF UpdateReconciled, UpdateAsks, ChangesOfUpdate, FirstPass
<1>3. Updated(c, status, StoredOfUpdate, asked)
  BY <1>i, ReconciledUpdated
<1>4. /\ c \notin queued /\ worker[c] = Absent /\ basis[c] = Absent /\ queued \subseteq CaseName
      /\ \A t \in Tab : tab[t].case = c => tab[t].pc = "idle"
      /\ p.status = "completed" /\ row[c].type = p.type
      /\ row[c].mode = p.mode /\ row[c].stored = was
  BY <1>1, WhileUpdating
<1>5. /\ row[c].type \in Types /\ GivenOK(row[c].llm) /\ FoundOK(row[c].found)
      /\ DOMAIN row[c].vendors \subseteq Vendor
  BY <1>1, <1>i, TextsAreRead
<1>6. /\ \A f \in DOMAIN n.flat : n.flat[f] \in ValueShape
      /\ DOMAIN n.suppliers = DOMAIN row[c].vendors
  BY <1>5, PassStores DEF FirstPass
<1> HIDE DEF n, was
<1>7. /\ StoredOfUpdate.flat = Over(n.flat, was.flat) /\ StoredOfUpdate.freight = was.freight
      /\ StoredOfUpdate.suppliers = (IF n.suppliers = Empty THEN was.suppliers ELSE n.suppliers)
      /\ StoredOfUpdate.pending = Changed(was.flat, n.flat)
      /\ Changed(was.flat, n.flat) # {} => UpdateAsks
  BY <1>4 DEF StoredOfUpdate, ChangesOfUpdate, UpdateAsks, n
<1>8. StoreIs(was)
  BY <1>i DEF ContentOK, CaseName, was
<1>9. StoreIs(StoredOfUpdate)
  <2>1. \A f \in DOMAIN StoredOfUpdate.flat : StoredOfUpdate.flat[f] \in ValueShape
    BY <1>6, <1>7, <1>8 DEF StoreIs, Over
  <2>2. StoredOfUpdate.pending \subseteq DOMAIN StoredOfUpdate.flat
    BY <1>7 DEF Changed, Over
  <2> QED
    BY <1>5, <1>6, <1>7, <1>8, <2>1, <2>2 DEF StoreIs
<1>10. Accounted(was.flat, StoredOfUpdate.flat, StoredOfUpdate.pending, allowed)
  BY <1>7 DEF Accounted, Over, Changed
<1>11. ASSUME ~UpdateAsks
       PROVE  \A f \in DOMAIN was.flat :
                f \in DOMAIN StoredOfUpdate.flat /\ StoredOfUpdate.flat[f] = was.flat[f]
  BY <1>7, <1>11 DEF Over, Changed
<1>s. \A q \in asked : q[1] # "freight"
  BY DEF Asking
<1>t. status \in {"awaiting", "reasoning"} /\ (status = "reasoning" <=> ~UpdateAsks)
  OBVIOUS
<1> HIDE DEF asked, status
<1>12. /\ \A d \in CaseName : SameText(d)
       /\ row'[c].status = status /\ row'[c].stored = StoredOfUpdate /\ row'[c].asked = asked
       /\ \A d \in CaseName \ {c} :
            row'[d].status = row[d].status /\ row'[d].stored = row[d].stored
              /\ row'[d].asked = row[d].asked
  BY <1>3 DEF Updated
<1>13. /\ SameText("created") /\ row'["created"].status = "completed"
       /\ row'["created"].stored = was /\ row'["created"].asked = p.asked
  BY <1>4, <1>12 DEF CaseName, was
<1>14. ContentOK'
  <2>1. /\ \A d \in CaseName : row'[d].status \in Status
        /\ \A d \in CaseName : row'[d].status # "absent" => row[d].status # "absent"
        /\ basis' = [d \in CaseName |-> basis'[d]] /\ raced' \subseteq CaseName
    BY <1>1, <1>12, <1>i, <1>t DEF ContentOK, Status
  <2>2. \A d \in CaseName : row'[d].stored = row[d].stored \/ StoreIs(row'[d].stored)
    BY <1>9, <1>12
  <2>3. \A d \in CaseName : \A q \in row'[d].asked :
          q \in row[d].asked \/ q[1] # "freight" \/ q[2] \in Vendor
    BY <1>12, <1>s
  <2> QED
    BY <1>1, <1>12, <1>i, <2>1, <2>2, <2>3, ContentStays
<1>15. HoldersOK'
  <2>1. /\ queued' \subseteq CaseName /\ \A d \in CaseName \ {c} : d \in queued' <=> d \in queued
        /\ c \in queued' => status = "reasoning"
    BY <1>1, <1>2, <1>4, <1>t
  <2>2. \A u \in Tab : tab[u].case \in CaseName
    BY <1>i DEF TabsLate, IsTab
  <2> QED
    BY <1>1, <1>4, <1>12, <1>i, <1>t, <2>1, <2>2, HoldersStay
<1>16. PendingWaits'
  <2>1. StoredOfUpdate.pending # {} => status = "awaiting"
    BY <1>7, <1>t
  <2>2. ASSUME NEW d \in CaseName, row'[d].stored.pending # {}
        PROVE  /\ row'[d].status = "awaiting"
               /\ \A u \in Tab : tab'[u].case = d => tab'[u].pc \notin {"claim", "check"}
    <3>1. CASE d = c
      BY <1>1, <1>4, <1>12, <2>1, <2>2, <3>1
    <3>2. CASE d # c
      BY <1>1, <1>12, <1>i, <2>2, <3>2 DEF PendingWaits
    <3> QED
      BY <3>1, <3>2
  <2> QED
    BY <2>2 DEF PendingWaits
<1>17. MadeOfStored'
  BY <1>1, <1>4, <1>12, <1>i, MadeStays
<1>18. ContinuesIt'
  <2>1. row'["continued"].status # "updating" /\ row["continued"].status # "absent"
    BY <1>1, <1>12, <1>t
  <2> QED
    BY <1>12, <1>13, <1>i, <2>1, ContinuesStays DEF was
<1>19. CreatedHolds'
  <2>1. /\ row["created"].status \notin Early
        /\ row'["created"].stored = row["created"].stored
        /\ row'["created"].asked = row["created"].asked
    BY <1>4, <1>13 DEF Early, was
  <2>2. \A u \in Tab : tab'[u].merged = tab[u].merged /\ tab'[u].pc = tab[u].pc
                         /\ tab'[u].case = tab[u].case
    BY <1>1
  <2> QED
    BY <1>13, <1>i, <2>1, <2>2, CreatedStays
<1>20. ChangesAccounted'
  BY <1>1, <1>4, <1>10, <1>12, <1>13 DEF ChangesAccounted, Accounted
<1>21. PastTheGate'
  <2>1. ASSUME NEW u \in Tab, tab'[u].pc = "check"
        PROVE  tab'[u] = tab[u] /\ row'[tab[u].case].stored = row[tab[u].case].stored
    <3>1. tab[u].case \in CaseName \ {c}
      BY <1>1, <1>4, <1>i, <2>1 DEF TabsLate, IsTab
    <3> QED
      BY <1>1, <1>12, <3>1
  <2>2. ASSUME raced' = {}, NEW d \in CaseName, Settled(d)'
        PROVE  \/ /\ Settled(d) /\ row'[d].stored = row[d].stored
                  /\ row'["created"].stored = row["created"].stored
               \/ GateIsMet(d, row'[d], row'["created"])
    <3>1. CASE d # c
      BY <1>1, <1>2, <1>12, <1>13, <2>2, <3>1 DEF Settled, was
    <3>2. CASE d = c
      <4>1. ~UpdateAsks
        BY <1>1, <1>2, <1>4, <1>12, <1>t, <2>2, <3>2 DEF Settled
      <4>2. GivenOK(row'[c].stored.flat)
        BY <1>9, <1>12 DEF StoreIs, GivenOK, Values
      <4>3. row'[c].type = p.type /\ row'[c].mode = p.mode
        BY <1>1, <1>4, <1>12 DEF SameText
      <4>4. \A f \in DOMAIN p.stored.flat :
              f \in DOMAIN row'[c].stored.flat /\ row'[c].stored.flat[f] = p.stored.flat[f]
        BY <1>11, <1>12, <4>1 DEF was
      <4>5. GateIsMet("continued", row'[c], row["created"])
        BY <1>1, <1>4, <2>2, <4>2, <4>3, <4>4, GateOfContinuation
      <4>6. Pass(row'["created"]) = Pass(row["created"])
        BY <1>13, PassSame DEF was, CaseName
      <4> QED
        BY <3>2, <4>5, <4>6 DEF GateIsMet
    <3> QED
      BY <3>1, <3>2
  <2> QED
    BY <1>1, <1>12, <1>i, <2>1, <2>2, PastStays
<1> QED
  BY <1>14, <1>15, <1>16, <1>17, <1>18, <1>19, <1>20, <1>21 DEF Rest

\* Until a case is created and classified there is nothing else.
LEMMA WhileEarly ==
  ASSUME GateInv, row["created"].status \in Early
  PROVE  /\ row["continued"].status = "absent" /\ queued = {}
         /\ \A d \in CaseName : worker[d] = Absent /\ basis[d] = Absent
         /\ \A t \in Tab : tab[t].pc = "idle"
<1>i. HoldersOK /\ ContinuesIt /\ TabsLate
  BY DEF GateInv, IInv
<1>1. row["continued"].status = "absent"
  BY <1>i DEF ContinuesIt, Early
<1>2. \A d \in CaseName : row[d].status \in Early
  BY <1>1 DEF CaseName, Early
<1>3. queued = {} /\ \A d \in CaseName : worker[d] = Absent /\ basis[d] = Absent
  BY <1>2, <1>i DEF HoldersOK, Early
<1>4. \A t \in Tab : tab[t].pc = "idle"
  BY <1>2, <1>i DEF TabsLate, IsTab
<1> QED
  BY <1>1, <1>3, <1>4

LEMMA ClassifiedGate ==
  ASSUME GateInv, IInv', NEW c, c = "created", Classified
  PROVE  Rest'
<1> DEFINE n == FirstPass(c)
           status == IF AsksFirst = {} THEN "reasoning" ELSE "awaiting"
           stored == [flat |-> n.flat, freight |-> Empty, suppliers |-> n.suppliers,
                      pending |-> {}]
<1>i. /\ ContentOK /\ HoldersOK /\ PendingWaits /\ MadeOfStored
      /\ ContinuesIt /\ CreatedHolds /\ ChangesAccounted /\ PastTheGate
      /\ RowsAreWhole /\ TabsLate
  BY DEF GateInv, IInv, EvidenceInv
<1>1. /\ c \in CaseName /\ row[c].status = "classifying" /\ tab' = tab /\ basis' = basis
      /\ worker' = worker /\ raced' = raced /\ allowed' = allowed
  BY DEF Classified, CaseName
<1>2. queued' = IF AsksFirst = {} THEN queued \cup {c} ELSE queued
  BY DEF Classified, AsksFirst, FirstPass
<1>3. Updated(c, status, stored, AsksFirst)
  BY <1>i, ClassifiedUpdated
<1>4. /\ row["continued"].status = "absent" /\ queued = {}
      /\ \A d \in CaseName : worker[d] = Absent /\ basis[d] = Absent
      /\ \A t \in Tab : tab[t].pc = "idle"
  BY <1>1, WhileEarly DEF Early
<1>5. /\ row[c].type \in Types /\ GivenOK(row[c].llm) /\ FoundOK(row[c].found)
      /\ DOMAIN row[c].vendors \subseteq Vendor
  BY <1>1, <1>i, TextsAreRead
<1>6. /\ \A f \in DOMAIN n.flat : n.flat[f] \in ValueShape
      /\ DOMAIN n.suppliers = DOMAIN row[c].vendors
  BY <1>5, PassStores DEF FirstPass
<1>7. /\ n.suppliers = WithFreight(row[c].vendors, Empty)
      /\ Held(row[c].type, row[c].found, row[c].vendors, n.flat)
  BY <1>5, PassReads, HeldPass DEF FirstPass
<1>8. AsksWell(c, AsksFirst)
  <2>1. AsksWell(c, {})
    BY DEF AsksWell
  <2>2. AsksWell(c, Missing(row[c].mode, FirstPass(c)))
    BY <1>1, <1>5, GateAsksWell DEF FirstPass
  <2> QED
    BY <2>1, <2>2 DEF AsksFirst
<1>9. LET m == Normalised(row[c].type, n.flat, Empty, n.suppliers, row[c].found)
      IN row[c].mode # "market_intelligence" /\ AsksFirst = {} => Missing(row[c].mode, m) = {}
  <2> DEFINE m == Normalised(row[c].type, n.flat, Empty, n.suppliers, row[c].found)
  <2>1. /\ m.type = n.type /\ m.suppliers = n.suppliers /\ DOMAIN m.flat = DOMAIN n.flat
        /\ m.freightRelevant <=> n.freightRelevant
    BY <1>5, PassAgain DEF FirstPass
  <2> HIDE DEF m, n
  <2>2. Missing(row[c].mode, m) = Missing(row[c].mode, n)
    BY <2>1, MissingSame
  <2> QED
    BY <2>2 DEF AsksFirst, m, n
<1>10. /\ stored.flat = n.flat /\ stored.freight = Empty /\ stored.suppliers = n.suppliers
       /\ stored.pending = {}
  OBVIOUS
<1>t. status \in {"awaiting", "reasoning"} /\ (status = "reasoning" <=> AsksFirst = {})
  OBVIOUS
<1> HIDE DEF status, stored, n
<1>11. StoreIs(stored)
  BY <1>5, <1>6, <1>10, NothingIn DEF StoreIs
<1>12. /\ \A d \in CaseName : SameText(d)
       /\ row'[c].status = status /\ row'[c].stored = stored /\ row'[c].asked = AsksFirst
       /\ \A d \in CaseName \ {c} :
            row'[d].status = row[d].status /\ row'[d].stored = row[d].stored
              /\ row'[d].asked = row[d].asked
  BY <1>3 DEF Updated
<1>13. row'["continued"].status = "absent"
  BY <1>4, <1>12 DEF CaseName
<1>14. ContentOK'
  <2>1. /\ \A d \in CaseName : row'[d].status \in Status
        /\ \A d \in CaseName : row'[d].status # "absent" => row[d].status # "absent"
        /\ basis' = [d \in CaseName |-> basis'[d]] /\ raced' \subseteq CaseName
    BY <1>1, <1>12, <1>i, <1>t DEF ContentOK, Status
  <2>2. \A d \in CaseName : row'[d].stored = row[d].stored \/ StoreIs(row'[d].stored)
    BY <1>11, <1>12
  <2>3. \A d \in CaseName : \A q \in row'[d].asked :
          q \in row[d].asked \/ q[1] # "freight" \/ q[2] \in Vendor
    BY <1>8, <1>12 DEF AsksWell
  <2> QED
    BY <1>1, <1>12, <1>i, <2>1, <2>2, <2>3, ContentStays
<1>15. HoldersOK'
  <2>1. /\ queued' \subseteq CaseName /\ \A d \in CaseName \ {c} : d \in queued' <=> d \in queued
        /\ c \in queued' => status = "reasoning"
    BY <1>1, <1>2, <1>4, <1>t
  <2>2. \A u \in Tab : tab[u].case \in CaseName
    BY <1>i DEF TabsLate, IsTab
  <2> QED
    BY <1>1, <1>4, <1>12, <1>i, <1>t, <2>1, <2>2, HoldersStay
<1>16. PendingWaits'
  BY <1>1, <1>4, <1>10, <1>12, <1>i DEF PendingWaits
<1>17. MadeOfStored'
  BY <1>1, <1>4, <1>12, <1>i, MadeStays
<1>18. ContinuesIt'
  BY <1>1, <1>12, <1>13, <1>i, <1>t DEF ContinuesIt
<1>19. CreatedHolds'
  <2>1. row'[c].type = row[c].type /\ row'[c].found = row[c].found
          /\ row'[c].vendors = row[c].vendors
    BY <1>1, <1>12 DEF SameText
  <2>2. row'["created"].stored.suppliers = WithFreight(row'["created"].vendors, Empty)
    BY <1>7, <1>10, <1>12, <2>1
  <2>3. HeldIn(row["created"].stored.flat)'
    BY <1>7, <1>10, <1>12, <2>1 DEF HeldIn
  <2>4. \A q \in row'["created"].asked :
          q[1] = "field" /\ q[2] \in PatternFields(row'["created"].type) =>
            q[2] = "requested_increase_percent" /\ At(row'["created"].found, q[2]) = Absent
    BY <1>8, <1>12, <2>1 DEF AsksWell
  <2> QED
    BY <1>1, <1>4, <2>2, <2>3, <2>4 DEF CreatedHolds
<1>20. ChangesAccounted'
  BY <1>13 DEF ChangesAccounted
<1>21. PastTheGate'
  <2>1. ASSUME NEW d \in CaseName, Settled(d)' PROVE GateIsMet(d, row'[d], row'["created"])
    <3>1. d = c /\ AsksFirst = {}
      BY <1>1, <1>2, <1>4, <1>12, <1>13, <1>t, <2>1 DEF Settled, CaseName
    <3>2. Pass(row'[c]) = Normalised(row[c].type, n.flat, Empty, n.suppliers, row[c].found)
      BY <1>1, <1>10, <1>12 DEF Pass, SameText
    <3>3. row'[c].mode = row[c].mode
      BY <1>1, <1>12 DEF SameText
    <3>4. row'[c].mode # "market_intelligence" => Missing(row'[c].mode, Pass(row'[c])) = {}
      BY <1>9, <3>1, <3>2, <3>3
    <3> QED
      BY <3>1, <3>4 DEF GateIsMet
  <2> QED
    BY <1>1, <1>4, <1>12, <1>i, <2>1, PastStays
<1> QED
  BY <1>14, <1>15, <1>16, <1>17, <1>18, <1>19, <1>20, <1>21 DEF Rest

-----------------------------------------------------------------------------
(* New rows                                                                *)

\* The columns of a new row.
LEMMA NewRowHas ==
  ASSUME NEW s, NEW type, NEW mode, NEW x, NEW stored
  PROVE  LET new == [NoRow EXCEPT !.status = s, !.type = type, !.mode = mode, !.llm = x.llm,
                                  !.found = x.found, !.vendors = x.vendors]
             all == [new EXCEPT !.stored = stored]
         IN /\ new.status = s /\ new.type = type /\ new.mode = mode /\ new.llm = x.llm
            /\ new.found = x.found /\ new.vendors = x.vendors
            /\ new.stored = EmptyStore /\ new.asked = {}
            /\ all.status = s /\ all.type = type /\ all.mode = mode /\ all.llm = x.llm
            /\ all.found = x.found /\ all.vendors = x.vendors
            /\ all.stored = stored /\ all.asked = {}
<1> DEFINE llm == x.llm
           found == x.found
           vendors == x.vendors
<1> HIDE DEF llm, found, vendors
<1>1. LET new == [NoRow EXCEPT !.status = s, !.type = type, !.mode = mode, !.llm = llm,
                               !.found = found, !.vendors = vendors]
          all == [new EXCEPT !.stored = stored]
      IN /\ new.status = s /\ new.type = type /\ new.mode = mode /\ new.llm = llm
         /\ new.found = found /\ new.vendors = vendors
         /\ new.stored = EmptyStore /\ new.asked = {}
         /\ all.status = s /\ all.type = type /\ all.mode = mode /\ all.llm = llm
         /\ all.found = found /\ all.vendors = vendors
         /\ all.stored = stored /\ all.asked = {}
  BY DEF NoRow
<1> QED
  BY <1>1, Zenon DEF llm, found, vendors

LEMMA CreateCaseGate ==
  ASSUME GateInv, IInv', NEW c, c = "created", NEW x \in CaseText, CreateCase(x)
  PROVE  Rest'
<1> DEFINE new == [NoRow EXCEPT !.status = "classifying", !.type = x.type, !.mode = x.mode,
                                !.llm = x.llm, !.found = x.found, !.vendors = x.vendors]
<1>i. ContentOK /\ HoldersOK /\ PendingWaits /\ RowsAreWhole /\ TabsLate
  BY DEF GateInv, IInv, EvidenceInv
<1>1. /\ c \in CaseName /\ row[c].status = "absent" /\ row' = [row EXCEPT ![c] = new]
      /\ queued' = queued /\ tab' = tab /\ worker' = worker /\ basis' = basis
      /\ raced' = raced /\ allowed' = allowed
  BY DEF CreateCase, CaseName
<1>2. /\ row["continued"].status = "absent" /\ queued = {}
      /\ \A d \in CaseName : worker[d] = Absent /\ basis[d] = Absent
      /\ \A t \in Tab : tab[t].pc = "idle"
  BY <1>1, WhileEarly DEF Early
<1>3. /\ new.status = "classifying" /\ new.type = x.type /\ new.llm = x.llm
      /\ new.found = x.found /\ new.vendors = x.vendors
      /\ new.stored = EmptyStore /\ new.asked = {}
  BY NewRowHas
<1>4. ReadingOK(x) /\ x.type \in Types
  BY EvidenceAssumption DEF Types
<1> HIDE DEF new
<1>5. row'[c] = new /\ \A d \in CaseName \ {c} : row'[d] = row[d]
  BY <1>1, <1>i DEF RowsAreWhole
<1>6. StoreIs(EmptyStore) /\ EmptyStore.pending = {}
  BY NothingIn DEF StoreIs, EmptyStore
<1>7. row'["continued"].status = "absent"
  BY <1>1, <1>2, <1>5 DEF CaseName
<1>8. ContentOK'
  <2>1. ReadingOK(new)
    BY <1>3, <1>4 DEF ReadingOK
  <2>2. ASSUME NEW d \in CaseName
        PROVE  /\ row'[d].status \in Status
               /\ row'[d].status # "absent" => ReadingOK(row'[d]) /\ row'[d].type \in Types
               /\ StoreIs(row'[d].stored)
               /\ \A q \in row'[d].asked : q[1] = "freight" => q[2] \in Vendor
    <3>1. CASE d = c
      BY <1>3, <1>4, <1>5, <1>6, <2>1, <3>1 DEF Status
    <3>2. CASE d # c
      BY <1>5, <1>i, <3>2 DEF ContentOK
    <3> QED
      BY <3>1, <3>2
  <2> QED
    BY <1>1, <1>i, <2>2 DEF ContentOK, StoreIs, ReadingOK
<1>9. HoldersOK'
  <2>1. \A u \in Tab : tab[u].case \in CaseName
    BY <1>i DEF TabsLate, IsTab
  <2> QED
    BY <1>1, <1>2, <1>3, <1>5, <1>i, <2>1, HoldersStay
<1>10. PendingWaits'
  BY <1>1, <1>3, <1>5, <1>6, <1>i DEF PendingWaits
<1>11. MadeOfStored'
  BY <1>1, <1>2 DEF MadeOfStored, ReasonedOn
<1>12. ContinuesIt'
  BY <1>1, <1>3, <1>5, <1>7 DEF ContinuesIt
<1>13. CreatedHolds' /\ ChangesAccounted'
  BY <1>1, <1>3, <1>5, <1>7 DEF CreatedHolds, ChangesAccounted, Early
<1>14. PastTheGate'
  <2>1. \A d \in CaseName : ~Settled(d)'
    BY <1>1, <1>2, <1>3, <1>5, <1>7 DEF Settled, CaseName
  <2> QED
    BY <1>1, <1>2, <2>1 DEF PastTheGate
<1> QED
  BY <1>8, <1>9, <1>10, <1>11, <1>12, <1>13, <1>14 DEF Rest

LEMMA ContinueCaseGate ==
  ASSUME GateInv, IInv', NEW c, c = "continued", NEW x \in Update, ContinueCase(x)
  PROVE  Rest'
<1> DEFINE p == row["created"]
           first == [NoRow EXCEPT !.status = "updating", !.type = p.type, !.mode = p.mode,
                                  !.llm = x.llm, !.found = x.found, !.vendors = x.vendors]
           new == [first EXCEPT !.stored = p.stored]
<1>i. /\ ContentOK /\ HoldersOK /\ PendingWaits /\ MadeOfStored /\ CreatedHolds
      /\ PastTheGate /\ RowsAreWhole /\ TabsLate
  BY DEF GateInv, IInv, EvidenceInv
<1>1. /\ c \in CaseName /\ row[c].status = "absent" /\ p.status = "completed"
      /\ row' = [row EXCEPT ![c] = new]
      /\ queued' = queued /\ tab' = tab /\ worker' = worker /\ basis' = basis
      /\ raced' = raced /\ allowed' = allowed
  BY DEF ContinueCase, CaseName
<1>2. /\ new.status = "updating" /\ new.type = p.type /\ new.mode = p.mode /\ new.llm = x.llm
      /\ new.found = x.found /\ new.vendors = x.vendors
      /\ new.stored = p.stored /\ new.asked = {}
  BY NewRowHas
<1>3. ReadingOK(x)
  BY EvidenceAssumption
<1> HIDE DEF new, p
<1>4. row'[c] = new /\ \A d \in CaseName \ {c} : row'[d] = row[d]
  BY <1>1, <1>i DEF RowsAreWhole
<1>5. /\ c \notin queued /\ worker[c] = Absent /\ basis[c] = Absent
      /\ \A t \in Tab : tab[t].case = c => tab[t].pc = "idle"
      /\ queued \subseteq CaseName
  BY <1>1, <1>i DEF HoldersOK, TabsLate, Early
<1>6. row'["created"] = p
  BY <1>1, <1>4 DEF CaseName, p
<1>7. p.type \in Types /\ StoreIs(p.stored) /\ p.stored.pending = {}
  BY <1>1, <1>i DEF ContentOK, PendingWaits, CaseName, p
<1>8. ContentOK'
  <2>1. ReadingOK(new)
    BY <1>2, <1>3 DEF ReadingOK
  <2>2. ASSUME NEW d \in CaseName
        PROVE  /\ row'[d].status \in Status
               /\ row'[d].status # "absent" => ReadingOK(row'[d]) /\ row'[d].type \in Types
               /\ StoreIs(row'[d].stored)
               /\ \A q \in row'[d].asked : q[1] = "freight" => q[2] \in Vendor
    <3>1. CASE d = c
      BY <1>2, <1>4, <1>7, <2>1, <3>1 DEF Status
    <3>2. CASE d # c
      BY <1>4, <1>i, <3>2 DEF ContentOK
    <3> QED
      BY <3>1, <3>2
  <2> QED
    BY <1>1, <1>i, <2>2 DEF ContentOK, StoreIs, ReadingOK
<1>9. HoldersOK'
  <2>1. \A u \in Tab : tab[u].case \in CaseName
    BY <1>i DEF TabsLate, IsTab
  <2> QED
    BY <1>1, <1>2, <1>4, <1>5, <1>i, <2>1, HoldersStay
<1>10. PendingWaits'
  BY <1>1, <1>2, <1>4, <1>7, <1>i DEF PendingWaits
<1>11. MadeOfStored'
  <2>1. ASSUME NEW d \in CaseName, NEW n \in {worker[d], basis[d]} \ {Absent}
        PROVE  n = Pass(row'[d])
    <3>1. d # c
      BY <1>5, <2>1
    <3> QED
      BY <1>4, <1>i, <2>1, <3>1 DEF MadeOfStored, ReasonedOn
  <2> QED
    BY <1>1, <2>1 DEF MadeOfStored, ReasonedOn, Pass
<1>12. ContinuesIt'
  BY <1>1, <1>2, <1>4, <1>6 DEF ContinuesIt
<1>13. CreatedHolds'
  BY <1>1, <1>6, <1>i DEF CreatedHolds, HeldIn, p
<1>14. ChangesAccounted'
  BY <1>1, <1>2, <1>4, <1>5, <1>6 DEF ChangesAccounted, Accounted
<1>15. PastTheGate'
  <2>1. ASSUME raced = {}, NEW d \in CaseName, Settled(d)'
        PROVE  GateIsMet(d, row'[d], row'["created"])
    <3>1. d # c
      BY <1>1, <1>2, <1>4, <1>5, <2>1 DEF Settled
    <3>2. Settled(d)
      BY <1>1, <1>4, <2>1, <3>1 DEF Settled
    <3>3. GateIsMet(d, row[d], row["created"])
      BY <1>i, <2>1, <3>2 DEF PastTheGate
    <3> QED
      BY <1>4, <1>6, <3>1, <3>3 DEF p
  <2>2. ASSUME raced = {}, NEW t \in Tab, tab[t].pc = "check"
        PROVE  row'[tab[t].case].stored = tab[t].merged
    <3>1. tab[t].case \in CaseName \ {c}
      BY <1>5, <1>i, <2>2 DEF TabsLate, IsTab
    <3> QED
      BY <1>4, <1>i, <2>2, <3>1 DEF PastTheGate
  <2> QED
    BY <1>1, <2>1, <2>2 DEF PastTheGate, GateIsMet, Pass
<1> QED
  BY <1>8, <1>9, <1>10, <1>11, <1>12, <1>13, <1>14, <1>15 DEF Rest

-----------------------------------------------------------------------------
(* The theorems                                                            *)

LEMMA GateInit == EvidenceInit => GateInv
<1> SUFFICES ASSUME EvidenceInit PROVE GateInv
  OBVIOUS
<1>1. /\ row = [c \in CaseName |-> NoRow] /\ worker = [c \in CaseName |-> Absent]
      /\ basis = [c \in CaseName |-> Absent] /\ tab = [t \in Tab |-> Idle]
      /\ queued = {} /\ raced = {}
  BY DEF EvidenceInit
<1>2. /\ NoRow.status = "absent" /\ NoRow.stored = EmptyStore /\ NoRow.asked = {}
      /\ Idle.pc = "idle" /\ Idle.merged = EmptyStore
  BY DEF NoRow, Idle
<1>3. /\ \A c \in CaseName : row[c] = NoRow /\ worker[c] = Absent /\ basis[c] = Absent
      /\ \A t \in Tab : tab[t] = Idle
  BY <1>1
<1>4. StoreIs(EmptyStore) /\ EmptyStore.pending = {}
  BY NothingIn DEF StoreIs, EmptyStore
<1>5. IInv
  BY InitHolds
<1>6. ContentOK
  BY <1>1, <1>2, <1>3, <1>4 DEF ContentOK, Status
<1>7. HoldersOK /\ PendingWaits /\ MadeOfStored
  BY <1>1, <1>2, <1>3, <1>4 DEF HoldersOK, PendingWaits, MadeOfStored, ReasonedOn
<1>8. ContinuesIt /\ CreatedHolds /\ ChangesAccounted
  BY <1>2, <1>3 DEF ContinuesIt, CreatedHolds, ChangesAccounted, CaseName, Early
<1>9. PastTheGate
  BY <1>1, <1>2, <1>3 DEF PastTheGate, Settled
<1> QED
  BY <1>5, <1>6, <1>7, <1>8, <1>9 DEF GateInv

LEMMA GateUnchanged ==
  ASSUME GateInv, UNCHANGED evidenceVars
  PROVE  Rest'
<1>1. /\ row' = row /\ queued' = queued /\ tab' = tab /\ worker' = worker /\ basis' = basis
      /\ raced' = raced /\ allowed' = allowed
  BY DEF evidenceVars
<1>2. ContentOK' /\ HoldersOK' /\ PendingWaits'
  BY <1>1 DEF GateInv, ContentOK, StoreIs, ReadingOK, HoldersOK, PendingWaits
<1>3. MadeOfStored' /\ ContinuesIt' /\ ChangesAccounted'
  BY <1>1 DEF GateInv, MadeOfStored, ReasonedOn, Pass, ContinuesIt, ChangesAccounted, Accounted
<1>4. CreatedHolds' /\ PastTheGate'
  BY <1>1 DEF GateInv, CreatedHolds, HeldIn, PastTheGate, Settled, GateIsMet, Pass
<1> QED
  BY <1>2, <1>3, <1>4 DEF Rest

LEMMA GateStep == GateInv /\ [EvidenceNext]_evidenceVars => GateInv'
<1> SUFFICES ASSUME GateInv, [EvidenceNext]_evidenceVars PROVE GateInv'
  OBVIOUS
<1>0. IInv'
  BY StepHolds DEF GateInv
<1>t. \A t \in Tab : tab[t].case \in CaseName
  BY DEF GateInv, IInv, TabsLate, IsTab
<1> SUFFICES Rest'
  BY <1>0 DEF Rest, GateInv
<1>1. CASE \E x \in CaseText : CreateCase(x)
  BY <1>0, <1>1, CreateCaseGate
<1>2. CASE \E x \in Update : ContinueCase(x)
  BY <1>0, <1>2, ContinueCaseGate
<1>3. CASE Classified \/ UpdateOutOfScope \/ UpdateReconciled \/ UpdateFails
  BY <1>0, <1>3, ClassifiedGate, UpdateOutOfScopeGate, UpdateReconciledGate, UpdateFailsGate
<1>4. CASE \E t \in Tab, c \in CaseName : \E S \in Answered(row[c].asked), v \in Answer :
             RespondRead(t, c, S, v)
  <2> PICK t \in Tab, c \in CaseName :
             \E S \in Answered(row[c].asked), v \in Answer : RespondRead(t, c, S, v)
    BY <1>4
  <2> PICK S \in Answered(row[c].asked), v \in Answer : RespondRead(t, c, S, v)
    OBVIOUS
  <2> QED
    BY <1>0, RespondReadGate
<1>5. CASE \E t \in Tab : RespondStore(t) \/ RespondClaim(t) \/ RespondCheck(t)
  <2> PICK t \in Tab : RespondStore(t) \/ RespondClaim(t) \/ RespondCheck(t)
    BY <1>5
  <2> QED
    BY <1>0, <1>t, RespondStoreGate, RespondClaimGate, RespondCheckGate
<1>6. CASE \E c \in CaseName :
             WorkerReads(c) \/ WorkerPublishes(c) \/ WorkerFails(c) \/ RetryStored(c)
  BY <1>0, <1>6, WorkerReadsGate, WorkerEndsGate, RetryStoredGate
<1>7. CASE UNCHANGED evidenceVars
  BY <1>7, GateUnchanged
<1> QED
  BY <1>1, <1>2, <1>3, <1>4, <1>5, <1>6, <1>7 DEF EvidenceNext

\* Rows, requests and workers are well formed: a worker of _run_queued_job has only
\* cases that are being reasoned on and no longer queued, and a position is there
\* exactly where the case is completed.
THEOREM EvidenceTypeCorrect == EvidenceSpec => []EvidenceTypeOK
<1>1. GateInv => EvidenceTypeOK
  <2> SUFFICES ASSUME GateInv PROVE EvidenceTypeOK
    OBVIOUS
  <2>1. ContentOK /\ HoldersOK
    BY DEF GateInv
  <2> QED
    BY <2>1 DEF ContentOK, HoldersOK, StoreIs, StoreOK, Status, EvidenceTypeOK
<1> QED
  BY <1>1, GateInit, GateStep, PTL DEF EvidenceSpec

\* No position is reasoned on evidence that check_missing_evidence would ask
\* about, whatever is answered, asked again, retried or continued, as long as no
\* two answers overlap: but for what a continuation, which is not asked, may lack.
THEOREM GateIsAsked == EvidenceSpec => []AskedBeforeReasoned
<1>1. GateInv => AskedBeforeReasoned
  <2> SUFFICES ASSUME GateInv, raced = {}, NEW c \in CaseName, NEW n \in ReasonedOn(c),
                      row[c].mode # "market_intelligence", NEW q \in Missing(row[c].mode, n)
               PROVE  c = "continued" /\ (\/ q[1] = "freight" \/ q[2] = "freight_cost_or_estimate"
                                          \/ /\ q[2] = "category_annual_spend_usd"
                                             /\ n.suppliers # basis["created"].suppliers)
    BY DEF AskedBeforeReasoned
  <2>i. HoldersOK /\ MadeOfStored /\ PastTheGate /\ ContinuesIt
    BY DEF GateInv
  <2>1. n = Pass(row[c]) /\ Settled(c)
    BY <2>i DEF MadeOfStored, ReasonedOn, HoldersOK, Settled
  <2>2. Excused(c, q, n.suppliers, Pass(row["created"]).suppliers)
    BY <2>1, <2>i DEF PastTheGate, GateIsMet
  <2>3. c = "continued" => basis["created"] = Pass(row["created"])
    <3>1. c = "continued" => row["continued"].status # "absent"
      BY <2>1, <2>i DEF Settled, HoldersOK
    <3>2. c = "continued" => basis["created"] # Absent
      BY <2>i, <3>1 DEF ContinuesIt, HoldersOK, CaseName
    <3> QED
      BY <2>i, <3>2 DEF MadeOfStored, ReasonedOn, CaseName
  <2> QED
    BY <2>2, <2>3 DEF Excused
<1> QED
  BY <1>1, GateInit, GateStep, PTL DEF EvidenceSpec

\* A continuation is reasoned on its parent's values, except where the user
\* answered for the field or confirmed the change that continue_case found.
THEOREM ChangesAreConfirmed == EvidenceSpec => []ChangeIsConfirmed
<1>1. GateInv => ChangeIsConfirmed
  <2> DEFINE p == row["created"]
             r == row["continued"]
             m == basis["created"]
  <2> SUFFICES ASSUME GateInv, NEW n \in ReasonedOn("continued"),
                      NEW f \in DOMAIN n.flat \cap DOMAIN m.flat, n.flat[f] # m.flat[f]
               PROVE  <<"continued", f>> \in allowed
    BY DEF ChangeIsConfirmed
  <2>i. /\ ContentOK /\ HoldersOK /\ MadeOfStored /\ ContinuesIt /\ PendingWaits
        /\ CreatedHolds /\ ChangesAccounted
    BY DEF GateInv
  <2>1. n = Pass(r) /\ r.status \in {"reasoning", "completed"}
    BY <2>i DEF MadeOfStored, ReasonedOn, HoldersOK, CaseName
  <2>2. /\ p.status = "completed" /\ r.type = p.type /\ r.stored.pending = {}
        /\ Accounted(p.stored.flat, r.stored.flat, r.stored.pending, allowed)
    BY <2>1, <2>i DEF ContinuesIt, PendingWaits, ChangesAccounted, CaseName
  <2>3. m = Pass(p)
    BY <2>2, <2>i DEF MadeOfStored, ReasonedOn, HoldersOK, CaseName
  <2>4. "created" \in CaseName /\ p.status # "absent" /\ p.status \notin Early
    BY <2>2 DEF CaseName, Early
  <2>5. p.type \in Types /\ VendorsOK(p.vendors)
    BY <2>4, <2>i, TextsAreRead
  <2>6. GivenOK(p.stored.flat) /\ GivenOK(r.stored.flat)
    BY <2>i DEF ContentOK, StoreIs, GivenOK, Values, CaseName
  <2>7. /\ Held(p.type, p.found, p.vendors, p.stored.flat)
        /\ p.stored.suppliers = WithFreight(p.vendors, Empty)
    BY <2>4, <2>i DEF CreatedHolds, HeldIn
  <2>8. m = Normalised(p.type, p.stored.flat, p.stored.freight, WithFreight(p.vendors, Empty),
                       p.found)
    BY <2>3, <2>7 DEF Pass
  <2>9. n = Normalised(p.type, r.stored.flat, r.stored.freight, r.stored.suppliers, r.found)
    BY <2>1, <2>2 DEF Pass
  <2>e. f \in DOMAIN m.flat
    OBVIOUS
  <2> HIDE DEF m, p, r
  <2>10. /\ f \in DOMAIN p.stored.flat
         /\ f \in DOMAIN r.stored.flat /\ r.stored.flat[f] = p.stored.flat[f] =>
              n.flat[f] = m.flat[f]
    BY <2>e, <2>5, <2>6, <2>7, <2>8, <2>9, PassContinues
  <2> QED
    BY <2>2, <2>10 DEF Accounted
<1> QED
  BY <1>1, GateInit, GateStep, PTL DEF EvidenceSpec
=============================================================================
