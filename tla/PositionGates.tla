---------------------------- MODULE PositionGates ----------------------------
(***************************************************************************)
(* The deterministic rules that a position of the model has to pass: what  *)
(* the evidence allows before any reasoning, the checks of methodology,    *)
(* contradiction and claim strength, the sanitiser of numbers, the audit,  *)
(* the confidence ceiling, the certificate, and the second opinion.        *)
(*                                                                         *)
(* A case file is the normalised evidence, and a position the model's      *)
(* answer, each reduced to what the rules look at: a claim is a kind of    *)
(* statement that the patterns recognise, unhedged, about a supplier or    *)
(* about the case; a number is a strategy field and the shape of a figure  *)
(* in it that the case text does not have. A financial impact that may be  *)
(* missing is a set of at most one figure: its currency, its exposure on   *)
(* the scale of the thresholds ("none" where it has no amount), and the    *)
(* dimensions of cost that it has figures for.                             *)
(***************************************************************************)
EXTENDS Integers, FiniteSets

Level == {"low", "medium", "high"}
LevelRank == [low |-> 0, medium |-> 1, high |-> 2]

\* _min_level
LowerOf(a, b) == IF LevelRank[a] <= LevelRank[b] THEN a ELSE b

Holding(cap, level, reasons) == IF reasons THEN LowerOf(level, cap) ELSE level

-----------------------------------------------------------------------------
(* What the evidence allows                                                *)

LoadBearing ==
  [price_increase |-> {"current_price_or_terms", "requested_increase_percent",
                       "suppliers_stated_justification", "annual_spend_usd"},
   quote_comparison |-> {"price_per_supplier", "number_of_suppliers_being_compared"},
   problem_solving |-> {}]

InConflict(file) == {f \in DOMAIN file.prov : file.prov[f].conflicting}

MostlyFallback(file) ==
  LET present == LoadBearing[file.type] \cap DOMAIN file.prov
      fallback == {f \in present : file.prov[f].source = "deterministic_fallback"}
  IN 2 * Cardinality(fallback) > Cardinality(present)

\* Two stakeholders each favour a supplier, and none in common. Naming a
\* supplier is not favouring it.
StakeholdersDisagree(file) ==
  \E v, w \in file.views :
    /\ v.by # w.by
    /\ v.favours # {} /\ w.favours # {} /\ v.favours \cap w.favours = {}

\* compute_pre_reasoning_confidence
BeforeReasoning(file) ==
  Holding("medium", "high",
    \/ file.type = "price_increase" /\ ~file.spend
    \/ InConflict(file) \cap LoadBearing[file.type] # {}
    \/ MostlyFallback(file)
    \/ StakeholdersDisagree(file))

-----------------------------------------------------------------------------
(* The methodology that a position claims                                  *)

\* check_tco_coverage: a dimension that matters has a figure or is named.
TcoUncovered(pos, file) ==
  {d \in file.relevant : d \notin pos.covers /\ \A i \in pos.impact : d \notin i.costed}

\* check_kraljic_reasoning_coverage
KraljicMissing(pos) == {"business_impact", "supply_risk"} \ pos.covers

-----------------------------------------------------------------------------
(* Contradictions with what was computed                                   *)

Priced(file) == {s \in DOMAIN file.makers : file.makers[s].price # "none"}

QuotesCompare(file) ==
  /\ file.type = "quote_comparison" /\ file.volume
  /\ Cardinality(Priced(file)) >= 2
  /\ Cardinality({file.makers[s].price : s \in Priced(file)}) = 1

\* "Not calculable", where the figure is there.
Contradictions(pos, file) ==
  {k \in {"impact", "scenarios", "quotes"} :
     /\ pos.notCalculable
     /\ CASE k = "impact" -> pos.impact # {}
          [] k = "scenarios" -> pos.scenarios
          [] k = "quotes" -> QuotesCompare(file)}

\* The finding quotes the amount of the figure. Where the figure has none, the
\* check raises instead of answering.
Unreadable(pos) == pos.notCalculable /\ \E i \in pos.impact : i.exposure = "none"

-----------------------------------------------------------------------------
(* Claims stronger than the evidence                                       *)

\* Of whom the position claims something.
ClaimedOf(pos, kind) == {c[2] : c \in {c \in pos.claims : c[1] = kind}}

\* The checks go through the suppliers of the case.
SuppliersOf(pos, file, kind) == ClaimedOf(pos, kind) \cap DOMAIN file.makers

QualificationOverstated(pos, file) ==
  {s \in SuppliersOf(pos, file, "qualified") : file.makers[s].qualification # "complete"}

CaveatOmitted(pos, file) ==
  {s \in SuppliersOf(pos, file, "qualified") :
     file.makers[s].qualification = "complete" /\ file.makers[s].history \in {"none", "limited"}}

CertificationOverstated(pos, file) ==
  {s \in SuppliersOf(pos, file, "certified") : ~file.makers[s].certified}

PreferredOverstated(pos, file) ==
  {s \in SuppliersOf(pos, file, "preferred") : ~file.makers[s].preferred}

\* A claim that cites the supplier's own figure is not of this kind.
PerformanceOverstated(pos, file) ==
  {s \in SuppliersOf(pos, file, "proven") :
     file.makers[s].history \notin {"established", "limited"}}

VerificationOverstated(pos, file) ==
  {c \in ClaimedOf(pos, "verified") :
     \E f \in DOMAIN file.prov : file.prov[f].source \notin {"both_agree", "user_followup"}}

MarketSupportOverstated(pos) ==
  {c \in ClaimedOf(pos, "market_supported") : pos.market = "none"}

PriceOverstated(pos, file) ==
  {c \in ClaimedOf(pos, "cheapest") : Cardinality(Priced(file)) < 2}

CertaintyOverstated(pos) == ClaimedOf(pos, "guaranteed")

AchievementOverstated(pos, file) ==
  {c \in ClaimedOf(pos, "achieved") : ~file.continuation}

ContractInvented(pos, file) == {c \in ClaimedOf(pos, "contracted") : ~file.contract}

\* Less than a week from another country, and the position does not wonder.
LeadTimeAccepted(pos, file) ==
  {s \in DOMAIN file.makers : file.makers[s].rushed /\ ClaimedOf(pos, "hedged") = {}}

TradeoffOverstated(pos) == ClaimedOf(pos, "outweighs")

\* Where a market check is attached, what rests on it says so, and does not
\* take an inconclusive one for support.
MarketUnlabelled(pos) ==
  IF pos.market = "none" THEN {}
  ELSE ClaimedOf(pos, "market_context") \cup
       {c \in ClaimedOf(pos, "market_proves") : pos.market = "inconclusive"}

StrategyField == {"opening_position", "walk_away_threshold", "disconfirming_condition",
                  "opening_ask", "target_outcome", "walk_away"}

FigureShape == {"percentage", "duration", "verbal"}

\* check_unsupported_strategy_numbers: one issue of each shape.
UnsupportedNumbers(pos) == {n[2] : n \in pos.numbers}

\* check_all_claim_overstatements
Overstatements(pos, file) ==
  LET found ==
        [qualification |-> QualificationOverstated(pos, file),
         verification  |-> VerificationOverstated(pos, file),
         market        |-> MarketSupportOverstated(pos),
         price         |-> PriceOverstated(pos, file),
         certainty     |-> CertaintyOverstated(pos),
         achievement   |-> AchievementOverstated(pos, file),
         contract      |-> ContractInvented(pos, file),
         lead_time     |-> LeadTimeAccepted(pos, file),
         caveat        |-> CaveatOmitted(pos, file),
         certification |-> CertificationOverstated(pos, file),
         preferred     |-> PreferredOverstated(pos, file),
         performance   |-> PerformanceOverstated(pos, file),
         tradeoff      |-> TradeoffOverstated(pos),
         numbers       |-> UnsupportedNumbers(pos),
         attribution   |-> MarketUnlabelled(pos)]
  IN UNION {{check} \X found[check] : check \in DOMAIN found}

\* Broken: the opening position is detected and not replaced.
SanitisedButOpening(pos) ==
  [pos EXCEPT !.numbers = {n \in @ : n[1] \in {"opening_ask", "opening_position"}}]

\* sanitize_unsupported_strategy_numbers: every field that is detected has a
\* replacement, but for the opening ask of a negotiation dimension.
Sanitised(pos) ==
  [pos EXCEPT !.numbers = {n \in @ : n[1] = "opening_ask"},
              !.noted = @ \/ \E n \in pos.numbers : n[1] = "opening_position"]

-----------------------------------------------------------------------------
(* Audit, coverage, trust                                                  *)

\* An alternative matters where suppliers are compared, whatever is advised.
Unqualified(file) ==
  {s \in DOMAIN file.makers :
     /\ Cardinality(DOMAIN file.makers) > 1
     /\ ~file.makers[s].incumbent /\ file.makers[s].qualification # "complete"}

Uncertainties(file) ==
  ({"conflict"} \X InConflict(file)) \cup ({"qualification"} \X Unqualified(file))
    \cup ({"view"} \X {v.by : v \in {v \in file.views : v.concern}})

\* build_decision_audit, of which the position decides nothing here.
AuditOf(file) ==
  [integrity |-> IF InConflict(file) # {} \/ file.disputed THEN "CONTRADICTED"
                 ELSE IF Uncertainties(file) # {} \/ file.warnings THEN "UNKNOWN"
                 ELSE "PROVEN",
   contradictions |-> file.disputed,
   uncertainties |-> Uncertainties(file)]

\* The growth figures that the case has both periods for, as calculated: of the
\* category, of the supplier that asks, and of every supplier that is named.
CoverageOf(file) ==
  LET has(e, metrics) == {e} \X metrics \subseteq file.periods
      priced == {e \in {p[1] : p \in file.periods} : has(e, {"spend", "volume"})}
      shared == has("supplier", {"spend"}) /\ has("category", {"spend"})
  IN IF file.type # "price_increase" THEN {}
     ELSE file.periods \cup (priced \X {"price"})
            \cup (IF shared THEN {<<"supplier", "share">>} ELSE {})

\* The ledger of build_trust_engine, of which the unknown entries count. The
\* entry of a supplier names no field, and so has no value.
UnknownEntries(file) ==
  Cardinality(InConflict(file) \cup file.notStated
                \cup (DOMAIN file.makers \cap DOMAIN file.prov))
    + Cardinality(Uncertainties(file))

\* Broken: what overstates the evidence is worth a warning.
CertificateWarns(pos, file) ==
  LET failed == \/ InConflict(file) \cap LoadBearing[file.type] # {}
                \/ Contradictions(pos, file) # {} \/ ~pos.capped
  IN [verdict |-> IF failed THEN "NOT_CERTIFIED" ELSE "CONDITIONAL", level |-> pos.level]

\* Suppliers that a price or a freight is stated of, with no source.
Unattributed(file) ==
  {s \in DOMAIN file.makers : file.makers[s].quoted} \ DOMAIN file.prov

\* build_trust_certification runs the claim checks without the case text: what
\* was taken from it, figures, contracts or past savings, fails there. Two of
\* its checks always pass and are left out: an audit always has evidence, and the
\* sensitivity and the alternatives are there, which is enough of the controls.
CertificateOf(pos, file) ==
  LET blind == [file EXCEPT !.contract = FALSE, !.continuation = FALSE]
      failed == \/ InConflict(file) \cap LoadBearing[file.type] # {}
                \/ Contradictions(pos, file) # {}
                \/ Overstatements(pos, blind) # {} \/ pos.quoted
                \/ ~pos.capped
      warned == \/ LoadBearing[file.type] \ DOMAIN file.prov # {}
                \/ file.warnings \/ Unattributed(file) # {} \/ StakeholdersDisagree(file)
  IN [verdict |-> IF failed THEN "NOT_CERTIFIED"
                  ELSE IF warned THEN "CONDITIONAL" ELSE "CERTIFIED",
      level   |-> pos.level]

-----------------------------------------------------------------------------
(* The confidence ceiling                                                  *)

\* compute_confidence_ceiling
CeilingOf(pos, file) ==
  LET relied == \E s \in pos.named \cap DOMAIN file.makers : ~file.makers[s].incumbent
                                     /\ file.makers[s].qualification # "complete"
      doubts == \/ file.type = "price_increase" /\ pos.impact = {}
                \/ InConflict(file) \cap LoadBearing[file.type] # {}
                \/ relied
                \/ MostlyFallback(file)
  IN Holding("low", Holding("medium", BeforeReasoning(file), doubts),
             Contradictions(pos, file) # {})

\* apply_confidence_ceiling: the level becomes the ceiling, whatever it was.
AtCeiling(pos, file) == [pos EXCEPT !.level = CeilingOf(pos, file), !.capped = TRUE]

-----------------------------------------------------------------------------
(* The second opinion                                                      *)

\* A driver of cost that both its share of the cost and its movement are stated
\* of: the least that a weighted effect is computed from.
Substantiated(drivers) == \E d \in drivers : d.share /\ d.moved

\* The thresholds are in USD, and no rate of exchange is assumed.
ExposureDue(impact, file) ==
  \/ impact.exposure # "none" /\ impact.currency # "USD"
  \/ impact.exposure = "large"
  \/ impact.exposure = "material" /\ file.type = "price_increase"

\* challenge_trigger
ChallengeDue(pos, file, numbersFound) ==
  \/ file.warnings
  \/ Cardinality(DOMAIN file.makers) >= 2
  \/ Cardinality(file.views) >= 2
  \/ pos.level = "low"
  \/ numbersFound
  \/ UnknownEntries(file) >= 2
  \/ file.type = "price_increase" /\ file.justified /\ ~Substantiated(file.drivers)
  \/ pos.market # "none"
  \/ \E i \in pos.impact : ExposureDue(i, file)
  \/ pos.boundary

\* build_model_orchestration, of the trigger, the call and its answer.
Orchestrated(due, answered, opinion) ==
  CASE ~due -> [mode |-> "PRIMARY_ONLY"]
    [] due /\ ~answered -> [mode |-> "CHALLENGER_UNAVAILABLE"]
    [] OTHER -> [mode |-> "DUAL_MODEL_REVIEW", opinion |-> opinion]

\* The most that the second opinion leaves.
ChallengeCap(review) ==
  CASE review.mode = "PRIMARY_ONLY" -> "high"
    [] review.mode = "CHALLENGER_UNAVAILABLE" -> "medium"
    [] OTHER ->
         LET o == review.opinion IN
         IF o.level = "critical" \/ o.verdict = "requires_human_review"
              \/ o.numeric # {} \/ o.marketMisused
         THEN "low"
         ELSE IF o.level = "material" \/ o.unsupported THEN "medium" ELSE "high"

\* Broken: the cap is taken for the level.
ChallengedToCap(pos, review) == [pos EXCEPT !.level = ChallengeCap(review)]

\* apply_challenger_outcome. What it quotes is found in two of the fields.
Challenged(pos, review) ==
  LET capped == [pos EXCEPT !.level = LowerOf(@, ChallengeCap(review))]
      quoted == IF review.mode = "DUAL_MODEL_REVIEW" THEN review.opinion.numeric ELSE {}
      located == quoted \cap {"opening_position", "walk_away_threshold"}
  IN IF quoted = {} THEN capped
     ELSE [Sanitised(capped) EXCEPT
             !.numbers = {n \in @ : n[1] \notin located},
             !.noted = @ \/ "opening_position" \in located]

-----------------------------------------------------------------------------
(* The answer that a buyer reads                                           *)

\* _classify_situation_type, over the cues that the texts give.
SituationOf(pos, file) ==
  IF pos.stance \in {"accept", "investigate"} THEN pos.stance
  ELSE IF "index" \in file.cues THEN "contract_compliance"
  ELSE IF "notice" \in file.cues THEN "timing"
  ELSE IF "currency" \in file.cues THEN "fx"
  ELSE IF "alternative" \in file.cues /\ \E s \in DOMAIN file.makers : ~file.makers[s].incumbent
  THEN "competition"
  ELSE IF "critical" \in file.cues THEN "strategic_continuity"
  ELSE pos.stance

\* Only the general letter quotes the opening position, and never the note
\* that none could be established.
LetterOf(pos, file) ==
  IF file.type # "price_increase" THEN "none"
  ELSE IF SituationOf(pos, file) \in {"challenge", "other"} /\ ~pos.noted
  THEN "quotes_opening" ELSE "asks"

\* build_commercial_answer
CommercialAnswer(pos, file) ==
  [letter   |-> LetterOf(pos, file),
   withheld |-> UnsupportedNumbers(pos) # {},
   surfaced |-> CoverageOf(file)]

AmountsOf(impact) == {<<i.currency, i.exposure>> : i \in impact}

\* reconcile_answer: a figure that can be computed is the one in the answer, of
\* the same currency and amount; what was calculated has reached the answer; a
\* contradiction shows in the audit. Where nothing can be computed, a figure in
\* the answer is not looked at.
Reconciles(pos, file, answer) ==
  /\ file.figure # {} => AmountsOf(pos.impact) = AmountsOf(file.figure)
  /\ CoverageOf(file) \subseteq answer.surfaced
  /\ pos.audit.contradictions => pos.audit.integrity = "CONTRADICTED"
=============================================================================
