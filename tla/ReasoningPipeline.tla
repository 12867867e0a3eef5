------------------------- MODULE ReasoningPipeline -------------------------
(***************************************************************************)
(* _run_reasoning: from a case file to the position that is published.     *)
(*                                                                         *)
(* The model is called once, and then once more by each check that finds   *)
(* an issue: methodology, contradictions, claims. A second answer replaces *)
(* the position only where that check finds fewer issues in it, and comes  *)
(* without what had been attached to the first. Everything after is        *)
(* deterministic, but for the second opinion, and takes the position as    *)
(* it is by then: the order of the steps is what the answer depends on.    *)
(*                                                                         *)
(* Any call of the model may fail. When the first fails, there is no       *)
(* answer; when a later one does, the position stays as it was. Which      *)
(* attempt may write is JobLifecycle's matter: here the last write may be  *)
(* refused.                                                                *)
(***************************************************************************)
EXTENDS PositionGates

CONSTANTS
  CaseFile,   \* normalised evidence (see PositionGates)
  Draft,      \* what the model may answer, with nothing attached yet
  Opinion,    \* what the challenger may answer
  NoPosition  \* where there is none yet

CaseField ==
  {"type", "mode", "explicit", "continuation", "spend", "prov", "makers", "views",
   "warnings", "disputed", "relevant", "figure", "volume", "contract", "justified",
   "checkable", "researchable", "drivers", "notStated", "periods", "cues"}

PositionField ==
  {"level", "methods", "covers", "impact", "notCalculable", "scenarios", "named",
   "claims", "numbers", "boundary", "quoted", "capped", "noted", "market", "stance",
   "audit"}

\* A position has its fields, a level that there is, and numbers in the fields
\* that are sanitised, whatever else the model answers: a financial impact and a
\* market verification of its own among it, for the schema accepts both.
IsPosition(pos) ==
  /\ pos = [f \in PositionField |-> pos[f]]
  /\ pos.level \in Level
  /\ pos.numbers \subseteq StrategyField \X FigureShape

ASSUME PipelineAssumption ==
  /\ \A f \in CaseFile : DOMAIN f = CaseField
  /\ \A d \in Draft : IsPosition(d)

VARIABLES
  file,         \* the case
  phase,        \* what is done next
  verified,     \* the finding of the market verification, or "none"
  researched,   \* the drivers of cost that research has added to the case
  position,     \* the position so far
  flagged,      \* its negotiation fields had unsupported numbers
  certificate,  \* of trust, with the confidence that it certifies
  review,       \* how the second opinion ended
  answer,       \* the answer that a buyer reads
  journeys,     \* the journeys that have an answer of their own
  record        \* of the case: "reasoning", "published", "unavailable"

pipelineVars == <<file, phase, verified, researched, position, flagged, certificate,
                  review, answer, journeys, record>>

\* What the steps after the gathering read and leave alone.
caseVars == <<file, verified, researched>>

Journey == {"supplier_request", "commercial_signal", "category_strategy",
            "market_intelligence", "problem_solving"}

Unwritten == [mode |-> "none"]

PipelineInit ==
  /\ file \in CaseFile
  /\ phase = "gather"
  /\ verified = "none"
  /\ researched = {}
  /\ position = NoPosition
  /\ flagged = FALSE
  /\ certificate = NoPosition
  /\ review = Unwritten
  /\ answer = NoPosition
  /\ journeys = {}
  /\ record = "reasoning"

-----------------------------------------------------------------------------
\* What a search for drivers finds may have moved, and never has a share of the
\* supplier's cost.
MarketDriver == [share : {FALSE}, moved : BOOLEAN]

\* verify_market_claim: one search, where the supplier's justification names
\* something that can be checked; and research_fresh_market_intelligence, one
\* for the drivers of cost, where the case has what the gate asks for. A search
\* that fails finds nothing.
Gather ==
  /\ phase = "gather"
  /\ phase' = "reason"
  /\ verified' \in {"none"} \cup
       IF file.type = "price_increase" /\ file.checkable
       THEN {"supported", "contradicted", "inconclusive"} ELSE {}
  /\ researched' \in
       IF file.type = "price_increase" /\ file.researchable THEN SUBSET MarketDriver ELSE {{}}
  /\ UNCHANGED <<file, position, flagged, certificate, review, answer, journeys, record>>

\* The evidence with what research has added to it.
Evidence == [file EXCEPT !.drivers = @ \cup researched]

\* The calculated figure takes the place of whatever the model answers. Where
\* none could be calculated, a figure of the model's own stays.
WithImpact(draft) ==
  IF file.figure = {} THEN draft ELSE [draft EXCEPT !.impact = file.figure]

\* So does the market verification, where there was one.
WithMarket(pos) == IF verified = "none" THEN pos ELSE [pos EXCEPT !.market = verified]

\* What stands in for a position in a journey that does not reason.
Stub ==
  [level |-> "low", methods |-> {}, covers |-> {}, impact |-> {},
   notCalculable |-> FALSE, scenarios |-> FALSE, named |-> {}, claims |-> {},
   numbers |-> {}, boundary |-> FALSE, quoted |-> FALSE, capped |-> FALSE,
   noted |-> FALSE, market |-> "none", stance |-> "other", audit |-> AuditOf(file)]

\* generate_commercial_position, the calls it repeats for size, form and schema
\* included: it answers, or it raises.
Generated == IF file.mode = "market_intelligence" THEN {Stub} ELSE Draft

Reason ==
  /\ phase = "reason"
  /\ phase' = "tco"
  /\ \E d \in Generated :
       position' = [WithMarket(WithImpact(d)) EXCEPT !.audit = AuditOf(file)]
  /\ UNCHANGED <<caseVars, flagged, certificate, review, answer, journeys, record>>

ReasonFails ==
  /\ phase = "reason"
  /\ file.mode # "market_intelligence"
  /\ phase' = "done"
  /\ record' \in {"unavailable", "reasoning"}  \* the latter if superseded
  /\ UNCHANGED <<caseVars, position, flagged, certificate, review, answer, journeys>>

-----------------------------------------------------------------------------
(* The checks that ask the model again                                     *)

After == [tco |-> "kraljic", kraljic |-> "contradiction", contradiction |-> "claims"]

Issues(check, pos) ==
  CASE check = "tco" -> TcoUncovered(pos, file)
    [] check = "kraljic" -> KraljicMissing(pos)
    [] check = "contradiction" -> Contradictions(pos, file)
    [] check = "claims" -> Overstatements(pos, file)

Applies(check, pos) == check \in {"tco", "kraljic"} => check \in pos.methods

Fewer(check, new, old) == Cardinality(Issues(check, new)) < Cardinality(Issues(check, old))

\* The check of the contradictions answers, and does not raise.
Answers(check, pos) == check = "contradiction" => ~Unreadable(pos)

\* Broken: the second answer goes without the calculated figure.
AskAgainBare(check) ==
  /\ phase = check /\ Answers(check, position)
  /\ phase' = After[check]
  /\ \/ position' = position
     \/ /\ Applies(check, position) /\ Issues(check, position) # {}
        /\ \E d \in Draft :
             /\ Answers(check, d) /\ Fewer(check, d, position)
             /\ position' = d
  /\ UNCHANGED <<caseVars, flagged, certificate, review, answer, journeys, record>>

\* Broken: a second call that fails ends the case as the first one does.
AskAgainOrGiveUp(check) ==
  /\ phase = check /\ Answers(check, position)
  /\ \/ phase' = After[check] /\ UNCHANGED <<position, record>>
     \/ /\ Applies(check, position) /\ Issues(check, position) # {}
        /\ phase' = "done" /\ record' = "unavailable" /\ UNCHANGED position
  /\ UNCHANGED <<caseVars, flagged, certificate, review, answer, journeys>>

\* One call, of which the answer is kept where it has fewer issues of this
\* kind. It has no market verification of the case's and no audit. Where it is
\* not kept, or the call or the check of its answer fails, and where there was
\* no issue, the position stays.
AskAgain(check) ==
  /\ phase = check /\ Answers(check, position)
  /\ phase' = After[check]
  /\ \/ position' = position
     \/ /\ Applies(check, position) /\ Issues(check, position) # {}
        /\ \E d \in Draft :
             LET retried == WithImpact(d) IN
             /\ Answers(check, retried) /\ Fewer(check, retried, position)
             /\ position' = retried
  /\ UNCHANGED <<caseVars, flagged, certificate, review, answer, journeys, record>>

\* The first check of a contradiction, and the one under the ceiling, are called
\* outside any handler: where they raise, so does the run. What becomes of the
\* case is its worker's matter, who retries or gives up.
Raise ==
  /\ phase \in {"contradiction", "settle"}
  /\ Unreadable(position)
  /\ phase' = "done"
  /\ record' \in {"unavailable", "reasoning"}
  /\ UNCHANGED <<caseVars, position, flagged, certificate, review, answer, journeys>>

\* The claims: here the second answer does get the market verification, and
\* where it is no better, the numbers of the first are replaced.
CheckClaims ==
  /\ phase = "claims"
  /\ phase' = "settle"
  /\ IF Overstatements(position, file) = {} THEN position' = position
     ELSE \/ position' = position   \* the call failed
          \/ \E d \in Draft :
               LET retried == WithMarket(WithImpact(d)) IN
               position' = IF Fewer("claims", retried, position) THEN retried
                           ELSE Sanitised(position)
  /\ UNCHANGED <<caseVars, flagged, certificate, review, answer, journeys, record>>

-----------------------------------------------------------------------------
(* The deterministic controls                                              *)

\* Broken: a position that was retried stays without the verification.
SettledUnattached(pos) ==
  LET clean == IF UnsupportedNumbers(pos) # {} THEN Sanitised(pos) ELSE pos
  IN [AtCeiling(clean, file) EXCEPT !.audit = AuditOf(file)]

\* The check of numbers that runs whatever the others found, the market
\* verification once more, the ceiling, and the audit of the result.
Settled(pos) ==
  LET clean == IF UnsupportedNumbers(pos) # {} THEN Sanitised(pos) ELSE pos
  IN [AtCeiling(WithMarket(clean), file) EXCEPT !.audit = AuditOf(file)]

Settle ==
  /\ phase = "settle" /\ ~Unreadable(position)
  /\ phase' = "certify"
  /\ flagged' = (UnsupportedNumbers(position) # {})
  /\ position' = Settled(position)
  /\ UNCHANGED <<caseVars, certificate, review, answer, journeys, record>>

\* The certificate, and the control tower, which shows the same confidence.
\* Neither is built again.
Certify ==
  /\ phase = "certify"
  /\ phase' = "challenge"
  /\ certificate' = CertificateOf(position, file)
  /\ UNCHANGED <<caseVars, position, flagged, review, answer, journeys, record>>

Challenge ==
  /\ phase = "challenge"
  /\ phase' = "answer"
  /\ LET due == ChallengeDue(position, Evidence, flagged) IN
     \E answered \in BOOLEAN, opinion \in Opinion :
       /\ review' = Orchestrated(due, answered, opinion)
       /\ position' = Challenged(position, review')
  /\ UNCHANGED <<caseVars, flagged, certificate, answer, journeys, record>>

Compress ==
  /\ phase = "answer"
  /\ phase' = "journey"
  /\ answer' = CommercialAnswer(position, file)
  /\ UNCHANGED <<caseVars, position, flagged, certificate, review, journeys, record>>

\* The kernel has the evidence of a problem.
ProblemShaped == file.type = "problem_solving"

\* A mode that the user chose is never overridden, one that was inferred is.
ResolvedJourney ==
  IF ~file.explicit /\ ProblemShaped THEN "problem_solving" ELSE file.mode

\* Broken: each journey decides for itself whether it applies.
JourneyAppliesAlone(j) ==
  \/ j = file.mode
  \/ j = "problem_solving" /\ ProblemShaped

JourneyApplies(j) ==
  /\ j = ResolvedJourney
  /\ j = "problem_solving" => ProblemShaped

\* The answers of all journeys are cleared first. An answer may fail to be
\* built, and is left out then, but for the market's, which says so.
Travel ==
  /\ phase = "journey"
  /\ phase' = "write"
  /\ \E failed \in SUBSET (Journey \ {"market_intelligence"}) :
       journeys' = {j \in Journey \ failed : JourneyApplies(j)}
  /\ UNCHANGED <<caseVars, position, flagged, certificate, review, answer, record>>

\* write_final_result, refused where the attempt was superseded.
Publish ==
  /\ phase = "write"
  /\ phase' = "done"
  /\ record' \in {"published", "reasoning"}
  /\ UNCHANGED <<caseVars, position, flagged, certificate, review, answer, journeys>>

PipelineNext ==
  \/ Gather
  \/ Reason
  \/ ReasonFails
  \/ \E check \in DOMAIN After : AskAgain(check)
  \/ CheckClaims
  \/ Raise
  \/ Settle
  \/ Certify
  \/ Challenge
  \/ Compress
  \/ Travel
  \/ Publish

PipelineSpec == PipelineInit /\ [][PipelineNext]_pipelineVars

-----------------------------------------------------------------------------
(***************************************************************************)
(* Properties                                                              *)
(***************************************************************************)

Published == record = "published"

\* The type invariant. A case that ends without an answer has none because the
\* first call failed, or because its answer could not be checked: no later call
\* that fails takes an answer away.
PipelineTypeOK ==
  /\ phase \in {"gather", "reason", "tco", "kraljic", "contradiction", "claims", "settle",
               "certify", "challenge", "answer", "journey", "write", "done"}
  /\ verified \in {"none", "supported", "contradicted", "inconclusive"}
  /\ researched \subseteq MarketDriver
  /\ position # NoPosition => IsPosition(position)
  /\ review.mode \in {"none", "PRIMARY_ONLY", "CHALLENGER_UNAVAILABLE", "DUAL_MODEL_REVIEW"}
  /\ journeys \subseteq Journey
  /\ record \in {"reasoning", "published", "unavailable"}
  /\ record = "unavailable" => position = NoPosition \/ Unreadable(position)

\* What is published shows no more confidence than the evidence allows of that
\* very position, whichever answers of the model were kept on the way, and no
\* more than the second opinion, or its absence, leaves.
PublishedWithinCeiling ==
  Published =>
    LET shown == LevelRank[position.level] IN
    /\ shown <= LevelRank[CeilingOf(position, file)]
    /\ shown <= LevelRank[ChallengeCap(review)]

\* No figure without a source is left in a negotiation field, whichever check
\* the position came through last, the opening ask of a dimension excepted; and
\* the letter to the supplier never quotes a position that was withheld.
NumbersSanitised ==
  Published =>
    /\ \A n \in position.numbers : n[1] = "opening_ask"
    /\ position.noted => answer.letter # "quotes_opening"

\* The certificate is given before the second opinion and without the text of
\* the case, and never again. What one that stands says of the evidence, of
\* contradictions, of claims and of stakeholders holds of what is published. The
\* confidence it states may be stale, and then the second opinion, or the want
\* of one that was due, has lowered what is published to the most it leaves.
CertificateStands ==
  Published =>
    /\ certificate.verdict # "NOT_CERTIFIED" =>
         /\ Contradictions(position, file) = {}
         /\ Overstatements(position, file) = {}
         /\ InConflict(file) \cap LoadBearing[file.type] = {}
         /\ certificate.verdict = "CERTIFIED" => ~StakeholdersDisagree(file)
    /\ certificate.level # position.level =>
         /\ review.mode # "PRIMARY_ONLY"
         /\ position.level = ChallengeCap(review)
         /\ LevelRank[position.level] < LevelRank[certificate.level]

\* At most one journey answers, and never another than the one the user chose.
OneJourney ==
  Published =>
    /\ Cardinality(journeys) <= 1
    /\ file.explicit => journeys \subseteq {file.mode}

\* reconcile_answer finds nothing: where a figure can be computed, it is the one
\* that is published, in all that it says, and a figure of the model's own is
\* published only where none can, whichever answer was kept.
FiguresAreComputed ==
  Published =>
    /\ Reconciles(position, file, answer)
    /\ file.figure # {} => position.impact = file.figure

\* Nobody but the first model has seen an answer only where it shows confidence,
\* as much as its certificate says; where no figure without a source is left in
\* it, though an earlier answer of the same run may have had one; where it rests
\* on no market verification, its own or attached; and where a justification of
\* the supplier's is borne out by a driver that the case itself states.
SecondOpinionWhereWarranted ==
  Published /\ review.mode = "PRIMARY_ONLY" =>
    /\ position.level # "low"
    /\ certificate.level = position.level
    /\ position.numbers = {}
    /\ position.market = "none" /\ verified = "none"
    /\ file.type = "price_increase" /\ file.justified => Substantiated(file.drivers)

-----------------------------------------------------------------------------
\* confidence_gate.py:72: "A price_increase recommendation without a real,
\* guaranteed dollar figure behind it should never be presented as HIGH
\* confidence". What the model answers of itself is no such figure.
HighRestsOnAFigure ==
  Published /\ file.type = "price_increase" /\ position.level = "high" => file.figure # {}
=============================================================================
