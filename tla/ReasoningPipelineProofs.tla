----------------------- MODULE ReasoningPipelineProofs -----------------------
(***************************************************************************)
(* Proofs about ReasoningPipeline, for all case files and all answers of   *)
(* the models.                                                             *)
(*                                                                         *)
(* Each control establishes something about the position, and what comes   *)
(* after may only lower its confidence and take numbers out of it: the     *)
(* ceiling, the contradictions and the overstatements do not depend on the *)
(* former, and the latter can only become fewer. The inductive invariant   *)
(* says, for each phase, what has been established by then.                *)
(***************************************************************************)
EXTENDS ReasoningPipeline, FiniteSetTheorems, TLAPS

-----------------------------------------------------------------------------
(* Levels                                                                  *)

\* The lower of two levels is one of them, and no higher than either.
LEMMA LowerIs ==
  ASSUME NEW a \in Level, NEW b \in Level
  PROVE  /\ LowerOf(a, b) \in Level
         /\ LowerOf(a, b) # a => LowerOf(a, b) = b /\ LevelRank[b] < LevelRank[a]
         /\ LevelRank[LowerOf(a, b)] <= LevelRank[a]
         /\ LevelRank[LowerOf(a, b)] <= LevelRank[b]
         /\ b = "high" => LowerOf(a, b) = a
BY DEF LowerOf, Level, LevelRank

\* The ceiling is a level, and so is the most that a second opinion leaves.
LEMMA CeilingIs ==
  ASSUME NEW pos, NEW f
  PROVE  CeilingOf(pos, f) \in Level
<1>1. ASSUME NEW c \in Level, NEW l \in Level, NEW r
      PROVE  Holding(c, l, r) \in Level
  <2>1. Holding(c, l, r) \in {LowerOf(l, c), l}
    BY Zenon DEF Holding
  <2> QED
    BY <2>1, LowerIs
<1>2. BeforeReasoning(f) \in Level
  <2> DEFINE why == \/ f.type = "price_increase" /\ ~f.spend
                    \/ InConflict(f) \cap LoadBearing[f.type] # {}
                    \/ MostlyFallback(f)
                    \/ StakeholdersDisagree(f)
  <2>1. BeforeReasoning(f) = Holding("medium", "high", why)
    BY Zenon DEF BeforeReasoning
  <2> HIDE DEF why
  <2> QED
    BY <1>1, <2>1 DEF Level
<1>3. PICK doubts :
        CeilingOf(pos, f) = Holding("low", Holding("medium", BeforeReasoning(f), doubts),
                                    Contradictions(pos, f) # {})
  BY Zenon DEF CeilingOf
<1>4. Holding("medium", BeforeReasoning(f), doubts) \in Level
  BY <1>1, <1>2 DEF Level
<1> DEFINE contradicted == Contradictions(pos, f) # {}
<1>5. CeilingOf(pos, f) = Holding("low", Holding("medium", BeforeReasoning(f), doubts),
                                  contradicted)
  BY <1>3
<1> HIDE DEF contradicted
<1> QED
  BY <1>1, <1>4, <1>5 DEF Level

LEMMA CapIs ==
  ASSUME NEW r
  PROVE  /\ ChallengeCap(r) \in Level
         /\ r.mode = "PRIMARY_ONLY" => ChallengeCap(r) = "high"
<1>1. CASE r.mode = "PRIMARY_ONLY"
  BY <1>1, Zenon DEF ChallengeCap, Level
<1>2. CASE r.mode = "CHALLENGER_UNAVAILABLE"
  <2>1. r.mode # "PRIMARY_ONLY"
    BY <1>2
  <2> QED
    BY <1>2, <2>1, Zenon DEF ChallengeCap, Level
<1>3. CASE r.mode \notin {"PRIMARY_ONLY", "CHALLENGER_UNAVAILABLE"}
  <2>1. r.mode # "PRIMARY_ONLY" /\ r.mode # "CHALLENGER_UNAVAILABLE"
    BY <1>3
  <2>2. ChallengeCap(r) \in {"low", "medium", "high"}
    BY <2>1, Zenon DEF ChallengeCap
  <2> QED
    BY <2>1, <2>2 DEF Level
<1> QED
  BY <1>1, <1>2, <1>3

-----------------------------------------------------------------------------
(* Later positions                                                         *)

\* What a position may still become once it is settled: less confident, with
\* fewer numbers, and with a note of it.
Weaker(new, old) ==
  /\ \A f \in PositionField \ {"level", "numbers", "noted"} : new[f] = old[f]
  /\ new.numbers \subseteq old.numbers

\* Neither the ceiling nor the contradictions look at what is still to change.
LEMMA WeakerKeeps ==
  ASSUME NEW new, NEW old, NEW f, Weaker(new, old)
  PROVE  /\ CeilingOf(new, f) = CeilingOf(old, f)
         /\ Contradictions(new, f) = Contradictions(old, f)
<1>1. /\ new.impact = old.impact /\ new.notCalculable = old.notCalculable
      /\ new.scenarios = old.scenarios /\ new.named = old.named
  BY DEF Weaker, PositionField
<1>2. Contradictions(new, f) = Contradictions(old, f)
  BY <1>1, Zenon DEF Contradictions
<1>3. CeilingOf(new, f) = CeilingOf(old, f)
  BY <1>1, <1>2, Zenon DEF CeilingOf
<1> QED
  BY <1>2, <1>3

-----------------------------------------------------------------------------
(* Overstatements                                                          *)

NoneOverstated(pos, f) ==
  /\ QualificationOverstated(pos, f) = {}
  /\ VerificationOverstated(pos, f) = {}
  /\ MarketSupportOverstated(pos) = {}
  /\ PriceOverstated(pos, f) = {}
  /\ CertaintyOverstated(pos) = {}
  /\ AchievementOverstated(pos, f) = {}
  /\ ContractInvented(pos, f) = {}
  /\ LeadTimeAccepted(pos, f) = {}
  /\ CaveatOmitted(pos, f) = {}
  /\ CertificationOverstated(pos, f) = {}
  /\ PreferredOverstated(pos, f) = {}
  /\ PerformanceOverstated(pos, f) = {}
  /\ TradeoffOverstated(pos) = {}
  /\ UnsupportedNumbers(pos) = {}
  /\ MarketUnlabelled(pos) = {}

\* There is no overstatement where no check finds one.
LEMMA OverstatementsAre ==
  ASSUME NEW pos, NEW f
  PROVE  Overstatements(pos, f) = {} <=> NoneOverstated(pos, f)
<1> DEFINE found ==
           [qualification |-> QualificationOverstated(pos, f),
            verification |-> VerificationOverstated(pos, f),
            market |-> MarketSupportOverstated(pos),
            price |-> PriceOverstated(pos, f),
            certainty |-> CertaintyOverstated(pos),
            achievement |-> AchievementOverstated(pos, f),
            contract |-> ContractInvented(pos, f),
            lead_time |-> LeadTimeAccepted(pos, f),
            caveat |-> CaveatOmitted(pos, f),
            certification |-> CertificationOverstated(pos, f),
            preferred |-> PreferredOverstated(pos, f),
            performance |-> PerformanceOverstated(pos, f),
            tradeoff |-> TradeoffOverstated(pos),
            numbers |-> UnsupportedNumbers(pos),
            attribution |-> MarketUnlabelled(pos)]
<1>1. Overstatements(pos, f) = UNION {{check} \X found[check] : check \in DOMAIN found}
  BY Zenon DEF Overstatements
<1>2. NoneOverstated(pos, f) <=> \A check \in DOMAIN found : found[check] = {}
  BY DEF NoneOverstated
<1> HIDE DEF found
<1>3. ASSUME NEW check \in DOMAIN found, NEW x \in found[check]
      PROVE  Overstatements(pos, f) # {}
  <2>1. <<check, x>> \in {check} \X found[check]
    OBVIOUS
  <2> QED
    BY <1>1, <2>1
<1>4. ASSUME NEW e \in Overstatements(pos, f)
      PROVE  \E check \in DOMAIN found : found[check] # {}
  <2>1. PICK check \in DOMAIN found : e \in {check} \X found[check]
    BY <1>1
  <2> QED
    BY <2>1
<1> QED
  BY <1>2, <1>3, <1>4

\* A weaker position overstates no more.
LEMMA WeakerClaims ==
  ASSUME NEW new, NEW old, NEW f, Weaker(new, old), Overstatements(old, f) = {}
  PROVE  Overstatements(new, f) = {}
<1>1. NoneOverstated(old, f)
  BY OverstatementsAre
<1>2. new.claims = old.claims /\ new.market = old.market /\ new.numbers \subseteq old.numbers
  BY DEF Weaker, PositionField
<1>3. \A kind : /\ ClaimedOf(new, kind) = ClaimedOf(old, kind)
                /\ SuppliersOf(new, f, kind) = SuppliersOf(old, f, kind)
  BY <1>2, Zenon DEF ClaimedOf, SuppliersOf
<1>4. UnsupportedNumbers(new) \subseteq UnsupportedNumbers(old)
  BY <1>2 DEF UnsupportedNumbers
<1>5. /\ QualificationOverstated(new, f) = QualificationOverstated(old, f)
      /\ CaveatOmitted(new, f) = CaveatOmitted(old, f)
      /\ CertificationOverstated(new, f) = CertificationOverstated(old, f)
      /\ PreferredOverstated(new, f) = PreferredOverstated(old, f)
      /\ PerformanceOverstated(new, f) = PerformanceOverstated(old, f)
  BY <1>3, Zenon DEF QualificationOverstated, CaveatOmitted, CertificationOverstated,
     PreferredOverstated, PerformanceOverstated
<1>6. /\ VerificationOverstated(new, f) = VerificationOverstated(old, f)
      /\ MarketSupportOverstated(new) = MarketSupportOverstated(old)
      /\ PriceOverstated(new, f) = PriceOverstated(old, f)
      /\ CertaintyOverstated(new) = CertaintyOverstated(old)
      /\ TradeoffOverstated(new) = TradeoffOverstated(old)
  <2>1. VerificationOverstated(new, f) = VerificationOverstated(old, f)
    BY <1>2, <1>3 DEF VerificationOverstated
  <2>2. MarketSupportOverstated(new) = MarketSupportOverstated(old)
    BY <1>2, <1>3 DEF MarketSupportOverstated
  <2>3. PriceOverstated(new, f) = PriceOverstated(old, f)
    BY <1>2, <1>3 DEF PriceOverstated
  <2>4. CertaintyOverstated(new) = CertaintyOverstated(old)
    BY <1>2, <1>3 DEF CertaintyOverstated
  <2>5. TradeoffOverstated(new) = TradeoffOverstated(old)
    BY <1>2, <1>3 DEF TradeoffOverstated
  <2> QED
    BY <2>1, <2>2, <2>3, <2>4, <2>5
<1>7. /\ AchievementOverstated(new, f) = AchievementOverstated(old, f)
      /\ ContractInvented(new, f) = ContractInvented(old, f)
      /\ LeadTimeAccepted(new, f) = LeadTimeAccepted(old, f)
      /\ MarketUnlabelled(new) = MarketUnlabelled(old)
  <2>1. AchievementOverstated(new, f) = AchievementOverstated(old, f)
    BY <1>2, <1>3 DEF AchievementOverstated
  <2>2. ContractInvented(new, f) = ContractInvented(old, f)
    BY <1>2, <1>3 DEF ContractInvented
  <2>3. LeadTimeAccepted(new, f) = LeadTimeAccepted(old, f)
    BY <1>2, <1>3 DEF LeadTimeAccepted
  <2>4. MarketUnlabelled(new) = MarketUnlabelled(old)
    BY <1>2, <1>3 DEF MarketUnlabelled
  <2> QED
    BY <2>1, <2>2, <2>3, <2>4
<1>8. NoneOverstated(new, f)
  BY <1>1, <1>4, <1>5, <1>6, <1>7 DEF NoneOverstated
<1> QED
  BY <1>8, OverstatementsAre

\* The certificate is given without the text of the case: what it does not find
\* there is not there with the text either.
LEMMA BlindClaims ==
  ASSUME NEW pos, NEW f \in CaseFile,
         Overstatements(pos, [f EXCEPT !.contract = FALSE, !.continuation = FALSE]) = {}
  PROVE  Overstatements(pos, f) = {}
<1> DEFINE blind == [f EXCEPT !.contract = FALSE, !.continuation = FALSE]
<1>1. blind.makers = f.makers /\ blind.prov = f.prov
  BY PipelineAssumption DEF PipelineAssumption, CaseField
<1>2. blind.contract = FALSE /\ blind.continuation = FALSE
  BY PipelineAssumption DEF PipelineAssumption, CaseField
<1>3. NoneOverstated(pos, blind)
  BY OverstatementsAre
<1> HIDE DEF blind
<1>4. \A kind : SuppliersOf(pos, blind, kind) = SuppliersOf(pos, f, kind)
  BY <1>1, Zenon DEF SuppliersOf
<1>5. Priced(blind) = Priced(f)
  BY <1>1, Zenon DEF Priced
<1>6. /\ QualificationOverstated(pos, blind) = QualificationOverstated(pos, f)
      /\ CaveatOmitted(pos, blind) = CaveatOmitted(pos, f)
      /\ CertificationOverstated(pos, blind) = CertificationOverstated(pos, f)
      /\ PreferredOverstated(pos, blind) = PreferredOverstated(pos, f)
      /\ PerformanceOverstated(pos, blind) = PerformanceOverstated(pos, f)
  <2>1. QualificationOverstated(pos, blind) = QualificationOverstated(pos, f)
    BY <1>1, <1>4 DEF QualificationOverstated
  <2>2. CaveatOmitted(pos, blind) = CaveatOmitted(pos, f)
    BY <1>1, <1>4 DEF CaveatOmitted
  <2>3. CertificationOverstated(pos, blind) = CertificationOverstated(pos, f)
    BY <1>1, <1>4 DEF CertificationOverstated
  <2>4. PreferredOverstated(pos, blind) = PreferredOverstated(pos, f)
    BY <1>1, <1>4 DEF PreferredOverstated
  <2>5. PerformanceOverstated(pos, blind) = PerformanceOverstated(pos, f)
    BY <1>1, <1>4 DEF PerformanceOverstated
  <2> QED
    BY <2>1, <2>2, <2>3, <2>4, <2>5
<1>7. /\ VerificationOverstated(pos, blind) = VerificationOverstated(pos, f)
      /\ PriceOverstated(pos, blind) = PriceOverstated(pos, f)
      /\ LeadTimeAccepted(pos, blind) = LeadTimeAccepted(pos, f)
  BY <1>1, <1>5, Zenon DEF VerificationOverstated, PriceOverstated, LeadTimeAccepted
<1>8. /\ AchievementOverstated(pos, f) \subseteq AchievementOverstated(pos, blind)
      /\ ContractInvented(pos, f) \subseteq ContractInvented(pos, blind)
  BY <1>2 DEF AchievementOverstated, ContractInvented
<1>9. NoneOverstated(pos, f)
  BY <1>3, <1>6, <1>7, <1>8 DEF NoneOverstated
<1> QED
  BY <1>9, OverstatementsAre

-----------------------------------------------------------------------------
(* Positions                                                               *)

\* The position with the audit of the case.
Audited(pos) == [pos EXCEPT !.audit = AuditOf(file)]

\* What is attached leaves a position whole, and is there where it was computed.
LEMMA WithImpactFits ==
  ASSUME NEW pos, IsPosition(pos)
  PROVE  /\ IsPosition(WithImpact(pos))
         /\ file.figure # {} => WithImpact(pos).impact = file.figure
<1>1. CASE file.figure = {}
  BY <1>1 DEF WithImpact
<1>2. CASE file.figure # {}
  <2> DEFINE x == file.figure
  <2>1. WithImpact(pos) = [pos EXCEPT !.impact = x]
    BY <1>2 DEF WithImpact
  <2> HIDE DEF x
  <2>2. IsPosition(WithImpact(pos)) /\ WithImpact(pos).impact = x
    BY <2>1 DEF IsPosition, PositionField
  <2> QED
    BY <2>2 DEF x
<1> QED
  BY <1>1, <1>2

LEMMA WithMarketFits ==
  ASSUME NEW pos, IsPosition(pos)
  PROVE  /\ IsPosition(WithMarket(pos))
         /\ verified # "none" => WithMarket(pos).market = verified
         /\ WithMarket(pos).impact = pos.impact
         /\ WithMarket(pos).numbers = pos.numbers
BY DEF WithMarket, IsPosition, PositionField

LEMMA AuditedFits ==
  ASSUME NEW pos, IsPosition(pos)
  PROVE  /\ IsPosition(Audited(pos))
         /\ Audited(pos).audit = AuditOf(file)
         /\ \A f \in PositionField \ {"audit"} : Audited(pos)[f] = pos[f]
<1> DEFINE x == AuditOf(file)
<1>1. Audited(pos) = [pos EXCEPT !.audit = x]
  BY DEF Audited
<1> HIDE DEF x
<1>2. /\ IsPosition(Audited(pos)) /\ Audited(pos).audit = x
      /\ \A f \in PositionField \ {"audit"} : Audited(pos)[f] = pos[f]
  BY <1>1 DEF IsPosition, PositionField
<1> QED
  BY <1>2 DEF x

\* The sanitiser leaves opening asks alone, takes the rest, and makes a note.
LEMMA SanitisedFits ==
  ASSUME NEW pos, IsPosition(pos)
  PROVE  /\ IsPosition(Sanitised(pos))
         /\ Weaker(Sanitised(pos), pos)
         /\ Sanitised(pos).level = pos.level
         /\ \A n \in Sanitised(pos).numbers : n[1] = "opening_ask"
<1> DEFINE left == {n \in pos.numbers : n[1] = "opening_ask"}
           note == pos.noted \/ \E n \in pos.numbers : n[1] = "opening_position"
<1>1. Sanitised(pos) = [pos EXCEPT !.numbers = left, !.noted = note]
  BY DEF Sanitised
<1>2. left \subseteq pos.numbers /\ \A n \in left : n[1] = "opening_ask"
  OBVIOUS
<1> HIDE DEF left, note
<1> QED
  BY <1>1, <1>2 DEF IsPosition, PositionField, Weaker

\* At the ceiling.
LEMMA CeilingFits ==
  ASSUME NEW pos, IsPosition(pos), NEW f
  PROVE  /\ IsPosition(AtCeiling(pos, f))
         /\ AtCeiling(pos, f).level = CeilingOf(AtCeiling(pos, f), f)
         /\ \A x \in PositionField \ {"level", "capped"} : AtCeiling(pos, f)[x] = pos[x]
<1> DEFINE c == CeilingOf(pos, f)
           new == AtCeiling(pos, f)
<1>1. c \in Level
  BY CeilingIs
<1>2. new = [pos EXCEPT !.level = c, !.capped = TRUE]
  BY DEF AtCeiling
<1>3. /\ IsPosition(new) /\ new.level = c
      /\ \A x \in PositionField \ {"level", "capped"} : new[x] = pos[x]
  <2> HIDE DEF c, new
  <2> QED
    BY <1>1, <1>2 DEF IsPosition, PositionField
<1>4. CeilingOf(new, f) = c
  <2>1. /\ new.impact = pos.impact /\ new.notCalculable = pos.notCalculable
        /\ new.scenarios = pos.scenarios /\ new.named = pos.named
    BY <1>3 DEF PositionField
  <2> HIDE DEF new
  <2>2. Contradictions(new, f) = Contradictions(pos, f)
    BY <2>1, Zenon DEF Contradictions
  <2> QED
    BY <2>1, <2>2, Zenon DEF CeilingOf
<1> QED
  BY <1>3, <1>4

\* The second opinion only weakens a position, and leaves no more confidence
\* than its cap.
LEMMA ChallengedFits ==
  ASSUME NEW pos, IsPosition(pos), NEW r
  PROVE  LET new == Challenged(pos, r) IN
         /\ IsPosition(new)
         /\ Weaker(new, pos)
         /\ LevelRank[new.level] <= LevelRank[pos.level]
         /\ LevelRank[new.level] <= LevelRank[ChallengeCap(r)]
         /\ r.mode = "PRIMARY_ONLY" => new.level = pos.level
         /\ new.level # pos.level =>
              new.level = ChallengeCap(r) /\ LevelRank[new.level] < LevelRank[pos.level]
<1> DEFINE l == LowerOf(pos.level, ChallengeCap(r))
           capped == [pos EXCEPT !.level = l]
           quoted == IF r.mode = "DUAL_MODEL_REVIEW" THEN r.opinion.numeric ELSE {}
           located == quoted \cap {"opening_position", "walk_away_threshold"}
           clean == Sanitised(capped)
           left == {n \in clean.numbers : n[1] \notin located}
           note == clean.noted \/ "opening_position" \in located
<1>1. /\ l \in Level
      /\ LevelRank[l] <= LevelRank[pos.level]
      /\ LevelRank[l] <= LevelRank[ChallengeCap(r)]
      /\ r.mode = "PRIMARY_ONLY" => l = pos.level
      /\ l # pos.level => l = ChallengeCap(r) /\ LevelRank[l] < LevelRank[pos.level]
  BY CapIs, LowerIs DEF IsPosition
<1>2. Challenged(pos, r) = IF quoted = {} THEN capped
                           ELSE [clean EXCEPT !.numbers = left, !.noted = note]
  BY DEF Challenged
<1>3. /\ IsPosition(capped) /\ capped.level = l /\ Weaker(capped, pos)
  <2> HIDE DEF l
  <2> QED
    BY <1>1 DEF IsPosition, PositionField, Weaker
<1>4. /\ IsPosition(clean) /\ clean.level = l /\ Weaker(clean, pos)
  <2>1. IsPosition(clean) /\ Weaker(clean, capped) /\ clean.level = capped.level
    BY <1>3, SanitisedFits
  <2> HIDE DEF clean, capped
  <2> QED
    BY <1>3, <2>1 DEF Weaker
<1>5. left \subseteq clean.numbers
  OBVIOUS
<1> HIDE DEF l, quoted, located, left, note, clean
<1>6. LET new == [clean EXCEPT !.numbers = left, !.noted = note] IN
      IsPosition(new) /\ new.level = l /\ Weaker(new, pos)
  BY <1>4, <1>5 DEF IsPosition, PositionField, Weaker
<1> QED
  BY <1>1, <1>2, <1>3, <1>6

-----------------------------------------------------------------------------
(* The inductive invariant                                                 *)

\* From a phase on.
FromWrite == phase = "write" \/ Published
FromJourney == phase = "journey" \/ FromWrite
FromAnswer == phase = "answer" \/ FromJourney
FromChallenge == phase = "challenge" \/ FromAnswer
FromCertify == phase = "certify" \/ FromChallenge
FromReason ==
  phase \in {"tco", "kraljic", "contradiction", "claims", "settle"} \/ FromCertify

Drafted == IsPosition(position) /\ (file.figure # {} => position.impact = file.figure)

\* The controls have run.
Controlled ==
  /\ \A n \in position.numbers : n[1] = "opening_ask"
  /\ ~flagged => position.numbers = {}
  /\ verified # "none" => position.market = verified
  /\ position.audit = AuditOf(file)
  /\ LevelRank[position.level] <= LevelRank[CeilingOf(position, file)]

CertificateIsTrue ==
  certificate.verdict # "NOT_CERTIFIED" =>
    /\ Contradictions(position, file) = {}
    /\ Overstatements(position, file) = {}
    /\ InConflict(file) \cap LoadBearing[file.type] = {}
    /\ certificate.verdict = "CERTIFIED" => ~StakeholdersDisagree(file)

\* The second opinion has been heard, or was not due. Where it has lowered the
\* confidence, it is the second opinion that leaves what there is.
Reviewed ==
  /\ LevelRank[position.level] <= LevelRank[ChallengeCap(review)]
  /\ certificate.level # position.level =>
       /\ review.mode # "PRIMARY_ONLY"
       /\ position.level = ChallengeCap(review)
       /\ LevelRank[position.level] < LevelRank[certificate.level]
  /\ review.mode = "PRIMARY_ONLY" =>
       /\ position.level # "low"
       /\ position.numbers = {}
       /\ position.market = "none" /\ verified = "none"
       /\ file.type = "price_increase" /\ file.justified => Substantiated(file.drivers)

PipelineInv ==
  /\ PipelineTypeOK
  /\ file \in CaseFile
  /\ phase # "done" => record = "reasoning"
  /\ phase \in {"gather", "reason"} => position = NoPosition
  /\ FromReason => Drafted
  /\ FromCertify => Controlled
  /\ FromChallenge => CertificateIsTrue
  /\ phase = "challenge" => certificate.level = position.level
  /\ FromAnswer => Reviewed
  /\ FromJourney => answer = CommercialAnswer(position, file)
  /\ FromWrite => journeys \subseteq {ResolvedJourney}

\* It starts with nothing established.
LEMMA PipelineStarts == PipelineInit => PipelineInv
<1> SUFFICES ASSUME PipelineInit PROVE PipelineInv
  OBVIOUS
<1>1. /\ file \in CaseFile /\ phase = "gather" /\ record = "reasoning" /\ verified = "none"
      /\ position = NoPosition /\ review.mode = "none" /\ journeys = {} /\ researched = {}
  BY DEF PipelineInit, Unwritten
<1>2. ~Published
  BY <1>1 DEF Published
<1>3. PipelineTypeOK
  BY <1>1 DEF PipelineTypeOK
<1>4. ~FromReason /\ ~FromCertify /\ ~FromChallenge /\ ~FromAnswer /\ ~FromJourney
      /\ ~FromWrite
  BY <1>1, <1>2 DEF FromReason, FromCertify, FromChallenge, FromAnswer, FromJourney, FromWrite
<1> QED
  BY <1>1, <1>2, <1>3, <1>4 DEF PipelineInv

\* While the case is not published, a phase says what has been established.
LEMMA PhaseSays ==
  ASSUME ~Published
  PROVE  /\ FromWrite <=> phase = "write"
         /\ FromJourney <=> phase \in {"journey", "write"}
         /\ FromAnswer <=> phase \in {"answer", "journey", "write"}
         /\ FromChallenge <=> phase \in {"challenge", "answer", "journey", "write"}
         /\ FromCertify <=>
              phase \in {"certify", "challenge", "answer", "journey", "write"}
         /\ FromReason <=>
              phase \in {"tco", "kraljic", "contradiction", "claims", "settle", "certify",
                        "challenge", "answer", "journey", "write"}
BY DEF FromReason, FromCertify, FromChallenge, FromAnswer, FromJourney, FromWrite

LEMMA PhaseSaysNext ==
  ASSUME ~Published'
  PROVE  /\ FromWrite' <=> phase' = "write"
         /\ FromJourney' <=> phase' \in {"journey", "write"}
         /\ FromAnswer' <=> phase' \in {"answer", "journey", "write"}
         /\ FromChallenge' <=>
              phase' \in {"challenge", "answer", "journey", "write"}
         /\ FromCertify' <=>
              phase' \in {"certify", "challenge", "answer", "journey", "write"}
         /\ FromReason' <=>
              phase' \in {"tco", "kraljic", "contradiction", "claims", "settle", "certify",
                         "challenge", "answer", "journey", "write"}
BY DEF FromReason, FromCertify, FromChallenge, FromAnswer, FromJourney, FromWrite

\* A step before the publication does not publish.
LEMMA StillReasoning ==
  ASSUME PipelineInv, phase # "done", UNCHANGED record
  PROVE  ~Published /\ ~Published' /\ record' = "reasoning"
BY DEF PipelineInv, Published

\* The type of a step that leaves a whole position.
LEMMA TypeStays ==
  ASSUME PipelineTypeOK, IsPosition(position'),
         phase' \in {"tco", "kraljic", "contradiction", "claims", "settle", "certify",
                    "challenge", "answer", "journey", "write"},
         UNCHANGED <<verified, researched>>, record' = "reasoning",
         review'.mode \in {"none", "PRIMARY_ONLY", "CHALLENGER_UNAVAILABLE",
                          "DUAL_MODEL_REVIEW"},
         journeys' \subseteq Journey
  PROVE  PipelineTypeOK'
BY DEF PipelineTypeOK, IsPosition, MarketDriver

-----------------------------------------------------------------------------
(* The steps                                                               *)

LEMMA GatherPreserves == PipelineInv /\ Gather => PipelineInv'
<1> SUFFICES ASSUME PipelineInv, Gather PROVE PipelineInv'
  OBVIOUS
<1>1. /\ phase = "gather" /\ phase' = "reason"
      /\ verified' \in {"none", "supported", "contradicted", "inconclusive"}
      /\ researched' \subseteq MarketDriver
      /\ UNCHANGED <<file, position, review, journeys, record>>
  <2>1. researched' \subseteq MarketDriver
    BY DEF Gather
  <2> QED
    BY <2>1 DEF Gather
<1>2. ~Published' /\ record' = "reasoning"
  BY <1>1, StillReasoning
<1>3. position' = NoPosition
  BY <1>1 DEF PipelineInv
<1>4. PipelineTypeOK'
  BY <1>1, <1>2, <1>3 DEF PipelineInv, PipelineTypeOK
<1> QED
  BY <1>1, <1>2, <1>3, <1>4, PhaseSaysNext DEF PipelineInv

\* What the model answers is given the calculated figure.
LEMMA ReasonPreserves == PipelineInv /\ Reason => PipelineInv'
<1> SUFFICES ASSUME PipelineInv, Reason PROVE PipelineInv'
  OBVIOUS
<1>1. /\ phase = "reason" /\ phase' = "tco"
      /\ UNCHANGED <<file, verified, researched, review, journeys, record>>
  BY DEF Reason, caseVars
<1>2. PICK d \in Generated :
        position' = Audited(WithMarket(WithImpact(d)))
  BY DEF Reason, Audited
<1>3. IsPosition(d)
  <2>1. IsPosition(Stub)
    BY DEF IsPosition, PositionField, Stub, Level
  <2> QED
    BY <2>1, PipelineAssumption DEF Generated, PipelineAssumption
<1>4. IsPosition(WithImpact(d)) /\ (file.figure # {} => WithImpact(d).impact = file.figure)
  BY <1>3, WithImpactFits
<1>5. /\ IsPosition(WithMarket(WithImpact(d)))
      /\ file.figure # {} => WithMarket(WithImpact(d)).impact = file.figure
  BY <1>4, WithMarketFits
<1>6. Drafted'
  BY <1>1, <1>2, <1>5, AuditedFits DEF Drafted, PositionField
<1>7. ~Published' /\ record' = "reasoning"
  BY <1>1, StillReasoning
<1>8. PipelineTypeOK'
  BY <1>1, <1>6, <1>7, TypeStays DEF PipelineInv, PipelineTypeOK, Drafted
<1> QED
  BY <1>1, <1>6, <1>7, <1>8, PhaseSaysNext DEF PipelineInv

LEMMA ReasonFailsPreserves == PipelineInv /\ ReasonFails => PipelineInv'
<1> SUFFICES ASSUME PipelineInv, ReasonFails PROVE PipelineInv'
  OBVIOUS
<1>1. /\ phase = "reason" /\ phase' = "done"
      /\ record' \in {"unavailable", "reasoning"}
      /\ UNCHANGED <<file, verified, researched, position, review, journeys>>
  BY DEF ReasonFails, caseVars
<1>2. ~Published'
  BY <1>1 DEF Published
<1>3. position' = NoPosition
  BY <1>1 DEF PipelineInv
<1>4. PipelineTypeOK'
  BY <1>1, <1>3 DEF PipelineInv, PipelineTypeOK
<1> QED
  BY <1>1, <1>2, <1>4, PhaseSaysNext DEF PipelineInv

\* What cannot be checked has no place among what is published.
LEMMA RaisePreserves == PipelineInv /\ Raise => PipelineInv'
<1> SUFFICES ASSUME PipelineInv, Raise PROVE PipelineInv'
  OBVIOUS
<1>1. /\ phase' = "done" /\ record' \in {"unavailable", "reasoning"}
      /\ Unreadable(position)
      /\ UNCHANGED <<file, verified, researched, position, review, journeys>>
  BY DEF Raise, caseVars
<1>2. ~Published'
  BY <1>1 DEF Published
<1>3. Unreadable(position')
  BY <1>1, Zenon
<1>4. PipelineTypeOK'
  <2>1. record' = "unavailable" => position' = NoPosition \/ Unreadable(position)'
    BY <1>3, Zenon
  <2>2. position' # NoPosition => IsPosition(position)'
    BY <1>1, Zenon DEF PipelineInv, PipelineTypeOK
  <2> HIDE <1>3
  <2> QED
    BY <1>1, <2>1, <2>2, Zenon DEF PipelineInv, PipelineTypeOK
<1> QED
  BY <1>1, <1>2, <1>4, PhaseSaysNext DEF PipelineInv

\* A second answer is given the calculated figure too.
LEMMA AskAgainPreserves ==
  ASSUME PipelineInv, NEW check \in DOMAIN After, AskAgain(check)
  PROVE  PipelineInv'
<1>1. /\ phase = check /\ phase' = After[check]
      /\ UNCHANGED <<file, verified, researched, review, journeys, record>>
  BY DEF AskAgain, caseVars
<1>2. /\ phase \in {"tco", "kraljic", "contradiction"}
      /\ phase' \in {"kraljic", "contradiction", "claims"}
  BY <1>1 DEF After
<1>3. ~Published /\ ~Published' /\ record' = "reasoning"
  BY <1>1, <1>2, StillReasoning
<1>4. Drafted
  BY <1>2, <1>3, PhaseSays DEF PipelineInv
<1>5. Drafted'
  <2>1. CASE position' = position
    BY <1>1, <1>4, <2>1, Zenon DEF Drafted
  <2>2. CASE \E d \in Draft : position' = WithImpact(d)
    <3>1. PICK d \in Draft : position' = WithImpact(d)
      BY <2>2
    <3>2. IsPosition(d)
      BY PipelineAssumption DEF PipelineAssumption
    <3> QED
      BY <1>1, <3>1, <3>2, WithImpactFits DEF Drafted
  <2>3. position' = position \/ \E d \in Draft : position' = WithImpact(d)
    BY Zenon DEF AskAgain
  <2> QED
    BY <2>1, <2>2, <2>3
<1>6. PipelineTypeOK'
  BY <1>1, <1>2, <1>3, <1>5, TypeStays DEF PipelineInv, PipelineTypeOK, Drafted
<1> QED
  BY <1>1, <1>2, <1>3, <1>5, <1>6, PhaseSaysNext DEF PipelineInv

\* Of the claims, the second answer or the first without its numbers is kept.
LEMMA CheckClaimsPreserves == PipelineInv /\ CheckClaims => PipelineInv'
<1> SUFFICES ASSUME PipelineInv, CheckClaims PROVE PipelineInv'
  OBVIOUS
<1>1. /\ phase = "claims" /\ phase' = "settle"
      /\ UNCHANGED <<file, verified, researched, review, journeys, record>>
  BY DEF CheckClaims, caseVars
<1>2. ~Published /\ ~Published' /\ record' = "reasoning"
  BY <1>1, StillReasoning
<1>3. Drafted
  BY <1>1, <1>2, PhaseSays DEF PipelineInv
<1>4. \/ position' = position
      \/ position' = Sanitised(position)
      \/ \E d \in Draft : position' = WithMarket(WithImpact(d))
  BY Zenon DEF CheckClaims
<1>5. Drafted'
  <2>1. CASE position' = position
    BY <1>1, <1>3, <2>1, Zenon DEF Drafted
  <2>2. CASE position' = Sanitised(position)
    BY <1>1, <1>3, <2>2, SanitisedFits DEF Drafted, Weaker, PositionField
  <2>3. CASE \E d \in Draft : position' = WithMarket(WithImpact(d))
    <3>1. PICK d \in Draft : position' = WithMarket(WithImpact(d))
      BY <2>3
    <3>2. IsPosition(d)
      BY PipelineAssumption DEF PipelineAssumption
    <3>3. IsPosition(WithImpact(d)) /\ (file.figure # {} => WithImpact(d).impact = file.figure)
      BY <3>2, WithImpactFits
    <3> QED
      BY <1>1, <3>1, <3>3, WithMarketFits DEF Drafted
  <2> QED
    BY <1>4, <2>1, <2>2, <2>3
<1>6. PipelineTypeOK'
  BY <1>1, <1>2, <1>5, TypeStays DEF PipelineInv, PipelineTypeOK, Drafted
<1> QED
  BY <1>1, <1>2, <1>5, <1>6, PhaseSaysNext DEF PipelineInv

\* The controls establish what they are for, whatever came before.
LEMMA SettlePreserves == PipelineInv /\ Settle => PipelineInv'
<1> SUFFICES ASSUME PipelineInv, Settle PROVE PipelineInv'
  OBVIOUS
<1>1. /\ phase = "settle" /\ phase' = "certify" /\ position' = Settled(position)
      /\ UNCHANGED <<file, verified, researched, review, journeys, record>>
  BY DEF Settle, caseVars
<1>2. ~Published /\ ~Published' /\ record' = "reasoning"
  BY <1>1, StillReasoning
<1>3. Drafted
  BY <1>1, <1>2, PhaseSays DEF PipelineInv
<1> DEFINE clean == IF UnsupportedNumbers(position) # {} THEN Sanitised(position) ELSE position
           low == AtCeiling(WithMarket(clean), file)
<1>4. /\ IsPosition(clean) /\ (file.figure # {} => clean.impact = file.figure)
      /\ ~flagged' => clean.numbers = {}
      /\ \A n \in clean.numbers : n[1] = "opening_ask"
  <2>1. CASE UnsupportedNumbers(position) # {}
    <3>1. flagged'
      BY <2>1, Zenon DEF Settle
    <3>2. clean = Sanitised(position)
      BY <2>1
    <3> QED
      BY <1>3, <3>1, <3>2, SanitisedFits DEF Drafted, Weaker, PositionField
  <2>2. CASE UnsupportedNumbers(position) = {}
    <3>1. position.numbers = {}
      BY <2>2 DEF UnsupportedNumbers
    <3> QED
      BY <1>3, <2>2, <3>1 DEF Drafted
  <2> QED
    BY <2>1, <2>2
<1>5. /\ IsPosition(WithMarket(clean))
      /\ verified # "none" => WithMarket(clean).market = verified
      /\ WithMarket(clean).impact = clean.impact
      /\ WithMarket(clean).numbers = clean.numbers
  BY <1>4, WithMarketFits
<1>6. /\ IsPosition(low) /\ (file.figure # {} => low.impact = file.figure)
      /\ verified # "none" => low.market = verified
      /\ low.numbers = clean.numbers /\ low.level = CeilingOf(low, file)
  BY <1>4, <1>5, CeilingFits DEF PositionField
<1>7. position' = Audited(low)
  BY <1>1 DEF Settled, Audited
<1> HIDE DEF clean, low
<1>8. /\ IsPosition(position') /\ position'.audit = AuditOf(file)
      /\ \A f \in PositionField \ {"audit"} : position'[f] = low[f]
  BY <1>6, <1>7, AuditedFits
<1>9. /\ file.figure # {} => position'.impact = file.figure
      /\ verified # "none" => position'.market = verified
      /\ position'.numbers = clean.numbers /\ position'.level = low.level
  BY <1>6, <1>8 DEF PositionField
<1>10. CeilingOf(position', file) = CeilingOf(low, file)
  <2>1. /\ position'.impact = low.impact /\ position'.notCalculable = low.notCalculable
        /\ position'.scenarios = low.scenarios /\ position'.named = low.named
    BY <1>8 DEF PositionField
  <2>2. Contradictions(position', file) = Contradictions(low, file)
    BY <2>1, Zenon DEF Contradictions
  <2> QED
    BY <2>1, <2>2, Zenon DEF CeilingOf
<1>11. Controlled'
  <2>1. LevelRank[position'.level] <= LevelRank[CeilingOf(position', file)]
    BY <1>6, <1>9, <1>10, CeilingIs DEF Level, LevelRank
  <2>2. position'.level \in Level /\ AuditOf(file)' = AuditOf(file')
    BY <1>8 DEF IsPosition
  <2> QED
    BY <1>1, <1>4, <1>8, <1>9, <2>1, Zenon DEF Controlled
<1>12. PipelineTypeOK'
  BY <1>1, <1>2, <1>8, TypeStays DEF PipelineInv, PipelineTypeOK
<1>13. Drafted'
  BY <1>1, <1>8, <1>9 DEF Drafted
<1> QED
  BY <1>1, <1>2, <1>11, <1>12, <1>13, PhaseSaysNext DEF PipelineInv

\* A certificate that is not refused has found nothing.
LEMMA CertifyPreserves == PipelineInv /\ Certify => PipelineInv'
<1> SUFFICES ASSUME PipelineInv, Certify PROVE PipelineInv'
  OBVIOUS
<1>1. /\ phase = "certify" /\ phase' = "challenge"
      /\ certificate' = CertificateOf(position, file)
      /\ UNCHANGED <<file, verified, researched, position, flagged, review, journeys, record>>
  BY DEF Certify, caseVars
<1>2. ~Published /\ ~Published' /\ record' = "reasoning"
  BY <1>1, StillReasoning
<1>3. Drafted /\ Controlled /\ file \in CaseFile
  BY <1>1, <1>2, PhaseSays DEF PipelineInv
<1> DEFINE blind == [file EXCEPT !.contract = FALSE, !.continuation = FALSE]
           v == CertificateOf(position, file).verdict
<1>4. v # "NOT_CERTIFIED" =>
        /\ InConflict(file) \cap LoadBearing[file.type] = {}
        /\ Contradictions(position, file) = {}
        /\ Overstatements(position, blind) = {}
        /\ v = "CERTIFIED" => ~StakeholdersDisagree(file)
  <2>1. v = IF \/ InConflict(file) \cap LoadBearing[file.type] # {}
               \/ Contradictions(position, file) # {}
               \/ Overstatements(position, blind) # {} \/ position.quoted
               \/ ~position.capped
            THEN "NOT_CERTIFIED"
            ELSE IF \/ LoadBearing[file.type] \ DOMAIN file.prov # {}
                    \/ file.warnings \/ Unattributed(file) # {} \/ StakeholdersDisagree(file)
            THEN "CONDITIONAL" ELSE "CERTIFIED"
    BY DEF CertificateOf
  <2> HIDE DEF v, blind
  <2>2. v = "CERTIFIED" => v # "CONDITIONAL" /\ v # "NOT_CERTIFIED"
    OBVIOUS
  <2> QED
    BY <2>1, <2>2, Zenon
<1>5. v # "NOT_CERTIFIED" => Overstatements(position, file) = {}
  BY <1>3, <1>4, BlindClaims
<1>6. certificate'.verdict = v /\ certificate'.level = position.level
  BY <1>1 DEF CertificateOf
<1> HIDE DEF v, blind
<1>7. CertificateIsTrue'
  BY <1>1, <1>4, <1>5, <1>6, Zenon DEF CertificateIsTrue
<1>8. Drafted' /\ Controlled'
  BY <1>1, <1>3, Zenon DEF Drafted, Controlled
<1>9. PipelineTypeOK'
  BY <1>1, <1>2, <1>3, TypeStays DEF PipelineInv, PipelineTypeOK, Drafted
<1> QED
  BY <1>1, <1>2, <1>3, <1>6, <1>7, <1>8, <1>9, PhaseSaysNext DEF PipelineInv

\* The second opinion weakens the position, and so leaves standing what has been
\* established of it.
LEMMA ChallengePreserves == PipelineInv /\ Challenge => PipelineInv'
<1> SUFFICES ASSUME PipelineInv, Challenge PROVE PipelineInv'
  OBVIOUS
<1>1. /\ phase = "challenge" /\ phase' = "answer"
      /\ position' = Challenged(position, review')
      /\ UNCHANGED <<file, verified, researched, flagged, certificate, journeys, record>>
  BY DEF Challenge, caseVars
<1> DEFINE due == ChallengeDue(position, Evidence, flagged)
<1>2. /\ review'.mode \in {"PRIMARY_ONLY", "CHALLENGER_UNAVAILABLE", "DUAL_MODEL_REVIEW"}
      /\ review'.mode = "PRIMARY_ONLY" => ~due
  <2>1. PICK answered \in BOOLEAN, opinion \in Opinion :
          review' = Orchestrated(due, answered, opinion)
    BY DEF Challenge
  <2> HIDE DEF due
  <2>2. CASE ~due
    <3>1. review' = [mode |-> "PRIMARY_ONLY"]
      BY <2>1, <2>2, Zenon DEF Orchestrated
    <3> QED
      BY <2>2, <3>1
  <2>3. CASE due /\ ~answered
    <3>1. review' = [mode |-> "CHALLENGER_UNAVAILABLE"]
      BY <2>1, <2>3, Zenon DEF Orchestrated
    <3> QED
      BY <3>1
  <2>4. CASE due /\ answered
    <3>1. review' = [mode |-> "DUAL_MODEL_REVIEW", opinion |-> opinion]
      BY <2>1, <2>4, Zenon DEF Orchestrated
    <3> QED
      BY <3>1
  <2> QED
    BY <2>2, <2>3, <2>4
<1>3. ~Published /\ ~Published' /\ record' = "reasoning"
  BY <1>1, StillReasoning
<1>4. /\ Drafted /\ Controlled /\ CertificateIsTrue
      /\ certificate.level = position.level /\ file \in CaseFile
  BY <1>1, <1>3, PhaseSays DEF PipelineInv
<1>5. /\ IsPosition(position') /\ Weaker(position', position)
      /\ LevelRank[position'.level] <= LevelRank[position.level]
      /\ LevelRank[position'.level] <= LevelRank[ChallengeCap(review')]
      /\ review'.mode = "PRIMARY_ONLY" => position'.level = position.level
      /\ position'.level # position.level =>
           /\ position'.level = ChallengeCap(review')
           /\ LevelRank[position'.level] < LevelRank[position.level]
  BY <1>1, <1>4, ChallengedFits DEF Drafted
<1>6. /\ CeilingOf(position', file) = CeilingOf(position, file)
      /\ Contradictions(position', file) = Contradictions(position, file)
      /\ Overstatements(position, file) = {} => Overstatements(position', file) = {}
  BY <1>5, WeakerKeeps, WeakerClaims
<1>7. /\ position'.impact = position.impact /\ position'.market = position.market
      /\ position'.audit = position.audit /\ position'.numbers \subseteq position.numbers
  BY <1>5 DEF Weaker, PositionField
<1>8. Drafted'
  BY <1>1, <1>4, <1>5, <1>7 DEF Drafted
<1>9. Controlled'
  <2>1. LevelRank[position'.level] <= LevelRank[CeilingOf(position', file)]
    BY <1>4, <1>5, <1>6, CeilingIs DEF Controlled, Drafted, IsPosition, Level, LevelRank
  <2>2. /\ \A n \in position'.numbers : n[1] = "opening_ask"
        /\ ~flagged => position'.numbers = {}
    <3>1. ~flagged => position.numbers = {}
      BY <1>4, Zenon DEF Controlled
    <3>2. \A n \in position.numbers : n[1] = "opening_ask"
      BY <1>4, Zenon DEF Controlled
    <3> QED
      BY <1>7, <3>1, <3>2
  <2> QED
    BY <1>1, <1>4, <1>7, <2>1, <2>2, Zenon DEF Controlled
<1>10. CertificateIsTrue'
  BY <1>1, <1>4, <1>6, Zenon DEF CertificateIsTrue
<1>11. review'.mode = "PRIMARY_ONLY" =>
         /\ position.level # "low" /\ ~flagged /\ position.market = "none"
         /\ file.type = "price_increase" /\ file.justified => Substantiated(file.drivers)
  <2> SUFFICES ASSUME ~due
               PROVE  /\ position.level # "low" /\ ~flagged /\ position.market = "none"
                      /\ file.type = "price_increase" /\ file.justified =>
                           Substantiated(file.drivers)
    BY <1>2, Zenon
  <2>1. position.level # "low" /\ ~flagged /\ position.market = "none"
    BY Zenon DEF ChallengeDue
  <2>2. Evidence.type = "price_increase" /\ Evidence.justified =>
          Substantiated(Evidence.drivers)
    BY Zenon DEF ChallengeDue
  <2> HIDE DEF due
  <2>3. /\ Evidence.type = file.type /\ Evidence.justified = file.justified
        /\ Evidence.drivers = file.drivers \cup researched
    BY <1>4, PipelineAssumption DEF PipelineAssumption, CaseField, Evidence
  <2>4. Substantiated(Evidence.drivers) => Substantiated(file.drivers)
    BY <2>3 DEF PipelineInv, PipelineTypeOK, MarketDriver, Substantiated
  <2> QED
    BY <2>1, <2>2, <2>3, <2>4, Zenon
<1>12. Reviewed'
  <2>1. review'.mode = "PRIMARY_ONLY" =>
          /\ position'.level # "low" /\ position'.numbers = {}
          /\ position'.market = "none" /\ verified = "none"
          /\ file.type = "price_increase" /\ file.justified => Substantiated(file.drivers)
    <3>1. /\ ~flagged => position.numbers = {}
          /\ verified # "none" => position.market = verified
      BY <1>4, Zenon DEF Controlled
    <3>2. position.numbers = {} => position'.numbers = {}
      BY <1>7
    <3> QED
      BY <1>5, <1>7, <1>11, <3>1, <3>2, Zenon
  <2>2. LevelRank[position'.level] <= LevelRank[ChallengeCap(review')]
    BY <1>5
  <2>3. certificate'.level # position'.level =>
          /\ review'.mode # "PRIMARY_ONLY"
          /\ position'.level = ChallengeCap(review')
          /\ LevelRank[position'.level] < LevelRank[certificate'.level]
    <3>1. certificate'.level = position.level
      BY <1>1, <1>4
    <3> QED
      BY <1>5, <3>1, Zenon
  <2> QED
    BY <1>1, <2>1, <2>2, <2>3, Zenon DEF Reviewed
<1>13. PipelineTypeOK'
  BY <1>1, <1>2, <1>3, <1>5, TypeStays DEF PipelineInv, PipelineTypeOK
<1> QED
  BY <1>1, <1>3, <1>4, <1>8, <1>9, <1>10, <1>12, <1>13, PhaseSaysNext DEF PipelineInv

\* What the steps after leave alone.
LEMMA Established ==
  ASSUME UNCHANGED <<file, verified, position, flagged, certificate, review>>
  PROVE  /\ Drafted => Drafted'
         /\ Controlled => Controlled'
         /\ CertificateIsTrue => CertificateIsTrue'
         /\ Reviewed => Reviewed'
<1>1. Drafted => Drafted'
  BY Zenon DEF Drafted
<1>2. Controlled => Controlled'
  BY Zenon DEF Controlled
<1>3. CertificateIsTrue => CertificateIsTrue'
  BY Zenon DEF CertificateIsTrue
<1>4. Reviewed => Reviewed'
  BY Zenon DEF Reviewed
<1> QED
  BY <1>1, <1>2, <1>3, <1>4

LEMMA CompressPreserves == PipelineInv /\ Compress => PipelineInv'
<1> SUFFICES ASSUME PipelineInv, Compress PROVE PipelineInv'
  OBVIOUS
<1>1. /\ phase = "answer" /\ phase' = "journey"
      /\ answer' = CommercialAnswer(position, file)
      /\ UNCHANGED <<file, verified, researched, position, flagged, certificate, review,
                     journeys, record>>
  BY DEF Compress, caseVars
<1>2. ~Published /\ ~Published' /\ record' = "reasoning"
  BY <1>1, StillReasoning
<1>3. Drafted /\ Controlled /\ CertificateIsTrue /\ Reviewed /\ file \in CaseFile
  BY <1>1, <1>2, PhaseSays DEF PipelineInv
<1>4. Drafted' /\ Controlled' /\ CertificateIsTrue' /\ Reviewed'
  BY <1>1, <1>3, Established
<1>5. answer' = CommercialAnswer(position, file)'
  BY <1>1, Zenon
<1>6. PipelineTypeOK'
  BY <1>1, <1>2, <1>3, TypeStays DEF PipelineInv, PipelineTypeOK, Drafted
<1> QED
  BY <1>1, <1>2, <1>3, <1>4, <1>5, <1>6, PhaseSaysNext DEF PipelineInv

\* A journey that answers is the one that the mode resolves to.
LEMMA TravelPreserves == PipelineInv /\ Travel => PipelineInv'
<1> SUFFICES ASSUME PipelineInv, Travel PROVE PipelineInv'
  OBVIOUS
<1>1. /\ phase = "journey" /\ phase' = "write"
      /\ UNCHANGED <<file, verified, researched, position, flagged, certificate, review,
                     answer, record>>
  BY DEF Travel, caseVars
<1>2. ~Published /\ ~Published' /\ record' = "reasoning"
  BY <1>1, StillReasoning
<1>3. /\ Drafted /\ Controlled /\ CertificateIsTrue /\ Reviewed /\ file \in CaseFile
      /\ answer = CommercialAnswer(position, file)
  BY <1>1, <1>2, PhaseSays DEF PipelineInv
<1>4. Drafted' /\ Controlled' /\ CertificateIsTrue' /\ Reviewed'
  BY <1>1, <1>3, Established
<1>5. answer' = CommercialAnswer(position, file)'
  BY <1>1, <1>3, Zenon
<1>6. journeys' \subseteq Journey /\ \A j \in journeys' : JourneyApplies(j)
  BY DEF Travel
<1>7. journeys' \subseteq {ResolvedJourney}'
  <2>1. journeys' \subseteq {ResolvedJourney}
    BY <1>6, Zenon DEF JourneyApplies
  <2>2. ResolvedJourney' = ResolvedJourney
    BY <1>1, Zenon DEF ResolvedJourney, ProblemShaped
  <2> QED
    BY <2>1, <2>2
<1>8. PipelineTypeOK'
  BY <1>1, <1>2, <1>3, <1>6, TypeStays DEF PipelineInv, PipelineTypeOK, Drafted
<1> QED
  BY <1>1, <1>2, <1>3, <1>4, <1>5, <1>7, <1>8, PhaseSaysNext DEF PipelineInv

LEMMA PublishPreserves == PipelineInv /\ Publish => PipelineInv'
<1> SUFFICES ASSUME PipelineInv, Publish PROVE PipelineInv'
  OBVIOUS
<1>1. /\ phase = "write" /\ phase' = "done" /\ record' \in {"published", "reasoning"}
      /\ UNCHANGED <<file, verified, researched, position, flagged, certificate, review,
                     answer, journeys>>
  BY DEF Publish, caseVars
<1>2. /\ Drafted /\ Controlled /\ CertificateIsTrue /\ Reviewed /\ file \in CaseFile
      /\ answer = CommercialAnswer(position, file)
      /\ journeys \subseteq {ResolvedJourney}
  BY <1>1 DEF PipelineInv, FromReason, FromCertify, FromChallenge, FromAnswer, FromJourney,
     FromWrite
<1>3. Drafted' /\ Controlled' /\ CertificateIsTrue' /\ Reviewed'
  BY <1>1, <1>2, Established
<1>4. /\ answer' = CommercialAnswer(position, file)'
      /\ ResolvedJourney' = ResolvedJourney
  BY <1>1, <1>2, Zenon DEF ResolvedJourney, ProblemShaped
<1>5. PipelineTypeOK'
  BY <1>1 DEF PipelineInv, PipelineTypeOK
<1> QED
  BY <1>1, <1>2, <1>3, <1>4, <1>5 DEF PipelineInv

LEMMA PipelineStepPreserves == PipelineInv /\ [PipelineNext]_pipelineVars => PipelineInv'
<1> SUFFICES ASSUME PipelineInv, [PipelineNext]_pipelineVars PROVE PipelineInv'
  OBVIOUS
<1>1. CASE PipelineNext
  BY <1>1, GatherPreserves, ReasonPreserves, ReasonFailsPreserves, AskAgainPreserves,
     CheckClaimsPreserves, SettlePreserves, CertifyPreserves, ChallengePreserves,
     CompressPreserves, TravelPreserves, PublishPreserves, RaisePreserves
     DEF PipelineNext
<1>2. CASE UNCHANGED pipelineVars
  <2>1. UNCHANGED <<file, phase, verified, researched, position, flagged, certificate, review,
                    answer, journeys, record>>
    BY <1>2 DEF pipelineVars
  <2>2. PipelineTypeOK'
    BY <2>1 DEF PipelineInv, PipelineTypeOK
  <2>3. /\ Drafted => Drafted'
        /\ Controlled => Controlled'
        /\ CertificateIsTrue => CertificateIsTrue'
        /\ Reviewed => Reviewed'
    BY <2>1, Established
  <2>4. /\ Published' = Published
        /\ FromReason' = FromReason
        /\ FromCertify' = FromCertify
        /\ FromChallenge' = FromChallenge
        /\ FromAnswer' = FromAnswer
        /\ FromJourney' = FromJourney
        /\ FromWrite' = FromWrite
    BY <2>1, Zenon DEF Published, FromReason, FromCertify, FromChallenge, FromAnswer,
       FromJourney, FromWrite
  <2>5. /\ CommercialAnswer(position, file)' = CommercialAnswer(position, file)
        /\ ResolvedJourney' = ResolvedJourney
    BY <2>1, Zenon DEF ResolvedJourney, ProblemShaped
  <2> QED
    BY <2>1, <2>2, <2>3, <2>4, <2>5, Zenon DEF PipelineInv
<1> QED
  BY <1>1, <1>2

-----------------------------------------------------------------------------
(* The theorems                                                            *)

LEMMA PipelineAlways == PipelineSpec => []PipelineInv
BY PipelineStarts, PipelineStepPreserves, PTL DEF PipelineSpec

\* What is established when the case is published.
LEMMA WhenPublished ==
  ASSUME PipelineInv, Published
  PROVE  /\ Drafted /\ Controlled /\ CertificateIsTrue /\ Reviewed
         /\ answer = CommercialAnswer(position, file)
         /\ journeys \subseteq {ResolvedJourney}
BY DEF PipelineInv, FromReason, FromCertify, FromChallenge, FromAnswer, FromJourney, FromWrite

\* Every variable of _run_reasoning keeps its type, and a case is only given up
\* (write_provider_unavailable) where there is no position, or one that
\* check_all_contradictions cannot read: no retry takes an answer away.
THEOREM PipelineTypeCorrect == PipelineSpec => []PipelineTypeOK
<1>1. PipelineInv => PipelineTypeOK
  BY DEF PipelineInv
<1> QED
  BY <1>1, PipelineAlways, PTL

\* write_final_result publishes no more confidence than compute_confidence_ceiling
\* allows of that position and than the second opinion leaves, for any evidence
\* and any answers.
THEOREM PublishedStaysWithinCeiling == PipelineSpec => []PublishedWithinCeiling
<1>1. PipelineInv => PublishedWithinCeiling
  BY WhenPublished DEF PublishedWithinCeiling, Controlled, Reviewed
<1> QED
  BY <1>1, PipelineAlways, PTL

\* sanitize_unsupported_strategy_numbers leaves nothing but opening asks, whichever
\* answer was kept, and a letter never quotes a position that was withheld.
THEOREM NumbersStaySanitised == PipelineSpec => []NumbersSanitised
<1>1. ASSUME PipelineInv, Published
      PROVE  position.noted => answer.letter # "quotes_opening"
  <2>1. answer = CommercialAnswer(position, file)
    BY <1>1, WhenPublished
  <2>2. answer.letter = LetterOf(position, file)
    BY <2>1 DEF CommercialAnswer
  <2>3. position.noted => LetterOf(position, file) \in {"none", "asks"}
    BY Zenon DEF LetterOf
  <2> QED
    BY <2>2, <2>3
<1>2. PipelineInv => NumbersSanitised
  BY <1>1, WhenPublished DEF NumbersSanitised, Controlled
<1> QED
  BY <1>2, PipelineAlways, PTL

\* What build_trust_certification found of the evidence, contradictions, claims and
\* stakeholders, before the second opinion and without the text of the case, holds
\* of what is published. Where the confidence it certified does not, it is
\* apply_challenger_outcome that has lowered it, to its cap.
THEOREM CertificatesStand == PipelineSpec => []CertificateStands
<1>1. PipelineInv => CertificateStands
  BY WhenPublished, Zenon DEF CertificateStands, CertificateIsTrue, Reviewed
<1> QED
  BY <1>1, PipelineAlways, PTL

\* One journey at most has an answer, and never another than the user chose.
THEOREM OneJourneyAnswers == PipelineSpec => []OneJourney
<1>1. ASSUME PipelineInv, Published PROVE Cardinality(journeys) <= 1
  <2>1. journeys = {} \/ journeys = {ResolvedJourney}
    BY <1>1, WhenPublished
  <2> QED
    BY <2>1, FS_EmptySet, FS_Singleton
<1>2. ASSUME PipelineInv, Published, file.explicit PROVE journeys \subseteq {file.mode}
  BY <1>2, WhenPublished DEF ResolvedJourney
<1>3. PipelineInv => OneJourney
  BY <1>1, <1>2 DEF OneJourney
<1> QED
  BY <1>3, PipelineAlways, PTL

\* Where compute_financial_impact has a figure, that figure is published whole,
\* whichever answer was kept, and reconcile_answer finds nothing to say of the
\* answer. Nothing is said of a figure of the model's own, where there is none.
THEOREM FiguresStayComputed == PipelineSpec => []FiguresAreComputed
<1>1. ASSUME PipelineInv, Published PROVE FiguresAreComputed
  <2>1. /\ Drafted /\ Controlled /\ answer = CommercialAnswer(position, file)
    BY <1>1, WhenPublished
  <2>2. answer.surfaced = CoverageOf(file)
    BY <2>1 DEF CommercialAnswer
  <2>3. AuditOf(file).contradictions => AuditOf(file).integrity = "CONTRADICTED"
    <3>1. AuditOf(file).contradictions = file.disputed
      BY DEF AuditOf
    <3>2. AuditOf(file).integrity =
            IF InConflict(file) # {} \/ file.disputed THEN "CONTRADICTED"
            ELSE IF Uncertainties(file) # {} \/ file.warnings THEN "UNKNOWN"
            ELSE "PROVEN"
      BY DEF AuditOf
    <3> QED
      BY <3>1, <3>2, Zenon
  <2>4. CoverageOf(file) \subseteq answer.surfaced
    BY <2>2
  <2>5. file.figure # {} => position.impact = file.figure
    BY <2>1, Zenon DEF Drafted
  <2>6. position.audit = AuditOf(file)
    BY <2>1, Zenon DEF Controlled
  <2>7. Reconciles(position, file, answer)
    BY <2>3, <2>4, <2>5, <2>6, Zenon DEF Reconciles
  <2> QED
    BY <2>5, <2>7, Zenon DEF FiguresAreComputed
<1>2. ~Published => FiguresAreComputed
  BY Zenon DEF FiguresAreComputed
<1> QED
  BY <1>1, <1>2, PipelineAlways, PTL

\* challenge_trigger leaves a position without a second opinion only where it shows
\* the confidence that was certified, where no figure without a source is left in
\* it, where it rests on no market verification, and where a justification of the
\* supplier's is borne out by the case itself, whatever research has added.
THEOREM SecondOpinionsAreHad == PipelineSpec => []SecondOpinionWhereWarranted
<1>1. PipelineInv => SecondOpinionWhereWarranted
  BY WhenPublished, Zenon DEF SecondOpinionWhereWarranted, Reviewed
<1> QED
  BY <1>1, PipelineAlways, PTL

=============================================================================
