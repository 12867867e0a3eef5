------------------------- MODULE MonthlyQuotaProofs -------------------------
(***************************************************************************)
(* Theorems about MonthlyQuota, for every number of requests and cases,    *)
(* every allowance and any number of months: what inserting the case and   *)
(* reserving its use in one transaction is for.                            *)
(***************************************************************************)
EXTENDS MonthlyQuota, FiniteSetTheorems, TLAPS

\* One open transaction at most has written the row of the workspace, and it
\* found a use to take: nobody changes the count under it.
ReserveHolds ==
  \A r \in Request :
    request[r].stage = "reserved" =>
      /\ Allowed(request[r].now)
      /\ \A q \in Request : request[q].stage = "reserved" => q = r

\* An open transaction that has inserted a case is the only one that did.
InsertIsAlone ==
  \A r \in Request :
    request[r].stage \in {"inserted", "reserved"} =>
      /\ request[r].id \notin cases
      /\ \A q \in Request :
           request[q].stage \in {"inserted", "reserved"} /\ request[q].id = request[r].id
             => q = r

\* The reservations are finitely many, and until the period is set back none is
\* of a later month.
ReservedSoFar ==
  /\ IsFiniteSet(reserved)
  /\ ~setBack => \A x \in reserved : x[2] <= usage.period

\* The inductive invariant: WorkIsPaidOnce needs that a case about to be committed
\* is nobody else's, UsageIsAccounted that the count cannot move under a reserve.
QuotaInv ==
  /\ QuotaTypeOK
  /\ ReserveHolds
  /\ InsertIsAlone
  /\ ReservedSoFar
  /\ WorkIsPaidOnce
  /\ UsageIsAccounted

-----------------------------------------------------------------------------
\* At first there is no case, no reservation, and a whole allowance.
LEMMA QuotaInitEstablishes == QuotaInit => QuotaInv
<1> SUFFICES ASSUME QuotaInit PROVE QuotaInv
  OBVIOUS
<1> USE QuotaAssumption DEF QuotaInit
<1>1. QuotaTypeOK
  <2> DEFINE first == CHOOSE i \in CaseId : TRUE
  <2>1. first \in CaseId
    OBVIOUS
  <2>2. request = [r \in Request |-> [stage |-> "idle", id |-> first, now |-> 1]]
    OBVIOUS
  <2> HIDE DEF first
  <2>3. request \in [Request -> [stage : {"idle", "begun", "inserted", "reserved"},
                                 id : CaseId, now : 1..LastMonth]]
    BY <2>1, <2>2
  <2>4. setBack \in BOOLEAN
    OBVIOUS
  <2>5. month \in 1..LastMonth /\ usage \in [period : 1..LastMonth, used : 0..Allowance]
    OBVIOUS
  <2>6. cases \subseteq CaseId /\ \A x \in reserved : x \in CaseId \X (1..LastMonth) \X Nat
    OBVIOUS
  <2> QED
    BY <2>3, <2>4, <2>5, <2>6 DEF QuotaTypeOK
<1>2. ReserveHolds /\ InsertIsAlone
  BY DEF ReserveHolds, InsertIsAlone
<1>3. ReservedSoFar
  BY FS_EmptySet DEF ReservedSoFar
<1>4. WorkIsPaidOnce
  BY DEF WorkIsPaidOnce
<1>5. UsageIsAccounted
  <2>1. \A m \in 1..LastMonth : ReservedIn(m) = {}
    BY DEF ReservedIn
  <2>2. Cardinality({}) = 0
    BY FS_EmptySet
  <2> QED
    BY <2>1, <2>2 DEF UsageIsAccounted, ReservedIn
<1> QED
  BY <1>1, <1>2, <1>3, <1>4, <1>5 DEF QuotaInv

\* A step that commits nothing: the rows stay, and the stages may change.
LEMMA UncommittedPreserves ==
  ASSUME QuotaInv, UNCHANGED <<usage, cases, reserved, setBack>>
  PROVE  ReservedSoFar' /\ WorkIsPaidOnce' /\ UsageIsAccounted'
BY DEF QuotaInv, ReservedSoFar, WorkIsPaidOnce, UsageIsAccounted, ReservedIn

\* Of the months, only that of a commit gains a reservation, and only one.
LEMMA CommitCounts ==
  ASSUME QuotaInv, NEW r \in Request, CommitCase(r), NEW m \in 1..LastMonth
  PROVE  /\ IsFiniteSet(reserved')
         /\ Cardinality(ReservedIn(m)) \in Nat
         /\ Cardinality(ReservedIn(m)')
              = Cardinality(ReservedIn(m)) + (IF m = request[r].now THEN 1 ELSE 0)
<1> DEFINE x == <<request[r].id, request[r].now, Cardinality(reserved)>>
<1>1. x \notin reserved
  BY DEF QuotaInv, CommitCase, Stage, InsertIsAlone, WorkIsPaidOnce
<1>2. reserved' = reserved \cup {x} /\ IsFiniteSet(reserved)
  BY DEF QuotaInv, CommitCase, ReservedSoFar
<1>3. IsFiniteSet(reserved')
  BY <1>2, FS_AddElement
<1>4. IsFiniteSet(ReservedIn(m)) /\ Cardinality(ReservedIn(m)) \in Nat
  BY <1>2, FS_Subset, FS_CardinalityType DEF ReservedIn
<1>5. CASE m = request[r].now
  <2>1. ReservedIn(m)' = ReservedIn(m) \cup {x} /\ x \notin ReservedIn(m)
    BY <1>1, <1>2, <1>5 DEF ReservedIn
  <2> QED
    BY <1>3, <1>4, <1>5, <2>1, FS_AddElement
<1>6. CASE m # request[r].now
  <2>1. ReservedIn(m)' = ReservedIn(m)
    BY <1>2, <1>6 DEF ReservedIn
  <2> QED
    BY <1>3, <1>4, <1>6, <2>1
<1> QED
  BY <1>5, <1>6

\* A commit turns the use that was reserved into a case that is paid for.
LEMMA CommitPreserves ==
  ASSUME QuotaInv, NEW r \in Request, CommitCase(r)
  PROVE  QuotaInv'
<1> USE QuotaAssumption DEF CommitCase, Stage
<1>1. /\ request[r].stage = "reserved" /\ Allowed(request[r].now)
      /\ request[r].id \in CaseId \ cases /\ request[r].now \in 1..LastMonth
  BY DEF QuotaInv, QuotaTypeOK, ReserveHolds, InsertIsAlone
<1>2. Cardinality(reserved) \in Nat
  BY FS_CardinalityType DEF QuotaInv, ReservedSoFar
<1>9. ~setBack' => ~setBack /\ ~(request[r].now < usage.period)
  BY Zenon
<1>3. QuotaTypeOK'
  <2>1. usage' \in [period : 1..LastMonth, used : 0..Allowance]
    BY <1>1 DEF QuotaInv, QuotaTypeOK, UsageAfter, Allowed
  <2>2. \A y \in reserved' : y \in CaseId \X (1..LastMonth) \X Nat
    BY <1>1, <1>2 DEF QuotaInv, QuotaTypeOK
  <2>3. request' \in [Request -> [stage : {"idle", "begun", "inserted", "reserved"},
                                  id : CaseId, now : 1..LastMonth]]
    BY DEF QuotaInv, QuotaTypeOK
  <2> QED
    BY <1>1, <2>1, <2>2, <2>3 DEF QuotaInv, QuotaTypeOK
<1>4. ReserveHolds'
  BY DEF QuotaInv, QuotaTypeOK, ReserveHolds
<1>5. InsertIsAlone'
  <2> SUFFICES ASSUME NEW p \in Request, request'[p].stage \in {"inserted", "reserved"}
               PROVE  /\ request'[p].id \notin cases'
                      /\ \A q \in Request :
                           request'[q].stage \in {"inserted", "reserved"}
                             /\ request'[q].id = request'[p].id => q = p
    BY DEF InsertIsAlone
  <2>1. p # r /\ request'[p] = request[p]
    BY DEF QuotaInv, QuotaTypeOK
  <2>2. request[p].id # request[r].id
    BY <1>1, <2>1 DEF QuotaInv, InsertIsAlone
  <2>3. request'[p].id \notin cases'
    BY <2>1, <2>2 DEF QuotaInv, InsertIsAlone
  <2>4. ASSUME NEW q \in Request, request'[q].stage \in {"inserted", "reserved"},
               request'[q].id = request'[p].id
        PROVE  q = p
    <3>1. q # r /\ request'[q] = request[q]
      BY <2>4 DEF QuotaInv, QuotaTypeOK
    <3> QED
      BY <2>1, <2>4, <3>1 DEF QuotaInv, InsertIsAlone
  <2> QED
    BY <2>3, <2>4
<1>6. ReservedSoFar'
  <2>1. IsFiniteSet(reserved')
    BY <1>1, CommitCounts
  <2>2. ASSUME ~setBack', NEW y \in reserved' PROVE y[2] <= usage'.period
    <3>1. ~setBack /\ usage.period <= request[r].now /\ usage'.period = request[r].now
      BY <1>1, <1>9, <2>2 DEF QuotaInv, QuotaTypeOK, UsageAfter
    <3>2. CASE y \in reserved
      BY <1>1, <3>1, <3>2 DEF QuotaInv, QuotaTypeOK, ReservedSoFar
    <3>3. CASE y \notin reserved
      <4>1. y = <<request[r].id, request[r].now, Cardinality(reserved)>>
        BY <2>2, <3>3
      <4>2. y[2] = request[r].now
        BY <4>1
      <4> QED
        BY <1>1, <3>1, <4>2
    <3> QED
      BY <3>2, <3>3
  <2> QED
    BY <2>1, <2>2 DEF ReservedSoFar
<1>7. WorkIsPaidOnce'
  <2> DEFINE x == <<request[r].id, request[r].now, Cardinality(reserved)>>
  <2>1. reserved' = reserved \cup {x} /\ cases' = cases \cup {x[1]}
    OBVIOUS
  <2>2. x[1] = request[r].id
    OBVIOUS
  <2>3. cases = {y[1] : y \in reserved} /\ \A y, z \in reserved : y[1] = z[1] => y = z
    BY Zenon DEF QuotaInv, WorkIsPaidOnce
  <2>4. x[1] \notin cases
    BY <1>1, <2>2
  <2> HIDE DEF x, CommitCase, Stage
  <2>5. cases' = {y[1] : y \in reserved'}
    BY <2>1, <2>3
  <2>6. \A y \in reserved : y[1] \in cases
    BY <2>3
  <2>7. \A y, z \in reserved' : y[1] = z[1] => y = z
    BY <2>1, <2>3, <2>4, <2>6
  <2> QED
    BY <2>5, <2>7 DEF WorkIsPaidOnce
<1>8. UsageIsAccounted'
  <2> SUFFICES ASSUME ~setBack'
               PROVE  /\ usage'.used = Cardinality({y \in reserved' : y[2] = usage'.period})
                      /\ \A m \in 1..LastMonth :
                           Cardinality({y \in reserved' : y[2] = m}) <= Allowance
    BY DEF UsageIsAccounted, ReservedIn
  <2>1. ~setBack /\ usage.period <= request[r].now
    <3>1. ~setBack /\ ~(request[r].now < usage.period)
      BY <1>9, Zenon
    <3>2. usage.period \in 1..LastMonth
      BY DEF QuotaInv, QuotaTypeOK
    <3>3. request[r].now \in Int /\ usage.period \in Int
      BY <1>1, <3>2
    <3>4. usage.period <= request[r].now
      <4> HIDE DEF CommitCase, Stage
      <4> QED
        BY <3>1, <3>3
    <3> QED
      BY <3>1, <3>4, Zenon
  <2>2. usage.period \in 1..LastMonth /\ usage.used \in 0..Allowance
    BY DEF QuotaInv, QuotaTypeOK
  <2>3. /\ usage.used = Cardinality(ReservedIn(usage.period))
        /\ \A m \in 1..LastMonth : Cardinality(ReservedIn(m)) <= Allowance
    BY <2>1 DEF QuotaInv, UsageIsAccounted
  <2>4. usage'.period = request[r].now
        /\ usage'.used = Cardinality(ReservedIn(request[r].now)) + 1
        /\ usage'.used <= Allowance
    <3>1. CASE usage.period < request[r].now
      <4>1. ReservedIn(request[r].now) = {}
        BY <1>1, <2>1, <2>2, <3>1 DEF QuotaInv, QuotaTypeOK, ReservedSoFar, ReservedIn
      <4> QED
        BY <1>1, <2>2, <3>1, <4>1, FS_EmptySet DEF UsageAfter
    <3>2. CASE usage.period = request[r].now
      BY <1>1, <2>2, <2>3, <3>2 DEF UsageAfter, Allowed
    <3> QED
      BY <1>1, <2>1, <2>2, <3>1, <3>2
  <2>5. \A m \in 1..LastMonth :
          Cardinality({y \in reserved' : y[2] = m})
            = Cardinality(ReservedIn(m)) + (IF m = request[r].now THEN 1 ELSE 0)
    BY CommitCounts DEF ReservedIn
  <2>6. \A m \in 1..LastMonth : Cardinality(ReservedIn(m)) \in Nat
    BY CommitCounts
  <2>7. usage'.used = Cardinality({y \in reserved' : y[2] = usage'.period})
    BY <1>1, <2>4, <2>5
  <2>8. \A m \in 1..LastMonth : Cardinality({y \in reserved' : y[2] = m}) <= Allowance
    BY <1>1, <2>3, <2>4, <2>5, <2>6
  <2> QED
    BY <2>7, <2>8
<1> QED
  BY <1>3, <1>4, <1>5, <1>6, <1>7, <1>8 DEF QuotaInv

\* Every step preserves the invariant, action by action.
LEMMA QuotaStepPreserves == QuotaInv /\ [QuotaNext]_quotaVars => QuotaInv'
<1> SUFFICES ASSUME QuotaInv, [QuotaNext]_quotaVars PROVE QuotaInv'
  OBVIOUS
<1> USE QuotaAssumption DEF QuotaTypeOK, ReserveHolds, InsertIsAlone, Allowed
<1>1. ASSUME NEW r \in Request, NEW id \in CaseId, BeginCase(r, id) PROVE QuotaInv'
  <2>1. QuotaTypeOK' /\ ReserveHolds' /\ InsertIsAlone'
    BY <1>1 DEF BeginCase, QuotaInv
  <2> QED
    BY <1>1, <2>1, UncommittedPreserves DEF BeginCase, QuotaInv
<1>2. ASSUME NEW r \in Request, InsertCase(r) PROVE QuotaInv'
  <2>1. QuotaTypeOK' /\ ReserveHolds'
    BY <1>2 DEF InsertCase, Stage, QuotaInv
  <2>2. InsertIsAlone'
    BY <1>2 DEF InsertCase, Stage, InsertedElsewhere, QuotaInv
  <2> QED
    BY <1>2, <2>1, <2>2, UncommittedPreserves DEF InsertCase, QuotaInv
<1>3. ASSUME NEW r \in Request, Reserve(r) PROVE QuotaInv'
  <2>1. QuotaTypeOK' /\ InsertIsAlone'
    BY <1>3 DEF Reserve, Stage, QuotaInv
  <2>2. ReserveHolds'
    BY <1>3 DEF Reserve, Stage, AllowanceHeld, QuotaInv
  <2> QED
    BY <1>3, <2>1, <2>2, UncommittedPreserves DEF Reserve, QuotaInv
<1>4. ASSUME NEW r \in Request, CommitCase(r) PROVE QuotaInv'
  BY <1>4, CommitPreserves
<1>5. ASSUME NEW r \in Request, AbortCase(r) PROVE QuotaInv'
  <2>1. QuotaTypeOK' /\ ReserveHolds' /\ InsertIsAlone'
    BY <1>5 DEF AbortCase, QuotaInv
  <2> QED
    BY <1>5, <2>1, UncommittedPreserves DEF AbortCase, QuotaInv
<1>6. CASE MonthPasses
  <2>1. QuotaTypeOK' /\ ReserveHolds' /\ InsertIsAlone'
    BY <1>6 DEF MonthPasses, QuotaInv
  <2> QED
    BY <1>6, <2>1, UncommittedPreserves DEF MonthPasses, QuotaInv
<1>7. CASE UNCHANGED quotaVars
  <2>1. QuotaTypeOK' /\ ReserveHolds' /\ InsertIsAlone'
    BY <1>7 DEF quotaVars, QuotaInv
  <2> QED
    BY <1>7, <2>1, UncommittedPreserves DEF quotaVars, QuotaInv
<1> QED
  BY <1>1, <1>2, <1>3, <1>4, <1>5, <1>6, <1>7 DEF QuotaNext

\* The inductive invariant holds in every reachable state.
LEMMA QuotaInvariant == QuotaSpec => []QuotaInv
<1> QED
  BY QuotaInitEstablishes, QuotaStepPreserves, PTL DEF QuotaSpec

-----------------------------------------------------------------------------
\* The count of uses never passes the allowance: the UPDATE of the reservation
\* compares and adds in one statement, under the lock of the row.
THEOREM QuotaTypeCorrect == QuotaSpec => []QuotaTypeOK
<1>1. QuotaInv => QuotaTypeOK
  BY DEF QuotaInv
<1> QED
  BY <1>1, QuotaInvariant, PTL

\* create_decision and continue_case: every case is paid for exactly once, for
\* any replays, refusals and aborts.
THEOREM CasesArePaidOnce == QuotaSpec => []WorkIsPaidOnce
<1>1. QuotaInv => WorkIsPaidOnce
  BY DEF QuotaInv
<1> QED
  BY <1>1, QuotaInvariant, PTL

\* The count is that of the month's reservations, and no month has more than the
\* allowance, as long as no late request sets the period back.
THEOREM UsageAccounted == QuotaSpec => []UsageIsAccounted
<1>1. QuotaInv => UsageIsAccounted
  BY DEF QuotaInv
<1> QED
  BY <1>1, QuotaInvariant, PTL
=============================================================================
