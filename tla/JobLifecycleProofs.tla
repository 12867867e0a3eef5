------------------------- MODULE JobLifecycleProofs -------------------------
(***************************************************************************)
(* Theorems about JobLifecycle, for every set of threads and every value   *)
(* of the constants. All of them rest on one inductive invariant, IInv.    *)
(***************************************************************************)
EXTENDS JobLifecycle, TLAPS

\* Nothing has happened to a case that is not there.
AbsentIsUntouched ==
  status = "absent" =>
    /\ jobStatus = "none" /\ attempt = 0 /\ position = Case!NoPosition
    /\ \A t \in Thread : pc[t] = "idle"

\* Without an attempt there is no job, and no thread past the classification.
NoWorkBeforeAttempt ==
  attempt = 0 =>
    /\ jobStatus = "none"
    /\ \A t \in Thread : pc[t] \in {"idle", "classify"}

\* What a thread is doing says what it has: a classifier has the case in its
\* first status, a worker has a claim unless it is the direct triage.
ThreadsConsistent ==
  \A t \in Thread :
    /\ pc[t] = "classify" => status = "classifying"
    /\ pc[t] = "enqueue_direct" => kind = "generic_triage"
    /\ pc[t] = "reason" => (run[t] > 0 \/ kind = "generic_triage")
    /\ pc[t] \in {"check", "failing", "giveup", "complete"} => run[t] > 0

PositionIssued == position.attempt <= attempt

\* The inductive invariant. RetryBudget needs a failing worker to have a claim
\* (ThreadsConsistent, ClaimsAreDistinct), that needs the kind of the case to
\* stand once anything runs (ClassifyingIsPrivate, AbsentIsUntouched).
IInv ==
  /\ TypeOK
  /\ ClaimsAreDistinct
  /\ RetryBudget
  /\ ClassifyingIsPrivate
  /\ AbsentIsUntouched
  /\ NoWorkBeforeAttempt
  /\ ThreadsConsistent
  /\ PositionIssued

-----------------------------------------------------------------------------
\* A case that is not there yet satisfies the invariant.
LEMMA InitEstablishes == Init => IInv
<1> SUFFICES ASSUME Init PROVE IInv
  OBVIOUS
<1>1. TypeOK
  <2>1. status \in Case!Status /\ attempt \in Nat /\ position \in Case!Position
    BY LifecycleAssumption
    DEF Init, Kind, JobStatus, Pc, Case!Status, Case!Position, Case!NoPosition
  <2>2. fresh \in BOOLEAN /\ kind \in Kind
    BY LifecycleAssumption
    DEF Init, Kind, JobStatus, Pc, Case!Status, Case!Position, Case!NoPosition
  <2>3. jobStatus \in JobStatus /\ attemptCount \in 0..MaxAttempts
    BY LifecycleAssumption
    DEF Init, Kind, JobStatus, Pc, Case!Status, Case!Position, Case!NoPosition
  <2>4. /\ due \in BOOLEAN /\ leaseExpired \in BOOLEAN
        /\ cancelRequested \in BOOLEAN /\ cancelled \in BOOLEAN
    BY LifecycleAssumption
    DEF Init, Kind, JobStatus, Pc, Case!Status, Case!Position, Case!NoPosition
  <2>5. pc \in [Thread -> Pc] /\ held \in [Thread -> Nat]
    BY LifecycleAssumption
    DEF Init, Kind, JobStatus, Pc, Case!Status, Case!Position, Case!NoPosition
  <2>6. sawStale \in [Thread -> BOOLEAN]
    BY LifecycleAssumption
    DEF Init, Kind, JobStatus, Pc, Case!Status, Case!Position, Case!NoPosition
  <2>7. run \in [Thread -> Nat] /\ deaths \in 0..MaxDeaths
    BY LifecycleAssumption
    DEF Init, Kind, JobStatus, Pc, Case!Status, Case!Position, Case!NoPosition
  <2> QED
    BY <2>1, <2>2, <2>3, <2>4, <2>5, <2>6, <2>7 DEF TypeOK
<1>2. /\ ClaimsAreDistinct /\ RetryBudget /\ ClassifyingIsPrivate
      /\ AbsentIsUntouched /\ NoWorkBeforeAttempt /\ ThreadsConsistent
  BY DEF Init, ClaimsAreDistinct, RetryBudget, ClassifyingIsPrivate,
         AbsentIsUntouched, NoWorkBeforeAttempt, ThreadsConsistent
<1>3. PositionIssued
  BY DEF Init, PositionIssued, Case!NoPosition
<1> QED
  BY <1>1, <1>2, <1>3 DEF IInv

\* Every step preserves the invariant, action by action.
LEMMA StepPreserves == IInv /\ [Next]_vars => IInv'
<1> SUFFICES ASSUME IInv, [Next]_vars PROVE IInv'
  OBVIOUS
<1> USE LifecycleAssumption
    DEF IInv, TypeOK, ClaimsAreDistinct, RetryBudget, ClassifyingIsPrivate,
        AbsentIsUntouched, NoWorkBeforeAttempt, ThreadsConsistent, PositionIssued,
        Kind, JobStatus, Waiting, Active, Pc,
        Case!Status, Case!Position, Case!NoPosition,
        decisionVars, jobVars, threadVars, Goto, Leave, Holds, SetStatus, NewAttempt
\* Requests and the handlers that serve them.
<1>1. ASSUME NEW t \in Thread, Create(t) PROVE IInv'
  BY <1>1 DEF Create
<1>2. ASSUME NEW t \in Thread, ClassifyFails(t) PROVE IInv'
  BY <1>2 DEF ClassifyFails
<1>3. ASSUME NEW t \in Thread, ClassifyDone(t) PROVE IInv'
  BY <1>3 DEF ClassifyDone
<1>4. ASSUME NEW t \in Thread, AskForInput(t) PROVE IInv'
  BY <1>4 DEF AskForInput
<1>5. ASSUME NEW t \in Thread, Continue(t) PROVE IInv'
  BY <1>5 DEF Continue
<1>6. ASSUME NEW t \in Thread, Enqueue(t) PROVE IInv'
  <2>1. TypeOK'
    <3>1. /\ status' \in Case!Status /\ attempt' \in Nat /\ position' \in Case!Position
          /\ fresh' \in BOOLEAN /\ kind' \in Kind
      BY <1>6 DEF Enqueue
    <3>2. /\ jobStatus' \in JobStatus /\ attemptCount' \in 0..MaxAttempts /\ due' \in BOOLEAN
          /\ leaseExpired' \in BOOLEAN
          /\ cancelRequested' \in BOOLEAN /\ cancelled' \in BOOLEAN
      BY <1>6 DEF Enqueue
    <3>3. /\ pc' \in [Thread -> Pc] /\ held' \in [Thread -> Nat]
          /\ sawStale' \in [Thread -> BOOLEAN] /\ run' \in [Thread -> Nat]
          /\ deaths' \in 0..MaxDeaths
      BY <1>6 DEF Enqueue
    <3> QED
      BY <3>1, <3>2, <3>3
  <2>2. ClaimsAreDistinct' /\ RetryBudget' /\ PositionIssued'
    BY <1>6 DEF Enqueue
  <2>3. ClassifyingIsPrivate' /\ AbsentIsUntouched' /\ NoWorkBeforeAttempt'
    BY <1>6 DEF Enqueue
  <2>4. ThreadsConsistent'
    BY <1>6 DEF Enqueue
  <2> QED
    BY <2>1, <2>2, <2>3, <2>4
<1>7. ASSUME NEW t \in Thread, RespondAnswer(t) PROVE IInv'
  BY <1>7 DEF RespondAnswer
<1>8. ASSUME NEW t \in Thread, RespondRetry(t) PROVE IInv'
  BY <1>8 DEF RespondRetry
<1>9. ASSUME NEW t \in Thread, Requeue(t) PROVE IInv'
  BY <1>9 DEF Requeue
<1>10. ASSUME NEW t \in Thread, Cancel(t) PROVE IInv'
  BY <1>10 DEF Cancel
<1>11. ASSUME NEW t \in Thread, CancelStatus(t) PROVE IInv'
  BY <1>11 DEF CancelStatus
\* Discovery and claims.
<1>12. ASSUME NEW t \in Thread, Dispatch(t) PROVE IInv'
  <2>1. TypeOK'
    BY <1>12 DEF Dispatch, Discoverable
  <2>2. ClaimsAreDistinct' /\ RetryBudget' /\ PositionIssued'
    BY <1>12 DEF Dispatch, Discoverable
  <2>3. ClassifyingIsPrivate' /\ AbsentIsUntouched' /\ NoWorkBeforeAttempt'
    BY <1>12 DEF Dispatch, Discoverable
  <2>4. ThreadsConsistent'
    BY <1>12 DEF Dispatch, Discoverable
  <2> QED
    BY <2>1, <2>2, <2>3, <2>4
<1>13. ASSUME NEW t \in Thread, ReadForClaim(t) PROVE IInv'
  BY <1>13 DEF ReadForClaim
<1>14. ASSUME NEW t \in Thread, ClaimLost(t) PROVE IInv'
  BY <1>14 DEF ClaimLost
<1>15. ASSUME NEW t \in Thread, Claim(t) PROVE IInv'
  <2>1. TypeOK'
    <3>1. CASE sawStale[t]
      <4>1. status' \in Case!Status /\ attempt' \in Nat /\ position' \in Case!Position
        BY <1>15, <3>1 DEF Claim, Claimable
      <4>2. fresh' \in BOOLEAN /\ kind' \in Kind
        BY <1>15, <3>1 DEF Claim, Claimable
      <4>3. jobStatus' \in JobStatus /\ attemptCount' \in 0..MaxAttempts
        BY <1>15, <3>1 DEF Claim, Claimable
      <4>4. /\ due' \in BOOLEAN /\ leaseExpired' \in BOOLEAN
            /\ cancelRequested' \in BOOLEAN /\ cancelled' \in BOOLEAN
        BY <1>15, <3>1 DEF Claim, Claimable
      <4>5. pc' \in [Thread -> Pc] /\ held' \in [Thread -> Nat]
        BY <1>15, <3>1 DEF Claim, Claimable
      <4>6. sawStale' \in [Thread -> BOOLEAN]
        BY <1>15, <3>1 DEF Claim, Claimable
      <4>7. run' \in [Thread -> Nat] /\ deaths' \in 0..MaxDeaths
        BY <1>15, <3>1 DEF Claim, Claimable
      <4> QED
        BY <4>1, <4>2, <4>3, <4>4, <4>5, <4>6, <4>7
    <3>2. CASE ~sawStale[t]
      <4>1. status' \in Case!Status /\ attempt' \in Nat /\ position' \in Case!Position
        BY <1>15, <3>2 DEF Claim, Claimable
      <4>2. fresh' \in BOOLEAN /\ kind' \in Kind
        BY <1>15, <3>2 DEF Claim, Claimable
      <4>3. jobStatus' \in JobStatus /\ attemptCount' \in 0..MaxAttempts
        BY <1>15, <3>2 DEF Claim, Claimable
      <4>4. /\ due' \in BOOLEAN /\ leaseExpired' \in BOOLEAN
            /\ cancelRequested' \in BOOLEAN /\ cancelled' \in BOOLEAN
        BY <1>15, <3>2 DEF Claim, Claimable
      <4>5. pc' \in [Thread -> Pc] /\ held' \in [Thread -> Nat]
        BY <1>15, <3>2 DEF Claim, Claimable
      <4>6. sawStale' \in [Thread -> BOOLEAN]
        BY <1>15, <3>2 DEF Claim, Claimable
      <4>7. run' \in [Thread -> Nat] /\ deaths' \in 0..MaxDeaths
        BY <1>15, <3>2 DEF Claim, Claimable
      <4> QED
        BY <4>1, <4>2, <4>3, <4>4, <4>5, <4>6, <4>7
    <3> QED
      BY <3>1, <3>2
  <2>2. ClaimsAreDistinct' /\ RetryBudget' /\ PositionIssued'
    BY <1>15 DEF Claim, Claimable
  <2>3. ClassifyingIsPrivate' /\ AbsentIsUntouched' /\ NoWorkBeforeAttempt'
    BY <1>15 DEF Claim, Claimable
  <2>4. ThreadsConsistent'
    BY <1>15 DEF Claim, Claimable
  <2> QED
    BY <2>1, <2>2, <2>3, <2>4
\* Workers.
<1>16. ASSUME NEW t \in Thread, CheckCancelled(t) PROVE IInv'
  <2>1. TypeOK'
    <3>1. CASE cancelRequested
      <4>1. status' \in Case!Status /\ attempt' \in Nat /\ position' \in Case!Position
        BY <1>16, <3>1 DEF CheckCancelled
      <4>2. fresh' \in BOOLEAN /\ kind' \in Kind
        BY <1>16, <3>1 DEF CheckCancelled
      <4>3. jobStatus' \in JobStatus /\ attemptCount' \in 0..MaxAttempts
        BY <1>16, <3>1 DEF CheckCancelled
      <4>4. /\ due' \in BOOLEAN /\ leaseExpired' \in BOOLEAN
            /\ cancelRequested' \in BOOLEAN /\ cancelled' \in BOOLEAN
        BY <1>16, <3>1 DEF CheckCancelled
      <4>5. pc' \in [Thread -> Pc] /\ held' \in [Thread -> Nat]
        BY <1>16, <3>1 DEF CheckCancelled
      <4>6. sawStale' \in [Thread -> BOOLEAN]
        BY <1>16, <3>1 DEF CheckCancelled
      <4>7. run' \in [Thread -> Nat] /\ deaths' \in 0..MaxDeaths
        BY <1>16, <3>1 DEF CheckCancelled
      <4> QED
        BY <4>1, <4>2, <4>3, <4>4, <4>5, <4>6, <4>7
    <3>2. CASE ~cancelRequested
      BY <1>16, <3>2 DEF CheckCancelled
    <3> QED
      BY <3>1, <3>2
  <2>2. ClaimsAreDistinct' /\ RetryBudget' /\ PositionIssued'
    BY <1>16 DEF CheckCancelled
  <2>3. ClassifyingIsPrivate' /\ AbsentIsUntouched' /\ NoWorkBeforeAttempt'
    BY <1>16 DEF CheckCancelled
  <2>4. ThreadsConsistent'
    BY <1>16 DEF CheckCancelled
  <2> QED
    BY <2>1, <2>2, <2>3, <2>4
<1>17. ASSUME NEW t \in Thread, PublishResult(t) PROVE IInv'
  <2>1. TypeOK'
    BY <1>17 DEF PublishResult, AfterRun
  <2>2. ClaimsAreDistinct' /\ RetryBudget' /\ PositionIssued'
    BY <1>17 DEF PublishResult, AfterRun
  <2>3. ClassifyingIsPrivate' /\ AbsentIsUntouched' /\ NoWorkBeforeAttempt'
    BY <1>17 DEF PublishResult, AfterRun
  <2>4. ThreadsConsistent'
    BY <1>17 DEF PublishResult, AfterRun
  <2> QED
    BY <2>1, <2>2, <2>3, <2>4
<1>18. ASSUME NEW t \in Thread, DiscardResult(t) PROVE IInv'
  <2>1. TypeOK'
    <3>1. /\ status' \in Case!Status /\ attempt' \in Nat /\ position' \in Case!Position
          /\ fresh' \in BOOLEAN /\ kind' \in Kind
      BY <1>18 DEF DiscardResult, AfterRun
    <3>2. /\ jobStatus' \in JobStatus /\ attemptCount' \in 0..MaxAttempts /\ due' \in BOOLEAN
          /\ leaseExpired' \in BOOLEAN
          /\ cancelRequested' \in BOOLEAN /\ cancelled' \in BOOLEAN
      BY <1>18 DEF DiscardResult, AfterRun
    <3>3. /\ pc' \in [Thread -> Pc] /\ held' \in [Thread -> Nat]
          /\ sawStale' \in [Thread -> BOOLEAN] /\ run' \in [Thread -> Nat]
          /\ deaths' \in 0..MaxDeaths
      BY <1>18 DEF DiscardResult, AfterRun
    <3> QED
      BY <3>1, <3>2, <3>3
  <2>2. ClaimsAreDistinct' /\ RetryBudget' /\ PositionIssued'
    BY <1>18 DEF DiscardResult, AfterRun
  <2>3. ClassifyingIsPrivate' /\ AbsentIsUntouched' /\ NoWorkBeforeAttempt'
    BY <1>18 DEF DiscardResult, AfterRun
  <2>4. ThreadsConsistent'
    BY <1>18 DEF DiscardResult, AfterRun
  <2> QED
    BY <2>1, <2>2, <2>3, <2>4
<1>19. ASSUME NEW t \in Thread, PrimaryReasoningFails(t) PROVE IInv'
  BY <1>19 DEF PrimaryReasoningFails, WriteProviderUnavailable
<1>20. ASSUME NEW t \in Thread, WorkerRaises(t) PROVE IInv'
  BY <1>20 DEF WorkerRaises
<1>21. ASSUME NEW t \in Thread, TriageFails(t) PROVE IInv'
  <2>1. TypeOK'
    <3>1. /\ status' \in Case!Status /\ attempt' \in Nat /\ position' \in Case!Position
          /\ fresh' \in BOOLEAN /\ kind' \in Kind
      BY <1>21 DEF TriageFails, AfterRun, WriteProviderUnavailable
    <3>2. /\ jobStatus' \in JobStatus /\ attemptCount' \in 0..MaxAttempts /\ due' \in BOOLEAN
          /\ leaseExpired' \in BOOLEAN
          /\ cancelRequested' \in BOOLEAN /\ cancelled' \in BOOLEAN
      BY <1>21 DEF TriageFails, AfterRun, WriteProviderUnavailable
    <3>3. /\ pc' \in [Thread -> Pc] /\ held' \in [Thread -> Nat]
          /\ sawStale' \in [Thread -> BOOLEAN] /\ run' \in [Thread -> Nat]
          /\ deaths' \in 0..MaxDeaths
      BY <1>21 DEF TriageFails, AfterRun, WriteProviderUnavailable
    <3> QED
      BY <3>1, <3>2, <3>3
  <2>2. ClaimsAreDistinct' /\ RetryBudget' /\ PositionIssued'
    BY <1>21 DEF TriageFails, AfterRun, WriteProviderUnavailable
  <2>3. ClassifyingIsPrivate' /\ AbsentIsUntouched' /\ NoWorkBeforeAttempt'
    BY <1>21 DEF TriageFails, AfterRun, WriteProviderUnavailable
  <2>4. ThreadsConsistent'
    BY <1>21 DEF TriageFails, AfterRun, WriteProviderUnavailable
  <2> QED
    BY <2>1, <2>2, <2>3, <2>4
<1>22. ASSUME NEW t \in Thread, FailOrRetry(t) PROVE IInv'
  <2>1. TypeOK'
    <3>1. CASE attemptCount >= MaxAttempts
      BY <1>22, <3>1 DEF FailOrRetry
    <3>2. CASE ~(attemptCount >= MaxAttempts)
      <4>1. status' \in Case!Status /\ attempt' \in Nat /\ position' \in Case!Position
        BY <1>22, <3>2 DEF FailOrRetry
      <4>2. fresh' \in BOOLEAN /\ kind' \in Kind
        BY <1>22, <3>2 DEF FailOrRetry
      <4>3. jobStatus' \in JobStatus /\ attemptCount' \in 0..MaxAttempts
        BY <1>22, <3>2 DEF FailOrRetry
      <4>4. /\ due' \in BOOLEAN /\ leaseExpired' \in BOOLEAN
            /\ cancelRequested' \in BOOLEAN /\ cancelled' \in BOOLEAN
        BY <1>22, <3>2 DEF FailOrRetry
      <4>5. pc' \in [Thread -> Pc] /\ held' \in [Thread -> Nat]
        BY <1>22, <3>2 DEF FailOrRetry
      <4>6. sawStale' \in [Thread -> BOOLEAN]
        BY <1>22, <3>2 DEF FailOrRetry
      <4>7. run' \in [Thread -> Nat] /\ deaths' \in 0..MaxDeaths
        BY <1>22, <3>2 DEF FailOrRetry
      <4> QED
        BY <4>1, <4>2, <4>3, <4>4, <4>5, <4>6, <4>7
    <3> QED
      BY <3>1, <3>2
  <2>2. ClaimsAreDistinct' /\ RetryBudget' /\ PositionIssued'
    BY <1>22 DEF FailOrRetry
  <2>3. ClassifyingIsPrivate' /\ AbsentIsUntouched' /\ NoWorkBeforeAttempt'
    BY <1>22 DEF FailOrRetry
  <2>4. ThreadsConsistent'
    BY <1>22 DEF FailOrRetry
  <2> QED
    BY <2>1, <2>2, <2>3, <2>4
<1>23. ASSUME NEW t \in Thread, GiveUp(t) PROVE IInv'
  BY <1>23 DEF GiveUp, WriteProviderUnavailable
<1>24. ASSUME NEW t \in Thread, Complete(t) PROVE IInv'
  BY <1>24 DEF Complete
\* The environment.
<1>25. ASSUME NEW t \in Thread, Tick(t) PROVE IInv'
  BY <1>25 DEF Tick
<1>26. ASSUME NEW t \in Thread, Die(t) PROVE IInv'
  BY <1>26 DEF Die
<1>27. CASE HeartbeatAges
  <2>1. TypeOK'
    BY <1>27 DEF HeartbeatAges
  <2>2. ClaimsAreDistinct' /\ RetryBudget' /\ PositionIssued'
    BY <1>27 DEF HeartbeatAges
  <2>3. ClassifyingIsPrivate' /\ AbsentIsUntouched' /\ NoWorkBeforeAttempt'
    BY <1>27 DEF HeartbeatAges
  <2>4. ThreadsConsistent'
    BY <1>27 DEF HeartbeatAges
  <2> QED
    BY <2>1, <2>2, <2>3, <2>4
<1>28. CASE BecomesDue
  BY <1>28 DEF BecomesDue
<1>29. CASE LeaseExpires
  BY <1>29 DEF LeaseExpires
\* Stuttering.
<1>30. CASE UNCHANGED vars
  BY <1>30 DEF vars
<1> QED
  BY <1>1, <1>2, <1>3, <1>4, <1>5, <1>6, <1>7, <1>8, <1>9, <1>10,
     <1>11, <1>12, <1>13, <1>14, <1>15, <1>16, <1>17, <1>18, <1>19, <1>20,
     <1>21, <1>22, <1>23, <1>24, <1>25, <1>26, <1>27, <1>28, <1>29, <1>30
  DEF Next, TimePasses, Request, Proceed

\* Type correctness, with the budget of claims: attempt_count <= max_attempts.
THEOREM TypeCorrect == Spec => []TypeOK
<1>1. IInv => TypeOK
  BY DEF IInv
<1> QED
  BY InitEstablishes, StepPreserves, <1>1, PTL DEF Spec

\* fail_or_retry is terminal exactly when the claims are used up.
THEOREM RetriesAreBudgeted == Spec => []RetryBudget
<1>1. IInv => RetryBudget
  BY DEF IInv
<1> QED
  BY InitEstablishes, StepPreserves, <1>1, PTL DEF Spec

\* No two live workers are under the same claim, however many threads there
\* are: each claim that job_queue.claim grants is counted.
THEOREM ClaimsDistinct == Spec => []ClaimsAreDistinct
<1>1. IInv => ClaimsAreDistinct
  BY DEF IInv
<1> QED
  BY InitEstablishes, StepPreserves, <1>1, PTL DEF Spec

\* Until it is classified the case is its creator's alone.
THEOREM ClassifyingPrivate == Spec => []ClassifyingIsPrivate
<1>1. IInv => ClassifyingIsPrivate
  BY DEF IInv
<1> QED
  BY InitEstablishes, StepPreserves, <1>1, PTL DEF Spec

-----------------------------------------------------------------------------
\* A step of any thread but t leaves t where it is: who moves is who acts.
LEMMA OnlyActorMoves ==
  ASSUME TypeOK, NEW t \in Thread, NEW u \in Thread, t # u,
         Request(u) \/ Proceed(u) \/ Dispatch(u) \/ Tick(u) \/ Die(u)
  PROVE  pc'[t] = pc[t]
<1> USE DEF TypeOK, threadVars, Goto, Leave, AfterRun
<1>1. CASE Request(u)
  BY <1>1 DEF Request, Create, Continue, RespondAnswer, RespondRetry, Cancel
<1>2. CASE ClassifyFails(u) \/ ClassifyDone(u) \/ AskForInput(u) \/ Enqueue(u)
           \/ Requeue(u) \/ CancelStatus(u)
  BY <1>2 DEF ClassifyFails, ClassifyDone, AskForInput, Enqueue, Requeue, CancelStatus
<1>3. CASE ReadForClaim(u) \/ ClaimLost(u) \/ Claim(u) \/ Dispatch(u)
  BY <1>3 DEF ReadForClaim, ClaimLost, Claim, Dispatch
<1>4. CASE CheckCancelled(u) \/ PublishResult(u) \/ DiscardResult(u)
  BY <1>4 DEF CheckCancelled, PublishResult, DiscardResult
<1>5. CASE PrimaryReasoningFails(u) \/ WorkerRaises(u) \/ TriageFails(u)
  BY <1>5 DEF PrimaryReasoningFails, WorkerRaises, TriageFails
<1>6. CASE FailOrRetry(u) \/ GiveUp(u) \/ Complete(u)
  BY <1>6 DEF FailOrRetry, GiveUp, Complete
<1>7. CASE Tick(u) \/ Die(u)
  BY <1>7 DEF Tick, Die
<1> QED
  BY <1>1, <1>2, <1>3, <1>4, <1>5, <1>6, <1>7 DEF Proceed

\* A step of a worker whose attempt is not the current one leaves the case.
LEMMA SupersededStep ==
  ASSUME NEW t \in Thread, pc[t] \in WorkerPc, ~Holds(t),
         Request(t) \/ Proceed(t) \/ Dispatch(t) \/ Tick(t) \/ Die(t)
  PROVE  UNCHANGED <<status, attempt, position, fresh>>
<1> USE DEF WorkerPc, decisionVars
<1>1. CASE Request(t) \/ Dispatch(t) \/ Tick(t)
  BY <1>1 DEF Request, Create, Continue, RespondAnswer, RespondRetry, Cancel, Dispatch, Tick
<1>2. CASE Proceed(t)
  BY <1>2
  DEF Proceed, ClassifyFails, ClassifyDone, AskForInput, Enqueue, Requeue, CancelStatus,
      ReadForClaim, ClaimLost, Claim, CheckCancelled, PublishResult, DiscardResult,
      PrimaryReasoningFails, WorkerRaises, TriageFails, FailOrRetry, GiveUp, Complete,
      WriteProviderUnavailable
<1>3. CASE Die(t)
  BY <1>3 DEF Die
<1> QED
  BY <1>1, <1>2, <1>3

\* Fencing, for any number of workers: a superseded worker changes nothing of
\* the case, by its result, its failure or the exhaustion of its retries.
THEOREM SupersededWritesNothing == Spec => SupersededNeverWrites
<1> DEFINE Fenced == \A t \in Thread :
                       (pc[t] \in WorkerPc /\ ~Holds(t) /\ pc'[t] # pc[t])
                         => UNCHANGED <<status, attempt, position, fresh>>
<1>1. IInv /\ [Next]_vars => [Fenced]_vars
  <2> SUFFICES ASSUME IInv, Next,
                      NEW t \in Thread, pc[t] \in WorkerPc, ~Holds(t), pc'[t] # pc[t]
               PROVE  UNCHANGED <<status, attempt, position, fresh>>
    OBVIOUS
  <2>1. ~TimePasses
    BY DEF TimePasses, HeartbeatAges, BecomesDue, LeaseExpires, threadVars
  <2>2. PICK u \in Thread : Request(u) \/ Proceed(u) \/ Dispatch(u) \/ Tick(u) \/ Die(u)
    BY <2>1 DEF Next
  <2>3. u = t
    BY <2>2, OnlyActorMoves DEF IInv
  <2> QED
    BY <2>2, <2>3, SupersededStep
<1> QED
  BY InitEstablishes, StepPreserves, <1>1, PTL DEF Spec, SupersededNeverWrites

-----------------------------------------------------------------------------
\* Every step is a step of the fenced case, or leaves its variables alone.
LEMMA StepRefines == IInv /\ [Next]_vars => [Case!Next]_(Case!caseVars)
<1> SUFFICES ASSUME IInv, [Next]_vars PROVE [Case!Next]_(Case!caseVars)
  OBVIOUS
<1> USE DEF Case!caseVars, decisionVars, SetStatus
\* A new attempt, whoever starts it, supersedes.
<1>1. ASSUME NEW t \in Thread,
             \/ ClassifyDone(t) \/ Continue(t) \/ RespondAnswer(t) \/ RespondRetry(t)
             \/ Claim(t)
      PROVE  Case!Supersede \/ UNCHANGED Case!caseVars
  BY <1>1 DEF ClassifyDone, Continue, RespondAnswer, RespondRetry, Claim, NewAttempt,
              Case!Supersede
<1>2. ASSUME NEW t \in Thread, Create(t)
      PROVE  Case!Open
  BY <1>2 DEF Create, Case!Open
\* The current attempt publishes: there is one, for a worker is running.
<1>3. ASSUME NEW t \in Thread, PublishResult(t)
      PROVE  Case!Publish
  <2>1. attempt > 0
    BY <1>3 DEF PublishResult, IInv, TypeOK, NoWorkBeforeAttempt
  <2>2. position' \in Case!Position /\ position'.attempt = attempt
    BY <1>3 DEF PublishResult, Holds, IInv, TypeOK, Case!Position
  <2> QED
    BY <1>3, <2>1, <2>2 DEF PublishResult, Case!Publish
\* The case goes back to its user; it is there, for a thread is at work on it.
<1>4. ASSUME NEW t \in Thread,
             \/ ClassifyFails(t) \/ AskForInput(t) \/ CancelStatus(t)
             \/ PrimaryReasoningFails(t) \/ TriageFails(t) \/ GiveUp(t)
      PROVE  Case!HandBack \/ UNCHANGED Case!caseVars
  <2>1. status # "absent"
    BY <1>4 DEF ClassifyFails, AskForInput, CancelStatus, PrimaryReasoningFails,
                TriageFails, GiveUp, IInv, AbsentIsUntouched
  <2> QED
    BY <1>4, <2>1 DEF ClassifyFails, AskForInput, CancelStatus, PrimaryReasoningFails,
                      TriageFails, GiveUp, WriteProviderUnavailable, Case!HandBack
\* Everything else moves the job, a thread or the clock.
<1>5. ASSUME NEW t \in Thread,
             \/ Enqueue(t) \/ Requeue(t) \/ Cancel(t) \/ Dispatch(t)
             \/ ReadForClaim(t) \/ ClaimLost(t) \/ CheckCancelled(t) \/ DiscardResult(t)
             \/ WorkerRaises(t) \/ FailOrRetry(t) \/ Complete(t) \/ Tick(t) \/ Die(t)
      PROVE  UNCHANGED Case!caseVars
  BY <1>5 DEF Enqueue, Requeue, Cancel, Dispatch, ReadForClaim, ClaimLost, CheckCancelled,
              DiscardResult, WorkerRaises, FailOrRetry, Complete, Tick, Die
<1>6. CASE TimePasses
  BY <1>6 DEF TimePasses, HeartbeatAges, BecomesDue, LeaseExpires
<1>7. CASE UNCHANGED vars
  BY <1>7 DEF vars
<1> QED
  BY <1>1, <1>2, <1>3, <1>4, <1>5, <1>6, <1>7 DEF Next, Request, Proceed, Case!Next

\* The rows and their handlers implement the fenced case: only the current
\* attempt publishes, and a published position stands while the case is completed.
THEOREM ImplementsFencedCase == Spec => FencedSpec
<1>1. Init => Case!Init
  BY DEF Init, Case!Init
<1> QED
  BY <1>1, InitEstablishes, StepPreserves, StepRefines, PTL
  DEF Spec, FencedSpec, Case!Spec

\* The position shown never goes back to that of an older attempt: from the
\* refinement, for whatever publishes is the current attempt and thus the newest.
THEOREM NewerStands == Spec => NewerResultStands
<1>1. IInv /\ [Next]_vars => [position'.attempt >= position.attempt]_vars
  <2> SUFFICES ASSUME IInv, [Next]_vars PROVE position'.attempt >= position.attempt
    OBVIOUS
  <2>1. position.attempt \in Nat /\ position.attempt <= attempt
    BY DEF IInv, TypeOK, PositionIssued, Case!Position
  <2>2. CASE Case!Publish
    BY <2>1, <2>2 DEF Case!Publish, IInv, TypeOK
  <2>3. CASE position' = position
    BY <2>1, <2>3
  <2> QED
    BY <2>2, <2>3, StepRefines
    DEF Case!Next, Case!Open, Case!Supersede, Case!HandBack, Case!caseVars
<1> QED
  BY InitEstablishes, StepPreserves, <1>1, PTL DEF Spec, NewerResultStands

-----------------------------------------------------------------------------
\* The row remembers a cancellation: nothing but requeue clears its flag.
CancellationStands == cancelled => cancelRequested

LEMMA CancellationStays == CancellationStands /\ [Next]_vars => CancellationStands'
<1> SUFFICES ASSUME CancellationStands, [Next]_vars PROVE CancellationStands'
  OBVIOUS
<1> USE DEF CancellationStands, jobVars
<1>1. ASSUME NEW t \in Thread, Requeue(t) \/ Cancel(t) PROVE CancellationStands'
  BY <1>1 DEF Requeue, Cancel
<1>2. ASSUME NEW t \in Thread,
             \/ Create(t) \/ Continue(t) \/ RespondAnswer(t) \/ RespondRetry(t)
             \/ Dispatch(t) \/ Tick(t) \/ Die(t)
      PROVE  CancellationStands'
  BY <1>2 DEF Create, Continue, RespondAnswer, RespondRetry, Dispatch, Tick, Die
<1>3. ASSUME NEW t \in Thread, Proceed(t), ~Requeue(t) PROVE CancellationStands'
  <2>1. CASE ClassifyFails(t) \/ ClassifyDone(t) \/ AskForInput(t) \/ CancelStatus(t)
    BY <2>1 DEF ClassifyFails, ClassifyDone, AskForInput, CancelStatus
  <2>2. CASE Enqueue(t) \/ FailOrRetry(t) \/ Complete(t)
    BY <2>2 DEF Enqueue, FailOrRetry, Complete
  <2>3. CASE ReadForClaim(t) \/ ClaimLost(t) \/ Claim(t) \/ CheckCancelled(t)
    BY <2>3 DEF ReadForClaim, ClaimLost, Claim, CheckCancelled
  <2>4. CASE PublishResult(t) \/ DiscardResult(t) \/ PrimaryReasoningFails(t)
             \/ WorkerRaises(t) \/ TriageFails(t) \/ GiveUp(t)
    BY <2>4 DEF PublishResult, DiscardResult, PrimaryReasoningFails, WorkerRaises,
                TriageFails, GiveUp
  <2> QED
    BY <1>3, <2>1, <2>2, <2>3, <2>4 DEF Proceed
<1>4. CASE TimePasses
  BY <1>4 DEF TimePasses, HeartbeatAges, BecomesDue, LeaseExpires
<1>5. CASE UNCHANGED vars
  BY <1>5 DEF vars
<1> QED
  BY <1>1, <1>2, <1>3, <1>4, <1>5 DEF Next, Request

\* After POST .../cancel, and until job_queue.requeue, claim grants nothing and
\* is_cancelled stops whoever had a claim, for any number of workers that report
\* late: fail_or_retry and complete write the status of the job, never its flag.
THEOREM CancellationStopsClaims == Spec => CancelStopsClaims
<1> DEFINE Stopped == /\ attemptCount' = attemptCount
                      /\ \A t \in Thread : ~(pc[t] = "check" /\ pc'[t] = "reason")
<1>1. IInv /\ CancellationStands /\ [Next]_vars => [cancelled => Stopped]_vars
  <2> SUFFICES ASSUME IInv, Next, cancelRequested PROVE Stopped
    BY DEF CancellationStands
  <2> USE DEF jobVars
  <2>1. attemptCount' = attemptCount
    <3>1. ASSUME NEW t \in Thread, Request(t) PROVE attemptCount' = attemptCount
      BY <3>1 DEF Request, Create, Continue, RespondAnswer, RespondRetry, Cancel
    <3>2. ASSUME NEW t \in Thread, Proceed(t) PROVE attemptCount' = attemptCount
      BY <3>2
      DEF Proceed, ClassifyFails, ClassifyDone, AskForInput, Enqueue, Requeue,
          CancelStatus, ReadForClaim, ClaimLost, Claim, Claimable, CheckCancelled,
          PublishResult, DiscardResult, PrimaryReasoningFails, WorkerRaises, TriageFails,
          FailOrRetry, GiveUp, Complete
    <3>3. ASSUME NEW t \in Thread, Dispatch(t) \/ Tick(t) \/ Die(t)
          PROVE  attemptCount' = attemptCount
      BY <3>3 DEF Dispatch, Tick, Die
    <3>4. CASE TimePasses
      BY <3>4 DEF TimePasses, HeartbeatAges, BecomesDue, LeaseExpires
    <3> QED
      BY <3>1, <3>2, <3>3, <3>4 DEF Next
  <2>2. ASSUME NEW t \in Thread, pc[t] = "check", pc'[t] = "reason" PROVE FALSE
    <3>1. ~TimePasses
      BY <2>2 DEF TimePasses, HeartbeatAges, BecomesDue, LeaseExpires, threadVars
    <3>2. PICK u \in Thread : Request(u) \/ Proceed(u) \/ Dispatch(u) \/ Tick(u) \/ Die(u)
      BY <3>1 DEF Next
    <3>3. u = t
      BY <2>2, <3>2, OnlyActorMoves DEF IInv
    <3>4. WorkerRaises(t) \/ CheckCancelled(t) \/ Tick(t) \/ Die(t)
      BY <2>2, <3>2, <3>3
      DEF Request, Create, Continue, RespondAnswer, RespondRetry, Cancel, Dispatch,
          Proceed, ClassifyFails, ClassifyDone, AskForInput, Enqueue, Requeue,
          CancelStatus, ReadForClaim, ClaimLost, Claim, PublishResult, DiscardResult,
          PrimaryReasoningFails, TriageFails, FailOrRetry, GiveUp, Complete
    <3> QED
      BY <2>2, <3>4
      DEF WorkerRaises, CheckCancelled, Tick, Die, Goto, Leave, threadVars, IInv, TypeOK
  <2> QED
    BY <2>1, <2>2
<1>2. Init => CancellationStands
  BY DEF Init, CancellationStands
<1> QED
  BY <1>1, <1>2, InitEstablishes, StepPreserves, CancellationStays, PTL
  DEF Spec, CancelStopsClaims

=============================================================================
