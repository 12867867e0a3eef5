---------------------------- MODULE JobLifecycle ----------------------------
(***************************************************************************)
(* The life of one commercial decision and of its reasoning job: the rows  *)
(* commercial_decisions and reasoning_jobs, the request handlers of        *)
(* app/routes/decisions.py that move them, the durable queue of            *)
(* app/pipeline/job_queue.py, the dispatcher that feeds it and the attempt *)
(* fencing of app/pipeline/attempt_fencing.py.                             *)
(*                                                                         *)
(* Every action is one committed transaction together with the control     *)
(* flow that leads to the next one, so every interleaving of transactions  *)
(* of different threads is a behaviour. Two rows of different cases share  *)
(* no lock and no column: one case is enough.                              *)
(*                                                                         *)
(* Time is abstract: three booleans say whether last_heartbeat_at is       *)
(* within the recovery grace period, whether available_at has passed and   *)
(* whether timeout_at has passed; environment actions flip them.           *)
(***************************************************************************)
EXTENDS Naturals

CONSTANTS
  Thread,           \* request handlers, background tasks, dispatcher threads
  Requests,         \* the requests that clients make in this instance
  MaxAttempts,      \* MAX_ATTEMPTS of job_queue.py
  MaxUserAttempts,  \* bound: clients start no attempt beyond this number
  MaxDeaths,        \* bound: threads that die in mid-step
  HeartbeatCovers,  \* no heartbeat ages under a live thread of its attempt
  LeaseCovers       \* no lease expires under the live thread of its claim

RequestKind == {"create", "continue", "answer", "retry", "cancel"}

ASSUME LifecycleAssumption ==
  /\ Requests \subseteq RequestKind
  /\ MaxAttempts \in Nat \ {0}
  /\ MaxUserAttempts \in Nat
  /\ MaxDeaths \in Nat
  /\ HeartbeatCovers \in BOOLEAN
  /\ LeaseCovers \in BOOLEAN

VARIABLES
  \* The row of commercial_decisions.
  status, attempt, position,
  fresh,            \* last_heartbeat_at is set and within the grace period
  kind,             \* the engine _is_general_case and job_kind choose
  \* The row of reasoning_jobs.
  jobStatus, attemptCount, due, leaseExpired, cancelRequested,
  \* The threads.
  pc,
  held,             \* the attempt id a thread carries, 0 when none
  sawStale,         \* heartbeat_stale, as the snapshot of a claim shows it
  run,              \* the ordinal of the claim it works under, 0 when none
  deaths,
  cancelled         \* history: cancelled, and since then in no request's queue

decisionVars == <<status, attempt, position, fresh, kind>>
jobVars      == <<jobStatus, attemptCount, due, leaseExpired, cancelRequested>>
threadVars   == <<pc, held, sawStale, run>>
vars         == <<decisionVars, jobVars, threadVars, deaths, cancelled>>

Case == INSTANCE FencedCase

Kind == {"specialist", "generic_triage"}

JobStatus == {"none", "queued", "running", "retry_scheduled", "completed",
              "failed", "cancelled"}

Waiting == {"queued", "retry_scheduled"}
Active  == Waiting \cup {"running"}

Pc == {"idle", "classify", "classify_update", "enqueue", "enqueue_direct",
       "recheck", "requeue", "cancelling",
       "claim", "lock", "check", "reason", "failing", "giveup", "complete"}

\* Between a won claim (or a direct start) and the end of that run.
WorkerPc == {"check", "reason", "failing", "giveup", "complete"}

-----------------------------------------------------------------------------
Init ==
  /\ status = "absent"
  /\ attempt = 0
  /\ position = Case!NoPosition
  /\ fresh = FALSE
  /\ kind = "generic_triage"
  /\ jobStatus = "none"
  /\ attemptCount = 0
  /\ due = FALSE
  /\ leaseExpired = FALSE
  /\ cancelRequested = FALSE
  /\ pc = [t \in Thread |-> "idle"]
  /\ held = [t \in Thread |-> 0]
  /\ sawStale = [t \in Thread |-> FALSE]
  /\ run = [t \in Thread |-> 0]
  /\ deaths = 0
  /\ cancelled = FALSE

Goto(t, l) ==
  /\ pc' = [pc EXCEPT ![t] = l]
  /\ UNCHANGED <<held, sawStale, run>>

\* The thread ends, or drops what it held.
Leave(t) ==
  /\ pc' = [pc EXCEPT ![t] = "idle"]
  /\ held' = [held EXCEPT ![t] = 0]
  /\ sawStale' = [sawStale EXCEPT ![t] = FALSE]
  /\ run' = [run EXCEPT ![t] = 0]

Holds(t) == held[t] = attempt

\* _update_status and _set_awaiting_input: the status, whatever it was.
SetStatus(s) ==
  /\ status' = s
  /\ UNCHANGED <<attempt, position, fresh>>

\* A fresh attempt id stored in the row, with the status and the heartbeat.
NewAttempt(t) ==
  /\ status' = "reasoning"
  /\ attempt' = attempt + 1
  /\ fresh' = TRUE
  /\ held' = [held EXCEPT ![t] = attempt + 1]
  /\ UNCHANGED position

-----------------------------------------------------------------------------
\* Broken: the job is inserted with the case, before the classification.
CreateQueued(t) ==
  /\ "create" \in Requests
  /\ pc[t] = "idle"
  /\ status = "absent"
  /\ SetStatus("classifying")
  /\ jobStatus' = "queued"
  /\ due' = TRUE
  /\ Goto(t, "classify")
  /\ UNCHANGED <<kind, attemptCount, leaseExpired, cancelRequested, deaths, cancelled>>

(***************************************************************************)
(* POST /commercial-decisions. The case is inserted as 'classifying', with *)
(* no content type: until it has one it reads as a general case. A replay  *)
(* of an existing id changes nothing and is no step.                       *)
(***************************************************************************)
Create(t) ==
  /\ "create" \in Requests
  /\ pc[t] = "idle"
  /\ status = "absent"
  /\ SetStatus("classifying")
  /\ Goto(t, "classify")
  /\ UNCHANGED <<kind, jobVars, deaths, cancelled>>

\* The classifier call raised: 503, the case is left to a retry.
ClassifyFails(t) ==
  /\ pc[t] \in {"classify", "classify_update"}
  /\ SetStatus("provider_unavailable")
  /\ Leave(t)
  /\ UNCHANGED <<kind, jobVars, deaths, cancelled>>

\* Classified, evidence stored and complete: start_new_attempt. The two
\* transactions are one step, for no other thread acts on the case before.
ClassifyDone(t) ==
  /\ pc[t] = "classify"
  /\ status = "classifying"
  /\ kind' \in Kind
  /\ NewAttempt(t)
  /\ pc' = [pc EXCEPT ![t] = "enqueue"]
  /\ UNCHANGED <<sawStale, run, jobVars, deaths, cancelled>>

\* Evidence is missing, the classification of an update does not fit its
\* case, or an answer leaves fields open: the case waits for its user.
AskForInput(t) ==
  /\ pc[t] \in {"classify", "classify_update", "recheck"}
  /\ SetStatus("awaiting_user_input")
  /\ kind' = IF pc[t] = "classify" THEN "specialist" ELSE kind
  /\ Leave(t)
  /\ UNCHANGED <<jobVars, deaths, cancelled>>

(***************************************************************************)
(* POST .../continue: the child of a completed case is inserted already    *)
(* 'reasoning', with an attempt id of its own. A specialist update is then *)
(* classified; a general one goes straight to the triage engine.           *)
(***************************************************************************)
Continue(t) ==
  /\ "continue" \in Requests
  /\ pc[t] = "idle"
  /\ status = "absent"
  /\ NewAttempt(t)
  /\ kind' \in Kind
  /\ pc' = [pc EXCEPT ![t] = IF kind' = "specialist" THEN "classify_update"
                                                     ELSE "enqueue_direct"]
  /\ UNCHANGED <<sawStale, run, jobVars, deaths, cancelled>>

\* job_queue.enqueue: a row that exists already is left alone. What follows
\* is the background task: a claim, or the triage engine without a claim.
Enqueue(t) ==
  /\ pc[t] \in {"enqueue", "classify_update", "enqueue_direct"}
  /\ IF jobStatus = "none"
       THEN /\ jobStatus' = "queued"
            /\ due' = TRUE
            /\ UNCHANGED <<attemptCount, leaseExpired, cancelRequested>>
       ELSE UNCHANGED jobVars
  /\ Goto(t, IF pc[t] = "enqueue_direct" THEN "reason" ELSE "claim")
  /\ UNCHANGED <<decisionVars, deaths, cancelled>>

(***************************************************************************)
(* POST .../respond. On a case that waits for its user the answer is       *)
(* stored and start_new_attempt claims it; on one that failed, or whose    *)
(* heartbeat is stale, try_reclaim does. Each UPDATE tests its own         *)
(* precondition again, so the reads that precede it are not steps.         *)
(***************************************************************************)
RespondAnswer(t) ==
  /\ "answer" \in Requests
  /\ attempt < MaxUserAttempts
  /\ pc[t] = "idle"
  /\ status = "awaiting_user_input"
  /\ NewAttempt(t)
  /\ pc' = [pc EXCEPT ![t] = "recheck"]
  /\ UNCHANGED <<kind, sawStale, run, jobVars, deaths, cancelled>>

RespondRetry(t) ==
  /\ "retry" \in Requests
  /\ attempt < MaxUserAttempts
  /\ pc[t] = "idle"
  /\ \/ status = "provider_unavailable"
     \/ status = "reasoning" /\ ~fresh
  /\ NewAttempt(t)
  /\ pc' = [pc EXCEPT ![t] = "requeue"]
  /\ UNCHANGED <<kind, sawStale, run, jobVars, deaths, cancelled>>

\* job_queue.requeue, an upsert: attempt_count is not among the columns.
Requeue(t) ==
  /\ pc[t] \in {"recheck", "requeue"}
  /\ jobStatus' = "queued"
  /\ due' = TRUE
  /\ cancelRequested' = FALSE
  /\ cancelled' = FALSE
  /\ Goto(t, "claim")
  /\ UNCHANGED <<attemptCount, leaseExpired, decisionVars, deaths>>

\* POST .../cancel: the job first, the status in a transaction of its own.
Cancel(t) ==
  /\ "cancel" \in Requests
  /\ pc[t] = "idle"
  /\ jobStatus \in Active
  /\ jobStatus' = "cancelled"
  /\ cancelRequested' = TRUE
  /\ cancelled' = TRUE
  /\ Goto(t, "cancelling")
  /\ UNCHANGED <<attemptCount, due, leaseExpired, decisionVars, deaths>>

CancelStatus(t) ==
  /\ pc[t] = "cancelling"
  /\ SetStatus("provider_unavailable")
  /\ Leave(t)
  /\ UNCHANGED <<kind, jobVars, deaths, cancelled>>

-----------------------------------------------------------------------------
\* Broken: discovery looks at waiting jobs only, never at a dead worker's.
DiscoverableWaiting ==
  /\ ~cancelRequested
  /\ attemptCount < MaxAttempts
  /\ jobStatus \in Waiting
  /\ due

\* An iteration of the dispatcher loop, or a thread of the startup sweep.
\* find_next_due_job and recoverable_jobs: a running job of a case that is
\* not 'reasoning' is discovered by its lease only.
Discoverable ==
  /\ ~cancelRequested
  /\ attemptCount < MaxAttempts
  /\ \/ jobStatus \in Waiting /\ due
     \/ jobStatus = "running" /\ (leaseExpired \/ (status = "reasoning" /\ ~fresh))

Dispatch(t) ==
  /\ pc[t] = "idle"
  /\ Discoverable
  /\ Goto(t, "claim")
  /\ UNCHANGED <<decisionVars, jobVars, deaths, cancelled>>

(***************************************************************************)
(* job_queue.claim. Its SELECT ... FOR UPDATE OF rj locks the row of the   *)
(* job and joins the row of the case. Under READ COMMITTED, psycopg2's and *)
(* PostgreSQL's default, a statement that waited for the lock re-reads the *)
(* locked row only: the columns of the case are those of the statement's   *)
(* snapshot. So the claim is two steps, the snapshot of the case and the   *)
(* decision under the lock, over what the job's row is by then.            *)
(***************************************************************************)
ReadForClaim(t) ==
  /\ pc[t] = "claim"
  /\ pc' = [pc EXCEPT ![t] = "lock"]
  /\ held' = [held EXCEPT ![t] = attempt]
  /\ sawStale' = [sawStale EXCEPT ![t] = ~fresh]
  /\ UNCHANGED <<run, decisionVars, jobVars, deaths, cancelled>>

\* Broken: an off-by-one in the budget of claims.
ClaimableOnceMore(t) ==
  /\ ~cancelRequested
  /\ attemptCount <= MaxAttempts
  /\ \/ jobStatus \in Waiting /\ due
     \/ jobStatus = "running" /\ (leaseExpired \/ sawStale[t])

Claimable(t) ==
  /\ ~cancelRequested
  /\ attemptCount < MaxAttempts
  /\ \/ jobStatus \in Waiting /\ due
     \/ jobStatus = "running" /\ (leaseExpired \/ sawStale[t])

ClaimLost(t) ==
  /\ pc[t] = "lock"
  /\ ~Claimable(t)
  /\ Leave(t)
  /\ UNCHANGED <<decisionVars, jobVars, deaths, cancelled>>

\* Broken: a recovery is not counted, on the ground that its claim was.
ClaimUncounted(t) ==
  /\ pc[t] = "lock"
  /\ Claimable(t)
  /\ IF sawStale[t]
       THEN NewAttempt(t)
       ELSE UNCHANGED <<status, attempt, position, fresh, held>>
  /\ attemptCount' = IF jobStatus = "running" THEN attemptCount ELSE attemptCount + 1
  /\ sawStale' = [sawStale EXCEPT ![t] = FALSE]
  /\ jobStatus' = "running"
  /\ leaseExpired' = FALSE
  /\ run' = [run EXCEPT ![t] = attemptCount']
  /\ pc' = [pc EXCEPT ![t] = "check"]
  /\ UNCHANGED <<kind, due, cancelRequested, deaths, cancelled>>

\* A stale heartbeat makes the claim a recovery, under a new attempt id;
\* otherwise the worker takes the id that it read.
Claim(t) ==
  /\ pc[t] = "lock"
  /\ Claimable(t)
  /\ IF sawStale[t]
       THEN NewAttempt(t)
       ELSE UNCHANGED <<status, attempt, position, fresh, held>>
  /\ sawStale' = [sawStale EXCEPT ![t] = FALSE]
  /\ jobStatus' = "running"
  /\ attemptCount' = attemptCount + 1
  /\ leaseExpired' = FALSE
  /\ run' = [run EXCEPT ![t] = attemptCount + 1]
  /\ pc' = [pc EXCEPT ![t] = "check"]
  /\ UNCHANGED <<kind, due, cancelRequested, deaths, cancelled>>

\* The worker reads the case, then is_cancelled, before any provider call.
CheckCancelled(t) ==
  /\ pc[t] = "check"
  /\ IF cancelRequested THEN Leave(t) ELSE Goto(t, "reason")
  /\ UNCHANGED <<decisionVars, jobVars, deaths, cancelled>>

\* A run without a claim (the direct triage of Continue) ends with its write.
AfterRun(t) == IF run[t] = 0 THEN Leave(t) ELSE Goto(t, "complete")

\* Broken: the final write is keyed on the id of the case alone.
PublishUnfenced(t) ==
  /\ pc[t] = "reason"
  /\ status # "completed"
  /\ status' = "completed"
  /\ position' = [attempt |-> held[t], run |-> run[t]]
  /\ UNCHANGED fresh
  /\ AfterRun(t)
  /\ UNCHANGED <<attempt, kind, jobVars, deaths, cancelled>>

\* Broken: the schema without its tampering trigger.
PublishOverCompleted(t) ==
  /\ pc[t] = "reason"
  /\ Holds(t)
  /\ status' = "completed"
  /\ position' = [attempt |-> held[t], run |-> run[t]]
  /\ UNCHANGED fresh
  /\ AfterRun(t)
  /\ UNCHANGED <<attempt, kind, jobVars, deaths, cancelled>>

\* write_final_result by the current attempt. The trigger of schema.sql
\* refuses it on a completed case, whose position would change.
PublishResult(t) ==
  /\ pc[t] = "reason"
  /\ Holds(t)
  /\ status # "completed"
  /\ status' = "completed"
  /\ position' = [attempt |-> held[t], run |-> run[t]]
  /\ fresh' = (fresh \/ kind = "specialist")  \* the "finalizing" heartbeat
  /\ AfterRun(t)
  /\ UNCHANGED <<attempt, kind, jobVars, deaths, cancelled>>

\* write_final_result by a superseded attempt: no row, a discarded result.
DiscardResult(t) ==
  /\ pc[t] = "reason"
  /\ ~Holds(t)
  /\ AfterRun(t)
  /\ UNCHANGED <<decisionVars, jobVars, deaths, cancelled>>

\* Broken: a failure is recorded by the id of the case alone.
WriteProviderUnavailableUnfenced(t) == SetStatus("provider_unavailable")

\* write_provider_unavailable: fenced on the attempt, not on the status.
WriteProviderUnavailable(t) ==
  /\ status' = IF Holds(t) THEN "provider_unavailable" ELSE status
  /\ UNCHANGED <<attempt, position, fresh>>

\* Step D of the specialist pipeline failed: recorded, then raised.
PrimaryReasoningFails(t) ==
  /\ pc[t] = "reason"
  /\ kind = "specialist"
  /\ WriteProviderUnavailable(t)
  /\ Goto(t, "failing")
  /\ UNCHANGED <<kind, jobVars, deaths, cancelled>>

\* Anything else raised in the worker's try block: a read, a later stage, the
\* trigger that refuses the write, the update that completes the job.
WorkerRaises(t) ==
  /\ \/ pc[t] \in {"check", "complete"}
     \/ pc[t] = "reason" /\ kind = "specialist"
  /\ Goto(t, "failing")
  /\ UNCHANGED <<decisionVars, jobVars, deaths, cancelled>>

\* The triage engine, or its write, raised: swallowed, the run ends normally.
\* So is what the record of the failure raises.
TriageFails(t) ==
  /\ pc[t] = "reason"
  /\ kind = "generic_triage"
  /\ \/ WriteProviderUnavailable(t)
     \/ UNCHANGED <<status, attempt, position, fresh>>
  /\ AfterRun(t)
  /\ UNCHANGED <<kind, jobVars, deaths, cancelled>>

\* Broken: an off-by-one in the test of exhaustion.
FailOrRetryOnceMore(t) ==
  /\ pc[t] = "failing"
  /\ IF attemptCount > MaxAttempts
       THEN /\ jobStatus' = "failed"
            /\ Goto(t, "giveup")
            /\ UNCHANGED due
       ELSE /\ jobStatus' = "retry_scheduled"
            /\ due' = FALSE
            /\ Leave(t)
  /\ UNCHANGED <<attemptCount, leaseExpired, cancelRequested, decisionVars, deaths, cancelled>>

\* Broken: a retry is scheduled with a fresh row, over a cancellation too.
FailOrRetryUncancels(t) ==
  /\ pc[t] = "failing"
  /\ IF attemptCount >= MaxAttempts
       THEN /\ jobStatus' = "failed"
            /\ Goto(t, "giveup")
            /\ UNCHANGED <<due, cancelRequested>>
       ELSE /\ jobStatus' = "retry_scheduled"
            /\ due' = FALSE
            /\ cancelRequested' = FALSE
            /\ Leave(t)
  /\ UNCHANGED <<attemptCount, leaseExpired, decisionVars, deaths, cancelled>>

\* job_queue.fail_or_retry: by case id, whatever the status of the job.
FailOrRetry(t) ==
  /\ pc[t] = "failing"
  /\ IF attemptCount >= MaxAttempts
       THEN /\ jobStatus' = "failed"
            /\ Goto(t, "giveup")
            /\ UNCHANGED due
       ELSE /\ jobStatus' = "retry_scheduled"
            /\ due' = FALSE
            /\ Leave(t)
  /\ UNCHANGED <<attemptCount, leaseExpired, cancelRequested, decisionVars, deaths, cancelled>>

\* The retries are used up: the case is marked failed, if still this attempt's.
GiveUp(t) ==
  /\ pc[t] = "giveup"
  /\ WriteProviderUnavailable(t)
  /\ Leave(t)
  /\ UNCHANGED <<kind, jobVars, deaths, cancelled>>

\* job_queue.complete: by case id, whatever the status of the job.
Complete(t) ==
  /\ pc[t] = "complete"
  /\ jobStatus' = "completed"
  /\ Leave(t)
  /\ UNCHANGED <<attemptCount, due, leaseExpired, cancelRequested, decisionVars, deaths,
                 cancelled>>

-----------------------------------------------------------------------------
\* A heartbeat of the ticker thread, fenced like every other write. Its stage
\* waits 2 s for the ticker to end, so the last tick may come after the stage.
Tick(t) ==
  /\ pc[t] \in WorkerPc \ {"check"}
  /\ Holds(t)
  /\ ~fresh
  /\ fresh' = TRUE
  /\ UNCHANGED <<status, attempt, position, kind, jobVars, threadVars, deaths, cancelled>>

\* The grace period passes with no heartbeat written.
HeartbeatAges ==
  /\ fresh
  /\ HeartbeatCovers => ~\E t \in Thread : pc[t] # "idle" /\ Holds(t)
  /\ fresh' = FALSE
  /\ UNCHANGED <<status, attempt, position, kind, jobVars, threadVars, deaths, cancelled>>

\* The backoff of a scheduled retry passes.
BecomesDue ==
  /\ jobStatus \in Waiting
  /\ ~due
  /\ due' = TRUE
  /\ UNCHANGED <<decisionVars, jobStatus, attemptCount, leaseExpired, cancelRequested,
                 threadVars, deaths, cancelled>>

\* LEASE_SECONDS pass after a claim.
LeaseExpires ==
  /\ jobStatus = "running"
  /\ ~leaseExpired
  /\ LeaseCovers => ~\E t \in Thread : pc[t] \in WorkerPc /\ run[t] = attemptCount
  /\ leaseExpired' = TRUE
  /\ UNCHANGED <<decisionVars, jobStatus, attemptCount, due, cancelRequested,
                 threadVars, deaths, cancelled>>

\* A thread ends between two transactions: its process stops, or something that
\* no handler catches is raised, a refused update among others.
Die(t) ==
  /\ pc[t] # "idle"
  /\ deaths < MaxDeaths
  /\ deaths' = deaths + 1
  /\ Leave(t)
  /\ UNCHANGED <<decisionVars, jobVars, cancelled>>

-----------------------------------------------------------------------------
\* A request arrives.
Request(t) ==
  \/ Create(t)
  \/ Continue(t)
  \/ RespondAnswer(t)
  \/ RespondRetry(t)
  \/ Cancel(t)

\* A thread carries on with what it started.
Proceed(t) ==
  \/ ClassifyFails(t)
  \/ ClassifyDone(t)
  \/ AskForInput(t)
  \/ Enqueue(t)
  \/ Requeue(t)
  \/ CancelStatus(t)
  \/ ReadForClaim(t)
  \/ ClaimLost(t)
  \/ Claim(t)
  \/ CheckCancelled(t)
  \/ PublishResult(t)
  \/ DiscardResult(t)
  \/ PrimaryReasoningFails(t)
  \/ WorkerRaises(t)
  \/ TriageFails(t)
  \/ FailOrRetry(t)
  \/ GiveUp(t)
  \/ Complete(t)

TimePasses == HeartbeatAges \/ BecomesDue \/ LeaseExpires

Next ==
  \/ TimePasses
  \/ \E t \in Thread : \/ Request(t)
                       \/ Proceed(t)
                       \/ Dispatch(t)
                       \/ Tick(t)
                       \/ Die(t)

Spec == Init /\ [][Next]_vars

\* The scheduler runs every live thread, the dispatcher polls for ever and
\* time passes; no client has to make a request and no ticker has to tick.
Fairness ==
  /\ \A t \in Thread : WF_vars(Proceed(t))
  /\ WF_vars(\E t \in Thread : Dispatch(t))
  /\ WF_vars(HeartbeatAges)
  /\ WF_vars(BecomesDue)
  /\ WF_vars(LeaseExpires)

FairSpec == Spec /\ Fairness

-----------------------------------------------------------------------------
\* The type invariant. That attempt_count never passes max_attempts is what
\* bounds the claims, and with them the paid runs, of one job.
TypeOK ==
  /\ status \in Case!Status
  /\ attempt \in Nat
  /\ position \in Case!Position
  /\ fresh \in BOOLEAN
  /\ kind \in Kind
  /\ jobStatus \in JobStatus
  /\ attemptCount \in 0..MaxAttempts
  /\ due \in BOOLEAN
  /\ leaseExpired \in BOOLEAN
  /\ cancelRequested \in BOOLEAN
  /\ pc \in [Thread -> Pc]
  /\ held \in [Thread -> Nat]
  /\ sawStale \in [Thread -> BOOLEAN]
  /\ run \in [Thread -> Nat]
  /\ deaths \in 0..MaxDeaths
  /\ cancelled \in BOOLEAN

\* Fencing: a worker whose attempt was superseded changes nothing of the case
\* any more, however late it wakes up and whichever way it ends: not by its
\* result, its failure nor the exhaustion of its retries.
SupersededNeverWrites ==
  [][\A t \in Thread :
       (pc[t] \in WorkerPc /\ ~Holds(t) /\ pc'[t] # pc[t])
         => UNCHANGED <<status, attempt, position, fresh>>]_vars

\* The position that a case shows never goes back to that of an older attempt,
\* across any number of failures, recoveries and reopenings in between.
NewerResultStands ==
  [][position'.attempt >= position.attempt]_vars

\* The rows and the handlers together implement the fenced case: only the
\* current attempt publishes, and never over a completed case.
FencedSpec == Case!Spec

\* fail_or_retry is terminal exactly when the claims are used up: a job waits
\* for a retry only while a retry is allowed, and fails only when none is,
\* whichever workers, superseded ones included, report their failures.
RetryBudget ==
  /\ jobStatus = "failed" => attemptCount = MaxAttempts
  /\ jobStatus = "retry_scheduled" => attemptCount \in 1 .. MaxAttempts - 1
  /\ jobStatus = "running" => attemptCount > 0

\* Each claim that is granted is counted: no two live workers are under the
\* same claim, so at most max_attempts workers are ever paid for at once.
ClaimsAreDistinct ==
  \A t \in Thread :
    /\ run[t] <= attemptCount
    /\ \A u \in Thread \ {t} : run[t] # 0 => run[t] # run[u]

\* Until it is classified, the case is its creator's alone: no worker, no
\* dispatcher and no other request has anything to act on. ClassifyDone joins
\* two transactions of the code on the strength of this.
ClassifyingIsPrivate ==
  status = "classifying" =>
    /\ jobStatus = "none" /\ attempt = 0 /\ position = Case!NoPosition
    /\ \A t, u \in Thread : (pc[t] # "idle" /\ pc[u] # "idle") => t = u

\* A cancellation holds until a request puts the job back in the queue. Until
\* then no claim is granted, and no worker that had one starts to reason: not
\* after a failure that a worker reports late and that schedules a retry, not
\* after a completion, and not by a recovery, whatever the row says by then.
CancelStopsClaims ==
  [][cancelled => /\ attemptCount' = attemptCount
                  /\ \A t \in Thread : ~(pc[t] = "check" /\ pc'[t] = "reason")]_vars

\* Whatever dies and wherever, a job with claims left is not abandoned: it is
\* settled, cancelled or claimed until its claims are used up.
NoJobAbandoned ==
  (jobStatus \in Active /\ ~cancelRequested /\ attemptCount < MaxAttempts)
    ~> (jobStatus \notin Active \/ cancelRequested \/ attemptCount = MaxAttempts)

-----------------------------------------------------------------------------
(***************************************************************************)
(* What comments of the code say and its transactions do not do: each has  *)
(* a run of its own that shows how it fails. See the README.               *)
(***************************************************************************)
\* decisions.py, respond: "a genuine, recorded failure is always safely
\* retriable". A job that a retry put in the queue leaves the queue again.
RetryLeavesQueue == jobStatus = "queued" ~> jobStatus # "queued"

\* job_queue.py: a later process reclaims an expired lease "without losing the
\* case, duplicating a completed result". A completed case stays completed.
CompletedStaysCompleted ==
  [][status = "completed" => status' = "completed"]_vars

\* job_queue.claim: "there is no window between decide and write for a second
\* caller to observe". What a claim takes is due when it takes it: waiting, or
\* running with an expired lease or a stale heartbeat.
ClaimTakesDueJob ==
  [][attemptCount' > attemptCount
       => jobStatus \in Waiting \/ leaseExpired \/ ~fresh]_vars

\* decisions.py, _run_queued_job: "Whatever attempt_id claim() returns is
\* already the correct, exclusively-owned one". No two live workers are under
\* the current attempt.
OneWorkerPerAttempt ==
  \A t, u \in Thread :
    (pc[t] \in WorkerPc /\ pc[u] \in WorkerPc /\ Holds(t) /\ Holds(u)) => t = u

\* decisions.py, _queue_generic_retry: bypassing the queue "would leave a queued
\* job behind after a successful direct background execution".
CompletedLeavesNoQueuedJob ==
  status = "completed" => jobStatus # "queued"
=============================================================================
