# VendorEdge: TLA+ specifications

VendorEdge turns a procurement question into a reasoned commercial decision. A
browser posts a question; the API classifies it with a language model, asks for
missing evidence, and hands the case to a worker that calls a provider for
minutes at a time and writes a *commercial position*. Those minutes are where
the system is hard: workers die, users retry, two processes overlap during a
deployment, and each run costs money. Around them are the parts that decide what
goes into a run and what comes out of it: who may ask, how often, with which
evidence, what the model's answer has to pass before it is published, what later
cases remember of it, and what is sent to the supplier. This directory specifies
these parts in TLA+, checks them with TLC, and proves every safety property that
TLC finds to hold with TLAPS as well, for every number of actors and every bound.

## The system

### Components, their state and their operations

| Component | Code | State | Operations |
|---|---|---|---|
| Decision handlers | `app/routes/decisions.py` | row of `commercial_decisions` (status, attempt, position, evidence) | create, respond, continue, cancel, feedback, reads |
| Job queue | `app/pipeline/job_queue.py` | row of `reasoning_jobs` (status, attempt_count, available_at, timeout_at, cancel_requested_at) | enqueue, requeue, claim, complete, cancel, fail_or_retry, two discovery queries |
| Attempt fencing | `app/pipeline/attempt_fencing.py` | `current_attempt_id`, `last_heartbeat_at` | start_new_attempt, try_reclaim, write_heartbeat, write_final_result, write_provider_unavailable, HeartbeatTicker |
| Dispatcher, startup sweep | `app/pipeline/dispatcher.py`, `app/main.py` | threads only | poll every 5 s, claim at most one due job; at startup, one thread per recoverable job |
| Reasoning pipeline | `_run_reasoning`, `_run_generic_reasoning_safe` | the position under construction | verification, research, primary reasoning with bounded retries, challenger, composition, final write |
| Supplier response | `decisions.py:1541-1839`, `agentic_workflow.py` | drafts, approvals, deliveries, replies | save, approve, hand off, send, capture reply |
| Category memory | `memory_service.py`, `memory_engine.py`, `category_strategy_profile.py` | versioned `memory_items` | retrieve, compose, reconcile, store |
| Confidence gate, challenger, audit | `confidence_gate.py`, `contradiction_check.py`, `claim_integrity.py`, `trust_certification.py`, `model_orchestration.py`, ... | none | pure rules on a position |
| Monthly allowance | `decisions.py:351-395`, `caps.py` | `monthly_usage_period`, `monthly_decisions_used` | insert a case and reserve, in one transaction |
| Workspaces, invitations | `decisions.py:116-526`, `auth.py`, the page's bootstrap | organisations, users, invitations, two in-process rate limits | bootstrap, invite, accept |
| Evidence normalisation | `normalize.py`, `normalized_evidence.py`, `evidence.py`, `classifier.py`, ... | the evidence and provenance of a case | normalise, ask, merge answers, reconcile an update |
| Financial engine | `financial.py`, `tco.py`, ... | none | arithmetic |
| Market and category intelligence, answer composition, read models, files, frontend | the rest of `app/` | none of their own | text in, text out |

`PROJECT.json` lists every component with the files that make it up, what is
modelled of it, and why the rest is not.

### How they interact

A request handler commits a few short transactions and schedules a background
task. Each `with get_org_scoped_connection(...)` block is one transaction, under
PostgreSQL's default isolation, READ COMMITTED. Background tasks, the threads of
the startup sweep and the dispatcher's own thread all run `_run_queued_job`, in
one process or, while a deployment replaces another, in two. They share nothing
but the rows: the job says who may start, the attempt id says who may write.

    request --(insert case, start_new_attempt, enqueue/requeue)--> rows
    background task | sweep | dispatcher --(claim)--> worker
    worker --(heartbeat, write_final_result | write_provider_unavailable)--> case
    worker --(complete | fail_or_retry)--> job

### What is hard, and what makes each part correct

* *Fencing*: a worker presumed dead may wake up after another took over. Only
  the current attempt may write; a newer result is never replaced by an older
  one; a completed position is never overwritten.
* *Claims*: any number of threads may try one job. Each granted claim is
  counted, no two workers share one, and the count never passes `max_attempts`.
* *Crashes*: a thread can stop between any two transactions. A job with claims
  left is found again.
* *Cancellation*: a cancelled job stays unclaimed whatever its worker reports
  afterwards, until a user asks for it again.
* *Supplier response*: what is sent is what was approved, at most once for each
  payload, and a failure leaves a record.
* *Evidence*: nothing is reasoned on before it was asked for, where a value came
  from is told truly, and an update replaces nothing that nobody confirmed.
* *Pipeline*: whichever of several answers of the model is kept, what is published
  has passed every control; what was built early and not again holds of it still.
* *Category memory*: runs that overlap, fail or repeat lose no disagreement.
* *Allowance and invitations*: the last use and the last place are given once.

The `hazards` of `PROJECT.json` list each such place with its line, and the
property that watches it, or why none does.

## The modules

| Module | What it is |
|---|---|
| `FencedCase` | The abstract promise: a case has a current attempt, only that attempt publishes, and not over a completed case. Three variables, no workers. |
| `JobLifecycle` | The two rows, the handlers, the queue, the dispatcher, the workers and the passage of time. |
| `MCJobLifecycle` | Sets of threads and of requests for TLC, and the symmetry of threads. |
| `JobLifecycleProofs` | The inductive invariant and the theorems. |
| `SupplierResponse` | The draft, the approval and the deliveries of a completed case, several tabs, and the connector. It shares no row with `JobLifecycle`: a completed case is where it starts. |
| `MCSupplierResponse` | Tabs and payloads for its two counterexamples, and their symmetry. |
| `SupplierResponseProofs` | Its inductive invariant and theorems. |
| `CategoryMemory`, `CategoryMemoryProofs` | What a category-strategy run remembers, and what later runs make of it. |
| `MonthlyQuota`, `MonthlyQuotaProofs` | The insert of a case and its reservation. |
| `Membership` | The abstract promise: a workspace appears with its first member, a place on offer is taken once. |
| `WorkspaceAccess`, `WorkspaceAccessProofs` | Bootstrap, invitations, rate limits and the page; it implements `Membership`. |
| `CaseEvidence` | Normalisation, gate, answers, provenance and continuations of a case. |
| `CaseEvidenceProofs`, `EvidenceGateProofs` | Its proofs: of the provenance, and of the gate and the continuations. |
| `PositionGates` | The rules that a position has to pass, as operators. |
| `ReasoningPipeline`, `ReasoningPipelineProofs` | `_run_reasoning`: the order of the stages, with those operators. |
| `Platform`, `MCPlatform` | The parts other than the life cycle in one specification, and its instances for TLC. |

### JobLifecycle and the code

One action is one committed transaction together with the control flow up to the
next one; a thread's place between two transactions is `pc`.

| Variables | Code |
|---|---|
| `status`, `attempt`, `position`, `fresh`, `kind` | `commercial_decisions`: status; the attempt ids, numbered in the order they are issued; the position, identified by the attempt and the claim that wrote it; whether `last_heartbeat_at` is within the 90 s of grace; which engine `_is_general_case` and `job_kind` choose |
| `jobStatus`, `attemptCount`, `due`, `leaseExpired`, `cancelRequested` | `reasoning_jobs`: status (`none` before the insert), attempt_count, whether `available_at` and `timeout_at` have passed, `cancel_requested_at` |
| `pc`, `held`, `sawStale`, `run` | a thread: its place, the attempt id it carries, what its claim's snapshot showed of the heartbeat, the number of its claim |
| `deaths` | history variable that bounds `Die` |
| `cancelled` | history variable: the job was cancelled, and no request has queued it since |

| Actions | Code |
|---|---|
| `Create`, `ClassifyFails`, `ClassifyDone`, `AskForInput`, `Enqueue` | `create_decision` |
| `Continue`, `ClassifyFails`, `AskForInput`, `Enqueue` | `continue_case`; a general case goes on to run the engine directly |
| `RespondAnswer`, `RespondRetry`, `AskForInput`, `Requeue` | `respond`, `_restart_reasoning_from_stored_evidence`, `_queue_generic_retry` |
| `Cancel`, `CancelStatus` | `cancel_decision`, two transactions |
| `Dispatch` | `find_next_due_job` in the dispatcher loop, `recoverable_jobs` in the sweep |
| `ReadForClaim`, `ClaimLost`, `Claim` | `job_queue.claim` |
| `CheckCancelled`, `PublishResult`, `DiscardResult`, `PrimaryReasoningFails`, `TriageFails`, `WorkerRaises` | `_run_queued_job` and the engines it calls |
| `FailOrRetry`, `GiveUp`, `Complete` | the end of `_run_queued_job` |
| `Tick` | `write_heartbeat` |
| `HeartbeatAges`, `BecomesDue`, `LeaseExpires`, `Die` | time, and threads or processes that stop |

Choices that deserve a reader's attention:

* **A claim is two steps.** `claim` selects with `FOR UPDATE OF rj`, joined to
  the case. A statement that had to wait for the lock of the job is re-evaluated
  with the new version of *that* row; the columns of the case are still those of
  its snapshot. `ReadForClaim` takes the snapshot (`held`, `sawStale`); `Claim`
  and `ClaimLost` decide over the job as it is under the lock. The condition on
  `available_at` and `timeout_at` compares with the start of the transaction;
  the model uses the flags at the lock, which allows a little more.
* **No transaction is joined to another** but in `ClassifyDone`, where the
  evidence and the first attempt are stored. The invariant
  `ClassifyingIsPrivate` is the reason why that loses nothing.
* **Respond is one step** for its reads and its first write: `start_new_attempt`
  and `try_reclaim` test status and heartbeat again in their own WHERE clause,
  so what the earlier reads saw does not matter. What they do to the *evidence*
  does, and is the matter of `CaseEvidence`.
* **`job_kind` has no variable**: every call passes the kind that `_is_general_case`
  finds, so it always equals `kind`. A general case never waits for its user.
* **The trigger** of `schema.sql` is a guard of `PublishResult`: a write on a
  completed case raises, which is `WorkerRaises` or `TriageFails`.
* **Time** is three booleans. `HeartbeatAges` and `LeaseExpires` may happen
  under a live worker, for stages exist that no ticker covers and calls that
  outlast a lease. `HeartbeatCovers` and `LeaseCovers` forbid this; only the
  runs that show a counterexample set them, to show that it needs no such lapse.
* **Death** is a thread that ends between two transactions. A process that dies
  is several such steps; it restarts by `Dispatch`. A tick that comes after its
  worker has returned is not modelled; one that comes after its stage is.
* **One case** is enough: two cases share no row, and the only thing they
  compete for, the dispatcher's attention, is a matter of the planned
  `Dispatcher` module. Refused requests (quota, rate limit, replayed id) leave
  no trace on these rows and are no step here; `MonthlyQuota` and
  `WorkspaceAccess` have them.

* **`CancelStopsClaims` is about the history**, not about the column that `claim`
  reads: from the cancellation until a user's request has queued the job again,
  `attempt_count` stays and no thread gets past `claim`, whatever a failing
  worker, a recovery or a late request writes to the row. A reschedule that
  cleared the column would violate it. A request that was sent before the
  cancellation may requeue after it, and the cancellation is then over; and the
  continuation of a general case runs without a claim, so a cancellation does not
  reach it until it ends.

### SupplierResponse and the code

| Variables | Code |
|---|---|
| `draft` | the row of `supplier_response_drafts` (version 0: none), its recipient, subject and body as one payload, told apart as far as `_supplier_response_hash` does |
| `approved` | the row of `workflow_action_approvals` for `draft-supplier-message` |
| `delivery` | the status in `supplier_response_deliveries`, by payload |
| `posts` | the connector: how often it took each payload |
| `pc`, `hand`, `deletes` | a request in flight: its place, the draft it read or writes, whether its DELETE found an approval |
| `screen` | the draft on a page; its version is the `expected_version` of the page's requests |
| `reviewed`, `seen` | history for `SentAsReviewed` |

| Actions | Code |
|---|---|
| `Load` | `get_supplier_response` |
| `SaveRead`, `SaveWrite`, `SaveCommit` | `save_supplier_response` |
| `Approve` | `approve_agent_workflow_action` for the message |
| `Send`, `SendLock`, `SendReadApproval`, `SendAccepted`, `SendUnanswered`, `SendRefused`, `SendRecord` | `send_supplier_response` |
| `HandoffReadDraft`, `HandoffReadApproval`, `HandoffInsert` | `handoff_supplier_response` |
| `Die` | a process that stops; any rollback |

* **One action is one statement here**, not one transaction: what these handlers
  promise depends on what others commit between two of their statements. What a
  transaction writes becomes visible at its commit, so the upsert and the DELETE
  of a save take effect in `SaveCommit`; but which approval the DELETE takes away
  is settled when it runs (`deletes`), and one that commits later survives.
* **Locks are places.** The row lock of the draft is held at `save_update` and
  `save_commit`, the advisory lock from `send_approval` to `record`. A lock that
  is a place cannot outlive its transaction, as in PostgreSQL.
* **A first save locks nothing**, as `SELECT ... FOR UPDATE` finds no row, and
  compares no version: two of them write version 1 one after the other, the
  second perhaps over a later version. The page calls the unsaved text version 1
  as well. `EditsFollow` therefore speaks of saves that found a row.
* **The connector** takes a message and says so, takes it without an answer that
  counts, or does not take it; what it makes of an idempotency key is not in the
  code (the key contains the version, so the same text saved again has a new one).
* **The page** is the client: it sends the version it shows and saves before it
  asks for an approval. A request that the handler refuses leaves no trace.

### CategoryMemory and the code

| Variables | Code |
|---|---|
| `items` | `memory_items`: the columns that are never updated, by id (the run that wrote the row and its number in it); `saw` is history |
| `superseded`, `contradicts` | `temporal_status` and `contradicts_ids`, the two columns that are updated |
| `stage`, `todo`, `tx`, `compared`, `started` | a run: how far it is, the candidates it has still to store, what its open transaction has written, the comparisons its answer states; the order of transactions, for `created_at` |

| Actions and operators | Code |
|---|---|
| `Retrieved`, `Rank` | `retrieve_memory` |
| `Relation`, `ShareMemory`, `FindingMemory`, `Comparisons` | `reconcile_one` and its two callers |
| `Strategy`, `Findings`, `Guarded` | the findings of `category_strategy_profile.py` that may be kept |
| `Candidates`, `Accepted`, `ValuesConflict` | `extract_candidates`, `_values_conflict` |
| `Compose` | retrieval, composition, extraction |
| `StoreOne`, `StoreCommit`, `StoreFails` | `store_candidates`: a turn of its loop, the commit, any exception |

* **No key and no lock.** The store selects the newest current record and writes
  what follows from it. Each transaction sees the committed rows and its own;
  two that overlap see different ones, and either may have been of an attempt
  that was superseded: neither retrieval nor store is fenced.
* **A text is its template and the percentages in it**, all that the comparisons
  look at. A reason that repeats what memory said carries memory's figures.
* The comparisons of dated findings are left out: no finding that is stored
  carries the date of its event.

### MonthlyQuota and the code

`usage` is the pair of columns of the organisation, `cases` the ids that are
committed, `request` a request with its stage and the `now()` of its transaction.
`BeginCase`, `InsertCase`, `Reserve`, `CommitCase` and `AbortCase` are the
statements of one transaction of `create_decision` or `continue_case`: the insert
waits for another open one of the same id, the `UPDATE` of the allowance for
another open one of the workspace. `reserved` and `setBack` are history.
`now()` is fixed when a transaction begins: one that began before midnight and
reserves after another of the new month sets the period back, and the count of
the new month is lost. `UsageIsAccounted` says what holds otherwise.

### WorkspaceAccess and the code

| Variables | Code |
|---|---|
| `orgs`, `users`, `invites` | committed rows: organisations and their members, invitations with who accepted |
| `post` | a request at the server, between two of its statements |
| `log`, `aged` | the two in-process lists of the rate limits, and the entries that are out of the window |
| `page` | a browser: its session, an invitation link, the attempts of this run, the request it waits for |

| Actions | Code |
|---|---|
| `OpenLink`, `Try`, `TryAgain`, `ReceiveSession`, `AttemptFails` | the page's bootstrap: two attempts, 15 s each, a check of what was stored |
| `SelectOrg`, `InsertWorkspace`, `CommitWorkspace` | `create_workspace` |
| `RateRead`, `RateWrite`, `WindowPasses` | the limits, which are read and written without a lock |
| `Invite`, `InviteExpires`, `BeginAccept`, `LockInvite`, `CommitAccept` | `invite_teammate`, `accept_invite` |
| `PostFails` | any failure of the database or the process |

The page may give up on a request that the server goes on with, so two of one
key overlap. The refinement mapping takes committed rows for what `Membership`
speaks of, and an invitation that nobody has used for a place on offer.

### CaseEvidence and the code

| Variables | Code |
|---|---|
| `row` | the case and its continuation: status, type, mode, what the classifier and the patterns found, the stored evidence, its provenance, what was asked |
| `queued`, `worker`, `basis` | a queued job, the evidence a worker reasons on, that of the published position |
| `tab` | a request of `respond` between its transactions |
| `raced`, `allowed` | history: whether answers overlapped, what a user answered or confirmed |

| Actions and operators | Code |
|---|---|
| `Normalised`, `Claimed`, `Resolve`, `Raises` | `normalize_evidence`, `_resolve_field`, the coercions |
| `Missing` | `check_missing_evidence` |
| `CreateCase`, `Classified` | `create_decision` |
| `RespondRead`, `RespondStore`, `RespondClaim`, `RespondCheck` | `respond`, a transaction each |
| `WorkerReads`, `WorkerPublishes`, `WorkerFails`, `RetryStored` | `_run_queued_job`, `_merge_final_provenance`, the retry of stored evidence |
| `ContinueCase`, `UpdateReconciled`, `UpdateOutOfScope`, `UpdateFails` | `continue_case` |

* A record is a function of the fields that are present. A value is a number, a
  text that reads as a number, or another text, for that is what a coercion
  tells apart; a value the user answers with is any of them.
* Attempts, jobs and deaths are those of `JobLifecycle`: what is refused there
  leaves the evidence alone, so here one worker at a time takes what was queued.
* `respond` reads, stores, claims and asks in four transactions. Two that overlap
  store over each other, and the one that claims need not be the one whose
  answers are stored: `raced` marks what follows from that.

### PositionGates, ReasoningPipeline and the code

A case file is normalised evidence and a position the model's answer, each
reduced to what the rules look at: a claim is a kind of statement that the
patterns recognise, about a supplier or the case; a number is a field and the
shape of a figure that the case text does not have. `PositionGates` has one
operator for each rule: the confidence before reasoning and the ceiling, coverage
of total cost and of Kraljic's two dimensions, contradictions with what was
computed, the fifteen checks of `check_all_claim_overstatements`, the sanitiser,
audit and certificate, the trigger of the challenger and its outcome, the answer
and its reconciliation.

`ReasoningPipeline` is `_run_reasoning`, one action for each stage, in its order:

    Gather -> Reason -> AskAgain(tco, kraljic, contradiction) -> CheckClaims
           -> Settle -> Certify -> Challenge -> Compress -> Travel -> Publish

Each call of the model may fail (`ReasonFails`, the first disjunct of `AskAgain`),
and a second answer is kept only where the check that asked for it finds fewer
issues. What had been attached to the first is not on it unless the code attaches
it again.

* **What the model answers is validated whole.** The schema has a financial
  impact and a market verification, and only the prompt asks the model to leave
  the first out. `WithImpact` and `WithMarket` attach what was computed or found
  only where there is something, as `decisions.py:2159` and `2292` do; otherwise
  what the model wrote stays, and every rule that reads these fields reads it.
* **A figure** is its amount up to the thresholds of the challenge, its currency
  and the dimensions of cost that it has; a file has one or none (`figure`), a
  position at most one (`impact`). A figure without an amount is one that the
  schema accepts and the check of contradictions cannot format: it raises
  (`Unreadable`, `Raise`), outside any handler at two places.
* **Research** adds drivers of cost to the case before the model is called
  (`researched`). They carry no share of the supplier's cost
  (`fresh_intelligence.py:108`), so they never substantiate a justification;
  `ChallengeDue` reads the evidence with them all the same.
* **A certificate** is its verdict and the confidence that it states. Two of its
  checks have one outcome only by then and are left out: the audit always has
  evidence, and the sensitivity and the alternatives are there.
* What a publication writes is refused if the attempt was superseded, which is
  `JobLifecycle`'s matter.

### Platform

The parts share no rows: memory is read and written by a run and joined to
a case by nothing that another part reads, the allowance is a column of the
organisation, an access request ends with a session, the evidence reaches the
pipeline as a case file, and a supplier response starts from a completed case. Interleaving steps that commute would add states and
show nothing, so a behaviour of `Platform` takes the steps of one part, and an
instance checks all properties of all parts in one run.

## What is checked

| Run | Instance | Shows |
|---|---|---|
| `lifecycle_safety` | 3 threads, every request, 2 claims, 3 attempts by users, 1 death, heartbeats and leases lapse at will | `TypeOK`, `RetryBudget`, `ClaimsAreDistinct`, `ClassifyingIsPrivate`; the action properties `SupersededNeverWrites`, `NewerResultStands`, `CancelStopsClaims`; the refinement `FencedSpec` |
| `lifecycle_liveness` | 2 threads, every request, 3 claims, 1 death, fairness | `NoJobAbandoned` |
| `retry_exhausted` | 1 thread, fairness | fails: `RetryLeavesQueue` |
| `completed_reopened` | 1 thread, 1 death | fails: `CompletedStaysCompleted` |
| `claim_window` | 2 threads, 1 death | fails: `ClaimTakesDueJob` |
| `shared_attempt` | 3 threads | fails: `OneWorkerPerAttempt` |
| `direct_triage` | 1 thread | fails: `CompletedLeavesNoQueuedJob` |
| `sent_unreviewed` | 2 tabs, 2 payloads, versions up to 3 | fails: `SentAsReviewed` |
| `delivery_unaudited` | 2 tabs, 2 payloads, versions up to 2 | fails: `PostsAreAudited` |
| `platform` | the six parts of `Platform`, as below | 31 properties: see the table of the parts |
| `answer_strands` | the evidence part alone | fails: `ReasoningHasAWorker` |
| `high_without_figure` | the pipeline part alone | fails: `HighRestsOnAFigure` |

Bounds. `MaxAttempts` is 3 in production; 2 is the least that has a first claim,
a retry and an exhausted budget, and the liveness run uses 3. Every property
speaks of one thread, of two, or of a thread and the rows; three threads are a
superseded worker, the one that superseded it, and a request or a dispatcher
that interferes. `MaxUserAttempts` = 3 leaves room for two user-made takeovers
on top of those by recovery, which are bounded by the claims. One death suffices
to abandon a job at each point, and with heartbeats and leases that lapse under
live workers the recovery of a live one comes for free. Threads are
interchangeable, so the safety runs use symmetry; the liveness runs do not. No
run checks for deadlock: a case that is completed, or that waits for its user,
really has nothing left to do.

For the supplier response: two tabs hold each pair of places that a lock keeps
apart or fails to; two versions are a first save and the edit of it that two tabs
want to make; a connector that takes a payload twice shows a message sent again
after an answer was lost. With three versions, and with three tabs, the
properties hold as well. No fairness is stated there: nothing has to happen to a
draft, and who is next to get a lock is the database's affair.

The `platform` run, by part:

| Part | Instance | Properties beside its type |
|---|---|---|
| memory | 3 runs, 1 supplier, 4 case files: a share that stays, that moves, a high one with a clause that quotes a percentage, none | `RivalsAreLinked`, `VersionsInOrder`, `RepeatsNeedARival`, `NeverFromOwnWrite`, `MemoryKept` |
| quota | 3 requests, 3 ids, allowance 2, 2 months | `WorkIsPaidOnce`, `UsageIsAccounted` |
| access | 2 browsers, 3 requests, 1 request per window | `SessionsAreReal`, `WorkspaceIsWhole`, `InviteAdmitsOne`, `RefusalsAreFair`, `FollowsMembership` |
| evidence | 2 tabs, 6 texts, 2 updates, 2 answers, a continuation | `EvidenceTypeOK`, `AskedBeforeReasoned`, `ProvenanceIsHonest`, `ChangeIsConfirmed`, `FirstSourceStands` |
| pipeline | 7 case files, 6 drafts at each call of the model, 3 second opinions, what research and verification may find | `PublishedWithinCeiling`, `NumbersSanitised`, `CertificateStands`, `OneJourney`, `FiguresAreComputed`, `SecondOpinionWhereWarranted` |
| response | 2 tabs, 2 payloads, versions up to 2, the connector takes each payload twice, requests die | `SuccessIsReal`, `RecordedNeverResent`, `EditsFollow` |

Three runs of memory are two that overlap and one that comes after, with enough
rows to fill a retrieval of `Limit` = 3. An allowance of two that three requests
compete for has a last use, and two months a boundary. With one request per
window the second is refused. Three requests are two of one key that overlap and
one that accepts an invitation; both browsers may accept. The texts, updates and
answers hold each shape of value, fields on which the two sources agree, differ
or are alone, and suppliers that differ among themselves. The drafts fail each of
the four checks that ask again, alone and together, so that each of several
answers may be the one that is kept; two of them have a figure of the model's own
and one a market verification. Requests, runs and posts are one symmetric set,
browsers and the tabs of two parts another: each is used by one part at a time.

Fairness. A live thread goes on (`WF` of each `Proceed`): the provider's client
has a timeout and every failure has a handler. The dispatcher polls for ever
(`WF` of some `Dispatch`): its loop catches whatever an iteration raises, and a
process that restarts starts another, provided `MIGRATION_DATABASE_URL` is set,
without which both discovery functions find nothing. Time passes (`WF` of the
three clocks). Nothing makes a client ask or a ticker tick. `HeartbeatAges` is
disabled by a tick only after it happened, so its fairness says that the grace
period of a heartbeat that is not renewed runs out.

### Where the code and its comments disagree

Each of the nine failing runs states what a comment says and shows how it fails.

* `retry_exhausted`. `requeue` does not reset `attempt_count`. After three claims
  have been used up, a user's retry queues a job that no claim and no discovery
  query will take: the case shows 'reasoning' until the heartbeat is stale, and
  the next retry does the same (`job_queue.py:54`, against `decisions.py:1223`).
* `completed_reopened`. The final write and the job's completion are two
  transactions. After a crash between them, the recovery claim sets the completed
  case back to 'reasoning' (`job_queue.py:178`, against `job_queue.py:3-5`).
  `NewerResultStands` still holds: what replaces the position is a newer attempt.
* `claim_window`. Two dispatches recover one abandoned job; the second waits for
  the row lock and still decides on the heartbeat of its snapshot
  (`job_queue.py:133`, against `job_queue.py:117`). The fence makes this
  harmless to the case; it costs a claim and a paid run.
* `shared_attempt`. `requeue` puts a *running* job back in the queue, so a second
  worker claims it under the same attempt id, and the fence no longer tells the
  two apart (`job_queue.py:54`, against `decisions.py:1089`). The first to write
  wins and the trigger refuses the second; whether that failure then marks the
  completed case as failed depends on the claims that are left.
* `direct_triage`. The continuation of a general case enqueues a job and then
  runs beside it; the job is run again after the case completed, and the trigger
  that refuses its result makes it record a failure over the completed status
  (`decisions.py:1408`, against `decisions.py:1004`).
* `sent_unreviewed`. An approval names no version, and a send reads the draft and
  the approval in two statements. An edit in between, and its approval, let the
  send post a version that nobody approved; an edit between the approver's page
  and the insert is approved unseen (`decisions.py:1746`, against
  `CTO_RELEASE_36_PHASE9_SUPPLIER_RESPONSE.md:13` and `:20`).
* `answer_strands`. The gate asks for the annual spend of the category, and the page
  sends what was typed. That field is not among those that are coerced: words in
  it raise in the normalisation, after `respond` has taken the attempt and stored
  the answer and before it queues the job. The case stays 'reasoning', and each
  retry raises again (`normalize.py:525`, against `normalize.py:45`).
* `delivery_unaudited`. The FAILED record is inserted and then rolled back by the
  exception that reports the failure; a message the connector took before it
  failed to answer is nowhere on record (`decisions.py:1783`, against the same
  document, `:22`).

* `high_without_figure`. Where `compute_financial_impact` returns None, as when
  the text and the model disagree on the currency, nothing replaces a figure that
  the model wrote. The ceiling asks only whether there is one, and a price
  increase is published with high confidence on the model's own arithmetic
  (`decisions.py:2159`, against `confidence_gate.py:72`; the docstring of
  `final_answer_reconciliation.py:7` says that no code path lets the model write
  that field, and `reconcile_answer` does not look at it where nothing is
  computed).

## What is proved

`JobLifecycleProofs` proves, for every set `Thread`, every set of requests and
all values of the bounds, from `LifecycleAssumption` alone (the types of the
constants and `MaxAttempts > 0`):

| Theorem | States |
|---|---|
| `TypeCorrect` | `TypeOK`, with `attempt_count <= max_attempts` |
| `RetriesAreBudgeted` | `RetryBudget` |
| `ClaimsDistinct` | `ClaimsAreDistinct` |
| `ClassifyingPrivate` | `ClassifyingIsPrivate` |
| `SupersededWritesNothing` | `SupersededNeverWrites` |
| `NewerStands` | `NewerResultStands` |
| `CancellationStopsClaims` | `CancelStopsClaims` |
| `ImplementsFencedCase` | `Spec => FencedSpec`, step by step |

The argument is one inductive invariant, `IInv`. `RetryBudget` is not inductive:
`fail_or_retry` sets 'retry_scheduled' whatever the count was, so one needs that
a failing worker has a claim (`ThreadsConsistent`) and that the count is at least
the number of any claim (`ClaimsAreDistinct`). That a worker has a claim depends
on the engine: only the direct triage of a general case runs without one, and
its failures are swallowed; so the kind of a case must not change once anything
runs, and it changes only while the case is classified, which
`ClassifyingIsPrivate` keeps to one thread. That invariant in turn needs
that nothing happens to a case that is not there (`AbsentIsUntouched`) and that
no job or worker precedes the first attempt (`NoWorkBeforeAttempt`).
`PositionIssued`, that the published attempt has been issued, gives
`NewerResultStands`. `CancelStopsClaims` rests on an invariant beside it: as long
as the history says that the job is cancelled, its row says so too
(`CancellationStands`), because the only statement that clears the column is that
of a request. TLC checked `IInv` itself on the instance of
`lifecycle_safety` before the proof was begun.

`SupplierResponseProofs` proves, for every set of tabs and payloads and all
bounds, from `SupplierAssumption` (the prepared text is no payload a person
saved; the types of the bounds):

| Theorem | States |
|---|---|
| `TypeCorrect` | `ResponseTypeOK`, and with it that no FAILED delivery is ever committed |
| `SuccessesAreReal` | `SuccessIsReal` |
| `NeverResent` | `RecordedNeverResent` |
| `EditsAreSerial` | `EditsFollow` |

Its `IInv` adds that each lock has one holder (`LocksExclusive`), that what a
sender found about its payload still holds when it posts and when it records
(`PostIsFresh`, which is what the advisory lock is for), that a request past its
reads has a saved draft in hand (`HandIsSaved`), and that the holder of the row
writes the version after the one there (`EditIsNext`). TLC checked it first on
two tabs and two payloads.

`MonthlyQuotaProofs`, for every set of requests and ids, from `QuotaAssumption`:

| Theorem | States |
|---|---|
| `QuotaTypeCorrect` | `QuotaTypeOK`: `used` never passes the allowance |
| `CasesArePaidOnce` | `WorkIsPaidOnce` |
| `UsageAccounted` | `UsageIsAccounted` |

Its `QuotaInv` says what the two locks are for: an open transaction that holds
the allowance still finds it allowed (`ReserveHolds`), one that has inserted an id
is alone with it and the id is not committed (`InsertIsAlone`); and that the
reservations are finitely many, none of a later month than the period unless it
was set back (`ReservedSoFar`).

`WorkspaceAccessProofs`, for every set of browsers and requests, from
`AccessAssumption`:

| Theorem | States |
|---|---|
| `AccessTypeCorrect` | `AccessTypeOK` |
| `SessionsStayReal` | `SessionsAreReal` |
| `WorkspacesStayWhole` | `WorkspaceIsWhole` |
| `InvitesAdmitOne` | `InviteAdmitsOne` |
| `RefusalsStayFair` | `RefusalsAreFair` |
| `ImplementsMembership` | `FollowsMembership`, step by step |

`AccessInv` adds that the row lock of an invitation has one holder, who still
finds it unused (`PlacesAreLocked`), that whoever was admitted is named on the
invitation (`AdmittedByInvite`), and that the lists of the rate limits hold
nothing but requests that were let through (`ListsAreOfLetThrough`).

`CategoryMemoryProofs`, for every set of runs, suppliers and facts, from
`MemoryAssumption`:

| Theorem | States |
|---|---|
| `MemoryTypeCorrect` | `MemoryTypeOK` |
| `RivalsStayLinked` | `RivalsAreLinked` |
| `VersionsStayInOrder` | `VersionsInOrder` |
| `RepeatsFollowARival` | `RepeatsNeedARival` |
| `MemoryStaysKept` | `MemoryKept` |
| `AnswersCompareOthers` | `NeverFromOwnWrite` |

The argument is about views. A transaction works on what it sees, the committed
rows and its own; `MemoryInv` states of every view, the committed one included,
that its rows are good (`ViewsAreGood`): linked with or stronger than what they
replace, above what they saw, and with a rival before each repetition. A commit of
another transaction only adds rows to a view, and adding rows keeps a good row
good. A transaction supersedes a row only beside a later one of its own
(`Replaced`), so that whatever was superseded, a record at least as late is
current: the newest current record is as new as any that was seen.

An answer is compared with the first and the last record in rank, so for
`NeverFromOwnWrite` there must be a first and a last: `RanksHaveEnds` shows that
no two records tie, because each transaction has its own `created_at` and each
record in it its own id (`StartsAreApart`), and that ranks are bounded
(`IdsAreBounded`), so that the order of the naturals, which is well-founded, has
a least one in each of the five places. What is compared was then retrieved, and
what was retrieved is committed, before the run has written anything.

`ReasoningPipelineProofs`, for every set of case files, of answers of the model
and of second opinions, from `PipelineAssumption` (that they have their fields,
levels that exist and numbers in known fields):

| Theorem | States |
|---|---|
| `PipelineTypeCorrect` | `PipelineTypeOK` |
| `PublishedStaysWithinCeiling` | `PublishedWithinCeiling` |
| `NumbersStaySanitised` | `NumbersSanitised` |
| `CertificatesStand` | `CertificateStands` |
| `OneJourneyAnswers` | `OneJourney` |
| `FiguresStayComputed` | `FiguresAreComputed` |
| `SecondOpinionsAreHad` | `SecondOpinionWhereWarranted` |

TLC tries six drafts at each call; here the model may answer anything, figures and
verifications of its own included. Three
lemmas carry the argument: what comes after the controls makes a position only
`Weaker` (less confident, fewer numbers), on which neither the ceiling nor the
contradictions depend (`WeakerKeeps`); a weaker position overstates no more
(`WeakerClaims`); and a certificate that found nothing without the text of the
case finds nothing with it (`BlindClaims`). `PipelineInv` says for each phase
what has been established by then: that the calculated figure, where there is
one, is with the position from the first answer on (`Drafted`); that the
certificate is true of the position (`CertificateIsTrue`) and that its level is
the position's until the second opinion lowers it (`Reviewed`).

What these theorems do not say: that a level never rises (the ceiling is an
assignment, as `tests/test_confidence_gate.py:147-234` ask), that the certified
confidence is the published one, or that an answer which needed no second
opinion was free of unsupported numbers from the start. `challenge_trigger` sees
only those that are left when the last check runs, and a retry or the sanitiser of
`CheckClaims` may have taken them away by then.

`CaseEvidenceProofs`, for every set of texts, updates, answers and tabs, without
using an assumption:

| Theorem | States |
|---|---|
| `ProvenanceStaysHonest` | `ProvenanceIsHonest` |
| `FirstSourcesStand` | `FirstSourceStands` |

A second normalisation takes whatever is stored for the model's own claim, so
its provenance is wrong by itself. The argument is why that does no harm. The
first pass records every field that had a source (`SourcesRecorded`), and what
is recorded is kept by `_merge_final_provenance`. A field that is new to the
worker therefore had none, so nothing was found for it in the text, and for such
a field no pass can say that two sources agree or conflict (`WorkersArePlain`).
This needs that nothing is recorded and nobody works before the case is
classified (`NothingEarly`), and that no request answers for a case before that
(`TabsLate`). TLC checked `IInv` first, on the evidence part of `platform`.

`EvidenceGateProofs`, for every set of texts, updates, answers and tabs, from
`EvidenceAssumption`:

| Theorem | States |
|---|---|
| `EvidenceTypeCorrect` | `EvidenceTypeOK` |
| `GateIsAsked` | `AskedBeforeReasoned` |
| `ChangesAreConfirmed` | `ChangeIsConfirmed` |

`EvidenceAssumption` says what a text may be read as. The classifier may put
anything anywhere. The patterns of the four numeric fields return a `float` or
nothing (`financial_fallback.py`, `duty_fallback.py`, `volume_fallback.py`). The
type of a case is one of the three that have required fields: a general case is
never normalised.

The gate looks at one pass over the evidence, and the worker at another, made
later of what was stored. The two theorems are true because the second pass finds
what the first one left:

* *One field at a time.* `Normalised` is a composition of functions on fields.
  `PassReads` takes it apart: `Reading` is what a pass makes of a field, given what
  was stored for it, what the patterns found, and the suppliers.
* *A pass over its own result* finds the same (`PassAgain`): this is the worker's
  pass over what the first one stored. Later passes work on stored evidence with
  answers in it, and there `Held` makes it so: what the patterns found in the first
  text is in the stored evidence, unless the suppliers differ in it, and what is
  derived from a figure is stored with it. The first pass establishes `Held`
  (`HeldPass`), and no answer takes it away (`HeldAnswer`), because the gate asks
  for nothing that the text had said; the percentage is asked for where nothing
  was found (`AsksWell`).
* *Past the gate.* A case that is queued, worked on, given up or published has all
  that the gate asks of it (`PastTheGate`). This needs that the evidence in hand
  at the check is the one that is stored, which holds as long as no two answers
  overlapped (`raced`), and that workers and positions are made of what is stored
  (`MadeOfStored`): an answer is stored only while the case waits for one, and a
  case at the gate, queued or worked on does not (`HoldersOK`). That a retry is not
  asked again does no harm, because nothing was stored since.
* *Changes.* A continuation keeps every field of its parent; those that differ
  are pending or were answered for (`ChangesAccounted`), and what is pending is
  confirmed before the case leaves its question (`PendingWaits`). `PassContinues`
  carries this from what is stored to what is reasoned on.

`GateInv` is the conjunction of these, with `IInv`. TLC checked it on the evidence
part of `platform` before the proof was finished. The attempt to prove
`GateIsAsked` corrected what the property had claimed: see *Evidence* below.

Only model-checked: `NoJobAbandoned`, for liveness under fairness is out of the
prover's reach. The nine properties that fail have counterexamples.

## What else a reader should know

Observed while modelling, and not the subject of a run:

* *Evidence.* A percentage typed with its sign never satisfies the gate. A mode
  that needs a comparison asks for one figure, so the answer alone never gives
  one. Answers of a user are recorded as the model's extraction. An update that
  conflicts only with itself asks for a confirmation and then does not need one.
  A change of a supplier's own terms replaces the parent's without a question
  (`decisions.py:1438`), and the gate is not asked in a continuation: freight that
  an update makes relevant, or spend that only the replaced suppliers had, is then
  missing from what is reasoned on. Of two answers that
  overlap, the fields of one may be lost. Prose in a category figure of the first
  text strands the case as 'classifying'.
* *Allowance.* The classifier of the mode is called before the insert, for a
  replay as well. A request that began in the last month sets the period back.
* *Access.* An acceptance whose answer is lost has consumed the invitation.
  Entries of the rate limits are lost where requests overlap.
* *Memory.* The comment at `memory_service.py:255` says that evidence which is at
  least as strong supersedes; the code asks for stronger, and links otherwise.
* *Pipeline.* `apply_confidence_ceiling` assigns the ceiling, which may raise the
  level. The sanitiser detects an opening ask and does not replace it. A retried
  position loses its mode and calibration. The check that market context is
  labelled does not run on a position that a methodology or contradiction retry
  left without the verification. Certificate, control tower, playbook and stress
  test are built before the challenger and not built again: the certificate may
  state a confidence (`trust_certification.py:74`) that the challenger then lowers,
  though the comment at `decisions.py:2336` says that it reflects the final state;
  `CertificateStands` says how far apart the two may be. A primary answer whose
  unsupported numbers a retry or the sanitiser of the claims took away is published
  without a second opinion, though the docstring of `challenge_trigger`
  (`model_orchestration.py:70`) has one for a primary that proposed such a number.
  A market verification that the model writes itself stays where none was made, and
  is enough for a claim to count as supported by the market. A figure of the
  model's without an amount makes the check of contradictions raise, and the run
  fails. A retry that one check keeps may be worse for another.

## Not modelled

Text and arithmetic: prompts, patterns, financial formulas, wording and layout of
answers. The analysis of market and category signals, which are calls of a model
and comparisons of phrases, and the sections of an answer that nothing else
reads: both are functions from text to text. Cryptography of tokens, files, the
browser page but for its bootstrap and the order of its requests, captured
replies and recorded outcomes (only appended), the migration bridge for old
links (off by default), and the reads that change nothing. Ages in seconds are
booleans: heartbeats and leases may lapse at any time, which contains every
choice of the tick, the grace and the lease. The pool of connections is a matter
of capacity: what it does when it is exhausted, a write that raises, is among the
failures of each action.

## Plan

What is left, in this order:

1. `Dispatcher`: several cases, the order of discovery, the limit of the sweep,
   starvation.
2. `HeartbeatTiming`: a clock, the tick of 15 s, the grace of 90 s, the lease of
   1200 s; which configurations supersede a live worker; the boundary at which
   `is_stale` and the queries differ.
3. The migration bridge and the captured replies, if they grow state.
