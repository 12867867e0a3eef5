---------------------------- MODULE MonthlyQuota ----------------------------
(***************************************************************************)
(* The monthly allowance of a workspace. A request that creates a case, or *)
(* continues one, inserts the case's row and reserves one use of the       *)
(* allowance in the same transaction. Requests run side by side: each      *)
(* statement sees what is committed, and waits for a row that another open *)
(* transaction has written.                                                *)
(*                                                                         *)
(* now() is the start of a transaction, so a request that began before the *)
(* end of a month may reserve, in that month, after one of the next month  *)
(* has reserved already.                                                   *)
(***************************************************************************)
EXTENDS Integers, FiniteSets

CONSTANTS
  Request,    \* requests in flight at the same time
  CaseId,     \* the ids that clients give their cases
  Allowance,  \* monthly_decision_limit of the workspace
  LastMonth   \* bound: months that pass

ASSUME QuotaAssumption ==
  /\ CaseId # {}
  /\ Allowance \in Nat \ {0}
  /\ LastMonth \in Nat \ {0}

VARIABLES
  month,      \* the calendar
  usage,      \* monthly_usage_period and monthly_decisions_used
  cases,      \* the ids of the committed cases
  request,    \* of a request: its stage, the id it carries, its now()
  reserved,   \* history: the reservations committed: <<case, month, how many before>>
  setBack     \* history: the period was set back to a month that had ended

quotaVars == <<month, usage, cases, request, reserved, setBack>>

QuotaInit ==
  /\ month = 1
  /\ usage = [period |-> 1, used |-> 0]
  /\ cases = {}
  /\ request = [r \in Request |-> [stage |-> "idle", id |-> CHOOSE i \in CaseId : TRUE,
                                   now |-> 1]]
  /\ reserved = {}
  /\ setBack = FALSE

Stage(r, from, to) ==
  /\ request[r].stage = from
  /\ request' = [request EXCEPT ![r].stage = to]

\* What other open transactions have written: a case's row, the allowance.
InsertedElsewhere(r) ==
  {request[q].id : q \in {q \in Request \ {r} :
                            request[q].stage \in {"inserted", "reserved"}}}
AllowanceHeld(r) == \E q \in Request \ {r} : request[q].stage = "reserved"

\* The first statement opens the transaction and fixes its now(). A client that
\* had no answer sends the same id again.
BeginCase(r, id) ==
  /\ request[r].stage = "idle"
  /\ request' = [request EXCEPT ![r] = [stage |-> "begun", id |-> id, now |-> month]]
  /\ UNCHANGED <<month, usage, cases, reserved, setBack>>

\* Broken: the id is not checked, so the same case is inserted once more.
InsertAgain(r) ==
  /\ request[r].id \notin InsertedElsewhere(r)
  /\ Stage(r, "begun", "inserted")
  /\ UNCHANGED <<month, usage, cases, reserved, setBack>>

\* INSERT ... ON CONFLICT DO NOTHING: a replay is answered with the case.
InsertCase(r) ==
  /\ request[r].id \notin InsertedElsewhere(r)
  /\ Stage(r, "begun", IF request[r].id \in cases THEN "idle" ELSE "inserted")
  /\ UNCHANGED <<month, usage, cases, reserved, setBack>>

\* Broken: the comparison with the limit is off by one.
AllowedOnceMore(now) == usage.period < now \/ usage.used <= Allowance

Allowed(now) == usage.period < now \/ usage.used < Allowance

\* The one UPDATE that checks the allowance and takes from it. Without a row to
\* update, 429: the transaction is rolled back, and the case's row with it.
Reserve(r) ==
  /\ ~AllowanceHeld(r)
  /\ Stage(r, "inserted", IF Allowed(request[r].now) THEN "reserved" ELSE "idle")
  /\ UNCHANGED <<month, usage, cases, reserved, setBack>>

\* Broken: a new month adds to what the last one left.
UsageCarriedOver(now) == [period |-> now, used |-> usage.used + 1]

UsageAfter(now) ==
  [period |-> now, used |-> IF usage.period < now THEN 1 ELSE usage.used + 1]

CommitCase(r) ==
  /\ Stage(r, "reserved", "idle")
  /\ usage' = UsageAfter(request[r].now)
  /\ cases' = cases \cup {request[r].id}
  /\ reserved' = reserved \cup {<<request[r].id, request[r].now, Cardinality(reserved)>>}
  /\ setBack' = (setBack \/ request[r].now < usage.period)
  /\ UNCHANGED month

\* The process dies, or the connection: everything is rolled back.
AbortCase(r) ==
  /\ request[r].stage # "idle"
  /\ request' = [request EXCEPT ![r].stage = "idle"]
  /\ UNCHANGED <<month, usage, cases, reserved, setBack>>

MonthPasses ==
  /\ month < LastMonth
  /\ month' = month + 1
  /\ UNCHANGED <<usage, cases, request, reserved, setBack>>

QuotaNext ==
  \/ \E r \in Request :
       \/ \E id \in CaseId : BeginCase(r, id)
       \/ InsertCase(r)
       \/ Reserve(r)
       \/ CommitCase(r)
       \/ AbortCase(r)
  \/ MonthPasses

QuotaSpec == QuotaInit /\ [][QuotaNext]_quotaVars

-----------------------------------------------------------------------------
(***************************************************************************)
(* Properties                                                              *)
(***************************************************************************)

ReservedIn(m) == {x \in reserved : x[2] = m}

QuotaTypeOK ==
  /\ month \in 1..LastMonth
  /\ usage \in [period : 1..LastMonth, used : 0..Allowance]
  /\ cases \subseteq CaseId
  /\ request \in [Request -> [stage : {"idle", "begun", "inserted", "reserved"},
                              id : CaseId, now : 1..LastMonth]]
  /\ \A x \in reserved : x \in CaseId \X (1..LastMonth) \X Nat
  /\ setBack \in BOOLEAN

\* Every case is paid for, exactly once, whatever replays, refusals and deaths
\* there were: no case without a reservation, none refused that left a case,
\* and none that was reserved twice.
WorkIsPaidOnce ==
  /\ cases = {x[1] : x \in reserved}
  /\ \A x, y \in reserved : x[1] = y[1] => x = y

\* The count that the next request is checked against is the number of cases
\* reserved in its month, and no month has more than the allowance: two requests
\* cannot both take the last use. The exception is the period being set back, by
\* a request that began before the end of the month and came late.
UsageIsAccounted ==
  ~setBack => /\ usage.used = Cardinality(ReservedIn(usage.period))
                 /\ \A m \in 1..LastMonth : Cardinality(ReservedIn(m)) <= Allowance
=============================================================================
