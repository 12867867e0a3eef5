-------------------------- MODULE SupplierResponse --------------------------
(***************************************************************************)
(* The supplier response of one completed decision: the draft and its      *)
(* versions, the approval, the delivery records and the connector that the *)
(* webhook reaches, under requests of several browser tabs.                *)
(*                                                                         *)
(* Each action is a statement, or several of one transaction that no other *)
(* can tell apart; what a transaction writes shows at its commit. Locks    *)
(* are places: the row lock of the draft and the advisory lock of a send   *)
(* are held by the tabs at certain values of pc, and end with them.        *)
(***************************************************************************)
EXTENDS Naturals

CONSTANTS
  Window,      \* browser tabs, each with at most one request in flight
  Payload,     \* recipient, subject and body, up to what their hash ignores
  Prepared,    \* the text that the workflow prepares before any is saved
  MaxVersion,  \* bound: nobody saves beyond this version
  MaxPosts     \* bound: the connector accepts a payload this many times

ASSUME SupplierAssumption ==
  /\ Prepared \notin Payload
  /\ MaxVersion \in Nat \ {0}
  /\ MaxPosts \in Nat

VARIABLES
  draft,      \* supplier_response_drafts; version 0 when there is no row
  approved,   \* workflow_action_approvals has a row for the message
  delivery,   \* the status of supplier_response_deliveries, by payload
  posts,      \* how often the connector has accepted each payload
  pc,
  screen,     \* the draft a tab shows; its version is the expected_version
  hand,       \* the draft that a request read, or is about to write
  deletes,    \* the DELETE of a save found an approval
  reviewed,   \* history: whoever approved had the present draft on the screen
  seen        \* history: a sender found an approval of the draft it had read

rows == <<draft, approved, delivery, reviewed>>
responseVars == <<rows, posts, pc, screen, hand, deletes, seen>>

SavedDraft == [version : Nat, payload : Payload \cup {Prepared}]

NoDraft == [version |-> 0, payload |-> Prepared]

\* What get_supplier_response shows when nothing is saved: as version 1.
Placeholder == [version |-> 1, payload |-> Prepared]

\* A failed delivery is written as FAILED, and then the exception that
\* reports it rolls its transaction back: no committed row has that status.
DeliveryStatus == {"absent", "HANDOFF_READY", "SENT"}

Pc == {"idle", "save_insert", "save_update", "save_commit",
       "send_wait", "send_approval", "post", "record",
       "handoff_approval", "handoff_insert"}

\* The places of a transaction that has locked, or written, the draft's row.
HasDraftRow(t) == pc[t] \in {"save_update", "save_commit"}

\* The places of a transaction that holds the advisory lock.
HasSendLock(t) == pc[t] \in {"send_approval", "post", "record"}

-----------------------------------------------------------------------------
ResponseInit ==
  /\ draft = NoDraft
  /\ approved = FALSE
  /\ delivery = [p \in Payload |-> "absent"]
  /\ posts = [p \in Payload |-> 0]
  /\ pc = [t \in Window |-> "idle"]
  /\ screen = [t \in Window |-> Placeholder]
  /\ hand = [t \in Window |-> NoDraft]
  /\ deletes = [t \in Window |-> FALSE]
  /\ reviewed = FALSE
  /\ seen = [t \in Window |-> FALSE]

Goto(t, l) == pc' = [pc EXCEPT ![t] = l]

\* The request ends: committed, or rolled back with all that it wrote.
Return(t) ==
  /\ Goto(t, "idle")
  /\ hand' = [hand EXCEPT ![t] = NoDraft]
  /\ deletes' = [deletes EXCEPT ![t] = FALSE]
  /\ seen' = [seen EXCEPT ![t] = FALSE]

\* GET .../supplier-response
Load(t) ==
  /\ pc[t] = "idle"
  /\ screen' = [screen EXCEPT ![t] = IF draft.version = 0 THEN Placeholder ELSE draft]
  /\ UNCHANGED <<rows, posts, pc, hand, deletes, seen>>

-----------------------------------------------------------------------------
\* Broken: the version is read without FOR UPDATE.
SaveReadUnlocked(t) ==
  /\ pc[t] = "idle"
  /\ draft.version < MaxVersion
  /\ draft.version # 0 => draft.version = screen[t].version
  /\ Goto(t, "save_insert")
  /\ \E p \in Payload :
       hand' = [hand EXCEPT ![t] = [version |-> draft.version + 1, payload |-> p]]
  /\ UNCHANGED <<rows, posts, screen, deletes, seen>>

\* PUT .../supplier-response: SELECT version ... FOR UPDATE. Without a row
\* there is nothing to lock, and no expected_version is compared.
SaveRead(t) ==
  /\ pc[t] = "idle"
  /\ draft.version < MaxVersion
  /\ IF draft.version = 0
       THEN Goto(t, "save_insert")
       ELSE /\ \A u \in Window : ~HasDraftRow(u)
            /\ draft.version = screen[t].version
            /\ Goto(t, "save_update")
  /\ \E p \in Payload :
       hand' = [hand EXCEPT ![t] = [version |-> draft.version + 1, payload |-> p]]
  /\ UNCHANGED <<rows, posts, screen, deletes, seen>>

\* The upsert, which waits for another transaction's row, and the DELETE of
\* the approval, which finds the one that is committed by now.
SaveWrite(t) ==
  /\ pc[t] \in {"save_insert", "save_update"}
  /\ \A u \in Window \ {t} : ~HasDraftRow(u)
  /\ deletes' = [deletes EXCEPT ![t] = approved]
  /\ Goto(t, "save_commit")
  /\ UNCHANGED <<rows, posts, screen, hand, seen>>

SaveCommit(t) ==
  /\ pc[t] = "save_commit"
  /\ draft' = hand[t]
  /\ approved' = (approved /\ ~deletes[t])
  /\ reviewed' = FALSE
  /\ screen' = [screen EXCEPT ![t] = hand[t]]
  /\ Return(t)
  /\ UNCHANGED <<delivery, posts>>

\* POST .../agent-workflow/draft-supplier-message/approve, which names no
\* version. The page saves what it shows before it asks for this. The upsert
\* waits while a save is about to delete the row.
Approve(t) ==
  /\ pc[t] = "idle"
  /\ screen[t].payload # Prepared
  /\ ~\E u \in Window : deletes[u]
  /\ approved' = TRUE
  /\ reviewed' = (screen[t] = draft)
  /\ UNCHANGED <<draft, delivery, posts, pc, screen, hand, deletes, seen>>

-----------------------------------------------------------------------------
\* POST .../supplier-response/send
Send(t) ==
  /\ pc[t] = "idle"
  /\ Goto(t, "send_wait")
  /\ UNCHANGED <<rows, posts, screen, hand, deletes, seen>>

\* Whether the draft is there and in the version that the request expects.
AsExpected(t) == draft.version > 0 /\ draft.version = screen[t].version

\* Broken: the send does not take the lock.
SendLockNone(t) ==
  /\ pc[t] = "send_wait"
  /\ IF AsExpected(t)
       THEN /\ hand' = [hand EXCEPT ![t] = draft]
            /\ Goto(t, "send_approval")
            /\ UNCHANGED <<deletes, seen>>
       ELSE Return(t)
  /\ UNCHANGED <<rows, posts, screen>>

\* pg_advisory_xact_lock, then the draft is read.
SendLock(t) ==
  /\ pc[t] = "send_wait"
  /\ \A u \in Window : ~HasSendLock(u)
  /\ IF AsExpected(t)
       THEN /\ hand' = [hand EXCEPT ![t] = draft]
            /\ Goto(t, "send_approval")
            /\ UNCHANGED <<deletes, seen>>
       ELSE Return(t)
  /\ UNCHANGED <<rows, posts, screen>>

\* The approval is read, and the record of an earlier delivery: that one
\* only a sender with the lock writes. A payload that was sent is not again.
SendReadApproval(t) ==
  /\ pc[t] = "send_approval"
  /\ IF approved /\ delivery[hand[t].payload] # "SENT"
       THEN /\ seen' = [seen EXCEPT ![t] = reviewed /\ hand[t] = draft]
            /\ Goto(t, "post")
            /\ UNCHANGED <<hand, deletes>>
       ELSE Return(t)
  /\ UNCHANGED <<rows, posts, screen>>

\* The connector takes the message.
PostMessage(t) ==
  /\ pc[t] = "post"
  /\ posts[hand[t].payload] < MaxPosts
  /\ posts' = [posts EXCEPT ![hand[t].payload] = @ + 1]
  /\ UNCHANGED <<rows, screen>>

SendAccepted(t) ==
  /\ PostMessage(t)
  /\ Goto(t, "record")
  /\ UNCHANGED <<hand, deletes, seen>>

\* It takes the message and its answer is late, lost or not a success: 502.
SendUnanswered(t) ==
  /\ PostMessage(t)
  /\ Return(t)

\* Broken: a connector that refuses is taken for one that accepts.
SendRefusedUnnoticed(t) ==
  /\ pc[t] = "post"
  /\ Goto(t, "record")
  /\ UNCHANGED <<rows, posts, screen, hand, deletes, seen>>

\* It does not take the message: 502.
SendRefused(t) ==
  /\ pc[t] = "post"
  /\ Return(t)
  /\ UNCHANGED <<rows, posts, screen>>

\* Broken: the delivery is recorded under a status of the connector's.
SendRecordVerbatim(t) ==
  /\ pc[t] = "record"
  /\ delivery' = [delivery EXCEPT ![hand[t].payload] = "ACCEPTED"]
  /\ Return(t)
  /\ UNCHANGED <<draft, approved, reviewed, posts, screen>>

\* The upsert of the delivery, and the commit, which ends the lock.
SendRecord(t) ==
  /\ pc[t] = "record"
  /\ delivery' = [delivery EXCEPT ![hand[t].payload] = "SENT"]
  /\ Return(t)
  /\ UNCHANGED <<draft, approved, reviewed, posts, screen>>

-----------------------------------------------------------------------------
\* POST .../supplier-response/handoff, for the user's own mail client.
HandoffReadDraft(t) ==
  /\ pc[t] = "idle"
  /\ AsExpected(t)
  /\ hand' = [hand EXCEPT ![t] = draft]
  /\ Goto(t, "handoff_approval")
  /\ UNCHANGED <<rows, posts, screen, deletes, seen>>

HandoffReadApproval(t) ==
  /\ pc[t] = "handoff_approval"
  /\ IF approved
       THEN /\ Goto(t, "handoff_insert")
            /\ UNCHANGED <<hand, deletes, seen>>
       ELSE Return(t)
  /\ UNCHANGED <<rows, posts, screen>>

\* INSERT ... SELECT from the approval, ON CONFLICT DO NOTHING: with neither
\* an approval any more nor a new payload the request succeeds all the same.
HandoffInsert(t) ==
  /\ pc[t] = "handoff_insert"
  /\ delivery' = IF approved /\ delivery[hand[t].payload] = "absent"
                   THEN [delivery EXCEPT ![hand[t].payload] = "HANDOFF_READY"]
                   ELSE delivery
  /\ Return(t)
  /\ UNCHANGED <<draft, approved, reviewed, posts, screen>>

\* The process of a request stops: the database rolls back, locks end.
Die(t) ==
  /\ pc[t] # "idle"
  /\ Return(t)
  /\ UNCHANGED <<rows, posts, screen>>

-----------------------------------------------------------------------------
\* A request, with its first statement.
ResponseRequest(t) == Load(t) \/ SaveRead(t) \/ Approve(t) \/ Send(t) \/ HandoffReadDraft(t)

\* A statement of a request that waits for no lock.
Proceed(t) ==
  \/ SaveCommit(t)
  \/ SendReadApproval(t)
  \/ SendAccepted(t)
  \/ SendUnanswered(t)
  \/ SendRefused(t)
  \/ SendRecord(t)
  \/ HandoffReadApproval(t)
  \/ HandoffInsert(t)

ResponseNext ==
  \E t \in Window : \/ ResponseRequest(t)
                    \/ SaveWrite(t)
                    \/ SendLock(t)
                    \/ Proceed(t)
                    \/ Die(t)

ResponseSpec == ResponseInit /\ [][ResponseNext]_responseVars

-----------------------------------------------------------------------------
\* The type invariant: no FAILED delivery is ever on record.
ResponseTypeOK ==
  /\ draft \in SavedDraft
  /\ approved \in BOOLEAN
  /\ delivery \in [Payload -> DeliveryStatus]
  /\ posts \in [Payload -> 0..MaxPosts]
  /\ pc \in [Window -> Pc]
  /\ screen \in [Window -> SavedDraft]
  /\ hand \in [Window -> SavedDraft]
  /\ deletes \in [Window -> BOOLEAN]
  /\ reviewed \in BOOLEAN
  /\ seen \in [Window -> BOOLEAN]

\* A payload on record as sent stays so and is not posted again, by no tab
\* that read the records before: what the advisory lock of a send is for.
RecordedNeverResent ==
  [][\A p \in Payload :
       delivery[p] = "SENT" => delivery'[p] = "SENT" /\ posts'[p] = posts[p]]_responseVars

\* A success on record is one: the connector accepted that payload.
SuccessIsReal ==
  \A p \in Payload : delivery[p] = "SENT" => posts[p] > 0

\* Saves are serial: one that read an existing draft replaces the version it
\* read, and not what another tab saved in between. (A first save read none.)
EditsFollow ==
  [][\A t \in Window :
       (pc[t] = "save_commit" /\ hand[t].version > 1 /\ draft' # draft /\ pc'[t] = "idle")
         => hand[t].version = draft.version + 1]_responseVars

-----------------------------------------------------------------------------
\* CTO_RELEASE_36_PHASE9_SUPPLIER_RESPONSE.md: "Any subsequent edit
\* automatically invalidates the prior approval" and "Approval is tied to the
\* current edited draft state". What a send passes to the connector is what
\* whoever approved it had on the screen.
SentAsReviewed ==
  \A t \in Window : pc[t] \in {"post", "record"} => seen[t]

\* The same document: "Outbound delivery is durably audited with [...]
\* delivery result". What the connector took is on record once no send runs.
PostsAreAudited ==
  (\A t \in Window : pc[t] = "idle") =>
    \A p \in Payload : posts[p] > 0 => delivery[p] # "absent"
=============================================================================
