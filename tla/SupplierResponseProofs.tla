----------------------- MODULE SupplierResponseProofs -----------------------
(***************************************************************************)
(* Theorems about SupplierResponse, for every set of tabs and payloads and *)
(* every bound: what the advisory lock and the row lock are for.           *)
(***************************************************************************)
EXTENDS SupplierResponse, TLAPS

\* Each lock has one holder at most.
LocksExclusive ==
  \A t, u \in Window :
    /\ HasSendLock(t) /\ HasSendLock(u) => t = u
    /\ HasDraftRow(t) /\ HasDraftRow(u) => t = u

\* A request that is past its reads has a saved draft in hand.
HandIsSaved ==
  /\ draft.version > 0 => draft.payload \in Payload
  /\ \A t \in Window : pc[t] \notin {"idle", "send_wait"} => hand[t].payload \in Payload

\* What a sender found about its payload is still so when it acts on it.
PostIsFresh ==
  \A t \in Window :
    /\ pc[t] \in {"post", "record"} => delivery[hand[t].payload] # "SENT"
    /\ pc[t] = "record" => posts[hand[t].payload] > 0

\* A save that has the row is about to write the version after it.
EditIsNext ==
  \A t \in Window :
    /\ pc[t] = "save_insert" => hand[t].version = 1
    /\ pc[t] = "save_update" => hand[t].version = draft.version + 1
    /\ pc[t] = "save_commit" => hand[t].version \in {1, draft.version + 1}

\* The inductive invariant. SuccessIsReal needs that a sender about to record
\* has posted (PostIsFresh), and that the lock lets nobody act in between.
IInv ==
  /\ ResponseTypeOK
  /\ SuccessIsReal
  /\ LocksExclusive
  /\ HandIsSaved
  /\ PostIsFresh
  /\ EditIsNext

-----------------------------------------------------------------------------
\* Nothing is saved, sent or under way at first.
LEMMA InitEstablishes == ResponseInit => IInv
<1> SUFFICES ASSUME ResponseInit PROVE IInv
  OBVIOUS
<1> USE SupplierAssumption DEF ResponseInit, NoDraft, Placeholder
<1>1. ResponseTypeOK
  <2>1. /\ draft \in SavedDraft
        /\ screen \in [Window -> SavedDraft] /\ hand \in [Window -> SavedDraft]
    BY DEF SavedDraft
  <2>2. approved \in BOOLEAN /\ reviewed \in BOOLEAN
    OBVIOUS
  <2>3. delivery \in [Payload -> DeliveryStatus] /\ posts \in [Payload -> 0..MaxPosts]
    BY DEF DeliveryStatus
  <2>4. pc \in [Window -> Pc] /\ deletes \in [Window -> BOOLEAN] /\ seen \in [Window -> BOOLEAN]
    BY DEF Pc
  <2> QED
    BY <2>1, <2>2, <2>3, <2>4 DEF ResponseTypeOK
<1>2. SuccessIsReal /\ HandIsSaved
  BY DEF SuccessIsReal, HandIsSaved
<1>3. LocksExclusive /\ PostIsFresh /\ EditIsNext
  BY DEF LocksExclusive, PostIsFresh, EditIsNext, HasSendLock, HasDraftRow
<1> QED
  BY <1>1, <1>2, <1>3 DEF IInv

\* A request that ends, or that only reads, leaves the invariant as it is.
LEMMA ReturnPreserves ==
  ASSUME IInv, NEW t \in Window, Return(t), UNCHANGED <<rows, posts, screen>>
  PROVE  IInv'
BY SupplierAssumption
DEF IInv, ResponseTypeOK, SuccessIsReal, LocksExclusive, HandIsSaved, PostIsFresh, EditIsNext,
    HasSendLock, HasDraftRow, Return, Goto, rows, SavedDraft, NoDraft, DeliveryStatus, Pc

\* Every step preserves the invariant, action by action.
LEMMA StepPreserves == IInv /\ [ResponseNext]_responseVars => IInv'
<1> SUFFICES ASSUME IInv, [ResponseNext]_responseVars PROVE IInv'
  OBVIOUS
<1> USE SupplierAssumption
    DEF IInv, ResponseTypeOK, SuccessIsReal, LocksExclusive, HandIsSaved, PostIsFresh, EditIsNext,
        HasSendLock, HasDraftRow, rows, SavedDraft, NoDraft, DeliveryStatus, Pc, Goto
<1>1. ASSUME NEW t \in Window, Load(t) PROVE IInv'
  BY <1>1 DEF Load, Placeholder
<1>2. ASSUME NEW t \in Window, SaveRead(t) PROVE IInv'
  <2>1. ResponseTypeOK'
    BY <1>2 DEF SaveRead
  <2>2. SuccessIsReal'
    BY <1>2 DEF SaveRead
  <2>3. LocksExclusive'
    <3>1. CASE draft.version = 0
      BY <1>2, <3>1 DEF SaveRead
    <3>2. CASE draft.version # 0
      BY <1>2, <3>2 DEF SaveRead
    <3> QED
      BY <3>1, <3>2
  <2>4. HandIsSaved'
    BY <1>2 DEF SaveRead
  <2>5. PostIsFresh'
    BY <1>2 DEF SaveRead
  <2>6. EditIsNext'
    BY <1>2 DEF SaveRead
  <2> QED
    BY <2>1, <2>2, <2>3, <2>4, <2>5, <2>6
<1>3. ASSUME NEW t \in Window, SaveWrite(t) PROVE IInv'
  BY <1>3 DEF SaveWrite
<1>4. ASSUME NEW t \in Window, SaveCommit(t) PROVE IInv'
  <2>1. ResponseTypeOK'
    BY <1>4 DEF SaveCommit, Return
  <2>2. SuccessIsReal'
    BY <1>4 DEF SaveCommit, Return
  <2>3. LocksExclusive'
    BY <1>4 DEF SaveCommit, Return
  <2>4. HandIsSaved'
    BY <1>4 DEF SaveCommit, Return
  <2>5. PostIsFresh'
    BY <1>4 DEF SaveCommit, Return
  <2>6. EditIsNext'
    BY <1>4 DEF SaveCommit, Return
  <2> QED
    BY <2>1, <2>2, <2>3, <2>4, <2>5, <2>6
<1>5. ASSUME NEW t \in Window, Approve(t) PROVE IInv'
  BY <1>5 DEF Approve
<1>6. ASSUME NEW t \in Window, Send(t) PROVE IInv'
  BY <1>6 DEF Send
<1>7. ASSUME NEW t \in Window, SendLock(t) PROVE IInv'
  <2>1. CASE AsExpected(t)
    <3>1. ResponseTypeOK'
      <4>1. hand' = [hand EXCEPT ![t] = draft] /\ pc' = [pc EXCEPT ![t] = "send_approval"]
        BY <1>7, <2>1 DEF SendLock
      <4>2. UNCHANGED <<rows, posts, screen, deletes, seen>>
        BY <1>7, <2>1 DEF SendLock
      <4> QED
        BY <4>1, <4>2
    <3>2. SuccessIsReal'
      BY <1>7, <2>1 DEF SendLock, AsExpected
    <3>3. LocksExclusive'
      BY <1>7, <2>1 DEF SendLock, AsExpected
    <3>4. HandIsSaved'
      BY <1>7, <2>1 DEF SendLock, AsExpected
    <3>5. PostIsFresh'
      BY <1>7, <2>1 DEF SendLock, AsExpected
    <3>6. EditIsNext'
      BY <1>7, <2>1 DEF SendLock, AsExpected
    <3> QED
      BY <3>1, <3>2, <3>3, <3>4, <3>5, <3>6
  <2>2. CASE ~AsExpected(t)
    BY <1>7, <2>2, ReturnPreserves DEF SendLock
  <2> QED
    BY <2>1, <2>2
<1>8. ASSUME NEW t \in Window, SendReadApproval(t) PROVE IInv'
  <2>1. CASE approved /\ delivery[hand[t].payload] # "SENT"
    <3>1. ResponseTypeOK'
      BY <1>8, <2>1 DEF SendReadApproval
    <3>2. SuccessIsReal'
      BY <1>8, <2>1 DEF SendReadApproval
    <3>3. LocksExclusive'
      BY <1>8, <2>1 DEF SendReadApproval
    <3>4. HandIsSaved'
      BY <1>8, <2>1 DEF SendReadApproval
    <3>5. PostIsFresh'
      BY <1>8, <2>1 DEF SendReadApproval
    <3>6. EditIsNext'
      BY <1>8, <2>1 DEF SendReadApproval
    <3> QED
      BY <3>1, <3>2, <3>3, <3>4, <3>5, <3>6
  <2>2. CASE ~(approved /\ delivery[hand[t].payload] # "SENT")
    BY <1>8, <2>2, ReturnPreserves DEF SendReadApproval
  <2> QED
    BY <2>1, <2>2
<1>9. ASSUME NEW t \in Window, SendAccepted(t) PROVE IInv'
  <2>1. ResponseTypeOK'
    BY <1>9 DEF SendAccepted, PostMessage
  <2>2. SuccessIsReal'
    BY <1>9 DEF SendAccepted, PostMessage
  <2>3. LocksExclusive'
    BY <1>9 DEF SendAccepted, PostMessage
  <2>4. HandIsSaved'
    BY <1>9 DEF SendAccepted, PostMessage
  <2>5. PostIsFresh'
    BY <1>9 DEF SendAccepted, PostMessage
  <2>6. EditIsNext'
    BY <1>9 DEF SendAccepted, PostMessage
  <2> QED
    BY <2>1, <2>2, <2>3, <2>4, <2>5, <2>6
<1>10. ASSUME NEW t \in Window, SendUnanswered(t) PROVE IInv'
  <2>1. ResponseTypeOK'
    <3>1. posts' \in [Payload -> 0..MaxPosts]
      BY <1>10 DEF SendUnanswered, PostMessage
    <3>2. UNCHANGED <<rows, screen>>
      BY <1>10 DEF SendUnanswered, PostMessage
    <3>3. Return(t)
      BY <1>10 DEF SendUnanswered
    <3> QED
      BY <3>1, <3>2, <3>3 DEF Return
  <2>2. SuccessIsReal'
    BY <1>10 DEF SendUnanswered, PostMessage, Return
  <2>3. LocksExclusive'
    BY <1>10 DEF SendUnanswered, PostMessage, Return
  <2>4. HandIsSaved'
    BY <1>10 DEF SendUnanswered, PostMessage, Return
  <2>5. PostIsFresh'
    BY <1>10 DEF SendUnanswered, PostMessage, Return
  <2>6. EditIsNext'
    BY <1>10 DEF SendUnanswered, PostMessage, Return
  <2> QED
    BY <2>1, <2>2, <2>3, <2>4, <2>5, <2>6
<1>11. ASSUME NEW t \in Window, SendRefused(t) PROVE IInv'
  BY <1>11, ReturnPreserves DEF SendRefused
<1>12. ASSUME NEW t \in Window, SendRecord(t) PROVE IInv'
  <2>1. ResponseTypeOK'
    BY <1>12 DEF SendRecord, Return
  <2>2. SuccessIsReal'
    BY <1>12 DEF SendRecord, Return
  <2>3. LocksExclusive'
    BY <1>12 DEF SendRecord, Return
  <2>4. HandIsSaved'
    BY <1>12 DEF SendRecord, Return
  <2>5. PostIsFresh'
    BY <1>12 DEF SendRecord, Return
  <2>6. EditIsNext'
    BY <1>12 DEF SendRecord, Return
  <2> QED
    BY <2>1, <2>2, <2>3, <2>4, <2>5, <2>6
<1>13. ASSUME NEW t \in Window, HandoffReadDraft(t) PROVE IInv'
  <2>1. ResponseTypeOK'
    BY <1>13 DEF HandoffReadDraft, AsExpected
  <2>2. SuccessIsReal'
    BY <1>13 DEF HandoffReadDraft, AsExpected
  <2>3. LocksExclusive'
    BY <1>13 DEF HandoffReadDraft, AsExpected
  <2>4. HandIsSaved'
    BY <1>13 DEF HandoffReadDraft, AsExpected
  <2>5. PostIsFresh'
    BY <1>13 DEF HandoffReadDraft, AsExpected
  <2>6. EditIsNext'
    BY <1>13 DEF HandoffReadDraft, AsExpected
  <2> QED
    BY <2>1, <2>2, <2>3, <2>4, <2>5, <2>6
<1>14. ASSUME NEW t \in Window, HandoffReadApproval(t) PROVE IInv'
  <2>1. CASE approved
    <3>1. ResponseTypeOK'
      BY <1>14, <2>1 DEF HandoffReadApproval
    <3>2. SuccessIsReal'
      BY <1>14, <2>1 DEF HandoffReadApproval
    <3>3. LocksExclusive'
      BY <1>14, <2>1 DEF HandoffReadApproval
    <3>4. HandIsSaved'
      BY <1>14, <2>1 DEF HandoffReadApproval
    <3>5. PostIsFresh'
      BY <1>14, <2>1 DEF HandoffReadApproval
    <3>6. EditIsNext'
      BY <1>14, <2>1 DEF HandoffReadApproval
    <3> QED
      BY <3>1, <3>2, <3>3, <3>4, <3>5, <3>6
  <2>2. CASE ~approved
    BY <1>14, <2>2, ReturnPreserves DEF HandoffReadApproval
  <2> QED
    BY <2>1, <2>2
<1>15. ASSUME NEW t \in Window, HandoffInsert(t) PROVE IInv'
  <2>1. ResponseTypeOK'
    BY <1>15 DEF HandoffInsert, Return
  <2>2. SuccessIsReal'
    BY <1>15 DEF HandoffInsert, Return
  <2>3. LocksExclusive'
    BY <1>15 DEF HandoffInsert, Return
  <2>4. HandIsSaved'
    BY <1>15 DEF HandoffInsert, Return
  <2>5. PostIsFresh'
    BY <1>15 DEF HandoffInsert, Return
  <2>6. EditIsNext'
    BY <1>15 DEF HandoffInsert, Return
  <2> QED
    BY <2>1, <2>2, <2>3, <2>4, <2>5, <2>6
<1>16. ASSUME NEW t \in Window, Die(t) PROVE IInv'
  BY <1>16, ReturnPreserves DEF Die
<1>17. CASE UNCHANGED responseVars
  BY <1>17 DEF responseVars
<1> QED
  BY <1>1, <1>2, <1>3, <1>4, <1>5, <1>6, <1>7, <1>8, <1>9, <1>10, <1>11, <1>12,
     <1>13, <1>14, <1>15, <1>16, <1>17 DEF ResponseNext, ResponseRequest, Proceed

\* Type correctness; with it, that no committed delivery is ever FAILED.
THEOREM TypeCorrect == ResponseSpec => []ResponseTypeOK
<1>1. IInv => ResponseTypeOK
  BY DEF IInv
<1> QED
  BY InitEstablishes, StepPreserves, <1>1, PTL DEF ResponseSpec

\* A delivery on record as sent was accepted by the connector.
THEOREM SuccessesAreReal == ResponseSpec => []SuccessIsReal
<1>1. IInv => SuccessIsReal
  BY DEF IInv
<1> QED
  BY InitEstablishes, StepPreserves, <1>1, PTL DEF ResponseSpec

-----------------------------------------------------------------------------
\* A payload on record as sent is not posted again, and stays on record: only
\* a sender that found none posts, and the lock kept what it found true.
THEOREM NeverResent == ResponseSpec => RecordedNeverResent
<1> DEFINE Stands == \A p \in Payload :
             delivery[p] = "SENT" => delivery'[p] = "SENT" /\ posts'[p] = posts[p]
<1>1. IInv /\ [ResponseNext]_responseVars => [Stands]_responseVars
  <2> SUFFICES ASSUME IInv, ResponseNext PROVE Stands
    OBVIOUS
  <2> USE DEF IInv, ResponseTypeOK, HandIsSaved, PostIsFresh, rows
  <2>1. PICK t \in Window :
          ResponseRequest(t) \/ SaveWrite(t) \/ SendLock(t) \/ Proceed(t) \/ Die(t)
    BY DEF ResponseNext
  <2>2. CASE ResponseRequest(t) \/ SaveWrite(t) \/ SendLock(t) \/ Die(t)
    BY <2>2
    DEF ResponseRequest, Load, SaveRead, Approve, Send, HandoffReadDraft, SaveWrite, SendLock, Die
  <2>3. CASE SaveCommit(t) \/ SendReadApproval(t) \/ SendRefused(t) \/ HandoffReadApproval(t)
    BY <2>3 DEF SaveCommit, SendReadApproval, SendRefused, HandoffReadApproval
  <2>4. CASE SendAccepted(t) \/ SendUnanswered(t)
    BY <2>4 DEF SendAccepted, SendUnanswered, PostMessage
  <2>5. CASE SendRecord(t)
    BY <2>5 DEF SendRecord
  <2>6. CASE HandoffInsert(t)
    BY <2>6 DEF HandoffInsert
  <2> QED
    BY <2>1, <2>2, <2>3, <2>4, <2>5, <2>6 DEF Proceed
<1> QED
  BY InitEstablishes, StepPreserves, <1>1, PTL DEF ResponseSpec, RecordedNeverResent

\* Saves are serial: an edit of an existing draft replaces what it read.
THEOREM EditsAreSerial == ResponseSpec => EditsFollow
<1> DEFINE Follows == \A t \in Window :
      (pc[t] = "save_commit" /\ hand[t].version > 1 /\ draft' # draft /\ pc'[t] = "idle")
        => hand[t].version = draft.version + 1
<1>1. IInv /\ [ResponseNext]_responseVars => [Follows]_responseVars
  BY DEF IInv, EditIsNext
<1> QED
  BY InitEstablishes, StepPreserves, <1>1, PTL DEF ResponseSpec, EditsFollow
=============================================================================
