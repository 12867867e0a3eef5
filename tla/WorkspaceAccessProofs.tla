------------------------ MODULE WorkspaceAccessProofs ------------------------
(***************************************************************************)
(* Theorems about WorkspaceAccess, for any number of browsers and requests *)
(* and any rate limit: sessions, workspaces and invitations stay right     *)
(* whatever overlaps, fails or is repeated, and the rows follow            *)
(* Membership.                                                             *)
(***************************************************************************)
EXTENDS WorkspaceAccess, FiniteSetTheorems, TLAPS

\* Of the requests about one invitation at most one is past its lock, and it
\* found the place free. Whoever asks for a place asks for one that was offered.
PlacesAreLocked ==
  /\ \A o \in Browser : invites[o].status = "none" => invites[o].by = NoOne
  /\ \A b \in Browser : page[b].link # NoOne => invites[page[b].link].status # "none"
  /\ \A r \in Post :
       post[r].kind = "accept" =>
         /\ post[r].for \in Browser
         /\ invites[post[r].for].status # "none"
         /\ post[r].stage = "written" =>
              /\ invites[post[r].for].by = NoOne
              /\ post[r].fresh
              /\ Writing(r) = {}

\* A user who joined did so by the request that was answered, on the invitation
\* that names it.
AdmittedByInvite ==
  \A r \in Post, o \in Browser :
    <<r, o>> \in users =>
      /\ post[r].stage = "answered" /\ post[r].kind = "accept" /\ post[r].for = o
      /\ post[r].fresh
      /\ invites[o].by = r

\* The lists of the rate limits, and the copies that requests took of them, hold
\* requests that were let through; a known key never comes to a list.
ListsAreOfLetThrough ==
  /\ \A k \in Limited : \A q \in log[k] : post[q].stage \in LetThrough /\ ~post[q].known
  /\ \A r \in Post : \A q \in post[r].recent :
       post[q].stage \in LetThrough /\ ~post[q].known
  /\ \A r \in Post :
       post[r].known =>
         /\ post[r].kind = "bootstrap" /\ post[r].for \in orgs
         /\ post[r].stage \in {"select", "insert", "written", "answered", "failed",
                               "unserved"}
  /\ \A r \in Post : post[r].stage = "refused" => Cardinality(post[r].recent) >= RateMax

\* The inductive invariant.
AccessInv ==
  /\ AccessTypeOK
  /\ SessionsAreReal
  /\ WorkspaceIsWhole
  /\ PlacesAreLocked
  /\ AdmittedByInvite
  /\ ListsAreOfLetThrough

-----------------------------------------------------------------------------
\* At first there is nothing.
LEMMA AccessInitEstablishes == AccessInit => AccessInv
<1> SUFFICES ASSUME AccessInit PROVE AccessInv
  OBVIOUS
<1> USE AccessAssumption DEF AccessInit, Unsent
<1>1. AccessTypeOK
  BY DEF AccessTypeOK, PostStage, Limited, Identity, Attempts
<1>2. SessionsAreReal /\ WorkspaceIsWhole
  BY DEF SessionsAreReal, WorkspaceIsWhole
<1>3. PlacesAreLocked /\ AdmittedByInvite
  BY DEF PlacesAreLocked, AdmittedByInvite
<1>4. ListsAreOfLetThrough
  BY DEF ListsAreOfLetThrough, Limited
<1> QED
  BY <1>1, <1>2, <1>3, <1>4 DEF AccessInv

\* What of a step writes rows: everything else leaves them alone.
LEMMA RowsWritten ==
  ASSUME AccessNext
  PROVE  \/ UNCHANGED <<orgs, users, invites>>
         \/ \E b \in Browser : Invite(b) \/ InviteExpires(b)
         \/ \E r \in Post : CommitWorkspace(r) \/ CommitAccept(r)
BY Zenon
DEF AccessNext, OpenLink, Try, TryAgain, ReceiveSession, AttemptFails, RateRead, RateWrite,
    WindowPasses, SelectOrg, InsertWorkspace, BeginAccept, LockInvite, PostFails

-----------------------------------------------------------------------------
\* Types, row by row.
PostRow == [stage : PostStage, kind : Limited, for : Browser \cup {NoOne},
            recent : SUBSET Post, fresh : BOOLEAN, known : BOOLEAN]

PageRow == [session : Identity \cup {NoOne}, link : Browser \cup {NoOne},
            attempt : 0..Attempts, awaits : Post \cup {NoOne}]

PostsTyped ==
  /\ post \in [Post -> PostRow]
  /\ \A r \in Post : (post[r].for = NoOne) <=> (post[r].stage = "unsent")

RestTyped ==
  /\ orgs \subseteq Browser
  /\ users \subseteq Identity
  /\ invites \in [Browser -> [status : {"none", "open", "expired"},
                              by : Post \cup {NoOne}]]
  /\ log \in [Limited -> SUBSET Post]
  /\ aged \subseteq Post

LEMMA TypeParts == AccessTypeOK <=> PostsTyped /\ page \in [Browser -> PageRow] /\ RestTyped
BY Zenon DEF AccessTypeOK, PostsTyped, RestTyped, PostRow, PageRow

\* A request that is put into a stage, with its workspace named, keeps the types.
LEMMA RowMoves ==
  ASSUME PostsTyped, NEW r \in Post, NEW row \in PostRow,
         row.for # NoOne, row.stage # "unsent", post' = [post EXCEPT ![r] = row]
  PROVE  PostsTyped'
<1>1. post' \in [Post -> PostRow]
  BY DEF PostsTyped
<1>2. ASSUME NEW q \in Post PROVE (post'[q].for = NoOne) <=> (post'[q].stage = "unsent")
  <2>1. CASE q = r
    BY <2>1 DEF PostsTyped
  <2>2. CASE q # r
    BY <2>2 DEF PostsTyped
  <2> QED
    BY <2>1, <2>2
<1> QED
  BY <1>1, <1>2 DEF PostsTyped

\* A request that goes on from one stage to another too.
LEMMA StageMoves ==
  ASSUME PostsTyped, NEW r \in Post, NEW s \in PostStage \ {"unsent"},
         post[r].stage # "unsent", post' = [post EXCEPT ![r].stage = s]
  PROVE  PostsTyped'
<1> DEFINE row == [post[r] EXCEPT !.stage = s]
<1>1. post[r] \in PostRow /\ post[r].for # NoOne
  BY DEF PostsTyped
<1>2. row \in PostRow /\ row.for # NoOne /\ row.stage # "unsent"
  BY <1>1 DEF PostRow
<1>3. post' = [post EXCEPT ![r] = row]
  OBVIOUS
<1> HIDE DEF row
<1> QED
  BY <1>2, <1>3, RowMoves

\* What the handlers assign fits the row.
LEMMA RecentFits ==
  ASSUME NEW row \in PostRow, NEW s \in PostStage, NEW recent \in SUBSET Post
  PROVE  [row EXCEPT !.recent = recent, !.stage = s] \in PostRow
BY DEF PostRow

LEMMA FreshFits ==
  ASSUME NEW row \in PostRow, NEW s \in PostStage, NEW fresh \in BOOLEAN
  PROVE  [row EXCEPT !.stage = s, !.fresh = fresh] \in PostRow
BY DEF PostRow

LEMMA KnownFits ==
  ASSUME NEW row \in PostRow, NEW s \in PostStage, NEW o \in Browser, NEW known \in BOOLEAN
  PROVE  [row EXCEPT !.stage = s, !.for = o, !.known = known] \in PostRow
BY DEF PostRow

LEMMA KindFits ==
  ASSUME NEW row \in PostRow, NEW s \in PostStage, NEW o \in Browser, NEW k \in Limited
  PROVE  [row EXCEPT !.stage = s, !.kind = k, !.for = o] \in PostRow
BY DEF PostRow

LEMMA UnsentFits == Unsent \in PostRow
BY DEF Unsent, PostRow, PostStage, Limited

\* Requests.
LEMMA PostsTypedKept == ASSUME AccessInv, AccessNext PROVE PostsTyped'
<1> USE AccessAssumption
<1>t. PostsTyped /\ page \in [Browser -> PageRow] /\ RestTyped
  BY TypeParts DEF AccessInv
<1>u. \A r \in Post : post[r] \in PostRow
  BY <1>t DEF PostsTyped
<1>v. \A r \in Post : post[r].stage # "unsent" => post[r].for # NoOne
  BY <1>t DEF PostsTyped
<1>1. ASSUME NEW b \in Browser, NEW r \in Post, Try(b, r) PROVE PostsTyped'
  <2>1. CASE page[b].link # NoOne
    <3> DEFINE row == [Unsent EXCEPT !.stage = "limit", !.kind = "accept",
                                     !.for = page[b].link]
    <3>1. post' = [post EXCEPT ![r] = row]
      BY <1>1, <2>1 DEF Try
    <3>2. page[b].link \in Browser
      BY <1>t, <2>1 DEF PageRow
    <3>3. row \in PostRow
      BY <3>2, UnsentFits, KindFits DEF PostStage, Limited
    <3>4. row.for # NoOne /\ row.stage # "unsent"
      BY <2>1 DEF Unsent
    <3> HIDE DEF row
    <3> QED
      BY <1>t, <3>1, <3>3, <3>4, RowMoves
  <2>2. CASE page[b].link = NoOne
    <3> DEFINE known == b \in orgs
               row == [Unsent EXCEPT !.stage = "select", !.for = b, !.known = known]
    <3>1. post' = [post EXCEPT ![r] = row]
      BY <1>1, <2>2 DEF Try
    <3>2. known \in BOOLEAN
      OBVIOUS
    <3> HIDE DEF known
    <3>3. row \in PostRow
      BY <3>2, UnsentFits, KnownFits DEF PostStage
    <3>4. row.for # NoOne /\ row.stage # "unsent"
      BY DEF Unsent
    <3> HIDE DEF row
    <3> QED
      BY <1>t, <3>1, <3>3, <3>4, RowMoves
  <2> QED
    BY <2>1, <2>2
<1>2. ASSUME NEW r \in Post, RateRead(r) PROVE PostsTyped'
  <2> DEFINE recent == log[post[r].kind] \ aged
             s == IF Cardinality(recent) >= RateMax THEN "refused" ELSE "limited"
             row == [post[r] EXCEPT !.recent = recent, !.stage = s]
  <2>1. post' = [post EXCEPT ![r] = row] /\ post[r].stage # "unsent"
    BY <1>2, <1>t DEF RateRead, PostsTyped
  <2>2. recent \in SUBSET Post /\ s \in PostStage \ {"unsent"}
    BY <1>t, <1>u DEF RestTyped, PostRow, PostStage
  <2> HIDE DEF recent, s
  <2>3. row \in PostRow
    BY <1>u, <2>2, RecentFits
  <2>4. row.for # NoOne /\ row.stage # "unsent"
    BY <1>u, <1>v, <2>1, <2>2 DEF PostRow
  <2> HIDE DEF row
  <2> QED
    BY <1>t, <2>1, <2>3, <2>4, RowMoves
<1>3. ASSUME NEW r \in Post, RateWrite(r) PROVE PostsTyped'
  <2> DEFINE s == IF post[r].kind = "accept" THEN "begin" ELSE "insert"
             row == [post[r] EXCEPT !.recent = {}, !.stage = s]
  <2>1. post' = [post EXCEPT ![r] = row] /\ post[r].stage # "unsent"
    BY <1>3, <1>t DEF RateWrite, PostsTyped
  <2>2. s \in PostStage \ {"unsent"}
    BY DEF PostStage
  <2> HIDE DEF s
  <2>3. row \in PostRow
    BY <1>u, <2>2, RecentFits
  <2>4. row.for # NoOne /\ row.stage # "unsent"
    BY <1>u, <1>v, <2>1, <2>2 DEF PostRow
  <2> HIDE DEF row
  <2> QED
    BY <1>t, <2>1, <2>3, <2>4, RowMoves
<1>4. ASSUME NEW r \in Post, BeginAccept(r) PROVE PostsTyped'
  <2> DEFINE fresh == invites[post[r].for].status # "expired"
             row == [post[r] EXCEPT !.stage = "lock", !.fresh = fresh]
  <2>1. post' = [post EXCEPT ![r] = row] /\ post[r].stage # "unsent"
    BY <1>4, <1>t DEF BeginAccept, PostsTyped
  <2>2. fresh \in BOOLEAN
    OBVIOUS
  <2> HIDE DEF fresh
  <2>3. row \in PostRow
    BY <1>u, <2>2, FreshFits DEF PostStage
  <2>4. row.for # NoOne /\ row.stage # "unsent"
    BY <1>u, <1>v, <2>1, <2>2 DEF PostRow
  <2> HIDE DEF row
  <2> QED
    BY <1>t, <2>1, <2>3, <2>4, RowMoves
<1>5. ASSUME NEW r \in Post, NEW from \in PostStage \ {"unsent"},
             NEW to \in PostStage \ {"unsent"}, Go(r, from, to)
      PROVE  PostsTyped'
  BY <1>t, <1>5, StageMoves DEF Go
<1>6. ASSUME NEW r \in Post,
             \/ SelectOrg(r) \/ InsertWorkspace(r) \/ CommitWorkspace(r) \/ LockInvite(r)
             \/ CommitAccept(r) \/ PostFails(r)
      PROVE  \E from, to \in PostStage \ {"unsent"} : Go(r, from, to)
  BY <1>6
  DEF SelectOrg, InsertWorkspace, CommitWorkspace, LockInvite, CommitAccept, PostFails,
      PostStage
<1>7. CASE UNCHANGED post
  BY <1>t, <1>7 DEF PostsTyped
<1> QED
  BY <1>1, <1>2, <1>3, <1>4, <1>5, <1>6, <1>7, Zenon
  DEF AccessNext, OpenLink, TryAgain, ReceiveSession, AttemptFails, Invite, InviteExpires,
      WindowPasses

\* Pages.
LEMMA PagesTypedKept == ASSUME AccessInv, AccessNext PROVE page' \in [Browser -> PageRow]
<1> USE AccessAssumption
<1>t. page \in [Browser -> PageRow] /\ users \subseteq Identity
  BY TypeParts DEF AccessInv, RestTyped
<1>1. ASSUME NEW b \in Browser, NEW row \in PageRow, page' = [page EXCEPT ![b] = row]
      PROVE  page' \in [Browser -> PageRow]
  BY <1>t, <1>1
<1>2. ASSUME NEW b \in Browser, NEW o \in Browser, OpenLink(b, o)
      PROVE  \E row \in PageRow : page' = [page EXCEPT ![b] = row]
  <2>1. [page[b] EXCEPT !.link = o] \in PageRow
    BY <1>t DEF PageRow
  <2> QED
    BY <1>2, <2>1 DEF OpenLink
<1>3. ASSUME NEW b \in Browser, NEW r \in Post, Try(b, r)
      PROVE  \E row \in PageRow : page' = [page EXCEPT ![b] = row]
  <2> DEFINE row == [page[b] EXCEPT !.attempt = page[b].attempt + 1, !.awaits = r]
  <2>1. row \in PageRow
    BY <1>t, <1>3 DEF Try, Attempts, PageRow
  <2>2. page' = [page EXCEPT ![b] = row]
    BY <1>3 DEF Try
  <2> QED
    BY <2>1, <2>2
<1>4. ASSUME NEW b \in Browser, TryAgain(b)
      PROVE  \E row \in PageRow : page' = [page EXCEPT ![b] = row]
  <2>1. [page[b] EXCEPT !.attempt = 0] \in PageRow
    BY <1>t DEF PageRow, Attempts
  <2> QED
    BY <1>4, <2>1 DEF TryAgain
<1>5. ASSUME NEW b \in Browser, AttemptFails(b)
      PROVE  \E row \in PageRow : page' = [page EXCEPT ![b] = row]
  <2>1. [page[b] EXCEPT !.awaits = NoOne] \in PageRow
    BY <1>t DEF PageRow
  <2> QED
    BY <1>5, <2>1 DEF AttemptFails
<1>6. ASSUME NEW b \in Browser, ReceiveSession(b)
      PROVE  \E row \in PageRow : page' = [page EXCEPT ![b] = row]
  <2> DEFINE entered == IF Granted(page[b].awaits) \in users
                        THEN Granted(page[b].awaits) ELSE NoOne
             row == [page[b] EXCEPT !.awaits = NoOne, !.link = NoOne, !.session = entered]
  <2>1. page' = [page EXCEPT ![b] = row]
    BY <1>6 DEF ReceiveSession
  <2>2. entered \in Identity \cup {NoOne}
    BY <1>t
  <2> HIDE DEF entered
  <2>3. row \in PageRow
    BY <1>t, <2>2 DEF PageRow
  <2> QED
    BY <2>1, <2>3
<1>7. CASE UNCHANGED page
  BY <1>t, <1>7
<1> QED
  BY <1>1, <1>2, <1>3, <1>4, <1>5, <1>6, <1>7, Zenon
  DEF AccessNext, Invite, InviteExpires, RateRead, RateWrite, WindowPasses, SelectOrg,
      InsertWorkspace, CommitWorkspace, BeginAccept, LockInvite, CommitAccept, PostFails

\* Everything else.
LEMMA RestTypedKept == ASSUME AccessInv, AccessNext PROVE RestTyped'
<1> USE AccessAssumption
<1>t. PostsTyped /\ RestTyped
  BY TypeParts DEF AccessInv
<1>1. ASSUME NEW r \in Post, post[r].stage # "unsent" PROVE post[r].for \in Browser
  BY <1>t, <1>1 DEF PostsTyped, PostRow
<1>2. UNCHANGED <<log, aged>> => log' \in [Limited -> SUBSET Post] /\ aged' \subseteq Post
  BY <1>t DEF RestTyped
<1>3. ASSUME NEW b \in Browser, Invite(b) PROVE RestTyped'
  BY <1>t, <1>2, <1>3 DEF Invite, RestTyped
<1>4. ASSUME NEW b \in Browser, InviteExpires(b) PROVE RestTyped'
  BY <1>t, <1>2, <1>4 DEF InviteExpires, RestTyped
<1>5. ASSUME NEW r \in Post, CommitWorkspace(r) PROVE RestTyped'
  <2>1. post[r].for \in Browser /\ Granted(r) \in Identity
    BY <1>1, <1>5 DEF CommitWorkspace, Go, Granted, Identity
  <2> QED
    BY <1>t, <2>1, <1>5 DEF CommitWorkspace, RestTyped
<1>6. ASSUME NEW r \in Post, CommitAccept(r) PROVE RestTyped'
  <2>1. post[r].for \in Browser /\ Granted(r) \in Identity
    BY <1>1, <1>6 DEF CommitAccept, Go, Granted, Identity
  <2> QED
    BY <1>t, <2>1, <1>6 DEF CommitAccept, RestTyped
<1>7. ASSUME NEW r \in Post, RateWrite(r) PROVE RestTyped'
  <2>1. post[r].recent \cup {r} \in SUBSET Post
    BY <1>t DEF PostsTyped, PostRow
  <2> QED
    BY <1>t, <2>1, <1>7 DEF RateWrite, RestTyped
<1>8. ASSUME NEW r \in Post, WindowPasses(r) PROVE RestTyped'
  BY <1>t, <1>8 DEF WindowPasses, RestTyped
<1>9. CASE UNCHANGED <<orgs, users, invites, log, aged>>
  BY <1>t, <1>9 DEF RestTyped
<1> QED
  BY <1>3, <1>4, <1>5, <1>6, <1>7, <1>8, <1>9, Zenon
  DEF AccessNext, OpenLink, Try, TryAgain, ReceiveSession, AttemptFails, RateRead,
      SelectOrg, InsertWorkspace, BeginAccept, LockInvite, PostFails

LEMMA TypeKept == ASSUME AccessInv, AccessNext PROVE AccessTypeOK'
<1>1. PostsTyped' /\ page' \in [Browser -> PageRow] /\ RestTyped'
  BY PostsTypedKept, PagesTypedKept, RestTypedKept
<1> QED
  BY <1>1, Zenon DEF AccessTypeOK, PostsTyped, RestTyped, PostRow, PageRow

-----------------------------------------------------------------------------
\* Of a request at the server: only the opening of the transaction changes what it
\* knows of the invitation, an answer leaves with a commit, and what is let through
\* or known stays so.
PastSelect == {"insert", "written", "answered", "failed", "unserved"}

LEMMA RequestsStay ==
  ASSUME AccessInv, AccessNext, NEW q \in Post, post[q].stage # "unsent"
  PROVE  /\ post'[q].kind = post[q].kind
         /\ post'[q].for = post[q].for
         /\ post'[q].known = post[q].known
         /\ post'[q].stage # "unsent"
         /\ post[q].stage # "begin" => post'[q].fresh = post[q].fresh
         /\ post'[q].stage = "answered" =>
              post[q].stage = "answered" \/ CommitWorkspace(q) \/ CommitAccept(q)
         /\ post'[q].stage = "written" =>
              post[q].stage = "written" \/ InsertWorkspace(q) \/ LockInvite(q)
         /\ post[q].stage = "answered" => post'[q].stage = "answered"
         /\ post[q].stage \in LetThrough => post'[q].stage \in LetThrough
         /\ post[q].stage \in PastSelect => post'[q].stage \in PastSelect
         /\ post[q].stage = "select" =>
              post'[q].stage \in {"select", "unserved"} \/ SelectOrg(q)
         /\ post'[q].recent \subseteq post[q].recent \/ RateRead(q)
         /\ post'[q].stage = "refused" =>
              \/ RateRead(q)
              \/ post[q].stage = "refused" /\ post'[q].recent = post[q].recent
<1> DEFINE Stays ==
      /\ post'[q].kind = post[q].kind
      /\ post'[q].for = post[q].for
      /\ post'[q].known = post[q].known
      /\ post'[q].stage # "unsent"
      /\ post[q].stage # "begin" => post'[q].fresh = post[q].fresh
      /\ post'[q].stage = "answered" =>
           post[q].stage = "answered" \/ CommitWorkspace(q) \/ CommitAccept(q)
      /\ post'[q].stage = "written" =>
           post[q].stage = "written" \/ InsertWorkspace(q) \/ LockInvite(q)
      /\ post[q].stage = "answered" => post'[q].stage = "answered"
      /\ post[q].stage \in LetThrough => post'[q].stage \in LetThrough
      /\ post[q].stage \in PastSelect => post'[q].stage \in PastSelect
      /\ post[q].stage = "select" =>
           post'[q].stage \in {"select", "unserved"} \/ SelectOrg(q)
      /\ post'[q].recent \subseteq post[q].recent \/ RateRead(q)
      /\ post'[q].stage = "refused" =>
           \/ RateRead(q)
           \/ post[q].stage = "refused" /\ post'[q].recent = post[q].recent
<1>u. post \in [Post -> PostRow]
  BY TypeParts DEF AccessInv, PostsTyped
<1> USE DEF LetThrough, PastSelect
<1>0. ASSUME post'[q] = post[q] PROVE Stays
  BY <1>0, Zenon
<1>1. ASSUME NEW b \in Browser, NEW r \in Post, Try(b, r) PROVE Stays
  <2>1. post'[q] = post[q]
    BY <1>1, <1>u DEF Try
  <2> QED
    BY <1>0, <2>1
<1>3. ASSUME RateRead(q) PROVE Stays
  BY <1>3, <1>u DEF RateRead, PostRow
<1>4. ASSUME RateWrite(q) PROVE Stays
  BY <1>4, <1>u DEF RateWrite, PostRow
<1>5. ASSUME BeginAccept(q) PROVE Stays
  BY <1>5, <1>u DEF BeginAccept, PostRow
<1>6. ASSUME NEW to \in PostStage \ {"unsent"}, post' = [post EXCEPT ![q].stage = to],
             to = "answered" => CommitWorkspace(q) \/ CommitAccept(q),
             to = "written" => InsertWorkspace(q) \/ LockInvite(q),
             post[q].stage # "answered", to # "refused",
             post[q].stage \in LetThrough => to \in LetThrough,
             post[q].stage \in PastSelect => to \in PastSelect,
             post[q].stage = "select" => to = "unserved" \/ SelectOrg(q)
      PROVE  Stays
  <2>1. /\ post'[q].kind = post[q].kind /\ post'[q].for = post[q].for
        /\ post'[q].known = post[q].known /\ post'[q].fresh = post[q].fresh
        /\ post'[q].recent = post[q].recent
        /\ post'[q].stage = to
    BY <1>6, <1>u DEF PostRow
  <2> QED
    BY <1>6, <2>1
<1>7. ASSUME SelectOrg(q) PROVE Stays
  BY <1>6, <1>7 DEF SelectOrg, Go, PostStage
<1>8. ASSUME InsertWorkspace(q) \/ CommitWorkspace(q) PROVE Stays
  BY <1>6, <1>8 DEF InsertWorkspace, CommitWorkspace, Go, PostStage
<1>9. ASSUME LockInvite(q) \/ CommitAccept(q) PROVE Stays
  BY <1>6, <1>9 DEF LockInvite, CommitAccept, Go, PostStage
<1>10. ASSUME PostFails(q) PROVE Stays
  BY <1>6, <1>10 DEF PostFails, Go, PostStage
<1>11. ASSUME NEW r \in Post, r # q,
              \/ RateRead(r) \/ RateWrite(r) \/ BeginAccept(r) \/ SelectOrg(r)
              \/ InsertWorkspace(r) \/ CommitWorkspace(r) \/ LockInvite(r)
              \/ CommitAccept(r) \/ PostFails(r)
       PROVE  post'[q] = post[q]
  BY <1>11, <1>u
  DEF RateRead, RateWrite, BeginAccept, SelectOrg, InsertWorkspace, CommitWorkspace,
      LockInvite, CommitAccept, PostFails, Go
<1>12. ASSUME UNCHANGED post PROVE Stays
  BY <1>0, <1>12
<1> QED
  BY <1>0, <1>1, <1>3, <1>4, <1>5, <1>7, <1>8, <1>9, <1>10, <1>11, <1>12, Zenon
  DEF AccessNext, OpenLink, TryAgain, ReceiveSession, AttemptFails, Invite, InviteExpires,
      WindowPasses

\* A request that a page has just sent.
LEMMA RequestsBegin ==
  ASSUME AccessInv, AccessNext, NEW q \in Post, post[q].stage = "unsent"
  PROVE  \/ post'[q] = post[q]
         \/ \E b \in Browser :
              /\ Try(b, q)
              /\ post'[q].recent = {}
              /\ \/ /\ page[b].link \in Browser
                    /\ post'[q].for = page[b].link
                    /\ post'[q].kind = "accept" /\ post'[q].stage = "limit"
                    /\ ~post'[q].known
                 \/ /\ post'[q].for = b
                    /\ post'[q].kind = "bootstrap" /\ post'[q].stage = "select"
                    /\ post'[q].known => b \in orgs
<1>u. post \in [Post -> PostRow] /\ page \in [Browser -> PageRow]
  BY TypeParts DEF AccessInv, PostsTyped
<1>1. ASSUME NEW b \in Browser, Try(b, q), page[b].link # NoOne
      PROVE  /\ page[b].link \in Browser
             /\ post'[q] = [Unsent EXCEPT !.stage = "limit", !.kind = "accept",
                                          !.for = page[b].link]
  BY <1>1, <1>u DEF Try, PageRow
<1>2. ASSUME NEW b \in Browser, Try(b, q), page[b].link = NoOne
      PROVE  post'[q] = [Unsent EXCEPT !.stage = "select", !.for = b, !.known = b \in orgs]
  BY <1>2, <1>u DEF Try
<1>3. ASSUME NEW r \in Post, r # q,
             \/ \E b \in Browser : Try(b, r)
             \/ RateRead(r) \/ RateWrite(r) \/ BeginAccept(r) \/ SelectOrg(r)
             \/ InsertWorkspace(r) \/ CommitWorkspace(r) \/ LockInvite(r)
             \/ CommitAccept(r) \/ PostFails(r)
      PROVE  post'[q] = post[q]
  BY <1>3, <1>u
  DEF Try, RateRead, RateWrite, BeginAccept, SelectOrg, InsertWorkspace, CommitWorkspace,
      LockInvite, CommitAccept, PostFails, Go
<1>4. ~(\/ RateRead(q) \/ RateWrite(q) \/ BeginAccept(q) \/ SelectOrg(q)
        \/ InsertWorkspace(q) \/ CommitWorkspace(q) \/ LockInvite(q)
        \/ CommitAccept(q) \/ PostFails(q))
  BY DEF RateRead, RateWrite, BeginAccept, SelectOrg, InsertWorkspace, CommitWorkspace,
         LockInvite, CommitAccept, PostFails, Go
<1>5. UNCHANGED post => post'[q] = post[q]
  OBVIOUS
<1>6. post'[q] = post[q] \/ \E b \in Browser : Try(b, q)
  BY <1>3, <1>4, <1>5, Zenon
  DEF AccessNext, OpenLink, TryAgain, ReceiveSession, AttemptFails, Invite, InviteExpires,
      WindowPasses
<1>7. ASSUME NEW b \in Browser, Try(b, q)
      PROVE  /\ post'[q].recent = {}
             /\ \/ /\ page[b].link \in Browser
                   /\ post'[q].for = page[b].link
                   /\ post'[q].kind = "accept" /\ post'[q].stage = "limit"
                   /\ ~post'[q].known
                \/ /\ post'[q].for = b
                   /\ post'[q].kind = "bootstrap" /\ post'[q].stage = "select"
                   /\ post'[q].known => b \in orgs
  <2>1. CASE page[b].link # NoOne
    <3>1. page[b].link \in Browser
      BY <1>1, <1>7, <2>1
    <3>2. /\ post'[q].recent = {} /\ post'[q].for = page[b].link
          /\ post'[q].kind = "accept" /\ post'[q].stage = "limit"
      BY <1>1, <1>7, <2>1 DEF Unsent
    <3>3. post'[q].known = FALSE
      BY <1>1, <1>7, <2>1 DEF Unsent
    <3> QED
      BY <3>1, <3>2, <3>3, Zenon
  <2>2. CASE page[b].link = NoOne
    <3> DEFINE known == b \in orgs
    <3>1. post'[q] = [Unsent EXCEPT !.stage = "select", !.for = b, !.known = known]
      BY <1>2, <1>7, <2>2
    <3> HIDE DEF known
    <3>2. /\ post'[q].recent = {} /\ post'[q].for = b
          /\ post'[q].kind = "bootstrap" /\ post'[q].stage = "select"
      BY <3>1 DEF Unsent
    <3>3. post'[q].known = known
      BY <3>1 DEF Unsent
    <3> QED
      BY <3>2, <3>3, Zenon DEF known
  <2> QED
    BY <2>1, <2>2, Zenon
<1> QED
  BY <1>6, <1>7, Zenon

-----------------------------------------------------------------------------
\* Nobody is removed, and no workspace and no invitation.
LEMMA RowsOnlyGrow ==
  ASSUME AccessInv, AccessNext
  PROVE  /\ orgs \subseteq orgs' /\ users \subseteq users'
         /\ \A o \in Browser : invites[o].status # "none" => invites'[o].status # "none"
         /\ \A o \in Browser : invites[o].by # NoOne => invites'[o].by = invites[o].by
<1>t. invites \in [Browser -> [status : {"none", "open", "expired"},
                               by : Post \cup {NoOne}]]
  BY DEF AccessInv, AccessTypeOK
<1>1. CASE UNCHANGED <<orgs, users, invites>>
  BY <1>1
<1>2. ASSUME NEW b \in Browser, Invite(b) \/ InviteExpires(b)
      PROVE  /\ UNCHANGED <<orgs, users>>
             /\ \A o \in Browser : invites'[o].by = invites[o].by
             /\ \A o \in Browser : invites[o].status # "none" => invites'[o].status # "none"
  BY <1>t, <1>2 DEF Invite, InviteExpires
<1>3. ASSUME NEW r \in Post, CommitWorkspace(r)
      PROVE  orgs \subseteq orgs' /\ users \subseteq users' /\ UNCHANGED invites
  BY <1>3 DEF CommitWorkspace
<1>4. ASSUME NEW r \in Post, CommitAccept(r)
      PROVE  /\ UNCHANGED orgs /\ users \subseteq users'
             /\ \A o \in Browser : invites'[o].status = invites[o].status
             /\ \A o \in Browser : invites[o].by # NoOne => invites'[o].by = invites[o].by
  <2>1. post[r].kind = "accept" /\ post[r].stage = "written"
    BY <1>4 DEF CommitAccept, Go
  <2>2. post[r].for \in Browser /\ invites[post[r].for].by = NoOne
    BY <2>1 DEF AccessInv, PlacesAreLocked
  <2>3. /\ UNCHANGED orgs /\ users \subseteq users'
        /\ invites' = [invites EXCEPT ![post[r].for].by = r]
    BY <1>4 DEF CommitAccept
  <2> QED
    BY <1>t, <2>2, <2>3
<1> QED
  BY <1>1, <1>2, <1>3, <1>4, RowsWritten

\* Sessions: an answer leaves with the commit, and a page stores what it checked.
LEMMA SessionsKept == ASSUME AccessInv, AccessNext PROVE SessionsAreReal'
<1>t. page \in [Browser -> PageRow] /\ post \in [Post -> PostRow]
  BY TypeParts DEF AccessInv, PostsTyped
<1>1. users \subseteq users' /\ SessionsAreReal
  BY RowsOnlyGrow DEF AccessInv
<1>2. ASSUME NEW r \in Post, post'[r].stage = "answered" PROVE Granted(r)' \in users'
  <2>1. post[r].stage # "unsent"
    BY <1>2, RequestsBegin
  <2>2. post'[r].kind = post[r].kind /\ post'[r].for = post[r].for
    BY <2>1, RequestsStay
  <2>3. Granted(r)' = Granted(r)
    BY <2>2 DEF Granted
  <2>4. post[r].stage = "answered" \/ CommitWorkspace(r) \/ CommitAccept(r)
    BY <1>2, <2>1, RequestsStay
  <2>5. Granted(r) \in users'
    BY <1>1, <2>4 DEF SessionsAreReal, CommitWorkspace, CommitAccept
  <2> QED
    BY <2>3, <2>5
<1>3. ASSUME NEW b \in Browser, page'[b].session # NoOne PROVE page'[b].session \in users
  <2>1. page[b].session # NoOne => page[b].session \in users
    BY <1>1 DEF SessionsAreReal
  <2>2. ASSUME NEW c \in Browser,
               \/ \E o \in Browser : OpenLink(c, o)
               \/ \E r \in Post : Try(c, r)
               \/ TryAgain(c) \/ AttemptFails(c)
        PROVE  page'[b].session = page[b].session
    BY <1>t, <2>2 DEF OpenLink, Try, TryAgain, AttemptFails, PageRow
  <2>3. ASSUME NEW c \in Browser, ReceiveSession(c) PROVE page'[b].session \in users
    <3> DEFINE entered == IF Granted(page[c].awaits) \in users
                          THEN Granted(page[c].awaits) ELSE NoOne
    <3>1. page' = [page EXCEPT ![c] = [page[c] EXCEPT !.awaits = NoOne, !.link = NoOne,
                                                     !.session = entered]]
      BY <2>3 DEF ReceiveSession
    <3>2. entered = NoOne \/ entered \in users
      OBVIOUS
    <3> HIDE DEF entered
    <3>3. CASE b = c
      BY <1>t, <1>3, <3>1, <3>2, <3>3 DEF PageRow
    <3>4. CASE b # c
      BY <1>t, <1>3, <2>1, <3>1, <3>4
    <3> QED
      BY <3>3, <3>4
  <2>4. CASE UNCHANGED page
    BY <1>3, <2>1, <2>4
  <2> QED
    BY <1>3, <2>1, <2>2, <2>3, <2>4, Zenon
    DEF AccessNext, Invite, InviteExpires, RateRead, RateWrite, WindowPasses, SelectOrg,
        InsertWorkspace, CommitWorkspace, BeginAccept, LockInvite, CommitAccept, PostFails
<1> QED
  BY <1>1, <1>2, <1>3, Zenon DEF SessionsAreReal

\* Workspaces: the organisation and its first user are committed together.
LEMMA WorkspacesKept == ASSUME AccessInv, AccessNext PROVE WorkspaceIsWhole'
<1>t. /\ invites \in [Browser -> [status : {"none", "open", "expired"},
                                  by : Post \cup {NoOne}]]
      /\ WorkspaceIsWhole
  BY DEF AccessInv, AccessTypeOK
<1>1. CASE UNCHANGED <<orgs, users, invites>>
  BY <1>t, <1>1 DEF WorkspaceIsWhole
<1>2. ASSUME NEW b \in Browser, Invite(b) PROVE WorkspaceIsWhole'
  <2>1. b \in orgs
    BY <1>t, <1>2 DEF Invite, WorkspaceIsWhole
  <2> QED
    BY <1>t, <1>2, <2>1 DEF Invite, WorkspaceIsWhole
<1>3. ASSUME NEW b \in Browser, InviteExpires(b) PROVE WorkspaceIsWhole'
  BY <1>t, <1>3 DEF InviteExpires, WorkspaceIsWhole
<1>4. ASSUME NEW r \in Post, CommitWorkspace(r) PROVE WorkspaceIsWhole'
  BY <1>t, <1>4 DEF CommitWorkspace, Granted, WorkspaceIsWhole
<1>5. ASSUME NEW r \in Post, CommitAccept(r) PROVE WorkspaceIsWhole'
  <2>1. post[r].for \in orgs
    BY <1>t, <1>5 DEF CommitAccept, AccessInv, PlacesAreLocked, WorkspaceIsWhole
  <2> QED
    BY <1>t, <1>5, <2>1 DEF CommitAccept, Granted, WorkspaceIsWhole
<1> QED
  BY <1>1, <1>2, <1>3, <1>4, <1>5, RowsWritten

\* Places: the lock of the invitation is what keeps a second request from being
\* past it, and the row is looked at again under the lock.
LEMMA PlacesKept == ASSUME AccessInv, AccessNext PROVE PlacesAreLocked'
<1> USE AccessAssumption
<1>t. /\ page \in [Browser -> PageRow] /\ post \in [Post -> PostRow]
      /\ invites \in [Browser -> [status : {"none", "open", "expired"},
                                  by : Post \cup {NoOne}]]
      /\ PlacesAreLocked
  BY TypeParts DEF AccessInv, PostsTyped, RestTyped
<1>1. \A o \in Browser : invites'[o].status = "none" => invites'[o].by = NoOne
  <2>1. CASE UNCHANGED invites
    BY <1>t, <2>1 DEF PlacesAreLocked
  <2>2. ASSUME NEW b \in Browser, Invite(b) \/ InviteExpires(b)
        PROVE  \A o \in Browser : invites'[o].status = "none" => invites'[o].by = NoOne
    BY <1>t, <2>2 DEF Invite, InviteExpires, PlacesAreLocked
  <2>3. ASSUME NEW r \in Post, CommitAccept(r)
        PROVE  \A o \in Browser : invites'[o].status = "none" => invites'[o].by = NoOne
    <3>1. post[r].for \in Browser /\ invites[post[r].for].status # "none"
      BY <1>t, <2>3 DEF CommitAccept, PlacesAreLocked
    <3> QED
      BY <1>t, <2>3, <3>1 DEF CommitAccept, PlacesAreLocked
  <2> QED
    BY <2>1, <2>2, <2>3, RowsWritten DEF CommitWorkspace
<1>2. ASSUME NEW b \in Browser, page'[b].link # NoOne
      PROVE  invites'[page'[b].link].status # "none"
  <2>1. ASSUME page'[b].link = page[b].link PROVE invites'[page'[b].link].status # "none"
    <3>1. page[b].link \in Browser /\ invites[page[b].link].status # "none"
      BY <1>t, <1>2, <2>1 DEF PageRow, PlacesAreLocked
    <3> QED
      BY <2>1, <3>1, RowsOnlyGrow
  <2>2. ASSUME NEW c \in Browser, NEW o \in Browser, OpenLink(c, o)
        PROVE  invites'[page'[b].link].status # "none"
    <3>1. UNCHANGED invites /\ invites[o].status # "none"
      BY <2>2 DEF OpenLink
    <3>2. page'[b].link = page[b].link \/ page'[b].link = o
      BY <1>t, <2>2 DEF OpenLink, PageRow
    <3> QED
      BY <2>1, <3>1, <3>2
  <2>3. ASSUME NEW c \in Browser, ReceiveSession(c)
        PROVE  page'[b].link = page[b].link
    <3> DEFINE entered == IF Granted(page[c].awaits) \in users
                          THEN Granted(page[c].awaits) ELSE NoOne
    <3>1. page' = [page EXCEPT ![c] = [page[c] EXCEPT !.awaits = NoOne, !.link = NoOne,
                                                     !.session = entered]]
      BY <2>3 DEF ReceiveSession
    <3> HIDE DEF entered
    <3> QED
      BY <1>t, <1>2, <3>1 DEF PageRow
  <2>4. ASSUME NEW c \in Browser,
               \/ \E r \in Post : Try(c, r)
               \/ TryAgain(c) \/ AttemptFails(c)
        PROVE  page'[b].link = page[b].link
    BY <1>t, <2>4 DEF Try, TryAgain, AttemptFails, PageRow
  <2>5. UNCHANGED page => page'[b].link = page[b].link
    OBVIOUS
  <2> QED
    BY <2>1, <2>2, <2>3, <2>4, <2>5, Zenon
    DEF AccessNext, Invite, InviteExpires, RateRead, RateWrite, WindowPasses, SelectOrg,
        InsertWorkspace, CommitWorkspace, BeginAccept, LockInvite, CommitAccept, PostFails
<1>3. ASSUME NEW r \in Post, post'[r].kind = "accept"
      PROVE  post'[r].for \in Browser /\ invites'[post'[r].for].status # "none"
  <2>1. CASE post[r].stage = "unsent"
    <3>1. CASE post'[r] = post[r]
      BY <1>t, <1>3, <3>1, RowsOnlyGrow DEF PlacesAreLocked
    <3>2. ASSUME NEW b \in Browser, page[b].link \in Browser, post'[r].for = page[b].link
          PROVE  post'[r].for \in Browser /\ invites'[post'[r].for].status # "none"
      BY <1>t, <3>2, RowsOnlyGrow DEF PlacesAreLocked
    <3> QED
      BY <1>3, <2>1, <3>1, <3>2, RequestsBegin
  <2>2. CASE post[r].stage # "unsent"
    BY <1>t, <1>3, <2>2, RequestsStay, RowsOnlyGrow DEF PlacesAreLocked
  <2> QED
    BY <2>1, <2>2
<1>4. ASSUME NEW r \in Post, post'[r].stage = "written"
      PROVE  /\ post[r].kind = post'[r].kind /\ post[r].for = post'[r].for
             /\ post[r].stage = "written" \/ InsertWorkspace(r) \/ LockInvite(r)
  <2>1. post[r].stage # "unsent"
    BY <1>4, RequestsBegin
  <2> QED
    BY <1>4, <2>1, RequestsStay
<1>5. ASSUME NEW r \in Post, post'[r].kind = "accept", post'[r].stage = "written",
             post[r].stage = "written"
      PROVE  /\ invites'[post'[r].for].by = NoOne
             /\ post'[r].fresh
             /\ Writing(r)' = {}
  <2>1. /\ post[r].kind = "accept" /\ post'[r].for = post[r].for
        /\ post[r].for \in Browser
    BY <1>4, <1>5, <1>t DEF PlacesAreLocked
  <2>2. invites[post[r].for].by = NoOne /\ post[r].fresh /\ Writing(r) = {}
    BY <1>t, <1>5, <2>1 DEF PlacesAreLocked
  <2>3. post'[r].fresh
    BY <1>5, <2>2, RequestsStay
  <2>4. ASSUME NEW q \in Post, CommitAccept(q) PROVE post[q].for # post[r].for
    <3>1. CASE q = r
      <4>1. post'[r].stage = "answered"
        BY <1>t, <2>4, <3>1 DEF CommitAccept, Go
      <4> QED
        BY <1>5, <4>1
    <3>2. CASE q # r
      BY <1>5, <2>1, <2>2, <2>4, <3>2 DEF CommitAccept, Go, Writing
    <3> QED
      BY <3>1, <3>2
  <2>5. invites'[post[r].for].by = NoOne
    <3>1. CASE UNCHANGED invites
      BY <2>2, <3>1
    <3>2. ASSUME NEW b \in Browser, Invite(b) \/ InviteExpires(b)
          PROVE  invites'[post[r].for].by = NoOne
      BY <1>t, <2>1, <2>2, <3>2 DEF Invite, InviteExpires
    <3>3. ASSUME NEW q \in Post, CommitAccept(q) PROVE invites'[post[r].for].by = NoOne
      BY <1>t, <2>1, <2>2, <2>4, <3>3 DEF CommitAccept
    <3> QED
      BY <3>1, <3>2, <3>3, RowsWritten DEF CommitWorkspace
  <2>6. ASSUME NEW q \in Post \ {r}, post'[q].for = post'[r].for, post'[q].kind = post'[r].kind,
               post'[q].stage = "written"
        PROVE  FALSE
    <3>1. /\ post[q].kind = "accept" /\ post[q].for = post[r].for
          /\ post[q].stage = "written" \/ LockInvite(q)
      BY <1>4, <1>5, <2>1, <2>6 DEF InsertWorkspace
    <3>2. ~LockInvite(q)
      BY <1>5, <2>1, <3>1 DEF LockInvite, Writing
    <3> QED
      BY <2>1, <2>2, <3>1, <3>2 DEF Writing
  <2>7. Writing(r)' = {}
    BY <2>6 DEF Writing
  <2> QED
    BY <2>1, <2>3, <2>5, <2>7
<1>6. ASSUME NEW r \in Post, post'[r].kind = "accept", post'[r].stage = "written",
             LockInvite(r)
      PROVE  /\ invites'[post'[r].for].by = NoOne
             /\ post'[r].fresh
             /\ Writing(r)' = {}
  <2>1. /\ post[r].stage = "lock" /\ UNCHANGED invites /\ Writing(r) = {}
        /\ \A q \in Post \ {r} : post'[q] = post[q]
    BY <1>t, <1>6 DEF LockInvite, Go
  <2>2. post'[r].kind = post[r].kind /\ post'[r].for = post[r].for
    BY <2>1, RequestsStay
  <2>3. post'[r].stage = IF invites[post[r].for].by = NoOne /\ post[r].fresh
                         THEN "written" ELSE "refused400"
    BY <1>t, <1>6 DEF LockInvite, Go
  <2>4. invites[post[r].for].by = NoOne /\ post[r].fresh
    BY <1>6, <2>3
  <2>5. post'[r].fresh
    BY <2>1, <2>4, RequestsStay
  <2>6. Writing(r)' = {}
    BY <2>1, <2>2 DEF Writing
  <2> QED
    BY <2>1, <2>2, <2>4, <2>5, <2>6
<1>7. ASSUME NEW r \in Post, post'[r].kind = "accept", post'[r].stage = "written"
      PROVE  /\ invites'[post'[r].for].by = NoOne
             /\ post'[r].fresh
             /\ Writing(r)' = {}
  <2>1. post[r].stage = "written" \/ LockInvite(r)
    BY <1>4, <1>7 DEF InsertWorkspace
  <2> QED
    BY <1>5, <1>6, <1>7, <2>1
<1> QED
  BY <1>1, <1>2, <1>3, <1>7, Zenon DEF PlacesAreLocked

\* Users who joined: each by the request that took the place.
LEMMA AdmittedKept == ASSUME AccessInv, AccessNext PROVE AdmittedByInvite'
<1> USE AccessAssumption
<1>t. /\ post \in [Post -> PostRow] /\ PlacesAreLocked /\ AdmittedByInvite
      /\ invites \in [Browser -> [status : {"none", "open", "expired"},
                                  by : Post \cup {NoOne}]]
  BY TypeParts DEF AccessInv, PostsTyped, RestTyped
<1> SUFFICES ASSUME NEW r \in Post, NEW o \in Browser, <<r, o>> \in users'
             PROVE  /\ post'[r].stage = "answered" /\ post'[r].kind = "accept"
                    /\ post'[r].for = o
                    /\ post'[r].fresh
                    /\ invites'[o].by = r
  BY DEF AdmittedByInvite
<1>1. CASE <<r, o>> \in users
  <2>1. /\ post[r].stage = "answered" /\ post[r].kind = "accept" /\ post[r].for = o
        /\ post[r].fresh
        /\ invites[o].by = r
    BY <1>t, <1>1 DEF AdmittedByInvite
  <2> QED
    BY <2>1, RequestsStay, RowsOnlyGrow
<1>2. CASE <<r, o>> \notin users
  <2>1. ASSUME NEW q \in Post, CommitWorkspace(q) PROVE FALSE
    <3>1. <<r, o>> = Granted(q) /\ post[q].kind = "bootstrap"
      BY <1>2, <2>1 DEF CommitWorkspace
    <3>2. r = post[q].for /\ o = post[q].for
      BY <3>1 DEF Granted
    <3> QED
      BY <3>2
  <2>2. ASSUME NEW q \in Post, CommitAccept(q) PROVE r = q /\ post[q].for = o
    <3>1. <<r, o>> = Granted(q) /\ post[q].kind = "accept"
      BY <1>2, <2>2 DEF CommitAccept
    <3> QED
      BY <3>1 DEF Granted
  <2>3. CommitAccept(r) /\ post[r].for = o
    BY <1>2, <2>1, <2>2, RowsWritten DEF Invite, InviteExpires
  <2>4. post[r].kind = "accept" /\ post[r].stage = "written" /\ post[r].fresh
    BY <1>t, <2>3 DEF CommitAccept, Go, PlacesAreLocked
  <2>5. /\ post'[r].kind = "accept" /\ post'[r].for = o /\ post'[r].fresh
    BY <2>3, <2>4, RequestsStay
  <2>6. post'[r].stage = "answered" /\ invites'[o].by = r
    BY <1>t, <2>3 DEF CommitAccept, Go
  <2> QED
    BY <2>5, <2>6
<1> QED
  BY <1>1, <1>2

\* The rate limits: what a request finds on a list was let through.
LEMMA ListsKept == ASSUME AccessInv, AccessNext PROVE ListsAreOfLetThrough'
<1> USE AccessAssumption
<1>t. /\ post \in [Post -> PostRow] /\ ListsAreOfLetThrough
      /\ log \in [Limited -> SUBSET Post]
  BY TypeParts DEF AccessInv, PostsTyped, RestTyped
<1>1. ASSUME NEW q \in Post, post[q].stage \in LetThrough, ~post[q].known
      PROVE  post'[q].stage \in LetThrough /\ ~post'[q].known
  <2>1. post[q].stage # "unsent"
    BY <1>1 DEF LetThrough
  <2> QED
    BY <1>1, <2>1, RequestsStay
<1>2. ASSUME NEW r \in Post, RateRead(r)
      PROVE  /\ post'[r].recent = log[post[r].kind] \ aged
             /\ post'[r].stage = "refused" => Cardinality(post'[r].recent) >= RateMax
  BY <1>t, <1>2 DEF RateRead, PostRow
<1>3. ASSUME NEW r \in Post, NEW q \in post'[r].recent
      PROVE  q \in Post /\ post[q].stage \in LetThrough /\ ~post[q].known
  <2>1. CASE q \in post[r].recent
    BY <1>t, <2>1 DEF ListsAreOfLetThrough, PostRow
  <2>2. ASSUME RateRead(r) PROVE q \in Post /\ post[q].stage \in LetThrough /\ ~post[q].known
    <3>1. post[r].kind \in Limited
      BY <1>t DEF PostRow
    <3> QED
      BY <1>t, <1>2, <1>3, <2>2, <3>1 DEF ListsAreOfLetThrough
  <2>3. CASE post[r].stage = "unsent"
    BY <1>3, <2>1, <2>3, RequestsBegin
  <2>4. CASE post[r].stage # "unsent"
    BY <1>3, <2>1, <2>2, <2>4, RequestsStay
  <2> QED
    BY <2>3, <2>4
<1>4. ASSUME NEW k \in Limited, NEW q \in log'[k]
      PROVE  q \in Post /\ post'[q].stage \in LetThrough /\ ~post'[q].known
  <2>1. CASE q \in log[k]
    BY <1>1, <1>t, <2>1 DEF ListsAreOfLetThrough
  <2>2. ASSUME NEW r \in Post, RateWrite(r), q \notin log[k]
        PROVE  q \in Post /\ post'[q].stage \in LetThrough /\ ~post'[q].known
    <3>1. q \in post[r].recent \cup {r}
      BY <1>4, <1>t, <2>2 DEF RateWrite
    <3>2. CASE q \in post[r].recent
      BY <1>1, <1>t, <3>2 DEF ListsAreOfLetThrough, PostRow
    <3>3. CASE q = r
      <4>1. post[r].stage = "limited" /\ post'[r].stage \in LetThrough
        BY <1>t, <2>2 DEF RateWrite, LetThrough, PostRow
      <4>2. ~post[r].known
        BY <1>t, <4>1 DEF ListsAreOfLetThrough
      <4>3. ~post'[r].known
        BY <4>1, <4>2, RequestsStay
      <4> QED
        BY <3>3, <4>1, <4>3
    <3> QED
      BY <3>1, <3>2, <3>3
  <2>3. UNCHANGED log \/ \E r \in Post : RateWrite(r)
    BY Zenon
    DEF AccessNext, OpenLink, Try, TryAgain, ReceiveSession, AttemptFails, Invite,
        InviteExpires, RateRead, WindowPasses, SelectOrg, InsertWorkspace, CommitWorkspace,
        BeginAccept, LockInvite, CommitAccept, PostFails
  <2>4. CASE UNCHANGED log
    BY <1>4, <2>1, <2>4
  <2> QED
    BY <2>1, <2>2, <2>3, <2>4
<1>5. ASSUME NEW r \in Post, post'[r].known
      PROVE  /\ post'[r].kind = "bootstrap" /\ post'[r].for \in orgs'
             /\ post'[r].stage \in {"select", "insert", "written", "answered", "failed",
                                    "unserved"}
  <2>1. orgs \subseteq orgs'
    BY RowsOnlyGrow
  <2>2. ASSUME post[r].known
        PROVE  /\ post[r].kind = "bootstrap" /\ post[r].for \in orgs
               /\ post[r].stage = "select" \/ post[r].stage \in PastSelect
    BY <1>t, <2>2 DEF ListsAreOfLetThrough, PastSelect
  <2>3. CASE post[r].stage = "unsent"
    <3>1. post'[r] # post[r]
      BY <1>5, <2>2, <2>3 DEF PastSelect
    <3> QED
      BY <1>5, <2>1, <2>3, <3>1, RequestsBegin
  <2>4. CASE post[r].stage # "unsent"
    <3>1. /\ post[r].known /\ post'[r].kind = post[r].kind /\ post'[r].for = post[r].for
      BY <1>5, <2>4, RequestsStay
    <3>2. ASSUME SelectOrg(r) PROVE post'[r].stage = "insert"
      BY <1>t, <2>2, <3>1, <3>2 DEF SelectOrg, Go, PostRow
    <3>3. post'[r].stage \in PastSelect \cup {"select"}
      BY <2>2, <2>4, <3>1, <3>2, RequestsStay DEF PastSelect
    <3> QED
      BY <2>1, <2>2, <3>1, <3>3 DEF PastSelect
  <2> QED
    BY <2>3, <2>4
<1>6. ASSUME NEW r \in Post, post'[r].stage = "refused"
      PROVE  Cardinality(post'[r].recent) >= RateMax
  <2>1. post[r].stage # "unsent"
    BY <1>6, RequestsBegin
  <2>2. RateRead(r) \/ (post[r].stage = "refused" /\ post'[r].recent = post[r].recent)
    BY <1>6, <2>1, RequestsStay
  <2>3. post[r].stage = "refused" => Cardinality(post[r].recent) >= RateMax
    BY <1>t DEF ListsAreOfLetThrough
  <2>4. CASE post[r].stage = "refused" /\ post'[r].recent = post[r].recent
    BY <2>3, <2>4
  <2>5. CASE RateRead(r)
    BY <1>2, <1>6, <2>5
  <2> QED
    BY <2>2, <2>4, <2>5
<1>7. \A r \in Post : \A q \in post'[r].recent :
        post'[q].stage \in LetThrough /\ ~post'[q].known
  BY <1>1, <1>3
<1> QED
  BY <1>4, <1>5, <1>6, <1>7, Zenon DEF ListsAreOfLetThrough

-----------------------------------------------------------------------------
LEMMA AccessStepPreserves == AccessInv /\ [AccessNext]_accessVars => AccessInv'
<1> SUFFICES ASSUME AccessInv, [AccessNext]_accessVars PROVE AccessInv'
  OBVIOUS
<1>1. CASE AccessNext
  BY <1>1, TypeKept, SessionsKept, WorkspacesKept, PlacesKept, AdmittedKept, ListsKept
  DEF AccessInv
<1>2. CASE UNCHANGED accessVars
  <2>1. AccessTypeOK' /\ SessionsAreReal' /\ WorkspaceIsWhole'
    BY <1>2
    DEF accessVars, AccessInv, AccessTypeOK, SessionsAreReal, WorkspaceIsWhole, Granted
  <2>2. PlacesAreLocked' /\ AdmittedByInvite' /\ ListsAreOfLetThrough'
    BY <1>2
    DEF accessVars, AccessInv, PlacesAreLocked, AdmittedByInvite, ListsAreOfLetThrough,
        Writing
  <2> QED
    BY <2>1, <2>2 DEF AccessInv
<1> QED
  BY <1>1, <1>2

\* The inductive invariant holds in every reachable state.
LEMMA AccessInvariant == AccessSpec => []AccessInv
<1> QED
  BY AccessInitEstablishes, AccessStepPreserves, PTL DEF AccessSpec

\* Every row, list and page keeps the shape its handlers count on.
THEOREM AccessTypeCorrect == AccessSpec => []AccessTypeOK
<1>1. AccessInv => AccessTypeOK
  BY DEF AccessInv
<1> QED
  BY <1>1, AccessInvariant, PTL

\* create_workspace, accept_invite and the page: no session without its user.
THEOREM SessionsStayReal == AccessSpec => []SessionsAreReal
<1>1. AccessInv => SessionsAreReal
  BY DEF AccessInv
<1> QED
  BY <1>1, AccessInvariant, PTL

\* create_workspace: an organisation and its first user, or neither.
THEOREM WorkspacesStayWhole == AccessSpec => []WorkspaceIsWhole
<1>1. AccessInv => WorkspaceIsWhole
  BY DEF AccessInv
<1> QED
  BY <1>1, AccessInvariant, PTL

\* accept_invite: one user for an invitation, whoever else accepts it meanwhile.
THEOREM InvitesAdmitOne == AccessSpec => []InviteAdmitsOne
<1>1. AccessInv => InviteAdmitsOne
  BY DEF AccessInv, AccessTypeOK, AdmittedByInvite, PlacesAreLocked, InviteAdmitsOne
<1> QED
  BY <1>1, AccessInvariant, PTL

\* The rate limits refuse no retry, and nobody for fewer than the limit.
THEOREM RefusalsStayFair == AccessSpec => []RefusalsAreFair
<1>1. AccessInv => RefusalsAreFair
  <2> SUFFICES ASSUME AccessInv, NEW r \in Post
               PROVE  /\ post[r].known => /\ post[r].stage # "refused"
                                          /\ \A k \in Limited : r \notin log[k]
                      /\ post[r].stage = "refused" =>
                           /\ Cardinality(post[r].recent) >= RateMax
                           /\ \A q \in post[r].recent : post[q].stage \in LetThrough
    BY DEF RefusalsAreFair
  <2>1. post[r].known => post[r].stage # "refused"
    BY DEF AccessInv, ListsAreOfLetThrough
  <2>2. ASSUME post[r].known, NEW k \in Limited, r \in log[k] PROVE FALSE
    BY <2>2, Zenon DEF AccessInv, ListsAreOfLetThrough
  <2>3. post[r].stage = "refused" => Cardinality(post[r].recent) >= RateMax
    BY DEF AccessInv, ListsAreOfLetThrough
  <2>4. \A q \in post[r].recent : post[q].stage \in LetThrough
    BY DEF AccessInv, ListsAreOfLetThrough
  <2> QED
    BY <2>1, <2>2, <2>3, <2>4, Zenon
<1> QED
  BY <1>1, AccessInvariant, PTL

-----------------------------------------------------------------------------
\* Every step is one of Membership, or leaves the rows as they are.
LEMMA StepIsPromised ==
  ASSUME AccessInv, AccessNext
  PROVE  [Promised!Next]_(Promised!memberVars)
<1> USE AccessAssumption DEF Promised!memberVars
<1>t. /\ invites \in [Browser -> [status : {"none", "open", "expired"},
                                  by : Post \cup {NoOne}]]
      /\ \A r \in Post : post[r] \in PostRow
      /\ PlacesAreLocked /\ AdmittedByInvite /\ WorkspaceIsWhole
  BY TypeParts DEF AccessInv, PostsTyped, RestTyped
<1>1. CASE UNCHANGED <<orgs, users, invites>>
  BY <1>1
<1>2. ASSUME NEW b \in Browser, Invite(b) PROVE Promised!Offer(b)
  <2>1. b \in orgs
    BY <1>t, <1>2 DEF Invite, WorkspaceIsWhole
  <2>2. invites[b].by = NoOne
    BY <1>t, <1>2 DEF Invite, PlacesAreLocked
  <2> QED
    BY <1>t, <1>2, <2>1, <2>2 DEF Invite, Promised!Offer
<1>3. ASSUME NEW b \in Browser, InviteExpires(b) PROVE UNCHANGED Promised!memberVars
  BY <1>t, <1>3 DEF InviteExpires
<1>4. ASSUME NEW r \in Post, CommitWorkspace(r)
      PROVE  \E o \in Browser : Promised!Found(o)
  <2>1. post[r].for \in Browser
    BY <1>4 DEF CommitWorkspace, Go, AccessInv, AccessTypeOK
  <2> QED
    BY <1>4, <2>1 DEF CommitWorkspace, Granted, Promised!Found
<1>5. ASSUME NEW r \in Post, CommitAccept(r)
      PROVE  \E o \in Browser : Promised!Join(r, o)
  <2>1. /\ post[r].for \in Browser /\ invites[post[r].for].status # "none"
        /\ invites[post[r].for].by = NoOne
    BY <1>t, <1>5 DEF CommitAccept, Go, PlacesAreLocked
  <2>2. <<r, post[r].for>> \notin users
    BY <1>t, <1>5, <2>1 DEF CommitAccept, Go, AdmittedByInvite
  <2>3. /\ invites' = [invites EXCEPT ![post[r].for].by = r]
        /\ users' = users \cup {<<r, post[r].for>>} /\ UNCHANGED orgs
    BY <1>5 DEF CommitAccept, Granted
  <2>4. {o \in Browser : invites'[o].status # "none" /\ invites'[o].by = NoOne}
          = {o \in Browser : invites[o].status # "none" /\ invites[o].by = NoOne}
              \ {post[r].for}
    BY <1>t, <2>1, <2>3
  <2> QED
    BY <2>1, <2>2, <2>3, <2>4 DEF Promised!Join
<1> QED
  BY <1>1, <1>2, <1>3, <1>4, <1>5, RowsWritten DEF Promised!Next

\* Requests, transactions, locks, failures and rate limits implement Membership:
\* in the rows, a workspace appears with its first member, and whoever takes a
\* place uses it up.
THEOREM ImplementsMembership == AccessSpec => FollowsMembership
<1>1. AccessInit => Promised!Init
  BY DEF AccessInit, Promised!Init
<1>2. AccessInv /\ [AccessNext]_accessVars => [Promised!Next]_(Promised!memberVars)
  <2>1. UNCHANGED accessVars => UNCHANGED Promised!memberVars
    BY DEF accessVars, Promised!memberVars
  <2> QED
    BY <2>1, StepIsPromised
<1> QED
  BY <1>1, <1>2, AccessInvariant, PTL DEF AccessSpec, FollowsMembership, Promised!Spec

=============================================================================
