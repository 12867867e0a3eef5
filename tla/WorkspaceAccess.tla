--------------------------- MODULE WorkspaceAccess ---------------------------
(***************************************************************************)
(* How a browser gets its session: by making a private workspace, or by    *)
(* redeeming a teammate's invitation. The page tries twice, and again when *)
(* its user asks for it; a request that it gave up on goes on at the       *)
(* server, so two of the same bootstrap key may overlap.                   *)
(*                                                                         *)
(* A key maps to the ids of one workspace and of its first user, so both   *)
(* are named by the browser that keeps the key; a user who joins is named  *)
(* by the request that made it. A session is a signed pair of ids.         *)
(***************************************************************************)
EXTENDS Integers, FiniteSets

CONSTANTS
  Browser,
  Post,        \* bound: the requests that browsers send, each used once
  RateMax,     \* requests per window and connection; all share one here
  NoOne        \* no session, no request, no invitation

ASSUME AccessAssumption ==
  /\ RateMax \in Nat \ {0}
  /\ NoOne \notin Browser \cup Post
  /\ Browser \cap Post = {}

VARIABLES
  orgs,     \* organisations, committed
  users,    \* users, committed: <<user, organisation>>
  invites,  \* invitations by workspace: status, and the user who accepted
  post,     \* of a request at the server: its stage and what it knows
  log,      \* the in-process logs of requests that passed the rate limit
  aged,     \* the entries older than the window
  page      \* of a browser: session, invitation link, attempt, request awaited

accessVars == <<orgs, users, invites, post, log, aged, page>>

Limited == {"bootstrap", "accept"}

Unsent == [stage |-> "unsent", kind |-> "bootstrap", for |-> NoOne, recent |-> {},
           fresh |-> FALSE, known |-> FALSE]

AccessInit ==
  /\ orgs = {} /\ users = {}
  /\ invites = [o \in Browser |-> [status |-> "none", by |-> NoOne]]
  /\ post = [r \in Post |-> Unsent]
  /\ log = [k \in Limited |-> {}]
  /\ aged = {}
  /\ page = [b \in Browser |-> [session |-> NoOne, link |-> NoOne, attempt |-> 0,
                                awaits |-> NoOne]]

Go(r, from, to) == /\ post[r].stage = from
                   /\ post' = [post EXCEPT ![r].stage = to]

-----------------------------------------------------------------------------
(* The page                                                                *)

Attempts == 2

\* A teammate's link is opened in a browser that has no session.
OpenLink(b, o) ==
  /\ page[b].session = NoOne /\ page[b].link = NoOne /\ page[b].attempt = 0
  /\ o # b /\ invites[o].status # "none"
  /\ page' = [page EXCEPT ![b].link = o]
  /\ UNCHANGED <<orgs, users, invites, post, log, aged>>

\* Broken: a run of the page does not stop after its last attempt.
TryOnAndOn(b, r) ==
  /\ page[b].session = NoOne /\ page[b].awaits = NoOne
  /\ post[r].stage = "unsent"
  /\ page' = [page EXCEPT ![b].attempt = @ + 1, ![b].awaits = r]
  /\ post' = [post EXCEPT ![r] = [Unsent EXCEPT !.stage = "select", !.for = b]]
  /\ UNCHANGED <<orgs, users, invites, log, aged>>

\* bootstrapWorkspaceOnce: the link first, else the workspace of the key.
Try(b, r) ==
  /\ page[b].session = NoOne /\ page[b].awaits = NoOne
  /\ page[b].attempt < Attempts
  /\ post[r].stage = "unsent"
  /\ page' = [page EXCEPT ![b].attempt = @ + 1, ![b].awaits = r]
  /\ post' = [post EXCEPT ![r] =
       IF page[b].link # NoOne
       THEN [Unsent EXCEPT !.stage = "limit", !.kind = "accept", !.for = page[b].link]
       ELSE [Unsent EXCEPT !.stage = "select", !.for = b, !.known = b \in orgs]]
  /\ UNCHANGED <<orgs, users, invites, log, aged>>

\* The user asks to try again, once the run has failed.
TryAgain(b) ==
  /\ page[b].session = NoOne /\ page[b].awaits = NoOne
  /\ page[b].attempt = Attempts
  /\ page' = [page EXCEPT ![b].attempt = 0]
  /\ UNCHANGED <<orgs, users, invites, post, log, aged>>

Granted(r) ==
  IF post[r].kind = "accept" THEN <<r, post[r].for>> ELSE <<post[r].for, post[r].for>>

\* The answer is stored, and then checked against /workspaces/me.
ReceiveSession(b) ==
  LET r == page[b].awaits IN
  /\ r # NoOne /\ post[r].stage = "answered"
  /\ page' = [page EXCEPT ![b] =
       [@ EXCEPT !.awaits = NoOne, !.link = NoOne,
                 !.session = IF Granted(r) \in users THEN Granted(r) ELSE NoOne]]
  /\ UNCHANGED <<orgs, users, invites, post, log, aged>>

\* The answer is an error, or 15 seconds have passed without one.
AttemptFails(b) ==
  LET r == page[b].awaits IN
  /\ r # NoOne
  /\ page' = [page EXCEPT ![b].awaits = NoOne]
  /\ UNCHANGED <<orgs, users, invites, post, log, aged>>

-----------------------------------------------------------------------------
(* The rate limits: a list read, and written back by the same request      *)

\* Broken: the request is put on the list before its length is looked at.
RateReadCounts(r) ==
  LET k == post[r].kind
      recent == log[k] \ aged
  IN /\ log' = [log EXCEPT ![k] = recent \cup {r}]
     /\ post[r].stage = "limit"
     /\ post' = [post EXCEPT ![r].recent = recent,
                   ![r].stage = IF Cardinality(recent) >= RateMax THEN "refused"
                                ELSE "limited"]
     /\ UNCHANGED <<orgs, users, invites, aged, page>>

RateRead(r) ==
  LET recent == log[post[r].kind] \ aged IN
  /\ post[r].stage = "limit"
  /\ post' = [post EXCEPT ![r].recent = recent,
                ![r].stage = IF Cardinality(recent) >= RateMax THEN "refused"
                             ELSE "limited"]
  /\ UNCHANGED <<orgs, users, invites, log, aged, page>>

\* What other requests put on the list in between is lost.
RateWrite(r) ==
  /\ post[r].stage = "limited"
  /\ post' = [post EXCEPT ![r].recent = {},
                ![r].stage = IF post[r].kind = "accept" THEN "begin" ELSE "insert"]
  /\ log' = [log EXCEPT ![post[r].kind] = post[r].recent \cup {r}]
  /\ UNCHANGED <<orgs, users, invites, aged, page>>

WindowPasses(r) ==
  /\ r \in (UNION {log[k] : k \in Limited}) \ aged
  /\ aged' = aged \cup {r}
  /\ UNCHANGED <<orgs, users, invites, post, log, page>>

-----------------------------------------------------------------------------
(* create_workspace                                                        *)

\* A workspace that is there already is answered, past the rate limit.
SelectOrg(r) ==
  /\ Go(r, "select", IF post[r].for \in orgs THEN "insert" ELSE "limit")
  /\ UNCHANGED <<orgs, users, invites, log, aged, page>>

Writing(r) == {q \in Post \ {r} : /\ post[q].for = post[r].for
                                  /\ post[q].kind = post[r].kind
                                  /\ post[q].stage = "written"}

\* INSERT ... ON CONFLICT DO NOTHING of both rows, each waiting for another
\* transaction that has inserted them.
InsertWorkspace(r) ==
  /\ post[r].kind = "bootstrap"
  /\ Writing(r) = {}
  /\ Go(r, "insert", "written")
  /\ UNCHANGED <<orgs, users, invites, log, aged, page>>

\* Broken: the two rows are committed one after the other.
CommitWorkspaceInTwo(r) ==
  /\ post[r].kind = "bootstrap"
  /\ orgs' = orgs \cup {post[r].for}
  /\ IF post[r].for \in orgs
     THEN Go(r, "written", "answered") /\ users' = users \cup {Granted(r)}
     ELSE post[r].stage = "written" /\ UNCHANGED <<post, users>>
  /\ UNCHANGED <<invites, log, aged, page>>

CommitWorkspace(r) ==
  /\ post[r].kind = "bootstrap"
  /\ Go(r, "written", "answered")
  /\ orgs' = orgs \cup {post[r].for}
  /\ users' = users \cup {Granted(r)}
  /\ UNCHANGED <<invites, log, aged, page>>

-----------------------------------------------------------------------------
(* invite_teammate, accept_invite                                          *)

Invite(b) ==
  /\ page[b].session = <<b, b>>
  /\ page[b].session \in users
  /\ invites[b].status = "none"
  /\ invites' = [invites EXCEPT ![b].status = "open"]
  /\ UNCHANGED <<orgs, users, post, log, aged, page>>

\* 24 hours pass.
InviteExpires(o) ==
  /\ invites[o].status = "open"
  /\ invites' = [invites EXCEPT ![o].status = "expired"]
  /\ UNCHANGED <<orgs, users, post, log, aged, page>>

\* The transaction opens, and fixes the now() that expiry is compared with.
BeginAccept(r) ==
  /\ post[r].stage = "begin"
  /\ post' = [post EXCEPT ![r].stage = "lock",
                          ![r].fresh = invites[post[r].for].status # "expired"]
  /\ UNCHANGED <<orgs, users, invites, log, aged, page>>

\* Broken: the SELECT takes no lock.
LockInviteNone(r) ==
  LET invite == invites[post[r].for] IN
  /\ Go(r, "lock", IF invite.by = NoOne /\ post[r].fresh THEN "written" ELSE "refused400")
  /\ UNCHANGED <<orgs, users, invites, log, aged, page>>

\* SELECT ... FOR UPDATE waits for a transaction that holds the row, and then
\* looks at it again. The new user and the mark follow under the lock.
LockInvite(r) ==
  LET invite == invites[post[r].for] IN
  /\ Writing(r) = {}
  /\ Go(r, "lock", IF invite.by = NoOne /\ post[r].fresh THEN "written" ELSE "refused400")
  /\ UNCHANGED <<orgs, users, invites, log, aged, page>>

\* Broken: the answer is ready, but what was written is rolled back.
AnswerUncommitted(r) ==
  /\ Go(r, "written", "answered")
  /\ UNCHANGED <<orgs, users, invites, log, aged, page>>

CommitAccept(r) ==
  /\ post[r].kind = "accept"
  /\ Go(r, "written", "answered")
  /\ users' = users \cup {Granted(r)}
  /\ invites' = [invites EXCEPT ![post[r].for].by = r]
  /\ UNCHANGED <<orgs, log, aged, page>>

\* The database or the process fails: rolled back, except for the log.
PostFails(r) ==
  /\ \/ Go(r, "select", "unserved")
     \/ \E s \in {"insert", "begin", "lock", "written"} : Go(r, s, "failed")
  /\ UNCHANGED <<orgs, users, invites, log, aged, page>>

AccessNext ==
  \/ \E b \in Browser :
       \/ \E o \in Browser : OpenLink(b, o)
       \/ \E r \in Post : Try(b, r)
       \/ TryAgain(b) \/ ReceiveSession(b) \/ AttemptFails(b)
       \/ Invite(b) \/ InviteExpires(b)
  \/ \E r \in Post :
       \/ RateRead(r) \/ RateWrite(r) \/ WindowPasses(r)
       \/ SelectOrg(r) \/ InsertWorkspace(r) \/ CommitWorkspace(r)
       \/ BeginAccept(r) \/ LockInvite(r) \/ CommitAccept(r)
       \/ PostFails(r)

AccessSpec == AccessInit /\ [][AccessNext]_accessVars

-----------------------------------------------------------------------------
(***************************************************************************)
(* Properties                                                              *)
(***************************************************************************)

PostStage == {"unsent", "select", "limit", "limited", "insert", "begin", "lock",
              "written", "answered", "refused", "refused400", "failed", "unserved"}

\* The stages past the rate limit.
LetThrough == {"begin", "lock", "insert", "written", "answered", "refused400", "failed"}

Identity == (Browser \cup Post) \X Browser

AccessTypeOK ==
  /\ orgs \subseteq Browser
  /\ users \subseteq Identity
  /\ invites \in [Browser -> [status : {"none", "open", "expired"},
                              by : Post \cup {NoOne}]]
  /\ post \in [Post -> [stage : PostStage, kind : Limited,
                        for : Browser \cup {NoOne}, recent : SUBSET Post,
                        fresh : BOOLEAN, known : BOOLEAN]]
  /\ \A r \in Post : (post[r].for = NoOne) <=> (post[r].stage = "unsent")
  /\ log \in [Limited -> SUBSET Post]
  /\ aged \subseteq Post
  /\ page \in [Browser -> [session : Identity \cup {NoOne}, link : Browser \cup {NoOne},
                           attempt : 0..Attempts, awaits : Post \cup {NoOne}]]

\* A session that was handed out, stored or not, names a user who is really in
\* the workspace: no answer leaves before its rows are committed, and none
\* outlives rows that were rolled back.
SessionsAreReal ==
  /\ \A r \in Post : post[r].stage = "answered" => Granted(r) \in users
  /\ \A b \in Browser : page[b].session # NoOne => page[b].session \in users

\* A workspace is there whole or not at all, however many requests of its key
\* overlapped, failed or were repeated: with its first user, and no user or
\* invitation of a workspace that is not there.
WorkspaceIsWhole ==
  /\ \A o \in orgs : <<o, o>> \in users
  /\ \A u \in users : u[2] \in orgs
  /\ \A o \in Browser : invites[o].status # "none" => o \in orgs

\* The rate limit refuses no retry: a key whose workspace was there before the
\* request is answered, and not counted. And none is refused for less than as
\* many requests let through within the window as the limit allows: where two
\* overlap, entries of the list are lost, but never made up.
RefusalsAreFair ==
  \A r \in Post :
    /\ post[r].known => /\ post[r].stage # "refused"
                        /\ \A k \in Limited : r \notin log[k]
    /\ post[r].stage = "refused" =>
         /\ Cardinality(post[r].recent) >= RateMax
         /\ \A q \in post[r].recent : post[q].stage \in LetThrough

\* An invitation admits one user at most, the one it names as accepting, and
\* none that asked after it expired; two that accept it at once included.
InviteAdmitsOne ==
  \A r \in Post :
    LET o == post[r].for IN
    post[r].kind = "accept" /\ <<r, o>> \in users =>
      /\ invites[o].by = r
      /\ post[r].fresh

\* The places that are still open: expiry counts against the requests that come
\* after it, not against one that has begun.
Promised == INSTANCE Membership WITH
  Workspace <- Browser,
  Person <- Browser \cup Post,
  workspaces <- orgs,
  members <- users,
  places <- {o \in Browser : invites[o].status # "none" /\ invites[o].by = NoOne}

\* The rows, as they are committed, follow Membership: no request, overlap,
\* repetition or failure shows in them otherwise.
FollowsMembership == Promised!Spec
=============================================================================
