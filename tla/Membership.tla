----------------------------- MODULE Membership -----------------------------
(***************************************************************************)
(* What WorkspaceAccess promises, without requests, transactions or rate   *)
(* limits: a workspace appears together with its first member, a member    *)
(* may offer a place in it, and whoever takes the place uses it up.        *)
(* Nobody loses a membership.                                              *)
(***************************************************************************)
CONSTANTS
  Workspace,   \* by the browser whose key makes it
  Person

VARIABLES
  workspaces,  \* those that exist
  members,     \* <<member, workspace>>
  places       \* the workspaces with a place on offer

memberVars == <<workspaces, members, places>>

Init == workspaces = {} /\ members = {} /\ places = {}

Found(o) ==
  /\ workspaces' = workspaces \cup {o}
  /\ members' = members \cup {<<o, o>>}
  /\ UNCHANGED places

Offer(o) ==
  /\ o \in workspaces
  /\ places' = places \cup {o}
  /\ UNCHANGED <<workspaces, members>>

Join(u, o) ==
  /\ o \in places
  /\ <<u, o>> \notin members
  /\ places' = places \ {o}
  /\ members' = members \cup {<<u, o>>}
  /\ UNCHANGED workspaces

Next ==
  \E o \in Workspace : Found(o) \/ Offer(o) \/ \E u \in Person : Join(u, o)

Spec == Init /\ [][Next]_memberVars
=============================================================================
