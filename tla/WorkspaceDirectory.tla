------------------------ MODULE WorkspaceDirectory ------------------------
(***************************************************************************)
(* What the tenancy of the gateway promises about workspaces and their     *)
(* members: a workspace comes into being together with its founder's       *)
(* membership, and nobody else becomes a member of it without an           *)
(* invitation to that workspace.                                           *)
(***************************************************************************)
CONSTANTS Users, Workspaces

VARIABLES
  founded,  \* the workspaces that were created, deleted ones included
  members,  \* the pairs of a workspace and a member of it
  invited   \* the pairs of a workspace and a user invited to it

vars == <<founded, members, invited>>

Init == founded = {} /\ members = {} /\ invited = {}

Found(w, u) ==
  /\ w \notin founded
  /\ founded' = founded \cup {w}
  /\ members' = members \cup {<<w, u>>}
  /\ UNCHANGED invited

Invite(w, u) ==
  /\ w \in founded
  /\ invited' = invited \cup {<<w, u>>}
  /\ UNCHANGED <<founded, members>>

Join(w, u) ==
  /\ <<w, u>> \in invited
  /\ members' = members \cup {<<w, u>>}
  /\ UNCHANGED <<founded, invited>>

Next == \E w \in Workspaces, u \in Users : Found(w, u) \/ Invite(w, u) \/ Join(w, u)

Spec == Init /\ [][Next]_vars
===========================================================================
