------------------------ MODULE WorkspaceInvitation ------------------------
(***************************************************************************)
(* Inviting users to a workspace by email and accepting the invitation     *)
(* (WorkspaceInvitationService). An invitation is cached for a day under   *)
(* its workspace and email address, a new one replaces the old one.        *)
(*                                                                         *)
(* Accepting writes the memberships one by one, each committed at once:    *)
(* the models were retrieved outside the transaction the service asks for. *)
(***************************************************************************)
EXTENDS TenantTables

CONSTANT Modes  \* the ways to accept: "accept", "login", "register"

ASSUME ModesAssumption == Modes \subseteq {"accept", "login", "register"}

besides == <<workspaces, spaces, active>>

\* The workspaces a request may mean: one it names, or the session's own.
Named(u) == Known \cup ({active[u]} \ {None})

Cached(w, u) == {i \in invites : i.ws = w /\ i.to = u}

---------------------------------------------------------------------------
(* Sending                                                                 *)

SendInvites(r) ==
  /\ \E u \in people, todo \in SUBSET Users \ {{}}, s \in KnownSpaces \cup {None} :
       \E w \in Named(u) :
         Take(r, [Free EXCEPT !.pc = "invite.find", !.user = u, !.ws = w, !.space = s,
                              !.todo = todo, !.gone = Gone(w)])
  /\ UNCHANGED <<people, members, default, spaceMembers, inviteTables, besides>>

\* Mutant of FindInviter: deleted workspaces are found as well.
FindWithTrashed(r) ==
  /\ At(r, "invite.find")
  /\ Goto(r, "invite.generate")
  /\ UNCHANGED <<people, members, default, spaceMembers, inviteTables, besides>>

\* Mutant of FindInviter: the email goes out before its token is generated.
DispatchFirst(r) ==
  /\ At(r, "invite.find")
  /\ Live(req[r].ws)
  /\ Goto(r, "invite.dispatch")
  /\ UNCHANGED <<people, members, default, spaceMembers, inviteTables, besides>>

FindInviter(r) ==
  /\ At(r, "invite.find")
  /\ Live(req[r].ws)
  /\ Goto(r, "invite.generate")
  /\ UNCHANGED <<people, members, default, spaceMembers, inviteTables, besides>>

\* The invitees are served one after another; a failure leaves the rest out.
GenerateInvite(r) ==
  /\ At(r, "invite.generate")
  /\ issued < MaxTokens
  /\ issued' = issued + 1
  /\ \E u \in req[r].todo :
       /\ invites' = (invites \ Cached(req[r].ws, u)) \cup
            {[token |-> issued', ws |-> req[r].ws, to |-> u, sender |-> req[r].user,
              space |-> req[r].space]}
       /\ GoOn(r, [req[r] EXCEPT !.pc = "invite.dispatch", !.who = u, !.token = issued'])
  /\ UNCHANGED <<people, members, default, spaceMembers, mails, besides>>

DispatchInvite(r) ==
  /\ At(r, "invite.dispatch")
  /\ mails' = mails \cup {[token |-> req[r].token, ws |-> req[r].ws, to |-> req[r].who,
                           sender |-> req[r].user, space |-> req[r].space]}
  /\ LET left == req[r].todo \ {req[r].who} IN
     IF left = {} THEN Answer(r)
     ELSE GoOn(r, [req[r] EXCEPT !.pc = "invite.generate", !.todo = left])
  /\ UNCHANGED <<people, members, default, spaceMembers, invites, issued, besides>>

ExpireInvite ==
  /\ \E i \in invites : invites' = invites \ {i}
  /\ UNCHANGED <<people, members, default, spaceMembers, mails, issued, besides, req, served>>

---------------------------------------------------------------------------
(* Accepting                                                               *)

\* The link carries the workspace and the email its invitation is cached
\* under, and the token.
AcceptInvite(r) ==
  /\ \E u \in people, m \in mails, mode \in Modes :
       Take(r, [Free EXCEPT !.pc = "accept.check", !.user = u, !.ws = m.ws, !.who = m.to,
                            !.mode = mode, !.token = m.token, !.gone = Gone(m.ws)])
  /\ UNCHANGED <<people, members, default, spaceMembers, inviteTables, besides>>

\* Only an invitation to a space decodes, and only the newest one is cached.
CheckInvite(r) ==
  /\ At(r, "accept.check")
  /\ \E i \in Cached(req[r].ws, req[r].who) :
       /\ i.token = req[r].token /\ i.space # None
       /\ GoOn(r, [req[r] EXCEPT !.pc = "accept.find", !.space = i.space])
  /\ UNCHANGED <<people, members, default, spaceMembers, inviteTables, besides>>

FindInvitation(r) ==
  /\ At(r, "accept.find")
  /\ Live(req[r].ws) /\ LiveSpace(req[r].space)
  /\ Goto(r, "accept.user")
  /\ UNCHANGED <<people, members, default, spaceMembers, inviteTables, besides>>

\* Mutant of FindInvitee: the address of the session's user is not compared.
AnyUserAccepts(r) ==
  /\ At(r, "accept.user")
  /\ \/ req[r].mode = "accept" /\ GoOn(r, [req[r] EXCEPT !.pc = "accept.join", !.who = req[r].user])
     \/ req[r].mode = "login" /\ req[r].who \in people /\ Goto(r, "accept.join")
     \/ req[r].mode = "register" /\ req[r].who \notin people /\ Goto(r, "accept.register")
  /\ UNCHANGED <<people, members, default, spaceMembers, inviteTables, besides>>

\* The session's user must be the invitee, or the invitee gives the password
\* of an account, or there must be no account yet.
FindInvitee(r) ==
  /\ At(r, "accept.user")
  /\ \/ req[r].mode = "accept" /\ req[r].user = req[r].who /\ Goto(r, "accept.join")
     \/ req[r].mode = "login" /\ req[r].who \in people /\ Goto(r, "accept.join")
     \/ req[r].mode = "register" /\ req[r].who \notin people /\ Goto(r, "accept.register")
  /\ UNCHANGED <<people, members, default, spaceMembers, inviteTables, besides>>

\* The account is verified from the start and commits at once, with the
\* workspace as its default although it is not a member yet.
RegisterInvitee(r) ==
  /\ At(r, "accept.register")
  /\ req[r].who \notin people
  /\ people' = people \cup {req[r].who}
  /\ default' = [default EXCEPT ![req[r].who] = req[r].ws]
  /\ Goto(r, "accept.join")
  /\ UNCHANGED <<members, spaceMembers, inviteTables, besides>>

JoinWorkspace(r) ==
  /\ At(r, "accept.join")
  /\ members' = members \cup {<<req[r].ws, req[r].who>>}
  /\ Goto(r, "accept.space")
  /\ UNCHANGED <<people, default, spaceMembers, inviteTables, besides>>

\* In mode "accept" it is the sender who is added to the space. The unique
\* index refuses a member: then the request fails after it joined.
Joiner(r) ==
  IF req[r].mode # "accept" THEN {req[r].who}
  ELSE {m.sender : m \in {n \in mails : n.token = req[r].token}}

JoinSpace(r) ==
  /\ At(r, "accept.space")
  /\ \E u \in Joiner(r) :
       /\ <<req[r].space, u>> \notin spaceMembers
       /\ spaceMembers' = spaceMembers \cup {<<req[r].space, u>>}
  /\ Goto(r, IF req[r].mode = "login" THEN "accept.login" ELSE "accept.forget")
  /\ UNCHANGED <<people, members, default, inviteTables, besides>>

\* The invitation is deleted under a key made of the workspace's row number,
\* which nothing is cached under: it stays until it expires.
ForgetInvite(r) ==
  /\ At(r, "accept.forget")
  /\ Answer(r)
  /\ UNCHANGED <<people, members, default, spaceMembers, inviteTables, besides>>

\* Mode "login" deletes nothing and ends by making the client's session the
\* invitee's (whether the account is verified is in Accounts). The session
\* keeps its active workspace; the invitee may have another client as well.
LogInInvitee(r) ==
  /\ At(r, "accept.login")
  /\ \E w \in {active[req[r].user], active[req[r].who]} :
       active' = [active EXCEPT ![req[r].who] = w]
  /\ Answer(r)
  /\ UNCHANGED <<people, members, default, spaceMembers, inviteTables, workspaces, spaces>>
===========================================================================
