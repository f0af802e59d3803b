--------------------------- MODULE SpaceManager ---------------------------
(***************************************************************************)
(* The spaces of a workspace and their members (SpaceService and           *)
(* SpaceMemberService). Everything is read and written outside the         *)
(* transaction the services ask for, each write committed at once, so      *)
(* every check is separated from the write it guards.                      *)
(***************************************************************************)
EXTENDS TenantTables

beyond == <<people, workspaceTables, inviteTables, active>>

CreateSpace(r) ==
  /\ \E u \in people, tag \in Tags, w \in Known :
       Take(r, [Free EXCEPT !.pc = "space.allow", !.user = u, !.ws = w, !.tag = tag,
                            !.gone = Gone(w)])
  /\ UNCHANGED <<spaceTables, beyond>>

\* The workspace is retrieved, then the user's membership looked up.
AllowCreation(r) ==
  /\ At(r, "space.allow")
  /\ Live(req[r].ws)
  /\ IF <<req[r].ws, req[r].user>> \in members THEN Goto(r, "space.insert") ELSE Answer(r)
  /\ UNCHANGED <<spaceTables, beyond>>

\* The index on workspace and tag counts deleted spaces too.
InsertSpace(r) ==
  /\ At(r, "space.insert")
  /\ \A s \in Spaces : spaces[s].ws = req[r].ws => spaces[s].tag # req[r].tag
  /\ \E s \in Spaces :
       /\ spaces[s].state = "absent"
       /\ spaces' = [spaces EXCEPT ![s] = [state |-> "live", ws |-> req[r].ws, tag |-> req[r].tag]]
       /\ GoOn(r, [req[r] EXCEPT !.pc = "space.attach", !.space = s])
  /\ UNCHANGED <<spaceMembers, beyond>>

\* A failure in between leaves a space without members.
AttachCreator(r) ==
  /\ At(r, "space.attach")
  /\ <<req[r].space, req[r].user>> \notin spaceMembers
  /\ spaceMembers' = spaceMembers \cup {<<req[r].space, req[r].user>>}
  /\ Answer(r)
  /\ UNCHANGED <<spaces, beyond>>

---------------------------------------------------------------------------
\* Who updates or deletes a space, or its members, is not asked for.
ChangeSpace(r) ==
  /\ \E u \in people, s \in KnownSpaces, step \in {"retag.find", "drop.find"}, tag \in Tags :
       Take(r, [Free EXCEPT !.pc = step, !.user = u, !.space = s,
                            !.tag = IF step = "retag.find" THEN tag ELSE None])
  /\ UNCHANGED <<spaceTables, beyond>>

FindSpace(r) ==
  /\ LiveSpace(req[r].space)
  /\ \/ At(r, "retag.find") /\ Goto(r, "retag.save")
     \/ At(r, "drop.find") /\ Goto(r, "drop.save")
     \/ At(r, "add.find") /\ Goto(r, "add.check")
     \/ At(r, "remove.find") /\ Goto(r, "remove.check")
  /\ UNCHANGED <<spaceTables, beyond>>

\* Only the columns that changed are written.
UpdateSpace(r) ==
  /\ At(r, "retag.save")
  /\ \A s \in Spaces \ {req[r].space} :
       spaces[s].ws = spaces[req[r].space].ws => spaces[s].tag # req[r].tag
  /\ spaces' = [spaces EXCEPT ![req[r].space].tag = req[r].tag]
  /\ Answer(r)
  /\ UNCHANGED <<spaceMembers, beyond>>

DeleteSpace(r) ==
  /\ At(r, "drop.save")
  /\ spaces' = [spaces EXCEPT ![req[r].space].state = "deleted"]
  /\ Answer(r)
  /\ UNCHANGED <<spaceMembers, beyond>>

---------------------------------------------------------------------------
(* Members                                                                 *)

ChangeMember(r) ==
  /\ \E u, who \in people, s \in KnownSpaces, step \in {"add.find", "remove.find"} :
       Take(r, [Free EXCEPT !.pc = step, !.user = u, !.space = s, !.who = who])
  /\ UNCHANGED <<spaceTables, beyond>>

Membership(r) == <<req[r].space, req[r].who>>

CheckMember(r) ==
  /\ \/ At(r, "add.check") /\ Membership(r) \notin spaceMembers /\ Goto(r, "add.attach")
     \/ At(r, "remove.check") /\ Membership(r) \in spaceMembers /\ Goto(r, "remove.detach")
  /\ UNCHANGED <<spaceTables, beyond>>

\* Of two requests that both found no member, the index lets one through.
AddMember(r) ==
  /\ At(r, "add.attach")
  /\ Membership(r) \notin spaceMembers
  /\ spaceMembers' = spaceMembers \cup {Membership(r)}
  /\ Answer(r)
  /\ UNCHANGED <<spaces, beyond>>

\* A member who was removed in the meantime is removed again.
RemoveMember(r) ==
  /\ At(r, "remove.detach")
  /\ spaceMembers' = spaceMembers \ {Membership(r)}
  /\ Answer(r)
  /\ UNCHANGED <<spaces, beyond>>
===========================================================================
