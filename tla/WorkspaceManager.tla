------------------------- MODULE WorkspaceManager -------------------------
(***************************************************************************)
(* Creating, updating and deleting workspaces (WorkspaceManagerService),   *)
(* and the active workspace of a session (WorkspaceSessionService).        *)
(*                                                                         *)
(* A creation looks for a live workspace with the slug on a connection of  *)
(* its own, then writes the workspace, its owner's membership and the      *)
(* owner's default workspace in one transaction, which ends after the      *)
(* handler does; the owner was read with the session, before all of it.    *)
(***************************************************************************)
EXTENDS TenantTables

others == <<people, spaceTables, inviteTables, active>>

CreateWorkspace(r) ==
  /\ \E u \in people, slug \in Slugs :
       Take(r, [Free EXCEPT !.pc = "create.available", !.user = u, !.slug = slug,
                            !.seen = default[u]])
  /\ UNCHANGED <<workspaceTables, others>>

CheckAvailability(r) ==
  /\ At(r, "create.available")
  /\ \A w \in Workspaces : Live(w) => workspaces[w].slug # req[r].slug
  /\ Goto(r, "create.insert")
  /\ UNCHANGED <<workspaceTables, others>>

\* Two transactions that insert one slug wait for each other's end, and the
\* index counts deleted rows too.
InsertWorkspace(r) ==
  /\ At(r, "create.insert")
  /\ \A w \in Workspaces : workspaces[w].slug # req[r].slug
  /\ \A q \in Slots \ {r} : req[q].pc \in Staged => req[q].slug # req[r].slug
  /\ \E w \in Workspaces :
       /\ workspaces[w].state = "absent" /\ ~Locked(r, w)
       /\ GoOn(r, [req[r] EXCEPT !.pc = "create.owner", !.ws = w])
  /\ UNCHANGED <<workspaceTables, others>>

\* The new workspace has no members yet: the owner's is added as it is.
AddOwner(r) ==
  /\ At(r, "create.owner")
  /\ Goto(r, "create.default")
  /\ UNCHANGED <<workspaceTables, others>>

\* Mutant of SetDefaultWorkspace: the user is saved outside the transaction.
SetDefaultAtOnce(r) ==
  /\ At(r, "create.default")
  /\ Goto(r, "create.commit")
  /\ default' = IF req[r].seen = None
                THEN [default EXCEPT ![req[r].user] = req[r].ws] ELSE default
  /\ UNCHANGED <<workspaces, members, others>>

\* The user's row is written only when it had no default workspace.
SetDefaultWorkspace(r) ==
  /\ At(r, "create.default")
  /\ Goto(r, "create.commit")
  /\ UNCHANGED <<workspaceTables, others>>

CommitCreation(r) ==
  /\ At(r, "create.commit")
  /\ workspaces' = [workspaces EXCEPT ![req[r].ws] = [state |-> "live", slug |-> req[r].slug]]
  /\ members' = members \cup {<<req[r].ws, req[r].user>>}
  /\ default' = IF req[r].seen = None
                THEN [default EXCEPT ![req[r].user] = req[r].ws] ELSE default
  /\ Answer(r)
  /\ UNCHANGED others

---------------------------------------------------------------------------
UpdateWorkspace(r) ==
  /\ \E u \in people, w \in Known :
       Take(r, [Free EXCEPT !.pc = "update.find", !.user = u, !.ws = w, !.gone = Gone(w)])
  /\ UNCHANGED <<workspaceTables, others>>

DeleteWorkspace(r) ==
  /\ \E u \in people, w \in Known :
       Take(r, [Free EXCEPT !.pc = "delete.find", !.user = u, !.ws = w, !.gone = Gone(w)])
  /\ UNCHANGED <<workspaceTables, others>>

\* A workspace that is not there makes the handler throw.
FindWorkspace(r) ==
  /\ Live(req[r].ws)
  /\ \/ At(r, "update.find") /\ Goto(r, "update.save")
     \/ At(r, "delete.find") /\ Goto(r, "delete.save")
  /\ UNCHANGED <<workspaceTables, others>>

\* The row stays locked from the write to the end of the transaction.
SaveWorkspace(r) ==
  /\ ~Locked(r, req[r].ws)
  /\ \/ At(r, "update.save") /\ Goto(r, "update.commit")
     \/ At(r, "delete.save") /\ Goto(r, "delete.commit")
  /\ UNCHANGED <<workspaceTables, others>>

\* Mutant of CommitUpdate: the row is written back as it was read.
CommitWholeRow(r) ==
  /\ At(r, "update.commit")
  /\ workspaces' = [workspaces EXCEPT ![req[r].ws].state = "live"]
  /\ Answer(r)
  /\ UNCHANGED <<members, default, others>>

\* Only the columns that changed are written: name, website and industry,
\* which no other request reads. The slug never changes.
CommitUpdate(r) ==
  /\ At(r, "update.commit")
  /\ Answer(r)
  /\ UNCHANGED <<workspaceTables, others>>

CommitDeletion(r) ==
  /\ At(r, "delete.commit")
  /\ workspaces' = [workspaces EXCEPT ![req[r].ws].state = "deleted"]
  /\ Answer(r)
  /\ UNCHANGED <<members, default, others>>

---------------------------------------------------------------------------
(* The session                                                             *)

SetActiveWorkspace(r) ==
  /\ \E u \in people, w \in Known :
       Take(r, [Free EXCEPT !.pc = "active.find", !.user = u, !.ws = w, !.gone = Gone(w)])
  /\ UNCHANGED <<workspaceTables, others>>

FindActive(r) ==
  /\ At(r, "active.find")
  /\ Live(req[r].ws)
  /\ Goto(r, "active.put")
  /\ UNCHANGED <<workspaceTables, others>>

\* Nothing removes it from the session when the workspace is deleted.
PutActive(r) ==
  /\ At(r, "active.put")
  /\ active' = [active EXCEPT ![req[r].user] = req[r].ws]
  /\ Answer(r)
  /\ UNCHANGED <<workspaceTables, people, spaceTables, inviteTables>>
===========================================================================
