------------------------------ MODULE Tenancy ------------------------------
(***************************************************************************)
(* The tenancy of the gateway: workspaces, invitations and spaces served   *)
(* side by side over the same tables. The modules meet in the memberships: *)
(* creating a workspace and accepting an invitation write them, creating a *)
(* space reads them.                                                       *)
(***************************************************************************)
EXTENDS WorkspaceManager, WorkspaceInvitation, SpaceManager

vars == <<people, workspaceTables, spaceTables, inviteTables, active, req, served>>

Init == TablesInit

Next ==
  \/ \E r \in Slots :
       \/ CreateWorkspace(r) \/ CheckAvailability(r) \/ InsertWorkspace(r)
       \/ AddOwner(r) \/ SetDefaultWorkspace(r) \/ CommitCreation(r)
       \/ UpdateWorkspace(r) \/ DeleteWorkspace(r) \/ FindWorkspace(r)
       \/ SaveWorkspace(r) \/ CommitUpdate(r) \/ CommitDeletion(r)
       \/ SetActiveWorkspace(r) \/ FindActive(r) \/ PutActive(r)
       \/ SendInvites(r) \/ FindInviter(r) \/ GenerateInvite(r) \/ DispatchInvite(r)
       \/ AcceptInvite(r) \/ CheckInvite(r) \/ FindInvitation(r) \/ FindInvitee(r)
       \/ RegisterInvitee(r) \/ JoinWorkspace(r) \/ JoinSpace(r) \/ ForgetInvite(r)
       \/ LogInInvitee(r)
       \/ CreateSpace(r) \/ AllowCreation(r) \/ InsertSpace(r) \/ AttachCreator(r)
       \/ ChangeSpace(r) \/ FindSpace(r) \/ UpdateSpace(r) \/ DeleteSpace(r)
       \/ ChangeMember(r) \/ CheckMember(r) \/ AddMember(r) \/ RemoveMember(r)
       \/ Fail(r)
  \/ ExpireInvite

Spec == Init /\ [][Next]_vars

---------------------------------------------------------------------------
(* Properties                                                              *)

TypeOK == TablesTypeOK

\* What the tenancy promises about members, over the tables: the invitations
\* are the emails sent.
Directory ==
  INSTANCE WorkspaceDirectory WITH
    founded <- Known,
    invited <- {<<m.ws, m.to>> : m \in mails}

\* A workspace and its owner's membership appear in one step, whatever fails
\* around them, and every other membership was invited (create of
\* WorkspaceManagerService, acceptInvitation of WorkspaceInvitationService).
ImplementsDirectory == Directory!Spec

\* A user's default workspace exists and the user belongs to it, or was
\* registered by an invitation to it: a creation that fails, or that never
\* commits, leaves no default behind.
DefaultIsOwn ==
  \A u \in Users : default[u] # None =>
    /\ default[u] \in Known
    /\ \/ <<default[u], u>> \in members
       \/ \E m \in mails : m.ws = default[u] /\ m.to = u

\* A deleted workspace or space is never brought back, neither by an update
\* that read it before the deletion nor by a creation with its slug or tag.
DeletedStaysDeleted ==
  [][/\ \A w \in Workspaces : workspaces[w].state = "deleted" => workspaces'[w] = workspaces[w]
     /\ \A s \in Spaces : spaces[s].state = "deleted" => spaces'[s].state = "deleted"]_vars

\* A request about a workspace that was deleted before it arrived never gets
\* past the retrieval of it: no invitation, membership, space or active
\* workspace comes of it, though the session and the emailed links still name
\* the workspace.
DeletedWorkspaceRefused ==
  \A r \in Slots : req[r].gone =>
    req[r].pc \in {"update.find", "delete.find", "active.find", "invite.find",
                   "accept.check", "accept.find", "space.allow"}

\* workspace_invitation_service.ts: accepting an invitation to a space adds
\* "user to space": the one who accepted.
AcceptedInviteeJoins ==
  \A r \in Slots :
    req[r].pc \in {"accept.forget", "accept.login"} => <<req[r].space, req[r].who>> \in spaceMembers
===========================================================================
