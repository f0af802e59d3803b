-------------------------- MODULE RequestHandlers --------------------------
(***************************************************************************)
(* What each route of the gateway does with its transaction, the pool and  *)
(* the scope: one program per controller method, in the step kinds of      *)
(* module ScopedTransaction. A program names the steps of the controller   *)
(* and of the services it calls, in their order; adjacent steps that can   *)
(* only fail are one "check". Where a method branches, its program is the  *)
(* branch that reaches furthest: a shorter one ends at a check.            *)
(***************************************************************************)
EXTENDS Sequences

---------------------------------------------------------------------------
(* Authentication and account: no transaction, or one that stays empty     *)

\* The payload, the credentials, then the session or the verification email.
Login == <<"check", "poolRead", "check">>

\* The access token is deleted before the session is.
Logout == <<"check", "poolWrite", "check">>

\* The user row, then the cache and the queue of the verification email.
RegisterUser == <<"check", "poolRead", "poolWrite", "check">>

SendPasswordResetEmail == <<"check", "poolRead", "check">>

\* The payload is validated before requireTransaction; the token is checked
\* and its deletion deferred; the user is saved on a connection of its own.
ResetPassword ==
  <<"create", "check", "require", "check", "finalizer", "poolRead", "check",
    "poolWrite">>

VerifyAccount ==
  <<"create", "check", "require", "check", "finalizer", "poolRead",
    "poolWrite">>

---------------------------------------------------------------------------
(* Workspaces                                                              *)

\* WorkspaceManagerService.create, availability and add each require the
\* transaction; the logo is deferred between them.
CreateWorkspace ==
  <<"create", "check", "require", "require", "poolRead", "check", "finalizer",
    "trxWrite", "require", "poolTry", "trxWrite", "trxWrite">>

SetActiveWorkspace == <<"create", "check", "require", "poolRead", "check">>

\* Two retrievals, then a token and a job for each invitee.
SendWorkspaceInviteEmail ==
  <<"create", "check", "require", "poolRead", "poolRead", "check">>

\* acceptInvitation and the retrieveInvitationDetails it calls both require.
AcceptInvite ==
  <<"create", "check", "require", "require", "check", "poolRead", "poolRead",
    "check", "poolRead", "poolRead", "poolRead", "check", "poolWrite",
    "poolWrite", "check">>

GetInviteDetails == <<"create", "check", "require", "check", "poolRead", "poolRead", "check">>

ListWorkspaces == <<"create", "check", "require", "check">>

WorkspaceDetails == <<"create", "check", "require", "check">>

UpdateWorkspace == <<"create", "check", "require", "check", "trxWrite", "check">>

DeleteWorkspace == <<"create", "check", "require", "check", "trxWrite", "check">>

---------------------------------------------------------------------------
(* Spaces                                                                  *)

\* The transaction is required first and then not used: the space and its
\* first member are two autocommitted writes.
CreateSpace ==
  <<"create", "require", "check", "poolRead", "poolRead", "poolWrite",
    "poolWrite", "check">>

ListSpaces == <<"create", "check", "require", "poolRead", "poolRead", "check">>

SpaceDetails == <<"create", "check", "require", "poolRead", "check">>

UpdateSpace == <<"create", "check", "require", "poolRead", "poolWrite", "check">>

DeleteSpace == <<"create", "check", "require", "poolRead", "poolWrite", "check">>

\* The space, the user, the existing membership, then attach.
AddSpaceMember ==
  <<"create", "check", "require", "poolRead", "poolRead", "poolRead", "check",
    "poolWrite">>

RemoveSpaceMember ==
  <<"create", "check", "require", "poolRead", "poolRead", "poolRead", "check",
    "poolWrite">>

ListSpaceMembers == <<"create", "check", "require", "poolRead", "poolRead", "check">>

CheckSpaceMember ==
  <<"create", "check", "require", "poolRead", "poolRead", "poolRead", "check">>

---------------------------------------------------------------------------
(* Contacts and contact attributes: required first, then everything else   *)

\* Contact.create is given no client.
CreateContact == <<"create", "require", "check", "poolRead", "poolWrite">>

ListContacts == <<"create", "require", "check", "poolRead", "require", "check">>

ListContactsBasic == <<"create", "require", "check", "poolRead", "require", "check">>

ContactDetails == <<"create", "require", "check", "poolRead", "require", "check">>

UpdateContact ==
  <<"create", "require", "check", "poolRead", "require", "check", "trxWrite",
    "check">>

DeleteContact ==
  <<"create", "require", "check", "poolRead", "require", "check", "trxWrite",
    "check">>

\* The attribute and its options, an explicit commit, then a fresh read.
CreateContactAttribute ==
  <<"create", "require", "check", "poolRead", "require", "check", "trxWrite",
    "trxWrite", "commit", "poolRead", "check">>

ContactAttributeDetails ==
  <<"create", "require", "check", "poolRead", "require", "check">>

ListContactAttributes ==
  <<"create", "require", "check", "poolRead", "require", "check">>

\* The attribute, its old options, its new options.
UpdateContactAttribute ==
  <<"create", "require", "check", "poolRead", "require", "check", "trxWrite",
    "trxWrite", "trxWrite", "commit", "poolRead", "check">>

DeleteContactAttribute ==
  <<"create", "require", "check", "poolRead", "require", "check", "trxWrite",
    "trxWrite", "commit", "check">>

---------------------------------------------------------------------------
Handlers ==
  {Login, Logout, RegisterUser, SendPasswordResetEmail, ResetPassword,
   VerifyAccount, CreateWorkspace, SetActiveWorkspace,
   SendWorkspaceInviteEmail, AcceptInvite, GetInviteDetails, ListWorkspaces,
   WorkspaceDetails, UpdateWorkspace, DeleteWorkspace, CreateSpace,
   ListSpaces, SpaceDetails, UpdateSpace, DeleteSpace, AddSpaceMember,
   RemoveSpaceMember, ListSpaceMembers, CheckSpaceMember, CreateContact,
   ListContacts, ListContactsBasic, ContactDetails, UpdateContact,
   DeleteContact, CreateContactAttribute, ContactAttributeDetails,
   ListContactAttributes, UpdateContactAttribute, DeleteContactAttribute}
===========================================================================
