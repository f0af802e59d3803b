--------------------------- MODULE TenantTables ---------------------------
(***************************************************************************)
(* The tables of the tenancy (database/migrations), and the requests that  *)
(* work on them. A slot serves one request after another; a request is at  *)
(* one step of its handler, and its record holds what the handler read or  *)
(* staged so far. Rows are deleted softly: a deleted row is invisible to   *)
(* the retrieval strategies and still there for the unique indexes.        *)
(***************************************************************************)
EXTENDS Naturals, FiniteSets

CONSTANTS
  Users,        \* the users, each with an email address and a client
  Workspaces,   \* the workspaces there are to create
  Slugs,        \* the slugs there are to choose
  Spaces,       \* the spaces there are to create
  Tags,         \* the tags there are to choose
  Slots,        \* the requests the gateway serves at a time
  MaxRequests,  \* bound on the requests served
  MaxTokens     \* bound on the invitation tokens generated

ASSUME BoundsAssumption == MaxRequests \in Nat /\ MaxTokens \in Nat

None == "none"

ASSUME NoneAssumption ==
  None \notin Users \cup Workspaces \cup Slugs \cup Spaces \cup Tags

VARIABLES
  people,        \* the users that have a row
  workspaces,    \* workspaces[w]: the state and the slug of its row
  members,       \* the pairs of a workspace and a user in workspace_members
  default,       \* default[u]: the default workspace of u
  spaces,        \* spaces[s]: the state, the workspace and the tag of its row
  spaceMembers,  \* the pairs of a space and a user in space_members
  invites,       \* the invitations in the cache
  mails,         \* the invitations sent by email
  issued,        \* how many invitation tokens were generated
  active,        \* active[u]: the workspace in the session of u
  req,           \* req[r]: the request in slot r
  served         \* how many requests were taken

workspaceTables == <<workspaces, members, default>>
spaceTables == <<spaces, spaceMembers>>
inviteTables == <<invites, mails, issued>>

\* pc: the step; user: who asks; ws, slug, space, tag: what the request names
\* or has created; who: the user it is about; seen: the default workspace the
\* session's user had; mode, token: how it accepts and which invitation;
\* todo: the invitees left; gone: its workspace was deleted when it arrived.
Free == [pc |-> "free", user |-> None, ws |-> None, slug |-> None, space |-> None,
         tag |-> None, who |-> None, seen |-> None, mode |-> None, token |-> 0,
         todo |-> {}, gone |-> FALSE]

States == {"absent", "live", "deleted"}

Tokens == 1..MaxTokens

\* A handler's steps are named after it.
Steps ==
  {"free", "create.available", "create.insert", "create.owner", "create.default",
   "create.commit", "update.find", "update.save", "update.commit", "delete.find",
   "delete.save", "delete.commit", "active.find", "active.put", "invite.find",
   "invite.generate", "invite.dispatch", "accept.check", "accept.find", "accept.user",
   "accept.register", "accept.join", "accept.space", "accept.forget", "accept.login",
   "space.allow", "space.insert", "space.attach", "retag.find", "retag.save", "drop.find",
   "drop.save", "add.find", "add.check", "add.attach", "remove.find", "remove.check",
   "remove.detach"}

RequestState ==
  [pc : Steps, user : Users \cup {None}, ws : Workspaces \cup {None},
   slug : Slugs \cup {None}, space : Spaces \cup {None}, tag : Tags \cup {None},
   who : Users \cup {None}, seen : Workspaces \cup {None},
   mode : {None, "accept", "login", "register"}, token : 0..MaxTokens,
   todo : SUBSET Users, gone : BOOLEAN]

Invitation == [token : Tokens, ws : Workspaces, to : Users, sender : Users,
               space : Spaces \cup {None}]

TablesTypeOK ==
  /\ people \subseteq Users
  /\ workspaces \in [Workspaces -> [state : States, slug : Slugs \cup {None}]]
  /\ members \subseteq Workspaces \X Users
  /\ default \in [Users -> Workspaces \cup {None}]
  /\ spaces \in [Spaces -> [state : States, ws : Workspaces \cup {None},
                            tag : Tags \cup {None}]]
  /\ spaceMembers \subseteq Spaces \X Users
  /\ invites \subseteq Invitation
  /\ mails \subseteq Invitation
  /\ issued \in 0..MaxTokens
  /\ active \in [Users -> Workspaces \cup {None}]
  /\ req \in [Slots -> RequestState]
  /\ served \in 0..MaxRequests

TablesInit ==
  /\ people \in SUBSET Users \ {{}}
  /\ workspaces = [w \in Workspaces |-> [state |-> "absent", slug |-> None]]
  /\ members = {}
  /\ default = [u \in Users |-> None]
  /\ spaces = [s \in Spaces |-> [state |-> "absent", ws |-> None, tag |-> None]]
  /\ spaceMembers = {}
  /\ invites = {}
  /\ mails = {}
  /\ issued = 0
  /\ active = [u \in Users |-> None]
  /\ req = [r \in Slots |-> Free]
  /\ served = 0

---------------------------------------------------------------------------
At(r, step) == req[r].pc = step

Goto(r, step) == req' = [req EXCEPT ![r].pc = step] /\ UNCHANGED served

\* The request goes on to a step with more in its record.
GoOn(r, record) == req' = [req EXCEPT ![r] = record] /\ UNCHANGED served

Answer(r) == GoOn(r, Free)

\* A request arrives in slot r, from a user with a session.
Take(r, record) ==
  /\ At(r, "free")
  /\ served < MaxRequests
  /\ record.user \in people
  /\ req' = [req EXCEPT ![r] = record]
  /\ served' = served + 1

Live(w) == w \in Workspaces /\ workspaces[w].state = "live"

LiveSpace(s) == s \in Spaces /\ spaces[s].state = "live"

\* The workspaces a request may name: any that was created.
Known == {w \in Workspaces : workspaces[w].state # "absent"}

KnownSpaces == {s \in Spaces : spaces[s].state # "absent"}

Gone(w) == workspaces[w].state = "deleted"

\* The steps at which a request holds what its transaction wrote.
Staged == {"create.owner", "create.default", "create.commit", "update.commit",
           "delete.commit"}

\* A row that another transaction wrote is locked until that one ends.
Locked(r, w) == \E q \in Slots \ {r} : req[q].pc \in Staged /\ req[q].ws = w

\* Any step can fail; what the request staged is rolled back.
Fail(r) ==
  /\ req[r].pc # "free"
  /\ Answer(r)
  /\ UNCHANGED <<people, workspaceTables, spaceTables, inviteTables, active>>
===========================================================================
