---------------------------- MODULE TenancyProofs ----------------------------
(***************************************************************************)
(* Proofs about Tenancy, for any users, workspaces, slugs, spaces, tags,   *)
(* slots and bounds.                                                       *)
(*                                                                         *)
(* Sound says what a request holds at each of its steps: what it names was *)
(* created, an acceptance was invited, and a request about a workspace     *)
(* that was gone when it arrived is still before its retrieval. It stays   *)
(* true because the tables only widen. That a workspace is founded only    *)
(* once rests on its transactions: Exclusive (no two of them hold a row)   *)
(* and Unborn (what is being created is not there yet).                    *)
(***************************************************************************)
EXTENDS Tenancy, TLAPS

CreateStaged == {"create.owner", "create.default", "create.commit"}

Arrivals == {"update.find", "delete.find", "active.find", "invite.find",
             "accept.check", "accept.find", "space.allow"}

Accepting == {"accept.check", "accept.find", "accept.user", "accept.register",
              "accept.join", "accept.space", "accept.forget", "accept.login"}

Inviting == {"invite.find", "invite.generate", "invite.dispatch"}

OnWorkspace == {"update.find", "update.save", "update.commit", "delete.find",
                "delete.save", "delete.commit", "active.find", "active.put",
                "space.allow", "space.insert", "space.attach"} \cup Inviting \cup Accepting

OnSpace == {"space.attach", "retag.find", "retag.save", "drop.find", "drop.save",
            "add.find", "add.check", "add.attach", "remove.find", "remove.check",
            "remove.detach"} \cup (Accepting \ {"accept.check"})

OnMember == {"add.find", "add.check", "add.attach", "remove.find", "remove.check",
             "remove.detach", "invite.dispatch"} \cup Accepting

OnTag == {"space.allow", "space.insert", "space.attach", "retag.find", "retag.save"}

InvitedTo(w, u) == \E m \in mails : m.ws = w /\ m.to = u

Sound(q) ==
  /\ q \in RequestState
  /\ q.pc # "free" => q.user \in Users
  /\ q.pc \in {"create.available", "create.insert"} \cup CreateStaged => q.slug \in Slugs
  /\ q.pc \in CreateStaged => q.ws \in Workspaces
  /\ q.pc \in OnWorkspace => q.ws \in Known
  /\ q.pc \in OnSpace => q.space \in Spaces
  /\ q.pc \in OnMember => q.who \in Users
  /\ q.pc \in OnTag => q.tag \in Tags
  /\ q.pc = "invite.dispatch" => q.token \in Tokens
  /\ q.pc \in Accepting => InvitedTo(q.ws, q.who)
  /\ q.gone => q.pc \in Arrivals /\ q.ws \in Workspaces /\ Gone(q.ws)

Exclusive ==
  \A r, q \in Slots : r # q /\ req[r].pc \in Staged /\ req[q].pc \in Staged
                        => req[r].ws # req[q].ws

Unborn == \A r \in Slots : req[r].pc \in CreateStaged => workspaces[req[r].ws].state = "absent"

Referred ==
  /\ \A u \in Users : active[u] # None => active[u] \in Known
  /\ \A m \in mails : m.ws \in Known

IInv ==
  /\ TablesTypeOK
  /\ \A r \in Slots : Sound(req[r])
  /\ Exclusive /\ Unborn /\ Referred /\ DefaultIsOwn

\* What was founded, deleted or emailed stays so.
Widens ==
  /\ Known \subseteq Known'
  /\ \A w \in Workspaces : Gone(w) => Gone(w)'
  /\ mails \subseteq mails'

---------------------------------------------------------------------------
(* One request moves                                                       *)

\* A request that does not move stays sound while the tables widen.
LEMMA StaysSound ==
  ASSUME Widens, NEW q, Sound(q)
  PROVE  Sound(q)'
<1>1. q.ws \in Known => q.ws \in Known'
  BY DEF Widens
<1>2. InvitedTo(q.ws, q.who) => InvitedTo(q.ws, q.who)'
  BY DEF Widens, InvitedTo
<1>3. q.ws \in Workspaces /\ Gone(q.ws) => Gone(q.ws)'
  BY DEF Widens
<1> QED
  BY <1>1, <1>2, <1>3 DEF Sound

Requested ==
  /\ req \in [Slots -> RequestState]
  /\ \A r \in Slots : Sound(req[r])
  /\ Exclusive /\ Unborn

\* When the request in slot r becomes q, which is sound and holds no row that
\* another request holds, all requests stay as they should be.
LEMMA RequestMoves ==
  ASSUME IInv, Widens, NEW r \in Slots, NEW q, Sound(q)', req' = [req EXCEPT ![r] = q],
         q.pc \in Staged =>
           ~Locked(r, q.ws) \/ (req[r].pc \in Staged /\ req[r].ws = q.ws),
         \A w \in Workspaces :
           workspaces'[w] # workspaces[w] => req[r].pc \in Staged /\ w = req[r].ws,
         q.pc \in CreateStaged => workspaces'[q.ws].state = "absent"
  PROVE  Requested'
<1>a. /\ req \in [Slots -> RequestState] /\ q \in RequestState
      /\ \A s \in Slots : Sound(req[s])
      /\ Exclusive /\ Unborn
  BY DEF IInv, TablesTypeOK, Sound
<1>b. req'[r] = q /\ \A s \in Slots : s # r => req'[s] = req[s]
  BY <1>a
<1>1. (req \in [Slots -> RequestState])'
  BY <1>a
<1>2. ASSUME NEW s \in Slots PROVE Sound(req[s])'
  <2>1. CASE s = r
    BY <1>b, <2>1 DEF Sound
  <2>2. CASE s # r
    <3>1. PICK o : o = req[s]
      OBVIOUS
    <3>2. Sound(o)
      BY <1>a, <3>1
    <3>3. Sound(o)'
      BY <3>2, StaysSound
    <3> QED
      BY <1>b, <2>2, <3>1, <3>3 DEF Sound
  <2> QED
    BY <2>1, <2>2
<1>3. Exclusive'
  <2>1. ASSUME NEW s \in Slots, s # r, req[s].pc \in Staged, q.pc \in Staged
        PROVE  req[s].ws # q.ws
    BY <1>a, <2>1 DEF Exclusive, Locked
  <2> QED
    BY <1>a, <1>b, <2>1 DEF Exclusive
<1>4. Unborn'
  <2>1. ASSUME NEW s \in Slots, s # r, req[s].pc \in CreateStaged
        PROVE  workspaces'[req[s].ws].state = "absent"
    <3>1. req[s].pc \in Staged /\ req[s].ws \in Workspaces
      BY <1>a, <2>1 DEF CreateStaged, Staged, Sound
    <3>2. ~(req[r].pc \in Staged /\ req[s].ws = req[r].ws)
      BY <1>a, <2>1, <3>1 DEF Exclusive
    <3> QED
      BY <1>a, <2>1, <3>1, <3>2 DEF Unborn
  <2> QED
    BY <1>b, <2>1 DEF Unborn
<1> QED
  BY <1>1, <1>2, <1>3, <1>4 DEF Requested

\* A step that leaves the tables alone, but for the request it moves.
Quiet ==
  UNCHANGED <<people, workspaceTables, spaceTables, inviteTables, active>>

\* Such a step, to a sound request that takes no new row, keeps everything.
LEMMA QuietKeeps ==
  ASSUME IInv, Quiet, served' \in 0..MaxRequests, NEW r \in Slots, NEW q,
         Sound(q), req' = [req EXCEPT ![r] = q],
         q.pc \in Staged =>
           ~Locked(r, q.ws) \/ (req[r].pc \in Staged /\ req[r].ws = q.ws),
         q.pc \in CreateStaged => workspaces[q.ws].state = "absent"
  PROVE  IInv'
<1>1. Widens
  BY DEF Quiet, workspaceTables, inviteTables, Widens, Known, Gone
<1>2. Sound(q)'
  BY <1>1, StaysSound
<1>3. Requested'
  BY <1>1, <1>2, RequestMoves DEF Quiet, workspaceTables
<1>4. TablesTypeOK' /\ Referred' /\ DefaultIsOwn'
  BY <1>3 DEF IInv, TablesTypeOK, Referred, DefaultIsOwn, Requested, Quiet, workspaceTables,
              spaceTables, inviteTables, Known
<1> QED
  BY <1>3, <1>4 DEF IInv, Requested

\* A free slot holds nothing.
LEMMA FreeSound == Sound(Free) /\ Free.pc = "free"
<1>1. Free \in RequestState
  BY BoundsAssumption DEF Free, RequestState, Steps
<1> QED
  BY <1>1 DEF Sound, Free, CreateStaged, OnWorkspace, OnSpace, OnMember, OnTag, Inviting,
              Accepting

\* A request that is answered, with nothing else changed.
LEMMA AnswerKeeps ==
  ASSUME IInv, Quiet, NEW r \in Slots, Answer(r)
  PROVE  IInv'
<1>1. PICK q : q = Free
  OBVIOUS
<1>2. Sound(q) /\ q.pc = "free"
  BY <1>1, FreeSound
<1>3. req' = [req EXCEPT ![r] = q] /\ served' \in 0..MaxRequests
  BY <1>1 DEF Answer, GoOn, IInv, TablesTypeOK
<1> QED
  BY <1>2, <1>3, QuietKeeps DEF Staged, CreateStaged

\* A request that arrives.
LEMMA TakeKeeps ==
  ASSUME IInv, Quiet, NEW r \in Slots, NEW q, Sound(q), q.pc \notin Staged, Take(r, q)
  PROVE  IInv'
<1>1. served' \in 0..MaxRequests /\ req' = [req EXCEPT ![r] = q]
  BY BoundsAssumption DEF Take, IInv, TablesTypeOK
<1>2. q.pc \notin CreateStaged
  BY DEF Staged, CreateStaged
<1> QED
  BY <1>1, <1>2, QuietKeeps

\* A request that goes on to a step that needs no more than the one it is at.
LEMMA GotoKeeps ==
  ASSUME IInv, Quiet, NEW r \in Slots, NEW step \in Steps \ {"free"}, Goto(r, step),
         NEW from \in Steps \ {"free"}, At(r, from),
         step \in {"create.available", "create.insert"} \cup CreateStaged
           => from \in {"create.available", "create.insert"} \cup CreateStaged,
         step \in CreateStaged => from \in CreateStaged,
         step \in OnWorkspace => from \in OnWorkspace,
         step \in OnSpace => from \in OnSpace,
         step \in OnMember => from \in OnMember,
         step \in OnTag => from \in OnTag,
         step \in Accepting => from \in Accepting,
         step # "invite.dispatch",
         req[r].gone => step \in Arrivals,
         step \in Staged => from \in Staged \/ ~Locked(r, req[r].ws)
  PROVE  IInv'
<1>1. PICK o : o = req[r]
  OBVIOUS
<1>2. Sound(o) /\ o \in RequestState /\ o.pc = from
  BY <1>1 DEF IInv, TablesTypeOK, At
<1>3. PICK q : q = [o EXCEPT !.pc = step]
  OBVIOUS
<1>4. /\ q \in RequestState /\ q.pc = step /\ q.user = o.user /\ q.ws = o.ws
      /\ q.slug = o.slug /\ q.space = o.space /\ q.tag = o.tag /\ q.who = o.who
      /\ q.token = o.token /\ q.gone = o.gone
  BY <1>2, <1>3 DEF RequestState
<1>5. Sound(q)
  BY <1>1, <1>2, <1>4 DEF Sound
<1>6. req' = [req EXCEPT ![r] = q] /\ served' \in 0..MaxRequests
  BY <1>1, <1>3 DEF Goto, IInv, TablesTypeOK
<1>7. q.pc \in CreateStaged => workspaces[q.ws].state = "absent"
  BY <1>1, <1>2, <1>4 DEF IInv, Unborn
<1> QED
  BY <1>1, <1>2, <1>4, <1>5, <1>6, <1>7, QuietKeeps

---------------------------------------------------------------------------
(* Workspaces                                                              *)

\* The requests about workspaces arrive with what their steps need.
LEMMA WorkspaceArrives ==
  ASSUME IInv, NEW r \in Slots,
         \/ CreateWorkspace(r) \/ UpdateWorkspace(r) \/ DeleteWorkspace(r)
         \/ SetActiveWorkspace(r)
  PROVE  IInv'
<1> USE DEF CreateStaged, Arrivals, Accepting, Inviting, OnWorkspace, OnSpace, OnMember, OnTag
<1>a. Quiet
  BY DEF CreateWorkspace, UpdateWorkspace, DeleteWorkspace, SetActiveWorkspace, others,
         Quiet, workspaceTables, spaceTables, inviteTables
<1>b. people \subseteq Users /\ default \in [Users -> Workspaces \cup {None}]
  BY DEF IInv, TablesTypeOK
<1>z. 0 \in 0..MaxTokens
  BY BoundsAssumption
<1>1. CASE CreateWorkspace(r)
  <2>1. PICK u, slug, q :
          /\ u \in people /\ slug \in Slugs
          /\ q = [Free EXCEPT !.pc = "create.available", !.user = u, !.slug = slug,
                             !.seen = default[u]]
          /\ Take(r, q)
    BY <1>1 DEF CreateWorkspace
  <2>0. q = [pc |-> "create.available", user |-> u, ws |-> None, slug |-> slug,
             space |-> None, tag |-> None, who |-> None, seen |-> default[u], mode |-> None,
             token |-> 0, todo |-> {}, gone |-> FALSE]
    BY <2>1 DEF Free
  <2>a. "create.available" \in Steps /\ u \in Users /\ default[u] \in Workspaces \cup {None}
        /\ slug \in Slugs
    BY <1>b, <2>1 DEF Steps
  <2>2. /\ q \in RequestState /\ q.pc = "create.available" /\ q.user = u /\ q.slug = slug
        /\ q.gone = FALSE
    BY <1>z, <2>0, <2>a DEF RequestState
  <2>3. Sound(q) /\ q.pc \notin Staged
    BY <1>b, <2>a, <2>2 DEF Sound, Staged
  <2> QED
    BY <1>a, <2>1, <2>3, TakeKeeps
<1>2. CASE UpdateWorkspace(r) \/ DeleteWorkspace(r) \/ SetActiveWorkspace(r)
  <2>1. PICK u, w, step, q :
          /\ u \in people
          /\ w \in Known
          /\ step \in {"update.find", "delete.find", "active.find"}
          /\ q = [Free EXCEPT !.pc = step, !.user = u, !.ws = w, !.gone = Gone(w)]
          /\ Take(r, q)
    BY <1>2 DEF UpdateWorkspace, DeleteWorkspace, SetActiveWorkspace
  <2>2. w \in Workspaces /\ u \in Users /\ step \in Steps
    BY <1>b, <2>1 DEF Known, Steps
  <2>a. PICK g \in BOOLEAN : g <=> Gone(w)
    OBVIOUS
  <2>b. Gone(w) \in BOOLEAN
    BY DEF Gone
  <2>0. q = [pc |-> step, user |-> u, ws |-> w, slug |-> None, space |-> None, tag |-> None,
             who |-> None, seen |-> None, mode |-> None, token |-> 0, todo |-> {}, gone |-> g]
    BY <2>1, <2>a, <2>b DEF Free
  <2>3. q \in RequestState /\ q.pc = step /\ q.user = u /\ q.ws = w /\ q.gone = g
    BY <1>z, <2>0, <2>2 DEF RequestState
  <2>4. Sound(q) /\ q.pc \notin Staged
    BY <2>1, <2>2, <2>3, <2>a DEF Sound, Staged
  <2> QED
    BY <1>a, <2>1, <2>4, TakeKeeps
<1> QED
  BY <1>1, <1>2

\* A request that is past the retrieval of its workspace was not late, and one
\* that finds it is not either.
LEMMA NotGone ==
  ASSUME IInv, NEW r \in Slots, req[r].pc \notin Arrivals \/ Live(req[r].ws)
  PROVE  ~req[r].gone
BY DEF IInv, Sound, Live, Gone

\* The steps of the workspace's handlers that write nothing.
LEMMA WorkspaceGoesOn ==
  ASSUME IInv, NEW r \in Slots,
         \/ CheckAvailability(r) \/ AddOwner(r) \/ SetDefaultWorkspace(r)
         \/ FindWorkspace(r) \/ SaveWorkspace(r) \/ FindActive(r)
  PROVE  IInv'
<1> USE DEF CreateStaged, Arrivals, Accepting, Inviting, OnWorkspace, OnSpace, OnMember, OnTag
<1>a. Quiet
  BY DEF CheckAvailability, AddOwner, SetDefaultWorkspace, FindWorkspace, SaveWorkspace,
         FindActive, others, Quiet, workspaceTables, spaceTables, inviteTables
<1>1. CASE CheckAvailability(r) \/ AddOwner(r) \/ SetDefaultWorkspace(r)
  <2>1. PICK from \in {"create.available", "create.owner", "create.default"},
             step \in {"create.insert", "create.default", "create.commit"} :
          /\ At(r, from) /\ Goto(r, step)
          /\ from = "create.available" => step = "create.insert"
    BY <1>1 DEF CheckAvailability, AddOwner, SetDefaultWorkspace
  <2>2. ~req[r].gone
    BY <2>1, NotGone DEF At
  <2>3. step \in CreateStaged => from \in CreateStaged
    BY <1>1, <2>1 DEF CheckAvailability, AddOwner, SetDefaultWorkspace, At
  <2> QED
    BY <1>a, <2>1, <2>2, <2>3, GotoKeeps DEF Steps, Staged
<1>2. CASE FindWorkspace(r)
  <2>1. PICK from \in {"update.find", "delete.find"}, step \in {"update.save", "delete.save"} :
          At(r, from) /\ Goto(r, step)
    BY <1>2 DEF FindWorkspace
  <2>2. ~req[r].gone
    BY <1>2, NotGone DEF FindWorkspace
  <2> QED
    BY <1>a, <2>1, <2>2, GotoKeeps DEF Steps, Staged
<1>3. CASE SaveWorkspace(r)
  <2>1. PICK from \in {"update.save", "delete.save"}, step \in {"update.commit", "delete.commit"} :
          At(r, from) /\ Goto(r, step)
    BY <1>3 DEF SaveWorkspace
  <2>2. ~req[r].gone /\ ~Locked(r, req[r].ws)
    BY <1>3, <2>1, NotGone DEF SaveWorkspace, At
  <2> QED
    BY <1>a, <2>1, <2>2, GotoKeeps DEF Steps, Staged
<1>4. CASE FindActive(r)
  <2>1. At(r, "active.find") /\ Goto(r, "active.put") /\ ~req[r].gone
    BY <1>4, NotGone DEF FindActive
  <2> QED
    BY <1>a, <2>1, GotoKeeps DEF Steps, Staged
<1> QED
  BY <1>1, <1>2, <1>3, <1>4

\* The steps that end a request and change nothing else.
LEMMA EndsQuietly ==
  ASSUME IInv, NEW r \in Slots, CommitUpdate(r) \/ ForgetInvite(r) \/ Fail(r)
  PROVE  IInv'
<1>1. Quiet /\ Answer(r)
  BY DEF CommitUpdate, ForgetInvite, Fail, others, besides, Quiet, workspaceTables, spaceTables,
         inviteTables
<1> QED
  BY <1>1, AnswerKeeps

\* The insertion takes a row that no other transaction holds.
LEMMA InsertWorkspaceKeeps ==
  ASSUME IInv, NEW r \in Slots, InsertWorkspace(r)
  PROVE  IInv'
<1> USE DEF CreateStaged, Arrivals, Accepting, Inviting, OnWorkspace, OnSpace, OnMember, OnTag
<1>a. Quiet /\ served' \in 0..MaxRequests
  BY DEF InsertWorkspace, GoOn, others, Quiet, workspaceTables, spaceTables, inviteTables, IInv,
         TablesTypeOK
<1>1. PICK o : o = req[r]
  OBVIOUS
<1>2. Sound(o) /\ o \in RequestState /\ o.pc = "create.insert" /\ ~o.gone
  BY <1>1, NotGone DEF IInv, TablesTypeOK, InsertWorkspace, At
<1>3. PICK w, q :
        /\ w \in Workspaces
        /\ workspaces[w].state = "absent" /\ ~Locked(r, w)
        /\ q = [o EXCEPT !.pc = "create.owner", !.ws = w] /\ req' = [req EXCEPT ![r] = q]
  BY <1>1 DEF InsertWorkspace, GoOn
<1>4. /\ q \in RequestState /\ q.pc = "create.owner" /\ q.ws = w /\ q.user = o.user
      /\ q.slug = o.slug /\ q.gone = o.gone
  BY <1>2, <1>3 DEF RequestState, Steps
<1>5. Sound(q)
  BY <1>2, <1>3, <1>4 DEF Sound
<1> QED
  BY <1>a, <1>3, <1>4, <1>5, QuietKeeps

\* The end of a creation: the workspace, its owner and the default appear.
LEMMA CommitCreationKeeps ==
  ASSUME IInv, NEW r \in Slots, CommitCreation(r)
  PROVE  IInv'
<1> USE DEF CreateStaged, Arrivals, Accepting, Inviting, OnWorkspace, OnSpace, OnMember, OnTag
<1>1. PICK o : o = req[r]
  OBVIOUS
<1>2. /\ Sound(o) /\ o \in RequestState /\ o.pc = "create.commit"
      /\ o.ws \in Workspaces /\ o.user \in Users /\ o.slug \in Slugs
  BY <1>1 DEF IInv, TablesTypeOK, CommitCreation, At, Sound
<1>3. workspaces[o.ws].state = "absent"
  BY <1>1, <1>2 DEF IInv, Unborn
<1>4. /\ workspaces' = [workspaces EXCEPT ![o.ws] = [state |-> "live", slug |-> o.slug]]
      /\ members' = members \cup {<<o.ws, o.user>>}
      /\ default' = IF o.seen = None THEN [default EXCEPT ![o.user] = o.ws] ELSE default
      /\ Answer(r) /\ UNCHANGED others
  BY <1>1 DEF CommitCreation
<1>5. /\ workspaces' \in [Workspaces -> [state : States, slug : Slugs \cup {None}]]
      /\ \A w \in Workspaces \ {o.ws} : workspaces'[w] = workspaces[w]
      /\ workspaces'[o.ws].state = "live"
  BY <1>2, <1>4 DEF IInv, TablesTypeOK, States
<1>6. Known' = Known \cup {o.ws}
  BY <1>2, <1>5 DEF Known
<1>7. Widens
  BY <1>3, <1>4, <1>5, <1>6 DEF Widens, Gone, others, inviteTables
<1>8. PICK q : q = Free
  OBVIOUS
<1>9. Sound(q) /\ q.pc = "free" /\ req' = [req EXCEPT ![r] = q]
  BY <1>4, <1>8, FreeSound DEF Answer, GoOn
<1>10. Requested'
  <2>1. Sound(q)'
    BY <1>7, <1>9, StaysSound
  <2>2. \A w \in Workspaces : workspaces'[w] # workspaces[w]
                              => req[r].pc \in Staged /\ w = req[r].ws
    BY <1>1, <1>2, <1>5 DEF Staged
  <2> QED
    BY <1>7, <1>9, <2>1, <2>2, RequestMoves DEF Staged
<1>11. TablesTypeOK'
  BY <1>2, <1>4, <1>5, <1>10
  DEF IInv, TablesTypeOK, Requested, others, spaceTables, inviteTables, Answer, GoOn
<1>12. Referred'
  BY <1>4, <1>6 DEF IInv, Referred, others, inviteTables
<1>13. DefaultIsOwn'
  <2> SUFFICES ASSUME NEW u \in Users, default'[u] # None
               PROVE  /\ default'[u] \in Known'
                      /\ \/ <<default'[u], u>> \in members'
                         \/ \E m \in mails' : m.ws = default'[u] /\ m.to = u
    BY DEF DefaultIsOwn
  <2>1. CASE default'[u] = default[u]
    BY <1>4, <1>6, <2>1 DEF IInv, DefaultIsOwn, others, inviteTables
  <2>2. CASE default'[u] # default[u]
    BY <1>2, <1>4, <1>6, <2>2 DEF IInv, TablesTypeOK
  <2> QED
    BY <2>1, <2>2
<1> QED
  BY <1>10, <1>11, <1>12, <1>13 DEF IInv, Requested

\* The end of a deletion.
LEMMA CommitDeletionKeeps ==
  ASSUME IInv, NEW r \in Slots, CommitDeletion(r)
  PROVE  IInv'
<1> USE DEF CreateStaged, Arrivals, Accepting, Inviting, OnWorkspace, OnSpace, OnMember, OnTag
<1>1. PICK o : o = req[r]
  OBVIOUS
<1>2. Sound(o) /\ o \in RequestState /\ o.pc = "delete.commit" /\ o.ws \in Known
  BY <1>1 DEF IInv, TablesTypeOK, CommitDeletion, At, Sound
<1>3. /\ workspaces' = [workspaces EXCEPT ![o.ws].state = "deleted"]
      /\ Answer(r) /\ UNCHANGED <<members, default, others>>
  BY <1>1 DEF CommitDeletion
<1>4. /\ workspaces' \in [Workspaces -> [state : States, slug : Slugs \cup {None}]]
      /\ \A w \in Workspaces \ {o.ws} : workspaces'[w] = workspaces[w]
      /\ workspaces'[o.ws].state = "deleted"
  BY <1>2, <1>3 DEF IInv, TablesTypeOK, States, Known
<1>5. Known' = Known
  BY <1>2, <1>4 DEF Known
<1>6. Widens
  BY <1>3, <1>4, <1>5 DEF Widens, Gone, others, inviteTables
<1>7. PICK q : q = Free
  OBVIOUS
<1>8. Sound(q) /\ q.pc = "free" /\ req' = [req EXCEPT ![r] = q]
  BY <1>3, <1>7, FreeSound DEF Answer, GoOn
<1>9. Requested'
  <2>1. Sound(q)'
    BY <1>6, <1>8, StaysSound
  <2>2. \A w \in Workspaces : workspaces'[w] # workspaces[w]
                              => req[r].pc \in Staged /\ w = req[r].ws
    BY <1>1, <1>2, <1>4 DEF Staged
  <2> QED
    BY <1>6, <1>8, <2>1, <2>2, RequestMoves DEF Staged
<1>10. TablesTypeOK'
  BY <1>3, <1>4, <1>9
  DEF IInv, TablesTypeOK, Requested, others, spaceTables, inviteTables, Answer, GoOn
<1>11. Referred' /\ DefaultIsOwn'
  BY <1>3, <1>5 DEF IInv, Referred, DefaultIsOwn, others, inviteTables
<1> QED
  BY <1>9, <1>10, <1>11 DEF IInv, Requested

\* A request ends while the workspaces stay as they are and what refers to
\* them, or to the users, may grow.
LEMMA EndKeeps ==
  ASSUME IInv, UNCHANGED workspaces, mails \subseteq mails', NEW r \in Slots, Answer(r),
         TablesTypeOK /\ Requested' => TablesTypeOK', Referred', DefaultIsOwn'
  PROVE  IInv'
<1>1. Widens
  BY DEF Widens, Known, Gone
<1>2. PICK q : q = Free
  OBVIOUS
<1>3. Sound(q) /\ q.pc = "free" /\ req' = [req EXCEPT ![r] = q]
  BY <1>2, FreeSound DEF Answer, GoOn
<1>4. Sound(q)'
  BY <1>1, <1>3, StaysSound
<1>5. Requested'
  BY <1>1, <1>3, <1>4, RequestMoves DEF Staged, CreateStaged
<1> QED
  BY <1>5 DEF IInv, Requested

\* The session's workspace.
LEMMA PutActiveKeeps ==
  ASSUME IInv, NEW r \in Slots, PutActive(r)
  PROVE  IInv'
<1>1. PICK o : o = req[r]
  OBVIOUS
<1>2. Sound(o) /\ o.pc = "active.put" /\ o.ws \in Known /\ o.user \in Users
  BY <1>1 DEF IInv, PutActive, At, Sound, OnWorkspace
<1>3. /\ active' = [active EXCEPT ![o.user] = o.ws] /\ Answer(r)
      /\ UNCHANGED <<workspaceTables, people, spaceTables, inviteTables>>
  BY <1>1 DEF PutActive
<1>4. o.ws \in Workspaces /\ Known' = Known /\ active' \in [Users -> Workspaces \cup {None}]
  BY <1>2, <1>3 DEF Known, workspaceTables, IInv, TablesTypeOK
<1>5. Referred' /\ DefaultIsOwn'
  BY <1>2, <1>3, <1>4
  DEF IInv, Referred, DefaultIsOwn, TablesTypeOK, workspaceTables, inviteTables
<1>6. TablesTypeOK /\ Requested' => TablesTypeOK'
  BY <1>3, <1>4
  DEF TablesTypeOK, Requested, workspaceTables, spaceTables, inviteTables, Answer, GoOn
<1> QED
  BY <1>3, <1>5, <1>6, EndKeeps DEF workspaceTables, inviteTables

---------------------------------------------------------------------------
(* Invitations                                                             *)

\* A request goes on while the workspaces stay as they are and what refers to
\* them, or to the users, may grow.
LEMMA MoveKeeps ==
  ASSUME IInv, UNCHANGED workspaces, mails \subseteq mails', NEW r \in Slots, NEW q,
         Sound(q), q.pc \notin Staged, req' = [req EXCEPT ![r] = q],
         TablesTypeOK /\ Requested' => TablesTypeOK', Referred', DefaultIsOwn'
  PROVE  IInv'
<1>1. Widens
  BY DEF Widens, Known, Gone
<1>2. Sound(q)'
  BY <1>1, StaysSound
<1>3. q.pc \notin CreateStaged
  BY DEF Staged, CreateStaged
<1>4. Requested'
  BY <1>1, <1>2, <1>3, RequestMoves
<1> QED
  BY <1>4 DEF IInv, Requested

\* The request that sends invitations names a workspace that was created.
LEMMA SendInvitesKeeps ==
  ASSUME IInv, NEW r \in Slots, SendInvites(r)
  PROVE  IInv'
<1> USE DEF CreateStaged, Arrivals, Accepting, Inviting, OnWorkspace, OnSpace, OnMember, OnTag
<1>a. Quiet
  BY DEF SendInvites, besides, Quiet, workspaceTables, spaceTables, inviteTables
<1>b. people \subseteq Users /\ 0 \in 0..MaxTokens
  BY BoundsAssumption DEF IInv, TablesTypeOK
<1>1. PICK u \in people, todo \in SUBSET Users, s \in KnownSpaces \cup {None} :
        \E w \in Named(u) : Take(r, [Free EXCEPT !.pc = "invite.find", !.user = u, !.ws = w,
                                   !.space = s, !.todo = todo, !.gone = Gone(w)])
  BY DEF SendInvites
<1>c. PICK w, q :
        /\ w \in Named(u)
        /\ q = [Free EXCEPT !.pc = "invite.find", !.user = u, !.ws = w, !.space = s,
                           !.todo = todo, !.gone = Gone(w)]
        /\ Take(r, q)
  BY <1>1
<1>2. /\ w \in Known /\ w \in Workspaces /\ u \in Users /\ s \in Spaces \cup {None}
      /\ "invite.find" \in Steps
  BY <1>b, <1>1, <1>c, NoneAssumption DEF Named, IInv, Referred, Known, KnownSpaces, Steps
<1>3. PICK g \in BOOLEAN : g <=> Gone(w)
  OBVIOUS
<1>4. Gone(w) \in BOOLEAN
  BY DEF Gone
<1>5. q = [pc |-> "invite.find", user |-> u, ws |-> w, slug |-> None, space |-> s,
           tag |-> None, who |-> None, seen |-> None, mode |-> None, token |-> 0,
           todo |-> todo, gone |-> g]
  BY <1>c, <1>3, <1>4 DEF Free
<1>6. q \in RequestState /\ q.pc = "invite.find" /\ q.user = u /\ q.ws = w /\ q.gone = g
  BY <1>b, <1>2, <1>5 DEF RequestState
<1>7. Sound(q) /\ q.pc \notin Staged
  BY <1>2, <1>3, <1>6 DEF Sound, Staged
<1> QED
  BY <1>a, <1>c, <1>7, TakeKeeps

\* The request that accepts names a workspace that was invited to.
LEMMA AcceptInviteKeeps ==
  ASSUME IInv, NEW r \in Slots, AcceptInvite(r)
  PROVE  IInv'
<1> USE DEF CreateStaged, Arrivals, Accepting, Inviting, OnWorkspace, OnSpace, OnMember, OnTag
<1>a. Quiet
  BY DEF AcceptInvite, besides, Quiet, workspaceTables, spaceTables, inviteTables
<1>b. people \subseteq Users /\ mails \subseteq Invitation
  BY DEF IInv, TablesTypeOK
<1>1. PICK u, m, mode, q :
        /\ u \in people /\ m \in mails /\ mode \in Modes
        /\ q = [Free EXCEPT !.pc = "accept.check", !.user = u, !.ws = m.ws, !.who = m.to,
                           !.mode = mode, !.token = m.token, !.gone = Gone(m.ws)]
        /\ Take(r, q)
  BY DEF AcceptInvite
<1>2. /\ m.ws \in Known /\ m.ws \in Workspaces /\ m.to \in Users /\ m.token \in 0..MaxTokens
      /\ u \in Users /\ "accept.check" \in Steps
  BY <1>b, <1>1, BoundsAssumption DEF IInv, Referred, Known, Steps, Invitation, Tokens
<1>3. PICK g \in BOOLEAN : g <=> Gone(m.ws)
  OBVIOUS
<1>4. Gone(m.ws) \in BOOLEAN
  BY DEF Gone
<1>c. mode \in {None, "accept", "login", "register"}
  BY <1>1, ModesAssumption
<1>5. q = [pc |-> "accept.check", user |-> u, ws |-> m.ws, slug |-> None, space |-> None,
           tag |-> None, who |-> m.to, seen |-> None, mode |-> mode, token |-> m.token,
           todo |-> {}, gone |-> g]
  BY <1>1, <1>3, <1>4 DEF Free
<1>6. /\ q \in RequestState /\ q.pc = "accept.check" /\ q.user = u /\ q.ws = m.ws
      /\ q.who = m.to /\ q.gone = g
  BY <1>c, <1>2, <1>5 DEF RequestState
<1>7. InvitedTo(q.ws, q.who)
  BY <1>1, <1>6 DEF InvitedTo
<1>8. Sound(q) /\ q.pc \notin Staged
  BY <1>2, <1>3, <1>6, <1>7 DEF Sound, Staged
<1> QED
  BY <1>a, <1>1, <1>8, TakeKeeps

\* The steps of an invitation that change only the request.
LEMMA InviteGoesOn ==
  ASSUME IInv, NEW r \in Slots, FindInviter(r) \/ FindInvitation(r) \/ FindInvitee(r)
  PROVE  IInv'
<1> USE DEF CreateStaged, Arrivals, Accepting, Inviting, OnWorkspace, OnSpace, OnMember, OnTag
<1>a. Quiet
  BY DEF FindInviter, FindInvitation, FindInvitee, besides, Quiet, workspaceTables, spaceTables,
         inviteTables
<1>1. CASE FindInviter(r)
  <2>1. At(r, "invite.find") /\ Goto(r, "invite.generate") /\ ~req[r].gone
    BY <1>1, NotGone DEF FindInviter
  <2> QED
    BY <1>a, <2>1, GotoKeeps DEF Steps, Staged
<1>2. CASE FindInvitation(r)
  <2>1. At(r, "accept.find") /\ Goto(r, "accept.user") /\ ~req[r].gone
    BY <1>2, NotGone DEF FindInvitation
  <2> QED
    BY <1>a, <2>1, GotoKeeps DEF Steps, Staged
<1>3. CASE FindInvitee(r)
  <2>1. PICK step \in {"accept.join", "accept.register"} : At(r, "accept.user") /\ Goto(r, step)
    BY <1>3 DEF FindInvitee
  <2>2. ~req[r].gone
    BY <2>1, NotGone DEF At
  <2> QED
    BY <1>a, <2>1, <2>2, GotoKeeps DEF Steps, Staged
<1> QED
  BY <1>1, <1>2, <1>3

\* The check finds a cached invitation to a space.
LEMMA CheckInviteKeeps ==
  ASSUME IInv, NEW r \in Slots, CheckInvite(r)
  PROVE  IInv'
<1> USE DEF CreateStaged, Arrivals, Accepting, Inviting, OnWorkspace, OnSpace, OnMember, OnTag
<1>a. Quiet /\ served' \in 0..MaxRequests
  BY DEF CheckInvite, GoOn, besides, Quiet, workspaceTables, spaceTables, inviteTables, IInv,
         TablesTypeOK
<1>1. PICK o : o = req[r]
  OBVIOUS
<1>2. Sound(o) /\ o \in RequestState /\ o.pc = "accept.check"
  BY <1>1 DEF IInv, TablesTypeOK, CheckInvite, At
<1>3. PICK i, q :
        /\ i \in invites
        /\ i.space # None /\ q = [o EXCEPT !.pc = "accept.find", !.space = i.space]
        /\ req' = [req EXCEPT ![r] = q]
  BY <1>1 DEF CheckInvite, Cached, GoOn
<1>4. i.space \in Spaces
  BY <1>3 DEF IInv, TablesTypeOK, Invitation
<1>5. /\ q \in RequestState /\ q.pc = "accept.find" /\ q.ws = o.ws /\ q.user = o.user
      /\ q.space \in Spaces /\ q.who = o.who /\ q.gone = o.gone
  BY <1>2, <1>3, <1>4 DEF RequestState, Steps
<1>6. Sound(q)
  BY <1>2, <1>5 DEF Sound
<1> QED
  BY <1>a, <1>3, <1>5, <1>6, QuietKeeps DEF Staged

\* An invitation is generated for one of the invitees left.
LEMMA GenerateInviteKeeps ==
  ASSUME IInv, NEW r \in Slots, GenerateInvite(r)
  PROVE  IInv'
<1> USE DEF CreateStaged, Arrivals, Accepting, Inviting, OnWorkspace, OnSpace, OnMember, OnTag
<1>1. PICK o : o = req[r]
  OBVIOUS
<1>2. /\ Sound(o) /\ o \in RequestState /\ o.pc = "invite.generate" /\ ~o.gone
      /\ o.user \in Users /\ o.ws \in Known /\ o.ws \in Workspaces
  BY <1>1, NotGone DEF IInv, TablesTypeOK, GenerateInvite, At, Sound, Known
<1>3. issued' = issued + 1 /\ issued' \in Tokens
  BY BoundsAssumption DEF GenerateInvite, IInv, TablesTypeOK, Tokens
<1>4. PICK u, i, q :
        /\ u \in o.todo
        /\ i = [token |-> issued', ws |-> o.ws, to |-> u, sender |-> o.user, space |-> o.space]
        /\ invites' = (invites \ Cached(o.ws, u)) \cup {i}
        /\ q = [o EXCEPT !.pc = "invite.dispatch", !.who = u, !.token = issued']
        /\ req' = [req EXCEPT ![r] = q] /\ UNCHANGED served
  BY <1>1 DEF GenerateInvite, GoOn
<1>a. PICK t : t = issued'
  OBVIOUS
<1>5. u \in Users /\ t \in Tokens /\ t \in 0..MaxTokens
  BY <1>a, <1>2, <1>3, <1>4, BoundsAssumption DEF RequestState, Tokens
<1>6. i \in Invitation
  BY <1>a, <1>2, <1>4, <1>5 DEF Invitation, RequestState
<1>7. /\ q \in RequestState /\ q.pc = "invite.dispatch" /\ q.ws = o.ws /\ q.user = o.user
      /\ q.who = u /\ q.token = t /\ q.gone = o.gone
  BY <1>a, <1>2, <1>4, <1>5 DEF RequestState, Steps
<1>8. Sound(q) /\ q.pc \notin Staged
  BY <1>2, <1>5, <1>7 DEF Sound, Staged
<1>9. UNCHANGED <<people, members, default, spaceMembers, mails, besides>>
  BY DEF GenerateInvite
<1>10. Referred' /\ DefaultIsOwn'
  BY <1>9 DEF IInv, Referred, DefaultIsOwn, besides, Known
<1>11. invites' \subseteq Invitation
  BY <1>4, <1>6 DEF IInv, TablesTypeOK, Cached
<1>12. TablesTypeOK /\ Requested' => TablesTypeOK'
  BY <1>a, <1>4, <1>5, <1>9, <1>11 DEF TablesTypeOK, Requested, besides
<1> QED
  BY <1>4, <1>8, <1>9, <1>10, <1>12, MoveKeeps DEF besides

\* The email of an invitation goes out, and the next invitee is due.
LEMMA DispatchInviteKeeps ==
  ASSUME IInv, NEW r \in Slots, DispatchInvite(r)
  PROVE  IInv'
<1> USE DEF CreateStaged, Arrivals, Accepting, Inviting, OnWorkspace, OnSpace, OnMember, OnTag
<1>1. PICK o : o = req[r]
  OBVIOUS
<1>2. /\ Sound(o) /\ o \in RequestState /\ o.pc = "invite.dispatch" /\ ~o.gone
      /\ o.user \in Users /\ o.ws \in Known /\ o.ws \in Workspaces /\ o.who \in Users
      /\ o.token \in Tokens
  BY <1>1, NotGone DEF IInv, TablesTypeOK, DispatchInvite, At, Sound, Known
<1>3. PICK m : m = [token |-> o.token, ws |-> o.ws, to |-> o.who, sender |-> o.user,
                    space |-> o.space]
  OBVIOUS
<1>4. m \in Invitation /\ m.ws \in Known
  BY <1>2, <1>3 DEF Invitation, RequestState
<1>5. mails' = mails \cup {m}
      /\ UNCHANGED <<people, members, default, spaceMembers, invites, issued, besides>>
  BY <1>1, <1>3 DEF DispatchInvite
<1>6. Referred' /\ DefaultIsOwn'
  BY <1>4, <1>5 DEF IInv, Referred, DefaultIsOwn, besides, Known
<1>7. PICK q : Sound(q) /\ q.pc \notin Staged /\ req' = [req EXCEPT ![r] = q] /\ UNCHANGED served
  <2>1. CASE Answer(r)
    <3>1. PICK q : q = Free
      OBVIOUS
    <3>2. Sound(q) /\ q.pc = "free"
      BY <3>1, FreeSound
    <3> QED
      BY <2>1, <3>1, <3>2 DEF Answer, GoOn, Staged
  <2>2. CASE GoOn(r, [o EXCEPT !.pc = "invite.generate", !.todo = o.todo \ {o.who}])
    <3>1. PICK q : q = [o EXCEPT !.pc = "invite.generate", !.todo = o.todo \ {o.who}]
      OBVIOUS
    <3>2. /\ q \in RequestState /\ q.pc = "invite.generate" /\ q.ws = o.ws /\ q.user = o.user
          /\ q.gone = o.gone
      BY <1>2, <3>1 DEF RequestState, Steps
    <3>3. Sound(q) /\ q.pc \notin Staged
      BY <1>2, <3>2 DEF Sound, Staged
    <3> QED
      BY <2>2, <3>1, <3>3 DEF GoOn
  <2> QED
    BY <1>1, <2>1, <2>2 DEF DispatchInvite
<1>8. TablesTypeOK /\ Requested' => TablesTypeOK'
  BY <1>4, <1>5, <1>7 DEF TablesTypeOK, Requested, besides
<1> QED
  BY <1>5, <1>6, <1>7, <1>8, MoveKeeps DEF besides

\* An acceptance goes on to its next step while the tables of members or
\* users change.
LEMMA AcceptGoesOn ==
  ASSUME IInv, NEW r \in Slots,
         NEW from \in {"accept.register", "accept.join", "accept.space"}, At(r, from),
         NEW step \in {"accept.join", "accept.space", "accept.forget", "accept.login"},
         Goto(r, step),
         UNCHANGED <<inviteTables, besides>>,
         TablesTypeOK /\ Requested' => TablesTypeOK', DefaultIsOwn'
  PROVE  IInv'
<1> USE DEF CreateStaged, Arrivals, Accepting, Inviting, OnWorkspace, OnSpace, OnMember, OnTag
<1>1. PICK o : o = req[r]
  OBVIOUS
<1>2. Sound(o) /\ o \in RequestState /\ o.pc = from /\ ~o.gone
  BY <1>1, NotGone DEF IInv, TablesTypeOK, At
<1>3. PICK q : q = [o EXCEPT !.pc = step]
  OBVIOUS
<1>4. /\ q \in RequestState /\ q.pc = step /\ q.ws = o.ws /\ q.user = o.user
      /\ q.space = o.space /\ q.who = o.who /\ q.gone = o.gone
  BY <1>2, <1>3 DEF RequestState, Steps
<1>5. Sound(q) /\ q.pc \notin Staged
  BY <1>2, <1>4 DEF Sound, Staged
<1>6. req' = [req EXCEPT ![r] = q]
  BY <1>1, <1>3 DEF Goto
<1>7. Referred'
  BY DEF IInv, Referred, inviteTables, besides, Known
<1> QED
  BY <1>5, <1>6, <1>7, MoveKeeps DEF inviteTables, besides

\* What the steps of an acceptance know of the one who accepts.
LEMMA AcceptsInvited ==
  ASSUME IInv, NEW r \in Slots, req[r].pc \in Accepting
  PROVE  /\ req[r].who \in Users /\ req[r].ws \in Known /\ req[r].ws \in Workspaces
         /\ req[r].pc # "accept.check" => req[r].space \in Spaces
         /\ InvitedTo(req[r].ws, req[r].who)
BY DEF IInv, Sound, OnMember, OnWorkspace, OnSpace, Accepting, Known

LEMMA RegisterInviteeKeeps ==
  ASSUME IInv, NEW r \in Slots, RegisterInvitee(r)
  PROVE  IInv'
<1>1. At(r, "accept.register") /\ Goto(r, "accept.join")
  BY DEF RegisterInvitee
<1>2. PICK u \in Users, w \in Known :
        u = req[r].who /\ w = req[r].ws /\ w \in Workspaces /\ InvitedTo(w, u)
  BY <1>1, AcceptsInvited DEF At, Accepting
<1>3. /\ people' = people \cup {u} /\ default' = [default EXCEPT ![u] = w]
      /\ UNCHANGED <<members, spaceMembers, inviteTables, besides>>
  BY <1>2 DEF RegisterInvitee
<1>4. DefaultIsOwn'
  <2> SUFFICES ASSUME NEW v \in Users, default'[v] # None
               PROVE  /\ default'[v] \in Known'
                      /\ \/ <<default'[v], v>> \in members'
                         \/ \E m \in mails' : m.ws = default'[v] /\ m.to = v
    BY DEF DefaultIsOwn
  <2>1. Known' = Known /\ mails' = mails /\ members' = members
    BY <1>3 DEF Known, besides, inviteTables
  <2>2. CASE v = u
    BY <1>2, <1>3, <2>1, <2>2 DEF IInv, TablesTypeOK, InvitedTo
  <2>3. CASE v # u
    BY <1>3, <2>1, <2>3 DEF IInv, TablesTypeOK, DefaultIsOwn
  <2> QED
    BY <2>2, <2>3
<1>5. TablesTypeOK /\ Requested' => TablesTypeOK'
  BY <1>1, <1>2, <1>3 DEF TablesTypeOK, Requested, besides, inviteTables, Goto
<1> QED
  BY <1>1, <1>3, <1>4, <1>5, AcceptGoesOn

LEMMA JoinWorkspaceKeeps ==
  ASSUME IInv, NEW r \in Slots, JoinWorkspace(r)
  PROVE  IInv'
<1>1. At(r, "accept.join") /\ Goto(r, "accept.space")
  BY DEF JoinWorkspace
<1>2. PICK u \in Users, w \in Workspaces : u = req[r].who /\ w = req[r].ws
  BY <1>1, AcceptsInvited DEF At, Accepting
<1>3. /\ members' = members \cup {<<w, u>>}
      /\ UNCHANGED <<people, default, spaceMembers, inviteTables, besides>>
  BY <1>2 DEF JoinWorkspace
<1>4. DefaultIsOwn'
  BY <1>3 DEF IInv, DefaultIsOwn, Known, besides, inviteTables
<1>5. TablesTypeOK /\ Requested' => TablesTypeOK'
  BY <1>1, <1>2, <1>3 DEF TablesTypeOK, Requested, besides, inviteTables, Goto
<1> QED
  BY <1>1, <1>3, <1>4, <1>5, AcceptGoesOn

LEMMA JoinSpaceKeeps ==
  ASSUME IInv, NEW r \in Slots, JoinSpace(r)
  PROVE  IInv'
<1>1. PICK step \in {"accept.forget", "accept.login"} : At(r, "accept.space") /\ Goto(r, step)
  BY DEF JoinSpace
<1>2. req[r].who \in Users /\ req[r].space \in Spaces
  BY <1>1, AcceptsInvited DEF At, Accepting
<1>3. Joiner(r) \subseteq Users
  BY <1>2 DEF Joiner, IInv, TablesTypeOK, Invitation
<1>4. spaceMembers' \subseteq Spaces \X Users
  BY <1>2, <1>3 DEF JoinSpace, IInv, TablesTypeOK
<1>5. UNCHANGED <<people, members, default, inviteTables, besides>>
  BY DEF JoinSpace
<1>6. DefaultIsOwn'
  BY <1>5 DEF IInv, DefaultIsOwn, Known, besides, inviteTables
<1>7. TablesTypeOK /\ Requested' => TablesTypeOK'
  BY <1>1, <1>4, <1>5 DEF TablesTypeOK, Requested, besides, inviteTables, Goto
<1> QED
  BY <1>1, <1>5, <1>6, <1>7, AcceptGoesOn

LEMMA LogInInviteeKeeps ==
  ASSUME IInv, NEW r \in Slots, LogInInvitee(r)
  PROVE  IInv'
<1>1. PICK o : o = req[r]
  OBVIOUS
<1>2. Sound(o) /\ o.pc = "accept.login" /\ o.who \in Users /\ o.user \in Users
  BY <1>1 DEF IInv, LogInInvitee, At, Sound, OnMember, Accepting
<1>3. PICK w \in {active[o.user], active[o.who]} : active' = [active EXCEPT ![o.who] = w]
  BY <1>1 DEF LogInInvitee
<1>4. /\ Answer(r)
      /\ UNCHANGED <<people, members, default, spaceMembers, inviteTables, workspaces, spaces>>
  BY DEF LogInInvitee
<1>5. w # None => w \in Known
  BY <1>2, <1>3 DEF IInv, Referred
<1>6. w \in Workspaces \cup {None} /\ active' \in [Users -> Workspaces \cup {None}]
  BY <1>2, <1>3 DEF IInv, TablesTypeOK
<1>7. Known' = Known
  BY <1>4 DEF Known
<1>8. Referred' /\ DefaultIsOwn'
  BY <1>2, <1>3, <1>4, <1>5, <1>6, <1>7
  DEF IInv, Referred, DefaultIsOwn, TablesTypeOK, inviteTables
<1>9. TablesTypeOK /\ Requested' => TablesTypeOK'
  BY <1>4, <1>6 DEF TablesTypeOK, Requested, inviteTables, Answer, GoOn
<1> QED
  BY <1>4, <1>8, <1>9, EndKeeps DEF inviteTables

LEMMA ExpireInviteKeeps ==
  ASSUME IInv, ExpireInvite
  PROVE  IInv'
<1>1. /\ invites' \subseteq invites
      /\ UNCHANGED <<people, members, default, spaceMembers, mails, issued, besides, req, served>>
  BY DEF ExpireInvite
<1>2. Widens
  BY <1>1 DEF Widens, Known, Gone, besides
<1>3. ASSUME NEW r \in Slots PROVE Sound(req[r])'
  <2>1. PICK o : o = req[r]
    OBVIOUS
  <2>2. Sound(o)'
    BY <1>2, <2>1, StaysSound DEF IInv
  <2> QED
    BY <1>1, <2>1, <2>2 DEF Sound
<1>4. TablesTypeOK' /\ Referred' /\ DefaultIsOwn' /\ Exclusive' /\ Unborn'
  BY <1>1 DEF IInv, TablesTypeOK, Referred, DefaultIsOwn, Exclusive, Unborn, Known, besides
<1> QED
  BY <1>3, <1>4 DEF IInv

---------------------------------------------------------------------------
(* Spaces                                                                  *)

\* A request leaves the workspaces, members and invitations alone.
LEMMA BeyondKeeps ==
  ASSUME IInv, UNCHANGED beyond, NEW r \in Slots, NEW q, Sound(q), q.pc \notin Staged,
         req' = [req EXCEPT ![r] = q], served' \in 0..MaxRequests,
         spaces' \in [Spaces -> [state : States, ws : Workspaces \cup {None},
                                 tag : Tags \cup {None}]],
         spaceMembers' \subseteq Spaces \X Users
  PROVE  IInv'
<1>1. Referred' /\ DefaultIsOwn'
  BY DEF IInv, Referred, DefaultIsOwn, Known, beyond, workspaceTables, inviteTables
<1>2. TablesTypeOK /\ Requested' => TablesTypeOK'
  BY DEF TablesTypeOK, Requested, beyond, workspaceTables, inviteTables
<1> QED
  BY <1>1, <1>2, MoveKeeps DEF beyond, workspaceTables, inviteTables

\* Requests about spaces arrive with what their steps need.
LEMMA SpaceArrives ==
  ASSUME IInv, NEW r \in Slots, CreateSpace(r) \/ ChangeSpace(r) \/ ChangeMember(r)
  PROVE  IInv'
<1> USE DEF CreateStaged, Arrivals, Accepting, Inviting, OnWorkspace, OnSpace, OnMember, OnTag
<1>a. Quiet
  BY DEF CreateSpace, ChangeSpace, ChangeMember, beyond, Quiet, workspaceTables, spaceTables,
         inviteTables
<1>b. people \subseteq Users /\ 0 \in 0..MaxTokens
  BY BoundsAssumption DEF IInv, TablesTypeOK
<1>1. CASE CreateSpace(r)
  <2>1. PICK u, tag, w, q :
          /\ u \in people /\ tag \in Tags /\ w \in Known
          /\ q = [Free EXCEPT !.pc = "space.allow", !.user = u, !.ws = w, !.tag = tag,
                             !.gone = Gone(w)]
          /\ Take(r, q)
    BY <1>1 DEF CreateSpace
  <2>2. w \in Workspaces /\ u \in Users /\ tag \in Tags /\ "space.allow" \in Steps
    BY <1>b, <2>1 DEF Known, Steps
  <2>3. PICK g \in BOOLEAN : g <=> Gone(w)
    OBVIOUS
  <2>4. Gone(w) \in BOOLEAN
    BY DEF Gone
  <2>5. q = [pc |-> "space.allow", user |-> u, ws |-> w, slug |-> None, space |-> None,
             tag |-> tag, who |-> None, seen |-> None, mode |-> None, token |-> 0,
             todo |-> {}, gone |-> g]
    BY <2>1, <2>3, <2>4 DEF Free
  <2>6. /\ q \in RequestState /\ q.pc = "space.allow" /\ q.user = u /\ q.ws = w
        /\ q.tag = tag /\ q.gone = g
    BY <1>b, <2>2, <2>5 DEF RequestState
  <2>7. Sound(q) /\ q.pc \notin Staged
    BY <2>1, <2>2, <2>3, <2>6 DEF Sound, Staged
  <2> QED
    BY <1>a, <2>1, <2>7, TakeKeeps
<1>2. CASE ChangeSpace(r)
  <2>1. PICK u, s, step, tag, q :
          /\ u \in people /\ s \in KnownSpaces /\ step \in {"retag.find", "drop.find"}
          /\ tag \in Tags \cup {None}
          /\ q = [Free EXCEPT !.pc = step, !.user = u, !.space = s, !.tag = tag]
          /\ step = "retag.find" => tag \in Tags
          /\ Take(r, q)
    BY <1>2 DEF ChangeSpace
  <2>2. s \in Spaces /\ u \in Users /\ step \in Steps /\ tag \in Tags \cup {None}
    BY <1>b, <2>1 DEF KnownSpaces, Steps
  <2>3. q = [pc |-> step, user |-> u, ws |-> None, slug |-> None, space |-> s,
             tag |-> tag, who |-> None, seen |-> None, mode |-> None, token |-> 0,
             todo |-> {}, gone |-> FALSE]
    BY <2>1 DEF Free
  <2>4. /\ q \in RequestState /\ q.pc = step /\ q.user = u /\ q.space = s
        /\ q.tag = tag /\ q.gone = FALSE
    BY <1>b, <2>2, <2>3 DEF RequestState
  <2>5. Sound(q) /\ q.pc \notin Staged
    BY <2>1, <2>2, <2>4 DEF Sound, Staged
  <2> QED
    BY <1>a, <2>1, <2>5, TakeKeeps
<1>3. CASE ChangeMember(r)
  <2>1. PICK u, who, s, step, q :
          /\ u \in people /\ who \in people /\ s \in KnownSpaces
          /\ step \in {"add.find", "remove.find"}
          /\ q = [Free EXCEPT !.pc = step, !.user = u, !.space = s, !.who = who]
          /\ Take(r, q)
    BY <1>3 DEF ChangeMember
  <2>2. s \in Spaces /\ u \in Users /\ who \in Users /\ step \in Steps
    BY <1>b, <2>1 DEF KnownSpaces, Steps
  <2>3. q = [pc |-> step, user |-> u, ws |-> None, slug |-> None, space |-> s,
             tag |-> None, who |-> who, seen |-> None, mode |-> None, token |-> 0,
             todo |-> {}, gone |-> FALSE]
    BY <2>1 DEF Free
  <2>4. /\ q \in RequestState /\ q.pc = step /\ q.user = u /\ q.space = s
        /\ q.who = who /\ q.gone = FALSE
    BY <1>b, <2>2, <2>3 DEF RequestState
  <2>5. Sound(q) /\ q.pc \notin Staged
    BY <2>1, <2>2, <2>4 DEF Sound, Staged
  <2> QED
    BY <1>a, <2>1, <2>5, TakeKeeps
<1> QED
  BY <1>1, <1>2, <1>3

\* The retrievals and checks of the handlers.
LEMMA SpaceGoesOn ==
  ASSUME IInv, NEW r \in Slots, AllowCreation(r) \/ FindSpace(r) \/ CheckMember(r)
  PROVE  IInv'
<1> USE DEF CreateStaged, Arrivals, Accepting, Inviting, OnWorkspace, OnSpace, OnMember, OnTag
<1>a. Quiet
  BY DEF AllowCreation, FindSpace, CheckMember, beyond, Quiet, workspaceTables, spaceTables,
         inviteTables
<1>1. CASE AllowCreation(r)
  <2>1. CASE Answer(r)
    BY <1>a, <2>1, AnswerKeeps
  <2>2. CASE Goto(r, "space.insert")
    <3>1. At(r, "space.allow") /\ ~req[r].gone
      BY <1>1, NotGone DEF AllowCreation
    <3> QED
      BY <1>a, <2>2, <3>1, GotoKeeps DEF Steps, Staged
  <2> QED
    BY <1>1, <2>1, <2>2 DEF AllowCreation
<1>2. CASE FindSpace(r) \/ CheckMember(r)
  <2>1. \/ At(r, "retag.find") /\ Goto(r, "retag.save")
        \/ At(r, "drop.find") /\ Goto(r, "drop.save")
        \/ At(r, "add.find") /\ Goto(r, "add.check")
        \/ At(r, "remove.find") /\ Goto(r, "remove.check")
        \/ At(r, "add.check") /\ Goto(r, "add.attach")
        \/ At(r, "remove.check") /\ Goto(r, "remove.detach")
    BY <1>2 DEF FindSpace, CheckMember
  <2>2. ~req[r].gone
    BY <2>1, NotGone DEF At
  <2> QED
    BY <1>a, <2>1, <2>2, GotoKeeps DEF Steps, Staged
<1> QED
  BY <1>1, <1>2

LEMMA InsertSpaceKeeps ==
  ASSUME IInv, NEW r \in Slots, InsertSpace(r)
  PROVE  IInv'
<1> USE DEF CreateStaged, Arrivals, Accepting, Inviting, OnWorkspace, OnSpace, OnMember, OnTag
<1>1. PICK o : o = req[r]
  OBVIOUS
<1>2. /\ Sound(o) /\ o \in RequestState /\ o.pc = "space.insert" /\ ~o.gone
      /\ o.ws \in Workspaces /\ o.tag \in Tags /\ o.user \in Users
  BY <1>1, NotGone DEF IInv, TablesTypeOK, InsertSpace, At, Sound, Known
<1>3. PICK s, q :
        /\ s \in Spaces
        /\ spaces' = [spaces EXCEPT ![s] = [state |-> "live", ws |-> o.ws, tag |-> o.tag]]
        /\ q = [o EXCEPT !.pc = "space.attach", !.space = s]
        /\ req' = [req EXCEPT ![r] = q] /\ UNCHANGED served
  BY <1>1 DEF InsertSpace, GoOn
<1>4. /\ q \in RequestState /\ q.pc = "space.attach" /\ q.ws = o.ws /\ q.user = o.user
      /\ q.space = s /\ q.tag = o.tag /\ q.gone = o.gone
  BY <1>2, <1>3 DEF RequestState, Steps
<1>5. Sound(q) /\ q.pc \notin Staged
  BY <1>2, <1>3, <1>4 DEF Sound, Staged
<1>6. spaces' \in [Spaces -> [state : States, ws : Workspaces \cup {None}, tag : Tags \cup {None}]]
  BY <1>2, <1>3 DEF IInv, TablesTypeOK, States
<1>7. /\ UNCHANGED beyond /\ served' \in 0..MaxRequests
      /\ spaceMembers' \subseteq Spaces \X Users
  BY <1>3 DEF IInv, TablesTypeOK, InsertSpace
<1> QED
  BY <1>3, <1>5, <1>6, <1>7, BeyondKeeps

\* The requests that end by writing a space or its members.
LEMMA SpaceEnds ==
  ASSUME IInv, NEW r \in Slots,
         \/ AttachCreator(r) \/ UpdateSpace(r) \/ DeleteSpace(r) \/ AddMember(r)
         \/ RemoveMember(r)
  PROVE  IInv'
<1> USE DEF CreateStaged, Arrivals, Accepting, Inviting, OnWorkspace, OnSpace, OnMember, OnTag
<1>1. PICK o : o = req[r]
  OBVIOUS
<1>2. Sound(o)
  BY <1>1 DEF IInv
<1>3. PICK q : Sound(q) /\ q.pc \notin Staged /\ q = Free
  BY FreeSound DEF Staged
<1>4. /\ req' = [req EXCEPT ![r] = q] /\ served' \in 0..MaxRequests /\ UNCHANGED beyond
  BY <1>3 DEF AttachCreator, UpdateSpace, DeleteSpace, AddMember, RemoveMember, Answer, GoOn,
              IInv, TablesTypeOK
<1>5. spaces' \in [Spaces -> [state : States, ws : Workspaces \cup {None}, tag : Tags \cup {None}]]
  <2>1. CASE UpdateSpace(r)
    <3>1. o.space \in Spaces /\ o.tag \in Tags
            /\ spaces' = [spaces EXCEPT ![o.space].tag = o.tag]
      BY <1>1, <1>2, <2>1 DEF UpdateSpace, At, Sound
    <3> QED
      BY <3>1 DEF IInv, TablesTypeOK
  <2>2. CASE DeleteSpace(r)
    <3>1. o.space \in Spaces /\ spaces' = [spaces EXCEPT ![o.space].state = "deleted"]
      BY <1>1, <1>2, <2>2 DEF DeleteSpace, At, Sound
    <3> QED
      BY <3>1 DEF IInv, TablesTypeOK, States
  <2>3. CASE AttachCreator(r) \/ AddMember(r) \/ RemoveMember(r)
    BY <2>3 DEF AttachCreator, AddMember, RemoveMember, IInv, TablesTypeOK
  <2> QED
    BY <2>1, <2>2, <2>3
<1>6. spaceMembers' \subseteq Spaces \X Users
  <2>1. CASE AttachCreator(r)
    <3>1. /\ o.space \in Spaces /\ o.user \in Users
          /\ spaceMembers' = spaceMembers \cup {<<o.space, o.user>>}
      BY <1>1, <1>2, <2>1 DEF AttachCreator, At, Sound
    <3> QED
      BY <3>1 DEF IInv, TablesTypeOK
  <2>2. CASE AddMember(r)
    <3>1. /\ o.space \in Spaces /\ o.who \in Users
          /\ spaceMembers' = spaceMembers \cup {<<o.space, o.who>>}
      BY <1>1, <1>2, <2>2 DEF AddMember, Membership, At, Sound
    <3> QED
      BY <3>1 DEF IInv, TablesTypeOK
  <2>3. CASE RemoveMember(r) \/ UpdateSpace(r) \/ DeleteSpace(r)
    BY <2>3 DEF RemoveMember, UpdateSpace, DeleteSpace, IInv, TablesTypeOK
  <2> QED
    BY <2>1, <2>2, <2>3
<1> QED
  BY <1>3, <1>4, <1>5, <1>6, BeyondKeeps

---------------------------------------------------------------------------
(* The invariant                                                           *)

LEMMA InitKeeps == Init => IInv
<1> SUFFICES ASSUME Init PROVE IInv
  OBVIOUS
<1> USE DEF Init, TablesInit
<1>1. PICK q : q = Free
  OBVIOUS
<1>2. Sound(q) /\ q \in RequestState /\ q.pc = "free"
  BY <1>1, FreeSound DEF Sound
<1>3. \A r \in Slots : req[r] = q
  BY <1>1
<1>4. \A r \in Slots : Sound(req[r])
  BY <1>2, <1>3
<1>5. TablesTypeOK
  BY <1>1, <1>2, BoundsAssumption DEF TablesTypeOK, States
<1>6. Exclusive /\ Unborn /\ Referred /\ DefaultIsOwn
  BY <1>2, <1>3 DEF Exclusive, Unborn, Referred, DefaultIsOwn, Staged, CreateStaged
<1> QED
  BY <1>4, <1>5, <1>6 DEF IInv

LEMMA StutterKeeps == ASSUME IInv, UNCHANGED vars PROVE IInv'
BY DEF vars, workspaceTables, spaceTables, inviteTables, IInv, TablesTypeOK, Sound, Exclusive,
       Unborn, Referred, DefaultIsOwn, InvitedTo, Known, Gone

\* The step of a request.
Serve(r) ==
  \/ CreateWorkspace(r) \/ CheckAvailability(r) \/ InsertWorkspace(r)
  \/ AddOwner(r) \/ SetDefaultWorkspace(r) \/ CommitCreation(r)
  \/ UpdateWorkspace(r) \/ DeleteWorkspace(r) \/ FindWorkspace(r)
  \/ SaveWorkspace(r) \/ CommitUpdate(r) \/ CommitDeletion(r)
  \/ SetActiveWorkspace(r) \/ FindActive(r) \/ PutActive(r)
  \/ SendInvites(r) \/ FindInviter(r) \/ GenerateInvite(r) \/ DispatchInvite(r)
  \/ AcceptInvite(r) \/ CheckInvite(r) \/ FindInvitation(r) \/ FindInvitee(r)
  \/ RegisterInvitee(r) \/ JoinWorkspace(r) \/ JoinSpace(r) \/ ForgetInvite(r)
  \/ LogInInvitee(r)
  \/ CreateSpace(r) \/ AllowCreation(r) \/ InsertSpace(r) \/ AttachCreator(r)
  \/ ChangeSpace(r) \/ FindSpace(r) \/ UpdateSpace(r) \/ DeleteSpace(r)
  \/ ChangeMember(r) \/ CheckMember(r) \/ AddMember(r) \/ RemoveMember(r)
  \/ Fail(r)

LEMMA NextServes == Next => ExpireInvite \/ \E r \in Slots : Serve(r)
BY DEF Next, Serve

LEMMA StepKeeps == IInv /\ [Next]_vars => IInv'
<1> SUFFICES ASSUME IInv, [Next]_vars PROVE IInv'
  OBVIOUS
<1>1. CASE UNCHANGED vars
  BY <1>1, StutterKeeps
<1>2. CASE ExpireInvite
  BY <1>2, ExpireInviteKeeps
<1>3. ASSUME NEW r \in Slots, Serve(r) PROVE IInv'
  <2>1. CASE \/ CreateWorkspace(r) \/ CheckAvailability(r) \/ InsertWorkspace(r)
             \/ AddOwner(r) \/ SetDefaultWorkspace(r) \/ CommitCreation(r)
             \/ UpdateWorkspace(r) \/ DeleteWorkspace(r) \/ FindWorkspace(r)
             \/ SaveWorkspace(r) \/ CommitDeletion(r)
             \/ SetActiveWorkspace(r) \/ FindActive(r) \/ PutActive(r)
    BY <2>1, WorkspaceArrives, WorkspaceGoesOn, InsertWorkspaceKeeps, CommitCreationKeeps,
       CommitDeletionKeeps, PutActiveKeeps
  <2>2. CASE \/ SendInvites(r) \/ FindInviter(r) \/ GenerateInvite(r) \/ DispatchInvite(r)
             \/ AcceptInvite(r) \/ CheckInvite(r) \/ FindInvitation(r) \/ FindInvitee(r)
             \/ RegisterInvitee(r) \/ JoinWorkspace(r) \/ JoinSpace(r) \/ LogInInvitee(r)
    BY <2>2, SendInvitesKeeps, InviteGoesOn, GenerateInviteKeeps, DispatchInviteKeeps,
       AcceptInviteKeeps, CheckInviteKeeps, RegisterInviteeKeeps, JoinWorkspaceKeeps,
       JoinSpaceKeeps, LogInInviteeKeeps
  <2>3. CASE \/ CreateSpace(r) \/ AllowCreation(r) \/ InsertSpace(r) \/ AttachCreator(r)
             \/ ChangeSpace(r) \/ FindSpace(r) \/ UpdateSpace(r) \/ DeleteSpace(r)
             \/ ChangeMember(r) \/ CheckMember(r) \/ AddMember(r) \/ RemoveMember(r)
    BY <2>3, SpaceArrives, SpaceGoesOn, InsertSpaceKeeps, SpaceEnds
  <2>4. CASE CommitUpdate(r) \/ ForgetInvite(r) \/ Fail(r)
    BY <2>4, EndsQuietly
  <2> QED
    BY <1>3, <2>1, <2>2, <2>3, <2>4 DEF Serve
<1> QED
  BY <1>1, <1>2, <1>3, NextServes

LEMMA Invariance == Spec => []IInv
BY InitKeeps, StepKeeps, PTL DEF Spec

---------------------------------------------------------------------------
(* Which steps write which table                                           *)

\* Only the two commits write workspaces.
LEMMA WorkspacesKept ==
  ASSUME NEW r \in Slots, Serve(r), ~CommitCreation(r), ~CommitDeletion(r)
  PROVE  UNCHANGED workspaces
BY DEF Serve, CreateWorkspace, CheckAvailability, InsertWorkspace, AddOwner,
       SetDefaultWorkspace, UpdateWorkspace, DeleteWorkspace, FindWorkspace, SaveWorkspace,
       CommitUpdate, SetActiveWorkspace, FindActive, PutActive, SendInvites, FindInviter,
       GenerateInvite, DispatchInvite, AcceptInvite, CheckInvite, FindInvitation, FindInvitee,
       RegisterInvitee, JoinWorkspace, JoinSpace, ForgetInvite, LogInInvitee, CreateSpace,
       AllowCreation, InsertSpace, AttachCreator, ChangeSpace, FindSpace, UpdateSpace, DeleteSpace,
       ChangeMember, CheckMember, AddMember, RemoveMember, Fail, workspaceTables, others,
       besides, beyond

\* Only a creation and a joining write memberships, and only the dispatch
\* writes emails.
LEMMA MembersKept ==
  ASSUME NEW r \in Slots, Serve(r)
  PROVE  /\ UNCHANGED members \/ CommitCreation(r) \/ JoinWorkspace(r)
         /\ UNCHANGED mails \/ DispatchInvite(r)
BY DEF Serve, CreateWorkspace, CheckAvailability, InsertWorkspace, AddOwner, CommitCreation,
       CommitDeletion, JoinWorkspace, DispatchInvite,
       SetDefaultWorkspace, UpdateWorkspace, DeleteWorkspace, FindWorkspace, SaveWorkspace,
       CommitUpdate, SetActiveWorkspace, FindActive, PutActive, SendInvites, FindInviter,
       GenerateInvite, AcceptInvite, CheckInvite, FindInvitation, FindInvitee,
       RegisterInvitee, JoinSpace, ForgetInvite, LogInInvitee, CreateSpace, AllowCreation,
       InsertSpace, AttachCreator, ChangeSpace, FindSpace, UpdateSpace, DeleteSpace,
       ChangeMember, CheckMember, AddMember, RemoveMember, Fail, workspaceTables, others,
       besides, beyond, inviteTables

\* Only three requests write spaces.
LEMMA SpacesKept ==
  ASSUME NEW r \in Slots, Serve(r), ~InsertSpace(r), ~UpdateSpace(r), ~DeleteSpace(r)
  PROVE  UNCHANGED spaces
BY DEF Serve, CreateWorkspace, CheckAvailability, InsertWorkspace, AddOwner, CommitCreation,
       CommitDeletion, SetDefaultWorkspace, UpdateWorkspace, DeleteWorkspace, FindWorkspace,
       SaveWorkspace, CommitUpdate, SetActiveWorkspace, FindActive, PutActive, SendInvites,
       FindInviter, GenerateInvite, DispatchInvite, AcceptInvite, CheckInvite, FindInvitation,
       FindInvitee, RegisterInvitee, JoinWorkspace, JoinSpace, ForgetInvite, LogInInvitee,
       CreateSpace, AllowCreation, AttachCreator, ChangeSpace, FindSpace, ChangeMember,
       CheckMember, AddMember, RemoveMember, Fail, spaceTables, others, besides, beyond

\* A creation writes a row that was absent.
LEMMA CreationIsNew ==
  ASSUME IInv, NEW r \in Slots, CommitCreation(r)
  PROVE  /\ req[r].ws \in Workspaces /\ req[r].user \in Users
         /\ workspaces[req[r].ws].state = "absent"
         /\ Known' = Known \cup {req[r].ws}
<1>1. PICK w, u : w = req[r].ws /\ u = req[r].user
  OBVIOUS
<1>2. w \in Workspaces /\ u \in Users /\ workspaces[w].state = "absent"
  BY <1>1 DEF CommitCreation, At, IInv, Sound, Unborn, CreateStaged
<1>3. \E slug : workspaces' = [workspaces EXCEPT ![w] = [state |-> "live", slug |-> slug]]
  BY <1>1 DEF CommitCreation
<1>4. /\ workspaces'[w].state = "live"
      /\ \A v \in Workspaces \ {w} : workspaces'[v] = workspaces[v]
  BY <1>2, <1>3 DEF IInv, TablesTypeOK
<1>5. Known' = Known \cup {w}
  BY <1>2, <1>4 DEF Known
<1> QED
  BY <1>1, <1>2, <1>5

---------------------------------------------------------------------------
(* The theorems                                                            *)

\* The tables and the requests are of their types.
THEOREM TypeCorrect == Spec => []TypeOK
<1>1. IInv => TypeOK
  BY DEF IInv, TypeOK
<1> QED
  BY <1>1, Invariance, PTL

\* A user's default workspace exists and the user belongs to it or was
\* invited to it.
THEOREM DefaultsOwned == Spec => []DefaultIsOwn
<1>1. IInv => DefaultIsOwn
  BY DEF IInv
<1> QED
  BY <1>1, Invariance, PTL

\* A request about a workspace that was deleted before it arrived never gets
\* past the retrieval.
THEOREM LateRequestsRefused == Spec => []DeletedWorkspaceRefused
<1>1. IInv => DeletedWorkspaceRefused
  BY DEF IInv, DeletedWorkspaceRefused, Sound, Arrivals
<1> QED
  BY <1>1, Invariance, PTL

\* No request brings back a deleted workspace or space.
THEOREM NothingRestored == Spec => DeletedStaysDeleted
<1> DEFINE Kept ==
      /\ \A w \in Workspaces : workspaces[w].state = "deleted" => workspaces'[w] = workspaces[w]
      /\ \A s \in Spaces : spaces[s].state = "deleted" => spaces'[s].state = "deleted"
<1>1. ASSUME IInv, Next PROVE Kept
  <2>1. CASE ExpireInvite
    BY <2>1 DEF ExpireInvite, besides
  <2>2. ASSUME NEW r \in Slots, Serve(r), NEW w \in Workspaces, Gone(w)
        PROVE  workspaces'[w] = workspaces[w]
    <3>1. CASE CommitCreation(r)
      <4>1. PICK v : v = req[r].ws
        OBVIOUS
      <4>2. v \in Workspaces /\ workspaces[v].state = "absent"
        BY <1>1, <3>1, <4>1, CreationIsNew
      <4> QED
        BY <1>1, <2>2, <3>1, <4>1, <4>2 DEF CommitCreation, Gone, IInv, TablesTypeOK
    <3>2. CASE CommitDeletion(r)
      BY <1>1, <2>2, <3>2 DEF CommitDeletion, Gone, IInv, TablesTypeOK
    <3> QED
      BY <2>2, <3>1, <3>2, WorkspacesKept
  <2>3. ASSUME NEW r \in Slots, Serve(r), NEW s \in Spaces, spaces[s].state = "deleted"
        PROVE  spaces'[s].state = "deleted"
    <3>1. CASE InsertSpace(r) \/ UpdateSpace(r) \/ DeleteSpace(r)
      <4>1. CASE InsertSpace(r)
        <5>1. PICK t, row :
                /\ t \in Spaces
                /\ spaces[t].state = "absent"
                /\ spaces' = [spaces EXCEPT ![t] = row]
          BY <4>1 DEF InsertSpace
        <5> QED
          BY <1>1, <2>3, <5>1 DEF IInv, TablesTypeOK
      <4>2. CASE UpdateSpace(r)
        <5>1. PICK t, tag : spaces' = [spaces EXCEPT ![t].tag = tag]
          BY <4>2 DEF UpdateSpace
        <5> QED
          BY <1>1, <2>3, <5>1 DEF IInv, TablesTypeOK
      <4>3. CASE DeleteSpace(r)
        <5>1. PICK t : spaces' = [spaces EXCEPT ![t].state = "deleted"]
          BY <4>3 DEF DeleteSpace
        <5> QED
          BY <1>1, <2>3, <5>1 DEF IInv, TablesTypeOK
      <4> QED
        BY <3>1, <4>1, <4>2, <4>3
    <3> QED
      BY <2>3, <3>1, SpacesKept
  <2> QED
    BY <1>1, <2>1, <2>2, <2>3, NextServes DEF Gone
<1>2. IInv /\ [Next]_vars => [Kept]_vars
  BY <1>1
<1> QED
  BY <1>2, Invariance, PTL DEF Spec, DeletedStaysDeleted

\* A step of the tenancy founds, invites, joins, or leaves the directory be.
LEMMA StepRefines == IInv /\ [Next]_vars => [Directory!Next]_(Directory!vars)
<1> SUFFICES ASSUME IInv, [Next]_vars PROVE [Directory!Next]_(Directory!vars)
  OBVIOUS
<1> USE DEF Directory!vars
<1>1. CASE UNCHANGED vars
  BY <1>1 DEF vars, workspaceTables, inviteTables, Known
<1>2. CASE ExpireInvite
  BY <1>2 DEF ExpireInvite, besides, Known
<1>3. ASSUME NEW r \in Slots, CommitCreation(r) PROVE Directory!Next
  <2>1. PICK w \in Workspaces, u \in Users : w = req[r].ws /\ u = req[r].user
    BY <1>3, CreationIsNew
  <2>2. w \notin Known /\ Known' = Known \cup {w}
    BY <1>3, <2>1, CreationIsNew DEF Known
  <2>3. members' = members \cup {<<w, u>>} /\ mails' = mails
    BY <1>3, <2>1 DEF CommitCreation, others, inviteTables
  <2>4. Directory!Found(w, u)
    BY <2>2, <2>3 DEF Directory!Found
  <2> QED
    BY <2>4 DEF Directory!Next
<1>4. ASSUME NEW r \in Slots, DispatchInvite(r) PROVE Directory!Next
  <2>1. PICK w \in Workspaces, u \in Users : w = req[r].ws /\ u = req[r].who /\ w \in Known
    BY <1>4 DEF DispatchInvite, At, IInv, Sound, OnWorkspace, Inviting, OnMember, Known
  <2>2. PICK m : m.ws = w /\ m.to = u /\ mails' = mails \cup {m}
    BY <1>4, <2>1 DEF DispatchInvite
  <2>3. {<<n.ws, n.to>> : n \in mails'} = {<<n.ws, n.to>> : n \in mails} \cup {<<w, u>>}
    BY <2>2
  <2>4. UNCHANGED members /\ Known' = Known
    BY <1>4 DEF DispatchInvite, besides, Known
  <2>5. Directory!Invite(w, u)
    BY <2>1, <2>3, <2>4 DEF Directory!Invite
  <2> QED
    BY <2>5 DEF Directory!Next
<1>5. ASSUME NEW r \in Slots, JoinWorkspace(r) PROVE Directory!Next
  <2>1. req[r].pc \in Accepting
    BY <1>5 DEF JoinWorkspace, At, Accepting
  <2>2. PICK w \in Workspaces, u \in Users : w = req[r].ws /\ u = req[r].who /\ InvitedTo(w, u)
    BY <2>1, AcceptsInvited
  <2>3. members' = members \cup {<<w, u>>} /\ mails' = mails /\ Known' = Known
    BY <1>5, <2>2 DEF JoinWorkspace, besides, inviteTables, Known
  <2>4. <<w, u>> \in {<<m.ws, m.to>> : m \in mails}
    BY <2>2 DEF InvitedTo
  <2>5. Directory!Join(w, u)
    BY <2>3, <2>4 DEF Directory!Join
  <2> QED
    BY <2>5 DEF Directory!Next
<1>6. ASSUME NEW r \in Slots, Serve(r), ~CommitCreation(r), ~DispatchInvite(r),
             ~JoinWorkspace(r)
      PROVE  UNCHANGED Directory!vars
  <2>1. UNCHANGED <<members, mails>>
    BY <1>6, MembersKept
  <2>2. Known' = Known
    <3>1. CASE CommitDeletion(r)
      BY <3>1 DEF CommitDeletion, Known, IInv, TablesTypeOK, At, Sound, OnWorkspace
    <3>2. CASE ~CommitDeletion(r)
      BY <1>6, <3>2, WorkspacesKept DEF Known
    <3> QED
      BY <3>1, <3>2
  <2> QED
    BY <2>1, <2>2
<1> QED
  BY <1>1, <1>2, <1>3, <1>4, <1>5, <1>6, NextServes

\* The tenancy implements the directory of workspaces and members.
THEOREM Refinement == Spec => ImplementsDirectory
<1>1. Init => Directory!Init
  BY DEF Init, TablesInit, Directory!Init, Known
<1> QED
  BY <1>1, StepRefines, Invariance, PTL DEF Spec, ImplementsDirectory, Directory!Spec
==============================================================================
