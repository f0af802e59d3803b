------------------------- MODULE ContactAttributes -------------------------
(***************************************************************************)
(* The contact attributes of one workspace (ContactAttributeService). An   *)
(* attribute is identified by its slug: the unique index on workspace and  *)
(* slug counts deleted rows, so a slug has one row for ever. The default   *)
(* attributes stand for columns of the contacts and are there from the     *)
(* start.                                                                  *)
(*                                                                         *)
(* A request stages its writes in a transaction, commits by itself, and    *)
(* reads the row again for its answer, which may fail. The data types are  *)
(* told apart as far as the code does: choices have options, the others    *)
(* have none.                                                              *)
(***************************************************************************)
EXTENDS ContactBook

CONSTANTS
  Mapped,   \* the columns with a default attribute, whose slug is their name
  Own,      \* the slugs for attributes of the workspace's own
  Options,  \* the option values there are
  Edits,    \* the kinds and options that requests send
  Editors   \* the requests that edit, one after another in each

VARIABLES
  attribute,  \* attribute[s]: the row with slug s
  editor      \* editor[e]: the request in slot e

Slugs == Mapped \cup Own

MappingOf(s) == IF s \in Mapped THEN s ELSE None

Kinds == {"plain", "choice"}

\* Options that are not sent, which is not the same as an empty list.
Unsent == {None}

\* op, slug, kind, options: what the request asks for, None for a kind that is
\* not sent; read: the kind of the row it found.
Idle == [pc |-> "idle", op |-> None, slug |-> None, kind |-> None, options |-> Unsent,
         read |-> None]

ASSUME EditsAssumption ==
  Edits \subseteq [kind : Kinds \cup {None}, options : (SUBSET Options) \cup {Unsent}]

AttributesTypeOK ==
  /\ attribute \in [Slugs -> [state : {"absent", "live", "deleted"}, kind : Kinds,
                              options : SUBSET Options]]
  /\ editor \in [Editors ->
       [pc : {"idle", "insert", "merge", "replace", "commit", "fresh"},
        op : {None, "create", "update", "delete"}, slug : Slugs \cup {None},
        kind : Kinds \cup {None}, options : (SUBSET Options) \cup {Unsent},
        read : Kinds \cup {None}]]

AttributesInit ==
  /\ attribute = [s \in Slugs |->
       [state |-> IF s \in Mapped THEN "live" ELSE "absent", kind |-> "plain",
        options |-> {}]]
  /\ editor = [e \in Editors |-> Idle]

---------------------------------------------------------------------------
AtEditor(e, step) == editor[e].pc = step

GotoEditor(e, step) == editor' = [editor EXCEPT ![e].pc = step]

AnsweredEdit(e) == editor' = [editor EXCEPT ![e] = Idle]

Known(s) == attribute[s].state = "live"

\* The request's save writes the kind only if it differs from the row as read.
KindIsDirty(e) == editor[e].kind # None /\ editor[e].kind # editor[e].read

\* The steps at which a transaction holds the lock on the row of its slug or
\* on the options of it.
LocksRow(e) ==
  \/ editor[e].pc \in {"replace", "commit"} /\ editor[e].op = "update" /\ KindIsDirty(e)
  \/ AtEditor(e, "commit") /\ editor[e].op # "update"

LocksOptions(e) ==
  AtEditor(e, "commit") /\ editor[e].op = "update" /\ editor[e].options # Unsent

RowIsFree(e) == \A f \in Editors \ {e} : LocksRow(f) => editor[f].slug # editor[e].slug

OptionsAreFree(e) ==
  \A f \in Editors \ {e} : LocksOptions(f) => editor[f].slug # editor[e].slug

\* A choice needs options, each once, and nothing else may have any; an update
\* is held to it only when it sends the kind.
Fits(edit) ==
  /\ edit.kind = "choice" => edit.options \notin {Unsent, {}}
  /\ edit.kind = "plain" => edit.options \in {Unsent, {}}

\* The check for a clash sees the rows that are not deleted.
CreateAttribute(e) ==
  /\ AtEditor(e, "idle")
  /\ \E s \in Slugs, edit \in Edits :
       /\ edit.kind # None /\ edit.options # Unsent /\ Fits(edit)
       /\ ~Known(s)
       /\ editor' = [editor EXCEPT ![e] =
            [Idle EXCEPT !.pc = "insert", !.op = "create", !.slug = s, !.kind = edit.kind,
                         !.options = edit.options]]
  /\ UNCHANGED attribute

\* The unique index has the last word, about deleted rows and about a row
\* that another transaction inserts.
InsertAttribute(e) ==
  /\ AtEditor(e, "insert")
  /\ RowIsFree(e)
  /\ IF attribute[editor[e].slug].state = "absent"
     THEN GotoEditor(e, "commit") ELSE AnsweredEdit(e)
  /\ UNCHANGED attribute

UpdateAttribute(e) ==
  /\ AtEditor(e, "idle")
  /\ \E s \in Slugs, edit \in Edits :
       /\ Known(s) /\ Fits(edit)
       /\ editor' = [editor EXCEPT ![e] =
            [pc |-> "merge", op |-> "update", slug |-> s, kind |-> edit.kind,
             options |-> edit.options, read |-> attribute[s].kind]]
  /\ UNCHANGED attribute

DeleteAttribute(e) ==
  /\ AtEditor(e, "idle")
  /\ \E s \in Slugs :
       /\ Known(s)
       /\ editor' = [editor EXCEPT ![e] =
            [Idle EXCEPT !.pc = "merge", !.op = "delete", !.slug = s,
                         !.read = attribute[s].kind]]
  /\ UNCHANGED attribute

\* The row is saved, or marked deleted, through the transaction that found it.
MergeAttribute(e) ==
  /\ AtEditor(e, "merge")
  /\ editor[e].op = "delete" \/ KindIsDirty(e) => RowIsFree(e)
  /\ GotoEditor(e, IF editor[e].op = "delete" THEN "commit" ELSE "replace")
  /\ UNCHANGED attribute

\* Options that were sent, an empty list too, take the place of all others.
ReplaceOptions(e) ==
  /\ AtEditor(e, "replace")
  /\ editor[e].options # Unsent => OptionsAreFree(e)
  /\ GotoEditor(e, "commit")
  /\ UNCHANGED attribute

\* Mutant of Committed: options are written whether they were sent or not.
CommittedUnchecked(e) ==
  LET row == attribute[editor[e].slug] IN
  CASE editor[e].op = "create" ->
         [state |-> "live", kind |-> editor[e].kind, options |-> editor[e].options]
    [] editor[e].op = "update" ->
         [row EXCEPT !.kind = IF KindIsDirty(e) THEN editor[e].kind ELSE @,
                     !.options = editor[e].options]
    [] editor[e].op = "delete" -> [row EXCEPT !.state = "deleted"]

Committed(e) ==
  LET row == attribute[editor[e].slug] IN
  CASE editor[e].op = "create" ->
         [state |-> "live", kind |-> editor[e].kind, options |-> editor[e].options]
    [] editor[e].op = "update" ->
         [row EXCEPT !.kind = IF KindIsDirty(e) THEN editor[e].kind ELSE @,
                     !.options = IF editor[e].options = Unsent THEN @ ELSE editor[e].options]
    [] editor[e].op = "delete" -> [row EXCEPT !.state = "deleted"]

\* Mutant of CommitAttribute: the row is written as this request read it.
CommitWholeAttribute(e) ==
  /\ AtEditor(e, "commit")
  /\ attribute' = [attribute EXCEPT ![editor[e].slug] =
       IF editor[e].op = "update" THEN [Committed(e) EXCEPT !.state = "live"] ELSE Committed(e)]
  /\ GotoEditor(e, "fresh")

\* Deleting leaves the options where they are.
CommitAttribute(e) ==
  /\ AtEditor(e, "commit")
  /\ attribute' = [attribute EXCEPT ![editor[e].slug] = Committed(e)]
  /\ GotoEditor(e, "fresh")

\* The row for the answer is read outside the transaction.
ReadFresh(e) ==
  /\ AtEditor(e, "fresh")
  /\ AnsweredEdit(e)
  /\ UNCHANGED attribute

\* A query that fails, a lock that is not granted, a deadlock: the transaction
\* is rolled back.
FailEdit(e) ==
  /\ editor[e].pc \notin {"idle", "fresh"}
  /\ AnsweredEdit(e)
  /\ UNCHANGED attribute

Edit(e) ==
  \/ CreateAttribute(e) \/ InsertAttribute(e)
  \/ UpdateAttribute(e) \/ DeleteAttribute(e) \/ MergeAttribute(e)
  \/ ReplaceOptions(e) \/ CommitAttribute(e) \/ ReadFresh(e) \/ FailEdit(e)
===========================================================================
