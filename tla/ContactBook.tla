---------------------------- MODULE ContactBook ----------------------------
(***************************************************************************)
(* The contacts of one workspace (ContactService): creation, update and    *)
(* deletion by requests that interleave. A contact is identified by its    *)
(* auto-increment id; the database hands the ids out when an insert        *)
(* starts, so rows can become visible in another order.                    *)
(*                                                                         *)
(* An update and a deletion find the contact through their transaction and *)
(* end with one write and its commit, which is one step here: the lock on  *)
(* the row keeps other writers out in between, readers see the old row.    *)
(***************************************************************************)
EXTENDS Naturals, FiniteSets

CONSTANTS
  MaxContact,   \* bound on the ids handed out
  Existing,     \* the first names of the contacts at the start, in lists
  Values,       \* the texts a column can hold, ordered as numbers
  Updates,      \* the data that updates send
  Writers       \* the requests that write, one after another in each

ASSUME ContactsAssumption ==
  /\ MaxContact \in Nat
  /\ Values \subseteq Nat \ {0}

VARIABLES
  book,    \* book[c]: the row of contact c
  writer   \* writer[w]: the request in slot w

None == "none"

\* What a column without a text holds.
Null == 0

Contacts == 1..MaxContact

Columns == {"first_name", "last_name"}

Texts == Values \cup {Null}

ASSUME ExistingAssumption == Existing \subseteq UNION {[1..n -> Texts] : n \in 0..MaxContact}

Blank == [k \in Columns |-> Null]

\* uid orders the contacts by their public identifier.
Absent == [state |-> "absent", uid |-> 0, data |-> Blank]

\* The data of an update. A replacement sends every column, null for the ones
\* left out but for the required first name; a partial update sends the
\* columns it has.
Replacements == {d \in [Columns -> Texts] : d["first_name"] # Null}

Partials == UNION {[K -> Values] : K \in SUBSET Columns}

Data == Replacements \cup Partials

ASSUME UpdatesAssumption == Updates \subseteq Data

Free == [pc |-> "free", contact |-> 0, sent |-> <<>>, read |-> Blank]

BookTypeOK ==
  /\ book \in [Contacts -> [state : {"absent", "inserting", "live", "lost", "deleted"},
                            uid : 0..MaxContact, data : [Columns -> Texts]]]
  /\ writer \in [Writers -> [pc : {"free", "insert", "save", "remove"},
                             contact : 0..MaxContact, sent : Data,
                             read : [Columns -> Texts]]]

Live == {c \in Contacts : book[c].state = "live"}

Taken == {c \in Contacts : book[c].state # "absent"}

BookInit ==
  /\ \E first \in Existing : \E uid \in [DOMAIN first -> Contacts] :
       /\ \A c, d \in DOMAIN first : uid[c] = uid[d] => c = d
       /\ book = [c \in Contacts |->
            IF c \in DOMAIN first
            THEN [state |-> "live", uid |-> uid[c],
                  data |-> [Blank EXCEPT !["first_name"] = first[c]]]
            ELSE Absent]
  /\ writer = [w \in Writers |-> Free]

---------------------------------------------------------------------------
AtWriter(w, step) == writer[w].pc = step

Answered(w) == writer' = [writer EXCEPT ![w] = Free]

\* The database hands out the next id; the process makes up the identifier.
CreateContact(w) ==
  /\ AtWriter(w, "free")
  /\ Cardinality(Taken) < MaxContact
  /\ LET c == Cardinality(Taken) + 1 IN
       \E uid \in Contacts \ {book[d].uid : d \in Taken}, first \in Values :
         /\ book' = [book EXCEPT ![c] =
              [state |-> "inserting", uid |-> uid,
               data |-> [Blank EXCEPT !["first_name"] = first]]]
         /\ writer' = [writer EXCEPT ![w] = [Free EXCEPT !.pc = "insert", !.contact = c]]

\* The insert commits by itself; an insert that fails has used up its id.
InsertContact(w) ==
  /\ AtWriter(w, "insert")
  /\ \E state \in {"live", "lost"} : book' = [book EXCEPT ![writer[w].contact].state = state]
  /\ Answered(w)

\* A contact that is not found, or deleted, ends the request with an error.
UpdateContact(w) ==
  /\ AtWriter(w, "free")
  /\ \E c \in Live, sent \in Updates :
       writer' = [writer EXCEPT ![w] =
         [pc |-> "save", contact |-> c, sent |-> sent, read |-> book[c].data]]
  /\ UNCHANGED book

DeleteContact(w) ==
  /\ AtWriter(w, "free")
  /\ \E c \in Live : writer' = [writer EXCEPT ![w] =
                       [Free EXCEPT !.pc = "remove", !.contact = c]]
  /\ UNCHANGED book

\* The columns the save writes: the ones that differ from the row as read.
Dirty(w) ==
  {k \in DOMAIN writer[w].sent : writer[w].sent[k] # writer[w].read[k]}

\* Mutant of SaveContact: the save writes every column of the row it read.
SaveWholeRow(w) ==
  /\ AtWriter(w, "save")
  /\ book' = [book EXCEPT ![writer[w].contact].data =
       [k \in Columns |-> IF k \in Dirty(w) THEN writer[w].sent[k] ELSE writer[w].read[k]]]
  /\ Answered(w)

\* The row is addressed by its id alone, deleted in the meantime or not.
SaveContact(w) ==
  /\ AtWriter(w, "save")
  /\ book' = [book EXCEPT ![writer[w].contact].data =
       [k \in Columns |-> IF k \in Dirty(w) THEN writer[w].sent[k] ELSE @[k]]]
  /\ Answered(w)

RemoveContact(w) ==
  /\ AtWriter(w, "remove")
  /\ book' = [book EXCEPT ![writer[w].contact].state = "deleted"]
  /\ Answered(w)

\* A query that fails, or a commit; the transaction wrote nothing.
FailWrite(w) ==
  /\ writer[w].pc \in {"save", "remove"}
  /\ Answered(w)
  /\ UNCHANGED book

Write(w) ==
  \/ CreateContact(w) \/ InsertContact(w)
  \/ UpdateContact(w) \/ DeleteContact(w)
  \/ SaveContact(w) \/ RemoveContact(w) \/ FailWrite(w)
===========================================================================
