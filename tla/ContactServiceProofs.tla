------------------------ MODULE ContactServiceProofs ------------------------
(***************************************************************************)
(* Proofs about ContactService, for any number of contacts, attributes,    *)
(* requests and walks: what no interleaving of the requests that write may *)
(* do to a row, and what the walks over the pages are shown.               *)
(*                                                                         *)
(* A save or a deletion is of a row that was live, and an insert is of an  *)
(* id of its own, because the ids handed out are an initial segment of the *)
(* ids (IdsInOrder). An attribute is created on a slug without a row,      *)
(* because the transaction that inserts it locks the slug (LocksExclude).  *)
(*                                                                         *)
(* A basic walk has shown what stayed up to its cursor (BasicSound). A     *)
(* numbered one has shown the first rows of the only order there is        *)
(* (OneOrder, NumberSound), and a page appends the next ones (NextRows).   *)
(***************************************************************************)
EXTENDS ContactService, FiniteSetTheorems, SequenceTheorems, WellFoundedInduction, TLAPS

RowType == [state : {"absent", "inserting", "live", "lost", "deleted"},
            uid : 0..MaxContact, data : [Columns -> Texts]]

WriterType == [pc : {"free", "insert", "save", "remove"}, contact : 0..MaxContact,
               sent : Data \cup {<<>>}, read : [Columns -> Texts]]

IdsInOrder == \E n \in 0..MaxContact : Taken = 1..n

WriterSound(w) ==
  /\ writer[w].pc = "insert" =>
       /\ writer[w].contact \in Contacts /\ book[writer[w].contact].state = "inserting"
       /\ \A v \in Writers : writer[v].pc = "insert" /\ writer[v].contact = writer[w].contact
                               => v = w
  /\ writer[w].pc \in {"save", "remove"} =>
       /\ writer[w].contact \in Contacts
       /\ book[writer[w].contact].state \in {"live", "deleted"}

BookInv ==
  /\ book \in [Contacts -> RowType]
  /\ writer \in [Writers -> WriterType]
  /\ IdsInOrder
  /\ \A w \in Writers : WriterSound(w)

\* What a step does to the contacts.
ContactsStep ==
  /\ \A c \in Contacts : book[c].state = "deleted" => book'[c].state = "deleted"
  /\ \A c \in Contacts, k \in Columns :
       book[c].state # "absent" /\ book'[c].data[k] # book[c].data[k] =>
         \E w \in Writers : /\ AtWriter(w, "save") /\ writer[w].contact = c
                            /\ k \in DOMAIN writer[w].sent
                            /\ book'[c].data[k] = writer[w].sent[k]

EditorType ==
  [pc : {"idle", "insert", "merge", "replace", "commit", "fresh"},
   op : {None, "create", "update", "delete"}, slug : Slugs \cup {None},
   kind : Kinds \cup {None}, options : (SUBSET Options) \cup {Unsent},
   read : Kinds \cup {None}]

EditorSound(e) ==
  /\ editor[e].pc # "idle" => editor[e].slug \in Slugs
  /\ editor[e].pc = "insert" => editor[e].op = "create"
  /\ editor[e].pc = "merge" => editor[e].op \in {"update", "delete"}
  /\ editor[e].pc = "replace" => editor[e].op = "update"
  /\ editor[e].pc = "commit" => editor[e].op \in {"create", "update", "delete"}
  /\ editor[e].op = "create" =>
       editor[e].kind \in Kinds /\ editor[e].options \in SUBSET Options
  /\ editor[e].pc = "commit" /\ editor[e].op = "create" =>
       attribute[editor[e].slug].state = "absent"

LocksExclude ==
  \A e, f \in Editors :
    e # f /\ LocksRow(e) /\ LocksRow(f) => editor[e].slug # editor[f].slug

AttributesInv ==
  /\ attribute \in [Slugs -> [state : {"absent", "live", "deleted"}, kind : Kinds,
                              options : SUBSET Options]]
  /\ editor \in [Editors -> EditorType]
  /\ \A e \in Editors : EditorSound(e)
  /\ LocksExclude

\* What a step does to the attributes.
AttributesStep ==
  \A s \in Slugs :
    /\ attribute[s].state = "deleted" => attribute'[s].state = "deleted"
    /\ attribute'[s].kind # attribute[s].kind =>
         \E e \in Editors : AtEditor(e, "commit") /\ attribute'[s].kind = editor[e].kind
    /\ attribute'[s].options # attribute[s].options =>
         \E e \in Editors : AtEditor(e, "commit") /\ attribute'[s].options = editor[e].options

---------------------------------------------------------------------------
(* Contacts                                                                *)

\* A request that ends leaves the other writers sound, if the rows they hold
\* stay what they need.
LEMMA AnsweredKeeps ==
  ASSUME BookInv, NEW w \in Writers, Answered(w)
  PROVE  /\ writer' \in [Writers -> WriterType] /\ writer'[w].pc = "free"
         /\ \A v \in Writers \ {w} : writer'[v] = writer[v]
<1>1. Free \in WriterType
  BY ContactsAssumption DEF Free, WriterType, Blank, Texts
<1> QED
  BY <1>1 DEF BookInv, Answered, Free

LEMMA CreateKeeps ==
  ASSUME BookInv, NEW w \in Writers, CreateContact(w)
  PROVE  BookInv' /\ ContactsStep
<1>1. PICK n \in 0..MaxContact : Taken = 1..n
  BY DEF BookInv, IdsInOrder
<1>2. MaxContact \in Nat
  BY ContactsAssumption
<1>3. Cardinality(Taken) = n
  BY <1>1, FS_Interval
<1>4. PICK c : c = n + 1
  OBVIOUS
<1>5. c \in Contacts /\ n < MaxContact
  BY <1>2, <1>3, <1>4 DEF CreateContact, Contacts
<1>6. PICK uid \in Contacts, first \in Values :
        /\ book' = [book EXCEPT ![c] =
             [state |-> "inserting", uid |-> uid,
              data |-> [Blank EXCEPT !["first_name"] = first]]]
        /\ writer' = [writer EXCEPT ![w] = [Free EXCEPT !.pc = "insert", !.contact = c]]
  BY <1>3, <1>4 DEF CreateContact
<1>7. PICK row : row = [state |-> "inserting", uid |-> uid,
                        data |-> [Blank EXCEPT !["first_name"] = first]]
  OBVIOUS
<1>8. row \in RowType /\ row.state = "inserting"
  BY <1>2, <1>7 DEF RowType, Blank, Texts, Contacts, Columns
<1>9. PICK place : place = [Free EXCEPT !.pc = "insert", !.contact = c]
  OBVIOUS
<1>10. place \in WriterType /\ place.pc = "insert" /\ place.contact = c
  <2>1. place = [pc |-> "insert", contact |-> c, sent |-> <<>>, read |-> Blank]
    BY <1>9 DEF Free
  <2>2. Blank \in [Columns -> Texts] /\ c \in 0..MaxContact
    BY <1>2, <1>5 DEF Blank, Texts, Contacts
  <2> QED
    BY <2>1, <2>2 DEF WriterType
<1>11. /\ book' = [book EXCEPT ![c] = row] /\ writer' = [writer EXCEPT ![w] = place]
       /\ book' \in [Contacts -> RowType] /\ writer' \in [Writers -> WriterType]
       /\ book'[c] = row /\ writer'[w] = place
       /\ \A d \in Contacts \ {c} : book'[d] = book[d]
       /\ \A v \in Writers \ {w} : writer'[v] = writer[v]
  BY <1>5, <1>6, <1>7, <1>8, <1>9, <1>10 DEF BookInv
<1>12. book[c].state = "absent"
  BY <1>1, <1>4, <1>5 DEF Taken
<1>13. IdsInOrder'
  <2>1. Taken' = Taken \cup {c}
    BY <1>5, <1>8, <1>11 DEF Taken
  <2>2. Taken' = 1..(n + 1) /\ n + 1 \in 0..MaxContact
    BY <1>1, <1>2, <1>4, <1>5, <2>1
  <2> QED
    BY <2>2 DEF IdsInOrder
<1>14. \A v \in Writers : WriterSound(v)'
  BY <1>5, <1>8, <1>10, <1>11, <1>12 DEF BookInv, WriterSound
<1>15. ContactsStep
  BY <1>11, <1>12 DEF ContactsStep
<1> QED
  BY <1>11, <1>13, <1>14, <1>15 DEF BookInv

\* A step that keeps which ids are taken keeps them in order.
LEMMA OrderKept ==
  ASSUME IdsInOrder,
         \A c \in Contacts : book[c].state = "absent" <=> book'[c].state = "absent"
  PROVE  IdsInOrder'
<1>1. Taken' = Taken
  BY DEF Taken
<1> QED
  BY <1>1 DEF IdsInOrder

LEMMA InsertKeeps ==
  ASSUME BookInv, NEW w \in Writers, InsertContact(w)
  PROVE  BookInv' /\ ContactsStep
<1>1. PICK c \in Contacts, state \in {"live", "lost"} :
        /\ writer[w].contact = c /\ writer[w].pc = "insert" /\ book[c].state = "inserting"
        /\ book' = [book EXCEPT ![c].state = state]
        /\ \A v \in Writers : writer[v].pc = "insert" /\ writer[v].contact = c => v = w
  <2>1. writer[w].pc = "insert" /\ WriterSound(w)
    BY DEF BookInv, InsertContact, AtWriter
  <2>2. \E state \in {"live", "lost"} : book' = [book EXCEPT ![writer[w].contact].state = state]
    BY DEF InsertContact
  <2> QED
    BY <2>1, <2>2 DEF WriterSound
<1>2. /\ writer' \in [Writers -> WriterType] /\ writer'[w].pc = "free"
      /\ \A v \in Writers \ {w} : writer'[v] = writer[v]
  BY AnsweredKeeps DEF InsertContact
<1>3. /\ book' \in [Contacts -> RowType]
      /\ book'[c].state = state /\ book'[c].data = book[c].data
      /\ \A d \in Contacts \ {c} : book'[d] = book[d]
  BY <1>1 DEF BookInv, RowType
<1>4. IdsInOrder'
  BY <1>1, <1>3, OrderKept DEF BookInv
<1>5. \A v \in Writers : WriterSound(v)'
  BY <1>1, <1>2, <1>3 DEF BookInv, WriterSound
<1>6. ContactsStep
  BY <1>1, <1>3 DEF ContactsStep
<1> QED
  BY <1>2, <1>3, <1>4, <1>5, <1>6 DEF BookInv

LEMMA FindKeeps ==
  ASSUME BookInv, NEW w \in Writers, UpdateContact(w) \/ DeleteContact(w)
  PROVE  BookInv' /\ ContactsStep
<1>1. PICK c, place :
        /\ c \in Live
        /\ writer' = [writer EXCEPT ![w] = place]
        /\ \/ \E sent \in Updates :
                place = [pc |-> "save", contact |-> c, sent |-> sent, read |-> book[c].data]
           \/ place = [Free EXCEPT !.pc = "remove", !.contact = c]
  BY DEF UpdateContact, DeleteContact
<1>2. c \in Contacts /\ book[c].state = "live" /\ c \in 0..MaxContact
  BY <1>1, ContactsAssumption DEF Live, Contacts
<1>3. place \in WriterType /\ place.pc \in {"save", "remove"} /\ place.contact = c
  <2>1. CASE \E sent \in Updates :
               place = [pc |-> "save", contact |-> c, sent |-> sent, read |-> book[c].data]
    BY <1>2, <2>1, UpdatesAssumption DEF WriterType, BookInv, RowType
  <2>2. CASE place = [Free EXCEPT !.pc = "remove", !.contact = c]
    <3>1. place = [pc |-> "remove", contact |-> c, sent |-> <<>>, read |-> Blank]
      BY <2>2 DEF Free
    <3>2. Blank \in [Columns -> Texts]
      BY DEF Blank, Texts
    <3> QED
      BY <1>2, <3>1, <3>2 DEF WriterType
  <2> QED
    BY <1>1, <2>1, <2>2
<1>4. /\ UNCHANGED book /\ writer' \in [Writers -> WriterType] /\ writer'[w] = place
      /\ \A v \in Writers \ {w} : writer'[v] = writer[v]
  BY <1>1, <1>3 DEF BookInv, UpdateContact, DeleteContact
<1>5. \A v \in Writers : WriterSound(v)'
  BY <1>2, <1>3, <1>4 DEF BookInv, WriterSound
<1>6. IdsInOrder' /\ ContactsStep
  BY <1>4, OrderKept DEF BookInv, ContactsStep
<1> QED
  BY <1>4, <1>5, <1>6 DEF BookInv

\* What an update sends for a column is a text.
LEMMA SentTexts ==
  ASSUME NEW sent \in Data \cup {<<>>}, NEW k \in Columns, k \in DOMAIN sent
  PROVE  sent[k] \in Texts
<1>1. CASE sent \in Replacements
  BY <1>1 DEF Replacements
<1>2. CASE sent \in Partials
  <2>1. PICK K \in SUBSET Columns : sent \in [K -> Values]
    BY <1>2 DEF Partials
  <2> QED
    BY <2>1 DEF Texts
<1>3. CASE sent = <<>>
  BY <1>3
<1> QED
  BY <1>1, <1>2, <1>3 DEF Data

LEMMA SaveKeeps ==
  ASSUME BookInv, NEW w \in Writers, SaveContact(w)
  PROVE  BookInv' /\ ContactsStep
<1>1. PICK c \in Contacts :
        /\ writer[w].contact = c /\ writer[w].pc = "save"
        /\ book[c].state \in {"live", "deleted"}
  BY DEF BookInv, WriterSound, SaveContact, AtWriter
<1>2. PICK data : data = [k \in Columns |-> IF k \in Dirty(w) THEN writer[w].sent[k]
                                            ELSE book[c].data[k]]
  OBVIOUS
<1>3. data \in [Columns -> Texts]
  <2>1. writer[w].sent \in Data \cup {<<>>} /\ book[c].data \in [Columns -> Texts]
    BY DEF BookInv, RowType, WriterType
  <2>2. \A k \in Dirty(w) : k \in DOMAIN writer[w].sent
    BY DEF Dirty
  <2>3. \A k \in Columns : k \in Dirty(w) => writer[w].sent[k] \in Texts
    BY <2>1, <2>2, SentTexts
  <2> QED
    BY <1>2, <2>1, <2>3
<1>4. book' = [book EXCEPT ![c].data = data]
  BY <1>1, <1>2 DEF SaveContact, BookInv, RowType
<1>5. /\ book' \in [Contacts -> RowType]
      /\ book'[c].state = book[c].state /\ book'[c].data = data
      /\ \A d \in Contacts \ {c} : book'[d] = book[d]
  BY <1>3, <1>4 DEF BookInv, RowType
<1>6. /\ writer' \in [Writers -> WriterType] /\ writer'[w].pc = "free"
      /\ \A v \in Writers \ {w} : writer'[v] = writer[v]
  BY AnsweredKeeps DEF SaveContact
<1>7. IdsInOrder'
  BY <1>5, OrderKept DEF BookInv
<1>8. \A v \in Writers : WriterSound(v)'
  BY <1>5, <1>6 DEF BookInv, WriterSound
<1>9. ASSUME NEW k \in Columns, book'[c].data[k] # book[c].data[k]
      PROVE  k \in DOMAIN writer[w].sent /\ book'[c].data[k] = writer[w].sent[k]
  BY <1>2, <1>5, <1>9 DEF Dirty
<1>10. ContactsStep
  BY <1>1, <1>5, <1>9 DEF ContactsStep, AtWriter
<1> QED
  BY <1>5, <1>6, <1>7, <1>8, <1>10 DEF BookInv

LEMMA RemoveKeeps ==
  ASSUME BookInv, NEW w \in Writers, RemoveContact(w)
  PROVE  BookInv' /\ ContactsStep
<1>1. PICK c \in Contacts :
        /\ writer[w].contact = c /\ book[c].state \in {"live", "deleted"}
        /\ book' = [book EXCEPT ![c].state = "deleted"]
  BY DEF BookInv, WriterSound, RemoveContact, AtWriter
<1>2. /\ writer' \in [Writers -> WriterType] /\ writer'[w].pc = "free"
      /\ \A v \in Writers \ {w} : writer'[v] = writer[v]
  BY AnsweredKeeps DEF RemoveContact
<1>3. /\ book' \in [Contacts -> RowType]
      /\ book'[c].state = "deleted" /\ book'[c].data = book[c].data
      /\ \A d \in Contacts \ {c} : book'[d] = book[d]
  BY <1>1 DEF BookInv, RowType
<1>4. IdsInOrder'
  BY <1>1, <1>3, OrderKept DEF BookInv
<1>5. \A v \in Writers : WriterSound(v)'
  BY <1>1, <1>2, <1>3 DEF BookInv, WriterSound
<1>6. ContactsStep
  BY <1>1, <1>3 DEF ContactsStep
<1> QED
  BY <1>2, <1>3, <1>4, <1>5, <1>6 DEF BookInv

LEMMA FailKeeps ==
  ASSUME BookInv, NEW w \in Writers, FailWrite(w)
  PROVE  BookInv' /\ ContactsStep
<1>1. /\ UNCHANGED book
      /\ writer' \in [Writers -> WriterType] /\ writer'[w].pc = "free"
      /\ \A v \in Writers \ {w} : writer'[v] = writer[v]
  BY AnsweredKeeps DEF FailWrite
<1>2. IdsInOrder'
  BY <1>1, OrderKept DEF BookInv
<1>3. (\A v \in Writers : WriterSound(v)') /\ ContactsStep
  BY <1>1 DEF BookInv, WriterSound, ContactsStep
<1> QED
  BY <1>1, <1>2, <1>3 DEF BookInv

LEMMA WriteKeeps ==
  ASSUME BookInv, NEW w \in Writers, Write(w)
  PROVE  BookInv' /\ ContactsStep
BY CreateKeeps, InsertKeeps, FindKeeps, SaveKeeps, RemoveKeeps, FailKeeps DEF Write

LEMMA BookUntouched ==
  ASSUME BookInv, UNCHANGED <<book, writer>>
  PROVE  BookInv' /\ ContactsStep
BY OrderKept DEF BookInv, WriterSound, ContactsStep

---------------------------------------------------------------------------
(* Attributes                                                              *)

\* A step of an editor that writes no row keeps the invariant, if it leaves
\* the editor sound, and takes the lock on a row only when it is free.
LEMMA NoCommit ==
  ASSUME AttributesInv, NEW e \in Editors, NEW place \in EditorType,
         editor' = [editor EXCEPT ![e] = place], UNCHANGED attribute, EditorSound(e)',
         LocksRow(e)' => \/ LocksRow(e) /\ place.slug = editor[e].slug
                         \/ RowIsFree(e) /\ place.slug = editor[e].slug
  PROVE  AttributesInv' /\ AttributesStep
<1>1. /\ editor' \in [Editors -> EditorType] /\ editor'[e] = place
      /\ \A f \in Editors \ {e} : editor'[f] = editor[f]
  BY DEF AttributesInv
<1>2. \A f \in Editors : EditorSound(f)'
  BY <1>1 DEF AttributesInv, EditorSound
<1>3. \A f \in Editors \ {e} : LocksRow(f)' <=> LocksRow(f)
  BY <1>1 DEF LocksRow, KindIsDirty, AtEditor
<1>4. \A f \in Editors \ {e} : LocksRow(e)' /\ LocksRow(f) => editor[f].slug # place.slug
  BY DEF AttributesInv, LocksExclude, RowIsFree
<1>5. LocksExclude'
  BY <1>1, <1>3, <1>4 DEF AttributesInv, LocksExclude
<1>6. AttributesStep
  BY DEF AttributesStep
<1> QED
  BY <1>1, <1>2, <1>5, <1>6 DEF AttributesInv

\* Beginning a request, and ending one, takes no lock.
LEMMA Begins ==
  ASSUME AttributesInv, NEW e \in Editors, NEW place \in EditorType,
         editor' = [editor EXCEPT ![e] = place], UNCHANGED attribute, EditorSound(e)',
         place.pc \notin {"replace", "commit"}
  PROVE  AttributesInv' /\ AttributesStep
<1>1. editor'[e] = place
  BY DEF AttributesInv
<1>2. ~LocksRow(e)'
  BY <1>1 DEF LocksRow, AtEditor
<1> QED
  BY <1>2, NoCommit

LEMMA IdleEditor ==
  /\ Idle \in EditorType
  /\ Idle.pc = "idle" /\ Idle.op = None
BY DEF Idle, EditorType

LEMMA EndKeeps ==
  ASSUME AttributesInv, NEW e \in Editors, AnsweredEdit(e), UNCHANGED attribute
  PROVE  AttributesInv' /\ AttributesStep
<1>1. editor' = [editor EXCEPT ![e] = Idle] /\ editor'[e] = Idle
  BY DEF AttributesInv, AnsweredEdit
<1>2. EditorSound(e)'
  BY <1>1, IdleEditor DEF EditorSound, None
<1> QED
  BY <1>1, <1>2, IdleEditor, Begins

\* What the requests of an edit send.
LEMMA SentEdit ==
  ASSUME NEW edit \in Edits
  PROVE  edit.kind \in Kinds \cup {None} /\ edit.options \in (SUBSET Options) \cup {Unsent}
BY EditsAssumption

LEMMA BeginKeeps ==
  ASSUME AttributesInv, NEW e \in Editors,
         CreateAttribute(e) \/ UpdateAttribute(e) \/ DeleteAttribute(e)
  PROVE  AttributesInv' /\ AttributesStep
<1>1. CASE CreateAttribute(e)
  <2>1. PICK s \in Slugs, edit \in Edits :
          /\ edit.kind # None /\ edit.options # Unsent
          /\ editor' = [editor EXCEPT ![e] =
               [Idle EXCEPT !.pc = "insert", !.op = "create", !.slug = s, !.kind = edit.kind,
                            !.options = edit.options]]
          /\ UNCHANGED attribute
    BY <1>1 DEF CreateAttribute
  <2>2. PICK place :
          place = [Idle EXCEPT !.pc = "insert", !.op = "create", !.slug = s,
                               !.kind = edit.kind, !.options = edit.options]
    OBVIOUS
  <2>3. place = [pc |-> "insert", op |-> "create", slug |-> s, kind |-> edit.kind,
                 options |-> edit.options, read |-> None]
    BY <2>2 DEF Idle
  <2>4. place \in EditorType
    BY <2>3, SentEdit DEF EditorType
  <2>5. editor' = [editor EXCEPT ![e] = place] /\ editor'[e] = place
    BY <2>1, <2>2 DEF AttributesInv
  <2>6. EditorSound(e)'
    <3>1. edit.kind \in Kinds /\ edit.options \in SUBSET Options
      BY <2>1, SentEdit
    <3> QED
      BY <2>3, <2>5, <3>1 DEF EditorSound
  <2> QED
    BY <2>1, <2>3, <2>4, <2>5, <2>6, Begins
<1>2. CASE UpdateAttribute(e)
  <2>1. PICK s, edit, place :
          /\ s \in Slugs /\ edit \in Edits
          /\ place = [pc |-> "merge", op |-> "update", slug |-> s, kind |-> edit.kind,
                      options |-> edit.options, read |-> attribute[s].kind]
          /\ editor' = [editor EXCEPT ![e] = place]
          /\ UNCHANGED attribute
    BY <1>2 DEF UpdateAttribute
  <2>2. place \in EditorType
    BY <2>1, SentEdit DEF EditorType, AttributesInv
  <2>3. editor'[e] = place
    BY <2>1 DEF AttributesInv
  <2>4. EditorSound(e)'
    BY <2>1, <2>3 DEF EditorSound
  <2> QED
    BY <2>1, <2>2, <2>4, Begins
<1>3. CASE DeleteAttribute(e)
  <2>1. PICK s, place :
          /\ s \in Slugs
          /\ place = [Idle EXCEPT !.pc = "merge", !.op = "delete", !.slug = s,
                                  !.read = attribute[s].kind]
          /\ editor' = [editor EXCEPT ![e] = place]
          /\ UNCHANGED attribute
    BY <1>3 DEF DeleteAttribute
  <2>2. place = [pc |-> "merge", op |-> "delete", slug |-> s, kind |-> None,
                 options |-> Unsent, read |-> attribute[s].kind]
    BY <2>1 DEF Idle
  <2>3. place \in EditorType
    <3>1. attribute[s].kind \in Kinds
      BY <2>1 DEF AttributesInv
    <3>2. s \in Slugs
      BY <2>1
    <3> QED
      BY <2>2, <3>1, <3>2 DEF EditorType
  <2>4. editor'[e] = place
    BY <2>1 DEF AttributesInv
  <2>5. EditorSound(e)'
    BY <2>1, <2>2, <2>4 DEF EditorSound
  <2> QED
    BY <2>1, <2>2, <2>3, <2>5, Begins
<1> QED
  BY <1>1, <1>2, <1>3

\* An editor that moves on keeps what its request asks for.
LEMMA Moves ==
  ASSUME AttributesInv, NEW e \in Editors,
         NEW step \in {"insert", "merge", "replace", "commit", "fresh"}, GotoEditor(e, step)
  PROVE  \E place \in EditorType :
           /\ editor' = [editor EXCEPT ![e] = place] /\ editor'[e] = place
           /\ place.pc = step /\ place.op = editor[e].op /\ place.slug = editor[e].slug
           /\ place.kind = editor[e].kind /\ place.options = editor[e].options
           /\ place.read = editor[e].read
<1>1. PICK place : place = [editor[e] EXCEPT !.pc = step]
  OBVIOUS
<1>2. editor[e] \in EditorType
  BY DEF AttributesInv
<1>3. /\ place \in EditorType
      /\ place.pc = step /\ place.op = editor[e].op /\ place.slug = editor[e].slug
      /\ place.kind = editor[e].kind /\ place.options = editor[e].options
      /\ place.read = editor[e].read
  BY <1>1, <1>2 DEF EditorType
<1>4. editor' = [editor EXCEPT ![e] = place] /\ editor'[e] = place
  BY <1>1 DEF AttributesInv, GotoEditor
<1> QED
  BY <1>3, <1>4

LEMMA StageKeeps ==
  ASSUME AttributesInv, NEW e \in Editors,
         InsertAttribute(e) \/ MergeAttribute(e) \/ ReplaceOptions(e)
  PROVE  AttributesInv' /\ AttributesStep
<1>1. CASE InsertAttribute(e)
  <2>1. CASE attribute[editor[e].slug].state = "absent"
    <3>1. GotoEditor(e, "commit") /\ editor[e].pc = "insert" /\ RowIsFree(e) /\ UNCHANGED attribute
      BY <1>1, <2>1 DEF InsertAttribute, AtEditor
    <3>2. PICK place \in EditorType :
            /\ editor' = [editor EXCEPT ![e] = place] /\ editor'[e] = place
            /\ place.pc = "commit" /\ place.op = editor[e].op /\ place.slug = editor[e].slug
            /\ place.kind = editor[e].kind /\ place.options = editor[e].options
      BY <3>1, Moves
    <3>3. EditorSound(e)'
      BY <2>1, <3>1, <3>2 DEF AttributesInv, EditorSound
    <3> QED
      BY <3>1, <3>2, <3>3, NoCommit
  <2>2. CASE attribute[editor[e].slug].state # "absent"
    BY <1>1, <2>2, EndKeeps DEF InsertAttribute
  <2> QED
    BY <2>1, <2>2
<1>2. CASE MergeAttribute(e)
  <2>1. PICK step \in {"commit", "replace"} :
          /\ GotoEditor(e, step) /\ step = IF editor[e].op = "delete" THEN "commit" ELSE "replace"
          /\ editor[e].pc = "merge" /\ UNCHANGED attribute
          /\ editor[e].op = "delete" \/ KindIsDirty(e) => RowIsFree(e)
    BY <1>2 DEF MergeAttribute, AtEditor
  <2>2. PICK place \in EditorType :
          /\ editor' = [editor EXCEPT ![e] = place] /\ editor'[e] = place
          /\ place.pc = step /\ place.op = editor[e].op /\ place.slug = editor[e].slug
          /\ place.kind = editor[e].kind /\ place.options = editor[e].options
          /\ place.read = editor[e].read
    BY <2>1, Moves
  <2>3. EditorSound(e) /\ editor[e].op \in {"update", "delete"}
    BY <2>1 DEF AttributesInv, EditorSound
  <2>4. EditorSound(e)'
    BY <2>1, <2>2, <2>3 DEF EditorSound
  <2>5. LocksRow(e)' => RowIsFree(e)
    BY <2>1, <2>2, <2>3 DEF LocksRow, AtEditor, KindIsDirty
  <2> QED
    BY <2>1, <2>2, <2>4, <2>5, NoCommit
<1>3. CASE ReplaceOptions(e)
  <2>1. GotoEditor(e, "commit") /\ editor[e].pc = "replace" /\ UNCHANGED attribute
    BY <1>3 DEF ReplaceOptions, AtEditor
  <2>2. PICK place \in EditorType :
          /\ editor' = [editor EXCEPT ![e] = place] /\ editor'[e] = place
          /\ place.pc = "commit" /\ place.op = editor[e].op /\ place.slug = editor[e].slug
          /\ place.kind = editor[e].kind /\ place.options = editor[e].options
          /\ place.read = editor[e].read
    BY <2>1, Moves
  <2>3. EditorSound(e) /\ editor[e].op = "update"
    BY <2>1 DEF AttributesInv, EditorSound
  <2>4. EditorSound(e)'
    BY <2>1, <2>2, <2>3 DEF EditorSound
  <2>5. LocksRow(e)' => LocksRow(e)
    BY <2>1, <2>2, <2>3 DEF LocksRow, AtEditor, KindIsDirty
  <2> QED
    BY <2>1, <2>2, <2>4, <2>5, NoCommit
<1> QED
  BY <1>1, <1>2, <1>3

\* The one step that writes a row: a created row was absent, and an updated or
\* deleted one keeps what the request does not change.
LEMMA CommitKeeps ==
  ASSUME AttributesInv, NEW e \in Editors, CommitAttribute(e)
  PROVE  AttributesInv' /\ AttributesStep
<1>1. PICK s, row :
        /\ s \in Slugs
        /\ editor[e].pc = "commit" /\ editor[e].slug = s /\ EditorSound(e)
        /\ row = Committed(e) /\ attribute' = [attribute EXCEPT ![s] = row]
        /\ GotoEditor(e, "fresh")
  BY DEF CommitAttribute, AtEditor, AttributesInv, EditorSound
<1>2. PICK place \in EditorType :
        /\ editor' = [editor EXCEPT ![e] = place] /\ editor'[e] = place
        /\ place.pc = "fresh" /\ place.op = editor[e].op /\ place.slug = editor[e].slug
        /\ place.kind = editor[e].kind /\ place.options = editor[e].options
  BY <1>1, Moves
<1>3. /\ editor[e] \in EditorType
      /\ attribute[s] \in [state : {"absent", "live", "deleted"}, kind : Kinds,
                           options : SUBSET Options]
  BY <1>1 DEF AttributesInv
<1>4. /\ row \in [state : {"absent", "live", "deleted"}, kind : Kinds, options : SUBSET Options]
      /\ row.kind # attribute[s].kind => row.kind = editor[e].kind
      /\ row.options # attribute[s].options => row.options = editor[e].options
      /\ attribute[s].state = "deleted" => row.state = "deleted"
      /\ editor[e].op = "update" => row.state = attribute[s].state
  <2>1. CASE editor[e].op = "create"
    <3>1. row = [state |-> "live", kind |-> editor[e].kind, options |-> editor[e].options]
      BY <1>1, <2>1 DEF Committed
    <3> QED
      BY <1>1, <2>1, <3>1 DEF EditorSound
  <2>2. CASE editor[e].op = "update"
    <3>1. row = [attribute[s] EXCEPT
                   !.kind = IF KindIsDirty(e) THEN editor[e].kind ELSE @,
                   !.options = IF editor[e].options = Unsent THEN @ ELSE editor[e].options]
      BY <1>1, <2>2 DEF Committed
    <3>2. /\ KindIsDirty(e) => editor[e].kind \in Kinds
          /\ editor[e].options # Unsent => editor[e].options \in SUBSET Options
      <4>1. /\ editor[e].kind \in Kinds \cup {None}
            /\ editor[e].options \in (SUBSET Options) \cup {Unsent}
        BY <1>3 DEF EditorType
      <4> QED
        BY <4>1 DEF KindIsDirty
    <3> QED
      BY <1>3, <3>1, <3>2
  <2>3. CASE editor[e].op = "delete"
    <3>1. row = [attribute[s] EXCEPT !.state = "deleted"]
      BY <1>1, <2>3 DEF Committed
    <3> QED
      BY <1>3, <2>3, <3>1
  <2> QED
    BY <1>1, <2>1, <2>2, <2>3 DEF EditorSound
<1>5. /\ attribute' \in [Slugs -> [state : {"absent", "live", "deleted"}, kind : Kinds,
                                   options : SUBSET Options]]
      /\ attribute'[s] = row
      /\ \A t \in Slugs \ {s} : attribute'[t] = attribute[t]
  BY <1>1, <1>4 DEF AttributesInv
<1>6. /\ editor' \in [Editors -> EditorType]
      /\ \A f \in Editors \ {e} : editor'[f] = editor[f]
  BY <1>2 DEF AttributesInv
<1>7. EditorSound(e)'
  BY <1>1, <1>2 DEF EditorSound
<1>8. ASSUME NEW f \in Editors \ {e} PROVE EditorSound(f)'
  <2>1. EditorSound(f) /\ editor'[f] = editor[f]
    BY <1>6 DEF AttributesInv
  <2>2. ASSUME editor[f].pc = "commit", editor[f].op = "create"
        PROVE  attribute'[editor[f].slug].state = "absent"
    <3>1. LocksRow(f) /\ attribute[editor[f].slug].state = "absent" /\ editor[f].slug \in Slugs
      BY <2>1, <2>2 DEF LocksRow, AtEditor, EditorSound
    <3>2. CASE editor[f].slug # s
      BY <1>5, <3>1, <3>2
    <3>3. CASE editor[f].slug = s
      <4>1. ~LocksRow(e)
        BY <1>1, <3>1, <3>3 DEF AttributesInv, LocksExclude
      <4>2. editor[e].op = "update"
        BY <1>1, <4>1 DEF LocksRow, AtEditor
      <4> QED
        BY <1>4, <1>5, <3>1, <3>3, <4>2
    <3> QED
      BY <3>2, <3>3
  <2> QED
    BY <2>1, <2>2 DEF EditorSound
<1>9. LocksExclude'
  <2>1. ~LocksRow(e)'
    BY <1>2 DEF LocksRow, AtEditor
  <2>2. \A f \in Editors \ {e} : LocksRow(f)' <=> LocksRow(f)
    BY <1>6 DEF LocksRow, KindIsDirty, AtEditor
  <2> QED
    BY <1>6, <2>1, <2>2 DEF AttributesInv, LocksExclude
<1>10. AttributesStep
  BY <1>1, <1>4, <1>5 DEF AttributesStep, AtEditor
<1> QED
  BY <1>5, <1>6, <1>7, <1>8, <1>9, <1>10 DEF AttributesInv

LEMMA EditKeeps ==
  ASSUME AttributesInv, NEW e \in Editors, Edit(e)
  PROVE  AttributesInv' /\ AttributesStep
BY BeginKeeps, StageKeeps, CommitKeeps, EndKeeps DEF Edit, ReadFresh, FailEdit

LEMMA AttributesUntouched ==
  ASSUME AttributesInv, UNCHANGED <<attribute, editor>>
  PROVE  AttributesInv' /\ AttributesStep
BY DEF AttributesInv, EditorSound, LocksExclude, LocksRow, AtEditor, KindIsDirty, AttributesStep

---------------------------------------------------------------------------
(* Sequences of rows                                                       *)

\* A set of naturals that is not empty has a least member.
LEMMA Least ==
  ASSUME NEW T \in SUBSET Nat, T # {}
  PROVE  \E m \in T : \A n \in T : m <= n
<1>1. IsWellFoundedOn(OpToRel(<, Nat), Nat)
  BY NatLessThanWellFounded
<1>2. PICK m \in T : \A n \in T : ~(<<n, m>> \in OpToRel(<, Nat))
  BY <1>1, WFMin
<1>3. \A n \in T : ~(n < m)
  BY <1>2 DEF OpToRel
<1> QED
  BY <1>3

\* A sequence of a set's rows has every row at one place.
LEMMA Enumerates ==
  ASSUME NEW S, IsFiniteSet(S), NEW s \in SetToSeqs(S)
  PROVE  /\ s \in Seq(S) /\ Len(s) = Cardinality(S) /\ Len(s) \in Nat
         /\ \A i \in 1..Len(s) : s[i] \in S
         /\ \A i, j \in 1..Len(s) : s[i] = s[j] => i = j
         /\ \A c \in S : \E i \in 1..Len(s) : s[i] = c
<1>1. PICK n \in Nat : n = Cardinality(S)
  BY FS_CardinalityType
<1>2. s \in [1..n -> S] /\ \A i, j \in 1..n : i # j => s[i] # s[j]
  BY <1>1 DEF SetToSeqs
<1>3. s \in Seq(S) /\ Len(s) = n
  BY <1>1, <1>2
<1>4. s \in Injection(1..n, S)
  BY <1>2 DEF Injection, IsInjective
<1>5. Cardinality(1..n) = n
  BY <1>1, FS_Interval
<1>6. s \in Surjection(1..n, S)
  BY <1>1, <1>4, <1>5, FS_Injection
<1>7. \A c \in S : \E i \in 1..n : s[i] = c
  BY <1>6 DEF Surjection
<1> QED
  BY <1>1, <1>2, <1>3, <1>7

\* The page of the first rows.
LEMMA ShownRows ==
  ASSUME NEW S, NEW s \in Seq(S), NEW n \in Nat
  PROVE  /\ Shown(s, n) \in Seq(S)
         /\ Len(Shown(s, n)) = IF Len(s) > n THEN n ELSE Len(s)
         /\ \A i \in 1..Len(Shown(s, n)) : Shown(s, n)[i] = s[i]
<1>1. PICK m \in Nat : m = (IF Len(s) > n THEN n ELSE Len(s)) /\ m <= Len(s)
  OBVIOUS
<1>2. Shown(s, n) = SubSeq(s, 1, m)
  BY <1>1 DEF Shown
<1>3. \A i \in 1..m : s[i] \in S
  BY <1>1, ElementOfSeq
<1>4. /\ SubSeq(s, 1, m) \in Seq(S)
      /\ Len(SubSeq(s, 1, m)) = IF 1 <= m THEN m - 1 + 1 ELSE 0
      /\ \A i \in 1..(m - 1 + 1) : SubSeq(s, 1, m)[i] = s[1 + i - 1]
  BY <1>3, SubSeqProperties
<1>5. Len(SubSeq(s, 1, m)) = m /\ \A i \in 1..m : SubSeq(s, 1, m)[i] = s[i]
  BY <1>4
<1> QED
  BY <1>1, <1>2, <1>4, <1>5

\* Where the sort decides, the database has one order to return: at the first
\* place where two orders differ, each has the other's row further on.
LEMMA OneOrder ==
  ASSUME NEW S, IsFiniteSet(S), NEW sort, Decides(sort, S),
         NEW s \in Orders(S, sort), NEW t \in Orders(S, sort)
  PROVE  s = t
<1>1. /\ s \in SetToSeqs(S) /\ t \in SetToSeqs(S)
      /\ \A i, j \in 1..Len(s) : i < j => ~Before(s[j], s[i], sort)
      /\ \A i, j \in 1..Len(t) : i < j => ~Before(t[j], t[i], sort)
  BY DEF Orders
<1>2. /\ s \in Seq(S) /\ t \in Seq(S) /\ Len(s) = Len(t) /\ Len(s) \in Nat
      /\ \A i \in 1..Len(s) : s[i] \in S /\ t[i] \in S
      /\ \A i, j \in 1..Len(s) : s[i] = s[j] => i = j
      /\ \A i, j \in 1..Len(s) : t[i] = t[j] => i = j
      /\ \A c \in S : \E i \in 1..Len(s) : s[i] = c
      /\ \A c \in S : \E i \in 1..Len(s) : t[i] = c
  BY <1>1, Enumerates
<1> DEFINE Differ == {i \in 1..Len(s) : s[i] # t[i]}
<1>3. ASSUME Differ # {} PROVE FALSE
  <2>1. Differ \in SUBSET Nat
    OBVIOUS
  <2>2. PICK m \in Differ : \A n \in Differ : m <= n
    BY <1>3, <2>1, Least
  <2>3. m \in 1..Len(s) /\ s[m] # t[m] /\ s[m] \in S /\ t[m] \in S
    BY <1>2, <2>2
  <2>4. \A i \in 1..Len(s) : i < m => s[i] = t[i]
    BY <1>2, <2>2, <2>3
  <2>5. PICK j \in 1..Len(s) : t[j] = s[m]
    BY <1>2, <2>3
  <2>6. m < j
    <3>1. CASE j < m
      <4>1. s[j] = s[m]
        BY <2>4, <2>5, <3>1
      <4> QED
        BY <1>2, <2>3, <3>1, <4>1
    <3>2. j # m
      BY <2>3, <2>5
    <3> QED
      BY <1>2, <2>3, <3>1, <3>2
  <2>7. PICK k \in 1..Len(s) : s[k] = t[m]
    BY <1>2, <2>3
  <2>8. m < k
    <3>1. CASE k < m
      <4>1. t[k] = t[m]
        BY <2>4, <2>7, <3>1
      <4> QED
        BY <1>2, <2>3, <3>1, <4>1
    <3>2. k # m
      BY <2>3, <2>7
    <3> QED
      BY <1>2, <2>3, <3>1, <3>2
  <2>9. ~Before(s[m], t[m], sort) /\ ~Before(t[m], s[m], sort)
    BY <1>1, <1>2, <2>3, <2>5, <2>6, <2>7, <2>8
  <2> QED
    BY <2>3, <2>9 DEF Decides
<1>4. \A i \in 1..Len(s) : s[i] = t[i]
  BY <1>3
<1>5. s \in [1..Len(s) -> S] /\ t \in [1..Len(s) -> S]
  BY <1>2, LenProperties
<1> QED
  BY <1>4, <1>5

Increasing(s) == \A i, j \in 1..Len(s) : i < j => s[i] < s[j]

\* The places of a concatenation: those of the first sequence, then those of
\* the second.
LEMMA Joined ==
  ASSUME NEW S, NEW s \in Seq(S), NEW t \in Seq(S), NEW u, u = s \o t,
         NEW m, m = Len(s), NEW n, n = Len(t)
  PROVE  /\ m \in Nat /\ n \in Nat /\ u \in Seq(S) /\ Len(u) = m + n
         /\ \A i \in 1..m : i \in 1..(m + n) /\ u[i] = s[i]
         /\ \A j \in 1..n : m + j \in 1..(m + n) /\ u[m + j] = t[j]
         /\ \A k \in 1..(m + n) : k \in 1..m \/ (k - m \in 1..n /\ u[k] = t[k - m])
<1>1. m \in Nat /\ n \in Nat
  BY LenProperties
<1>2. /\ u \in Seq(S) /\ Len(u) = m + n
      /\ \A i \in 1..(m + n) : u[i] = IF i <= m THEN s[i] ELSE t[i - m]
  BY <1>1, ConcatProperties
<1>3. \A i \in 1..m : i \in 1..(m + n) /\ u[i] = s[i]
  BY <1>1, <1>2
<1>4. ASSUME NEW j \in 1..n PROVE m + j \in 1..(m + n) /\ u[m + j] = t[j]
  <2>1. m + j \in 1..(m + n) /\ ~(m + j <= m) /\ (m + j) - m = j
    BY <1>1
  <2> QED
    BY <1>2, <2>1
<1>5. ASSUME NEW k \in 1..(m + n) PROVE k \in 1..m \/ (k - m \in 1..n /\ u[k] = t[k - m])
  <2>1. k \in 1..m \/ (k - m \in 1..n /\ ~(k <= m))
    BY <1>1
  <2> QED
    BY <1>2, <2>1
<1> QED
  BY <1>1, <1>2, <1>3, <1>4, <1>5

\* The members of a concatenation.
LEMMA JoinedMembers ==
  ASSUME NEW S, NEW s \in Seq(S), NEW t \in Seq(S)
  PROVE  ToSet(s \o t) = ToSet(s) \cup ToSet(t)
<1>1. PICK m, n, u : m = Len(s) /\ n = Len(t) /\ u = s \o t
  OBVIOUS
<1>2. /\ m \in Nat /\ n \in Nat /\ u \in Seq(S) /\ Len(u) = m + n
      /\ \A i \in 1..m : i \in 1..(m + n) /\ u[i] = s[i]
      /\ \A j \in 1..n : m + j \in 1..(m + n) /\ u[m + j] = t[j]
      /\ \A k \in 1..(m + n) : k \in 1..m \/ (k - m \in 1..n /\ u[k] = t[k - m])
  BY <1>1, Joined
<1>3. DOMAIN s = 1..m /\ DOMAIN t = 1..n /\ DOMAIN u = 1..(m + n)
  BY <1>1, <1>2, LenProperties
<1>4. ToSet(s) \subseteq ToSet(u)
  BY <1>2, <1>3 DEF ToSet
<1>5. ToSet(t) \subseteq ToSet(u)
  <2>1. ASSUME NEW j \in 1..n PROVE t[j] \in ToSet(u)
    BY <1>2, <1>3 DEF ToSet
  <2> QED
    BY <1>3, <2>1 DEF ToSet
<1>6. ASSUME NEW k \in 1..(m + n) PROVE u[k] \in ToSet(s) \cup ToSet(t)
  BY <1>2, <1>3 DEF ToSet
<1>7. ToSet(u) \subseteq ToSet(s) \cup ToSet(t)
  BY <1>3, <1>6 DEF ToSet
<1> QED
  BY <1>1, <1>4, <1>5, <1>7

\* What follows in order may be appended.
LEMMA JoinedIncreasing ==
  ASSUME NEW s \in Seq(Nat), NEW t \in Seq(Nat), Increasing(s), Increasing(t),
         NEW u, u = s \o t,
         \A i \in 1..Len(s), j \in 1..Len(t) : s[i] < t[j]
  PROVE  Increasing(u)
<1>1. PICK m, n : m = Len(s) /\ n = Len(t)
  OBVIOUS
<1>2. /\ m \in Nat /\ n \in Nat /\ u \in Seq(Nat) /\ Len(u) = m + n
      /\ \A i \in 1..m : i \in 1..(m + n) /\ u[i] = s[i]
      /\ \A j \in 1..n : m + j \in 1..(m + n) /\ u[m + j] = t[j]
      /\ \A k \in 1..(m + n) : k \in 1..m \/ (k - m \in 1..n /\ u[k] = t[k - m])
  BY <1>1, Joined
<1>3. /\ \A i, j \in 1..m : i < j => s[i] < s[j]
      /\ \A i, j \in 1..n : i < j => t[i] < t[j]
      /\ \A i \in 1..m, j \in 1..n : s[i] < t[j]
  BY <1>1 DEF Increasing
<1> SUFFICES ASSUME NEW a \in 1..(m + n), NEW b \in 1..(m + n), a < b
             PROVE  u[a] < u[b]
  BY <1>2 DEF Increasing
<1>4. CASE a \in 1..m /\ b \in 1..m
  BY <1>2, <1>3, <1>4
<1>5. CASE a \in 1..m /\ b - m \in 1..n /\ u[b] = t[b - m]
  BY <1>2, <1>3, <1>5
<1>6. CASE a - m \in 1..n /\ u[a] = t[a - m] /\ b - m \in 1..n /\ u[b] = t[b - m]
  <2>1. a - m < b - m
    BY <1>2
  <2> QED
    BY <1>3, <1>6, <2>1
<1>7. CASE a - m \in 1..n /\ b \in 1..m
  BY <1>2, <1>7
<1> QED
  BY <1>2, <1>4, <1>5, <1>6, <1>7

LEMMA Members ==
  ASSUME NEW S, NEW s \in Seq(S)
  PROVE  /\ \A i \in 1..Len(s) : s[i] \in ToSet(s)
         /\ \A c \in ToSet(s) : c \in S /\ \E i \in 1..Len(s) : s[i] = c
BY LenProperties, ElementOfSeq DEF ToSet

---------------------------------------------------------------------------
(* Walks                                                                   *)

PageType ==
  [pc : {"start", "walking", "done", "failed", "over"},
   mode : {None, "basic", "number", "next_id"},
   limit : Limits \cup {1}, sort : Sorts \cup {DefaultSort}, filter : Filters \cup {NoFilter},
   cursor : 0..MaxContact, page : Nat, seen : Seq(Contacts),
   present : SUBSET Contacts, calm : BOOLEAN, total : 0..MaxContact]

\* A basic walk has shown, in order, everything that stayed up to its cursor.
BasicSound(q) ==
  /\ Increasing(q.seen)
  /\ \A c \in ToSet(q.seen) : c <= q.cursor
  /\ q.present \subseteq Live
  /\ \A c \in q.present : c <= q.cursor => c \in ToSet(q.seen)

BasicComplete(q) ==
  Increasing(q.seen) /\ q.present \subseteq ToSet(q.seen)

\* A numbered walk that nothing disturbed has shown the pages before the one
\* it is at, of the one order there is.
NumberSound(q) ==
  /\ q.page # 0
  /\ q.calm => /\ q.present = Live
               /\ Decides(q.sort, Live) =>
                    \A rows \in Orders(Matching(q.filter), q.sort) :
                      q.seen = Shown(rows, Offset(q))

NumberComplete(q) ==
  q.calm /\ Decides(q.sort, q.present) =>
    /\ IsInjective(q.seen)
    /\ Len(q.seen) = q.total
    /\ ToSet(q.seen) = {c \in q.present : c \in Matching(q.filter)}

WalkSound(q) ==
  /\ q.mode = "basic" =>
       /\ q.pc = "walking" => BasicSound(q)
       /\ q.pc # "walking" => BasicComplete(q)
  /\ q.mode = "number" =>
       /\ q.pc = "walking" => NumberSound(q)
       /\ q.pc = "done" => NumberComplete(q)

WalksInv ==
  /\ walk \in [Walkers -> PageType]
  /\ \A v \in Walkers : WalkSound(walk[v])

\* The contacts are finitely many.
LEMMA FiniteContacts ==
  ASSUME NEW S \in SUBSET Contacts
  PROVE  /\ Contacts \in SUBSET Nat /\ MaxContact \in Nat
         /\ IsFiniteSet(S) /\ Cardinality(S) \in 0..MaxContact
<1>1. MaxContact \in Nat
  BY ContactsAssumption
<1>2. IsFiniteSet(Contacts) /\ Cardinality(Contacts) = MaxContact
  BY <1>1, FS_Interval DEF Contacts
<1>3. IsFiniteSet(S) /\ Cardinality(S) <= MaxContact
  BY <1>2, FS_Subset
<1> QED
  BY <1>1, <1>3, FS_CardinalityType DEF Contacts

\* What a page is asked with: the choice of a first page, or where the walk is.
LEMMA Asked ==
  ASSUME WalksInv, NEW v \in Walkers, NEW mode \in {"basic", "number", "next_id"},
         NEW q \in Asks(v, mode)
  PROVE  /\ q \in PageType /\ q.pc = "walking" /\ q.mode = mode
         /\ q.limit \in Nat \ {0}
         /\ mode = "basic" => BasicSound(q)
         /\ mode = "number" => NumberSound(q)
<1>1. q.mode = mode /\ q \in CASE walk[v].pc = "start" -> FirstPages
                               [] walk[v].pc = "walking" -> {walk[v]}
                               [] OTHER -> {}
  BY DEF Asks
<1>2. walk[v] \in PageType /\ WalkSound(walk[v])
  BY DEF WalksInv
<1>3. MaxContact \in Nat /\ Live \in SUBSET Contacts /\ Contacts \in SUBSET Nat
  BY FiniteContacts DEF Live
<1>4. CASE walk[v].pc = "walking" /\ q = walk[v]
  BY <1>1, <1>2, <1>4, LimitsAssumption DEF PageType, WalkSound
<1>5. CASE q \in FirstPages
  <2>1. /\ q.pc = "walking" /\ q.limit \in Limits /\ q.sort \in Sorts \cup {DefaultSort}
        /\ q.filter \in Filters \cup {NoFilter} /\ q.cursor = 0 /\ q.page = 1
        /\ q.seen = <<>> /\ q.present = Live /\ q.calm = TRUE /\ q.total = 0
        /\ q = [pc |-> q.pc, mode |-> q.mode, limit |-> q.limit, sort |-> q.sort,
                filter |-> q.filter, cursor |-> q.cursor, page |-> q.page, seen |-> q.seen,
                present |-> q.present, calm |-> q.calm, total |-> q.total]
    BY <1>5 DEF FirstPages
  <2>2. q \in PageType /\ q.limit \in Nat \ {0}
    <3>1. <<>> \in Seq(Contacts) /\ 1 \in Nat /\ 0 \in 0..MaxContact /\ TRUE \in BOOLEAN
      BY <1>3, EmptySeq
    <3>2. q.limit \in Limits \cup {1} /\ q.limit \in Nat \ {0}
      BY <2>1, LimitsAssumption
    <3>3. q.mode \in {None, "basic", "number", "next_id"}
          /\ q.pc \in {"start", "walking", "done", "failed", "over"}
      BY <1>1, <2>1
    <3> QED
      BY <1>3, <2>1, <3>1, <3>2, <3>3 DEF PageType
  <2>3. BasicSound(q)
    <3>1. ToSet(q.seen) = {} /\ Increasing(q.seen)
      BY <2>1, EmptySeq DEF ToSet, Increasing
    <3>2. \A c \in q.present : ~(c <= q.cursor)
      BY <1>3, <2>1 DEF Live, Contacts
    <3> QED
      BY <2>1, <3>1, <3>2 DEF BasicSound
  <2>4. ASSUME NEW rows \in Orders(Matching(q.filter), q.sort)
        PROVE  Shown(rows, Offset(q)) = <<>>
    <3>1. rows \in Seq(Matching(q.filter))
      BY <1>3, FiniteContacts, Enumerates DEF Orders, Matching
    <3>2. Offset(q) = 0
      BY <2>1, <2>2 DEF Offset
    <3>3. /\ Shown(rows, 0) \in Seq(Matching(q.filter))
          /\ Len(Shown(rows, 0)) = IF Len(rows) > 0 THEN 0 ELSE Len(rows)
      BY <3>1, ShownRows
    <3>4. Len(rows) \in Nat
      BY <3>1, LenProperties
    <3>5. Len(Shown(rows, 0)) = 0
      BY <3>3, <3>4
    <3> QED
      BY <3>2, <3>3, <3>5, EmptySeq
  <2>5. NumberSound(q)
    BY <2>1, <2>4 DEF NumberSound
  <2> QED
    BY <1>1, <2>1, <2>2, <2>3, <2>5
<1> QED
  BY <1>1, <1>4, <1>5

\* The first rows in the order of the ids, and all of them.
LEMMA FirstRows ==
  ASSUME NEW S \in SUBSET Contacts, NEW rows \in Ascending(S)
  PROVE  /\ rows \in Seq(S) /\ Len(rows) \in Nat /\ Increasing(rows) /\ ToSet(rows) = S
         /\ \A n \in Nat \ {0} : Len(rows) > n =>
              /\ Shown(rows, n) \in Seq(S) /\ Increasing(Shown(rows, n))
              /\ rows[n] \in S
              /\ \A c \in ToSet(Shown(rows, n)) : c <= rows[n]
              /\ \A c \in S : c <= rows[n] => c \in ToSet(Shown(rows, n))
<1>1. IsFiniteSet(S) /\ S \in SUBSET Nat
  BY FiniteContacts
<1>2. rows \in SetToSeqs(S) /\ Increasing(rows)
  BY DEF Ascending, Increasing
<1>3. /\ rows \in Seq(S) /\ Len(rows) \in Nat
      /\ \A i \in 1..Len(rows) : rows[i] \in S
      /\ \A c \in S : \E i \in 1..Len(rows) : rows[i] = c
  BY <1>1, <1>2, Enumerates
<1>4. ToSet(rows) = S
  <2>1. \A i \in 1..Len(rows) : rows[i] \in ToSet(rows)
    BY <1>3, Members
  <2>2. S \subseteq ToSet(rows)
    BY <1>3, <2>1
  <2>3. ToSet(rows) \subseteq S
    BY <1>3, Members
  <2> QED
    BY <2>2, <2>3
<1>5. ASSUME NEW n \in Nat \ {0}, Len(rows) > n
      PROVE  /\ Shown(rows, n) \in Seq(S) /\ Increasing(Shown(rows, n))
             /\ rows[n] \in S
             /\ \A c \in ToSet(Shown(rows, n)) : c <= rows[n]
             /\ \A c \in S : c <= rows[n] => c \in ToSet(Shown(rows, n))
  <2>1. PICK shown : shown = Shown(rows, n)
    OBVIOUS
  <2>2. /\ shown \in Seq(S) /\ Len(shown) = n
        /\ \A i \in 1..n : shown[i] = rows[i]
    BY <1>3, <1>5, <2>1, ShownRows
  <2>3. 1..n \subseteq 1..Len(rows) /\ n \in 1..Len(rows)
    BY <1>3, <1>5
  <2>4. \A i, j \in 1..Len(rows) : i < j => rows[i] < rows[j]
    BY <1>2 DEF Increasing
  <2>5. \A i \in 1..Len(rows) : rows[i] \in Nat
    BY <1>1, <1>3
  <2>6. Increasing(shown)
    BY <2>2, <2>3, <2>4 DEF Increasing
  <2>7. \A i \in 1..n : rows[i] <= rows[n]
    BY <2>3, <2>4, <2>5
  <2>8. \A c \in ToSet(shown) : c <= rows[n]
    BY <2>2, <2>7, Members
  <2>9. ASSUME NEW c \in S, c <= rows[n] PROVE c \in ToSet(shown)
    <3>1. PICK i \in 1..Len(rows) : rows[i] = c
      BY <1>3
    <3>2. ~(n < i)
      BY <2>3, <2>4, <2>5, <2>9, <3>1
    <3>3. i \in 1..n
      BY <1>3, <3>2
    <3> QED
      BY <2>2, <3>1, <3>3, Members
  <2> QED
    BY <1>3, <2>1, <2>2, <2>3, <2>6, <2>8, <2>9
<1> QED
  BY <1>2, <1>3, <1>4, <1>5

\* A page of the basic list goes on from the cursor: what it adds is above all
\* that was shown, and it leaves nothing out below its last row.
LEMMA BasicStep ==
  ASSUME NEW q \in PageType, q.pc = "walking", q.mode = "basic",
         q.limit \in Nat \ {0}, BasicSound(q),
         NEW rows \in Ascending({c \in Live : c > q.cursor}),
         NEW next,
         next = IF Len(rows) > q.limit
                THEN [q EXCEPT !.seen = @ \o Shown(rows, q.limit), !.cursor = rows[q.limit]]
                ELSE [q EXCEPT !.seen = @ \o rows, !.pc = "done"]
  PROVE  next \in PageType /\ WalkSound(next)
<1>1. PICK Above : Above = {c \in Live : c > q.cursor}
  OBVIOUS
<1>2. /\ Above \in SUBSET Contacts /\ Live \in SUBSET Contacts /\ Contacts \in SUBSET Nat
      /\ MaxContact \in Nat
  BY <1>1, FiniteContacts DEF Live
<1>3. /\ rows \in Seq(Above) /\ Len(rows) \in Nat /\ Increasing(rows) /\ ToSet(rows) = Above
      /\ Len(rows) > q.limit =>
           /\ Shown(rows, q.limit) \in Seq(Above) /\ Increasing(Shown(rows, q.limit))
           /\ rows[q.limit] \in Above
           /\ \A c \in ToSet(Shown(rows, q.limit)) : c <= rows[q.limit]
           /\ \A c \in Above : c <= rows[q.limit] => c \in ToSet(Shown(rows, q.limit))
  BY <1>1, <1>2, FirstRows
<1>4. /\ q.seen \in Seq(Contacts) /\ q.cursor \in 0..MaxContact /\ q.present \subseteq Live
      /\ Increasing(q.seen)
      /\ \A c \in ToSet(q.seen) : c \in Contacts /\ c <= q.cursor
      /\ \A c \in q.present : c <= q.cursor => c \in ToSet(q.seen)
  BY Members DEF PageType, BasicSound
<1>5. \A c \in q.present : c \in ToSet(q.seen) \/ c \in Above
  BY <1>1, <1>2, <1>4
<1>6. ASSUME NEW shown \in Seq(Above), Increasing(shown)
      PROVE  /\ q.seen \o shown \in Seq(Contacts)
             /\ Increasing(q.seen \o shown)
             /\ ToSet(q.seen \o shown) = ToSet(q.seen) \cup ToSet(shown)
  <2>1. shown \in Seq(Contacts) /\ shown \in Seq(Nat) /\ q.seen \in Seq(Nat)
    BY <1>2, <1>4, <1>6, SeqMonotonic
  <2>2. ASSUME NEW i \in 1..Len(q.seen), NEW j \in 1..Len(shown)
        PROVE  q.seen[i] < shown[j]
    <3>1. q.seen[i] \in Nat /\ q.seen[i] <= q.cursor
      BY <1>2, <1>4, Members
    <3>2. shown[j] \in Nat /\ shown[j] > q.cursor
      BY <1>1, <1>2, ElementOfSeq
    <3> QED
      BY <1>2, <1>4, <3>1, <3>2
  <2> QED
    <3>1. q.seen \o shown \in Seq(Contacts)
      BY <1>4, <2>1, ConcatProperties
    <3>2. Increasing(q.seen \o shown)
      BY <1>4, <1>6, <2>1, <2>2, JoinedIncreasing
    <3>3. ToSet(q.seen \o shown) = ToSet(q.seen) \cup ToSet(shown)
      <4>1. q.seen \in Seq(Contacts) /\ shown \in Seq(Contacts)
        BY <1>4, <2>1
      <4> QED
        BY <4>1, JoinedMembers
    <3> QED
      BY <3>1, <3>2, <3>3
<1>7. CASE Len(rows) > q.limit
  <2>1. PICK shown, last, seen :
          /\ shown \in Seq(Above) /\ last \in Above
          /\ shown = Shown(rows, q.limit) /\ last = rows[q.limit] /\ seen = q.seen \o shown
          /\ Increasing(shown)
          /\ \A c \in ToSet(shown) : c <= last
          /\ \A c \in Above : c <= last => c \in ToSet(shown)
    BY <1>3, <1>7
  <2>2. /\ seen \in Seq(Contacts) /\ Increasing(seen)
        /\ ToSet(seen) = ToSet(q.seen) \cup ToSet(shown)
    BY <1>6, <2>1
  <2>3. next = [q EXCEPT !.seen = seen, !.cursor = last]
    BY <1>7, <2>1
  <2>4. last \in Nat /\ last > q.cursor /\ last \in 0..MaxContact
    BY <1>1, <1>2, <2>1 DEF Contacts
  <2>5. /\ next \in PageType /\ next.pc = "walking" /\ next.mode = "basic"
        /\ next.seen = seen /\ next.cursor = last /\ next.present = q.present
    BY <2>2, <2>3, <2>4 DEF PageType
  <2>6. \A c \in ToSet(seen) : c <= last
    BY <1>2, <1>4, <2>1, <2>2, <2>4
  <2>7. \A c \in q.present : c <= last => c \in ToSet(seen)
    BY <1>5, <2>1, <2>2
  <2>8. BasicSound(next)
    BY <1>4, <2>2, <2>5, <2>6, <2>7 DEF BasicSound
  <2> QED
    BY <2>5, <2>8 DEF WalkSound
<1>8. CASE ~(Len(rows) > q.limit)
  <2>1. PICK seen : seen = q.seen \o rows
    OBVIOUS
  <2>2. /\ seen \in Seq(Contacts) /\ Increasing(seen)
        /\ ToSet(seen) = ToSet(q.seen) \cup Above
    BY <1>3, <1>6, <2>1
  <2>3. next = [q EXCEPT !.seen = seen, !.pc = "done"]
    BY <1>8, <2>1
  <2>4. /\ next \in PageType /\ next.pc = "done" /\ next.mode = "basic"
        /\ next.seen = seen /\ next.present = q.present
    BY <2>2, <2>3 DEF PageType
  <2>5. BasicComplete(next)
    BY <1>5, <2>2, <2>4 DEF BasicComplete
  <2> QED
    BY <2>4, <2>5 DEF WalkSound
<1> QED
  BY <1>7, <1>8

\* The page after the first rows, and the first rows with it.
LEMMA NextRows ==
  ASSUME NEW S, NEW rows \in Seq(S), NEW off \in Nat, NEW n \in Nat
  PROVE  /\ Shown(SubSeq(rows, off + 1, Len(rows)), n) \in Seq(S)
         /\ Shown(rows, off) \o Shown(SubSeq(rows, off + 1, Len(rows)), n)
              = Shown(rows, off + n)
<1>1. PICK len \in Nat : len = Len(rows) /\ \A i \in 1..len : rows[i] \in S
  BY LenProperties, ElementOfSeq
<1>2. PICK rest : rest = SubSeq(rows, off + 1, len)
  OBVIOUS
<1>3. /\ rest \in Seq(S)
      /\ Len(rest) = IF off + 1 <= len THEN len - off ELSE 0
      /\ \A i \in 1..(len - off) : rest[i] = rows[off + i]
  <2>1. off + 1 \in Int /\ len \in Int /\ \A i \in (off + 1)..len : rows[i] \in S
    BY <1>1
  <2>2. /\ rest \in Seq(S)
        /\ Len(rest) = IF off + 1 <= len THEN len - (off + 1) + 1 ELSE 0
        /\ \A i \in 1..(len - (off + 1) + 1) : rest[i] = rows[(off + 1) + i - 1]
    BY <1>2, <2>1, SubSeqProperties
  <2>3. Len(rest) = IF off + 1 <= len THEN len - off ELSE 0
    BY <2>2
  <2>4. ASSUME NEW i \in 1..(len - off) PROVE rest[i] = rows[off + i]
    <3>1. i \in 1..(len - (off + 1) + 1) /\ (off + 1) + i - 1 = off + i
      OBVIOUS
    <3> QED
      BY <2>2, <3>1
  <2> QED
    BY <2>2, <2>3, <2>4
<1>4. PICK s, t, whole : /\ s = Shown(rows, off) /\ t = Shown(rest, n)
                         /\ whole = Shown(rows, off + n)
  OBVIOUS
<1>5. /\ s \in Seq(S) /\ Len(s) = (IF len > off THEN off ELSE len)
      /\ \A i \in 1..Len(s) : s[i] = rows[i]
  BY <1>1, <1>4, ShownRows
<1>6. /\ t \in Seq(S) /\ Len(t) = (IF Len(rest) > n THEN n ELSE Len(rest))
      /\ \A i \in 1..Len(t) : t[i] = rest[i]
  BY <1>3, <1>4, ShownRows
<1>7. /\ whole \in Seq(S) /\ Len(whole) = (IF len > off + n THEN off + n ELSE len)
      /\ \A i \in 1..Len(whole) : whole[i] = rows[i]
  <2>1. off + n \in Nat
    OBVIOUS
  <2> QED
    BY <1>1, <1>4, <2>1, ShownRows
<1>8. PICK a, b, u : a = Len(s) /\ b = Len(t) /\ u = s \o t
  OBVIOUS
<1>9. /\ a \in Nat /\ b \in Nat /\ u \in Seq(S) /\ Len(u) = a + b
      /\ \A i \in 1..a : i \in 1..(a + b) /\ u[i] = s[i]
      /\ \A k \in 1..(a + b) : k \in 1..a \/ (k - a \in 1..b /\ u[k] = t[k - a])
  <2>1. s \in Seq(S) /\ t \in Seq(S)
    BY <1>5, <1>6
  <2> QED
    BY <1>8, <2>1, Joined
<1>10. Len(whole) = a + b /\ (b > 0 => a = off /\ b <= len - off)
  <2>1. PICK r : /\ r = (IF off + 1 <= len THEN len - off ELSE 0)
                 /\ a = (IF len > off THEN off ELSE len) /\ b = (IF r > n THEN n ELSE r)
                 /\ Len(whole) = (IF len > off + n THEN off + n ELSE len)
    BY <1>3, <1>5, <1>6, <1>7, <1>8
  <2> QED
    BY <2>1
<1>11. ASSUME NEW k \in 1..(a + b) PROVE u[k] = whole[k]
  <2>1. CASE k \in 1..a
    BY <1>5, <1>7, <1>8, <1>9, <1>10, <2>1
  <2>2. CASE k - a \in 1..b /\ u[k] = t[k - a]
    <3>1. b > 0 /\ k - off \in 1..b /\ u[k] = t[k - off]
      BY <1>9, <1>10, <2>2
    <3>2. k - off \in 1..(len - off)
      BY <1>1, <1>9, <1>10, <3>1
    <3>3. t[k - off] = rest[k - off]
      BY <1>6, <1>8, <3>1
    <3>4. rest[k - off] = rows[off + (k - off)] /\ off + (k - off) = k
      BY <1>3, <1>9, <3>2
    <3> QED
      BY <1>7, <1>10, <3>1, <3>3, <3>4
  <2> QED
    BY <1>9, <2>1, <2>2
<1>12. u = whole
  BY <1>7, <1>9, <1>10, <1>11, SeqEqual
<1> QED
  BY <1>1, <1>2, <1>4, <1>6, <1>8, <1>12

\* The last page ends no earlier than the rows do.
LEMMA LastPage ==
  ASSUME NEW total \in Nat, NEW limit \in Nat \ {0}, NEW page \in Nat,
         ~(page < Pages(total, limit))
  PROVE  page * limit >= total
BY DEF Pages

\* A numbered page goes on in the one order there is; with the last page the
\* walk has shown every row.
LEMMA NumberStep ==
  ASSUME NEW q \in PageType, q.pc = "walking", q.mode = "number",
         q.limit \in Nat \ {0}, NumberSound(q),
         NEW rows \in Orders(Matching(q.filter), q.sort),
         NEW next,
         next = [q EXCEPT !.seen = @ \o Shown(SubSeq(rows, Offset(q) + 1, Len(rows)), q.limit),
                          !.total = Cardinality(Matching(q.filter)),
                          !.page = @ + 1,
                          !.pc = IF q.page < Pages(Cardinality(Matching(q.filter)), q.limit)
                                 THEN @ ELSE "done"]
  PROVE  next \in PageType /\ WalkSound(next)
<1>1. PICK found : found = Matching(q.filter)
  OBVIOUS
<1>2. /\ found \in SUBSET Contacts /\ found \in SUBSET Live
      /\ IsFiniteSet(found) /\ Cardinality(found) \in 0..MaxContact /\ MaxContact \in Nat
  BY <1>1, FiniteContacts DEF Matching, Live
<1>3. PICK total \in 0..MaxContact : total = Cardinality(found) /\ total \in Nat
  BY <1>2
<1>4. /\ rows \in Seq(found) /\ Len(rows) = total /\ IsInjective(rows) /\ ToSet(rows) = found
  <2>1. rows \in SetToSeqs(found)
    BY <1>1 DEF Orders
  <2>2. /\ rows \in Seq(found) /\ Len(rows) = total
        /\ \A i, j \in 1..Len(rows) : rows[i] = rows[j] => i = j
        /\ \A c \in found : \E i \in 1..Len(rows) : rows[i] = c
    BY <1>2, <1>3, <2>1, Enumerates
  <2>3. IsInjective(rows)
    BY <2>2, LenProperties DEF IsInjective
  <2>4. found \subseteq ToSet(rows)
    BY <2>2, Members
  <2>5. ToSet(rows) \subseteq found
    BY <2>2, Members
  <2> QED
    BY <2>2, <2>3, <2>4, <2>5
<1>5. PICK off \in Nat, limit \in Nat \ {0}, page \in Nat :
        /\ page = q.page /\ limit = q.limit /\ off = Offset(q)
        /\ page * limit = off + limit
  <2>1. q.page \in Nat \ {0}
    BY DEF PageType, NumberSound
  <2>2. Offset(q) \in Nat /\ q.page * q.limit = Offset(q) + q.limit
    BY <2>1 DEF Offset
  <2> QED
    BY <2>1, <2>2
<1>6. PICK shown, seen : /\ shown = Shown(SubSeq(rows, off + 1, Len(rows)), limit)
                         /\ seen = q.seen \o shown
  OBVIOUS
<1>7. shown \in Seq(found) /\ Shown(rows, off) \o shown = Shown(rows, off + limit)
  <2>1. rows \in Seq(found) /\ limit \in Nat
    BY <1>4, <1>5
  <2>2. /\ Shown(SubSeq(rows, off + 1, Len(rows)), limit) \in Seq(found)
        /\ Shown(rows, off) \o Shown(SubSeq(rows, off + 1, Len(rows)), limit)
             = Shown(rows, off + limit)
    <3>1. \A R \in Seq(found), o, n \in Nat :
            /\ Shown(SubSeq(R, o + 1, Len(R)), n) \in Seq(found)
            /\ Shown(R, o) \o Shown(SubSeq(R, o + 1, Len(R)), n) = Shown(R, o + n)
      BY NextRows
    <3> QED
      BY <2>1, <3>1
  <2> QED
    BY <1>6, <2>2
<1>8. q.seen \in Seq(Contacts) /\ seen \in Seq(Contacts)
  <2>1. q.seen \in Seq(Contacts)
    BY DEF PageType
  <2>2. shown \in Seq(Contacts)
    BY <1>2, <1>7, SeqMonotonic
  <2> QED
    BY <1>6, <2>1, <2>2, ConcatProperties
<1>9. next = [q EXCEPT !.seen = seen, !.total = total, !.page = page + 1,
                       !.pc = IF page < Pages(total, limit) THEN "walking" ELSE "done"]
  BY <1>1, <1>3, <1>5, <1>6
<1>10. PICK pc \in {"walking", "done"} :
         pc = IF page < Pages(total, limit) THEN "walking" ELSE "done"
  OBVIOUS
<1>11. /\ next \in PageType /\ next.pc = pc /\ next.mode = "number" /\ next.seen = seen
       /\ next.total = total /\ next.page = page + 1 /\ next.limit = limit
       /\ next.sort = q.sort /\ next.filter = q.filter
       /\ next.calm = q.calm /\ next.present = q.present
  <2>1. page + 1 \in Nat /\ next = [q EXCEPT !.seen = seen, !.total = total, !.page = page + 1,
                                             !.pc = pc]
    BY <1>9, <1>10
  <2> QED
    BY <1>5, <1>8, <2>1 DEF PageType
<1>12. ASSUME q.calm, Decides(q.sort, Live), NEW others \in Orders(found, q.sort)
       PROVE  others = rows
  <2>1. Decides(q.sort, found)
    BY <1>2, <1>12 DEF Decides
  <2> QED
    BY <1>1, <1>2, <2>1, OneOrder
<1>13. q.calm => q.present = Live
  BY DEF NumberSound
<1>14. ASSUME q.calm, Decides(q.sort, Live)
       PROVE  seen = Shown(rows, page * limit)
  <2>1. q.seen = Shown(rows, off)
    BY <1>1, <1>5, <1>14 DEF NumberSound
  <2> QED
    BY <1>5, <1>6, <1>7, <2>1
<1>15. CASE pc = "walking"
  <2>1. Offset(next) = page * limit /\ next.page # 0
    BY <1>5, <1>11 DEF Offset
  <2>2. NumberSound(next)
    BY <1>1, <1>11, <1>12, <1>13, <1>14, <2>1 DEF NumberSound
  <2> QED
    BY <1>11, <1>15, <2>2 DEF WalkSound
<1>16. CASE pc = "done"
  <2>1. ASSUME q.calm, Decides(q.sort, Live) PROVE seen = rows
    <3>1. page * limit >= total /\ page * limit \in Nat
      BY <1>3, <1>5, <1>10, <1>16, LastPage
    <3>2. Shown(rows, page * limit) = rows
      <4>1. Shown(rows, page * limit) = SubSeq(rows, 1, Len(rows))
        BY <1>3, <1>4, <3>1 DEF Shown
      <4> QED
        BY <1>4, <4>1, SubSeqFull
    <3> QED
      BY <1>14, <2>1, <3>2
  <2>2. NumberComplete(next)
    BY <1>1, <1>2, <1>4, <1>11, <1>13, <2>1 DEF NumberComplete
  <2> QED
    BY <1>11, <1>16, <2>2 DEF WalkSound
<1> QED
  BY <1>15, <1>16

\* What was sound of a page stays sound while no contact is written.
LEMMA SameBook ==
  ASSUME NEW q, NEW v, WalkSound(q), book' = book, walk'[v] = q
  PROVE  WalkSound(walk[v])'
<1>1. Live' = Live
  BY DEF Live
<1>2. \A filter : Matching(filter)' = Matching(filter)
  BY <1>1 DEF Matching
<1>3. \A c, d, sort : Before(c, d, sort)' <=> Before(c, d, sort)
  BY DEF Before, Key
<1>4. \A S, sort : Orders(S, sort)' = Orders(S, sort)
  BY <1>3 DEF Orders
<1>5. \A S, sort : Decides(sort, S)' <=> Decides(sort, S)
  BY <1>3 DEF Decides
<1>6. BasicSound(q) => BasicSound(walk[v])'
  BY <1>1 DEF BasicSound
<1>7. BasicComplete(q) => BasicComplete(walk[v])'
  BY DEF BasicComplete
<1>8. NumberSound(q) => NumberSound(walk[v])'
  BY <1>1, <1>2, <1>4, <1>5 DEF NumberSound, Offset
<1>9. NumberComplete(q) => NumberComplete(walk[v])'
  BY <1>2, <1>5 DEF NumberComplete
<1> QED
  BY <1>6, <1>7, <1>8, <1>9 DEF WalkSound

\* A walk that asks for a page and gets the next one.
LEMMA Walked ==
  ASSUME WalksInv, NEW v \in Walkers, NEW next \in PageType, WalkSound(next),
         walk' = [walk EXCEPT ![v] = next], book' = book
  PROVE  WalksInv'
<1>1. /\ walk' \in [Walkers -> PageType] /\ walk'[v] = next
      /\ \A u \in Walkers \ {v} : walk'[u] = walk[u]
  BY DEF WalksInv
<1>2. WalkSound(walk[v])'
  BY <1>1, SameBook
<1>3. ASSUME NEW u \in Walkers \ {v} PROVE WalkSound(walk[u])'
  <2>1. PICK q : q = walk[u] /\ walk'[u] = q /\ WalkSound(q)
    BY <1>1 DEF WalksInv
  <2> QED
    BY <2>1, SameBook
<1> QED
  BY <1>1, <1>2, <1>3 DEF WalksInv, PageType

LEMMA BasicKeeps ==
  ASSUME WalksInv, NEW v \in Walkers, BasicPage(v), book' = book
  PROVE  WalksInv'
<1>1. PICK q \in Asks(v, "basic") :
      \E rows \in Ascending({c \in Live : c > q.cursor}) :
        walk' = [walk EXCEPT ![v] =
          IF Len(rows) > q.limit
          THEN [q EXCEPT !.seen = @ \o Shown(rows, q.limit), !.cursor = rows[q.limit]]
          ELSE [q EXCEPT !.seen = @ \o rows, !.pc = "done"]]
  BY DEF BasicPage
<1>2. PICK rows, next :
        /\ rows \in Ascending({c \in Live : c > q.cursor})
        /\ walk' = [walk EXCEPT ![v] = next]
        /\ next = IF Len(rows) > q.limit
                  THEN [q EXCEPT !.seen = @ \o Shown(rows, q.limit), !.cursor = rows[q.limit]]
                  ELSE [q EXCEPT !.seen = @ \o rows, !.pc = "done"]
  BY <1>1
<1>3. /\ q \in PageType /\ q.pc = "walking" /\ q.mode = "basic"
      /\ q.limit \in Nat \ {0} /\ BasicSound(q)
  BY Asked
<1>4. next \in PageType /\ WalkSound(next)
  BY <1>2, <1>3, BasicStep
<1> QED
  BY <1>2, <1>4, Walked

LEMMA NumberKeeps ==
  ASSUME WalksInv, NEW v \in Walkers, NumberPage(v), book' = book
  PROVE  WalksInv'
<1>1. PICK q \in Asks(v, "number") :
      \E rows \in Orders(Matching(q.filter), q.sort) :
        walk' = [walk EXCEPT ![v] =
          [q EXCEPT !.seen = @ \o Shown(SubSeq(rows, Offset(q) + 1, Len(rows)), q.limit),
                    !.total = Cardinality(Matching(q.filter)),
                    !.page = @ + 1,
                    !.pc = IF q.page < Pages(Cardinality(Matching(q.filter)), q.limit)
                           THEN @ ELSE "done"]]
  BY DEF NumberPage
<1>2. PICK rows, next :
        /\ rows \in Orders(Matching(q.filter), q.sort)
        /\ walk' = [walk EXCEPT ![v] = next]
        /\ next = [q EXCEPT !.seen = @ \o Shown(SubSeq(rows, Offset(q) + 1, Len(rows)), q.limit),
                            !.total = Cardinality(Matching(q.filter)),
                            !.page = @ + 1,
                            !.pc = IF q.page < Pages(Cardinality(Matching(q.filter)), q.limit)
                                   THEN @ ELSE "done"]
  BY <1>1
<1>3. /\ q \in PageType /\ q.pc = "walking" /\ q.mode = "number"
      /\ q.limit \in Nat \ {0} /\ NumberSound(q)
  BY Asked
<1>4. next \in PageType /\ WalkSound(next)
  BY <1>2, <1>3, NumberStep
<1> QED
  BY <1>2, <1>4, Walked

\* A page behind a public identifier, and a request that is refused, end the
\* walk; neither claims that it is complete.
LEMMA EndedKeeps ==
  ASSUME WalksInv, NEW v \in Walkers, NextIdPage(v) \/ FailPage(v), book' = book
  PROVE  WalksInv'
<1>1. CASE NextIdPage(v)
  <2>1. PICK q \in Asks(v, "next_id"), after \in Leading :
        \E rows \in Orders({c \in Matching(q.filter) : c > after}, q.sort) :
          walk' = [walk EXCEPT ![v] = [q EXCEPT !.seen = Shown(rows, q.limit), !.pc = "done"]]
    BY <1>1 DEF NextIdPage
  <2>2. PICK rows, seen, next :
          /\ rows \in Orders({c \in Matching(q.filter) : c > after}, q.sort)
          /\ seen = Shown(rows, q.limit)
          /\ next = [q EXCEPT !.seen = seen, !.pc = "done"]
          /\ walk' = [walk EXCEPT ![v] = next]
    BY <2>1
  <2>3. q \in PageType /\ q.mode = "next_id" /\ q.limit \in Nat \ {0}
    BY Asked
  <2>4. PICK S \in SUBSET Contacts : S = {c \in Matching(q.filter) : c > after}
    BY DEF Matching, Live
  <2>5. rows \in Seq(S)
    <3>1. rows \in SetToSeqs(S)
      BY <2>2, <2>4 DEF Orders
    <3>2. IsFiniteSet(S)
      BY FiniteContacts
    <3> QED
      BY <3>1, <3>2, Enumerates
  <2>6. seen \in Seq(Contacts)
    <3>1. seen \in Seq(S)
      BY <2>2, <2>3, <2>5, ShownRows
    <3> QED
      BY <3>1, SeqMonotonic
  <2>7. next \in PageType /\ next.mode = "next_id"
    BY <2>2, <2>3, <2>6 DEF PageType
  <2>8. WalkSound(next)
    BY <2>7 DEF WalkSound
  <2> QED
    BY <2>2, <2>7, <2>8, Walked
<1>2. CASE FailPage(v)
  <2>1. PICK mode, q, next :
          /\ mode \in {"number", "next_id"} /\ q \in Asks(v, mode)
          /\ next = [q EXCEPT !.pc = "failed"] /\ walk' = [walk EXCEPT ![v] = next]
    BY <1>2 DEF FailPage
  <2>2. q \in PageType /\ q.mode = mode
    BY <2>1, Asked
  <2>3. next \in PageType /\ next.mode = mode /\ next.pc = "failed"
    BY <2>1, <2>2 DEF PageType
  <2>4. WalkSound(next)
    BY <2>1, <2>3 DEF WalkSound
  <2> QED
    BY <2>1, <2>3, <2>4, Walked
<1> QED
  BY <1>1, <1>2

LEMMA NotStartedSound ==
  /\ [NotStarted EXCEPT !.pc = "over"] \in PageType
  /\ WalkSound([NotStarted EXCEPT !.pc = "over"])
  /\ NotStarted \in PageType /\ WalkSound(NotStarted)
<1>1. /\ <<>> \in Seq(Contacts) /\ 0 \in 0..MaxContact /\ 1 \in Nat /\ TRUE \in BOOLEAN
      /\ {} \in SUBSET Contacts
  BY ContactsAssumption, EmptySeq
<1>2. NotStarted \in PageType /\ NotStarted.mode = None
  BY <1>1 DEF NotStarted, PageType
<1>3. [NotStarted EXCEPT !.pc = "over"] \in PageType
      /\ [NotStarted EXCEPT !.pc = "over"].mode = None
  BY <1>2 DEF PageType
<1> QED
  BY <1>2, <1>3 DEF WalkSound, None

\* A write leaves of what a walk remembers what is still true.
LEMMA DisturbKeeps ==
  ASSUME WalksInv, Disturb
  PROVE  WalksInv'
<1>1. ASSUME NEW v \in Walkers
      PROVE  walk'[v] \in PageType /\ WalkSound(walk[v])'
  <2>1. PICK q : q = walk[v] /\ q \in PageType /\ WalkSound(q)
    BY DEF WalksInv
  <2>2. CASE q.pc = "start"
    <3>1. walk'[v] = q
      BY <2>1, <2>2 DEF Disturb
    <3> QED
      BY <2>1, <2>2, <3>1 DEF WalkSound, BasicComplete
  <2>3. CASE q.pc \notin {"start", "walking"}
    <3>1. PICK next : walk'[v] = next /\ next = [NotStarted EXCEPT !.pc = "over"]
      BY <2>1, <2>3 DEF Disturb
    <3>2. next \in PageType /\ next.mode = None
      BY <3>1, NotStartedSound DEF NotStarted
    <3> QED
      BY <3>1, <3>2 DEF WalkSound, None
  <2>4. CASE q.pc = "walking"
    <3>1. PICK calm \in BOOLEAN : calm = (book' = book)
      OBVIOUS
    <3>2. PICK live \in SUBSET Contacts : live = Live'
      BY DEF Live
    <3>3. walk'[v] = [q EXCEPT !.present = @ \cap live, !.calm = @ /\ calm]
      BY <2>1, <2>4, <3>1, <3>2 DEF Disturb, Live
    <3>4. PICK next : next = walk'[v] /\ next = [q EXCEPT !.present = q.present \cap live,
                                                       !.calm = (q.calm /\ calm)]
      BY <3>3
    <3>5. /\ next \in PageType /\ next.pc = "walking" /\ next.mode = q.mode
          /\ next.seen = q.seen /\ next.cursor = q.cursor /\ next.page = q.page
          /\ next.limit = q.limit /\ next.sort = q.sort /\ next.filter = q.filter
          /\ next.present = q.present \cap live /\ next.calm = (q.calm /\ calm)
      <4>1. PICK still \in BOOLEAN : still = (q.calm /\ calm)
        OBVIOUS
      <4>2. PICK present \in SUBSET Contacts : present = q.present \cap live
        BY <3>2
      <4>3. next = [q EXCEPT !.present = present, !.calm = still]
        BY <3>4, <4>1, <4>2
      <4>4. /\ next \in PageType /\ next.pc = q.pc /\ next.mode = q.mode
            /\ next.seen = q.seen /\ next.cursor = q.cursor /\ next.page = q.page
            /\ next.limit = q.limit /\ next.sort = q.sort /\ next.filter = q.filter
            /\ next.present = present /\ next.calm = still
        BY <2>1, <4>3 DEF PageType
      <4> QED
        BY <2>4, <4>1, <4>2, <4>4
    <3>6. CASE q.mode = "basic"
      BY <2>1, <2>4, <3>2, <3>4, <3>5, <3>6 DEF WalkSound, BasicSound
    <3>7. CASE q.mode = "number"
      <4>1. NumberSound(q)
        BY <2>1, <2>4, <3>7 DEF WalkSound
      <4>2. CASE ~next.calm
        BY <3>4, <3>5, <3>7, <4>1, <4>2 DEF WalkSound, NumberSound
      <4>3. CASE next.calm
        <5>1. book' = book /\ q.calm
          BY <3>1, <3>5, <4>3
        <5>2. live = Live /\ q.present = Live
          BY <3>2, <4>1, <5>1 DEF Live, NumberSound
        <5>3. q.calm = next.calm /\ next.present = q.present
          BY <3>5, <4>3, <5>1, <5>2
        <5>4. NumberSound(next)
          BY <3>5, <4>1, <5>3 DEF NumberSound, Offset
        <5>5. WalkSound(next)
          BY <3>5, <3>7, <5>4 DEF WalkSound
        <5> QED
          BY <3>4, <3>5, <5>1, <5>5, SameBook
      <4> QED
        BY <4>2, <4>3
    <3>8. CASE q.mode \notin {"basic", "number"}
      BY <3>4, <3>5, <3>8 DEF WalkSound
    <3> QED
      BY <3>6, <3>7, <3>8
  <2> QED
    BY <2>2, <2>3, <2>4
<1>2. walk' \in [Walkers -> PageType]
  BY <1>1 DEF Disturb
<1> QED
  BY <1>1, <1>2 DEF WalksInv, PageType

LEMMA WalksUntouched ==
  ASSUME WalksInv, UNCHANGED <<book, walk>>
  PROVE  WalksInv'
<1>1. ASSUME NEW v \in Walkers PROVE WalkSound(walk[v])'
  <2>1. PICK q : q = walk[v] /\ walk'[v] = q /\ WalkSound(q)
    BY DEF WalksInv
  <2> QED
    BY <2>1, SameBook
<1> QED
  BY <1>1 DEF WalksInv, PageType

---------------------------------------------------------------------------
(* The theorems                                                            *)

IInv == BookInv /\ AttributesInv /\ WalksInv /\ served \in 0..MaxRequests

LEMMA InitKeeps == Init => IInv
<1> SUFFICES ASSUME Init PROVE IInv
  OBVIOUS
<1>0. PICK first \in Existing : \E uid \in [DOMAIN first -> Contacts] :
        book = [c \in Contacts |->
          IF c \in DOMAIN first
          THEN [state |-> "live", uid |-> uid[c],
                data |-> [Blank EXCEPT !["first_name"] = first[c]]]
          ELSE Absent]
  BY DEF Init, BookInit
<1>1. PICK uid \in [DOMAIN first -> Contacts] :
        book = [c \in Contacts |->
          IF c \in DOMAIN first
          THEN [state |-> "live", uid |-> uid[c],
                data |-> [Blank EXCEPT !["first_name"] = first[c]]]
          ELSE Absent]
  BY <1>0
<1>2. PICK n \in 0..MaxContact : first \in [1..n -> Texts]
  BY ExistingAssumption
<1>3. MaxContact \in Nat /\ Blank \in [Columns -> Texts] /\ Free.pc = "free"
  BY ContactsAssumption DEF Blank, Texts, Free
<1>4. book \in [Contacts -> RowType]
  <2>1. Absent \in RowType
    BY <1>3 DEF Absent, RowType
  <2>2. ASSUME NEW c \in 1..n
        PROVE  [state |-> "live", uid |-> uid[c],
                data |-> [Blank EXCEPT !["first_name"] = first[c]]] \in RowType
    <3>1. uid[c] \in 0..MaxContact /\ first[c] \in Texts
      BY <1>2, <1>3 DEF Contacts
    <3> QED
      BY <1>3, <3>1 DEF RowType, Columns
  <2> QED
    BY <1>1, <1>2, <2>1, <2>2
<1>5. IdsInOrder
  <2>1. Taken = 1..n
    BY <1>1, <1>2, <1>3 DEF Taken, Absent, Contacts
  <2> QED
    BY <2>1 DEF IdsInOrder
<1>6. /\ writer \in [Writers -> WriterType]
      /\ \A w \in Writers : WriterSound(w)
  BY <1>3 DEF Init, BookInit, Free, WriterType, WriterSound
<1>7. AttributesInv
  <2>1. /\ attribute \in [Slugs -> [state : {"absent", "live", "deleted"}, kind : Kinds,
                                    options : SUBSET Options]]
    BY DEF Init, AttributesInit, Kinds
  <2>2. /\ editor \in [Editors -> EditorType]
        /\ \A e \in Editors : editor[e] = Idle
    BY IdleEditor DEF Init, AttributesInit
  <2> QED
    BY <2>1, <2>2, IdleEditor
       DEF AttributesInv, EditorSound, LocksExclude, LocksRow, AtEditor, None
<1>8. WalksInv
  BY NotStartedSound DEF Init, PagesInit, WalksInv
<1>9. served \in 0..MaxRequests
  BY RequestsAssumption DEF Init
<1> QED
  BY <1>4, <1>5, <1>6, <1>7, <1>8, <1>9 DEF IInv, BookInv

LEMMA StepKeeps == IInv /\ [Next]_vars => IInv' /\ ContactsStep /\ AttributesStep
<1> SUFFICES ASSUME IInv, [Next]_vars PROVE IInv' /\ ContactsStep /\ AttributesStep
  OBVIOUS
<1>1. ASSUME NEW arrives \in BOOLEAN, Serve(arrives) PROVE (served \in 0..MaxRequests)'
  BY <1>1, RequestsAssumption DEF IInv, Serve
<1>2. CASE \E w \in Writers : /\ Write(w) /\ Disturb /\ Serve(AtWriter(w, "free"))
                              /\ UNCHANGED <<attribute, editor>>
  <2>1. PICK w \in Writers : /\ Write(w) /\ Disturb /\ Serve(AtWriter(w, "free"))
                             /\ UNCHANGED <<attribute, editor>>
    BY <1>2
  <2>2. (served \in 0..MaxRequests)'
    BY <1>1, <2>1 DEF AtWriter
  <2> QED
    BY <2>1, <2>2, WriteKeeps, AttributesUntouched, DisturbKeeps DEF IInv
<1>3. CASE \E e \in Editors : /\ Edit(e) /\ UNCHANGED <<book, writer>> /\ Disturb
                              /\ Serve(AtEditor(e, "idle"))
  <2>1. PICK e \in Editors : /\ Edit(e) /\ UNCHANGED <<book, writer>> /\ Disturb
                             /\ Serve(AtEditor(e, "idle"))
    BY <1>3
  <2>2. (served \in 0..MaxRequests)'
    BY <1>1, <2>1 DEF AtEditor
  <2> QED
    BY <2>1, <2>2, EditKeeps, BookUntouched, DisturbKeeps DEF IInv
<1>4. CASE \E v \in Walkers : /\ BasicPage(v) \/ NumberPage(v) \/ NextIdPage(v) \/ FailPage(v)
                              /\ UNCHANGED <<book, writer, attribute, editor, served>>
  BY <1>4, BookUntouched, AttributesUntouched, BasicKeeps, NumberKeeps, EndedKeeps DEF IInv
<1>5. CASE UNCHANGED vars
  BY <1>5, BookUntouched, AttributesUntouched, WalksUntouched DEF IInv, vars
<1> QED
  BY <1>2, <1>3, <1>4, <1>5 DEF Next

LEMMA Invariance == Spec => []IInv
BY InitKeeps, StepKeeps, PTL DEF Spec

\* Every variable of the rows, the requests and the walks holds what its
\* handlers put there.
THEOREM TypeCorrect == Spec => []TypeOK
<1>1. ASSUME IInv PROVE TypeOK
  <2>1. <<>> \in Data
    <3>1. <<>> \in [{} -> Values] /\ {} \in SUBSET Columns
      OBVIOUS
    <3> QED
      BY <3>1 DEF Data, Partials
  <2>2. BookTypeOK
    BY <1>1, <2>1 DEF IInv, BookInv, BookTypeOK, RowType, WriterType
  <2>3. AttributesTypeOK
    BY <1>1 DEF IInv, AttributesInv, AttributesTypeOK, EditorType
  <2>4. PagesTypeOK
    BY <1>1 DEF IInv, WalksInv, PagesTypeOK, PageType
  <2> QED
    BY <1>1, <2>2, <2>3, <2>4 DEF IInv, TypeOK
<1> QED
  BY <1>1, Invariance, PTL

\* A client that follows the basic list to its end has been shown every
\* contact that was there all along, each once and in the order of the ids,
\* whatever requests interleaved with its pages.
THEOREM BasicWalks == Spec => []BasicWalkComplete
<1>1. ASSUME IInv PROVE BasicWalkComplete
  <2> SUFFICES ASSUME NEW v \in Walkers, walk[v].mode = "basic"
               PROVE  /\ Increasing(walk[v].seen)
                      /\ walk[v].pc = "done" => walk[v].present \subseteq ToSet(walk[v].seen)
    BY DEF BasicWalkComplete, Increasing
  <2> QED
    BY <1>1 DEF IInv, WalksInv, WalkSound, BasicSound, BasicComplete
<1> QED
  BY <1>1, Invariance, PTL

\* A client that follows the numbered pages to the last, in an order that
\* leaves the database no choice and with no contact written meanwhile, has
\* been shown exactly what its filter selects, each contact once.
THEOREM NumberWalks == Spec => []NumberWalkComplete
<1>1. ASSUME IInv PROVE NumberWalkComplete
  <2> SUFFICES ASSUME NEW v \in Walkers, walk[v].pc = "done", walk[v].mode = "number",
                      walk[v].calm, Decides(walk[v].sort, walk[v].present)
               PROVE  /\ IsInjective(walk[v].seen)
                      /\ Len(walk[v].seen) = walk[v].total
                      /\ ToSet(walk[v].seen)
                           = {c \in walk[v].present : c \in Matching(walk[v].filter)}
    BY DEF NumberWalkComplete
  <2> QED
    BY <1>1 DEF IInv, WalksInv, WalkSound, NumberComplete
<1> QED
  BY <1>1, Invariance, PTL

\* No step of any request brings a deleted contact or attribute back.
THEOREM DeletedForGood == Spec => DeletedStaysDeleted
<1>1. IInv /\ [Next]_vars =>
        [/\ \A c \in Contacts : book[c].state = "deleted" => book'[c].state = "deleted"
         /\ \A s \in Slugs : attribute[s].state = "deleted"
                               => attribute'[s].state = "deleted"]_vars
  BY StepKeeps DEF ContactsStep, AttributesStep
<1> QED
  BY <1>1, Invariance, PTL DEF Spec, DeletedStaysDeleted

\* A column, and the kind and the options of an attribute, change only to what
\* the request that saves or commits sends for them.
THEOREM OnlyWhatWasSent == Spec => ChangesAsSent
<1>1. IInv /\ [Next]_vars =>
        [/\ \A c \in Contacts, k \in Columns :
              book[c].state # "absent" /\ book'[c].data[k] # book[c].data[k] =>
                \E w \in Writers : /\ AtWriter(w, "save") /\ writer[w].contact = c
                                   /\ k \in DOMAIN writer[w].sent
                                   /\ book'[c].data[k] = writer[w].sent[k]
         /\ \A s \in Slugs :
              /\ attribute'[s].kind # attribute[s].kind =>
                   \E e \in Editors : AtEditor(e, "commit") /\ attribute'[s].kind = editor[e].kind
              /\ attribute'[s].options # attribute[s].options =>
                   \E e \in Editors : /\ AtEditor(e, "commit")
                                      /\ attribute'[s].options = editor[e].options]_vars
  BY StepKeeps DEF ContactsStep, AttributesStep
<1> QED
  BY <1>1, Invariance, PTL DEF Spec, ChangesAsSent
=============================================================================
