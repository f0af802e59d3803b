---------------------------- MODULE ContactPages ----------------------------
(***************************************************************************)
(* Clients that walk the pages of the contacts (basicList and list of      *)
(* ContactService) while contacts are created, updated and deleted.        *)
(*                                                                         *)
(* A basic walk follows the id of the last contact of a page; a numbered   *)
(* walk asks for one page after the other in the order it chose. The count *)
(* and the rows of a page are read by one transaction from one snapshot.   *)
(* ContactServiceNew is a copy of the service that nothing uses.           *)
(***************************************************************************)
EXTENDS ContactAttributes, SequencesExt

CONSTANTS
  Walkers,  \* the clients, each walks the pages once
  Limits,   \* the sizes of page to ask for
  Sorts,    \* the orders to ask for: an attribute and a direction
  Filters,  \* the filters to ask for, besides none
  Leading,  \* the numbers that public identifiers begin with
  Includes  \* the pairs of texts of which the first contains the second

\* The validators of the two requests refuse a page of less than one contact.
ASSUME LimitsAssumption == Limits \subseteq Nat \ {0}

VARIABLES
  walk  \* walk[v]: where the walk of client v is

\* cursor, page: what the next page is asked with; seen: the contacts of the
\* pages so far. present: the contacts live at every moment of the walk; calm:
\* no contact was written since it started; total: as the last page said.
NoFilter == [attribute |-> None, operator |-> None, value |-> Null]

\* The order when the request does not sort.
DefaultSort == [attribute |-> "uid", order |-> "asc"]

NotStarted == [pc |-> "start", mode |-> None, limit |-> 1, sort |-> DefaultSort, filter |-> NoFilter,
               cursor |-> 0, page |-> 1, seen |-> <<>>, present |-> {}, calm |-> TRUE,
               total |-> 0]

PagesTypeOK ==
  walk \in [Walkers ->
    [pc : {"start", "walking", "done", "failed", "over"}, mode : {None, "basic", "number", "next_id"},
     limit : Limits \cup {1}, sort : Sorts \cup {DefaultSort}, filter : Filters \cup {NoFilter},
     cursor : 0..MaxContact, page : Nat, seen : Seq(Contacts),
     present : SUBSET Contacts, calm : BOOLEAN, total : 0..MaxContact]]

PagesInit == walk = [v \in Walkers |-> NotStarted]

\* The first page of a walk chooses what the others keep.
FirstPages ==
  [pc : {"walking"}, mode : {"basic"}, limit : Limits, sort : {DefaultSort},
   filter : {NoFilter}, cursor : {0}, page : {1}, seen : {<<>>}, present : {Live},
   calm : {TRUE}, total : {0}]
  \cup
  [pc : {"walking"}, mode : {"number", "next_id"}, limit : Limits,
   sort : Sorts \cup {DefaultSort}, filter : Filters \cup {NoFilter}, cursor : {0},
   page : {1}, seen : {<<>>}, present : {Live}, calm : {TRUE}, total : {0}]

\* The pages client v may ask for next.
Asks(v, mode) ==
  {q \in CASE walk[v].pc = "start" -> FirstPages
           [] walk[v].pc = "walking" -> {walk[v]}
           [] OTHER -> {} : q.mode = mode}

---------------------------------------------------------------------------
(* Queries                                                                 *)

\* A comparison with a column that is null holds of nothing.
Holds(value, operator, operand) ==
  /\ value # Null
  /\ CASE operator = "equals"     -> value = operand
       [] operator = "not_equals" -> value # operand
       [] operator = "gt"         -> value > operand
       [] operator = "gte"        -> value >= operand
       [] operator = "lt"         -> value < operand
       [] operator = "lte"        -> value <= operand
       [] operator = "in"         -> value = operand
       [] operator = "includes"   -> <<value, operand>> \in Includes

\* The rows of a list: a filter on a default attribute is one on its column.
Matching(filter) ==
  {c \in Live : filter = NoFilter \/
     Holds(book[c].data[MappingOf(filter.attribute)], filter.operator, filter.value)}

\* A filter on an attribute of the workspace's own joins its values, a table
\* with a deleted_at of its own: the database refuses the query, in which
\* deleted_at is not qualified.
ValueColumns ==
  {"id", "contact_id", "attribute_id", "option_id", "value_text", "value_number",
   "value_boolean", "created_at", "updated_at", "deleted_at"}

Unqualified == {"workspace_id", "deleted_at"}

Refused(filter) ==
  /\ filter # NoFilter
  /\ \/ ~Known(filter.attribute)
     \/ MappingOf(filter.attribute) = None /\ Unqualified \cap ValueColumns # {}

Key(c, sort) ==
  IF sort.attribute = "uid" THEN book[c].uid ELSE book[c].data[sort.attribute]

\* Null comes last, whatever the direction.
Before(c, d, sort) ==
  LET k == Key(c, sort)  l == Key(d, sort) IN
  \/ k # Null /\ l = Null
  \/ k # Null /\ l # Null /\ IF sort.order = "asc" THEN k < l ELSE k > l

\* The orders in which the database may return a set of rows: it is free
\* where the sort does not decide.
Orders(S, sort) ==
  {s \in SetToSeqs(S) : \A i, j \in 1..Len(s) : i < j => ~Before(s[j], s[i], sort)}

Pages(total, limit) == IF total = 0 THEN 1 ELSE (total + limit - 1) \div limit

---------------------------------------------------------------------------
(* Pages                                                                   *)

Shown(rows, limit) == SubSeq(rows, 1, IF Len(rows) > limit THEN limit ELSE Len(rows))

\* Mutant of BasicPage: the page is cut before it is sorted.
BasicPageUnordered(v) ==
  \E q \in Asks(v, "basic") :
  \E rows \in SetToSeqs({c \in Live : c > q.cursor}) :
    walk' = [walk EXCEPT ![v] =
      IF Len(rows) > q.limit
      THEN [q EXCEPT !.seen = @ \o Shown(rows, q.limit), !.cursor = rows[q.limit]]
      ELSE [q EXCEPT !.seen = @ \o rows, !.pc = "done"]]

\* The rows in the order of their ids.
Ascending(S) == {s \in SetToSeqs(S) : \A i, j \in 1..Len(s) : i < j => s[i] < s[j]}

\* One row more than the page holds tells whether there is a next one.
BasicPage(v) ==
  \E q \in Asks(v, "basic") :
  \E rows \in Ascending({c \in Live : c > q.cursor}) :
    walk' = [walk EXCEPT ![v] =
      IF Len(rows) > q.limit
      THEN [q EXCEPT !.seen = @ \o Shown(rows, q.limit), !.cursor = rows[q.limit]]
      ELSE [q EXCEPT !.seen = @ \o rows, !.pc = "done"]]

\* Mutant of Offset: pages are counted from zero.
OffsetFromZero(q) == q.page * q.limit

Offset(q) == (q.page - 1) * q.limit

NumberPage(v) ==
  \E q \in Asks(v, "number") :
    /\ ~Refused(q.filter)
    /\ LET found == Matching(q.filter)  total == Cardinality(found) IN
       \E rows \in Orders(found, q.sort) :
         walk' = [walk EXCEPT ![v] =
           [q EXCEPT !.seen = @ \o Shown(SubSeq(rows, Offset(q) + 1, Len(rows)), q.limit),
                     !.total = total,
                     !.page = @ + 1,
                     !.pc = IF q.page < Pages(total, q.limit) THEN @ ELSE "done"]]

\* The cursor a request may send is a public identifier, which the database
\* compares as the number its text begins with; the cursor the page returns is
\* an id, which the next request cannot send: the walk ends with this page.
NextIdPage(v) ==
  \E q \in Asks(v, "next_id"), after \in Leading :
    /\ ~Refused(q.filter)
    /\ \E rows \in Orders({c \in Matching(q.filter) : c > after}, q.sort) :
         walk' = [walk EXCEPT ![v] = [q EXCEPT !.seen = Shown(rows, q.limit), !.pc = "done"]]

\* An attribute that is unknown, or one whose values would be joined.
FailPage(v) ==
  \E q \in Asks(v, "number") \cup Asks(v, "next_id") :
    /\ Refused(q.filter)
    /\ walk' = [walk EXCEPT ![v] = [q EXCEPT !.pc = "failed"]]

\* What a walk in progress remembers of a write; a finished one is forgotten.
Disturb ==
  walk' = [v \in Walkers |->
    IF walk[v].pc = "start" THEN walk[v]
    ELSE IF walk[v].pc # "walking" THEN [NotStarted EXCEPT !.pc = "over"]
    ELSE [walk[v] EXCEPT !.present = @ \cap {c \in Contacts : book'[c].state = "live"},
                         !.calm = @ /\ book' = book]]
=============================================================================
