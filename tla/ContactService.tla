--------------------------- MODULE ContactService ---------------------------
(***************************************************************************)
(* The contacts of a workspace as its clients see them: requests that      *)
(* write contacts, requests that edit attributes, and walks over the pages *)
(* served side by side.                                                    *)
(***************************************************************************)
EXTENDS ContactPages

CONSTANT
  MaxRequests  \* bound on the requests that write or edit

ASSUME RequestsAssumption == MaxRequests \in Nat

VARIABLE served  \* how many requests arrived to write or edit

vars == <<book, writer, attribute, editor, walk, served>>

Init == BookInit /\ AttributesInit /\ PagesInit /\ served = 0

\* A request counts when it arrives.
Serve(arrives) ==
  /\ arrives => served < MaxRequests
  /\ served' = IF arrives THEN served + 1 ELSE served

Next ==
  \/ \E w \in Writers :
       /\ Write(w) /\ Disturb
       /\ Serve(AtWriter(w, "free"))
       /\ UNCHANGED <<attribute, editor>>
  \/ \E e \in Editors :
       /\ Edit(e) /\ UNCHANGED <<book, writer>> /\ Disturb
       /\ Serve(AtEditor(e, "idle"))
  \/ \E v \in Walkers :
       /\ BasicPage(v) \/ NumberPage(v) \/ NextIdPage(v) \/ FailPage(v)
       /\ UNCHANGED <<book, writer, attribute, editor, served>>

Spec == Init /\ [][Next]_vars

---------------------------------------------------------------------------
(* Properties                                                              *)

TypeOK == BookTypeOK /\ AttributesTypeOK /\ PagesTypeOK /\ served \in 0..MaxRequests

\* A basic walk shows every contact once, in the order of the ids, and when it
\* is done none is missing that was there all along, whatever was created and
\* deleted meanwhile and in whatever order inserts became visible (basicList).
BasicWalkComplete ==
  \A v \in Walkers : walk[v].mode = "basic" =>
    LET seen == walk[v].seen IN
    /\ \A i, j \in 1..Len(seen) : i < j => seen[i] < seen[j]
    /\ walk[v].pc = "done" => walk[v].present \subseteq ToSet(seen)

\* Whether an order leaves the database no choice.
Decides(sort, S) == \A c, d \in S : c # d => Before(c, d, sort) \/ Before(d, c, sort)

\* A numbered walk in an order that decides, the default one among them, with
\* no writes during it, shows exactly the contacts its filter selects, each
\* once, and as many as its pages announce (list, mode number).
NumberWalkComplete ==
  \A v \in Walkers :
    (walk[v].pc = "done" /\ walk[v].mode = "number" /\ walk[v].calm
       /\ Decides(walk[v].sort, walk[v].present)) =>
    LET seen == walk[v].seen IN
    /\ IsInjective(seen)
    /\ Len(seen) = walk[v].total
    /\ ToSet(seen) = {c \in walk[v].present : c \in Matching(walk[v].filter)}

\* A column changes only to what the request that saves sends for it: a column
\* it does not change keeps what others wrote since it read the row
\* (updateContact). So do the kind and the options of an attribute
\* (updateContactAttribute).
ChangesAsSent ==
  [][/\ \A c \in Contacts, k \in Columns :
          book[c].state # "absent" /\ book'[c].data[k] # book[c].data[k] =>
            \E w \in Writers : /\ AtWriter(w, "save") /\ writer[w].contact = c
                               /\ k \in DOMAIN writer[w].sent
                               /\ book'[c].data[k] = writer[w].sent[k]
     /\ \A s \in Slugs :
          /\ attribute'[s].kind # attribute[s].kind =>
               \E e \in Editors : AtEditor(e, "commit") /\ attribute'[s].kind = editor[e].kind
          /\ attribute'[s].options # attribute[s].options =>
               \E e \in Editors : /\ AtEditor(e, "commit")
                                  /\ attribute'[s].options = editor[e].options]_vars

\* A deleted contact or attribute stays deleted: neither an update that found
\* it before the deletion nor a creation with its slug brings it back.
DeletedStaysDeleted ==
  [][/\ \A c \in Contacts : book[c].state = "deleted" => book'[c].state = "deleted"
     /\ \A s \in Slugs : attribute[s].state = "deleted" => attribute'[s].state = "deleted"]_vars
=============================================================================
