-------------------------- MODULE MCContactService --------------------------
(***************************************************************************)
(* Instances of ContactService for TLC.                                    *)
(***************************************************************************)
EXTENDS ContactService, TLC

MCExisting == {<<0, 2>>}

MCUpdates ==
  {[k \in {"first_name"} |-> 1], [k \in {"last_name"} |-> 1],
   [k \in Columns |-> IF k = "first_name" THEN 2 ELSE 0]}

MCEdits ==
  {[kind |-> "choice", options |-> {"x"}], [kind |-> "plain", options |-> {}],
   [kind |-> "plain", options |-> Unsent], [kind |-> None, options |-> {}],
   [kind |-> None, options |-> {"x", "y"}]}

MCSorts == {[attribute |-> "first_name", order |-> "desc"]}

MCFilters ==
  {[attribute |-> "first_name", operator |-> o, value |-> 1] : o \in {"not_equals", "includes"}}
  \cup {[attribute |-> "lead", operator |-> "equals", value |-> 1]}

MCIncludes == {<<1, 1>>, <<2, 2>>, <<2, 1>>}

Symmetric == Permutations(Writers) \cup Permutations(Editors)
=============================================================================
