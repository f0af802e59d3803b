--------------------------- MODULE MCStringMixer ---------------------------
(***************************************************************************)
(* Instances of StringMixer for TLC: three letters, lengths in base 2 (two *)
(* digits carry up to 3) and a key with room for the lengths of two values.*)
(***************************************************************************)
EXTENDS StringMixer

\* What happens depends on the lengths of the values: one string of each.
Word(first, n) == [i \in 1..n |-> <<0, -1, 2, 1, 0>>[((first + i) % 5) + 1]]

\* One to three values of up to three characters together, and a single
\* value longer than two digits carry.
ShortAndLong ==
  UNION {{[i \in 1..k |-> Word(i, lengths[i])] :
            lengths \in {l \in [1..k -> 0..3] : FoldFunction(+, 0, l) <= 3}} : k \in 1..3}
    \cup {<<Word(0, 4)>>}
===========================================================================
