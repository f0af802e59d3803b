---------------------------- MODULE StringMixer ----------------------------
(***************************************************************************)
(* StringMixerService: encode interleaves the characters of several values *)
(* in an order drawn from a pseudo-random stream, shifts each by an offset *)
(* drawn from the same stream, and records the lengths of the values in    *)
(* the key that also seeds the stream; decode draws the same stream again  *)
(* and undoes both. The tokens of the emails are made with it.             *)
(*                                                                         *)
(* A character is its position in the alphabet, -1 when it is not there    *)
(* ("@", "."). A draw d stands for the fraction d / Resolution; every      *)
(* stream of draws is possible, because the seed is random.                *)
(***************************************************************************)
EXTENDS Integers, Sequences, FiniteSets, SequencesExt

CONSTANTS
  Inputs,      \* the lists of values that are encoded
  Letters,     \* how many characters the alphabet has: 62
  Radix,       \* the base lengths are written in: 36
  KeyLength,   \* the characters of the key: 16
  Resolution   \* how many fractions a draw distinguishes

ASSUME SizesAssumption ==
  /\ Letters \in Nat \ {0} /\ Resolution \in Nat \ {0}
  /\ Radix \in Nat \ {0, 1}
  /\ KeyLength \in 2..(2 * Radix * Radix) /\ KeyLength % 2 = 0

ASSUME InputsAssumption ==
  \A values \in Inputs :
    /\ values \in Seq(Seq(-1..(Letters - 1)))
    /\ \A i \in 1..Len(values) : Len(values[i]) < Radix * Radix * Radix

VARIABLES
  values,   \* what is encoded
  stage,    \* encode, decode, decoded or failed
  stream,   \* the draws made so far by encode
  text,     \* the mixed string
  sources,  \* which value each character drawn so far was taken from
  key,      \* the lengths, as far as the key has room for them
  output    \* what decode returned

vars == <<values, stage, stream, text, sources, key, output>>

Draws == 0..(Resolution - 1)

Init ==
  /\ values \in Inputs
  /\ stage = "encode"
  /\ stream = <<>> /\ text = <<>> /\ sources = <<>> /\ key = <<>> /\ output = <<>>

---------------------------------------------------------------------------
(* The two transformations of a character                                  *)

ShiftAlphaNumeric(c, offset) ==
  IF c = -1 THEN c ELSE (c + offset) % Letters

\* Mutant of UnshiftAlphaNumeric: it shifts the same way as encode.
UnshiftForwards(c, offset) == IF c = -1 THEN c ELSE (c + offset) % Letters

UnshiftAlphaNumeric(c, offset) ==
  IF c = -1 THEN c ELSE (c - offset + Letters) % Letters

Offset(d) == (d * Letters) \div Resolution

---------------------------------------------------------------------------
(* Lengths in the key                                                      *)

\* toString(36).padStart(2, "0"): two digits, more when two are not enough.
Digits(n) ==
  LET low == <<(n \div Radix) % Radix, n % Radix>>
  IN  IF n < Radix * Radix THEN low ELSE <<n \div (Radix * Radix)>> \o low

EncodeLengths(lengths) == FlattenSeq([i \in DOMAIN lengths |-> Digits(lengths[i])])

Slice(s, first, last) == SubSeq(s, first, IF last < Len(s) THEN last ELSE Len(s))

MakeKey(lengths) ==
  Slice(Digits(Len(lengths)) \o EncodeLengths(lengths), 1, KeyLength)

MetaLength == key[1] * Radix + key[2]

\* Mutant of DecodeLengths: the slice starts at the count of the values.
DecodeLengthsFromStart ==
  LET code == Slice(key, 1, 2 * MetaLength)
  IN  [i \in 1..(Len(code) \div 2) |-> code[2 * i - 1] * Radix + code[2 * i]]

DecodeLengths ==
  LET code == Slice(key, 3, 2 + 2 * MetaLength)
  IN  [i \in 1..(Len(code) \div 2) |-> code[2 * i - 1] * Radix + code[2 * i]]

---------------------------------------------------------------------------
(* Drawing a value that has characters left                                *)

Lengths == [i \in DOMAIN values |-> Len(values[i])]

\* The characters of strings of these lengths: which string, which place.
Cells(lengths) == UNION {{i} \X (1..lengths[i]) : i \in DOMAIN lengths}

TotalLength == Cardinality(Cells(Lengths))

\* Where the sequence of sources s takes a character from value i.
TakenFrom(s, i) == {j \in DOMAIN s : s[j] = i}

Pointer(s, i) == Cardinality(TakenFrom(s, i))

Options(s, lengths) == {i \in DOMAIN lengths : Pointer(s, i) < lengths[i]}

\* The member of S that n others are below.
Nth(S, n) == CHOOSE i \in S : Cardinality({j \in S : j < i}) = n

\* The options stand in ascending order.
Pick(options, d) == Nth(options, (d * Cardinality(options)) \div Resolution)

---------------------------------------------------------------------------
(* encode                                                                  *)

Mix ==
  /\ stage = "encode"
  /\ Len(sources) < TotalLength
  /\ \E d \in Draws :
       LET pick == Pick(Options(sources, Lengths), d)
       IN  /\ stream' = Append(stream, d)
           /\ sources' = Append(sources, pick)
           /\ text' = Append(text, values[pick][Pointer(sources, pick) + 1])
  /\ UNCHANGED <<values, stage, key, output>>

ShiftNext ==
  /\ stage = "encode"
  /\ Len(sources) = TotalLength
  /\ Len(stream) < 2 * TotalLength
  /\ \E d \in Draws :
       /\ stream' = Append(stream, d)
       /\ text' = [text EXCEPT ![Len(stream) - TotalLength + 1] =
                     ShiftAlphaNumeric(@, Offset(d))]
  /\ UNCHANGED <<values, stage, sources, key, output>>

\* The value and the key travel; nothing else of the encoding does.
Encoded ==
  /\ stage = "encode"
  /\ Len(stream) = 2 * TotalLength
  /\ key' = MakeKey(Lengths)
  /\ stage' = "decode"
  /\ sources' = <<>>
  /\ UNCHANGED <<values, stream, text, output>>

---------------------------------------------------------------------------
(* decode                                                                  *)

\* With no value left to take from, the pick is undefined; the loop runs on
\* and the defect surfaces when the characters are collected.
Unmix ==
  /\ stage = "decode"
  /\ Len(sources) < Len(text)
  /\ LET options == Options(sources, DecodeLengths)
     IN  IF options = {}
         THEN stage' = "failed" /\ UNCHANGED sources
         ELSE /\ sources' = Append(sources, Pick(options, stream[Len(sources) + 1]))
              /\ UNCHANGED stage
  /\ UNCHANGED <<values, stream, text, key, output>>

Collect ==
  /\ stage = "decode"
  /\ Len(sources) = Len(text)
  /\ LET original(j) == UnshiftAlphaNumeric(text[j], Offset(stream[Len(text) + j]))
     IN  output' = [i \in 1..MetaLength |->
                      [n \in 1..Pointer(sources, i) |->
                         original(Nth(TakenFrom(sources, i), n - 1))]]
  /\ stage' = "decoded"
  /\ UNCHANGED <<values, stream, text, sources, key>>

Stop ==
  /\ stage \in {"decoded", "failed"}
  /\ UNCHANGED vars

Next == Mix \/ ShiftNext \/ Encoded \/ Unmix \/ Collect \/ Stop

Spec == Init /\ [][Next]_vars

---------------------------------------------------------------------------
(* Properties                                                              *)

\* The number of values and their lengths take two digits each.
TwoDigits ==
  /\ Len(values) < Radix * Radix
  /\ \A i \in DOMAIN values : Len(values[i]) < Radix * Radix

\* Besides, the key has room for the length of every value that is not empty.
Fits ==
  /\ TwoDigits
  /\ \A i \in DOMAIN values : values[i] # <<>> => 2 + 2 * i <= KeyLength

\* Whatever decode returns is what was encoded: lengths cut off at the end of
\* the key make it fail, they never make it answer with other strings. (A
\* length of three digits shifts the ones behind it, and then it may.)
DecodedIsOriginal == stage = "decoded" /\ TwoDigits => output = values

\* Values the key has room for are never refused, and empty ones need none
\* behind the others.
FittingValuesDecode == Fits => stage # "failed"
===========================================================================
