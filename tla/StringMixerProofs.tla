------------------------- MODULE StringMixerProofs -------------------------
(***************************************************************************)
(* The argument. A sequence of sources is Drawn when every place takes its *)
(* character from a value that has one left. Its places are then as many   *)
(* different characters <<value, position>>: an injection into Cells, so   *)
(* encode never runs out of options before the last character, and when    *)
(* all are taken each value gave all of its own (DrawnCells). What decode  *)
(* reads from the key is the lengths encode wrote, cut off at the end of   *)
(* the key (KeyRead). While the lengths cut off are those of empty values  *)
(* (Agrees), decode has the options encode had, draws the order encode     *)
(* drew and so finds every character where encode put it; when they are    *)
(* not, decode cannot draw as many sources as there are characters         *)
(* (CompleteAgrees), so it never answers.                                  *)
(***************************************************************************)
EXTENDS StringMixer, FiniteSetTheorems, SequenceTheorems, WellFoundedInduction, TLAPS

---------------------------------------------------------------------------
(* Ranks                                                                   *)

Below(S, i) == {j \in S : j < i}

Rank(S, i) == Cardinality(Below(S, i))

\* A draw stands for a fraction less than one.
LEMMA Fraction ==
  ASSUME NEW d \in Draws, NEW n \in Nat \ {0}
  PROVE  (d * n) \div Resolution \in 0..(n - 1)
<1>1. PICK r \in Nat \ {0} : r = Resolution /\ d \in 0..(r - 1)
  BY SizesAssumption DEF Draws
<1>2. d * n \in Nat /\ d * n < r * n
  BY <1>1
<1>3. PICK q : q = (d * n) \div r
  OBVIOUS
<1>4. q \in Nat /\ r * q <= d * n
  BY <1>1, <1>2, <1>3
<1>5. r * q < r * n
  BY <1>1, <1>2, <1>4
<1>6. q < n
  BY <1>1, <1>4, <1>5
<1> QED
  BY <1>1, <1>3, <1>4, <1>6

\* The members of a set have the ranks from zero up, in their order.
LEMMA Ranks ==
  ASSUME NEW S \in SUBSET Nat, IsFiniteSet(S)
  PROVE  /\ \A i \in S : Rank(S, i) \in 0..(Cardinality(S) - 1)
         /\ \A i, j \in S : i < j => Rank(S, i) < Rank(S, j)
<1>1. PICK m \in Nat : m = Cardinality(S)
  BY FS_CardinalityType
<1>2. ASSUME NEW i \in S
      PROVE  /\ IsFiniteSet(Below(S, i)) /\ Rank(S, i) \in 0..(m - 1)
             /\ IsFiniteSet(Below(S, i) \cup {i})
             /\ Cardinality(Below(S, i) \cup {i}) = Rank(S, i) + 1
  <2>1. Below(S, i) \in SUBSET S /\ i \notin Below(S, i)
    BY DEF Below
  <2>2. IsFiniteSet(Below(S, i)) /\ Rank(S, i) \in Nat
    BY <2>1, FS_Subset, FS_CardinalityType DEF Rank
  <2>3. /\ IsFiniteSet(Below(S, i) \cup {i})
        /\ Cardinality(Below(S, i) \cup {i}) = Rank(S, i) + 1
    BY <2>1, <2>2, FS_AddElement DEF Rank
  <2>4. Cardinality(Below(S, i) \cup {i}) <= m
    BY <1>1, <2>1, FS_Subset
  <2> QED
    BY <2>2, <2>3, <2>4
<1>3. ASSUME NEW i \in S, NEW j \in S, i < j
      PROVE  Rank(S, i) < Rank(S, j)
  <2>1. \A k \in S : k < i => k < j
    BY <1>3
  <2>2. Below(S, i) \cup {i} \in SUBSET Below(S, j)
    BY <1>3, <2>1 DEF Below
  <2>3. IsFiniteSet(Below(S, j)) /\ Rank(S, i) \in 0..(m - 1) /\ Rank(S, j) \in 0..(m - 1)
        /\ Cardinality(Below(S, i) \cup {i}) = Rank(S, i) + 1
    BY <1>2
  <2>4. Cardinality(Below(S, i) \cup {i}) <= Rank(S, j)
    BY <2>2, <2>3, FS_Subset DEF Rank
  <2> QED
    BY <2>3, <2>4
<1> QED
  BY <1>1, <1>2, <1>3

\* The member of rank n is Nth(S, n).
LEMMA NthRank ==
  ASSUME NEW S \in SUBSET Nat, IsFiniteSet(S)
  PROVE  /\ Cardinality(S) \in Nat
         /\ \A n \in 0..(Cardinality(S) - 1) : Nth(S, n) \in S /\ Rank(S, Nth(S, n)) = n
         /\ \A i \in S : Nth(S, Rank(S, i)) = i
<1>1. PICK m \in Nat : m = Cardinality(S)
  BY FS_CardinalityType
<1>2. PICK f : f = [i \in S |-> Rank(S, i)]
  OBVIOUS
<1>3. f \in [S -> 0..(m - 1)]
  BY <1>1, <1>2, Ranks
<1>4. ASSUME NEW i \in S, NEW j \in S, f[i] = f[j] PROVE i = j
  <2>1. ~(i < j) /\ ~(j < i)
    BY <1>2, <1>3, <1>4, Ranks
  <2> QED
    BY <2>1
<1>5. f \in Injection(S, 0..(m - 1))
  BY <1>3, <1>4 DEF Injection, IsInjective
<1>6. IsFiniteSet(0..(m - 1)) /\ Cardinality(0..(m - 1)) = m
  BY FS_Interval
<1>7. f \in Surjection(S, 0..(m - 1))
  BY <1>1, <1>5, <1>6, FS_Injection
<1>8. ASSUME NEW n \in 0..(m - 1) PROVE Nth(S, n) \in S /\ Rank(S, Nth(S, n)) = n
  <2>1. \E i \in S : Cardinality({j \in S : j < i}) = n
    BY <1>2, <1>7 DEF Surjection, Rank, Below
  <2> QED
    BY <2>1 DEF Nth, Rank, Below
<1>9. ASSUME NEW i \in S PROVE Nth(S, Rank(S, i)) = i
  <2>1. Rank(S, i) \in 0..(m - 1)
    BY <1>1, Ranks
  <2>2. Nth(S, Rank(S, i)) \in S /\ Rank(S, Nth(S, Rank(S, i))) = Rank(S, i)
    BY <1>8, <2>1
  <2> QED
    BY <1>2, <1>4, <2>2
<1> QED
  BY <1>1, <1>8, <1>9

\* What is picked is an option.
LEMMA Picked ==
  ASSUME NEW S \in SUBSET Nat, IsFiniteSet(S), S # {}, NEW d \in Draws
  PROVE  Pick(S, d) \in S
<1>1. Cardinality(S) \in Nat \ {0}
  BY FS_CardinalityType, FS_EmptySet
<1>2. (d * Cardinality(S)) \div Resolution \in 0..(Cardinality(S) - 1)
  BY <1>1, Fraction
<1> QED
  BY <1>2, NthRank DEF Pick

---------------------------------------------------------------------------
(* Characters and the sources they are taken from                          *)

\* There are finitely many characters.
LEMMA FiniteCells ==
  ASSUME NEW lengths \in Seq(Nat)
  PROVE  IsFiniteSet(Cells(lengths)) /\ Cardinality(Cells(lengths)) \in Nat
<1>1. PICK row : row = [i \in DOMAIN lengths |-> {i} \X (1..lengths[i])]
  OBVIOUS
<1>2. PICK rows : rows = {row[i] : i \in DOMAIN lengths}
  OBVIOUS
<1>3. row \in Surjection(DOMAIN lengths, rows)
  BY <1>1, <1>2 DEF Surjection
<1>4. IsFiniteSet(DOMAIN lengths)
  BY LenProperties, FS_Interval
<1>5. IsFiniteSet(rows)
  BY <1>3, <1>4, FS_Surjection
<1>6. ASSUME NEW i \in DOMAIN lengths PROVE IsFiniteSet(row[i])
  <2>1. PICK n \in Nat : n = lengths[i]
    BY LenProperties
  <2>2. 1 \in Int /\ n \in Int
    OBVIOUS
  <2>3. IsFiniteSet({i}) /\ IsFiniteSet(1..n)
    BY <2>2, FS_Singleton, FS_Interval
  <2> QED
    BY <1>1, <2>1, <2>3, FS_Product
<1>7. \A r \in rows : IsFiniteSet(r)
  BY <1>2, <1>6
<1>8. IsFiniteSet(UNION rows)
  BY <1>5, <1>7, FS_UNION
<1>9. Cells(lengths) = UNION rows
  BY <1>1, <1>2 DEF Cells
<1> QED
  BY <1>8, <1>9, FS_CardinalityType

\* A character is a value's number and a position in that value.
LEMMA CellsAre ==
  ASSUME NEW lengths \in Seq(Nat)
  PROVE  /\ \A i \in DOMAIN lengths, n \in Nat \ {0} :
              <<i, n>> \in Cells(lengths) <=> n <= lengths[i]
         /\ \A c \in Cells(lengths) : \E i \in DOMAIN lengths, n \in Nat \ {0} :
              c = <<i, n>> /\ n <= lengths[i]
<1>1. \A i \in DOMAIN lengths : lengths[i] \in Nat
  BY LenProperties
<1> QED
  BY <1>1 DEF Cells

\* Every place of s takes its character from a value that has one left.
Drawn(s, lengths) ==
  /\ s \in Seq(DOMAIN lengths)
  /\ \A j \in 1..Len(s) : s[j] \in Options(SubSeq(s, 1, j - 1), lengths)

\* The places that take from value i, and how many they are.
LEMMA Taken ==
  ASSUME NEW S, NEW s \in Seq(S), NEW i
  PROVE  /\ TakenFrom(s, i) \in SUBSET (1..Len(s)) /\ TakenFrom(s, i) \in SUBSET Nat
         /\ IsFiniteSet(TakenFrom(s, i)) /\ Pointer(s, i) \in Nat
         /\ \A j \in 1..Len(s) : j \in TakenFrom(s, i) <=> s[j] = i
<1>1. DOMAIN s = 1..Len(s) /\ Len(s) \in Nat
  BY LenProperties
<1>2. TakenFrom(s, i) \in SUBSET (1..Len(s)) /\ IsFiniteSet(1..Len(s))
  BY <1>1, FS_Interval DEF TakenFrom
<1> QED
  BY <1>1, <1>2, FS_Subset, FS_CardinalityType DEF TakenFrom, Pointer

\* How many were taken before a place is the rank of the place.
LEMMA TakenBefore ==
  ASSUME NEW S, NEW s \in Seq(S), NEW j \in 1..Len(s)
  PROVE  \A i : Pointer(SubSeq(s, 1, j - 1), i) = Rank(TakenFrom(s, i), j)
<1>1. PICK len \in Nat : len = Len(s) /\ DOMAIN s = 1..len
  BY LenProperties
<1>2. PICK p, m : p = SubSeq(s, 1, m) /\ m = j - 1
  OBVIOUS
<1>3. m \in 0..len /\ m \in Int /\ \A k \in 1..m : s[k] \in S
  BY <1>1, <1>2, ElementOfSeq
<1>4. /\ p \in Seq(S) /\ Len(p) = IF 1 <= m THEN m - 1 + 1 ELSE 0
      /\ \A k \in 1..(m - 1 + 1) : p[k] = s[1 + k - 1]
  BY <1>2, <1>3, SubSeqProperties
<1>5. DOMAIN p = 1..m /\ \A k \in 1..m : p[k] = s[k]
  BY <1>3, <1>4, LenProperties
<1>6. ASSUME NEW i PROVE TakenFrom(p, i) = Below(TakenFrom(s, i), j)
  BY <1>1, <1>2, <1>3, <1>5 DEF TakenFrom, Below
<1> QED
  BY <1>2, <1>6 DEF Pointer, Rank

\* Of the value it takes from, each place takes a position that value has.
LEMMA DrawnRank ==
  ASSUME NEW lengths \in Seq(Nat), NEW s, Drawn(s, lengths), NEW j \in 1..Len(s)
  PROVE  /\ s[j] \in DOMAIN lengths
         /\ Rank(TakenFrom(s, s[j]), j) \in Nat
         /\ Rank(TakenFrom(s, s[j]), j) < lengths[s[j]]
<1>1. s \in Seq(DOMAIN lengths) /\ s[j] \in Options(SubSeq(s, 1, j - 1), lengths)
  BY DEF Drawn
<1>2. Pointer(SubSeq(s, 1, j - 1), s[j]) = Rank(TakenFrom(s, s[j]), j)
  BY <1>1, TakenBefore
<1>3. Rank(TakenFrom(s, s[j]), j) \in Nat
  <2>1. j \in TakenFrom(s, s[j]) /\ TakenFrom(s, s[j]) \in SUBSET Nat
        /\ IsFiniteSet(TakenFrom(s, s[j]))
    BY <1>1, Taken
  <2> QED
    BY <2>1, Ranks
<1> QED
  BY <1>1, <1>2, <1>3 DEF Options

\* No value gives more characters than it has.
LEMMA PointerBound ==
  ASSUME NEW lengths \in Seq(Nat), NEW s, Drawn(s, lengths), NEW i \in DOMAIN lengths
  PROVE  Pointer(s, i) <= lengths[i]
<1>1. PICK T : T = TakenFrom(s, i)
  OBVIOUS
<1>2. s \in Seq(DOMAIN lengths) /\ lengths[i] \in Nat
  BY LenProperties DEF Drawn
<1>3. /\ T \in SUBSET (1..Len(s)) /\ T \in SUBSET Nat /\ IsFiniteSet(T)
      /\ \A j \in T : s[j] = i
  BY <1>1, <1>2, Taken
<1>4. PICK m \in Nat : m = Cardinality(T) /\ m = Pointer(s, i)
  BY <1>1, <1>2, Taken DEF Pointer
<1>5. CASE m = 0
  BY <1>2, <1>4, <1>5
<1>6. CASE m > 0
  <2>1. m - 1 \in 0..(Cardinality(T) - 1)
    BY <1>4, <1>6
  <2>2. PICK j : j = Nth(T, m - 1) /\ j \in T /\ Rank(T, j) = m - 1
    BY <1>3, <2>1, NthRank
  <2>3. Rank(T, j) < lengths[i]
    BY <1>1, <1>3, <2>2, DrawnRank
  <2> QED
    BY <1>2, <1>4, <2>2, <2>3
<1> QED
  BY <1>4, <1>5, <1>6

\* The places of s are as many characters of the values, each another.
LEMMA DrawnCells ==
  ASSUME NEW lengths \in Seq(Nat), NEW s, Drawn(s, lengths)
  PROVE  /\ Len(s) \in Nat /\ Len(s) <= Cardinality(Cells(lengths))
         /\ Len(s) = Cardinality(Cells(lengths)) =>
              \A i \in DOMAIN lengths : Pointer(s, i) = lengths[i]
         /\ Len(s) < Cardinality(Cells(lengths)) => Options(s, lengths) # {}
<1>1. s \in Seq(DOMAIN lengths) /\ Len(s) \in Nat
  BY LenProperties DEF Drawn
<1>2. PICK N, C : N = 1..Len(s) /\ C = Cells(lengths)
  OBVIOUS
<1>3. IsFiniteSet(N) /\ Cardinality(N) = Len(s) /\ IsFiniteSet(C) /\ Cardinality(C) \in Nat
  <2>1. IsFiniteSet(1..Len(s)) /\ Cardinality(1..Len(s)) = Len(s)
    <3>1. PICK m \in Nat : m = Len(s)
      BY <1>1
    <3>2. 1 \in Int /\ m \in Int /\ (IF 1 > m THEN 0 ELSE m - 1 + 1) = m
      OBVIOUS
    <3> QED
      BY <3>1, <3>2, FS_Interval
  <2> QED
    BY <1>2, <2>1, FiniteCells
<1>4. PICK cell : cell = [j \in N |-> <<s[j], Rank(TakenFrom(s, s[j]), j) + 1>>]
  OBVIOUS
<1>5. ASSUME NEW j \in N PROVE cell[j] \in C
  <2>1. PICK i, n : i = s[j] /\ n = Rank(TakenFrom(s, s[j]), j) + 1
    OBVIOUS
  <2>2. i \in DOMAIN lengths /\ n \in Nat \ {0} /\ n <= lengths[i]
    <3>1. lengths[i] \in Nat /\ i \in DOMAIN lengths
      BY <1>2, <2>1, DrawnRank, LenProperties
    <3> QED
      BY <1>2, <2>1, <3>1, DrawnRank
  <2> QED
    BY <1>2, <1>4, <2>1, <2>2, CellsAre
<1>6. ASSUME NEW j \in N, NEW k \in N, cell[j] = cell[k] PROVE j = k
  <2>1. s[j] = s[k] /\ Rank(TakenFrom(s, s[j]), j) = Rank(TakenFrom(s, s[j]), k)
    <3>1. /\ Rank(TakenFrom(s, s[j]), j) \in Nat /\ Rank(TakenFrom(s, s[k]), k) \in Nat
      BY <1>2, DrawnRank
    <3>2. s[j] = s[k]
          /\ Rank(TakenFrom(s, s[j]), j) + 1 = Rank(TakenFrom(s, s[k]), k) + 1
      BY <1>4, <1>6
    <3> QED
      BY <3>1, <3>2
  <2>2. /\ TakenFrom(s, s[j]) \in SUBSET Nat /\ IsFiniteSet(TakenFrom(s, s[j]))
        /\ j \in TakenFrom(s, s[j]) /\ k \in TakenFrom(s, s[j])
    BY <1>1, <1>2, <2>1, Taken
  <2> QED
    BY <2>1, <2>2, NthRank
<1>7. cell \in Injection(N, C)
  <2>1. cell \in [N -> C]
    BY <1>4, <1>5
  <2> QED
    BY <1>6, <2>1 DEF Injection, IsInjective
<1>8. Len(s) <= Cardinality(C) /\ (Len(s) = Cardinality(C) => cell \in Surjection(N, C))
  BY <1>3, <1>7, FS_Injection
<1>9. ASSUME Len(s) = Cardinality(C), NEW i \in DOMAIN lengths
      PROVE  Pointer(s, i) = lengths[i]
  <2>1. PICK T, n : T = TakenFrom(s, i) /\ n = lengths[i]
    OBVIOUS
  <2>2. /\ T \in SUBSET Nat /\ IsFiniteSet(T) /\ Cardinality(T) \in Nat
        /\ Pointer(s, i) = Cardinality(T) /\ n \in Nat
    BY <1>1, <2>1, Taken, LenProperties DEF Pointer
  <2>3. Cardinality(T) <= n
    BY <2>1, <2>2, PointerBound
  <2>4. ASSUME n > 0 PROVE n <= Cardinality(T)
    <3>1. <<i, n>> \in C
      BY <1>2, <2>1, <2>2, <2>4, CellsAre
    <3>2. PICK j \in N : cell[j] = <<i, n>>
      BY <1>8, <1>9, <3>1 DEF Surjection
    <3>3. s[j] = i /\ Rank(T, j) + 1 = n
      BY <1>4, <2>1, <3>2
    <3>4. j \in T
      BY <1>1, <1>2, <2>1, <3>3, Taken
    <3>5. Rank(T, j) \in 0..(Cardinality(T) - 1)
      BY <2>2, <3>4, Ranks
    <3> QED
      BY <2>2, <3>3, <3>5
  <2> QED
    BY <2>1, <2>2, <2>3, <2>4
<1>10. ASSUME Options(s, lengths) = {} PROVE Cardinality(C) <= Len(s)
  <2>1. \A i \in DOMAIN lengths : lengths[i] \in Nat /\ Pointer(s, i) = lengths[i]
    BY <1>1, <1>10, PointerBound, Taken, LenProperties DEF Options
  <2>2. ASSUME NEW c \in C PROVE \E j \in N : cell[j] = c
    <3>1. PICK i \in DOMAIN lengths, n \in Nat \ {0} : c = <<i, n>> /\ n <= lengths[i]
      BY <1>2, CellsAre
    <3>2. PICK T : T = TakenFrom(s, i)
      OBVIOUS
    <3>3. /\ T \in SUBSET N /\ T \in SUBSET Nat /\ IsFiniteSet(T)
          /\ Cardinality(T) = lengths[i] /\ \A j \in T : s[j] = i
      BY <1>1, <1>2, <2>1, <3>2, Taken DEF Pointer
    <3>4. n - 1 \in 0..(Cardinality(T) - 1)
      BY <2>1, <3>1, <3>3
    <3>5. PICK j : j = Nth(T, n - 1) /\ j \in T /\ Rank(T, j) = n - 1
      BY <3>3, <3>4, NthRank
    <3>6. cell[j] = <<i, Rank(T, j) + 1>> /\ Rank(T, j) + 1 = n
      BY <1>4, <3>1, <3>2, <3>3, <3>5
    <3> QED
      BY <3>1, <3>3, <3>5, <3>6
  <2>3. cell \in Surjection(N, C)
    BY <1>7, <2>2 DEF Injection, Surjection
  <2> QED
    BY <1>3, <2>3, FS_Surjection
<1> QED
  BY <1>1, <1>2, <1>3, <1>8, <1>9, <1>10

---------------------------------------------------------------------------
(* The key                                                                 *)

\* A set of naturals that is not empty has a least member.
LEMMA Least ==
  ASSUME NEW T \in SUBSET Nat, T # {}
  PROVE  \E m \in T : \A n \in T : m <= n
<1>1. IsWellFoundedOn(OpToRel(<, Nat), Nat)
  BY NatLessThanWellFounded
<1>2. PICK m \in T : \A n \in T : ~(<<n, m>> \in OpToRel(<, Nat))
  BY <1>1, WFMin
<1>3. \A n \in T : ~(n < m)
  BY <1>2 DEF OpToRel
<1> QED
  BY <1>3

\* Pairs of digits, one after the other.
Paired(pairs, n) == [j \in 1..(2 * n) |-> pairs[(j + 1) \div 2][2 - (j % 2)]]

\* n pairs are 2 * n digits.
LEMMA PairedSeq ==
  ASSUME NEW S, NEW n \in Nat, NEW pairs,
         \A i \in 1..n : pairs[i] \in Seq(S) /\ Len(pairs[i]) = 2
  PROVE  Paired(pairs, n) \in Seq(S) /\ Len(Paired(pairs, n)) = 2 * n
<1>1. ASSUME NEW j \in 1..(2 * n) PROVE Paired(pairs, n)[j] \in S
  <2>1. (j + 1) \div 2 \in 1..n /\ 2 - (j % 2) \in 1..2
    OBVIOUS
  <2> QED
    BY <2>1, ElementOfSeq DEF Paired
<1>2. Paired(pairs, n) \in [1..(2 * n) -> S] /\ 2 * n \in Nat
  BY <1>1 DEF Paired
<1> QED
  BY <1>2

\* One pair more is appended.
LEMMA PairedNext ==
  ASSUME NEW S, NEW n \in Nat, NEW pairs,
         \A i \in 1..(n + 1) : pairs[i] \in Seq(S) /\ Len(pairs[i]) = 2
  PROVE  Paired(pairs, n + 1) = Paired(pairs, n) \o pairs[n + 1]
<1>1. PICK s, t, u, whole : /\ s = Paired(pairs, n) /\ t = pairs[n + 1] /\ u = s \o t
                            /\ whole = Paired(pairs, n + 1)
  OBVIOUS
<1>2. s \in Seq(S) /\ Len(s) = 2 * n /\ t \in Seq(S) /\ Len(t) = 2
  <2>1. \A i \in 1..n : i \in 1..(n + 1)
    OBVIOUS
  <2> QED
    BY <1>1, <2>1, PairedSeq
<1>3. whole \in Seq(S) /\ Len(whole) = 2 * n + 2
  <2>1. n + 1 \in Nat /\ 2 * (n + 1) = 2 * n + 2
    OBVIOUS
  <2> QED
    BY <1>1, <2>1, PairedSeq
<1>4. /\ u \in Seq(S) /\ Len(u) = 2 * n + 2
      /\ \A j \in 1..(2 * n + 2) : u[j] = IF j <= 2 * n THEN s[j] ELSE t[j - 2 * n]
  <2>1. /\ s \o t \in Seq(S) /\ Len(s \o t) = Len(s) + Len(t)
        /\ \A j \in 1..(Len(s) + Len(t)) :
             (s \o t)[j] = IF j <= Len(s) THEN s[j] ELSE t[j - Len(s)]
    BY <1>2, ConcatProperties
  <2> QED
    BY <1>1, <1>2, <2>1
<1>5. ASSUME NEW j \in 1..(2 * n + 2) PROVE u[j] = whole[j]
  <2>1. whole[j] = pairs[(j + 1) \div 2][2 - (j % 2)]
    <3>1. j \in 1..(2 * (n + 1))
      OBVIOUS
    <3> QED
      BY <1>1, <3>1 DEF Paired
  <2>2. CASE j <= 2 * n
    <3>1. s[j] = pairs[(j + 1) \div 2][2 - (j % 2)]
      BY <1>1, <2>2 DEF Paired
    <3> QED
      BY <1>4, <2>1, <2>2, <3>1
  <2>3. CASE ~(j <= 2 * n)
    <3>1. (j + 1) \div 2 = n + 1 /\ 2 - (j % 2) = j - 2 * n
      BY <2>3
    <3> QED
      BY <1>1, <1>4, <2>1, <2>3, <3>1
  <2> QED
    BY <2>2, <2>3
<1>6. u = whole
  BY <1>3, <1>4, <1>5, SeqEqual
<1> QED
  BY <1>1, <1>6

\* Flattening a sequence of pairs of digits puts them one after the other.
LEMMA FlattenPairs ==
  ASSUME NEW S, NEW n \in Nat, NEW pairs \in [1..n -> Seq(S)],
         \A i \in 1..n : Len(pairs[i]) = 2
  PROVE  FlattenSeq(pairs) = Paired(pairs, n)
<1>1. pairs \in Seq(Seq(S)) /\ Len(pairs) = n
  OBVIOUS
<1>2. CASE n = 0
  BY <1>1, <1>2 DEF FlattenSeq, Paired
<1>3. CASE n > 0
  <2> DEFINE Flattens(f) == f = [i \in 1..n |-> IF i = 1 THEN pairs[i] ELSE f[i - 1] \o pairs[i]]
  <2>1. FlattenSeq(pairs) = (CHOOSE f : Flattens(f))[n]
    BY <1>1, <1>3 DEF FlattenSeq
  <2>2. ASSUME NEW i \in 1..n, i # 1
        PROVE  Paired(pairs, i) = Paired(pairs, i - 1) \o pairs[i]
    <3>1. PICK m \in Nat : m = i - 1 /\ i = m + 1
      BY <2>2
    <3>2. \A k \in 1..(m + 1) : pairs[k] \in Seq(S) /\ Len(pairs[k]) = 2
      BY <3>1
    <3> QED
      BY <3>1, <3>2, PairedNext
  <2>3. Paired(pairs, 1) = pairs[1]
    <3>1. pairs[1] \in Seq(S) /\ Len(pairs[1]) = 2 /\ 0 \in Nat
      BY <1>3
    <3>2. Paired(pairs, 0 + 1) = Paired(pairs, 0) \o pairs[0 + 1]
      <4>1. \A k \in 1..(0 + 1) : pairs[k] \in Seq(S) /\ Len(pairs[k]) = 2
        BY <1>3
      <4> QED
        BY <4>1, PairedNext
    <3>3. Paired(pairs, 0) = <<>>
      BY DEF Paired
    <3>4. 0 + 1 = 1 /\ <<>> \o pairs[1] = pairs[1]
      BY <3>1, ConcatEmptySeq
    <3> QED
      BY <3>2, <3>3, <3>4
  <2>4. Flattens([i \in 1..n |-> Paired(pairs, i)])
    <3>1. ASSUME NEW i \in 1..n
          PROVE  Paired(pairs, i) = IF i = 1 THEN pairs[i]
                                    ELSE [k \in 1..n |-> Paired(pairs, k)][i - 1] \o pairs[i]
      <4>1. i # 1 => i - 1 \in 1..n
        OBVIOUS
      <4> QED
        BY <2>2, <2>3, <4>1
    <3> QED
      BY <3>1
  <2>5. PICK f : f = (CHOOSE g : Flattens(g)) /\ Flattens(f)
    BY <2>4
  <2> HIDE DEF Flattens
  <2>6. ASSUME NEW i \in 1..n
        PROVE  f[i] = IF i = 1 THEN pairs[i] ELSE f[i - 1] \o pairs[i]
    BY <2>5 DEF Flattens
  <2> DEFINE Differ == {i \in 1..n : f[i] # Paired(pairs, i)}
  <2>7. ASSUME Differ # {} PROVE FALSE
    <3>1. Differ \in SUBSET Nat
      OBVIOUS
    <3>2. PICK i \in Differ : \A k \in Differ : i <= k
      BY <2>7, <3>1, Least
    <3>3. i # 1
      BY <2>3, <2>6, <3>2
    <3>4. i - 1 \in 1..n /\ i - 1 \notin Differ
      BY <3>2, <3>3
    <3> QED
      BY <2>2, <2>6, <3>2, <3>3, <3>4
  <2>8. f[n] = Paired(pairs, n)
    <3>1. n \in 1..n /\ n \notin Differ
      BY <1>3, <2>7
    <3> QED
      BY <3>1
  <2> QED
    BY <2>1, <2>5, <2>8
<1> QED
  BY <1>2, <1>3

\* Two digits of a number that is small enough give it back.
LEMMA TwoAreEnough ==
  ASSUME NEW n \in Nat, n < Radix * Radix
  PROVE  /\ Digits(n) \in Seq(Nat) /\ Len(Digits(n)) = 2
         /\ Digits(n)[1] * Radix + Digits(n)[2] = n
<1>1. PICK r \in Nat \ {0} : r = Radix
  BY SizesAssumption
<1>2. PICK q, m : q = n \div r /\ m = n % r
  OBVIOUS
<1>3. q \in Nat /\ m \in 0..(r - 1) /\ n = r * q + m
  BY <1>1, <1>2
<1>4. q < r
  <2>1. r * q < r * r
    BY <1>1, <1>3
  <2> QED
    BY <1>1, <1>3, <2>1
<1>5. q % r = q
  BY <1>1, <1>3, <1>4
<1>6. Digits(n) = <<q, m>>
  BY <1>1, <1>2, <1>5 DEF Digits
<1>7. q * r + m = n
  BY <1>1, <1>3
<1> QED
  BY <1>1, <1>3, <1>6, <1>7

\* decode reads back how many values there are, and of their lengths as many
\* as the key has room for.
LEMMA KeyRead ==
  ASSUME values \in Inputs, TwoDigits, key = MakeKey(Lengths)
  PROVE  /\ MetaLength = Len(values)
         /\ DecodeLengths \in Seq(Nat) /\ Len(DecodeLengths) <= Len(values)
         /\ \A i \in 1..Len(values) : 2 + 2 * i <= KeyLength => i <= Len(DecodeLengths)
         /\ \A i \in 1..Len(DecodeLengths) : DecodeLengths[i] = Len(values[i])
<1>1. PICK k \in Nat, room \in Nat, r \in Nat \ {0} :
        k = Len(values) /\ KeyLength = 2 * room /\ room > 0 /\ r = Radix
  <2>1. Len(values) \in Nat
    BY InputsAssumption, LenProperties
  <2>2. \E room \in Nat : KeyLength = 2 * room /\ room > 0
    <3>1. KeyLength \in Nat /\ KeyLength >= 2 /\ KeyLength % 2 = 0
      BY SizesAssumption
    <3>2. KeyLength \div 2 \in Nat /\ KeyLength = 2 * (KeyLength \div 2) /\ KeyLength \div 2 > 0
      BY <3>1
    <3> QED
      BY <3>2
  <2> QED
    BY <2>1, <2>2, SizesAssumption
<1>2. PICK lengths \in [1..k -> Nat] :
        lengths = Lengths /\ \A i \in 1..k : lengths[i] = Len(values[i]) /\ lengths[i] < r * r
  <2>1. /\ values \in Seq(Seq(-1..(Letters - 1))) /\ DOMAIN values = 1..k
        /\ \A i \in 1..k : Len(values[i]) \in Nat
    BY <1>1, InputsAssumption, LenProperties, ElementOfSeq
  <2>2. \A i \in 1..k : Len(values[i]) < r * r
    BY <1>1, <2>1 DEF TwoDigits
  <2>3. Lengths = [i \in 1..k |-> Len(values[i])]
    BY <2>1 DEF Lengths
  <2>4. Lengths \in [1..k -> Nat]
    BY <2>1, <2>3
  <2> QED
    BY <2>2, <2>3, <2>4
<1>3. PICK pairs \in [1..k -> Seq(Nat)] :
        /\ pairs = [i \in DOMAIN lengths |-> Digits(lengths[i])]
        /\ \A i \in 1..k : Len(pairs[i]) = 2 /\ pairs[i][1] * r + pairs[i][2] = lengths[i]
  <2>1. ASSUME NEW i \in 1..k
        PROVE  /\ Digits(lengths[i]) \in Seq(Nat) /\ Len(Digits(lengths[i])) = 2
               /\ Digits(lengths[i])[1] * r + Digits(lengths[i])[2] = lengths[i]
    BY <1>1, <1>2, TwoAreEnough
  <2>2. PICK digits : digits = [i \in DOMAIN lengths |-> Digits(lengths[i])]
    OBVIOUS
  <2>3. DOMAIN lengths = 1..k /\ \A i \in 1..k : digits[i] = Digits(lengths[i])
    BY <2>2
  <2>4. digits \in [1..k -> Seq(Nat)]
    BY <2>1, <2>2, <2>3
  <2> QED
    BY <2>1, <2>2, <2>3, <2>4
<1>4. PICK code : code = Paired(pairs, k) /\ code = EncodeLengths(Lengths)
  BY <1>1, <1>2, <1>3, FlattenPairs DEF EncodeLengths
<1>5. /\ code \in Seq(Nat) /\ Len(code) = 2 * k
      /\ \A i \in 1..k : code[2 * i - 1] * r + code[2 * i] = lengths[i]
  <2>1. code \in Seq(Nat) /\ Len(code) = 2 * k
    <3>1. \A i \in 1..k : pairs[i] \in Seq(Nat) /\ Len(pairs[i]) = 2
      BY <1>3
    <3>2. Paired(pairs, k) \in Seq(Nat) /\ Len(Paired(pairs, k)) = 2 * k
      BY <1>1, <3>1, PairedSeq
    <3> QED
      BY <1>4, <3>2
  <2>2. ASSUME NEW i \in 1..k
        PROVE  code[2 * i - 1] = pairs[i][1] /\ code[2 * i] = pairs[i][2]
    <3>1. /\ 2 * i - 1 \in 1..(2 * k) /\ 2 * i \in 1..(2 * k)
          /\ ((2 * i - 1) + 1) \div 2 = i /\ 2 - ((2 * i - 1) % 2) = 1
          /\ (2 * i + 1) \div 2 = i /\ 2 - ((2 * i) % 2) = 2
      BY <1>1
    <3> QED
      BY <1>4, <3>1 DEF Paired
  <2> QED
    BY <1>3, <2>1, <2>2
<1>6. PICK count : /\ count = Digits(k) /\ count \in Seq(Nat) /\ Len(count) = 2
                   /\ count[1] * r + count[2] = k
  BY <1>1, TwoAreEnough DEF TwoDigits
<1>7. PICK whole : whole = count \o code
  OBVIOUS
<1>8. /\ whole \in Seq(Nat) /\ Len(whole) = 2 + 2 * k
      /\ whole[1] = count[1] /\ whole[2] = count[2]
      /\ \A j \in 1..(2 * k) : whole[2 + j] = code[j]
  <2>1. /\ count \o code \in Seq(Nat) /\ Len(count \o code) = Len(count) + Len(code)
        /\ \A j \in 1..(Len(count) + Len(code)) :
             (count \o code)[j] = IF j <= Len(count) THEN count[j] ELSE code[j - Len(count)]
    BY <1>5, <1>6, ConcatProperties
  <2>2. /\ whole \in Seq(Nat) /\ Len(whole) = 2 + 2 * k
        /\ \A j \in 1..(2 + 2 * k) : whole[j] = IF j <= 2 THEN count[j] ELSE code[j - 2]
    BY <1>5, <1>6, <1>7, <2>1
  <2>3. whole[1] = count[1] /\ whole[2] = count[2]
    BY <2>2
  <2>4. ASSUME NEW j \in 1..(2 * k) PROVE whole[2 + j] = code[j]
    <3>1. 2 + j \in 1..(2 + 2 * k) /\ ~(2 + j <= 2) /\ (2 + j) - 2 = j
      OBVIOUS
    <3> QED
      BY <2>2, <3>1
  <2> QED
    BY <2>2, <2>3, <2>4
<1>9. PICK m \in Nat : m <= k /\ m <= room - 1 /\ (m = k \/ m = room - 1)
  <2>1. PICK p \in Nat : p = room - 1
    BY <1>1
  <2>2. CASE p < k
    <3>1. p <= k /\ p <= room - 1
      BY <2>1, <2>2
    <3> QED
      BY <2>1, <3>1
  <2>3. CASE ~(p < k)
    <3>1. k <= k /\ k <= room - 1
      BY <1>1, <2>1, <2>3
    <3> QED
      BY <3>1
  <2> QED
    BY <2>2, <2>3
<1>10. /\ key \in Seq(Nat) /\ Len(key) = 2 + 2 * m
       /\ \A j \in 1..(2 + 2 * m) : key[j] = whole[j]
  <2>1. PICK last \in Nat : last = 2 + 2 * m
    OBVIOUS
  <2>2. last = IF KeyLength < Len(whole) THEN KeyLength ELSE Len(whole)
    <3>1. Len(whole) = 2 + 2 * k /\ KeyLength = 2 * room
      BY <1>1, <1>8
    <3>2. CASE m = k
      BY <1>9, <2>1, <3>1, <3>2
    <3>3. CASE m = room - 1
      BY <1>9, <2>1, <3>1, <3>3
    <3> QED
      BY <1>9, <3>2, <3>3
  <2>3. key = SubSeq(whole, 1, last)
    <3>1. Len(lengths) = k
      BY <1>1
    <3>2. key = Slice(whole, 1, KeyLength)
      BY <1>2, <1>4, <1>6, <1>7, <3>1 DEF MakeKey
    <3> QED
      BY <2>2, <3>2 DEF Slice
  <2>4. last <= Len(whole) /\ \A j \in 1..last : whole[j] \in Nat
    <3>1. last <= Len(whole) /\ \A j \in 1..last : j \in 1..Len(whole)
      BY <1>8, <1>9, <2>1
    <3> QED
      BY <1>8, <3>1, ElementOfSeq
  <2>5. /\ SubSeq(whole, 1, last) \in Seq(Nat)
        /\ Len(SubSeq(whole, 1, last)) = IF 1 <= last THEN last - 1 + 1 ELSE 0
        /\ \A j \in 1..(last - 1 + 1) : SubSeq(whole, 1, last)[j] = whole[1 + j - 1]
    BY <2>4, SubSeqProperties
  <2>6. ASSUME NEW j \in 1..last PROVE key[j] = whole[j]
    <3>1. j \in 1..(last - 1 + 1) /\ 1 + j - 1 = j
      OBVIOUS
    <3> QED
      BY <2>3, <2>5, <3>1
  <2>7. Len(key) = last
    BY <2>1, <2>3, <2>5
  <2> QED
    BY <2>1, <2>3, <2>5, <2>6, <2>7
<1>11. MetaLength = k
  BY <1>1, <1>6, <1>8, <1>10 DEF MetaLength
<1>12. PICK read : /\ read = Slice(key, 3, 2 + 2 * MetaLength)
                   /\ read \in Seq(Nat) /\ Len(read) = 2 * m
                   /\ \A j \in 1..(2 * m) : read[j] = code[j]
  <2>1. PICK last \in Nat : last = 2 + 2 * m
    OBVIOUS
  <2>2. Slice(key, 3, 2 + 2 * MetaLength) = SubSeq(key, 3, last)
    <3>1. (IF 2 + 2 * k < Len(key) THEN 2 + 2 * k ELSE Len(key)) = last
      BY <1>9, <1>10, <2>1
    <3> QED
      BY <1>11, <3>1 DEF Slice
  <2>3. \A j \in 3..last : key[j] \in Nat
    BY <1>10, <2>1, ElementOfSeq
  <2>4. /\ SubSeq(key, 3, last) \in Seq(Nat)
        /\ Len(SubSeq(key, 3, last)) = IF 3 <= last THEN last - 3 + 1 ELSE 0
        /\ \A j \in 1..(last - 3 + 1) : SubSeq(key, 3, last)[j] = key[3 + j - 1]
    BY <2>3, SubSeqProperties
  <2>5. ASSUME NEW j \in 1..(2 * m) PROVE SubSeq(key, 3, last)[j] = code[j]
    <3>1. /\ j \in 1..(last - 3 + 1) /\ 3 + j - 1 = 2 + j
          /\ 2 + j \in 1..(2 + 2 * m) /\ j \in 1..(2 * k)
      BY <1>9, <2>1
    <3> QED
      BY <1>8, <1>10, <2>4, <3>1
  <2>6. Len(SubSeq(key, 3, last)) = 2 * m
    BY <2>1, <2>4
  <2> QED
    BY <2>2, <2>4, <2>5, <2>6
<1>13. DecodeLengths = [i \in 1..m |-> read[2 * i - 1] * r + read[2 * i]]
  <2>1. Len(read) \div 2 = m
    <3>1. Len(read) = 2 * m /\ (2 * m) \div 2 = m
      BY <1>12
    <3> QED
      BY <3>1
  <2> QED
    BY <1>1, <1>12, <2>1 DEF DecodeLengths
<1>14. ASSUME NEW i \in 1..m PROVE DecodeLengths[i] = lengths[i]
  <2>1. /\ 2 * i - 1 \in 1..(2 * m) /\ 2 * i \in 1..(2 * m) /\ i \in 1..k
    BY <1>9
  <2> QED
    BY <1>5, <1>12, <1>13, <2>1
<1>15. DecodeLengths \in Seq(Nat) /\ Len(DecodeLengths) = m
  <2>1. \A i \in 1..m : lengths[i] \in Nat
    BY <1>2, <1>9
  <2>2. DecodeLengths \in [1..m -> Nat]
    BY <1>13, <1>14, <2>1
  <2>3. \A f \in [1..m -> Nat] : f \in Seq(Nat) /\ Len(f) = m
    OBVIOUS
  <2> QED
    BY <2>2, <2>3
<1>16. m <= k /\ \A i \in 1..k : 2 + 2 * i <= 2 * room => i <= m
  BY <1>1, <1>9
<1> QED
  BY <1>1, <1>2, <1>11, <1>14, <1>15, <1>16
---------------------------------------------------------------------------
(* Steps of the loops                                                      *)

\* Shifting back undoes the shift.
LEMMA UnshiftsShift ==
  ASSUME NEW c \in -1..(Letters - 1), NEW o \in 0..(Letters - 1)
  PROVE  /\ ShiftAlphaNumeric(c, o) \in -1..(Letters - 1)
         /\ UnshiftAlphaNumeric(ShiftAlphaNumeric(c, o), o) = c
<1>1. PICK l \in Nat \ {0} : l = Letters /\ c \in -1..(l - 1) /\ o \in 0..(l - 1)
  BY SizesAssumption
<1>2. ASSUME NEW n \in 0..(l - 1) PROVE n % l = n /\ (n + l) % l = n
  BY <1>1, <1>2
<1>3. CASE c = -1
  BY <1>1, <1>3 DEF ShiftAlphaNumeric, UnshiftAlphaNumeric
<1>4. CASE c # -1 /\ c + o < l
  <2>1. (c + o) % l = c + o /\ (c + o) - o + l = c + l /\ c \in 0..(l - 1) /\ c + o # -1
    BY <1>1, <1>2, <1>4
  <2>2. (c + l) % l = c
    BY <1>2, <2>1
  <2> QED
    BY <1>1, <1>4, <2>1, <2>2 DEF ShiftAlphaNumeric, UnshiftAlphaNumeric
<1>5. CASE c # -1 /\ ~(c + o < l)
  <2>1. PICK m \in 0..(l - 1) : m = c + o - l
    BY <1>1, <1>5
  <2>2. (c + o) % l = m /\ m - o + l = c /\ c \in 0..(l - 1) /\ m # -1
    <3>1. (m + l) % l = m
      BY <1>2
    <3> QED
      BY <1>1, <1>5, <2>1, <3>1
  <2>3. c % l = c
    BY <1>2, <2>2
  <2> QED
    BY <1>1, <1>5, <2>2, <2>3 DEF ShiftAlphaNumeric, UnshiftAlphaNumeric
<1> QED
  BY <1>3, <1>4, <1>5

\* An offset is a position in the alphabet.
LEMMA OffsetType ==
  ASSUME NEW d \in Draws
  PROVE  Offset(d) \in 0..(Letters - 1)
BY SizesAssumption, Fraction DEF Offset

\* The lengths of the values, and what follows from them.
LEMMA LengthsAre ==
  ASSUME values \in Inputs
  PROVE  /\ values \in Seq(Seq(-1..(Letters - 1))) /\ Len(values) \in Nat
         /\ Lengths \in Seq(Nat) /\ DOMAIN Lengths = 1..Len(values)
         /\ DOMAIN values = 1..Len(values)
         /\ \A i \in 1..Len(values) : /\ Lengths[i] = Len(values[i]) /\ Len(values[i]) \in Nat
                                      /\ values[i] \in Seq(-1..(Letters - 1))
         /\ TotalLength \in Nat
<1>1. values \in Seq(Seq(-1..(Letters - 1)))
  BY InputsAssumption
<1>2. PICK k \in Nat : k = Len(values) /\ DOMAIN values = 1..k
  BY <1>1, LenProperties
<1>3. \A i \in 1..k : values[i] \in Seq(-1..(Letters - 1)) /\ Len(values[i]) \in Nat
  BY <1>1, <1>2, ElementOfSeq, LenProperties
<1>4. Lengths = [i \in 1..k |-> Len(values[i])]
  BY <1>2 DEF Lengths
<1>5. Lengths \in [1..k -> Nat]
  BY <1>3, <1>4
<1>6. Lengths \in Seq(Nat) /\ DOMAIN Lengths = 1..k
  BY <1>5
<1> QED
  BY <1>1, <1>2, <1>3, <1>4, <1>6, FiniteCells DEF TotalLength

\* The options are finitely many numbers.
LEMMA OptionsFinite ==
  ASSUME NEW lengths \in Seq(Nat), NEW s
  PROVE  Options(s, lengths) \in SUBSET Nat /\ IsFiniteSet(Options(s, lengths))
<1>1. DOMAIN lengths = 1..Len(lengths) /\ Len(lengths) \in Nat
  BY LenProperties
<1>2. IsFiniteSet(1..Len(lengths))
  BY <1>1, FS_Interval
<1>3. Options(s, lengths) \in SUBSET (1..Len(lengths))
  BY <1>1 DEF Options
<1> QED
  BY <1>1, <1>2, <1>3, FS_Subset

\* What another draw adds to a sequence of sources.
LEMMA AppendDrawn ==
  ASSUME NEW lengths \in Seq(Nat), NEW s, Drawn(s, lengths),
         NEW x \in Options(s, lengths)
  PROVE  /\ Drawn(Append(s, x), lengths)
         /\ Len(s) \in Nat /\ Len(Append(s, x)) = Len(s) + 1
         /\ \A j \in 1..Len(s) :
              /\ Append(s, x)[j] = s[j]
              /\ SubSeq(Append(s, x), 1, j - 1) = SubSeq(s, 1, j - 1)
         /\ Append(s, x)[Len(s) + 1] = x
         /\ SubSeq(Append(s, x), 1, Len(s)) = s
<1>0. PICK t : t = Append(s, x)
  OBVIOUS
<1>1. PICK n \in Nat : n = Len(s) /\ DOMAIN s = 1..n /\ s \in Seq(DOMAIN lengths)
  BY LenProperties DEF Drawn
<1>2. x \in DOMAIN lengths
  BY DEF Options
<1>3. /\ t \in Seq(DOMAIN lengths) /\ Len(t) = n + 1 /\ t[n + 1] = x
      /\ \A j \in 1..n : t[j] = s[j]
  BY <1>0, <1>1, <1>2
<1>4. ASSUME NEW m \in 0..n PROVE SubSeq(t, 1, m) = SubSeq(s, 1, m)
  BY <1>1, <1>3
<1>5. SubSeq(t, 1, n) = s
  <2>1. SubSeq(s, 1, n) = s
    BY <1>1, SubSeqFull
  <2> QED
    BY <1>4, <2>1
<1>6. ASSUME NEW j \in 1..n PROVE SubSeq(t, 1, j - 1) = SubSeq(s, 1, j - 1)
  <2>1. j - 1 \in 0..n
    OBVIOUS
  <2> QED
    BY <1>4, <2>1
<1>7. ASSUME NEW j \in 1..(n + 1) PROVE t[j] \in Options(SubSeq(t, 1, j - 1), lengths)
  <2>1. CASE j \in 1..n
    BY <1>1, <1>3, <1>6, <2>1 DEF Drawn
  <2>2. CASE j = n + 1
    <3>1. j - 1 = n
      BY <2>2
    <3> QED
      BY <1>3, <1>5, <2>2, <3>1
  <2>3. j \in 1..n \/ j = n + 1
    BY <1>1
  <2> QED
    BY <2>1, <2>2, <2>3
<1> QED
  <2>1. Drawn(t, lengths)
    BY <1>3, <1>7 DEF Drawn
  <2> QED
    BY <1>0, <1>1, <1>3, <1>5, <1>6, <2>1

---------------------------------------------------------------------------
(* The mixed string                                                        *)

Characters == -1..(Letters - 1)

\* The character the place j of the sources s was given.
Char(s, j) == values[s[j]][Pointer(SubSeq(s, 1, j - 1), s[j]) + 1]

\* What encode did with these draws: it took the characters from s, and
\* shifted those for which a second draw was made.
MixedBy(s, draws, mixed) ==
  /\ Drawn(s, Lengths)
  /\ Len(s) <= Len(draws) /\ Len(mixed) = Len(s)
  /\ \A j \in 1..Len(s) :
       /\ s[j] = Pick(Options(SubSeq(s, 1, j - 1), Lengths), draws[j])
       /\ mixed[j] = IF TotalLength + j <= Len(draws)
                     THEN ShiftAlphaNumeric(Char(s, j), Offset(draws[TotalLength + j]))
                     ELSE Char(s, j)

\* Each place gives a character, the next of the value it takes from.
LEMMA CharIs ==
  ASSUME values \in Inputs, NEW s, Drawn(s, Lengths), NEW j \in 1..Len(s)
  PROVE  /\ Char(s, j) \in Characters
         /\ s[j] \in 1..Len(values)
         /\ Pointer(SubSeq(s, 1, j - 1), s[j]) = Rank(TakenFrom(s, s[j]), j)
         /\ Char(s, j) = values[s[j]][Rank(TakenFrom(s, s[j]), j) + 1]
<1>1. Lengths \in Seq(Nat) /\ DOMAIN Lengths = 1..Len(values)
  BY LengthsAre
<1>2. PICK i, r : i = s[j] /\ r = Rank(TakenFrom(s, s[j]), j)
  OBVIOUS
<1>3. i \in 1..Len(values) /\ r \in Nat /\ r < Lengths[i]
  BY <1>1, <1>2, DrawnRank
<1>4. Pointer(SubSeq(s, 1, j - 1), i) = r
  <2>1. s \in Seq(DOMAIN Lengths)
    BY DEF Drawn
  <2> QED
    BY <1>2, <2>1, TakenBefore
<1>5. values[i] \in Seq(Characters) /\ Lengths[i] = Len(values[i]) /\ Len(values[i]) \in Nat
  BY <1>3, LengthsAre DEF Characters
<1>6. r + 1 \in 1..Len(values[i])
  BY <1>3, <1>5
<1>7. values[i][r + 1] \in Characters
  BY <1>5, <1>6, ElementOfSeq
<1> QED
  BY <1>2, <1>3, <1>4, <1>7 DEF Char

\* encode takes one more character.
LEMMA MixNext ==
  ASSUME values \in Inputs, NEW s, NEW draws \in Seq(Draws), NEW mixed \in Seq(Characters),
         MixedBy(s, draws, mixed), Len(draws) = Len(s), Len(s) < TotalLength,
         NEW d \in Draws, NEW x, x = Pick(Options(s, Lengths), d),
         NEW c, c = values[x][Pointer(s, x) + 1]
  PROVE  /\ MixedBy(Append(s, x), Append(draws, d), Append(mixed, c))
         /\ Append(mixed, c) \in Seq(Characters)
         /\ Len(Append(s, x)) = Len(s) + 1 /\ Len(s) \in Nat
<1>1. Lengths \in Seq(Nat) /\ DOMAIN Lengths = 1..Len(values) /\ TotalLength \in Nat
  BY LengthsAre
<1>2. Drawn(s, Lengths) /\ Len(mixed) = Len(s)
  BY DEF MixedBy
<1>3. Options(s, Lengths) # {}
  BY <1>1, <1>2, DrawnCells DEF TotalLength
<1>4. x \in Options(s, Lengths)
  BY <1>1, <1>3, OptionsFinite, Picked
<1>0. PICK t : t = Append(s, x)
  OBVIOUS
<1>5. PICK n \in Nat : n = Len(s)
  BY <1>1, <1>2, DrawnCells
<1>6. /\ Drawn(t, Lengths) /\ Len(t) = n + 1
      /\ \A j \in 1..n : t[j] = s[j]
      /\ t[n + 1] = x
      /\ \A j \in 1..n : SubSeq(t, 1, j - 1) = SubSeq(s, 1, j - 1)
      /\ SubSeq(t, 1, n) = s
  <2>1. /\ Drawn(Append(s, x), Lengths) /\ Len(Append(s, x)) = Len(s) + 1
        /\ \A j \in 1..Len(s) :
             /\ Append(s, x)[j] = s[j]
             /\ SubSeq(Append(s, x), 1, j - 1) = SubSeq(s, 1, j - 1)
        /\ Append(s, x)[Len(s) + 1] = x
        /\ SubSeq(Append(s, x), 1, Len(s)) = s
    BY <1>1, <1>2, <1>4, AppendDrawn
  <2>2. /\ Drawn(t, Lengths) /\ Len(t) = Len(s) + 1
        /\ \A j \in 1..Len(s) : t[j] = s[j]
        /\ t[Len(s) + 1] = x
        /\ \A j \in 1..Len(s) : SubSeq(t, 1, j - 1) = SubSeq(s, 1, j - 1)
        /\ SubSeq(t, 1, Len(s)) = s
    BY <1>0, <2>1
  <2> QED
    BY <1>5, <2>2
<1>7. Char(t, n + 1) = c
  <2>1. (n + 1) - 1 = n
    OBVIOUS
  <2> QED
    BY <1>6, <2>1 DEF Char
<1>8. c \in Characters
  <2>1. n + 1 \in 1..Len(t)
    BY <1>6
  <2> QED
    BY <1>6, <1>7, <2>1, CharIs
<1>9. PICK draws2, mixed2 : draws2 = Append(draws, d) /\ mixed2 = Append(mixed, c)
  OBVIOUS
<1>10. /\ Len(draws2) = n + 1 /\ draws2[n + 1] = d /\ \A j \in 1..n : draws2[j] = draws[j]
  BY <1>5, <1>9
<1>11. /\ mixed2 \in Seq(Characters) /\ Len(mixed2) = n + 1
       /\ mixed2[n + 1] = c /\ \A j \in 1..n : mixed2[j] = mixed[j]
  BY <1>2, <1>5, <1>8, <1>9
<1>12. ASSUME NEW j \in 1..(n + 1)
       PROVE  /\ t[j] = Pick(Options(SubSeq(t, 1, j - 1), Lengths), draws2[j])
              /\ mixed2[j] = Char(t, j) /\ ~(TotalLength + j <= n + 1)
  <2>1. ~(TotalLength + j <= n + 1) /\ ~(TotalLength + j <= n)
    BY <1>1, <1>5
  <2>2. CASE j \in 1..n
    <3>1. Char(t, j) = Char(s, j)
      BY <1>6, <2>2 DEF Char
    <3>2. s[j] = Pick(Options(SubSeq(s, 1, j - 1), Lengths), draws[j]) /\ mixed[j] = Char(s, j)
      BY <1>5, <2>1, <2>2 DEF MixedBy
    <3> QED
      BY <1>6, <1>10, <1>11, <2>1, <2>2, <3>1, <3>2
  <2>3. CASE j = n + 1
    <3>1. j - 1 = n
      BY <2>3
    <3> QED
      BY <1>6, <1>7, <1>10, <1>11, <2>1, <2>3, <3>1
  <2>4. j \in 1..n \/ j = n + 1
    OBVIOUS
  <2> QED
    BY <2>2, <2>3, <2>4
<1>13. MixedBy(t, draws2, mixed2)
  BY <1>6, <1>10, <1>11, <1>12 DEF MixedBy
<1> QED
  BY <1>0, <1>5, <1>6, <1>9, <1>11, <1>13

\* encode shifts one more character.
LEMMA ShiftMixed ==
  ASSUME values \in Inputs, NEW s, NEW draws \in Seq(Draws), NEW mixed \in Seq(Characters),
         MixedBy(s, draws, mixed), Len(s) = TotalLength,
         Len(draws) < 2 * TotalLength, NEW d \in Draws, NEW shifted,
         shifted = [mixed EXCEPT ![Len(draws) - TotalLength + 1] =
                      ShiftAlphaNumeric(@, Offset(d))]
  PROVE  MixedBy(s, Append(draws, d), shifted) /\ shifted \in Seq(Characters)
<1>1. PICK n \in Nat, m \in Nat : /\ n = TotalLength /\ Len(draws) = n + m /\ m < n
                                  /\ Len(mixed) = n /\ Drawn(s, Lengths)
  <2>1. TotalLength \in Nat /\ Len(draws) \in Nat /\ TotalLength <= Len(draws)
    BY LengthsAre, LenProperties DEF MixedBy
  <2>2. PICK m : m = Len(draws) - TotalLength
    OBVIOUS
  <2>3. m \in Nat /\ Len(draws) = TotalLength + m /\ m < TotalLength
    BY <2>1, <2>2
  <2>4. Len(mixed) = TotalLength /\ Drawn(s, Lengths)
    BY DEF MixedBy
  <2> QED
    BY <2>1, <2>3, <2>4
<1>2. PICK draws2 : draws2 = Append(draws, d)
  OBVIOUS
<1>3. /\ Len(draws2) = n + m + 1 /\ draws2[n + m + 1] = d
      /\ \A j \in 1..(n + m) : draws2[j] = draws[j]
  BY <1>1, <1>2
<1>4. mixed[m + 1] = Char(s, m + 1) /\ Char(s, m + 1) \in Characters
  <2>1. m + 1 \in 1..Len(s) /\ ~(TotalLength + (m + 1) <= Len(draws))
    BY <1>1
  <2> QED
    BY <1>1, <2>1, CharIs DEF MixedBy
<1>5. ShiftAlphaNumeric(mixed[m + 1], Offset(d)) \in Characters
  BY <1>4, OffsetType, UnshiftsShift DEF Characters
<1>6. /\ shifted \in Seq(Characters) /\ Len(shifted) = n
      /\ shifted[m + 1] = ShiftAlphaNumeric(Char(s, m + 1), Offset(d))
      /\ \A j \in 1..n : j # m + 1 => shifted[j] = mixed[j]
  <2>1. mixed \in [1..n -> Characters] /\ m + 1 \in 1..n /\ Len(draws) - TotalLength + 1 = m + 1
    BY <1>1, LenProperties
  <2>2. shifted = [mixed EXCEPT ![m + 1] = ShiftAlphaNumeric(mixed[m + 1], Offset(d))]
    BY <2>1
  <2>3. shifted \in [1..n -> Characters]
    BY <1>5, <2>1, <2>2
  <2>4. shifted \in Seq(Characters) /\ Len(shifted) = n
    BY <2>3
  <2> QED
    BY <1>4, <2>1, <2>2, <2>4
<1>7. ASSUME NEW j \in 1..n
      PROVE  /\ s[j] = Pick(Options(SubSeq(s, 1, j - 1), Lengths), draws2[j])
             /\ shifted[j] = IF n + j <= n + m + 1
                             THEN ShiftAlphaNumeric(Char(s, j), Offset(draws2[n + j]))
                             ELSE Char(s, j)
  <2>1. /\ s[j] = Pick(Options(SubSeq(s, 1, j - 1), Lengths), draws[j])
        /\ mixed[j] = IF n + j <= n + m
                      THEN ShiftAlphaNumeric(Char(s, j), Offset(draws[n + j]))
                      ELSE Char(s, j)
    BY <1>1 DEF MixedBy
  <2>2. draws2[j] = draws[j]
    BY <1>3
  <2>3. CASE j = m + 1
    <3>1. n + (m + 1) = n + m + 1 /\ n + m + 1 <= n + m + 1
      OBVIOUS
    <3>2. draws2[n + (m + 1)] = d /\ n + (m + 1) <= n + m + 1
      BY <1>3, <3>1
    <3> QED
      BY <1>6, <2>1, <2>2, <2>3, <3>2
  <2>4. CASE n + j <= n + m
    <3>1. n + j \in 1..(n + m) /\ n + j <= n + m + 1 /\ j # m + 1
      BY <2>4
    <3> QED
      BY <1>3, <1>6, <2>1, <2>2, <2>4, <3>1
  <2>5. CASE ~(n + j <= n + m + 1)
    <3>1. ~(n + j <= n + m) /\ j # m + 1
      BY <2>5
    <3> QED
      BY <1>6, <2>1, <2>2, <2>5, <3>1
  <2>6. j = m + 1 \/ n + j <= n + m \/ ~(n + j <= n + m + 1)
    OBVIOUS
  <2> QED
    BY <2>3, <2>4, <2>5, <2>6
<1>8. n <= n + m + 1
  OBVIOUS
<1>9. MixedBy(s, draws2, shifted)
  BY <1>1, <1>3, <1>6, <1>7, <1>8 DEF MixedBy
<1> QED
  BY <1>2, <1>6, <1>9


---------------------------------------------------------------------------
(* What decode draws                                                       *)

\* The values whose lengths the key had no room for are empty.
Agrees == \A i \in 1..Len(values) : i > Len(DecodeLengths) => Len(values[i]) = 0

\* decode takes the characters from the same values, in the same order, as
\* long as the lengths it read are those of the values.
Unmixed(order, s) ==
  /\ Drawn(s, DecodeLengths)
  /\ Agrees => Len(s) <= Len(order) /\ s = SubSeq(order, 1, Len(s))

\* With empty values left out, the options are the same.
LEMMA SameOptions ==
  ASSUME values \in Inputs, TwoDigits, key = MakeKey(Lengths), Agrees,
         NEW s, Drawn(s, DecodeLengths)
  PROVE  Options(s, DecodeLengths) = Options(s, Lengths)
<1>1. PICK read, lengths, k, m : /\ read = DecodeLengths /\ lengths = Lengths
                                 /\ k = Len(values) /\ m = Len(read)
  OBVIOUS
<1>2. /\ k \in Nat /\ DOMAIN lengths = 1..k
      /\ \A i \in 1..k : lengths[i] = Len(values[i])
  BY <1>1, LengthsAre
<1>3. /\ m \in Nat /\ m <= k /\ DOMAIN read = 1..m
      /\ \A i \in 1..m : read[i] = Len(values[i])
  BY <1>1, KeyRead, LenProperties
<1>4. \A i \in 1..k : i > m => lengths[i] = 0
  BY <1>1, <1>2 DEF Agrees
<1>5. \A i : Pointer(s, i) \in Nat
  BY Taken DEF Drawn
<1>6. ASSUME NEW i \in Options(s, read) PROVE i \in Options(s, lengths)
  <2>1. i \in 1..m /\ Pointer(s, i) < read[i]
    BY <1>3 DEF Options
  <2>2. i \in 1..k /\ read[i] = lengths[i]
    BY <1>2, <1>3, <2>1
  <2> QED
    BY <1>2, <2>1, <2>2 DEF Options
<1>7. ASSUME NEW i \in Options(s, lengths) PROVE i \in Options(s, read)
  <2>1. i \in 1..k /\ Pointer(s, i) < lengths[i]
    BY <1>2 DEF Options
  <2>2. i <= m
    <3>1. Pointer(s, i) \in Nat
      BY <1>5
    <3>2. ~(lengths[i] = 0)
      BY <2>1, <3>1
    <3> QED
      BY <1>3, <1>4, <2>1, <3>2
  <2>3. i \in 1..m
    BY <1>3, <2>1, <2>2
  <2>4. read[i] = lengths[i]
    BY <1>2, <1>3, <2>1, <2>3
  <2> QED
    BY <1>3, <2>1, <2>3, <2>4 DEF Options
<1> QED
  BY <1>1, <1>6, <1>7

\* decode draws one more source.
LEMMA UnmixNext ==
  ASSUME values \in Inputs, TwoDigits, key = MakeKey(Lengths),
         NEW order, NEW draws \in Seq(Draws), NEW mixed,
         MixedBy(order, draws, mixed), NEW s, Unmixed(order, s), Len(s) < Len(order),
         Options(s, DecodeLengths) # {}, NEW x,
         x = Pick(Options(s, DecodeLengths), draws[Len(s) + 1])
  PROVE  Unmixed(order, Append(s, x))
<1>1. DecodeLengths \in Seq(Nat) /\ Drawn(s, DecodeLengths)
  BY KeyRead DEF Unmixed
<1>2. PICK n \in Nat, len \in Nat : /\ n = Len(s) /\ len = Len(order) /\ n < len
                                    /\ order \in Seq(1..Len(values))
  <2>1. Len(s) \in Nat
    BY <1>1, LenProperties DEF Drawn
  <2>2. order \in Seq(1..Len(values))
    BY LengthsAre DEF MixedBy, Drawn
  <2>3. Len(order) \in Nat
    BY <2>2, LenProperties
  <2> QED
    BY <2>1, <2>2, <2>3
<1>3. draws[n + 1] \in Draws
  <2>1. Len(draws) \in Nat /\ len <= Len(draws)
    BY <1>2, LenProperties DEF MixedBy
  <2>2. n + 1 \in 1..Len(draws)
    BY <1>2, <2>1
  <2> QED
    BY <2>2, ElementOfSeq
<1>4. x \in Options(s, DecodeLengths)
  BY <1>1, <1>2, <1>3, OptionsFinite, Picked
<1>5. /\ Drawn(Append(s, x), DecodeLengths) /\ Len(Append(s, x)) = n + 1
  BY <1>1, <1>2, <1>4, AppendDrawn
<1>6. ASSUME Agrees PROVE n + 1 <= len /\ Append(s, x) = SubSeq(order, 1, n + 1)
  <2>1. s = SubSeq(order, 1, n)
    BY <1>2, <1>6 DEF Unmixed
  <2>2. Options(s, DecodeLengths) = Options(s, Lengths)
    BY <1>1, <1>6, SameOptions
  <2>3. order[n + 1] = x
    <3>1. n + 1 \in 1..Len(order) /\ (n + 1) - 1 = n
      BY <1>2
    <3>2. order[n + 1] = Pick(Options(SubSeq(order, 1, (n + 1) - 1), Lengths), draws[n + 1])
      BY <3>1 DEF MixedBy
    <3> QED
      BY <1>2, <2>1, <2>2, <3>1, <3>2
  <2>4. SubSeq(order, 1, n + 1) = Append(SubSeq(order, 1, n), order[n + 1])
    BY <1>2
  <2> QED
    BY <1>2, <2>1, <2>3, <2>4
<1> QED
  BY <1>2, <1>5, <1>6 DEF Unmixed

\* decode runs out of options only when it read too few lengths.
LEMMA StuckDisagrees ==
  ASSUME values \in Inputs, TwoDigits, key = MakeKey(Lengths),
         NEW order, NEW draws, NEW mixed, MixedBy(order, draws, mixed),
         NEW s, Unmixed(order, s), Len(s) < Len(order),
         Options(s, DecodeLengths) = {}
  PROVE  ~Agrees
<1>1. SUFFICES ASSUME Agrees PROVE FALSE
  OBVIOUS
<1>2. s = SubSeq(order, 1, Len(s)) /\ Drawn(s, DecodeLengths)
  BY <1>1 DEF Unmixed
<1>3. Options(s, Lengths) = {}
  BY <1>1, <1>2, SameOptions
<1>4. PICK n \in Nat, len \in Nat : n = Len(s) /\ len = Len(order) /\ n < len
  <2>1. Len(s) \in Nat
    BY <1>2, LenProperties DEF Drawn
  <2>2. Len(order) \in Nat
    BY LenProperties DEF MixedBy, Drawn
  <2> QED
    BY <2>1, <2>2
<1>5. n + 1 \in 1..Len(order) /\ (n + 1) - 1 = n
  BY <1>4
<1>6. order[n + 1] \in Options(SubSeq(order, 1, (n + 1) - 1), Lengths)
  BY <1>5 DEF MixedBy, Drawn
<1> QED
  BY <1>2, <1>3, <1>4, <1>5, <1>6

\* As many draws as there are characters need all the lengths.
LEMMA CompleteAgrees ==
  ASSUME values \in Inputs, TwoDigits, key = MakeKey(Lengths),
         NEW s, Drawn(s, DecodeLengths), Len(s) = TotalLength
  PROVE  Agrees
<1>1. PICK read, lengths : read = DecodeLengths /\ lengths = Lengths
  OBVIOUS
<1>2. /\ lengths \in Seq(Nat) /\ DOMAIN lengths = 1..Len(values) /\ Len(values) \in Nat
      /\ \A i \in 1..Len(values) : lengths[i] = Len(values[i]) /\ Len(values[i]) \in Nat
  BY <1>1, LengthsAre
<1>3. /\ read \in Seq(Nat) /\ Len(read) \in Nat /\ DOMAIN read = 1..Len(read)
      /\ Len(read) <= Len(values) /\ \A i \in 1..Len(read) : read[i] = Len(values[i])
  BY <1>1, KeyRead, LenProperties
<1>4. /\ IsFiniteSet(Cells(lengths)) /\ Cardinality(Cells(lengths)) \in Nat
      /\ Cardinality(Cells(lengths)) = Len(s)
      /\ Cardinality(Cells(read)) \in Nat /\ Len(s) <= Cardinality(Cells(read))
  BY <1>1, <1>2, <1>3, FiniteCells, DrawnCells DEF TotalLength
<1>5. Cells(read) \in SUBSET Cells(lengths)
  <2>1. ASSUME NEW c \in Cells(read) PROVE c \in Cells(lengths)
    <3>1. PICK i \in DOMAIN read, n \in Nat \ {0} : c = <<i, n>> /\ n <= read[i]
      BY <1>3, CellsAre
    <3>2. i \in 1..Len(read)
      BY <1>3, <3>1
    <3>3. i \in 1..Len(values)
      BY <1>2, <1>3, <3>2
    <3>4. read[i] = lengths[i]
      BY <1>2, <1>3, <3>2, <3>3
    <3>5. i \in DOMAIN lengths /\ n <= lengths[i]
      BY <1>2, <3>1, <3>3, <3>4
    <3> QED
      BY <1>2, <3>1, <3>5, CellsAre
  <2> QED
    BY <2>1
<1>6. Cells(read) = Cells(lengths)
  <2>1. Cardinality(Cells(read)) <= Cardinality(Cells(lengths))
    BY <1>4, <1>5, FS_Subset
  <2>2. Cardinality(Cells(read)) = Cardinality(Cells(lengths))
    BY <1>4, <2>1
  <2> QED
    BY <1>4, <1>5, <2>2, FS_Subset
<1>7. ASSUME NEW i \in 1..Len(values), i > Len(read) PROVE Len(values[i]) = 0
  <2>1. SUFFICES ASSUME Len(values[i]) > 0 PROVE FALSE
    BY <1>2
  <2>2. <<i, 1>> \in Cells(lengths)
    <3>1. i \in DOMAIN lengths /\ 1 \in Nat \ {0} /\ 1 <= lengths[i]
      BY <1>2, <2>1
    <3> QED
      BY <1>2, <3>1, CellsAre
  <2>3. <<i, 1>> \in Cells(read)
    BY <1>6, <2>2
  <2>4. PICK h \in DOMAIN read, n \in Nat \ {0} : <<i, 1>> = <<h, n>> /\ n <= read[h]
    BY <1>3, <2>3, CellsAre
  <2> QED
    BY <1>3, <1>7, <2>4
<1> QED
  BY <1>1, <1>7 DEF Agrees

---------------------------------------------------------------------------
(* What decode returns                                                     *)

\* The characters collected from a complete decode are the values.
LEMMA CollectsValues ==
  ASSUME values \in Inputs, TwoDigits, key = MakeKey(Lengths), Agrees,
         NEW order, NEW draws \in Seq(Draws), NEW mixed,
         MixedBy(order, draws, mixed), Len(order) = TotalLength,
         Len(draws) = 2 * TotalLength
  PROVE  values = [i \in 1..MetaLength |->
                     [n \in 1..Pointer(order, i) |->
                        UnshiftAlphaNumeric(
                          mixed[Nth(TakenFrom(order, i), n - 1)],
                          Offset(draws[Len(mixed) + Nth(TakenFrom(order, i), n - 1)]))]]
<1>1. PICK k \in Nat, total \in Nat : k = Len(values) /\ total = TotalLength
  BY LengthsAre
<1>2. /\ Lengths \in Seq(Nat) /\ DOMAIN Lengths = 1..k /\ DOMAIN values = 1..k
      /\ \A i \in 1..k : /\ Lengths[i] = Len(values[i]) /\ Len(values[i]) \in Nat
                         /\ values[i] \in Seq(Characters)
  BY <1>1, LengthsAre DEF Characters
<1>3. /\ Drawn(order, Lengths) /\ Len(order) = total /\ Len(mixed) = total
      /\ order \in Seq(1..k)
  BY <1>1, <1>2 DEF MixedBy, Drawn
<1>4. ASSUME NEW j \in 1..total
      PROVE  UnshiftAlphaNumeric(mixed[j], Offset(draws[Len(mixed) + j])) = Char(order, j)
  <2>1. total + j <= Len(draws) /\ total + j \in 1..Len(draws)
    BY <1>1
  <2>2. mixed[j] = ShiftAlphaNumeric(Char(order, j), Offset(draws[total + j]))
    BY <1>1, <1>3, <2>1 DEF MixedBy
  <2>3. draws[total + j] \in Draws
    BY <2>1, ElementOfSeq
  <2>4. Char(order, j) \in Characters
    BY <1>3, CharIs
  <2> QED
    BY <1>3, <2>2, <2>3, <2>4, OffsetType, UnshiftsShift DEF Characters
<1>5. ASSUME NEW i \in 1..k
      PROVE  values[i] = [n \in 1..Pointer(order, i) |->
                            UnshiftAlphaNumeric(
                              mixed[Nth(TakenFrom(order, i), n - 1)],
                              Offset(draws[Len(mixed) + Nth(TakenFrom(order, i), n - 1)]))]
  <2>1. PICK T, size : T = TakenFrom(order, i) /\ size = Len(values[i])
    OBVIOUS
  <2>2. size \in Nat /\ values[i] = [n \in 1..size |-> values[i][n]]
    BY <1>2, <2>1, LenProperties
  <2>3. Pointer(order, i) = size
    BY <1>1, <1>2, <1>3, <2>1, DrawnCells DEF TotalLength
  <2>4. /\ T \in SUBSET (1..total) /\ T \in SUBSET Nat /\ IsFiniteSet(T)
        /\ Cardinality(T) = size /\ \A j \in T : order[j] = i
    BY <1>3, <2>1, <2>3, Taken DEF Pointer
  <2>5. ASSUME NEW n \in 1..size
        PROVE  UnshiftAlphaNumeric(mixed[Nth(T, n - 1)],
                                   Offset(draws[Len(mixed) + Nth(T, n - 1)])) = values[i][n]
    <3>1. n - 1 \in 0..(Cardinality(T) - 1)
      BY <2>2, <2>4
    <3>2. PICK j : j = Nth(T, n - 1) /\ j \in T /\ Rank(T, j) = n - 1
      BY <2>4, <3>1, NthRank
    <3>3. j \in 1..total /\ order[j] = i
      BY <2>4, <3>2
    <3>4. Char(order, j) = values[order[j]][Rank(TakenFrom(order, order[j]), j) + 1]
      BY <1>3, <3>3, CharIs
    <3>5. Char(order, j) = values[i][(n - 1) + 1]
      BY <2>1, <3>2, <3>3, <3>4
    <3>6. (n - 1) + 1 = n
      OBVIOUS
    <3> QED
      BY <1>4, <3>2, <3>3, <3>5, <3>6
  <2> QED
    BY <2>1, <2>2, <2>3, <2>5
<1>6. MetaLength = k
  BY <1>1, KeyRead
<1>7. values = [i \in 1..k |-> values[i]]
  BY <1>2, LengthsAre, LenProperties
<1> QED
  BY <1>5, <1>6, <1>7


---------------------------------------------------------------------------
(* The inductive invariant                                                 *)

TypeInv ==
  /\ values \in Inputs
  /\ stage \in {"encode", "decode", "decoded", "failed"}
  /\ stream \in Seq(Draws)
  /\ text \in Seq(Characters)

\* First every character is taken, then every character is shifted.
EncodeInv ==
  /\ MixedBy(sources, stream, text)
  /\ \/ Len(stream) = Len(sources)
     \/ Len(sources) = TotalLength /\ Len(stream) <= 2 * TotalLength

\* The order of the characters is gone, but there was one, and decode
\* follows it.
DecodeInv ==
  /\ key = MakeKey(Lengths)
  /\ Len(stream) = 2 * TotalLength
  /\ \E order : /\ MixedBy(order, stream, text)
                /\ Len(order) = TotalLength
                /\ TwoDigits => Unmixed(order, sources)
  /\ stage = "failed" /\ TwoDigits => ~Agrees

IInv ==
  /\ TypeInv
  /\ stage = "encode" => EncodeInv
  /\ stage # "encode" => DecodeInv
  /\ DecodedIsOriginal

\* Nothing is drawn yet.
LEMMA Initially == Init => IInv
<1> SUFFICES ASSUME Init PROVE IInv
  OBVIOUS
<1>1. TypeInv
  BY DEF Init, TypeInv
<1>2. stage = "encode" /\ sources = <<>> /\ stream = <<>> /\ text = <<>>
  BY DEF Init
<1>3. Drawn(<<>>, Lengths)
  BY DEF Drawn
<1>4. MixedBy(sources, stream, text)
  BY <1>2, <1>3 DEF MixedBy
<1> QED
  BY <1>1, <1>2, <1>4 DEF IInv, EncodeInv, DecodedIsOriginal

\* What a state that keeps the values keeps with them.
LEMMA ValuesKept ==
  ASSUME values' = values
  PROVE  /\ Lengths' = Lengths /\ TotalLength' = TotalLength /\ TwoDigits' = TwoDigits
         /\ \A s, draws, mixed : MixedBy(s, draws, mixed)' = MixedBy(s, draws, mixed)
         /\ key' = key => /\ Agrees' = Agrees
                          /\ \A order, s : Unmixed(order, s)' = Unmixed(order, s)
<1>1. Lengths' = Lengths
  BY DEF Lengths
<1>2. TotalLength' = TotalLength
  BY <1>1 DEF TotalLength
<1>3. \A s, j : Char(s, j)' = Char(s, j)
  BY DEF Char
<1>4. TwoDigits' = TwoDigits
  BY DEF TwoDigits
<1>5. \A s, draws, mixed : MixedBy(s, draws, mixed)' = MixedBy(s, draws, mixed)
  BY <1>1, <1>2, <1>3 DEF MixedBy
<1>6. ASSUME key' = key
      PROVE  Agrees' = Agrees /\ \A order, s : Unmixed(order, s)' = Unmixed(order, s)
  <2>1. DecodeLengths' = DecodeLengths
    BY <1>6 DEF DecodeLengths, MetaLength
  <2>2. Agrees' = Agrees
    BY <2>1 DEF Agrees
  <2> QED
    BY <2>1, <2>2 DEF Unmixed
<1> QED
  BY <1>1, <1>2, <1>4, <1>5, <1>6

\* encode takes a character.
LEMMA MixKeeps == IInv /\ Mix => IInv'
<1> SUFFICES ASSUME IInv, Mix PROVE IInv'
  OBVIOUS
<1>1. /\ stage = "encode" /\ stage' = stage /\ values' = values
      /\ Len(sources) < TotalLength
      /\ values \in Inputs /\ stream \in Seq(Draws) /\ text \in Seq(Characters)
      /\ MixedBy(sources, stream, text)
      /\ Len(stream) = Len(sources)
  <2>1. TotalLength \in Nat /\ Len(sources) < TotalLength
    BY LengthsAre DEF IInv, TypeInv, Mix
  <2> QED
    BY <2>1 DEF IInv, TypeInv, EncodeInv, Mix
<1>2. PICK d \in Draws :
        LET pick == Pick(Options(sources, Lengths), d)
        IN  /\ stream' = Append(stream, d)
            /\ sources' = Append(sources, pick)
            /\ text' = Append(text, values[pick][Pointer(sources, pick) + 1])
  BY DEF Mix
<1>3. PICK x : x = Pick(Options(sources, Lengths), d)
  OBVIOUS
<1>4. PICK c : c = values[x][Pointer(sources, x) + 1]
  OBVIOUS
<1>5. stream' = Append(stream, d) /\ sources' = Append(sources, x) /\ text' = Append(text, c)
  BY <1>2, <1>3, <1>4
<1>6. /\ MixedBy(Append(sources, x), Append(stream, d), Append(text, c))
      /\ Append(text, c) \in Seq(Characters)
      /\ Len(Append(sources, x)) = Len(sources) + 1
  BY <1>1, <1>3, <1>4, MixNext
<1>7. MixedBy(sources', stream', text') /\ text' \in Seq(Characters)
  BY <1>5, <1>6
<1>8. MixedBy(sources, stream, text)'
  BY <1>1, <1>7, ValuesKept
<1>9. stream' \in Seq(Draws) /\ Len(stream') = Len(stream) + 1
  BY <1>1, <1>5
<1>10. Len(stream') = Len(sources')
  BY <1>1, <1>5, <1>6, <1>9
<1> QED
  BY <1>1, <1>7, <1>8, <1>9, <1>10 DEF IInv, TypeInv, EncodeInv, DecodedIsOriginal

\* encode shifts a character.
LEMMA ShiftKeeps == IInv /\ ShiftNext => IInv'
<1> SUFFICES ASSUME IInv, ShiftNext PROVE IInv'
  OBVIOUS
<1>1. /\ stage = "encode" /\ stage' = stage /\ values' = values /\ sources' = sources
      /\ Len(sources) = TotalLength /\ Len(stream) < 2 * TotalLength
      /\ values \in Inputs /\ stream \in Seq(Draws) /\ text \in Seq(Characters)
      /\ MixedBy(sources, stream, text)
  BY DEF IInv, TypeInv, EncodeInv, ShiftNext
<1>2. PICK d \in Draws :
        /\ stream' = Append(stream, d)
        /\ text' = [text EXCEPT ![Len(stream) - TotalLength + 1] =
                      ShiftAlphaNumeric(@, Offset(d))]
  BY DEF ShiftNext
<1>3. MixedBy(sources, Append(stream, d), text') /\ text' \in Seq(Characters)
  BY <1>1, <1>2, ShiftMixed
<1>4. MixedBy(sources, stream, text)'
  BY <1>1, <1>2, <1>3, ValuesKept
<1>5. TotalLength' = TotalLength /\ TotalLength \in Nat
  BY <1>1, ValuesKept, LengthsAre
<1>6. stream' \in Seq(Draws) /\ Len(stream') <= 2 * TotalLength
  <2>1. Len(stream') = Len(stream) + 1 /\ Len(stream) \in Nat /\ stream' \in Seq(Draws)
    BY <1>1, <1>2
  <2> QED
    BY <1>1, <1>5, <2>1
<1> QED
  BY <1>1, <1>3, <1>4, <1>5, <1>6 DEF IInv, TypeInv, EncodeInv, DecodedIsOriginal

\* The order is dropped; only the draws and the key tell it again.
LEMMA EncodedKeeps == IInv /\ Encoded => IInv'
<1> SUFFICES ASSUME IInv, Encoded PROVE IInv'
  OBVIOUS
<1>1. /\ stage = "encode" /\ stage' = "decode" /\ UNCHANGED <<values, stream, text>>
      /\ Len(stream) = 2 * TotalLength /\ key' = MakeKey(Lengths) /\ sources' = <<>>
      /\ TypeInv /\ EncodeInv
  BY DEF IInv, Encoded
<1>2. TotalLength \in Nat
  BY <1>1, LengthsAre DEF TypeInv
<1>3. MixedBy(sources, stream, text) /\ Len(sources) = TotalLength
  <2>1. Len(sources) <= TotalLength /\ Len(sources) \in Nat
    BY <1>1, LengthsAre, DrawnCells DEF TypeInv, EncodeInv, MixedBy, TotalLength
  <2> QED
    BY <1>1, <1>2, <2>1 DEF EncodeInv
<1>4. /\ Lengths' = Lengths /\ TotalLength' = TotalLength
      /\ \A s, draws, mixed : MixedBy(s, draws, mixed)' = MixedBy(s, draws, mixed)
  BY <1>1, ValuesKept
<1>5. PICK order : MixedBy(order, stream, text) /\ Len(order) = TotalLength
  BY <1>3
<1>6. MixedBy(order, stream, text)'
  BY <1>1, <1>4, <1>5
<1>7. Unmixed(order, sources)'
  <2>1. order \in Seq(1..Len(values)) /\ Len(order) \in Nat /\ SubSeq(order, 1, 0) = <<>>
    BY <1>1, <1>5, LengthsAre, LenProperties DEF MixedBy, Drawn, TypeInv
  <2>2. Drawn(<<>>, DecodeLengths)'
    BY DEF Drawn
  <2> QED
    BY <1>1, <2>1, <2>2 DEF Unmixed
<1>8. MakeKey(Lengths)' = MakeKey(Lengths)
  BY <1>4 DEF MakeKey, EncodeLengths, Digits, Slice
<1>9. DecodeInv'
  BY <1>1, <1>4, <1>5, <1>6, <1>7, <1>8 DEF DecodeInv
<1> QED
  BY <1>1, <1>9 DEF IInv, TypeInv, DecodedIsOriginal


\* decode draws a source, or runs out of options.
LEMMA UnmixKeeps == IInv /\ Unmix => IInv'
<1> SUFFICES ASSUME IInv, Unmix PROVE IInv'
  OBVIOUS
<1>1. /\ stage = "decode" /\ UNCHANGED <<values, stream, text, key>>
      /\ Len(sources) < Len(text) /\ TypeInv /\ DecodeInv
  BY DEF IInv, Unmix
<1>2. PICK order : /\ MixedBy(order, stream, text) /\ Len(order) = TotalLength
                   /\ TwoDigits => Unmixed(order, sources)
  BY <1>1 DEF DecodeInv
<1>3. Len(text) = Len(order) /\ key = MakeKey(Lengths) /\ Len(stream) = 2 * TotalLength
  BY <1>1, <1>2 DEF MixedBy, DecodeInv
<1>4. /\ Lengths' = Lengths /\ TotalLength' = TotalLength /\ TwoDigits' = TwoDigits
      /\ Agrees' = Agrees /\ \A s : Unmixed(order, s)' = Unmixed(order, s)
      /\ \A s, draws, mixed : MixedBy(s, draws, mixed)' = MixedBy(s, draws, mixed)
  BY <1>1, ValuesKept
<1>5. MixedBy(order, stream, text)' /\ (Len(order) = TotalLength)'
  BY <1>1, <1>2, <1>4
<1>6. (key = MakeKey(Lengths))' /\ (Len(stream) = 2 * TotalLength)'
  BY <1>1, <1>3, <1>4 DEF MakeKey, EncodeLengths, Digits, Slice
<1>7. CASE Options(sources, DecodeLengths) = {}
  <2>1. stage' = "failed" /\ sources' = sources
    BY <1>7 DEF Unmix
  <2>2. TwoDigits => ~Agrees
    BY <1>1, <1>2, <1>3, <1>7, StuckDisagrees DEF TypeInv
  <2>3. TwoDigits' => Unmixed(order, sources)'
    BY <1>2, <1>4, <2>1
  <2>4. DecodeInv'
    BY <1>4, <1>5, <1>6, <2>2, <2>3 DEF DecodeInv
  <2> QED
    BY <1>1, <2>1, <2>4 DEF IInv, TypeInv, DecodedIsOriginal
<1>8. CASE Options(sources, DecodeLengths) # {}
  <2>1. PICK x : x = Pick(Options(sources, DecodeLengths), stream[Len(sources) + 1])
    OBVIOUS
  <2>2. stage' = "decode" /\ sources' = Append(sources, x)
    BY <1>1, <1>8, <2>1 DEF Unmix
  <2>3. ASSUME TwoDigits PROVE Unmixed(order, Append(sources, x))
    BY <1>1, <1>2, <1>3, <1>8, <2>1, <2>3, UnmixNext DEF TypeInv
  <2>4. TwoDigits' => Unmixed(order, sources)'
    BY <1>4, <2>2, <2>3
  <2>5. DecodeInv'
    BY <1>5, <1>6, <2>2, <2>4 DEF DecodeInv
  <2> QED
    BY <1>1, <2>2, <2>5 DEF IInv, TypeInv, DecodedIsOriginal
<1> QED
  BY <1>7, <1>8

\* decode collects the characters: with two digits per length, the values.
LEMMA CollectKeeps == IInv /\ Collect => IInv'
<1> SUFFICES ASSUME IInv, Collect PROVE IInv'
  OBVIOUS
<1>1. /\ stage = "decode" /\ stage' = "decoded"
      /\ UNCHANGED <<values, stream, text, key, sources>>
      /\ Len(sources) = Len(text) /\ TypeInv /\ DecodeInv
  BY DEF IInv, Collect
<1>2. PICK order : /\ MixedBy(order, stream, text) /\ Len(order) = TotalLength
                   /\ TwoDigits => Unmixed(order, sources)
  BY <1>1 DEF DecodeInv
<1>3. /\ Len(text) = TotalLength /\ key = MakeKey(Lengths) /\ Len(stream) = 2 * TotalLength
  BY <1>1, <1>2 DEF MixedBy, DecodeInv
<1>4. /\ Lengths' = Lengths /\ TotalLength' = TotalLength /\ TwoDigits' = TwoDigits
      /\ Agrees' = Agrees /\ \A s : Unmixed(order, s)' = Unmixed(order, s)
      /\ \A s, draws, mixed : MixedBy(s, draws, mixed)' = MixedBy(s, draws, mixed)
  BY <1>1, ValuesKept
<1>5. (key = MakeKey(Lengths))' /\ (Len(stream) = 2 * TotalLength)'
  BY <1>1, <1>3, <1>4 DEF MakeKey, EncodeLengths, Digits, Slice
<1>6. DecodeInv'
  <2>1. MixedBy(order, stream, text)' /\ (Len(order) = TotalLength)'
    BY <1>1, <1>2, <1>4
  <2>2. TwoDigits' => Unmixed(order, sources)'
    BY <1>1, <1>2, <1>4
  <2> QED
    BY <1>1, <1>5, <2>1, <2>2 DEF DecodeInv
<1>7. ASSUME TwoDigits PROVE output' = values
  <2>1. Unmixed(order, sources) /\ Drawn(sources, DecodeLengths)
    BY <1>2, <1>7 DEF Unmixed
  <2>2. Agrees
    BY <1>1, <1>3, <1>7, <2>1, CompleteAgrees DEF TypeInv
  <2>3. sources = order
    <3>1. sources = SubSeq(order, 1, Len(order))
      BY <1>1, <1>2, <1>3, <2>1, <2>2 DEF Unmixed
    <3>2. order \in Seq(DOMAIN Lengths)
      BY <1>2 DEF MixedBy, Drawn
    <3> QED
      BY <3>1, <3>2, SubSeqFull
  <2>4. output' = [i \in 1..MetaLength |->
                     [n \in 1..Pointer(sources, i) |->
                        UnshiftAlphaNumeric(
                          text[Nth(TakenFrom(sources, i), n - 1)],
                          Offset(stream[Len(text) + Nth(TakenFrom(sources, i), n - 1)]))]]
    BY DEF Collect
  <2>5. values = [i \in 1..MetaLength |->
                    [n \in 1..Pointer(order, i) |->
                       UnshiftAlphaNumeric(
                         text[Nth(TakenFrom(order, i), n - 1)],
                         Offset(stream[Len(text) + Nth(TakenFrom(order, i), n - 1)]))]]
    BY <1>1, <1>2, <1>3, <1>7, <2>2, CollectsValues DEF TypeInv
  <2> QED
    BY <2>3, <2>4, <2>5
<1>8. DecodedIsOriginal'
  BY <1>1, <1>4, <1>7 DEF DecodedIsOriginal
<1> QED
  BY <1>1, <1>6, <1>8 DEF IInv, TypeInv

\* Nothing changes.
LEMMA StutterKeeps == IInv /\ UNCHANGED vars => IInv'
<1> SUFFICES ASSUME IInv, UNCHANGED vars PROVE IInv'
  OBVIOUS
<1>1. UNCHANGED <<values, stage, stream, text, sources, key, output>>
  BY DEF vars
<1>2. /\ Lengths' = Lengths /\ TotalLength' = TotalLength /\ TwoDigits' = TwoDigits
      /\ Agrees' = Agrees /\ \A order, s : Unmixed(order, s)' = Unmixed(order, s)
      /\ \A s, draws, mixed : MixedBy(s, draws, mixed)' = MixedBy(s, draws, mixed)
  BY <1>1, ValuesKept
<1>3. TypeInv' /\ DecodedIsOriginal'
  BY <1>1, <1>2 DEF IInv, TypeInv, DecodedIsOriginal
<1>4. ASSUME stage = "encode" PROVE EncodeInv'
  BY <1>1, <1>2, <1>4 DEF IInv, EncodeInv
<1>5. ASSUME stage # "encode" PROVE DecodeInv'
  <2>1. DecodeInv
    BY <1>5 DEF IInv
  <2>2. PICK order : /\ MixedBy(order, stream, text) /\ Len(order) = TotalLength
                     /\ TwoDigits => Unmixed(order, sources)
    BY <2>1 DEF DecodeInv
  <2>3. /\ MixedBy(order, stream, text)' /\ (Len(order) = TotalLength)'
        /\ TwoDigits' => Unmixed(order, sources)'
    BY <1>1, <1>2, <2>2
  <2>4. (key = MakeKey(Lengths))' /\ (Len(stream) = 2 * TotalLength)'
    BY <1>1, <1>2, <2>1 DEF DecodeInv, MakeKey, EncodeLengths, Digits, Slice
  <2> QED
    BY <1>1, <1>2, <2>1, <2>3, <2>4 DEF DecodeInv
<1> QED
  BY <1>1, <1>3, <1>4, <1>5 DEF IInv

\* The invariant holds at every step.
LEMMA Inductive == Spec => []IInv
<1>1. IInv /\ [Next]_vars => IInv'
  BY MixKeeps, ShiftKeeps, EncodedKeeps, UnmixKeeps, CollectKeeps, StutterKeeps
     DEF Next, Stop
<1> QED
  BY Initially, <1>1, PTL DEF Spec

\* Whatever decode returns is what was encoded, for every alphabet, base,
\* length of the key and list of values whose lengths take two digits, and
\* for every stream of draws: StringMixerService.decode after .encode.
THEOREM DecodesOriginal == Spec => []DecodedIsOriginal
<1>1. IInv => DecodedIsOriginal
  BY DEF IInv
<1> QED
  BY <1>1, Inductive, PTL

\* Values the key has room for are decoded: the loop of decode always finds a
\* value that has characters left.
THEOREM FittingDecodes == Spec => []FittingValuesDecode
<1>1. ASSUME IInv PROVE FittingValuesDecode
  <2>1. SUFFICES ASSUME Fits, stage = "failed" PROVE FALSE
    BY DEF FittingValuesDecode
  <2>2. values \in Inputs /\ TwoDigits /\ DecodeInv
    BY <1>1, <2>1 DEF IInv, TypeInv, Fits
  <2>3. ~Agrees
    BY <2>1, <2>2 DEF DecodeInv
  <2>4. PICK i \in 1..Len(values) : i > Len(DecodeLengths) /\ ~(Len(values[i]) = 0)
    BY <2>3 DEF Agrees
  <2>5. i \in Nat /\ Len(DecodeLengths) \in Nat /\ ~(2 + 2 * i <= KeyLength)
    <3>1. DecodeLengths \in Seq(Nat) /\ (2 + 2 * i <= KeyLength => i <= Len(DecodeLengths))
      BY <2>2, KeyRead DEF DecodeInv
    <3>2. Len(DecodeLengths) \in Nat /\ i \in Nat
      BY <3>1, LenProperties
    <3> QED
      BY <2>4, <3>1, <3>2
  <2>6. values[i] # <<>> /\ i \in DOMAIN values
    BY <2>2, <2>4, LengthsAre
  <2> QED
    BY <2>1, <2>5, <2>6 DEF Fits
<1> QED
  BY <1>1, Inductive, PTL
=============================================================================
