---------------------------- MODULE OperatorProofs ----------------------------
(***************************************************************************)
(* Proofs about OperatorValidator: for every module that satisfies         *)
(* StackAssumption, every function of it, every list of locals and every   *)
(* sequence of operators.                                                  *)
(*                                                                         *)
(* The argument has three layers.  A visitor does one of four things to    *)
(* the validator record: it works within the innermost frame (Does), opens *)
(* a frame (Opened), closes one (Closed) or replaces it by the next part   *)
(* of its block (Reopened), with so many pops and pushes; each visitor is  *)
(* one lemma.  Each group of operators announces through arity.rs the      *)
(* counts its visitors have; each group is one lemma.  The invariant Inv   *)
(* is preserved by the four kinds of moves, so that no case of the         *)
(* preservation proof mentions an operator.                                *)
(*                                                                         *)
(* The invariant is stronger than what is concluded from it: to know the   *)
(* operands of reachable frames one must know that frames are nested, and  *)
(* to know the locals at the end of a block one must know that the undo    *)
(* log holds every local once and which part of it belongs to which frame. *)
(***************************************************************************)
EXTENDS OperatorValidator, SequenceTheorems, FiniteSetTheorems, WellFoundedInduction, Integers,
        TLAPS

-----------------------------------------------------------------------------

-----------------------------------------------------------------------------
(* The list of locals: what Locals::define builds and Locals::get reads.     *)

\* The compressed list of locals stands for a list of types.
Represents(ls, types) ==
    /\ types \in Seq(ValTypes)
    /\ ls.num_locals = Len(types)
    /\ ls.first \in Seq(ValTypes) /\ ls.all \in Seq(Nat \X ValTypes)
    /\ Len(ls.first) = IF Len(types) < MaxTracked THEN Len(types) ELSE MaxTracked
    /\ \A i \in 1..Len(ls.first) : ls.first[i] = types[i]
    /\ \A g, h \in 1..Len(ls.all) : g < h => ls.all[g][1] < ls.all[h][1]
    /\ IF ls.all = <<>> THEN types = <<>> ELSE ls.all[Len(ls.all)][1] = Len(types) - 1
    /\ \A g \in 1..Len(ls.all), i \in 1..Len(types) :
          i <= ls.all[g][1] + 1 /\ (g > 1 => ls.all[g - 1][1] + 1 < i) => types[i] = ls.all[g][2]

\* A function without locals: the empty list represents the empty sequence.
LEMMA EmptyRepresents == Represents(EmptyLocals, <<>>)
  BY StackAssumption DEF Represents, EmptyLocals

\* Every nonempty set of numbers has a least one: induction, in the form the proofs use it.
LEMMA LeastNumber ==
  ASSUME NEW T, T \subseteq Nat, T # {}
  PROVE  \E x \in T : \A y \in T : x <= y
<1> DEFINE R == OpToRel(<, Nat)
<1>1. \E x \in T : \A y \in T : ~ (<<y, x>> \in R)
  <2>1. IsWellFoundedOn(R, Nat)
    BY NatLessThanWellFounded
  <2> HIDE DEF R
  <2> QED
    BY <2>1, WFMin
<1>2. \A x, y \in Nat : y < x => <<y, x>> \in R
  BY DEF OpToRel
<1> HIDE DEF R
<1>3. PICK x \in T : \A y \in T : ~ (<<y, x>> \in R)
  BY <1>1
<1>4. ASSUME NEW y \in T PROVE x <= y
  <2>1. ~ (<<y, x>> \in R) /\ x \in Nat /\ y \in Nat
    BY <1>3
  <2>2. ~ (y < x)
    BY <2>1, <1>2
  <2> QED
    BY <2>1, <2>2
<1> QED
  BY <1>4

\* Elements and length of a concatenation.
LEMMA ConcatFacts ==
  ASSUME NEW S, NEW s \in Seq(S), NEW r \in Seq(S)
  PROVE  /\ s \o r \in Seq(S) /\ Len(s \o r) = Len(s) + Len(r)
         /\ Len(s) \in Nat /\ Len(r) \in Nat
         /\ \A i \in 1..Len(s) : (s \o r)[i] = s[i]
         /\ \A i \in 1..Len(r) : (s \o r)[Len(s) + i] = r[i]
  OBVIOUS

\* A sequence of n equal elements.
LEMMA CopiesFacts ==
  ASSUME NEW S, NEW n \in Nat, NEW t \in S
  PROVE  /\ [i \in 1..n |-> t] \in Seq(S) /\ Len([i \in 1..n |-> t]) = n
         /\ \A i \in 1..n : [j \in 1..n |-> t][i] = t
  OBVIOUS

\* A list and copies of one more element.
LEMMA ExtendFacts ==
  ASSUME NEW S, NEW s \in Seq(S), NEW n \in Nat, NEW t \in S, NEW r,
         r = s \o [i \in 1..n |-> t]
  PROVE  /\ r \in Seq(S) /\ Len(r) = Len(s) + n /\ Len(s) \in Nat
         /\ \A i \in 1..(Len(s) + n) : r[i] = IF i <= Len(s) THEN s[i] ELSE t
<1> DEFINE copies == [i \in 1..n |-> t]
<1>1. copies \in Seq(S) /\ Len(copies) = n /\ \A i \in 1..n : copies[i] = t
  BY CopiesFacts
<1> HIDE DEF copies
<1>2. r = s \o copies
  BY DEF copies
<1>3. /\ r \in Seq(S) /\ Len(r) = Len(s) + n /\ Len(s) \in Nat
      /\ \A i \in 1..Len(s) : r[i] = s[i]
      /\ \A i \in 1..n : r[Len(s) + i] = copies[i]
  BY <1>1, <1>2, ConcatFacts
<1>4. ASSUME NEW i \in 1..(Len(s) + n) PROVE r[i] = IF i <= Len(s) THEN s[i] ELSE t
  <2>1. CASE i <= Len(s)
    BY <2>1, <1>3
  <2>2. CASE i > Len(s)
    <3>1. i - Len(s) \in 1..n /\ Len(s) + (i - Len(s)) = i
      BY <2>2, <1>3
    <3>2. r[Len(s) + (i - Len(s))] = t
      BY <3>1, <1>3, <1>1
    <3> QED
      BY <2>2, <3>1, <3>2, <1>3
  <2> QED
    BY <2>1, <2>2, <1>3
<1> QED
  BY <1>3, <1>4

\* A further group.
LEMMA DefineRepresents ==
  ASSUME NEW ls, NEW types, Represents(ls, types), NEW count \in Nat \ {0}, NEW t \in ValTypes,
         NEW more, more = types \o [i \in 1..count |-> t]
  PROVE  Represents(Define(ls, count, t), more)
<1> DEFINE n == Len(types)
           new == Define(ls, count, t)
           room == MaxTracked - Len(ls.first)
           cached == IF room <= 0 THEN 0 ELSE IF count < room THEN count ELSE room
<1>1. /\ types \in Seq(ValTypes) /\ ls.num_locals = n /\ n \in Nat
      /\ ls.first \in Seq(ValTypes) /\ ls.all \in Seq(Nat \X ValTypes)
      /\ MaxTracked \in Nat /\ count \in Nat /\ count > 0
      /\ Len(ls.first) = IF n < MaxTracked THEN n ELSE MaxTracked
  BY StackAssumption DEF Represents
<1>2. /\ more \in Seq(ValTypes) /\ Len(more) = n + count
      /\ \A i \in 1..(n + count) : more[i] = IF i <= n THEN types[i] ELSE t
  BY <1>1, ExtendFacts
<1>3. new.num_locals = n + count
  BY <1>1 DEF Define
<1>4. new.first = ls.first \o [i \in 1..cached |-> t]
  BY DEF Define
<1>5. new.all = Append(ls.all, <<n + count - 1, t>>)
  BY <1>1 DEF Define
<1>6. cached \in Nat /\ room \in Nat /\ Len(ls.first) \in Nat
  BY <1>1
<1> HIDE DEF new
<1>8. /\ new.first \in Seq(ValTypes)
      /\ Len(new.first) = Len(ls.first) + cached
      /\ \A i \in 1..Len(new.first) : new.first[i] = IF i <= Len(ls.first) THEN ls.first[i] ELSE t
  <2> HIDE DEF cached
  <2>0. ls.first \in Seq(ValTypes) /\ cached \in Nat
    BY <1>1, <1>6
  <2>1. /\ new.first \in Seq(ValTypes)
        /\ Len(new.first) = Len(ls.first) + cached
        /\ \A i \in 1..(Len(ls.first) + cached) :
              new.first[i] = IF i <= Len(ls.first) THEN ls.first[i] ELSE t
    BY <2>0, <1>4, ExtendFacts
  <2> QED
    BY <2>1
<1>9. Len(new.first) = IF n + count < MaxTracked THEN n + count ELSE MaxTracked
  <2>1. Len(new.first) = Len(ls.first) + cached
    BY <1>8
  <2>2. CASE n < MaxTracked
    <3>1. Len(ls.first) = n /\ room = MaxTracked - n /\ ~(room <= 0)
      BY <2>2, <1>1
    <3>2. cached = IF count < room THEN count ELSE room
      BY <3>1
    <3> HIDE DEF cached, room, n
    <3>3. CASE count < room
      <4>1. cached = count /\ n + count < MaxTracked
        BY <3>1, <3>2, <3>3, <1>1
      <4> QED
        BY <4>1, <2>1, <3>1
    <3>4. CASE ~(count < room)
      <4>1. cached = room /\ ~(n + count < MaxTracked) /\ n + room = MaxTracked
        BY <3>1, <3>2, <3>4, <1>1
      <4> QED
        BY <4>1, <2>1, <3>1
    <3> QED
      BY <3>3, <3>4
  <2>3. CASE ~(n < MaxTracked)
    <3>1. Len(ls.first) = MaxTracked /\ room <= 0
      BY <2>3, <1>1
    <3> QED
      BY <2>1, <2>3, <3>1, <1>1
  <2> QED
    BY <2>2, <2>3
<1>10. \A i \in 1..Len(new.first) : new.first[i] = more[i]
  <2> TAKE i \in 1..Len(new.first)
  <2>1. i \in 1..(n + count)
    BY <1>1, <1>9
  <2>2. CASE i <= Len(ls.first)
    <3>1. ls.first[i] = types[i] /\ i <= n
      BY <2>2, <1>1, <1>8, <1>6 DEF Represents
    <3> QED
      BY <2>1, <2>2, <3>1, <1>2, <1>8
  <2>3. CASE i > Len(ls.first)
    <3>1. i > n
      <4>1. i \in Nat /\ i <= Len(new.first)
        BY <1>8, <1>6
      <4> HIDE DEF n
      <4> QED
        BY <4>1, <1>1, <1>9, <2>3
    <3> QED
      BY <2>1, <2>3, <3>1, <1>2, <1>8, <1>6, SMTT(60)
  <2> QED
    BY <2>2, <2>3, <1>6, <2>1
<1>11. /\ new.all \in Seq(Nat \X ValTypes) /\ Len(new.all) = Len(ls.all) + 1 /\ Len(ls.all) \in Nat
       /\ \A g \in 1..Len(ls.all) : new.all[g] = ls.all[g]
       /\ new.all[Len(ls.all) + 1] = <<n + count - 1, t>>
       /\ new.all[Len(ls.all) + 1][1] = n + count - 1
       /\ new.all[Len(ls.all) + 1][2] = t
  <2>1. <<n + count - 1, t>> \in Nat \X ValTypes
    BY <1>1
  <2> QED
    BY <2>1, <1>1, <1>5
<1>12. \A g \in 1..Len(ls.all) : ls.all[g][1] \in Nat /\ ls.all[g][1] <= n - 1
  <2> TAKE g \in 1..Len(ls.all)
  <2>1. ls.all # <<>> /\ ls.all[g] \in Nat \X ValTypes /\ ls.all[Len(ls.all)][1] = n - 1
    BY <1>1 DEF Represents
  <2>2. g # Len(ls.all) => ls.all[g][1] < ls.all[Len(ls.all)][1]
    BY <1>11 DEF Represents
  <2> QED
    BY <2>1, <2>2, <1>1
<1>13. \A g, h \in 1..Len(new.all) : g < h => new.all[g][1] < new.all[h][1]
  <2> TAKE g, h \in 1..Len(new.all)
  <2>1. CASE h \in 1..Len(ls.all) /\ g \in 1..Len(ls.all)
    BY <2>1, <1>11 DEF Represents
  <2>2. CASE h = Len(ls.all) + 1 /\ g \in 1..Len(ls.all)
    <3>1. new.all[h][1] = n + count - 1 /\ new.all[g][1] = ls.all[g][1]
      BY <2>2, <1>11
    <3>2. ls.all[g][1] \in Nat /\ ls.all[g][1] <= n - 1
      BY <2>2, <1>12
    <3> HIDE DEF n
    <3> QED
      BY <3>1, <3>2, <1>1, SMTT(60)
  <2>3. ASSUME g < h
        PROVE  (h \in 1..Len(ls.all) /\ g \in 1..Len(ls.all)) \/ (h = Len(ls.all) + 1 /\ g \in 1..Len(ls.all))
    <3> DEFINE last == Len(ls.all)
    <3>1. g \in 1..(last + 1) /\ h \in 1..(last + 1) /\ last \in Nat
      BY <1>11
    <3> HIDE DEF n, last
    <3>2. g \in 1..last
      BY <2>3, <3>1
    <3>3. h = last + 1 \/ h \in 1..last
      BY <3>1
    <3>4. (h \in 1..last /\ g \in 1..last) \/ (h = last + 1 /\ g \in 1..last)
      BY <3>2, <3>3
    <3> QED
      BY <3>4 DEF last
  <2> QED
    BY <2>1, <2>2, <2>3
<1>14. new.all # <<>> /\ new.all[Len(new.all)][1] = Len(more) - 1
  BY <1>11, <1>2
<1>15. ASSUME NEW g \in 1..Len(new.all), NEW i \in 1..Len(more),
              i <= new.all[g][1] + 1, g > 1 => new.all[g - 1][1] + 1 < i
       PROVE  more[i] = new.all[g][2]
  <2>1. CASE g \in 1..Len(ls.all)
    <3>1. i <= n /\ i \in 1..n
      <4>1. i <= ls.all[g][1] + 1 /\ ls.all[g][1] \in Nat /\ ls.all[g][1] <= n - 1
        BY <2>1, <1>11, <1>12, <1>15
      <4>2. i \in Nat /\ i >= 1
        BY <1>2, <1>1
      <4> HIDE DEF n
      <4> QED
        BY <4>1, <4>2, <1>1, SMTT(60)
    <3>2. g > 1 => g - 1 \in 1..Len(ls.all)
      BY <2>1, <1>11
    <3>3. g > 1 => ls.all[g - 1][1] + 1 < i
      BY <3>2, <1>11, <1>15
    <3>4. i <= ls.all[g][1] + 1
      BY <2>1, <1>11, <1>15
    <3>5. types[i] = ls.all[g][2]
      BY <2>1, <3>1, <3>3, <3>4 DEF Represents
    <3>6. more[i] = types[i]
      BY <3>1, <1>2, <1>1
    <3> QED
      BY <2>1, <3>5, <3>6, <1>11
  <2>2. CASE g = Len(ls.all) + 1
    <3>1. i > n
      <4>1. CASE ls.all = <<>>
        <5>1. n = 0
          BY <4>1, <1>1 DEF Represents
        <5> QED
          BY <5>1, <1>2
      <4>2. CASE ls.all # <<>>
        <5>0. Len(ls.all) \in Nat /\ Len(ls.all) > 0
          BY <4>2, <1>1, SMTT(60)
        <5>1. g > 1 /\ g - 1 = Len(ls.all) /\ g - 1 \in 1..Len(ls.all)
          BY <2>2, <5>0
        <5>2. ls.all[g - 1][1] = n - 1
          BY <4>2, <5>1 DEF Represents
        <5>3. ls.all[g - 1][1] + 1 < i
          BY <5>1, <1>11, <1>15
        <5> QED
          BY <5>2, <5>3, <1>1
      <4> QED
        BY <4>1, <4>2
    <3> QED
      BY <2>2, <3>1, <1>2, <1>11, <1>1
  <2>3. g \in 1..(Len(ls.all) + 1) /\ Len(ls.all) \in Nat
    BY <1>11
  <2>4. g \in 1..Len(ls.all) \/ g = Len(ls.all) + 1
    BY <2>3
  <2> QED
    BY <2>1, <2>2, <2>4
<1> QED
  BY <1>1, <1>2, <1>3, <1>8, <1>9, <1>10, <1>11, <1>13, <1>14, <1>15 DEF Represents, new

\* One step of the halving search, given what it finds in the other ranges.
halve(all, idx, f, range) ==
    LET lo == range[1]
        hi == range[2]
        mid == lo + (hi - lo) \div 2
    IN  CASE lo = hi -> lo
          [] lo # hi /\ all[mid + 1][1] < idx -> f[<<mid + 1, hi>>]
          [] OTHER -> f[<<lo, mid>>]

Ranges(all) == (0..Len(all)) \X (0..Len(all))

Halves(all, idx, f) == f = [range \in Ranges(all) |-> halve(all, idx, f, range)]

search(all, idx) == CHOOSE f : Halves(all, idx, f)

\* The first group at or after lo, before hi, that ends at idx or later; hi if none.
FirstFrom(all, idx, lo, hi, i) ==
    /\ i \in lo..hi
    /\ i < hi => all[i + 1][1] >= idx
    /\ \A j \in lo..hi : j < i => all[j + 1][1] < idx

\* The recursive function of the model's binary search is `search`.
LEMMA SearchUnfolds ==
  ASSUME NEW all, NEW idx
  PROVE  BsearchPos(all, idx) = search(all, idx)[<<0, Len(all)>>]
  BY DEF BsearchPos, search, Halves, halve, Ranges

Sorted(all) ==
    /\ all \in Seq(Nat \X ValTypes)
    /\ \A g, h \in 1..Len(all) : g < h => all[g][1] < all[h][1]

\* The last index of every group is a number.
LEMMA EndsAreNumbers ==
  ASSUME NEW all, Sorted(all)
  PROVE  Len(all) \in Nat /\ \A g \in 1..Len(all) : all[g][1] \in Nat
<1>1. ASSUME NEW g \in 1..Len(all) PROVE all[g][1] \in Nat
  <2>1. all[g] \in Nat \X ValTypes
    BY DEF Sorted
  <2> QED
    BY <2>1
<1> QED
  BY <1>1 DEF Sorted

\* The middle of a range is in it.
LEMMA MiddleIsInside ==
  ASSUME NEW lo \in Nat, NEW hi \in Nat, NEW mid, mid = lo + (hi - lo) \div 2
  PROVE  /\ lo < hi => mid \in lo..(hi - 1) /\ mid \in Nat
         /\ hi < lo => mid \in hi..(lo - 1) /\ mid \in Nat
  OBVIOUS

\* What the half that is searched finds is what the whole range has.
LEMMA HalfIsEnough ==
  ASSUME NEW all, Sorted(all), NEW idx \in Nat,
         NEW lo \in 0..Len(all), NEW hi \in 0..Len(all), lo < hi,
         NEW mid \in lo..(hi - 1), NEW i,
         IF all[mid + 1][1] < idx THEN FirstFrom(all, idx, mid + 1, hi, i)
         ELSE FirstFrom(all, idx, lo, mid, i)
  PROVE  FirstFrom(all, idx, lo, hi, i)
<1>1. /\ Len(all) \in Nat /\ mid \in Nat /\ lo \in Nat /\ hi \in Nat /\ hi <= Len(all)
      /\ mid + 1 \in 1..Len(all)
      /\ \A g \in 1..Len(all) : all[g][1] \in Nat
  BY EndsAreNumbers
<1>2. CASE all[mid + 1][1] < idx
  <2>1. FirstFrom(all, idx, mid + 1, hi, i)
    BY <1>2
  <2>2. i \in (mid + 1)..hi /\ i \in lo..hi
    BY <2>1, <1>1 DEF FirstFrom
  <2>3. ASSUME NEW j \in lo..hi, j < i PROVE all[j + 1][1] < idx
    <3>1. CASE j \in (mid + 1)..hi
      BY <3>1, <2>1, <2>3 DEF FirstFrom
    <3>2. CASE j = mid
      BY <3>2, <1>2
    <3>3. CASE j < mid
      <4>1. j + 1 \in 1..Len(all) /\ j + 1 < mid + 1
        BY <3>3, <1>1
      <4>2. all[j + 1][1] < all[mid + 1][1]
        BY <4>1, <1>1 DEF Sorted
      <4> QED
        BY <4>1, <4>2, <1>1, <1>2
    <3> QED
      BY <3>1, <3>2, <3>3, <1>1
  <2> QED
    BY <2>1, <2>2, <2>3 DEF FirstFrom
<1>3. CASE ~(all[mid + 1][1] < idx)
  <2>1. FirstFrom(all, idx, lo, mid, i)
    BY <1>3
  <2>2. i \in lo..mid /\ i \in lo..hi
    BY <2>1, <1>1 DEF FirstFrom
  <2>3. all[i + 1][1] >= idx
    <3>1. CASE i < mid
      BY <3>1, <2>1 DEF FirstFrom
    <3>2. CASE i = mid
      BY <3>2, <1>1, <1>3
    <3> QED
      BY <3>1, <3>2, <2>2, <1>1
  <2>4. ASSUME NEW j \in lo..hi, j < i PROVE all[j + 1][1] < idx
    <3>1. j \in lo..mid
      BY <2>2, <2>4, <1>1
    <3> QED
      BY <3>1, <2>1, <2>4 DEF FirstFrom
  <2> QED
    BY <2>2, <2>3, <2>4 DEF FirstFrom
<1> QED
  BY <1>2, <1>3

\* At most one position is the first one at or after idx.
LEMMA FirstIsUnique ==
  ASSUME NEW all, Sorted(all), NEW idx \in Nat,
         NEW lo \in 0..Len(all), NEW hi \in 0..Len(all),
         NEW i, NEW j, FirstFrom(all, idx, lo, hi, i), FirstFrom(all, idx, lo, hi, j)
  PROVE  i = j
<1>1. /\ Len(all) \in Nat /\ lo \in Nat /\ hi \in Nat /\ i \in lo..hi /\ j \in lo..hi
      /\ \A g \in 1..Len(all) : all[g][1] \in Nat
  BY EndsAreNumbers DEF FirstFrom
<1>2. ASSUME NEW p \in lo..hi, NEW q \in lo..hi, p < q,
             FirstFrom(all, idx, lo, hi, p), FirstFrom(all, idx, lo, hi, q)
      PROVE  FALSE
  <2>1. p < hi /\ p + 1 \in 1..Len(all)
    BY <1>1, <1>2
  <2>2. all[p + 1][1] >= idx /\ all[p + 1][1] < idx
    BY <2>1, <1>2 DEF FirstFrom
  <2> QED
    BY <2>1, <2>2, <1>1
<1> QED
  BY <1>1, <1>2

\* There is a first position at or after idx, the end of the range included.
LEMMA FirstExists ==
  ASSUME NEW all, Sorted(all), NEW idx \in Nat,
         NEW lo \in 0..Len(all), NEW hi \in 0..Len(all), lo <= hi
  PROVE  \E i : FirstFrom(all, idx, lo, hi, i)
<1> DEFINE T == {j \in lo..hi : j = hi \/ all[j + 1][1] >= idx}
<1>1. /\ Len(all) \in Nat /\ lo \in Nat /\ hi \in Nat /\ hi <= Len(all)
      /\ \A g \in 1..Len(all) : all[g][1] \in Nat
  BY EndsAreNumbers
<1>2. T \subseteq Nat /\ hi \in T
  BY <1>1
<1>3. PICK i \in T : \A j \in T : i <= j
  <2> HIDE DEF T
  <2> QED
    BY <1>2, LeastNumber
<1>4. ASSUME NEW j \in lo..hi, j < i PROVE all[j + 1][1] < idx
  <2>1. j \notin T /\ j < hi /\ j + 1 \in 1..Len(all)
    BY <1>1, <1>3, <1>4
  <2> QED
    BY <2>1, <1>1
<1>5. i \in lo..hi /\ (i < hi => all[i + 1][1] >= idx)
  BY <1>1, <1>3
<1> QED
  BY <1>4, <1>5 DEF FirstFrom

\* A function satisfies the recursive definition of the binary search: the range that is
\* searched shrinks, by least counterexample.
LEMMA SearchExists ==
  ASSUME NEW all, Sorted(all), NEW idx \in Nat
  PROVE  \E f : Halves(all, idx, f)
<1> DEFINE first(lo, hi) == CHOOSE i : FirstFrom(all, idx, lo, hi, i)
           at(lo, hi) == IF lo <= hi THEN first(lo, hi) ELSE 0
           f == [range \in Ranges(all) |-> at(range[1], range[2])]
<1>1. \A lo, hi \in 0..Len(all) : lo <= hi => FirstFrom(all, idx, lo, hi, first(lo, hi))
  BY FirstExists
<1> HIDE DEF first
<1>2. ASSUME NEW lo \in 0..Len(all), NEW hi \in 0..Len(all)
      PROVE  at(lo, hi) = halve(all, idx, f, <<lo, hi>>)
  <2>1. Len(all) \in Nat /\ lo \in Nat /\ hi \in Nat
    BY EndsAreNumbers
  <2>2. CASE lo = hi
    <3>1. FirstFrom(all, idx, lo, hi, lo)
      BY <2>1, <2>2 DEF FirstFrom
    <3>2. at(lo, hi) = lo
      BY <3>1, <2>1, <2>2, <1>1, FirstIsUnique
    <3>3. halve(all, idx, f, <<lo, hi>>) = lo
      <4> HIDE DEF f
      <4> QED
        BY <2>2 DEF halve
    <3> QED
      BY <3>2, <3>3
  <2> DEFINE mid == lo + (hi - lo) \div 2
  <2>3. CASE lo < hi
    <3>1. mid \in lo..(hi - 1) /\ mid \in Nat
      BY <2>1, <2>3, MiddleIsInside
    <3>2. mid \in 0..Len(all) /\ mid + 1 \in 0..Len(all) /\ mid + 1 <= hi /\ lo <= mid /\ lo <= hi /\ lo # hi
      BY <2>1, <2>3, <3>1
    <3>3. halve(all, idx, f, <<lo, hi>>) = IF all[mid + 1][1] < idx THEN first(mid + 1, hi) ELSE first(lo, mid)
      <4>1. halve(all, idx, f, <<lo, hi>>) = IF all[mid + 1][1] < idx THEN f[<<mid + 1, hi>>] ELSE f[<<lo, mid>>]
        <5> HIDE DEF f
        <5>1. lo # hi
          BY <3>2
        <5> QED
          BY <5>1 DEF halve
      <4>2. f[<<mid + 1, hi>>] = first(mid + 1, hi) /\ f[<<lo, mid>>] = first(lo, mid)
        <5>1. \A lw, hg \in 0..Len(all) : f[<<lw, hg>>] = at(lw, hg)
          BY DEF Ranges
        <5> HIDE DEF mid, f
        <5> QED
          BY <5>1, <3>2
      <4> HIDE DEF f, mid
      <4> QED
        BY <4>1, <4>2
    <3> HIDE DEF mid, f
    <3>4. FirstFrom(all, idx, lo, hi, halve(all, idx, f, <<lo, hi>>))
      BY <3>1, <3>2, <3>3, <2>3, <1>1, HalfIsEnough
    <3> QED
      BY <3>4, <3>2, <1>1, FirstIsUnique
  <2>4. CASE hi < lo
    <3>1. mid \in hi..(lo - 1) /\ mid \in Nat
      BY <2>1, <2>4, MiddleIsInside
    <3>2. mid \in 0..Len(all) /\ mid + 1 \in 0..Len(all) /\ ~(mid + 1 <= hi) /\ ~(lo <= mid) /\ ~(lo <= hi) /\ lo # hi
      BY <2>1, <2>4, <3>1
    <3>3. halve(all, idx, f, <<lo, hi>>) = 0
      <4>1. halve(all, idx, f, <<lo, hi>>) = IF all[mid + 1][1] < idx THEN f[<<mid + 1, hi>>] ELSE f[<<lo, mid>>]
        <5> HIDE DEF f
        <5>1. lo # hi
          BY <3>2
        <5> QED
          BY <5>1 DEF halve
      <4>2. f[<<mid + 1, hi>>] = 0 /\ f[<<lo, mid>>] = 0
        <5>1. \A lw, hg \in 0..Len(all) : f[<<lw, hg>>] = at(lw, hg)
          BY DEF Ranges
        <5> HIDE DEF mid, f
        <5> QED
          BY <5>1, <3>2
      <4> HIDE DEF f, mid
      <4> QED
        BY <4>1, <4>2
    <3> HIDE DEF mid, f
    <3> QED
      BY <3>2, <3>3
  <2> QED
    BY <2>1, <2>2, <2>3, <2>4
<1>3. f = [range \in Ranges(all) |-> halve(all, idx, f, range)]
  <2>1. f = [range \in Ranges(all) |-> at(range[1], range[2])]
    OBVIOUS
  <2> HIDE DEF f, at
  <2>2. \A range \in Ranges(all) : at(range[1], range[2]) = halve(all, idx, f, range)
    <3> TAKE range \in Ranges(all)
    <3>1. range[1] \in 0..Len(all) /\ range[2] \in 0..Len(all) /\ range = <<range[1], range[2]>>
      BY DEF Ranges
    <3>2. at(range[1], range[2]) = halve(all, idx, f, <<range[1], range[2]>>)
      BY <3>1, <1>2
    <3> QED
      BY <3>1, <3>2
  <2> QED
    BY <2>1, <2>2
<1> HIDE DEF f
<1> QED
  BY <1>3 DEF Halves

\* The binary search of Locals::get_bsearch finds the first group that ends at or after idx.
LEMMA SearchFindsFirst ==
  ASSUME NEW all, Sorted(all), NEW idx \in Nat
  PROVE  FirstFrom(all, idx, 0, Len(all), BsearchPos(all, idx))
<1> DEFINE f == search(all, idx)
           ranges == (0..Len(all)) \X (0..Len(all))
           Wrong == {d \in Nat : \E lo, hi \in 0..Len(all) :
                                    hi = lo + d /\ ~FirstFrom(all, idx, lo, hi, f[<<lo, hi>>])}
<1>0. Len(all) \in Nat
  BY EndsAreNumbers
<1>1. Halves(all, idx, f)
  BY SearchExists DEF search
<1> HIDE DEF f
<1>2. \A lo, hi \in 0..Len(all) : f[<<lo, hi>>] = halve(all, idx, f, <<lo, hi>>)
  BY <1>1 DEF Halves, Ranges
<1>3. Wrong = {}
  <2> SUFFICES ASSUME Wrong # {} PROVE FALSE
    OBVIOUS
  <2>1. PICK d \in Wrong : \A e \in Wrong : d <= e
    <3>1. Wrong \subseteq Nat
      OBVIOUS
    <3> HIDE DEF Wrong
    <3> QED
      BY <3>1, LeastNumber
  <2>2. PICK lo \in 0..Len(all), hi \in 0..Len(all) :
            hi = lo + d /\ ~FirstFrom(all, idx, lo, hi, f[<<lo, hi>>])
    BY <2>1
  <2>3. lo \in Nat /\ hi \in Nat /\ d \in Nat
    BY <2>1, <1>0
  <2>4. CASE lo = hi
    <3>1. halve(all, idx, f, <<lo, hi>>) = lo
      BY <2>4 DEF halve
    <3>2. f[<<lo, hi>>] = lo
      BY <3>1, <1>2
    <3> QED
      BY <3>2, <2>2, <2>3, <2>4 DEF FirstFrom
  <2>5. CASE lo < hi
    <3> DEFINE mid == lo + (hi - lo) \div 2
    <3>1. mid \in lo..(hi - 1) /\ mid \in Nat
      BY <2>3, <2>5, MiddleIsInside
    <3>2. f[<<lo, hi>>] = IF all[mid + 1][1] < idx THEN f[<<mid + 1, hi>>] ELSE f[<<lo, mid>>]
      <4>1. lo # hi
        BY <2>3, <2>5
      <4>2. halve(all, idx, f, <<lo, hi>>) = IF all[mid + 1][1] < idx THEN f[<<mid + 1, hi>>] ELSE f[<<lo, mid>>]
        BY <4>1 DEF halve
      <4> HIDE DEF mid
      <4> QED
        BY <4>2, <1>2
    <3> HIDE DEF mid
    <3>3. mid \in 0..Len(all) /\ mid + 1 \in 0..Len(all)
      BY <3>1, <2>3, <1>0
    <3>4. FirstFrom(all, idx, mid + 1, hi, f[<<mid + 1, hi>>])
      <4>1. hi - (mid + 1) \in Nat /\ ~(d <= hi - (mid + 1)) /\ hi = (mid + 1) + (hi - (mid + 1))
        BY <3>1, <2>2, <2>3, SMTT(60)
      <4>2. hi - (mid + 1) \notin Wrong
        BY <4>1, <2>1
      <4> QED
        BY <4>1, <4>2, <3>3
    <3>5. FirstFrom(all, idx, lo, mid, f[<<lo, mid>>])
      <4>1. mid - lo \in Nat /\ ~(d <= mid - lo) /\ mid = lo + (mid - lo)
        BY <3>1, <2>2, <2>3, SMTT(60)
      <4>2. mid - lo \notin Wrong
        BY <4>1, <2>1
      <4> QED
        BY <4>1, <4>2, <3>3
    <3>6. FirstFrom(all, idx, lo, hi, f[<<lo, hi>>])
      BY <3>1, <3>2, <3>4, <3>5, <2>5, HalfIsEnough
    <3> QED
      BY <3>6, <2>2
  <2> QED
    BY <2>2, <2>3, <2>4, <2>5
<1>4. FirstFrom(all, idx, 0, Len(all), f[<<0, Len(all)>>])
  <2>1. Len(all) \notin Wrong
    BY <1>3
  <2> QED
    BY <2>1, <1>0
<1> QED
  BY <1>4, SearchUnfolds DEF f

\* Locals::get: the cached types and the groups agree with the list.
LEMMA GetIsDeclared ==
  ASSUME NEW ls, NEW types, Represents(ls, types), NEW idx \in Nat
  PROVE  Get(ls, idx) = IF idx < Len(types) THEN types[idx + 1] ELSE Bottom
<1> DEFINE n == Len(types)
           m == Len(ls.all)
<1>1. /\ n \in Nat /\ m \in Nat /\ Len(ls.first) \in Nat
      /\ Len(ls.first) <= n /\ Sorted(ls.all)
      /\ \A g \in 1..m : ls.all[g][1] \in Nat
  <2>1. Sorted(ls.all)
    BY DEF Represents, Sorted
  <2>2. n \in Nat /\ Len(ls.first) \in Nat /\ Len(ls.first) <= n
    BY StackAssumption DEF Represents
  <2> QED
    BY <2>1, <2>2, EndsAreNumbers
<1>2. CASE idx < Len(ls.first)
  <2>1. ls.first[idx + 1] = types[idx + 1] /\ idx < n
    BY <1>1, <1>2 DEF Represents
  <2> QED
    BY <2>1, <1>2 DEF Get
<1>3. CASE ~(idx < Len(ls.first))
  <2> DEFINE i == BsearchPos(ls.all, idx)
  <2>1. FirstFrom(ls.all, idx, 0, m, i)
    BY <1>1, SearchFindsFirst
  <2>2. Get(ls, idx) = IF i = m THEN Bottom ELSE ls.all[i + 1][2]
    BY <1>3 DEF Get
  <2> HIDE DEF i
  <2>3. i \in 0..m /\ i \in Nat
    BY <2>1, <1>1 DEF FirstFrom
  <2>4. CASE i = m
    <3>1. n <= idx
      <4>1. CASE m = 0
        <5>1. ls.all = <<>>
          BY <4>1, <1>1 DEF Sorted
        <5> QED
          BY <5>1, <1>1 DEF Represents
      <4>2. CASE m # 0
        <5>1. ls.all # <<>> /\ m - 1 \in 0..m /\ m - 1 < i /\ (m - 1) + 1 = m
          BY <4>2, <2>4, <1>1
        <5>2. ls.all[m][1] < idx
          BY <5>1, <2>1 DEF FirstFrom
        <5>3. ls.all[m][1] = n - 1
          BY <5>1 DEF Represents
        <5> QED
          BY <5>2, <5>3, <1>1
      <4> QED
        BY <4>1, <4>2
    <3> QED
      BY <3>1, <2>2, <2>4, <1>1
  <2>5. CASE i # m
    <3>1. i < m /\ i + 1 \in 1..m
      BY <2>3, <2>5, <1>1
    <3>2. ls.all[i + 1][1] >= idx /\ ls.all[i + 1][1] \in Nat
      BY <3>1, <2>1, <1>1 DEF FirstFrom
    <3>3. i + 1 > 1 => ls.all[(i + 1) - 1][1] + 1 < idx + 1
      <4>1. CASE i > 0
        <5>1. i - 1 \in 0..m /\ i - 1 < i /\ (i - 1) + 1 = i /\ (i + 1) - 1 = i /\ i \in 1..m
          BY <4>1, <2>3, <1>1
        <5>2. ls.all[i][1] < idx /\ ls.all[i][1] \in Nat
          BY <5>1, <2>1, <1>1 DEF FirstFrom
        <5> QED
          BY <5>1, <5>2
      <4> QED
        BY <4>1, <2>3
    <3>4. idx < n
      <4>1. ls.all # <<>> /\ ls.all[m][1] = n - 1
        BY <3>1, <1>1 DEF Represents, Sorted
      <4>2. ls.all[i + 1][1] <= ls.all[m][1]
        <5>1. CASE i + 1 = m
          BY <5>1, <3>2
        <5>2. CASE i + 1 # m
          <6>1. i + 1 < m /\ m \in 1..m /\ ls.all[m][1] \in Nat
            BY <5>2, <3>1, <1>1
          <6>2. \A g, h \in 1..m : g < h => ls.all[g][1] < ls.all[h][1]
            BY <1>1 DEF Sorted
          <6>3. ls.all[i + 1][1] < ls.all[m][1]
            BY <6>1, <6>2, <3>1
          <6> QED
            BY <6>1, <6>3, <3>2
        <5> QED
          BY <5>1, <5>2
      <4> QED
        BY <4>1, <4>2, <3>2, <1>1
    <3>5. idx + 1 \in 1..n
      BY <3>4, <1>1
    <3>6. types[idx + 1] = ls.all[i + 1][2]
      <4>1. idx + 1 <= ls.all[i + 1][1] + 1
        BY <3>2
      <4> QED
        BY <3>1, <3>3, <3>5, <4>1 DEF Represents
    <3> QED
      BY <3>4, <3>6, <2>2, <2>5
  <2> QED
    BY <2>4, <2>5
<1> QED
  BY <1>2, <1>3, <1>1

-----------------------------------------------------------------------------
(* The parameters, declared one by one.                                    *)

\* FoldLeft over the positions S of `types`, given the folds over fewer.
fold_step(types, f, S) ==
    IF S = {} THEN EmptyLocals ELSE Define(f[S \ {Max(S)}], 1, types[Max(S)])

Folds(types, n, f) == f = [S \in SUBSET (1..n) |-> fold_step(types, f, S)]

fold_of(types) == CHOOSE f : f = [S \in SUBSET (DOMAIN types) |-> fold_step(types, f, S)]

\* The fold of Define over the parameters, as a recursive function on sets of positions.
LEMMA FoldUnfolds ==
  ASSUME NEW types
  PROVE  FoldLeft(LAMBDA ls, t : Define(ls, 1, t), EmptyLocals, types) = fold_of(types)[DOMAIN types]
  BY DEF FoldLeft, MapThenFoldSet, fold_of, fold_step

\* Max of a nonempty set of numbers below a bound is its greatest element.
LEMMA GreatestNumber ==
  ASSUME NEW n \in Nat, NEW S, S \subseteq 1..n, S # {}
  PROVE  Max(S) \in S /\ \A x \in S : x <= Max(S)
<1> DEFINE T == {n - x : x \in S}
<1>1. T \subseteq Nat /\ T # {}
  <2>1. \A x \in S : x \in 1..n /\ n - x \in Nat
    OBVIOUS
  <2> QED
    BY <2>1
<1>2. PICK y \in T : \A z \in T : y <= z
  <2> HIDE DEF T
  <2> QED
    BY <1>1, LeastNumber
<1>3. PICK x \in S : y = n - x
  BY <1>2
<1>4. \A w \in S : x >= w
  <2> TAKE w \in S
  <2>1. y <= n - w
    BY <1>2
  <2> QED
    BY <2>1, <1>3
<1> QED
  BY <1>3, <1>4 DEF Max

\* The greatest element of a set is its Max.
LEMMA MaxIs ==
  ASSUME NEW n \in Nat, NEW S, S \subseteq 1..n, NEW m \in S, \A x \in S : x <= m
  PROVE  Max(S) = m
<1>1. Max(S) \in S /\ \A x \in S : x <= Max(S)
  BY GreatestNumber
<1>2. Max(S) \in 1..n /\ m \in 1..n
  BY <1>1
<1>3. Max(S) <= m /\ m <= Max(S)
  BY <1>1
<1> QED
  BY <1>2, <1>3

\* A function satisfies the recursive definition of the fold, by least counterexample.
LEMMA FoldExists ==
  ASSUME NEW types, NEW n \in Nat
  PROVE  \E f : Folds(types, n, f)
<1> DEFINE Stuck == {k \in Nat : ~ \E f : Folds(types, k, f)}
<1>1. Stuck = {}
  <2> SUFFICES ASSUME Stuck # {} PROVE FALSE
    OBVIOUS
  <2>1. PICK m \in Stuck : \A k \in Stuck : m <= k
    <3>1. Stuck \subseteq Nat
      OBVIOUS
    <3> HIDE DEF Stuck
    <3> QED
      BY <3>1, LeastNumber
  <2>2. m \in Nat
    OBVIOUS
  <2>3. CASE m = 0
    <3> DEFINE f == [S \in SUBSET (1..0) |-> EmptyLocals]
    <3>1. \A S \in SUBSET (1..0) : fold_step(types, f, S) = EmptyLocals
      BY DEF fold_step
    <3> HIDE DEF f
    <3>2. Folds(types, 0, f)
      BY <3>1 DEF Folds, f
    <3> QED
      BY <3>2, <2>1, <2>3
  <2>4. CASE m # 0
    <3>1. m - 1 \in Nat /\ ~(m <= m - 1)
      BY <2>2, <2>4
    <3>2. PICK f : Folds(types, m - 1, f)
      <4>1. m - 1 \notin Stuck
        BY <2>1, <3>1
      <4> QED
        BY <4>1, <3>1
    <3> DEFINE at(S) == IF m \in S THEN Define(f[S \ {m}], 1, types[m]) ELSE f[S]
               g == [S \in SUBSET (1..m) |-> at(S)]
    <3>3. \A S \in SUBSET (1..(m - 1)) : f[S] = fold_step(types, f, S)
      BY <3>2 DEF Folds
    <3>4. ASSUME NEW S \in SUBSET (1..m) PROVE at(S) = fold_step(types, g, S)
      <4>1. CASE m \in S
        <5>0. S \subseteq 1..m /\ \A x \in S : x <= m
          <6>1. S \subseteq 1..m
            OBVIOUS
          <6>2. \A x \in 1..m : x <= m
            BY <2>2
          <6> QED
            BY <6>1, <6>2
        <5>1. Max(S) = m /\ S # {}
          BY <4>1, <5>0, <2>2, MaxIs
        <5>2. S \ {m} \in SUBSET (1..m)
          OBVIOUS
        <5>3. g[S \ {m}] = f[S \ {m}]
          BY <5>2
        <5> HIDE DEF g
        <5> QED
          BY <4>1, <5>1, <5>3 DEF fold_step
      <4>2. CASE m \notin S
        <5>1. S \in SUBSET (1..(m - 1))
          BY <4>2, <2>2
        <5>2. at(S) = fold_step(types, f, S)
          BY <4>2, <5>1, <3>3
        <5>3. S # {} => g[S \ {Max(S)}] = f[S \ {Max(S)}]
          <6>1. S \ {Max(S)} \in SUBSET (1..m) /\ m \notin S \ {Max(S)}
            BY <4>2
          <6> QED
            BY <6>1
        <5> HIDE DEF g, at
        <5> QED
          BY <5>2, <5>3 DEF fold_step
      <4> QED
        BY <4>1, <4>2
    <3>5. g = [S \in SUBSET (1..m) |-> fold_step(types, g, S)]
      <4>1. g = [S \in SUBSET (1..m) |-> at(S)]
        OBVIOUS
      <4> HIDE DEF g, at
      <4> QED
        BY <4>1, <3>4
    <3>6. Folds(types, m, g)
      <4> HIDE DEF g
      <4> QED
        BY <3>5 DEF Folds
    <3> QED
      BY <3>6, <2>1
  <2> QED
    BY <2>3, <2>4
<1> QED
  BY <1>1

\* OperatorValidator::new_func: the parameters, in order.
LEMMA ParametersRepresent ==
  ASSUME NEW types \in Seq(ValTypes)
  PROVE  Represents(FoldLeft(LAMBDA ls, t : Define(ls, 1, t), EmptyLocals, types), types)
<1> DEFINE n == Len(types)
           f == fold_of(types)
           Wrong == {k \in Nat : k <= n /\ ~Represents(f[1..k], SubSeq(types, 1, k))}
<1>0. n \in Nat /\ DOMAIN types = 1..n
  OBVIOUS
<1>1. Folds(types, n, f)
  <2>1. \E h : h = [S \in SUBSET (DOMAIN types) |-> fold_step(types, h, S)]
    <3>1. PICK h : Folds(types, n, h)
      BY <1>0, FoldExists
    <3>2. h = [S \in SUBSET (DOMAIN types) |-> fold_step(types, h, S)]
      BY <1>0, <3>1 DEF Folds
    <3> QED
      BY <3>2
  <2>2. f = [S \in SUBSET (DOMAIN types) |-> fold_step(types, f, S)]
    BY <2>1 DEF fold_of
  <2> HIDE DEF f
  <2> QED
    BY <1>0, <2>2 DEF Folds
<1> HIDE DEF f
<1>2. \A S \in SUBSET (1..n) : f[S] = fold_step(types, f, S)
  BY <1>1 DEF Folds
<1>3. Wrong = {}
  <2> SUFFICES ASSUME Wrong # {} PROVE FALSE
    OBVIOUS
  <2>1. PICK m \in Wrong : \A k \in Wrong : m <= k
    <3>1. Wrong \subseteq Nat
      OBVIOUS
    <3> HIDE DEF Wrong
    <3> QED
      BY <3>1, LeastNumber
  <2>2. m \in Nat /\ m <= n
    OBVIOUS
  <2>3. CASE m = 0
    <3>1. f[1..0] = EmptyLocals
      <4>1. 1..0 = {}
        OBVIOUS
      <4> QED
        BY <4>1, <1>2 DEF fold_step
    <3>2. SubSeq(types, 1, 0) = <<>>
      OBVIOUS
    <3> QED
      BY <3>1, <3>2, <2>1, <2>3, EmptyRepresents
  <2>4. CASE m # 0
    <3>1. m - 1 \in Nat /\ ~(m <= m - 1) /\ m - 1 <= n /\ m \in 1..n
      BY <2>2, <2>4, <1>0
    <3>2. Represents(f[1..(m - 1)], SubSeq(types, 1, m - 1))
      <4>1. m - 1 \notin Wrong
        BY <2>1, <3>1
      <4> QED
        BY <4>1, <3>1
    <3>3. f[1..m] = Define(f[1..(m - 1)], 1, types[m])
      <4>1. 1..m \in SUBSET (1..n) /\ 1..m # {}
        <5>1. \A x \in 1..m : x \in 1..n
          BY <2>2, <1>0
        <5>2. m \in 1..m
          BY <3>1, <2>2
        <5> QED
          BY <5>1, <5>2
      <4>2. Max(1..m) = m
        <5>1. m \in 1..m /\ \A x \in 1..m : x <= m
          BY <3>1
        <5> QED
          BY <5>1, <2>2, MaxIs
      <4>3. (1..m) \ {m} = 1..(m - 1)
        BY <2>2, <3>1
      <4> QED
        BY <4>1, <4>2, <4>3, <1>2 DEF fold_step
    <3>4. types[m] \in ValTypes
      BY <3>1
    <3>5. Represents(Define(f[1..(m - 1)], 1, types[m]),
                     SubSeq(types, 1, m - 1) \o [i \in 1..1 |-> types[m]])
      <4>1. 1 \in Nat \ {0}
        OBVIOUS
      <4> DEFINE one == SubSeq(types, 1, m - 1) \o [i \in 1..1 |-> types[m]]
      <4>2. one = SubSeq(types, 1, m - 1) \o [i \in 1..1 |-> types[m]]
        OBVIOUS
      <4> HIDE DEF one
      <4>3. Represents(Define(f[1..(m - 1)], 1, types[m]), one)
        BY <3>2, <3>4, <4>1, <4>2, DefineRepresents
      <4> QED
        BY <4>3 DEF one
    <3>6. SubSeq(types, 1, m - 1) \o [i \in 1..1 |-> types[m]] = SubSeq(types, 1, m)
      <4> DEFINE one == [i \in 1..1 |-> types[m]]
                 front == SubSeq(types, 1, m - 1)
      <4>1. one \in Seq(ValTypes) /\ Len(one) = 1 /\ one[1] = types[m]
        BY <3>4
      <4>2. front \in Seq(ValTypes) /\ Len(front) = m - 1
            /\ \A i \in 1..(m - 1) : front[i] = types[i]
        BY <3>1, <1>0
      <4>3. SubSeq(types, 1, m) \in Seq(ValTypes) /\ Len(SubSeq(types, 1, m)) = m
            /\ \A i \in 1..m : SubSeq(types, 1, m)[i] = types[i]
        BY <3>1, <1>0
      <4> HIDE DEF one, front
      <4>4. front \o one \in Seq(ValTypes) /\ Len(front \o one) = m
            /\ \A i \in 1..m : (front \o one)[i] = types[i]
        <5>1. /\ front \o one \in Seq(ValTypes) /\ Len(front \o one) = (m - 1) + 1
              /\ \A i \in 1..(m - 1) : (front \o one)[i] = front[i]
              /\ \A i \in 1..1 : (front \o one)[(m - 1) + i] = one[i]
          <6>1. /\ front \o one \in Seq(ValTypes) /\ Len(front \o one) = Len(front) + Len(one)
                /\ \A i \in 1..Len(front) : (front \o one)[i] = front[i]
                /\ \A i \in 1..Len(one) : (front \o one)[Len(front) + i] = one[i]
            <7>1. front \in Seq(ValTypes) /\ one \in Seq(ValTypes)
              BY <4>1, <4>2
            <7> QED
              BY <7>1, ConcatFacts
          <6> QED
            BY <6>1, <4>1, <4>2
        <5>2. (front \o one)[m] = types[m]
          <6>1. (m - 1) + 1 = m /\ 1 \in 1..1
            BY <2>2
          <6> QED
            BY <6>1, <5>1, <4>1
        <5> QED
          BY <5>1, <5>2, <4>2, <2>2
      <4>5. front \o one = SubSeq(types, 1, m)
        BY <4>3, <4>4
      <4> QED
        BY <4>5 DEF front, one
    <3> QED
      BY <3>3, <3>5, <3>6, <2>1
  <2> QED
    BY <2>3, <2>4
<1>4. Represents(f[1..n], SubSeq(types, 1, n))
  <2>1. n \notin Wrong
    BY <1>3
  <2> QED
    BY <2>1, <1>0
<1>5. SubSeq(types, 1, n) = types
  OBVIOUS
<1> QED
  BY <1>0, <1>4, <1>5, FoldUnfolds DEF f

-----------------------------------------------------------------------------
(* The invariant of the validator record, and what a visitor does within     *)
(* a frame.                                                                  *)

OperandTypes == ValTypes \cup TypesOfKind({"bottom", "unknown"})

Blocks == {NoBlock} \cup {TypeBlock(t) : t \in ValTypes} \cup {FuncBlock(i) : i \in FuncTypeIds}

FrameKinds ==
    {"Block", "Loop", "If", "Else", "TryTable", "LegacyTry", "LegacyCatch", "LegacyCatchAll"}
    \cup QuantifiedKinds

Frames == [kind : FrameKinds, block_type : Blocks, height : Nat, unreachable : BOOLEAN,
           init_height : Nat]

Validators ==
    [operands : Seq(OperandTypes), control : Seq(Frames), inited : SUBSET Nat, inits : Seq(Nat),
     pops : Nat, pushes : Nat, popped : OperandTypes, ok : BOOLEAN]

\* Where the operands of the innermost frame start; whether its code is reachable.
floor(vm) == IF vm.control = <<>> THEN 0 ELSE vm.control[Len(vm.control)].height
Dead(vm) == vm.control # <<>> /\ vm.control[Len(vm.control)].unreachable

Nested(vm) ==
    \A f \in 1..Len(vm.control) :
        /\ vm.control[f].height <= IF f = Len(vm.control) THEN Len(vm.operands)
                                   ELSE vm.control[f + 1].height
        /\ vm.control[f].init_height <= IF f = Len(vm.control) THEN Len(vm.inits)
                                        ELSE vm.control[f + 1].init_height

\* Frame 0 is what lies below the first frame.
Holds(vm, f, i) ==
    /\ f = 0 \/ vm.control[f].height < i
    /\ f = Len(vm.control) \/ i <= vm.control[f + 1].height

KnownWhereReachable(vm) ==
    \A f \in 0..Len(vm.control), i \in 1..Len(vm.operands) :
        Holds(vm, f, i) /\ (f = 0 \/ ~vm.control[f].unreachable) => vm.operands[i] \in ValTypes

\* The locals that stay initialised when the undo log is cut to h.
Undo(vm, h) == vm.inited \ {vm.inits[j] : j \in (h + 1)..Len(vm.inits)}

LoggedOnce(vm) ==
    /\ \A j \in 1..Len(vm.inits) : vm.inits[j] \in vm.inited
    /\ \A j, k \in 1..Len(vm.inits) : vm.inits[j] = vm.inits[k] => j = k

Good(vm) == vm \in Validators /\ Nested(vm) /\ KnownWhereReachable(vm) /\ LoggedOnce(vm)
Sound(vm) == vm \in Validators /\ (vm.ok => Good(vm))

SameFrames(vm, v) ==
    /\ Len(v.control) = Len(vm.control)
    /\ \A f \in 1..Len(vm.control) :
          /\ v.control[f].kind = vm.control[f].kind
          /\ v.control[f].block_type = vm.control[f].block_type
          /\ v.control[f].height = vm.control[f].height
          /\ v.control[f].init_height = vm.control[f].init_height
          /\ vm.control[f].unreachable => v.control[f].unreachable
          /\ f < Len(vm.control) => v.control[f].unreachable = vm.control[f].unreachable

KeepsInits(vm, v) ==
    /\ Len(vm.inits) <= Len(v.inits)
    /\ \A h \in 0..Len(vm.inits) : Undo(v, h) = Undo(vm, h)

\* v is vm after steps within its innermost frame: p pops and q pushes.
Does(vm, v, p, q) ==
    /\ v \in Validators
    /\ v.ok => /\ vm.ok /\ Good(v)
               /\ SameFrames(vm, v) /\ KeepsInits(vm, v)
               /\ v.pops = vm.pops + p /\ v.pushes = vm.pushes + q

\* The types of the fields of a validator.
LEMMA Fields ==
  ASSUME NEW vm \in Validators
  PROVE  /\ vm.operands \in Seq(OperandTypes) /\ Len(vm.operands) \in Nat
         /\ DOMAIN vm.operands = 1..Len(vm.operands)
         /\ \A i \in 1..Len(vm.operands) : vm.operands[i] \in OperandTypes
         /\ vm.control \in Seq(Frames) /\ Len(vm.control) \in Nat
         /\ DOMAIN vm.control = 1..Len(vm.control)
         /\ \A f \in 1..Len(vm.control) :
               /\ vm.control[f] \in Frames /\ vm.control[f].height \in Nat
               /\ vm.control[f].init_height \in Nat /\ vm.control[f].unreachable \in BOOLEAN
               /\ vm.control[f].kind \in FrameKinds /\ vm.control[f].block_type \in Blocks
         /\ vm.control = <<>> <=> Len(vm.control) = 0
         /\ vm.inits \in Seq(Nat) /\ Len(vm.inits) \in Nat
         /\ DOMAIN vm.inits = 1..Len(vm.inits)
         /\ \A j \in 1..Len(vm.inits) : vm.inits[j] \in Nat
         /\ vm.inited \in SUBSET Nat
         /\ vm.pops \in Nat /\ vm.pushes \in Nat
         /\ vm.popped \in OperandTypes /\ vm.ok \in BOOLEAN
<1>1. /\ vm.operands \in Seq(OperandTypes) /\ vm.control \in Seq(Frames) /\ vm.inits \in Seq(Nat)
      /\ vm.inited \in SUBSET Nat
      /\ vm.pops \in Nat /\ vm.pushes \in Nat
      /\ vm.popped \in OperandTypes /\ vm.ok \in BOOLEAN
  BY DEF Validators
<1>2. Len(vm.control) \in Nat /\ DOMAIN vm.control = 1..Len(vm.control)
      /\ (vm.control = <<>> <=> Len(vm.control) = 0)
      /\ \A f \in 1..Len(vm.control) : vm.control[f] \in Frames
  BY <1>1
<1>3. \A f \in 1..Len(vm.control) :
               /\ vm.control[f] \in Frames /\ vm.control[f].height \in Nat
               /\ vm.control[f].init_height \in Nat /\ vm.control[f].unreachable \in BOOLEAN
               /\ vm.control[f].kind \in FrameKinds /\ vm.control[f].block_type \in Blocks
  BY <1>2 DEF Frames
<1>4. Len(vm.operands) \in Nat /\ DOMAIN vm.operands = 1..Len(vm.operands)
      /\ \A i \in 1..Len(vm.operands) : vm.operands[i] \in OperandTypes
  BY <1>1
<1>5. Len(vm.inits) \in Nat /\ DOMAIN vm.inits = 1..Len(vm.inits)
      /\ \A j \in 1..Len(vm.inits) : vm.inits[j] \in Nat
  BY <1>1
<1> QED
  BY <1>1, <1>2, <1>3, <1>4, <1>5

\* A change above the innermost frame's height, and to its reachability, keeps a validator good.
LEMMA LocalChange ==
  ASSUME NEW vm, Good(vm), NEW v \in Validators, SameFrames(vm, v),
         floor(vm) <= Len(v.operands),
         \A i \in 1..floor(vm) : v.operands[i] = vm.operands[i],
         Dead(v) \/ \A i \in (floor(vm) + 1)..Len(v.operands) : v.operands[i] \in ValTypes,
         Len(vm.inits) <= Len(v.inits), LoggedOnce(v)
  PROVE  Good(v)
<1> DEFINE n == Len(vm.control)
<1>1. vm \in Validators
  BY DEF Good
<1>2. /\ n \in Nat /\ Len(v.control) = n /\ (vm.control = <<>> <=> n = 0) /\ (v.control = <<>> <=> n = 0)
      /\ Len(vm.operands) \in Nat /\ Len(v.operands) \in Nat
      /\ Len(vm.inits) \in Nat /\ Len(v.inits) \in Nat /\ floor(vm) \in Nat
      /\ \A f \in 1..n : /\ vm.control[f].height \in Nat /\ vm.control[f].init_height \in Nat
                         /\ v.control[f].height = vm.control[f].height
                         /\ v.control[f].init_height = vm.control[f].init_height
  <2>1. /\ Len(vm.control) \in Nat /\ (vm.control = <<>> <=> Len(vm.control) = 0)
        /\ Len(vm.operands) \in Nat /\ Len(vm.inits) \in Nat
        /\ \A f \in 1..Len(vm.control) : vm.control[f].height \in Nat /\ vm.control[f].init_height \in Nat
    BY <1>1, Fields
  <2>2. /\ (v.control = <<>> <=> Len(v.control) = 0) /\ Len(v.operands) \in Nat /\ Len(v.inits) \in Nat
    BY Fields
  <2>3. floor(vm) \in Nat
    BY <2>1 DEF floor
  <2> QED
    BY <2>1, <2>2, <2>3 DEF SameFrames
<1>3. floor(vm) = IF n = 0 THEN 0 ELSE vm.control[n].height
  BY <1>2 DEF floor
<1>4. floor(vm) <= Len(vm.operands)
  BY <1>2, <1>3 DEF Good, Nested
<1>5. Nested(v)
  <2> SUFFICES ASSUME NEW f \in 1..n
               PROVE  /\ v.control[f].height <= IF f = n THEN Len(v.operands) ELSE v.control[f + 1].height
                      /\ v.control[f].init_height <= IF f = n THEN Len(v.inits) ELSE v.control[f + 1].init_height
    BY <1>2 DEF Nested
  <2>1. CASE f = n
    <3>1. v.control[f].height <= Len(v.operands)
      BY <2>1, <1>2, <1>3
    <3>2. vm.control[f].init_height <= Len(vm.inits)
      BY <2>1, <1>2 DEF Good, Nested
    <3>3. v.control[f].init_height <= Len(v.inits)
      BY <3>2, <1>2
    <3> QED
      BY <2>1, <3>1, <3>3
  <2>2. CASE f # n
    <3>1. f + 1 \in 1..n
      BY <2>2, <1>2
    <3> QED
      BY <2>2, <3>1, <1>2 DEF Good, Nested
  <2> QED
    BY <2>1, <2>2
<1>6. KnownWhereReachable(v)
  <2> SUFFICES ASSUME NEW f \in 0..n, NEW i \in 1..Len(v.operands), Holds(v, f, i),
                      f = 0 \/ ~v.control[f].unreachable
               PROVE  v.operands[i] \in ValTypes
    BY <1>2 DEF KnownWhereReachable
  <2>1. CASE f = n
    <3>1. ~Dead(v)
      BY <2>1, <1>2 DEF Dead
    <3>2. i > floor(vm)
      BY <2>1, <1>2, <1>3 DEF Holds
    <3> QED
      BY <3>1, <3>2, <1>2
  <2>2. CASE f # n
    <3>1. f + 1 \in 1..n /\ i <= vm.control[f + 1].height
      BY <2>2, <1>2 DEF Holds
    <3>2. vm.control[f + 1].height <= floor(vm)
      <4> DEFINE Above == {g \in 0..n : n - g \in 1..n /\ ~(vm.control[n - g].height <= floor(vm))}
      <4>1. Above = {}
        <5> SUFFICES ASSUME Above # {} PROVE FALSE
          OBVIOUS
        <5>1. PICK g \in Above : \A h \in Above : g <= h
          <6>1. Above \subseteq Nat
            BY <1>2
          <6> HIDE DEF Above
          <6> QED
            BY <6>1, LeastNumber
        <5>2. CASE g = 0
          BY <5>1, <5>2, <1>2, <1>3
        <5>3. CASE g # 0
          <6>1. g - 1 \in 0..n /\ ~(g <= g - 1) /\ n - (g - 1) \in 1..n /\ n - (g - 1) = (n - g) + 1 /\ n - g \in 1..n /\ n - g # n
            <7>1. g \in 0..n /\ n - g \in 1..n /\ n \in Nat
              BY <5>1, <1>2
            <7> HIDE DEF n
            <7> QED
              BY <7>1, <5>3
          <6>2. vm.control[n - (g - 1)].height <= floor(vm)
            BY <5>1, <6>1
          <6>3. vm.control[n - g].height <= vm.control[(n - g) + 1].height
            BY <6>1 DEF Good, Nested
          <6>4. vm.control[n - g].height <= vm.control[n - (g - 1)].height
            BY <6>1, <6>3
          <6>5. ~(vm.control[n - g].height <= floor(vm))
            BY <5>1
          <6>6. vm.control[n - g].height \in Nat /\ vm.control[n - (g - 1)].height \in Nat /\ floor(vm) \in Nat
            BY <6>1, <1>2
          <6> DEFINE a == vm.control[n - g].height
                     b == vm.control[n - (g - 1)].height
          <6>7. a \in Nat /\ b \in Nat /\ floor(vm) \in Nat /\ a <= b /\ b <= floor(vm) /\ ~(a <= floor(vm))
            BY <6>2, <6>4, <6>5, <6>6
          <6> HIDE DEF a, b
          <6> QED
            BY <6>7
        <5> QED
          BY <5>2, <5>3
      <4>2. n - (f + 1) \in 0..n /\ n - (n - (f + 1)) = f + 1
        <5>1. f + 1 \in 1..n /\ n \in Nat /\ f \in 0..n
          BY <3>1, <1>2
        <5> HIDE DEF n
        <5> QED
          BY <5>1
      <4> QED
        BY <4>1, <4>2, <3>1
    <3>3. i \in 1..floor(vm) /\ i \in 1..Len(vm.operands)
      BY <3>1, <3>2, <1>2, <1>4
    <3>4. Holds(vm, f, i) /\ (f = 0 \/ ~vm.control[f].unreachable)
      BY <2>2, <3>1, <1>2, SMTT(60) DEF Holds, SameFrames
    <3>5. vm.operands[i] \in ValTypes
      BY <3>3, <3>4 DEF Good, KnownWhereReachable
    <3> QED
      BY <3>3, <3>5
  <2> QED
    BY <2>1, <2>2
<1> QED
  BY <1>5, <1>6 DEF Good

\* Doing nothing is a step within the innermost frame.
LEMMA DoesNothing ==
  ASSUME NEW vm, Sound(vm)
  PROVE  Does(vm, vm, 0, 0)
<1>1. vm.pops \in Nat /\ vm.pushes \in Nat /\ Len(vm.inits) \in Nat
  BY Fields DEF Sound
<1> QED
  BY <1>1 DEF Sound, Does, SameFrames, KeepsInits

\* Two steps within a frame are one, with the sums of their counts.
LEMMA DoesThenDoes ==
  ASSUME NEW vm \in Validators, NEW v, NEW w, NEW p \in Nat, NEW q \in Nat, NEW r \in Nat, NEW s \in Nat,
         Does(vm, v, p, q), Does(v, w, r, s)
  PROVE  Does(vm, w, p + r, q + s)
<1>1. v \in Validators /\ w \in Validators
  BY DEF Does
<1> SUFFICES ASSUME w.ok
             PROVE  /\ vm.ok /\ Good(w) /\ SameFrames(vm, w) /\ KeepsInits(vm, w)
                    /\ w.pops = vm.pops + (p + r) /\ w.pushes = vm.pushes + (q + s)
  BY <1>1 DEF Does
<1>2. /\ v.ok /\ Good(w) /\ SameFrames(v, w) /\ KeepsInits(v, w)
      /\ w.pops = v.pops + r /\ w.pushes = v.pushes + s
  BY DEF Does
<1>3. /\ vm.ok /\ SameFrames(vm, v) /\ KeepsInits(vm, v)
      /\ v.pops = vm.pops + p /\ v.pushes = vm.pushes + q
  BY <1>2 DEF Does
<1>4. vm.pops \in Nat /\ vm.pushes \in Nat /\ Len(vm.inits) \in Nat /\ Len(v.inits) \in Nat /\ Len(w.inits) \in Nat
  BY <1>1, Fields
<1>5. SameFrames(vm, w)
  BY <1>2, <1>3 DEF SameFrames
<1>6. KeepsInits(vm, w)
  <2>1. Len(vm.inits) <= Len(w.inits)
    BY <1>2, <1>3, <1>4 DEF KeepsInits
  <2>2. ASSUME NEW h \in 0..Len(vm.inits) PROVE Undo(w, h) = Undo(vm, h)
    <3>1. h \in 0..Len(v.inits)
      BY <1>3, <1>4 DEF KeepsInits
    <3> QED
      BY <3>1, <1>2, <1>3 DEF KeepsInits
  <2> QED
    BY <2>1, <2>2 DEF KeepsInits
<1> QED
  BY <1>2, <1>3, <1>4, <1>5, <1>6, SMTT(60)

\* What a step within a frame leaves is sound.
LEMMA DoesIsSound ==
  ASSUME NEW vm, NEW v, NEW p, NEW q, Does(vm, v, p, q)
  PROVE  Sound(v)
  BY DEF Does, Sound

\* A failed check is any step: nothing is claimed of a validator that has failed.
LEMMA FailDoes ==
  ASSUME NEW vm \in Validators, NEW p, NEW q
  PROVE  Does(vm, Fail(vm), p, q) /\ ~Fail(vm).ok
<1>1. Fail(vm) \in Validators /\ Fail(vm).ok = FALSE
  BY DEF Fail, Validators
<1> QED
  BY <1>1 DEF Does

\* A check changes nothing, and holds when the validator goes on.
LEMMA RequireDoes ==
  ASSUME NEW vm, Sound(vm), NEW cond
  PROVE  Does(vm, Require(vm, cond), 0, 0) /\ (Require(vm, cond).ok => cond)
<1>1. vm \in Validators
  BY DEF Sound
<1>2. CASE vm.ok /\ cond
  BY <1>2, DoesNothing DEF Require
<1>3. CASE ~(vm.ok /\ cond)
  BY <1>1, <1>3, FailDoes DEF Require
<1> QED
  BY <1>2, <1>3

\* The innermost frame of a good validator.
LEMMA LastFrame ==
  ASSUME NEW vm, Good(vm), vm.control # <<>>
  PROVE  /\ Last(vm.control) = vm.control[Len(vm.control)]
         /\ floor(vm) = Last(vm.control).height
         /\ Dead(vm) <=> Last(vm.control).unreachable
         /\ floor(vm) \in Nat /\ floor(vm) <= Len(vm.operands)
         /\ Len(vm.control) \in 1..Len(vm.control)
<1>1. vm \in Validators
  BY DEF Good
<1>2. Len(vm.control) \in Nat /\ Len(vm.control) # 0
  BY <1>1, Fields
<1>3. Len(vm.control) \in 1..Len(vm.control)
  BY <1>2
<1>4. vm.control[Len(vm.control)].height \in Nat
  BY <1>1, <1>3, Fields
<1>5. vm.control[Len(vm.control)].height <= Len(vm.operands)
  BY <1>3 DEF Good, Nested
<1> QED
  BY <1>3, <1>4, <1>5 DEF Last, floor, Dead

\* Without a frame everything is below the first one.
LEMMA FloorFacts ==
  ASSUME NEW vm, Good(vm)
  PROVE  floor(vm) \in Nat /\ floor(vm) <= Len(vm.operands)
<1>1. CASE vm.control = <<>>
  <2>1. Len(vm.operands) \in Nat
    BY Fields DEF Good
  <2> QED
    BY <1>1, <2>1 DEF floor
<1>2. CASE vm.control # <<>>
  BY <1>2, LastFrame
<1> QED
  BY <1>1, <1>2

\* In reachable code the operands of the innermost frame are values.
LEMMA TopIsKnown ==
  ASSUME NEW vm, Good(vm), ~Dead(vm), NEW i \in 1..Len(vm.operands), floor(vm) < i
  PROVE  vm.operands[i] \in ValTypes
<1>1. Len(vm.control) \in Nat /\ (vm.control = <<>> <=> Len(vm.control) = 0)
  BY Fields DEF Good
<1> DEFINE n == Len(vm.control)
<1>2. n \in 0..n
  BY <1>1
<1>3. Holds(vm, n, i) /\ (n = 0 \/ ~vm.control[n].unreachable)
  BY <1>1 DEF Holds, floor, Dead
<1> QED
  BY <1>2, <1>3 DEF Good, KnownWhereReachable

\* A step that touches only the operands of the innermost frame and the counters.
LEMMA OperandChange ==
  ASSUME NEW vm, Good(vm), vm.ok, NEW v \in Validators,
         v.control = vm.control, v.inits = vm.inits, v.inited = vm.inited,
         floor(vm) <= Len(v.operands),
         \A i \in 1..floor(vm) : v.operands[i] = vm.operands[i],
         Dead(vm) \/ \A i \in (floor(vm) + 1)..Len(v.operands) : v.operands[i] \in ValTypes,
         NEW p \in Nat, NEW q \in Nat, v.pops = vm.pops + p, v.pushes = vm.pushes + q
  PROVE  Does(vm, v, p, q)
<1>1. SameFrames(vm, v) /\ Dead(v) = Dead(vm)
  BY DEF SameFrames, Dead
<1>2. Len(vm.inits) \in Nat
  BY Fields DEF Good
<1>3. KeepsInits(vm, v) /\ LoggedOnce(v)
  BY <1>2 DEF KeepsInits, Undo, LoggedOnce, Good
<1>4. Good(v)
  BY <1>1, <1>2, <1>3, LocalChange
<1> QED
  BY <1>1, <1>3, <1>4 DEF Does

PoppedOK(v) == v.ok => v.control # <<>> /\ (v.popped \in ValTypes \/ Dead(v))

\* Front and Last of a nonempty sequence.
LEMMA FrontFacts ==
  ASSUME NEW S, NEW s \in Seq(S), s # <<>>
  PROVE  /\ Front(s) \in Seq(S) /\ Len(Front(s)) = Len(s) - 1 /\ Len(s) \in Nat \ {0}
         /\ \A i \in 1..(Len(s) - 1) : Front(s)[i] = s[i]
         /\ Last(s) = s[Len(s)] /\ Last(s) \in S
<1>1. Len(s) \in Nat \ {0} /\ Len(s) \in 1..Len(s)
  OBVIOUS
<1>2. Front(s) \in Seq(S) /\ Len(Front(s)) = Len(s) - 1
  <2>1. \A i \in 1..(Len(s) - 1) : s[i] \in S
    <3>1. \A i \in 1..Len(s) : s[i] \in S
      OBVIOUS
    <3>2. \A i \in 1..(Len(s) - 1) : i \in 1..Len(s)
      BY <1>1
    <3> QED
      BY <3>1, <3>2
  <2> DEFINE m == Len(s) - 1
  <2>2. m \in Nat /\ 1 \in Int /\ m \in Int
    BY <1>1
  <2> HIDE DEF m
  <2>3. SubSeq(s, 1, m) \in Seq(S) /\ Len(SubSeq(s, 1, m)) = IF 1 <= m THEN m - 1 + 1 ELSE 0
    BY <2>1, <2>2, SubSeqProperties DEF m
  <2>4. Len(SubSeq(s, 1, m)) = m
    BY <2>2, <2>3
  <2> QED
    BY <2>3, <2>4 DEF Front, m
<1>3. \A i \in 1..(Len(s) - 1) : Front(s)[i] = s[i]
  BY <1>1 DEF Front
<1> QED
  BY <1>1, <1>2, <1>3 DEF Last

\* MaybeType::Bottom is an operand of unknown type.
LEMMA BottomFacts == Bottom \in OperandTypes /\ ~IsKnown(Bottom)
<1>1. Bottom = [k |-> "bottom", null |-> FALSE, shared |-> FALSE, heap |-> "-", id |-> 0]
  BY DEF Bottom
<1>2. Bottom.k = "bottom" /\ Bottom \in OperandTypes
  BY <1>1 DEF OperandTypes, TypesOfKind
<1> QED
  BY <1>2 DEF IsKnown

\* pop_operand(None): one pop, of a value or, in unreachable code, of an unknown operand.
LEMMA PopAnyDoes ==
  ASSUME NEW vm, Sound(vm)
  PROVE  Does(vm, PopAny(vm), 1, 0) /\ PoppedOK(PopAny(vm))
<1>1. vm \in Validators
  BY DEF Sound
<1>2. CASE ~vm.ok \/ vm.control = <<>>
  BY <1>1, <1>2, FailDoes DEF PopAny, PoppedOK
<1>3. CASE vm.ok /\ vm.control # <<>>
  <2>1. Good(vm)
    BY <1>3 DEF Sound
  <2>2. /\ Last(vm.control).height = floor(vm) /\ (Last(vm.control).unreachable <=> Dead(vm))
        /\ floor(vm) \in Nat /\ floor(vm) <= Len(vm.operands)
    BY <2>1, <1>3, LastFrame
  <2>3. /\ vm.operands \in Seq(OperandTypes) /\ Len(vm.operands) \in Nat
        /\ vm.pops \in Nat /\ vm.pushes \in Nat /\ vm.pops + 1 \in Nat
    BY <1>1, Fields
  <2>4. CASE Len(vm.operands) = floor(vm)
    <3>1. CASE Dead(vm)
      <4> DEFINE v == [vm EXCEPT !.popped = Bottom, !.pops = @ + 1]
      <4>1. PopAny(vm) = v
        BY <1>3, <2>2, <2>4, <3>1 DEF PopAny
      <4>2. /\ v \in Validators /\ v.operands = vm.operands /\ v.control = vm.control
            /\ v.inits = vm.inits /\ v.inited = vm.inited /\ v.ok = vm.ok
            /\ v.pops = vm.pops + 1 /\ v.pushes = vm.pushes + 0
        <5>1. v \in Validators
          BY <1>1, <2>3, BottomFacts DEF Validators
        <5>2. v.operands = vm.operands /\ v.control = vm.control /\ v.inits = vm.inits
          BY <1>1 DEF Validators
        <5>3. v.inited = vm.inited /\ v.ok = vm.ok /\ v.pops = vm.pops + 1 /\ v.pushes = vm.pushes
          BY <1>1 DEF Validators
        <5> HIDE DEF v
        <5> QED
          BY <5>1, <5>2, <5>3, <2>3
      <4> HIDE DEF v
      <4>3. Does(vm, v, 1, 0)
        BY <4>2, <3>1, <2>1, <2>2, <1>3, OperandChange
      <4>4. PoppedOK(v)
        BY <4>2, <3>1, <1>3 DEF PoppedOK, Dead
      <4> QED
        BY <4>1, <4>3, <4>4
    <3>2. CASE ~Dead(vm)
      <4>1. PopAny(vm) = Fail(vm)
        BY <1>3, <2>2, <2>4, <3>2 DEF PopAny
      <4> QED
        BY <4>1, <1>1, FailDoes DEF PoppedOK
    <3> QED
      BY <3>1, <3>2
  <2>5. CASE Len(vm.operands) # floor(vm)
    <3> DEFINE v == [vm EXCEPT !.operands = Front(@), !.popped = Last(vm.operands), !.pops = @ + 1]
    <3>1. PopAny(vm) = v
      BY <1>3, <2>2, <2>5 DEF PopAny
    <3>2. vm.operands # <<>>
      BY <2>2, <2>3, <2>5
    <3>3. /\ Front(vm.operands) \in Seq(OperandTypes)
          /\ Len(Front(vm.operands)) = Len(vm.operands) - 1
          /\ \A i \in 1..(Len(vm.operands) - 1) : Front(vm.operands)[i] = vm.operands[i]
          /\ Last(vm.operands) = vm.operands[Len(vm.operands)] /\ Last(vm.operands) \in OperandTypes
      BY <2>3, <3>2, FrontFacts
    <3>4. /\ v \in Validators /\ v.operands = Front(vm.operands) /\ v.control = vm.control
          /\ v.inits = vm.inits /\ v.inited = vm.inited /\ v.ok = vm.ok
          /\ v.popped = Last(vm.operands)
          /\ v.pops = vm.pops + 1 /\ v.pushes = vm.pushes + 0
      <4>1. v \in Validators
        BY <1>1, <2>3, <3>3 DEF Validators
      <4>2. v.operands = Front(vm.operands) /\ v.control = vm.control /\ v.inits = vm.inits
        BY <1>1 DEF Validators
      <4>3. v.inited = vm.inited /\ v.ok = vm.ok /\ v.pops = vm.pops + 1 /\ v.pushes = vm.pushes
            /\ v.popped = Last(vm.operands)
        BY <1>1 DEF Validators
      <4> HIDE DEF v
      <4> QED
        BY <4>1, <4>2, <4>3, <2>3
    <3> HIDE DEF v
    <3>5. ~Dead(vm) => \A i \in 1..Len(vm.operands) : floor(vm) < i => vm.operands[i] \in ValTypes
      BY <2>1, TopIsKnown
    <3>6. floor(vm) <= Len(v.operands)
      BY <3>3, <3>4, <2>2, <2>3, <2>5
    <3>7. \A i \in 1..floor(vm) : v.operands[i] = vm.operands[i]
      BY <3>3, <3>4, <3>6, <2>2, <2>3
    <3>8. Dead(vm) \/ \A i \in (floor(vm) + 1)..Len(v.operands) : v.operands[i] \in ValTypes
      BY <3>3, <3>4, <3>5, <2>2, <2>3, SMTT(60)
    <3>9. Does(vm, v, 1, 0)
      BY <3>4, <3>6, <3>7, <3>8, <2>1, <1>3, OperandChange
    <3>10. PoppedOK(v)
      <4>1. Len(vm.operands) \in 1..Len(vm.operands) /\ floor(vm) < Len(vm.operands)
        BY <2>2, <2>3, <2>5
      <4> QED
        BY <4>1, <3>3, <3>4, <3>5, <1>3 DEF PoppedOK, Dead
    <3> QED
      BY <3>1, <3>9, <3>10
  <2> QED
    BY <2>4, <2>5
<1> QED
  BY <1>2, <1>3 DEF Validators

\* The operands of known type are the value types.
LEMMA ValuesAreOperands == ValTypes \subseteq OperandTypes /\ \A t \in OperandTypes : IsKnown(t) <=> t \in ValTypes
  BY DEF ValTypes, ParsedTypes, OperandTypes, TypesOfKind, IsKnown, NumKinds

\* A list of value types as a list of operands.
LEMMA ListOfValues ==
  ASSUME NEW ts \in Seq(ValTypes)
  PROVE  /\ ts \in Seq(OperandTypes) /\ Len(ts) \in Nat /\ (ts = <<>> <=> Len(ts) = 0)
         /\ \A i \in 1..Len(ts) : ts[i] \in ValTypes /\ ts[i] \in OperandTypes
<1>1. \A i \in 1..Len(ts) : ts[i] \in ValTypes /\ ts[i] \in OperandTypes
  BY ValuesAreOperands
<1>2. ts \in Seq(OperandTypes)
  BY <1>1
<1> QED
  BY <1>1, <1>2

\* pop_operand pops one operand, whatever it expects.
LEMMA PopOperandDoes ==
  ASSUME NEW vm, Sound(vm), NEW expected
  PROVE  Does(vm, pop_operand(vm, expected), 1, 0) /\ PoppedOK(pop_operand(vm, expected))
<1> DEFINE v == PopAny(vm)
<1>1. Does(vm, v, 1, 0) /\ PoppedOK(v)
  BY PopAnyDoes
<1>2. v \in Validators
  BY <1>1 DEF Does
<1> HIDE DEF v
<1>3. pop_operand(vm, expected) = v \/ pop_operand(vm, expected) = Fail(v)
  BY DEF pop_operand, v
<1>4. Does(vm, Fail(v), 1, 0) /\ PoppedOK(Fail(v))
  <2>1. Fail(v) \in Validators /\ ~Fail(v).ok
    BY <1>2, FailDoes DEF Does
  <2> QED
    BY <2>1 DEF Does, PoppedOK
<1> QED
  BY <1>1, <1>3, <1>4

\* Elements and length of a prefix.
LEMMA PrefixFacts ==
  ASSUME NEW S, NEW s \in Seq(S), NEW h \in Nat, h <= Len(s)
  PROVE  /\ SubSeq(s, 1, h) \in Seq(S) /\ Len(SubSeq(s, 1, h)) = h
         /\ \A i \in 1..h : SubSeq(s, 1, h)[i] = s[i]
<1>1. Len(s) \in Nat /\ \A i \in 1..Len(s) : s[i] \in S
  OBVIOUS
<1>2. \A i \in 1..h : s[i] \in S
  BY <1>1
<1>3. 1 \in Int /\ h \in Int
  OBVIOUS
<1>4. /\ SubSeq(s, 1, h) \in Seq(S) /\ Len(SubSeq(s, 1, h)) = IF 1 <= h THEN h - 1 + 1 ELSE 0
  BY <1>2, <1>3, SubSeqProperties
<1>5. \A i \in 1..h : SubSeq(s, 1, h)[i] = s[i]
  BY <1>1
<1> QED
  BY <1>4, <1>5

\* Popping a list of value types pops as many operands.
LEMMA PopAllDoes ==
  ASSUME NEW vm, Sound(vm), NEW ts \in Seq(ValTypes)
  PROVE  Does(vm, PopAll(vm, ts), Len(ts), 0)
<1>1. vm \in Validators /\ Len(ts) \in Nat /\ (ts = <<>> <=> Len(ts) = 0)
  BY ListOfValues DEF Sound
<1>2. CASE ~vm.ok \/ ts = <<>>
  <2>1. PopAll(vm, ts) = vm
    BY <1>2 DEF PopAll
  <2>2. CASE ~vm.ok
    BY <2>1, <2>2, <1>1 DEF Does
  <2>3. CASE ts = <<>>
    BY <2>1, <2>3, <1>1, DoesNothing
  <2> QED
    BY <1>2, <2>2, <2>3
<1>3. CASE vm.ok /\ ts # <<>> /\ vm.control = <<>>
  BY <1>1, <1>3, FailDoes DEF PopAll
<1>4. CASE vm.ok /\ ts # <<>> /\ vm.control # <<>>
  <2>1. Good(vm)
    BY <1>4 DEF Sound
  <2>2. /\ Last(vm.control).height = floor(vm)
        /\ floor(vm) \in Nat /\ floor(vm) <= Len(vm.operands)
    BY <2>1, <1>4, LastFrame
  <2>3. /\ vm.operands \in Seq(OperandTypes) /\ Len(vm.operands) \in Nat
        /\ vm.pops \in Nat /\ vm.pushes \in Nat /\ vm.pops + Len(ts) \in Nat
    BY <1>1, Fields
  <2> DEFINE height == Len(vm.operands)
             found == IF Len(ts) <= height - floor(vm) THEN Len(ts) ELSE height - floor(vm)
             v == [vm EXCEPT !.operands = SubSeq(@, 1, height - found), !.pops = @ + Len(ts)]
  <2>4. PopAll(vm, ts) = v \/ PopAll(vm, ts) = Fail(vm)
    BY <1>4, <2>2 DEF PopAll
  <2>5. height - found \in Nat /\ floor(vm) <= height - found /\ height - found <= height
    BY <2>2, <2>3, <1>1
  <2>6. /\ SubSeq(vm.operands, 1, height - found) \in Seq(OperandTypes)
        /\ Len(SubSeq(vm.operands, 1, height - found)) = height - found
        /\ \A i \in 1..(height - found) : SubSeq(vm.operands, 1, height - found)[i] = vm.operands[i]
    <3> HIDE DEF found
    <3> QED
      BY <2>5, <2>3, PrefixFacts
  <2> HIDE DEF found
  <2>7. v \in Validators
    BY <1>1, <2>3, <2>6 DEF Validators
  <2>8. v.operands = SubSeq(vm.operands, 1, height - found) /\ v.control = vm.control /\ v.inits = vm.inits
    BY <1>1 DEF Validators
  <2>9. v.inited = vm.inited /\ v.ok = vm.ok /\ v.pops = vm.pops + Len(ts) /\ v.pushes = vm.pushes
    BY <1>1 DEF Validators
  <2> HIDE DEF v
  <2>10. \A i \in 1..floor(vm) : v.operands[i] = vm.operands[i]
    BY <2>8, <2>6, <2>5, <2>2
  <2>11. Dead(vm) \/ \A i \in (floor(vm) + 1)..Len(v.operands) : v.operands[i] \in ValTypes
    <3> SUFFICES ASSUME ~Dead(vm), NEW i \in (floor(vm) + 1)..Len(v.operands)
                 PROVE  v.operands[i] \in ValTypes
      OBVIOUS
    <3>1. i \in 1..Len(vm.operands) /\ floor(vm) < i /\ i \in 1..(height - found)
      BY <2>8, <2>6, <2>5, <2>2, <2>3
    <3>2. vm.operands[i] \in ValTypes
      BY <3>1, <2>1, TopIsKnown
    <3> QED
      BY <3>1, <3>2, <2>8, <2>6
  <2>12. floor(vm) <= Len(v.operands) /\ v.pushes = vm.pushes + 0 /\ 0 \in Nat
    BY <2>8, <2>6, <2>5, <2>9, <2>3
  <2>13. Does(vm, v, Len(ts), 0)
    BY <2>1, <1>4, <2>7, <2>8, <2>9, <2>10, <2>11, <2>12, <1>1, OperandChange
  <2> QED
    BY <2>4, <2>13, <1>1, FailDoes
<1> QED
  BY <1>2, <1>3, <1>4

\* Operands that are known, or anything where the code is unreachable.
Pushable(vm, ts) ==
    ts \in Seq(OperandTypes) /\ (vm.ok => Dead(vm) \/ \A i \in 1..Len(ts) : ts[i] \in ValTypes)

\* Appending values to the operands keeps a validator good.
LEMMA AddOperands ==
  ASSUME NEW vm, Good(vm), vm.ok, NEW ts, Pushable(vm, ts), NEW v \in Validators,
         v.operands = vm.operands \o ts,
         v.control = vm.control, v.inits = vm.inits, v.inited = vm.inited,
         NEW p \in Nat, NEW q \in Nat, v.pops = vm.pops + p, v.pushes = vm.pushes + q
  PROVE  Does(vm, v, p, q)
<1>1. vm \in Validators
  BY DEF Good
<1>2. vm.operands \in Seq(OperandTypes) /\ ts \in Seq(OperandTypes)
  BY <1>1, Fields DEF Pushable
<1>3. /\ Len(v.operands) = Len(vm.operands) + Len(ts)
      /\ Len(vm.operands) \in Nat /\ Len(ts) \in Nat
      /\ \A i \in 1..Len(vm.operands) : v.operands[i] = vm.operands[i]
      /\ \A i \in 1..Len(ts) : v.operands[Len(vm.operands) + i] = ts[i]
  BY <1>2, ConcatFacts
<1>4. floor(vm) \in Nat /\ floor(vm) <= Len(vm.operands)
  BY FloorFacts
<1>5. Dead(vm) \/ \A i \in (floor(vm) + 1)..Len(v.operands) : v.operands[i] \in ValTypes
  <2> SUFFICES ASSUME ~Dead(vm), NEW i \in (floor(vm) + 1)..Len(v.operands)
               PROVE  v.operands[i] \in ValTypes
    OBVIOUS
  <2>1. CASE i <= Len(vm.operands)
    <3>1. i \in 1..Len(vm.operands) /\ floor(vm) < i
      BY <2>1, <1>3, <1>4
    <3>2. vm.operands[i] \in ValTypes
      BY <3>1, TopIsKnown
    <3> QED
      BY <3>1, <3>2, <1>3
  <2>2. CASE i > Len(vm.operands)
    <3>1. i - Len(vm.operands) \in 1..Len(ts) /\ Len(vm.operands) + (i - Len(vm.operands)) = i
      BY <2>2, <1>3, <1>4
    <3>2. v.operands[i] = ts[i - Len(vm.operands)]
      BY <3>1, <1>3
    <3> QED
      BY <3>1, <3>2 DEF Pushable
  <2> QED
    BY <2>1, <2>2, <1>3, <1>4
<1>6. floor(vm) <= Len(v.operands) /\ \A i \in 1..floor(vm) : v.operands[i] = vm.operands[i]
  BY <1>3, <1>4
<1> QED
  BY <1>5, <1>6, OperandChange

\* Pushing a list pushes as many operands.
LEMMA PushAllDoes ==
  ASSUME NEW vm, Sound(vm), NEW ts, Pushable(vm, ts)
  PROVE  Does(vm, PushAll(vm, ts), 0, Len(ts))
<1>1. vm \in Validators /\ Len(ts) \in Nat /\ ts \in Seq(OperandTypes)
  BY DEF Sound, Pushable
<1>2. CASE ~vm.ok
  BY <1>1, <1>2 DEF PushAll, Does
<1>3. CASE vm.ok
  <2> DEFINE v == [vm EXCEPT !.operands = @ \o ts, !.pushes = @ + Len(ts)]
  <2>1. PushAll(vm, ts) = v
    BY <1>3 DEF PushAll
  <2>2. vm.operands \o ts \in Seq(OperandTypes) /\ vm.pushes + Len(ts) \in Nat /\ vm.pops \in Nat
    <3>1. vm.operands \in Seq(OperandTypes) /\ vm.pushes \in Nat /\ vm.pops \in Nat
      BY <1>1, Fields
    <3> QED
      BY <3>1, <1>1, ConcatFacts
  <2>3. v \in Validators
    BY <1>1, <2>2 DEF Validators
  <2>4. v.operands = vm.operands \o ts /\ v.control = vm.control /\ v.inits = vm.inits
    BY <1>1 DEF Validators
  <2>5. v.inited = vm.inited /\ v.pops = vm.pops /\ v.pushes = vm.pushes + Len(ts)
    BY <1>1 DEF Validators
  <2> HIDE DEF v
  <2>6. v.pops = vm.pops + 0 /\ 0 \in Nat /\ Good(vm)
    BY <2>5, <2>2, <1>3 DEF Sound
  <2>7. Does(vm, v, 0, Len(ts))
    BY <1>1, <1>3, <2>3, <2>4, <2>5, <2>6, AddOperands
  <2> QED
    BY <2>1, <2>7
<1> QED
  BY <1>1, <1>2, <1>3 DEF Validators

\* Pushing a list of value types.
LEMMA PushValues ==
  ASSUME NEW vm, Sound(vm), NEW ts \in Seq(ValTypes)
  PROVE  Does(vm, PushAll(vm, ts), 0, Len(ts))
<1>1. Pushable(vm, ts)
  BY ListOfValues DEF Pushable
<1> QED
  BY <1>1, PushAllDoes

\* push_operand pushes one operand, unknown only in unreachable code.
LEMMA PushOperandDoes ==
  ASSUME NEW vm, Sound(vm), NEW t \in OperandTypes, vm.ok => Dead(vm) \/ t \in ValTypes
  PROVE  Does(vm, push_operand(vm, t), 0, 1)
<1>1. vm \in Validators
  BY DEF Sound
<1>2. CASE ~vm.ok
  BY <1>1, <1>2 DEF push_operand, Does
<1>3. CASE vm.ok
  <2> DEFINE v == [vm EXCEPT !.operands = Append(@, t), !.pushes = @ + 1]
  <2>1. push_operand(vm, t) = v
    BY <1>3 DEF push_operand
  <2>0. vm.operands \in Seq(OperandTypes) /\ vm.pushes \in Nat /\ vm.pops \in Nat
    BY <1>1, Fields
  <2>2. Append(vm.operands, t) \in Seq(OperandTypes) /\ vm.pushes + 1 \in Nat
    BY <2>0
  <2>3. v \in Validators
    BY <1>1, <2>2 DEF Validators
  <2>4. v.operands = Append(vm.operands, t) /\ v.control = vm.control /\ v.inits = vm.inits
    BY <1>1 DEF Validators
  <2>5. v.inited = vm.inited /\ v.pops = vm.pops /\ v.pushes = vm.pushes + 1
    BY <1>1 DEF Validators
  <2> HIDE DEF v
  <2>6. v.pops = vm.pops + 0 /\ 0 \in Nat /\ 1 \in Nat /\ Good(vm)
    BY <2>5, <2>0, <1>3 DEF Sound
  <2>7. Pushable(vm, <<t>>) /\ v.operands = vm.operands \o <<t>>
    <3>1. <<t>> \in Seq(OperandTypes) /\ Len(<<t>>) = 1 /\ <<t>>[1] = t
      OBVIOUS
    <3>2. Append(vm.operands, t) = vm.operands \o <<t>>
      BY <2>0
    <3> QED
      BY <3>1, <3>2, <2>4, <1>3 DEF Pushable
  <2>8. Does(vm, v, 0, 1)
    BY <1>1, <1>3, <2>3, <2>4, <2>5, <2>6, <2>7, AddOperands
  <2> QED
    BY <2>1, <2>8
<1> QED
  BY <1>1, <1>2, <1>3 DEF Validators

-----------------------------------------------------------------------------
(* Initialised locals: visitors that leave them alone, and the undo log.     *)

\* No local becomes initialised or uninitialised.
Quiet(vm, v) == v.inited = vm.inited

\* A failed check initialises no local.
LEMMA FailQuiet == ASSUME NEW vm \in Validators PROVE Quiet(vm, Fail(vm))
  BY DEF Quiet, Fail, Validators

\* A check initialises no local.
LEMMA RequireQuiet == ASSUME NEW vm \in Validators, NEW cond PROVE Quiet(vm, Require(vm, cond))
  BY FailQuiet DEF Require, Quiet

\* Popping initialises no local.
LEMMA PopAllQuiet == ASSUME NEW vm \in Validators, NEW ts PROVE Quiet(vm, PopAll(vm, ts))
<1>1. \/ PopAll(vm, ts) = vm \/ PopAll(vm, ts) = Fail(vm)
      \/ \E s, n : PopAll(vm, ts) = [vm EXCEPT !.operands = s, !.pops = n]
  BY DEF PopAll
<1>2. ASSUME NEW s, NEW n PROVE [vm EXCEPT !.operands = s, !.pops = n].inited = vm.inited
  BY DEF Validators
<1> QED
  BY <1>1, <1>2, FailQuiet, ZenonT(60) DEF Quiet

\* pop_operand(None) initialises no local.
LEMMA PopAnyQuiet == ASSUME NEW vm \in Validators PROVE Quiet(vm, PopAny(vm))
<1>1. \/ PopAny(vm) = Fail(vm)
      \/ \E n, t : PopAny(vm) = [vm EXCEPT !.popped = t, !.pops = n]
      \/ \E s, n, t : PopAny(vm) = [vm EXCEPT !.operands = s, !.popped = t, !.pops = n]
  BY DEF PopAny
<1>2. ASSUME NEW t, NEW n PROVE [vm EXCEPT !.popped = t, !.pops = n].inited = vm.inited
  BY DEF Validators
<1>3. ASSUME NEW s, NEW n, NEW t PROVE [vm EXCEPT !.operands = s, !.popped = t, !.pops = n].inited = vm.inited
  BY DEF Validators
<1>4. CASE \E n, t : PopAny(vm) = [vm EXCEPT !.popped = t, !.pops = n]
  <2>1. PICK n, t : PopAny(vm) = [vm EXCEPT !.popped = t, !.pops = n]
    BY <1>4
  <2> QED
    BY <2>1, <1>2 DEF Quiet
<1>5. CASE \E s, n, t : PopAny(vm) = [vm EXCEPT !.operands = s, !.popped = t, !.pops = n]
  <2>1. PICK s, n, t : PopAny(vm) = [vm EXCEPT !.operands = s, !.popped = t, !.pops = n]
    BY <1>5
  <2> QED
    BY <2>1, <1>3 DEF Quiet
<1> QED
  BY <1>1, <1>4, <1>5, FailQuiet

\* pop_operand initialises no local.
LEMMA PopOperandQuiet ==
  ASSUME NEW vm, Sound(vm), NEW t PROVE Quiet(vm, pop_operand(vm, t))
<1>1. vm \in Validators /\ PopAny(vm) \in Validators
  BY PopAnyDoes DEF Sound, Does
<1> QED
  BY <1>1, PopAnyQuiet, FailQuiet DEF pop_operand, Quiet

\* What PopAll takes from the stack: as many operands as it is asked for, fewer
\* only in dead code.
LEMMA PopAllTakes ==
  ASSUME NEW vm, Sound(vm), NEW ts \in Seq(ValTypes), NEW v, v = PopAll(vm, ts), v.ok
  PROVE  /\ vm.ok /\ Good(vm) /\ v.control = vm.control /\ v.inits = vm.inits /\ v.inited = vm.inited
         /\ Len(v.operands) \in Nat /\ floor(vm) <= Len(v.operands)
         /\ Len(v.operands) <= Len(vm.operands)
         /\ Len(vm.operands) - Len(v.operands) <= Len(ts)
         /\ v.operands = SubSeq(vm.operands, 1, Len(v.operands))
         /\ Dead(vm) \/ Len(vm.operands) - Len(v.operands) = Len(ts)
<1>1. vm \in Validators /\ Len(ts) \in Nat /\ (ts = <<>> <=> Len(ts) = 0)
  BY ListOfValues DEF Sound
<1>2. vm.ok
  BY <1>1, FailDoes DEF PopAll
<1>3. Good(vm)
  BY <1>2 DEF Sound
<1>4. vm.operands \in Seq(OperandTypes) /\ Len(vm.operands) \in Nat
  BY <1>1, Fields
<1>5. floor(vm) \in Nat /\ floor(vm) <= Len(vm.operands)
  BY <1>3, FloorFacts
<1>6. CASE ts = <<>>
  <2>1. v = vm
    BY <1>6 DEF PopAll
  <2>2. vm.operands = SubSeq(vm.operands, 1, Len(vm.operands))
    BY <1>4
  <2> QED
    BY <2>1, <2>2, <1>6, <1>1, <1>2, <1>3, <1>4, <1>5
<1>7. CASE ts # <<>>
  <2>1. vm.control # <<>>
    BY <1>7, <1>1, <1>2, FailDoes DEF PopAll
  <2>2. Last(vm.control).height = floor(vm) /\ (Dead(vm) <=> Last(vm.control).unreachable)
    BY <2>1, <1>3, LastFrame
  <2> DEFINE height == Len(vm.operands)
             found == IF Len(ts) <= height - floor(vm) THEN Len(ts) ELSE height - floor(vm)
             w == [vm EXCEPT !.operands = SubSeq(@, 1, height - found), !.pops = @ + Len(ts)]
  <2>3. v = w /\ (found = Len(ts) \/ Dead(vm))
    <3>1. ~Fail(vm).ok
      BY <1>1, FailDoes
    <3>2. PopAll(vm, ts) = IF /\ found = Len(ts) \/ Dead(vm)
                              /\ \A i \in 0..(found - 1) : Fits(vm.operands[height - i], ts[Len(ts) - i])
                           THEN w ELSE Fail(vm)
      BY <1>2, <1>7, <2>1, <2>2 DEF PopAll
    <3> HIDE DEF found, w
    <3> QED
      BY <3>1, <3>2
  <2>4. height - found \in Nat /\ floor(vm) <= height - found /\ height - found <= height
        /\ height - (height - found) = found /\ found <= Len(ts)
    BY <1>5, <1>4, <1>1
  <2> HIDE DEF found
  <2>5. Len(SubSeq(vm.operands, 1, height - found)) = height - found
    BY <2>4, <1>4, PrefixFacts
  <2>6. v.operands = SubSeq(vm.operands, 1, height - found) /\ v.control = vm.control /\ v.inits = vm.inits
    BY <1>1, <2>3 DEF Validators
  <2>7. v.inited = vm.inited
    BY <1>1, <2>3 DEF Validators
  <2> HIDE DEF w, height
  <2> QED
    BY <2>3, <2>4, <2>5, <2>6, <2>7, <1>2, <1>3 DEF height
<1> QED
  BY <1>6, <1>7

\* What is pushed on dead code stays pushable.
LEMMA DeadStays ==
  ASSUME NEW vm, NEW v, NEW p, NEW q, vm \in Validators, Does(vm, v, p, q), v.ok, Dead(vm)
  PROVE  Dead(v)
<1>1. v \in Validators /\ SameFrames(vm, v)
  BY DEF Does
<1>2. /\ Len(vm.control) \in Nat /\ Len(vm.control) # 0 /\ Len(v.control) = Len(vm.control)
      /\ (v.control = <<>> <=> Len(v.control) = 0)
  BY <1>1, Fields DEF Dead, SameFrames
<1>3. Len(vm.control) \in 1..Len(vm.control)
  BY <1>2
<1> QED
  BY <1>1, <1>2, <1>3 DEF Dead, SameFrames

\* match_stack_operands pops what it pushes back, and does not count it.
LEMMA MatchDoes ==
  ASSUME NEW vm, Sound(vm), NEW ts \in Seq(ValTypes)
  PROVE  Does(vm, match_stack_operands(vm, ts), 0, 0)
<1> DEFINE v == PopAll(vm, ts)
<1>1. vm \in Validators /\ v \in Validators /\ Len(ts) \in Nat
  BY PopAllDoes, ListOfValues DEF Sound, Does
<1>2. CASE ~v.ok
  BY <1>1, <1>2, FailDoes DEF match_stack_operands
<1>3. CASE v.ok
  <2> DEFINE height == Len(v.operands)
             invented == Len(ts) - (Len(vm.operands) - height)
             bottoms == [i \in 1..invented |-> Bottom]
             rest == SubSeq(vm.operands, height + 1, Len(vm.operands))
             live == v.operands \o bottoms
             new == live \o rest
             w == [vm EXCEPT !.operands = new]
  <2>1. match_stack_operands(vm, ts) = w
    BY <1>3 DEF match_stack_operands
  <2>2. /\ vm.ok /\ Good(vm)
        /\ height \in Nat /\ floor(vm) <= height /\ height <= Len(vm.operands)
        /\ Len(vm.operands) - height <= Len(ts)
        /\ v.operands = SubSeq(vm.operands, 1, height)
        /\ Dead(vm) \/ Len(vm.operands) - height = Len(ts)
    BY <1>3, PopAllTakes
  <2>3. vm.operands \in Seq(OperandTypes) /\ v.operands \in Seq(OperandTypes) /\ Len(vm.operands) \in Nat
        /\ vm.pops \in Nat /\ vm.pushes \in Nat
    BY <1>1, Fields
  <2> HIDE DEF v, height
  <2>4. invented \in Nat /\ floor(vm) \in Nat
    BY <2>2, <2>3, <1>1, FloorFacts
  <2> HIDE DEF invented
  <2>5. bottoms \in Seq(OperandTypes) /\ Len(bottoms) = invented
    BY <2>4, BottomFacts
  <2>6. rest \in Seq(OperandTypes) /\ Len(rest) = Len(vm.operands) - height
        /\ \A i \in 1..(Len(vm.operands) - height) : rest[i] = vm.operands[height + i]
    <3> DEFINE a == height + 1
               b == Len(vm.operands)
    <3>1. a \in Int /\ b \in Int /\ a \in 1..(b + 1)
      BY <2>2, <2>3
    <3>2. \A i \in a..b : vm.operands[i] \in OperandTypes
      BY <2>2, <2>3
    <3> HIDE DEF a, b
    <3>3. /\ SubSeq(vm.operands, a, b) \in Seq(OperandTypes)
          /\ Len(SubSeq(vm.operands, a, b)) = IF a <= b THEN b - a + 1 ELSE 0
      BY <3>1, <3>2, <2>3, SubSeqProperties
    <3>4. \A i \in 1..(b - a + 1) : SubSeq(vm.operands, a, b)[i] = vm.operands[a + i - 1]
      BY <3>1, <2>3, SubSeqProperties DEF b
    <3>5. b - a + 1 = Len(vm.operands) - height /\ (a <= b \/ b - a + 1 = 0)
      BY <2>2, <2>3 DEF a, b
    <3>6. \A i \in 1..(Len(vm.operands) - height) : a + i - 1 = height + i
      BY <2>2, <2>3 DEF a
    <3> QED
      BY <3>3, <3>4, <3>5, <3>6 DEF a, b
  <2> HIDE DEF bottoms, rest
  <2>7. live \in Seq(OperandTypes) /\ new \in Seq(OperandTypes)
    BY <2>3, <2>5, <2>6
  <2>8. Len(live) = height + invented /\ \A i \in 1..height : live[i] = v.operands[i]
    BY <2>3, <2>5, ConcatFacts, ZenonT(60) DEF height
  <2> HIDE DEF live
  <2>9. /\ Len(new) = height + invented + (Len(vm.operands) - height)
        /\ \A i \in 1..(height + invented) : new[i] = live[i]
        /\ \A i \in 1..(Len(vm.operands) - height) : new[height + invented + i] = rest[i]
    <3>1. live \in Seq(OperandTypes) /\ rest \in Seq(OperandTypes)
      BY <2>7, <2>6
    <3>2. /\ Len(live \o rest) = Len(live) + Len(rest)
          /\ \A i \in 1..Len(live) : (live \o rest)[i] = live[i]
          /\ \A i \in 1..Len(rest) : (live \o rest)[Len(live) + i] = rest[i]
      BY <3>1, ConcatFacts
    <3> QED
      BY <3>2, <2>8, <2>6
  <2>10. \A i \in 1..height : v.operands[i] = vm.operands[i]
    BY <2>2, <2>3, PrefixFacts
  <2>11. w \in Validators /\ w.operands = new /\ w.control = vm.control /\ w.inits = vm.inits
    BY <1>1, <2>7 DEF Validators
  <2>12. w.inited = vm.inited /\ w.pops = vm.pops /\ w.pushes = vm.pushes
    BY <1>1 DEF Validators
  <2> HIDE DEF new, w
  <2>13. floor(vm) <= Len(w.operands)
    <3> DEFINE more == Len(vm.operands) - height
    <3>1. more \in Nat
      BY <2>2, <2>3
    <3>2. w.operands = new /\ Len(new) = height + invented + more
      BY <2>9, <2>11
    <3> HIDE DEF more
    <3> QED
      BY <3>1, <3>2, <2>2, <2>4
  <2>14. \A i \in 1..floor(vm) : w.operands[i] = vm.operands[i]
    BY <2>11, <2>8, <2>9, <2>10, <2>2, <2>4
  <2>15. Dead(vm) \/ \A i \in (floor(vm) + 1)..Len(w.operands) : w.operands[i] \in ValTypes
    <3> SUFFICES ASSUME ~Dead(vm), NEW i \in (floor(vm) + 1)..Len(w.operands)
                 PROVE  w.operands[i] \in ValTypes
      OBVIOUS
    <3>1. invented = 0 /\ Len(w.operands) = Len(vm.operands)
      BY <2>2, <2>3, <2>9, <2>11, <1>1 DEF invented
    <3>2. i \in 1..Len(vm.operands) /\ floor(vm) < i
      BY <3>1, <2>4, <2>3
    <3>3. w.operands[i] = vm.operands[i]
      <4>1. CASE i <= height
        <5>1. i \in Nat /\ height \in Nat
          BY <3>2, <2>2, <2>3
        <5>2. i \in 1..height /\ i \in 1..(height + invented)
          BY <4>1, <5>1, <3>1, <3>2
        <5>3. new[i] = live[i]
          BY <5>2, <2>9
        <5>4. live[i] = v.operands[i]
          BY <5>2, <2>8
        <5>5. v.operands[i] = vm.operands[i]
          BY <5>2, <2>10
        <5> QED
          BY <5>3, <5>4, <5>5, <2>11
      <4>2. CASE i > height
        <5>1. i - height \in 1..(Len(vm.operands) - height) /\ height + (i - height) = i
              /\ height + invented + (i - height) = i
          BY <4>2, <3>1, <3>2, <2>2, <2>3
        <5> QED
          BY <5>1, <2>6, <2>9, <2>11
      <4> QED
        BY <4>1, <4>2, <3>2, <2>2
    <3> QED
      BY <3>2, <3>3, <2>2, TopIsKnown
  <2>16. w.pops = vm.pops + 0 /\ w.pushes = vm.pushes + 0 /\ 0 \in Nat
    BY <2>12, <2>3
  <2> QED
    BY <2>1, <2>2, <2>11, <2>12, <2>13, <2>14, <2>15, <2>16, OperandChange
<1> QED
  BY <1>1, <1>2, <1>3 DEF Validators

\* `unreachable` cuts the operands to the height of the innermost frame and marks it.
LEMMA UnreachableDoes ==
  ASSUME NEW vm, Sound(vm)
  PROVE  Does(vm, unreachable(vm), 0, 0)
<1>1. vm \in Validators
  BY DEF Sound
<1>2. CASE ~vm.ok \/ vm.control = <<>>
  BY <1>1, <1>2, FailDoes DEF unreachable
<1>3. CASE vm.ok /\ vm.control # <<>>
  <2> DEFINE n == Len(vm.control)
             c == [vm.control EXCEPT ![n].unreachable = TRUE]
             s == SubSeq(vm.operands, 1, floor(vm))
             v == [vm EXCEPT !.control = c, !.operands = s]
  <2>1. Good(vm)
    BY <1>3 DEF Sound
  <2>2. /\ Last(vm.control).height = floor(vm) /\ floor(vm) \in Nat /\ floor(vm) <= Len(vm.operands)
        /\ n \in 1..n
    BY <2>1, <1>3, LastFrame
  <2>3. unreachable(vm) = v
    BY <1>1, <1>3, <2>2 DEF unreachable, Validators
  <2>4. /\ vm.operands \in Seq(OperandTypes) /\ vm.control \in Seq(Frames) /\ n \in Nat
        /\ vm.pops \in Nat /\ vm.pushes \in Nat /\ Len(vm.inits) \in Nat
        /\ \A f \in 1..n : vm.control[f] \in Frames
    BY <1>1, Fields
  <2>5. s \in Seq(OperandTypes) /\ Len(s) = floor(vm) /\ \A i \in 1..floor(vm) : s[i] = vm.operands[i]
    BY <2>2, <2>4, PrefixFacts
  <2>6. [vm.control[n] EXCEPT !.unreachable = TRUE] \in Frames
    BY <2>2, <2>4 DEF Frames
  <2>7. /\ c \in Seq(Frames) /\ Len(c) = n /\ c # <<>>
        /\ c[n] = [vm.control[n] EXCEPT !.unreachable = TRUE]
        /\ \A f \in 1..n : f # n => c[f] = vm.control[f]
    BY <2>2, <2>4, <2>6
  <2>8. /\ c[n].kind = vm.control[n].kind /\ c[n].block_type = vm.control[n].block_type
        /\ c[n].height = vm.control[n].height /\ c[n].init_height = vm.control[n].init_height
        /\ c[n].unreachable
    BY <2>2, <2>4, <2>7, SMTT(60) DEF Frames
  <2> HIDE DEF c, s
  <2>9. v \in Validators
    BY <1>1, <2>5, <2>7 DEF Validators
  <2>10. v.operands = s /\ v.control = c /\ v.inits = vm.inits /\ v.inited = vm.inited
    BY <1>1 DEF Validators
  <2>11. v.pops = vm.pops /\ v.pushes = vm.pushes
    BY <1>1 DEF Validators
  <2> HIDE DEF v
  <2>12. SameFrames(vm, v)
    <3> SUFFICES ASSUME NEW f \in 1..n
                 PROVE  /\ c[f].kind = vm.control[f].kind
                        /\ c[f].block_type = vm.control[f].block_type
                        /\ c[f].height = vm.control[f].height
                        /\ c[f].init_height = vm.control[f].init_height
                        /\ vm.control[f].unreachable => c[f].unreachable
                        /\ f < n => c[f].unreachable = vm.control[f].unreachable
      BY <2>7, <2>10 DEF SameFrames
    <3>1. CASE f = n
      <4>1. ~(f < n)
        BY <3>1, <2>4
      <4> QED
        BY <3>1, <4>1, <2>8, Zenon
    <3>2. CASE f # n
      BY <3>2, <2>7
    <3> QED
      BY <3>1, <3>2
  <2>13. Dead(v)
    BY <2>7, <2>8, <2>10 DEF Dead
  <2>14. LoggedOnce(v) /\ KeepsInits(vm, v)
    BY <2>1, <2>10, <2>4 DEF Good, LoggedOnce, KeepsInits, Undo
  <2>15. Good(v)
    BY <2>1, <2>9, <2>12, <2>13, <2>14, <2>10, <2>5, <2>2, <2>4, LocalChange
  <2>16. v.pops = vm.pops + 0 /\ v.pushes = vm.pushes + 0
    BY <2>11, <2>4
  <2> QED
    BY <2>3, <2>9, <2>12, <2>14, <2>15, <2>16, <1>3 DEF Does
<1> QED
  BY <1>1, <1>2, <1>3 DEF Validators

\* local.set of an uninitialised local logs it once; no frame's undo changes.
LEMMA SetInitDoes ==
  ASSUME NEW vm, Sound(vm), NEW idx \in Nat
  PROVE  Does(vm, set_init(vm, idx), 0, 0)
<1>1. vm \in Validators
  BY DEF Sound
<1>2. CASE ~vm.ok \/ idx \in vm.inited
  BY <1>2, DoesNothing DEF set_init
<1>3. CASE vm.ok /\ idx \notin vm.inited
  <2> DEFINE v == [vm EXCEPT !.inited = @ \cup {idx}, !.inits = Append(@, idx)]
             n == Len(vm.inits)
  <2>1. set_init(vm, idx) = v
    BY <1>3 DEF set_init
  <2>2. Good(vm)
    BY <1>3 DEF Sound
  <2>3. /\ vm.inits \in Seq(Nat) /\ n \in Nat /\ vm.inited \in SUBSET Nat
        /\ vm.pops \in Nat /\ vm.pushes \in Nat /\ Len(vm.operands) \in Nat
    BY <1>1, Fields
  <2>4. /\ Append(vm.inits, idx) \in Seq(Nat) /\ Len(Append(vm.inits, idx)) = n + 1
        /\ \A j \in 1..n : Append(vm.inits, idx)[j] = vm.inits[j]
        /\ Append(vm.inits, idx)[n + 1] = idx
    BY <2>3
  <2>5. v \in Validators
    BY <1>1, <2>3, <2>4 DEF Validators
  <2>6. v.operands = vm.operands /\ v.control = vm.control /\ v.inits = Append(vm.inits, idx)
    BY <1>1 DEF Validators
  <2>7. v.inited = vm.inited \cup {idx} /\ v.pops = vm.pops /\ v.pushes = vm.pushes
    BY <1>1 DEF Validators
  <2> HIDE DEF v
  <2>8. \A j \in 1..n : vm.inits[j] \in vm.inited /\ vm.inits[j] # idx
    BY <2>2, <1>3 DEF Good, LoggedOnce
  <2>9. LoggedOnce(v)
    <3>1. \A j \in 1..(n + 1) : v.inits[j] \in v.inited
      BY <2>3, <2>4, <2>6, <2>7, <2>8
    <3>2. ASSUME NEW j \in 1..(n + 1), NEW k \in 1..(n + 1), v.inits[j] = v.inits[k] PROVE j = k
      <4>1. CASE j = n + 1 \/ k = n + 1
        BY <3>2, <4>1, <2>3, <2>4, <2>6, <2>8
      <4>2. CASE j # n + 1 /\ k # n + 1
        <5>1. j \in 1..n /\ k \in 1..n
          BY <4>2, <2>3
        <5> QED
          BY <3>2, <5>1, <2>4, <2>6, <2>2 DEF Good, LoggedOnce
      <4> QED
        BY <4>1, <4>2
    <3> QED
      BY <3>1, <3>2, <2>4, <2>6 DEF LoggedOnce
  <2>10. ASSUME NEW h \in 0..n PROVE Undo(v, h) = Undo(vm, h)
    <3>1. {v.inits[j] : j \in (h + 1)..Len(v.inits)} = {vm.inits[j] : j \in (h + 1)..n} \cup {idx}
      <4>1. Len(v.inits) = n + 1 /\ v.inits[n + 1] = idx /\ \A j \in 1..n : v.inits[j] = vm.inits[j]
        BY <2>4, <2>6
      <4>2. \A j \in (h + 1)..(n + 1) : (j \in (h + 1)..n /\ j \in 1..n) \/ j = n + 1
        BY <2>3
      <4>3. n + 1 \in (h + 1)..(n + 1) /\ \A j \in (h + 1)..n : j \in (h + 1)..(n + 1) /\ j \in 1..n
        BY <2>3
      <4> HIDE DEF n
      <4> QED
        BY <4>1, <4>2, <4>3
    <3> QED
      BY <3>1, <2>7, <1>3 DEF Undo
  <2>11. KeepsInits(vm, v)
    BY <2>10, <2>4, <2>6, <2>3 DEF KeepsInits
  <2>12. SameFrames(vm, v) /\ Dead(v) = Dead(vm) /\ n <= Len(v.inits)
    BY <2>4, <2>6, <2>3 DEF SameFrames, Dead
  <2>13. Dead(v) \/ \A i \in (floor(vm) + 1)..Len(v.operands) : v.operands[i] \in ValTypes
    <3> SUFFICES ASSUME ~Dead(vm), NEW i \in (floor(vm) + 1)..Len(vm.operands)
                 PROVE  vm.operands[i] \in ValTypes
      BY <2>6, <2>12
    <3>1. i \in 1..Len(vm.operands) /\ floor(vm) < i
      BY <2>2, <2>3, FloorFacts
    <3> QED
      BY <3>1, <2>2, TopIsKnown
  <2>14. Good(v)
    BY <2>2, <2>5, <2>6, <2>9, <2>12, <2>13, FloorFacts, LocalChange
  <2>15. v.pops = vm.pops + 0 /\ v.pushes = vm.pushes + 0
    BY <2>7, <2>3
  <2> QED
    BY <2>1, <2>5, <2>11, <2>12, <2>14, <2>15, <1>3 DEF Does
<1> QED
  BY <1>1, <1>2, <1>3 DEF Validators

\* The counters put back to what they were before the steps.
LEMMA UncountedDoes ==
  ASSUME NEW vm, NEW v, NEW p, NEW q, vm \in Validators, Does(vm, v, p, q)
  PROVE  Does(vm, Uncounted(v, vm), 0, 0)
<1> DEFINE w == Uncounted(v, vm)
<1>1. v \in Validators /\ vm.pops \in Nat /\ vm.pushes \in Nat
  BY Fields DEF Does
<1>2. w \in Validators
  BY <1>1 DEF Validators, Uncounted
<1>3. w.operands = v.operands /\ w.control = v.control /\ w.inits = v.inits
  BY <1>1 DEF Validators, Uncounted
<1>4. w.inited = v.inited /\ w.ok = v.ok /\ w.pops = vm.pops /\ w.pushes = vm.pushes
  BY <1>1 DEF Validators, Uncounted
<1> HIDE DEF w
<1> SUFFICES ASSUME w.ok
             PROVE  /\ vm.ok /\ Good(w) /\ SameFrames(vm, w) /\ KeepsInits(vm, w)
                    /\ w.pops = vm.pops + 0 /\ w.pushes = vm.pushes + 0
  BY <1>2 DEF Does, w
<1>5. vm.ok /\ Good(v) /\ SameFrames(vm, v) /\ KeepsInits(vm, v)
  BY <1>4 DEF Does
<1>6. Nested(w) /\ LoggedOnce(w)
  BY <1>3, <1>4, <1>5 DEF Good, Nested, LoggedOnce
<1>7. KnownWhereReachable(w)
  BY <1>3, <1>5 DEF Good, KnownWhereReachable, Holds
<1>8. SameFrames(vm, w) /\ KeepsInits(vm, w)
  BY <1>3, <1>4, <1>5 DEF SameFrames, KeepsInits, Undo
<1> QED
  BY <1>1, <1>2, <1>4, <1>5, <1>6, <1>7, <1>8 DEF Good

-----------------------------------------------------------------------------
(* Types and block types: what has been checked is a value type.             *)

\* What the assumptions say of a type of the module.
LEMMA TypeFacts ==
  ASSUME NEW i \in 1..Len(Types)
  PROVE  /\ Types[i] \in SubTypes /\ Types[i].shared \in BOOLEAN
         /\ Types[i].params \in Seq(ValTypes) /\ Types[i].results \in Seq(ValTypes)
         /\ Types[i].fields \in Seq([ty : StorageTypes, mutable : BOOLEAN])
         /\ Len(Types[i].params) \in Nat /\ Len(Types[i].results) \in Nat
         /\ Len(Types[i].fields) \in Nat
         /\ Types[i].kind = "cont" => Types[i].func \in FuncTypeIds
         /\ Types[i].kind = "array" => Len(Types[i].fields) = 1
<1>1. Types[i] \in SubTypes
  BY StackAssumption
<1>2. /\ Types[i].shared \in BOOLEAN
      /\ Types[i].params \in Seq(ValTypes) /\ Types[i].results \in Seq(ValTypes)
      /\ Types[i].fields \in Seq([ty : StorageTypes, mutable : BOOLEAN])
  BY <1>1 DEF SubTypes
<1>3. Len(Types[i].params) \in Nat /\ Len(Types[i].results) \in Nat /\ Len(Types[i].fields) \in Nat
  BY <1>2
<1> QED
  BY <1>1, <1>2, <1>3, StackAssumption

\* A function type, and the arity that sub_type_arity reads from it.
LEMMA FuncFacts ==
  ASSUME NEW i \in FuncTypeIds
  PROVE  /\ i \in 1..Len(Types) /\ Types[i].kind = "func"
         /\ Types[i].params \in Seq(ValTypes) /\ Types[i].results \in Seq(ValTypes)
         /\ Len(Types[i].params) \in Nat /\ Len(Types[i].results) \in Nat
         /\ sub_type_arity(i) = <<Len(Types[i].params), Len(Types[i].results)>>
<1>1. i \in 1..Len(Types) /\ Types[i].kind = "func"
  BY DEF FuncTypeIds
<1> QED
  BY <1>1, TypeFacts DEF sub_type_arity

\* The numeric types are value types.
LEMMA NumbersAreValues ==
  /\ I32 \in ValTypes /\ I64 \in ValTypes /\ F32 \in ValTypes /\ F64 \in ValTypes
  /\ V128 \in ValTypes
  BY DEF I32, I64, F32, F64, V128, Num, ValTypes, ParsedTypes, TypesOfKind, NumKinds, IsRef

\* A reference to a type of the module is a value type.
LEMMA ConcreteIsValue ==
  ASSUME NEW null \in BOOLEAN, NEW i \in 1..Len(Types)
  PROVE  ConcreteRef(null, i) \in ValTypes
<1>1. i \in Nat
  OBVIOUS
<1> QED
  BY <1>1 DEF ConcreteRef, ValTypes, ParsedTypes, TypesOfKind

\* A reference to an abstract heap type is a value type.
LEMMA AbstractIsValue ==
  ASSUME NEW null \in BOOLEAN, NEW shared \in BOOLEAN, NEW heap \in AbstractHeapTypes
  PROVE  AbsRef(null, shared, heap) \in ValTypes
<1>1. heap # "concrete"
  BY DEF AbstractHeapTypes
<1> QED
  BY <1>1 DEF AbsRef, ValTypes, ParsedTypes, TypesOfKind, IsConcrete

\* Changing the nullability keeps a value type a value type.
LEMMA NullChange ==
  ASSUME NEW t \in ValTypes, NEW null \in BOOLEAN
  PROVE  [t EXCEPT !.null = null] \in ValTypes
<1>1. [t EXCEPT !.null = null] \in ParsedTypes
  BY DEF ValTypes, ParsedTypes, TypesOfKind
<1>2. /\ [t EXCEPT !.null = null].k = t.k /\ [t EXCEPT !.null = null].heap = t.heap
      /\ [t EXCEPT !.null = null].id = t.id
  BY DEF ValTypes, ParsedTypes, TypesOfKind
<1> QED
  BY <1>1, <1>2 DEF ValTypes, IsRef, IsConcrete

\* A parsed type that passes check_value_type, or the lookup of check_ref_type, is a value type.
LEMMA CheckedIsValue ==
  ASSUME NEW t \in ParsedTypes, ValueTypeOk(t) \/ (IsRef(t) /\ RefTypeOk(t))
                                \/ (IsConcrete(t) => t.id \in 1..Len(Types))
  PROVE  t \in ValTypes
<1>1. t.k \in NumKinds \cup {"ref"}
  BY DEF ParsedTypes, TypesOfKind
<1>2. IsRef(t) => (IsConcrete(t) => t.id \in 1..Len(Types))
  BY <1>1 DEF ValueTypeOk, RefTypeOk, NumKinds, IsRef
<1> QED
  BY <1>2 DEF ValTypes

\* The results and parameters of a block type.
LEMMA BlockFacts ==
  ASSUME NEW bt \in Blocks
  PROVE  /\ Params(bt) \in Seq(ValTypes) /\ Results(bt) \in Seq(ValTypes)
         /\ Len(Params(bt)) \in Nat /\ Len(Results(bt)) \in Nat
         /\ block_type_arity(bt) = <<Len(Params(bt)), Len(Results(bt))>>
<1>1. CASE bt = NoBlock
  <2>1. Params(bt) = <<>> /\ Results(bt) = <<>> /\ block_type_arity(bt) = <<0, 0>>
    BY <1>1 DEF NoBlock, Params, Results, block_type_arity
  <2> QED
    BY <2>1
<1>2. ASSUME NEW t \in ValTypes, bt = TypeBlock(t)
      PROVE  /\ Params(bt) \in Seq(ValTypes) /\ Results(bt) \in Seq(ValTypes)
             /\ Len(Params(bt)) \in Nat /\ Len(Results(bt)) \in Nat
             /\ block_type_arity(bt) = <<Len(Params(bt)), Len(Results(bt))>>
  <2>1. Params(bt) = <<>> /\ Results(bt) = <<t>> /\ block_type_arity(bt) = <<0, 1>>
    BY <1>2 DEF TypeBlock, Params, Results, block_type_arity
  <2> QED
    BY <2>1
<1>3. ASSUME NEW i \in FuncTypeIds, bt = FuncBlock(i)
      PROVE  /\ Params(bt) \in Seq(ValTypes) /\ Results(bt) \in Seq(ValTypes)
             /\ Len(Params(bt)) \in Nat /\ Len(Results(bt)) \in Nat
             /\ block_type_arity(bt) = <<Len(Params(bt)), Len(Results(bt))>>
  <2>1. /\ Params(bt) = Types[i].params /\ Results(bt) = Types[i].results
        /\ block_type_arity(bt) = sub_type_arity(i)
    BY <1>3 DEF FuncBlock, Params, Results, block_type_arity
  <2> QED
    BY <2>1, FuncFacts
<1> QED
  BY <1>1, <1>2, <1>3 DEF Blocks

\* A block type that the validator accepts is one whose types exist.
LEMMA CheckedBlock ==
  ASSUME NEW bt \in BlockTypes, BlockTypeOk(bt)
  PROVE  bt \in Blocks
<1>1. CASE bt = NoBlock
  BY <1>1 DEF Blocks
<1>2. CASE bt.ty \in ParsedTypes /\ bt = TypeBlock(bt.ty)
  <2>1. bt.k = "type"
    BY <1>2 DEF TypeBlock
  <2>2. bt.ty \in ValTypes
    BY <1>2, <2>1, CheckedIsValue DEF BlockTypeOk
  <2> QED
    BY <1>2, <2>2 DEF Blocks
<1>3. CASE bt.idx \in Nat /\ bt = FuncBlock(bt.idx)
  <2>1. bt.k = "func"
    BY <1>3 DEF FuncBlock
  <2>2. bt.idx \in FuncTypeIds
    BY <2>1 DEF BlockTypeOk, TypeAt, FuncTypeIds
  <2> QED
    BY <1>3, <2>2 DEF Blocks
<1> QED
  BY <1>1, <1>2, <1>3, OperatorAssumption

-----------------------------------------------------------------------------

\* The type that was popped last can be narrowed without another effect.
LEMMA PoppedChange ==
  ASSUME NEW vm, NEW v, NEW p, NEW q, Does(vm, v, p, q), NEW t \in OperandTypes
  PROVE  /\ Does(vm, [v EXCEPT !.popped = t], p, q)
         /\ [v EXCEPT !.popped = t].popped = t /\ [v EXCEPT !.popped = t].ok = v.ok
         /\ [v EXCEPT !.popped = t].control = v.control
<1> DEFINE w == [v EXCEPT !.popped = t]
<1>1. v \in Validators
  BY DEF Does
<1>2. w \in Validators
  BY <1>1 DEF Validators
<1>3. w.operands = v.operands /\ w.control = v.control /\ w.inits = v.inits /\ w.inited = v.inited
  BY <1>1 DEF Validators
<1>4. w.ok = v.ok /\ w.pops = v.pops /\ w.pushes = v.pushes /\ w.popped = t
  BY <1>1 DEF Validators
<1> HIDE DEF w
<1>5. ASSUME w.ok
      PROVE  /\ vm.ok /\ Good(w) /\ SameFrames(vm, w) /\ KeepsInits(vm, w)
             /\ w.pops = vm.pops + p /\ w.pushes = vm.pushes + q
  <2>1. vm.ok /\ Good(v) /\ SameFrames(vm, v) /\ KeepsInits(vm, v)
        /\ v.pops = vm.pops + p /\ v.pushes = vm.pushes + q
    BY <1>4, <1>5 DEF Does
  <2>2. Nested(w) /\ LoggedOnce(w)
    BY <1>3, <2>1 DEF Good, Nested, LoggedOnce
  <2>3. KnownWhereReachable(w)
    BY <1>3, <2>1 DEF Good, KnownWhereReachable, Holds
  <2>4. SameFrames(vm, w) /\ KeepsInits(vm, w)
    BY <1>3, <2>1 DEF SameFrames, KeepsInits, Undo
  <2> QED
    BY <1>2, <1>4, <2>1, <2>2, <2>3, <2>4 DEF Good
<1> QED
  BY <1>2, <1>3, <1>4, <1>5 DEF Does, w

\* MaybeType::Heap is an operand of unknown type.
LEMMA UnknownIsOperand ==
  ASSUME NEW heap \in AbstractHeapTypes \cup {"-"}
  PROVE  UnknownRef(heap) \in OperandTypes /\ UnknownRef(heap).k = "unknown"
<1>1. Bottom \in TypesOfKind({"bottom", "unknown"})
  BY DEF Bottom, TypesOfKind
<1>2. [Bottom EXCEPT !.k = "unknown"] \in TypesOfKind({"bottom", "unknown"})
      /\ [Bottom EXCEPT !.k = "unknown"].k = "unknown"
  BY <1>1 DEF TypesOfKind
<1> DEFINE t == [Bottom EXCEPT !.k = "unknown"]
<1>3. [t EXCEPT !.heap = heap] \in TypesOfKind({"bottom", "unknown"})
      /\ [t EXCEPT !.heap = heap].k = "unknown"
  BY <1>2 DEF TypesOfKind
<1> QED
  BY <1>3 DEF OperandTypes, UnknownRef

\* No value type is of unknown kind.
LEMMA KindOfValue == \A t \in ValTypes : t.k \notin {"bottom", "unknown"}
  BY DEF ValTypes, ParsedTypes, TypesOfKind, NumKinds

\* Narrowing the popped operand to a reference, or failing.
LEMMA AsRefDoes ==
  ASSUME NEW vm, NEW v, NEW p, NEW q, Does(vm, v, p, q), PoppedOK(v)
  PROVE  /\ Does(vm, AsRef(v), p, q) /\ PoppedOK(AsRef(v))
         /\ AsRef(v).ok => AsRef(v).popped.k \in {"unknown", "ref"}
<1>1. v \in Validators
  BY DEF Does
<1>2. CASE ~v.ok
  BY <1>2 DEF AsRef, PoppedOK
<1>3. CASE v.ok /\ v.popped.k = "bottom"
  <2>1. AsRef(v) = [v EXCEPT !.popped = UnknownRef("-")]
    BY <1>3 DEF AsRef, IsRef
  <2>2. UnknownRef("-") \in OperandTypes /\ UnknownRef("-").k = "unknown"
    BY UnknownIsOperand
  <2>3. Dead(v) /\ v.control # <<>>
    BY <1>3, KindOfValue DEF PoppedOK
  <2>4. Dead(AsRef(v)) /\ AsRef(v).control # <<>> /\ AsRef(v).popped = UnknownRef("-")
    BY <2>1, <2>2, <2>3, PoppedChange DEF Dead
  <2>5. Does(vm, AsRef(v), p, q)
    BY <2>1, <2>2, PoppedChange
  <2> QED
    BY <2>2, <2>4, <2>5 DEF PoppedOK
<1>4. CASE v.ok /\ v.popped.k # "bottom" /\ (v.popped.k = "unknown" \/ IsRef(v.popped))
  BY <1>4 DEF AsRef, IsRef
<1>5. CASE v.ok /\ v.popped.k # "bottom" /\ ~(v.popped.k = "unknown" \/ IsRef(v.popped))
  <2>1. AsRef(v) = Fail(v)
    BY <1>5 DEF AsRef
  <2>2. Fail(v) \in Validators /\ ~Fail(v).ok
    BY <1>1, FailDoes DEF Does
  <2> QED
    BY <2>1, <2>2 DEF Does, PoppedOK
<1> QED
  BY <1>2, <1>3, <1>4, <1>5

\* pop_ref(None) pops one reference.
LEMMA PopAnyRefDoes ==
  ASSUME NEW vm, Sound(vm)
  PROVE  /\ Does(vm, pop_any_ref(vm), 1, 0) /\ PoppedOK(pop_any_ref(vm))
         /\ pop_any_ref(vm).ok => pop_any_ref(vm).popped.k \in {"unknown", "ref"}
  BY PopAnyDoes, AsRefDoes DEF pop_any_ref

\* pop_ref pops one reference.
LEMMA PopRefDoes ==
  ASSUME NEW vm, Sound(vm), NEW expected
  PROVE  Does(vm, pop_ref(vm, expected), 1, 0) /\ PoppedOK(pop_ref(vm, expected))
  BY PopOperandDoes, AsRefDoes DEF pop_ref

\* pop_maybe_shared_ref pops one reference.
LEMMA PopMaybeSharedDoes ==
  ASSUME NEW vm, Sound(vm), NEW heap
  PROVE  /\ Does(vm, pop_maybe_shared_ref(vm, heap), 1, 0) /\ PoppedOK(pop_maybe_shared_ref(vm, heap))
         /\ pop_maybe_shared_ref(vm, heap).ok
              => pop_maybe_shared_ref(vm, heap).popped.k \in {"unknown", "ref"}
<1> DEFINE v == pop_any_ref(vm)
<1>1. /\ Does(vm, v, 1, 0) /\ PoppedOK(v)
      /\ v.ok => v.popped.k \in {"unknown", "ref"}
  BY PopAnyRefDoes
<1> HIDE DEF v
<1>2. pop_maybe_shared_ref(vm, heap) = v \/ pop_maybe_shared_ref(vm, heap) = Fail(v)
  BY DEF pop_maybe_shared_ref, Require, v
<1>3. Does(vm, Fail(v), 1, 0) /\ ~Fail(v).ok
  <2>1. Fail(v) \in Validators /\ ~Fail(v).ok
    BY <1>1, FailDoes DEF Does
  <2> QED
    BY <2>1 DEF Does
<1> QED
  BY <1>1, <1>2, <1>3 DEF PoppedOK

\* What replaces a popped operand is known when that operand was.
LEMMA PushPopped ==
  ASSUME NEW vm, NEW v, NEW p \in Nat, NEW q \in Nat, vm \in Validators,
         Does(vm, v, p, q), PoppedOK(v),
         NEW t, v.ok => t \in OperandTypes /\ (v.popped \in ValTypes => t \in ValTypes)
  PROVE  Does(vm, push_operand(v, t), p, q + 1)
<1>1. v \in Validators /\ Sound(v)
  BY DoesIsSound DEF Does
<1>2. CASE ~v.ok
  BY <1>1, <1>2 DEF push_operand, Does
<1>3. CASE v.ok
  <2>1. Does(v, push_operand(v, t), 0, 1)
    BY <1>1, <1>3, PushOperandDoes DEF PoppedOK
  <2>2. Does(vm, push_operand(v, t), p + 0, q + 1)
    BY <2>1, DoesThenDoes
  <2> QED
    BY <2>2
<1> QED
  BY <1>1, <1>2, <1>3 DEF Validators

-----------------------------------------------------------------------------
(* Frames: opening, closing and replacing one.                               *)

\* At most is transitive.
LEMMA AtMost ==
  \A a, b, c \in Nat : a <= b /\ b <= c => a <= c
  OBVIOUS

\* The heights grow from frame to frame.
LEMMA FramesGrow ==
  ASSUME NEW vm, Good(vm), NEW f \in 1..Len(vm.control)
  PROVE  vm.control[f].height <= Len(vm.operands) /\ vm.control[f].init_height <= Len(vm.inits)
<1> DEFINE n == Len(vm.control)
           OK(g) == /\ vm.control[g].height <= Len(vm.operands)
                    /\ vm.control[g].init_height <= Len(vm.inits)
           Above == {d \in 0..n : n - d \in 1..n /\ ~OK(n - d)}
<1>1. /\ n \in Nat /\ Len(vm.operands) \in Nat /\ Len(vm.inits) \in Nat
      /\ \A g \in 1..n : vm.control[g].height \in Nat /\ vm.control[g].init_height \in Nat
  BY Fields DEF Good
<1>2. \A g \in 1..n : IF g = n THEN OK(g)
                      ELSE /\ vm.control[g].height <= vm.control[g + 1].height
                           /\ vm.control[g].init_height <= vm.control[g + 1].init_height
  BY DEF Good, Nested
<1> HIDE DEF n
<1>3. Above = {}
  <2> SUFFICES ASSUME Above # {} PROVE FALSE
    OBVIOUS
  <2>1. PICK d \in Above : \A h \in Above : d <= h
    <3>1. Above \subseteq Nat
      BY <1>1
    <3> HIDE DEF Above
    <3> QED
      BY <3>1, LeastNumber
  <2>2. d \in 0..n /\ n - d \in 1..n /\ ~OK(n - d)
    BY <2>1
  <2>3. CASE d = 0
    BY <2>2, <2>3, <1>1, <1>2
  <2>4. CASE d # 0
    <3>1. d - 1 \in 0..n /\ ~(d <= d - 1) /\ n - (d - 1) = (n - d) + 1 /\ n - d # n
          /\ (n - d) + 1 \in 1..n
      BY <2>2, <2>4, <1>1
    <3>2. OK((n - d) + 1)
      BY <2>1, <3>1
    <3> DEFINE g == n - d
    <3>3. g \in 1..n /\ g + 1 \in 1..n /\ g # n /\ OK(g + 1) /\ ~OK(g)
      BY <2>2, <3>1, <3>2
    <3> HIDE DEF g
    <3>4. vm.control[g].height <= vm.control[g + 1].height /\ vm.control[g + 1].height <= Len(vm.operands)
          /\ vm.control[g].init_height <= vm.control[g + 1].init_height
          /\ vm.control[g + 1].init_height <= Len(vm.inits)
      BY <3>3, <1>2
    <3>5. /\ vm.control[g].height \in Nat /\ vm.control[g + 1].height \in Nat
          /\ vm.control[g].init_height \in Nat /\ vm.control[g + 1].init_height \in Nat
      BY <3>3, <1>1
    <3>7. vm.control[g].height <= Len(vm.operands)
      BY <3>4, <3>5, <1>1, AtMost
    <3>8. vm.control[g].init_height <= Len(vm.inits)
      BY <3>4, <3>5, <1>1, AtMost
    <3> QED
      BY <3>3, <3>7, <3>8
  <2> QED
    BY <2>3, <2>4
<1>4. n - f \in 0..n /\ n - (n - f) = f
  BY <1>1 DEF n
<1> QED
  BY <1>3, <1>4 DEF n

\* The first m frames are the same, and cutting the undo log to where one of them
\* starts gives the same locals.
KeepsFrames(vm, v, m) ==
    \A f \in 1..m :
        /\ v.control[f].kind = vm.control[f].kind
        /\ v.control[f].block_type = vm.control[f].block_type
        /\ v.control[f].height = vm.control[f].height
        /\ v.control[f].init_height = vm.control[f].init_height
        /\ Undo(v, v.control[f].init_height) = Undo(vm, vm.control[f].init_height)

\* A visitor that opens a frame, one that closes the innermost one, and one that
\* replaces it by the next part of the same block.
Opened(vm, v, p, q) ==
    /\ v \in Validators
    /\ v.ok => LET n == Len(vm.control)
               IN  /\ vm.ok /\ Good(v) /\ Len(v.control) = n + 1 /\ KeepsFrames(vm, v, n)
                   /\ Undo(v, v.control[n + 1].init_height) = vm.inited
                   /\ v.pops = vm.pops + p /\ v.pushes = vm.pushes + q

Left(vm, v) ==
    LET n == Len(vm.control)
    IN  /\ vm.ok /\ Good(v) /\ vm.control # <<>> /\ KeepsFrames(vm, v, n - 1)
        /\ v.inited = Undo(vm, vm.control[n].init_height)

Closed(vm, v, p, q) ==
    /\ v \in Validators
    /\ v.ok => LET n == Len(vm.control)
               IN  /\ Left(vm, v) /\ Len(v.control) = n - 1
                   /\ vm.control[n].height = 0
                        => v.operands = Results(vm.control[n].block_type)
                   /\ v.pops = vm.pops + p /\ v.pushes = vm.pushes + q

Reopened(vm, v, p, q) ==
    /\ v \in Validators
    /\ v.ok => LET n == Len(vm.control)
               IN  /\ Left(vm, v) /\ Len(v.control) = n
                   /\ vm.control[n].kind # "Block"
                   /\ Undo(v, v.control[n].init_height) = Undo(vm, vm.control[n].init_height)
                   /\ v.pops = vm.pops + p /\ v.pushes = vm.pushes + q

\* What pop_ctrl leaves, before the results are pushed.
Popped(vm, v, p, q) ==
    /\ v \in Validators
    /\ v.ok => LET n == Len(vm.control)
               IN  /\ Left(vm, v) /\ Len(v.control) = n - 1
                   /\ Len(v.operands) = vm.control[n].height
                   /\ v.pops = vm.pops + p /\ v.pushes = vm.pushes + q

\* A step within the innermost frame keeps every frame and what its end would undo.
LEMMA DoesKeepsFrames ==
  ASSUME NEW vm, NEW v, NEW p, NEW q, vm \in Validators, Does(vm, v, p, q), v.ok, Good(vm)
  PROVE  KeepsFrames(vm, v, Len(vm.control))
<1> SUFFICES ASSUME NEW f \in 1..Len(vm.control)
             PROVE  /\ v.control[f].kind = vm.control[f].kind
                    /\ v.control[f].block_type = vm.control[f].block_type
                    /\ v.control[f].height = vm.control[f].height
                    /\ v.control[f].init_height = vm.control[f].init_height
                    /\ Undo(v, v.control[f].init_height) = Undo(vm, vm.control[f].init_height)
  BY DEF KeepsFrames
<1>1. SameFrames(vm, v) /\ KeepsInits(vm, v)
  BY DEF Does
<1>2. vm.control[f].init_height <= Len(vm.inits) /\ vm.control[f].init_height \in Nat /\ Len(vm.inits) \in Nat
  BY FramesGrow, Fields
<1>3. vm.control[f].init_height \in 0..Len(vm.inits)
  BY <1>2
<1>4. Undo(v, vm.control[f].init_height) = Undo(vm, vm.control[f].init_height)
  BY <1>1, <1>3 DEF KeepsInits
<1> QED
  BY <1>1, <1>4 DEF SameFrames

\* Frames that two steps keep, they keep together.
LEMMA KeepsTwice ==
  ASSUME NEW a, NEW b, NEW c, NEW m \in Nat, NEW k \in Nat, m <= k,
         KeepsFrames(a, b, m), KeepsFrames(b, c, k)
  PROVE  KeepsFrames(a, c, m)
<1>1. \A f \in 1..m : f \in 1..k
  OBVIOUS
<1> QED
  BY <1>1 DEF KeepsFrames

\* Opening a frame and then working in it is opening a frame.
LEMMA OpenedThenDoes ==
  ASSUME NEW vm \in Validators, NEW w, NEW v, NEW p \in Nat, NEW q \in Nat, NEW r \in Nat, NEW s \in Nat,
         Opened(vm, w, p, q), Does(w, v, r, s)
  PROVE  Opened(vm, v, p + r, q + s)
<1>1. w \in Validators /\ v \in Validators
  BY DEF Opened, Does
<1> SUFFICES ASSUME v.ok
             PROVE  /\ vm.ok /\ Good(v) /\ Len(v.control) = Len(vm.control) + 1
                    /\ KeepsFrames(vm, v, Len(vm.control))
                    /\ Undo(v, v.control[Len(vm.control) + 1].init_height) = vm.inited
                    /\ v.pops = vm.pops + (p + r) /\ v.pushes = vm.pushes + (q + s)
  BY <1>1 DEF Opened
<1>2. w.ok /\ Good(v) /\ SameFrames(w, v) /\ v.pops = w.pops + r /\ v.pushes = w.pushes + s
  BY DEF Does
<1>3. /\ vm.ok /\ Good(w) /\ Len(w.control) = Len(vm.control) + 1 /\ KeepsFrames(vm, w, Len(vm.control))
      /\ Undo(w, w.control[Len(vm.control) + 1].init_height) = vm.inited
      /\ w.pops = vm.pops + p /\ w.pushes = vm.pushes + q
  BY <1>2 DEF Opened
<1>4. KeepsFrames(w, v, Len(w.control))
  BY <1>1, <1>3, DoesKeepsFrames
<1>5. Len(vm.control) \in Nat /\ vm.pops \in Nat /\ vm.pushes \in Nat
  BY Fields
<1>6. KeepsFrames(vm, v, Len(vm.control))
  <2>1. Len(vm.control) + 1 \in Nat /\ Len(vm.control) <= Len(vm.control) + 1
    BY <1>5
  <2> QED
    BY <1>3, <1>4, <1>5, <2>1, KeepsTwice
<1>7. Len(vm.control) + 1 \in 1..Len(w.control)
  BY <1>3, <1>5
<1>8. Undo(v, v.control[Len(vm.control) + 1].init_height) = Undo(w, w.control[Len(vm.control) + 1].init_height)
  BY <1>4, <1>7 DEF KeepsFrames
<1>9. Len(v.control) = Len(w.control)
  BY <1>2 DEF SameFrames
<1> QED
  BY <1>2, <1>3, <1>5, <1>6, <1>8, <1>9

\* A step that initialises nothing, and then opening a frame, is opening a frame.
LEMMA DoesThenOpened ==
  ASSUME NEW vm \in Validators, NEW w, NEW v, NEW p \in Nat, NEW q \in Nat, NEW r \in Nat, NEW s \in Nat,
         Sound(vm), Does(vm, w, p, q), Quiet(vm, w), Opened(w, v, r, s)
  PROVE  Opened(vm, v, p + r, q + s)
<1>1. w \in Validators /\ v \in Validators
  BY DEF Opened, Does
<1> SUFFICES ASSUME v.ok
             PROVE  /\ vm.ok /\ Good(v) /\ Len(v.control) = Len(vm.control) + 1
                    /\ KeepsFrames(vm, v, Len(vm.control))
                    /\ Undo(v, v.control[Len(vm.control) + 1].init_height) = vm.inited
                    /\ v.pops = vm.pops + (p + r) /\ v.pushes = vm.pushes + (q + s)
  BY <1>1 DEF Opened
<1>2. /\ w.ok /\ Good(v) /\ Len(v.control) = Len(w.control) + 1 /\ KeepsFrames(w, v, Len(w.control))
      /\ Undo(v, v.control[Len(w.control) + 1].init_height) = w.inited
      /\ v.pops = w.pops + r /\ v.pushes = w.pushes + s
  BY DEF Opened
<1>3. vm.ok /\ SameFrames(vm, w) /\ w.pops = vm.pops + p /\ w.pushes = vm.pushes + q
  BY <1>2 DEF Does
<1>4. KeepsFrames(vm, w, Len(vm.control))
  BY <1>2, <1>3, DoesKeepsFrames DEF Sound
<1>5. Len(vm.control) \in Nat /\ vm.pops \in Nat /\ vm.pushes \in Nat /\ Len(w.control) = Len(vm.control)
  BY <1>3, Fields DEF SameFrames
<1>6. KeepsFrames(vm, v, Len(vm.control))
  BY <1>2, <1>4, <1>5, KeepsTwice
<1> QED
  BY <1>2, <1>3, <1>5, <1>6, SMTT(60) DEF Quiet

\* OpenFrame opens a frame at the present height.
LEMMA OpenFrameOpens ==
  ASSUME NEW vm, Sound(vm), NEW kind \in FrameKinds, NEW bt \in Blocks,
         NEW v, v = OpenFrame(vm, kind, bt)
  PROVE  /\ Opened(vm, v, 0, 0)
         /\ v.ok => v.control[Len(vm.control) + 1].height = Len(vm.operands)
<1>1. vm \in Validators
  BY DEF Sound
<1>2. CASE ~vm.ok
  BY <1>1, <1>2 DEF OpenFrame, Opened
<1>3. CASE vm.ok
  <2> DEFINE n == Len(vm.control)
             frame == Frame(kind, bt, Len(vm.operands), Len(vm.inits))
             c == Append(vm.control, frame)
             w == [vm EXCEPT !.control = c]
  <2>1. v = w
    BY <1>3 DEF OpenFrame
  <2>2. /\ n \in Nat /\ vm.control \in Seq(Frames) /\ Len(vm.operands) \in Nat /\ Len(vm.inits) \in Nat
        /\ vm.inits \in Seq(Nat) /\ vm.pops \in Nat /\ vm.pushes \in Nat /\ vm.inited \in SUBSET Nat
    BY <1>1, Fields
  <2>3. frame \in Frames /\ frame.height = Len(vm.operands) /\ frame.init_height = Len(vm.inits)
    BY <2>2 DEF Frame, Frames
  <2> HIDE DEF frame
  <2>4. /\ c \in Seq(Frames) /\ Len(c) = n + 1 /\ c[n + 1] = frame
        /\ \A f \in 1..n : c[f] = vm.control[f]
    BY <2>2, <2>3
  <2> HIDE DEF c
  <2>5. w \in Validators
    BY <1>1, <2>4 DEF Validators
  <2>6. w.operands = vm.operands /\ w.control = c /\ w.inits = vm.inits /\ w.inited = vm.inited
    BY <1>1 DEF Validators
  <2>7. w.ok /\ w.pops = vm.pops /\ w.pushes = vm.pushes
    BY <1>1, <1>3 DEF Validators
  <2> HIDE DEF w
  <2>8. Good(vm)
    BY <1>3 DEF Sound
  <2>9. Nested(w)
    <3> SUFFICES ASSUME NEW f \in 1..(n + 1)
                 PROVE  /\ c[f].height <= IF f = n + 1 THEN Len(vm.operands) ELSE c[f + 1].height
                        /\ c[f].init_height <= IF f = n + 1 THEN Len(vm.inits) ELSE c[f + 1].init_height
      BY <2>4, <2>6 DEF Nested
    <3>1. CASE f = n + 1
      BY <3>1, <2>2, <2>3, <2>4
    <3>2. CASE f = n
      <4>1. f \in 1..n /\ f # n + 1
        BY <3>2, <2>2
      <4>2. vm.control[f].height <= Len(vm.operands) /\ vm.control[f].init_height <= Len(vm.inits)
        BY <4>1, <2>8, FramesGrow
      <4> QED
        BY <3>2, <4>1, <4>2, <2>3, <2>4
    <3>3. CASE f # n /\ f # n + 1
      <4>1. f \in 1..n /\ f + 1 \in 1..n
        BY <3>3, <2>2
      <4>2. /\ vm.control[f].height <= vm.control[f + 1].height
            /\ vm.control[f].init_height <= vm.control[f + 1].init_height
        BY <4>1, <3>3, <2>8 DEF Good, Nested
      <4> QED
        BY <3>3, <4>1, <4>2, <2>4
    <3> QED
      BY <3>1, <3>2, <3>3
  <2>10. KnownWhereReachable(w)
    <3> SUFFICES ASSUME NEW f \in 0..(n + 1), NEW i \in 1..Len(vm.operands), Holds(w, f, i),
                        f = 0 \/ ~c[f].unreachable
                 PROVE  vm.operands[i] \in ValTypes
      BY <2>4, <2>6 DEF KnownWhereReachable
    <3>1. f # n + 1
      <4> SUFFICES ASSUME f = n + 1 PROVE FALSE
        OBVIOUS
      <4>1. c[f].height < i
        BY <2>2, <2>6 DEF Holds
      <4> QED
        BY <4>1, <2>2, <2>3, <2>4
    <3>2. f \in 0..n
      BY <3>1, <2>2
    <3>3. Holds(vm, f, i)
      <4>1. f = 0 \/ vm.control[f].height < i
        <5>1. CASE f = 0
          BY <5>1
        <5>2. CASE f # 0
          <6>1. f \in 1..n /\ c[f].height < i
            BY <5>2, <3>2, <2>2, <2>6 DEF Holds
          <6> QED
            BY <6>1, <2>4
        <5> QED
          BY <5>1, <5>2
      <4>2. f = n \/ i <= vm.control[f + 1].height
        <5>1. CASE f = n
          BY <5>1
        <5>2. CASE f # n
          <6>1. f + 1 \in 1..n /\ i <= c[f + 1].height
            BY <5>2, <3>1, <3>2, <2>2, <2>4, <2>6 DEF Holds
          <6> QED
            BY <6>1, <2>4
        <5> QED
          BY <5>1, <5>2
      <4> QED
        BY <4>1, <4>2 DEF Holds
    <3>4. f = 0 \/ ~vm.control[f].unreachable
      BY <3>2, <2>2, <2>4
    <3> QED
      BY <3>2, <3>3, <3>4, <2>8 DEF Good, KnownWhereReachable
  <2>11. Good(w)
    BY <2>5, <2>6, <2>8, <2>9, <2>10 DEF Good, LoggedOnce
  <2>12. KeepsFrames(vm, w, n)
    BY <2>4, <2>6 DEF KeepsFrames, Undo
  <2>13. Undo(w, c[n + 1].init_height) = vm.inited
    <3>1. \A j \in (Len(vm.inits) + 1)..Len(vm.inits) : FALSE
      BY <2>2
    <3>2. c[n + 1].init_height = Len(vm.inits)
      BY <2>3, <2>4
    <3> QED
      BY <3>1, <3>2, <2>6 DEF Undo
  <2>14. w.pops = vm.pops + 0 /\ w.pushes = vm.pushes + 0
    BY <2>7, <2>2
  <2>15. Opened(vm, w, 0, 0)
    BY <2>4, <2>5, <2>6, <2>11, <2>12, <2>13, <2>14, <1>3 DEF Opened
  <2> QED
    BY <2>1, <2>3, <2>4, <2>6, <2>15
<1> QED
  BY <1>1, <1>2, <1>3 DEF Validators

\* push_ctrl opens a frame and pushes the parameters of its block.
LEMMA PushCtrlOpens ==
  ASSUME NEW vm, Sound(vm), NEW kind \in FrameKinds, NEW bt \in Blocks,
         NEW v, v = push_ctrl(vm, kind, bt)
  PROVE  /\ Opened(vm, v, 0, Len(Params(bt)))
         /\ v.ok => v.control[Len(vm.control) + 1].height = Len(vm.operands)
<1> DEFINE w == OpenFrame(vm, kind, bt)
<1>1. /\ Opened(vm, w, 0, 0) /\ vm \in Validators
      /\ w.ok => w.control[Len(vm.control) + 1].height = Len(vm.operands)
  BY OpenFrameOpens DEF Sound
<1>2. Sound(w)
  BY <1>1 DEF Opened, Sound
<1>3. v = PushAll(w, Params(bt))
  BY DEF push_ctrl
<1> HIDE DEF w
<1>4. Does(w, v, 0, Len(Params(bt))) /\ Len(Params(bt)) \in Nat
  BY <1>2, <1>3, BlockFacts, PushValues
<1>5. Opened(vm, v, 0 + 0, 0 + Len(Params(bt)))
  BY <1>1, <1>4, OpenedThenDoes
<1>6. ASSUME v.ok PROVE v.control[Len(vm.control) + 1].height = Len(vm.operands)
  <2>1. w.ok /\ SameFrames(w, v) /\ Len(w.control) = Len(vm.control) + 1
    BY <1>6, <1>1, <1>4 DEF Does, Opened
  <2>2. Len(vm.control) \in Nat
    BY <1>1, Fields
  <2>3. Len(vm.control) + 1 \in 1..Len(w.control)
    BY <2>1, <2>2
  <2> QED
    BY <2>1, <2>3, <1>1 DEF SameFrames
<1> QED
  BY <1>4, <1>5, <1>6

\* Cutting the undo log to h is what undoes the later initialisations.
LEMMA ResetFacts ==
  ASSUME NEW vm, Good(vm), NEW h \in Nat, h <= Len(vm.inits),
         floor(vm) <= Len(vm.operands), NEW v, v = reset_inits(vm, h)
  PROVE  /\ v \in Validators /\ v.operands = vm.operands /\ v.control = vm.control
         /\ v.pops = vm.pops /\ v.pushes = vm.pushes /\ v.ok = vm.ok
         /\ v.inits = SubSeq(vm.inits, 1, h) /\ Len(v.inits) = h
         /\ v.inited = Undo(vm, h) /\ LoggedOnce(v)
         /\ \A k \in 0..h : Undo(v, k) = Undo(vm, k)
<1> DEFINE n == Len(vm.inits)
           gone == {vm.inits[i] : i \in (h + 1)..n}
           cut == SubSeq(vm.inits, 1, h)
<1>1. vm \in Validators
  BY DEF Good
<1>2. n \in Nat /\ vm.inits \in Seq(Nat) /\ vm.inited \in SUBSET Nat
  BY <1>1, Fields
<1>3. cut \in Seq(Nat) /\ Len(cut) = h /\ \A i \in 1..h : cut[i] = vm.inits[i]
  BY <1>2, PrefixFacts
<1>4. v = [vm EXCEPT !.inited = @ \ gone, !.inits = cut]
  BY DEF reset_inits
<1>5. v \in Validators
  BY <1>1, <1>2, <1>3, <1>4 DEF Validators
<1>6. v.operands = vm.operands /\ v.control = vm.control /\ v.inits = cut
  BY <1>1, <1>4 DEF Validators
<1>7. v.inited = vm.inited \ gone /\ v.ok = vm.ok /\ v.pops = vm.pops /\ v.pushes = vm.pushes
  BY <1>1, <1>4 DEF Validators
<1>8. v.inited = Undo(vm, h)
  BY <1>7 DEF Undo
<1> HIDE DEF gone, cut
<1>9. LoggedOnce(v)
  <2>1. ASSUME NEW j \in 1..h PROVE cut[j] \in v.inited
    <3>1. cut[j] = vm.inits[j] /\ j \in 1..n /\ vm.inits[j] \in vm.inited
      BY <1>2, <1>3 DEF Good, LoggedOnce
    <3>2. \A i \in (h + 1)..n : i \in 1..n /\ i # j
      BY <1>2
    <3>3. \A i \in (h + 1)..n : vm.inits[i] # vm.inits[j]
      BY <3>1, <3>2 DEF Good, LoggedOnce
    <3> QED
      BY <3>1, <3>3, <1>7 DEF gone
  <2>2. ASSUME NEW j \in 1..h, NEW k \in 1..h, cut[j] = cut[k] PROVE j = k
    <3>1. j \in 1..n /\ k \in 1..n /\ vm.inits[j] = vm.inits[k]
      BY <2>2, <1>2, <1>3, SMTT(60)
    <3> QED
      BY <3>1 DEF Good, LoggedOnce
  <2> QED
    BY <2>1, <2>2, <1>3, <1>6 DEF LoggedOnce
<1>10. ASSUME NEW k \in 0..h PROVE Undo(v, k) = Undo(vm, k)
  <2>1. {cut[j] : j \in (k + 1)..h} \cup gone = {vm.inits[j] : j \in (k + 1)..n}
    <3>1. ASSUME NEW j \in (k + 1)..h PROVE cut[j] = vm.inits[j] /\ j \in (k + 1)..n
      BY <1>2, <1>3
    <3>2. \A j \in (h + 1)..n : j \in (k + 1)..n
      BY <1>2
    <3>3. \A j \in (k + 1)..n : j \in (k + 1)..h \/ j \in (h + 1)..n
      BY <1>2
    <3> HIDE DEF n
    <3> QED
      BY <3>1, <3>2, <3>3 DEF gone
  <2> DEFINE X == {cut[j] : j \in (k + 1)..h}
             Y == {vm.inits[j] : j \in (k + 1)..n}
  <2>2. Undo(v, k) = v.inited \ X /\ Undo(vm, k) = vm.inited \ Y
    BY <1>3, <1>6 DEF Undo
  <2>3. X \cup gone = Y
    BY <2>1
  <2> HIDE DEF X, Y
  <2> QED
    BY <2>2, <2>3, <1>7
<1> QED
  BY <1>3, <1>5, <1>6, <1>7, <1>8, <1>9, <1>10 DEF cut

\* The innermost frame's block type and its results.
Innermost(vm) == vm.control[Len(vm.control)]
ResultCount(vm) == Len(Results(Innermost(vm).block_type))
ParamCount(vm) == Len(Params(Innermost(vm).block_type))

\* The innermost frame and the types of its block.
LEMMA InnermostFacts ==
  ASSUME NEW vm, vm \in Validators, vm.control # <<>>
  PROVE  /\ Len(vm.control) \in 1..Len(vm.control) /\ Last(vm.control) = Innermost(vm)
         /\ Innermost(vm) \in Frames /\ Innermost(vm).block_type \in Blocks
         /\ Innermost(vm).height \in Nat /\ Innermost(vm).init_height \in Nat
         /\ Len(vm.control) - 1 \in Nat
         /\ Results(Innermost(vm).block_type) \in Seq(ValTypes)
         /\ Params(Innermost(vm).block_type) \in Seq(ValTypes)
         /\ ResultCount(vm) \in Nat /\ ParamCount(vm) \in Nat
<1>1. Len(vm.control) \in Nat /\ Len(vm.control) # 0
  BY Fields
<1>2. Len(vm.control) \in 1..Len(vm.control) /\ Len(vm.control) - 1 \in Nat
  BY <1>1
<1>3. /\ Innermost(vm) \in Frames /\ Innermost(vm).block_type \in Blocks
      /\ Innermost(vm).height \in Nat /\ Innermost(vm).init_height \in Nat
  BY <1>2, Fields DEF Innermost
<1>4. /\ Results(Innermost(vm).block_type) \in Seq(ValTypes)
      /\ Params(Innermost(vm).block_type) \in Seq(ValTypes)
      /\ ResultCount(vm) \in Nat /\ ParamCount(vm) \in Nat
  BY <1>3, BlockFacts DEF ResultCount, ParamCount
<1> QED
  BY <1>2, <1>3, <1>4 DEF Last, Innermost

\* Locals::reset of inits at the end of a frame undoes what was initialised in it.
LEMMA ResetIsGood ==
  ASSUME NEW vm, Good(vm), vm.ok, vm.control # <<>>,
         NEW u, u = reset_inits(vm, Innermost(vm).init_height)
  PROVE  /\ Good(u) /\ u.ok /\ u.control = vm.control /\ u.operands = vm.operands
         /\ Len(u.inits) = Innermost(vm).init_height
         /\ u.inited = Undo(vm, Innermost(vm).init_height)
         /\ u.pops = vm.pops /\ u.pushes = vm.pushes
         /\ \A k \in 0..Innermost(vm).init_height : Undo(u, k) = Undo(vm, k)
<1> DEFINE n == Len(vm.control)
           h == Innermost(vm).init_height
<1>1. vm \in Validators
  BY DEF Good
<1>2. n \in 1..n /\ h \in Nat
  BY <1>1, InnermostFacts
<1>3. h <= Len(vm.inits)
  BY <1>2, FramesGrow DEF Innermost
<1>0. u = reset_inits(vm, h) /\ floor(vm) <= Len(vm.operands)
  BY FloorFacts
<1> HIDE DEF h, n
<1>4. /\ u \in Validators /\ u.operands = vm.operands /\ u.control = vm.control
      /\ u.pops = vm.pops /\ u.pushes = vm.pushes /\ u.ok = vm.ok
      /\ u.inits = SubSeq(vm.inits, 1, h) /\ Len(u.inits) = h
      /\ u.inited = Undo(vm, h) /\ LoggedOnce(u)
      /\ \A k \in 0..h : Undo(u, k) = Undo(vm, k)
  BY <1>0, <1>2, <1>3, ResetFacts
<1> USE DEF h, n
<1>5. Nested(u)
  <2> SUFFICES ASSUME NEW f \in 1..n
               PROVE  /\ vm.control[f].height <= IF f = n THEN Len(vm.operands) ELSE vm.control[f + 1].height
                      /\ vm.control[f].init_height <= IF f = n THEN h ELSE vm.control[f + 1].init_height
    BY <1>4 DEF Nested
  <2>1. CASE f = n
    <3>1. vm.control[f].init_height <= h
      BY <2>1, <1>2 DEF Innermost
    <3>2. vm.control[f].height <= Len(vm.operands)
      BY <2>1, <1>2, FramesGrow
    <3> QED
      BY <2>1, <3>1, <3>2
  <2>2. CASE f # n
    BY <2>2 DEF Good, Nested
  <2> QED
    BY <2>1, <2>2
<1>6. KnownWhereReachable(u)
  BY <1>4 DEF Good, KnownWhereReachable, Holds
<1> QED
  BY <1>4, <1>5, <1>6 DEF Good

\* pop_ctrl pops the results of the innermost block, needs the stack to be at its height then,
\* and undoes the locals initialised in it.
LEMMA PopCtrlPops ==
  ASSUME NEW vm, Sound(vm), NEW v, v = pop_ctrl(vm)
  PROVE  Popped(vm, v, ResultCount(vm), 0)
<1>1. vm \in Validators
  BY DEF Sound
<1>2. CASE ~vm.ok \/ vm.control = <<>>
  <2>1. v = Fail(vm)
    BY <1>2 DEF pop_ctrl
  <2> QED
    BY <2>1, <1>1, FailDoes DEF Popped, Does
<1>3. CASE vm.ok /\ vm.control # <<>>
  <2> DEFINE n == Len(vm.control)
             frame == Innermost(vm)
             ts == Results(frame.block_type)
             u == reset_inits(vm, frame.init_height)
             w == PopAll(u, ts)
             x == [w EXCEPT !.control = Front(@)]
  <2>1. /\ n \in 1..n /\ n - 1 \in Nat /\ Last(vm.control) = frame /\ ts \in Seq(ValTypes)
        /\ frame.init_height \in Nat /\ frame.height \in Nat
        /\ Len(ts) = ResultCount(vm) /\ Len(ts) \in Nat
    BY <1>1, <1>3, InnermostFacts DEF ResultCount
  <2>2. v = IF w.ok /\ Len(w.operands) = frame.height THEN x ELSE Fail(w)
    BY <1>3, <2>1 DEF pop_ctrl
  <2>3. Good(vm)
    BY <1>3 DEF Sound
  <2>4. /\ Good(u) /\ u.ok /\ u.control = vm.control
        /\ Len(u.inits) = frame.init_height
        /\ u.inited = Undo(vm, frame.init_height)
        /\ u.pops = vm.pops /\ u.pushes = vm.pushes
        /\ \A k \in 0..frame.init_height : Undo(u, k) = Undo(vm, k)
    BY <1>3, <2>3, ResetIsGood
  <2>5. Sound(u)
    BY <2>4 DEF Good, Sound
  <2> HIDE DEF frame, ts, u
  <2>6. Does(u, w, Len(ts), 0)
    BY <2>1, <2>5, PopAllDoes
  <2>7. w \in Validators
    BY <2>6 DEF Does
  <2>8. CASE ~(w.ok /\ Len(w.operands) = frame.height)
    <3>1. v = Fail(w)
      BY <2>2, <2>8
    <3> HIDE DEF w
    <3> QED
      BY <3>1, <2>7, FailDoes DEF Popped, Does
  <2>9. CASE w.ok /\ Len(w.operands) = frame.height
    <3>1. v = x
      BY <2>2, <2>9
    <3>2. w.control = u.control /\ w.inits = u.inits /\ w.inited = u.inited
      BY <2>1, <2>5, <2>9, PopAllTakes
    <3> HIDE DEF w
    <3>3. Good(w) /\ w.pops = u.pops + Len(ts) /\ w.pushes = u.pushes + 0
      BY <2>6, <2>9 DEF Does
    <3>4. w.control = vm.control /\ vm.control \in Seq(Frames) /\ n \in Nat /\ vm.pushes \in Nat
      BY <3>2, <2>4, <1>1, Fields
    <3> DEFINE c == Front(vm.control)
    <3>5. /\ c \in Seq(Frames) /\ Len(c) = n - 1 /\ \A f \in 1..(n - 1) : c[f] = vm.control[f]
      BY <1>3, <3>4, FrontFacts
    <3> HIDE DEF c
    <3>6. x = [w EXCEPT !.control = c]
      BY <3>4 DEF c
    <3> HIDE DEF x
    <3>7. x \in Validators
      BY <2>7, <3>5, <3>6 DEF Validators
    <3>8. x.operands = w.operands /\ x.control = c /\ x.inits = w.inits /\ x.inited = w.inited
      BY <2>7, <3>6 DEF Validators
    <3>9. x.pops = w.pops /\ x.pushes = w.pushes
      BY <2>7, <3>6 DEF Validators
    <3>10. Len(x.operands) = frame.height /\ Len(x.inits) = frame.init_height
      BY <2>9, <3>8, <3>2, <2>4
    <3>11. \A f \in 1..(n - 1) : f \in 1..n /\ f + 1 \in 1..n /\ f # n
      BY <2>1
    <3>12. Nested(x)
      <4> SUFFICES ASSUME NEW f \in 1..(n - 1)
                   PROVE  /\ c[f].height <= IF f = n - 1 THEN frame.height ELSE c[f + 1].height
                          /\ c[f].init_height <= IF f = n - 1 THEN frame.init_height ELSE c[f + 1].init_height
        BY <3>5, <3>8, <3>10 DEF Nested
      <4>1. /\ vm.control[f].height <= vm.control[f + 1].height
            /\ vm.control[f].init_height <= vm.control[f + 1].init_height
        BY <3>11, <2>3 DEF Good, Nested
      <4>2. CASE f = n - 1
        <5>1. vm.control[f + 1] = frame
          BY <4>2, <2>1 DEF frame, Innermost
        <5> QED
          BY <4>1, <4>2, <5>1, <3>5
      <4>3. CASE f # n - 1
        <5>1. f + 1 \in 1..(n - 1)
          BY <4>3, <2>1
        <5> QED
          BY <4>1, <4>3, <5>1, <3>5
      <4> QED
        BY <4>2, <4>3
    <3>13. KnownWhereReachable(x)
      <4> SUFFICES ASSUME NEW f \in 0..(n - 1), NEW i \in 1..Len(w.operands), Holds(x, f, i),
                          f = 0 \/ ~c[f].unreachable
                   PROVE  w.operands[i] \in ValTypes
        BY <3>5, <3>8 DEF KnownWhereReachable
      <4>1. f \in 0..n /\ f # n /\ (f = 0 \/ f \in 1..(n - 1))
        BY <2>1
      <4>2. f = 0 \/ vm.control[f].height < i
        BY <4>1, <3>5, <3>8 DEF Holds
      <4>3. i <= vm.control[f + 1].height
        <5>1. CASE f = n - 1
          <6>1. vm.control[f + 1] = frame
            BY <5>1, <2>1 DEF frame, Innermost
          <6>2. i <= frame.height
            BY <2>9, <2>1
          <6> QED
            BY <6>1, <6>2
        <5>2. CASE f # n - 1
          <6>1. f + 1 \in 1..(n - 1) /\ i <= c[f + 1].height
            BY <5>2, <4>1, <2>1, <3>5, <3>8 DEF Holds
          <6> QED
            BY <6>1, <3>5
        <5> QED
          BY <5>1, <5>2
      <4>4. Holds(w, f, i) /\ (f = 0 \/ ~w.control[f].unreachable)
        BY <4>1, <4>2, <4>3, <3>4, <3>5 DEF Holds
      <4> QED
        BY <4>1, <4>4, <3>3, <3>4 DEF Good, KnownWhereReachable
    <3>14. Good(x)
      BY <3>3, <3>7, <3>8, <3>12, <3>13 DEF Good, LoggedOnce
    <3>15. KeepsFrames(vm, x, n - 1)
      <4> SUFFICES ASSUME NEW f \in 1..(n - 1)
                   PROVE  c[f] = vm.control[f] /\ Undo(x, vm.control[f].init_height) = Undo(vm, vm.control[f].init_height)
        BY <3>8 DEF KeepsFrames
      <4>1. u.control[f].init_height <= Len(u.inits) /\ u.control[f].init_height \in Nat
        BY <3>11, <2>4, FramesGrow, Fields DEF Good
      <4>2. vm.control[f].init_height \in 0..frame.init_height
        BY <4>1, <2>4, <2>1
      <4>3. Undo(x, vm.control[f].init_height) = Undo(u, vm.control[f].init_height)
        BY <3>2, <3>8 DEF Undo
      <4> QED
        BY <4>2, <4>3, <3>5, <2>4
    <3>16. Left(vm, x) /\ Len(x.control) = n - 1
      BY <1>3, <3>2, <3>5, <3>8, <3>14, <3>15, <2>4 DEF Left, frame, Innermost
    <3>17. x.pops = vm.pops + ResultCount(vm) /\ x.pushes = vm.pushes + 0
      BY <3>3, <3>4, <3>9, <2>1, <2>4
    <3> QED
      BY <3>1, <3>7, <3>10, <3>16, <3>17 DEF Popped, frame, Innermost
  <2> QED
    BY <2>8, <2>9
<1> QED
  BY <1>1, <1>2, <1>3 DEF Validators

\* A failed check is any move.
LEMMA FailMoves ==
  ASSUME NEW vm \in Validators, NEW base, NEW p, NEW q
  PROVE  /\ Fail(vm) \in Validators /\ ~Fail(vm).ok
         /\ Does(base, Fail(vm), p, q) /\ Opened(base, Fail(vm), p, q)
         /\ Closed(base, Fail(vm), p, q) /\ Reopened(base, Fail(vm), p, q)
         /\ Popped(base, Fail(vm), p, q)
<1>1. Fail(vm) \in Validators /\ ~Fail(vm).ok
  BY FailDoes DEF Does
<1> QED
  BY <1>1 DEF Does, Opened, Closed, Reopened, Popped

\* What is left of a frame is sound.
LEMMA LeftIsSound ==
  ASSUME NEW vm, NEW v, NEW p, NEW q, Popped(vm, v, p, q) \/ Opened(vm, v, p, q)
  PROVE  v \in Validators /\ Sound(v)
  BY DEF Popped, Opened, Left, Sound

\* Reordering of a sum.
LEMMA SumOfThree ==
  \A a, b, c, d \in Nat : ((a + b) + c) + d = a + (b + c + d)
  OBVIOUS

\* Pushing initialises no local.
LEMMA PushAllQuiet == ASSUME NEW vm \in Validators, NEW ts PROVE Quiet(vm, PushAll(vm, ts))
  BY DEF PushAll, Quiet, Validators

\* OpenFrame initialises no local.
LEMMA OpenFrameQuiet ==
  ASSUME NEW vm \in Validators, NEW kind, NEW bt PROVE Quiet(vm, OpenFrame(vm, kind, bt))
  BY DEF OpenFrame, Quiet, Validators

\* A frame that is closed and opened again.
LEMMA PoppedThenOpened ==
  ASSUME NEW vm \in Validators, NEW v, NEW x, NEW p \in Nat, NEW q \in Nat, NEW r \in Nat, NEW s \in Nat,
         Popped(vm, v, p, q), Opened(v, x, r, s), Quiet(v, x),
         Innermost(vm).kind # "Block"
  PROVE  Reopened(vm, x, p + r, q + s)
<1> DEFINE n == Len(vm.control)
<1>1. v \in Validators /\ x \in Validators
  BY DEF Popped, Opened
<1> SUFFICES ASSUME x.ok
             PROVE  /\ Left(vm, x) /\ Len(x.control) = n
                    /\ vm.control[n].kind # "Block"
                    /\ Undo(x, x.control[n].init_height) = Undo(vm, vm.control[n].init_height)
                    /\ x.pops = vm.pops + (p + r) /\ x.pushes = vm.pushes + (q + s)
  BY <1>1 DEF Reopened
<1>2. /\ v.ok /\ Good(x) /\ Len(x.control) = Len(v.control) + 1 /\ KeepsFrames(v, x, Len(v.control))
      /\ Undo(x, x.control[Len(v.control) + 1].init_height) = v.inited
      /\ x.pops = v.pops + r /\ x.pushes = v.pushes + s
  BY DEF Opened
<1>3. /\ vm.ok /\ vm.control # <<>> /\ KeepsFrames(vm, v, n - 1)
      /\ v.inited = Undo(vm, vm.control[n].init_height)
      /\ Len(v.control) = n - 1
      /\ v.pops = vm.pops + p /\ v.pushes = vm.pushes + q
  BY <1>2 DEF Popped, Left
<1>4. n \in 1..n /\ n - 1 \in Nat /\ n - 1 + 1 = n /\ n - 1 <= n - 1 /\ vm.pops \in Nat /\ vm.pushes \in Nat
  <2>1. n \in 1..n /\ n - 1 \in Nat /\ vm.pops \in Nat /\ vm.pushes \in Nat
    BY <1>3, InnermostFacts, Fields
  <2> HIDE DEF n
  <2> QED
    BY <2>1
<1>5. KeepsFrames(vm, x, n - 1)
  BY <1>2, <1>3, <1>4, KeepsTwice
<1>6. x.inited = v.inited
  BY DEF Quiet
<1>7. Left(vm, x)
  BY <1>2, <1>3, <1>5, <1>6 DEF Left
<1>8. Len(x.control) = n /\ Undo(x, x.control[n].init_height) = Undo(vm, vm.control[n].init_height)
  BY <1>2, <1>3, <1>4
<1>9. x.pops = vm.pops + (p + r) /\ x.pushes = vm.pushes + (q + s)
  BY <1>2, <1>3, <1>4, SMTT(60)
<1> QED
  BY <1>7, <1>8, <1>9 DEF Innermost

\* A frame that is closed, opened again and closed again.
LEMMA PoppedThenPopped ==
  ASSUME NEW vm \in Validators, NEW v, NEW x, NEW w, NEW p \in Nat, NEW q \in Nat, NEW r \in Nat, NEW s \in Nat,
         NEW i \in Nat, NEW j \in Nat,
         Popped(vm, v, p, q), Opened(v, x, r, s), Popped(x, w, i, j),
         x.ok => x.control[Len(v.control) + 1].height = Len(v.operands)
  PROVE  Popped(vm, w, p + r + i, q + s + j)
<1> DEFINE n == Len(vm.control)
<1>1. v \in Validators /\ x \in Validators /\ w \in Validators
  BY DEF Popped, Opened
<1> SUFFICES ASSUME w.ok
             PROVE  /\ Left(vm, w) /\ Len(w.control) = n - 1
                    /\ Len(w.operands) = vm.control[n].height
                    /\ w.pops = vm.pops + (p + r + i) /\ w.pushes = vm.pushes + (q + s + j)
  BY <1>1 DEF Popped
<1>2. /\ x.ok /\ Good(w) /\ KeepsFrames(x, w, Len(x.control) - 1)
      /\ w.inited = Undo(x, x.control[Len(x.control)].init_height)
      /\ Len(w.control) = Len(x.control) - 1
      /\ Len(w.operands) = x.control[Len(x.control)].height
      /\ w.pops = x.pops + i /\ w.pushes = x.pushes + j
  BY DEF Popped, Left
<1>3. /\ v.ok /\ Len(x.control) = Len(v.control) + 1 /\ KeepsFrames(v, x, Len(v.control))
      /\ Undo(x, x.control[Len(v.control) + 1].init_height) = v.inited
      /\ x.pops = v.pops + r /\ x.pushes = v.pushes + s
  BY <1>2 DEF Opened
<1>4. /\ vm.ok /\ vm.control # <<>> /\ KeepsFrames(vm, v, n - 1)
      /\ v.inited = Undo(vm, vm.control[n].init_height)
      /\ Len(v.control) = n - 1 /\ Len(v.operands) = vm.control[n].height
      /\ v.pops = vm.pops + p /\ v.pushes = vm.pushes + q
  BY <1>3 DEF Popped, Left
<1>5. n \in 1..n /\ n - 1 \in Nat /\ n - 1 + 1 = n /\ n - 1 <= n - 1 /\ vm.pops \in Nat /\ vm.pushes \in Nat
  <2>1. n \in 1..n /\ n - 1 \in Nat /\ vm.pops \in Nat /\ vm.pushes \in Nat
    BY <1>4, InnermostFacts, Fields
  <2> HIDE DEF n
  <2> QED
    BY <2>1
<1>6. Len(x.control) = n /\ Len(w.control) = n - 1
  BY <1>2, <1>3, <1>4, <1>5
<1>7. KeepsFrames(vm, x, n - 1)
  BY <1>3, <1>4, <1>5, KeepsTwice
<1>8. KeepsFrames(vm, w, n - 1)
  BY <1>2, <1>5, <1>6, <1>7, KeepsTwice
<1>9. w.inited = Undo(vm, vm.control[n].init_height)
  BY <1>2, <1>3, <1>4, <1>5, <1>6
<1>10. Len(w.operands) = vm.control[n].height
  BY <1>2, <1>3, <1>4, <1>5, <1>6
<1>11. w.pops = vm.pops + (p + r + i) /\ w.pushes = vm.pushes + (q + s + j)
  <2>1. /\ w.pops = ((vm.pops + p) + r) + i /\ vm.pops \in Nat
        /\ w.pushes = ((vm.pushes + q) + s) + j /\ vm.pushes \in Nat
    BY <1>2, <1>3, <1>4, <1>5
  <2> QED
    BY <2>1, SumOfThree, SMTT(60)
<1> QED
  BY <1>2, <1>4, <1>6, <1>8, <1>9, <1>10, <1>11 DEF Left

\* A frame that is closed leaves its results.
LEMMA PoppedThenResults ==
  ASSUME NEW vm \in Validators, NEW v, NEW p \in Nat, NEW q \in Nat, Popped(vm, v, p, q),
         NEW w, v.ok => w = PushAll(v, Results(Innermost(vm).block_type)), ~v.ok => w = v
  PROVE  Closed(vm, w, p, q + ResultCount(vm))
<1>1. v \in Validators /\ Sound(v)
  BY LeftIsSound
<1>2. CASE ~v.ok
  BY <1>1, <1>2 DEF Closed
<1>3. CASE v.ok
  <2> DEFINE n == Len(vm.control)
             ts == Results(Innermost(vm).block_type)
  <2>1. /\ vm.ok /\ Good(v) /\ vm.control # <<>> /\ KeepsFrames(vm, v, n - 1)
        /\ v.inited = Undo(vm, vm.control[n].init_height)
        /\ Len(v.control) = n - 1 /\ Len(v.operands) = vm.control[n].height
        /\ v.pops = vm.pops + p /\ v.pushes = vm.pushes + q
    BY <1>3 DEF Popped, Left
  <2>2. /\ n \in 1..n /\ n - 1 \in Nat /\ n - 1 <= n - 1 /\ vm.pops \in Nat /\ vm.pushes \in Nat
        /\ ts \in Seq(ValTypes) /\ Len(ts) = ResultCount(vm) /\ ResultCount(vm) \in Nat
    <3>1. /\ n \in 1..n /\ n - 1 \in Nat /\ vm.pops \in Nat /\ vm.pushes \in Nat
          /\ ts \in Seq(ValTypes) /\ Len(ts) = ResultCount(vm) /\ ResultCount(vm) \in Nat
      BY <2>1, InnermostFacts, Fields DEF ResultCount
    <3> HIDE DEF n
    <3> QED
      BY <3>1
  <2>3. w = PushAll(v, ts)
    BY <1>3
  <2> HIDE DEF ts
  <2>4. Does(v, w, 0, Len(ts)) /\ Quiet(v, w)
    BY <1>1, <2>2, <2>3, PushValues, PushAllQuiet
  <2>5. w \in Validators /\ w.ok = v.ok /\ w.operands = v.operands \o ts
    BY <1>1, <1>3, <2>3, <2>4 DEF Does, PushAll, Validators
  <2>6. Good(w) /\ SameFrames(v, w) /\ w.pops = v.pops + 0 /\ w.pushes = v.pushes + Len(ts)
    BY <1>3, <2>4, <2>5 DEF Does
  <2>7. KeepsFrames(v, w, n - 1)
    BY <1>1, <1>3, <2>1, <2>4, <2>5, DoesKeepsFrames
  <2>8. KeepsFrames(vm, w, n - 1)
    BY <2>1, <2>2, <2>7, KeepsTwice
  <2>9. Left(vm, w)
    BY <2>1, <2>4, <2>6, <2>8 DEF Left, Quiet
  <2>10. vm.control[n].height = 0 => w.operands = Results(vm.control[n].block_type)
    <3> SUFFICES ASSUME vm.control[n].height = 0 PROVE w.operands = ts
      BY DEF ts, Innermost
    <3>1. v.operands \in Seq(OperandTypes) /\ ts \in Seq(OperandTypes)
      BY <1>1, <2>2, Fields, ListOfValues
    <3>2. v.operands = <<>>
      BY <2>1, <3>1
    <3> QED
      BY <2>5, <3>1, <3>2
  <2>11. w.pops = vm.pops + p /\ w.pushes = vm.pushes + (q + ResultCount(vm))
    BY <2>1, <2>2, <2>6
  <2>12. Len(w.control) = n - 1
    BY <2>1, <2>6 DEF SameFrames
  <2> QED
    BY <2>5, <2>9, <2>10, <2>11, <2>12 DEF Closed
<1> QED
  BY <1>1, <1>2, <1>3 DEF Validators

-----------------------------------------------------------------------------
(* The visitors of blocks.                                                   *)

\* The pops before a frame is opened.
LEMMA PopsThenOpened ==
  ASSUME NEW vm, Sound(vm), NEW u, NEW p \in Nat, Does(vm, u, p, 0), Quiet(vm, u),
         NEW kind \in FrameKinds, NEW bt \in Blocks
  PROVE  Opened(vm, push_ctrl(PopAll(u, Params(bt)), kind, bt), p + Len(Params(bt)), Len(Params(bt)))
<1> DEFINE w == PopAll(u, Params(bt))
           x == push_ctrl(w, kind, bt)
           k == Len(Params(bt))
<1>1. vm \in Validators /\ u \in Validators /\ Sound(u)
  BY DoesIsSound DEF Sound, Does
<1>2. Params(bt) \in Seq(ValTypes) /\ k \in Nat
  BY BlockFacts
<1> HIDE DEF k
<1>3. Does(u, w, k, 0) /\ Quiet(u, w)
  BY <1>1, <1>2, PopAllDoes, PopAllQuiet DEF k
<1> HIDE DEF w
<1>4. Sound(w) /\ Does(vm, w, p + k, 0 + 0) /\ Quiet(vm, w)
  BY <1>1, <1>2, <1>3, DoesThenDoes, DoesIsSound DEF Quiet
<1>5. Opened(w, x, 0, k)
  BY <1>4, PushCtrlOpens DEF k
<1> HIDE DEF x
<1>6. p + k \in Nat /\ 0 + 0 \in Nat /\ (p + k) + 0 = p + k /\ (0 + 0) + k = k
  BY <1>2
<1>7. Opened(vm, x, (p + k) + 0, (0 + 0) + k)
  BY <1>1, <1>2, <1>4, <1>5, <1>6, DoesThenOpened
<1> QED
  BY <1>6, <1>7 DEF x, w, k

\* visit_block, visit_loop and visit_forall to visit_unique open a frame.
LEMMA VisitBlockOpens ==
  ASSUME NEW vm, Sound(vm), NEW kind \in FrameKinds, NEW bt \in BlockTypes
  PROVE  Opened(vm, visit_block(vm, kind, bt), Len(Params(bt)), Len(Params(bt)))
<1>1. CASE BlockTypeOk(bt)
  <2>1. bt \in Blocks /\ Does(vm, vm, 0, 0) /\ Quiet(vm, vm)
    BY <1>1, CheckedBlock, DoesNothing DEF Quiet
  <2>2. 0 + Len(Params(bt)) = Len(Params(bt))
    BY <2>1, BlockFacts
  <2>3. Opened(vm, push_ctrl(PopAll(vm, Params(bt)), kind, bt), 0 + Len(Params(bt)), Len(Params(bt)))
    BY <2>1, PopsThenOpened
  <2> QED
    BY <1>1, <2>2, <2>3 DEF visit_block
<1>2. CASE ~BlockTypeOk(bt)
  BY <1>2, FailMoves DEF visit_block, Sound
<1> QED
  BY <1>1, <1>2

\* visit_if pops its condition and opens a frame.
LEMMA VisitIfOpens ==
  ASSUME NEW vm, Sound(vm), NEW bt \in BlockTypes
  PROVE  Opened(vm, visit_if(vm, bt), 1 + Len(Params(bt)), Len(Params(bt)))
<1>1. CASE BlockTypeOk(bt)
  <2>1. /\ bt \in Blocks /\ Does(vm, pop_operand(vm, I32), 1, 0) /\ Quiet(vm, pop_operand(vm, I32))
        /\ "If" \in FrameKinds
    BY <1>1, CheckedBlock, PopOperandDoes, PopOperandQuiet DEF FrameKinds
  <2>2. Opened(vm, push_ctrl(PopAll(pop_operand(vm, I32), Params(bt)), "If", bt),
               1 + Len(Params(bt)), Len(Params(bt)))
    BY <2>1, PopsThenOpened
  <2> QED
    BY <1>1, <2>2 DEF visit_if
<1>2. CASE ~BlockTypeOk(bt)
  BY <1>2, FailMoves DEF visit_if, Sound
<1> QED
  BY <1>1, <1>2

\* visit_try_table opens a frame.
LEMMA VisitTryTableOpens ==
  ASSUME NEW vm, Sound(vm), NEW bt \in BlockTypes, NEW catches
  PROVE  Opened(vm, visit_try_table(vm, bt, catches), Len(Params(bt)), Len(Params(bt)))
<1>1. CASE BlockTypeOk(bt)
  <2>1. /\ bt \in Blocks /\ Does(vm, vm, 0, 0) /\ Quiet(vm, vm)
        /\ "TryTable" \in FrameKinds
    BY <1>1, CheckedBlock, DoesNothing DEF FrameKinds, Quiet
  <2>2. 0 + Len(Params(bt)) = Len(Params(bt)) /\ Params(bt) \in Seq(ValTypes)
    BY <2>1, BlockFacts
  <2>3. Opened(vm, push_ctrl(PopAll(vm, Params(bt)), "TryTable", bt), 0 + Len(Params(bt)), Len(Params(bt)))
    BY <2>1, PopsThenOpened
  <2>4. PopAll(vm, Params(bt)) \in Validators
    BY <2>2, PopAllDoes DEF Does
  <2>5. Opened(vm, Fail(PopAll(vm, Params(bt))), Len(Params(bt)), Len(Params(bt)))
    BY <2>4, FailMoves
  <2>6. \/ visit_try_table(vm, bt, catches) = push_ctrl(PopAll(vm, Params(bt)), "TryTable", bt)
        \/ visit_try_table(vm, bt, catches) = Fail(PopAll(vm, Params(bt)))
    BY <1>1 DEF visit_try_table
  <2> QED
    BY <2>2, <2>3, <2>5, <2>6
<1>2. CASE ~BlockTypeOk(bt)
  BY <1>2, FailMoves DEF visit_try_table, Sound
<1> QED
  BY <1>1, <1>2

\* The next part of a block, with the operands ts that it starts with.
LEMMA PoppedThenPart ==
  ASSUME NEW vm, Sound(vm), vm.control # <<>>, Innermost(vm).kind # "Block",
         NEW kind \in FrameKinds, NEW ts \in Seq(ValTypes)
  PROVE  Reopened(vm, PushAll(OpenFrame(pop_ctrl(vm), kind, Innermost(vm).block_type), ts),
                  ResultCount(vm), Len(ts))
<1> DEFINE v == pop_ctrl(vm)
           w == OpenFrame(v, kind, Innermost(vm).block_type)
           x == PushAll(w, ts)
<1>1. /\ vm \in Validators /\ Innermost(vm).block_type \in Blocks /\ ResultCount(vm) \in Nat
      /\ Len(ts) \in Nat
  BY InnermostFacts, ListOfValues DEF Sound
<1>2. Popped(vm, v, ResultCount(vm), 0)
  BY PopCtrlPops
<1>3. v \in Validators /\ Sound(v)
  BY <1>2, LeftIsSound
<1> HIDE DEF v
<1>4. Opened(v, w, 0, 0) /\ Quiet(v, w)
  BY <1>1, <1>3, OpenFrameOpens, OpenFrameQuiet
<1>5. w \in Validators /\ Sound(w)
  BY <1>4, LeftIsSound
<1> HIDE DEF w
<1>6. Does(w, x, 0, Len(ts)) /\ Quiet(w, x)
  BY <1>5, PushValues, PushAllQuiet
<1> HIDE DEF x
<1>7. Opened(v, x, 0 + 0, 0 + Len(ts))
  BY <1>1, <1>3, <1>4, <1>6, OpenedThenDoes
<1>8. Quiet(v, x)
  BY <1>4, <1>6 DEF Quiet
<1>9. 0 + 0 \in Nat /\ 0 + Len(ts) \in Nat /\ ResultCount(vm) + (0 + 0) = ResultCount(vm)
      /\ 0 + (0 + Len(ts)) = Len(ts)
  BY <1>1
<1>10. Reopened(vm, x, ResultCount(vm) + (0 + 0), 0 + (0 + Len(ts)))
  BY <1>1, <1>2, <1>7, <1>8, <1>9, PoppedThenOpened
<1> QED
  BY <1>9, <1>10 DEF x, w, v

\* visit_else closes the `if` part and opens the `else` part.
LEMMA VisitElseReopens ==
  ASSUME NEW vm, Sound(vm)
  PROVE  Reopened(vm, visit_else(vm), ResultCount(vm), ParamCount(vm))
<1>1. vm \in Validators
  BY DEF Sound
<1>2. CASE ~Closes(vm, {"If"})
  <2>1. pop_ctrl(vm) \in Validators
    BY PopCtrlPops, LeftIsSound
  <2>2. visit_else(vm) = Fail(pop_ctrl(vm))
    BY <1>2 DEF visit_else
  <2> QED
    BY <2>1, <2>2, FailMoves
<1>3. CASE Closes(vm, {"If"})
  <2>1. vm.control # <<>> /\ Last(vm.control).kind = "If" /\ Last(vm.control) = Innermost(vm)
    BY <1>1, <1>3, InnermostFacts DEF Closes
  <2>2. Params(Innermost(vm).block_type) \in Seq(ValTypes) /\ "Else" \in FrameKinds
    BY <1>1, <2>1, InnermostFacts DEF FrameKinds
  <2> QED
    BY <1>3, <2>1, <2>2, PoppedThenPart DEF visit_else, push_ctrl, ParamCount
<1> QED
  BY <1>2, <1>3

\* The function type of a tag, and its announced arity.
LEMMA TagFacts ==
  ASSUME NEW t, TagAt(t)
  PROVE  /\ Tags[t] \in FuncTypeIds /\ TagType(t).params \in Seq(ValTypes)
         /\ TagType(t).results \in Seq(ValTypes)
         /\ Len(TagType(t).params) \in Nat /\ Len(TagType(t).results) \in Nat
         /\ tag_arity(t) = <<Len(TagType(t).params), Len(TagType(t).results)>>
<1>1. Tags[t] \in FuncTypeIds
  BY StackAssumption DEF TagAt
<1> QED
  BY <1>1, FuncFacts DEF TagType, tag_arity

\* visit_catch closes one part of a legacy try and opens the next.
LEMMA VisitCatchReopens ==
  ASSUME NEW vm, Sound(vm), NEW t
  PROVE  Reopened(vm, visit_catch(vm, t), ResultCount(vm), Len(TagType(t).params))
<1>1. vm \in Validators
  BY DEF Sound
<1>2. CASE ~(Closes(vm, {"LegacyTry", "LegacyCatch"}) /\ ExceptionTagAt(t))
  <2>1. pop_ctrl(vm) \in Validators
    BY PopCtrlPops, LeftIsSound
  <2>2. visit_catch(vm, t) = Fail(pop_ctrl(vm))
    BY <1>2 DEF visit_catch
  <2> QED
    BY <2>1, <2>2, FailMoves
<1>3. CASE Closes(vm, {"LegacyTry", "LegacyCatch"}) /\ ExceptionTagAt(t)
  <2>1. vm.control # <<>> /\ Last(vm.control).kind # "Block" /\ Last(vm.control) = Innermost(vm)
    BY <1>1, <1>3, InnermostFacts DEF Closes
  <2>2. TagType(t).params \in Seq(ValTypes) /\ "LegacyCatch" \in FrameKinds
    BY <1>3, TagFacts DEF FrameKinds, ExceptionTagAt
  <2> QED
    BY <1>3, <2>1, <2>2, PoppedThenPart DEF visit_catch
<1> QED
  BY <1>2, <1>3

\* visit_catch_all closes one part of a legacy try and opens the next.
LEMMA VisitCatchAllReopens ==
  ASSUME NEW vm, Sound(vm)
  PROVE  Reopened(vm, visit_catch_all(vm), ResultCount(vm), 0)
<1>1. vm \in Validators
  BY DEF Sound
<1>2. CASE ~Closes(vm, {"LegacyTry", "LegacyCatch"})
  <2>1. pop_ctrl(vm) \in Validators
    BY PopCtrlPops, LeftIsSound
  <2>2. visit_catch_all(vm) = Fail(pop_ctrl(vm))
    BY <1>2 DEF visit_catch_all
  <2> QED
    BY <2>1, <2>2, FailMoves
<1>3. CASE Closes(vm, {"LegacyTry", "LegacyCatch"})
  <2>1. vm.control # <<>> /\ Last(vm.control).kind # "Block" /\ Last(vm.control) = Innermost(vm)
    BY <1>1, <1>3, InnermostFacts DEF Closes
  <2> DEFINE v == pop_ctrl(vm)
             w == OpenFrame(v, "LegacyCatchAll", Innermost(vm).block_type)
  <2>2. Popped(vm, v, ResultCount(vm), 0) /\ v \in Validators /\ Sound(v)
    BY PopCtrlPops, LeftIsSound
  <2>3. Innermost(vm).block_type \in Blocks /\ ResultCount(vm) \in Nat /\ "LegacyCatchAll" \in FrameKinds
    BY <1>1, <2>1, InnermostFacts DEF FrameKinds
  <2> HIDE DEF v
  <2>4. Opened(v, w, 0, 0) /\ Quiet(v, w)
    BY <2>2, <2>3, OpenFrameOpens, OpenFrameQuiet
  <2> HIDE DEF w
  <2>5. ResultCount(vm) + 0 = ResultCount(vm) /\ 0 + 0 = 0 /\ 0 \in Nat
    BY <2>3
  <2>6. Reopened(vm, w, ResultCount(vm) + 0, 0 + 0)
    BY <1>1, <2>1, <2>2, <2>3, <2>4, <2>5, PoppedThenOpened
  <2>7. visit_catch_all(vm) = w
    BY <1>3, <2>1 DEF visit_catch_all, w, v
  <2> QED
    BY <2>5, <2>6, <2>7
<1> QED
  BY <1>2, <1>3

\* visit_delegate closes a legacy try.
LEMMA VisitDelegateCloses ==
  ASSUME NEW vm, Sound(vm), NEW d
  PROVE  Closed(vm, visit_delegate(vm, d), ResultCount(vm), ResultCount(vm))
<1> DEFINE v == pop_ctrl(vm)
<1>1. vm \in Validators /\ Popped(vm, v, ResultCount(vm), 0) /\ v \in Validators
  BY PopCtrlPops, LeftIsSound DEF Sound
<1>2. CASE ~(v.ok /\ Closes(vm, {"LegacyTry"}) /\ JumpOk(v, d))
  BY <1>1, <1>2, FailMoves DEF visit_delegate
<1>3. CASE v.ok /\ Closes(vm, {"LegacyTry"}) /\ JumpOk(v, d)
  <2> DEFINE w == visit_delegate(vm, d)
  <2>1. vm.control # <<>> /\ Last(vm.control) = Innermost(vm) /\ ResultCount(vm) \in Nat
    BY <1>1, <1>3, InnermostFacts DEF Closes
  <2>2. w = PushAll(v, Results(Innermost(vm).block_type))
    BY <1>3, <2>1 DEF visit_delegate
  <2> HIDE DEF v, w
  <2>3. Closed(vm, w, ResultCount(vm), 0 + ResultCount(vm))
    BY <1>1, <1>3, <2>1, <2>2, PoppedThenResults
  <2>4. 0 + ResultCount(vm) = ResultCount(vm)
    BY <2>1
  <2> QED
    BY <2>3, <2>4 DEF w
<1> QED
  BY <1>2, <1>3

\* visit_end closes a frame; of an `if` it also opens and closes the empty `else`.
LEMMA VisitEndCloses ==
  ASSUME NEW vm, Sound(vm)
  PROVE  IF Closes(vm, {"If"})
         THEN Closed(vm, visit_end(vm), ResultCount(vm) + ResultCount(vm), ParamCount(vm) + ResultCount(vm))
         ELSE Closed(vm, visit_end(vm), ResultCount(vm), ResultCount(vm))
<1> DEFINE v == pop_ctrl(vm)
           bt == Innermost(vm).block_type
           x == push_ctrl(v, "Else", bt)
           y == pop_ctrl(x)
           end == visit_end(vm)
<1>1. vm \in Validators /\ Popped(vm, v, ResultCount(vm), 0) /\ v \in Validators /\ Sound(v)
  BY PopCtrlPops, LeftIsSound DEF Sound
<1>2. CASE vm.control = <<>>
  <2>1. ~Closes(vm, {"If"}) /\ v = Fail(vm)
    BY <1>2 DEF Closes, pop_ctrl
  <2>2. ~v.ok
    BY <1>1, <2>1, FailDoes
  <2>3. end = v
    BY <2>1, <2>2 DEF visit_end
  <2> QED
    BY <1>1, <2>1, <2>2, <2>3 DEF Closed
<1>3. CASE vm.control # <<>>
  <2>1. /\ Last(vm.control) = Innermost(vm) /\ ResultCount(vm) \in Nat /\ ParamCount(vm) \in Nat
        /\ bt \in Blocks /\ Len(Params(bt)) = ParamCount(vm)
    BY <1>1, <1>3, InnermostFacts DEF ParamCount
  <2>2. CASE ~Closes(vm, {"If"})
    <3>1. (v.ok => end = PushAll(v, Results(Innermost(vm).block_type))) /\ (~v.ok => end = v)
      BY <2>1, <2>2 DEF visit_end
    <3> HIDE DEF v, end
    <3>2. Closed(vm, end, ResultCount(vm), 0 + ResultCount(vm))
      BY <1>1, <2>1, <3>1, PoppedThenResults
    <3>3. 0 + ResultCount(vm) = ResultCount(vm)
      BY <2>1
    <3> QED
      BY <2>2, <3>2, <3>3 DEF end
  <2>3. CASE Closes(vm, {"If"})
    <3>1. (y.ok => end = PushAll(y, Results(Innermost(vm).block_type))) /\ (~y.ok => end = y)
      BY <2>1, <2>3 DEF visit_end
    <3>2. "Else" \in FrameKinds
      BY DEF FrameKinds
    <3> HIDE DEF v, bt, end
    <3>3. /\ Opened(v, x, 0, ParamCount(vm))
          /\ x.ok => x.control[Len(v.control) + 1].height = Len(v.operands)
      BY <1>1, <2>1, <3>2, PushCtrlOpens
    <3>4. x \in Validators /\ Sound(x)
      BY <3>3, LeftIsSound
    <3>5. Popped(x, y, ResultCount(x), 0)
      BY <3>4, PopCtrlPops
    <3>6. x.ok => ResultCount(x) = ResultCount(vm)
      <4> SUFFICES ASSUME x.ok PROVE Innermost(x).block_type = bt
        BY DEF ResultCount, bt
      <4> DEFINE w == OpenFrame(v, "Else", bt)
      <4>1. x = PushAll(w, Params(bt)) /\ Params(bt) \in Seq(ValTypes)
        BY <2>1, BlockFacts DEF push_ctrl
      <4>2. Opened(v, w, 0, 0)
        BY <1>1, <2>1, <3>2, OpenFrameOpens
      <4>3. w \in Validators /\ Sound(w)
        BY <4>2, LeftIsSound
      <4>4. Does(w, x, 0, Len(Params(bt)))
        BY <4>1, <4>3, PushValues
      <4>5. w.ok /\ SameFrames(w, x)
        BY <4>4 DEF Does
      <4>6. v.ok /\ Len(w.control) = Len(v.control) + 1 /\ Len(v.control) \in Nat
        BY <4>2, <4>5, <1>1, Fields DEF Opened
      <4>7. v.control \in Seq(Frames)
        BY <1>1, Fields
      <4>8. w.control = Append(v.control, Frame("Else", bt, Len(v.operands), Len(v.inits)))
        BY <1>1, <4>6 DEF OpenFrame, Validators
      <4>9. w.control[Len(v.control) + 1].block_type = bt
        <5>1. w.control[Len(v.control) + 1] = Frame("Else", bt, Len(v.operands), Len(v.inits))
          BY <4>6, <4>7, <4>8
        <5> QED
          BY <5>1 DEF Frame
      <4>10. Len(x.control) = Len(v.control) + 1 /\ Len(v.control) + 1 \in 1..Len(w.control)
        BY <4>5, <4>6 DEF SameFrames
      <4> QED
        BY <4>5, <4>9, <4>10 DEF SameFrames, Innermost
    <3> HIDE DEF x, y
    <3>7. Popped(x, y, ResultCount(vm), 0)
      BY <3>5, <3>6 DEF Popped, Left
    <3> DEFINE R == ResultCount(vm)
               P == ParamCount(vm)
    <3>8. R \in Nat /\ P \in Nat
      BY <2>1
    <3>9. Popped(vm, v, R, 0) /\ Opened(v, x, 0, P) /\ Popped(x, y, R, 0)
      BY <1>1, <3>3, <3>7
    <3>10. Popped(vm, y, R + 0 + R, 0 + P + 0)
      BY <1>1, <3>3, <3>8, <3>9, PoppedThenPopped
    <3>11. R + 0 + R \in Nat /\ 0 + P + 0 \in Nat /\ R + 0 + R = R + R /\ (0 + P + 0) + R = P + R
      BY <3>8
    <3>12. Closed(vm, end, R + 0 + R, (0 + P + 0) + R)
      BY <1>1, <3>1, <3>10, <3>11, PoppedThenResults
    <3> QED
      BY <2>3, <3>11, <3>12 DEF end
  <2> QED
    BY <2>2, <2>3
<1> QED
  BY <1>2, <1>3

-----------------------------------------------------------------------------
(* Branches.                                                                 *)

LabelCount(vm, d) == Len(LabelTypes(Jump(vm, d)))

\* A validator that has failed is the outcome of any move.
LEMMA NotOkMoves ==
  ASSUME NEW v \in Validators, ~v.ok, NEW base, NEW p, NEW q
  PROVE  /\ Does(base, v, p, q) /\ Opened(base, v, p, q)
         /\ Closed(base, v, p, q) /\ Reopened(base, v, p, q)
  BY DEF Does, Opened, Closed, Reopened

\* The frame a branch leads to and the types it takes.
LEMMA LabelFacts ==
  ASSUME NEW vm \in Validators, NEW d \in Nat, JumpOk(vm, d)
  PROVE  /\ Len(vm.control) - d \in 1..Len(vm.control)
         /\ Jump(vm, d) \in Frames /\ Jump(vm, d).block_type \in Blocks
         /\ LabelTypes(Jump(vm, d)) \in Seq(ValTypes) /\ LabelCount(vm, d) \in Nat
<1>1. Len(vm.control) \in Nat
  BY Fields
<1>2. d < Len(vm.control)
  BY DEF JumpOk
<1>3. Len(vm.control) - d \in 1..Len(vm.control)
  BY <1>1, <1>2
<1>4. Jump(vm, d) \in Frames /\ Jump(vm, d).block_type \in Blocks
  BY <1>3, Fields DEF Jump
<1>5. Params(Jump(vm, d).block_type) \in Seq(ValTypes) /\ Results(Jump(vm, d).block_type) \in Seq(ValTypes)
  BY <1>4, BlockFacts
<1>6. LabelTypes(Jump(vm, d)) \in Seq(ValTypes)
  BY <1>5 DEF LabelTypes
<1> QED
  BY <1>3, <1>4, <1>6 DEF LabelCount

\* Labels keep their types while a visitor works within a frame.
LEMMA SameLabels ==
  ASSUME NEW vm \in Validators, NEW v, NEW p, NEW q, Does(vm, v, p, q), v.ok, NEW d \in Nat
  PROVE  /\ JumpOk(v, d) <=> JumpOk(vm, d)
         /\ JumpOk(vm, d) => /\ LabelTypes(Jump(v, d)) = LabelTypes(Jump(vm, d))
                             /\ Jump(v, d).kind = Jump(vm, d).kind
<1>1. Len(v.control) = Len(vm.control)
  BY DEF Does, SameFrames
<1>2. ASSUME JumpOk(vm, d)
      PROVE  /\ Jump(v, d).kind = Jump(vm, d).kind
             /\ Jump(v, d).block_type = Jump(vm, d).block_type
  <2>1. Len(vm.control) - d \in 1..Len(vm.control)
    BY <1>2, LabelFacts
  <2> QED
    BY <1>1, <2>1 DEF Does, SameFrames, Jump
<1>3. JumpOk(v, d) <=> JumpOk(vm, d)
  BY <1>1 DEF JumpOk
<1> QED
  BY <1>2, <1>3 DEF LabelTypes

\* pop_push_label_types pops a list of types and pushes it back.
LEMMA PopPushDoes ==
  ASSUME NEW vm, Sound(vm), NEW ts \in Seq(ValTypes)
  PROVE  Does(vm, pop_push_label_types(vm, ts), Len(ts), Len(ts))
<1>1. Does(vm, PopAll(vm, ts), Len(ts), 0) /\ Len(ts) \in Nat
  BY PopAllDoes
<1>2. Sound(PopAll(vm, ts))
  BY <1>1, DoesIsSound
<1>3. Does(PopAll(vm, ts), PushAll(PopAll(vm, ts), ts), 0, Len(ts))
  BY <1>2, PushValues
<1>4. vm \in Validators
  BY DEF Sound
<1>5. Does(vm, PushAll(PopAll(vm, ts), ts), Len(ts) + 0, 0 + Len(ts))
  BY <1>1, <1>3, <1>4, DoesThenDoes
<1> QED
  BY <1>1, <1>5 DEF pop_push_label_types

\* A branch that is always taken: the label's types are popped, the rest is unreachable.
LEMMA PopThenStops ==
  ASSUME NEW vm, Sound(vm), NEW ts \in Seq(ValTypes)
  PROVE  Does(vm, unreachable(PopAll(vm, ts)), Len(ts), 0)
<1>1. Does(vm, PopAll(vm, ts), Len(ts), 0) /\ Len(ts) \in Nat
  BY PopAllDoes
<1>2. Sound(PopAll(vm, ts))
  BY <1>1, DoesIsSound
<1>3. Does(PopAll(vm, ts), unreachable(PopAll(vm, ts)), 0, 0)
  BY <1>2, UnreachableDoes
<1>4. vm \in Validators
  BY DEF Sound
<1>5. Does(vm, unreachable(PopAll(vm, ts)), Len(ts) + 0, 0 + 0)
  BY <1>1, <1>3, <1>4, DoesThenDoes
<1> QED
  BY <1>1, <1>5

\* visit_br pops the types of its label.
LEMMA VisitBrDoes ==
  ASSUME NEW vm, Sound(vm), NEW d \in Nat
  PROVE  Does(vm, visit_br(vm, d), LabelCount(vm, d), 0)
<1>1. vm \in Validators
  BY DEF Sound
<1>2. CASE JumpOk(vm, d)
  BY <1>1, <1>2, LabelFacts, PopThenStops DEF visit_br, LabelCount
<1>3. CASE ~JumpOk(vm, d)
  BY <1>1, <1>3, FailDoes DEF visit_br
<1> QED
  BY <1>2, <1>3

\* visit_br_if pops its condition; the types of the label are popped and pushed.
LEMMA VisitBrIfDoes ==
  ASSUME NEW vm, Sound(vm), NEW d \in Nat
  PROVE  Does(vm, visit_br_if(vm, d), 1 + LabelCount(vm, d), LabelCount(vm, d))
<1> DEFINE v == pop_operand(vm, I32)
<1>1. vm \in Validators /\ Does(vm, v, 1, 0)
  BY PopOperandDoes DEF Sound
<1>2. Sound(v) /\ v \in Validators
  BY <1>1, DoesIsSound DEF Does
<1>3. /\ JumpOk(v, d) => visit_br_if(vm, d) = pop_push_label_types(v, LabelTypes(Jump(v, d)))
      /\ ~JumpOk(v, d) => visit_br_if(vm, d) = Fail(v)
  BY DEF visit_br_if
<1> HIDE DEF v
<1>4. CASE ~v.ok
  <2>1. visit_br_if(vm, d) \in Validators /\ ~visit_br_if(vm, d).ok
    <3>1. CASE JumpOk(v, d)
      <4>1. Does(v, pop_push_label_types(v, LabelTypes(Jump(v, d))),
                 Len(LabelTypes(Jump(v, d))), Len(LabelTypes(Jump(v, d))))
        BY <1>2, <3>1, LabelFacts, PopPushDoes
      <4> QED
        BY <4>1, <3>1, <1>3, <1>4 DEF Does
    <3>2. CASE ~JumpOk(v, d)
      BY <3>2, <1>2, <1>3, FailMoves
    <3> QED
      BY <3>1, <3>2
  <2> QED
    BY <2>1, NotOkMoves
<1>5. CASE v.ok /\ JumpOk(v, d)
  <2>1. /\ JumpOk(vm, d) /\ LabelTypes(Jump(v, d)) = LabelTypes(Jump(vm, d))
    BY <1>1, <1>5, SameLabels
  <2>2. LabelTypes(Jump(vm, d)) \in Seq(ValTypes) /\ LabelCount(vm, d) \in Nat
    BY <1>1, <2>1, LabelFacts
  <2>3. Does(v, visit_br_if(vm, d), LabelCount(vm, d), LabelCount(vm, d))
    BY <1>2, <1>3, <1>5, <2>1, <2>2, PopPushDoes DEF LabelCount
  <2>4. Does(vm, visit_br_if(vm, d), 1 + LabelCount(vm, d), 0 + LabelCount(vm, d))
    BY <1>1, <2>2, <2>3, DoesThenDoes
  <2> QED
    BY <2>2, <2>4
<1>6. CASE v.ok /\ ~JumpOk(v, d)
  BY <1>2, <1>3, <1>6, FailMoves
<1> QED
  BY <1>4, <1>5, <1>6

\* One target of visit_br_table, and the fold over a list of one target.
TargetStep(v, e, d, w) ==
    IF JumpOk(w, e) /\ Len(LabelTypes(Jump(v, e))) = Len(LabelTypes(Jump(v, d)))
    THEN match_stack_operands(w, LabelTypes(Jump(v, e)))
    ELSE Fail(w)

target_step(v, e, d, f, S) ==
    IF S = {} THEN v ELSE TargetStep(v, <<e>>[Max(S)], d, f[S \ {Max(S)}])

targets_of(v, e, d) == CHOOSE f : f = [S \in SUBSET (DOMAIN <<e>>) |-> target_step(v, e, d, f, S)]

\* visit_br_table with one target, its fold written out.
LEMMA TableUnfolds ==
  ASSUME NEW vm, NEW e, NEW d, NEW v, v = pop_operand(vm, I32)
  PROVE  visit_br_table(vm, <<e>>, d) =
            IF JumpOk(v, d)
            THEN unreachable(PopAll(targets_of(v, e, d)[DOMAIN <<e>>], LabelTypes(Jump(v, d))))
            ELSE Fail(v)
  BY DEF visit_br_table, FoldLeft, MapThenFoldSet, targets_of, target_step, TargetStep

\* The fold over one target is one step.
LEMMA OneTarget ==
  ASSUME NEW v, NEW e, NEW d
  PROVE  targets_of(v, e, d)[DOMAIN <<e>>] = TargetStep(v, e, d, v)
<1>1. DOMAIN <<e>> = {1} /\ <<e>>[1] = e
  OBVIOUS
<1>2. Max({1}) = 1
  <2>1. {1} \subseteq 1..1 /\ 1 \in {1} /\ \A x \in {1} : x <= 1
    OBVIOUS
  <2> QED
    BY <2>1, MaxIs
<1> DEFINE F(f) == f = [S \in SUBSET {1} |-> target_step(v, e, d, f, S)]
           g == [S \in SUBSET {1} |-> IF S = {} THEN v ELSE TargetStep(v, e, d, v)]
<1>3. F(g)
  <2>1. ASSUME NEW S \in SUBSET {1}
        PROVE  (IF S = {} THEN v ELSE TargetStep(v, e, d, v)) = target_step(v, e, d, g, S)
    <3>1. CASE S = {}
      BY <3>1 DEF target_step
    <3>2. CASE S # {}
      <4>1. S = {1} /\ Max(S) = 1 /\ S \ {1} = {} /\ <<e>>[Max(S)] = e
        BY <3>2, <1>1, <1>2
      <4>2. g[S \ {Max(S)}] = v
        <5>1. g[{}] = v
          OBVIOUS
        <5> QED
          BY <4>1, <5>1
      <4> HIDE DEF g
      <4> QED
        BY <3>2, <4>1, <4>2 DEF target_step
    <3> QED
      BY <3>1, <3>2
  <2>2. g = [S \in SUBSET {1} |-> IF S = {} THEN v ELSE TargetStep(v, e, d, v)]
    OBVIOUS
  <2> HIDE DEF g
  <2> QED
    BY <2>1, <2>2
<1>4. targets_of(v, e, d) = CHOOSE f : F(f)
  BY <1>1 DEF targets_of
<1> DEFINE h == targets_of(v, e, d)
<1>5. F(h)
  <2> HIDE DEF F, g
  <2> QED
    BY <1>3, <1>4
<1>6. h[{1}] = target_step(v, e, d, h, {1}) /\ h[{}] = target_step(v, e, d, h, {})
  <2> HIDE DEF h
  <2>1. \A S \in SUBSET {1} : h[S] = target_step(v, e, d, h, S)
    BY <1>5
  <2> QED
    BY <2>1
<1>7. h[{}] = v
  BY <1>6 DEF target_step
<1>8. {1} \ {1} = {} /\ {1} # {}
  OBVIOUS
<1> HIDE DEF h
<1>9. h[{1}] = TargetStep(v, e, d, v)
  BY <1>6, <1>7, <1>8, <1>1, <1>2 DEF target_step
<1> QED
  BY <1>9, <1>1 DEF h

\* One target of br_table is checked against the stack without being counted.
LEMMA TargetDoes ==
  ASSUME NEW v, Sound(v), NEW e \in Nat, NEW d \in Nat
  PROVE  Does(v, TargetStep(v, e, d, v), 0, 0)
<1>1. v \in Validators
  BY DEF Sound
<1>2. CASE JumpOk(v, e) /\ Len(LabelTypes(Jump(v, e))) = Len(LabelTypes(Jump(v, d)))
  <2>1. LabelTypes(Jump(v, e)) \in Seq(ValTypes)
    BY <1>1, <1>2, LabelFacts
  <2> QED
    BY <1>2, <2>1, MatchDoes DEF TargetStep
<1>3. CASE ~(JumpOk(v, e) /\ Len(LabelTypes(Jump(v, e))) = Len(LabelTypes(Jump(v, d))))
  BY <1>1, <1>3, FailDoes DEF TargetStep
<1> QED
  BY <1>2, <1>3

\* visit_br_table pops its index and the types of the default label.
LEMMA VisitBrTableDoes ==
  ASSUME NEW vm, Sound(vm), NEW e \in Nat, NEW d \in Nat
  PROVE  Does(vm, visit_br_table(vm, <<e>>, d), 1 + LabelCount(vm, d), 0)
<1>1. PICK v : v = pop_operand(vm, I32)
  OBVIOUS
<1>2. vm \in Validators /\ Does(vm, v, 1, 0)
  BY <1>1, PopOperandDoes DEF Sound
<1>3. Sound(v) /\ v \in Validators
  BY <1>2, DoesIsSound DEF Does
<1>4. PICK w : w = TargetStep(v, e, d, v)
  OBVIOUS
<1>5. Does(v, w, 0, 0) /\ Sound(w)
  BY <1>3, <1>4, TargetDoes, DoesIsSound
<1>6. visit_br_table(vm, <<e>>, d) =
            IF JumpOk(v, d) THEN unreachable(PopAll(w, LabelTypes(Jump(v, d)))) ELSE Fail(v)
  <2>1. visit_br_table(vm, <<e>>, d) =
            IF JumpOk(v, d)
            THEN unreachable(PopAll(targets_of(v, e, d)[DOMAIN <<e>>], LabelTypes(Jump(v, d))))
            ELSE Fail(v)
    BY <1>1, TableUnfolds
  <2>2. targets_of(v, e, d)[DOMAIN <<e>>] = w
    BY <1>4, OneTarget
  <2> QED
    BY <2>1, <2>2
<1> DEFINE x == unreachable(PopAll(w, LabelTypes(Jump(v, d))))
<1>7. CASE ~JumpOk(v, d)
  BY <1>3, <1>6, <1>7, FailMoves
<1>8. CASE JumpOk(v, d)
  <2>1. LabelTypes(Jump(v, d)) \in Seq(ValTypes) /\ LabelCount(v, d) \in Nat
    BY <1>3, <1>8, LabelFacts
  <2>2. Does(w, x, LabelCount(v, d), 0)
    BY <1>5, <2>1, PopThenStops DEF LabelCount
  <2>3. Does(v, x, 0 + LabelCount(v, d), 0 + 0)
    BY <1>3, <1>5, <2>1, <2>2, DoesThenDoes
  <2>4. Does(v, x, LabelCount(v, d), 0)
    BY <2>1, <2>3
  <2>5. CASE v.ok
    <3>1. LabelCount(v, d) = LabelCount(vm, d)
      BY <1>2, <1>8, <2>5, SameLabels DEF LabelCount
    <3>2. Does(vm, x, 1 + LabelCount(vm, d), 0 + 0)
      BY <1>2, <2>1, <2>4, <3>1, DoesThenDoes
    <3> QED
      BY <1>6, <1>8, <3>2
  <2>6. CASE ~v.ok
    <3>1. x \in Validators /\ ~x.ok
      BY <2>4, <2>6 DEF Does
    <3> QED
      BY <1>6, <1>8, <3>1, NotOkMoves
  <2> QED
    BY <2>5, <2>6
<1> QED
  BY <1>7, <1>8

\* The non-null form of an operand is an operand.
LEMMA MaybeNonNullFacts ==
  ASSUME NEW t \in OperandTypes
  PROVE  MaybeNonNull(t) \in OperandTypes /\ (t \in ValTypes => MaybeNonNull(t) \in ValTypes)
<1>1. CASE t \in ValTypes
  BY <1>1, NullChange, ValuesAreOperands DEF MaybeNonNull, AsNonNull
<1>2. CASE t \notin ValTypes
  BY <1>2, ValuesAreOperands DEF MaybeNonNull
<1> QED
  BY <1>1, <1>2

\* visit_br_on_null pops and pushes its reference and the types of the label.
LEMMA VisitBrOnNullDoes ==
  ASSUME NEW vm, Sound(vm), NEW d \in Nat
  PROVE  Does(vm, visit_br_on_null(vm, d), 1 + LabelCount(vm, d), 1 + LabelCount(vm, d))
<1>1. PICK v : v = pop_any_ref(vm)
  OBVIOUS
<1>2. vm \in Validators /\ Does(vm, v, 1, 0) /\ PoppedOK(v)
  BY <1>1, PopAnyRefDoes DEF Sound
<1>3. Sound(v) /\ v \in Validators
  BY <1>2, DoesIsSound DEF Does
<1>4. CASE ~(v.ok /\ JumpOk(v, d))
  <2>1. visit_br_on_null(vm, d) = Fail(v)
    BY <1>1, <1>4 DEF visit_br_on_null
  <2> QED
    BY <1>3, <2>1, FailMoves
<1>5. CASE v.ok /\ JumpOk(v, d)
  <2>1. PICK x : x = pop_push_label_types(v, LabelTypes(Jump(v, d)))
    OBVIOUS
  <2>2. visit_br_on_null(vm, d) = push_operand(x, MaybeNonNull(v.popped))
    BY <1>1, <1>5, <2>1 DEF visit_br_on_null
  <2>3. LabelTypes(Jump(v, d)) \in Seq(ValTypes) /\ LabelCount(v, d) \in Nat
    BY <1>3, <1>5, LabelFacts
  <2>4. LabelCount(v, d) = LabelCount(vm, d)
    BY <1>2, <1>5, SameLabels DEF LabelCount
  <2>5. Does(v, x, LabelCount(vm, d), LabelCount(vm, d)) /\ Sound(x)
    BY <1>3, <2>1, <2>3, <2>4, PopPushDoes, DoesIsSound DEF LabelCount
  <2>6. v.popped \in OperandTypes
    BY <1>3, Fields
  <2>7. MaybeNonNull(v.popped) \in OperandTypes
        /\ (v.popped \in ValTypes => MaybeNonNull(v.popped) \in ValTypes)
    BY <2>6, MaybeNonNullFacts
  <2>8. x.ok => Dead(x) \/ MaybeNonNull(v.popped) \in ValTypes
    BY <1>2, <1>3, <1>5, <2>5, <2>7, DeadStays DEF PoppedOK
  <2>9. Does(x, push_operand(x, MaybeNonNull(v.popped)), 0, 1)
    BY <2>5, <2>7, <2>8, PushOperandDoes
  <2>10. Does(vm, x, 1 + LabelCount(vm, d), 0 + LabelCount(vm, d))
    BY <1>2, <2>3, <2>4, <2>5, DoesThenDoes
  <2>11. Does(vm, push_operand(x, MaybeNonNull(v.popped)),
              (1 + LabelCount(vm, d)) + 0, (0 + LabelCount(vm, d)) + 1)
    <3>1. 1 + LabelCount(vm, d) \in Nat /\ 0 + LabelCount(vm, d) \in Nat
      BY <2>3, <2>4
    <3> QED
      BY <1>2, <2>9, <2>10, <3>1, DoesThenDoes
  <2>12. (1 + LabelCount(vm, d)) + 0 = 1 + LabelCount(vm, d)
         /\ (0 + LabelCount(vm, d)) + 1 = 1 + LabelCount(vm, d)
    BY <2>3, <2>4
  <2> QED
    BY <2>2, <2>11, <2>12
<1> QED
  BY <1>4, <1>5

\* A label whose last type is a reference.
LEMMA LabelEndFacts ==
  ASSUME NEW vm \in Validators, NEW d \in Nat, EndsWithRef(vm, d)
  PROVE  /\ JumpOk(vm, d) /\ LabelCount(vm, d) \in Nat \ {0}
         /\ Last(LabelTypes(Jump(vm, d))) \in ValTypes
         /\ Front(LabelTypes(Jump(vm, d))) \in Seq(ValTypes)
         /\ Len(Front(LabelTypes(Jump(vm, d)))) = LabelCount(vm, d) - 1
<1>1. JumpOk(vm, d) /\ LabelTypes(Jump(vm, d)) # <<>>
  BY DEF EndsWithRef
<1>2. LabelTypes(Jump(vm, d)) \in Seq(ValTypes)
  BY <1>1, LabelFacts
<1> QED
  BY <1>1, <1>2, FrontFacts DEF LabelCount

\* Popping one operand and then exchanging the types of the label but the last.
LEMMA PopThenExchange ==
  ASSUME NEW vm \in Validators, NEW v, Does(vm, v, 1, 0),
         NEW ts \in Seq(ValTypes), NEW n \in Nat \ {0}, Len(ts) = n - 1
  PROVE  Does(vm, pop_push_label_types(v, ts), n, n - 1)
<1>1. Sound(v)
  BY DoesIsSound
<1>2. Does(v, pop_push_label_types(v, ts), n - 1, n - 1) /\ n - 1 \in Nat
  BY <1>1, PopPushDoes
<1>3. Does(vm, pop_push_label_types(v, ts), 1 + (n - 1), 0 + (n - 1))
  BY <1>2, DoesThenDoes
<1>4. 1 + (n - 1) = n /\ 0 + (n - 1) = n - 1
  OBVIOUS
<1> QED
  BY <1>3, <1>4

\* visit_br_on_non_null pops its reference, which is the label's last type.
LEMMA VisitBrOnNonNullDoes ==
  ASSUME NEW vm, Sound(vm), NEW d \in Nat
  PROVE  Does(vm, visit_br_on_non_null(vm, d), LabelCount(vm, d), LabelCount(vm, d) - 1)
<1>1. vm \in Validators
  BY DEF Sound
<1>2. CASE EndsWithRef(vm, d)
  <2>1. Does(vm, pop_ref(vm, AsNullable(Last(LabelTypes(Jump(vm, d))))), 1, 0)
    BY PopRefDoes
  <2>2. visit_br_on_non_null(vm, d) =
          pop_push_label_types(pop_ref(vm, AsNullable(Last(LabelTypes(Jump(vm, d))))),
                               Front(LabelTypes(Jump(vm, d))))
    BY <1>2 DEF visit_br_on_non_null
  <2> QED
    BY <1>1, <1>2, <2>1, <2>2, LabelEndFacts, PopThenExchange
<1>3. CASE ~EndsWithRef(vm, d)
  BY <1>1, <1>3, FailMoves DEF visit_br_on_non_null
<1> QED
  BY <1>2, <1>3

\* The common part of br_on_cast and br_on_cast_fail.
LEMMA BranchOnCastDoes ==
  ASSUME NEW vm, Sound(vm), NEW d \in Nat, NEW from, NEW taken, NEW kept \in ValTypes
  PROVE  Does(vm, BranchOnCast(vm, d, from, taken, kept), LabelCount(vm, d), LabelCount(vm, d))
<1>1. vm \in Validators
  BY DEF Sound
<1>2. CASE EndsWithRef(vm, d) /\ IsSubtype(Types, taken, Last(LabelTypes(Jump(vm, d))))
  <2>1. Does(vm, pop_operand(vm, from), 1, 0)
    BY PopOperandDoes
  <2>2. PICK x : x = pop_push_label_types(pop_operand(vm, from), Front(LabelTypes(Jump(vm, d))))
    OBVIOUS
  <2>3. BranchOnCast(vm, d, from, taken, kept) = push_operand(x, kept)
    BY <1>2, <2>2 DEF BranchOnCast
  <2>4. Does(vm, x, LabelCount(vm, d), LabelCount(vm, d) - 1) /\ LabelCount(vm, d) \in Nat \ {0}
    BY <1>1, <1>2, <2>1, <2>2, LabelEndFacts, PopThenExchange
  <2>5. Does(x, push_operand(x, kept), 0, 1)
    BY <2>4, DoesIsSound, PushOperandDoes, ValuesAreOperands
  <2>6. LabelCount(vm, d) - 1 \in Nat /\ LabelCount(vm, d) + 0 = LabelCount(vm, d)
        /\ (LabelCount(vm, d) - 1) + 1 = LabelCount(vm, d)
    BY <2>4
  <2>7. Does(vm, push_operand(x, kept), LabelCount(vm, d) + 0, (LabelCount(vm, d) - 1) + 1)
    BY <1>1, <2>4, <2>5, <2>6, DoesThenDoes
  <2> QED
    BY <2>3, <2>6, <2>7
<1>3. CASE ~(EndsWithRef(vm, d) /\ IsSubtype(Types, taken, Last(LabelTypes(Jump(vm, d)))))
  BY <1>1, <1>3, FailMoves DEF BranchOnCast
<1> QED
  BY <1>2, <1>3

\* The types of a cast are value types, and so is what remains when it fails.
LEMMA CastFacts ==
  ASSUME NEW from \in RefTypes, NEW to \in RefTypes, CastTypesOk(from, to)
  PROVE  from \in ValTypes /\ to \in ValTypes /\ Difference(from, to) \in ValTypes
<1>1. from \in ParsedTypes /\ to \in ParsedTypes
  BY OperatorAssumption
<1>2. from \in ValTypes /\ to \in ValTypes
  BY <1>1, CheckedIsValue DEF CastTypesOk
<1>3. (IF to.null THEN FALSE ELSE from.null) \in BOOLEAN
  BY <1>1 DEF ParsedTypes, TypesOfKind
<1> QED
  BY <1>2, <1>3, NullChange DEF Difference

\* visit_br_on_cast and visit_br_on_cast_fail exchange the types of the label.
LEMMA VisitBrOnCastDoes ==
  ASSUME NEW vm, Sound(vm), NEW d \in Nat, NEW from \in RefTypes, NEW to \in RefTypes
  PROVE  /\ Does(vm, visit_br_on_cast(vm, d, from, to), LabelCount(vm, d), LabelCount(vm, d))
         /\ Does(vm, visit_br_on_cast_fail(vm, d, from, to), LabelCount(vm, d), LabelCount(vm, d))
<1>1. vm \in Validators
  BY DEF Sound
<1>2. CASE CastTypesOk(from, to)
  <2>1. to \in ValTypes /\ Difference(from, to) \in ValTypes
    BY <1>2, CastFacts
  <2> QED
    BY <1>2, <2>1, BranchOnCastDoes DEF visit_br_on_cast, visit_br_on_cast_fail
<1>3. CASE ~CastTypesOk(from, to)
  BY <1>1, <1>3, FailMoves DEF visit_br_on_cast, visit_br_on_cast_fail
<1> QED
  BY <1>2, <1>3

-----------------------------------------------------------------------------
(* Returns and calls.                                                        *)

ReturnCount(vm) == Len(Results(Head(vm.control).block_type))

\* The outermost frame.
LEMMA OutermostFacts ==
  ASSUME NEW vm \in Validators, vm.control # <<>>
  PROVE  /\ Head(vm.control) = vm.control[1] /\ 1 \in 1..Len(vm.control)
         /\ Results(Head(vm.control).block_type) \in Seq(ValTypes) /\ ReturnCount(vm) \in Nat
<1>1. vm.control \in Seq(Frames) /\ Len(vm.control) \in Nat /\ Len(vm.control) # 0
  BY Fields
<1>2. 1 \in 1..Len(vm.control) /\ Head(vm.control) = vm.control[1]
  BY <1>1
<1>3. vm.control[1].block_type \in Blocks
  BY <1>2, Fields
<1> QED
  BY <1>2, <1>3, BlockFacts DEF ReturnCount

\* The results of the function stay the same while a visitor works within a frame.
LEMMA SameReturn ==
  ASSUME NEW vm \in Validators, NEW v, NEW p, NEW q, Does(vm, v, p, q), v.ok
  PROVE  /\ v.control = <<>> <=> vm.control = <<>>
         /\ vm.control # <<>> => ReturnCount(v) = ReturnCount(vm)
<1>1. v \in Validators /\ Len(v.control) = Len(vm.control)
  BY DEF Does, SameFrames
<1>2. v.control = <<>> <=> vm.control = <<>>
  <2>1. vm.control = <<>> <=> Len(vm.control) = 0
    BY Fields
  <2>2. v.control = <<>> <=> Len(v.control) = 0
    BY <1>1, Fields
  <2> QED
    BY <1>1, <2>1, <2>2
<1>3. ASSUME vm.control # <<>> PROVE ReturnCount(v) = ReturnCount(vm)
  <2>1. Head(vm.control) = vm.control[1] /\ 1 \in 1..Len(vm.control)
    BY <1>3, OutermostFacts
  <2>2. Head(v.control) = v.control[1]
    BY <1>1, <1>2, <1>3, OutermostFacts
  <2>3. v.control[1].block_type = vm.control[1].block_type
    BY <2>1 DEF Does, SameFrames
  <2> QED
    BY <2>1, <2>2, <2>3 DEF ReturnCount
<1> QED
  BY <1>2, <1>3

\* check_return pops the results of the outermost frame.
LEMMA CheckReturnDoes ==
  ASSUME NEW vm, Sound(vm)
  PROVE  Does(vm, check_return(vm), ReturnCount(vm), 0)
<1>1. vm \in Validators
  BY DEF Sound
<1>2. CASE ~vm.ok \/ vm.control = <<>>
  BY <1>1, <1>2, FailMoves DEF check_return
<1>3. CASE vm.ok /\ vm.control # <<>>
  BY <1>1, <1>3, OutermostFacts, PopThenStops DEF check_return, ReturnCount
<1> QED
  BY <1>2, <1>3

\* check_call_ty pops the parameters and pushes the results.
LEMMA CheckCallDoes ==
  ASSUME NEW vm, Sound(vm), NEW ft, ft.params \in Seq(ValTypes), ft.results \in Seq(ValTypes)
  PROVE  Does(vm, check_call_ty(vm, ft), Len(ft.params), Len(ft.results))
<1>1. Does(vm, PopAll(vm, ft.params), Len(ft.params), 0)
      /\ Len(ft.params) \in Nat /\ Len(ft.results) \in Nat
  BY PopAllDoes, ListOfValues
<1>2. Sound(PopAll(vm, ft.params))
  BY <1>1, DoesIsSound
<1>3. Does(PopAll(vm, ft.params), PushAll(PopAll(vm, ft.params), ft.results), 0, Len(ft.results))
  BY <1>2, PushValues
<1>4. vm \in Validators
  BY DEF Sound
<1>5. Does(vm, PushAll(PopAll(vm, ft.params), ft.results), Len(ft.params) + 0, 0 + Len(ft.results))
  BY <1>1, <1>3, <1>4, DoesThenDoes
<1> QED
  BY <1>1, <1>5 DEF check_call_ty

\* check_return_call_ty pops the parameters and returns.
LEMMA CheckReturnCallDoes ==
  ASSUME NEW vm, Sound(vm), NEW ft, ft.params \in Seq(ValTypes), ft.results \in Seq(ValTypes)
  PROVE  Does(vm, check_return_call_ty(vm, ft), Len(ft.params), 0)
<1>1. vm \in Validators /\ Len(ft.params) \in Nat /\ Len(ft.results) \in Nat
  BY ListOfValues DEF Sound
<1>2. CASE ~vm.ok \/ vm.control = <<>>
  BY <1>1, <1>2, FailMoves DEF check_return_call_ty
<1>3. CASE vm.ok /\ vm.control # <<>>
  <2>1. PICK u : u = Require(vm, IsSubtypeMany(Types, ft.results, Results(Head(vm.control).block_type)))
    OBVIOUS
  <2>2. PICK v : v = PopAll(u, ft.params)
    OBVIOUS
  <2>3. PICK w : w = PushAll(v, ft.results)
    OBVIOUS
  <2>4. check_return_call_ty(vm, ft) = Uncounted(check_return(w), v)
    BY <1>3, <2>1, <2>2, <2>3 DEF check_return_call_ty
  <2>5. Does(vm, u, 0, 0)
    BY <2>1, RequireDoes
  <2>6. Does(u, v, Len(ft.params), 0)
    BY <2>2, <2>5, DoesIsSound, PopAllDoes
  <2>7. Does(v, w, 0, Len(ft.results))
    BY <2>3, <2>6, DoesIsSound, PushValues
  <2>8. Does(w, check_return(w), ReturnCount(w), 0)
    BY <2>7, DoesIsSound, CheckReturnDoes
  <2>9. v \in Validators /\ w \in Validators /\ u \in Validators
    BY <2>5, <2>6, <2>7 DEF Does
  <2>10. \E p, q : Does(v, check_return(w), p, q)
    <3>1. CASE w.ok /\ w.control # <<>>
      <4>1. ReturnCount(w) \in Nat
        BY <2>9, <3>1, OutermostFacts
      <4>2. Does(v, check_return(w), 0 + ReturnCount(w), Len(ft.results) + 0)
        BY <1>1, <2>7, <2>8, <2>9, <4>1, DoesThenDoes
      <4> QED
        BY <4>2
    <3>2. CASE ~(w.ok /\ w.control # <<>>)
      <4>1. Does(v, check_return(w), 0, 0)
        BY <2>9, <3>2, FailMoves DEF check_return
      <4> QED
        BY <4>1
    <3> QED
      BY <3>1, <3>2
  <2>11. Does(v, Uncounted(check_return(w), v), 0, 0)
    BY <2>9, <2>10, UncountedDoes
  <2>12. Does(vm, v, 0 + Len(ft.params), 0 + 0)
    BY <1>1, <2>5, <2>6, DoesThenDoes
  <2>13. Does(vm, v, Len(ft.params), 0)
    BY <1>1, <2>12
  <2>14. Does(vm, Uncounted(check_return(w), v), Len(ft.params) + 0, 0 + 0)
    BY <1>1, <2>11, <2>13, DoesThenDoes
  <2> QED
    BY <1>1, <2>4, <2>14
<1> QED
  BY <1>2, <1>3

\* visit_call and visit_return_call.
LEMMA VisitCallDoes ==
  ASSUME NEW vm, Sound(vm), NEW f
  PROVE  /\ Does(vm, visit_call(vm, f), Len(Types[Funcs[f]].params), Len(Types[Funcs[f]].results))
         /\ Does(vm, visit_return_call(vm, f), Len(Types[Funcs[f]].params), 0)
<1>1. vm \in Validators
  BY DEF Sound
<1>2. CASE f \in 1..Len(Funcs) /\ TypeAt(Funcs[f], "func")
  <2>1. Funcs[f] \in 1..Len(Types)
    BY <1>2 DEF TypeAt
  <2>2. Types[Funcs[f]].params \in Seq(ValTypes) /\ Types[Funcs[f]].results \in Seq(ValTypes)
    BY <2>1, TypeFacts
  <2> QED
    BY <1>2, <2>2, CheckCallDoes, CheckReturnCallDoes DEF visit_call, visit_return_call
<1>3. CASE ~(f \in 1..Len(Funcs) /\ TypeAt(Funcs[f], "func"))
  BY <1>1, <1>3, FailMoves DEF visit_call, visit_return_call
<1> QED
  BY <1>2, <1>3

\* The call that follows the check of the callee.
LEMMA InvokeDoes ==
  ASSUME NEW vm \in Validators, NEW v, Does(vm, v, 1, 0), NEW i \in 1..Len(Types)
  PROVE  /\ Does(vm, Invoke(v, i, FALSE), 1 + Len(Types[i].params), Len(Types[i].results))
         /\ Does(vm, Invoke(v, i, TRUE), 1 + Len(Types[i].params), 0)
<1>1. v \in Validators /\ Sound(v)
  BY DoesIsSound DEF Does
<1>2. Types[i].params \in Seq(ValTypes) /\ Types[i].results \in Seq(ValTypes)
      /\ Len(Types[i].params) \in Nat /\ Len(Types[i].results) \in Nat
  BY TypeFacts
<1>3. CASE ~v.ok
  BY <1>1, <1>3, NotOkMoves DEF Invoke
<1>4. CASE v.ok
  <2>1. Does(v, check_call_ty(v, Types[i]), Len(Types[i].params), Len(Types[i].results))
    BY <1>1, <1>2, CheckCallDoes
  <2>2. Does(v, check_return_call_ty(v, Types[i]), Len(Types[i].params), 0)
    BY <1>1, <1>2, CheckReturnCallDoes
  <2>3. Does(vm, check_call_ty(v, Types[i]), 1 + Len(Types[i].params), 0 + Len(Types[i].results))
    BY <1>2, <2>1, DoesThenDoes
  <2>4. Does(vm, check_return_call_ty(v, Types[i]), 1 + Len(Types[i].params), 0 + 0)
    BY <1>2, <2>2, DoesThenDoes
  <2> QED
    BY <1>2, <1>4, <2>3, <2>4 DEF Invoke
<1> QED
  BY <1>3, <1>4

\* visit_call_ref and visit_return_call_ref pop the callee and the parameters.
LEMMA VisitCallRefDoes ==
  ASSUME NEW vm, Sound(vm), NEW i \in 1..Len(Types)
  PROVE  /\ Does(vm, visit_call_ref(vm, i, FALSE), 1 + Len(Types[i].params), Len(Types[i].results))
         /\ Does(vm, visit_call_ref(vm, i, TRUE), 1 + Len(Types[i].params), 0)
<1>1. vm \in Validators
  BY DEF Sound
<1>2. PICK u : u = Require(vm, TypeAt(i, "func"))
  OBVIOUS
<1>3. Does(vm, u, 0, 0) /\ Sound(u)
  BY <1>2, RequireDoes, DoesIsSound
<1>4. Does(u, check_call_ref_ty(vm, i), 1, 0)
  BY <1>2, <1>3, PopRefDoes DEF check_call_ref_ty
<1>5. Does(vm, check_call_ref_ty(vm, i), 0 + 1, 0 + 0)
  BY <1>1, <1>3, <1>4, DoesThenDoes
<1>6. Does(vm, check_call_ref_ty(vm, i), 1, 0)
  BY <1>5
<1> QED
  BY <1>1, <1>6, InvokeDoes DEF visit_call_ref

\* visit_call_indirect and visit_return_call_indirect pop the index and the parameters.
LEMMA VisitCallIndirectDoes ==
  ASSUME NEW vm, Sound(vm), NEW i \in 1..Len(Types), NEW t
  PROVE  /\ Does(vm, visit_call_indirect(vm, i, t, FALSE), 1 + Len(Types[i].params), Len(Types[i].results))
         /\ Does(vm, visit_call_indirect(vm, i, t, TRUE), 1 + Len(Types[i].params), 0)
<1>1. vm \in Validators
  BY DEF Sound
<1>2. Does(vm, check_call_indirect_ty(vm, i, t), 1, 0)
  <2>1. CASE ~TableAt(t)
    BY <1>1, <2>1, FailMoves DEF check_call_indirect_ty
  <2>2. CASE TableAt(t)
    <3>1. PICK u : u = Require(vm, IsSubtype(Types, Tables[t].elem, NullRef("func")))
      OBVIOUS
    <3>2. PICK v : v = pop_operand(u, Tables[t].index)
      OBVIOUS
    <3>3. Does(vm, u, 0, 0) /\ Sound(u)
      BY <3>1, RequireDoes, DoesIsSound
    <3>4. Does(u, v, 1, 0) /\ Sound(v)
      BY <3>2, <3>3, PopOperandDoes, DoesIsSound
    <3>5. Does(v, check_call_indirect_ty(vm, i, t), 0, 0)
      BY <2>2, <3>1, <3>2, <3>4, RequireDoes DEF check_call_indirect_ty
    <3>6. Does(vm, v, 0 + 1, 0 + 0)
      BY <1>1, <3>3, <3>4, DoesThenDoes
    <3>7. Does(vm, v, 1, 0)
      BY <3>6
    <3>8. Does(vm, check_call_indirect_ty(vm, i, t), 1 + 0, 0 + 0)
      BY <1>1, <3>5, <3>7, DoesThenDoes
    <3> QED
      BY <3>8
  <2> QED
    BY <2>1, <2>2
<1> QED
  BY <1>1, <1>2, InvokeDoes DEF visit_call_indirect

\* visit_throw, visit_throw_ref and visit_rethrow.
LEMMA ExceptionsDo ==
  ASSUME NEW vm, Sound(vm), NEW t, NEW d
  PROVE  /\ Does(vm, visit_throw(vm, t), Len(TagType(t).params), 0)
         /\ Does(vm, visit_throw_ref(vm), 1, 0)
         /\ Does(vm, visit_rethrow(vm, d), 0, 0)
<1>1. vm \in Validators
  BY DEF Sound
<1>2. Does(vm, visit_throw(vm, t), Len(TagType(t).params), 0)
  <2>1. CASE ExceptionTagAt(t)
    BY <2>1, TagFacts, PopThenStops DEF visit_throw, ExceptionTagAt
  <2>2. CASE ~ExceptionTagAt(t)
    BY <1>1, <2>2, FailMoves DEF visit_throw
  <2> QED
    BY <2>1, <2>2
<1>3. Does(vm, visit_throw_ref(vm), 1, 0)
  <2>1. PICK v : v = pop_operand(vm, NullRef("exn"))
    OBVIOUS
  <2>2. Does(vm, v, 1, 0) /\ Sound(v)
    BY <2>1, PopOperandDoes, DoesIsSound
  <2>3. Does(v, unreachable(v), 0, 0)
    BY <2>2, UnreachableDoes
  <2>4. Does(vm, unreachable(v), 1 + 0, 0 + 0)
    BY <1>1, <2>2, <2>3, DoesThenDoes
  <2> QED
    BY <2>1, <2>4 DEF visit_throw_ref
<1>4. Does(vm, visit_rethrow(vm, d), 0, 0)
  <2>1. visit_rethrow(vm, d) = unreachable(vm) \/ visit_rethrow(vm, d) = Fail(vm)
    BY DEF visit_rethrow
  <2> QED
    BY <1>1, <2>1, UnreachableDoes, FailMoves
<1> QED
  BY <1>2, <1>3, <1>4

-----------------------------------------------------------------------------
\* The function type of a continuation, and its announced arity.
LEMMA ContFacts ==
  ASSUME NEW i \in 1..Len(Types), Types[i].kind = "cont"
  PROVE  /\ Types[i].func \in 1..Len(Types)
         /\ FuncTypeOfCont(i).params \in Seq(ValTypes) /\ FuncTypeOfCont(i).results \in Seq(ValTypes)
         /\ Len(FuncTypeOfCont(i).params) \in Nat /\ Len(FuncTypeOfCont(i).results) \in Nat
         /\ sub_type_arity(i) = <<Len(FuncTypeOfCont(i).params), Len(FuncTypeOfCont(i).results)>>
<1>1. Types[i].func \in FuncTypeIds
  BY TypeFacts
<1>2. sub_type_arity(i) = <<Len(FuncTypeOfCont(i).params), Len(FuncTypeOfCont(i).results)>>
  BY DEF sub_type_arity
<1> QED
  BY <1>1, <1>2, FuncFacts DEF FuncTypeOfCont

\* visit_cont_new.
LEMMA VisitContNewDoes ==
  ASSUME NEW vm, Sound(vm), NEW i \in 1..Len(Types)
  PROVE  Does(vm, visit_cont_new(vm, i), 1, 1)
<1>1. vm \in Validators
  BY DEF Sound
<1>2. CASE TypeAt(i, "cont")
  <2>1. PICK v : v = pop_ref(vm, ConcreteRef(TRUE, Types[i].func))
    OBVIOUS
  <2>2. Does(vm, v, 1, 0) /\ Sound(v)
    BY <2>1, PopRefDoes, DoesIsSound
  <2>3. ConcreteRef(FALSE, i) \in ValTypes /\ ConcreteRef(FALSE, i) \in OperandTypes
    BY ConcreteIsValue, ValuesAreOperands
  <2>4. Does(v, push_operand(v, ConcreteRef(FALSE, i)), 0, 1)
    BY <2>2, <2>3, PushOperandDoes
  <2>5. Does(vm, push_operand(v, ConcreteRef(FALSE, i)), 1 + 0, 0 + 1)
    BY <1>1, <2>2, <2>4, DoesThenDoes
  <2>6. Does(vm, push_operand(v, ConcreteRef(FALSE, i)), 1, 1)
    <3>1. 1 + 0 = 1 /\ 0 + 1 = 1
      OBVIOUS
    <3> QED
      BY <2>5, <3>1
  <2>7. visit_cont_new(vm, i) = push_operand(v, ConcreteRef(FALSE, i))
    BY <1>2, <2>1 DEF visit_cont_new, push_concrete_ref
  <2> QED
    BY <2>6, <2>7
<1>3. CASE ~TypeAt(i, "cont")
  BY <1>1, <1>3, FailMoves DEF visit_cont_new
<1> QED
  BY <1>2, <1>3

\* A continuation and then a list of values are popped.
LEMMA PopContThenPops ==
  ASSUME NEW vm, Sound(vm), NEW i, NEW ts \in Seq(ValTypes), NEW w,
         w = PopAll(pop_concrete_ref(vm, TRUE, i), ts)
  PROVE  Does(vm, w, 1 + Len(ts), 0) /\ Sound(w) /\ Len(ts) \in Nat
<1>1. vm \in Validators
  BY DEF Sound
<1>2. PICK v : v = pop_concrete_ref(vm, TRUE, i)
  OBVIOUS
<1>3. Does(vm, v, 1, 0) /\ Sound(v)
  BY <1>2, PopOperandDoes, DoesIsSound DEF pop_concrete_ref
<1>4. Does(v, w, Len(ts), 0) /\ Len(ts) \in Nat
  BY <1>2, <1>3, PopAllDoes, ListOfValues
<1>5. Does(vm, w, 1 + Len(ts), 0 + 0)
  BY <1>1, <1>3, <1>4, DoesThenDoes
<1>6. Does(vm, w, 1 + Len(ts), 0)
  <2>1. 0 + 0 = 0
    OBVIOUS
  <2> QED
    BY <1>5, <2>1
<1> QED
  BY <1>4, <1>6, DoesIsSound

\* A continuation and a list of values are popped, another list is pushed.
LEMMA PopContPopPush ==
  ASSUME NEW vm, Sound(vm), NEW i, NEW ts \in Seq(ValTypes), NEW rs \in Seq(ValTypes)
  PROVE  Does(vm, PushAll(PopAll(pop_concrete_ref(vm, TRUE, i), ts), rs), 1 + Len(ts), Len(rs))
<1>1. PICK w : w = PopAll(pop_concrete_ref(vm, TRUE, i), ts)
  OBVIOUS
<1>2. Does(vm, w, 1 + Len(ts), 0) /\ Sound(w) /\ Len(ts) \in Nat
  BY <1>1, PopContThenPops
<1>3. Does(w, PushAll(w, rs), 0, Len(rs)) /\ Len(rs) \in Nat
  BY <1>2, PushValues, ListOfValues
<1>4. vm \in Validators /\ 1 + Len(ts) \in Nat
  BY <1>2 DEF Sound
<1>5. Does(vm, PushAll(w, rs), (1 + Len(ts)) + 0, 0 + Len(rs))
  BY <1>2, <1>3, <1>4, DoesThenDoes
<1>6. (1 + Len(ts)) + 0 = 1 + Len(ts) /\ 0 + Len(rs) = Len(rs)
  BY <1>2, <1>3
<1> QED
  BY <1>1, <1>5, <1>6

-----------------------------------------------------------------------------
(* Continuations, proposals and locals.                                      *)

\* visit_cont_bind pops the continuation and the parameters it supplies.
LEMMA VisitContBindDoes ==
  ASSUME NEW vm, Sound(vm), NEW i \in 1..Len(Types), NEW r \in 1..Len(Types),
         NEW n, TypeAt(i, "cont") /\ TypeAt(r, "cont")
                  => n = Len(FuncTypeOfCont(i).params) - Len(FuncTypeOfCont(r).params)
  PROVE  Does(vm, visit_cont_bind(vm, i, r), 1 + n, 1)
<1>1. vm \in Validators
  BY DEF Sound
<1>2. CASE ~TypeAt(i, "cont") \/ ~TypeAt(r, "cont")
  BY <1>1, <1>2, FailMoves DEF visit_cont_bind
<1>3. CASE TypeAt(i, "cont") /\ TypeAt(r, "cont")
  <2>1. /\ FuncTypeOfCont(i).params \in Seq(ValTypes) /\ Len(FuncTypeOfCont(i).params) \in Nat
        /\ Len(FuncTypeOfCont(r).params) \in Nat
    BY <1>3, ContFacts DEF TypeAt
  <2> DEFINE arg == FuncTypeOfCont(i)
             res == FuncTypeOfCont(r)
             fits == /\ n >= 0
                     /\ IsSubtypeMany(Types, res.params, SubSeq(arg.params, n + 1, Len(arg.params)))
                     /\ IsSubtypeMany(Types, arg.results, res.results)
             w == PopAll(pop_concrete_ref(vm, TRUE, i), SubSeq(arg.params, 1, n))
  <2>2. n = Len(arg.params) - Len(res.params)
    BY <1>3
  <2>3. visit_cont_bind(vm, i, r) = IF fits THEN push_concrete_ref(w, FALSE, r) ELSE Fail(vm)
    BY <1>3, <2>2 DEF visit_cont_bind
  <2>4. CASE ~fits
    <3> HIDE DEF fits, w
    <3> QED
      BY <1>1, <2>3, <2>4, FailMoves
  <2>5. CASE fits
    <3>1. n \in Nat /\ n <= Len(arg.params)
      <4>1. n >= 0
        BY <2>5
      <4>2. PICK a, b : a = Len(arg.params) /\ b = Len(res.params)
        OBVIOUS
      <4>3. a \in Nat /\ b \in Nat /\ n = a - b
        BY <2>1, <2>2, <4>2
      <4>4. n \in Nat /\ n <= a
        BY <4>1, <4>3
      <4> QED
        BY <4>2, <4>4
    <3>2. SubSeq(arg.params, 1, n) \in Seq(ValTypes) /\ Len(SubSeq(arg.params, 1, n)) = n
      BY <2>1, <3>1, PrefixFacts
    <3>3. Does(vm, w, 1 + Len(SubSeq(arg.params, 1, n)), 0) /\ Sound(w)
      BY <3>2, PopContThenPops
    <3>4. Does(vm, w, 1 + n, 0) /\ Sound(w)
      BY <3>2, <3>3
    <3>5. ConcreteRef(FALSE, r) \in ValTypes /\ ConcreteRef(FALSE, r) \in OperandTypes
      BY ConcreteIsValue, ValuesAreOperands
    <3> HIDE DEF w, fits
    <3>6. Does(w, push_operand(w, ConcreteRef(FALSE, r)), 0, 1)
      BY <3>4, <3>5, PushOperandDoes
    <3>7. 1 + n \in Nat /\ (1 + n) + 0 = 1 + n /\ 0 + 1 = 1
      BY <3>1
    <3>8. Does(vm, push_operand(w, ConcreteRef(FALSE, r)), (1 + n) + 0, 0 + 1)
      BY <1>1, <3>4, <3>6, <3>7, DoesThenDoes
    <3>9. visit_cont_bind(vm, i, r) = push_operand(w, ConcreteRef(FALSE, r))
      BY <2>3, <2>5 DEF push_concrete_ref
    <3> QED
      BY <3>7, <3>8, <3>9
  <2> QED
    BY <2>4, <2>5
<1> QED
  BY <1>2, <1>3

\* visit_suspend.
LEMMA VisitSuspendDoes ==
  ASSUME NEW vm, Sound(vm), NEW t
  PROVE  Does(vm, visit_suspend(vm, t), Len(TagType(t).params), Len(TagType(t).results))
<1>1. vm \in Validators
  BY DEF Sound
<1>2. CASE TagAt(t)
  BY <1>2, TagFacts, CheckCallDoes DEF visit_suspend
<1>3. CASE ~TagAt(t)
  BY <1>1, <1>3, FailMoves DEF visit_suspend
<1> QED
  BY <1>2, <1>3

\* visit_resume and visit_resume_throw.
LEMMA VisitResumeDoes ==
  ASSUME NEW vm, Sound(vm), NEW i \in 1..Len(Types), NEW t, NEW hs
  PROVE  /\ Does(vm, visit_resume(vm, i, hs),
                 1 + Len(FuncTypeOfCont(i).params), Len(FuncTypeOfCont(i).results))
         /\ Does(vm, visit_resume_throw(vm, i, t, hs),
                 1 + Len(TagType(t).params), Len(FuncTypeOfCont(i).results))
<1>1. vm \in Validators
  BY DEF Sound
<1>2. Does(vm, visit_resume(vm, i, hs),
           1 + Len(FuncTypeOfCont(i).params), Len(FuncTypeOfCont(i).results))
  <2>1. CASE ResumeTableOk(vm, i, hs)
    <3>1. FuncTypeOfCont(i).params \in Seq(ValTypes) /\ FuncTypeOfCont(i).results \in Seq(ValTypes)
      BY <2>1, ContFacts DEF ResumeTableOk, TypeAt
    <3>2. visit_resume(vm, i, hs) =
            PushAll(PopAll(pop_concrete_ref(vm, TRUE, i), FuncTypeOfCont(i).params),
                    FuncTypeOfCont(i).results)
      BY <2>1 DEF visit_resume, check_call_ty
    <3> QED
      BY <3>1, <3>2, PopContPopPush
  <2>2. CASE ~ResumeTableOk(vm, i, hs)
    BY <1>1, <2>2, FailMoves DEF visit_resume
  <2> QED
    BY <2>1, <2>2
<1>3. Does(vm, visit_resume_throw(vm, i, t, hs),
           1 + Len(TagType(t).params), Len(FuncTypeOfCont(i).results))
  <2>1. CASE ResumeTableOk(vm, i, hs) /\ ExceptionTagAt(t)
    <3>1. FuncTypeOfCont(i).results \in Seq(ValTypes)
      BY <2>1, ContFacts DEF ResumeTableOk, TypeAt
    <3>2. TagType(t).params \in Seq(ValTypes)
      BY <2>1, TagFacts DEF ExceptionTagAt
    <3>3. visit_resume_throw(vm, i, t, hs) =
            PushAll(PopAll(pop_concrete_ref(vm, TRUE, i), TagType(t).params),
                    FuncTypeOfCont(i).results)
      BY <2>1 DEF visit_resume_throw
    <3> QED
      BY <3>1, <3>2, <3>3, PopContPopPush
  <2>2. CASE ~(ResumeTableOk(vm, i, hs) /\ ExceptionTagAt(t))
    BY <1>1, <2>2, FailMoves DEF visit_resume_throw
  <2> QED
    BY <2>1, <2>2
<1> QED
  BY <1>2, <1>3

\* The continuation type that a switch from type i goes to.
SwitchTarget(i) == Last(FuncTypeOfCont(i).params).id

\* What the checks of visit_switch establish.
LEMMA SwitchFacts ==
  ASSUME NEW i \in 1..Len(Types), NEW t, SwitchOk(i, t)
  PROVE  /\ FuncTypeOfCont(i).params \in Seq(ValTypes)
         /\ Len(FuncTypeOfCont(i).params) \in Nat \ {0}
         /\ Front(FuncTypeOfCont(i).params) \in Seq(ValTypes)
         /\ Len(Front(FuncTypeOfCont(i).params)) = Len(FuncTypeOfCont(i).params) - 1
         /\ SwitchTarget(i) \in 1..Len(Types) /\ Types[SwitchTarget(i)].kind = "cont"
         /\ FuncTypeOfCont(SwitchTarget(i)).params \in Seq(ValTypes)
         /\ Types[i].kind = "cont"
         /\ IsRef(Last(FuncTypeOfCont(i).params)) /\ IsConcrete(Last(FuncTypeOfCont(i).params))
         /\ FuncTypeOfCont(i).params # <<>>
<1>1. /\ Types[i].kind = "cont" /\ FuncTypeOfCont(i).params # <<>>
      /\ IsContRef(Last(FuncTypeOfCont(i).params))
  BY DEF SwitchOk, TypeAt
<1>2. FuncTypeOfCont(i).params \in Seq(ValTypes)
  BY <1>1, ContFacts
<1>3. /\ Front(FuncTypeOfCont(i).params) \in Seq(ValTypes)
      /\ Len(Front(FuncTypeOfCont(i).params)) = Len(FuncTypeOfCont(i).params) - 1
      /\ Len(FuncTypeOfCont(i).params) \in Nat \ {0}
      /\ Last(FuncTypeOfCont(i).params) \in ValTypes
  BY <1>1, <1>2, FrontFacts
<1>4. SwitchTarget(i) \in 1..Len(Types) /\ Types[SwitchTarget(i)].kind = "cont"
  BY <1>1, <1>3 DEF IsContRef, SwitchTarget, ValTypes
<1>5. FuncTypeOfCont(SwitchTarget(i)).params \in Seq(ValTypes)
  BY <1>4, ContFacts
<1>6. IsRef(Last(FuncTypeOfCont(i).params)) /\ IsConcrete(Last(FuncTypeOfCont(i).params))
  BY <1>1 DEF IsContRef
<1> QED
  BY <1>1, <1>2, <1>3, <1>4, <1>5, <1>6

\* visit_switch pops the parameters, the last of which is on top, and pushes those of the target.
LEMMA VisitSwitchDoes ==
  ASSUME NEW vm, Sound(vm), NEW i \in 1..Len(Types), NEW t
  PROVE  Does(vm, visit_switch(vm, i, t),
              Len(FuncTypeOfCont(i).params), Len(FuncTypeOfCont(SwitchTarget(i)).params))
<1>1. vm \in Validators
  BY DEF Sound
<1>2. CASE SwitchOk(i, t)
  <2> DEFINE n == Len(FuncTypeOfCont(i).params)
             front == Front(FuncTypeOfCont(i).params)
             rs == FuncTypeOfCont(SwitchTarget(i)).params
  <2>1. front \in Seq(ValTypes) /\ rs \in Seq(ValTypes) /\ n \in Nat \ {0} /\ Len(front) = n - 1
    BY <1>2, SwitchFacts
  <2>2. visit_switch(vm, i, t) = PushAll(PopAll(pop_concrete_ref(vm, TRUE, i), front), rs)
    BY <1>2 DEF visit_switch, SwitchTarget
  <2> HIDE DEF front, rs
  <2>3. Does(vm, visit_switch(vm, i, t), 1 + Len(front), Len(rs))
    BY <2>1, <2>2, PopContPopPush
  <2> HIDE DEF n
  <2>4. 1 + Len(front) = n
    BY <2>1
  <2> QED
    BY <2>3, <2>4 DEF n, rs
<1>3. CASE ~SwitchOk(i, t)
  BY <1>1, <1>3, FailMoves DEF visit_switch
<1> QED
  BY <1>2, <1>3

-----------------------------------------------------------------------------
\* A disabled proposal is an error; everything else is as without the gate.
LEMMA GateFacts ==
  ASSUME NEW vm, Sound(vm), NEW feature
  PROVE  /\ Sound(Gate(vm, feature)) /\ Gate(vm, feature).control = vm.control
         /\ Gate(vm, feature) = vm \/ ~Gate(vm, feature).ok
<1>1. Does(vm, Gate(vm, feature), 0, 0)
  BY RequireDoes DEF Gate
<1>2. Gate(vm, feature) = vm \/ Gate(vm, feature) = Fail(vm)
  BY DEF Gate, Require
<1>3. vm \in Validators
  BY DEF Sound
<1>4. ~Fail(vm).ok
  BY <1>3, FailMoves
<1>5. Fail(vm).control = vm.control
  BY <1>3 DEF Fail, Validators
<1> QED
  BY <1>1, <1>2, <1>4, <1>5, DoesIsSound

\* What is done behind the check of a proposal is done from the validator before it.
LEMMA GateMoves ==
  ASSUME NEW vm, Sound(vm), NEW g, g = vm \/ ~g.ok, NEW v, NEW p, NEW q
  PROVE  /\ Does(g, v, p, q) => Does(vm, v, p, q)
         /\ Opened(g, v, p, q) => Opened(vm, v, p, q)
         /\ Closed(g, v, p, q) => Closed(vm, v, p, q)
         /\ Reopened(g, v, p, q) => Reopened(vm, v, p, q)
<1>1. CASE g = vm
  BY <1>1
<1>2. CASE ~g.ok
  <2>1. ASSUME Does(g, v, p, q) \/ Opened(g, v, p, q) \/ Closed(g, v, p, q) \/ Reopened(g, v, p, q)
        PROVE  v \in Validators /\ ~v.ok
    BY <1>2, <2>1 DEF Does, Opened, Closed, Reopened, Left
  <2> QED
    BY <2>1, NotOkMoves
<1> QED
  BY <1>1, <1>2

\* visit_drop.
LEMMA VisitDropDoes ==
  ASSUME NEW vm, Sound(vm)
  PROVE  Does(vm, visit_drop(vm), 1, 0)
  BY PopAnyDoes DEF visit_drop

\* visit_select without a type: of two operands the one that is known.
LEMMA VisitSelectDoes ==
  ASSUME NEW vm, Sound(vm)
  PROVE  Does(vm, visit_select(vm), 3, 1)
<1>1. PICK v : v = pop_operand(vm, I32)
  OBVIOUS
<1>2. PICK a : a = PopAny(v)
  OBVIOUS
<1>3. PICK b : b = PopAny(a)
  OBVIOUS
<1>4. PICK t : t = IF a.popped.k = "bottom" THEN b.popped ELSE a.popped
  OBVIOUS
<1>5. vm \in Validators /\ Does(vm, v, 1, 0) /\ Sound(v)
  BY <1>1, PopOperandDoes, DoesIsSound DEF Sound
<1>6. Does(v, a, 1, 0) /\ PoppedOK(a) /\ Sound(a) /\ a \in Validators
  BY <1>2, <1>5, PopAnyDoes, DoesIsSound DEF Does
<1>7. Does(a, b, 1, 0) /\ PoppedOK(b) /\ Sound(b) /\ b \in Validators
  BY <1>3, <1>6, PopAnyDoes, DoesIsSound DEF Does
<1>8. Does(vm, b, 3, 0)
  <2>1. Does(vm, a, 1 + 1, 0 + 0)
    BY <1>5, <1>6, DoesThenDoes
  <2>2. 1 + 1 = 2 /\ 0 + 0 = 0 /\ 2 + 1 = 3 /\ 2 \in Nat
    OBVIOUS
  <2>3. Does(vm, b, 2 + 1, 0 + 0)
    BY <1>5, <1>7, <2>1, <2>2, DoesThenDoes
  <2> QED
    BY <2>2, <2>3
<1>9. (visit_select(vm) = push_operand(b, t) /\ b.ok) \/ visit_select(vm) = Fail(b)
  BY <1>1, <1>2, <1>3, <1>4 DEF visit_select
<1>10. t \in OperandTypes /\ (b.ok => Dead(b) \/ t \in ValTypes)
  <2>1. a.popped \in OperandTypes /\ b.popped \in OperandTypes
    BY <1>6, <1>7, Fields
  <2>2. b.ok => a.ok
    BY <1>7 DEF Does
  <2>3. b.ok => Dead(b) \/ (a.popped \in ValTypes /\ b.popped \in ValTypes)
    BY <1>6, <1>7, <2>2, DeadStays DEF PoppedOK
  <2> QED
    BY <1>4, <2>1, <2>3
<1>11. Does(vm, push_operand(b, t), 3, 1)
  <2>1. Does(b, push_operand(b, t), 0, 1)
    BY <1>7, <1>10, PushOperandDoes
  <2>2. Does(vm, push_operand(b, t), 3 + 0, 0 + 1)
    BY <1>5, <1>8, <2>1, DoesThenDoes
  <2>3. 3 + 0 = 3 /\ 0 + 1 = 1
    OBVIOUS
  <2> QED
    BY <2>2, <2>3
<1> QED
  BY <1>7, <1>9, <1>11, FailMoves

\* The type of a local is a value type.
LEMMA LocalType ==
  ASSUME NEW ls, NEW types, Represents(ls, types), NEW idx \in Nat, Get(ls, idx) # Bottom
  PROVE  Get(ls, idx) \in ValTypes /\ Get(ls, idx) \in OperandTypes
<1>1. Get(ls, idx) = types[idx + 1] /\ idx < Len(types)
  BY GetIsDeclared
<1>2. types \in Seq(ValTypes)
  BY DEF Represents
<1> QED
  BY <1>1, <1>2, ValuesAreOperands

\* visit_local_get, visit_local_set and visit_local_tee.
LEMMA LocalsDo ==
  ASSUME NEW vm, Sound(vm), NEW ls, NEW types, Represents(ls, types), NEW idx \in Nat
  PROVE  /\ Does(vm, visit_local_get(vm, ls, idx), 0, 1)
         /\ Does(vm, visit_local_set(vm, ls, idx), 1, 0)
         /\ Does(vm, visit_local_tee(vm, ls, idx), 1, 1)
<1>1. vm \in Validators
  BY DEF Sound
<1>2. PICK t : t = Get(ls, idx)
  OBVIOUS
<1>3. t # Bottom => t \in ValTypes /\ t \in OperandTypes
  BY <1>2, LocalType
<1>4. Does(vm, visit_local_get(vm, ls, idx), 0, 1)
  <2>1. visit_local_get(vm, ls, idx) = Fail(vm)
        \/ (t # Bottom /\ visit_local_get(vm, ls, idx) = push_operand(vm, t))
    BY <1>2 DEF visit_local_get
  <2> QED
    BY <1>1, <1>3, <2>1, PushOperandDoes, FailMoves
<1>5. PICK s : s = visit_local_set(vm, ls, idx)
  OBVIOUS
<1>6. Does(vm, s, 1, 0) /\ Sound(s)
  <2>1. CASE t # Bottom
    <3>1. PICK v : v = pop_operand(vm, t)
      OBVIOUS
    <3>2. Does(vm, v, 1, 0) /\ Sound(v)
      BY <3>1, PopOperandDoes, DoesIsSound
    <3>3. Does(v, s, 0, 0)
      BY <1>2, <1>5, <2>1, <3>1, <3>2, SetInitDoes DEF visit_local_set
    <3>4. Does(vm, s, 1 + 0, 0 + 0)
      BY <1>1, <3>2, <3>3, DoesThenDoes
    <3>5. 1 + 0 = 1 /\ 0 + 0 = 0
      OBVIOUS
    <3> QED
      BY <3>4, <3>5, DoesIsSound
  <2>2. CASE t = Bottom
    <3>1. s = Fail(vm)
      BY <1>2, <1>5, <2>2 DEF visit_local_set
    <3>2. Does(vm, s, 1, 0)
      BY <1>1, <3>1, FailMoves
    <3> QED
      BY <3>2, DoesIsSound
  <2> QED
    BY <2>1, <2>2
<1>7. Does(vm, visit_local_tee(vm, ls, idx), 1, 1)
  <2>1. visit_local_tee(vm, ls, idx) = IF s.ok THEN push_operand(s, t) ELSE s
    BY <1>2, <1>5 DEF visit_local_tee
  <2>2. CASE s.ok
    <3>1. t # Bottom
      <4>1. SUFFICES ASSUME t = Bottom PROVE ~s.ok
        BY <2>2
      <4>2. s = Fail(vm)
        BY <1>2, <1>5, <4>1 DEF visit_local_set
      <4> QED
        BY <1>1, <4>2, FailMoves
    <3>2. Does(s, push_operand(s, t), 0, 1)
      BY <1>3, <1>6, <3>1, PushOperandDoes
    <3>3. Does(vm, push_operand(s, t), 1 + 0, 0 + 1)
      BY <1>1, <1>6, <3>2, DoesThenDoes
    <3>4. 1 + 0 = 1 /\ 0 + 1 = 1
      OBVIOUS
    <3> QED
      BY <2>1, <2>2, <3>3, <3>4
  <2>3. CASE ~s.ok
    BY <1>6, <2>1, <2>3, NotOkMoves DEF Does
  <2> QED
    BY <2>2, <2>3
<1> QED
  BY <1>4, <1>5, <1>6, <1>7

-----------------------------------------------------------------------------
\* A value type on top of what an operator has popped.
LEMMA ThenPushes ==
  ASSUME NEW vm \in Validators, NEW v, NEW p \in Nat, Does(vm, v, p, 0), NEW t \in ValTypes
  PROVE  Does(vm, push_operand(v, t), p, 1)
<1>1. Does(v, push_operand(v, t), 0, 1)
  BY DoesIsSound, PushOperandDoes, ValuesAreOperands
<1>2. Does(vm, push_operand(v, t), p + 0, 0 + 1)
  BY <1>1, DoesThenDoes
<1>3. p + 0 = p /\ 0 + 1 = 1
  OBVIOUS
<1> QED
  BY <1>2, <1>3

\* The visitors of references that need no type: as_non_null, is_null, eq, i31.get, array.len.
LEMMA ReferencesDo ==
  ASSUME NEW vm, Sound(vm)
  PROVE  /\ Does(vm, visit_ref_as_non_null(vm), 1, 1)
         /\ Does(vm, visit_ref_is_null(vm), 1, 1)
         /\ Does(vm, visit_ref_eq(vm), 2, 1)
         /\ Does(vm, visit_i31_get(vm), 1, 1)
         /\ Does(vm, visit_array_len(vm), 1, 1)
<1>1. vm \in Validators /\ I32 \in ValTypes
  BY NumbersAreValues DEF Sound
<1>2. Does(vm, visit_ref_as_non_null(vm), 1, 1)
  <2>1. PICK v : v = pop_any_ref(vm)
    OBVIOUS
  <2>2. Does(vm, v, 1, 0) /\ PoppedOK(v) /\ v \in Validators
    BY <2>1, PopAnyRefDoes DEF Does
  <2>3. v.popped \in OperandTypes
    BY <2>2, Fields
  <2>4. Does(vm, push_operand(v, MaybeNonNull(v.popped)), 1, 0 + 1)
    BY <1>1, <2>2, <2>3, MaybeNonNullFacts, PushPopped
  <2>5. 0 + 1 = 1
    OBVIOUS
  <2>6. visit_ref_as_non_null(vm) = IF v.ok THEN push_operand(v, MaybeNonNull(v.popped)) ELSE v
    BY <2>1 DEF visit_ref_as_non_null
  <2> QED
    BY <2>2, <2>4, <2>5, <2>6, NotOkMoves
<1>3. Does(vm, visit_ref_is_null(vm), 1, 1)
  BY <1>1, PopAnyRefDoes, ThenPushes DEF visit_ref_is_null
<1>4. Does(vm, visit_i31_get(vm), 1, 1)
  BY <1>1, PopMaybeSharedDoes, ThenPushes DEF visit_i31_get
<1>5. Does(vm, visit_array_len(vm), 1, 1)
  BY <1>1, PopMaybeSharedDoes, ThenPushes DEF visit_array_len
<1>6. Does(vm, visit_ref_eq(vm), 2, 1)
  <2>1. PICK a : a = pop_maybe_shared_ref(vm, "eq")
    OBVIOUS
  <2>2. PICK b : b = pop_maybe_shared_ref(a, "eq")
    OBVIOUS
  <2>3. PICK c : c = Require(b, b.ok => SameSharedness(a.popped, b.popped))
    OBVIOUS
  <2>4. Does(vm, a, 1, 0) /\ Sound(a)
    BY <2>1, PopMaybeSharedDoes, DoesIsSound
  <2>5. Does(a, b, 1, 0) /\ Sound(b)
    BY <2>2, <2>4, PopMaybeSharedDoes, DoesIsSound
  <2>6. Does(b, c, 0, 0)
    BY <2>3, <2>5, RequireDoes
  <2>7. Does(vm, b, 1 + 1, 0 + 0)
    BY <1>1, <2>4, <2>5, DoesThenDoes
  <2>8. 1 + 1 = 2 /\ 0 + 0 = 0 /\ 2 + 0 = 2 /\ 2 \in Nat
    OBVIOUS
  <2>9. Does(vm, c, 2 + 0, 0 + 0)
    BY <1>1, <2>6, <2>7, <2>8, DoesThenDoes
  <2>10. Does(vm, push_operand(c, I32), 2, 1)
    BY <1>1, <2>8, <2>9, ThenPushes
  <2> QED
    BY <2>1, <2>2, <2>3, <2>10 DEF visit_ref_eq
<1> QED
  BY <1>2, <1>3, <1>4, <1>5, <1>6

\* visit_ref_test and visit_ref_cast.
LEMMA CastsDo ==
  ASSUME NEW vm, Sound(vm), NEW t \in RefTypes
  PROVE  /\ Does(vm, visit_ref_test(vm, t), 1, 1)
         /\ Does(vm, visit_ref_cast(vm, t), 1, 1)
<1>1. vm \in Validators /\ I32 \in ValTypes
  BY NumbersAreValues DEF Sound
<1>2. CASE IsConcrete(t) => t.id \in 1..Len(Types)
  <2>1. t \in ValTypes
    BY <1>2, OperatorAssumption, CheckedIsValue
  <2>2. Does(vm, pop_ref(vm, TopRef(Types, t)), 1, 0)
    BY PopRefDoes
  <2> QED
    BY <1>1, <1>2, <2>1, <2>2, ThenPushes DEF visit_ref_test, visit_ref_cast
<1>3. CASE ~(IsConcrete(t) => t.id \in 1..Len(Types))
  BY <1>1, <1>3, FailMoves DEF visit_ref_test, visit_ref_cast
<1> QED
  BY <1>2, <1>3

\* Sharedness and nullability of a reference are known.
LEMMA SharednessOfRef ==
  ASSUME NEW t \in ValTypes, IsRef(t)
  PROVE  RefIsShared(Types, t) \in BOOLEAN /\ t.null \in BOOLEAN
<1>1. t.null \in BOOLEAN /\ t.shared \in BOOLEAN
  BY DEF ValTypes, ParsedTypes, TypesOfKind
<1>2. IsConcrete(t) => t.id \in 1..Len(Types)
  BY DEF ValTypes
<1> QED
  BY <1>1, <1>2, TypeFacts DEF RefIsShared

\* any.convert_extern and extern.convert_any.
LEMMA ConvertDoes ==
  ASSUME NEW vm, Sound(vm), NEW from, NEW into \in AbstractHeapTypes
  PROVE  Does(vm, visit_convert(vm, from, into), 1, 1)
<1>1. PICK v : v = pop_maybe_shared_ref(vm, from)
  OBVIOUS
<1>2. /\ Does(vm, v, 1, 0) /\ PoppedOK(v) /\ v \in Validators
      /\ v.ok => v.popped.k \in {"unknown", "ref"}
  BY <1>1, PopMaybeSharedDoes DEF Does
<1>3. PICK t : t = IF IsKnown(v.popped)
                   THEN AbsRef(v.popped.null, RefIsShared(Types, v.popped), into)
                   ELSE UnknownRef(into)
  OBVIOUS
<1>4. visit_convert(vm, from, into) = IF ~v.ok THEN v ELSE push_operand(v, t)
  BY <1>1, <1>3 DEF visit_convert
<1>5. vm \in Validators
  BY DEF Sound
<1>6. v.ok => t \in OperandTypes /\ (v.popped \in ValTypes => t \in ValTypes)
  <2>1. v.popped \in OperandTypes
    BY <1>2, Fields
  <2>2. CASE IsKnown(v.popped) /\ v.ok
    <3>1. v.popped \in ValTypes /\ IsRef(v.popped)
      BY <1>2, <2>1, <2>2, ValuesAreOperands DEF IsKnown, IsRef
    <3> QED
      BY <1>3, <2>2, <3>1, SharednessOfRef, AbstractIsValue, ValuesAreOperands
  <2>3. CASE ~IsKnown(v.popped)
    BY <1>3, <2>1, <2>3, UnknownIsOperand, ValuesAreOperands
  <2> QED
    BY <2>2, <2>3
<1>7. Does(vm, push_operand(v, t), 1, 0 + 1)
  BY <1>2, <1>5, <1>6, PushPopped
<1>8. 0 + 1 = 1
  OBVIOUS
<1> QED
  BY <1>2, <1>4, <1>7, <1>8, NotOkMoves

-----------------------------------------------------------------------------
(* Operators that are given by a signature.                                  *)

SigOK(s) ==
    /\ s = [ok |-> s.ok, pops |-> s.pops, pushes |-> s.pushes, arity |-> s.arity]
    /\ s.ok => /\ s.pops \in Seq(ValTypes) /\ s.pushes \in Seq(ValTypes)
               /\ s.arity = <<Len(s.pops), Len(s.pushes)>>

SigsOK(sigs) == \A s \in sigs : SigOK(s)

\* Length of short lists of value types.
LEMMA ShortLists ==
  /\ <<>> \in Seq(ValTypes) /\ Len(<<>>) = 0
  /\ \A a \in ValTypes : <<a>> \in Seq(ValTypes) /\ Len(<<a>>) = 1
  /\ \A a, b \in ValTypes : <<a, b>> \in Seq(ValTypes) /\ Len(<<a, b>>) = 2
  /\ \A a, b, c \in ValTypes : <<a, b, c>> \in Seq(ValTypes) /\ Len(<<a, b, c>>) = 3
  /\ \A a, b, c, d \in ValTypes : <<a, b, c, d>> \in Seq(ValTypes) /\ Len(<<a, b, c, d>>) = 4
  /\ \A a, b, c, d, e \in ValTypes :
        <<a, b, c, d, e>> \in Seq(ValTypes) /\ Len(<<a, b, c, d, e>>) = 5
  OBVIOUS

\* A signature whose arity is the lengths of its lists.
LEMMA SigIs ==
  ASSUME NEW ok, NEW pops, NEW pushes, NEW arity,
         ok => pops \in Seq(ValTypes) /\ pushes \in Seq(ValTypes) /\ arity = <<Len(pops), Len(pushes)>>
  PROVE  SigOK(Sig(ok, pops, pushes, arity))
  BY DEF SigOK, Sig

\* A proposal's check changes no signature.
LEMMA GatedOK ==
  ASSUME NEW feature, NEW sigs, SigsOK(sigs)
  PROVE  SigsOK(Gated(feature, sigs))
<1> SUFFICES ASSUME NEW s \in sigs
             PROVE  SigOK([s EXCEPT !.ok = @ /\ feature \in Features])
  BY DEF SigsOK, Gated
<1>1. SigOK(s)
  BY DEF SigsOK
<1>2. PICK ok : ok = (s.ok /\ feature \in Features)
  OBVIOUS
<1>3. s = [ok |-> s.ok, pops |-> s.pops, pushes |-> s.pushes, arity |-> s.arity]
  BY <1>1 DEF SigOK
<1>4. [s EXCEPT !.ok = @ /\ feature \in Features]
        = [ok |-> ok, pops |-> s.pops, pushes |-> s.pushes, arity |-> s.arity]
  BY <1>2, <1>3
<1>5. SigOK([ok |-> ok, pops |-> s.pops, pushes |-> s.pushes, arity |-> s.arity])
  BY <1>1, <1>2 DEF SigOK
<1> QED
  BY <1>4, <1>5

\* The signatures of the arithmetic visitors.
LEMMA ArithmeticTypes ==
  ASSUME NEW t \in ValTypes, NEW u \in ValTypes
  PROVE  /\ SigOK(cmp_op(t)) /\ SigOK(unary_op(t)) /\ SigOK(binary_op(t))
         /\ SigOK(conversion_op(t, u))
  BY SigIs, ShortLists, NumbersAreValues
     DEF cmp_op, unary_op, binary_op, conversion_op, Unary, Binary

\* Constants, comparisons, arithmetic, conversions and sign extension.
LEMMA NumericSigsOK == SigsOK(NumericSigs)
<1>0. I32 \in ValTypes /\ I64 \in ValTypes /\ F32 \in ValTypes /\ F64 \in ValTypes
  BY NumbersAreValues
<1>1. SigsOK(Constants) /\ SigsOK(Uzumaki)
  <2>1. ASSUME NEW t \in ValTypes, NEW ok PROVE SigOK(Sig(ok, <<>>, <<t>>, Push))
    BY SigIs, ShortLists DEF Push
  <2> QED
    BY <1>0, <2>1 DEF Constants, Uzumaki, SigsOK
<1>2. SigsOK(Comparisons)
  <2>1. ASSUME NEW t \in ValTypes PROVE SigOK(Sig(TRUE, <<t>>, <<I32>>, Unary))
    BY <1>0, SigIs, ShortLists DEF Unary
  <2> QED
    BY <1>0, <2>1, ArithmeticTypes DEF Comparisons, SigsOK
<1>3. SigsOK(IntegerArithmetic) /\ SigsOK(FloatArithmetic)
  BY <1>0, ArithmeticTypes DEF IntegerArithmetic, FloatArithmetic, SigsOK
<1>4. SigsOK(Conversions)
  <2> DEFINE Nums == {I32, I64, F32, F64}
  <2>1. \A p \in {q \in Nums \X Nums : q[1] # q[2]} : p[1] \in ValTypes /\ p[2] \in ValTypes
    BY <1>0
  <2> QED
    BY <2>1, ArithmeticTypes DEF Conversions, SigsOK
<1>5. SigsOK(SaturatingConversions) /\ SigsOK(SignExtensions)
  <2>1. SigsOK({conversion_op(t, s) : t \in {I32, I64}, s \in {F32, F64}})
    BY <1>0, ArithmeticTypes DEF SigsOK
  <2>2. SigsOK({unary_op(t) : t \in {I32, I64}})
    BY <1>0, ArithmeticTypes DEF SigsOK
  <2> QED
    BY <2>1, <2>2, GatedOK DEF SaturatingConversions, SignExtensions
<1>6. SigsOK(WideArithmetic)
  <2>1. SigOK(Sig(TRUE, <<I64, I64, I64, I64>>, <<I64, I64>>, <<4, 2>>))
    <3>1. <<I64, I64, I64, I64>> \in Seq(ValTypes) /\ Len(<<I64, I64, I64, I64>>) = 4
          /\ <<I64, I64>> \in Seq(ValTypes) /\ Len(<<I64, I64>>) = 2
      BY <1>0, ShortLists
    <3>2. <<4, 2>> = <<Len(<<I64, I64, I64, I64>>), Len(<<I64, I64>>)>>
      BY <3>1
    <3> QED
      BY <3>1, <3>2, SigIs
  <2>2. SigOK(Sig(TRUE, <<I64, I64>>, <<I64, I64>>, <<2, 2>>))
    BY <1>0, SigIs, ShortLists
  <2>3. SigsOK({Sig(TRUE, <<I64, I64, I64, I64>>, <<I64, I64>>, <<4, 2>>),
                Sig(TRUE, <<I64, I64>>, <<I64, I64>>, <<2, 2>>)})
    BY <2>1, <2>2 DEF SigsOK
  <2> QED
    BY <2>3, GatedOK DEF WideArithmetic
<1> QED
  BY <1>1, <1>2, <1>3, <1>4, <1>5, <1>6 DEF NumericSigs, SigsOK

\* The address type of a memory.
LEMMA AddressIsValue == \A m : Address(m) \in ValTypes
<1>1. \A m \in 1..Len(Memories) : Memories[m] \in {I32, I64}
  BY StackAssumption
<1> QED
  BY <1>1, NumbersAreValues DEF Address, MemoryAt

\* The signatures without results, and those with one.
LEMMA Consumers ==
  ASSUME NEW ok, NEW a, NEW b, NEW c, NEW d,
         ok => a \in ValTypes /\ b \in ValTypes /\ c \in ValTypes /\ d \in ValTypes
  PROVE  /\ SigOK(Sig(ok, <<>>, <<>>, <<0, 0>>)) /\ SigOK(Sig(ok, <<a>>, <<>>, <<1, 0>>))
         /\ SigOK(Sig(ok, <<a, b>>, <<>>, <<2, 0>>)) /\ SigOK(Sig(ok, <<a, b, c>>, <<>>, <<3, 0>>))
         /\ SigOK(Sig(ok, <<a, b, c, d>>, <<>>, <<4, 0>>))
<1>1. ok => /\ <<>> \in Seq(ValTypes) /\ Len(<<>>) = 0
            /\ <<a>> \in Seq(ValTypes) /\ Len(<<a>>) = 1
            /\ <<a, b>> \in Seq(ValTypes) /\ Len(<<a, b>>) = 2
            /\ <<a, b, c>> \in Seq(ValTypes) /\ Len(<<a, b, c>>) = 3
            /\ <<a, b, c, d>> \in Seq(ValTypes) /\ Len(<<a, b, c, d>>) = 4
  BY ShortLists
<1> QED
  BY <1>1, SigIs

\* Signatures with one result.
LEMMA Producers ==
  ASSUME NEW ok, NEW a, NEW b, NEW c, NEW d, NEW r,
         ok => /\ a \in ValTypes /\ b \in ValTypes /\ c \in ValTypes /\ d \in ValTypes
               /\ r \in ValTypes
  PROVE  /\ SigOK(Sig(ok, <<>>, <<r>>, <<0, 1>>)) /\ SigOK(Sig(ok, <<a>>, <<r>>, <<1, 1>>))
         /\ SigOK(Sig(ok, <<a, b>>, <<r>>, <<2, 1>>)) /\ SigOK(Sig(ok, <<a, b, c>>, <<r>>, <<3, 1>>))
         /\ SigOK(Sig(ok, <<a, b, c, d>>, <<r>>, <<4, 1>>))
<1>1. ok => /\ <<>> \in Seq(ValTypes) /\ Len(<<>>) = 0
            /\ <<r>> \in Seq(ValTypes) /\ Len(<<r>>) = 1
            /\ <<a>> \in Seq(ValTypes) /\ Len(<<a>>) = 1
            /\ <<a, b>> \in Seq(ValTypes) /\ Len(<<a, b>>) = 2
            /\ <<a, b, c>> \in Seq(ValTypes) /\ Len(<<a, b, c>>) = 3
            /\ <<a, b, c, d>> \in Seq(ValTypes) /\ Len(<<a, b, c, d>>) = 4
  BY ShortLists
<1> QED
  BY <1>1, SigIs

\* Loads, stores, atomics and bulk operators of memories.
LEMMA MemorySigsOK == SigsOK(MemorySigs)
<1>0. /\ I32 \in ValTypes /\ I64 \in ValTypes /\ F32 \in ValTypes /\ F64 \in ValTypes
      /\ \A m : Address(m) \in ValTypes
  BY NumbersAreValues, AddressIsValue
<1>1. ASSUME NEW a PROVE SigsOK(Loads(a)) /\ SigsOK(Stores(a))
  <2>1. ASSUME NEW t \in {I32, I64, F32, F64}
        PROVE  SigOK(Sig(MemArgOk(a) /\ Ready(t), <<Address(a.memory)>>, <<t>>, Load))
    BY <1>0, Producers DEF Load
  <2>2. ASSUME NEW t \in {I32, I64, F32, F64}
        PROVE  SigOK(Sig(MemArgOk(a) /\ Ready(t), <<Address(a.memory), t>>, <<>>, Store))
    BY <1>0, Consumers DEF Store
  <2> QED
    BY <2>1, <2>2 DEF Loads, Stores, SigsOK
<1>2. ASSUME NEW a PROVE SigsOK(AtomicAccess(a))
  <2>1. SigsOK({Sig(SharedMemArgOk(a), <<Address(a.memory)>>, <<t>>, Load) : t \in {I32, I64}}
        \cup {Sig(SharedMemArgOk(a), <<Address(a.memory), t>>, <<>>, Store) : t \in {I32, I64}})
    BY <1>0, Producers, Consumers, ZenonT(60) DEF Load, Store, SigsOK
  <2> QED
    BY <2>1, GatedOK DEF AtomicAccess
<1>3. ASSUME NEW a PROVE SigsOK(AtomicRmw(a))
  <2>1. SigsOK({Sig(SharedMemArgOk(a), <<Address(a.memory), t>>, <<t>>, Rmw) : t \in {I32, I64}}
        \cup {Sig(SharedMemArgOk(a), <<Address(a.memory), t, t>>, <<t>>, Cmpxchg)
                 : t \in {I32, I64}})
    BY <1>0, Producers DEF Rmw, Cmpxchg, SigsOK
  <2> QED
    BY <2>1, GatedOK DEF AtomicRmw
<1>4. ASSUME NEW a PROVE SigsOK(AtomicWait(a))
  <2>1. SigsOK({Sig(SharedMemArgOk(a), <<Address(a.memory), I32>>, <<I32>>, Binary),
         Sig(SharedMemArgOk(a), <<Address(a.memory), I32, I64>>, <<I32>>, Ternary),
         Sig(SharedMemArgOk(a), <<Address(a.memory), I64, I64>>, <<I32>>, Ternary),
         Sig(TRUE, <<>>, <<>>, <<0, 0>>)})
    BY <1>0, Producers, Consumers DEF Binary, Ternary, SigsOK
  <2> QED
    BY <2>1, GatedOK DEF AtomicWait
<1>5. ASSUME NEW m PROVE SigsOK(MemorySizes(m)) /\ SigsOK(MemoryDiscard(m))
  <2>1. SigsOK(MemorySizes(m))
    <3>1. SigOK(Sig(MemoryAt(m), <<>>, <<Address(m)>>, Push))
      BY <1>0, Producers DEF Push
    <3>2. SigOK(Sig(MemoryAt(m), <<Address(m)>>, <<Address(m)>>, Unary))
      BY <1>0, Producers DEF Unary
    <3> QED
      BY <3>1, <3>2 DEF MemorySizes, SigsOK
  <2>2. SigsOK({Sig(MemoryAt(m), <<Address(m), Address(m)>>, <<>>, <<2, 0>>)})
    BY <1>0, Consumers DEF SigsOK
  <2> QED
    BY <2>1, <2>2, GatedOK DEF MemoryDiscard
<1>6. ASSUME NEW m, NEW src, NEW d PROVE SigsOK(MemoryBulk(m, src, d))
  <2>1. CopyLength(Address(m), Address(src)) \in ValTypes
    BY <1>0 DEF CopyLength
  <2>2. SigsOK({Sig(MemoryAt(m) /\ DataAt(d), <<Address(m), I32, I32>>, <<>>, <<3, 0>>),
         Sig(DataAt(d), <<>>, <<>>, <<0, 0>>),
         Sig(MemoryAt(m) /\ MemoryAt(src),
             <<Address(m), Address(src), CopyLength(Address(m), Address(src))>>, <<>>, <<3, 0>>),
         Sig(MemoryAt(m), <<Address(m), I32, Address(m)>>, <<>>, <<3, 0>>)})
    <3>1. SigOK(Sig(MemoryAt(m) /\ DataAt(d), <<Address(m), I32, I32>>, <<>>, <<3, 0>>))
          /\ SigOK(Sig(DataAt(d), <<>>, <<>>, <<0, 0>>))
      BY <1>0, Consumers
    <3>2. SigOK(Sig(MemoryAt(m) /\ MemoryAt(src),
             <<Address(m), Address(src), CopyLength(Address(m), Address(src))>>, <<>>, <<3, 0>>))
      BY <1>0, <2>1, Consumers
    <3>3. SigOK(Sig(MemoryAt(m), <<Address(m), I32, Address(m)>>, <<>>, <<3, 0>>))
      BY <1>0, Consumers
    <3> QED
      BY <3>1, <3>2, <3>3 DEF SigsOK
  <2> QED
    BY <2>2, GatedOK DEF MemoryBulk
<1>7. ASSUME NEW s \in MemorySigs PROVE SigOK(s)
  <2>1. \/ \E a \in MemArgs : s \in Loads(a) \cup Stores(a) \cup AtomicAccess(a) \cup AtomicRmw(a)
                               \cup AtomicWait(a)
        \/ \E m \in 1..(Len(Memories) + 1), d \in 0..1 :
              s \in MemorySizes(m) \cup MemoryBulk(m, 1, d) \cup MemoryDiscard(m)
    BY <1>7 DEF MemorySigs
  <2> QED
    BY <2>1, <1>1, <1>2, <1>3, <1>4, <1>5, <1>6 DEF SigsOK
<1> QED
  BY <1>7 DEF SigsOK

\* The operators on v128.
LEMMA VectorSigsOK == SigsOK(VectorSigs)
<1>0. /\ I32 \in ValTypes /\ I64 \in ValTypes /\ F32 \in ValTypes /\ F64 \in ValTypes
      /\ V128 \in ValTypes /\ \A m : Address(m) \in ValTypes
  BY NumbersAreValues, AddressIsValue
<1>1. ASSUME NEW a PROVE SigsOK(VectorMoves(a))
  <2>1. SigsOK({Sig(MemArgOk(a), <<Address(a.memory)>>, <<V128>>, Load),
         Sig(MemArgOk(a), <<Address(a.memory), V128>>, <<>>, Store),
         Sig(TRUE, <<>>, <<V128>>, Push)}
        \cup {Sig(Ready(t), <<t>>, <<V128>>, Unary) : t \in {I32, I64, F32, F64}})
    <3>1. SigOK(Sig(MemArgOk(a), <<Address(a.memory)>>, <<V128>>, Load))
      BY <1>0, Producers DEF Load
    <3>2. SigOK(Sig(MemArgOk(a), <<Address(a.memory), V128>>, <<>>, Store))
      BY <1>0, Consumers DEF Store
    <3>3. SigOK(Sig(TRUE, <<>>, <<V128>>, Push))
      BY <1>0, Producers DEF Push
    <3>4. ASSUME NEW t \in {I32, I64, F32, F64} PROVE SigOK(Sig(Ready(t), <<t>>, <<V128>>, Unary))
      BY <1>0, Producers DEF Unary
    <3> QED
      BY <3>1, <3>2, <3>3, <3>4 DEF SigsOK
  <2> QED
    BY <2>1, GatedOK DEF VectorMoves
<1>2. SigsOK(VectorLanes)
  <2>1. \A l \in LaneTypes : l[2] \in ValTypes
    BY <1>0 DEF LaneTypes
  <2>2. ASSUME NEW l \in LaneTypes, NEW i PROVE SigsOK(LaneMoves(l, i))
    <3>1. SigOK(Sig(Ready(l[2]) /\ LaneOk(i, l[1]), <<V128>>, <<l[2]>>, Unary))
      BY <1>0, <2>1, Producers DEF Unary
    <3>2. SigOK(Sig(Ready(l[2]) /\ LaneOk(i, l[1]), <<V128, l[2]>>, <<V128>>, Binary))
      BY <1>0, <2>1, Producers DEF Binary
    <3> QED
      BY <3>1, <3>2 DEF LaneMoves, SigsOK
  <2>3. SigsOK(UNION {LaneMoves(l, i) : l \in LaneTypes, i \in {1, 2, 4, 8, 16}})
    BY <2>2 DEF SigsOK
  <2> QED
    BY <2>3, GatedOK DEF VectorLanes
<1>3. SigsOK(VectorFloatBinary) /\ SigsOK(VectorBinary) /\ SigsOK(VectorFloatUnary)
      /\ SigsOK(VectorUnary) /\ SigsOK(VectorTernary) /\ SigsOK(VectorBitmask)
      /\ SigsOK(VectorShift)
  <2>1. ASSUME NEW ok PROVE /\ SigsOK({Sig(ok, <<V128, V128>>, <<V128>>, Binary)})
                            /\ SigsOK({Sig(ok, <<V128>>, <<V128>>, Unary)})
                            /\ SigsOK({Sig(ok, <<V128, V128, V128>>, <<V128>>, Ternary)})
                            /\ SigsOK({Sig(ok, <<V128>>, <<I32>>, Unary)})
                            /\ SigsOK({Sig(ok, <<V128, I32>>, <<V128>>, Binary)})
    BY <1>0, Producers DEF Unary, Binary, Ternary, SigsOK
  <2> QED
    BY <2>1, GatedOK DEF VectorFloatBinary, VectorBinary, VectorFloatUnary, VectorUnary,
       VectorTernary, VectorBitmask, VectorShift
<1>4. SigsOK(VectorRelaxed)
  <2>1. SigsOK(VectorTernary \cup VectorBinary \cup VectorUnary)
    BY <1>3 DEF SigsOK
  <2> QED
    BY <2>1, GatedOK DEF VectorRelaxed
<1>5. SigsOK(VectorShuffle)
  <2>1. SigsOK({Sig(LaneOk(i, 32), <<V128, V128>>, <<V128>>, Binary) : i \in {31, 32}})
    BY <1>0, Producers DEF Binary, SigsOK
  <2> QED
    BY <2>1, GatedOK DEF VectorShuffle
<1>6. ASSUME NEW a PROVE SigsOK(VectorLoads(a)) /\ SigsOK(VectorLaneAccess(a))
  <2>1. SigsOK({Sig(MemArgOk(a), <<Address(a.memory)>>, <<V128>>, Load)})
    BY <1>0, Producers DEF Load, SigsOK
  <2>2. ASSUME NEW i, NEW max
        PROVE  SigsOK({Sig(MemArgOk(a) /\ LaneOk(i, max), <<Address(a.memory), V128>>, <<V128>>, LoadLane),
                       Sig(MemArgOk(a) /\ LaneOk(i, max), <<Address(a.memory), V128>>, <<>>, Store)})
    BY <1>0, Producers, Consumers DEF LoadLane, Store, SigsOK
  <2>3. SigsOK(UNION {
        {Sig(MemArgOk(a) /\ LaneOk(i, max), <<Address(a.memory), V128>>, <<V128>>, LoadLane),
         Sig(MemArgOk(a) /\ LaneOk(i, max), <<Address(a.memory), V128>>, <<>>, Store)}
            : max \in {16, 8, 4, 2}, i \in {1, 2, 16}})
    BY <2>2 DEF SigsOK
  <2> QED
    BY <2>1, <2>3, GatedOK DEF VectorLoads, VectorLaneAccess
<1> QED
  BY <1>1, <1>2, <1>3, <1>4, <1>5, <1>6 DEF VectorSigs, SigsOK

\* The type of a global.
LEMMA GlobalIsValue == \A g \in 1..Len(Globals) : Globals[g].ty \in ValTypes
<1>1. Globals \in Seq([ty : ValTypes, mutable : BOOLEAN, shared : BOOLEAN])
  BY StackAssumption
<1>2. \A g \in 1..Len(Globals) : Globals[g] \in [ty : ValTypes, mutable : BOOLEAN, shared : BOOLEAN]
  BY <1>1, ElementOfSeq
<1> QED
  BY <1>2

\* Access to globals, atomic or not.
LEMMA GlobalSigsOK == SigsOK(GlobalSigs)
<1>1. ASSUME NEW g \in 1..Len(Globals) PROVE SigsOK(GlobalAccess(g))
  <2>1. PICK t : t = Globals[g].ty
    OBVIOUS
  <2>2. t \in ValTypes
    BY <2>1, GlobalIsValue
  <2>3. SigOK(Sig(GlobalAt(g), <<>>, <<t>>, Push))
        /\ SigOK(Sig(GlobalAt(g) /\ GlobalAtomicType(t, "any"), <<>>, <<t>>, Push))
    BY <2>2, Producers DEF Push
  <2>4. SigOK(Sig(GlobalAt(g) /\ Globals[g].mutable, <<t>>, <<>>, <<1, 0>>))
        /\ SigOK(Sig(GlobalAt(g) /\ Globals[g].mutable /\ GlobalAtomicType(t, "any"),
                     <<t>>, <<>>, <<1, 0>>))
    BY <2>2, Consumers
  <2>5. SigsOK({Sig(GlobalAt(g) /\ GlobalAtomicType(t, "any"), <<>>, <<t>>, Push),
                Sig(GlobalAt(g) /\ Globals[g].mutable /\ GlobalAtomicType(t, "any"),
                    <<t>>, <<>>, <<1, 0>>)})
    BY <2>3, <2>4 DEF SigsOK
  <2>6. SigsOK(Gated("shared_everything_threads",
                {Sig(GlobalAt(g) /\ GlobalAtomicType(t, "any"), <<>>, <<t>>, Push),
                 Sig(GlobalAt(g) /\ Globals[g].mutable /\ GlobalAtomicType(t, "any"),
                     <<t>>, <<>>, <<1, 0>>)}))
    BY <2>5, GatedOK
  <2>7. SigsOK({Sig(GlobalAt(g), <<>>, <<t>>, Push),
                Sig(GlobalAt(g) /\ Globals[g].mutable, <<t>>, <<>>, <<1, 0>>)})
    BY <2>3, <2>4 DEF SigsOK
  <2> QED
    BY <2>1, <2>6, <2>7 DEF GlobalAccess, SigsOK
<1>2. ASSUME NEW g \in 1..Len(Globals) PROVE SigsOK(GlobalRmw(g))
  <2>1. PICK t : t = Globals[g].ty
    OBVIOUS
  <2>2. t \in ValTypes
    BY <2>1, GlobalIsValue
  <2>3. SigOK(Sig(GlobalAt(g) /\ t \in {I32, I64}, <<t>>, <<t>>, Unary))
        /\ SigOK(Sig(GlobalAt(g) /\ GlobalAtomicType(t, "any"), <<t>>, <<t>>, Unary))
        /\ SigOK(Sig(GlobalAt(g) /\ GlobalAtomicType(t, "eq"), <<t, t>>, <<t>>, Binary))
    BY <2>2, Producers DEF Unary, Binary
  <2>4. SigsOK({Sig(GlobalAt(g) /\ t \in {I32, I64}, <<t>>, <<t>>, Unary),
             Sig(GlobalAt(g) /\ GlobalAtomicType(t, "any"), <<t>>, <<t>>, Unary),
             Sig(GlobalAt(g) /\ GlobalAtomicType(t, "eq"), <<t, t>>, <<t>>, Binary)})
    BY <2>3 DEF SigsOK
  <2> QED
    BY <2>1, <2>4, GatedOK DEF GlobalRmw
<1> QED
  BY <1>1, <1>2 DEF GlobalSigs, SigsOK

\* The types of a table.
LEMMA TableIsValue ==
  \A t \in 1..Len(Tables) : Tables[t].elem \in ValTypes /\ Tables[t].index \in ValTypes
<1>1. Tables \in Seq([elem : ValTypes, index : {I32, I64}, shared : BOOLEAN])
  BY StackAssumption
<1>2. \A t \in 1..Len(Tables) : Tables[t] \in [elem : ValTypes, index : {I32, I64}, shared : BOOLEAN]
  BY <1>1, ElementOfSeq
<1>3. {I32, I64} \subseteq ValTypes
  BY NumbersAreValues
<1> QED
  BY <1>2, <1>3

\* Access to tables, bulk or atomic.
LEMMA TableSigsOK == SigsOK(TableSigs)
<1>1. ASSUME NEW t \in 1..Len(Tables), NEW src \in 1..Len(Tables), NEW e
      PROVE  SigsOK(TableBulk(t, src, e))
  <2>1. I32 \in ValTypes /\ Tables[t].index \in ValTypes /\ Tables[src].index \in ValTypes
    BY TableIsValue, NumbersAreValues
  <2>2. CopyLength(Tables[t].index, Tables[src].index) \in ValTypes
    BY <2>1 DEF CopyLength
  <2>3. SigOK(Sig(TableAt(t) /\ ElemAt(e) /\ IsSubtype(Types, Elems[e], Tables[t].elem),
             <<Tables[t].index, I32, I32>>, <<>>, <<3, 0>>))
    BY <2>1, Consumers
  <2>4. SigOK(Sig(ElemAt(e), <<>>, <<>>, <<0, 0>>))
    BY <2>1, Consumers
  <2>5. SigOK(Sig(TableAt(t) /\ TableAt(src) /\ IsSubtype(Types, Tables[src].elem, Tables[t].elem),
             <<Tables[t].index, Tables[src].index,
               CopyLength(Tables[t].index, Tables[src].index)>>, <<>>, <<3, 0>>))
    BY <2>1, <2>2, Consumers
  <2>6. SigsOK({Sig(TableAt(t) /\ ElemAt(e) /\ IsSubtype(Types, Elems[e], Tables[t].elem),
             <<Tables[t].index, I32, I32>>, <<>>, <<3, 0>>),
         Sig(ElemAt(e), <<>>, <<>>, <<0, 0>>),
         Sig(TableAt(t) /\ TableAt(src) /\ IsSubtype(Types, Tables[src].elem, Tables[t].elem),
             <<Tables[t].index, Tables[src].index,
               CopyLength(Tables[t].index, Tables[src].index)>>, <<>>, <<3, 0>>)})
    BY <2>3, <2>4, <2>5 DEF SigsOK
  <2> QED
    BY <2>6, GatedOK DEF TableBulk
<1>2. ASSUME NEW t \in 1..Len(Tables) PROVE SigsOK(TableAccess(t)) /\ SigsOK(TableAtomics(t))
  <2>1. PICK elem, index : elem = Tables[t].elem /\ index = Tables[t].index
    OBVIOUS
  <2>2. elem \in ValTypes /\ index \in ValTypes
    BY <2>1, TableIsValue
  <2>3. ASSUME NEW ok
        PROVE  /\ SigOK(Sig(ok, <<index>>, <<elem>>, Unary))
               /\ SigOK(Sig(ok, <<elem, index>>, <<index>>, Binary))
               /\ SigOK(Sig(ok, <<>>, <<index>>, Push))
               /\ SigOK(Sig(ok, <<index, elem>>, <<elem>>, Binary))
               /\ SigOK(Sig(ok, <<index, elem, elem>>, <<elem>>, Ternary))
    BY <2>2, Producers DEF Unary, Binary, Push, Ternary
  <2>4. ASSUME NEW ok
        PROVE  /\ SigOK(Sig(ok, <<index, elem>>, <<>>, <<2, 0>>))
               /\ SigOK(Sig(ok, <<index, elem, index>>, <<>>, <<3, 0>>))
    BY <2>2, Consumers
  <2>5. SigsOK({Sig(TableAt(t), <<index>>, <<elem>>, Unary),
             Sig(TableAt(t), <<index, elem>>, <<>>, <<2, 0>>),
             Sig(TableAt(t), <<elem, index>>, <<index>>, Binary),
             Sig(TableAt(t), <<>>, <<index>>, Push),
             Sig(TableAt(t), <<index, elem, index>>, <<>>, <<3, 0>>)})
    BY <2>3, <2>4 DEF SigsOK
  <2>6. ASSUME NEW any, NEW eq
        PROVE  SigsOK({Sig(any, <<index>>, <<elem>>, Unary),
             Sig(any, <<index, elem>>, <<>>, <<2, 0>>),
             Sig(any, <<index, elem>>, <<elem>>, Binary),
             Sig(eq, <<index, elem, elem>>, <<elem>>, Ternary)})
    BY <2>3, <2>4 DEF SigsOK
  <2>7. SigsOK(TableAccess(t))
    BY <2>1, <2>5, GatedOK DEF TableAccess
  <2>8. SigsOK(TableAtomics(t))
    BY <2>1, <2>6, GatedOK DEF TableAtomics
  <2> QED
    BY <2>7, <2>8
<1> QED
  BY <1>1, <1>2 DEF TableSigs, SigsOK

\* select with a type, ref.null, ref.func and ref.i31.
LEMMA ReferenceSigsOK ==
  /\ \A t \in ValueTypes : SigOK(TypedSelect(t))
  /\ \A t \in RefTypes : SigOK(RefNull(AsNullable(t)))
  /\ \A f : SigOK(RefFunc(f))
  /\ SigsOK(RefI31)
<1>0. I32 \in ValTypes
  BY NumbersAreValues
<1>1. ASSUME NEW t \in ValueTypes PROVE SigOK(TypedSelect(t))
  <2>1. ValueTypeOk(t) => t \in ValTypes
    BY OperatorAssumption, CheckedIsValue
  <2> QED
    BY <1>0, <2>1, Producers DEF TypedSelect
<1>2. ASSUME NEW t \in RefTypes PROVE SigOK(RefNull(AsNullable(t)))
  <2>1. AsNullable(t) \in ParsedTypes /\ IsRef(AsNullable(t))
    BY OperatorAssumption DEF AsNullable, ParsedTypes, TypesOfKind, IsRef
  <2>2. RefTypeOk(AsNullable(t)) => AsNullable(t) \in ValTypes
    BY <2>1, CheckedIsValue
  <2> QED
    BY <2>2, Producers DEF RefNull, Push
<1>3. ASSUME NEW f PROVE SigOK(RefFunc(f))
  <2>1. CASE f \in 1..Len(Funcs)
    <3>1. ConcreteRef(FALSE, Funcs[f]) \in ValTypes
      <4>1. Funcs[f] \in FuncTypeIds
        BY <2>1, StackAssumption
      <4> QED
        BY <4>1, FuncFacts, ConcreteIsValue
    <3>2. RefFunc(f) = Sig(f \in 1..Len(Funcs) /\ f \in Referenced, <<>>,
                           <<ConcreteRef(FALSE, Funcs[f])>>, Push)
      BY <2>1 DEF RefFunc
    <3>3. SigOK(Sig(f \in 1..Len(Funcs) /\ f \in Referenced, <<>>,
                    <<ConcreteRef(FALSE, Funcs[f])>>, Push))
      BY <3>1, Producers DEF Push
    <3> QED
      BY <3>2, <3>3
  <2>2. CASE f \notin 1..Len(Funcs)
    <3>1. RefFunc(f) = Sig(f \in 1..Len(Funcs) /\ f \in Referenced, <<>>, <<>>, Push)
      BY <2>2 DEF RefFunc
    <3>2. SigOK(Sig(f \in 1..Len(Funcs) /\ f \in Referenced, <<>>, <<>>, Push))
      BY <2>2, SigIs
    <3> QED
      BY <3>1, <3>2
  <2> QED
    BY <2>1, <2>2
<1>4. SigsOK(RefI31)
  <2>1. AbsRef(FALSE, FALSE, "i31") \in ValTypes /\ AbsRef(FALSE, TRUE, "i31") \in ValTypes
    BY AbstractIsValue DEF AbstractHeapTypes
  <2>2. SigOK(Sig("gc" \in Features, <<I32>>, <<AbsRef(FALSE, FALSE, "i31")>>, Unary))
        /\ SigOK(Sig("shared_everything_threads" \in Features,
               <<I32>>, <<AbsRef(FALSE, TRUE, "i31")>>, Unary))
    BY <1>0, <2>1, Producers DEF Unary
  <2> QED
    BY <2>2 DEF RefI31, SigsOK
<1> QED
  BY <1>1, <1>2, <1>3, <1>4

\* An unpacked storage type is a value type.
LEMMA StorageFacts ==
  ASSUME NEW st \in StorageTypes
  PROVE  Unpack(st) \in ValTypes /\ (~IsPacked(st) => st \in ValTypes)
<1>1. IsPacked(Packed("i8")) /\ IsPacked(Packed("i16"))
  BY DEF IsPacked, Packed, Num
<1>2. ~IsPacked(st) => st \in ValTypes
  BY <1>1 DEF StorageTypes
<1> QED
  BY <1>2, NumbersAreValues DEF Unpack

\* The storage type of a field.
LEMMA FieldFacts ==
  ASSUME NEW i \in 1..Len(Types), NEW f \in 1..Len(Types[i].fields)
  PROVE  Types[i].fields[f].ty \in StorageTypes
<1>1. Types[i].fields \in Seq([ty : StorageTypes, mutable : BOOLEAN])
  BY TypeFacts
<1>2. Types[i].fields[f] \in [ty : StorageTypes, mutable : BOOLEAN]
  BY <1>1, ElementOfSeq
<1> QED
  BY <1>2

\* FieldType and ElemType are storage types, whatever the index.
LEMMA StoredTypes ==
  /\ \A i, f : FieldType(i, f) \in StorageTypes
  /\ \A i : ElemType(i) \in StorageTypes
<1>1. I32 \in StorageTypes
  BY NumbersAreValues DEF StorageTypes
<1>2. ASSUME NEW i, NEW f PROVE FieldType(i, f) \in StorageTypes
  BY <1>1, FieldFacts DEF FieldType, FieldAt, TypeAt
<1>3. ASSUME NEW i PROVE ElemType(i) \in StorageTypes
  <2>1. CASE TypeAt(i, "array")
    <3>1. i \in 1..Len(Types) /\ Len(Types[i].fields) = 1
      BY <2>1, TypeFacts DEF TypeAt
    <3>2. 1 \in 1..Len(Types[i].fields)
      BY <3>1
    <3> QED
      BY <2>1, <3>1, <3>2, FieldFacts DEF ElemType
  <2>2. CASE ~TypeAt(i, "array")
    BY <1>1, <2>2 DEF ElemType
  <2> QED
    BY <2>1, <2>2
<1> QED
  BY <1>2, <1>3

\* The unpacked fields of a structure.
LEMMA UnpackedFacts ==
  ASSUME NEW i \in 1..Len(Types)
  PROVE  Unpacked(i) \in Seq(ValTypes)
<1>1. PICK n : n = Len(Types[i].fields)
  OBVIOUS
<1>2. n \in Nat
  BY <1>1, TypeFacts
<1>3. \A f \in 1..n : Unpack(Types[i].fields[f].ty) \in ValTypes
  BY <1>1, FieldFacts, StorageFacts
<1>4. [f \in 1..n |-> Unpack(Types[i].fields[f].ty)] \in Seq(ValTypes)
  BY <1>2, <1>3
<1> QED
  BY <1>1, <1>4 DEF Unpacked

\* Operands followed by the further ones of a compare and exchange.
LEMMA LongerSig ==
  ASSUME NEW ok, NEW ts, NEW more, NEW r, NEW n \in Nat, NEW m \in Nat,
         ok => /\ ts \in Seq(ValTypes) /\ Len(ts) = n
               /\ more \in Seq(ValTypes) /\ Len(more) = m /\ r \in ValTypes
  PROVE  SigOK(Sig(ok, ts \o more, <<r>>, <<n + m, 1>>))
<1>1. ok => /\ ts \o more \in Seq(ValTypes) /\ Len(ts \o more) = n + m
            /\ <<r>> \in Seq(ValTypes) /\ Len(<<r>>) = 1
  <2> SUFFICES ASSUME ok
               PROVE  /\ ts \o more \in Seq(ValTypes) /\ Len(ts \o more) = n + m
                      /\ <<r>> \in Seq(ValTypes) /\ Len(<<r>>) = 1
    OBVIOUS
  <2>1. ts \in Seq(ValTypes) /\ more \in Seq(ValTypes) /\ Len(ts) = n /\ Len(more) = m
    OBVIOUS
  <2>2. ts \o more \in Seq(ValTypes) /\ Len(ts \o more) = Len(ts) + Len(more)
    BY <2>1, ConcatFacts
  <2> QED
    BY <2>1, <2>2, ShortLists
<1> QED
  BY <1>1, SigIs

\* struct.new and struct.new_default.
LEMMA StructNewOK ==
  ASSUME NEW s \in 1..Len(Types)
  PROVE  SigsOK(StructNew(s))
<1>1. PICK r : r = ConcreteRef(FALSE, s)
  OBVIOUS
<1>2. r \in ValTypes
  BY <1>1, ConcreteIsValue
<1>3. PICK fields : fields = IF TypeAt(s, "struct") THEN Unpacked(s) ELSE <<>>
  OBVIOUS
<1>4. fields \in Seq(ValTypes)
  BY <1>3, UnpackedFacts, ShortLists
<1>5. SigOK(Sig(TypeAt(s, "struct"), fields, <<r>>, <<Len(fields), 1>>))
  BY <1>2, <1>4, SigIs, ShortLists
<1>6. ASSUME NEW ok PROVE SigOK(Sig(ok, <<>>, <<r>>, Push))
  BY <1>2, Producers DEF Push
<1>7. ASSUME NEW ok
      PROVE  SigsOK({Sig(TypeAt(s, "struct"), fields, <<r>>, <<Len(fields), 1>>),
                     Sig(ok, <<>>, <<r>>, Push)})
  BY <1>5, <1>6 DEF SigsOK
<1> QED
  BY <1>1, <1>3, <1>7, GatedOK DEF StructNew

\* Access to structures, atomic or not.
LEMMA StructAccessOK ==
  ASSUME NEW s \in 1..Len(Types), NEW f
  PROVE  SigsOK(StructGet(s, f)) /\ SigsOK(StructSet(s, f)) /\ SigsOK(StructRmw(s, f))
<1>1. PICK st, r : st = FieldType(s, f) /\ r = ConcreteRef(TRUE, s)
  OBVIOUS
<1>2. /\ r \in ValTypes /\ Unpack(st) \in ValTypes /\ (~IsPacked(st) => st \in ValTypes)
  BY <1>1, ConcreteIsValue, StoredTypes, StorageFacts
<1>3. SigsOK(StructGet(s, f))
  <2>1. ASSUME NEW ok PROVE SigOK(Sig(ok, <<r>>, <<Unpack(st)>>, Unary))
    BY <1>2, Producers DEF Unary
  <2>2. ASSUME NEW a, NEW b
        PROVE  SigsOK({Sig(a, <<r>>, <<Unpack(st)>>, Unary), Sig(b, <<r>>, <<Unpack(st)>>, Unary)})
    BY <2>1 DEF SigsOK
  <2>3. ASSUME NEW a, NEW b, NEW feature
        PROVE  SigsOK(Gated(feature, {Sig(a, <<r>>, <<Unpack(st)>>, Unary),
                                      Sig(b, <<r>>, <<Unpack(st)>>, Unary)}))
    BY <2>2, GatedOK
  <2> QED
    BY <1>1, <2>3 DEF StructGet, SigsOK
<1>4. SigsOK(StructSet(s, f))
  <2>1. ASSUME NEW ok PROVE SigOK(Sig(ok, <<r, Unpack(st)>>, <<>>, <<2, 0>>))
    BY <1>2, Consumers
  <2>2. ASSUME NEW ok, NEW feature
        PROVE  SigsOK(Gated(feature, {Sig(ok, <<r, Unpack(st)>>, <<>>, <<2, 0>>)}))
    <3>1. SigsOK({Sig(ok, <<r, Unpack(st)>>, <<>>, <<2, 0>>)})
      BY <2>1 DEF SigsOK
    <3> QED
      BY <3>1, GatedOK
  <2> QED
    BY <1>1, <2>2 DEF StructSet, SigsOK
<1>5. SigsOK(StructRmw(s, f))
  <2>1. PICK here : here = (MutableFieldAt(s, f) /\ ~IsPacked(st))
    OBVIOUS
  <2>2. here => /\ <<r, st>> \in Seq(ValTypes) /\ Len(<<r, st>>) = 2 /\ st \in ValTypes
                /\ <<st>> \in Seq(ValTypes) /\ Len(<<st>>) = 1
                /\ <<>> \in Seq(ValTypes) /\ Len(<<>>) = 0
    BY <1>2, <2>1, ShortLists
  <2>3. ASSUME NEW ok
        PROVE  /\ SigOK(Sig(MutableFieldAt(s, f) /\ ~IsPacked(st) /\ ok, <<r, st>> \o <<>>, <<st>>, <<2, 1>>))
               /\ SigOK(Sig(MutableFieldAt(s, f) /\ ~IsPacked(st) /\ ok, <<r, st>> \o <<st>>, <<st>>, <<3, 1>>))
    <3>1. SigOK(Sig(MutableFieldAt(s, f) /\ ~IsPacked(st) /\ ok, <<r, st>> \o <<>>, <<st>>, <<2 + 0, 1>>))
      BY <2>1, <2>2, LongerSig
    <3>2. SigOK(Sig(MutableFieldAt(s, f) /\ ~IsPacked(st) /\ ok, <<r, st>> \o <<st>>, <<st>>, <<2 + 1, 1>>))
      BY <2>1, <2>2, LongerSig
    <3> QED
      BY <3>1, <3>2
  <2>4. SigsOK({
       Sig(MutableFieldAt(s, f) /\ ~IsPacked(st) /\ st \in {I32, I64}, <<r, st>> \o <<>>, <<st>>, <<2, 1>>),
       Sig(MutableFieldAt(s, f) /\ ~IsPacked(st) /\ SharedAtomicType(st, "any"), <<r, st>> \o <<>>, <<st>>, <<2, 1>>),
       Sig(MutableFieldAt(s, f) /\ ~IsPacked(st) /\ SharedAtomicType(st, "eq"), <<r, st>> \o <<st>>, <<st>>, <<3, 1>>)})
    BY <2>3 DEF SigsOK
  <2> QED
    BY <1>1, <2>4, GatedOK DEF StructRmw, Rmw
<1> QED
  BY <1>3, <1>4, <1>5

\* The operators on structures.
LEMMA StructSigsOK == SigsOK(StructSigs)
  BY StructNewOK, StructAccessOK DEF StructSigs, SigsOK

\* array.new, array.new_default and array.new_fixed.
LEMMA ArrayNewOK ==
  ASSUME NEW a \in 1..Len(Types)
  PROVE  SigsOK(ArrayNew(a))
<1>1. PICK t, r : t = Unpack(ElemType(a)) /\ r = ConcreteRef(FALSE, a)
  OBVIOUS
<1>2. t \in ValTypes /\ r \in ValTypes /\ I32 \in ValTypes
  BY <1>1, StoredTypes, StorageFacts, ConcreteIsValue, NumbersAreValues
<1>3. ASSUME NEW ok PROVE /\ SigOK(Sig(TypeAt(a, "array") /\ ok, <<t, I32>>, <<r>>, <<2, 1>>))
                          /\ SigOK(Sig(TypeAt(a, "array") /\ ok, <<I32>>, <<r>>, <<1, 1>>))
  BY <1>2, Producers
<1>4. PICK here : here = (TypeAt(a, "array") /\ TRUE)
  OBVIOUS
<1>5. ASSUME NEW n \in Nat
      PROVE  SigOK(Sig(here, [i \in 1..n |-> t], <<r>>, <<n, 1>>))
  <2>1. [i \in 1..n |-> t] \in Seq(ValTypes) /\ Len([i \in 1..n |-> t]) = n
    BY <1>2, CopiesFacts
  <2>2. PICK ts : ts = [i \in 1..n |-> t]
    OBVIOUS
  <2>3. SigOK(Sig(here, ts, <<r>>, <<n, 1>>))
    BY <1>2, <2>1, <2>2, SigIs, ShortLists
  <2> QED
    BY <2>2, <2>3
<1>6. SigsOK({Sig(here, [i \in 1..n |-> t], <<r>>, <<n, 1>>) : n \in 0..2})
  <2> SUFFICES ASSUME NEW s \in {Sig(here, [i \in 1..n |-> t], <<r>>, <<n, 1>>) : n \in 0..2}
               PROVE  SigOK(s)
    BY Zenon DEF SigsOK
  <2>1. PICK n \in 0..2 : s = Sig(here, [i \in 1..n |-> t], <<r>>, <<n, 1>>)
    BY Zenon
  <2>2. n \in Nat
    OBVIOUS
  <2> QED
    BY <1>5, <2>1, <2>2
<1>7. SigsOK({Sig(TypeAt(a, "array") /\ TRUE, <<t, I32>>, <<r>>, <<2, 1>>),
              Sig(TypeAt(a, "array") /\ IsDefaultable(t), <<I32>>, <<r>>, <<1, 1>>)})
  BY <1>3 DEF SigsOK
<1>8. SigsOK({Sig(TypeAt(a, "array") /\ TRUE, <<t, I32>>, <<r>>, <<2, 1>>),
              Sig(TypeAt(a, "array") /\ IsDefaultable(t), <<I32>>, <<r>>, <<1, 1>>)}
             \cup {Sig(here, [i \in 1..n |-> t], <<r>>, <<n, 1>>) : n \in 0..2})
  BY <1>6, <1>7 DEF SigsOK
<1> QED
  BY <1>1, <1>4, <1>8, GatedOK DEF ArrayNew

\* Arrays from data and element segments.
LEMMA ArraySegmentsOK ==
  ASSUME NEW a \in 1..Len(Types), NEW d, NEW e
  PROVE  SigsOK(ArraySegments(a, d, e))
<1>1. PICK t : t = Unpack(ElemType(a))
  OBVIOUS
<1>2. ConcreteRef(FALSE, a) \in ValTypes /\ ConcreteRef(TRUE, a) \in ValTypes /\ I32 \in ValTypes
  BY ConcreteIsValue, NumbersAreValues
<1>3. ASSUME NEW ok
      PROVE  /\ SigOK(Sig(TypeAt(a, "array") /\ ok, <<I32, I32>>, <<ConcreteRef(FALSE, a)>>, <<2, 1>>))
             /\ SigOK(Sig(MutableArrayAt(a) /\ ok, <<ConcreteRef(TRUE, a), I32, I32, I32>>, <<>>, <<4, 0>>))
  BY <1>2, Producers, Consumers
<1>4. PICK oks : oks = {~IsRef(t) /\ DataAt(d), IsRef(t) /\ ElemAt(e) /\ IsSubtype(Types, Elems[e], t)}
  OBVIOUS
<1>5. SigsOK({Sig(TypeAt(a, "array") /\ ok, <<I32, I32>>, <<ConcreteRef(FALSE, a)>>, <<2, 1>>)
                : ok \in oks}
            \cup {Sig(MutableArrayAt(a) /\ ok, <<ConcreteRef(TRUE, a), I32, I32, I32>>, <<>>,
                      <<4, 0>>) : ok \in oks})
  BY <1>3 DEF SigsOK
<1> QED
  BY <1>1, <1>4, <1>5, GatedOK DEF ArraySegments

\* Access to arrays, atomic or not.
LEMMA ArrayAccessOK ==
  ASSUME NEW a \in 1..Len(Types)
  PROVE  SigsOK(ArrayGet(a)) /\ SigsOK(ArraySet(a)) /\ SigsOK(ArrayRmw(a))
<1>1. PICK st, r : st = ElemType(a) /\ r = ConcreteRef(TRUE, a)
  OBVIOUS
<1>2. /\ r \in ValTypes /\ Unpack(st) \in ValTypes /\ (~IsPacked(st) => st \in ValTypes)
      /\ I32 \in ValTypes
  BY <1>1, ConcreteIsValue, StoredTypes, StorageFacts, NumbersAreValues
<1>3. SigsOK(ArrayGet(a))
  <2>1. ASSUME NEW ok PROVE SigOK(Sig(ok, <<r, I32>>, <<Unpack(st)>>, <<2, 1>>))
    BY <1>2, Producers
  <2>2. ASSUME NEW x, NEW y
        PROVE  SigsOK({Sig(x, <<r, I32>>, <<Unpack(st)>>, <<2, 1>>),
                       Sig(y, <<r, I32>>, <<Unpack(st)>>, <<2, 1>>)})
    BY <2>1 DEF SigsOK
  <2>3. ASSUME NEW x, NEW y, NEW feature
        PROVE  SigsOK(Gated(feature, {Sig(x, <<r, I32>>, <<Unpack(st)>>, <<2, 1>>),
                                      Sig(y, <<r, I32>>, <<Unpack(st)>>, <<2, 1>>)}))
    BY <2>2, GatedOK
  <2> QED
    BY <1>1, <2>3 DEF ArrayGet, SigsOK
<1>4. SigsOK(ArraySet(a))
  <2>1. ASSUME NEW ok PROVE SigOK(Sig(ok, <<r, I32, Unpack(st)>>, <<>>, <<3, 0>>))
    BY <1>2, Consumers
  <2>2. ASSUME NEW ok, NEW feature
        PROVE  SigsOK(Gated(feature, {Sig(ok, <<r, I32, Unpack(st)>>, <<>>, <<3, 0>>)}))
    <3>1. SigsOK({Sig(ok, <<r, I32, Unpack(st)>>, <<>>, <<3, 0>>)})
      BY <2>1 DEF SigsOK
    <3> QED
      BY <3>1, GatedOK
  <2> QED
    BY <1>1, <2>2 DEF ArraySet, SigsOK
<1>5. SigsOK(ArrayRmw(a))
  <2>1. PICK here : here = (MutableArrayAt(a) /\ ~IsPacked(st))
    OBVIOUS
  <2>2. here => /\ <<r, I32, st>> \in Seq(ValTypes) /\ Len(<<r, I32, st>>) = 3 /\ st \in ValTypes
                /\ <<st>> \in Seq(ValTypes) /\ Len(<<st>>) = 1
                /\ <<>> \in Seq(ValTypes) /\ Len(<<>>) = 0
    BY <1>2, <2>1, ShortLists
  <2>3. ASSUME NEW ok
        PROVE  /\ SigOK(Sig(MutableArrayAt(a) /\ ~IsPacked(st) /\ ok, <<r, I32, st>> \o <<>>, <<st>>, <<3, 1>>))
               /\ SigOK(Sig(MutableArrayAt(a) /\ ~IsPacked(st) /\ ok, <<r, I32, st>> \o <<st>>, <<st>>, <<4, 1>>))
    <3>1. SigOK(Sig(MutableArrayAt(a) /\ ~IsPacked(st) /\ ok, <<r, I32, st>> \o <<>>, <<st>>, <<3 + 0, 1>>))
      BY <2>1, <2>2, LongerSig
    <3>2. SigOK(Sig(MutableArrayAt(a) /\ ~IsPacked(st) /\ ok, <<r, I32, st>> \o <<st>>, <<st>>, <<3 + 1, 1>>))
      BY <2>1, <2>2, LongerSig
    <3> QED
      BY <3>1, <3>2
  <2>4. SigsOK({
       Sig(MutableArrayAt(a) /\ ~IsPacked(st) /\ st \in {I32, I64}, <<r, I32, st>> \o <<>>, <<st>>, <<3, 1>>),
       Sig(MutableArrayAt(a) /\ ~IsPacked(st) /\ SharedAtomicType(st, "any"), <<r, I32, st>> \o <<>>, <<st>>, <<3, 1>>),
       Sig(MutableArrayAt(a) /\ ~IsPacked(st) /\ SharedAtomicType(st, "eq"), <<r, I32, st>> \o <<st>>, <<st>>, <<4, 1>>)})
    BY <2>3 DEF SigsOK
  <2> QED
    BY <1>1, <2>4, GatedOK DEF ArrayRmw, RmwArray
<1> QED
  BY <1>3, <1>4, <1>5

\* array.fill and array.copy.
LEMMA ArrayMovesOK ==
  ASSUME NEW a \in 1..Len(Types), NEW src \in 1..Len(Types)
  PROVE  SigOK(ArrayFill(a)) /\ SigOK(ArrayCopy(a, src))
<1>1. PICK t, r, q : t = Unpack(ElemType(a)) /\ r = ConcreteRef(TRUE, a) /\ q = ConcreteRef(TRUE, src)
  OBVIOUS
<1>2. t \in ValTypes /\ r \in ValTypes /\ q \in ValTypes /\ I32 \in ValTypes
  BY <1>1, StoredTypes, StorageFacts, ConcreteIsValue, NumbersAreValues
<1>3. ASSUME NEW ok PROVE SigOK(Sig(ok, <<r, I32, t, I32>>, <<>>, <<4, 0>>))
  BY <1>2, Consumers
<1>4. ASSUME NEW ok PROVE SigOK(Sig(ok, <<r, I32, q, I32, I32>>, <<>>, <<5, 0>>))
  <2>1. <<r, I32, q, I32, I32>> \in Seq(ValTypes) /\ Len(<<r, I32, q, I32, I32>>) = 5
        /\ <<>> \in Seq(ValTypes) /\ Len(<<>>) = 0
    BY <1>2, ShortLists
  <2> QED
    BY <2>1, SigIs
<1> QED
  BY <1>1, <1>3, <1>4 DEF ArrayFill, ArrayCopy

\* The operators on arrays.
LEMMA ArraySigsOK == SigsOK(ArraySigs)
<1> SUFFICES ASSUME NEW s \in ArraySigs PROVE SigOK(s)
  BY DEF SigsOK
<1>1. PICK a \in 1..Len(Types) :
        s \in ArrayNew(a) \cup ArrayGet(a) \cup ArraySet(a) \cup ArrayRmw(a) \cup {ArrayFill(a)}
              \cup {ArrayCopy(a, src) : src \in 1..Len(Types)}
              \cup UNION {ArraySegments(a, d, e) : d \in 0..1, e \in 1..Len(Elems)}
  BY DEF ArraySigs
<1> QED
  BY <1>1, ArrayNewOK, ArrayAccessOK, ArrayMovesOK, ArraySegmentsOK DEF SigsOK

\* A visitor given by its signature does what its lists say, as announced.
LEMMA ApplyDoes ==
  ASSUME NEW vm, Sound(vm), NEW s, SigOK(s)
  PROVE  Does(vm, Apply(vm, s), s.arity[1], s.arity[2]) /\ (s.ok => s.arity = <<s.arity[1], s.arity[2]>>)
<1>1. vm \in Validators
  BY DEF Sound
<1>2. CASE s.ok
  <2>1. PICK ps, rs : ps = s.pops /\ rs = s.pushes
    OBVIOUS
  <2>2. ps \in Seq(ValTypes) /\ rs \in Seq(ValTypes) /\ s.arity = <<Len(ps), Len(rs)>>
    BY <1>2, <2>1 DEF SigOK
  <2>3. Len(ps) \in Nat /\ Len(rs) \in Nat
    BY <2>2, ListOfValues
  <2>4. Does(vm, PopAll(vm, ps), Len(ps), 0)
    BY <2>2, PopAllDoes
  <2>5. Does(PopAll(vm, ps), PushAll(PopAll(vm, ps), rs), 0, Len(rs))
    BY <2>2, <2>4, DoesIsSound, PushValues
  <2>6. Does(vm, PushAll(PopAll(vm, ps), rs), Len(ps) + 0, 0 + Len(rs))
    BY <1>1, <2>3, <2>4, <2>5, DoesThenDoes
  <2>7. Does(vm, PushAll(PopAll(vm, ps), rs), Len(ps), Len(rs))
    BY <2>3, <2>6
  <2> QED
    BY <1>2, <2>1, <2>2, <2>7 DEF Apply
<1>3. CASE ~s.ok
  BY <1>1, <1>3, FailMoves DEF Apply
<1> QED
  BY <1>2, <1>3

-----------------------------------------------------------------------------
(* Visits: what the operator table announces is what the visitor does.       *)

Step(v) ==
    \E p, q : Does(Vm, v, p, q) \/ Opened(Vm, v, p, q) \/ Closed(Vm, v, p, q) \/ Reopened(Vm, v, p, q)

Agrees(v, arity) == v.ok /\ arity # NoArity => <<v.pops, v.pushes>> = arity

Visited(v, arity) == Step(v) /\ Agrees(v, arity)

\* The record of the validator before an operator, read from the variables.
LEMMA StateFacts ==
  /\ Vm.ok /\ Vm.pops = 0 /\ Vm.pushes = 0 /\ Vm.control = control /\ Vm.operands = operands
  /\ Vm.inits = inits /\ Vm.inited = inited
  /\ Good(Vm) => Sound(Vm) /\ Vm \in Validators
<1>1. /\ Vm.ok /\ Vm.pops = 0 /\ Vm.pushes = 0 /\ Vm.control = control /\ Vm.operands = operands
      /\ Vm.inits = inits /\ Vm.inited = inited
  BY DEF Vm
<1> QED
  BY <1>1 DEF Good, Sound

\* A move with the announced counts is a visit as announced.
LEMMA MovesAgree ==
  ASSUME NEW v, NEW p, NEW q, NEW arity,
         \/ Does(Vm, v, p, q) \/ Opened(Vm, v, p, q) \/ Closed(Vm, v, p, q) \/ Reopened(Vm, v, p, q),
         v.ok /\ arity # NoArity => p \in Nat /\ q \in Nat /\ arity = <<p, q>>
  PROVE  Visited(v, arity)
<1>1. Step(v)
  BY DEF Step
<1>2. v.ok => v.pops = Vm.pops + p /\ v.pushes = Vm.pushes + q
  BY DEF Does, Opened, Closed, Reopened
<1>3. Vm.pops = 0 /\ Vm.pushes = 0
  BY StateFacts
<1>4. ASSUME v.ok, arity # NoArity PROVE <<v.pops, v.pushes>> = arity
  <2>1. p \in Nat /\ q \in Nat /\ arity = <<p, q>>
    BY <1>4
  <2>2. v.pops = p /\ v.pushes = q
    BY <1>2, <1>3, <1>4, <2>1
  <2> QED
    BY <2>1, <2>2
<1> QED
  BY <1>1, <1>4 DEF Visited, Agrees

\* A visitor whose check has failed.
LEMMA FailVisited ==
  ASSUME NEW vm \in Validators, NEW arity
  PROVE  Visited(Fail(vm), arity)
<1>1. Does(Vm, Fail(vm), 0, 0) /\ ~Fail(vm).ok
  BY FailMoves
<1> QED
  BY <1>1, MovesAgree

\* A visit as announced ends in an error or goes on, but never in a panic.
LEMMA VisitIs ==
  ASSUME NEW v, NEW arity, Visited(v, arity), Visit(v, arity)
  PROVE  \/ Drop("rejected")
         \/ v.ok /\ Step(v) /\ Continue(v)
<1>1. IF ~v.ok \/ arity = NoArity THEN Drop("rejected")
      ELSE IF <<v.pops, v.pushes>> # arity THEN Drop("panicked") ELSE Continue(v)
  BY DEF Visit
<1> QED
  BY <1>1 DEF Visited, Agrees

-----------------------------------------------------------------------------
\* A count of two numbers is known, and is announced as it is.
LEMMA Known ==
  ASSUME NEW p \in Nat, NEW q \in Nat
  PROVE  /\ <<p, q>> # NoArity /\ <<p, q>>[1] = p /\ <<p, q>>[2] = q
         /\ Announce(p, q) = <<p, q>>
<1>1. <<p, q>>[1] = p /\ <<p, q>>[2] = q
  OBVIOUS
<1>2. <<p, q>> # NoArity
  <2>1. NoArity[1] = -1 /\ p # -1
    BY DEF NoArity
  <2> QED
    BY <1>1, <2>1
<1>3. Announce(p, q) = <<p, q>>
  <2>1. ~(p < 0) /\ ~(q < 0)
    OBVIOUS
  <2> QED
    BY <2>1 DEF Announce
<1> QED
  BY <1>1, <1>2, <1>3

\* Unknown counts stay unknown.
LEMMA PlusFacts ==
  /\ \A a, n \in Nat : Plus(a, n) = a + n /\ a + n \in Nat
  /\ \A a : Plus(a, -1) = -1
  /\ \A x : Announce(-1, x) = NoArity /\ Announce(x, -1) = NoArity
<1>1. \A a, n \in Nat : ~(n < 0) /\ a + n \in Nat
  OBVIOUS
<1>2. -1 < 0
  OBVIOUS
<1> QED
  BY <1>1, <1>2 DEF Plus, Announce

\* label_arity and `count br` of arity.rs are the numbers of types the visitors use.
LEMMA LabelArity ==
  ASSUME Good(Vm), NEW d \in Nat
  PROVE  IF JumpOk(Vm, d)
         THEN /\ label_arity(d) = <<Len(Params(Jump(Vm, d).block_type)), Len(Results(Jump(Vm, d).block_type))>>
              /\ label_arity(d)[1] = Len(Params(Jump(Vm, d).block_type))
              /\ label_arity(d)[2] = Len(Results(Jump(Vm, d).block_type))
              /\ Len(Params(Jump(Vm, d).block_type)) \in Nat /\ Len(Results(Jump(Vm, d).block_type)) \in Nat
              /\ br_count(d) = LabelCount(Vm, d) /\ LabelCount(Vm, d) \in Nat
         ELSE br_count(d) = -1
<1>1. CASE JumpOk(Vm, d)
  <2>1. PICK bt : bt = Jump(Vm, d).block_type
    OBVIOUS
  <2>2. bt \in Blocks
    BY <1>1, <2>1, LabelFacts, StateFacts
  <2>3. /\ block_type_arity(bt) = <<Len(Params(bt)), Len(Results(bt))>>
        /\ Len(Params(bt)) \in Nat /\ Len(Results(bt)) \in Nat
    BY <2>2, BlockFacts
  <2>4. label_arity(d) = <<Len(Params(bt)), Len(Results(bt))>>
    BY <1>1, <2>1, <2>3 DEF label_arity
  <2>5. label_arity(d) # NoArity /\ label_arity(d)[1] = Len(Params(bt)) /\ label_arity(d)[2] = Len(Results(bt))
    BY <2>3, <2>4, Known
  <2>6. br_count(d) = LabelCount(Vm, d)
    BY <2>1, <2>5 DEF br_count, LabelCount, LabelTypes
  <2>7. LabelCount(Vm, d) \in Nat
    BY <1>1, LabelFacts, StateFacts
  <2> QED
    BY <1>1, <2>1, <2>3, <2>4, <2>5, <2>6, <2>7
<1>2. CASE ~JumpOk(Vm, d)
  <2>1. label_arity(d) = NoArity
    BY <1>2 DEF label_arity
  <2> QED
    BY <1>2, <2>1 DEF br_count
<1> QED
  BY <1>1, <1>2

\* The arity of the innermost frame.
LEMMA InnermostArity ==
  ASSUME Good(Vm), control # <<>>
  PROVE  /\ label_arity(0)[1] = ParamCount(Vm) /\ label_arity(0)[2] = ResultCount(Vm)
         /\ ParamCount(Vm) \in Nat /\ ResultCount(Vm) \in Nat
<1>1. Vm.control # <<>> /\ Vm \in Validators
  BY StateFacts
<1>2. Len(Vm.control) \in 1..Len(Vm.control) /\ Len(Vm.control) \in Nat
  BY <1>1, InnermostFacts, Fields
<1>3. JumpOk(Vm, 0) /\ Jump(Vm, 0) = Innermost(Vm)
  <2>1. Len(Vm.control) - 0 = Len(Vm.control) /\ 0 < Len(Vm.control)
    BY <1>2
  <2> QED
    BY <2>1 DEF JumpOk, Jump, Innermost
<1>4. 0 \in Nat
  OBVIOUS
<1>5. /\ label_arity(0)[1] = Len(Params(Jump(Vm, 0).block_type))
      /\ label_arity(0)[2] = Len(Results(Jump(Vm, 0).block_type))
      /\ Len(Params(Jump(Vm, 0).block_type)) \in Nat /\ Len(Results(Jump(Vm, 0).block_type)) \in Nat
  BY <1>3, <1>4, LabelArity
<1> QED
  BY <1>3, <1>5 DEF ParamCount, ResultCount

\* The gated validator has the frames of the other.
LEMMA GatedState ==
  ASSUME Good(Vm), NEW feature, NEW g, g = Gate(Vm, feature)
  PROVE  /\ Sound(g) /\ g \in Validators /\ (g = Vm \/ ~g.ok)
         /\ \A d : LabelCount(g, d) = LabelCount(Vm, d)
         /\ ResultCount(g) = ResultCount(Vm) /\ ParamCount(g) = ParamCount(Vm)
<1>1. Sound(g) /\ g.control = Vm.control /\ (g = Vm \/ ~g.ok)
  BY GateFacts, StateFacts
<1>2. \A d : Jump(g, d) = Jump(Vm, d)
  BY <1>1 DEF Jump
<1>3. Innermost(g) = Innermost(Vm)
  BY <1>1 DEF Innermost
<1> QED
  BY <1>1, <1>2, <1>3 DEF LabelCount, ResultCount, ParamCount, Sound

-----------------------------------------------------------------------------
(* Every operator, by group.                                                 *)

Moves(vm, v, p, q) == Does(vm, v, p, q) \/ Opened(vm, v, p, q) \/ Closed(vm, v, p, q) \/ Reopened(vm, v, p, q)

Advance == Drop("rejected") \/ \E v : v.ok /\ Step(v) /\ Continue(v)

\* A visitor behind a proposal's check, with the announced counts, is rejected or goes on.
LEMMA VisitMoves ==
  ASSUME Good(Vm), NEW g, g = Vm \/ ~g.ok, NEW v, NEW p, NEW q, NEW arity, Moves(g, v, p, q),
         v.ok /\ arity # NoArity => p \in Nat /\ q \in Nat /\ arity = <<p, q>>,
         Visit(v, arity)
  PROVE  Advance
<1>1. Sound(Vm)
  BY StateFacts
<1>2. Moves(Vm, v, p, q)
  BY <1>1, GateMoves DEF Moves
<1>3. Visited(v, arity)
  BY <1>2, MovesAgree DEF Moves
<1> QED
  BY <1>3, VisitIs DEF Advance

\* The same, for a visitor within a frame and a fixed arity.
LEMMA VisitDoes ==
  ASSUME Good(Vm), NEW g, g = Vm \/ ~g.ok, NEW v, NEW p \in Nat, NEW q \in Nat,
         Does(g, v, p, q), Visit(v, <<p, q>>)
  PROVE  Advance
<1>1. Moves(g, v, p, q)
  BY DEF Moves
<1> QED
  BY <1>1, VisitMoves

\* nop and unreachable.
LEMMA PlainMoves == ASSUME Good(Vm), Nop \/ Unreachable PROVE Advance
<1>1. Sound(Vm) /\ 0 \in Nat
  BY StateFacts
<1>2. Does(Vm, Vm, 0, 0) /\ Does(Vm, unreachable(Vm), 0, 0)
  BY <1>1, DoesNothing, UnreachableDoes
<1>3. CASE Nop
  <2>1. Visit(Vm, <<0, 0>>)
    BY <1>3 DEF Nop
  <2> QED
    BY <1>1, <1>2, <2>1, VisitDoes
<1>4. CASE Unreachable
  <2>1. Visit(unreachable(Vm), <<0, 0>>)
    BY <1>4 DEF Unreachable
  <2> QED
    BY <1>1, <1>2, <2>1, VisitDoes
<1> QED
  BY <1>3, <1>4

\* An operator given by its signature.
LEMMA SigMoves ==
  ASSUME Good(Vm), NEW sigs, SigsOK(sigs), NEW s \in sigs, VisitSig(s)
  PROVE  Advance
<1>1. Sound(Vm) /\ SigOK(s)
  BY StateFacts DEF SigsOK
<1>2. Does(Vm, Apply(Vm, s), s.arity[1], s.arity[2]) /\ (s.ok => s.arity = <<s.arity[1], s.arity[2]>>)
  BY <1>1, ApplyDoes
<1>3. Apply(Vm, s).ok => s.ok
  BY <1>1 DEF Apply, Require, Fail
<1>4. s.ok => s.arity[1] \in Nat /\ s.arity[2] \in Nat
  BY <1>1, LenProperties DEF SigOK
<1>5. Visit(Apply(Vm, s), s.arity)
  BY DEF VisitSig
<1>6. Moves(Vm, Apply(Vm, s), s.arity[1], s.arity[2])
  BY <1>2 DEF Moves
<1>7. Apply(Vm, s).ok /\ s.arity # NoArity
        => s.arity[1] \in Nat /\ s.arity[2] \in Nat /\ s.arity = <<s.arity[1], s.arity[2]>>
  BY <1>2, <1>3, <1>4
<1> HIDE DEF Moves
<1>8. PICK v, p, q : v = Apply(Vm, s) /\ p = s.arity[1] /\ q = s.arity[2]
  OBVIOUS
<1>9. /\ Moves(Vm, v, p, q) /\ Visit(v, s.arity)
      /\ v.ok /\ s.arity # NoArity => p \in Nat /\ q \in Nat /\ s.arity = <<p, q>>
  BY <1>5, <1>6, <1>7, <1>8
<1> QED
  BY <1>9, VisitMoves

\* The groups of operators given by their signatures.
LEMMA DataMoves ==
  ASSUME Good(Vm), Numeric \/ Memory \/ Vector \/ Global \/ Table \/ Struct \/ Array
  PROVE  Advance
<1>1. CASE Numeric
  BY <1>1, SigMoves, NumericSigsOK DEF Numeric
<1>2. CASE Memory
  BY <1>2, SigMoves, MemorySigsOK DEF Memory
<1>3. CASE Vector
  BY <1>3, SigMoves, VectorSigsOK DEF Vector
<1>4. CASE Global
  BY <1>4, SigMoves, GlobalSigsOK DEF Global
<1>5. CASE Table
  BY <1>5, SigMoves, TableSigsOK DEF Table
<1>6. CASE Struct
  BY <1>6, SigMoves, StructSigsOK DEF Struct
<1>7. CASE Array
  BY <1>7, SigMoves, ArraySigsOK DEF Array
<1> QED
  BY <1>1, <1>2, <1>3, <1>4, <1>5, <1>6, <1>7

\* A visitor whose announced counts may be unknown.
LEMMA VisitAnnounced ==
  ASSUME Good(Vm), NEW g, g = Vm \/ ~g.ok, NEW v, NEW p, NEW q, NEW a, NEW b, Moves(g, v, p, q),
         v.ok /\ Announce(a, b) # NoArity => p \in Nat /\ q \in Nat /\ a = p /\ b = q,
         Visit(v, Announce(a, b))
  PROVE  Advance
<1>1. PICK arity : arity = Announce(a, b)
  OBVIOUS
<1>2. v.ok /\ arity # NoArity => p \in Nat /\ q \in Nat /\ arity = <<p, q>>
  BY <1>1, Known
<1>3. Visit(v, arity)
  BY <1>1
<1> QED
  BY <1>2, <1>3, VisitMoves

\* block_type_arity of a block type that is valid.
LEMMA BlockArity ==
  ASSUME NEW bt \in BlockTypes, BlockTypeOk(bt), NEW a, a = block_type_arity(bt)
  PROVE  a[1] = Len(Params(bt)) /\ a[1] \in Nat
<1>1. bt \in Blocks
  BY CheckedBlock
<1>2. block_type_arity(bt) = <<Len(Params(bt)), Len(Results(bt))>> /\ Len(Params(bt)) \in Nat
  BY <1>1, BlockFacts
<1> QED
  BY <1>2

\* No frame is opened with a block type that is not valid.
LEMMA OpenNeedsType ==
  ASSUME NEW vm \in Validators, NEW bt, ~BlockTypeOk(bt), NEW kind, NEW catches
  PROVE  /\ ~visit_block(vm, kind, bt).ok /\ ~visit_if(vm, bt).ok
         /\ ~visit_try_table(vm, bt, catches).ok
<1>1. ~Fail(vm).ok
  BY FailMoves
<1> QED
  BY <1>1 DEF visit_block, visit_if, visit_try_table

\* The operators that open a block.
LEMMA OpenMoves == ASSUME Good(Vm), OpenBlock PROVE Advance
<1>1. PICK bt \in BlockTypes :
         \/ \E kind \in {"Block", "Loop"} \cup QuantifiedKinds :
               Visit(visit_block(Vm, kind, bt), <<block_type_arity(bt)[1], block_type_arity(bt)[1]>>)
         \/ Visit(visit_if(Vm, bt), Announce(Plus(1, block_type_arity(bt)[1]), block_type_arity(bt)[1]))
         \/ Visit(visit_block(Gate(Vm, "legacy_exceptions"), "LegacyTry", bt),
                  <<block_type_arity(bt)[1], block_type_arity(bt)[1]>>)
         \/ \E catches \in CatchLists :
               Visit(visit_try_table(Gate(Vm, "exceptions"), bt, catches),
                     <<block_type_arity(bt)[1], block_type_arity(bt)[1]>>)
  BY DEF OpenBlock
<1>2. PICK n, m : n = block_type_arity(bt)[1] /\ m = Len(Params(bt))
  OBVIOUS
<1>3. BlockTypeOk(bt) => n = m /\ n \in Nat
  BY <1>2, BlockArity
<1>4. Sound(Vm) /\ Vm \in Validators
  BY StateFacts
<1>5. ASSUME NEW kind \in {"Block", "Loop"} \cup QuantifiedKinds, Visit(visit_block(Vm, kind, bt), <<n, n>>)
      PROVE  Advance
  <2>1. kind \in FrameKinds
    BY DEF FrameKinds
  <2>2. PICK v : v = visit_block(Vm, kind, bt)
    OBVIOUS
  <2>3. Moves(Vm, v, m, m)
    BY <1>2, <1>4, <2>1, <2>2, VisitBlockOpens DEF Moves
  <2>4. v.ok => n = m /\ n \in Nat
    BY <1>3, <1>4, <2>2, OpenNeedsType
  <2> QED
    BY <1>5, <2>2, <2>3, <2>4, VisitMoves
<1>6. ASSUME Visit(visit_if(Vm, bt), Announce(Plus(1, n), n))
      PROVE  Advance
  <2>1. PICK v : v = visit_if(Vm, bt)
    OBVIOUS
  <2>2. Moves(Vm, v, 1 + m, m)
    BY <1>2, <1>4, <2>1, VisitIfOpens DEF Moves
  <2>3. v.ok => n = m /\ n \in Nat
    BY <1>3, <1>4, <2>1, OpenNeedsType
  <2>4. v.ok => Plus(1, n) = 1 + m /\ 1 + m \in Nat /\ m \in Nat
    BY <2>3, PlusFacts
  <2> QED
    BY <1>6, <2>1, <2>2, <2>3, <2>4, VisitAnnounced
<1>7. ASSUME Visit(visit_block(Gate(Vm, "legacy_exceptions"), "LegacyTry", bt), <<n, n>>)
      PROVE  Advance
  <2>1. PICK g : g = Gate(Vm, "legacy_exceptions")
    OBVIOUS
  <2>2. Sound(g) /\ g \in Validators /\ (g = Vm \/ ~g.ok)
    BY <2>1, GatedState
  <2>3. "LegacyTry" \in FrameKinds
    BY DEF FrameKinds
  <2>4. PICK v : v = visit_block(g, "LegacyTry", bt)
    OBVIOUS
  <2>5. Moves(g, v, m, m)
    BY <1>2, <2>2, <2>3, <2>4, VisitBlockOpens DEF Moves
  <2>6. v.ok => n = m /\ n \in Nat
    BY <1>3, <2>2, <2>4, OpenNeedsType
  <2> QED
    BY <1>7, <2>1, <2>2, <2>4, <2>5, <2>6, VisitMoves
<1>8. ASSUME NEW catches \in CatchLists,
             Visit(visit_try_table(Gate(Vm, "exceptions"), bt, catches), <<n, n>>)
      PROVE  Advance
  <2>1. PICK g : g = Gate(Vm, "exceptions")
    OBVIOUS
  <2>2. Sound(g) /\ g \in Validators /\ (g = Vm \/ ~g.ok)
    BY <2>1, GatedState
  <2>4. PICK v : v = visit_try_table(g, bt, catches)
    OBVIOUS
  <2>5. Moves(g, v, m, m)
    BY <1>2, <2>2, <2>4, VisitTryTableOpens DEF Moves
  <2>6. v.ok => n = m /\ n \in Nat
    BY <1>3, <2>2, <2>4, OpenNeedsType
  <2> QED
    BY <1>8, <2>1, <2>2, <2>4, <2>5, <2>6, VisitMoves
<1> QED
  BY <1>1, <1>2, <1>5, <1>6, <1>7, <1>8

\* else.
LEMMA ElseMoves == ASSUME Good(Vm), Else PROVE Advance
<1>1. Sound(Vm) /\ Vm \in Validators /\ Vm.control = control
  BY StateFacts
<1>2. PICK v : v = visit_else(Vm)
  OBVIOUS
<1>3. PICK n, m : n = label_arity(0)[2] /\ m = label_arity(0)[1]
  OBVIOUS
<1>4. PICK p, q : p = ResultCount(Vm) /\ q = ParamCount(Vm)
  OBVIOUS
<1>5. Reopened(Vm, v, p, q)
  BY <1>1, <1>2, <1>4, VisitElseReopens
<1>6. v.ok => control # <<>>
  BY <1>1, <1>5 DEF Reopened, Left
<1>7. v.ok => n = p /\ m = q /\ p \in Nat /\ q \in Nat
  BY <1>3, <1>4, <1>6, InnermostArity
<1>8. Visit(v, <<n, m>>)
  BY <1>2, <1>3 DEF Else
<1>9. Moves(Vm, v, p, q)
  BY <1>5 DEF Moves
<1> QED
  BY <1>7, <1>8, <1>9, VisitMoves

\* end: with implicit_else the table announces the empty `else` of an `if` too.
LEMMA EndMoves == ASSUME Good(Vm), End PROVE Advance
<1>1. Sound(Vm) /\ Vm \in Validators /\ Vm.control = control
  BY StateFacts
<1>2. PICK v : v = visit_end(Vm)
  OBVIOUS
<1>3. PICK R, P : R = ResultCount(Vm) /\ P = ParamCount(Vm)
  OBVIOUS
<1>4. PICK a, b : /\ a = Plus(implicit_else[1], label_arity(0)[2])
                  /\ b = Plus(implicit_else[2], label_arity(0)[2])
  OBVIOUS
<1>5. Visit(v, Announce(a, b))
  BY <1>2, <1>4 DEF End
<1>6. ASSUME control # <<>>
      PROVE  label_arity(0)[1] = P /\ label_arity(0)[2] = R /\ P \in Nat /\ R \in Nat
  BY <1>3, <1>6, InnermostArity
<1>7. CASE Closes(Vm, {"If"})
  <2>1. control # <<>> /\ Last(control).kind = "If"
    BY <1>1, <1>7 DEF Closes
  <2>2. implicit_else = <<R, P>>
    BY <1>6, <2>1 DEF implicit_else
  <2>3. a = R + R /\ b = P + R /\ R + R \in Nat /\ P + R \in Nat
    BY <1>4, <1>6, <2>1, <2>2, PlusFacts
  <2>4. Moves(Vm, v, R + R, P + R)
    BY <1>1, <1>2, <1>3, <1>7, VisitEndCloses DEF Moves
  <2> QED
    BY <1>5, <2>3, <2>4, VisitAnnounced
<1>8. CASE ~Closes(Vm, {"If"})
  <2>1. Closed(Vm, v, R, R)
    BY <1>1, <1>2, <1>3, <1>8, VisitEndCloses
  <2>2. v.ok => control # <<>>
    BY <1>1, <2>1 DEF Closed, Left
  <2>3. implicit_else = <<0, 0>>
    BY <1>1, <1>8 DEF implicit_else, Closes
  <2>4. implicit_else[1] = 0 /\ implicit_else[2] = 0
    BY <2>3
  <2>5. R \in Nat => 0 + R = R /\ Plus(0, R) = 0 + R
    BY PlusFacts
  <2>6. v.ok => a = R /\ b = R /\ R \in Nat
    BY <1>4, <1>6, <2>2, <2>4, <2>5
  <2>7. Moves(Vm, v, R, R)
    BY <2>1 DEF Moves
  <2> QED
    BY <1>5, <2>6, <2>7, VisitAnnounced
<1> QED
  BY <1>7, <1>8

\* What the operator table announces for a branch to depth d, when it knows it.
LEMMA CountIs ==
  ASSUME Good(Vm), NEW d \in Nat, NEW n, n = br_count(d), NEW m, m = LabelCount(Vm, d)
  PROVE  /\ n = -1 \/ (n = m /\ m \in Nat)
         /\ Plus(1, n) = -1 \/ (Plus(1, n) = 1 + m /\ 1 + m \in Nat /\ m \in Nat /\ n = m)
<1>1. n = -1 \/ (n = m /\ m \in Nat)
  BY LabelArity
<1> QED
  BY <1>1, PlusFacts, ZenonT(60)

\* br, br_if and br_table.
LEMMA BranchMoves == ASSUME Good(Vm), Branch PROVE Advance
<1>1. PICK d \in Depths :
         \/ Visit(visit_br(Vm, d), Announce(br_count(d), 0))
         \/ Visit(visit_br_if(Vm, d), Announce(Plus(1, br_count(d)), br_count(d)))
         \/ \E e \in Depths :
               Visit(visit_br_table(Vm, <<e>>, d), Announce(Plus(1, br_count(d)), 0))
  BY DEF Branch
<1>2. Sound(Vm) /\ Depths \subseteq Nat /\ d \in Nat /\ 0 \in Nat
  BY StateFacts, OperatorAssumption
<1>3. PICK n, m : n = br_count(d) /\ m = LabelCount(Vm, d)
  OBVIOUS
<1>4. /\ n = -1 \/ (n = m /\ m \in Nat)
      /\ Plus(1, n) = -1 \/ (Plus(1, n) = 1 + m /\ 1 + m \in Nat /\ m \in Nat /\ n = m)
  BY <1>2, <1>3, CountIs
<1>5. ASSUME Visit(visit_br(Vm, d), Announce(n, 0)) PROVE Advance
  <2>1. PICK v : v = visit_br(Vm, d)
    OBVIOUS
  <2>2. Moves(Vm, v, m, 0)
    BY <1>2, <1>3, <2>1, VisitBrDoes DEF Moves
  <2>3. Announce(n, 0) # NoArity => n = m /\ m \in Nat
    BY <1>4, PlusFacts
  <2> QED
    BY <1>2, <1>5, <2>1, <2>2, <2>3, VisitAnnounced
<1>6. ASSUME Visit(visit_br_if(Vm, d), Announce(Plus(1, n), n)) PROVE Advance
  <2>1. PICK v : v = visit_br_if(Vm, d)
    OBVIOUS
  <2>2. Moves(Vm, v, 1 + m, m)
    BY <1>2, <1>3, <2>1, VisitBrIfDoes DEF Moves
  <2>3. PICK a : a = Plus(1, n)
    OBVIOUS
  <2>4. Announce(a, n) # NoArity => a = 1 + m /\ n = m /\ 1 + m \in Nat /\ m \in Nat
    BY <1>4, <2>3, PlusFacts
  <2>5. Visit(v, Announce(a, n))
    BY <1>6, <2>1, <2>3
  <2> QED
    BY <2>2, <2>4, <2>5, VisitAnnounced
<1>7. ASSUME NEW e \in Depths, Visit(visit_br_table(Vm, <<e>>, d), Announce(Plus(1, n), 0))
      PROVE  Advance
  <2>1. PICK v : v = visit_br_table(Vm, <<e>>, d)
    OBVIOUS
  <2>2. Moves(Vm, v, 1 + m, 0)
    BY <1>2, <1>3, <2>1, VisitBrTableDoes DEF Moves
  <2>3. PICK a : a = Plus(1, n)
    OBVIOUS
  <2>4. Announce(a, 0) # NoArity => a = 1 + m /\ 1 + m \in Nat
    BY <1>4, <2>3, PlusFacts
  <2>5. Visit(v, Announce(a, 0))
    BY <1>7, <2>1, <2>3
  <2> QED
    BY <1>2, <2>2, <2>4, <2>5, VisitAnnounced
<1> QED
  BY <1>1, <1>3, <1>5, <1>6, <1>7

\* br_on_null, br_on_non_null, br_on_cast and br_on_cast_fail.
LEMMA BranchOnReferenceMoves == ASSUME Good(Vm), BranchOnReference PROVE Advance
<1>1. PICK d \in Depths :
         \/ Visit(visit_br_on_null(Gate(Vm, "function_references"), d),
                  Announce(Plus(1, br_count(d)), Plus(1, br_count(d))))
         \/ Visit(visit_br_on_non_null(Gate(Vm, "function_references"), d),
                  Announce(br_count(d), br_count(d) - 1))
         \/ \E from, to \in RefTypes :
              \/ Visit(visit_br_on_cast(Gate(Vm, "gc"), d, from, to), Announce(br_count(d), br_count(d)))
              \/ Visit(visit_br_on_cast_fail(Gate(Vm, "gc"), d, from, to),
                       Announce(br_count(d), br_count(d)))
  BY DEF BranchOnReference
<1>2. Sound(Vm) /\ Depths \subseteq Nat /\ d \in Nat /\ 0 \in Nat
  BY StateFacts, OperatorAssumption
<1>3. PICK n, m : n = br_count(d) /\ m = LabelCount(Vm, d)
  OBVIOUS
<1>4. /\ n = -1 \/ (n = m /\ m \in Nat)
      /\ Plus(1, n) = -1 \/ (Plus(1, n) = 1 + m /\ 1 + m \in Nat /\ m \in Nat /\ n = m)
  BY <1>2, <1>3, CountIs
<1>5. PICK refs, gc : refs = Gate(Vm, "function_references") /\ gc = Gate(Vm, "gc")
  OBVIOUS
<1>6. /\ Sound(refs) /\ (refs = Vm \/ ~refs.ok) /\ LabelCount(refs, d) = m /\ refs \in Validators
      /\ Sound(gc) /\ (gc = Vm \/ ~gc.ok) /\ LabelCount(gc, d) = m /\ gc \in Validators
  BY <1>3, <1>5, GatedState
<1>7. ASSUME Visit(visit_br_on_null(refs, d), Announce(Plus(1, n), Plus(1, n))) PROVE Advance
  <2>1. PICK v, a : v = visit_br_on_null(refs, d) /\ a = Plus(1, n)
    OBVIOUS
  <2>2. Moves(refs, v, 1 + m, 1 + m)
    BY <1>2, <1>6, <2>1, VisitBrOnNullDoes DEF Moves
  <2>4. Announce(a, a) # NoArity => a = 1 + m /\ 1 + m \in Nat
    BY <1>4, <2>1, PlusFacts
  <2>5. Visit(v, Announce(a, a))
    BY <1>7, <2>1
  <2> QED
    BY <1>6, <2>2, <2>4, <2>5, VisitAnnounced
<1>8. ASSUME Visit(visit_br_on_non_null(refs, d), Announce(n, n - 1)) PROVE Advance
  <2>1. PICK v : v = visit_br_on_non_null(refs, d)
    OBVIOUS
  <2>2. Does(refs, v, m, m - 1)
    BY <1>2, <1>6, <2>1, VisitBrOnNonNullDoes
  <2>3. PICK p, b : p = m - 1 /\ b = n - 1
    OBVIOUS
  <2>4. Moves(refs, v, m, p)
    BY <2>2, <2>3 DEF Moves
  <2>5. Announce(n, b) # NoArity => n = m /\ m \in Nat /\ b = p /\ p \in Nat
    <3>1. SUFFICES ASSUME Announce(n, b) # NoArity PROVE n = m /\ m \in Nat /\ b = p /\ p \in Nat
      OBVIOUS
    <3>2. ~(n < 0) /\ ~(b < 0)
      BY <3>1 DEF Announce
    <3>3. n = m /\ m \in Nat
      BY <1>4, <3>2
    <3> QED
      BY <2>3, <3>2, <3>3
  <2>6. Visit(v, Announce(n, b))
    BY <1>8, <2>1, <2>3
  <2> QED
    BY <1>6, <2>4, <2>5, <2>6, VisitAnnounced
<1>9. ASSUME NEW from \in RefTypes, NEW to \in RefTypes, NEW v,
             v = visit_br_on_cast(gc, d, from, to) \/ v = visit_br_on_cast_fail(gc, d, from, to),
             Visit(v, Announce(n, n))
      PROVE  Advance
  <2>1. Moves(gc, v, m, m)
    BY <1>2, <1>6, <1>9, VisitBrOnCastDoes DEF Moves
  <2>2. Announce(n, n) # NoArity => n = m /\ m \in Nat
    BY <1>4, PlusFacts
  <2> QED
    BY <1>6, <1>9, <2>1, <2>2, VisitAnnounced
<1> QED
  BY <1>1, <1>3, <1>5, <1>7, <1>8, <1>9

\* return: the table reads the arity of the outermost label.
LEMMA ReturnMoves == ASSUME Good(Vm), Return PROVE Advance
<1>1. Sound(Vm) /\ Vm \in Validators /\ Vm.control = control /\ 0 \in Nat
  BY StateFacts
<1>2. PICK v, a : v = check_return(Vm) /\ a = label_arity(Len(control) - 1)[2]
  OBVIOUS
<1>3. PICK m : m = ReturnCount(Vm)
  OBVIOUS
<1>4. Moves(Vm, v, m, 0)
  BY <1>1, <1>2, <1>3, CheckReturnDoes DEF Moves
<1>5. Visit(v, Announce(a, 0))
  BY <1>2 DEF Return
<1>6. CASE control # <<>>
  <2>1. Len(control) \in Nat /\ 1 \in 1..Len(control) /\ Head(control) = control[1] /\ m \in Nat
    BY <1>1, <1>3, <1>6, OutermostFacts, Fields
  <2>2. PICK d : d = Len(control) - 1
    OBVIOUS
  <2>3. d \in Nat /\ d < Len(control) /\ Len(control) - d = 1
    BY <2>1, <2>2
  <2>4. JumpOk(Vm, d) /\ Jump(Vm, d) = Head(Vm.control)
    BY <1>1, <2>1, <2>3 DEF JumpOk, Jump
  <2>5. label_arity(d)[2] = Len(Results(Jump(Vm, d).block_type))
    BY <2>3, <2>4, LabelArity
  <2>6. a = m
    BY <1>2, <1>3, <2>2, <2>4, <2>5 DEF ReturnCount
  <2> QED
    BY <1>1, <1>4, <1>5, <2>1, <2>6, VisitAnnounced
<1>7. CASE control = <<>>
  <2>1. v = Fail(Vm)
    BY <1>1, <1>2, <1>7 DEF check_return
  <2>2. ~v.ok
    BY <1>1, <2>1, FailMoves
  <2> QED
    BY <1>4, <1>5, <2>2, VisitAnnounced
<1> QED
  BY <1>6, <1>7

\* A failed check has failed.
LEMMA FailIsNotOk == ASSUME NEW vm \in Validators PROVE ~Fail(vm).ok
BY FailMoves

\* call and return_call.
LEMMA CallFunctionMoves == ASSUME Good(Vm), CallFunction PROVE Advance
<1>1. PICK f \in 1..(Len(Funcs) + 1) :
         \/ Visit(visit_call(Vm, f),
                  IF f \in 1..Len(Funcs) THEN sub_type_arity(Funcs[f]) ELSE NoArity)
         \/ Visit(visit_return_call(Gate(Vm, "tail_call"), f),
                  Announce((IF f \in 1..Len(Funcs) THEN sub_type_arity(Funcs[f]) ELSE NoArity)[1], 0))
  BY DEF CallFunction
<1>2. PICK a : a = IF f \in 1..Len(Funcs) THEN sub_type_arity(Funcs[f]) ELSE NoArity
  OBVIOUS
<1>3. PICK p, q : p = Len(Types[Funcs[f]].params) /\ q = Len(Types[Funcs[f]].results)
  OBVIOUS
<1>4. \/ a = <<p, q>> /\ p \in Nat /\ q \in Nat
      \/ a = NoArity
  <2>1. CASE f \in 1..Len(Funcs)
    <3>1. Funcs[f] \in FuncTypeIds
      BY <2>1, StackAssumption
    <3>2. sub_type_arity(Funcs[f]) = <<p, q>> /\ p \in Nat /\ q \in Nat
      BY <1>3, <3>1, FuncFacts
    <3> QED
      BY <1>2, <2>1, <3>2
  <2>2. CASE f \notin 1..Len(Funcs)
    BY <1>2, <2>2
  <2> QED
    BY <2>1, <2>2
<1>5. Sound(Vm) /\ 0 \in Nat
  BY StateFacts
<1>6. ASSUME Visit(visit_call(Vm, f), a) PROVE Advance
  <2>1. PICK v : v = visit_call(Vm, f)
    OBVIOUS
  <2>2. Moves(Vm, v, p, q)
    BY <1>3, <1>5, <2>1, VisitCallDoes DEF Moves
  <2> QED
    BY <1>4, <1>6, <2>1, <2>2, VisitMoves
<1>7. ASSUME Visit(visit_return_call(Gate(Vm, "tail_call"), f), Announce(a[1], 0)) PROVE Advance
  <2>1. PICK g : g = Gate(Vm, "tail_call")
    OBVIOUS
  <2>2. Sound(g) /\ (g = Vm \/ ~g.ok)
    BY <2>1, GatedState
  <2>3. PICK v, b : v = visit_return_call(g, f) /\ b = a[1]
    OBVIOUS
  <2>4. Moves(g, v, p, 0)
    BY <1>3, <2>2, <2>3, VisitCallDoes DEF Moves
  <2>5. Announce(b, 0) # NoArity => b = p /\ p \in Nat
    <3>1. CASE a = NoArity
      <4>1. b = -1
        BY <2>3, <3>1 DEF NoArity
      <4> QED
        BY <4>1, PlusFacts
    <3>2. CASE a = <<p, q>> /\ p \in Nat /\ q \in Nat
      BY <2>3, <3>2
    <3> QED
      BY <1>4, <3>1, <3>2
  <2>6. Visit(v, Announce(b, 0))
    BY <1>7, <2>1, <2>3
  <2> QED
    BY <1>5, <2>2, <2>4, <2>5, <2>6, VisitAnnounced
<1> QED
  BY <1>1, <1>2, <1>6, <1>7

\* A call through a reference or a table needs a function type.
LEMMA CalleeIsFunction ==
  ASSUME NEW vm, Sound(vm), NEW i \in 1..Len(Types), Types[i].kind # "func", NEW t, NEW tail
  PROVE  /\ ~visit_call_ref(vm, i, tail).ok
         /\ ~visit_call_indirect(vm, i, t, tail).ok
<1>1. vm \in Validators /\ ~TypeAt(i, "func")
  BY DEF Sound, TypeAt
<1>2. ~check_call_ref_ty(vm, i).ok
  <2>1. PICK u : u = Require(vm, TypeAt(i, "func"))
    OBVIOUS
  <2>2. Sound(u) /\ ~u.ok
    BY <1>1, <2>1, RequireDoes, DoesIsSound
  <2>3. Does(u, check_call_ref_ty(vm, i), 1, 0)
    BY <2>1, <2>2, PopRefDoes DEF check_call_ref_ty
  <2> QED
    BY <2>2, <2>3 DEF Does
<1>3. ~check_call_indirect_ty(vm, i, t).ok
  <2>1. CASE ~TableAt(t)
    BY <1>1, <2>1, FailIsNotOk DEF check_call_indirect_ty
  <2>2. CASE TableAt(t)
    <3>1. PICK u : u = Require(vm, IsSubtype(Types, Tables[t].elem, NullRef("func")))
      OBVIOUS
    <3>2. PICK v : v = pop_operand(u, Tables[t].index)
      OBVIOUS
    <3>3. Sound(u)
      BY <3>1, RequireDoes, DoesIsSound
    <3>4. Sound(v)
      BY <3>2, <3>3, PopOperandDoes, DoesIsSound
    <3>5. check_call_indirect_ty(vm, i, t) = Require(v, TypeAt(i, "func"))
      BY <2>2, <3>1, <3>2 DEF check_call_indirect_ty
    <3> QED
      BY <1>1, <3>4, <3>5, RequireDoes
  <2> QED
    BY <2>1, <2>2
<1> QED
  BY <1>2, <1>3 DEF visit_call_ref, visit_call_indirect, Invoke

\* Calls through a reference or a table.
LEMMA CallIndirectMoves == ASSUME Good(Vm), CallIndirect PROVE Advance
<1>1. PICK i \in 1..Len(Types) :
         LET call == Announce(Plus(1, sub_type_arity(i)[1]), sub_type_arity(i)[2])
             tail == Announce(Plus(1, sub_type_arity(i)[1]), 0)
         IN  \/ Visit(visit_call_ref(Gate(Vm, "function_references"), i, FALSE), call)
             \/ Visit(visit_call_ref(Gate(Vm, "function_references"), i, TRUE), tail)
             \/ \E t \in 1..Len(Tables) :
                  \/ Visit(visit_call_indirect(Vm, i, t, FALSE), call)
                  \/ Visit(visit_call_indirect(Gate(Vm, "tail_call"), i, t, TRUE), tail)
  BY DEF CallIndirect
<1>2. PICK a, b : a = Plus(1, sub_type_arity(i)[1]) /\ b = sub_type_arity(i)[2]
  OBVIOUS
<1>3. PICK p, q : p = Len(Types[i].params) /\ q = Len(Types[i].results)
  OBVIOUS
<1>4. Types[i].kind = "func" => a = 1 + p /\ b = q /\ 1 + p \in Nat /\ q \in Nat
  <2>1. SUFFICES ASSUME Types[i].kind = "func" PROVE a = 1 + p /\ b = q /\ 1 + p \in Nat /\ q \in Nat
    OBVIOUS
  <2>2. i \in FuncTypeIds
    BY <2>1 DEF FuncTypeIds
  <2>3. sub_type_arity(i) = <<p, q>> /\ p \in Nat /\ q \in Nat
    BY <1>3, <2>2, FuncFacts
  <2>4. sub_type_arity(i)[1] = p /\ sub_type_arity(i)[2] = q
    BY <2>3
  <2> QED
    BY <1>2, <2>3, <2>4, PlusFacts
<1>5. Sound(Vm) /\ 0 \in Nat
  BY StateFacts
<1>6. ASSUME NEW g, Sound(g), g = Vm \/ ~g.ok, NEW t, NEW v,
             v = visit_call_ref(g, i, FALSE) \/ v = visit_call_indirect(g, i, t, FALSE),
             Visit(v, Announce(a, b))
      PROVE  Advance
  <2>1. Moves(g, v, 1 + p, q)
    BY <1>3, <1>6, VisitCallRefDoes, VisitCallIndirectDoes DEF Moves
  <2>2. v.ok => Types[i].kind = "func"
    BY <1>6, CalleeIsFunction
  <2> QED
    BY <1>4, <1>6, <2>1, <2>2, VisitAnnounced
<1>7. ASSUME NEW g, Sound(g), g = Vm \/ ~g.ok, NEW t, NEW v,
             v = visit_call_ref(g, i, TRUE) \/ v = visit_call_indirect(g, i, t, TRUE),
             Visit(v, Announce(a, 0))
      PROVE  Advance
  <2>1. Moves(g, v, 1 + p, 0)
    BY <1>3, <1>7, VisitCallRefDoes, VisitCallIndirectDoes DEF Moves
  <2>2. v.ok => Types[i].kind = "func"
    BY <1>7, CalleeIsFunction
  <2> QED
    BY <1>4, <1>5, <1>7, <2>1, <2>2, VisitAnnounced
<1>8. /\ Sound(Gate(Vm, "function_references"))
      /\ Gate(Vm, "function_references") = Vm \/ ~Gate(Vm, "function_references").ok
      /\ Sound(Gate(Vm, "tail_call")) /\ (Gate(Vm, "tail_call") = Vm \/ ~Gate(Vm, "tail_call").ok)
  BY GatedState
<1> QED
  BY <1>1, <1>2, <1>5, <1>6, <1>7, <1>8

\* throw and throw_ref.
LEMMA ExceptionMoves == ASSUME Good(Vm), Exceptions PROVE Advance
<1>1. PICK g : g = Gate(Vm, "exceptions")
  OBVIOUS
<1>2. Sound(g) /\ (g = Vm \/ ~g.ok) /\ 0 \in Nat /\ 1 \in Nat
  BY <1>1, GatedState
<1>3. ASSUME NEW t \in 1..Len(Tags), Visit(visit_throw(g, t), Announce(tag_arity(t)[1], 0))
      PROVE  Advance
  <2>1. PICK v, a, p : v = visit_throw(g, t) /\ a = tag_arity(t)[1] /\ p = Len(TagType(t).params)
    OBVIOUS
  <2>2. TagAt(t)
    BY DEF TagAt
  <2>3. tag_arity(t) = <<Len(TagType(t).params), Len(TagType(t).results)>> /\ p \in Nat
    BY <2>1, <2>2, TagFacts
  <2>4. a = p
    BY <2>1, <2>3
  <2>5. Moves(g, v, p, 0)
    BY <1>2, <2>1, ExceptionsDo DEF Moves
  <2> QED
    BY <1>2, <1>3, <2>1, <2>3, <2>4, <2>5, VisitAnnounced
<1>4. ASSUME Visit(visit_throw_ref(g), <<1, 0>>)
      PROVE  Advance
  BY <1>2, <1>4, ExceptionsDo, VisitDoes
<1> QED
  BY <1>1, <1>3, <1>4 DEF Exceptions

\* catch, catch_all, rethrow and delegate.
LEMMA LegacyMoves == ASSUME Good(Vm), LegacyExceptions PROVE Advance
<1>1. PICK g : g = Gate(Vm, "legacy_exceptions")
  OBVIOUS
<1>2. Sound(g) /\ (g = Vm \/ ~g.ok) /\ 0 \in Nat /\ g \in Validators
  BY <1>1, GatedState
<1>3. PICK n, m : n = label_arity(0)[2] /\ m = ResultCount(Vm)
  OBVIOUS
<1>4. ResultCount(g) = m
  BY <1>1, <1>3, GatedState
<1>5. ASSUME control # <<>> PROVE n = m /\ m \in Nat
  BY <1>3, <1>5, InnermostArity
<1>6. ASSUME NEW v, NEW q, Reopened(Vm, v, m, q) \/ Closed(Vm, v, m, q), v.ok
      PROVE  n = m /\ m \in Nat
  <2>1. Vm.control # <<>>
    BY <1>6 DEF Reopened, Closed, Left
  <2> QED
    BY <1>5, <2>1, StateFacts
<1>7. Sound(Vm)
  BY StateFacts
<1>8. ASSUME NEW t \in 1..Len(Tags), Visit(visit_catch(g, t), Announce(n, tag_arity(t)[1]))
      PROVE  Advance
  <2>1. PICK v, a, p : v = visit_catch(g, t) /\ a = tag_arity(t)[1] /\ p = Len(TagType(t).params)
    OBVIOUS
  <2>2. TagAt(t)
    BY DEF TagAt
  <2>3. tag_arity(t) = <<Len(TagType(t).params), Len(TagType(t).results)>> /\ p \in Nat
    BY <2>1, <2>2, TagFacts
  <2>4. a = p
    BY <2>1, <2>3
  <2>5. Reopened(g, v, m, p)
    BY <1>2, <1>4, <2>1, VisitCatchReopens
  <2>6. Reopened(Vm, v, m, p)
    BY <1>2, <1>7, <2>5, GateMoves
  <2>7. v.ok => n = m /\ m \in Nat
    BY <1>6, <2>6
  <2>8. Moves(g, v, m, p)
    BY <2>5 DEF Moves
  <2> QED
    BY <1>2, <1>8, <2>1, <2>3, <2>4, <2>7, <2>8, VisitAnnounced
<1>9. ASSUME Visit(visit_catch_all(g), Announce(n, 0))
      PROVE  Advance
  <2>1. PICK v : v = visit_catch_all(g)
    OBVIOUS
  <2>2. Reopened(g, v, m, 0)
    BY <1>2, <1>4, <2>1, VisitCatchAllReopens
  <2>3. Reopened(Vm, v, m, 0)
    BY <1>2, <1>7, <2>2, GateMoves
  <2>4. v.ok => n = m /\ m \in Nat
    BY <1>6, <2>3
  <2>5. Moves(g, v, m, 0)
    BY <2>2 DEF Moves
  <2> QED
    BY <1>2, <1>9, <2>1, <2>4, <2>5, VisitAnnounced
<1>10. ASSUME NEW d \in Depths, Visit(visit_rethrow(g, d), <<0, 0>>)
       PROVE  Advance
  BY <1>2, <1>10, ExceptionsDo, VisitDoes
<1>11. ASSUME NEW d \in Depths, Visit(visit_delegate(g, d), Announce(n, n))
       PROVE  Advance
  <2>1. PICK v : v = visit_delegate(g, d)
    OBVIOUS
  <2>2. Closed(g, v, m, m)
    BY <1>2, <1>4, <2>1, VisitDelegateCloses
  <2>3. Closed(Vm, v, m, m)
    BY <1>2, <1>7, <2>2, GateMoves
  <2>4. v.ok => n = m /\ m \in Nat
    BY <1>6, <2>3
  <2>5. Moves(g, v, m, m)
    BY <2>2 DEF Moves
  <2> QED
    BY <1>2, <1>11, <2>1, <2>4, <2>5, VisitAnnounced
<1> QED
  BY <1>1, <1>3, <1>8, <1>9, <1>10, <1>11 DEF LegacyExceptions

\* suspend.
LEMMA SuspendMoves == ASSUME Good(Vm), Suspend PROVE Advance
<1>1. PICK t \in 1..Len(Tags) : Visit(visit_suspend(Gate(Vm, "stack_switching"), t), tag_arity(t))
  BY DEF Suspend
<1>2. PICK g : g = Gate(Vm, "stack_switching")
  OBVIOUS
<1>3. Sound(g) /\ (g = Vm \/ ~g.ok)
  BY <1>2, GatedState
<1>4. PICK v, p, q : /\ v = visit_suspend(g, t)
                     /\ p = Len(TagType(t).params) /\ q = Len(TagType(t).results)
  OBVIOUS
<1>5. TagAt(t)
  BY DEF TagAt
<1>6. tag_arity(t) = <<p, q>> /\ p \in Nat /\ q \in Nat
  BY <1>4, <1>5, TagFacts
<1>7. Does(g, v, p, q)
  BY <1>3, <1>4, VisitSuspendDoes
<1>8. Visit(v, <<p, q>>)
  BY <1>1, <1>2, <1>4, <1>6
<1> QED
  BY <1>3, <1>6, <1>7, <1>8, VisitDoes

\* drop and select.
LEMMA ParametricMoves == ASSUME Good(Vm), Parametric PROVE Advance
<1>1. Sound(Vm) /\ 0 \in Nat /\ 1 \in Nat /\ 3 \in Nat
  BY StateFacts
<1>2. ASSUME Visit(visit_drop(Vm), <<1, 0>>) PROVE Advance
  <2>1. Does(Vm, visit_drop(Vm), 1, 0)
    BY <1>1, VisitDropDoes
  <2> QED
    BY <1>1, <1>2, <2>1, VisitDoes
<1>3. ASSUME Visit(visit_select(Vm), <<3, 1>>) PROVE Advance
  <2>1. Does(Vm, visit_select(Vm), 3, 1)
    BY <1>1, VisitSelectDoes
  <2> QED
    BY <1>1, <1>3, <2>1, VisitDoes
<1>4. ASSUME NEW t \in ValueTypes, VisitSig(TypedSelect(t)) PROVE Advance
  <2>1. PICK s : s = TypedSelect(t)
    OBVIOUS
  <2>2. SigsOK({s}) /\ s \in {s} /\ VisitSig(s)
    BY <1>4, <2>1, ReferenceSigsOK DEF SigsOK
  <2> QED
    BY <2>2, SigMoves
<1> QED
  BY <1>2, <1>3, <1>4 DEF Parametric

\* local.get, local.set and local.tee.
LEMMA LocalMoves ==
  ASSUME Good(Vm), Represents(locals, declared), LocalAccess
  PROVE  Advance
<1>1. PICK i \in 0..locals.num_locals :
         \/ Visit(visit_local_get(Vm, locals, i), <<0, 1>>)
         \/ Visit(visit_local_set(Vm, locals, i), <<1, 0>>)
         \/ Visit(visit_local_tee(Vm, locals, i), <<1, 1>>)
  BY DEF LocalAccess
<1>2. Sound(Vm) /\ 0 \in Nat /\ 1 \in Nat /\ i \in Nat
  BY StateFacts
<1>3. /\ Does(Vm, visit_local_get(Vm, locals, i), 0, 1)
      /\ Does(Vm, visit_local_set(Vm, locals, i), 1, 0)
      /\ Does(Vm, visit_local_tee(Vm, locals, i), 1, 1)
  BY <1>2, LocalsDo
<1> QED
  BY <1>1, <1>2, <1>3, VisitDoes

\* The operators on references.
LEMMA ReferenceMoves == ASSUME Good(Vm), Reference PROVE Advance
<1>1. Sound(Vm) /\ 1 \in Nat /\ 2 \in Nat
  BY StateFacts
<1>2. PICK gc, refs : gc = Gate(Vm, "gc") /\ refs = Gate(Vm, "function_references")
  OBVIOUS
<1>3. /\ Sound(gc) /\ (gc = Vm \/ ~gc.ok)
      /\ Sound(refs) /\ (refs = Vm \/ ~refs.ok)
  BY <1>2, GatedState
<1>4. ASSUME NEW s, SigOK(s), VisitSig(s) PROVE Advance
  <2>1. SigsOK({s}) /\ s \in {s}
    BY <1>4 DEF SigsOK
  <2> QED
    BY <1>4, <2>1, SigMoves
<1>5. ASSUME NEW g, Sound(g), g = Vm \/ ~g.ok, NEW v, Does(g, v, 1, 1), Visit(v, <<1, 1>>)
      PROVE  Advance
  BY <1>1, <1>5, VisitDoes
<1>6. CASE \/ \E t \in RefTypes : VisitSig(RefNull(AsNullable(t)))
           \/ \E f \in 1..(Len(Funcs) + 1) : VisitSig(RefFunc(f))
           \/ \E s \in RefI31 : VisitSig(s)
  BY <1>4, <1>6, ReferenceSigsOK DEF SigsOK
<1>7. CASE Visit(visit_ref_as_non_null(refs), <<1, 1>>)
  BY <1>3, <1>5, <1>7, ReferencesDo
<1>8. CASE Visit(visit_ref_is_null(Vm), <<1, 1>>)
  BY <1>1, <1>5, <1>8, ReferencesDo
<1>9. CASE Visit(visit_ref_eq(gc), <<2, 1>>)
  <2>1. Does(gc, visit_ref_eq(gc), 2, 1)
    BY <1>3, ReferencesDo
  <2> QED
    BY <1>1, <1>3, <1>9, <2>1, VisitDoes
<1>10. CASE \E t \in RefTypes : \/ Visit(visit_ref_test(gc, t), <<1, 1>>)
                                \/ Visit(visit_ref_cast(gc, t), <<1, 1>>)
  BY <1>3, <1>5, <1>10, CastsDo
<1>11. CASE \/ Visit(visit_convert(gc, "extern", "any"), <<1, 1>>)
            \/ Visit(visit_convert(gc, "any", "extern"), <<1, 1>>)
  <2>1. "any" \in AbstractHeapTypes /\ "extern" \in AbstractHeapTypes
    BY DEF AbstractHeapTypes
  <2>2. Does(gc, visit_convert(gc, "extern", "any"), 1, 1) /\ Does(gc, visit_convert(gc, "any", "extern"), 1, 1)
    BY <1>3, <2>1, ConvertDoes
  <2> QED
    BY <1>3, <1>5, <1>11, <2>2
<1>12. CASE Visit(visit_i31_get(gc), <<1, 1>>) \/ Visit(visit_array_len(gc), <<1, 1>>)
  BY <1>3, <1>5, <1>12, ReferencesDo
<1> QED
  BY <1>2, <1>6, <1>7, <1>8, <1>9, <1>10, <1>11, <1>12 DEF Reference

\* sub_type_arity of a continuation type.
LEMMA ContArity ==
  ASSUME NEW i \in 1..Len(Types), TypeAt(i, "cont"),
         NEW p, NEW q, p = Len(FuncTypeOfCont(i).params), q = Len(FuncTypeOfCont(i).results)
  PROVE  /\ sub_type_arity(i)[1] = p /\ sub_type_arity(i)[2] = q /\ p \in Nat /\ q \in Nat
         /\ sub_type_arity(i) # NoArity
<1>1. Types[i].kind = "cont"
  BY DEF TypeAt
<1>2. sub_type_arity(i) = <<p, q>> /\ p \in Nat /\ q \in Nat
  BY <1>1, ContFacts
<1> QED
  BY <1>2, Known

\* What is announced for cont.bind, when it is known.
LEMMA BindArity ==
  ASSUME NEW i \in 1..Len(Types), NEW r \in 1..Len(Types), TypeAt(i, "cont"), TypeAt(r, "cont"),
         NEW n, n = Len(FuncTypeOfCont(i).params) - Len(FuncTypeOfCont(r).params)
  PROVE  \/ Plus(1, type_diff(i, r)) = -1
         \/ Plus(1, type_diff(i, r)) = 1 + n /\ 1 + n \in Nat
<1>1. PICK p, q, s, t : /\ p = Len(FuncTypeOfCont(i).params) /\ q = Len(FuncTypeOfCont(i).results)
                        /\ s = Len(FuncTypeOfCont(r).params) /\ t = Len(FuncTypeOfCont(r).results)
  OBVIOUS
<1>2. /\ sub_type_arity(i)[1] = p /\ sub_type_arity(i)[2] = q /\ p \in Nat /\ q \in Nat
      /\ sub_type_arity(i) # NoArity
      /\ sub_type_arity(r)[1] = s /\ sub_type_arity(r)[2] = t /\ s \in Nat /\ t \in Nat
      /\ sub_type_arity(r) # NoArity
  BY <1>1, ContArity
<1>3. type_diff(i, r) = IF q < t THEN -1 ELSE p - s
  BY <1>2 DEF type_diff
<1>4. n = p - s
  BY <1>1
<1>5. CASE q < t \/ p < s
  <2>1. type_diff(i, r) < 0
    BY <1>2, <1>3, <1>5
  <2> QED
    BY <2>1 DEF Plus
<1>6. CASE ~(q < t) /\ ~(p < s)
  <2>1. n \in Nat /\ type_diff(i, r) = n
    BY <1>2, <1>3, <1>4, <1>6, SMTT(60)
  <2> QED
    BY <2>1, PlusFacts
<1> QED
  BY <1>5, <1>6

\* What the visitors of continuations have checked when they go on.
LEMMA ContinuationNeedsTypes ==
  ASSUME NEW vm \in Validators, NEW i, NEW r, NEW t, NEW hs
  PROVE  /\ visit_cont_bind(vm, i, r).ok => TypeAt(i, "cont") /\ TypeAt(r, "cont")
         /\ visit_resume(vm, i, hs).ok => TypeAt(i, "cont")
         /\ visit_resume_throw(vm, i, t, hs).ok => TypeAt(i, "cont")
         /\ visit_switch(vm, i, t).ok => SwitchOk(i, t)
<1>1. ~Fail(vm).ok
  BY FailIsNotOk
<1> QED
  BY <1>1 DEF visit_cont_bind, visit_resume, visit_resume_throw, visit_switch, ResumeTableOk

\* The arity announced for switch is the one of the types it switches between.
LEMMA SwitchArity ==
  ASSUME NEW i \in 1..Len(Types), NEW t, SwitchOk(i, t),
         NEW p, NEW q, p = Len(FuncTypeOfCont(i).params),
         q = Len(FuncTypeOfCont(SwitchTarget(i)).params)
  PROVE  /\ sub_type_arity(i)[1] = p /\ switch_arity(i)[1] = q /\ p \in Nat /\ q \in Nat
<1>1. /\ SwitchTarget(i) \in 1..Len(Types) /\ Types[SwitchTarget(i)].kind = "cont"
      /\ IsRef(Last(FuncTypeOfCont(i).params)) /\ IsConcrete(Last(FuncTypeOfCont(i).params))
      /\ FuncTypeOfCont(i).params # <<>> /\ Types[i].kind = "cont"
  BY SwitchFacts
<1>2. sub_type_arity(i)[1] = p /\ p \in Nat
  BY ContArity DEF SwitchOk
<1>3. switch_arity(i) = sub_type_arity(SwitchTarget(i))
  BY <1>1 DEF switch_arity, SwitchTarget
<1>4. sub_type_arity(SwitchTarget(i)) = <<q, Len(FuncTypeOfCont(SwitchTarget(i)).results)>> /\ q \in Nat
  BY <1>1, ContFacts
<1> QED
  BY <1>2, <1>3, <1>4

\* The operators on continuations.
LEMMA ContinuationMoves == ASSUME Good(Vm), Continuations PROVE Advance
<1>1. PICK g : g = Gate(Vm, "stack_switching")
  OBVIOUS
<1>2. Sound(g) /\ (g = Vm \/ ~g.ok) /\ g \in Validators /\ 1 \in Nat
  BY <1>1, GatedState
<1>3. PICK i \in 1..Len(Types) :
         \/ Visit(visit_cont_new(g, i), <<1, 1>>)
         \/ \E r \in 1..Len(Types) :
               Visit(visit_cont_bind(g, i, r), Announce(Plus(1, type_diff(i, r)), 1))
         \/ \E hs \in HandlerLists :
              \/ Visit(visit_resume(g, i, hs), Announce(Plus(1, sub_type_arity(i)[1]), sub_type_arity(i)[2]))
              \/ \E t \in 1..Len(Tags) :
                   Visit(visit_resume_throw(g, i, t, hs),
                         Announce(Plus(1, tag_arity(t)[1]), sub_type_arity(i)[2]))
         \/ \E t \in 1..Len(Tags) :
              Visit(visit_switch(g, i, t), Announce(sub_type_arity(i)[1], switch_arity(i)[1]))
  BY <1>1 DEF Continuations
<1>4. PICK p, q : p = Len(FuncTypeOfCont(i).params) /\ q = Len(FuncTypeOfCont(i).results)
  OBVIOUS
<1>5. PICK a1, a2 : a1 = sub_type_arity(i)[1] /\ a2 = sub_type_arity(i)[2]
  OBVIOUS
<1>6. TypeAt(i, "cont") => a1 = p /\ a2 = q /\ p \in Nat /\ q \in Nat
  BY <1>4, <1>5, ContArity
<1>7. ASSUME Visit(visit_cont_new(g, i), <<1, 1>>) PROVE Advance
  BY <1>2, <1>7, VisitContNewDoes, VisitDoes
<1>8. ASSUME NEW r \in 1..Len(Types), Visit(visit_cont_bind(g, i, r), Announce(Plus(1, type_diff(i, r)), 1))
      PROVE  Advance
  <2>1. PICK v, a, n : /\ v = visit_cont_bind(g, i, r) /\ a = Plus(1, type_diff(i, r))
                       /\ n = Len(FuncTypeOfCont(i).params) - Len(FuncTypeOfCont(r).params)
    OBVIOUS
  <2>2. Does(g, v, 1 + n, 1)
    BY <1>2, <2>1, VisitContBindDoes
  <2>3. PICK m : m = 1 + n
    OBVIOUS
  <2>4. Moves(g, v, m, 1)
    BY <2>2, <2>3 DEF Moves
  <2>5. v.ok => a = -1 \/ (a = m /\ m \in Nat)
    BY <1>2, <2>1, <2>3, ContinuationNeedsTypes, BindArity
  <2>6. v.ok /\ Announce(a, 1) # NoArity => a = m /\ m \in Nat
    BY <2>5, PlusFacts
  <2>7. Visit(v, Announce(a, 1))
    BY <1>8, <2>1
  <2> QED
    BY <1>2, <2>4, <2>6, <2>7, VisitAnnounced
<1>9. ASSUME NEW hs \in HandlerLists, Visit(visit_resume(g, i, hs), Announce(Plus(1, a1), a2))
      PROVE  Advance
  <2>1. PICK v, a : v = visit_resume(g, i, hs) /\ a = Plus(1, a1)
    OBVIOUS
  <2>2. Does(g, v, 1 + p, q)
    BY <1>2, <1>4, <2>1, VisitResumeDoes
  <2>3. Moves(g, v, 1 + p, q)
    BY <2>2 DEF Moves
  <2>4. v.ok => TypeAt(i, "cont")
    BY <1>2, <2>1, ContinuationNeedsTypes
  <2>5. v.ok => a = 1 + p /\ a2 = q /\ 1 + p \in Nat /\ q \in Nat
    BY <1>6, <2>1, <2>4, PlusFacts
  <2>6. Visit(v, Announce(a, a2))
    BY <1>9, <2>1
  <2> QED
    BY <1>2, <2>3, <2>5, <2>6, VisitAnnounced
<1>10. ASSUME NEW hs \in HandlerLists, NEW t \in 1..Len(Tags),
              Visit(visit_resume_throw(g, i, t, hs), Announce(Plus(1, tag_arity(t)[1]), a2))
       PROVE  Advance
  <2>1. PICK v, n, m : v = visit_resume_throw(g, i, t, hs) /\ n = tag_arity(t)[1] /\ m = Len(TagType(t).params)
    OBVIOUS
  <2>2. TagAt(t)
    BY DEF TagAt
  <2>3. tag_arity(t) = <<Len(TagType(t).params), Len(TagType(t).results)>> /\ m \in Nat
    BY <2>1, <2>2, TagFacts
  <2>4. n = m
    BY <2>1, <2>3
  <2>5. PICK a : a = Plus(1, n)
    OBVIOUS
  <2>6. a = 1 + m /\ 1 + m \in Nat
    BY <2>3, <2>4, <2>5, PlusFacts
  <2>7. Does(g, v, 1 + m, q)
    BY <1>2, <1>4, <2>1, VisitResumeDoes
  <2>8. Moves(g, v, 1 + m, q)
    BY <2>7 DEF Moves
  <2>9. v.ok => a2 = q /\ q \in Nat
    BY <1>2, <1>6, <2>1, ContinuationNeedsTypes
  <2>10. Visit(v, Announce(a, a2))
    BY <1>10, <2>1, <2>5
  <2> QED
    BY <1>2, <2>6, <2>8, <2>9, <2>10, VisitAnnounced
<1>11. ASSUME NEW t \in 1..Len(Tags), Visit(visit_switch(g, i, t), Announce(a1, switch_arity(i)[1]))
       PROVE  Advance
  <2>1. PICK v, b, s : /\ v = visit_switch(g, i, t) /\ b = switch_arity(i)[1]
                       /\ s = Len(FuncTypeOfCont(SwitchTarget(i)).params)
    OBVIOUS
  <2>2. Does(g, v, p, s)
    BY <1>2, <1>4, <2>1, VisitSwitchDoes
  <2>3. Moves(g, v, p, s)
    BY <2>2 DEF Moves
  <2>4. v.ok => SwitchOk(i, t)
    BY <1>2, <2>1, ContinuationNeedsTypes
  <2>5. v.ok => a1 = p /\ b = s /\ p \in Nat /\ s \in Nat
    BY <1>4, <1>5, <2>1, <2>4, SwitchArity
  <2>6. Visit(v, Announce(a1, b))
    BY <1>11, <2>1
  <2> QED
    BY <1>2, <2>3, <2>5, <2>6, VisitAnnounced
<1> QED
  BY <1>3, <1>5, <1>7, <1>8, <1>9, <1>10, <1>11

\* Every operator is rejected, or moves the validator as announced.
LEMMA OperatorMoves ==
  ASSUME Good(Vm), Represents(locals, declared), Operator
  PROVE  Advance
<1>1. \/ Nop \/ Unreachable \/ OpenBlock \/ Else \/ End \/ Branch \/ Return \/ CallFunction
      \/ CallIndirect \/ Exceptions \/ LegacyExceptions \/ BranchOnReference \/ Continuations
      \/ Suspend \/ Parametric \/ LocalAccess \/ Numeric \/ Memory \/ Vector \/ Global \/ Table
      \/ Reference \/ Struct \/ Array
  BY DEF Operator
<1> QED
  BY <1>1, PlainMoves, OpenMoves, ElseMoves, EndMoves, BranchMoves, ReturnMoves, CallFunctionMoves,
     CallIndirectMoves, ExceptionMoves, LegacyMoves, BranchOnReferenceMoves, ContinuationMoves,
     SuspendMoves, ParametricMoves, LocalMoves, DataMoves, ReferenceMoves

-----------------------------------------------------------------------------
(* What the four kinds of moves do to the history and to the outermost       *)
(* frame.                                                                    *)

\* What the history variable `entry` says of the frames.
Entered(vm, e) ==
    /\ e \in Seq(SUBSET Nat) /\ Len(e) = Len(vm.control)
    /\ \A f \in 1..Len(vm.control) : e[f] = Undo(vm, vm.control[f].init_height)

\* The outermost frame is the body of the function.
Body(vm) ==
    /\ vm.control # <<>>
    /\ vm.control[1].kind = "Block" /\ vm.control[1].block_type = FuncBlock(FuncType)
    /\ vm.control[1].height = 0

\* The four kinds of moves, by what they do to the frames.
LEMMA StepKinds ==
  ASSUME NEW vm, Good(vm), NEW v, v.ok, NEW p, NEW q, Moves(vm, v, p, q),
         NEW n, n = Len(vm.control)
  PROVE  /\ Good(v) /\ Len(v.control) \in Nat /\ n \in Nat
         /\ \/ Len(v.control) = n /\ KeepsFrames(vm, v, n)
            \/ /\ Len(v.control) = n + 1 /\ KeepsFrames(vm, v, n)
               /\ Undo(v, v.control[n + 1].init_height) = vm.inited
            \/ /\ n \in 1..n /\ Len(v.control) = n - 1 /\ KeepsFrames(vm, v, n - 1)
               /\ v.inited = Undo(vm, vm.control[n].init_height)
               /\ vm.control[n].height = 0 => v.operands = Results(vm.control[n].block_type)
            \/ /\ n \in 1..n /\ Len(v.control) = n /\ KeepsFrames(vm, v, n - 1)
               /\ v.inited = Undo(vm, vm.control[n].init_height)
               /\ Undo(v, v.control[n].init_height) = Undo(vm, vm.control[n].init_height)
               /\ vm.control[n].kind # "Block"
<1>1. vm \in Validators /\ n \in Nat
  BY Fields DEF Good
<1>2. ASSUME Good(v) PROVE Len(v.control) \in Nat
  BY <1>2, Fields DEF Good
<1>3. vm.control # <<>> => n \in 1..n
  BY <1>1, InnermostFacts
<1>4. CASE Does(vm, v, p, q)
  <2>1. KeepsFrames(vm, v, Len(vm.control))
    BY <1>1, <1>4, DoesKeepsFrames
  <2>2. Good(v) /\ Len(v.control) = n
    BY <1>4 DEF Does, SameFrames
  <2> QED
    BY <1>1, <1>2, <2>1, <2>2
<1>5. CASE Opened(vm, v, p, q)
  <2>1. /\ Good(v) /\ Len(v.control) = n + 1 /\ KeepsFrames(vm, v, n)
        /\ Undo(v, v.control[n + 1].init_height) = vm.inited
    BY <1>5 DEF Opened
  <2> QED
    BY <1>1, <1>2, <2>1
<1>6. CASE Closed(vm, v, p, q)
  <2>1. /\ Good(v) /\ vm.control # <<>> /\ Len(v.control) = n - 1 /\ KeepsFrames(vm, v, n - 1)
        /\ v.inited = Undo(vm, vm.control[n].init_height)
        /\ vm.control[n].height = 0 => v.operands = Results(vm.control[n].block_type)
    BY <1>6 DEF Closed, Left
  <2> QED
    BY <1>1, <1>2, <1>3, <2>1
<1>7. CASE Reopened(vm, v, p, q)
  <2>1. /\ Good(v) /\ vm.control # <<>> /\ Len(v.control) = n /\ KeepsFrames(vm, v, n - 1)
        /\ v.inited = Undo(vm, vm.control[n].init_height)
        /\ Undo(v, v.control[n].init_height) = Undo(vm, vm.control[n].init_height)
        /\ vm.control[n].kind # "Block"
    BY <1>7 DEF Reopened, Left
  <2> QED
    BY <1>1, <1>2, <1>3, <2>1
<1> QED
  BY <1>4, <1>5, <1>6, <1>7 DEF Moves

\* The history of initialised locals follows the frames.
LEMMA EntryAfter ==
  ASSUME NEW vm, Good(vm), NEW v, v.ok, NEW p, NEW q, Moves(vm, v, p, q),
         NEW e, Entered(vm, e), NEW after,
         after = IF Len(v.control) > Len(vm.control) THEN Append(e, vm.inited)
                 ELSE SubSeq(e, 1, Len(v.control))
  PROVE  Entered(v, after)
<1>1. PICK n, m : n = Len(vm.control) /\ m = Len(v.control)
  OBVIOUS
<1>2. /\ Good(v) /\ m \in Nat /\ n \in Nat
      /\ \/ m = n /\ KeepsFrames(vm, v, n)
         \/ /\ m = n + 1 /\ KeepsFrames(vm, v, n)
            /\ Undo(v, v.control[n + 1].init_height) = vm.inited
         \/ n \in 1..n /\ m = n - 1 /\ KeepsFrames(vm, v, n - 1)
         \/ /\ n \in 1..n /\ m = n /\ KeepsFrames(vm, v, n - 1)
            /\ Undo(v, v.control[n].init_height) = Undo(vm, vm.control[n].init_height)
  BY <1>1, StepKinds
<1>3. /\ e \in Seq(SUBSET Nat) /\ Len(e) = n
      /\ \A f \in 1..n : e[f] = Undo(vm, vm.control[f].init_height)
  BY <1>1 DEF Entered
<1>4. \A k : KeepsFrames(vm, v, k) =>
         \A f \in 1..k : Undo(v, v.control[f].init_height) = Undo(vm, vm.control[f].init_height)
  BY DEF KeepsFrames
<1>5. CASE m = n + 1
  <2>1. \A f \in 1..n : Undo(v, v.control[f].init_height) = e[f]
    BY <1>2, <1>3, <1>4, <1>5
  <2>2. Undo(v, v.control[n + 1].init_height) = vm.inited
    BY <1>2, <1>5
  <2>3. vm.inited \in SUBSET Nat
    BY Fields DEF Good
  <2>4. after = Append(e, vm.inited)
    <3>1. m > n
      BY <1>2, <1>5
    <3> QED
      BY <1>1, <3>1
  <2>5. /\ after \in Seq(SUBSET Nat) /\ Len(after) = n + 1
        /\ \A f \in 1..n : after[f] = e[f]
        /\ after[n + 1] = vm.inited
    BY <1>2, <1>3, <2>3, <2>4, AppendProperties
  <2>6. ASSUME NEW f \in 1..m PROVE after[f] = Undo(v, v.control[f].init_height)
    <3>1. f \in 1..n \/ f = n + 1
      BY <1>2, <1>5
    <3> QED
      BY <2>1, <2>2, <2>5, <3>1
  <2> QED
    BY <1>1, <1>5, <2>5, <2>6 DEF Entered
<1>6. CASE m # n + 1
  <2>1. m <= n
    BY <1>2, <1>6
  <2>2. after = SubSeq(e, 1, m)
    <3>1. ~(m > n)
      BY <1>2, <2>1
    <3> QED
      BY <1>1, <3>1
  <2>3. /\ after \in Seq(SUBSET Nat) /\ Len(after) = m
        /\ \A f \in 1..m : after[f] = e[f]
    BY <1>2, <1>3, <2>1, <2>2, PrefixFacts
  <2>4. ASSUME NEW f \in 1..m PROVE e[f] = Undo(v, v.control[f].init_height)
    <3>1. f \in 1..n
      BY <1>2, <2>1
    <3>2. e[f] = Undo(vm, vm.control[f].init_height)
      BY <1>3, <3>1
    <3>3. \/ KeepsFrames(vm, v, n)
          \/ KeepsFrames(vm, v, n - 1) /\ f \in 1..(n - 1)
          \/ f = n /\ Undo(v, v.control[n].init_height) = Undo(vm, vm.control[n].init_height)
      BY <1>2, <1>6, <3>1
    <3>4. Undo(v, v.control[f].init_height) = Undo(vm, vm.control[f].init_height)
      BY <1>4, <3>1, <3>3
    <3> QED
      BY <3>2, <3>4
  <2> QED
    BY <1>1, <2>3, <2>4 DEF Entered
<1> QED
  BY <1>5, <1>6

\* The outermost frame stays the body of the function until its `end`, which leaves the results.
LEMMA BodyAfter ==
  ASSUME NEW vm, Good(vm), Body(vm), NEW v, v.ok, NEW p, NEW q, Moves(vm, v, p, q)
  PROVE  /\ v.control # <<>> => Body(v)
         /\ v.control = <<>> => v.operands = Types[FuncType].results
<1>1. PICK n, m : n = Len(vm.control) /\ m = Len(v.control)
  OBVIOUS
<1>2. /\ Good(v) /\ m \in Nat /\ n \in Nat
      /\ \/ m = n /\ KeepsFrames(vm, v, n)
         \/ m = n + 1 /\ KeepsFrames(vm, v, n)
         \/ /\ n \in 1..n /\ m = n - 1 /\ KeepsFrames(vm, v, n - 1)
            /\ vm.control[n].height = 0 => v.operands = Results(vm.control[n].block_type)
         \/ /\ n \in 1..n /\ m = n /\ KeepsFrames(vm, v, n - 1)
            /\ vm.control[n].kind # "Block"
  BY <1>1, StepKinds
<1>3. n \in Nat \ {0} /\ (v.control = <<>> <=> m = 0)
  BY <1>1, Fields DEF Good, Body
<1>4. vm.control[1].kind = "Block" /\ vm.control[1].block_type = FuncBlock(FuncType) /\ vm.control[1].height = 0
  BY DEF Body
<1>5. CASE m = 0
  <2>1. n = 1
    BY <1>2, <1>3, <1>5
  <2>2. v.operands = Results(FuncBlock(FuncType))
    BY <1>2, <1>4, <1>5, <2>1
  <2>3. Results(FuncBlock(FuncType)) = Types[FuncType].results
    BY DEF Results, FuncBlock
  <2> QED
    BY <1>3, <1>5, <2>2, <2>3
<1>6. CASE m # 0
  <2>1. PICK k : KeepsFrames(vm, v, k) /\ 1 \in 1..k
    <3>1. \/ KeepsFrames(vm, v, n) /\ 1 \in 1..n
          \/ KeepsFrames(vm, v, n - 1) /\ n # 1
      BY <1>2, <1>3, <1>4, <1>6
    <3>2. n # 1 => 1 \in 1..(n - 1)
      BY <1>3
    <3> QED
      BY <3>1, <3>2
  <2>2. /\ v.control[1].kind = vm.control[1].kind /\ v.control[1].block_type = vm.control[1].block_type
        /\ v.control[1].height = vm.control[1].height
    BY <2>1 DEF KeepsFrames
  <2> QED
    BY <1>3, <1>4, <1>6, <2>2 DEF Body
<1> QED
  BY <1>5, <1>6

\* A frame or a part of a block that ends leaves the locals as they were at its start.
LEMMA ScopedAfter ==
  ASSUME NEW vm, Good(vm), vm.control # <<>>, NEW v, v.ok, NEW p, NEW q, Moves(vm, v, p, q),
         NEW e, Entered(vm, e),
         Len(v.control) <= Len(vm.control),
         Len(v.control) < Len(vm.control) \/ Last(v.control).kind # Last(vm.control).kind
  PROVE  v.inited = e[Len(vm.control)]
<1>1. PICK n, m : n = Len(vm.control) /\ m = Len(v.control)
  OBVIOUS
<1>2. vm \in Validators /\ n \in 1..n /\ n \in Nat /\ Last(vm.control) = vm.control[n]
  BY <1>1, InnermostFacts, Fields DEF Good, Innermost
<1>3. e[n] = Undo(vm, vm.control[n].init_height)
  BY <1>1, <1>2 DEF Entered
<1>4. ~(m = n /\ KeepsFrames(vm, v, n))
  <2>1. SUFFICES ASSUME m = n, KeepsFrames(vm, v, n) PROVE FALSE
    OBVIOUS
  <2>2. Last(v.control) = v.control[n]
    BY <1>1, <2>1 DEF Last
  <2>3. v.control[n].kind = vm.control[n].kind
    BY <1>2, <2>1 DEF KeepsFrames
  <2>4. ~(m < n)
    BY <1>2, <2>1
  <2> QED
    BY <1>1, <1>2, <2>2, <2>3, <2>4
<1>5. m # n + 1
  BY <1>1, <1>2
<1>6. v.inited = Undo(vm, vm.control[n].init_height)
  BY <1>1, <1>4, <1>5, StepKinds
<1> QED
  BY <1>1, <1>3, <1>6

-----------------------------------------------------------------------------
(* The inductive invariant.                                                  *)

\* The validator record between two operators.
Resting(o, c, I, l) ==
    [operands |-> o, control |-> c, inited |-> I, inits |-> l,
     pops |-> 0, pushes |-> 0, popped |-> Bottom, ok |-> TRUE]

Outermost == <<Frame("Block", FuncBlock(FuncType), 0, 0)>>

\* The validator before its first operator, and one that has been dropped.
LEMMA StartIsGood ==
  ASSUME NEW I \in SUBSET Nat, NEW w, w = Resting(<<>>, Outermost, I, <<>>)
  PROVE  Good(w) /\ Entered(w, <<I>>) /\ Body(w)
<1>1. PICK fr : fr = Frame("Block", FuncBlock(FuncType), 0, 0)
  OBVIOUS
<1>2. /\ fr.kind = "Block" /\ fr.block_type = FuncBlock(FuncType) /\ fr.height = 0
      /\ fr.unreachable = FALSE /\ fr.init_height = 0
  BY <1>1 DEF Frame
<1>3. fr \in Frames
  <2>1. FuncBlock(FuncType) \in Blocks /\ "Block" \in FrameKinds
    BY OperatorAssumption DEF Blocks, FrameKinds
  <2> QED
    BY <1>1, <2>1 DEF Frame, Frames
<1>4. PICK c : c = <<fr>>
  OBVIOUS
<1>5. c \in Seq(Frames) /\ Len(c) = 1 /\ c[1] = fr /\ c # <<>>
  BY <1>3, <1>4
<1>6. w = Resting(<<>>, c, I, <<>>)
  BY <1>1, <1>4 DEF Outermost
<1>7. /\ w.operands = <<>> /\ w.control = c /\ w.inited = I /\ w.inits = <<>>
      /\ w.pops = 0 /\ w.pushes = 0 /\ w.popped = Bottom /\ w.ok = TRUE
  BY <1>6 DEF Resting
<1>8. w \in Validators
  <2>1. <<>> \in Seq(OperandTypes) /\ <<>> \in Seq(Nat) /\ Bottom \in OperandTypes
    BY BottomFacts
  <2> QED
    BY <1>5, <1>6, <2>1 DEF Validators, Resting
<1>9. Len(w.control) = 1 /\ Len(w.operands) = 0 /\ Len(w.inits) = 0 /\ w.control[1] = fr
  BY <1>5, <1>7
<1>10. Nested(w)
  BY <1>2, <1>9 DEF Nested
<1>11. KnownWhereReachable(w) /\ LoggedOnce(w)
  BY <1>9 DEF KnownWhereReachable, LoggedOnce
<1>12. Undo(w, 0) = I
  BY <1>7, <1>9 DEF Undo
<1>13. Entered(w, <<I>>)
  <2>1. <<I>> \in Seq(SUBSET Nat) /\ Len(<<I>>) = 1 /\ <<I>>[1] = I
    OBVIOUS
  <2>2. \A f \in 1..1 : <<I>>[f] = Undo(w, w.control[f].init_height)
    BY <1>2, <1>9, <1>12, <2>1
  <2> QED
    BY <1>9, <2>1, <2>2 DEF Entered
<1>14. Body(w)
  BY <1>2, <1>5, <1>7 DEF Body
<1> QED
  BY <1>8, <1>10, <1>11, <1>13, <1>14 DEF Good

\* A validator that has been dropped.
LEMMA DroppedIsGood ==
  ASSUME NEW w, w = Resting(<<>>, <<>>, {}, <<>>)
  PROVE  Good(w) /\ Entered(w, <<>>)
<1>1. /\ w.operands = <<>> /\ w.control = <<>> /\ w.inited = {} /\ w.inits = <<>>
      /\ w.pops = 0 /\ w.pushes = 0 /\ w.popped = Bottom /\ w.ok = TRUE
  BY DEF Resting
<1>2. w \in Validators
  <2>1. <<>> \in Seq(OperandTypes) /\ <<>> \in Seq(Nat) /\ <<>> \in Seq(Frames) /\ Bottom \in OperandTypes
    BY BottomFacts
  <2> QED
    BY <2>1 DEF Validators, Resting
<1>3. Len(w.control) = 0 /\ Len(w.operands) = 0 /\ Len(w.inits) = 0
  BY <1>1
<1>4. Nested(w) /\ KnownWhereReachable(w) /\ LoggedOnce(w)
  BY <1>3 DEF Nested, KnownWhereReachable, LoggedOnce
<1>5. Entered(w, <<>>)
  BY <1>3 DEF Entered
<1> QED
  BY <1>2, <1>4, <1>5 DEF Good

\* The counts of an operator are forgotten before the next one.
LEMMA RestIsGood ==
  ASSUME NEW v, Good(v), NEW w, w = Resting(v.operands, v.control, v.inited, v.inits)
  PROVE  /\ Good(w) /\ (Body(v) => Body(w))
         /\ \A e : Entered(v, e) => Entered(w, e)
<1>1. /\ w.operands = v.operands /\ w.control = v.control /\ w.inited = v.inited /\ w.inits = v.inits
      /\ w.pops = 0 /\ w.pushes = 0 /\ w.popped = Bottom /\ w.ok = TRUE
  BY DEF Resting
<1>2. w \in Validators
  <2>1. /\ v.operands \in Seq(OperandTypes) /\ v.control \in Seq(Frames)
        /\ v.inited \in SUBSET Nat /\ v.inits \in Seq(Nat) /\ Bottom \in OperandTypes
    BY BottomFacts, Fields DEF Good
  <2> QED
    BY <2>1 DEF Validators, Resting
<1>3. \A h : Undo(w, h) = Undo(v, h)
  BY <1>1 DEF Undo
<1>4. Nested(w) /\ LoggedOnce(w)
  BY <1>1 DEF Good, Nested, LoggedOnce
<1>5. \A f, i : Holds(w, f, i) <=> Holds(v, f, i)
  BY <1>1 DEF Holds
<1>6. KnownWhereReachable(w)
  BY <1>1, <1>5 DEF Good, KnownWhereReachable
<1> QED
  BY <1>1, <1>2, <1>3, <1>4, <1>6 DEF Good, Body, Entered

ValidatorOK == Good(Vm) /\ Entered(Vm, entry)
LocalsOK == Represents(locals, declared)
StatusOK ==
    /\ status \in {"locals", "operators", "accepted", "rejected"}
    /\ emptied \in {"no", "just", "past"}
ProgressOK ==
    /\ status = "locals" =>
          operands = <<>> /\ control = Outermost /\ inits = <<>> /\ emptied = "no"
    /\ status = "operators" /\ emptied = "no" => Body(Vm)
    /\ emptied = "just" => control = <<>> /\ operands = Types[FuncType].results
    /\ status = "accepted" => control = <<>> /\ emptied = "just"

Inv == ValidatorOK /\ LocalsOK /\ StatusOK /\ ProgressOK

\* The validator record of the state.
LEMMA VmIs == Vm = Resting(operands, control, inited, inits)
BY DEF Vm, Resting

\* The parameters of the function are value types.
LEMMA ParamsOK == FunctionParams \in Seq(ValTypes)
BY FuncFacts, OperatorAssumption DEF FunctionParams

\* OperatorValidator::new_func establishes the invariant.
LEMMA InitInv == Init => Inv
<1> SUFFICES ASSUME Init PROVE Inv
  OBVIOUS
<1>1. FunctionParams \in Seq(ValTypes) /\ Len(FunctionParams) \in Nat
  BY ParamsOK, LenProperties
<1>2. inited \in SUBSET Nat
  <2>1. inited = 0..(Len(FunctionParams) - 1)
    BY ZenonT(30) DEF Init
  <2>2. \A n \in Nat : 0..(n - 1) \subseteq Nat
    OBVIOUS
  <2> QED
    BY <1>1, <2>1, <2>2
<1>3. control = Outermost /\ operands = <<>> /\ inits = <<>> /\ entry = <<inited>>
  BY DEF Init, Outermost
<1>4. Vm = Resting(<<>>, Outermost, inited, <<>>)
  BY <1>3, VmIs
<1>5. Good(Vm) /\ Entered(Vm, entry)
  BY <1>2, <1>3, <1>4, StartIsGood
<1>6. Represents(locals, declared)
  <2>1. PICK types : types = FunctionParams
    OBVIOUS
  <2>2. Represents(FoldLeft(LAMBDA ls, t : Define(ls, 1, t), EmptyLocals, types), types)
    BY <1>1, <2>1, ParametersRepresent
  <2> QED
    BY <2>1, <2>2 DEF Init
<1>7. status = "locals" /\ emptied = "no"
  BY DEF Init
<1> QED
  BY <1>3, <1>5, <1>6, <1>7 DEF Inv, ValidatorOK, LocalsOK, StatusOK, ProgressOK

\* So does an error.
LEMMA DropInv == ASSUME Drop("rejected") PROVE Inv'
<1>1. /\ status' = "rejected" /\ operands' = <<>> /\ control' = <<>> /\ inited' = {} /\ inits' = <<>>
      /\ locals' = EmptyLocals /\ declared' = <<>> /\ entry' = <<>> /\ emptied' = "no"
  BY DEF Drop
<1>2. Vm' = Resting(<<>>, <<>>, {}, <<>>)
  BY <1>1 DEF Vm, Resting
<1>3. Good(Vm') /\ Entered(Vm', <<>>)
  BY <1>2, DroppedIsGood
<1>4. ValidatorOK'
  BY <1>1, <1>3 DEF ValidatorOK
<1>5. LocalsOK'
  BY <1>1, EmptyRepresents DEF LocalsOK
<1> QED
  BY <1>1, <1>4, <1>5 DEF Inv, StatusOK, ProgressOK

\* A group of locals keeps the invariant.
LEMMA DefineLocalsInv == ASSUME Inv, DefineLocals PROVE Inv'
<1>1. PICK count \in 0..MaxGroup, t \in ValueTypes :
         IF ~ValueTypeOk(t) \/ ~CanDefine(locals, count) THEN Drop("rejected")
         ELSE /\ count > 0
              /\ locals' = Define(locals, count, t)
              /\ declared' = declared \o [i \in 1..count |-> t]
              /\ inited' = inited \cup
                   (IF IsDefaultable(t) THEN locals.num_locals..(locals.num_locals + count - 1)
                    ELSE {})
              /\ entry' = <<inited'>>
              /\ UNCHANGED <<operands, control, inits, emptied, status, steps>>
  BY DEF DefineLocals
<1>2. CASE ~ValueTypeOk(t) \/ ~CanDefine(locals, count)
  BY <1>1, <1>2, DropInv
<1>3. CASE ValueTypeOk(t) /\ CanDefine(locals, count)
  <2>1. /\ count > 0 /\ locals' = Define(locals, count, t)
        /\ declared' = declared \o [i \in 1..count |-> t]
        /\ inited' = inited \cup
             (IF IsDefaultable(t) THEN locals.num_locals..(locals.num_locals + count - 1) ELSE {})
        /\ entry' = <<inited'>>
        /\ operands' = operands /\ control' = control /\ inits' = inits /\ emptied' = emptied
        /\ status' = status
    BY <1>1, <1>3
  <2>2. status = "locals"
    BY DEF DefineLocals
  <2>3. operands = <<>> /\ control = Outermost /\ inits = <<>> /\ emptied = "no"
    BY <2>2 DEF Inv, ProgressOK
  <2>4. Represents(locals, declared) /\ count \in Nat \ {0}
    BY <2>1, OperatorAssumption DEF Inv, LocalsOK
  <2>5. t \in ValTypes
    BY <1>3, OperatorAssumption, CheckedIsValue
  <2>6. Represents(locals', declared')
    <3>1. PICK more : more = declared \o [i \in 1..count |-> t]
      OBVIOUS
    <3>2. Represents(Define(locals, count, t), more)
      BY <2>4, <2>5, <3>1, DefineRepresents
    <3> QED
      BY <2>1, <3>1, <3>2
  <2>7. inited \in SUBSET Nat
    <3>1. Vm \in Validators /\ Vm.inited = inited
      BY StateFacts DEF Inv, ValidatorOK
    <3> QED
      BY <3>1, Fields
  <2>8. locals.num_locals \in Nat
    BY <2>4, LenProperties DEF Represents
  <2>9. inited' \in SUBSET Nat
    <3>1. \A n \in Nat, k \in Nat : n..(n + k - 1) \subseteq Nat
      OBVIOUS
    <3>2. locals.num_locals..(locals.num_locals + count - 1) \subseteq Nat
      BY <2>4, <2>8, <3>1
    <3> QED
      BY <2>1, <2>7, <3>2
  <2>10. Vm' = Resting(<<>>, Outermost, inited', <<>>)
    BY <2>1, <2>3 DEF Vm, Resting
  <2>11. Good(Vm') /\ Entered(Vm', entry')
    BY <2>1, <2>9, <2>10, StartIsGood
  <2>12. ValidatorOK'
    BY <2>11 DEF ValidatorOK
  <2>13. LocalsOK'
    BY <2>6 DEF LocalsOK
  <2>14. StatusOK'
    BY <2>1 DEF Inv, StatusOK
  <2>15. ProgressOK'
    <3>1. Outermost' = Outermost
      BY DEF Outermost
    <3> QED
      BY <2>1, <2>2, <2>3, <3>1 DEF ProgressOK
  <2> QED
    BY <2>12, <2>13, <2>14, <2>15 DEF Inv
<1> QED
  BY <1>2, <1>3

\* An operator that goes on keeps the invariant.
LEMMA ContinueInv ==
  ASSUME Inv, status = "operators", NEW v, v.ok, Step(v), Continue(v)
  PROVE  Inv'
<1>1. PICK p, q : Moves(Vm, v, p, q)
  BY DEF Step, Moves
<1>2. /\ operands' = v.operands /\ control' = v.control /\ inited' = v.inited /\ inits' = v.inits
      /\ entry' = IF Len(v.control) > Len(control) THEN Append(entry, inited)
                  ELSE SubSeq(entry, 1, Len(v.control))
      /\ locals' = locals /\ declared' = declared /\ status' = status
      /\ emptied' = CASE emptied = "no" /\ v.control = <<>> -> "just"
                      [] emptied = "no" /\ v.control # <<>> -> "no"
                      [] OTHER -> "past"
  BY DEF Continue
<1>3. /\ Good(Vm) /\ Entered(Vm, entry) /\ Represents(locals, declared)
      /\ emptied \in {"no", "just", "past"} /\ (emptied = "no" => Body(Vm))
  BY DEF Inv, ValidatorOK, LocalsOK, StatusOK, ProgressOK
<1>4. Vm' = Resting(v.operands, v.control, v.inited, v.inits)
  BY <1>2 DEF Vm, Resting
<1>5. Good(v)
  <2>1. PICK n : n = Len(Vm.control)
    OBVIOUS
  <2> QED
    BY <1>1, <1>3, <2>1, StepKinds
<1>6. Vm.control = control /\ Vm.inited = inited
  BY StateFacts
<1>7. Entered(v, entry')
  <2>1. PICK e, after : /\ e = entry /\ after = entry'
    OBVIOUS
  <2>2. after = IF Len(v.control) > Len(Vm.control) THEN Append(e, Vm.inited)
                ELSE SubSeq(e, 1, Len(v.control))
    BY <1>2, <1>6, <2>1
  <2>3. Entered(v, after)
    BY <1>1, <1>3, <2>1, <2>2, EntryAfter
  <2> QED
    BY <2>1, <2>3
<1>8. Good(Vm') /\ Entered(Vm', entry') /\ (Body(v) => Body(Vm'))
  BY <1>4, <1>5, <1>7, RestIsGood
<1>9. ValidatorOK'
  BY <1>8 DEF ValidatorOK
<1>10. LocalsOK'
  BY <1>2, <1>3 DEF LocalsOK
<1>11. StatusOK'
  BY <1>2 DEF StatusOK
<1>12. emptied' = "no" => emptied = "no" /\ v.control # <<>>
  BY <1>2
<1>13. emptied' = "just" => emptied = "no" /\ v.control = <<>>
  BY <1>2
<1>14. emptied = "no" => /\ v.control # <<>> => Body(v)
                         /\ v.control = <<>> => v.operands = Types[FuncType].results
  BY <1>1, <1>3, BodyAfter
<1>15. ProgressOK'
  <2>1. status' = "operators"
    BY <1>2
  <2>2. emptied' = "no" => Body(Vm')
    BY <1>8, <1>12, <1>14
  <2>3. emptied' = "just" => control' = <<>> /\ operands' = Types[FuncType].results
    BY <1>2, <1>13, <1>14
  <2> QED
    BY <2>1, <2>2, <2>3 DEF ProgressOK
<1> QED
  BY <1>9, <1>10, <1>11, <1>15 DEF Inv

\* A step that changes the status only keeps the invariant.
LEMMA SameInv ==
  ASSUME Inv, UNCHANGED <<operands, control, inited, inits, locals, emptied, declared, entry>>,
         \/ status' = status
         \/ status = "locals" /\ status' = "operators"
         \/ status' = "accepted" /\ control = <<>> /\ emptied = "just"
  PROVE  Inv'
<1>1. Vm' = Vm
  BY DEF Vm
<1>2. ValidatorOK' /\ LocalsOK'
  BY <1>1 DEF Inv, ValidatorOK, LocalsOK
<1>3. StatusOK'
  BY DEF Inv, StatusOK
<1>4. status = "locals" => Body(Vm)
  <2>1. SUFFICES ASSUME status = "locals" PROVE Body(Vm)
    OBVIOUS
  <2>2. operands = <<>> /\ control = Outermost /\ inits = <<>>
    BY <2>1 DEF Inv, ProgressOK
  <2>3. inited \in SUBSET Nat
    <3>1. Vm \in Validators /\ Vm.inited = inited
      BY StateFacts DEF Inv, ValidatorOK
    <3> QED
      BY <3>1, Fields
  <2>4. Vm = Resting(<<>>, Outermost, inited, <<>>)
    BY <2>2, VmIs
  <2> QED
    BY <2>3, <2>4, StartIsGood
<1>5. ProgressOK'
  <2>1. Outermost' = Outermost
    BY DEF Outermost
  <2> QED
    BY <1>1, <1>4, <2>1 DEF Inv, ProgressOK
<1> QED
  BY <1>2, <1>3, <1>5 DEF Inv

\* Every step keeps the invariant.
LEMMA StepInv == Inv /\ [Next]_vars => Inv'
<1> SUFFICES ASSUME Inv, [Next]_vars PROVE Inv'
  OBVIOUS
<1>1. CASE DefineLocals
  BY <1>1, DefineLocalsInv
<1>2. CASE StartOperators
  BY <1>2, SameInv DEF StartOperators
<1>3. CASE Operator
  <2>1. Good(Vm) /\ Represents(locals, declared) /\ status = "operators"
    BY <1>3 DEF Inv, ValidatorOK, LocalsOK, Operator
  <2>2. Advance
    BY <1>3, <2>1, OperatorMoves
  <2> QED
    BY <2>1, <2>2, DropInv, ContinueInv DEF Advance
<1>4. CASE Finish
  <2>1. CASE control # <<>> \/ emptied # "just"
    BY <1>4, <2>1, DropInv DEF Finish
  <2>2. CASE control = <<>> /\ emptied = "just"
    BY <1>4, <2>2, SameInv DEF Finish
  <2> QED
    BY <2>1, <2>2
<1>5. CASE Done \/ UNCHANGED vars
  BY <1>5, SameInv DEF Done, vars
<1> QED
  BY <1>1, <1>2, <1>3, <1>4, <1>5 DEF Next

-----------------------------------------------------------------------------
(* What follows from the invariant.                                          *)

\* The frames are nested and what was initialised is logged.
LEMMA InvTypeOK == Inv => TypeOK
<1> SUFFICES ASSUME Inv PROVE TypeOK
  OBVIOUS
<1>1. Good(Vm) /\ Entered(Vm, entry) /\ Vm.control = control /\ Vm.operands = operands
      /\ Vm.inits = inits /\ Vm.inited = inited /\ Vm \in Validators
  BY StateFacts DEF Inv, ValidatorOK
<1>2. Len(entry) = Len(control)
  BY <1>1 DEF Entered
<1>3. ToSet(inits) \subseteq inited
  <2>1. DOMAIN inits = 1..Len(inits) /\ \A j \in 1..Len(inits) : inits[j] \in inited
    BY <1>1, Fields DEF Good, LoggedOnce
  <2> QED
    BY <2>1 DEF ToSet
<1>4. \A i \in 1..Len(control) :
         /\ control[i].height <= IF i = Len(control) THEN Len(operands) ELSE control[i + 1].height
         /\ control[i].init_height <= IF i = Len(control) THEN Len(inits)
                                      ELSE control[i + 1].init_height
  BY <1>1 DEF Good, Nested
<1> QED
  BY <1>2, <1>3, <1>4 DEF TypeOK, Inv, StatusOK

\* The frame that holds an operand of unknown type is the last one below it, and is unreachable.
LEMMA InvReachable == Inv => ReachableIsKnown
<1> SUFFICES ASSUME Inv, NEW i \in 1..Len(operands), control # <<>>, ~IsKnown(operands[i])
             PROVE  control[Owner(i)].unreachable
  BY DEF ReachableIsKnown
<1>1. Good(Vm) /\ Vm.control = control /\ Vm.operands = operands /\ Vm \in Validators
  BY StateFacts DEF Inv, ValidatorOK
<1>2. PICK n : n = Len(control)
  OBVIOUS
<1>3. n \in Nat /\ n \in 1..n /\ i \in Nat /\ Len(operands) \in Nat
      /\ \A f \in 1..n : control[f].height \in Nat
  BY <1>1, <1>2, Fields, InnermostFacts
<1>4. operands[i] \notin ValTypes
  <2>1. operands[i] \in OperandTypes
    BY <1>1, Fields
  <2> QED
    BY <2>1, ValuesAreOperands
<1>5. \A f \in 0..n : Holds(Vm, f, i) => f # 0 /\ control[f].unreachable
  BY <1>1, <1>2, <1>4 DEF Good, KnownWhereReachable
<1>6. \A f : Holds(Vm, f, i) <=> /\ f = 0 \/ control[f].height < i
                                 /\ f = n \/ i <= control[f + 1].height
  BY <1>1, <1>2 DEF Holds
<1>7. PICK S : S = {f \in 1..n : control[f].height < i}
  OBVIOUS
<1>8. S # {}
  <2>1. SUFFICES ASSUME S = {} PROVE FALSE
    OBVIOUS
  <2>2. 1 \in 1..n /\ 0 \in 0..n
    BY <1>3
  <2>3. ~(control[1].height < i)
    BY <1>7, <2>1, <2>2
  <2>4. i <= control[0 + 1].height
    BY <1>3, <2>2, <2>3
  <2> QED
    BY <1>5, <1>6, <2>2, <2>4
<1>9. PICK m : m = Max(S)
  OBVIOUS
<1>10. m \in S /\ \A x \in S : x <= m
  BY <1>3, <1>7, <1>8, <1>9, GreatestNumber
<1>11. m \in 1..n /\ m \in 0..n /\ control[m].height < i
  BY <1>3, <1>7, <1>10
<1>12. m = n \/ i <= control[m + 1].height
  <2>1. SUFFICES ASSUME m # n PROVE i <= control[m + 1].height
    OBVIOUS
  <2>2. m + 1 \in 1..n /\ ~(m + 1 <= m)
    BY <1>3, <1>11, <2>1
  <2>3. m + 1 \notin S
    BY <1>10, <2>2
  <2>4. ~(control[m + 1].height < i)
    BY <1>7, <2>2, <2>3
  <2> QED
    BY <1>3, <2>2, <2>4
<1>13. control[m].unreachable
  BY <1>5, <1>6, <1>11, <1>12
<1>14. Owner(i) = m
  BY <1>2, <1>7, <1>9 DEF Owner
<1> QED
  BY <1>13, <1>14

\* The list of locals answers for every index.
LEMMA InvLocals == Inv => LocalsAgree
<1> SUFFICES ASSUME Inv PROVE LocalsAgree
  OBVIOUS
<1>1. Represents(locals, declared)
  BY DEF Inv, LocalsOK
<1>2. locals.num_locals = Len(declared)
  BY <1>1 DEF Represents
<1>3. ASSUME NEW i \in 0..MaxLocals
      PROVE  Get(locals, i) = IF i < Len(declared) THEN declared[i + 1] ELSE Bottom
  <2>1. i \in Nat
    OBVIOUS
  <2> QED
    BY <1>1, <2>1, GetIsDeclared
<1> QED
  BY <1>2, <1>3 DEF LocalsAgree

\* Every step that ends a block or a part of one undoes its initialised locals.
LEMMA StepScoped == Inv /\ [Next]_vars =>
   [ /\ status = "operators" /\ status' = "operators" /\ control # <<>>
     /\ Len(control') <= Len(control)
     /\ \/ Len(control') < Len(control)
        \/ Last(control').kind # Last(control).kind
     => inited' = entry[Len(control)] ]_vars
<1> SUFFICES ASSUME Inv, Next,
                    status = "operators", status' = "operators", control # <<>>,
                    Len(control') <= Len(control),
                    Len(control') < Len(control) \/ Last(control').kind # Last(control).kind
             PROVE  inited' = entry[Len(control)]
  OBVIOUS
<1>1. Good(Vm) /\ Entered(Vm, entry) /\ Represents(locals, declared) /\ Vm.control = control
      /\ Vm \in Validators
  BY StateFacts DEF Inv, ValidatorOK, LocalsOK
<1>2. Operator \/ control' = control
  <2>1. ~DefineLocals /\ ~StartOperators
    BY DEF DefineLocals, StartOperators
  <2>2. Finish => control' = control
    BY DEF Finish, Drop
  <2>3. Done => control' = control
    BY DEF Done, vars
  <2> QED
    BY <2>1, <2>2, <2>3 DEF Next
<1>3. CASE control' = control
  <2>1. Len(control) \in Nat
    BY <1>1, Fields
  <2> QED
    BY <1>3, <2>1
<1>4. CASE Operator
  <2>1. Advance /\ ~Drop("rejected")
    BY <1>1, <1>4, OperatorMoves DEF Drop
  <2>2. PICK v : v.ok /\ Step(v) /\ Continue(v)
    BY <2>1 DEF Advance
  <2>3. PICK p, q : Moves(Vm, v, p, q)
    BY <2>2 DEF Step, Moves
  <2>4. control' = v.control /\ inited' = v.inited
    BY <2>2 DEF Continue
  <2>5. PICK e : e = entry
    OBVIOUS
  <2>6. v.inited = e[Len(Vm.control)]
    BY <1>1, <2>2, <2>3, <2>4, <2>5, ScopedAfter
  <2> QED
    BY <1>1, <2>4, <2>5, <2>6
<1> QED
  BY <1>2, <1>3, <1>4

\* The invariant holds in every state of FuncValidator::validate.
THEOREM InvHolds == Spec => []Inv
BY InitInv, StepInv, PTL DEF Spec

\* Theorem: the control frames are nested, with their heights on the operand stack and in the
\* undo log of initialised locals, whatever the module and the operators.
THEOREM TypeOKHolds == Spec => []TypeOK
BY InvHolds, InvTypeOK, PTL

\* Theorem: the compressed list of locals gives every index the type it was declared with,
\* through the cache and through the binary search, for every number of groups of locals.
THEOREM LocalsAgreeHolds == Spec => []LocalsAgree
BY InvHolds, InvLocals, PTL

\* Theorem: operands of unknown type lie in unreachable frames only (pop_operand, unreachable,
\* pop_push_label_types), for every module and every sequence of operators.
THEOREM ReachableIsKnownHolds == Spec => []ReachableIsKnown
BY InvHolds, InvReachable, PTL

\* Theorem: every visitor pops and pushes what the operator table of arity.rs announces; the
\* debug assertion of FuncValidator::validate never fires.
THEOREM ArityAgreesHolds == Spec => []ArityAgrees
<1>1. Inv => ArityAgrees
  BY DEF Inv, StatusOK, ArityAgrees
<1> QED
  BY <1>1, InvHolds, PTL

\* Theorem: FuncValidator::finish accepts right after the `end` of the outermost frame, with
\* the results of the function on the stack and nothing else.
THEOREM AcceptedIsCompleteHolds == Spec => []AcceptedIsComplete
<1>1. Inv => AcceptedIsComplete
  BY DEF Inv, ProgressOK, AcceptedIsComplete
<1> QED
  BY <1>1, InvHolds, PTL

\* Theorem: leaving a block, or starting its else or catch part, makes the locals that were
\* initialised in it uninitialised again (pop_ctrl and inits.reset).
THEOREM ScopedInitsHolds == Spec => ScopedInits
<1>1. Inv /\ [Next]_vars =>
        [ /\ status = "operators" /\ status' = "operators" /\ control # <<>>
          /\ Len(control') <= Len(control)
          /\ \/ Len(control') < Len(control)
             \/ Last(control').kind # Last(control).kind
          => inited' = entry[Len(control)] ]_vars
  BY StepScoped
<1> QED
  BY <1>1, InvHolds, PTL DEF Spec, ScopedInits
=============================================================================
