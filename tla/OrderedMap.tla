----------------------------- MODULE OrderedMap -----------------------------
(* What an IndexMap promises: a map whose keys have positions.  A new key goes *)
(* last, a removed one leaves its position to the last, a held entry or an     *)
(* iterator sees nothing but the map as it was when it was taken.              *)
EXTENDS Naturals, Sequences

CONSTANTS Keys, Values

VARIABLES
  order,   \* the keys by position
  val,     \* the value of each
  left,    \* the keys an iterator has not yielded yet, in a sequence; <<>>: no iterator
  ret      \* the answer of the latest call

NoIter == <<>>

Init == order = <<>> /\ val = <<>> /\ left = NoIter /\ ret = <<>>

\* The value before a call that puts or removes k.
Before(k) == IF k \in DOMAIN val THEN <<val[k]>> ELSE <<>>

With(k, v) == [x \in DOMAIN val \cup {k} |-> IF x = k THEN v ELSE val[x]]

Put(k, v) ==
  /\ left = NoIter
  /\ order' = IF k \in DOMAIN val THEN order ELSE Append(order, k)
  /\ val' = With(k, v)
  /\ ret' = Before(k)
  /\ UNCHANGED left

\* The order without its i-th key, whose place the last key takes.
SwapOut(i) == [j \in 1..(Len(order) - 1) |-> IF j = i THEN order[Len(order)] ELSE order[j]]

Remove(k) ==
  /\ left = NoIter
  /\ ret' = Before(k)
  /\ val' = [x \in DOMAIN val \ {k} |-> val[x]]
  /\ IF k \in DOMAIN val
     THEN \E i \in DOMAIN order : order[i] = k /\ order' = SwapOut(i)
     ELSE order' = order
  /\ UNCHANGED left

Read(k) == ret' = Before(k) /\ UNCHANGED <<order, val, left>>

Clear ==
  /\ left = NoIter
  /\ order' = <<>> /\ val' = <<>> /\ ret' = <<>>
  /\ UNCHANGED left

Iterate ==
  /\ left = NoIter
  /\ left' = <<order>> /\ ret' = <<>>
  /\ UNCHANGED <<order, val>>

\* One key from either end, its value perhaps replaced.
Yield(k, v, rest) ==
  /\ ret' = <<k, val[k]>>
  /\ left' = <<rest>>
  /\ val' = With(k, v)
  /\ UNCHANGED order

Stop == left # NoIter /\ left' = NoIter /\ ret' = <<>> /\ UNCHANGED <<order, val>>

Next ==
  \/ \E k \in Keys : Remove(k) \/ Read(k) \/ \E v \in Values : Put(k, v)
  \/ Clear \/ Iterate \/ Stop
  \/ /\ left \notin {NoIter, <<<<>>>>}
     /\ \E v \in Values : \/ Yield(left[1][1], v, Tail(left[1]))
                          \/ Yield(left[1][Len(left[1])], v, SubSeq(left[1], 1, Len(left[1]) - 1))

Spec == Init /\ [][Next]_<<order, val, left, ret>>
=============================================================================
