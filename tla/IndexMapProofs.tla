--------------------------- MODULE IndexMapProofs ---------------------------
(* IndexMap implements OrderedMap, for every set of keys and of values.  The   *)
(* invariant is that the tree and the vector are inverse to each other; each   *)
(* operation is first described as a function on such maps (what it does to    *)
(* the order of the keys and to the values), then every action is shown to     *)
(* keep the invariant and to be a step of the ordered map.                     *)
EXTENDS IndexMap, SequenceTheorems, TLAPS

-----------------------------------------------------------------------------
(* Maps as values: what is well-formed, and what a map says.                  *)

IsMap(m) ==
  /\ m = [key2slot |-> m.key2slot, slots |-> m.slots]
  /\ m.key2slot \in [DOMAIN m.key2slot -> Nat]
  /\ DOMAIN m.key2slot \subseteq Keys
  /\ m.slots \in Seq(Slot)

\* The tree and the slots are inverse to each other.
GoodMap(m) ==
  /\ IsMap(m)
  /\ \A k \in DOMAIN m.key2slot :
       m.key2slot[k] + 1 \in 1..len(m) /\ m.slots[m.key2slot[k] + 1].key = k
  /\ \A i \in 1..len(m) :
       m.slots[i].key \in DOMAIN m.key2slot /\ m.key2slot[m.slots[i].key] = i - 1

OrderOf(m) == [i \in 1..len(m) |-> m.slots[i].key]
ValOf(m) == [k \in DOMAIN m.key2slot |-> get(m, k)[1]]

With(f, k, v) == [x \in DOMAIN f \cup {k} |-> IF x = k THEN v ELSE f[x]]

\* The parts of a well-typed map have the types the code gives them.
LEMMA Parts ==
  ASSUME NEW m, IsMap(m)
  PROVE  /\ len(m) \in Nat /\ len(m) = Len(m.slots) /\ m.slots \in Seq(Slot)
         /\ m.key2slot \in [DOMAIN m.key2slot -> Nat] /\ DOMAIN m.key2slot \subseteq Keys
         /\ \A i \in 1..len(m) : m.slots[i] \in Slot /\ m.slots[i].key \in Keys
<1>1. m.slots \in Seq(Slot) /\ len(m) = Len(m.slots)
  BY DEF IsMap, len
<1>2. len(m) \in Nat /\ \A i \in 1..len(m) : m.slots[i] \in Slot
  BY <1>1, LenProperties, ElementOfSeq
<1>3. \A s \in Slot : s.key \in Keys
  BY DEF Slot
<1>4. m.key2slot \in [DOMAIN m.key2slot -> Nat] /\ DOMAIN m.key2slot \subseteq Keys
  BY DEF IsMap
<1>. QED  BY <1>1, <1>2, <1>3, <1>4

\* What GoodMap says of one key and of one slot.
LEMMA GoodKey ==
  ASSUME NEW m, GoodMap(m), NEW k \in DOMAIN m.key2slot
  PROVE  /\ m.key2slot[k] \in Nat /\ m.key2slot[k] + 1 \in 1..len(m)
         /\ m.slots[m.key2slot[k] + 1].key = k /\ k \in Keys
<1>1. m.key2slot[k] + 1 \in 1..len(m) /\ m.slots[m.key2slot[k] + 1].key = k
  BY DEF GoodMap
<1>2. m.key2slot[k] \in Nat /\ k \in Keys
  BY DEF GoodMap, IsMap
<1>. QED  BY <1>1, <1>2

\* What GoodMap says of one slot.
LEMMA GoodSlot ==
  ASSUME NEW m, GoodMap(m), NEW i \in 1..len(m)
  PROVE  /\ m.slots[i].key \in DOMAIN m.key2slot /\ m.key2slot[m.slots[i].key] = i - 1
         /\ m.slots[i] \in Slot /\ i \in Nat
<1>1. m.slots[i].key \in DOMAIN m.key2slot /\ m.key2slot[m.slots[i].key] = i - 1
  BY DEF GoodMap
<1>2. m.slots[i] \in Slot /\ len(m) \in Nat
  BY Parts DEF GoodMap
<1>. QED  BY <1>1, <1>2

\* The value that the map holds for a key is the one in the slot of that key.
LEMMA LookedUp ==
  ASSUME NEW m
  PROVE  /\ DOMAIN ValOf(m) = DOMAIN m.key2slot
         /\ \A k \in DOMAIN m.key2slot : ValOf(m)[k] = m.slots[m.key2slot[k] + 1].value
         /\ ValOf(m) = [k \in DOMAIN m.key2slot |-> ValOf(m)[k]]
  BY DEF ValOf, get, contains_key, SlotAt

\* The order of a map lists the keys of its slots.
LEMMA Orders ==
  ASSUME NEW m, IsMap(m)
  PROVE  /\ OrderOf(m) \in Seq(Keys) /\ Len(OrderOf(m)) = len(m)
         /\ \A i \in 1..len(m) : OrderOf(m)[i] = m.slots[i].key
  BY Parts DEF OrderOf

-----------------------------------------------------------------------------
(* What the operations do to a good map.                                      *)

\* The empty map is well-formed.
LEMMA NewIsGood == GoodMap(new) /\ OrderOf(new) = <<>> /\ DOMAIN ValOf(new) = {}
<1>1. IsMap(new) /\ len(new) = 0 /\ DOMAIN new.key2slot = {}
  BY DEF IsMap, new, len
<1>2. GoodMap(new)
  BY <1>1 DEF GoodMap
<1>3. OrderOf(new) = <<>>
  BY <1>1, Orders
<1>. QED  BY <1>1, <1>2, <1>3, LookedUp

\* VacantEntry::insert: the new slot is the last.
LEMMA VacantInsert ==
  ASSUME NEW m, GoodMap(m), NEW k \in Keys, NEW v \in Values, ~contains_key(m, k),
         NEW n, n = insert_vacant(m, k, v)
  PROVE  /\ GoodMap(n) /\ len(n) = len(m) + 1
         /\ OrderOf(n) = Append(OrderOf(m), k)
         /\ ValOf(n) = With(ValOf(m), k, v)
<1>1. k \notin DOMAIN m.key2slot
  BY DEF contains_key
<1>2. /\ DOMAIN n.key2slot = DOMAIN m.key2slot \cup {k}
      /\ n.key2slot[k] = len(m)
      /\ \A x \in DOMAIN m.key2slot : n.key2slot[x] = m.key2slot[x]
  BY <1>1 DEF insert_vacant, PointTo
<1>0. /\ n.key2slot = [x \in DOMAIN n.key2slot |-> n.key2slot[x]]
      /\ n.slots = Append(m.slots, [key |-> k, value |-> v])
      /\ n = [key2slot |-> n.key2slot, slots |-> n.slots]
  BY <1>1 DEF insert_vacant, PointTo
<1>3. /\ m.slots \in Seq(Slot) /\ len(m) = Len(m.slots) /\ [key |-> k, value |-> v] \in Slot
      /\ m.key2slot \in [DOMAIN m.key2slot -> Nat] /\ DOMAIN m.key2slot \subseteq Keys
  BY Parts DEF GoodMap, Slot
<1>4. /\ n.slots \in Seq(Slot) /\ len(n) = len(m) + 1 /\ len(m) \in Nat
      /\ \A i \in 1..len(m) : n.slots[i] = m.slots[i]
      /\ n.slots[len(m) + 1].key = k /\ n.slots[len(m) + 1].value = v
  BY <1>0, <1>3, AppendProperties DEF len
<1>5. IsMap(n)
  <2>1. n.key2slot \in [DOMAIN n.key2slot -> Nat] /\ DOMAIN n.key2slot \subseteq Keys
    BY <1>0, <1>2, <1>3, <1>4
  <2>. QED  BY <1>0, <1>4, <2>1 DEF IsMap
<1>6. ASSUME NEW x \in DOMAIN n.key2slot
      PROVE  n.key2slot[x] + 1 \in 1..len(n) /\ n.slots[n.key2slot[x] + 1].key = x
  <2>1. CASE x = k
    BY <2>1, <1>2, <1>4
  <2>2. CASE x \in DOMAIN m.key2slot
    <3>1. n.key2slot[x] = m.key2slot[x] /\ m.key2slot[x] \in Nat /\ m.key2slot[x] + 1 \in 1..len(m)
      BY <2>2, <1>2, GoodKey
    <3>2. n.slots[m.key2slot[x] + 1] = m.slots[m.key2slot[x] + 1] /\ m.slots[m.key2slot[x] + 1].key = x
      BY <2>2, <3>1, <1>4, GoodKey
    <3>. QED  BY <3>1, <3>2, <1>4
  <2>. QED  BY <1>2, <2>1, <2>2
<1>7. ASSUME NEW i \in 1..len(n)
      PROVE  n.slots[i].key \in DOMAIN n.key2slot /\ n.key2slot[n.slots[i].key] = i - 1
  <2>1. CASE i = len(m) + 1
    BY <2>1, <1>2, <1>4
  <2>2. CASE i \in 1..len(m)
    <3>1. n.slots[i] = m.slots[i] /\ m.slots[i].key \in DOMAIN m.key2slot
      BY <2>2, <1>4, GoodSlot
    <3>2. m.key2slot[m.slots[i].key] = i - 1
      BY <2>2, GoodSlot
    <3>. QED  BY <3>1, <3>2, <1>2
  <2>. QED  BY <1>4, <2>1, <2>2
<1>8. GoodMap(n)
  BY <1>5, <1>6, <1>7 DEF GoodMap
<1>9. OrderOf(n) = Append(OrderOf(m), k)
  <2>1. /\ OrderOf(m) \in Seq(Keys) /\ Len(OrderOf(m)) = len(m)
        /\ \A i \in 1..len(m) : OrderOf(m)[i] = m.slots[i].key
    BY Orders DEF GoodMap
  <2>2. /\ OrderOf(n) \in Seq(Keys) /\ Len(OrderOf(n)) = len(m) + 1
        /\ \A i \in 1..len(m) : OrderOf(n)[i] = m.slots[i].key
        /\ OrderOf(n)[len(m) + 1] = k
    <3>1. OrderOf(n) \in Seq(Keys) /\ Len(OrderOf(n)) = len(n)
      BY <1>5, Orders
    <3>2. \A i \in 1..len(n) : OrderOf(n)[i] = n.slots[i].key
      BY <1>5, Orders
    <3>. QED  BY <1>4, <3>1, <3>2
  <2>3. /\ Append(OrderOf(m), k) \in Seq(Keys) /\ Len(Append(OrderOf(m), k)) = len(m) + 1
        /\ \A i \in 1..len(m) : Append(OrderOf(m), k)[i] = m.slots[i].key
        /\ Append(OrderOf(m), k)[len(m) + 1] = k
    BY <2>1, AppendProperties
  <2>4. \A i \in 1..(len(m) + 1) : OrderOf(n)[i] = Append(OrderOf(m), k)[i]
    BY <1>4, <2>2, <2>3
  <2>. QED  BY <2>2, <2>3, <2>4, SeqEqual
<1>10. ValOf(n) = With(ValOf(m), k, v)
  <2>1. /\ DOMAIN ValOf(m) = DOMAIN m.key2slot /\ DOMAIN ValOf(n) = DOMAIN m.key2slot \cup {k}
        /\ ValOf(n) = [x \in DOMAIN ValOf(n) |-> ValOf(n)[x]]
    BY <1>2, LookedUp
  <2>2. ASSUME NEW x \in DOMAIN m.key2slot
        PROVE  ValOf(n)[x] = ValOf(m)[x]
    <3>1. n.key2slot[x] = m.key2slot[x] /\ m.key2slot[x] + 1 \in 1..len(m)
      BY <1>2 DEF GoodMap
    <3>2. ValOf(n)[x] = n.slots[m.key2slot[x] + 1].value /\ ValOf(m)[x] = m.slots[m.key2slot[x] + 1].value
      BY <1>2, <3>1, LookedUp
    <3>. QED  BY <1>4, <3>1, <3>2
  <2>3. ValOf(n)[k] = v
    BY <1>2, <1>4, LookedUp
  <2>. QED  BY <1>1, <2>1, <2>2, <2>3 DEF With
<1>. QED  BY <1>4, <1>8, <1>9, <1>10

\* Writing a value to a slot: keys and positions stay.
LEMMA SlotWrite ==
  ASSUME NEW m, GoodMap(m), NEW p \in 1..len(m), NEW v \in Values, NEW n,
         IsMap(n), n.key2slot = m.key2slot, len(n) = len(m),
         \A j \in 1..len(m) : j # p => n.slots[j] = m.slots[j],
         n.slots[p].key = m.slots[p].key, n.slots[p].value = v
  PROVE  /\ GoodMap(n) /\ len(n) = len(m)
         /\ OrderOf(n) = OrderOf(m)
         /\ ValOf(n) = With(ValOf(m), m.slots[p].key, v)
<1>2. IsMap(n) /\ len(n) = len(m)
  OBVIOUS
<1>3. \A j \in 1..len(m) : n.slots[j].key = m.slots[j].key
  OBVIOUS
<1>4. GoodMap(n)
  <2>1. ASSUME NEW x \in DOMAIN n.key2slot
        PROVE  n.key2slot[x] + 1 \in 1..len(n) /\ n.slots[n.key2slot[x] + 1].key = x
    BY <1>2, <1>3, GoodKey
  <2>2. ASSUME NEW i \in 1..len(n)
        PROVE  n.slots[i].key \in DOMAIN n.key2slot /\ n.key2slot[n.slots[i].key] = i - 1
    <3>1. n.slots[i].key = m.slots[i].key /\ m.slots[i].key \in DOMAIN m.key2slot
      BY <1>2, <1>3, GoodSlot
    <3>2. m.key2slot[m.slots[i].key] = i - 1
      BY <1>2, GoodSlot
    <3>. QED  BY <3>1, <3>2
  <2>. QED  BY <1>2, <2>1, <2>2 DEF GoodMap
<1>5. OrderOf(n) = OrderOf(m)
  <2>1. IsMap(m) /\ IsMap(n)
    BY <1>2 DEF GoodMap
  <2>2. /\ OrderOf(m) \in Seq(Keys) /\ Len(OrderOf(m)) = len(m)
        /\ OrderOf(n) \in Seq(Keys) /\ Len(OrderOf(n)) = len(m)
    BY <1>2, <2>1, Orders
  <2>3. \A i \in 1..len(m) : OrderOf(n)[i] = OrderOf(m)[i]
    <3>1. \A i \in 1..len(m) : OrderOf(n)[i] = n.slots[i].key
      BY <1>2, <2>1, Orders
    <3>2. \A i \in 1..len(m) : OrderOf(m)[i] = m.slots[i].key
      BY <2>1, Orders
    <3>. QED  BY <1>3, <3>1, <3>2
  <2>. QED  BY <2>2, <2>3, SeqEqual
<1>6. ValOf(n) = With(ValOf(m), m.slots[p].key, v)
  <2>0. m.slots[p].key \in DOMAIN m.key2slot /\ m.key2slot[m.slots[p].key] = p - 1 /\ p \in Nat
    BY GoodSlot
  <2>1. /\ DOMAIN ValOf(m) = DOMAIN m.key2slot /\ DOMAIN ValOf(n) = DOMAIN m.key2slot
        /\ ValOf(n) = [x \in DOMAIN ValOf(n) |-> ValOf(n)[x]]
    BY LookedUp
  <2>2. ASSUME NEW x \in DOMAIN m.key2slot, x # m.slots[p].key
        PROVE  ValOf(n)[x] = ValOf(m)[x]
    <3>1. m.key2slot[x] + 1 \in 1..len(m) /\ m.slots[m.key2slot[x] + 1].key = x
      BY GoodKey
    <3>2. m.key2slot[x] + 1 # p
      BY <3>1, <2>2
    <3>3. ValOf(n)[x] = n.slots[m.key2slot[x] + 1].value /\ ValOf(m)[x] = m.slots[m.key2slot[x] + 1].value
      BY LookedUp
    <3>4. n.slots[m.key2slot[x] + 1] = m.slots[m.key2slot[x] + 1]
      <4>. DEFINE q == m.key2slot[x] + 1
      <4>1. q \in 1..len(m) /\ q # p
        BY <3>1, <3>2
      <4>. HIDE DEF q
      <4>2. n.slots[q] = m.slots[q]
        BY <4>1
      <4>. QED  BY <4>2 DEF q
    <3>. QED  BY <3>3, <3>4
  <2>3. ValOf(n)[m.slots[p].key] = v
    <3>0. PICK k : k = m.slots[p].key
      OBVIOUS
    <3>1. k \in DOMAIN n.key2slot /\ n.key2slot[k] + 1 = p
      BY <2>0, <3>0
    <3>2. ValOf(n)[k] = n.slots[n.key2slot[k] + 1].value
      BY <3>1, LookedUp
    <3>. QED  BY <3>0, <3>1, <3>2
  <2>. QED  BY <2>0, <2>1, <2>2, <2>3 DEF With
<1>. QED  BY <1>2, <1>4, <1>5, <1>6

\* get_mut, get_index_mut and the iterators write in place.
LEMMA WriteKeepsKeys ==
  ASSUME NEW m, GoodMap(m), NEW i \in Nat, i + 1 \in 1..len(m), NEW v \in Values,
         NEW n, n = write(m, i, v)
  PROVE  /\ GoodMap(n) /\ len(n) = len(m)
         /\ OrderOf(n) = OrderOf(m)
         /\ ValOf(n) = With(ValOf(m), m.slots[i + 1].key, v)
<1>1. m.slots \in Seq(Slot) /\ len(m) = Len(m.slots) /\ m.slots[i + 1] \in Slot
      /\ m = [key2slot |-> m.key2slot, slots |-> m.slots]
  BY Parts DEF GoodMap, IsMap
<1>2. DEFINE w == [m.slots[i + 1] EXCEPT !.value = v]
<1>3. w \in Slot /\ w.key = m.slots[i + 1].key /\ w.value = v
  BY <1>1 DEF Slot
<1>4. /\ n.key2slot = m.key2slot /\ n.slots = [m.slots EXCEPT ![i + 1] = w]
      /\ n = [key2slot |-> n.key2slot, slots |-> n.slots]
  BY <1>1 DEF write
<1>. HIDE DEF w
<1>5. /\ n.slots \in Seq(Slot) /\ Len(n.slots) = len(m) /\ n.slots[i + 1] = w
      /\ \A j \in 1..len(m) : j # i + 1 => n.slots[j] = m.slots[j]
  <2>1. w \in Slot /\ i + 1 \in 1..Len(m.slots) /\ m.slots \in Seq(Slot)
    BY <1>1, <1>3
  <2>2. n.slots \in Seq(Slot) /\ Len(n.slots) = Len(m.slots)
    BY <2>1, <1>4, ExceptSeq
  <2>3. \A j \in 1..Len(m.slots) : n.slots[j] = IF j = i + 1 THEN w ELSE m.slots[j]
    BY <2>1, <1>4, ExceptSeq
  <2>4. len(m) = Len(m.slots)
    BY <1>1
  <2>5. n.slots[i + 1] = w
    BY <2>1, <2>3
  <2>. QED  BY <2>2, <2>3, <2>4, <2>5
<1>6. IsMap(n) /\ len(n) = len(m)
  BY <1>1, <1>4, <1>5, Parts DEF IsMap, len, GoodMap
<1>7. n.key2slot = m.key2slot
  BY <1>4
<1>. QED  BY <1>3, <1>5, <1>6, <1>7, SlotWrite

\* OccupiedEntry::insert writes the key and the value anew.
LEMMA OccupiedInsert ==
  ASSUME NEW m, GoodMap(m), NEW k \in Keys, contains_key(m, k), NEW v \in Values,
         NEW n, n = insert_occupied(m, k, v)
  PROVE  /\ GoodMap(n) /\ len(n) = len(m)
         /\ OrderOf(n) = OrderOf(m)
         /\ ValOf(n) = With(ValOf(m), k, v)
<1>1. m.slots \in Seq(Slot) /\ len(m) = Len(m.slots)
      /\ m = [key2slot |-> m.key2slot, slots |-> m.slots]
  BY Parts DEF GoodMap, IsMap
<1>0. PICK p : p = m.key2slot[k] + 1
  OBVIOUS
<1>2. p \in 1..len(m) /\ m.slots[p].key = k
  BY <1>0, GoodKey DEF contains_key
<1>3. [key |-> k, value |-> v] \in Slot
  BY DEF Slot
<1>4. /\ n.key2slot = m.key2slot /\ n.slots = [m.slots EXCEPT ![p] = [key |-> k, value |-> v]]
      /\ n = [key2slot |-> n.key2slot, slots |-> n.slots]
  BY <1>0, <1>1 DEF insert_occupied
<1>5. /\ n.slots \in Seq(Slot) /\ Len(n.slots) = len(m) /\ n.slots[p].key = k /\ n.slots[p].value = v
      /\ \A j \in 1..len(m) : j # p => n.slots[j] = m.slots[j]
  <2>0. PICK w : w = [key |-> k, value |-> v]
    OBVIOUS
  <2>1. w \in Slot /\ p \in 1..Len(m.slots) /\ m.slots \in Seq(Slot) /\ n.slots = [m.slots EXCEPT ![p] = w]
    BY <2>0, <1>1, <1>2, <1>3, <1>4
  <2>2. n.slots \in Seq(Slot) /\ Len(n.slots) = Len(m.slots)
    BY <2>1, ExceptSeq
  <2>3. \A j \in 1..Len(m.slots) : n.slots[j] = IF j = p THEN w ELSE m.slots[j]
    BY <2>1, ExceptSeq
  <2>4. w.key = k /\ w.value = v
    BY <2>0
  <2>5. n.slots[p] = w
    BY <2>1, <2>3
  <2>6. len(m) = Len(m.slots)
    BY <1>1
  <2>. QED  BY <2>2, <2>3, <2>4, <2>5, <2>6
<1>6. IsMap(n) /\ len(n) = len(m)
  BY <1>1, <1>4, <1>5, Parts DEF IsMap, len, GoodMap
<1>7. n.key2slot = m.key2slot
  BY <1>4
<1>. QED  BY <1>2, <1>5, <1>6, <1>7, SlotWrite

\* swap_remove_full: the last slot takes the place of the removed one, and its
\* key follows.
LEMMA SwapRemove ==
  ASSUME NEW m, GoodMap(m), NEW k \in DOMAIN m.key2slot,
         NEW n, n = swap_remove_full(m, k), NEW p, p = m.key2slot[k] + 1
  PROVE  /\ GoodMap(n) /\ len(n) = len(m) - 1 /\ p \in 1..len(m) /\ m.slots[p].key = k
         /\ DOMAIN n.key2slot = DOMAIN m.key2slot \ {k}
         /\ \A j \in 1..len(n) : OrderOf(n)[j] = IF j = p THEN OrderOf(m)[len(m)] ELSE OrderOf(m)[j]
         /\ \A x \in DOMAIN n.key2slot : ValOf(n)[x] = ValOf(m)[x]
<1>0. PICK L, D, last : L = len(m) /\ D = DOMAIN m.key2slot \ {k} /\ last = m.slots[L].key
  OBVIOUS
<1>1. /\ m.slots \in Seq(Slot) /\ len(m) = Len(m.slots) /\ L \in Nat
      /\ m.key2slot \in [DOMAIN m.key2slot -> Nat]
      /\ DOMAIN m.key2slot \subseteq Keys
  BY <1>0, Parts DEF GoodMap
<1>2. p \in 1..L /\ m.slots[p].key = k /\ m.key2slot[k] = p - 1 /\ p \in Nat /\ L \in 1..L
  BY <1>0, <1>1, GoodKey
<1>3. last \in DOMAIN m.key2slot /\ m.key2slot[last] = L - 1
  BY <1>0, <1>2, GoodSlot
\* The removed key is alone in pointing to its slot, the last key to the last.
<1>4. ASSUME NEW x \in D
      PROVE  /\ m.key2slot[x] \in Nat /\ m.key2slot[x] + 1 \in 1..L /\ m.key2slot[x] + 1 # p
             /\ m.slots[m.key2slot[x] + 1].key = x
             /\ m.key2slot[x] = L - 1 <=> x = last
  <2>1. x \in DOMAIN m.key2slot /\ x # k
    BY <1>0
  <2>2. m.key2slot[x] \in Nat /\ m.key2slot[x] + 1 \in 1..L /\ m.slots[m.key2slot[x] + 1].key = x
    BY <2>1, <1>0, GoodKey
  <2>3. m.key2slot[x] + 1 # p
    BY <2>1, <2>2, <1>2
  <2>4. m.key2slot[x] = L - 1 => x = last
    <3>1. ASSUME m.key2slot[x] = L - 1
          PROVE  m.key2slot[x] + 1 = L
      BY <3>1, <1>1
    <3>. QED  BY <3>1, <2>2, <1>0
  <2>. QED  BY <2>2, <2>3, <2>4, <1>3
<1>5. PICK sl : /\ sl = vec_swap_remove(m.slots, p - 1)
  OBVIOUS
<1>6. /\ DOMAIN sl = 1..(L - 1)
      /\ \A j \in 1..(L - 1) : sl[j] = IF j = p THEN m.slots[L] ELSE m.slots[j]
  BY <1>0, <1>1, <1>2, <1>5 DEF vec_swap_remove
<1>7. sl \in Seq(Slot) /\ Len(sl) = L - 1
  <2>1. \A j \in 1..L : m.slots[j] \in Slot
    BY <1>0, <1>1, ElementOfSeq
  <2>2. sl = [j \in 1..(L - 1) |-> sl[j]]
    BY <1>0, <1>1, <1>5 DEF vec_swap_remove
  <2>3. \A j \in 1..(L - 1) : sl[j] \in Slot
    BY <1>1, <1>2, <1>6, <2>1
  <2>4. L - 1 \in Nat
    BY <1>1, <1>2
  <2>5. sl \in [1..(L - 1) -> Slot]
    BY <2>2, <2>3
  <2>. QED  BY <2>4, <2>5, SeqDef, LenProperties, DOMAIN sl = 1..(L - 1)
<1>8. /\ n.slots = sl /\ n = [key2slot |-> n.key2slot, slots |-> n.slots]
      /\ n.key2slot = [x \in DOMAIN n.key2slot |-> n.key2slot[x]]
      /\ DOMAIN n.key2slot = D
      /\ \A x \in D : n.key2slot[x] = IF x = last THEN p - 1 ELSE m.key2slot[x]
  <2>1. PICK tree : tree = [x \in D |-> m.key2slot[x]]
    OBVIOUS
  <2>2. n = [key2slot |-> IF p - 1 = Len(sl) THEN tree ELSE PointTo(tree, sl[p].key, p - 1), slots |-> sl]
    <3>1. m.key2slot[k] = p - 1 /\ (p - 1) + 1 = p /\ contains_key(m, k)
      BY <1>2 DEF contains_key
    <3>. QED  BY <3>1, <1>0, <1>5, <2>1 DEF swap_remove_full
  <2>3. n.slots = sl /\ n.key2slot = IF p - 1 = Len(sl) THEN tree ELSE PointTo(tree, sl[p].key, p - 1)
    BY <2>2
  <2>4. CASE p = L
    <3>1. n.key2slot = tree
      BY <2>3, <2>4, <1>7
    <3>2. last \notin D
      BY <2>4, <1>0, <1>2
    <3>. QED  BY <2>1, <2>2, <2>3, <3>1, <3>2
  <2>5. CASE p # L
    <3>1. p \in 1..(L - 1) /\ p - 1 # Len(sl)
      BY <2>5, <1>1, <1>2, <1>7
    <3>2. sl[p].key = last /\ last \in D
      <4>1. last # k
        BY <1>2, <1>3, <2>5, <1>1
      <4>. QED  BY <3>1, <1>0, <1>3, <1>6, <4>1
    <3>3. n.key2slot = PointTo(tree, last, p - 1)
      BY <2>3, <3>1, <3>2
    <3>4. n.key2slot = [x \in D |-> IF x = last THEN p - 1 ELSE tree[x]]
      BY <2>1, <3>2, <3>3 DEF PointTo
    <3>. QED  BY <2>1, <2>2, <2>3, <3>4
  <2>. QED  BY <2>4, <2>5
<1>9. IsMap(n) /\ len(n) = L - 1
  <2>1. \A x \in D : n.key2slot[x] \in Nat
    BY <1>2, <1>4, <1>8
  <2>2. n.key2slot \in [DOMAIN n.key2slot -> Nat]
    BY <1>8, <2>1
  <2>3. DOMAIN n.key2slot \subseteq Keys
    BY <1>0, <1>1, <1>8
  <2>. QED  BY <1>7, <1>8, <2>2, <2>3 DEF IsMap, len
<1>10. ASSUME NEW x \in D
       PROVE  /\ n.key2slot[x] + 1 \in 1..(L - 1)
              /\ sl[n.key2slot[x] + 1] = m.slots[m.key2slot[x] + 1]
  <2>1. CASE x = last
    <3>1. n.key2slot[x] + 1 = p /\ m.key2slot[x] + 1 = L
      BY <2>1, <1>1, <1>2, <1>3, <1>8
    <3>2. p \in 1..(L - 1)
      BY <3>1, <1>1, <1>2, <1>4
    <3>3. sl[p] = m.slots[L]
      BY <3>2, <1>6
    <3>4. n.key2slot[x] + 1 \in 1..(L - 1)
      BY <3>1, <3>2
    <3>5. sl[n.key2slot[x] + 1] = m.slots[m.key2slot[x] + 1]
      BY <3>1, <3>3
    <3>. QED  BY <3>4, <3>5
  <2>2. CASE x # last
    <3>0. PICK q : q = m.key2slot[x] + 1
      OBVIOUS
    <3>1. n.key2slot[x] + 1 = q
      BY <3>0, <2>2, <1>8
    <3>2. q \in 1..(L - 1) /\ q # p
      BY <3>0, <2>2, <1>1, <1>4
    <3>3. sl[q] = m.slots[q]
      BY <3>2, <1>6
    <3>. QED  BY <3>0, <3>1, <3>2, <3>3
  <2>. QED  BY <2>1, <2>2
<1>11. ASSUME NEW i \in 1..(L - 1)
       PROVE  sl[i].key \in D /\ n.key2slot[sl[i].key] = i - 1
  <2>1. CASE i = p
    <3>1. sl[i].key = last
      BY <2>1, <1>0, <1>6
    <3>2. last \in D
      BY <2>1, <1>0, <1>1, <1>2, <1>3
    <3>. QED  BY <2>1, <3>1, <3>2, <1>8
  <2>2. CASE i # p
    <3>0. PICK x : x = m.slots[i].key
      OBVIOUS
    <3>1. i \in 1..L
      BY <1>1
    <3>2. x \in DOMAIN m.key2slot /\ m.key2slot[x] = i - 1
      <4>1. i \in 1..len(m)
        BY <3>1, <1>0
      <4>2. m.slots[i].key \in DOMAIN m.key2slot /\ m.key2slot[m.slots[i].key] = i - 1
        BY <4>1, GoodSlot
      <4>. QED  BY <3>0, <4>2
    <3>3. x \in D /\ x # last
      <4>1. x # k
        BY <3>2, <2>2, <1>2
      <4>2. x # last
        BY <3>2, <1>1, <1>3
      <4>. QED  BY <3>2, <4>1, <4>2, <1>0
    <3>4. n.key2slot[x] = i - 1
      BY <3>2, <3>3, <1>8
    <3>. QED  BY <2>2, <3>0, <3>3, <3>4, <1>6
  <2>. QED  BY <2>1, <2>2
<1>12. GoodMap(n)
  <2>1. ASSUME NEW x \in DOMAIN n.key2slot
        PROVE  n.key2slot[x] + 1 \in 1..len(n) /\ n.slots[n.key2slot[x] + 1].key = x
    BY <1>4, <1>8, <1>9, <1>10
  <2>2. ASSUME NEW i \in 1..len(n)
        PROVE  n.slots[i].key \in DOMAIN n.key2slot /\ n.key2slot[n.slots[i].key] = i - 1
    BY <1>8, <1>9, <1>11
  <2>. QED  BY <1>9, <2>1, <2>2 DEF GoodMap
<1>13. \A j \in 1..len(n) : OrderOf(n)[j] = IF j = p THEN OrderOf(m)[len(m)] ELSE OrderOf(m)[j]
  <2>1. IsMap(m)
    BY DEF GoodMap
  <2>2. \A i \in 1..L : OrderOf(m)[i] = m.slots[i].key
    BY <2>1, <1>0, Orders
  <2>3. \A i \in 1..(L - 1) : OrderOf(n)[i] = sl[i].key
    BY <1>8, <1>9, Orders
  <2>4. ASSUME NEW j \in 1..(L - 1)
        PROVE  OrderOf(n)[j] = IF j = p THEN OrderOf(m)[L] ELSE OrderOf(m)[j]
    <3>1. j \in 1..L
      BY <1>1
    <3>2. OrderOf(n)[j] = sl[j].key /\ OrderOf(m)[j] = m.slots[j].key /\ OrderOf(m)[L] = m.slots[L].key
      BY <3>1, <1>2, <2>2, <2>3
    <3>3. sl[j] = IF j = p THEN m.slots[L] ELSE m.slots[j]
      BY <1>6
    <3>. QED  BY <3>2, <3>3
  <2>. QED  BY <1>0, <1>9, <2>4
<1>14. \A x \in DOMAIN n.key2slot : ValOf(n)[x] = ValOf(m)[x]
  <2>1. ASSUME NEW x \in D
        PROVE  ValOf(n)[x] = ValOf(m)[x]
    <3>1. ValOf(n)[x] = n.slots[n.key2slot[x] + 1].value
      BY <1>8, LookedUp
    <3>2. ValOf(m)[x] = m.slots[m.key2slot[x] + 1].value
      BY <1>0, LookedUp
    <3>. QED  BY <3>1, <3>2, <1>8, <1>10
  <2>. QED  BY <2>1, <1>8
<1>. QED  BY <1>0, <1>2, <1>8, <1>9, <1>12, <1>13, <1>14

\* insert_full: a new key goes last, a known one keeps its position.
LEMMA FullInsert ==
  ASSUME NEW m, GoodMap(m), NEW k \in Keys, NEW v \in Values, NEW n, n = insert_full(m, k, v)
  PROVE  /\ GoodMap(n)
         /\ OrderOf(n) = IF k \in DOMAIN m.key2slot THEN OrderOf(m) ELSE Append(OrderOf(m), k)
         /\ ValOf(n) = With(ValOf(m), k, v)
<1>1. CASE contains_key(m, k)
  <2>1. n = insert_occupied(m, k, v) /\ k \in DOMAIN m.key2slot
    BY <1>1 DEF insert_full, contains_key
  <2>. QED  BY <1>1, <2>1, OccupiedInsert
<1>2. CASE ~contains_key(m, k)
  <2>1. n = insert_vacant(m, k, v) /\ k \notin DOMAIN m.key2slot
    BY <1>2 DEF insert_full, contains_key
  <2>. QED  BY <1>2, <2>1, VacantInsert
<1>. QED  BY <1>1, <1>2

\* A removal keeps the map well-formed; that of an unknown key does nothing.
LEMMA FullRemove ==
  ASSUME NEW m, GoodMap(m), NEW k, NEW n, n = swap_remove_full(m, k)
  PROVE  GoodMap(n) /\ (k \notin DOMAIN m.key2slot => n = m)
<1>1. CASE k \in DOMAIN m.key2slot
  BY <1>1, SwapRemove
<1>2. CASE k \notin DOMAIN m.key2slot
  BY <1>2 DEF swap_remove_full, contains_key
<1>. QED  BY <1>1, <1>2

-----------------------------------------------------------------------------
(* The calls.                                                                 *)

Call == [op : {"insert", "remove"}, key : Keys, value : Values]

\* What is held: one entry, one iterator over slots of the map, or the rest of
\* an extend or a replace.
Inv ==
  /\ GoodMap(map)
  /\ entry = <<>> \/ (entry = <<entry[1]>> /\ entry[1] \in Keys)
  /\ todo \in Seq(Call)
  /\ \/ iter = <<>>
     \/ /\ iter = <<iter[1]>> /\ iter[1] \in [from : Nat, to : Nat]
        /\ iter[1].from <= iter[1].to /\ iter[1].to <= len(map)
        /\ entry = <<>> /\ todo = <<>>

\* What the refinement mapping shows before and after a step.
LEMMA Views ==
  /\ KeyOrder = OrderOf(map) /\ KeyOrder' = OrderOf(map')
  /\ KeyValues = ValOf(map) /\ KeyValues' = ValOf(map')
  /\ (iter = <<>> => KeysLeft = <<>>) /\ (iter' = <<>> => KeysLeft' = <<>>)
  BY DEF KeyOrder, KeyValues, KeysLeft, OrderOf, ValOf

\* A lookup answers what the ordered map says.
LEMMA Answers ==
  ASSUME NEW k
  PROVE  /\ get(map, k) = Ordered!Before(k)
         /\ DOMAIN KeyValues = DOMAIN map.key2slot
<1>1. DOMAIN KeyValues = DOMAIN map.key2slot
  BY DEF KeyValues
<1>2. CASE k \in DOMAIN map.key2slot
  <2>1. get(map, k) = <<SlotAt(map, map.key2slot[k]).value>>
    BY <1>2 DEF get, contains_key
  <2>2. KeyValues[k] = get(map, k)[1]
    BY <1>2 DEF KeyValues
  <2>3. get(map, k) = <<KeyValues[k]>>
    BY <2>1, <2>2
  <2>. QED  BY <1>1, <1>2, <2>3 DEF Ordered!Before
<1>3. CASE k \notin DOMAIN map.key2slot
  BY <1>1, <1>3 DEF Ordered!Before, get, contains_key
<1>. QED  BY <1>1, <1>2, <1>3

\* The two ways to say that one key gets a value agree.
LEMMA WithIsWith ==
  ASSUME NEW k, NEW v
  PROVE  Ordered!With(k, v) = With(KeyValues, k, v)
  BY DEF Ordered!With, With

Simulated == Ordered!Next \/ UNCHANGED <<KeyOrder, KeyValues, KeysLeft, ret>>

\* A step that puts k at its place is a Put of the ordered map.
LEMMA PutIsNext ==
  ASSUME NEW k \in Keys, NEW v \in Values, iter = <<>>, iter' = <<>>, ret' = get(map, k),
         OrderOf(map') = IF k \in DOMAIN map.key2slot THEN OrderOf(map) ELSE Append(OrderOf(map), k),
         ValOf(map') = With(ValOf(map), k, v)
  PROVE  Ordered!Next
<1>1. KeyOrder' = IF k \in DOMAIN KeyValues THEN KeyOrder ELSE Append(KeyOrder, k)
  BY Views, Answers
<1>2. KeyValues' = Ordered!With(k, v)
  BY Views, WithIsWith
<1>3. ret' = Ordered!Before(k)
  BY Answers
<1>4. KeysLeft = <<>> /\ KeysLeft' = <<>>
  BY Views
<1>5. Ordered!Put(k, v)
  BY <1>1, <1>2, <1>3, <1>4 DEF Ordered!Put, Ordered!NoIter
<1>. QED  BY <1>5 DEF Ordered!Next

\* A lookup that changes nothing is a Read.
LEMMA ReadIsNext ==
  ASSUME NEW k \in Keys, map' = map, iter' = iter, ret' = get(map, k)
  PROVE  Ordered!Next
<1>1. ret' = Ordered!Before(k)
  BY Answers
<1>2. KeyOrder' = KeyOrder /\ KeyValues' = KeyValues /\ KeysLeft' = KeysLeft
  BY DEF KeyOrder, KeyValues, KeysLeft
<1>3. Ordered!Read(k)
  BY <1>1, <1>2 DEF Ordered!Read
<1>. QED  BY <1>3 DEF Ordered!Next

\* swap_remove of any key, known or not, is a Remove.
LEMMA RemoveIsNext ==
  ASSUME GoodMap(map), NEW k \in Keys, iter = <<>>, iter' = <<>>, ret' = get(map, k),
         map' = swap_remove_full(map, k)
  PROVE  Ordered!Next
<1>1. ret' = Ordered!Before(k) /\ KeysLeft = <<>> /\ KeysLeft' = <<>> /\ DOMAIN KeyValues = DOMAIN map.key2slot
  BY Answers, Views
<1>2. CASE k \notin DOMAIN map.key2slot
  <2>1. map' = map
    BY <1>2, FullRemove
  <2>. QED  BY <2>1, ReadIsNext
<1>3. CASE k \in DOMAIN map.key2slot
  <2>0. PICK p : p = map.key2slot[k] + 1
    OBVIOUS
  <2>1. /\ GoodMap(map') /\ len(map') = len(map) - 1 /\ p \in 1..len(map) /\ map.slots[p].key = k
        /\ DOMAIN map'.key2slot = DOMAIN map.key2slot \ {k}
        /\ \A j \in 1..len(map') : OrderOf(map')[j] = IF j = p THEN OrderOf(map)[len(map)] ELSE OrderOf(map)[j]
        /\ \A x \in DOMAIN map'.key2slot : ValOf(map')[x] = ValOf(map)[x]
    BY <1>3, <2>0, SwapRemove
  <2>2. KeyValues' = [x \in DOMAIN KeyValues \ {k} |-> KeyValues[x]]
    <3>1. ValOf(map') = [x \in DOMAIN map'.key2slot |-> ValOf(map')[x]]
      BY LookedUp
    <3>2. ValOf(map') = [x \in DOMAIN map.key2slot \ {k} |-> ValOf(map)[x]]
      BY <2>1, <3>1
    <3>. QED  BY <1>1, <3>2, Views
  <2>3. /\ Len(KeyOrder) = len(map) /\ DOMAIN KeyOrder = 1..len(map) /\ KeyOrder[p] = k
    BY <2>1, Parts, Orders DEF GoodMap, KeyOrder
  <2>4. KeyOrder' = Ordered!SwapOut(p)
    <3>1. OrderOf(map') = [j \in 1..len(map') |-> OrderOf(map')[j]]
      BY DEF OrderOf
    <3>2. OrderOf(map') = [j \in 1..(len(map) - 1) |-> IF j = p THEN OrderOf(map)[len(map)] ELSE OrderOf(map)[j]]
      BY <2>1, <3>1
    <3>. QED  BY <3>2, <2>3, Views DEF Ordered!SwapOut
  <2>5. Ordered!Remove(k)
    BY <1>1, <1>3, <2>1, <2>2, <2>3, <2>4 DEF Ordered!Remove, Ordered!NoIter
  <2>. QED  BY <2>5 DEF Ordered!Next
<1>. QED  BY <1>2, <1>3

\* A step that leaves nothing held needs a good map only.
LEMMA InvFree ==
  ASSUME GoodMap(map'), entry' = <<>>, todo' = <<>>, iter' = <<>>
  PROVE  Inv'
<1>1. <<>> \in Seq(Call)
  BY EmptySeq
<1>. QED  BY <1>1 DEF Inv

\* insert.
LEMMA InsertStep ==
  ASSUME Inv, NEW k \in Keys, NEW v \in Values, insert(k, v)
  PROVE  Inv' /\ Simulated
<1>1. GoodMap(map) /\ entry' = <<>> /\ todo' = <<>> /\ iter = <<>> /\ iter' = <<>>
      /\ map' = insert_full(map, k, v) /\ ret' = get(map, k)
  BY DEF insert, Free, Inv
<1>2. /\ GoodMap(map')
      /\ OrderOf(map') = IF k \in DOMAIN map.key2slot THEN OrderOf(map) ELSE Append(OrderOf(map), k)
      /\ ValOf(map') = With(ValOf(map), k, v)
  BY <1>1, FullInsert
<1>. QED  BY <1>1, <1>2, InvFree, PutIsNext DEF Simulated

\* swap_remove.
LEMMA RemoveStep ==
  ASSUME Inv, NEW k \in Keys, swap_remove(k)
  PROVE  Inv' /\ Simulated
<1>1. GoodMap(map) /\ entry' = <<>> /\ todo' = <<>> /\ iter = <<>> /\ iter' = <<>>
      /\ map' = swap_remove_full(map, k) /\ ret' = get(map, k)
  BY DEF swap_remove, Free, Inv
<1>2. GoodMap(map')
  BY <1>1, FullRemove
<1>. QED  BY <1>1, <1>2, InvFree, RemoveIsNext DEF Simulated

\* get.
LEMMA GetStep ==
  ASSUME Inv, NEW k \in Keys, Get(k)
  PROVE  Inv' /\ Simulated
<1>1. GoodMap(map) /\ entry' = <<>> /\ todo' = <<>> /\ iter' = <<>> /\ iter' = iter
      /\ map' = map /\ ret' = get(map, k)
  BY DEF Get, Free, Inv
<1>. QED  BY <1>1, InvFree, ReadIsNext DEF Simulated

\* A write in place is a put of the key that is there.
LEMMA WriteIsNext ==
  ASSUME GoodMap(map), NEW i \in Nat, i + 1 \in 1..len(map), NEW v \in Values,
         map' = write(map, i, v), iter = <<>>, iter' = <<>>, ret' = <<SlotAt(map, i).value>>
  PROVE  GoodMap(map') /\ Ordered!Next
<1>0. PICK k : k = map.slots[i + 1].key
  OBVIOUS
<1>1. k \in DOMAIN map.key2slot /\ map.key2slot[k] = (i + 1) - 1 /\ k \in Keys
  BY <1>0, GoodSlot, GoodKey
<1>2. /\ GoodMap(map') /\ OrderOf(map') = OrderOf(map)
      /\ ValOf(map') = With(ValOf(map), k, v)
  BY <1>0, WriteKeepsKeys
<1>3. ret' = get(map, k)
  BY <1>1 DEF get, contains_key
<1>. QED  BY <1>1, <1>2, <1>3, PutIsNext

\* get_mut: a lookup, or a write to the slot found.
LEMMA GetMutStep ==
  ASSUME Inv, NEW k \in Keys, NEW v \in Values, get_mut(k, v)
  PROVE  Inv' /\ Simulated
<1>1. GoodMap(map) /\ entry' = <<>> /\ todo' = <<>> /\ iter' = <<>> /\ iter' = iter /\ ret' = get(map, k)
  BY DEF get_mut, Free, Inv
<1>2. CASE ~contains_key(map, k)
  <2>1. map' = map
    BY <1>2 DEF get_mut
  <2>. QED  BY <1>1, <2>1, InvFree, ReadIsNext DEF Simulated
<1>3. CASE contains_key(map, k)
  <2>0. PICK i : i = map.key2slot[k]
    OBVIOUS
  <2>1. i \in Nat /\ i + 1 \in 1..len(map)
    BY <1>1, <1>3, <2>0, GoodKey DEF contains_key
  <2>2. map' = write(map, i, v) /\ ret' = <<SlotAt(map, i).value>>
    BY <1>1, <1>3, <2>0 DEF get_mut, get
  <2>. QED  BY <1>1, <2>1, <2>2, InvFree, WriteIsNext DEF Simulated
<1>. QED  BY <1>2, <1>3

\* get_index_mut.
LEMMA GetIndexStep ==
  ASSUME Inv, NEW i \in 0..(len(map) - 1), NEW v \in Values, get_index_mut(i, v)
  PROVE  Inv' /\ Simulated
<1>1. GoodMap(map) /\ entry' = <<>> /\ todo' = <<>> /\ iter' = <<>> /\ iter = <<>>
      /\ ret' = <<SlotAt(map, i).value>> /\ map' = write(map, i, v)
  BY DEF get_index_mut, Free, Inv
<1>2. len(map) \in Nat
  BY <1>1, Parts DEF GoodMap
<1>3. i \in Nat /\ i + 1 \in 1..len(map)
  BY <1>2
<1>. QED  BY <1>1, <1>3, InvFree, WriteIsNext DEF Simulated

\* clear.
LEMMA ClearStep ==
  ASSUME Inv, clear
  PROVE  Inv' /\ Simulated
<1>1. map' = new /\ ret' = <<>> /\ iter = <<>> /\ iter' = <<>> /\ entry' = <<>> /\ todo' = <<>>
  BY DEF clear, Free
<1>2. GoodMap(map')
  BY <1>1, NewIsGood
<1>3. KeyOrder' = <<>> /\ KeyValues' = <<>>
  <2>1. DOMAIN KeyValues' = {}
    BY <1>1 DEF KeyValues, new
  <2>2. KeyValues' = [x \in {} |-> KeyValues'[x]]
    BY <2>1 DEF KeyValues
  <2>3. KeyOrder' = <<>>
    BY <1>1, NewIsGood, Views
  <2>. QED  BY <2>2, <2>3
<1>4. Ordered!Clear
  BY <1>1, <1>3, Views DEF Ordered!Clear, Ordered!NoIter
<1>. QED  BY <1>1, <1>2, <1>4, InvFree DEF Simulated, Ordered!Next

\* entry takes hold of the map and changes nothing.
LEMMA EntryStep ==
  ASSUME Inv, NEW k \in Keys, Entry(k)
  PROVE  Inv' /\ Simulated
<1>1. map' = map /\ iter = <<>> /\ iter' = iter /\ entry' = <<k>> /\ todo' = todo /\ ret' = ret
  BY DEF Entry, Free
<1>2. Inv'
  BY <1>1 DEF Inv
<1>. QED  BY <1>1, <1>2 DEF Simulated, KeyOrder, KeyValues, KeysLeft

\* An entry is held only while no iterator is.
LEMMA HeldEntry ==
  ASSUME Inv, entry # <<>>
  PROVE  /\ GoodMap(map) /\ iter = <<>> /\ entry = <<entry[1]>> /\ entry[1] \in Keys
         /\ todo \in Seq(Call)
  BY DEF Inv

\* and_modify overwrites an occupied entry only.
LEMMA AndModifyStep ==
  ASSUME Inv, NEW v \in Values, and_modify(v)
  PROVE  Inv' /\ Simulated
<1>0. PICK k : k = entry[1]
  OBVIOUS
<1>1. entry # <<>> /\ entry' = entry /\ todo' = todo /\ iter' = iter /\ ret' = get(map, k)
      /\ map' = IF contains_key(map, k) THEN insert_occupied(map, k, v) ELSE map
  BY <1>0 DEF and_modify
<1>2. GoodMap(map) /\ iter = <<>> /\ k \in Keys
  BY <1>0, <1>1, HeldEntry
<1>3. ASSUME GoodMap(map')
      PROVE  Inv'
  BY <1>1, <1>2, <1>3 DEF Inv
<1>4. CASE ~contains_key(map, k)
  <2>1. map' = map
    BY <1>1, <1>4
  <2>. QED  BY <1>1, <1>2, <1>3, <2>1, ReadIsNext DEF Simulated
<1>5. CASE contains_key(map, k)
  <2>1. map' = insert_occupied(map, k, v)
    BY <1>1, <1>5
  <2>2. GoodMap(map') /\ OrderOf(map') = OrderOf(map) /\ ValOf(map') = With(ValOf(map), k, v)
    BY <1>2, <1>5, <2>1, OccupiedInsert
  <2>3. k \in DOMAIN map.key2slot
    BY <1>5 DEF contains_key
  <2>. QED  BY <1>1, <1>2, <1>3, <2>2, <2>3, PutIsNext DEF Simulated
<1>. QED  BY <1>4, <1>5

\* or_insert fills a vacant entry only.
LEMMA OrInsertStep ==
  ASSUME Inv, NEW v \in Values, or_insert(v)
  PROVE  Inv' /\ Simulated
<1>0. PICK k : k = entry[1]
  OBVIOUS
<1>1. entry # <<>> /\ entry' = <<>> /\ todo' = todo /\ iter' = iter /\ ret' = get(map, k)
      /\ map' = IF contains_key(map, k) THEN map ELSE insert_vacant(map, k, v)
  BY <1>0 DEF or_insert
<1>2. GoodMap(map) /\ iter = <<>> /\ k \in Keys
  BY <1>0, <1>1, HeldEntry
<1>3. ASSUME GoodMap(map')
      PROVE  Inv'
  BY <1>1, <1>2, <1>3 DEF Inv
<1>4. CASE contains_key(map, k)
  <2>1. map' = map
    BY <1>1, <1>4
  <2>. QED  BY <1>1, <1>2, <1>3, <2>1, ReadIsNext DEF Simulated
<1>5. CASE ~contains_key(map, k)
  <2>1. map' = insert_vacant(map, k, v)
    BY <1>1, <1>5
  <2>2. GoodMap(map') /\ OrderOf(map') = Append(OrderOf(map), k) /\ ValOf(map') = With(ValOf(map), k, v)
    BY <1>2, <1>5, <2>1, VacantInsert
  <2>3. k \notin DOMAIN map.key2slot
    BY <1>5 DEF contains_key
  <2>. QED  BY <1>1, <1>2, <1>3, <2>2, <2>3, PutIsNext DEF Simulated
<1>. QED  BY <1>4, <1>5

\* An entry that is dropped leaves the map as it is.
LEMMA DropEntryStep ==
  ASSUME Inv, DropEntry
  PROVE  Inv' /\ Simulated
<1>1. map' = map /\ iter = <<>> /\ iter' = iter /\ entry' = <<>> /\ todo' = todo /\ ret' = ret
  BY HeldEntry DEF DropEntry
<1>2. Inv'
  BY <1>1 DEF Inv
<1>. QED  BY <1>1, <1>2 DEF Simulated, KeyOrder, KeyValues, KeysLeft

\* The first l elements of a sequence.
LEMMA Front ==
  ASSUME NEW S, NEW s \in Seq(S), NEW l \in Int, 0 <= l, l <= Len(s)
  PROVE  /\ SubSeq(s, 1, l) \in Seq(S) /\ Len(SubSeq(s, 1, l)) = l
         /\ \A i \in 1..l : SubSeq(s, 1, l)[i] = s[i]
<1>1. Len(s) \in Nat
  BY LenProperties
<1>2. \A i \in 1..l : s[i] \in S
  <2>1. \A i \in 1..l : i \in 1..Len(s)
    BY <1>1
  <2>. QED  BY <2>1, ElementOfSeq
<1>3. SubSeq(s, 1, l) \in Seq(S) /\ Len(SubSeq(s, 1, l)) = IF 1 <= l THEN l - 1 + 1 ELSE 0
  BY <1>2, SubSeqProperties
<1>4. \A i \in 1..(l - 1 + 1) : SubSeq(s, 1, l)[i] = s[1 + i - 1]
  BY <1>2, SubSeqProperties
<1>5. ASSUME NEW i \in 1..l
      PROVE  SubSeq(s, 1, l)[i] = s[i]
  <2>1. i \in 1..(l - 1 + 1) /\ 1 + i - 1 = i
    OBVIOUS
  <2>2. SubSeq(s, 1, l)[i] = s[1 + i - 1]
    BY <2>1, <1>4
  <2>. QED  BY <2>1, <2>2
<1>. QED  BY <1>3, <1>5

\* The slice an iterator has left, and what a step from either end leaves of it.
LEMMA Slices ==
  ASSUME NEW S, NEW s \in Seq(S), NEW f \in Nat, NEW t \in Nat, f < t, t <= Len(s),
         NEW u, u = SubSeq(s, f + 1, t)
  PROVE  /\ u # <<>> /\ Len(u) = t - f
         /\ u[1] = s[f + 1] /\ u[Len(u)] = s[t]
         /\ Tail(u) = SubSeq(s, (f + 1) + 1, t)
         /\ SubSeq(u, 1, Len(u) - 1) = SubSeq(s, f + 1, t - 1)
<1>0. Len(s) \in Nat
  BY LenProperties
<1>1. f + 1 \in 1..Len(s) /\ t \in (f + 1)..Len(s) /\ f + 1 \in Int /\ t \in Int /\ t - 1 \in Int
  BY <1>0
<1>2. \A i \in (f + 1)..t : s[i] \in S
  <2>1. \A i \in (f + 1)..t : i \in 1..Len(s)
    BY <1>0
  <2>. QED  BY <2>1, ElementOfSeq
<1>3. /\ u \in Seq(S) /\ Len(u) = t - f
      /\ \A i \in 1..(t - f) : u[i] = s[f + i]
  <2>1. u \in Seq(S)
    BY <1>1, <1>2, SubSeqProperties
  <2>2. Len(u) = IF f + 1 <= t THEN t - (f + 1) + 1 ELSE 0
    BY <1>1, <1>2, SubSeqProperties
  <2>3. \A i \in 1..(t - (f + 1) + 1) : u[i] = s[(f + 1) + i - 1]
    BY <1>1, <1>2, SubSeqProperties
  <2>4. ASSUME NEW i \in 1..(t - f)
        PROVE  u[i] = s[f + i]
    <3>1. i \in 1..(t - (f + 1) + 1) /\ (f + 1) + i - 1 = f + i
      OBVIOUS
    <3>2. u[i] = s[(f + 1) + i - 1]
      BY <3>1, <2>3
    <3>. QED  BY <3>1, <3>2
  <2>. QED  BY <2>1, <2>2, <2>4
<1>4. u # <<>>
  BY <1>3, EmptySeq
<1>5. u[1] = s[f + 1] /\ u[Len(u)] = s[t]
  <2>1. t - f \in 1..(t - f) /\ 1 \in 1..(t - f) /\ f + (t - f) = t
    OBVIOUS
  <2>2. u[t - f] = s[f + (t - f)] /\ u[1] = s[f + 1]
    BY <2>1, <1>3
  <2>. QED  BY <2>1, <2>2, <1>3
<1>6. Tail(u) = SubSeq(s, (f + 1) + 1, t)
  BY <1>1, HeadTailOfSubSeq
<1>7. SubSeq(u, 1, Len(u) - 1) = SubSeq(s, f + 1, t - 1)
  <2>1. /\ SubSeq(u, 1, Len(u) - 1) \in Seq(S) /\ Len(SubSeq(u, 1, Len(u) - 1)) = t - f - 1
        /\ \A i \in 1..(t - f - 1) : SubSeq(u, 1, Len(u) - 1)[i] = u[i]
    <3>1. PICK l \in Int : l = t - f - 1 /\ 0 <= l
      OBVIOUS
    <3>2. l <= Len(u)
      BY <3>1, <1>3
    <3>6. Len(u) - 1 = l /\ t - f - 1 = l
      BY <3>1, <1>3
    <3>. QED  BY <3>1, <3>2, <3>6, <1>3, Front
  <2>2. /\ SubSeq(s, f + 1, t - 1) \in Seq(S) /\ Len(SubSeq(s, f + 1, t - 1)) = t - f - 1
        /\ \A i \in 1..(t - f - 1) : SubSeq(s, f + 1, t - 1)[i] = s[f + i]
    <3>1. PICK g \in Int, h \in Int : g = f + 1 /\ h = t - 1
      BY <1>1
    <3>2. \A i \in g..h : s[i] \in S
      BY <3>1, <1>2
    <3>3. SubSeq(s, g, h) \in Seq(S) /\ Len(SubSeq(s, g, h)) = IF g <= h THEN h - g + 1 ELSE 0
      BY <3>2, SubSeqProperties
    <3>4. \A i \in 1..(h - g + 1) : SubSeq(s, g, h)[i] = s[g + i - 1]
      BY <3>2, SubSeqProperties
    <3>5. h - g + 1 = t - f - 1 /\ (IF g <= h THEN h - g + 1 ELSE 0) = t - f - 1
      BY <3>1
    <3>6. ASSUME NEW i \in 1..(t - f - 1)
          PROVE  SubSeq(s, g, h)[i] = s[f + i]
      <4>1. g + i - 1 = f + i /\ i \in 1..(h - g + 1)
        BY <3>1
      <4>2. SubSeq(s, g, h)[i] = s[g + i - 1]
        BY <4>1, <3>4
      <4>. QED  BY <4>1, <4>2
    <3>. QED  BY <3>1, <3>3, <3>5, <3>6
  <2>3. \A i \in 1..(t - f - 1) : u[i] = s[f + i]
    BY <1>3
  <2>. QED  BY <2>1, <2>2, <2>3, SeqEqual
<1>. QED  BY <1>3, <1>4, <1>5, <1>6, <1>7

\* While an iterator is held, nothing else is.
LEMMA HeldIter ==
  ASSUME Inv, iter # <<>>
  PROVE  /\ GoodMap(map) /\ iter = <<iter[1]>> /\ iter[1] \in [from : Nat, to : Nat]
         /\ iter[1].from <= iter[1].to /\ iter[1].to <= len(map)
         /\ entry = <<>> /\ todo = <<>>
  BY DEF Inv

\* iter takes the whole order as its slice.
LEMMA IterStep ==
  ASSUME Inv, Iter
  PROVE  Inv' /\ Simulated
<1>1. /\ map' = map /\ entry = <<>> /\ entry' = <<>> /\ todo = <<>> /\ todo' = <<>> /\ ret' = <<>>
      /\ iter = <<>> /\ iter' = <<[from |-> 0, to |-> len(map)]>> /\ GoodMap(map) /\ len(map) \in Nat
  BY Parts DEF Iter, Free, Inv, GoodMap
<1>2. iter'[1] = [from |-> 0, to |-> len(map)]
  BY <1>1
<1>3. Inv'
  <2>1. iter'[1] \in [from : Nat, to : Nat] /\ iter'[1].from = 0 /\ iter'[1].to = len(map)
    BY <1>1, <1>2
  <2>2. iter' = <<iter'[1]>>
    BY <1>1, <1>2
  <2>3. len(map') = len(map) /\ GoodMap(map') /\ todo' \in Seq(Call)
    BY <1>1, EmptySeq
  <2>4. iter'[1].from <= iter'[1].to /\ iter'[1].to <= len(map')
    BY <1>1, <2>1, <2>3
  <2>. QED  BY <1>1, <2>1, <2>2, <2>3, <2>4 DEF Inv
<1>4. KeysLeft' = <<KeyOrder>>
  <2>1. KeyOrder' = OrderOf(map) /\ OrderOf(map) \in Seq(Keys) /\ Len(OrderOf(map)) = len(map)
    BY <1>1, Views, Orders DEF GoodMap
  <2>2. iter' # <<>>
    BY <1>1
  <2>3. KeysLeft' = <<SubSeq(KeyOrder', iter'[1].from + 1, iter'[1].to)>>
    BY <2>2 DEF KeysLeft
  <2>4. iter'[1].from + 1 = 1 /\ iter'[1].to = len(map)
    BY <1>2
  <2>5. SubSeq(OrderOf(map), 1, len(map)) = OrderOf(map)
    BY <2>1, SubSeqFull
  <2>. QED  BY <2>1, <2>3, <2>4, <2>5, Views
<1>5. KeyOrder' = KeyOrder /\ KeyValues' = KeyValues /\ KeysLeft = <<>>
  BY <1>1, Views
<1>6. Ordered!Iterate
  BY <1>1, <1>4, <1>5 DEF Ordered!Iterate, Ordered!NoIter
<1>. QED  BY <1>3, <1>6 DEF Simulated, Ordered!Next

\* A step of an iterator: the slot it yields, the value written to it.
LEMMA YieldedSlot ==
  ASSUME GoodMap(map), NEW i \in Nat, i + 1 \in 1..len(map), NEW v \in Values,
         map' = write(map, i, v), NEW k, k = SlotAt(map, i).key
  PROVE  /\ GoodMap(map') /\ len(map') = len(map) /\ KeyOrder' = KeyOrder
         /\ KeyValues' = Ordered!With(k, v)
         /\ KeyValues[k] = SlotAt(map, i).value /\ KeyOrder[i + 1] = k
<1>1. k = map.slots[i + 1].key
  BY DEF SlotAt
<1>2. k \in DOMAIN map.key2slot /\ map.key2slot[k] = (i + 1) - 1
  BY <1>1, GoodSlot
<1>3. /\ GoodMap(map') /\ len(map') = len(map) /\ OrderOf(map') = OrderOf(map)
      /\ ValOf(map') = With(ValOf(map), k, v)
  BY <1>1, WriteKeepsKeys
<1>4. KeyValues[k] = SlotAt(map, i).value
  BY <1>2 DEF KeyValues, get, contains_key
<1>5. KeyOrder[i + 1] = k
  BY <1>1 DEF KeyOrder
<1>. QED  BY <1>3, <1>4, <1>5, Views, WithIsWith

\* next yields the first key of the slice.
LEMMA NextStep ==
  ASSUME Inv, NEW v \in Values, next(v)
  PROVE  Inv' /\ Simulated
<1>0. PICK f, t : f = iter[1].from /\ t = iter[1].to
  OBVIOUS
<1>1. /\ iter # <<>> /\ f < t /\ entry' = entry /\ todo' = todo
      /\ ret' = <<SlotAt(map, f).key, SlotAt(map, f).value>> /\ map' = write(map, f, v)
      /\ iter' = [iter EXCEPT ![1].from = @ + 1]
  BY <1>0 DEF next
<1>2. /\ GoodMap(map) /\ iter = <<iter[1]>> /\ iter[1] = [from |-> f, to |-> t] /\ f \in Nat /\ t \in Nat
      /\ t <= len(map) /\ entry = <<>> /\ todo = <<>>
  BY <1>0, <1>1, HeldIter
<1>3. iter' = <<[from |-> f + 1, to |-> t]>>
  BY <1>1, <1>2
<1>4. len(map) \in Nat /\ OrderOf(map) \in Seq(Keys) /\ Len(OrderOf(map)) = len(map)
  BY <1>2, Parts, Orders DEF GoodMap
<1>5. f + 1 \in 1..len(map)
  BY <1>1, <1>2, <1>4
<1>6. PICK k : k = SlotAt(map, f).key
  OBVIOUS
<1>7. /\ GoodMap(map') /\ len(map') = len(map) /\ KeyOrder' = KeyOrder
      /\ KeyValues' = Ordered!With(k, v)
      /\ KeyValues[k] = SlotAt(map, f).value /\ KeyOrder[f + 1] = k
  BY <1>1, <1>2, <1>5, <1>6, YieldedSlot
<1>8. Inv'
  <2>1. iter'[1] = [from |-> f + 1, to |-> t] /\ iter' = <<iter'[1]>>
    BY <1>3
  <2>2. iter'[1] \in [from : Nat, to : Nat] /\ iter'[1].from = f + 1 /\ iter'[1].to = t
    BY <1>2, <2>1
  <2>3. iter'[1].from <= iter'[1].to /\ iter'[1].to <= len(map')
    BY <1>1, <1>2, <1>7, <2>2
  <2>4. todo' \in Seq(Call) /\ entry' = <<>> /\ todo' = <<>>
    BY <1>1, <1>2, EmptySeq
  <2>. QED  BY <1>7, <2>1, <2>2, <2>3, <2>4 DEF Inv
<1>9. PICK u : u = SubSeq(KeyOrder, f + 1, t)
  OBVIOUS
<1>10. KeysLeft = <<u>> /\ KeysLeft' = <<SubSeq(KeyOrder, (f + 1) + 1, t)>>
  <2>1. iter[1].from = f /\ iter[1].to = t /\ iter # <<>>
    BY <1>0, <1>1
  <2>2. iter'[1].from = f + 1 /\ iter'[1].to = t /\ iter' # <<>>
    BY <1>3
  <2>3. KeysLeft' = <<SubSeq(KeyOrder', iter'[1].from + 1, iter'[1].to)>>
    BY <2>2 DEF KeysLeft
  <2>. QED  BY <2>1, <2>2, <2>3, <1>7, <1>9 DEF KeysLeft
<1>11. u # <<>> /\ u[1] = KeyOrder[f + 1] /\ Tail(u) = SubSeq(KeyOrder, (f + 1) + 1, t)
  <2>1. KeyOrder \in Seq(Keys) /\ Len(KeyOrder) = len(map)
    BY <1>4, Views
  <2>2. t <= Len(KeyOrder) /\ f < t /\ f \in Nat /\ t \in Nat
    BY <1>1, <1>2, <2>1
  <2>. QED  BY <1>9, <2>1, <2>2, Slices
<1>12. Ordered!Yield(u[1], v, Tail(u))
  BY <1>1, <1>6, <1>7, <1>10, <1>11 DEF Ordered!Yield
<1>13. KeysLeft[1] = u /\ KeysLeft \notin {<<>>, <<<<>>>>}
  BY <1>10, <1>11
<1>. QED  BY <1>8, <1>12, <1>13 DEF Simulated, Ordered!Next, Ordered!NoIter

\* next_back yields the last key of the slice.
LEMMA NextBackStep ==
  ASSUME Inv, NEW v \in Values, next_back(v)
  PROVE  Inv' /\ Simulated
<1>0. PICK f, t : f = iter[1].from /\ t = iter[1].to
  OBVIOUS
<1>1. /\ iter # <<>> /\ f < t /\ entry' = entry /\ todo' = todo
      /\ ret' = <<SlotAt(map, t - 1).key, SlotAt(map, t - 1).value>> /\ map' = write(map, t - 1, v)
      /\ iter' = [iter EXCEPT ![1].to = @ - 1]
  BY <1>0 DEF next_back
<1>2. /\ GoodMap(map) /\ iter = <<iter[1]>> /\ iter[1] = [from |-> f, to |-> t] /\ f \in Nat /\ t \in Nat
      /\ t <= len(map) /\ entry = <<>> /\ todo = <<>>
  BY <1>0, <1>1, HeldIter
<1>3. iter' = <<[from |-> f, to |-> t - 1]>>
  BY <1>1, <1>2
<1>4. len(map) \in Nat /\ OrderOf(map) \in Seq(Keys) /\ Len(OrderOf(map)) = len(map)
  BY <1>2, Parts, Orders DEF GoodMap
<1>5. t - 1 \in Nat /\ (t - 1) + 1 = t /\ (t - 1) + 1 \in 1..len(map)
  BY <1>1, <1>2, <1>4
<1>6. PICK k : k = SlotAt(map, t - 1).key
  OBVIOUS
<1>7. /\ GoodMap(map') /\ len(map') = len(map) /\ KeyOrder' = KeyOrder
      /\ KeyValues' = Ordered!With(k, v)
      /\ KeyValues[k] = SlotAt(map, t - 1).value /\ KeyOrder[(t - 1) + 1] = k
  BY <1>1, <1>2, <1>5, <1>6, YieldedSlot
<1>8. Inv'
  <2>1. iter'[1] = [from |-> f, to |-> t - 1] /\ iter' = <<iter'[1]>>
    BY <1>3
  <2>2. iter'[1] \in [from : Nat, to : Nat] /\ iter'[1].from = f /\ iter'[1].to = t - 1
    BY <1>2, <1>5, <2>1
  <2>3. iter'[1].from <= iter'[1].to /\ iter'[1].to <= len(map')
    BY <1>1, <1>2, <1>4, <1>7, <2>2
  <2>4. todo' \in Seq(Call) /\ entry' = <<>> /\ todo' = <<>>
    BY <1>1, <1>2, EmptySeq
  <2>. QED  BY <1>7, <2>1, <2>2, <2>3, <2>4 DEF Inv
<1>9. PICK u : u = SubSeq(KeyOrder, f + 1, t)
  OBVIOUS
<1>10. KeysLeft = <<u>> /\ KeysLeft' = <<SubSeq(KeyOrder, f + 1, t - 1)>>
  <2>1. iter[1].from = f /\ iter[1].to = t /\ iter # <<>>
    BY <1>0, <1>1
  <2>2. iter'[1].from = f /\ iter'[1].to = t - 1 /\ iter' # <<>>
    BY <1>3
  <2>3. KeysLeft' = <<SubSeq(KeyOrder', iter'[1].from + 1, iter'[1].to)>>
    BY <2>2 DEF KeysLeft
  <2>. QED  BY <2>1, <2>2, <2>3, <1>7, <1>9 DEF KeysLeft
<1>11. u # <<>> /\ u[Len(u)] = KeyOrder[t] /\ SubSeq(u, 1, Len(u) - 1) = SubSeq(KeyOrder, f + 1, t - 1)
  <2>1. KeyOrder \in Seq(Keys) /\ Len(KeyOrder) = len(map)
    BY <1>4, Views
  <2>2. t <= Len(KeyOrder) /\ f < t /\ f \in Nat /\ t \in Nat
    BY <1>1, <1>2, <2>1
  <2>. QED  BY <1>9, <2>1, <2>2, Slices
<1>12. Ordered!Yield(u[Len(u)], v, SubSeq(u, 1, Len(u) - 1))
  BY <1>1, <1>5, <1>6, <1>7, <1>10, <1>11 DEF Ordered!Yield
<1>13. KeysLeft[1] = u /\ KeysLeft \notin {<<>>, <<<<>>>>}
  BY <1>10, <1>11
<1>. QED  BY <1>8, <1>12, <1>13 DEF Simulated, Ordered!Next, Ordered!NoIter

\* An iterator that is dropped ends the iteration.
LEMMA DropIterStep ==
  ASSUME Inv, DropIter
  PROVE  Inv' /\ Simulated
<1>1. /\ iter # <<>> /\ iter' = <<>> /\ ret' = <<>> /\ map' = map /\ entry' = entry /\ todo' = todo
      /\ GoodMap(map) /\ entry = <<>> /\ todo = <<>>
  BY HeldIter DEF DropIter
<1>2. KeyOrder' = KeyOrder /\ KeyValues' = KeyValues /\ KeysLeft' = <<>> /\ KeysLeft # <<>>
  BY <1>1, Views DEF KeysLeft
<1>3. Ordered!Stop
  BY <1>1, <1>2 DEF Ordered!Stop, Ordered!NoIter
<1>. QED  BY <1>1, <1>3, InvFree DEF Simulated, Ordered!Next

\* extend: calls of insert that are still to come.
LEMMA ExtendStep ==
  ASSUME Inv, NEW pairs \in Pairs, extend(pairs)
  PROVE  Inv' /\ Simulated
<1>1. /\ map' = map /\ entry' = <<>> /\ iter = <<>> /\ iter' = <<>> /\ ret' = ret /\ GoodMap(map)
      /\ todo' = [i \in DOMAIN pairs |-> [op |-> "insert", key |-> pairs[i].key, value |-> pairs[i].value]]
  BY DEF extend, Free, Inv
<1>2. todo' \in Seq(Call)
  <2>1. PICK n \in Nat : pairs \in [1..n -> Slot]
    BY MaxExtendAssumption DEF Pairs
  <2>2. \A i \in 1..n : pairs[i].key \in Keys /\ pairs[i].value \in Values
    BY <2>1 DEF Slot
  <2>3. \A i \in 1..n : todo'[i] = [op |-> "insert", key |-> pairs[i].key, value |-> pairs[i].value]
    BY <1>1, <2>1
  <2>4. \A i \in 1..n : todo'[i] \in Call
    <3>1. ASSUME NEW x \in Keys, NEW y \in Values
          PROVE  [op |-> "insert", key |-> x, value |-> y] \in Call
      BY DEF Call
    <3>. QED  BY <2>2, <2>3, <3>1
  <2>5. todo' \in [1..n -> Call]
    BY <1>1, <2>1, <2>4
  <2>. QED  BY <2>5, SeqDef
<1>3. Inv'
  BY <1>1, <1>2 DEF Inv
<1>. QED  BY <1>1, <1>3 DEF Simulated, KeyOrder, KeyValues, KeysLeft

\* replace: a removal and an insert that are still to come.
LEMMA ReplaceStep ==
  ASSUME Inv, NEW k \in Keys, NEW v \in Values, replace(k, v)
  PROVE  Inv' /\ Simulated
<1>1. /\ map' = map /\ entry' = <<>> /\ iter = <<>> /\ iter' = <<>> /\ ret' = ret /\ GoodMap(map)
      /\ todo' = <<[op |-> "remove", key |-> k, value |-> v], [op |-> "insert", key |-> k, value |-> v]>>
  BY DEF replace, Free, Inv
<1>2. todo' \in Seq(Call)
  <2>1. [op |-> "remove", key |-> k, value |-> v] \in Call /\ [op |-> "insert", key |-> k, value |-> v] \in Call
    BY DEF Call
  <2>. QED  BY <1>1, <2>1
<1>3. Inv'
  BY <1>1, <1>2 DEF Inv
<1>. QED  BY <1>1, <1>3 DEF Simulated, KeyOrder, KeyValues, KeysLeft

\* One call of an extend or a replace.
LEMMA StepStep ==
  ASSUME Inv, Step
  PROVE  Inv' /\ Simulated
<1>0. PICK c : c = todo[1]
  OBVIOUS
<1>1. /\ todo # <<>> /\ todo' = Tail(todo) /\ entry' = entry /\ iter' = iter /\ ret' = get(map, c.key)
      /\ map' = IF c.op = "remove" THEN swap_remove_full(map, c.key) ELSE insert_full(map, c.key, c.value)
  BY <1>0 DEF Step
<1>2. GoodMap(map) /\ iter = <<>> /\ todo \in Seq(Call)
  BY <1>1 DEF Inv
<1>3. todo' \in Seq(Call)
  BY <1>1, <1>2, HeadTailProperties
<1>4. c \in Call /\ c.key \in Keys /\ c.value \in Values
  <2>1. c \in Call
    BY <1>0, <1>1, <1>2
  <2>. QED  BY <2>1 DEF Call
<1>5. ASSUME GoodMap(map')
      PROVE  Inv'
  BY <1>1, <1>2, <1>3, <1>5 DEF Inv
<1>6. CASE c.op = "remove"
  <2>1. map' = swap_remove_full(map, c.key)
    BY <1>1, <1>6
  <2>2. GoodMap(map')
    BY <2>1, <1>2, FullRemove
  <2>. QED  BY <1>1, <1>2, <1>4, <1>5, <2>1, <2>2, RemoveIsNext DEF Simulated
<1>7. CASE c.op # "remove"
  <2>1. map' = insert_full(map, c.key, c.value)
    BY <1>1, <1>7
  <2>2. /\ GoodMap(map')
        /\ OrderOf(map') = IF c.key \in DOMAIN map.key2slot THEN OrderOf(map) ELSE Append(OrderOf(map), c.key)
        /\ ValOf(map') = With(ValOf(map), c.key, c.value)
    BY <2>1, <1>2, <1>4, FullInsert
  <2>. QED  BY <1>1, <1>2, <1>4, <1>5, <2>2, PutIsNext DEF Simulated
<1>. QED  BY <1>6, <1>7

-----------------------------------------------------------------------------

\* The initial states are those of the ordered map.
LEMMA InvInit == Init => Inv /\ Ordered!Init
<1>. SUFFICES ASSUME Init PROVE Inv /\ Ordered!Init
  OBVIOUS
<1>1. map = new /\ entry = <<>> /\ iter = <<>> /\ todo = <<>> /\ ret = <<>>
  BY DEF Init
<1>2. GoodMap(map) /\ KeyOrder = <<>> /\ KeysLeft = <<>>
  BY <1>1, NewIsGood, Views
<1>3. KeyValues = <<>>
  <2>1. KeyValues = [x \in {} |-> KeyValues[x]]
    BY <1>1 DEF KeyValues, new
  <2>. QED  BY <2>1
<1>4. Inv
  BY <1>1, <1>2, EmptySeq DEF Inv
<1>. QED  BY <1>1, <1>2, <1>3, <1>4 DEF Ordered!Init, Ordered!NoIter

\* Every step keeps the invariant and is a step of the ordered map or none.
LEMMA StepsSimulate == Inv /\ [Next]_vars => Inv' /\ Simulated
<1>. SUFFICES ASSUME Inv, [Next]_vars PROVE Inv' /\ Simulated
  OBVIOUS
<1>1. CASE UNCHANGED vars
  <2>1. map' = map /\ entry' = entry /\ iter' = iter /\ todo' = todo /\ ret' = ret
    BY <1>1 DEF vars
  <2>. QED  BY <2>1 DEF Inv, Simulated, KeyOrder, KeyValues, KeysLeft
<1>2. ASSUME NEW k \in Keys, swap_remove(k) \/ Get(k) \/ Entry(k)
      PROVE  Inv' /\ Simulated
  BY <1>2, RemoveStep, GetStep, EntryStep
<1>3. ASSUME NEW k \in Keys, NEW v \in Values, insert(k, v) \/ get_mut(k, v) \/ replace(k, v)
      PROVE  Inv' /\ Simulated
  BY <1>3, InsertStep, GetMutStep, ReplaceStep
<1>4. ASSUME NEW v \in Values, and_modify(v) \/ or_insert(v) \/ next(v) \/ next_back(v)
      PROVE  Inv' /\ Simulated
  BY <1>4, AndModifyStep, OrInsertStep, NextStep, NextBackStep
<1>5. ASSUME NEW i \in 0..(len(map) - 1), NEW v \in Values, get_index_mut(i, v)
      PROVE  Inv' /\ Simulated
  BY <1>5, GetIndexStep
<1>6. CASE clear \/ DropEntry \/ Iter \/ DropIter \/ Step
  BY <1>6, ClearStep, DropEntryStep, IterStep, DropIterStep, StepStep
<1>7. ASSUME NEW pairs \in Pairs, extend(pairs)
      PROVE  Inv' /\ Simulated
  BY <1>7, ExtendStep
<1>. QED  BY <1>1, <1>2, <1>3, <1>4, <1>5, <1>6, <1>7 DEF Next

\* The tree and the slots stay inverse to each other whatever is called.
THEOREM TreeMatchesSlotsHolds == Spec => []TreeMatchesSlots
<1>1. Inv => TreeMatchesSlots
  <2>. SUFFICES ASSUME Inv PROVE TreeMatchesSlots
    OBVIOUS
  <2>1. GoodMap(map) /\ len(map) \in Nat
    BY Parts DEF Inv, GoodMap
  <2>2. ASSUME NEW k \in DOMAIN map.key2slot
        PROVE  map.key2slot[k] \in 0..(len(map) - 1) /\ SlotAt(map, map.key2slot[k]).key = k
    <3>1. /\ map.key2slot[k] \in Nat /\ map.key2slot[k] + 1 \in 1..len(map)
          /\ map.slots[map.key2slot[k] + 1].key = k
      BY <2>1, GoodKey
    <3>. QED  BY <2>1, <3>1 DEF SlotAt
  <2>3. ASSUME NEW i \in 0..(len(map) - 1)
        PROVE  contains_key(map, SlotAt(map, i).key) /\ map.key2slot[SlotAt(map, i).key] = i
    <3>1. i + 1 \in 1..len(map) /\ (i + 1) - 1 = i
      BY <2>1
    <3>2. map.slots[i + 1].key \in DOMAIN map.key2slot /\ map.key2slot[map.slots[i + 1].key] = (i + 1) - 1
      BY <2>1, <3>1, GoodSlot
    <3>. QED  BY <3>1, <3>2 DEF SlotAt, contains_key
  <2>. QED  BY <2>2, <2>3 DEF TreeMatchesSlots
<1>2. Inv /\ [Next]_vars => Inv'
  BY StepsSimulate
<1>3. Init => Inv
  BY InvInit
<1>. QED  BY <1>1, <1>2, <1>3, PTL DEF Spec

\* Whatever the sequence of calls, the tree with its vector behaves as the map
\* with positions that OrderedMap describes.
THEOREM OrderedMapHolds == Spec => ImplementsOrderedMap
<1>1. Init => Inv /\ Ordered!Init
  BY InvInit
<1>2. Inv /\ [Next]_vars => Inv' /\ [Ordered!Next]_<<KeyOrder, KeyValues, KeysLeft, ret>>
  BY StepsSimulate DEF Simulated
<1>. QED  BY <1>1, <1>2, PTL DEF Spec, ImplementsOrderedMap, Ordered!Spec
=============================================================================
