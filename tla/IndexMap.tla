------------------------------ MODULE IndexMap ------------------------------
(* The insertion-ordered map of the parser's collections in its B-tree form: a *)
(* vector of slots and a tree from each key to its slot.  Exports, imports,    *)
(* record fields and resources of the validator live in such maps and sets.    *)
(* A call borrows the map, so while an entry or an iterator is held nobody     *)
(* else touches it.                                                            *)
EXTENDS Naturals, Sequences

CONSTANTS Keys, Values,
          MaxExtend     \* how many pairs one extend brings

ASSUME MaxExtendAssumption == MaxExtend \in Nat

VARIABLES
  map,      \* the tree `key2slot` and the vector `slots`
  entry,    \* the key of the Entry that is held, as a sequence
  iter,     \* the slice an iterator has left, as a sequence
  todo,     \* the calls left of an extend or a replace
  ret       \* the answer of the latest call

vars == <<map, entry, iter, todo, ret>>

Slot == [key : Keys, value : Values]

new == [key2slot |-> <<>>, slots |-> <<>>]

len(m) == Len(m.slots)

\* Slots count from zero in the code.
SlotAt(m, i) == m.slots[i + 1]

contains_key(m, k) == k \in DOMAIN m.key2slot

get(m, k) == IF contains_key(m, k) THEN <<SlotAt(m, m.key2slot[k]).value>> ELSE <<>>

PointTo(tree, k, i) == [x \in DOMAIN tree \cup {k} |-> IF x = k THEN i ELSE tree[x]]

\* VacantEntry::insert and the vacant arm of insert_full.
insert_vacant(m, k, v) ==
  [key2slot |-> PointTo(m.key2slot, k, len(m)),
   slots |-> Append(m.slots, [key |-> k, value |-> v])]

\* OccupiedEntry::insert and the occupied arm of insert_full.
insert_occupied(m, k, v) ==
  [m EXCEPT !.slots[m.key2slot[k] + 1] = [key |-> k, value |-> v]]

insert_full(m, k, v) == IF contains_key(m, k) THEN insert_occupied(m, k, v) ELSE insert_vacant(m, k, v)

\* A value written through a reference: get_mut, get_index_mut, values_mut.
write(m, i, v) == [m EXCEPT !.slots[i + 1].value = v]

\* Vec::swap_remove.
vec_swap_remove(slots, i) ==
  [j \in 1..(Len(slots) - 1) |-> IF j = i + 1 THEN slots[Len(slots)] ELSE slots[j]]

\* Mutant: the key of the slot that moved keeps its old index.
Mutswap_remove_full(m, k) ==
  IF ~contains_key(m, k) THEN m
  ELSE [key2slot |-> [x \in DOMAIN m.key2slot \ {k} |-> m.key2slot[x]],
        slots |-> vec_swap_remove(m.slots, m.key2slot[k])]

\* The key goes, the last slot takes the place of its slot, and the key of the
\* slot that moved follows it.
swap_remove_full(m, k) ==
  IF ~contains_key(m, k) THEN m
  ELSE LET i == m.key2slot[k]
           tree == [x \in DOMAIN m.key2slot \ {k} |-> m.key2slot[x]]
           slots == vec_swap_remove(m.slots, i)
       IN  [key2slot |-> IF i = Len(slots) THEN tree ELSE PointTo(tree, slots[i + 1].key, i),
            slots |-> slots]
-----------------------------------------------------------------------------
Init == map = new /\ entry = <<>> /\ iter = <<>> /\ todo = <<>> /\ ret = <<>>

\* Nobody holds a part of the map.
Free == entry = <<>> /\ iter = <<>> /\ todo = <<>>

insert(k, v) ==
  /\ Free
  /\ map' = insert_full(map, k, v) /\ ret' = get(map, k)
  /\ UNCHANGED <<entry, iter, todo>>

swap_remove(k) ==
  /\ Free
  /\ map' = swap_remove_full(map, k) /\ ret' = get(map, k)
  /\ UNCHANGED <<entry, iter, todo>>

Get(k) ==
  /\ Free
  /\ ret' = get(map, k)
  /\ UNCHANGED <<map, entry, iter, todo>>

get_mut(k, v) ==
  /\ Free
  /\ ret' = get(map, k)
  /\ map' = IF contains_key(map, k) THEN write(map, map.key2slot[k], v) ELSE map
  /\ UNCHANGED <<entry, iter, todo>>

get_index_mut(i, v) ==
  /\ Free /\ i < len(map)
  /\ ret' = <<SlotAt(map, i).value>>
  /\ map' = write(map, i, v)
  /\ UNCHANGED <<entry, iter, todo>>

clear ==
  /\ Free
  /\ map' = new /\ ret' = <<>>
  /\ UNCHANGED <<entry, iter, todo>>

\* entry(): a vacant one or an occupied one, held until it is used up.
Entry(k) ==
  /\ Free
  /\ entry' = <<k>>
  /\ UNCHANGED <<map, iter, todo, ret>>

\* and_modify, OccupiedEntry::get_mut and OccupiedEntry::insert.
and_modify(v) ==
  /\ entry # <<>>
  /\ ret' = get(map, entry[1])
  /\ map' = IF contains_key(map, entry[1]) THEN insert_occupied(map, entry[1], v) ELSE map
  /\ UNCHANGED <<entry, iter, todo>>

\* or_insert, or_insert_with, or_insert_with_key, or_default.
or_insert(v) ==
  /\ entry # <<>>
  /\ ret' = get(map, entry[1])
  /\ map' = IF contains_key(map, entry[1]) THEN map ELSE insert_vacant(map, entry[1], v)
  /\ entry' = <<>>
  /\ UNCHANGED <<iter, todo>>

DropEntry ==
  /\ entry # <<>> /\ entry' = <<>>
  /\ UNCHANGED <<map, iter, todo, ret>>

\* iter, iter_mut, keys, values, values_mut: what is left of the slice.
Iter ==
  /\ Free
  /\ iter' = <<[from |-> 0, to |-> len(map)]>> /\ ret' = <<>>
  /\ UNCHANGED <<map, entry, todo>>

next(v) ==
  /\ iter # <<>> /\ iter[1].from < iter[1].to
  /\ ret' = <<SlotAt(map, iter[1].from).key, SlotAt(map, iter[1].from).value>>
  /\ map' = write(map, iter[1].from, v)
  /\ iter' = [iter EXCEPT ![1].from = @ + 1]
  /\ UNCHANGED <<entry, todo>>

\* Mutant: a step from the back uses up a slot at the front.
Mutnext_back(v) ==
  /\ iter # <<>> /\ iter[1].from < iter[1].to
  /\ ret' = <<SlotAt(map, iter[1].to - 1).key, SlotAt(map, iter[1].to - 1).value>>
  /\ map' = write(map, iter[1].to - 1, v)
  /\ iter' = [iter EXCEPT ![1].from = @ + 1]
  /\ UNCHANGED <<entry, todo>>

next_back(v) ==
  /\ iter # <<>> /\ iter[1].from < iter[1].to
  /\ ret' = <<SlotAt(map, iter[1].to - 1).key, SlotAt(map, iter[1].to - 1).value>>
  /\ map' = write(map, iter[1].to - 1, v)
  /\ iter' = [iter EXCEPT ![1].to = @ - 1]
  /\ UNCHANGED <<entry, todo>>

DropIter ==
  /\ iter # <<>> /\ iter' = <<>> /\ ret' = <<>>
  /\ UNCHANGED <<map, entry, todo>>

\* Extend: one insert after the other.
extend(pairs) ==
  /\ Free
  /\ todo' = [i \in DOMAIN pairs |-> [op |-> "insert", key |-> pairs[i].key, value |-> pairs[i].value]]
  /\ UNCHANGED <<map, entry, iter, ret>>

\* IndexSet::replace: the old value leaves its position.
replace(k, v) ==
  /\ Free
  /\ todo' = <<[op |-> "remove", key |-> k, value |-> v], [op |-> "insert", key |-> k, value |-> v]>>
  /\ UNCHANGED <<map, entry, iter, ret>>

Step ==
  /\ todo # <<>>
  /\ ret' = get(map, todo[1].key)
  /\ map' = IF todo[1].op = "remove" THEN swap_remove_full(map, todo[1].key)
            ELSE insert_full(map, todo[1].key, todo[1].value)
  /\ todo' = Tail(todo)
  /\ UNCHANGED <<entry, iter>>

Pairs == UNION {[1..n -> Slot] : n \in 1..MaxExtend}

Next ==
  \/ \E k \in Keys : swap_remove(k) \/ Get(k) \/ Entry(k)
  \/ \E k \in Keys, v \in Values : insert(k, v) \/ get_mut(k, v) \/ replace(k, v)
  \/ \E v \in Values : and_modify(v) \/ or_insert(v) \/ next(v) \/ next_back(v)
  \/ \E i \in 0..(len(map) - 1), v \in Values : get_index_mut(i, v)
  \/ clear \/ DropEntry \/ Iter \/ DropIter \/ Step
  \/ \E pairs \in Pairs : extend(pairs)

Spec == Init /\ [][Next]_vars
-----------------------------------------------------------------------------
\* The tree and the vector describe the same map: every key of the tree points
\* to a slot of its own that holds it, and every slot is pointed to.  The
\* lookups of the code index the vector by what the tree says without a check.
TreeMatchesSlots ==
  /\ \A k \in DOMAIN map.key2slot :
       map.key2slot[k] \in 0..(len(map) - 1) /\ SlotAt(map, map.key2slot[k]).key = k
  /\ \A i \in 0..(len(map) - 1) :
       contains_key(map, SlotAt(map, i).key) /\ map.key2slot[SlotAt(map, i).key] = i

KeyOrder == [i \in 1..len(map) |-> map.slots[i].key]

KeyValues == [k \in DOMAIN map.key2slot |-> get(map, k)[1]]

\* The keys of the slice that an iterator has left.
KeysLeft == IF iter = <<>> THEN <<>> ELSE <<SubSeq(KeyOrder, iter[1].from + 1, iter[1].to)>>

Ordered == INSTANCE OrderedMap WITH order <- KeyOrder, val <- KeyValues, left <- KeysLeft

\* The map behaves as an ordered map whatever the sequence of calls: inserts,
\* removals, entries and iterators from both ends.
ImplementsOrderedMap == Ordered!Spec
=============================================================================
