-------------------------- MODULE TypeCanonicalizer --------------------------
(* The list of core types a validator keeps for all modules of a file,         *)
(* inf-wasmparser/src/validator/types.rs, and the canonicalisation of recursion *)
(* groups, validator/core/canonical.rs: a group whose references are rewritten  *)
(* to identifiers (types of earlier groups) and to places in the group itself   *)
(* is interned once, so that equal types have equal identifiers.  A reference   *)
(* is <<"module", n>>, <<"rec", n>> or <<"id", n>>; identifiers count from 0.   *)
EXTENDS Integers, Sequences, SequencesExt

CONSTANTS
  Gc,                  \* whether the gc feature is on
  Canonical,           \* WasmFeatures::needs_type_canonicalization
  MaxSubtypingDepth    \* MAX_WASM_SUBTYPING_DEPTH

NoRef == <<"absent">>

-------------------------------------------------------------------------------
(* SnapshotList: committed chunks and the list being built.                    *)

EmptyList == [snapshots |-> <<>>, total |-> 0, cur |-> <<>>]

list_len(l) == Len(l.cur) + l.total

\* SnapshotList::get: the last chunk that starts at or before the index.
list_get(l, index) ==
  IF index >= l.total THEN l.cur[index - l.total + 1]
  ELSE LET i == CHOOSE i \in DOMAIN l.snapshots :
                  /\ l.snapshots[i].prior <= index
                  /\ i = Len(l.snapshots) \/ l.snapshots[i + 1].prior > index
       IN  l.snapshots[i].items[index - l.snapshots[i].prior + 1]

list_push(l, val) == [l EXCEPT !.cur = Append(@, val)]

\* SnapshotList::commit: what was built becomes a chunk, unless it is empty.
list_commit(l) ==
  IF l.cur = <<>> THEN l
  ELSE [snapshots |-> Append(l.snapshots, [prior |-> l.total, items |-> l.cur]),
        total |-> l.total + Len(l.cur), cur |-> <<>>]

-------------------------------------------------------------------------------
(* TypeList *)

EmptyTypes ==
  [core_types |-> EmptyList, supertype |-> EmptyList, rec_groups |-> EmptyList,
   canonical |-> <<>>, depth |-> <<>>]

\* TypeList::commit.
commit(types) ==
  [types EXCEPT !.core_types = list_commit(@), !.supertype = list_commit(@),
                !.rec_groups = list_commit(@)]

\* The references of a type, rewritten.
remap_indices(ty, Op(_)) ==
  LET Val(t) == IF t[1] = "ref" THEN <<"ref", Op(t[2])>> ELSE t
  IN  [ty EXCEPT !.params = [i \in DOMAIN @ |-> Val(@[i])],
                 !.results = [i \in DOMAIN @ |-> Val(@[i])],
                 !.super = IF @ = NoRef THEN @ ELSE Op(@)]

\* TypeList::intern_canonical_rec_group: the group that is there already, or
\* the next one, with its references to itself turned into identifiers.  Groups
\* are equal when their types are, written as a group or not.
intern_canonical_rec_group(types, group) ==
  IF Canonical /\ group.types \in DOMAIN types.canonical
  THEN [types |-> types, new |-> FALSE, id |-> types.canonical[group.types]]
  ELSE LET start == list_len(types.core_types)
           id == list_len(types.rec_groups)
           Absolute(ref) == IF ref[1] = "rec" THEN <<"id", start + ref[2]>> ELSE ref
           Add(l, ty) == list_push(l, remap_indices(ty, Absolute))
           AddSuper(l, ty) ==
             list_push(l, IF ty.super[1] \in {"rec", "id"} THEN Absolute(ty.super) ELSE NoRef)
       IN  [types |->
              [types EXCEPT
                 !.canonical = IF Canonical THEN (group.types :> id) @@ @ ELSE @,
                 !.core_types = FoldLeft(Add, @, group.types),
                 !.supertype = FoldLeft(AddSuper, @, group.types),
                 !.rec_groups = list_push(@, <<start, start + Len(group.types)>>)],
            new |-> TRUE, id |-> id]

\* TypeList::id_is_subtype: along the declared supertypes.
id_is_subtype(types, a, b) ==
  LET Up[n \in 0..list_len(types.core_types)] ==
        IF n = 0 THEN {a}
        ELSE Up[n - 1] \cup {list_get(types.supertype, x)[2] :
                              x \in {y \in Up[n - 1] : list_get(types.supertype, y) # NoRef}}
  IN  b \in Up[list_len(types.core_types)]

-------------------------------------------------------------------------------
(* readers/core/types/matches.rs: structural matching of a type and its super.  *)

\* Matches for ValType and RefType.
ValMatches(types, a, b) ==
  IF a[1] = "ref" /\ b[1] = "ref" THEN id_is_subtype(types, a[2][2], b[2][2]) ELSE a = b

\* Matches for FuncType: parameters the other way round.
FuncMatches(types, a, b) ==
  /\ Len(a.params) = Len(b.params) /\ Len(a.results) = Len(b.results)
  /\ \A i \in DOMAIN a.params : ValMatches(types, b.params[i], a.params[i])
  /\ \A i \in DOMAIN a.results : ValMatches(types, a.results[i], b.results[i])

\* Matches for StructType and FieldType, with immutable fields, in `results'.
StructMatches(types, a, b) ==
  /\ Len(a.results) >= Len(b.results)
  /\ \A i \in DOMAIN b.results : ValMatches(types, a.results[i], b.results[i])

\* Matches for CompositeType.
matches(types, a, b) ==
  /\ a.shape = b.shape
  /\ IF a.shape = "func" THEN FuncMatches(types, a, b) ELSE StructMatches(types, a, b)

-------------------------------------------------------------------------------
(* canonical.rs.  ids are the identifiers of the types of the module so far.   *)

\* Mutant: a reference into the group being defined is left as it is.
Mutcanonicalize_type_index(ids, start, len, ref) ==
  IF ref[1] = "module" /\ ref[2] < start THEN <<"id", ids[ref[2] + 1]>> ELSE ref

\* TypeCanonicalizer::canonicalize_type_index, mode HashConsing.
canonicalize_type_index(ids, start, len, ref) ==
  CASE ref[1] # "module" -> ref
    [] ref[2] < start -> <<"id", ids[ref[2] + 1]>>
    [] ref[2] - start < len /\ Gc -> <<"rec", ref[2] - start>>
    [] OTHER -> <<"unknown">>

Refs(ty) == {t[2] : t \in {u \in Range(ty.params \o ty.results) : u[1] = "ref"}}
            \cup (IF ty.super = NoRef THEN {} ELSE {ty.super})

\* TypeCanonicalizer::canonicalize_rec_group: supertypes come first.
canonicalize_rec_group(ids, group) ==
  LET start == Len(ids)
      len == Len(group.types)
      Op(ref) == canonicalize_type_index(ids, start, len, ref)
      types == [i \in 1..len |-> remap_indices(group.types[i], Op)]
  IN  [group |-> [group EXCEPT !.types = types],
       ok |-> /\ \A i \in 1..len : \/ group.types[i].super[1] # "module"
                                   \/ group.types[i].super[2] < start + i - 1
              /\ \A i \in 1..len : <<"unknown">> \notin Refs(types[i])]

\* InternRecGroup::check_composite_type, for functions and structs.
check_composite_type(ty) == ty.shape = "func" \/ Gc

\* InternRecGroup::check_subtype: the depth of a type in its hierarchy, or -1.
DepthBelow(types, ty, sup, super) ==
  IF super.final \/ ~matches(types, ty, super) \/ types.depth[sup] + 1 > MaxSubtypingDepth THEN -1
  ELSE types.depth[sup] + 1

check_subtype(types, ty) ==
  IF ~(Gc \/ (ty.final /\ ty.super = NoRef)) \/ ~check_composite_type(ty) THEN -1
  ELSE IF ty.super = NoRef THEN 0
  ELSE DepthBelow(types, ty, ty.super[2], list_get(types.core_types, ty.super[2]))

\* The identifiers of the interned group are those of the module's next types;
\* a new group is checked type by type.
CheckInterned(ids, i, range) ==
  LET new == [k \in 1..(range[2] - range[1]) |-> range[1] + k - 1]
      Deeper(s, id, d) == IF ~s.ok \/ d < 0 THEN [s EXCEPT !.ok = FALSE]
                          ELSE [s EXCEPT !.types.depth = (id :> d) @@ @]
      CheckNext(s, id) == Deeper(s, id, check_subtype(s.types, list_get(s.types.core_types, id)))
  IN  FoldLeft(CheckNext, [ok |-> TRUE, types |-> i.types, ids |-> ids \o new],
               IF i.new THEN new ELSE <<>>)

InternGroup(ids, i) == CheckInterned(ids, i, list_get(i.types.rec_groups, i.id))

InternCanonical(ids, types, c) ==
  IF ~c.ok THEN [ok |-> FALSE, types |-> types, ids |-> ids]
  ELSE InternGroup(ids, intern_canonical_rec_group(types, c.group))

\* InternRecGroup::canonicalize_and_intern_rec_group.
canonicalize_and_intern_rec_group(ids, types, group) ==
  IF group.explicit /\ ~Gc THEN [ok |-> FALSE, types |-> types, ids |-> ids]
  ELSE InternCanonical(ids, types,
                       IF Canonical THEN canonicalize_rec_group(ids, group)
                       ELSE [group |-> group, ok |-> TRUE])
=============================================================================
