----------------------------- MODULE OperatorStack -----------------------------
(***************************************************************************)
(* The machinery of the operator validator (validator/operators.rs of      *)
(* inf-wasmparser): the operand stack with its unknown types, the control  *)
(* frames, the scoped initialisation of locals, the compressed list of     *)
(* locals, and the lookups in the module that is being validated.          *)
(*                                                                         *)
(* Everything is a function from a validator `vm` to the next one.  `ok`   *)
(* becomes FALSE where the code returns an error; the remaining steps of   *)
(* the operator are then skipped, as the ? operator skips them.            *)
(***************************************************************************)
EXTENDS Integers, SequencesExt

CONSTANTS
    Types,          \* the module's sub types (canonical ids = module indices)
    Funcs,          \* type index of every function
    Referenced,     \* functions that may be the target of ref.func
    Tables,         \* sequence of [elem, index, shared]
    Memories,       \* sequence of index types
    Globals,        \* sequence of [ty, mutable, shared]
    Tags,           \* type index of every tag
    Elems,          \* reference type of every element segment
    DataCount,      \* the data count section, -1 when there is none
    Features,       \* the enabled proposals
    SharedFunction, \* is the function that is validated a shared one?
    MaxTracked,     \* MAX_LOCALS_TO_TRACK
    MaxLocals       \* MAX_WASM_FUNCTION_LOCALS

-----------------------------------------------------------------------------
(* Value types.  A value type is a flat record, so that TLC can compare any *)
(* two of them: `k` is its kind, and for a reference `null`, `shared`,      *)
(* `heap` and `id` are the parts of the bit-packed RefType.  The id of a    *)
(* type is its position in the list of sub types (the TypeList), 0 stands   *)
(* for "no type".                                                          *)

NumKinds == {"i32", "i64", "f32", "f64", "v128"}

AbstractHeapTypes ==
    {"func", "extern", "any", "none", "noextern", "nofunc", "eq", "struct",
     "array", "i31", "exn", "noexn", "cont", "nocont"}

\* ValType: a number or vector type.
Num(k) == [k |-> k, null |-> FALSE, shared |-> FALSE, heap |-> "-", id |-> 0]

I32 == Num("i32")
I64 == Num("i64")
F32 == Num("f32")
F64 == Num("f64")
V128 == Num("v128")

\* RefType::new of an abstract heap type, and RefType::concrete: a concrete
\* reference has no shared bit of its own.
AbsRef(null, shared, heap) ==
    [k |-> "ref", null |-> null, shared |-> shared, heap |-> heap, id |-> 0]

ConcreteRef(null, id) ==
    [k |-> "ref", null |-> null, shared |-> FALSE, heap |-> "concrete", id |-> id]

\* The aliases the operators use (FUNCREF, ANYREF, EXNREF, I31 ...).
NullRef(heap) == AbsRef(TRUE, FALSE, heap)

IsRef(t) == t.k = "ref"
IsConcrete(t) == t.heap = "concrete"

AsNonNull(t) == [t EXCEPT !.null = FALSE]
AsNullable(t) == [t EXCEPT !.null = TRUE]
AsShared(t) == [t EXCEPT !.shared = TRUE]

\* ValType::is_defaultable.
IsDefaultable(t) == IsRef(t) => t.null

\* RefType::difference: what is left of `a` once a cast to `b` has failed.
Difference(a, b) == [a EXCEPT !.null = IF b.null THEN FALSE ELSE a.null]

-----------------------------------------------------------------------------
(* Storage types of fields: a value type, or one of the packed "i8", "i16". *)

Packed(k) == [Num("i32") EXCEPT !.k = k]
IsPacked(st) == st.k \in {"i8", "i16"}
Unpack(st) == IF IsPacked(st) THEN I32 ELSE st

-----------------------------------------------------------------------------
(* Sub types.  One record for the four composite kinds: `params` and       *)
(* `results` for functions, `fields` (a sequence of [ty, mutable]) for     *)
(* structs and, with one element, arrays, `func` for continuations.        *)

FuncSub(params, results) ==
    [kind |-> "func", params |-> params, results |-> results, fields |-> <<>>,
     func |-> 0, shared |-> FALSE, final |-> TRUE, super |-> 0]

StructSub(fields) ==
    [kind |-> "struct", params |-> <<>>, results |-> <<>>, fields |-> fields,
     func |-> 0, shared |-> FALSE, final |-> TRUE, super |-> 0]

ArraySub(field) == [StructSub(<<field>>) EXCEPT !.kind = "array"]

ContSub(func) == [FuncSub(<<>>, <<>>) EXCEPT !.kind = "cont", !.func = func]

-----------------------------------------------------------------------------
(* Subtyping. *)

\* AbstractHeapType::is_subtype_of.
AbstractIsSubtype(a, b) ==
    \/ a = b
    \/ a \in {"eq", "i31", "struct", "array", "none"} /\ b = "any"
    \/ a \in {"i31", "struct", "array", "none"} /\ b = "eq"
    \/ a = "none" /\ b \in {"i31", "array", "struct"}
    \/ <<a, b>> \in {<<"noextern", "extern">>, <<"nofunc", "func">>,
                     <<"noexn", "exn">>, <<"nocont", "cont">>}

\* TypeList::id_is_subtype: `a` is `b` or declared, transitively, below it.  The
\* loop follows core_type_to_supertype; supertypes come before their subtypes.
SuperChain(types) ==
    LET chain[i \in 0..Len(types)] ==
            IF i = 0 THEN {}
            ELSE {i} \cup IF types[i].super \in 1..(i - 1) THEN chain[types[i].super] ELSE {}
    IN  chain

IdIsSubtype(types, a, b) == b \in SuperChain(types)[a]

\* The heap part of reftype_is_subtype_impl for a concrete `a` under an abstract
\* `b`, and for an abstract `a` under a concrete `b`.
ConcreteBelow(kind, heap) ==
    \/ heap \in {"any", "eq"} /\ kind \in {"array", "struct"}
    \/ heap \in {"struct", "array", "func", "cont"} /\ kind = heap

AboveBottom(heap, kind) ==
    \/ heap = "none" /\ kind \in {"array", "struct"}
    \/ heap = "nofunc" /\ kind = "func"
    \/ heap = "nocont" /\ kind = "cont"

\* TypeList::reftype_is_subtype_impl.
RefIsSubtype(types, a, b) ==
    /\ a.null => b.null
    /\ CASE IsConcrete(a) /\ IsConcrete(b) -> IdIsSubtype(types, a.id, b.id)
         [] IsConcrete(a) /\ ~IsConcrete(b) ->
              types[a.id].shared = b.shared /\ ConcreteBelow(types[a.id].kind, b.heap)
         [] ~IsConcrete(a) /\ IsConcrete(b) ->
              a.shared = types[b.id].shared /\ AboveBottom(a.heap, types[b.id].kind)
         [] OTHER -> a.shared = b.shared /\ AbstractIsSubtype(a.heap, b.heap)

\* TypeList::valtype_is_subtype.
IsSubtype(types, a, b) ==
    \/ a = b
    \/ IsRef(a) /\ IsRef(b) /\ RefIsSubtype(types, a, b)

IsSubtypeMany(types, as, bs) ==
    /\ Len(as) = Len(bs)
    /\ \A i \in 1..Len(as) : IsSubtype(types, as[i], bs[i])

\* TypeList::reftype_is_shared and valtype_is_shared.
RefIsShared(types, t) == IF IsConcrete(t) THEN types[t.id].shared ELSE t.shared
ValIsShared(types, t) == IsRef(t) => RefIsShared(types, t)

\* TypeList::top_type, as a nullable reference to it.
TopRef(types, t) ==
    LET top(h) == CASE h \in {"func", "nofunc"} -> "func"
                    [] h \in {"extern", "noextern"} -> "extern"
                    [] h \in {"any", "eq", "struct", "array", "i31", "none"} -> "any"
                    [] h \in {"exn", "noexn"} -> "exn"
                    [] OTHER -> "cont"
    IN  AbsRef(TRUE, RefIsShared(types, t),
               top(IF IsConcrete(t) THEN types[t.id].kind ELSE t.heap))

-----------------------------------------------------------------------------
(* Structural matching (matches.rs): one link of a subtype chain.          *)

StorageMatches(types, a, b) ==
    IF IsPacked(a) \/ IsPacked(b) THEN a = b ELSE IsSubtype(types, a, b)

\* Immutable fields are covariant, mutable ones invariant.
FieldMatches(types, fa, fb) ==
    /\ StorageMatches(types, fa.ty, fb.ty)
    /\ \/ ~fa.mutable /\ ~fb.mutable
       \/ fa.mutable /\ fb.mutable /\ StorageMatches(types, fb.ty, fa.ty)

\* Width and depth subtyping.
StructMatches(types, a, b) ==
    /\ Len(a.fields) >= Len(b.fields)
    /\ \A i \in 1..Len(b.fields) : FieldMatches(types, a.fields[i], b.fields[i])

\* Parameters are contravariant, results covariant.
FuncMatches(types, a, b) ==
    /\ IsSubtypeMany(types, b.params, a.params)
    /\ IsSubtypeMany(types, a.results, b.results)

ContMatches(types, a, b) ==
    \/ a.func = b.func
    \/ IdIsSubtype(types, a.func, b.func)

\* Matches for SubType and CompositeType.
TypeMatches(types, a, b) ==
    /\ a.shared = b.shared
    /\ a.kind = b.kind
    /\ CASE a.kind = "func" -> FuncMatches(types, a, b)
         [] a.kind = "cont" -> ContMatches(types, a, b)
         [] OTHER -> StructMatches(types, a, b)

-----------------------------------------------------------------------------
(* What the constants are: a module that the module validator has accepted. *)

\* The value types and block types a reader hands over: a concrete reference may
\* still name a type that does not exist.
TypesOfKind(kinds) ==
    [k : kinds, null : BOOLEAN, shared : BOOLEAN,
     heap : AbstractHeapTypes \cup {"concrete", "-"}, id : Nat]

ParsedTypes == TypesOfKind(NumKinds \cup {"ref"})

\* What a valid module holds: value types, stored types, sub types.
ValTypes == {t \in ParsedTypes : IsRef(t) /\ IsConcrete(t) => t.id \in 1..Len(Types)}
StorageTypes == ValTypes \cup {Packed("i8"), Packed("i16")}

SubTypes ==
    [kind : {"func", "struct", "array", "cont"}, params : Seq(ValTypes), results : Seq(ValTypes),
     fields : Seq([ty : StorageTypes, mutable : BOOLEAN]), func : Nat,
     shared : BOOLEAN, final : BOOLEAN, super : Nat]

FuncTypeIds == {i \in 1..Len(Types) : Types[i].kind = "func"}

ASSUME StackAssumption ==
    /\ MaxTracked \in Nat /\ MaxLocals \in Nat
    /\ Types \in Seq(SubTypes)
    /\ \A i \in 1..Len(Types) :
          /\ Types[i].super \in 0..(i - 1)
          /\ Types[i].kind = "array" => Len(Types[i].fields) = 1
          /\ Types[i].kind = "cont" => Types[i].func \in FuncTypeIds
    /\ Funcs \in Seq(FuncTypeIds) /\ Tags \in Seq(FuncTypeIds)
    /\ Tables \in Seq([elem : ValTypes, index : {I32, I64}, shared : BOOLEAN])
    /\ Memories \in Seq({I32, I64})
    /\ Globals \in Seq([ty : ValTypes, mutable : BOOLEAN, shared : BOOLEAN])
    /\ Elems \in Seq(ValTypes)

-----------------------------------------------------------------------------
(* MaybeType: the type of an operand, known, partly known or unknown.      *)

Bottom == [k |-> "bottom", null |-> FALSE, shared |-> FALSE, heap |-> "-", id |-> 0]
UnknownRef(heap) == [Bottom EXCEPT !.k = "unknown", !.heap = heap]
IsKnown(t) == t.k \notin {"bottom", "unknown"}

\* MaybeType<RefType>::as_non_null.
MaybeNonNull(t) == IF IsKnown(t) THEN AsNonNull(t) ELSE t

\* is_maybe_shared of both operands, where both are known.
SameSharedness(a, b) ==
    IsKnown(a) /\ IsKnown(b) => (RefIsShared(Types, a) = RefIsShared(Types, b))

-----------------------------------------------------------------------------
(* Frame and the validator record.                                         *)

NoBlock == [k |-> "empty", ty |-> Bottom, idx |-> 0]
TypeBlock(t) == [k |-> "type", ty |-> t, idx |-> 0]
FuncBlock(i) == [k |-> "func", ty |-> Bottom, idx |-> i]

Frame(kind, block_type, height, init_height) ==
    [kind |-> kind, block_type |-> block_type, height |-> height,
     unreachable |-> FALSE, init_height |-> init_height]

Fail(vm) == [vm EXCEPT !.ok = FALSE]

Require(vm, cond) == IF vm.ok /\ cond THEN vm ELSE Fail(vm)

\* WasmProposalValidator::check_enabled.
Gate(vm, feature) == Require(vm, feature \in Features)

-----------------------------------------------------------------------------
(* Locals: the first few types are cached, the rest is found by binary     *)
(* search in the list of <<last index of the group, type>>.                *)

EmptyLocals == [num_locals |-> 0, first |-> <<>>, all |-> <<>>]

\* Locals::define, for a group that fits (CanDefine).
CanDefine(locals, count) == locals.num_locals + count <= MaxLocals

\* Mutant: a group is recorded with its first index instead of its last.
MutDefine(locals, count, ty) ==
    LET cached == IF Len(locals.first) < MaxTracked THEN 1 ELSE 0
    IN  [num_locals |-> locals.num_locals + count,
         first |-> locals.first \o [i \in 1..cached |-> ty],
         all |-> Append(locals.all, <<locals.num_locals, ty>>)]

Define(locals, count, ty) ==
    LET n == locals.num_locals + count
        room == MaxTracked - Len(locals.first)
        cached == IF room <= 0 THEN 0 ELSE IF count < room THEN count ELSE room
    IN  [num_locals |-> n,
         first |-> locals.first \o [i \in 1..cached |-> ty],
         all |-> Append(locals.all, <<n - 1, ty>>)]

\* slice::binary_search_by_key as Locals::get_bsearch uses it: the halving search
\* of the group with the least last index that is not below idx.
BsearchPos(all, idx) ==
    LET search[range \in (0..Len(all)) \X (0..Len(all))] ==
            LET lo == range[1]
                hi == range[2]
                mid == lo + (hi - lo) \div 2
            IN  CASE lo = hi -> lo
                  [] lo # hi /\ all[mid + 1][1] < idx -> search[<<mid + 1, hi>>]
                  [] OTHER -> search[<<lo, mid>>]
    IN  search[<<0, Len(all)>>]

\* Locals::get; Bottom stands for None.
Get(locals, idx) ==
    IF idx < Len(locals.first) THEN locals.first[idx + 1]
    ELSE LET i == BsearchPos(locals.all, idx)
         IN  IF i = Len(locals.all) THEN Bottom ELSE locals.all[i + 1][2]

-----------------------------------------------------------------------------
(* LocalInits: the flags that are set (`inited`), the undo log (`inits`).  *)

set_init(vm, idx) ==
    IF ~vm.ok \/ idx \in vm.inited THEN vm
    ELSE [vm EXCEPT !.inited = @ \cup {idx}, !.inits = Append(@, idx)]

\* LocalInits::pop_ctrl.
reset_inits(vm, height) ==
    [vm EXCEPT !.inited = @ \ {vm.inits[i] : i \in (height + 1)..Len(vm.inits)},
               !.inits = SubSeq(@, 1, height)]

-----------------------------------------------------------------------------
(* The operand stack.  `pops` and `pushes` are the debug build's counters, *)
(* `popped` is the value the last pop returned.                            *)

push_operand(vm, t) ==
    IF ~vm.ok THEN vm
    ELSE [vm EXCEPT !.operands = Append(@, t), !.pushes = @ + 1]

\* Mutant: the frame is not asked whether it is unreachable.
MutPopAny(vm) ==
    IF ~vm.ok \/ vm.control = <<>> THEN Fail(vm)
    ELSE IF Len(vm.operands) = Last(vm.control).height
         THEN [vm EXCEPT !.popped = Bottom, !.pops = @ + 1]
         ELSE [vm EXCEPT !.operands = Front(@), !.popped = Last(vm.operands), !.pops = @ + 1]

\* pop_operand without an expectation.  In unreachable code the stack below
\* the height of the frame yields operands of unknown type.
PopAny(vm) ==
    IF ~vm.ok \/ vm.control = <<>> THEN Fail(vm)
    ELSE LET frame == Last(vm.control)
         IN  IF Len(vm.operands) = frame.height
             THEN IF frame.unreachable
                  THEN [vm EXCEPT !.popped = Bottom, !.pops = @ + 1]
                  ELSE Fail(vm)
             ELSE [vm EXCEPT !.operands = Front(@), !.popped = Last(vm.operands),
                             !.pops = @ + 1]

\* What _pop_operand accepts where `expected` is asked for.
Fits(actual, expected) ==
    CASE actual.k = "bottom" -> TRUE
      [] actual.k = "unknown" ->
           /\ IsRef(expected)
           /\ \/ actual.heap = "-"
              \/ IsSubtype(Types, AbsRef(FALSE, RefIsShared(Types, expected), actual.heap),
                           expected)
      [] OTHER -> IsSubtype(Types, actual, expected)

\* pop_operand and _pop_operand.
pop_operand(vm, expected) ==
    LET v == PopAny(vm)
    IN  IF v.ok /\ ~Fits(v.popped, expected) THEN Fail(v) ELSE v

\* The loops that pop a sequence of types, the last type first.  The operands of
\* the frame are matched from the top; where they run out in unreachable code,
\* the remaining pops yield unknown operands.
PopAll(vm, ts) ==
    IF ~vm.ok \/ ts = <<>> THEN vm
    ELSE IF vm.control = <<>> THEN Fail(vm)
    ELSE LET frame == Last(vm.control)
             height == Len(vm.operands)
             found == IF Len(ts) <= height - frame.height THEN Len(ts) ELSE height - frame.height
         IN  IF /\ found = Len(ts) \/ frame.unreachable
                /\ \A i \in 0..(found - 1) : Fits(vm.operands[height - i], ts[Len(ts) - i])
             THEN [vm EXCEPT !.operands = SubSeq(@, 1, height - found), !.pops = @ + Len(ts)]
             ELSE Fail(vm)

\* The loops that push a sequence of types, the first type first.
PushAll(vm, ts) ==
    IF vm.ok THEN [vm EXCEPT !.operands = @ \o ts, !.pushes = @ + Len(ts)] ELSE vm

pop_push_label_types(vm, ts) == PushAll(PopAll(vm, ts), ts)

\* The operators that put the debug counters back.
Uncounted(vm, before) == [vm EXCEPT !.pops = before.pops, !.pushes = before.pushes]

\* match_stack_operands: pops the types and puts back what it found, an unknown
\* operand for every one that unreachable code has invented.
match_stack_operands(vm, ts) ==
    LET v == PopAll(vm, ts)
        height == Len(v.operands)
        invented == Len(ts) - (Len(vm.operands) - height)
    IN  IF ~v.ok THEN Fail(vm)
        ELSE [vm EXCEPT !.operands = v.operands \o [i \in 1..invented |-> Bottom]
                                     \o SubSeq(@, height + 1, Len(@))]

-----------------------------------------------------------------------------
(* References.                                                             *)

\* pop_ref: what is popped is a reference; an unknown operand becomes one.
AsRef(v) ==
    IF ~v.ok THEN v
    ELSE CASE v.popped.k = "bottom" -> [v EXCEPT !.popped = UnknownRef("-")]
           [] v.popped.k = "unknown" -> v
           [] IsRef(v.popped) -> v
           [] OTHER -> Fail(v)

pop_ref(vm, expected) == AsRef(pop_operand(vm, expected))
pop_any_ref(vm) == AsRef(PopAny(vm))

\* pop_maybe_shared_ref: a subtype of the heap type, shared or not.
pop_maybe_shared_ref(vm, heap) ==
    LET v == pop_any_ref(vm)
    IN  IF ~v.ok THEN v
        ELSE IF v.popped.k = "unknown"
             THEN Require(v, v.popped.heap = "-" \/ AbstractIsSubtype(v.popped.heap, heap))
             ELSE Require(v, IsSubtype(Types, v.popped,
                                       AbsRef(TRUE, RefIsShared(Types, v.popped), heap)))

\* push_concrete_ref and pop_concrete_ref; the index was checked by the caller.
push_concrete_ref(vm, null, idx) == push_operand(vm, ConcreteRef(null, idx))
pop_concrete_ref(vm, null, idx) == pop_operand(vm, ConcreteRef(null, idx))

-----------------------------------------------------------------------------
(* Lookups.  Each yields whether the index is valid; the item itself is    *)
(* read from the constant where it is.                                     *)

\* func_type_at, struct_type_at, array_type_at and cont_type_at: the type
\* exists, has the kind, and is shared where the function is.
TypeAt(idx, kind) ==
    /\ idx \in 1..Len(Types)
    /\ Types[idx].kind = kind
    /\ SharedFunction => Types[idx].shared

FieldAt(idx, f) == TypeAt(idx, "struct") /\ f \in 1..Len(Types[idx].fields)
MutableFieldAt(idx, f) == FieldAt(idx, f) /\ Types[idx].fields[f].mutable
MutableArrayAt(idx) == TypeAt(idx, "array") /\ Types[idx].fields[1].mutable

\* table_type_at and global_type_at.
TableAt(t) == t \in 1..Len(Tables) /\ (SharedFunction => Tables[t].shared)
GlobalAt(g) == g \in 1..Len(Globals) /\ (SharedFunction => Globals[g].shared)

\* tag_at and exception_tag_at.
TagAt(t) == t \in 1..Len(Tags)
TagType(t) == Types[Tags[t]]
ExceptionTagAt(t) == TagAt(t) /\ TagType(t).results = <<>>

FuncTypeOfCont(idx) == Types[Types[idx].func]
DataAt(d) == DataCount # -1 /\ d < DataCount
ElemAt(e) == e \in 1..Len(Elems)

-----------------------------------------------------------------------------
(* Block types and the control stack.                                      *)

\* WasmFeatures::check_ref_type and check_value_type, with the lookup that
\* Module::check_ref_type adds for concrete references.
RefTypeOk(t) ==
    /\ "reference_types" \in Features
    /\ IF IsConcrete(t)
       THEN Features \cap {"function_references", "gc"} # {} /\ t.id \in 1..Len(Types)
       ELSE /\ t.shared => "shared_everything_threads" \in Features
            /\ "gc_types" \notin Features => t.heap \in {"func", "exn"}
            /\ CASE t.heap \in {"func", "extern"} -> t.null \/ "function_references" \in Features
                 [] t.heap \in {"exn", "noexn"} -> "exceptions" \in Features
                 [] t.heap \in {"cont", "nocont"} -> "stack_switching" \in Features
                 [] OTHER -> "gc" \in Features

ValueTypeOk(t) ==
    CASE t.k \in {"i32", "i64"} -> TRUE
      [] t.k \in {"f32", "f64"} -> "floats" \in Features
      [] t.k = "v128" -> "simd" \in Features
      [] OTHER -> RefTypeOk(t)

\* check_block_type.
BlockTypeOk(bt) ==
    /\ bt.k = "type" => ValueTypeOk(bt.ty)
    /\ bt.k = "func" => "multi_value" \in Features /\ TypeAt(bt.idx, "func")

\* params, results and label_types: only a loop is entered at its start; a
\* branch to forall, exists, assume and unique leaves the block.
Params(bt) == IF bt.k = "func" THEN Types[bt.idx].params ELSE <<>>

Results(bt) ==
    CASE bt.k = "empty" -> <<>>
      [] bt.k = "type" -> <<bt.ty>>
      [] OTHER -> Types[bt.idx].results

\* Mutant: a branch to a quantified block takes its parameters, as to a loop.
MutLabelTypes(label) ==
    IF label.kind \in {"Loop", "Forall", "Exists", "Assume", "Unique"}
    THEN Params(label.block_type) ELSE Results(label.block_type)

LabelTypes(label) ==
    IF label.kind = "Loop" THEN Params(label.block_type) ELSE Results(label.block_type)

\* jump: the frame a relative depth names.
JumpOk(vm, depth) == depth < Len(vm.control)
Jump(vm, depth) == vm.control[Len(vm.control) - depth]

\* unreachable: the frame is marked and its operands are dropped.
unreachable(vm) ==
    IF ~vm.ok \/ vm.control = <<>> THEN Fail(vm)
    ELSE [vm EXCEPT !.control[Len(vm.control)].unreachable = TRUE,
                    !.operands = SubSeq(@, 1, Last(vm.control).height)]

\* A new frame above the present operands.
OpenFrame(vm, kind, bt) ==
    IF ~vm.ok THEN vm
    ELSE [vm EXCEPT !.control = Append(@, Frame(kind, bt, Len(vm.operands), Len(vm.inits)))]

push_ctrl(vm, kind, bt) == PushAll(OpenFrame(vm, kind, bt), Params(bt))

\* Mutant: the locals that the frame initialised stay initialised.
Mutpop_ctrl(vm) ==
    IF ~vm.ok \/ vm.control = <<>> THEN Fail(vm)
    ELSE LET v == PopAll(vm, Results(Last(vm.control).block_type))
         IN  IF v.ok /\ Len(v.operands) = Last(vm.control).height
             THEN [v EXCEPT !.control = Front(@)]
             ELSE Fail(v)

\* pop_ctrl: the initialisations of the frame are undone, its results are
\* popped, nothing else may be left.
pop_ctrl(vm) ==
    IF ~vm.ok \/ vm.control = <<>> THEN Fail(vm)
    ELSE LET frame == Last(vm.control)
             v == PopAll(reset_inits(vm, frame.init_height), Results(frame.block_type))
         IN  IF v.ok /\ Len(v.operands) = frame.height
             THEN [v EXCEPT !.control = Front(@)]
             ELSE Fail(v)

-----------------------------------------------------------------------------
(* Calls and returns.                                                      *)

check_call_ty(vm, ft) == PushAll(PopAll(vm, ft.params), ft.results)

check_return(vm) ==
    IF ~vm.ok \/ vm.control = <<>> THEN Fail(vm)
    ELSE unreachable(PopAll(vm, Results(Head(vm.control).block_type)))

\* check_return_call_ty with check_func_type_same_results; matching the results
\* against the function's own is left out of the counts.
check_return_call_ty(vm, ft) ==
    IF ~vm.ok \/ vm.control = <<>> THEN Fail(vm)
    ELSE LET v == PopAll(Require(vm, IsSubtypeMany(Types, ft.results,
                                        Results(Head(vm.control).block_type))),
                         ft.params)
         IN  Uncounted(check_return(PushAll(v, ft.results)), v)

\* check_call_ref_ty and check_call_indirect_ty pop the callee.
check_call_ref_ty(vm, idx) ==
    pop_ref(Require(vm, TypeAt(idx, "func")), ConcreteRef(TRUE, idx))

check_call_indirect_ty(vm, idx, table) ==
    IF ~TableAt(table) THEN Fail(vm)
    ELSE Require(pop_operand(Require(vm, IsSubtype(Types, Tables[table].elem, NullRef("func"))),
                             Tables[table].index),
                 TypeAt(idx, "func"))
=============================================================================
