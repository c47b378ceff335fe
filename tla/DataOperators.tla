----------------------------- MODULE DataOperators -----------------------------
(***************************************************************************)
(* The visitors of the operators that only move operands: arithmetic,      *)
(* vectors, variables, memory, tables, references, structs and arrays      *)
(* (validator/operators.rs and operators/simd.rs).                         *)
(*                                                                         *)
(* Nearly all of them check something that does not depend on the stack,   *)
(* pop a fixed list of types and push another: such a visitor is a         *)
(* signature [ok, pops, pushes, arity], where `arity` is what the operator *)
(* table of lib.rs announces (the number of operands popped and pushed).   *)
(* Those whose result depends on what they pop map a validator to the next *)
(* one.                                                                    *)
(***************************************************************************)
EXTENDS OperatorStack

CONSTANT
    MemArgs     \* set of [memory, align, max_align, beyond32]

Sig(ok, pops, pushes, arity) == [ok |-> ok, pops |-> pops, pushes |-> pushes, arity |-> arity]

\* What a visitor with signature s does.
Apply(vm, s) == IF s.ok THEN PushAll(PopAll(vm, s.pops), s.pushes) ELSE Fail(vm)

\* check_floats_enabled.
Floats == "floats" \in Features

\* WasmProposalValidator in front of a group of visitors.
Gated(feature, sigs) == {[s EXCEPT !.ok = @ /\ feature \in Features] : s \in sigs}

\* The fixed arities of arity.rs.
Unary == <<1, 1>>
Binary == <<2, 1>>
Ternary == <<3, 1>>
Load == <<1, 1>>
Store == <<2, 0>>
Push == <<0, 1>>
LoadLane == <<2, 1>>
Rmw == <<2, 1>>
RmwArray == <<3, 1>>
Cmpxchg == <<3, 1>>

-----------------------------------------------------------------------------
(* Arithmetic. *)

\* check_cmp_op ... check_fbinary_op.
Ready(t) == t \in {F32, F64} => Floats
cmp_op(t) == Sig(Ready(t), <<t, t>>, <<I32>>, Binary)
unary_op(t) == Sig(Ready(t), <<t>>, <<t>>, Unary)
binary_op(t) == Sig(Ready(t), <<t, t>>, <<t>>, Binary)
conversion_op(into, from) == Sig(Ready(into), <<from>>, <<into>>, Unary)

Constants == {Sig(Ready(t), <<>>, <<t>>, Push) : t \in {I32, I64, F32, F64}}

\* i32.uzumaki and i64.uzumaki: a nondeterministic value of the fork.
Uzumaki == {Sig(TRUE, <<>>, <<t>>, Push) : t \in {I32, I64}}

Comparisons == {Sig(TRUE, <<t>>, <<I32>>, Unary) : t \in {I32, I64}}
               \cup {cmp_op(t) : t \in {I32, I64, F32, F64}}

IntegerArithmetic == {unary_op(t) : t \in {I32, I64}} \cup {binary_op(t) : t \in {I32, I64}}
FloatArithmetic == {unary_op(t) : t \in {F32, F64}} \cup {binary_op(t) : t \in {F32, F64}}

Conversions == {conversion_op(p[1], p[2])
                   : p \in {q \in {I32, I64, F32, F64} \X {I32, I64, F32, F64} : q[1] # q[2]}}

SaturatingConversions ==
    Gated("saturating_float_to_int", {conversion_op(t, s) : t \in {I32, I64}, s \in {F32, F64}})

SignExtensions == Gated("sign_extension", {unary_op(t) : t \in {I32, I64}})

WideArithmetic ==
    Gated("wide_arithmetic", {Sig(TRUE, <<I64, I64, I64, I64>>, <<I64, I64>>, <<4, 2>>),
                              Sig(TRUE, <<I64, I64>>, <<I64, I64>>, <<2, 2>>)})

-----------------------------------------------------------------------------
(* Memory. *)

\* check_memory_index.
MemoryAt(m) == m \in 1..Len(Memories)

\* check_memarg and check_shared_memarg.
MemArgOk(a) == /\ MemoryAt(a.memory)
               /\ a.align <= a.max_align
               /\ Memories[a.memory] = I32 => ~a.beyond32

SharedMemArgOk(a) == a.align = a.max_align /\ MemoryAt(a.memory)

\* The address type, where the memory exists.
Address(m) == IF MemoryAt(m) THEN Memories[m] ELSE I32

Loads(a) == {Sig(MemArgOk(a) /\ Ready(t), <<Address(a.memory)>>, <<t>>, Load)
                : t \in {I32, I64, F32, F64}}
Stores(a) == {Sig(MemArgOk(a) /\ Ready(t), <<Address(a.memory), t>>, <<>>, Store)
                : t \in {I32, I64, F32, F64}}

MemorySizes(m) == {Sig(MemoryAt(m), <<>>, <<Address(m)>>, Push),
                   Sig(MemoryAt(m), <<Address(m)>>, <<Address(m)>>, Unary)}

\* The length of a copy has the smaller of the two address types.
CopyLength(dst, src) == IF src = I32 THEN I32 ELSE dst

MemoryBulk(m, src, d) ==
    Gated("bulk_memory",
        {Sig(MemoryAt(m) /\ DataAt(d), <<Address(m), I32, I32>>, <<>>, <<3, 0>>),
         Sig(DataAt(d), <<>>, <<>>, <<0, 0>>),
         Sig(MemoryAt(m) /\ MemoryAt(src),
             <<Address(m), Address(src), CopyLength(Address(m), Address(src))>>, <<>>, <<3, 0>>),
         Sig(MemoryAt(m), <<Address(m), I32, Address(m)>>, <<>>, <<3, 0>>)})

MemoryDiscard(m) ==
    Gated("memory_control", {Sig(MemoryAt(m), <<Address(m), Address(m)>>, <<>>, <<2, 0>>)})

AtomicAccess(a) ==
    Gated("threads",
        {Sig(SharedMemArgOk(a), <<Address(a.memory)>>, <<t>>, Load) : t \in {I32, I64}}
        \cup {Sig(SharedMemArgOk(a), <<Address(a.memory), t>>, <<>>, Store) : t \in {I32, I64}})

AtomicRmw(a) ==
    Gated("threads",
        {Sig(SharedMemArgOk(a), <<Address(a.memory), t>>, <<t>>, Rmw) : t \in {I32, I64}}
        \cup {Sig(SharedMemArgOk(a), <<Address(a.memory), t, t>>, <<t>>, Cmpxchg)
                 : t \in {I32, I64}})

AtomicWait(a) ==
    Gated("threads",
        {Sig(SharedMemArgOk(a), <<Address(a.memory), I32>>, <<I32>>, Binary),
         Sig(SharedMemArgOk(a), <<Address(a.memory), I32, I64>>, <<I32>>, Ternary),
         Sig(SharedMemArgOk(a), <<Address(a.memory), I64, I64>>, <<I32>>, Ternary),
         Sig(TRUE, <<>>, <<>>, <<0, 0>>)})

-----------------------------------------------------------------------------
(* Vectors. *)

\* check_simd_lane_index, at and just beyond the last lane.
LaneOk(lane, max) == lane < max

VectorMoves(a) ==
    Gated("simd",
        {Sig(MemArgOk(a), <<Address(a.memory)>>, <<V128>>, Load),
         Sig(MemArgOk(a), <<Address(a.memory), V128>>, <<>>, Store),
         Sig(TRUE, <<>>, <<V128>>, Push)}
        \cup {Sig(Ready(t), <<t>>, <<V128>>, Unary) : t \in {I32, I64, F32, F64}})

LaneTypes == {<<16, I32>>, <<8, I32>>, <<4, I32>>, <<2, I64>>, <<4, F32>>, <<2, F64>>}

\* extract_lane and replace_lane of one shape.
LaneMoves(l, i) ==
    {Sig(Ready(l[2]) /\ LaneOk(i, l[1]), <<V128>>, <<l[2]>>, Unary),
     Sig(Ready(l[2]) /\ LaneOk(i, l[1]), <<V128, l[2]>>, <<V128>>, Binary)}

VectorLanes == Gated("simd", UNION {LaneMoves(l, i) : l \in LaneTypes, i \in {1, 2, 4, 8, 16}})

VectorFloatBinary == Gated("simd", {Sig(Floats, <<V128, V128>>, <<V128>>, Binary)})
VectorBinary == Gated("simd", {Sig(TRUE, <<V128, V128>>, <<V128>>, Binary)})
VectorFloatUnary == Gated("simd", {Sig(Floats, <<V128>>, <<V128>>, Unary)})
VectorUnary == Gated("simd", {Sig(TRUE, <<V128>>, <<V128>>, Unary)})
VectorTernary == Gated("simd", {Sig(TRUE, <<V128, V128, V128>>, <<V128>>, Ternary)})
VectorRelaxed == Gated("relaxed_simd", VectorTernary \cup VectorBinary \cup VectorUnary)
VectorBitmask == Gated("simd", {Sig(TRUE, <<V128>>, <<I32>>, Unary)})
VectorShift == Gated("simd", {Sig(TRUE, <<V128, I32>>, <<V128>>, Binary)})
VectorShuffle == Gated("simd", {Sig(LaneOk(i, 32), <<V128, V128>>, <<V128>>, Binary) : i \in {31, 32}})
VectorLoads(a) == Gated("simd", {Sig(MemArgOk(a), <<Address(a.memory)>>, <<V128>>, Load)})

VectorLaneAccess(a) ==
    Gated("simd", UNION {
        {Sig(MemArgOk(a) /\ LaneOk(i, max), <<Address(a.memory), V128>>, <<V128>>, LoadLane),
         Sig(MemArgOk(a) /\ LaneOk(i, max), <<Address(a.memory), V128>>, <<>>, Store)}
            : max \in {16, 8, 4, 2}, i \in {1, 2, 16}})

-----------------------------------------------------------------------------
(* Globals and tables. *)

\* The types atomics on globals admit; heap is "any" or "eq".
GlobalAtomicType(t, heap) == t \in {I32, I64} \/ IsSubtype(Types, t, NullRef(heap))

\* The types atomics on tables, structs and arrays admit: here the references
\* are shared ones.
SharedAtomicType(t, heap) == t \in {I32, I64} \/ IsSubtype(Types, t, AsShared(NullRef(heap)))

GlobalAccess(g) ==
    LET t == Globals[g].ty
    IN  {Sig(GlobalAt(g), <<>>, <<t>>, Push),
         Sig(GlobalAt(g) /\ Globals[g].mutable, <<t>>, <<>>, <<1, 0>>)}
        \cup Gated("shared_everything_threads",
                {Sig(GlobalAt(g) /\ GlobalAtomicType(t, "any"), <<>>, <<t>>, Push),
                 Sig(GlobalAt(g) /\ Globals[g].mutable /\ GlobalAtomicType(t, "any"),
                     <<t>>, <<>>, <<1, 0>>)})

GlobalRmw(g) ==
    LET t == Globals[g].ty
    IN  Gated("shared_everything_threads",
            {Sig(GlobalAt(g) /\ t \in {I32, I64}, <<t>>, <<t>>, Unary),
             Sig(GlobalAt(g) /\ GlobalAtomicType(t, "any"), <<t>>, <<t>>, Unary),
             Sig(GlobalAt(g) /\ GlobalAtomicType(t, "eq"), <<t, t>>, <<t>>, Binary)})

TableBulk(t, src, e) ==
    Gated("bulk_memory",
        {Sig(TableAt(t) /\ ElemAt(e) /\ IsSubtype(Types, Elems[e], Tables[t].elem),
             <<Tables[t].index, I32, I32>>, <<>>, <<3, 0>>),
         Sig(ElemAt(e), <<>>, <<>>, <<0, 0>>),
         Sig(TableAt(t) /\ TableAt(src) /\ IsSubtype(Types, Tables[src].elem, Tables[t].elem),
             <<Tables[t].index, Tables[src].index,
               CopyLength(Tables[t].index, Tables[src].index)>>, <<>>, <<3, 0>>)})

TableAccess(t) ==
    LET elem == Tables[t].elem
        index == Tables[t].index
    IN  Gated("reference_types",
            {Sig(TableAt(t), <<index>>, <<elem>>, Unary),
             Sig(TableAt(t), <<index, elem>>, <<>>, <<2, 0>>),
             Sig(TableAt(t), <<elem, index>>, <<index>>, Binary),
             Sig(TableAt(t), <<>>, <<index>>, Push),
             Sig(TableAt(t), <<index, elem, index>>, <<>>, <<3, 0>>)})

TableAtomics(t) ==
    LET elem == Tables[t].elem
        index == Tables[t].index
        any == TableAt(t) /\ SharedAtomicType(elem, "any")
    IN  Gated("shared_everything_threads",
            {Sig(any, <<index>>, <<elem>>, Unary),
             Sig(any, <<index, elem>>, <<>>, <<2, 0>>),
             Sig(any, <<index, elem>>, <<elem>>, Binary),
             Sig(TableAt(t) /\ SharedAtomicType(elem, "eq"), <<index, elem, elem>>, <<elem>>,
                 Ternary)})

-----------------------------------------------------------------------------
(* Parametric operators and locals. *)

visit_drop(vm) == PopAny(vm)

\* visit_select: numeric operands of one type; an operand of unreachable code
\* takes the type of the other.
visit_select(vm) ==
    LET a == PopAny(pop_operand(vm, I32))
        b == PopAny(a)
        t == IF a.popped.k = "bottom" THEN b.popped ELSE a.popped
    IN  IF /\ b.ok
           /\ {a.popped.k, b.popped.k} \cap {"ref", "unknown"} = {}
           /\ a.popped.k # "bottom" /\ b.popped.k # "bottom" => a.popped = b.popped
        THEN push_operand(b, t)
        ELSE Fail(b)

TypedSelect(t) == Sig(ValueTypeOk(t), <<t, t, I32>>, <<t>>, <<3, 1>>)

visit_local_get(vm, locals, idx) ==
    LET t == Get(locals, idx)
    IN  IF t # Bottom /\ idx \in vm.inited THEN push_operand(vm, t) ELSE Fail(vm)

visit_local_set(vm, locals, idx) ==
    LET t == Get(locals, idx)
    IN  IF t # Bottom THEN set_init(pop_operand(vm, t), idx) ELSE Fail(vm)

visit_local_tee(vm, locals, idx) ==
    LET v == visit_local_set(vm, locals, idx)
    IN  IF v.ok THEN push_operand(v, Get(locals, idx)) ELSE v

-----------------------------------------------------------------------------
(* References. *)

RefNull(t) == Sig(RefTypeOk(t), <<>>, <<t>>, Push)

RefFunc(f) ==
    Sig(f \in 1..Len(Funcs) /\ f \in Referenced,
        <<>>, IF f \in 1..Len(Funcs) THEN <<ConcreteRef(FALSE, Funcs[f])>> ELSE <<>>, Push)

visit_ref_as_non_null(vm) ==
    LET v == pop_any_ref(vm) IN IF v.ok THEN push_operand(v, MaybeNonNull(v.popped)) ELSE v

visit_ref_is_null(vm) == push_operand(pop_any_ref(vm), I32)

visit_ref_eq(vm) ==
    LET a == pop_maybe_shared_ref(vm, "eq")
        b == pop_maybe_shared_ref(a, "eq")
    IN  push_operand(Require(b, b.ok => SameSharedness(a.popped, b.popped)), I32)

\* check_ref_test and check_ref_cast, over check_downcast: any reference of the
\* hierarchy of the target may be tested.
visit_ref_test(vm, t) ==
    IF IsConcrete(t) => t.id \in 1..Len(Types)
    THEN push_operand(pop_ref(vm, TopRef(Types, t)), I32)
    ELSE Fail(vm)

visit_ref_cast(vm, t) ==
    IF IsConcrete(t) => t.id \in 1..Len(Types)
    THEN push_operand(pop_ref(vm, TopRef(Types, t)), t)
    ELSE Fail(vm)

\* visit_any_convert_extern (from "extern" into "any") and visit_extern_convert_any.
visit_convert(vm, from, into) ==
    LET v == pop_maybe_shared_ref(vm, from)
        t == v.popped
    IN  IF ~v.ok THEN v
        ELSE push_operand(v, IF IsKnown(t) THEN AbsRef(t.null, RefIsShared(Types, t), into)
                             ELSE UnknownRef(into))

RefI31 == {Sig("gc" \in Features, <<I32>>, <<AbsRef(FALSE, FALSE, "i31")>>, Unary),
           Sig("shared_everything_threads" \in Features,
               <<I32>>, <<AbsRef(FALSE, TRUE, "i31")>>, Unary)}

visit_i31_get(vm) == push_operand(pop_maybe_shared_ref(vm, "i31"), I32)

-----------------------------------------------------------------------------
(* Structs. *)

\* The stored types of a composite type, as operands.
Unpacked(idx) == [i \in 1..Len(Types[idx].fields) |-> Unpack(Types[idx].fields[i].ty)]

StructNew(s) ==
    LET ok == TypeAt(s, "struct")
        fields == IF ok THEN Unpacked(s) ELSE <<>>
    IN  Gated("gc",
            {Sig(ok, fields, <<ConcreteRef(FALSE, s)>>, <<Len(fields), 1>>),
             Sig(ok /\ (\A i \in DOMAIN fields : IsDefaultable(fields[i])),
                 <<>>, <<ConcreteRef(FALSE, s)>>, Push)})

FieldType(s, f) == IF FieldAt(s, f) THEN Types[s].fields[f].ty ELSE I32

\* struct.get wants a field that is not packed, get_s and get_u a packed one;
\* the atomic forms restrict the type further.
StructGet(s, f) ==
    LET st == FieldType(s, f)
        get(ok) == Sig(FieldAt(s, f) /\ ok, <<ConcreteRef(TRUE, s)>>, <<Unpack(st)>>, Unary)
    IN  Gated("gc", {get(~IsPacked(st)), get(IsPacked(st))})
        \cup Gated("shared_everything_threads",
                {get(~IsPacked(st) /\ SharedAtomicType(st, "any")), get(IsPacked(st))})

StructSet(s, f) ==
    LET st == FieldType(s, f)
        set(ok) == Sig(MutableFieldAt(s, f) /\ ok, <<ConcreteRef(TRUE, s), Unpack(st)>>, <<>>,
                       <<2, 0>>)
    IN  Gated("gc", {set(TRUE)})
        \cup Gated("shared_everything_threads", {set(IsPacked(st) \/ SharedAtomicType(st, "any"))})

StructRmw(s, f) ==
    LET st == FieldType(s, f)
        rmw(ok, extra, arity) ==
            Sig(MutableFieldAt(s, f) /\ ~IsPacked(st) /\ ok,
                <<ConcreteRef(TRUE, s), st>> \o extra, <<st>>, arity)
    IN  Gated("shared_everything_threads",
            {rmw(st \in {I32, I64}, <<>>, Rmw),
             rmw(SharedAtomicType(st, "any"), <<>>, <<2, 1>>),
             rmw(SharedAtomicType(st, "eq"), <<st>>, <<3, 1>>)})

-----------------------------------------------------------------------------
(* Arrays. *)

ElemType(a) == IF TypeAt(a, "array") THEN Types[a].fields[1].ty ELSE I32

ArrayNew(a) ==
    LET t == Unpack(ElemType(a))
        new(ok, pops, n) == Sig(TypeAt(a, "array") /\ ok, pops, <<ConcreteRef(FALSE, a)>>, <<n, 1>>)
    IN  Gated("gc", {new(TRUE, <<t, I32>>, 2), new(IsDefaultable(t), <<I32>>, 1)}
                    \cup {new(TRUE, [i \in 1..n |-> t], n) : n \in 0..2})

\* array.new_data and new_elem, array.init_data and init_elem.
ArraySegments(a, d, e) ==
    LET t == Unpack(ElemType(a))
        data == ~IsRef(t) /\ DataAt(d)
        elem == IsRef(t) /\ ElemAt(e) /\ IsSubtype(Types, Elems[e], t)
    IN  Gated("gc",
            {Sig(TypeAt(a, "array") /\ ok, <<I32, I32>>, <<ConcreteRef(FALSE, a)>>, <<2, 1>>)
                : ok \in {data, elem}}
            \cup {Sig(MutableArrayAt(a) /\ ok, <<ConcreteRef(TRUE, a), I32, I32, I32>>, <<>>,
                      <<4, 0>>) : ok \in {data, elem}})

ArrayGet(a) ==
    LET st == ElemType(a)
        get(ok) == Sig(TypeAt(a, "array") /\ ok, <<ConcreteRef(TRUE, a), I32>>, <<Unpack(st)>>,
                       <<2, 1>>)
    IN  Gated("gc", {get(~IsPacked(st)), get(IsPacked(st))})
        \cup Gated("shared_everything_threads",
                {get(~IsPacked(st) /\ SharedAtomicType(st, "any")), get(IsPacked(st))})

ArraySet(a) ==
    LET st == ElemType(a)
        set(ok) == Sig(MutableArrayAt(a) /\ ok, <<ConcreteRef(TRUE, a), I32, Unpack(st)>>, <<>>,
                       <<3, 0>>)
    IN  Gated("gc", {set(TRUE)})
        \cup Gated("shared_everything_threads", {set(IsPacked(st) \/ SharedAtomicType(st, "any"))})

visit_array_len(vm) == push_operand(pop_maybe_shared_ref(vm, "array"), I32)

ArrayFill(a) ==
    Sig("gc" \in Features /\ MutableArrayAt(a), <<ConcreteRef(TRUE, a), I32, Unpack(ElemType(a)), I32>>, <<>>, <<4, 0>>)

\* array.copy: packed elements of one width, or a subtype.
ArrayCopy(dst, src) ==
    Sig("gc" \in Features /\ MutableArrayAt(dst) /\ TypeAt(src, "array")
            /\ StorageMatches(Types, ElemType(src), ElemType(dst)),
        <<ConcreteRef(TRUE, dst), I32, ConcreteRef(TRUE, src), I32, I32>>, <<>>, <<5, 0>>)

ArrayRmw(a) ==
    LET st == ElemType(a)
        rmw(ok, extra, arity) ==
            Sig(MutableArrayAt(a) /\ ~IsPacked(st) /\ ok,
                <<ConcreteRef(TRUE, a), I32, st>> \o extra, <<st>>, arity)
    IN  Gated("shared_everything_threads",
            {rmw(st \in {I32, I64}, <<>>, RmwArray),
             rmw(SharedAtomicType(st, "any"), <<>>, <<3, 1>>),
             rmw(SharedAtomicType(st, "eq"), <<st>>, <<4, 1>>)})
=============================================================================
