--------------------------- MODULE OperatorValidator ---------------------------
(***************************************************************************)
(* FuncValidator::validate of inf-wasmparser: the locals of a function are *)
(* declared, its operators are visited one by one, and `finish` accepts.   *)
(* An operator is any operator with any arguments from the instance, so    *)
(* the behaviours are all operator sequences, well typed or not.           *)
(*                                                                         *)
(* In a debug build the operands that a visitor pops and pushes are        *)
(* counted and compared with the arity the operator table announces; a     *)
(* difference is a panic.                                                  *)
(***************************************************************************)
EXTENDS ControlOperators, DataOperators

CONSTANTS
    FuncType,       \* type index of the function
    BlockTypes, RefTypes, ValueTypes, CatchLists, HandlerLists, Depths,
    MaxGroup,       \* largest count of one group of locals
    MaxOperators, MaxOperands, MaxFrames

VARIABLES
    operands, control, inited, inits, locals,
    emptied,        \* end_which_emptied_control: "no", "just" now or in the "past"
    status,         \* "locals", "operators", "accepted", "rejected", "panicked"
    steps,          \* operators visited
    declared,       \* history: the type of every local, one by one
    entry           \* history: for every frame, the locals initialised at its entry

ASSUME OperatorAssumption ==
    /\ FuncType \in FuncTypeIds
    /\ ValueTypes \subseteq ParsedTypes /\ RefTypes \subseteq ParsedTypes
    /\ \A t \in RefTypes : IsRef(t)
    /\ \A bt \in BlockTypes : \/ bt = NoBlock
                              \/ bt.ty \in ParsedTypes /\ bt = TypeBlock(bt.ty)
                              \/ bt.idx \in Nat /\ bt = FuncBlock(bt.idx)
    /\ Depths \subseteq Nat /\ MaxGroup \in Nat

vars == <<operands, control, inited, inits, locals, emptied, status, steps, declared, entry>>

FunctionParams == Types[FuncType].params

\* OperatorValidator::new_func.
Init ==
    /\ operands = <<>> /\ inits = <<>>
    /\ control = <<Frame("Block", FuncBlock(FuncType), 0, 0)>>
    /\ locals = FoldLeft(LAMBDA ls, t : Define(ls, 1, t), EmptyLocals, FunctionParams)
    /\ inited = 0..(Len(FunctionParams) - 1)
    /\ declared = FunctionParams
    /\ emptied = "no" /\ status = "locals" /\ steps = 0
    /\ entry = <<inited>>

\* An error drops the validator: nothing of it is observable any more.
Drop(outcome) ==
    /\ status' = outcome
    /\ operands' = <<>> /\ control' = <<>> /\ inited' = {} /\ inits' = <<>>
    /\ locals' = EmptyLocals /\ declared' = <<>> /\ entry' = <<>>
    /\ emptied' = "no" /\ steps' = 0

\* OperatorValidator::define_locals, for one group of read_locals.
DefineLocals ==
    /\ status = "locals"
    /\ \E count \in 0..MaxGroup, t \in ValueTypes :
          IF ~ValueTypeOk(t) \/ ~CanDefine(locals, count) THEN Drop("rejected")
          ELSE /\ count > 0
               /\ locals' = Define(locals, count, t)
               /\ declared' = declared \o [i \in 1..count |-> t]
               /\ inited' = inited \cup
                    (IF IsDefaultable(t) THEN locals.num_locals..(locals.num_locals + count - 1)
                     ELSE {})
               /\ entry' = <<inited'>>
               /\ UNCHANGED <<operands, control, inits, emptied, status, steps>>

StartOperators ==
    /\ status = "locals"
    /\ status' = "operators"
    /\ UNCHANGED <<operands, control, inited, inits, locals, emptied, steps, declared, entry>>

-----------------------------------------------------------------------------
(* One operator: FuncValidator::validate around visit_operator. *)

Vm == [operands |-> operands, control |-> control, inited |-> inited, inits |-> inits,
       pops |-> 0, pushes |-> 0, popped |-> Bottom, ok |-> TRUE]

\* operator_arity has no answer.
NoArity == <<-1, -1>>

Continue(v) ==
    /\ Len(v.operands) <= MaxOperands /\ Len(v.control) <= MaxFrames
    /\ operands' = v.operands /\ control' = v.control
    /\ inited' = v.inited /\ inits' = v.inits
    /\ emptied' = CASE emptied = "no" /\ v.control = <<>> -> "just"
                    [] emptied = "no" /\ v.control # <<>> -> "no"
                    [] OTHER -> "past"
    /\ entry' = IF Len(v.control) > Len(control) THEN Append(entry, inited)
                ELSE SubSeq(entry, 1, Len(v.control))
    /\ steps' = steps + 1
    /\ UNCHANGED <<locals, declared, status>>

Visit(vm, arity) ==
    \E v \in {vm} :
        IF ~v.ok \/ arity = NoArity THEN Drop("rejected")
        ELSE IF <<v.pops, v.pushes>> # arity THEN Drop("panicked")
        ELSE Continue(v)

VisitSig(s) == Visit(Apply(Vm, s), s.arity)

-----------------------------------------------------------------------------
(* The variable arities of arity.rs, read from the module and the frames   *)
(* before the operator is visited.  A count is <<params, results>>.        *)

sub_type_arity(i) ==
    IF i \notin 1..Len(Types) THEN NoArity
    ELSE CASE Types[i].kind = "func" -> <<Len(Types[i].params), Len(Types[i].results)>>
           [] Types[i].kind = "struct" -> <<Len(Types[i].fields), Len(Types[i].fields)>>
           [] Types[i].kind = "cont" ->
                <<Len(FuncTypeOfCont(i).params), Len(FuncTypeOfCont(i).results)>>
           [] OTHER -> NoArity

block_type_arity(bt) ==
    CASE bt.k = "empty" -> <<0, 0>>
      [] bt.k = "type" -> <<0, 1>>
      [] OTHER -> sub_type_arity(bt.idx)

label_arity(depth) ==
    IF JumpOk(Vm, depth) THEN block_type_arity(Jump(Vm, depth).block_type) ELSE NoArity

\* count br: of the arms for the frame kinds only the first, for Loop, applies.
br_count(depth) ==
    IF label_arity(depth) = NoArity THEN -1
    ELSE IF Jump(Vm, depth).kind = "Loop" THEN label_arity(depth)[1] ELSE label_arity(depth)[2]

implicit_else ==
    IF control # <<>> /\ Last(control).kind = "If"
    THEN <<label_arity(0)[2], label_arity(0)[1]>> ELSE <<0, 0>>

tag_arity(t) == IF TagAt(t) THEN sub_type_arity(Tags[t]) ELSE NoArity

switch_arity(i) ==
    IF /\ i \in 1..Len(Types) /\ Types[i].kind = "cont" /\ FuncTypeOfCont(i).params # <<>>
       /\ IsRef(Last(FuncTypeOfCont(i).params)) /\ IsConcrete(Last(FuncTypeOfCont(i).params))
    THEN sub_type_arity(Last(FuncTypeOfCont(i).params).id) ELSE NoArity

type_diff(a, b) ==
    IF NoArity \in {sub_type_arity(a), sub_type_arity(b)} THEN -1
    ELSE IF sub_type_arity(a)[2] < sub_type_arity(b)[2] THEN -1
    ELSE sub_type_arity(a)[1] - sub_type_arity(b)[1]

\* params and results of an annotation: unknown when a part of it is.
Announce(pops, pushes) == IF pops < 0 \/ pushes < 0 THEN NoArity ELSE <<pops, pushes>>

\* A count of -1 stays unknown whatever is added to it.
Plus(n, count) == IF count < 0 THEN -1 ELSE n + count

-----------------------------------------------------------------------------
(* Operators, by group. *)

Nop == Visit(Vm, <<0, 0>>)
Unreachable == Visit(unreachable(Vm), <<0, 0>>)

OpenBlock ==
    \E bt \in BlockTypes :
        LET a == block_type_arity(bt)
        IN  \/ \E kind \in {"Block", "Loop"} \cup QuantifiedKinds :
                 Visit(visit_block(Vm, kind, bt), <<a[1], a[1]>>)
            \/ Visit(visit_if(Vm, bt), Announce(Plus(1, a[1]), a[1]))
            \/ Visit(visit_block(Gate(Vm, "legacy_exceptions"), "LegacyTry", bt), <<a[1], a[1]>>)
            \/ \E catches \in CatchLists :
                 Visit(visit_try_table(Gate(Vm, "exceptions"), bt, catches), <<a[1], a[1]>>)

Else == Visit(visit_else(Vm), <<label_arity(0)[2], label_arity(0)[1]>>)

End == Visit(visit_end(Vm), Announce(Plus(implicit_else[1], label_arity(0)[2]),
                                     Plus(implicit_else[2], label_arity(0)[2])))

Branch ==
    \E d \in Depths :
        \/ Visit(visit_br(Vm, d), Announce(br_count(d), 0))
        \/ Visit(visit_br_if(Vm, d), Announce(Plus(1, br_count(d)), br_count(d)))
        \/ \E e \in Depths :
             Visit(visit_br_table(Vm, <<e>>, d), Announce(Plus(1, br_count(d)), 0))

Return == Visit(check_return(Vm), Announce(label_arity(Len(control) - 1)[2], 0))

CallFunction ==
    \E f \in 1..(Len(Funcs) + 1) :
        LET a == IF f \in 1..Len(Funcs) THEN sub_type_arity(Funcs[f]) ELSE NoArity
        IN  \/ Visit(visit_call(Vm, f), a)
            \/ Visit(visit_return_call(Gate(Vm, "tail_call"), f), Announce(a[1], 0))

CallIndirect ==
    \E i \in 1..Len(Types) :
        LET a == sub_type_arity(i)
            call == Announce(Plus(1, a[1]), a[2])
            tail == Announce(Plus(1, a[1]), 0)
        IN  \/ Visit(visit_call_ref(Gate(Vm, "function_references"), i, FALSE), call)
            \/ Visit(visit_call_ref(Gate(Vm, "function_references"), i, TRUE), tail)
            \/ \E t \in 1..Len(Tables) :
                 \/ Visit(visit_call_indirect(Vm, i, t, FALSE), call)
                 \/ Visit(visit_call_indirect(Gate(Vm, "tail_call"), i, t, TRUE), tail)

Exceptions ==
    \/ \E t \in 1..Len(Tags) :
         Visit(visit_throw(Gate(Vm, "exceptions"), t), Announce(tag_arity(t)[1], 0))
    \/ Visit(visit_throw_ref(Gate(Vm, "exceptions")), <<1, 0>>)

LegacyExceptions ==
    LET vm == Gate(Vm, "legacy_exceptions")
    IN  \/ \E t \in 1..Len(Tags) :
             Visit(visit_catch(vm, t), Announce(label_arity(0)[2], tag_arity(t)[1]))
        \/ Visit(visit_catch_all(vm), Announce(label_arity(0)[2], 0))
        \/ \E d \in Depths : \/ Visit(visit_rethrow(vm, d), <<0, 0>>)
                             \/ Visit(visit_delegate(vm, d),
                                      Announce(label_arity(0)[2], label_arity(0)[2]))

BranchOnReference ==
    \E d \in Depths :
        LET n == br_count(d)
            refs == Gate(Vm, "function_references")
        IN  \/ Visit(visit_br_on_null(refs, d), Announce(Plus(1, n), Plus(1, n)))
            \/ Visit(visit_br_on_non_null(refs, d), Announce(n, n - 1))
            \/ \E from, to \in RefTypes :
                 \/ Visit(visit_br_on_cast(Gate(Vm, "gc"), d, from, to), Announce(n, n))
                 \/ Visit(visit_br_on_cast_fail(Gate(Vm, "gc"), d, from, to), Announce(n, n))

Continuations ==
    LET vm == Gate(Vm, "stack_switching")
    IN  \E i \in 1..Len(Types) :
          LET a == sub_type_arity(i)
          IN  \/ Visit(visit_cont_new(vm, i), <<1, 1>>)
              \/ \E r \in 1..Len(Types) :
                   Visit(visit_cont_bind(vm, i, r), Announce(Plus(1, type_diff(i, r)), 1))
              \/ \E hs \in HandlerLists :
                   \/ Visit(visit_resume(vm, i, hs), Announce(Plus(1, a[1]), a[2]))
                   \/ \E t \in 1..Len(Tags) :
                        Visit(visit_resume_throw(vm, i, t, hs),
                              Announce(Plus(1, tag_arity(t)[1]), a[2]))
              \/ \E t \in 1..Len(Tags) :
                   Visit(visit_switch(vm, i, t), Announce(a[1], switch_arity(i)[1]))

Suspend == \E t \in 1..Len(Tags) : Visit(visit_suspend(Gate(Vm, "stack_switching"), t), tag_arity(t))

Parametric ==
    \/ Visit(visit_drop(Vm), <<1, 0>>)
    \/ Visit(visit_select(Vm), <<3, 1>>)
    \/ \E t \in ValueTypes : VisitSig(TypedSelect(t))

LocalAccess ==
    \E i \in 0..locals.num_locals :
        \/ Visit(visit_local_get(Vm, locals, i), <<0, 1>>)
        \/ Visit(visit_local_set(Vm, locals, i), <<1, 0>>)
        \/ Visit(visit_local_tee(Vm, locals, i), <<1, 1>>)

NumericSigs ==
    Constants \cup Uzumaki \cup Comparisons \cup IntegerArithmetic \cup FloatArithmetic
    \cup Conversions \cup SaturatingConversions \cup SignExtensions \cup WideArithmetic
Numeric == \E s \in NumericSigs : VisitSig(s)

MemorySigs ==
    (UNION {Loads(a) \cup Stores(a) \cup AtomicAccess(a) \cup AtomicRmw(a) \cup AtomicWait(a)
               : a \in MemArgs})
    \cup UNION {MemorySizes(m) \cup MemoryBulk(m, 1, d) \cup MemoryDiscard(m)
                   : m \in 1..(Len(Memories) + 1), d \in 0..1}
Memory == \E s \in MemorySigs : VisitSig(s)

VectorSigs ==
    VectorLanes \cup VectorFloatBinary \cup VectorBinary \cup VectorFloatUnary \cup VectorUnary
    \cup VectorTernary \cup VectorRelaxed \cup VectorBitmask \cup VectorShift \cup VectorShuffle
    \cup UNION {VectorMoves(a) \cup VectorLoads(a) \cup VectorLaneAccess(a) : a \in MemArgs}
Vector == \E s \in VectorSigs : VisitSig(s)

GlobalSigs == UNION {GlobalAccess(g) \cup GlobalRmw(g) : g \in 1..Len(Globals)}
Global == \E s \in GlobalSigs : VisitSig(s)

TableSigs ==
    UNION {TableBulk(t, src, e) \cup TableAccess(t) \cup TableAtomics(t)
              : t \in 1..Len(Tables), src \in 1..Len(Tables), e \in 1..Len(Elems)}
Table == \E s \in TableSigs : VisitSig(s)

Reference ==
    \/ \E t \in RefTypes : VisitSig(RefNull(AsNullable(t)))
    \/ \E f \in 1..(Len(Funcs) + 1) : VisitSig(RefFunc(f))
    \/ Visit(visit_ref_as_non_null(Gate(Vm, "function_references")), <<1, 1>>)
    \/ Visit(visit_ref_is_null(Vm), <<1, 1>>)
    \/ Visit(visit_ref_eq(Gate(Vm, "gc")), <<2, 1>>)
    \/ \E t \in RefTypes : \/ Visit(visit_ref_test(Gate(Vm, "gc"), t), <<1, 1>>)
                           \/ Visit(visit_ref_cast(Gate(Vm, "gc"), t), <<1, 1>>)
    \/ Visit(visit_convert(Gate(Vm, "gc"), "extern", "any"), <<1, 1>>)
    \/ Visit(visit_convert(Gate(Vm, "gc"), "any", "extern"), <<1, 1>>)
    \/ \E s \in RefI31 : VisitSig(s)
    \/ Visit(visit_i31_get(Gate(Vm, "gc")), <<1, 1>>)
    \/ Visit(visit_array_len(Gate(Vm, "gc")), <<1, 1>>)

StructSigs ==
    UNION {StructNew(i) \cup StructGet(i, f) \cup StructSet(i, f) \cup StructRmw(i, f)
              : i \in 1..Len(Types), f \in 1..2}
Struct == \E s \in StructSigs : VisitSig(s)

ArraySigs ==
    UNION {ArrayNew(a) \cup ArrayGet(a) \cup ArraySet(a) \cup ArrayRmw(a) \cup {ArrayFill(a)}
           \cup {ArrayCopy(a, src) : src \in 1..Len(Types)}
           \cup UNION {ArraySegments(a, d, e) : d \in 0..1, e \in 1..Len(Elems)}
              : a \in 1..Len(Types)}
Array == \E s \in ArraySigs : VisitSig(s)

\* Mutant: operators after the last `end` go unnoticed.
MutFinish ==
    /\ status = "operators"
    /\ IF control # <<>> THEN Drop("rejected")
       ELSE /\ status' = "accepted"
            /\ UNCHANGED <<operands, control, inited, inits, locals, emptied, steps,
                           declared, entry>>

\* FuncValidator::finish, at the end of the body.
Finish ==
    /\ status = "operators"
    /\ IF control # <<>> \/ emptied # "just" THEN Drop("rejected")
       ELSE /\ status' = "accepted"
            /\ UNCHANGED <<operands, control, inited, inits, locals, emptied, steps,
                           declared, entry>>

\* The end of a validation; the caller has the answer.
Done == status \in {"accepted", "rejected", "panicked"} /\ UNCHANGED vars

Operator ==
    /\ status = "operators" /\ steps < MaxOperators
    /\ \/ Nop \/ Unreachable \/ OpenBlock \/ Else \/ End \/ Branch \/ Return \/ CallFunction
       \/ CallIndirect \/ Exceptions \/ LegacyExceptions \/ BranchOnReference \/ Continuations
       \/ Suspend \/ Parametric \/ LocalAccess \/ Numeric \/ Memory \/ Vector \/ Global \/ Table
       \/ Reference \/ Struct \/ Array

Next == DefineLocals \/ StartOperators \/ Operator \/ Finish \/ Done

Spec == Init /\ [][Next]_vars

-----------------------------------------------------------------------------
(* Properties. *)

\* The frames are nested: the heights of the operand stack and of the undo log
\* grow from frame to frame, and no frame starts above the stacks it cuts.
TypeOK ==
    /\ status \in {"locals", "operators", "accepted", "rejected", "panicked"}
    /\ emptied \in {"no", "just", "past"}
    /\ Len(entry) = Len(control) /\ ToSet(inits) \subseteq inited
    /\ \A i \in 1..Len(control) :
          /\ control[i].height <= IF i = Len(control) THEN Len(operands) ELSE control[i + 1].height
          /\ control[i].init_height <= IF i = Len(control) THEN Len(inits)
                                       ELSE control[i + 1].init_height

\* The frame that holds the operand at position i.
Owner(i) == Max({f \in 1..Len(control) : control[f].height < i})

\* Operands of unknown type exist only in unreachable code: pop_operand invents
\* them below the height of an unreachable frame, and no later operator carries
\* one into a frame that can be reached.
ReachableIsKnown ==
    \A i \in 1..Len(operands) :
        control # <<>> /\ ~IsKnown(operands[i]) => control[Owner(i)].unreachable

\* What the operator table announces about pops and pushes is what every visitor
\* does, on every stack: the debug build never panics in FuncValidator::validate.
ArityAgrees == status # "panicked"

\* The compressed list of locals gives every index the type it was declared with,
\* through the cache of the first locals and through the binary search.
LocalsAgree ==
    /\ locals.num_locals = Len(declared)
    /\ \A i \in 0..MaxLocals :
          Get(locals, i) = IF i < Len(declared) THEN declared[i + 1] ELSE Bottom

\* A body is accepted right after the `end` that closed its outermost frame, with
\* the results of the function on the stack and nothing else.
AcceptedIsComplete ==
    status = "accepted" =>
        control = <<>> /\ emptied = "just" /\ operands = Types[FuncType].results

\* A local of a type without default value that was initialised in a block is
\* uninitialised again when the block is left or its else or catch part starts.
ScopedInits ==
    [][ /\ status = "operators" /\ status' = "operators" /\ control # <<>>
        /\ Len(control') <= Len(control)
        /\ \/ Len(control') < Len(control)
           \/ Last(control').kind # Last(control).kind
        => inited' = entry[Len(control)] ]_vars
=============================================================================
