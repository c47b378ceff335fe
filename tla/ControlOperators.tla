--------------------------- MODULE ControlOperators ---------------------------
(***************************************************************************)
(* The visitors of structured control, branches, calls, exceptions and     *)
(* stack switching (validator/operators.rs).  Each maps a validator to the *)
(* next one; an error clears `ok`.  The four quantified blocks that the    *)
(* fork adds (forall, exists, assume, unique) are blocks like `block`.     *)
(***************************************************************************)
EXTENDS OperatorStack

QuantifiedKinds == {"Forall", "Exists", "Assume", "Unique"}

\* visit_block, visit_loop, visit_forall, visit_exists, visit_assume and
\* visit_unique, and visit_try with its own frame.
visit_block(vm, kind, bt) ==
    IF BlockTypeOk(bt) THEN push_ctrl(PopAll(vm, Params(bt)), kind, bt) ELSE Fail(vm)

visit_if(vm, bt) ==
    IF BlockTypeOk(bt)
    THEN push_ctrl(PopAll(pop_operand(vm, I32), Params(bt)), "If", bt)
    ELSE Fail(vm)

\* The frame that pop_ctrl returns is the last one before it.
Closes(vm, kinds) == vm.control # <<>> /\ Last(vm.control).kind \in kinds

visit_else(vm) ==
    LET v == pop_ctrl(vm)
    IN  IF Closes(vm, {"If"}) THEN push_ctrl(v, "Else", Last(vm.control).block_type)
        ELSE Fail(v)

\* visit_end: an `if` without `else` is closed as if it had an empty one.
visit_end(vm) ==
    LET v == pop_ctrl(vm)
        bt == Last(vm.control).block_type
        w == IF Closes(vm, {"If"}) THEN pop_ctrl(push_ctrl(v, "Else", bt)) ELSE v
    IN  IF w.ok THEN PushAll(w, Results(bt)) ELSE w

-----------------------------------------------------------------------------
(* Branches. *)

visit_br(vm, depth) ==
    IF JumpOk(vm, depth) THEN unreachable(PopAll(vm, LabelTypes(Jump(vm, depth)))) ELSE Fail(vm)

visit_br_if(vm, depth) ==
    LET v == pop_operand(vm, I32)
    IN  IF JumpOk(v, depth) THEN pop_push_label_types(v, LabelTypes(Jump(v, depth)))
        ELSE Fail(v)

\* visit_br_table: every target is matched against the operands, which stay; the
\* default then pops them.
visit_br_table(vm, targets, default) ==
    LET v == pop_operand(vm, I32)
        types(d) == LabelTypes(Jump(v, d))
        step(w, d) ==
            IF JumpOk(w, d) /\ Len(types(d)) = Len(types(default))
            THEN match_stack_operands(w, types(d))
            ELSE Fail(w)
    IN  IF JumpOk(v, default)
        THEN unreachable(PopAll(FoldLeft(step, v, targets), types(default)))
        ELSE Fail(v)

visit_br_on_null(vm, depth) ==
    LET v == pop_any_ref(vm)
    IN  IF v.ok /\ JumpOk(v, depth)
        THEN push_operand(pop_push_label_types(v, LabelTypes(Jump(v, depth))),
                          MaybeNonNull(v.popped))
        ELSE Fail(v)

\* A label that ends with a reference, and its types below that reference.
EndsWithRef(vm, depth) ==
    /\ JumpOk(vm, depth)
    /\ LabelTypes(Jump(vm, depth)) # <<>>
    /\ IsRef(Last(LabelTypes(Jump(vm, depth))))

visit_br_on_non_null(vm, depth) ==
    IF EndsWithRef(vm, depth)
    THEN LET types == LabelTypes(Jump(vm, depth))
         IN  pop_push_label_types(pop_ref(vm, AsNullable(Last(types))), Front(types))
    ELSE Fail(vm)

\* visit_br_on_cast and visit_br_on_cast_fail: `taken` is the type at the label,
\* `kept` the type of the value when the branch is not taken.
BranchOnCast(vm, depth, from, taken, kept) ==
    IF EndsWithRef(vm, depth) /\ IsSubtype(Types, taken, Last(LabelTypes(Jump(vm, depth))))
    THEN push_operand(pop_push_label_types(pop_operand(vm, from),
                                           Front(LabelTypes(Jump(vm, depth)))),
                      kept)
    ELSE Fail(vm)

CastTypesOk(from, to) ==
    /\ IsConcrete(from) => from.id \in 1..Len(Types)
    /\ IsConcrete(to) => to.id \in 1..Len(Types)
    /\ IsSubtype(Types, to, from)

visit_br_on_cast(vm, depth, from, to) ==
    IF CastTypesOk(from, to) THEN BranchOnCast(vm, depth, from, to, Difference(from, to))
    ELSE Fail(vm)

visit_br_on_cast_fail(vm, depth, from, to) ==
    IF CastTypesOk(from, to) THEN BranchOnCast(vm, depth, from, Difference(from, to), to)
    ELSE Fail(vm)

-----------------------------------------------------------------------------
(* Calls. *)

visit_call(vm, f) ==
    IF f \in 1..Len(Funcs) /\ TypeAt(Funcs[f], "func") THEN check_call_ty(vm, Types[Funcs[f]])
    ELSE Fail(vm)

visit_return_call(vm, f) ==
    IF f \in 1..Len(Funcs) /\ TypeAt(Funcs[f], "func")
    THEN check_return_call_ty(vm, Types[Funcs[f]])
    ELSE Fail(vm)

\* call_ref, return_call_ref, call_indirect and return_call_indirect, from the
\* validator `v` that has popped the callee.
Invoke(v, idx, tail) ==
    IF ~v.ok THEN v
    ELSE IF tail THEN check_return_call_ty(v, Types[idx])
    ELSE check_call_ty(v, Types[idx])

visit_call_ref(vm, idx, tail) == Invoke(check_call_ref_ty(vm, idx), idx, tail)

visit_call_indirect(vm, idx, table, tail) ==
    Invoke(check_call_indirect_ty(vm, idx, table), idx, tail)

-----------------------------------------------------------------------------
(* Exceptions, current and legacy. *)

Exn == AbsRef(FALSE, FALSE, "exn")

\* One catch clause of try_table; it is checked against the frames outside.
CatchOk(vm, c) ==
    /\ c.tag # 0 => ExceptionTagAt(c.tag)
    /\ JumpOk(vm, c.label)
    /\ LET label == LabelTypes(Jump(vm, c.label))
           given == (IF c.tag # 0 THEN TagType(c.tag).params ELSE <<>>)
                    \o (IF c.ref THEN <<Exn>> ELSE <<>>)
       IN  IsSubtypeMany(Types, given, label)

visit_try_table(vm, bt, catches) ==
    IF ~BlockTypeOk(bt) THEN Fail(vm)
    ELSE LET v == PopAll(vm, Params(bt))
         IN  IF v.ok /\ (\A c \in catches : CatchOk(v, c)) THEN push_ctrl(v, "TryTable", bt)
             ELSE Fail(v)

visit_throw(vm, tag) ==
    IF ExceptionTagAt(tag) THEN unreachable(PopAll(vm, TagType(tag).params)) ELSE Fail(vm)

visit_throw_ref(vm) == unreachable(pop_operand(vm, NullRef("exn")))

visit_catch(vm, tag) ==
    LET v == pop_ctrl(vm)
    IN  IF Closes(vm, {"LegacyTry", "LegacyCatch"}) /\ ExceptionTagAt(tag)
        THEN PushAll(OpenFrame(v, "LegacyCatch", Last(vm.control).block_type),
                     TagType(tag).params)
        ELSE Fail(v)

visit_rethrow(vm, depth) ==
    IF JumpOk(vm, depth) /\ Jump(vm, depth).kind \in {"LegacyCatch", "LegacyCatchAll"}
    THEN unreachable(vm)
    ELSE Fail(vm)

\* visit_delegate: the depth counts from outside the frame that it closes.
visit_delegate(vm, depth) ==
    LET v == pop_ctrl(vm)
    IN  IF v.ok /\ Closes(vm, {"LegacyTry"}) /\ JumpOk(v, depth)
        THEN PushAll(v, Results(Last(vm.control).block_type))
        ELSE Fail(v)

visit_catch_all(vm) ==
    LET v == pop_ctrl(vm)
    IN  IF Closes(vm, {"LegacyTry", "LegacyCatch"})
        THEN OpenFrame(v, "LegacyCatchAll", Last(vm.control).block_type)
        ELSE Fail(v)

-----------------------------------------------------------------------------
(* Stack switching. *)

visit_cont_new(vm, idx) ==
    IF TypeAt(idx, "cont")
    THEN push_concrete_ref(pop_ref(vm, ConcreteRef(TRUE, Types[idx].func)), FALSE, idx)
    ELSE Fail(vm)

\* visit_cont_bind: the leading parameters are supplied, the rest must agree.
visit_cont_bind(vm, argument, result) ==
    IF ~TypeAt(argument, "cont") \/ ~TypeAt(result, "cont") THEN Fail(vm)
    ELSE LET arg == FuncTypeOfCont(argument)
             res == FuncTypeOfCont(result)
             argcnt == Len(arg.params) - Len(res.params)
         IN  IF /\ argcnt >= 0
                /\ IsSubtypeMany(Types, res.params, SubSeq(arg.params, argcnt + 1, Len(arg.params)))
                /\ IsSubtypeMany(Types, arg.results, res.results)
             THEN push_concrete_ref(PopAll(pop_concrete_ref(vm, TRUE, argument),
                                           SubSeq(arg.params, 1, argcnt)),
                                    FALSE, result)
             ELSE Fail(vm)

visit_suspend(vm, tag) == IF TagAt(tag) THEN check_call_ty(vm, TagType(tag)) ELSE Fail(vm)

IsContRef(t) == IsRef(t) /\ IsConcrete(t) /\ Types[t.id].kind = "cont"

\* One handler of check_resume_table, for a continuation of function type ft; a
\* handler with label -1 is an `on switch`.
HandlerOk(vm, ft, h) ==
    /\ TagAt(h.tag)
    /\ LET tag == TagType(h.tag)
       IN  IF h.label = -1 THEN tag.params = <<>>
           ELSE /\ JumpOk(vm, h.label)
                /\ LET label == LabelTypes(Jump(vm, h.label))
                   IN  /\ label # <<>> /\ IsContRef(Last(label))
                       /\ LET new == FuncTypeOfCont(Last(label).id)
                          IN  /\ IsSubtypeMany(Types, new.params, tag.results)
                              /\ IsSubtypeMany(Types, ft.results, new.results)
                       /\ IsSubtypeMany(Types, tag.params, Front(label))

ResumeTableOk(vm, idx, handlers) ==
    /\ TypeAt(idx, "cont")
    /\ \A h \in handlers : HandlerOk(vm, FuncTypeOfCont(idx), h)

visit_resume(vm, idx, handlers) ==
    IF ResumeTableOk(vm, idx, handlers)
    THEN check_call_ty(pop_concrete_ref(vm, TRUE, idx), FuncTypeOfCont(idx))
    ELSE Fail(vm)

visit_resume_throw(vm, idx, tag, handlers) ==
    IF ResumeTableOk(vm, idx, handlers) /\ ExceptionTagAt(tag)
    THEN PushAll(PopAll(pop_concrete_ref(vm, TRUE, idx), TagType(tag).params),
                 FuncTypeOfCont(idx).results)
    ELSE Fail(vm)

\* visit_switch: the last parameter of the continuation is the one that is
\* switched to; its parameters are what the switch leaves.
SwitchOk(idx, tag) ==
    /\ TypeAt(idx, "cont") /\ TagAt(tag) /\ TagType(tag).params = <<>>
    /\ LET ft == FuncTypeOfCont(idx)
       IN  /\ ft.params # <<>> /\ IsContRef(Last(ft.params))
           /\ IsSubtypeMany(Types, ft.results, TagType(tag).results)
           /\ IsSubtypeMany(Types, TagType(tag).results,
                            FuncTypeOfCont(Last(ft.params).id).results)

visit_switch(vm, idx, tag) ==
    IF SwitchOk(idx, tag)
    THEN LET ft == FuncTypeOfCont(idx)
         IN  PushAll(PopAll(pop_concrete_ref(vm, TRUE, idx), Front(ft.params)),
                     FuncTypeOfCont(Last(ft.params).id).params)
    ELSE Fail(vm)
=============================================================================
