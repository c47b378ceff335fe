------------------------- MODULE CanonicalFunctions -------------------------
(***************************************************************************)
(* The canonical ABI as the validator knows it: how a component function   *)
(* type is lowered to a core signature (component_types.rs), and the       *)
(* canonical functions a component may define, with their requirements on  *)
(* features, types, memories and options and the core signature each one   *)
(* gets (component.rs, canonical_function).                                *)
(*                                                                         *)
(* An operator that takes a component's state s reads its index spaces     *)
(* (types, funcs, core_types, core_funcs, core_memories, core_tables,      *)
(* defined).  A core signature is [params, results, shared].               *)
(***************************************************************************)
EXTENDS ComponentTypes

Sig(params, results) == [params |-> params, results |-> results, shared |-> FALSE]
I32s(n) == [i \in 1..n |-> "i32"]

-----------------------------------------------------------------------------
(* Lowering.  LoweredTypes is a bounded vector; a push that does not fit     *)
(* fails, and every later push with it.                                      *)

LoweredTypes(max) == [types |-> <<>>, max |-> max, fits |-> TRUE]

Push(low, ty) ==
  CASE ~low.fits -> low
    [] Len(low.types) = low.max -> [low EXCEPT !.fits = FALSE]
    [] OTHER -> [low EXCEPT !.types = Append(@, ty)]

PushAll(low, tys) == FoldLeft(Push, low, tys)

PrimitiveTypes(p) ==
  CASE p \in {"s64", "u64"} -> <<"i64">>
    [] p \in {"f32", "f64"} -> <<p>>
    [] p = "string" -> I32s(2)
    [] OTHER -> I32s(1)

RECURSIVE contains_ptr(_)
contains_ptr(v) ==
  \/ v.v = "prim" /\ v.p = "string"
  \/ /\ v.v = "type"
     /\ v.id.def.d \notin {"future", "stream"}
     /\ v.id.def.d = "list" \/ \E i \in DOMAIN v.id.def.of : contains_ptr(v.id.def.of[i])

join_types(a, b) ==
  CASE a = b -> a
    [] {a, b} = {"i32", "f32"} -> "i32"
    [] OTHER -> "i64"

\* Mutant: the first case decides the type of a position.
MutJoinCase(low, start, case) ==
  IF ~low.fits \/ ~case.fits THEN [low EXCEPT !.fits = FALSE]
  ELSE PushAll(low, SubSeq(case.types, Len(low.types) - start + 1, Len(case.types)))

\* One case of a variant: its types are joined, position by position, with the
\* ones the earlier cases left after the discriminant.
JoinCase(low, start, case) ==
  IF ~low.fits \/ ~case.fits THEN [low EXCEPT !.fits = FALSE]
  ELSE PushAll([low EXCEPT !.types = [i \in DOMAIN @ |->
                  IF i > start /\ i - start <= Len(case.types)
                  THEN join_types(@[i], case.types[i - start]) ELSE @[i]]],
               SubSeq(case.types, Len(low.types) - start + 1, Len(case.types)))

RECURSIVE push_wasm_types(_, _)

push_variant_wasm_types(low, cases) ==
  LET start == Len(low.types)
  IN  FoldLeft(LAMBDA acc, case : JoinCase(acc, start, push_wasm_types(case, LoweredTypes(low.max))),
               low, SelectSeq(cases, LAMBDA v : v # None))

push_wasm_types(v, low) ==
  IF v.v = "none" THEN low
  ELSE IF v.v = "prim" THEN PushAll(low, PrimitiveTypes(v.p))
  ELSE LET def == v.id.def
       IN  CASE def.d \in {"primitive", "record", "tuple"} ->
                  FoldLeft(LAMBDA acc, w : push_wasm_types(w, acc), low, def.of)
             [] def.d \in {"variant", "option", "result"} ->
                  push_variant_wasm_types(Push(low, "i32"), def.of)
             [] def.d = "list" -> PushAll(low, I32s(2))
             [] def.d = "flags" -> PushAll(low, I32s((Len(def.names) + 31) \div 32))
             [] OTHER -> Push(low, "i32")

LowerParams(params) ==
  FoldLeft(LAMBDA acc, v : push_wasm_types(v, acc), LoweredTypes(MaxFlatParams), params)

Lowering(params, results, memory, realloc) ==
  [sig |-> Sig(params, results), memory |-> memory \/ realloc, realloc |-> realloc]

\* ComponentFuncType::lower.  Parameters that do not fit go through memory
\* behind one pointer, a result that does not fit through a return pointer.
\* The scan for pointers ends with the parameter that does not fit, where it
\* no longer matters.
lower(ty, abi) ==
  IF abi = "LowerAsync"
  THEN Lowering(I32s(2), I32s(1), TRUE, contains_ptr(ty.result))
  ELSE LET is_lower == abi = "LowerSync"
           vs == Values(ty.params)
           low == LowerParams(vs)
           params == IF low.fits THEN low.types ELSE I32s(1)
           pointer == \E i \in DOMAIN vs : contains_ptr(vs[i])
           returns == abi \in {"LowerSync", "LiftSync"} /\ ty.result # None
           res == push_wasm_types(ty.result, LoweredTypes(MaxFlatResults))
           spills == returns /\ ~res.fits
       IN  Lowering(IF spills /\ is_lower THEN Append(params, "i32") ELSE params,
                    CASE spills -> IF is_lower THEN <<>> ELSE I32s(1)
                      [] returns /\ ~spills -> res.types
                      [] abi = "LiftAsync" -> I32s(1)
                      [] OTHER -> <<>>,
                    ~low.fits \/ spills \/ (is_lower /\ pointer),
                    IF is_lower THEN returns /\ contains_ptr(ty.result)
                    ELSE ~low.fits \/ pointer)

-----------------------------------------------------------------------------
(* Canonical options: [o, idx]                                               *)

Has(options, o) == \E i \in DOMAIN options : options[i].o = o
Encodings == {"utf8", "utf16", "latin1-utf16"}

for_lift(options) ==
  CASE ~Has(options, "async") -> "LiftSync"
    [] Has(options, "callback") -> "LiftAsync"
    [] OTHER -> "LiftAsyncStackful"

core_function_at(s, i) == i \in DOMAIN s.core_funcs

cabi_memory_at(s, i) ==
  /\ i \in DOMAIN s.core_memories
  /\ s.core_memories[i].kind = "mem32"

\* NoCore: the option list belongs to a function that is lowered.
NoCore == [params |-> <<>>, results |-> <<"none">>, shared |-> FALSE]

OptionFits(s, opt, core) ==
  CASE opt.o \in Encodings -> TRUE
    [] opt.o = "memory" -> cabi_memory_at(s, opt.idx)
    [] opt.o = "realloc" -> core_function_at(s, opt.idx)
         /\ s.core_funcs[opt.idx].params = I32s(4) /\ s.core_funcs[opt.idx].results = I32s(1)
    [] opt.o = "post-return" -> core # NoCore /\ core_function_at(s, opt.idx)
         /\ s.core_funcs[opt.idx].params = core.results
         /\ s.core_funcs[opt.idx].results = <<>>
    [] opt.o = "async" -> "cm_async" \in Features
    [] opt.o = "callback" -> core # NoCore /\ core_function_at(s, opt.idx)
         /\ s.core_funcs[opt.idx].params \in {I32s(3), I32s(1)}

\* Options exclude each other when they are the same option, or two encodings.
Conflict(a, b) == a.o = b.o \/ {a.o, b.o} \subseteq Encodings

check_options(s, core, info, options, allow_async) ==
  LET async == Has(options, "async")
      callback == Has(options, "callback")
  IN  /\ \A i \in DOMAIN options :
           /\ OptionFits(s, options[i], core)
           /\ \A j \in 1..(i-1) : ~Conflict(options[j], options[i])
      /\ async => allow_async /\ ~Has(options, "post-return")
      /\ callback => async
      /\ async /\ ~callback /\ core # NoCore => "cm_async_stackful" \in Features
      /\ info.memory => Has(options, "memory")
      /\ info.realloc => Has(options, "realloc")

-----------------------------------------------------------------------------
(* The canonical functions.  Each operator says whether the definition is    *)
(* accepted; Signature is the core type it then adds to core_funcs.          *)

resource_at(s, i) == i \in DOMAIN s.types /\ s.types[i].t = "resource"

\* The representation of a resource this very component defined with one.
check_local_resource(s, i) ==
  /\ resource_at(s, i)
  /\ s.types[i].id \in Keys(s.defined)
  /\ Get(s.defined, s.types[i].id) = "i32"

defined_type_at(s, i, kind) ==
  i \in DOMAIN s.types /\ s.types[i].t = "defined" /\ s.types[i].def.d = kind

TaskOps == {"backpressure.set", "context.get", "context.set", "yield", "subtask.drop"}
WaitableOps == {"error-context.drop", "waitable-set.new", "waitable-set.drop",
                "waitable.join", "waitable-set.wait", "waitable-set.poll"}
ResourceOps == {"resource.new", "resource.drop", "resource.drop-async", "resource.rep"}
ChannelOps == {"new", "read", "write", "cancel-read", "cancel-write",
               "close-readable", "close-writable"}
ErrorContextOps == {"error-context.new", "error-context.debug-message"}
ThreadOps == {"thread.spawn_ref", "thread.spawn_indirect", "thread.available_parallelism"}

ResourceBuiltin(s, f) ==
  CASE f.f \in {"resource.new", "resource.rep"} -> check_local_resource(s, f.ty)
    [] f.f = "resource.drop" -> resource_at(s, f.ty)
    [] f.f = "resource.drop-async" -> "cm_async_builtins" \in Features /\ resource_at(s, f.ty)

\* backpressure, context, yield and subtask builtins; f.idx is the slot of a
\* context builtin.
TaskBuiltin(s, f) ==
  /\ "cm_async" \in Features
  /\ f.f \in {"context.get", "context.set"} => f.idx <= 2
  /\ f.f = "yield" /\ f.async => "cm_async_stackful" \in Features

\* The waitable builtins; f.idx is the memory of a wait or a poll.
WaitableBuiltin(s, f) ==
  /\ "cm_async" \in Features
  /\ f.f \in {"waitable-set.wait", "waitable-set.poll"} =>
       /\ f.async => "cm_async_stackful" \in Features
       /\ cabi_memory_at(s, f.idx)

\* A cancellation may be asynchronous with the feature for it.
CancelFits(f) ==
  f.f \in {"cancel-read", "cancel-write"} /\ f.async => "cm_async_builtins" \in Features

\* A transfer goes through memory; what is read may need to be allocated.
TransferFits(s, f) ==
  f.f \in {"read", "write"} =>
    check_options(s, NoCore,
      Lowering(<<>>, <<>>, TRUE, f.f = "read" /\ contains_ptr(s.types[f.ty].def.of[1])),
      f.options, TRUE)

StreamBuiltin(s, f) ==
  /\ "cm_async" \in Features
  /\ CancelFits(f)
  /\ defined_type_at(s, f.ty, "stream")
  /\ TransferFits(s, f)

FutureBuiltin(s, f) ==
  /\ "cm_async" \in Features
  /\ CancelFits(f)
  /\ defined_type_at(s, f.ty, "future")
  /\ TransferFits(s, f)

ErrorContextBuiltin(s, f) ==
  /\ "cm_async" \in Features
  /\ check_options(s, NoCore,
       Lowering(<<>>, <<>>, TRUE, f.f = "error-context.debug-message"), f.options, FALSE)

TaskReturnType(result) == FuncType(<<>>, IF result = None THEN <<>> ELSE <<<<"v", result>>>>, None)

task_return(s, f) ==
  /\ "cm_async" \in Features
  /\ \A i \in DOMAIN f.options : f.options[i].o \in Encodings \cup {"memory"}
  /\ check_options(s, NoCore, lower(TaskReturnType(f.result), "LowerSync"), f.options, TRUE)

validate_spawn_type(s, i) ==
  /\ i \in DOMAIN s.core_types
  /\ s.core_types[i] = [params |-> I32s(1), results |-> <<>>, shared |-> TRUE]

ThreadBuiltin(s, f) ==
  /\ "shared_everything_threads" \in Features
  /\ f.f # "thread.available_parallelism" => validate_spawn_type(s, f.ty)
  /\ f.f = "thread.spawn_indirect" =>
       f.idx \in DOMAIN s.core_tables /\ s.core_tables[f.idx].kind = "shared funcref"

lift_function(s, f) ==
  /\ f.ty \in DOMAIN s.types
  /\ s.types[f.ty].t = "func"
  /\ core_function_at(s, f.idx)
  /\ LET core == s.core_funcs[f.idx]
         info == lower(s.types[f.ty], for_lift(f.options))
     IN  /\ check_options(s, core, info, f.options, TRUE)
         /\ core.params = info.sig.params
         /\ core.results = info.sig.results

LowerAbi(options) == IF Has(options, "async") THEN "LowerAsync" ELSE "LowerSync"

lower_function(s, f) ==
  /\ f.idx \in DOMAIN s.funcs
  /\ check_options(s, NoCore, lower(s.funcs[f.idx], LowerAbi(f.options)), f.options, TRUE)

Accepted(s, f) ==
  CASE f.op = "lift" -> lift_function(s, f)
    [] f.op = "lower" -> lower_function(s, f)
    [] f.op = "resource" -> ResourceBuiltin(s, f)
    [] f.op = "task" -> TaskBuiltin(s, f)
    [] f.op = "waitable" -> WaitableBuiltin(s, f)
    [] f.op = "channel" /\ f.kind = "stream" -> StreamBuiltin(s, f)
    [] f.op = "channel" /\ f.kind = "future" -> FutureBuiltin(s, f)
    [] f.op = "error" -> ErrorContextBuiltin(s, f)
    [] f.op = "return" -> task_return(s, f)
    [] f.op = "thread" -> ThreadBuiltin(s, f)

BuiltinSignature(f) ==
  CASE f.f \in {"context.get", "waitable-set.new"} -> Sig(<<>>, I32s(1))
    [] f.f = "yield" -> Sig(<<>>, <<>>)
    [] f.f = "new" -> Sig(<<>>, <<"i64">>)
    [] f.f \in {"resource.new", "resource.rep", "cancel-read", "cancel-write"} ->
         Sig(I32s(1), I32s(1))
    [] f.f \in {"read", "write"} -> Sig(I32s(IF f.kind = "stream" THEN 3 ELSE 2), I32s(1))
    [] f.f \in {"error-context.new", "waitable-set.wait", "waitable-set.poll"} ->
         Sig(I32s(2), I32s(1))
    [] f.f \in {"waitable.join", "error-context.debug-message"} -> Sig(I32s(2), <<>>)
    [] f.f = "thread.spawn_ref" ->
         [params |-> <<"start", "i32">>, results |-> I32s(1), shared |-> TRUE]
    [] f.f = "thread.spawn_indirect" ->
         [params |-> I32s(2), results |-> I32s(1), shared |-> TRUE]
    [] f.f = "thread.available_parallelism" ->
         [params |-> <<>>, results |-> I32s(1), shared |-> TRUE]
    [] OTHER -> Sig(I32s(1), <<>>)

Signature(s, f) ==
  CASE f.op = "lower" -> lower(s.funcs[f.idx], LowerAbi(f.options)).sig
    [] f.op = "return" -> Sig(lower(TaskReturnType(f.result), "LowerSync").sig.params, <<>>)
    [] OTHER -> BuiltinSignature(f)

\* canonical_function: an accepted function is added to the index space it
\* belongs to.
canonical_function(s, f) ==
  CASE ~Accepted(s, f) -> [outcome |-> "err", state |-> s]
    [] f.op = "lift" -> [outcome |-> "ok", state |-> [s EXCEPT !.funcs = Append(@, s.types[f.ty])]]
    [] OTHER -> [outcome |-> "ok",
                 state |-> [s EXCEPT !.core_funcs = Append(@, Signature(s, f))]]

=============================================================================
