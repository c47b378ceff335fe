----------------------------- MODULE WasmCodegen -----------------------------
(* Code generation, core/wasm-codegen: the functions of the source file are   *)
(* lowered one after the other to LLVM IR (compiler.rs), which inf-llc and     *)
(* rust-lld, both external programs, turn into WebAssembly (utils.rs).  The    *)
(* tree is the arena of AstBuilder; the children of a node in the order of     *)
(* their ids are its fields in source order.  An instruction keeps its opcode  *)
(* and what it refers to; what is not implemented is a panic (todo!()).        *)
EXTENDS AstBuilder

CONSTANT UzumakiTypes  \* the types the checker gives to uzumaki expressions

VARIABLES
  gen,        \* "idle", "lowering", "lowered", "emitted", "failed" or "panic"
  queue,      \* function definitions still to be visited
  work,       \* statements and instructions still to be lowered
  module,     \* the functions added to the LLVM module, in order
  variables,  \* name |-> index of the function whose alloca holds it
  has_main    \* whether a public main was compiled

codegenVars == <<gen, queue, work, module, variables, has_main>>

-------------------------------------------------------------------------------
(* The tree as code generation reads it, core/ast/src/nodes_impl.rs.          *)

Children(id) ==
  SetToSortSeq({c \in DOMAIN arena : arena[c].parent = id}, LAMBDA a, b : a < b)

function_definitions ==
  SelectSeq(Children(1), LAMBDA c : arena[c].kind = "function_definition")

Body(f) == Last(Children(f))

IsBlock(id) == arena[id].kind \in Blocks

\* Expression::is_non_det looks at the expression itself only.
UzumakiAmong(id) == \E c \in Range(Children(id)) : arena[c].kind = "uzumaki_keyword"

\* Statement::is_non_det: a plain block among the statements is not looked into.
StatementIsNonDet(id) ==
  \/ IsBlock(id) /\ arena[id].kind # "block"
  \/ arena[id].kind = "uzumaki_keyword"
  \/ /\ arena[id].kind \in {"return_statement", "loop_statement",
                            "variable_definition_statement"}
     /\ UzumakiAmong(id)

\* BlockType::is_non_det.
is_non_det(block) ==
  \/ arena[block].kind # "block"
  \/ \E s \in Range(Children(block)) : StatementIsNonDet(s)

\* BlockType::is_void: a nested block that is void counts like a return.
is_void(block) ==
  LET Void[b \in DOMAIN arena] ==
        ~ \E s \in Range(Children(b)) :
             arena[s].kind = "return_statement" \/ (IsBlock(s) /\ Void[s])
  IN  Void[block]

FunctionIsVoid(f) == arena[f].ty \in {NoType, "unit"}

-------------------------------------------------------------------------------
(* Lowering.  The current function is the last of the module.                 *)

Current == Len(module)
Emit(code) == module' = [module EXCEPT ![Current].code = @ \o code]
Instr(op) == [op |-> op, of |-> 0]
Access(op, owner) == [op |-> op, of |-> owner]

\* The intrinsics that bracket a non-deterministic block.
forall_start_intrinsic == Instr("forall.start")
forall_end_intrinsic == Instr("forall.end")
exists_start_intrinsic == Instr("exists.start")
exists_end_intrinsic == Instr("exists.end")
assume_start_intrinsic == Instr("assume.start")
assume_end_intrinsic == Instr("assume.end")
unique_start_intrinsic == Instr("unique.start")
unique_end_intrinsic == Instr("unique.end")
StartOf == [ block |-> << >>, forall_block |-> <<forall_start_intrinsic>>,
             exists_block |-> <<exists_start_intrinsic>>,
             assume_block |-> <<assume_start_intrinsic>>,
             unique_block |-> <<unique_start_intrinsic>> ]
EndOf == [ block |-> << >>, forall_block |-> <<forall_end_intrinsic>>,
           exists_block |-> <<exists_end_intrinsic>>,
           assume_block |-> <<assume_end_intrinsic>>,
           unique_block |-> <<unique_end_intrinsic>> ]

Visit(id) == [visit |-> id, emit |-> << >>]
Then(code) == [visit |-> 0, emit |-> code]

\* traverse_t_ast_with_compiler; a module of no source file is not reachable.
codegen ==
  /\ gen = "idle"
  /\ gen' = "lowering"
  /\ queue' = function_definitions
  /\ UNCHANGED <<work, module, variables, has_main>>

\* A function is declared, exported when public and not main, guarded against
\* optimisation when its body is non-deterministic, and its body lowered next;
\* a void function ends in a return of its own.  Parameters are not declared.
visit_function_definition ==
  /\ gen = "lowering" /\ work = << >> /\ queue # << >>
  /\ LET f == Head(queue)
         main == arena[f].name = "main" IN
       IF arena[f].ty = "node"
       THEN gen' = "panic" /\ UNCHANGED <<work, module, has_main>>
       ELSE /\ module' = Append(module,
                 [ node |-> f, returns |-> IF FunctionIsVoid(f) THEN "void" ELSE arena[f].ty,
                   export |-> arena[f].public /\ ~main,
                   barriers |-> is_non_det(Body(f)), code |-> << >> ])
            /\ has_main' = (has_main \/ (main /\ arena[f].public))
            /\ work' = << Visit(Body(f)),
                          Then(IF FunctionIsVoid(f) THEN <<Instr("ret void")>> ELSE << >>) >>
            /\ UNCHANGED gen
  /\ queue' = Tail(queue)
  /\ UNCHANGED variables

Lowering == gen = "lowering" /\ work # << >>
At(kinds) == Head(work).visit # 0 /\ arena[Head(work).visit].kind \in kinds
Here == Head(work).visit

\* Mutant: the end of a non-deterministic block is left out.
Mutlower_block ==
  /\ Lowering /\ At(Blocks)
  /\ Emit(StartOf[arena[Here].kind])
  /\ work' = [i \in 1 .. Len(Children(Here)) |-> Visit(Children(Here)[i])] \o Tail(work)
  /\ UNCHANGED <<gen, queue, variables, has_main>>

\* lower_statement of a block: its statements between the two intrinsics.
lower_block ==
  /\ Lowering /\ At(Blocks)
  /\ Emit(StartOf[arena[Here].kind])
  /\ work' = [i \in 1 .. Len(Children(Here)) |-> Visit(Children(Here)[i])]
             \o << Then(EndOf[arena[Here].kind]) >> \o Tail(work)
  /\ UNCHANGED <<gen, queue, variables, has_main>>

EmitPending ==
  /\ Lowering /\ Head(work).visit = 0
  /\ Emit(Head(work).emit)
  /\ work' = Tail(work)
  /\ UNCHANGED <<gen, queue, variables, has_main>>

\* lower_literal and lower_expression: what an expression lowers to; << >> when
\* it is not implemented, or names a variable no function defined so far.
lower_literal(id) ==
  IF arena[id].kind \in {"bool_literal", "number_literal"} THEN << Instr("const i32") >>
  ELSE << >>

lower_uzumaki(ty) == IF ty \in {"i32", "i64"} THEN << Instr("uzumaki " \o ty) >> ELSE << >>

lower_expression(id, ty) ==
  CASE arena[id].kind \in build_literal -> lower_literal(id)
    [] arena[id].kind = "identifier" /\ arena[id].name \in DOMAIN variables ->
         << Access("load", variables[arena[id].name]) >>
    [] arena[id].kind = "uzumaki_keyword" -> lower_uzumaki(ty)
    [] OTHER -> << >>

Panic ==
  /\ gen' = "panic"
  /\ UNCHANGED <<queue, work, module, variables, has_main>>

\* An expression statement; in a void non-deterministic function its value is
\* kept alive in a temporary.
lower_expression_statement(ty) ==
  /\ Lowering /\ At(build_expression)
  /\ LET code == lower_expression(Here, ty)
         body == Body(module[Current].node)
         keep == is_non_det(body) /\ is_void(body) IN
       IF code = << >> THEN Panic
       ELSE /\ Emit(code \o (IF keep THEN << Access("store", Current) >> ELSE << >>))
            /\ work' = Tail(work)
            /\ UNCHANGED <<gen, queue, variables, has_main>>

\* A return; the unit literal of a return without a value is not implemented.
lower_return(ty) ==
  /\ Lowering /\ At({"return_statement"})
  /\ LET value == Children(Here)
         code == IF value = << >> THEN << >> ELSE lower_expression(value[1], ty)
         width == IF code # << >> /\ code[1].op = "uzumaki i64" THEN "i64" ELSE "i32" IN
       IF code = << >> THEN Panic
       ELSE /\ Emit(code \o << Instr("ret " \o width) >>)
            /\ work' = Tail(work)
            /\ UNCHANGED <<gen, queue, variables, has_main>>

\* Variable definitions are skipped.
lower_variable_definition ==
  /\ Lowering /\ At({"variable_definition_statement"})
  /\ work' = Tail(work)
  /\ UNCHANGED <<gen, queue, module, variables, has_main>>

\* Only a constant of type i32 with a number for its value is implemented; the
\* name enters the one flat table of variables.
lower_constant_definition ==
  /\ Lowering /\ At({"constant_definition"})
  /\ LET node == arena[Here]
         value == Last(Children(Here)) IN
       IF node.ty # "i32" \/ arena[value].kind # "number_literal" THEN Panic
       ELSE /\ Emit(<< Access("store", Current) >>)
            /\ variables' = [n \in DOMAIN variables \cup {node.name} |->
                               IF n = node.name THEN Current ELSE variables[n]]
            /\ work' = Tail(work)
            /\ UNCHANGED <<gen, queue, has_main>>

\* Assignments, loops, conditionals, breaks, assertions and type definitions.
lower_unimplemented ==
  /\ Lowering
  /\ At(build_statement \ (Blocks \cup build_expression \cup
          {"return_statement", "variable_definition_statement", "constant_definition"}))
  /\ Panic

Lowered ==
  /\ gen = "lowering" /\ work = << >> /\ queue = << >>
  /\ gen' = "lowered"
  /\ UNCHANGED <<queue, work, module, variables, has_main>>

-------------------------------------------------------------------------------
(* Emission.                                                                  *)

IsReturn(instr) == instr.op \in {"ret void", "ret i32", "ret i64"}

\* What inf-llc accepts: a function is one basic block, so its one terminator
\* is its last instruction and returns its type, and it touches its own stack
\* slots only.
Verifies(i) ==
  LET fn == module[i] IN
  /\ fn.code # << >>
  /\ \A j \in 1 .. Len(fn.code) : IsReturn(fn.code[j]) <=> j = Len(fn.code)
  /\ Last(fn.code).op = "ret " \o fn.returns
  /\ \A j \in 1 .. Len(fn.code) : fn.code[j].of \in {0, i}

\* compile_to_wasm: the tools are found or not, accept the module or not; the
\* linker is asked to export main when there is a public one.
compile_to_wasm(toolsFound) ==
  /\ gen = "lowered"
  /\ gen' = IF toolsFound /\ \A i \in 1 .. Len(module) : Verifies(i)
            THEN "emitted" ELSE "failed"
  /\ UNCHANGED <<queue, work, module, variables, has_main>>

CodegenInit ==
  /\ gen = "idle" /\ queue = << >> /\ work = << >> /\ module = << >>
  /\ variables = << >> /\ has_main = FALSE

CodegenNext ==
  \/ codegen \/ visit_function_definition \/ lower_block \/ EmitPending
  \/ \E ty \in UzumakiTypes : lower_expression_statement(ty) \/ lower_return(ty)
  \/ lower_variable_definition \/ lower_constant_definition \/ lower_unimplemented
  \/ Lowered
  \/ \E toolsFound \in BOOLEAN : compile_to_wasm(toolsFound)

-------------------------------------------------------------------------------

Quantifiers == {"forall", "exists", "assume", "unique"}
Opens(instr) == \E q \in Quantifiers : instr.op = q \o ".start"
ClosedBy(instr) == {q \in Quantifiers : instr.op = q \o ".end"}

\* compiler.rs:86, "Functions containing non-deterministic blocks receive
\* optnone and noinline attributes": a function whose code brackets a
\* non-deterministic block is guarded against optimisation.
NonDetIsGuarded ==
  gen = "emitted" =>
    \A i \in 1 .. Len(module) :
      (\E j \in 1 .. Len(module[i].code) : Opens(module[i].code[j])) => module[i].barriers
===============================================================================
