------------------------------ MODULE Compiler ------------------------------
(* The compiler driver, main of core/cli and the phases of core/inference: the *)
(* source file is parsed, checked, analysed, compiled, and translated to Rocq, *)
(* each phase only after the one before succeeded; main exits with 0 or 1, and *)
(* a panic of a phase aborts the process.  The type checker is TypeChecker's   *)
(* subject: here it accepts or rejects.  Flags are chosen where they are read. *)
(* The public translate_bytes may also be called on its own.                   *)
EXTENDS WasmCodegen, RocqTranslator

VARIABLES
  stage,  \* the phase main is in, "exit 0", "exit 1", "abort" or "library"
  files   \* the output files main wrote

driverVars == <<stage, files>>
vars == <<builderVars, codegenVars, translatorVars, driverVars>>

Phase(from, to) == stage = from /\ stage' = to

\* main up to the first phase: the path, the flags, and the source are looked at.
main(ok) ==
  /\ Phase("start", IF ok THEN "parse" ELSE "exit 1")
  /\ UNCHANGED <<builderVars, codegenVars, translatorVars, files>>

\* inference::parse: the builder walks the tree; its Err ends the program.
ParsePhase ==
  /\ stage = "parse" /\ outcome = "running"
  /\ BuilderNext
  /\ UNCHANGED <<codegenVars, translatorVars, driverVars>>

parse ==
  /\ stage = "parse" /\ outcome # "running"
  /\ stage' = CASE outcome = "ok" -> "parsed"
                [] outcome = "err" -> "exit 1"
                [] outcome = "panic" -> "abort"
  /\ UNCHANGED <<builderVars, codegenVars, translatorVars, files>>

\* With --parse alone main is done; the checker accepts the tree or does not,
\* and analyze accepts everything.
type_check(needed, accepted) ==
  /\ Phase("parsed", IF ~needed THEN "exit 0" ELSE IF accepted THEN "analyzed" ELSE "exit 1")
  /\ UNCHANGED <<builderVars, codegenVars, translatorVars, files>>

\* inference::codegen, with --codegen only; main is done otherwise.
CodegenPhase ==
  /\ stage = "analyzed"
  /\ CodegenNext
  /\ UNCHANGED <<builderVars, translatorVars, driverVars>>

AnalyzeOnly ==
  /\ Phase("analyzed", "exit 0") /\ gen = "idle"
  /\ UNCHANGED <<builderVars, codegenVars, translatorVars, files>>

CodegenDone ==
  /\ gen \in {"emitted", "failed", "panic"}
  /\ Phase("analyzed", CASE gen = "emitted" -> "generated"
                          [] gen = "failed" -> "exit 1"
                          [] gen = "panic" -> "abort")
  /\ UNCHANGED <<builderVars, codegenVars, translatorVars, files>>

\* The .wasm file, when asked for.
WriteWasm(asked, ok) ==
  /\ Phase("generated", IF asked /\ ~ok THEN "exit 1" ELSE "wasm written")
  /\ files' = IF asked /\ ok THEN files \cup {"wasm"} ELSE files
  /\ UNCHANGED <<builderVars, codegenVars, translatorVars>>

\* What inf-llc and rust-lld, external programs, make of an instruction.
Assembled(instr) ==
  CASE Opens(instr) -> << <<"structured", CHOOSE q \in Quantifiers : instr.op = q \o ".start",
                     "empty">> >>
    [] ClosedBy(instr) # {} -> << End >>
    [] instr.op = "const i32" -> << <<"const", "i32">> >>
    [] instr.op = "load" -> << <<"load", "i32", "full", "-">> >>
    [] instr.op = "store" -> << <<"store", "i32", "full">> >>
    [] instr.op = "uzumaki i32" -> << <<"uzumaki", "i32">> >>
    [] instr.op = "uzumaki i64" -> << <<"uzumaki", "i64">> >>
    [] IsReturn(instr) -> << End >>

Assemble(code) == FlattenSeq([i \in DOMAIN code |-> Assembled(code[i])])

\* inference::wasm_to_v, when the .v file is asked for; main exits with 0
\* otherwise.
NoRocq ==
  /\ Phase("wasm written", "exit 0") /\ tr = "idle"
  /\ UNCHANGED <<builderVars, codegenVars, translatorVars, files>>

wasm_to_v ==
  /\ stage = "wasm written"
  /\ translate_bytes([i \in DOMAIN module |-> Assemble(module[i].code)])
  /\ UNCHANGED <<builderVars, codegenVars, driverVars>>

TranslatorDone ==
  /\ tr \in {"done", "failed", "panic"}
  /\ Phase("wasm written", CASE tr = "done" -> "translated"
                              [] tr = "failed" -> "exit 1"
                              [] tr = "panic" -> "abort")
  /\ UNCHANGED <<builderVars, codegenVars, translatorVars, files>>

WriteV(ok) ==
  /\ Phase("translated", IF ok THEN "exit 0" ELSE "exit 1")
  /\ files' = IF ok THEN files \cup {"v"} ELSE files
  /\ UNCHANGED <<builderVars, codegenVars, translatorVars>>

\* A program that uses the translator as a library.
Library ==
  /\ Phase("start", "library")
  /\ TranslateGiven
  /\ UNCHANGED <<builderVars, codegenVars, files>>

TranslatorPhase ==
  /\ stage \in {"wasm written", "library"}
  /\ TranslatorStep
  /\ UNCHANGED <<builderVars, codegenVars, driverVars>>

\* The program is over, or the source would grow past the bound on its nodes.
Over ==
  /\ \/ stage \in {"exit 0", "exit 1", "abort"}
     \/ stage = "library" /\ tr \in {"done", "failed", "panic"}
     \/ stage = "parse" /\ outcome = "running" /\ ~Room
  /\ UNCHANGED vars

Init == BuilderInit /\ CodegenInit /\ TranslatorInit /\ stage = "start" /\ files = {}

Next ==
  \/ \E ok \in BOOLEAN : main(ok) \/ WriteV(ok)
  \/ ParsePhase \/ parse
  \/ \E needed \in BOOLEAN, accepted \in BOOLEAN : type_check(needed, accepted)
  \/ CodegenPhase \/ AnalyzeOnly \/ CodegenDone
  \/ \E asked \in BOOLEAN, ok \in BOOLEAN : WriteWasm(asked, ok)
  \/ NoRocq \/ wasm_to_v \/ Library \/ TranslatorPhase \/ TranslatorDone
  \/ Over

Spec == Init /\ [][Next]_vars

-------------------------------------------------------------------------------

\* The non-deterministic blocks of a statement of the source, and of the parts
\* of a Rocq expression, each with the ones inside it; a plain block adds
\* nothing of its own.
RECURSIVE SourceBlocks(_)
SourceBlocks(id) ==
  LET inner == FlattenSeq([i \in DOMAIN Children(id) |-> SourceBlocks(Children(id)[i])]) IN
  CASE arena[id].kind = "forall_block" -> << <<"forall", inner>> >>
    [] arena[id].kind = "exists_block" -> << <<"exists", inner>> >>
    [] arena[id].kind = "assume_block" -> << <<"assume", inner>> >>
    [] arena[id].kind = "unique_block" -> << <<"unique", inner>> >>
    [] OTHER -> inner

RECURSIVE RocqBlocks(_)
RocqBlocks(parts) ==
  FlattenSeq([i \in DOMAIN parts |->
    IF parts[i].kind = "block"
    THEN << <<parts[i].label[2], RocqBlocks(parts[i].then)>> >> ELSE << >>])

\* End to end: when main exits with 0 and wrote the .v file, the Rocq text holds
\* a function for every function of the source in the same order, and its
\* forall, exists, assume and unique blocks nest exactly as they do in the
\* source.  On the way a block became a node, a pair of intrinsics, a structured
\* operator with its end, and a block again.
RocqMatchesSource ==
  stage = "exit 0" /\ "v" \in files =>
    /\ Len(functions) = Len(function_definitions)
    /\ \A i \in DOMAIN functions :
         RocqBlocks(functions[i].parts) = SourceBlocks(function_definitions[i])
===============================================================================
