--------------------------- MODULE RocqTranslator ---------------------------
(* WebAssembly to Rocq, core/wasm-to-v: parse collects the entities of every   *)
(* section (wasm_parser.rs), translate renders them section by section and     *)
(* then the functions (translator.rs).  An entity is what decides its          *)
(* translation: a type, a kind, or a list of value types.  The bytes decode    *)
(* to entities and operators as they are read; the operators of the functions  *)
(* come from `bodies' when the compiler made the module, and are drawn from    *)
(* Alphabet when the module was handed to translate_bytes directly.            *)
EXTENDS RocqOperators, SequencesExt

CONSTANTS
  Alphabet,     \* operators of the function bodies handed over directly
  MaxEntities,  \* bound on the entities of such a module
  MaxBodies,    \* bound on its functions
  MaxReads,     \* bound on the operators of all its functions
  EntityCost    \* operators less that a module with an entity has

VARIABLES
  tr,          \* "idle", "parsing", "translating", "functions", "done", "failed", "panic"
  bodies,      \* operators of the functions the compiler made, or "given"
  sections,    \* WasmParseData: section |-> its entities
  output,      \* the rendered entities of each section
  lost,        \* translation errors collected so far
  reading,     \* calls of translate_expression, outermost first
  ops,         \* operators read so far of the current function
  eof,         \* whether its reader has run out of them
  functions    \* the functions translated so far

translatorVars == <<tr, bodies, sections, output, lost, reading, ops, eof, functions>>

End == <<"end">>
Else == <<"else">>
Given == <<"given">>

-------------------------------------------------------------------------------
(* Entities and their translation: a term, or Unsupported for an Err.         *)

Values == {"i32", "v128", "funcref", "anyref"}
Refs == {"funcref", "externref", "anyref"}

translate_mutability(mutable) == IF mutable THEN "MUT_var" ELSE "MUT_const"

\* The element type of an imported table is not looked at.
Imports == {<<"func">>, <<"memory">>, <<"table", "anyref">>, <<"tag">>} \cup
           {<<"global", v>> : v \in {"i32", "anyref"}}
translate_module_import_desc(import) ==
  CASE import[1] = "global" -> translate_value_type(import[2])
    [] import[1] = "tag" -> Unsupported
    [] OTHER -> <<"MID_" \o import[1]>>

Exports == {<<k>> : k \in {"func", "table", "memory", "global", "tag"}}
translate_module_export_desc(export) ==
  IF export[1] = "tag" THEN Unsupported ELSE <<"MED_" \o export[1]>>

Tables == {<<r>> : r \in Refs}
translate_table_type(table) == translate_ref_type(table[1])

Memories == {<<"memory">>}
translate_memory_type(memory) == <<"Mm">>

\* The offset and initial expressions render to some text whatever they hold.
Globals == {<<m, v>> : m \in BOOLEAN, v \in {"i32", "anyref"}}
translate_global(global) ==
  IF translate_value_type(global[2]) = Unsupported THEN Unsupported
  ELSE <<"Mg", translate_mutability(global[1]), translate_value_type(global[2])>>

Datas == {<<"active">>, <<"passive">>}
translate_module_datamode(data) == <<"MD_" \o data[1]>>
translate_data(data) == translate_module_datamode(data)

\* A segment of expressions has a reference type, one of functions has not; a
\* malformed item is an Err.
Elements == {<<"active", "functions">>, <<"passive", "externref">>,
             <<"declared", "anyref">>, <<"active", "malformed">>}
translate_element(element) ==
  CASE element[2] = "functions" -> <<"ME_" \o element[1], "T_funcref">>
    [] element[2] = "malformed" -> Unsupported
    [] translate_ref_type(element[2]) = Unsupported -> Unsupported
    [] OTHER -> <<"ME_" \o element[1], translate_ref_type(element[2])[1]>>

\* A recursion group: each function type adds a term, every other type nothing.
RecGroups == {<<<<"func", "i32">>>>, <<<<"func", "anyref">>>>, <<<<"struct">>>>,
              <<<<"func", "i32">>, <<"func", "i32">>>>}
translate_function_type(group) ==
  LET funcs == SelectSeq(group, LAMBDA ty : ty[1] = "func") IN
  IF \E i \in DOMAIN funcs : translate_value_type(funcs[i][2]) = Unsupported
  THEN Unsupported
  ELSE [i \in DOMAIN funcs |-> <<"Tf", funcs[i][2]>>]

\* The order in which translate renders the sections.
SectionOrder == <<"imports", "exports", "tables", "memories", "globals", "data",
                  "elements", "types">>
Entities == [ imports |-> Imports, exports |-> Exports, tables |-> Tables,
              memories |-> Memories, globals |-> Globals, data |-> Datas,
              elements |-> Elements, types |-> RecGroups ]
TranslateEntity(section, e) ==
  CASE section = "imports" -> translate_module_import_desc(e)
    [] section = "exports" -> translate_module_export_desc(e)
    [] section = "tables" -> translate_table_type(e)
    [] section = "memories" -> translate_memory_type(e)
    [] section = "globals" -> translate_global(e)
    [] section = "data" -> translate_data(e)
    [] section = "elements" -> translate_element(e)
    [] section = "types" -> translate_function_type(e)

Empty == [s \in Range(SectionOrder) |-> << >>]
Size(data) == FoldSeq(LAMBDA s, n : n + Len(data[s]), 0, SectionOrder)

-------------------------------------------------------------------------------
(* Parsing.                                                                   *)

\* translate_bytes of a module the compiler made: one type, one function and
\* one body for each of its functions.
translate_bytes(code) ==
  /\ tr = "idle"
  /\ tr' = "translating"
  /\ bodies' = code
  /\ sections' = [Empty EXCEPT !.types = << <<<<"func", "i32">>>> >>]
  /\ UNCHANGED <<output, lost, reading, ops, eof, functions>>

\* translate_bytes of a module handed over directly.
TranslateGiven ==
  /\ tr = "idle"
  /\ tr' = "parsing"
  /\ UNCHANGED <<bodies, sections, output, lost, reading, ops, eof, functions>>

\* parse of one more entity, in the order the sections come in; component,
\* tag, data count and unknown sections are skipped.
ParseEntity(section, e) ==
  /\ tr = "parsing"
  /\ Size(sections) < MaxEntities
  /\ sections' = [sections EXCEPT ![section] = Append(@, e)]
  /\ UNCHANGED <<tr, bodies, output, lost, reading, ops, eof, functions>>

\* A malformed entity ends the parse; one of the function section panics.
ParseMalformed(how) ==
  /\ tr = "parsing"
  /\ tr' = how
  /\ UNCHANGED <<bodies, sections, output, lost, reading, ops, eof, functions>>

ParseEnd ==
  /\ tr = "parsing"
  /\ tr' = "translating"
  /\ UNCHANGED <<bodies, sections, output, lost, reading, ops, eof, functions>>

-------------------------------------------------------------------------------
(* translate: an entity whose translation is an Err is left out of the text,   *)
(* its error joins the others, and nothing ever reads them.                    *)

Unrendered == SelectSeq(SectionOrder, LAMBDA s : sections[s] # << >>)

translate ==
  /\ tr = "translating" /\ Unrendered # << >>
  /\ LET s == Head(Unrendered)
         term == TranslateEntity(s, Head(sections[s])) IN
       /\ sections' = [sections EXCEPT ![s] = Tail(@)]
       /\ IF term = Unsupported
          THEN lost' = lost \cup {s} /\ UNCHANGED output
          ELSE output' = [output EXCEPT ![s] = Append(@, term)] /\ UNCHANGED lost
  /\ UNCHANGED <<tr, bodies, reading, ops, eof, functions>>

StartFunctions ==
  /\ tr = "translating" /\ Unrendered = << >>
  /\ tr' = "functions"
  /\ UNCHANGED <<bodies, sections, output, lost, reading, ops, eof, functions>>

-------------------------------------------------------------------------------
(* translate_functions and translate_expression.                              *)

\* A call of translate_expression: what it was called for, the label of the
\* block or condition, the arm of a condition that is already complete, and the
\* parts collected so far.
Call(arm, label) == [arm |-> arm, label |-> label, then |-> << >>, parts |-> << >>]

Part(op) == [kind |-> "operator", label |-> op, then |-> << >>, else |-> << >>]
IsEnd(part) == part.kind = "operator" /\ part.label = End

BodyIndex == Len(functions) + 1
InFunctions == tr = "functions" /\ reading = << >>
MoreBodies == IF bodies = Given THEN BodyIndex <= MaxBodies ELSE BodyIndex <= Len(bodies)

\* The locals of the function come first: an untranslatable type among them
\* ends the functions altogether, and none of them is in the text.
BeginFunction(local) ==
  /\ InFunctions /\ MoreBodies
  /\ bodies # Given => local = "i32"
  /\ IF translate_value_type(local) = Unsupported
     THEN lost' = lost \cup {"functions"} /\ functions' = << >> /\ tr' = "done"
          /\ UNCHANGED reading
     ELSE reading' = << Call("body", << >>) >> /\ UNCHANGED <<lost, functions, tr>>
  /\ ops' = << >> /\ eof' = FALSE
  /\ UNCHANGED <<bodies, sections, output>>

EndFunctions ==
  /\ InFunctions /\ (bodies = Given \/ ~MoreBodies)
  /\ tr' = "done"
  /\ UNCHANGED <<bodies, sections, output, lost, reading, ops, eof, functions>>

\* An expression is printed in the order of its operators, ends and elses left
\* out: the first operator without a term is a panic, or makes the whole
\* expression the text "Error rendering expression".
RECURSIVE Flatten(_)
Flatten(parts) ==
  IF parts = << >> THEN << >>
  ELSE LET p == Head(parts) IN
       <<p.label>> \o Flatten(p.then) \o Flatten(p.else) \o Flatten(Tail(parts))

print_with_offset(parts) ==
  LET terms == [i \in DOMAIN Flatten(parts) |->
                  IF Flatten(parts)[i] \in {End, Else} THEN << >>
                  ELSE translate_basic_operator(Flatten(parts)[i])]
      bad == SelectSeq(terms, LAMBDA t : t \in {Todo, Unsupported}) IN
  IF bad = << >> THEN "text" ELSE bad[1][1]

\* Mutant: the else arm is read even when the then arm ended the condition.
MutReturn(parts) ==
  LET call == Last(reading)
      Resume(part) == Append(Front(Front(reading)),
        [Last(Front(reading)) EXCEPT !.parts = Append(@, part)]) IN
  CASE call.arm = "block" ->
         Resume([kind |-> "block", label |-> call.label, then |-> parts, else |-> << >>])
    [] call.arm = "then" ->
         Append(Front(reading), [Call("else", call.label) EXCEPT !.then = parts])
    [] call.arm = "else" ->
         Resume([kind |-> "condition", label |-> call.label, then |-> call.then,
                 else |-> parts])

\* The end of the call on top, with the parts it returns: the caller adds the
\* block, reads the other arm of the condition, or adds the condition.
Return(parts) ==
  LET call == Last(reading)
      Resume(part) == Append(Front(Front(reading)),
        [Last(Front(reading)) EXCEPT !.parts = Append(@, part)]) IN
  CASE call.arm = "block" ->
         Resume([kind |-> "block", label |-> call.label, then |-> parts, else |-> << >>])
    [] call.arm = "then" /\ IsEnd(Last(parts)) ->
         Resume([kind |-> "condition", label |-> call.label, then |-> parts,
                 else |-> << >>])
    [] call.arm = "then" ->
         Append(Front(reading), [Call("else", call.label) EXCEPT !.then = parts])
    [] call.arm = "else" ->
         Resume([kind |-> "condition", label |-> call.label, then |-> call.then,
                 else |-> parts])

\* translate_expr of the body returned: it is rendered.  `whole' is a record of
\* whether the reader had reached the end.
FinishFunction(parts, whole, read) ==
  /\ tr' = IF print_with_offset(parts) = "todo" THEN "panic" ELSE tr
  /\ functions' = Append(functions,
       [parts |-> parts, ops |-> read, whole |-> whole, renders |-> print_with_offset(parts) = "text"])
  /\ reading' = << >>

ReadsLeft ==
  MaxReads - Len(ops) - FoldSeq(LAMBDA f, n : n + Len(f.ops), 0, functions)
           - EntityCost * (Size(output) + Cardinality(lost))
NextOps ==
  IF reading = << >> THEN {}
  ELSE IF bodies # Given
  THEN IF Len(ops) < Len(bodies[BodyIndex]) THEN {bodies[BodyIndex][Len(ops) + 1]} ELSE {}
  ELSE IF ~eof /\ ReadsLeft > 0 THEN Alphabet ELSE {}

\* One turn of the loop of translate_expression.
translate_expression(op) ==
  /\ tr = "functions" /\ reading # << >>
  /\ ops' = Append(ops, op)
  /\ LET top == Last(reading)
         parts == Append(top.parts, Part(op)) IN
     CASE op \in StructuredOps ->
            /\ reading' = Append(reading,
                 Call(IF op[2] = "if" THEN "then" ELSE "block", op))
            /\ UNCHANGED <<tr, functions>>
       [] op \in {Else, End} /\ Len(reading) > 1 ->
            reading' = Return(parts) /\ UNCHANGED <<tr, functions>>
       [] op \in {Else, End} /\ Len(reading) = 1 ->
            \E more \in BOOLEAN :
              /\ more => bodies = Given /\ ReadsLeft > 1
              /\ bodies # Given => (more <=> Len(ops) + 1 < Len(bodies[BodyIndex]))
              /\ FinishFunction(parts, ~more, Append(ops, op))
       [] OTHER ->
            /\ reading' = Append(Front(reading), [top EXCEPT !.parts = parts])
            /\ UNCHANGED <<tr, functions>>
  /\ UNCHANGED <<bodies, sections, output, lost, eof>>

\* The operators run out inside a call: it returns what it has; the empty arm of
\* a condition is an unwrap() of None.
ReaderExhausted ==
  /\ tr = "functions" /\ reading # << >>
  /\ bodies = Given \/ NextOps = {}
  /\ eof' = TRUE
  /\ LET top == Last(reading) IN
       IF Len(reading) = 1
       THEN FinishFunction(top.parts, TRUE, ops)
       ELSE IF top.arm = "then" /\ top.parts = << >>
       THEN tr' = "panic" /\ UNCHANGED <<reading, functions>>
       ELSE reading' = Return(top.parts) /\ UNCHANGED <<tr, functions>>
  /\ UNCHANGED <<bodies, sections, output, lost, ops>>

\* A malformed operator is an unwrap() of an Err.
ReaderFails ==
  /\ tr = "functions" /\ reading # << >> /\ bodies = Given /\ ~eof
  /\ tr' = "panic"
  /\ UNCHANGED <<bodies, sections, output, lost, reading, ops, eof, functions>>

TranslatorInit ==
  /\ tr = "idle" /\ bodies = Given /\ sections = Empty /\ output = Empty
  /\ lost = {} /\ reading = << >> /\ ops = << >> /\ eof = FALSE
  /\ functions = << >>

TranslatorStep ==
  \/ \E s \in Range(SectionOrder) : \E e \in Entities[s] : ParseEntity(s, e)
  \/ \E how \in {"failed", "panic"} : ParseMalformed(how)
  \/ ParseEnd \/ translate \/ StartFunctions
  \/ \E local \in {"i32", "anyref"} : BeginFunction(local)
  \/ \E op \in NextOps : translate_expression(op)
  \/ EndFunctions \/ ReaderExhausted \/ ReaderFails

-------------------------------------------------------------------------------

Illegal == <<"illegal">>

\* The nesting of WebAssembly itself: the blocks that are open after the
\* operators read, the function's own first; Illegal once an else is not in the
\* first arm of an if or an operator follows the end of the function.
Nesting(read) ==
  LET N[n \in 0 .. Len(read)] ==
        IF n = 0 THEN <<"function">>
        ELSE LET open == N[n - 1]
                 op == read[n] IN
          CASE open \in {Illegal, << >>} -> Illegal
            [] op \in StructuredOps \cup {<<"exception", "try">>, <<"exception", "try_table">>} ->
                 Append(open, op[2])
            [] op = Else ->
                 IF Last(open) = "if" THEN Append(Front(open), "else") ELSE Illegal
            [] op = End -> Front(open)
            [] OTHER -> open
  IN  N[Len(read)]

\* Parts that end in the operator `closer' and nowhere else in an end or else,
\* and so do the parts of every block and condition among them.
RECURSIVE EndsWith(_, _)
EndsWith(parts, closer) ==
  /\ parts # << >> /\ Last(parts) = Part(closer)
  /\ \A i \in 1 .. Len(parts) - 1 :
       LET p == parts[i] IN
       CASE p.kind = "operator" -> p.label \notin StructuredOps \cup {End, Else}
         [] p.kind = "block" -> p.label \in StructuredOps /\ EndsWith(p.then, End)
         [] p.kind = "condition" ->
              \/ EndsWith(p.then, End) /\ p.else = << >>
              \/ EndsWith(p.then, Else) /\ EndsWith(p.else, End)

\* A function that renders says what its body says.  When the operators read so
\* far nest as WebAssembly nests them and close the function, the tree in the
\* text is the tree of that nesting; and the translation stops before the end
\* of a body only when its operators do not nest or the function was closed.
\* The ends are dropped from the text, so the nesting is all that tells where a
\* block of the program stops.
RenderedIsWhole ==
  \A i \in DOMAIN functions :
    LET f == functions[i] IN
      f.renders /\ Nesting(f.ops) # Illegal =>
        /\ Flatten(f.parts) = f.ops
        /\ Nesting(f.ops) = << >> => EndsWith(f.parts, End)
        /\ ~f.whole => Nesting(f.ops) = << >>

\* translator.rs:297, "Returns an error if translation of any section fails":
\* a translation that returns Ok met no error.
TranslatedWithoutErrors == tr = "done" => lost = {}
===============================================================================
