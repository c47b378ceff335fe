--------------------------- MODULE ModuleValidator ---------------------------
(* The validator of a whole file, inf-wasmparser/src/validator.rs, and the      *)
(* state it keeps of a module, validator/core.rs: the order of the sections,   *)
(* the index spaces, constant expressions, and the two promises a module makes *)
(* before its code and keeps after it: the number of bodies and of data        *)
(* segments.  Function bodies are collected and checked after the last payload.*)
(* A loop over items is the function of the states after the first k of them.   *)
(* Limits, value types of tables and globals and the typing of instructions    *)
(* (module OperatorValidator) are left out.                                    *)
EXTENDS WastEncoder, TypeCanonicalizer

CONSTANTS
  MaxItems,        \* the MAX_WASM_* limit of every space
  MultiMemory      \* whether the multi-memory feature is on

\* The order of the sections, enum Order.
Order ==
  [type |-> 1, import |-> 2, func |-> 3, table |-> 4, memory |-> 5, tag |-> 6, global |-> 7,
   export |-> 8, start |-> 9, elem |-> 10, datacount |-> 11, codestart |-> 12, data |-> 13]

\* struct ModuleState and Module.  shared: a function to validate holds the
\* module, which panics when it is changed from then on.
NewModule ==
  [order |-> 0, types |-> <<>>, functions |-> <<>>, tables |-> 0, memories |-> 0,
   globals |-> <<>>, tags |-> <<>>, elems |-> 0, data_count |-> -1, segments |-> 0,
   expected |-> -1, imported_functions |-> 0, imported_globals |-> 0, references |-> {},
   imports |-> <<>>, exports |-> {}, next_body |-> -1, shared |-> FALSE]

NewComponent == [module |-> 0, component |-> 0]

\* struct Validator; bodies are the functions_to_validate of validate_all.
new_validator ==
  [state |-> "unparsed", expected |-> "any", module |-> NewModule, components |-> <<>>,
   types |-> EmptyTypes, bodies |-> <<>>, error |-> ""]

Error(v, why) == IF v.error # "" THEN v ELSE [v EXCEPT !.error = why]

\* A check that fails is the error, and nothing happens after an error.
Check(v, cond, why) == IF v.error # "" \/ cond THEN v ELSE [v EXCEPT !.error = why]
Then(v, Op(_)) == IF v.error # "" THEN v ELSE Op(v)

\* MaybeOwned::assert_mut of core/arc.
assert_mut(v) == Check(v, ~v.module.shared, "panic")

\* State::ensure_parsable, ensure_module and ensure_component.
ensure(v, what) == Check(v, v.state = what, "section")

\* check_max of limits.rs.
check_max(v, len, added, max) == Check(v, len + added <= max, "limit")

MaxMemories == IF MultiMemory THEN MaxItems ELSE 1

-------------------------------------------------------------------------------
(* Index spaces *)

Count(m, space) ==
  CASE space = "type" -> Len(m.types)
    [] space = "func" -> Len(m.functions)
    [] space = "table" -> m.tables
    [] space = "memory" -> m.memories
    [] space = "global" -> Len(m.globals)
    [] space = "tag" -> Len(m.tags)
    [] space = "elem" -> m.elems
    [] OTHER -> m.data_count

\* Module::global_at, table_at, memory_at and the bound of an export; the data
\* segments are those that were announced.
InBounds(m, space, index) == Count(m, space) # -1 /\ index < Count(m, space)

\* Module::sub_type_at and func_type_at.
IsFuncType(v, index) ==
  /\ InBounds(v.module, "type", index)
  /\ list_get(v.types.core_types, v.module.types[index + 1]).shape = "func"

FuncType(v, index) == list_get(v.types.core_types, v.module.types[index + 1])

\* Module::get_func_type.
get_func_type(v, func) ==
  Check(v, InBounds(v.module, "func", func)
             /\ IsFuncType(v, v.module.functions[func + 1]), "bounds")

NoArguments(v, func) ==
  LET ty == FuncType(v, v.module.functions[func + 1]) IN ty.params = <<>> /\ ty.results = <<>>

\* Module::check_tag_type: no results.
check_tag_type(v, index) ==
  Check(Check(v, IsFuncType(v, index), "bounds"), FuncType(v, index).results = <<>>, "type")

-------------------------------------------------------------------------------
(* check_const_expr: one constant operator and an end.                         *)

\* VisitConstOperator::validate_global.
validate_global(v, index) ==
  Check(v, /\ InBounds(v.module, "global", index)
           /\ index < v.module.imported_globals \/ Gc
           /\ ~v.module.globals[index + 1], "const")

Reference(v, index) ==
  Then(assert_mut(v), LAMBDA w : [w EXCEPT !.module.references = @ \cup {index}])

\* Mutant: the function is recorded in the data section too.
Mutinsert_ref_func(v, index) == Reference(v, index)

\* VisitConstOperator::insert_ref_func: not in the data section, where the
\* module may be shared already.
insert_ref_func(v, index) == IF v.module.order = Order.data THEN v ELSE Reference(v, index)

\* One operator of a constant expression, and the type it leaves.
VisitConst(v, i) ==
  CASE i.op = "i32.const" -> v
    [] i.op = "global.get" -> validate_global(v, i.args[1])
    [] i.op = "ref.func" ->
         Check(insert_ref_func(v, i.args[1]), InBounds(v.module, "func", i.args[1]), "bounds")
    [] OTHER -> Error(v, "const")

ConstType(i) == IF i.op = "ref.func" THEN "funcref" ELSE "i32"

\* ModuleState::check_const_expr: the operator's own check, the type it leaves,
\* and the assertion that no function was left unrecorded.
check_const_expr(v, instrs, expected) ==
  IF instrs = <<>> THEN v
  ELSE Check(Check(VisitConst(v, instrs[1]), ConstType(instrs[1]) = expected, "type"),
             instrs[1].op # "ref.func" \/ v.module.order # Order.data, "panic")

-------------------------------------------------------------------------------
(* One operator per item of a section.                                         *)

Interned(v, r) ==
  [v EXCEPT !.types = r.types, !.module.types = r.ids, !.error = IF r.ok THEN "" ELSE "type"]

\* Module::add_types.
add_types(v, group) ==
  LET Intern(w) == Interned(w, canonicalize_and_intern_rec_group(w.module.types, w.types, group))
  IN  Then(assert_mut(check_max(v, Len(v.module.types), Len(group.types), MaxItems)), Intern)

\* Module::check_type_ref.
check_type_ref(v, i) ==
  CASE i.kind = "func" -> Check(v, IsFuncType(v, i.type), "bounds")
    [] i.kind = "tag" -> check_tag_type(v, i.type)
    [] OTHER -> v

\* The name of an import and the space it goes to; the last one is that of globals.
Imported(module, i) ==
  LET m == [module EXCEPT !.imports = Append(@, i.name)]
  IN  CASE i.kind = "func" -> [m EXCEPT !.functions = Append(@, i.type), !.imported_functions = @ + 1]
        [] i.kind = "table" -> [m EXCEPT !.tables = @ + 1]
        [] i.kind = "memory" -> [m EXCEPT !.memories = @ + 1]
        [] i.kind = "tag" -> [m EXCEPT !.tags = Append(@, m.types[i.type + 1])]
        [] OTHER -> [m EXCEPT !.globals = Append(@, i.mutable), !.imported_globals = @ + 1]

\* Module::add_import.
add_import(v, i) ==
  LET Add(w) == [w EXCEPT !.module = Imported(@, i)]
      Limit(w) == check_max(w, Count(w.module, i.kind), 0,
                            IF i.kind = "memory" THEN MaxMemories ELSE MaxItems)
  IN  Then(Then(assert_mut(check_type_ref(v, i)), Add), Limit)

\* Module::add_function.
add_function(v, f) ==
  Then(assert_mut(Check(v, IsFuncType(v, f.type), "bounds")),
       LAMBDA w : [w EXCEPT !.module.functions = Append(@, f.type)])

\* ModuleState::add_table.
add_table(v, t) ==
  Then(assert_mut(check_const_expr(v, t.instrs, "funcref")),
       LAMBDA w : [w EXCEPT !.module.tables = @ + 1])

add_memory(v, t) == Then(assert_mut(v), LAMBDA w : [w EXCEPT !.module.memories = @ + 1])

\* Module::add_tag.
add_tag(v, t) ==
  Then(assert_mut(check_tag_type(v, t.type)),
       LAMBDA w : [w EXCEPT !.module.tags = Append(@, w.module.types[t.type + 1])])

\* ModuleState::add_global: the initialiser does not see the global itself.
add_global(v, g) ==
  Then(assert_mut(check_const_expr(v, g.instrs, "i32")),
       LAMBDA w : [w EXCEPT !.module.globals = Append(@, g.mutable)])

\* Module::export_to_entity_type: an exported function may be named by ref.func.
export_to_entity_type(v, e) ==
  Then(assert_mut(Check(v, InBounds(v.module, e.kind, e.index), "bounds")),
       LAMBDA w : IF e.kind = "func" THEN Reference(w, e.index) ELSE w)

\* Module::add_export: a name is used once.
add_export(v, e) ==
  Check(Then(export_to_entity_type(v, e), LAMBDA w : [w EXCEPT !.module.exports = @ \cup {e.name}]),
        e.name \notin v.module.exports, "name")

\* ModuleState::add_element_segment.
add_element_segment(v, e) ==
  LET Offset(w) == check_const_expr(w, e.offset, "i32")
      Active == IF e.mode # "active" THEN v
                ELSE Then(Check(v, InBounds(v.module, "table", e.target), "bounds"), Offset)
      Element(w, f) == Then(get_func_type(w, f), LAMBDA x : Reference(x, f))
      Added[k \in 0..Len(e.items)] ==
        IF k = 0 THEN Active ELSE Element(Added[k - 1], e.items[k])
  IN  Then(assert_mut(Added[Len(e.items)]),
           LAMBDA w : [w EXCEPT !.module.elems = @ + 1])

\* ModuleState::add_data_segment.
add_data_segment(v, d) ==
  IF d.mode # "active" THEN v
  ELSE Then(Check(v, InBounds(v.module, "memory", d.target), "bounds"),
            LAMBDA w : check_const_expr(w, d.offset, "i32"))

-------------------------------------------------------------------------------
(* Payloads *)

Ordered(v, kind, ok) ==
  Then(Check(v, ok, "order"), LAMBDA w : [w EXCEPT !.module.order = Order[kind]])

\* Mutant: a section may come twice in a row.
Mutupdate_order(v, kind) == Ordered(v, kind, v.module.order <= Order[kind])

\* ModuleState::update_order.
update_order(v, kind) == Ordered(v, kind, v.module.order < Order[kind])

\* The section items, by kind.
AddItem(kind, v, item) ==
  CASE kind = "type" -> add_types(v, item)
    [] kind = "import" -> add_import(v, item)
    [] kind = "func" -> add_function(v, item)
    [] kind = "table" -> add_table(v, item)
    [] kind = "memory" -> add_memory(v, item)
    [] kind = "tag" -> add_tag(v, item)
    [] kind = "global" -> add_global(v, item)
    [] kind = "export" -> add_export(v, item)
    [] kind = "elem" -> add_element_segment(v, item)
    [] kind = "data" -> add_data_segment(v, item)

\* The limit on the number of items and what else a section begins with.
validate_section(v, kind, count) ==
  LET before == CASE kind = "export" -> Cardinality(v.module.exports)
                  [] kind \in {"import", "data"} -> 0
                  [] OTHER -> Count(v.module, kind)
      Begin(w) == CASE kind = "func" -> [w EXCEPT !.module.expected = count]
                    [] kind = "data" -> [w EXCEPT !.module.segments = count]
                    [] OTHER -> w
  IN  Then(check_max(v, before, count, IF kind = "memory" THEN MaxMemories ELSE MaxItems), Begin)

\* FromReader: what is there is an item of the section's kind; of another kind
\* only an element would miss something that is looked at.
Readable(kind, item) == item # <<>> /\ (kind = "elem" => "items" \in DOMAIN item[1])

\* Validator::process_module_section: as many items as the section says, and
\* nothing behind them.
process_module_section(v, p) ==
  LET Begin(w) == validate_section(w, p.kind, p.count)
      Step(w, cell) ==
        Then(Check(w, Readable(p.kind, cell.item), "binary"),
             LAMBDA x : AddItem(p.kind, x, cell.item[1]))
      begun == Then(update_order(ensure(v, "module"), p.kind), Begin)
      n == IF p.count < Len(p.cells) THEN p.count ELSE Len(p.cells)
      Added[k \in 0..n] == IF k = 0 THEN begun ELSE Step(Added[k - 1], p.cells[k])
  IN  Check(Added[n], p.count = Len(p.cells), "binary")

\* Validator::version.
version(v, p) ==
  LET encoding == IF p.count = Version.module THEN "module" ELSE "component"
      Enter(w) == IF encoding = "module" THEN [w EXCEPT !.state = "module", !.module = NewModule]
                  ELSE [w EXCEPT !.state = "component", !.components = Append(@, NewComponent)]
  IN  Then(Check(v, v.state = "unparsed" /\ v.expected \in {"any", encoding}, "version"), Enter)

\* Validator::start_section.
start_section(v, p) ==
  LET Started(w) == Check(get_func_type(w, p.count), NoArguments(w, p.count), "type")
  IN  Then(update_order(ensure(v, "module"), "start"), Started)

\* Validator::data_count_section.
data_count_section(v, p) ==
  Then(assert_mut(check_max(update_order(ensure(v, "module"), "datacount"), 0, p.count, MaxItems)),
       LAMBDA w : [w EXCEPT !.module.data_count = p.count])

\* Validator::code_section_start: the promise of the function section is taken,
\* and the types so far become a snapshot.
code_section_start(v, p) ==
  LET n == v.module.expected
      Snapshot(w) == [w EXCEPT !.module.expected = -1, !.types = commit(@)]
  IN  Then(assert_mut(Check(update_order(ensure(v, "module"), "codestart"),
                            n = p.count \/ (n = -1 /\ p.count = 0), "bodies")),
           Snapshot)

\* ModuleState::next_code_index_and_type.
next_code_index(m) == IF m.next_body = -1 THEN m.imported_functions ELSE m.next_body

\* Validator::code_section_entry: the body is kept with the module as it is now.
code_section_entry(v, p) ==
  LET index == next_code_index(v.module)
      Keep(w) == [w EXCEPT !.module.next_body = index + 1, !.module.shared = TRUE,
                           !.bodies = Append(@, [index |-> index, module |-> v.module,
                             instrs |-> [i \in DOMAIN p.cells |-> p.cells[i].item]])]
  IN  Then(Check(ensure(v, "module"), InBounds(v.module, "func", index), "bodies"), Keep)

\* Validator::module_section and component_section.
nested_section(v, p) ==
  LET Limit(w) == check_max(w, Last(w.components)[p.kind], 1, MaxItems)
      Expect(w) == [w EXCEPT !.state = "unparsed", !.expected = p.kind]
  IN  Then(Then(ensure(v, "component"), Limit), Expect)

\* ModuleState::validate_end.
validate_end(v) ==
  Check(Check(v, v.module.data_count \in {-1, v.module.segments}, "datacount"),
        v.module.expected <= 0, "bodies")

\* A module or component inside a component is counted there.
AddTo(w, kind) ==
  [w EXCEPT !.state = "component", !.components[Len(w.components)][kind] = @ + 1]

\* ComponentState::add_core_module: import names are used once.
add_core_module(v) ==
  Then(Check(v, IsInjective(v.module.imports), "name"), LAMBDA w : AddTo(w, "module"))

\* Validator::end: of a module, of a nested or of the outermost component.
end(v) ==
  LET Outermost(w) == [w EXCEPT !.state = "end"]
      Commit(w) == [w EXCEPT !.types = commit(@)]
      Leave(w) == IF w.components = <<>> THEN Outermost(w) ELSE AddTo(w, "component")
  IN  CASE v.state = "module" ->
             Then(IF v.components = <<>> THEN Then(validate_end(v), Outermost)
                  ELSE Then(validate_end(v), add_core_module), Commit)
        [] v.state = "component" -> Commit(Leave([v EXCEPT !.components = Front(@)]))
        [] OTHER -> Error(v, "version")

\* Validator::payload.
payload(v, p) ==
  CASE p.kind = "version" -> version(v, p)
    [] p.kind = "start" -> start_section(v, p)
    [] p.kind = "datacount" -> data_count_section(v, p)
    [] p.kind = "codestart" -> code_section_start(v, p)
    [] p.kind = "body" -> code_section_entry(v, p)
    [] p.kind \in {"module", "component"} -> nested_section(v, p)
    [] p.kind = "end" -> end(v)
    [] p.kind = "custom" -> v
    [] p.kind \in DOMAIN Order \ {"start", "datacount", "codestart"} ->
         process_module_section(v, p)
    [] OTHER -> Error(v, "section")

-------------------------------------------------------------------------------
(* The bodies, after the last payload: what an instruction refers to is there, *)
(* data segments are announced, and ref.func names a declared function.        *)

OperandsInBounds(m, i) ==
  LET spaces == IF i.op \in DOMAIN Operands THEN Operands[i.op] ELSE <<>>
  IN  /\ \A k \in DOMAIN i.args : spaces[k] \notin {"local", "label"} =>
           InBounds(m, spaces[k], i.args[k])
      /\ i.ty = <<>> \/ InBounds(m, "type", i.ty[1])
      /\ \A c \in Range(i.catches) : InBounds(m, "tag", c.tag)

Declared(m, i) == i.op = "ref.func" => i.args[1] \in m.references

\* FuncValidator::validate, as far as the module is concerned.
validate_body(v, b) ==
  LET instrs == {b.instrs[k][1] : k \in DOMAIN b.instrs}
  IN  IF v.error # "" THEN v
      ELSE IF <<>> \in Range(b.instrs) THEN Error(v, "binary")
      ELSE Check(Check(v, \A i \in instrs : OperandsInBounds(b.module, i), "operand"),
                 \A i \in instrs : Declared(b.module, i), "undeclared")

\* The second half of Validator::validate_all.
validate_bodies(v) ==
  LET Validated[k \in 0..Len(v.bodies)] ==
        IF k = 0 THEN v ELSE validate_body(Validated[k - 1], v.bodies[k])
  IN  Validated[Len(v.bodies)]

\* Validator::reset: the types stay.
reset(v) ==
  Then(Check(v, v.state = "end" /\ v.components = <<>>, "panic"),
       LAMBDA w : [new_validator EXCEPT !.types = w.types])
=============================================================================
