---------------------------- MODULE WastResolver ----------------------------
(* Name resolution of a text module, inf-wast/src/core/resolve: a module is a *)
(* sequence of fields; inline imports, exports and segments are taken out of   *)
(* their field, type uses get a type of the type section, and every symbolic   *)
(* index becomes a number.  Identifiers are <<"$", name>> in the source and    *)
(* <<"gen", n>> when generated; an index is <<"num", n>> or <<"id", id>>.      *)
(* `span' is the place of the field in the source, which every field made from *)
(* it keeps.  Text, literals and limits are left out.                          *)
EXTENDS Integers, Sequences, SequencesExt

NoId == <<"none">>
Num(n) == <<"num", n>>
ById(id) == <<"id", id>>
Unknown == <<"unknown">>          \* an index that names nothing
NoIndex == <<"absent">>

\* A type use: an optional index and an optional inline function type.
NoType == [params |-> <<>>, results |-> <<>>, names |-> <<>>]
NoUse == [index |-> NoIndex, inline |-> <<>>]

ItemKinds == {"func", "table", "memory", "global", "tag"}
Spaces == ItemKinds \cup {"type", "elem", "data"}

-------------------------------------------------------------------------------
(* gensym.rs and deinline_import_export.rs *)

\* gensym::fill: the identifier of a slot, and the counter after it.
fill(id, next) == IF id = NoId THEN [id |-> <<"gen", next + 1>>, next |-> next + 1]
                  ELSE [id |-> id, next |-> next]

\* export(): an export field for an item that is named from now on.
Export(f, name, id) ==
  [kind |-> "export", span |-> f.span, name |-> name, ek |-> f.kind, item |-> ById(id)]

\* The import field that replaces an item imported inline.
ImportOf(f) ==
  [kind |-> "import", span |-> f.span, ik |-> f.kind, id |-> f.id, ty |-> f.ty,
   mutable |-> f.mutable]

Instr(op, args) == [op |-> op, args |-> args, label |-> NoId, ty |-> NoUse, catches |-> <<>>]
I32Const == Instr("i32.const", <<>>)

\* The segment that initialises a memory or a table defined with its contents.
SegmentOf(f) ==
  [kind |-> IF f.kind = "memory" THEN "data" ELSE "elem", span |-> f.span,
   id |-> NoId, mode |-> "active", target |-> ById(f.id), offset |-> <<I32Const>>,
   items |-> f.items]

\* One field: its exports first, then its segment, then the field itself.
deinline(s, f) ==
  IF f.kind \notin ItemKinds THEN [s EXCEPT !.fields = Append(@, f)]
  ELSE LET slot == IF f.exports # <<>> \/ f.body = "inline"
                   THEN fill(f.id, s.next) ELSE [id |-> f.id, next |-> s.next]
           g == [f EXCEPT !.id = slot.id]
           exports == [i \in DOMAIN f.exports |-> Export(f, f.exports[i], slot.id)]
       IN  [fields |-> s.fields \o exports
                       \o (IF f.body = "inline" THEN <<SegmentOf(g)>> ELSE <<>>)
                       \o <<CASE f.body = "import" -> ImportOf(g)
                              [] f.body = "inline" -> [g EXCEPT !.exports = <<>>,
                                                                !.body = "normal"]
                              [] OTHER -> [g EXCEPT !.exports = <<>>]>>,
            next |-> slot.next]

deinline_run(fields) == FoldLeft(deinline, [fields |-> <<>>, next |-> 0], fields)

\* Mutant: functions are forgotten as well.
MutImportsFirst(fields) ==
  ~ \E i, j \in DOMAIN fields :
      /\ i < j
      /\ fields[i].kind \in {"memory", "table", "global"}
      /\ fields[j].kind = "import"

\* resolve(): an import after a memory, function, table or global is an error;
\* a tag is not looked at.
ImportsFirst(fields) ==
  ~ \E i, j \in DOMAIN fields :
      /\ i < j
      /\ fields[i].kind \in {"memory", "func", "table", "global"}
      /\ fields[j].kind = "import"

-------------------------------------------------------------------------------
(* types.rs: Expander.  cx.keys maps a function type, as written, to the index *)
(* of the first type field that has it; cx.added are the types to append.      *)

Key(inline) == <<inline.params, inline.results>>

KeyInsert(keys, key, idx) == IF key \in DOMAIN keys THEN keys ELSE keys @@ (key :> idx)

\* Expander::expand_header: names a type field and interns its function type.
expand_header(cx, f) ==
  IF f.kind # "type" THEN [cx EXCEPT !.fields = Append(@, f)]
  ELSE LET slot == fill(f.id, cx.next)
       IN  [cx EXCEPT !.fields = Append(@, [f EXCEPT !.id = slot.id]),
                      !.next = slot.next,
                      !.keys = IF f.def.shape # "func" THEN @
                               ELSE KeyInsert(@, Key(f.def), ById(slot.id))]

\* Expander::key_to_idx: the interned type, or a new one at the end.
key_to_idx(cx, key) ==
  IF key \in DOMAIN cx.keys THEN [cx |-> cx, index |-> cx.keys[key]]
  ELSE LET id == <<"gen", cx.next + 1>>
           def == [shape |-> "func", params |-> key[1], results |-> key[2],
                   final |-> TRUE, super |-> NoIndex]
       IN  [cx |-> [cx EXCEPT !.next = @ + 1,
                              !.keys = KeyInsert(@, key, ById(id)),
                              !.added = Append(@, [kind |-> "type", span |-> 0,
                                                   id |-> id, def |-> def])],
            index |-> ById(id)]

\* Expander::expand_type_use.
expand_type_use(cx, use) ==
  IF use.index # NoIndex THEN [cx |-> cx, use |-> use]
  ELSE LET r == key_to_idx(cx, IF use.inline = <<>> THEN Key(NoType) ELSE Key(use.inline[1]))
       IN  [cx |-> r.cx, use |-> [use EXCEPT !.index = r.index]]

BlockOps == {"block", "loop", "if", "forall", "exists", "assume", "unique", "try"}
Opens == BlockOps \cup {"try_table"}

\* Expander::expand_instr: a block without parameters and with at most one
\* result keeps its inline type.
expand_instr(s, i) ==
  LET simple == /\ i.op \in Opens
                /\ \/ i.ty.inline = <<>>
                   \/ i.ty.inline[1].params = <<>> /\ Len(i.ty.inline[1].results) <= 1
      r == expand_type_use(s.cx, i.ty)
  IN  CASE i.ty.index = NoIndex /\ simple ->
             [s EXCEPT !.out = Append(@,
                IF i.ty.inline = <<>> THEN [i EXCEPT !.ty.inline = <<NoType>>] ELSE i)]
        [] i.op \in Opens \cup {"call_indirect", "return_call_indirect"} ->
             [cx |-> r.cx, out |-> Append(s.out, [i EXCEPT !.ty = r.use])]
        [] OTHER -> [s EXCEPT !.out = Append(@, i)]

expand_expression(cx, instrs) == FoldLeft(expand_instr, [cx |-> cx, out |-> <<>>], instrs)

Walked == {"func", "global", "table"}

\* Expander::expand: imports, functions and tags get the index of their type,
\* function bodies and the expressions of globals and tables are walked (the
\* expressions of segments are too, and hold nothing to expand).
expand(cx, f) ==
  LET typed == f.kind \in {"func", "tag"}
                 \/ (f.kind = "import" /\ f.ik \in {"func", "tag"})
      u == IF typed THEN expand_type_use(cx, f.ty) ELSE [cx |-> cx, use |-> NoUse]
      g == IF typed THEN [f EXCEPT !.ty = u.use] ELSE f
      e == IF f.kind \in Walked THEN expand_expression(u.cx, f.instrs)
           ELSE [cx |-> u.cx, out |-> <<>>]
  IN  [e.cx EXCEPT !.fields =
         Append(@, IF f.kind \in Walked THEN [g EXCEPT !.instrs = e.out] ELSE g)]

\* Expander::process.
expand_types(d) ==
  LET header == FoldLeft(expand_header,
                         [fields |-> <<>>, next |-> d.next, keys |-> <<>>, added |-> <<>>],
                         d.fields)
      rest == FoldLeft(expand, [header EXCEPT !.fields = <<>>], header.fields)
  IN  rest.fields \o rest.added

-------------------------------------------------------------------------------
(* names.rs of the crate: Namespace *)

EmptySpace == [names |-> <<>>, count |-> 0, ok |-> TRUE]

\* Namespace::register: an identifier may be taken only once.
register_name(ns, id) ==
  [names |-> IF id = NoId THEN ns.names ELSE (id :> ns.count) @@ ns.names,
   count |-> ns.count + 1,
   ok |-> ns.ok /\ (id = NoId \/ id \notin DOMAIN ns.names)]

\* Namespace::resolve.
resolve_name(ns, idx) ==
  CASE idx[1] # "id" -> idx
    [] idx[2] \in DOMAIN ns.names -> Num(ns.names[idx[2]])
    [] OTHER -> Unknown

-------------------------------------------------------------------------------
(* core/resolve/names.rs: Resolver *)

SpaceOf(f) == IF f.kind = "import" THEN f.ik ELSE f.kind

\* Resolver::register_type, which also records the signatures of functions.
register_type(r, t) ==
  [r EXCEPT !.space["type"] = register_name(@, t.id),
            !.type_info = Append(@, t.def)]

\* Resolver::register: every field takes the next index of its space, in the
\* order of the fields.
register(r, f) ==
  CASE f.kind = "type" -> register_type(r, f)
    [] f.kind = "rec" -> FoldLeft(register_type, r, f.types)
    [] SpaceOf(f) \in Spaces -> [r EXCEPT !.space[SpaceOf(f)] = register_name(@, f.id)]
    [] OTHER -> r

RegisterAll(fields) ==
  FoldLeft(register, [space |-> [s \in Spaces |-> EmptySpace], type_info |-> <<>>], fields)

\* ResolveCoreType: the types a type refers to.
resolve_valtype(r, t) == IF t[1] = "ref" THEN <<"ref", resolve_name(r.space["type"], t[2])>> ELSE t

resolve_type_def(r, def) ==
  [def EXCEPT !.params = [i \in DOMAIN @ |-> resolve_valtype(r, @[i])],
              !.results = [i \in DOMAIN @ |-> resolve_valtype(r, @[i])],
              !.super = resolve_name(r.space["type"], @)]

\* FunctionType::check_matches: an inline type beside an index has to be the
\* type the index names, both resolved.
check_matches(r, inline, n) ==
  n >= Len(r.type_info) \/ r.type_info[n + 1].shape # "func"
  \/ LET listed == r.type_info[n + 1]
         Same(a, b) == /\ Len(a) = Len(b)
                       /\ \A i \in DOMAIN a : resolve_valtype(r, a[i]) = resolve_valtype(r, b[i])
     IN  Same(listed.params, inline.params) /\ Same(listed.results, inline.results)

\* Resolver::resolve_type_use.
resolve_type_use(r, use) ==
  LET idx == resolve_name(r.space["type"], use.index)
  IN  [use |-> [use EXCEPT !.index = idx],
       ok |-> /\ idx # Unknown
              /\ use.inline = <<>> \/ check_matches(r, use.inline[1], idx[2])]

-------------------------------------------------------------------------------
(* ExprResolver: the spaces the index arguments of an instruction live in.     *)

MemoryOperands ==
  [op \in {"i32.load", "memory.size", "memory.grow", "memory.fill"} |-> <<"memory">>]
  @@ ("memory.init" :> <<"data", "memory">> @@ "memory.copy" :> <<"memory", "memory">>
      @@ "data.drop" :> <<"data">>)

TableOperands ==
  [op \in {"table.fill", "table.get", "table.set", "table.size", "table.grow",
           "table.atomic.get"} |-> <<"table">>]
  @@ ("table.init" :> <<"elem", "table">> @@ "table.copy" :> <<"table", "table">>
      @@ "elem.drop" :> <<"elem">>)

GlobalOperands ==
  [op \in {"global.get", "global.set", "global.atomic.get", "global.atomic.rmw.add"} |->
     <<"global">>]

CallOperands ==
  [op \in {"call", "return_call", "ref.func"} |-> <<"func">>]
  @@ [op \in {"call_ref", "return_call_ref"} |-> <<"type">>]
  @@ [op \in {"call_indirect", "return_call_indirect"} |-> <<"table">>]

LabelOperands == [op \in {"br", "br_if", "br_on_null", "rethrow", "delegate"} |-> <<"label">>]

TypeOperands ==
  [op \in {"struct.new", "array.new", "array.get", "array.set", "array.fill",
           "array.new_fixed", "cont.new", "resume", "ref.null"} |-> <<"type">>]
  @@ [op \in {"array.copy", "cont.bind"} |-> <<"type", "type">>]
  @@ [op \in {"array.new_data", "array.init_data"} |-> <<"type", "data">>]
  @@ [op \in {"array.new_elem", "array.init_elem"} |-> <<"type", "elem">>]
  @@ [op \in {"throw", "catch", "suspend"} |-> <<"tag">>]
  @@ [op \in {"switch", "resume_throw"} |-> <<"type", "tag">>]

Operands ==
  MemoryOperands @@ TableOperands @@ GlobalOperands @@ CallOperands @@ LabelOperands
  @@ TypeOperands @@ [op \in {"local.get", "local.set", "local.tee"} |-> <<"local">>]

\* ExprResolver::resolve_label: the innermost open block of that name.
resolve_label(blocks, idx) ==
  IF idx[1] # "id" THEN idx
  ELSE LET named == {d \in 0..(Len(blocks) - 1) : blocks[Len(blocks) - d] = idx[2]}
       IN  IF named = {} THEN Unknown
           ELSE Num(CHOOSE d \in named : \A e \in named : d <= e)

ResolveArg(s, space, idx) ==
  CASE space = "label" -> resolve_label(s.blocks, idx)
    [] space = "local" -> resolve_name(s.locals, idx)
    [] OTHER -> resolve_name(s.r.space[space], idx)

\* The handlers of a try_table or of a resume, resolve_resume_table.
ResolveCatches(s, catches) ==
  [i \in DOMAIN catches |->
     [tag |-> resolve_name(s.r.space["tag"], catches[i].tag),
      label |-> resolve_label(s.blocks, catches[i].label)]]

\* The blocks around an instruction once it is met: a delegate leaves its try
\* before its label is resolved, a try_table enters after its handlers are.
BlocksAt(s, i) == IF i.op = "delegate" /\ s.blocks # <<>> THEN Front(s.blocks) ELSE s.blocks

BlocksAfter(s, i) ==
  CASE i.op \in Opens -> Append(s.blocks, i.label)
    [] i.op \in {"end", "delegate"} /\ s.blocks # <<>> -> Front(s.blocks)
    [] OTHER -> s.blocks

\* A label repeated at an else or an end has to be that of its block.
LabelsMatch(s, i) ==
  i.op \notin {"else", "end"} \/ s.blocks = <<>> \/ i.label \in {NoId, Last(s.blocks)}

\* ExprResolver::resolve_instr.
resolve_instr(s, i) ==
  LET at == [s EXCEPT !.blocks = BlocksAt(s, i)]
      spaces == IF i.op \in DOMAIN Operands THEN Operands[i.op] ELSE <<>>
      args == [k \in DOMAIN i.args |-> ResolveArg(at, spaces[k], i.args[k])]
      typed == i.ty.index # NoIndex
      u == IF typed THEN resolve_type_use(s.r, i.ty) ELSE [use |-> i.ty, ok |-> TRUE]
      catches == ResolveCatches(at, i.catches)
  IN  [s EXCEPT !.blocks = BlocksAfter(s, i),
                !.out = Append(@, [i EXCEPT !.args = args, !.ty = u.use, !.catches = catches]),
                !.ok = /\ @ /\ u.ok /\ LabelsMatch(s, i)
                       /\ Unknown \notin Range(args)
                       /\ \A c \in Range(catches) : Unknown \notin {c.tag, c.label}]

ResolveExpr(r, locals, instrs) ==
  FoldLeft(resolve_instr, [r |-> r, locals |-> locals, blocks |-> <<>>, out |-> <<>>, ok |-> TRUE],
           instrs)

\* The parameters, by their inline names or as many as the type has, then the
\* locals.
LocalScope(r, f, n) ==
  LET params == IF f.ty.inline # <<>> THEN f.ty.inline[1].names
                ELSE IF n < Len(r.type_info)
                     THEN [i \in DOMAIN r.type_info[n + 1].params |-> NoId] ELSE <<>>
  IN  FoldLeft(register_name, EmptySpace, params \o f.locals)

\* Resolver::resolve_field, by kind of field.
ResolveFunc(r, f) ==
  LET u == resolve_type_use(r, f.ty)
      scope == LocalScope(r, f, u.use.index[2])
      e == ResolveExpr(r, scope, f.instrs)
  IN  IF ~u.ok THEN [field |-> f, ok |-> FALSE]
      ELSE [field |-> [f EXCEPT !.ty = u.use, !.instrs = e.out], ok |-> e.ok /\ scope.ok]

ResolveSegment(r, f) ==
  LET target == IF f.target = NoIndex THEN f.target
                ELSE resolve_name(r.space[IF f.kind = "elem" THEN "table" ELSE "memory"], f.target)
      items == [i \in DOMAIN f.items |-> resolve_name(r.space["func"], f.items[i])]
      offset == ResolveExpr(r, EmptySpace, f.offset)
  IN  [field |-> [f EXCEPT !.target = target, !.items = items, !.offset = offset.out],
       ok |-> target # Unknown /\ Unknown \notin Range(items) /\ offset.ok]

ResolveTyped(r, f) ==
  LET u == resolve_type_use(r, f.ty) IN [field |-> [f EXCEPT !.ty = u.use], ok |-> u.ok]

\* resolve_item_sig: only functions and tags refer to a type here.
ResolveImport(r, f) ==
  IF f.ik \in {"func", "tag"} THEN ResolveTyped(r, f) ELSE [field |-> f, ok |-> TRUE]

DefOk(def) == \A t \in Range(def.params \o def.results) : t # <<"ref", Unknown>>

ResolveTypes(r, f) ==
  IF f.kind = "type"
  THEN LET def == resolve_type_def(r, f.def)
       IN  [field |-> [f EXCEPT !.def = def], ok |-> DefOk(def) /\ def.super # Unknown]
  ELSE LET types == [i \in DOMAIN f.types |-> [f.types[i] EXCEPT !.def = resolve_type_def(r, @)]]
       IN  [field |-> [f EXCEPT !.types = types],
            ok |-> \A t \in Range(types) : DefOk(t.def) /\ t.def.super # Unknown]

resolve_field(r, f) ==
  CASE f.kind \in {"type", "rec"} -> ResolveTypes(r, f)
    [] f.kind = "import" -> ResolveImport(r, f)
    [] f.kind = "func" -> ResolveFunc(r, f)
    [] f.kind = "tag" -> ResolveTyped(r, f)
    [] f.kind \in {"elem", "data"} -> ResolveSegment(r, f)
    [] f.kind \in {"global", "table"} ->
         LET e == ResolveExpr(r, EmptySpace, f.instrs)
         IN  [field |-> [f EXCEPT !.instrs = e.out], ok |-> e.ok]
    [] f.kind \in {"export", "start"} ->
         LET idx == resolve_name(r.space[f.ek], f.item)
         IN  [field |-> [f EXCEPT !.item = idx], ok |-> idx # Unknown]
    [] OTHER -> [field |-> f, ok |-> TRUE]

\* Resolver::resolve over all fields.
ResolveFields(r, fields) == [i \in DOMAIN fields |-> resolve_field(r, fields[i])]

Outcome(ok, resolved) ==
  [ok |-> ok /\ \A i \in DOMAIN resolved : resolved[i].ok,
   fields |-> [i \in DOMAIN resolved |-> resolved[i].field]]

\* Registration may fail on a repeated name.
RegisterAndResolve(ok, r, fields) ==
  Outcome(ok /\ \A s \in Spaces : r.space[s].ok, ResolveFields(r, fields))

ExpandAndResolve(ok, fields) == RegisterAndResolve(ok, RegisterAll(fields), fields)

DeinlinedResolve(d) == ExpandAndResolve(ImportsFirst(d.fields), expand_types(d))

\* resolve(): the resolved fields of a module, or a failure.
resolve(fields) == DeinlinedResolve(deinline_run(fields))
=============================================================================
