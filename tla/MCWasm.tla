------------------------------- MODULE MCWasm -------------------------------
(* The files of the run: text modules of up to three fields in every order, a   *)
(* text module for every instruction with an index, and binary files with       *)
(* sections out of order, wrong counts, nested modules and shared types.        *)
EXTENDS WasmPipeline

CONSTANT MaxFields

-------------------------------------------------------------------------------
(* Fields of text modules *)

Id(n) == <<"$", n>>
Ref(n) == ById(Id(n))
Use(params, results) ==
  [index |-> NoIndex,
   inline |-> <<[params |-> params, results |-> results, names |-> [i \in DOMAIN params |-> NoId]]>>]
UseOf(n) == [index |-> Ref(n), inline |-> <<>>]

Item(kind, id, body) ==
  [kind |-> kind, id |-> Id(id), exports |-> <<>>, body |-> body, ty |-> NoUse, mutable |-> FALSE,
   items |-> <<>>, instrs |-> <<>>, locals |-> <<>>, hinted |-> FALSE]

Def(shape, params, results) ==
  [shape |-> shape, params |-> params, results |-> results, final |-> TRUE, super |-> NoIndex]

Func(id, use, instrs) == [Item("func", id, "normal") EXCEPT !.ty = use, !.instrs = instrs]

Import(kind, id, use) ==
  [kind |-> "import", ik |-> kind, id |-> Id(id), ty |-> use, mutable |-> FALSE]

I32 == <<"i32">>

Menu ==
  { Func("a", Use(<<I32>>, <<>>), <<Instr("call", <<Ref("b")>>)>>),
    [Func("b", NoUse, <<Instr("ref.func", <<Ref("a")>>)>>) EXCEPT !.exports = <<"x">>],
    [Func("b", Use(<<>>, <<>>), <<>>) EXCEPT !.body = "import", !.exports = <<"y">>],
    Import("func", "b", UseOf("t")),
    [kind |-> "type", id |-> Id("t"), def |-> Def("func", <<>>, <<>>)],
    [Item("global", "g", "normal") EXCEPT !.instrs = <<Instr("global.get", <<Ref("h")>>)>>,
                                          !.exports = <<"g">>],
    [Item("global", "h", "normal") EXCEPT !.instrs = <<I32Const>>],
    Import("global", "h", NoUse),
    [Item("memory", "m", "inline") EXCEPT !.exports = <<"m">>],
    [Item("table", "s", "inline") EXCEPT !.items = <<Ref("a"), Ref("b")>>],
    [Item("table", "s", "import") EXCEPT !.exports = <<"x">>],
    [kind |-> "elem", id |-> NoId, mode |-> "passive", target |-> NoIndex, offset |-> <<>>,
     items |-> <<Ref("b")>>],
    [kind |-> "start", ek |-> "func", item |-> Ref("b")],
    [kind |-> "export", name |-> "z", ek |-> "global", item |-> Ref("h")],
    [kind |-> "custom", place |-> <<"before", "code">>] }

TagMenu ==
  { [Item("tag", "e", "normal") EXCEPT !.ty = Use(<<>>, <<>>)],
    Import("tag", "f", Use(<<I32>>, <<>>)),
    [kind |-> "export", name |-> "z", ek |-> "tag", item |-> Ref("f")] }

WithSpans(fields) == [i \in DOMAIN fields |-> [span |-> i] @@ fields[i]]

\* At most one start, as the text parser demands.
OneStart(fields) == Cardinality({i \in DOMAIN fields : fields[i].kind = "start"}) <= 1

Text(fields, chunked) ==
  <<[form |-> "module text", id |-> NoId, fields |-> WithSpans(fields), cells |-> <<>>,
     chunked |-> chunked]>>

TextPrograms ==
  {Text(fields, FALSE) : fields \in {s \in SeqOf(Menu, MaxFields) : OneStart(s)}}

TagPrograms == {Text(fields, FALSE) : fields \in SeqOf(TagMenu, MaxFields)}

\* One of everything, and a function with one instruction.
Everything(op) ==
  << [kind |-> "type", id |-> Id("type"), def |-> Def("func", <<>>, <<>>)],
     [Item("global", "global", "normal") EXCEPT !.instrs = <<I32Const>>],
     [Item("memory", "memory", "normal") EXCEPT !.body = "inline"],
     [Item("table", "table", "inline") EXCEPT !.items = <<Ref("func")>>],
     [Item("tag", "tag", "normal") EXCEPT !.ty = UseOf("type")],
     [kind |-> "elem", id |-> Id("elem"), mode |-> "passive", target |-> NoIndex,
      offset |-> <<>>, items |-> <<Ref("func")>>],
     [kind |-> "data", id |-> Id("data"), mode |-> "passive", target |-> NoIndex,
      offset |-> <<>>, items |-> <<>>],
     Import("func", "func", UseOf("type")) >>

Blocks(op) ==
  << [Instr("block", <<>>) EXCEPT !.label = Id("label")],
     [Instr(op, [i \in DOMAIN Operands[op] |-> Ref(Operands[op][i])]) EXCEPT
        !.ty = IF op \in {"call_indirect", "return_call_indirect"} THEN UseOf("type") ELSE @],
     [Instr("try_table", <<>>) EXCEPT
        !.ty = Use(<<I32>>, <<I32>>),
        !.catches = <<[tag |-> Ref("tag"), label |-> Ref("label")]>>],
     Instr("end", <<>>), Instr("end", <<>>) >>

InstructionPrograms ==
  {Text(<<Import("func", "func", UseOf("type"))>> \o Front(Everything(op))
          \o <<[Func("f", NoUse, Blocks(op)) EXCEPT !.locals = <<Id("local")>>,
                                                    !.hinted = op = "br_if"]>>, FALSE)
     : op \in DOMAIN Operands}

-------------------------------------------------------------------------------
(* Binary files *)

Binary(cells, chunked) ==
  [form |-> "binary", id |-> NoId, fields |-> <<>>, cells |-> cells, chunked |-> chunked]

BType(params) ==
  [explicit |-> FALSE,
   types |-> <<[shape |-> "func", params |-> params, results |-> <<>>, final |-> TRUE,
                super |-> NoRef]>>]
BFunc == [span |-> 0, type |-> 0]
BInstr(op, args) == [op |-> op, args |-> args, ty |-> <<>>, catches |-> <<>>]
BItem(instrs) == [span |-> 0, mutable |-> FALSE, instrs |-> instrs]
BSegment(mode, offset) ==
  [span |-> 0, mode |-> mode, target |-> 0, offset |-> offset, items |-> <<>>]

BSections ==
  { Section("type", <<BType(<<>>)>>),
    Section("import", <<[span |-> 0, kind |-> "func", name |-> 0, mutable |-> FALSE, type |-> 0]>>),
    Section("func", <<BFunc>>), Section("func", <<BFunc, BFunc>>),
    Section("memory", <<BItem(<<>>)>>),
    Section("datacount", <<1>>),
    Section("code", <<<<BInstr("data.drop", <<0>>), EndInstr>>>>),
    Section("code", <<<<EndInstr>>, <<EndInstr>>>>),
    Section("data", <<BSegment("active", <<BInstr("ref.func", <<0>>)>>)>>),
    Section("data", <<BSegment("passive", <<>>)>>) }

CONSTANT MaxSections

SectionPrograms ==
  {<<Binary(module_bytes(<<Section("type", <<BType(<<>>)>>)>> \o s), FALSE)>>
     : s \in SeqOf(BSections, MaxSections)}

\* A component with these modules in it, in a component of its own or not.
NestedBytes(id, bytes) ==
  <<Cell(ComponentSectionId[id])>> \o leb128(Len(bytes)) \o bytes

ComponentBytes(parts) == HeaderBytes("component") \o FlattenSeq(parts)

ShortModule == module_bytes(<<Section("func", <<>>)>>)
CodeModule ==
  module_bytes(<<Section("type", <<BType(<<>>)>>), Section("func", <<BFunc>>),
                 Section("code", <<<<EndInstr>>>>), Section("custom", <<<<"name">>>>)>>)

\* Files that are cut everywhere: whole ones, cut short, with a body longer than
\* its section, a length past its parent's, a length in two bytes.
Long == [i \in 1..Group |-> ItemCell(0)]
ChunkedFiles ==
  LET whole == { CodeModule,
                 ComponentBytes(<<NestedBytes("module", ShortModule)>>),
                 ComponentBytes(<<NestedBytes("component",
                                    ComponentBytes(<<NestedBytes("module", ShortModule)>>)),
                                  NestedBytes("module", HeaderBytes("module"))>>) }
  IN  whole
      \cup {SubSeq(c, 1, n) : c \in {CodeModule}, n \in 0..(Len(CodeModule) - 1)}
      \cup { HeaderBytes("module") \o <<Cell(SectionId.custom)>> \o leb128(Len(Long)) \o Long,
             HeaderBytes("module") \o <<Cell(SectionId.code), Cell(3), Cell(1), Cell(4)>>
               \o <<ItemCell(0), ItemCell(0), ItemCell(0), ItemCell(0)>>,
             HeaderBytes("module") \o <<Cell(SectionId.code), Cell(3), Cell(1), Cell(0), Cell(0)>>,
             HeaderBytes("component") \o <<Cell(ComponentSectionId.module), Cell(2)>> \o ShortModule }

ChunkedPrograms == {<<Binary(c, TRUE)>> : c \in ChunkedFiles}

\* Types: groups that are equal, isomorphic, shifted or a supertype apart, in two
\* files or in two modules of a component.
BRef(n) == <<"ref", <<"module", n>>>>
BRec(params) ==
  [explicit |-> TRUE,
   types |-> [i \in DOMAIN params |->
                [shape |-> "func", params |-> params[i], results |-> <<>>, final |-> FALSE,
                 super |-> NoRef]]]
BSub(n, params) ==
  [explicit |-> FALSE,
   types |-> <<[shape |-> "func", params |-> params, results |-> <<>>, final |-> TRUE,
                super |-> <<"module", n>>]>>]

TypeMenu ==
  { BType(<<>>), BRec(<<<<>>>>), BRec(<<<<BRef(0)>>>>), BRec(<<<<BRef(1)>>>>),
    BRec(<<<<BRef(1)>>, <<BRef(0)>>>>), BRec(<<<<BRef(2)>>, <<BRef(1)>>>>), BSub(0, <<>>),
    BSub(0, <<BRef(0)>>) }

TypeModule(groups) == module_bytes(<<Section("type", groups)>>)

FirstModules == {TypeModule(<<g>>) : g \in TypeMenu}
                \cup {TypeModule(<<BRec(<<<<>>>>), g>>) : g \in TypeMenu}
SecondModules == {TypeModule(s) : s \in SeqOf(TypeMenu, 2) \ {<<>>}}

TypePrograms ==
  {<<Binary(a, FALSE), Binary(b, FALSE)>> : a \in FirstModules, b \in SecondModules}
  \cup {<<Binary(ComponentBytes(<<NestedBytes("module", a), NestedBytes("module", b)>>), FALSE)>>
          : a, b \in FirstModules}
  \cup {<<Binary(a, FALSE), Binary(b, FALSE), Binary(c, FALSE)>>
          : a, b, c \in {TypeModule(<<g>>) : g \in {BType(<<>>), BRec(<<<<BRef(0)>>>>),
                                                   BRec(<<<<BRef(1)>>, <<BRef(0)>>>>)}}}

-------------------------------------------------------------------------------
(* Component texts: fields that need every kind of name, after a few that       *)
(* define them, and nested components of up to two fields.                      *)

CField(kind, ns, id, refs) ==
  [BlankField EXCEPT !.kind = kind, !.ns = ns, !.id = id, !.refs = refs]
CRef(ns, n) == RefTo(0, ns, Ref(n))
Behind(ns, n, path) == [CRef(ns, n) EXCEPT !.path = path]
Inline(ns, field) == [RefTo(0, ns, NoIndex) EXCEPT !.inline = <<field>>]

TypeOf(id, refs) == CField("type", "type", id, refs)
Scoped(kind, ns, id, scope, body) ==
  [CField(kind, ns, id, <<>>) EXCEPT !.scope = scope, !.body = body]
CoreTypes(kind, ids) ==
  [CField(kind, "core type", ids[1], <<>>) EXCEPT
     !.defs = [i \in DOMAIN ids |-> [id |-> ids[i], span |-> 0,
                                     refs |-> <<RefTo(0, "core type", ById(Last(ids)))>>]]]
Outer(ns, id, outer, n) ==
  [CField("alias", ns, id, <<CRef(ns, n)>>) EXCEPT !.outer = Ref(outer)]
CImport(ns, id, ref) == [CField("func", ns, id, <<ref>>) EXCEPT !.form = "import"]
AliasOf(kind, ns, id, ref) == [CField(kind, ns, id, <<ref>>) EXCEPT !.form = "alias", !.name = "n"]
CNested(id, body) == Scoped("component", "component", id, "component", body)

\* Types written inline: one that needs another, an instance, a module.
FuncOf(n) == TypeOf(NoId, <<Inline("type", TypeOf(NoId, <<CRef("type", n)>>)), CRef("type", n)>>)
InstanceOf(n) ==
  Scoped("type", "type", NoId, "instance type",
         <<TypeOf(Id("a"), <<CRef("type", n)>>),
           CField("export", "func", NoId, <<Inline("type", FuncOf("a"))>>)>>)
ComponentOf(n) ==
  Scoped("type", "type", Id("ct"), "component type",
         <<CField("import", "instance", Id("i"), <<Inline("type", InstanceOf(n))>>),
           Outer("type", Id("b"), "ct", "b"), CField("export", "type", Id("b"), <<CRef("type", n)>>)>>)
ModuleOf(n) ==
  Scoped("core type", "core type", NoId, "module type",
         <<Outer("core type", Id("x"), "top", n), CoreTypes("core type", <<Id("y")>>),
           CField("import", "core func", NoId, <<CRef("core type", "x")>>),
           CField("export", "core func", NoId, <<CRef("core type", "y")>>)>>)

Prelude ==
  << TypeOf(Id("t"), <<>>), CoreTypes("core type", <<Id("ft")>>),
     CField("core module", "core module", Id("m"), <<>>), CNested(Id("c"), <<>>),
     CImport("instance", Id("i"), Inline("type", InstanceOf("t"))),
     CField("core instance", "core instance", Id("ci"), <<CRef("core module", "m")>>),
     [CImport("func", Id("f"), Inline("type", FuncOf("t"))) EXCEPT !.exports = <<0>>] >>

InnerMenu ==
  { TypeOf(Id("t"), <<>>), TypeOf(Id("q"), <<CRef("type", "t"), CRef("type", "t")>>),
    Outer("type", Id("t"), "top", "t"), CImport("func", NoId, Inline("type", FuncOf("t"))),
    CNested(Id("d"), <<TypeOf(NoId, <<CRef("type", "t")>>), Outer("type", NoId, "n", "t")>>),
    CField("instance", "instance", NoId, <<CRef("component", "c")>>),
    CField("export", "func", NoId, <<CRef("func", "f")>>),
    CField("core instance", "core instance", Id("ci"), <<CRef("core module", "m")>>) }

FuncMenu ==
  { AliasOf("func", "func", Id("g"), CRef("instance", "i")), CImport("func", Id("k"), CRef("type", "t")),
    CField("export", "func", Id("h"), <<Inline("type", FuncOf("t")), CRef("func", "g")>>) }

ComponentMenu ==
  { TypeOf(NoId, <<CRef("type", "t")>>), TypeOf(Id("s"), <<CRef("type", "s")>>),
    [ComponentOf("t") EXCEPT !.body = <<@[1], @[3]>>], ComponentOf("t"), ModuleOf("ft"),
    CoreTypes("core rec", <<Id("r1"), Id("r2")>>),
    CImport("core module", NoId, Inline("core type", ModuleOf("ft"))),
    [CField("core instance", "core instance", Id("cj"),
       <<CRef("core module", "m"),
         Inline("core instance", CField("core instance", "core instance", NoId,
                                        <<Behind("core memory", "ci", <<"x">>)>>))>>) EXCEPT !.exports = <<>>],
    AliasOf("core func", "core func", Id("cf"), CRef("core instance", "ci")),
    CField("core func", "core func", Id("cf"), <<Behind("func", "i", <<"a", "b">>)>>),
    [CField("func", "func", Id("g"), <<Inline("type", FuncOf("t")), Behind("core func", "ci", <<"x">>)>>)
       EXCEPT !.form = "lift", !.exports = <<0, 0>>],
    [CField("instance", "instance", Id("j"),
       <<CRef("component", "c"), Behind("func", "i", <<"a">>),
         Inline("instance", CField("instance", "instance", NoId, <<CRef("func", "f"), CRef("type", "t")>>))>>)
       EXCEPT !.exports = <<0>>],
    CField("export", "value", NoId, <<CRef("value", "v")>>),
    [CField("start", "none", NoId, <<CRef("func", "f")>>) EXCEPT !.results = <<[id |-> Id("v"), span |-> 0]>>],
    CField("custom", "none", NoId, <<>>) }
  \cup FuncMenu

RECURSIVE Placed(_, _)

\* Every field, name, export and value gets a place of its own, what is in it too.
Placed(place, f) ==
  [f EXCEPT
     !.span = place,
     !.refs = [k \in DOMAIN @ |->
                 [@[k] EXCEPT !.at = 15 * place + k,
                              !.inline = [n \in DOMAIN @ |-> Placed(15 * place + 3 + k, @[n])]]],
     !.defs = [k \in DOMAIN @ |->
                 [@[k] EXCEPT !.span = 15 * place + 6 + k,
                              !.refs = [n \in DOMAIN @ |-> [@[n] EXCEPT !.at = 15 * (15 * place + 6 + k) + n]]]],
     !.exports = [k \in DOMAIN @ |-> 15 * place + 8 + k],
     !.results = [k \in DOMAIN @ |-> [@[k] EXCEPT !.span = 15 * place + 11]],
     !.body = [k \in DOMAIN @ |-> Placed(15 * place + 11 + k, @[k])]]

ComponentText(fields) ==
  <<[form |-> "component text", id |-> Id("top"), cells |-> <<>>, chunked |-> FALSE,
     fields |-> fields]>>

PlacedPrelude == [i \in DOMAIN Prelude |-> Placed(i, Prelude[i])]

\* The menus at each of the places after the prelude.
Places == Len(Prelude) + 1..Len(Prelude) + 3
PlacedMenu == [i \in Places |-> {Placed(i, f) : f \in ComponentMenu}]
PlacedFuncs == [i \in Places |-> {Placed(i, f) : f \in FuncMenu}]
PlacedNesting(n) == [i \in Places |-> {Placed(i, CNested(Id("n"), s)) : s \in SeqOf(InnerMenu, n)}]
Small == PlacedNesting(1)

\* Every two fields, and every nested component of two fields; the smaller ones
\* before or after another field.
ComponentPrograms ==
  LET i == Len(Prelude) + 1
  IN  {ComponentText(PlacedPrelude \o s) :
         s \in {<<>>} \cup {<<f>> : f \in PlacedMenu[i] \cup PlacedNesting(2)[i]}
               \cup PlacedMenu[i] \X PlacedMenu[i + 1]
               \cup PlacedFuncs[i] \X PlacedFuncs[i + 1] \X PlacedFuncs[i + 2]
               \cup Small[i] \X PlacedMenu[i + 1]
               \cup PlacedMenu[i] \X Small[i + 1]}

AllPrograms ==
  TextPrograms \cup ComponentPrograms \cup InstructionPrograms \cup SectionPrograms \cup ChunkedPrograms \cup TypePrograms
=============================================================================
