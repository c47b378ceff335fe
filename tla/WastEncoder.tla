----------------------------- MODULE WastEncoder -----------------------------
(* Encoding of a resolved text module, inf-wast/src/core/binary.rs: the fields *)
(* are sorted into sections, custom sections go where they were placed, and a  *)
(* name section is made from the identifiers.  A section is [id, items]; an    *)
(* item keeps the indices it holds.  Its span, which the binary does not have, *)
(* stays with it so that properties can tell which field it came from.         *)
EXTENDS WastResolver, ModuleParser

Section(id, items) == [id |-> id, items |-> items]

OfKind(fields, kind) == SelectSeq(fields, LAMBDA f : f.kind = kind)

-------------------------------------------------------------------------------
(* SectionItem::encode, per kind of item.                                      *)

\* Index::encode: names are numbers by now.
EncodeIndex(idx) == idx[2]

\* TryTableCatch, Handle.
EncodeCatch(c) == [tag |-> EncodeIndex(c.tag), label |-> EncodeIndex(c.label)]

\* BlockType::encode: an index, or no parameters and at most one result; the
\* other operands of an instruction follow in their order.
EncodeInstr(i) ==
  [op |-> i.op, args |-> [k \in DOMAIN i.args |-> EncodeIndex(i.args[k])],
   ty |-> IF i.ty.index = NoIndex THEN <<>> ELSE <<EncodeIndex(i.ty.index)>>,
   catches |-> [k \in DOMAIN i.catches |-> EncodeCatch(i.catches[k])]]

EncodeInstrs(instrs) == [i \in DOMAIN instrs |-> EncodeInstr(instrs[i])]

\* RecOrType: a single type is an implicit group.  TypeDef::to_subtype.
ModuleIndex(idx) == IF idx = NoIndex THEN NoIndex ELSE <<"module", idx[2]>>

to_subtype(def) ==
  LET Val(t) == IF t[1] = "ref" THEN <<"ref", ModuleIndex(t[2])>> ELSE t
  IN  [def EXCEPT !.params = [i \in DOMAIN @ |-> Val(@[i])],
                  !.results = [i \in DOMAIN @ |-> Val(@[i])],
                  !.super = ModuleIndex(@)]

EncodeType(f) ==
  IF f.kind = "type" THEN [explicit |-> FALSE, types |-> <<to_subtype(f.def)>>]
  ELSE [explicit |-> TRUE, types |-> [i \in DOMAIN f.types |-> to_subtype(f.types[i].def)]]

\* ItemKind::to_entity_type, Import and FuncSectionTy; every import of the text
\* has a name of its own.
EncodeImport(f) ==
  [span |-> f.span, kind |-> f.ik, name |-> f.span, mutable |-> f.mutable,
   type |-> IF f.ik \in {"func", "tag"} THEN f.ty.index[2] ELSE 0]

EncodeFunc(f) == [span |-> f.span, type |-> f.ty.index[2]]

EncodeExport(f) == [span |-> f.span, name |-> f.name, kind |-> f.ek, index |-> f.item[2]]

\* Table, Memory and Global: what is left of them is normal at this point.
EncodeItem(f) == [span |-> f.span, mutable |-> f.mutable, instrs |-> EncodeInstrs(f.instrs)]

\* Elem and Data: an active element segment without a table is for table 0.
EncodeSegment(f) ==
  [span |-> f.span, mode |-> f.mode,
   target |-> IF f.target = NoIndex THEN 0 ELSE f.target[2],
   offset |-> EncodeInstrs(f.offset), items |-> [i \in DOMAIN f.items |-> f.items[i][2]]]

\* Func::encode and Expression::encode: the instructions and a final end.
EndInstr == [op |-> "end", args |-> <<>>, ty |-> <<>>, catches |-> <<>>]

EncodeBody(f) == Append(EncodeInstrs(f.instrs), EndInstr)

\* Mutant: data.drop is forgotten.
Mutneeds_data_count(funcs) ==
  \E f \in Range(funcs) : \E i \in Range(f.instrs) :
    i.op \in {"memory.init", "array.new_data", "array.init_data"}

\* Instruction::needs_data_count of core/expr.rs.
needs_data_count(funcs) ==
  \E f \in Range(funcs) : \E i \in Range(f.instrs) :
    i.op \in {"memory.init", "data.drop", "array.new_data", "array.init_data"}

-------------------------------------------------------------------------------
(* find_names: the identifiers of the source, by index, for the name section.  *)

Named(id) == id[1] = "$"

NamesOf(fields, space) ==
  LET types == FlattenSeq([i \in DOMAIN fields |->
                 CASE fields[i].kind = "rec" -> fields[i].types
                   [] SpaceOf(fields[i]) \in Spaces -> <<fields[i]>>
                   [] OTHER -> <<>>])
      ids == SelectSeq(types, LAMBDA f :
               ("kind" \notin DOMAIN f /\ space = "type")
                 \/ ("kind" \in DOMAIN f /\ SpaceOf(f) = space))
  IN  {<<i - 1, ids[i].id>> : i \in {k \in DOMAIN ids : Named(ids[k].id)}}

\* The parameters are counted from the inline type only.
LocalNames(f) ==
  LET params == IF f.ty.inline = <<>> THEN <<>> ELSE f.ty.inline[1].names
      ids == params \o f.locals
  IN  {<<i - 1, ids[i]>> : i \in {k \in DOMAIN ids : Named(ids[k])}}

LabelNames(f) ==
  LET blocks == SelectSeq(f.instrs, LAMBDA i : i.op \in Opens)
  IN  {<<k - 1, blocks[k].label>> : k \in {j \in DOMAIN blocks : Named(blocks[j].label)}}

NamesAreEmpty(fields) ==
  /\ \A s \in Spaces : NamesOf(fields, s) = {}
  /\ \A f \in Range(OfKind(fields, "func")) : LocalNames(f) = {} /\ LabelNames(f) = {}

-------------------------------------------------------------------------------
(* encode() *)

\* Encoder::custom_sections.
custom_sections(fields, place) ==
  LET placed == SelectSeq(fields, LAMBDA f : f.kind = "custom" /\ f.place = place)
  IN  [i \in DOMAIN placed |-> Section("custom", <<placed[i].place>>)]

\* Encoder::typed_section: nothing for an empty list but the custom sections.
typed_section(fields, anchor, items) ==
  custom_sections(fields, <<"before", anchor>>)
  \o (IF items = <<>> THEN <<>> ELSE <<Section(anchor, items)>>)
  \o custom_sections(fields, <<"after", anchor>>)

StartSection(fields) ==
  LET start == OfKind(fields, "start")
  IN  custom_sections(fields, <<"before", "start">>)
      \o (IF start = <<>> THEN <<>> ELSE <<Section("start", <<start[1].item[2]>>)>>)
      \o custom_sections(fields, <<"after", "start">>)

\* Encoder::code_section, with the branch hints in a section of their own.
code_section(fields, funcs) ==
  LET hinted == \E f \in Range(funcs) : f.hinted
      bodies == [i \in DOMAIN funcs |-> EncodeBody(funcs[i])]
  IN  custom_sections(fields, <<"before", "code">>)
      \o (IF hinted THEN <<Section("custom", <<<<"branch_hint">>>>)>> ELSE <<>>)
      \o (IF funcs = <<>> THEN <<>> ELSE <<Section("code", bodies)>>)
      \o custom_sections(fields, <<"after", "code">>)

Each(Op(_), fields) == [i \in DOMAIN fields |-> Op(fields[i])]

encode(fields) ==
  LET funcs == OfKind(fields, "func")
      types == SelectSeq(fields, LAMBDA f : f.kind \in {"type", "rec"})
  IN  custom_sections(fields, <<"beforefirst">>)
      \o typed_section(fields, "type", Each(EncodeType, types))
      \o typed_section(fields, "import", Each(EncodeImport, OfKind(fields, "import")))
      \o typed_section(fields, "func", Each(EncodeFunc, funcs))
      \o typed_section(fields, "table", Each(EncodeItem, OfKind(fields, "table")))
      \o typed_section(fields, "memory", Each(EncodeItem, OfKind(fields, "memory")))
      \o typed_section(fields, "tag", Each(EncodeFunc, OfKind(fields, "tag")))
      \o typed_section(fields, "global", Each(EncodeItem, OfKind(fields, "global")))
      \o typed_section(fields, "export", Each(EncodeExport, OfKind(fields, "export")))
      \o StartSection(fields)
      \o typed_section(fields, "elem", Each(EncodeSegment, OfKind(fields, "elem")))
      \o (IF needs_data_count(funcs)
          THEN <<Section("datacount", <<Len(OfKind(fields, "data"))>>)>> ELSE <<>>)
      \o code_section(fields, funcs)
      \o typed_section(fields, "data", Each(EncodeSegment, OfKind(fields, "data")))
      \o (IF NamesAreEmpty(fields) THEN <<>> ELSE <<Section("custom", <<<<"name">>>>)>>)
      \o custom_sections(fields, <<"afterlast">>)

-------------------------------------------------------------------------------
(* External: the bytes wasm-encoder lays out.  An item is one cell; a reader    *)
(* that is not where an item starts meets a byte with its top bit.             *)

ItemCell(item) == [byte |-> 2 * Group - 1, item |-> <<item>>]

SectionContent(s) ==
  CASE s.id \in {"start", "datacount"} -> leb128(s.items[1])
    [] s.id = "custom" -> <<ItemCell(s.items[1])>>
    [] s.id = "code" -> leb128(Len(s.items))
                        \o FlattenSeq([i \in DOMAIN s.items |->
                             leb128(Len(s.items[i])) \o Each(ItemCell, s.items[i])])
    [] OTHER -> leb128(Len(s.items)) \o Each(ItemCell, s.items)

SectionBytes(s) ==
  LET content == SectionContent(s)
  IN  <<Cell(SectionId[s.id])>> \o leb128(Len(content)) \o content

HeaderBytes(encoding) == <<Cell(Magic), Cell(Version[encoding])>>

module_bytes(sections) ==
  HeaderBytes("module") \o FlattenSeq([i \in DOMAIN sections |-> SectionBytes(sections[i])])
=============================================================================
