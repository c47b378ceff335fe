----------------------------- MODULE WasmPipeline -----------------------------
(* A text module on its way to a validated one: resolved and encoded by         *)
(* inf-wast, then read and validated by the reader of WasmReader; binary files  *)
(* enter there.  A component text is followed to its sections;                  *)
(* ComponentValidator has what becomes of them.                                *)
EXTENDS WasmReader, ComponentResolver

CONSTANT Programs    \* sequences of files: [form, id, fields, cells, chunked]

VARIABLES
  program,   \* the files
  at,        \* which of them is worked on
  doc,       \* the resolved fields of a text module, then its sections
  typed      \* history: the type sections the validator accepted, [groups, ids]

textVars == <<program, at, doc, typed>>
vars == <<textVars, readerVars>>

file == program[at]

Init ==
  /\ program \in Programs
  /\ at = 1 /\ doc = <<>> /\ typed = <<>>
  /\ ReaderInit

\* Module::resolve of a text file.
ResolveText ==
  /\ stage = "open" /\ file.form = "module text"
  /\ \E r \in {resolve(file.fields)} :
      /\ Prepare(IF r.ok THEN "resolved" ELSE "unresolved")
      /\ doc' = IF r.ok THEN r.fields ELSE <<>>
  /\ UNCHANGED <<program, at, typed>>

Arrived(cells) == IF file.chunked THEN 0 ELSE Len(cells)

\* Module::encode; the bytes are handed to a reader.
EncodeText ==
  /\ stage = "resolved" /\ file.form = "module text"
  /\ doc' = encode(doc)
  /\ \E cells \in {module_bytes(doc')} : OpenFile(cells, Arrived(cells))
  /\ UNCHANGED <<program, at, typed>>

\* Component::resolve and Component::encode.
ResolveComponent ==
  /\ stage = "open" /\ file.form = "component text"
  /\ \E r \in {resolve_component(file.id, file.fields)} :
      /\ Prepare(IF r.ok THEN "resolved" ELSE "unresolved")
      /\ doc' = IF r.ok THEN r.fields ELSE <<>>
  /\ UNCHANGED <<program, at, typed>>

EncodeComponent ==
  /\ stage = "resolved" /\ file.form = "component text"
  /\ Prepare("encoded")
  /\ doc' = encode_fields(doc)
  /\ UNCHANGED <<program, at, typed>>

OpenBinary ==
  /\ stage = "open" /\ file.form = "binary"
  /\ OpenFile(file.cells, Arrived(file.cells))
  /\ UNCHANGED textVars

Groups(p) == [i \in DOMAIN p.cells |-> p.cells[i].item[1]]

\* Validate, with the type sections it accepts noted down.
ValidatePayload ==
  /\ Validate
  /\ typed' = IF last[1].kind = "type" /\ v'.error = ""
              THEN Append(typed, [groups |-> Groups(last[1]), ids |-> v'.module.types]) ELSE typed
  /\ UNCHANGED <<program, at, doc>>

NextFile ==
  /\ at < Len(program)
  /\ Reuse
  /\ at' = at + 1 /\ doc' = <<>>
  /\ UNCHANGED <<program, typed>>

Final == stage \in {"rejected", "unresolved", "encoded"} \/ (stage = "accepted" /\ at = Len(program))

Finished == Final /\ UNCHANGED vars

Next ==
  \/ ResolveText \/ EncodeText \/ ResolveComponent \/ EncodeComponent \/ OpenBinary
  \/ (Parse \/ Receive \/ ValidateBodies) /\ UNCHANGED textVars
  \/ ValidatePayload \/ NextFile \/ Finished

\* The caller's loop goes on and bytes arrive until the file ends: weak fairness of
\* Next, spelled out because a step that changes something is possible exactly
\* until the program is final (there is no deadlock but Finished).
Fairness == <>[]Final \/ []<><<Next>>_vars

Spec == Init /\ [][Next]_vars /\ Fairness

-------------------------------------------------------------------------------
(* Names.  Everything is looked up by its place in the source, `span'.         *)

ItemsIn(sections, id) ==
  FlattenSeq([i \in DOMAIN sections |-> IF sections[i].id = id THEN sections[i].items ELSE <<>>])

\* The spans of the fields of a space in the order of their indices.
SpaceSpans(sections, space) ==
  LET imported == SelectSeq(ItemsIn(sections, "import"), LAMBDA i : i.kind = space)
      all == imported \o ItemsIn(sections, space)
  IN  [i \in DOMAIN all |-> all[i].span]

\* The field of a space with this identifier in the source.
NamedSpan(fields, space, id) ==
  (CHOOSE f \in Range(fields) :
     /\ (IF f.kind = "import" THEN f.ik ELSE f.kind) = space
     /\ f.id = id).span

\* The number n stands for the symbolic index idx.
Reaches(fields, sections, space, idx, n) ==
  idx[1] = "id" =>
    LET spans == SpaceSpans(sections, space)
    IN  n < Len(spans) /\ spans[n + 1] = NamedSpan(fields, space, idx[2])

\* What an item in the binary refers to, against the field it was made from.
ExportReaches(fields, sections, e, spaces) ==
  LET f == fields[e.span]
      idx == IF f.kind = "export" THEN f.item ELSE IF f.id = NoId THEN NoIndex ELSE ById(f.id)
  IN  e.kind \in spaces => Reaches(fields, sections, e.kind, idx, e.index)

SegmentReaches(fields, sections, e, table) ==
  LET f == fields[e.span]
      idx == IF f.kind \in {"elem", "data"} THEN f.target ELSE IF f.id = NoId THEN NoIndex ELSE ById(f.id)
  IN  /\ Reaches(fields, sections, table, idx, e.target)
      /\ \A k \in DOMAIN e.items : Reaches(fields, sections, "func", f.items[k], e.items[k])

InstrReaches(fields, sections, was, is, spaces) ==
  was.op \in DOMAIN Operands =>
    \A k \in DOMAIN was.args :
      Operands[was.op][k] \in spaces =>
        Reaches(fields, sections, Operands[was.op][k], was.args[k], is.args[k])

BodiesReach(fields, sections, spaces) ==
  \A b \in DOMAIN ItemsIn(sections, "code") :
    LET f == fields[ItemsIn(sections, "func")[b].span]
        body == ItemsIn(sections, "code")[b]
    IN  \A i \in DOMAIN f.instrs : InstrReaches(fields, sections, f.instrs[i], body[i], spaces)

NamesReach(spaces) ==
  stage = "parse" /\ file.form = "module text" /\ seen = 0 =>
    /\ \A e \in Range(ItemsIn(doc, "export")) : ExportReaches(file.fields, doc, e, spaces)
    /\ \A e \in Range(ItemsIn(doc, "elem")) : SegmentReaches(file.fields, doc, e, "table")
    /\ \A e \in Range(ItemsIn(doc, "data")) : SegmentReaches(file.fields, doc, e, "memory")
    /\ \A s \in Range(ItemsIn(doc, "start")) :
         LET f == CHOOSE f \in Range(file.fields) : f.kind = "start"
         IN  Reaches(file.fields, doc, "func", f.item, s)
    /\ BodiesReach(file.fields, doc, spaces)

\* A name in the text (of an export, a start function, a segment, an operand of
\* an instruction) reaches the field it names although the binary sorts the
\* fields into sections, imports first (resolve and encode of inf-wast).
NamesReachTheirFields == NamesReach({"func", "table", "memory", "global", "elem", "data"})

\* The same for the names of tags.
TagNamesReachTheirFields == NamesReach({"tag"})

-------------------------------------------------------------------------------
(* Names of a component text.  An item is what it was written as, <<"item",     *)
(* span>>, or an export of an item, <<"export", instance, name, space>>.        *)

\* The source: a scope lists its names so far; the nearest scope decides.
ItemAt(span) == <<"item", span>>
Meant(env, ns, id) ==
  LET In(d) == SelectSeq(env[Len(env) - d].defs, LAMBDA x : x.ns = ns /\ x.id = id)
      depths == {d \in 0..(Len(env) - 1) : In(d) # <<>>}
  IN  IF depths = {} THEN <<"unbound">>
      ELSE In(CHOOSE d \in depths : \A e \in depths : d <= e)[1].item

Through(item, path, ns, instances) ==
  FoldLeft(LAMBDA i, pos : <<"export", i, path[pos],
                             IF pos = Len(path) THEN ns ELSE "instance">>,
           item, [pos \in DOMAIN path |-> pos])

Written(env, ref) ==
  IF ref.inline # <<>> THEN ItemAt(ref.inline[1].span)
  ELSE Through(Meant(env, IF ref.path = <<>> THEN ref.ns ELSE InstanceSpace(ref.ns), ref.idx[2]),
               ref.path, ref.ns, InstanceSpace(ref.ns))

\* The scopes that a field can see by an outer alias.
FromOuter(env, outer) ==
  IF outer[1] = "num" THEN SubSeq(env, 1, Len(env) - outer[2])
  ELSE SubSeq(env, 1, CHOOSE n \in DOMAIN env :
                        env[n].id = outer[2] /\ \A k \in DOMAIN env : env[k].id = outer[2] => k <= n)

\* What a field adds to its scope.
Adds(env, f) ==
  LET Def(ns, id, item) == [ns |-> ns, id |-> id, item |-> item]
  IN  CASE f.defs # <<>> ->
             [i \in DOMAIN f.defs |-> Def("core type", f.defs[i].id, ItemAt(f.defs[i].span))]
        [] f.kind = "start" ->
             [i \in DOMAIN f.results |-> Def("value", f.results[i].id, ItemAt(f.results[i].span))]
        [] f.outer # NoIndex -> <<Def(f.ns, f.id, Written(FromOuter(env, f.outer), f.refs[1]))>>
        [] f.name # "" -> <<Def(f.ns, f.id, <<"export", Written(env, f.refs[1]), f.name, f.ns>>)>>
        [] f.outer = NoIndex /\ f.ns = "none" -> <<>>
        [] OTHER -> <<Def(f.ns, f.id, ItemAt(f.span))>>

RECURSIVE SourceMeanings(_, _)

\* The pairs of a place and the item its name means.
FieldMeanings(env, f) ==
  LET own == IF f.outer # NoIndex THEN FromOuter(env, f.outer) ELSE env
      with_defs == [env EXCEPT ![Len(env)].defs = @ \o Adds(env, f)]
  IN  {<<r.at, Written(own, r)>> : r \in Range(f.refs)}
      \cup UNION {SourceMeanings(env, r.inline).pairs : r \in Range(f.refs)}
      \cup (IF f.defs = <<>> THEN {}
             ELSE UNION {{<<r.at, Written(with_defs, r)>> : r \in Range(d.refs)} : d \in Range(f.defs)})
      \cup {<<place, ItemAt(f.span)>> : place \in Range(f.exports)}
      \cup SourceMeanings(Append(env, [id |-> f.id, defs |-> <<>>]), f.body).pairs

SourceMeanings(env, fields) ==
  FoldLeft(LAMBDA s, f : [pairs |-> s.pairs \cup FieldMeanings(s.env, f),
                          env |-> [s.env EXCEPT ![Len(env)].defs = @ \o Adds(s.env, f)]],
           [pairs |-> {}, env |-> env], fields)

\* The binary: each scope numbers the items of a space in the order it meets them.
NoItems == [ns \in ComponentSpaces |-> <<>>]
Numbered(scopes, ns, idx) ==
  LET items == Last(scopes)[ns] IN IF idx[2] < Len(items) THEN items[idx[2] + 1] ELSE <<"missing">>

Numbers(scopes, f, scope) ==
  LET Add(ns, items) == [Last(scopes) EXCEPT ![ns] = @ \o items]
  IN  CASE f.defs # <<>> -> Add("core type", [i \in DOMAIN f.defs |-> ItemAt(f.defs[i].span)])
        [] f.kind = "start" -> Add("value", [i \in DOMAIN f.results |-> ItemAt(f.results[i].span)])
        [] f.outer # NoIndex ->
             Add(f.ns, <<Numbered(SubSeq(scopes, 1, Len(scopes) - f.outer[2]), f.ns, f.refs[1].idx)>>)
        [] f.name # "" ->
             Add(f.ns, <<<<"export", Numbered(scopes, f.refs[1].ns, f.refs[1].idx), f.name, f.ns>>>>)
        [] f.outer = NoIndex /\ (f.ns = "none" \/ (scope = "module type" /\ f.kind \in {"import", "export"})) ->
             Last(scopes)
        [] OTHER -> Add(f.ns, <<ItemAt(f.span)>>)

\* The fields of a component are in sections by now, those of a type are not.
Flat(body, scope) ==
  IF scope # "component" THEN body
  ELSE FlattenSeq([i \in DOMAIN body.sections |-> body.sections[i].items])

RECURSIVE BinaryMeanings(_, _, _)

ReadMeanings(scopes, f, scope) ==
  LET own == IF f.outer # NoIndex THEN SubSeq(scopes, 1, Len(scopes) - f.outer[2]) ELSE scopes
      Reads(in, refs) == {<<r.at, Numbered(in, r.ns, r.idx)>> : r \in {x \in Range(refs) : x.at # 0}}
  IN  Reads(own, f.refs)
      \cup UNION {Reads(Append(scopes, Numbers(scopes, f, scope)), d.refs) : d \in Range(f.defs)}
      \cup (IF f.scope = NoScope THEN {}
             ELSE BinaryMeanings(Append(scopes, NoItems), Flat(f.body, f.scope), f.scope).pairs)

BinaryMeanings(scopes, fields, scope) ==
  FoldLeft(LAMBDA s, f : [pairs |-> s.pairs \cup ReadMeanings(s.scopes, f, scope),
                          scopes |-> [s.scopes EXCEPT ![Len(scopes)] = Numbers(s.scopes, f, scope)]],
           [pairs |-> {}, scopes |-> scopes], fields)

\* Every name of a component text (of an argument, a type, an export, an alias, of
\* an item of an outer component or behind the exports of instances) reaches the
\* item it means where it is written, although inline types and bundles move out
\* of their fields, exports move to the end, aliases are inserted in between and
\* fields are collected in sections (expand, resolve and encode of inf-wast).
\* The names in the name section are those of the items they number, except for
\* values after a start function: its results are not counted there.
ComponentNamesReachTheirItems ==
  stage = "encoded" =>
    LET source == SourceMeanings(<<[id |-> file.id, defs |-> <<>>]>>, file.fields)
        binary == BinaryMeanings(<<NoItems>>, Flat(doc, "component"), "component")
    IN  /\ source.pairs = binary.pairs
        /\ \A ns \in ComponentSpaces \ {"value"} : \A i \in DOMAIN doc.names[ns] :
             doc.names[ns][i] # NoId =>
               Meant(source.env, ns, doc.names[ns][i]) = binary.scopes[1][ns][i]

-------------------------------------------------------------------------------
\* What inf-wast makes of a text module is well-formed whatever its fields are:
\* the parser reads it and the validator has no objection to the order of its
\* sections, its counts, its announcements or an index; it may only object to
\* what the text itself says (a type, a constant expression, a name used twice,
\* a function nobody declared).
EncodedIsWellFormed ==
  stage = "rejected" /\ file.form = "module text" =>
    outcome # "error" /\ v.error \in {"type", "const", "name", "undeclared", "limit"}

-------------------------------------------------------------------------------
(* Types.  A type of a module is at place k of group g.                        *)

\* The number of types in the first n groups.
SumLen(groups, n) == FoldLeft(LAMBDA s, g : s + Len(g.types), 0, SubSeq(groups, 1, n))

Place(groups, n) ==
  CHOOSE gk \in {<<g, k>> : g \in DOMAIN groups, k \in 1..MaxItems} :
    /\ gk[2] <= Len(groups[gk[1]].types)
    /\ n = SumLen(groups, gk[1] - 1) + gk[2] - 1

\* Equality of recursion groups: their types are the same where references into
\* the group go to the same place and all others to equal types.
GroupsEqual ==
  LET Pos == {<<h, g>> \in (1..Len(typed)) \X (1..MaxItems) : g <= Len(typed[h].groups)}
      Eq[x \in Pos, y \in Pos] ==
        LET gx == typed[x[1]].groups
            gy == typed[y[1]].groups
            Inside(gs, g, n) == n >= SumLen(gs, g - 1)
            RefEq(a, b) ==
              \/ a = b /\ a = NoRef
              \/ /\ a # NoRef /\ b # NoRef
                 /\ Inside(gx, x[2], a[2]) = Inside(gy, y[2], b[2])
                 /\ IF Inside(gx, x[2], a[2])
                    THEN a[2] - SumLen(gx, x[2] - 1) = b[2] - SumLen(gy, y[2] - 1)
                    ELSE /\ Place(gx, a[2])[2] = Place(gy, b[2])[2]
                         /\ Eq[<<x[1], Place(gx, a[2])[1]>>, <<y[1], Place(gy, b[2])[1]>>]
            ValEq(a, b) == IF a[1] = "ref" /\ b[1] = "ref" THEN RefEq(a[2], b[2]) ELSE a = b
            ValsEq(a, b) == Len(a) = Len(b) /\ \A i \in DOMAIN a : ValEq(a[i], b[i])
            DefEq(a, b) == /\ a.shape = b.shape /\ a.final = b.final
                           /\ RefEq(a.super, b.super)
                           /\ ValsEq(a.params, b.params) /\ ValsEq(a.results, b.results)
            tx == gx[x[2]].types
            ty == gy[y[2]].types
        IN  Len(tx) = Len(ty) /\ \A i \in DOMAIN tx : DefEq(tx[i], ty[i])
  IN  Eq

\* Two types, of one module, of two modules of a component or of two files given
\* to one validator, have the same identifier if and only if they are equal
\* (TypeCanonicalizer, intern_canonical_rec_group and the SnapshotList behind it).
TypesAreCanonical ==
  last # <<>> /\ last[1].kind = "type" /\ taken = seen /\ v.error = "" =>
    LET Eq == GroupsEqual
        new == Len(typed)
    IN  \A h \in 1..new : \A n1 \in DOMAIN typed[h].ids, n2 \in DOMAIN typed[new].ids :
          LET p1 == Place(typed[h].groups, n1 - 1)
              p2 == Place(typed[new].groups, n2 - 1)
          IN  (typed[h].ids[n1] = typed[new].ids[n2])
                <=> (p1[2] = p2[2] /\ Eq[<<h, p1[1]>>, <<new, p2[1]>>])

-------------------------------------------------------------------------------
\* Every file is dealt with however its bytes arrive: the parser never asks for
\* more when it has all, and the loop ends.
FilesAreFinished == <>Final
=============================================================================
