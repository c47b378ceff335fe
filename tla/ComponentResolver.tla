-------------------------- MODULE ComponentResolver --------------------------
(* Expansion, name resolution and encoding of a component text, inf-wast/src/  *)
(* component: inline types and bundles become fields of their own, every       *)
(* symbolic index becomes a number, and aliases are inserted for names of      *)
(* outer components and for exports of instances.  A field names the index     *)
(* space it adds to, `ns', and what it refers to, `refs'; a reference is        *)
(* [at, ns, idx, path, inline], with the names of the exports that lead from    *)
(* the instance `idx' to the item, and the type or bundle written in its place. *)
(* `at' and `span' are places in the source, 0 for what is not written there;   *)
(* `exports' are the places of inline exports, `defs' the core types of a field *)
(* and `results' the values of a start function.  Core modules are opaque: they *)
(* are resolved by WastResolver.                                                *)
EXTENDS WastResolver

ComponentSpaces ==
  {"core func", "core table", "core memory", "core global", "core tag", "core type",
   "core instance", "core module", "func", "type", "instance", "component", "value"}

NoScope == "none"
TypeScopes == {"component type", "instance type", "module type"}

\* A field as the code makes it: nothing of its own in the source.
BlankField ==
  [span |-> 0, kind |-> "alias", form |-> "", ns |-> "none", id |-> NoId, refs |-> <<>>,
   defs |-> <<>>, results |-> <<>>, exports |-> <<>>, scope |-> NoScope, body |-> <<>>,
   outer |-> NoIndex, name |-> ""]

RefTo(at, ns, idx) == [at |-> at, ns |-> ns, idx |-> idx, path |-> <<>>, inline |-> <<>>]

-------------------------------------------------------------------------------
(* expand.rs.  A generated name is <<"gen", place>>, for the place it is        *)
(* generated for, where gensym.rs counts.                                      *)

Generated(place) == <<"gen", place>>

RECURSIVE expand_component_fields(_)

\* expand_component_val_ty, expand_core_type_use, expand_component_type_use and
\* expand_instantiation_arg: what is written inline becomes a name ...
NamedRef(ref) ==
  IF ref.inline = <<>> THEN ref ELSE [ref EXCEPT !.idx = ById(Generated(ref.at)), !.inline = <<>>]

\* expand_component_ty and its like: the declarations of a type, or the fields of
\* a nested component, are expanded on their own.
ExpandInside(f) ==
  [f EXCEPT !.refs = [k \in DOMAIN @ |-> NamedRef(@[k])],
            !.body = IF f.scope = NoScope THEN @ ELSE expand_component_fields(@)]

RECURSIVE ToPrepend(_)

\* ... and moves out, after what is inline in it.
ToPrepend(f) ==
  FlattenSeq([k \in DOMAIN f.refs |->
    LET ref == f.refs[k]
    IN  IF ref.inline = <<>> THEN <<>>
        ELSE Append(ToPrepend(ref.inline[1]),
                    [ExpandInside(ref.inline[1]) EXCEPT !.id = Generated(ref.at)])])

\* gensym::fill: types are always named, other fields if they are exported inline.
FilledId(f) ==
  IF f.id = NoId /\ (f.exports # <<>> \/ f.kind \in {"type", "core type"})
  THEN Generated(f.span) ELSE f.id

\* Expander::expand_field: a field with an inline import, lift or alias becomes
\* that import, canonical function or alias.
expand_field(f) ==
  [ExpandInside(f) EXCEPT
     !.id = FilledId(f), !.exports = <<>>,
     !.kind = CASE f.form \in {"import", "alias"} -> f.form
                [] f.kind \in {"func", "core func"} -> "canon"
                [] OTHER -> f.kind]

\* The export fields of inline exports.
ToAppend(f) ==
  [k \in DOMAIN f.exports |->
     [BlankField EXCEPT !.span = f.exports[k], !.kind = "export", !.ns = f.ns,
                        !.refs = <<RefTo(f.exports[k], f.ns, ById(FilledId(f)))>>]]

\* Expander::expand_component_fields and expand_decls: what moves out of a field
\* comes before it, inline exports come after all fields.
expand_component_fields(fields) ==
  FlattenSeq([i \in DOMAIN fields |-> Append(ToPrepend(fields[i]), expand_field(fields[i]))])
  \o FlattenSeq([i \in DOMAIN fields |-> ToAppend(fields[i])])

-------------------------------------------------------------------------------
(* resolve.rs: r.stack are the open scopes, innermost last; r.inserts are the  *)
(* aliases to put before the field that is being resolved.                     *)

ComponentStateOf(id) == [id |-> id, names |-> [ns \in ComponentSpaces |-> EmptySpace]]

\* Namespace::register in the current scope.
register_in(r, ns, id) ==
  LET top == Len(r.stack)
      entry == register_name(r.stack[top].names[ns], id)
  IN  [r EXCEPT !.stack[top].names[ns] = entry, !.ok = @ /\ entry.ok]

CountIn(r, ns) == Last(r.stack).names[ns].count

\* An alias the resolver makes takes the next index at once.
insert_alias(r, alias) ==
  [r |-> [register_in(r, alias.ns, alias.id) EXCEPT !.inserts = Append(@, alias)],
   idx |-> Num(CountIn(r, alias.ns))]

OuterAlias(ns, id, depth, idx) ==
  [BlankField EXCEPT !.ns = ns, !.id = id, !.outer = Num(depth), !.refs = <<RefTo(0, ns, idx)>>]

ExportAlias(ns, instances, idx, name) ==
  [BlankField EXCEPT !.ns = ns, !.name = name, !.refs = <<RefTo(0, instances, idx)>>]

OuterKinds == {"core module", "core type", "type", "component"}

Unresolved(r) == [r |-> [r EXCEPT !.ok = FALSE], idx |-> Unknown]

\* Mutant: the alias refers to the name's index here, not in the scope it is from.
Mutresolve_ns(r, ns, idx) ==
  LET In(d) == resolve_name(r.stack[Len(r.stack) - d].names[ns], idx)
      depths == {d \in 0..(Len(r.stack) - 1) : In(d) # Unknown}
      depth == CHOOSE d \in depths : \A c \in depths : d <= c
  IN  CASE depths = {} -> Unresolved(r)
        [] depths # {} /\ depth = 0 -> [r |-> r, idx |-> In(0)]
        [] OTHER -> IF ns \notin OuterKinds THEN Unresolved(r)
                    ELSE insert_alias(r, OuterAlias(ns, idx[2], depth, Num(CountIn(r, ns))))

\* Resolver::resolve_ns: the nearest scope that knows the name; from an outer
\* one, through a new alias that takes the name here.
resolve_ns(r, ns, idx) ==
  LET In(d) == resolve_name(r.stack[Len(r.stack) - d].names[ns], idx)
      depths == {d \in 0..(Len(r.stack) - 1) : In(d) # Unknown}
      depth == CHOOSE d \in depths : \A c \in depths : d <= c
  IN  CASE depths = {} -> Unresolved(r)
        [] depths # {} /\ depth = 0 -> [r |-> r, idx |-> In(0)]
        [] OTHER -> IF ns \notin OuterKinds THEN Unresolved(r)
                    ELSE insert_alias(r, OuterAlias(ns, idx[2], depth, In(depth)))

InstanceSpace(ns) ==
  IF ns \in {"core func", "core table", "core memory", "core global", "core tag"}
  THEN "core instance" ELSE "instance"

\* component_item_ref and core_item_ref: an item reached through exports gets an
\* alias for each of them, all but the last an instance.
item_ref(r, ref) ==
  LET first == resolve_ns(r, IF ref.path = <<>> THEN ref.ns ELSE InstanceSpace(ref.ns), ref.idx)
      step(s, pos) ==
        insert_alias(s.r, ExportAlias(IF pos = Len(ref.path) THEN ref.ns ELSE "instance",
                                      InstanceSpace(ref.ns), s.idx, ref.path[pos]))
      end == FoldLeft(step, first, [pos \in DOMAIN ref.path |-> pos])
  IN  [r |-> end.r, ref |-> [ref EXCEPT !.idx = end.idx, !.path = <<>>]]

\* References of core types, and of a module type, are to names of this scope.
local_ref(r, ref) ==
  LET idx == resolve_name(Last(r.stack).names[ref.ns], ref.idx)
  IN  [r |-> [r EXCEPT !.ok = @ /\ idx # Unknown], ref |-> [ref EXCEPT !.idx = idx]]

ResolveRefs(r, refs, local) ==
  FoldLeft(LAMBDA s, ref : LET e == IF local THEN local_ref(s.r, ref) ELSE item_ref(s.r, ref)
                           IN  [r |-> e.r, refs |-> Append(s.refs, e.ref)],
           [r |-> r, refs |-> <<>>], refs)

\* core_ty and core_rec: the names come first, as the types may refer to each other.
ResolveDefs(r, f) ==
  LET named == FoldLeft(LAMBDA s, d : register_in(s, "core type", d.id), r, f.defs)
      all == FoldLeft(LAMBDA s, d : LET e == ResolveRefs(s.r, d.refs, TRUE)
                                    IN  [r |-> e.r, defs |-> Append(s.defs, [d EXCEPT !.refs = e.refs])],
                      [r |-> named, defs |-> <<>>], f.defs)
  IN  [r |-> all.r, field |-> [f EXCEPT !.defs = all.defs]]

\* Resolver::outer_alias: the scope of that name or at that depth, and the item in it.
outer_alias(r, f) ==
  LET scopes == {d \in 0..(Len(r.stack) - 1) : r.stack[Len(r.stack) - d].id = f.outer[2]}
      depth == IF f.outer[1] = "num" THEN f.outer[2]
               ELSE IF scopes = {} THEN Len(r.stack)
               ELSE CHOOSE d \in scopes : \A e \in scopes : d <= e
      idx == IF depth >= Len(r.stack) THEN Unknown
             ELSE resolve_name(r.stack[Len(r.stack) - depth].names[f.ns], f.refs[1].idx)
  IN  [r |-> [r EXCEPT !.ok = @ /\ idx # Unknown],
       field |-> [f EXCEPT !.outer = Num(depth), !.refs[1].idx = idx]]

\* ComponentState::register and the closures of component_type, instance_type and
\* module_type: a core type of a component or a module type is registered already;
\* in a component type or an instance type it is registered again.
register_field(r, f, scope) ==
  CASE f.defs # <<>> /\ scope \in {"component", "module type"} -> r
    [] f.defs # <<>> -> FoldLeft(LAMBDA s, d : register_in(s, "core type", d.id), r, f.defs)
    [] scope = "module type" /\ f.kind \in {"import", "export"} -> r
    [] f.kind = "start" -> FoldLeft(LAMBDA s, v : register_in(s, "value", v.id), r, f.results)
    [] f.ns = "none" -> r
    [] OTHER -> register_in(r, f.ns, f.id)

RECURSIVE resolve_prepending_aliases(_, _, _)

\* The end of a scope.
LeaveScope(e, f) == [r |-> [e.r EXCEPT !.stack = Front(@)], field |-> [f EXCEPT !.body = e.fields]]

\* Resolver::field, and the resolution of a declaration of a type.
resolve_component_field(r, f, scope) ==
  CASE f.defs # <<>> -> ResolveDefs(r, f)
    [] f.outer # NoIndex -> outer_alias(r, f)
    [] f.scope # NoScope ->
         LeaveScope(resolve_prepending_aliases(
                      [r EXCEPT !.stack = Append(@, ComponentStateOf(f.id))], f.body, f.scope), f)
    [] OTHER -> LET e == ResolveRefs(r, f.refs, scope = "module type")
                IN  [r |-> e.r, field |-> [f EXCEPT !.refs = e.refs]]

\* The aliases made on the way stand before the field, which is registered after them.
splice(s, e, scope) ==
  [r |-> register_field([e.r EXCEPT !.inserts = <<>>], e.field, scope),
   fields |-> s.fields \o e.r.inserts \o <<e.field>>]

\* Resolver::resolve_prepending_aliases: the fields in order; the first error ends it.
resolve_prepending_aliases(r, fields, scope) ==
  FoldLeft(LAMBDA s, f : IF ~s.r.ok THEN s
                         ELSE splice(s, resolve_component_field(s.r, f, scope), scope),
           [r |-> r, fields |-> <<>>], fields)

\* Component::resolve.
resolve_component(id, fields) ==
  LET r == [stack |-> <<ComponentStateOf(id)>>, inserts |-> <<>>, ok |-> TRUE]
      e == resolve_prepending_aliases(r, expand_component_fields(fields), "component")
  IN  [ok |-> e.r.ok, fields |-> e.fields]

-------------------------------------------------------------------------------
(* binary.rs: Encoder.  Fields of one kind in a row share a section.           *)

Immediate == {"core module", "component", "start", "custom"}
NoSection == "none"
SectionKind(f) == IF f.kind = "core rec" THEN "core type" ELSE f.kind

\* Encoder::flush: the section under way ends if the next item is of another.
flush(e, section) ==
  IF e.current = section THEN e
  ELSE [e EXCEPT !.current = section,
                 !.sections = IF e.current = NoSection THEN @
                              ELSE Append(@, [id |-> e.current, items |-> e.pending[e.current]]),
                 !.pending = IF e.current = NoSection THEN @ ELSE [@ EXCEPT ![e.current] = <<>>]]

\* get_name: generated identifiers are left out of the name section.
NameOf(id) == IF id[1] = "gen" THEN NoId ELSE id

\* The names of what a field adds to the index spaces; a start function adds none.
PushNames(e, f) ==
  CASE f.defs # <<>> ->
         [e EXCEPT !.names["core type"] = @ \o [i \in DOMAIN f.defs |-> NameOf(f.defs[i].id)]]
    [] f.defs = <<>> /\ f.ns # "none" -> [e EXCEPT !.names[f.ns] = Append(@, NameOf(f.id))]
    [] OTHER -> e

RECURSIVE encode_fields(_)

encode_field(e, f) ==
  LET n == PushNames(e, f)
      section == SectionKind(f)
      nested == IF f.scope = "component" THEN [f EXCEPT !.body = encode_fields(f.body)] ELSE f
  IN  IF section \in Immediate
      THEN [flush(n, NoSection) EXCEPT !.sections = Append(@, [id |-> section, items |-> <<nested>>])]
      ELSE flush([n EXCEPT !.pending[section] = Append(@, f)], section)

encode_fields(fields) ==
  LET pending == [s \in {"core instance", "core type", "instance", "alias", "type", "canon",
                         "import", "export"} |-> <<>>]
      start == [current |-> NoSection, pending |-> pending, sections |-> <<>>,
                names |-> [ns \in ComponentSpaces |-> <<>>]]
      e == flush(FoldLeft(encode_field, start, fields), NoSection)
  IN  [sections |-> e.sections, names |-> e.names]
=============================================================================
