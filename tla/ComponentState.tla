--------------------------- MODULE ComponentState ---------------------------
(***************************************************************************)
(* One component under validation: ComponentState of validator/            *)
(* component.rs and the operations that add to it.  An operation takes the *)
(* state s, the allocator a (the counters of TypeAlloc) and its operands,  *)
(* and answers [outcome, s, a]: the new state and allocator when the       *)
(* outcome is "ok".                                                        *)
(*                                                                         *)
(* Operands are as they are in the binary: a value type is a primitive or  *)
(* [v |-> "at", idx], a type reference is [r, idx] (or [r |-> "value",     *)
(* val]), an item is [k, idx], all indices counting from 1.                *)
(***************************************************************************)
EXTENDS CanonicalFunctions

-----------------------------------------------------------------------------
(* Import and export names (validator/names.rs) and the context in which   *)
(* they are checked (ComponentNameContext).                                *)
(*                                                                         *)
(* A parsed name is [form, id, fn, spelling]: its form, its label (for a   *)
(* method, a static function or a constructor the label of the resource),  *)
(* the function's label, and which of the spellings of the same            *)
(* case-insensitive labels it uses.  A context is [map, names]: the name   *)
(* index of each resource, and the resource names.                         *)

Name(form, id, fn, spelling) == [form |-> form, id |-> id, fn |-> fn, spelling |-> spelling]
Label(id) == Name("label", id, "", 0)

AsyncForms == {"async-label", "async-method", "async-static"}
ResourceForms == {"method", "static", "async-method", "async-static"}

\* impl PartialEq for ComponentNameKind: asynchrony does not tell labels apart,
\* nor does it or being static tell the functions of a resource apart.  Labels
\* are compared without regard to case, everything else as text.
SameName(a, b) ==
  CASE {a.form, b.form} \subseteq {"label", "async-label"} -> a.id = b.id
    [] {a.form, b.form} = {"constructor"} -> a.id = b.id
    [] {a.form, b.form} \subseteq ResourceForms ->
         a.id = b.id /\ a.fn = b.fn /\ a.spelling = b.spelling
    [] OTHER -> a = b

EmptyContext == [map |-> <<>>, names |-> <<>>]

\* ComponentNameContext::register; a resource that already has a name fires its
\* assertion.
RegisterPanics(cx, T) == T \in Keys(cx.map)
register(cx, name, T) ==
  [map |-> Append(cx.map, <<T, Len(cx.names) + 1>>),
   names |-> IF name \in ToSet(cx.names) THEN cx.names ELSE Append(cx.names, name)]

\* The label of the resource that a structured name speaks of, as it is spelt.
ResourceLabel(name) == Name("label", name.id, "", name.spelling)

validate_resource_name(cx, T, name) ==
  /\ T \in Keys(cx.map)
  /\ cx.names[Get(cx.map, T)] = ResourceLabel(name)

HandleOf(v, d) == IF v.v = "type" /\ v.id.def.d = d THEN v.id.def.res ELSE NoResource

\* ComponentNameContext::validate: constructors, methods and static functions
\* belong to a resource that has been named here.
validate(cx, name, ty) ==
  /\ name.form \in AsyncForms => "cm_async" \in Features
  /\ CASE name.form = "constructor" ->
            ty.k = "func" /\ validate_resource_name(cx, HandleOf(ty.ty.result, "own"), name)
       [] name.form \in {"method", "async-method"} ->
            /\ ty.k = "func"
            /\ ty.ty.params # <<>>
            /\ ty.ty.params[1][1] = "self"
            /\ validate_resource_name(cx, HandleOf(ty.ty.params[1][2], "borrow"), name)
       [] name.form \in {"static", "async-static"} ->
            ty.k = "func" /\ ResourceLabel(name) \in ToSet(cx.names)
       [] OTHER -> TRUE

\* ComponentNameContext::validate_extern: may `name` be added to the items that
\* the context has so far?
validate_extern(cx, name, kind, ty, items) ==
  /\ kind = "export" => name.form \notin {"hash", "url", "dependency"}
  /\ validate(cx, name, ty)
  /\ \A other \in Keys(items) : ~SameName(name, other)

-----------------------------------------------------------------------------
(* The state.                                                              *)

\* ComponentState::new
New(kind) ==
  [kind |-> kind, core_types |-> <<>>, core_modules |-> <<>>, core_instances |-> <<>>,
   core_funcs |-> <<>>, core_memories |-> <<>>, core_tables |-> <<>>,
   core_globals |-> <<>>, core_tags |-> <<>>,
   types |-> <<>>, funcs |-> <<>>, values |-> <<>>, instances |-> <<>>, components |-> <<>>,
   imports |-> <<>>, exports |-> <<>>, has_start |-> FALSE,
   imported |-> <<>>, defined |-> <<>>, explicit |-> <<>>,
   imported_types |-> {}, exported_types |-> {},
   import_names |-> EmptyContext, export_names |-> EmptyContext]

\* TypeAlloc: the next resource id, the next alias id and the next type id.
NewAlloc == [resource |-> 1, alias |-> 1, id |-> 1]

Done(s, a) == [outcome |-> "ok", s |-> s, a |-> a]
Fail(outcome, s, a) == [outcome |-> outcome, s |-> s, a |-> a]
Tick(a) == [a EXCEPT !.id = @ + 1]

\* TypeList::with_unique: only resources and defined types can be aliases.
with_unique(T, a) ==
  IF T.t \in {"resource", "defined"} THEN [T EXCEPT !.alias = a.alias] ELSE T

-----------------------------------------------------------------------------
(* Types                                                                     *)

\* create_component_val_type
ValFits(s, v) ==
  v.v = "at" => v.idx \in DOMAIN s.types /\ s.types[v.idx].t = "defined"
Val(s, v) == IF v.v = "at" THEN OfType(s.types[v.idx]) ELSE v

Distinct(seq) == \A i, j \in DOMAIN seq : i # j => seq[i] # seq[j]

\* The labels of records, variants, flags and enums.
LabelsFit(decl) ==
  /\ Distinct(decl.names)
  /\ decl.d \in {"record", "variant", "flags", "enum"} => decl.names # <<>>
  /\ decl.d = "flags" => Len(decl.names) <= 32

\* create_defined_type and the checks of each kind.  decl is [d, names, of, res].
DefinedFits(s, decl) ==
  /\ \A i \in DOMAIN decl.of : ValFits(s, decl.of[i])
  /\ LabelsFit(decl)
  /\ decl.d = "tuple" => decl.of # <<>>
  /\ decl.d \in {"future", "stream"} => "cm_async" \in Features
  /\ decl.of = <<Prim("error-context")>> /\ decl.d = "primitive" => "cm_async" \in Features
  /\ decl.d \in Handles => resource_at(s, decl.res)

create_defined_type(s, decl) ==
  Def(decl.d, decl.names, [i \in DOMAIN decl.of |-> Val(s, decl.of[i])],
      IF decl.d \in Handles THEN s.types[decl.res] ELSE NoResource)

FuncFits(s, decl) ==
  /\ \A i \in DOMAIN decl.params : ValFits(s, decl.params[i][2])
  /\ Distinct([i \in DOMAIN decl.params |-> decl.params[i][1]])
  /\ ValFits(s, decl.result)
  /\ ~contains_borrow(Val(s, decl.result))

create_function_type(s, decl, id) ==
  FuncType(<<id>>, [i \in DOMAIN decl.params |-> <<decl.params[i][1], Val(s, decl.params[i][2])>>],
           Val(s, decl.result))

PushType(s, T) == [s EXCEPT !.types = Append(@, T)]

add_defined_type(s, a, decl) ==
  IF ~DefinedFits(s, decl) THEN Fail("err", s, a)
  ELSE Done(PushType(s, Defined(<<a.id>>, create_defined_type(s, decl))), Tick(a))

add_func_type(s, a, decl) ==
  IF ~FuncFits(s, decl) THEN Fail("err", s, a)
  ELSE Done(PushType(s, create_function_type(s, decl, a.id)), Tick(a))

\* The Resource arm of add_type; dtor is 0 or the index of a core function.
add_resource_type(s, a, dtor) ==
  IF \/ s.kind # "Component"
     \/ dtor # 0 /\ ~(core_function_at(s, dtor) /\ s.core_funcs[dtor].params = I32s(1)
                        /\ s.core_funcs[dtor].results = <<>>)
  THEN Fail("err", s, a)
  ELSE Done([PushType(s, Resource(a.resource, NO_ALIAS)) EXCEPT
               !.defined = Append(@, <<a.resource, "i32">>)],
            [a EXCEPT !.resource = @ + 1])

\* create_instance_type, once the declarations have been read.
create_instance_type(s, id) ==
  InstanceType(<<id>>, s.exports, [i \in DOMAIN s.defined |-> s.defined[i][1]], s.explicit)

InstanceTypePanics(s) ==
  s.imported # <<>> \/ \E i \in DOMAIN s.defined : s.defined[i][2] # "none"

-----------------------------------------------------------------------------
(* Imports and exports                                                       *)

Freshen(defined, a) ==
  [r \in ToSet(defined) |-> a.resource - 1 + SelectInSeq(defined, LAMBDA x : x = r)]

\* The instance type whose own resources are replaced by fresh ones, which from
\* now on belong to the component.
Freshened(T, a) ==
  LET m == Remapping(Freshen(T.defined, a), {}, a.id)
  IN  InstanceType(<<a.id>>, RemapMap(T.exports, m), <<>>, RenameAll(T.explicit, m))

\* Mutant: the resource counter stays where it was.
MutAllocAfter(T, a) == Tick(a)
AllocAfter(T, a) == [a EXCEPT !.resource = @ + Len(T.defined), !.id = @ + 1]

\* Mutant: the paths of a nested instance are taken over as they are.
MutUnder(index, pairs) == pairs
Under(index, pairs) == [i \in DOMAIN pairs |-> <<pairs[i][1], <<index>> \o pairs[i][2]>>]

InsertAll(map, pairs) == FoldLeft(LAMBDA m, p : Insert(m, p[1], p[2]), map, pairs)

\* prepare_instance_import: what the instance defines is imported here, and
\* every one of those resources must have a path in the instance.
prepare_instance_import(s, a, T) ==
  CASE T.defined = <<>> -> [s |-> s, a |-> a, ty |-> T, panic |-> FALSE]
    [] ~(ToSet(T.defined) \subseteq Keys(T.explicit)) ->
         [s |-> s, a |-> a, ty |-> T, panic |-> TRUE]
    [] OTHER ->
         [s |-> [s EXCEPT !.imported = @ \o Under(Len(s.imports) + 1,
                   [i \in DOMAIN T.defined |->
                      <<a.resource - 1 + i, Get(T.explicit, T.defined[i])>>])],
          a |-> AllocAfter(T, a), ty |-> Freshened(T, a), panic |-> FALSE]

\* prepare_instance_export: what the instance defines is defined here, and what
\* it exports explicitly is explicit here.
prepare_instance_export(s, a, T) ==
  LET new == IF T.defined = <<>> THEN T ELSE Freshened(T, a)
  IN  [s |-> [s EXCEPT !.defined = @ \o [i \in DOMAIN T.defined |->
                                            <<a.resource - 1 + i, "none">>],
                       !.explicit = InsertAll(@, Under(Len(s.exports) + 1, new.explicit))],
       a |-> IF T.defined = <<>> THEN a ELSE AllocAfter(T, a), ty |-> new, panic |-> FALSE]

\* The Type arm of add_entity.
add_type_entity(s, e, kind) ==
  LET r == e.created.id
      own == e.created = e.referenced
      t == PushType(s, e.created)
  IN  CASE e.created.t # "resource" -> t
        [] kind = "import" /\ own ->
             [t EXCEPT !.imported = Append(@, <<r, <<Len(s.imports) + 1>>>>)]
        [] kind = "export" ->
             [t EXCEPT !.defined = IF own THEN Append(@, <<r, "none">>) ELSE @,
                       !.explicit = Insert(@, r, <<Len(s.exports) + 1>>)]
        [] OTHER -> t

\* add_entity without the naming rules: the entity joins its index space.
Entered(s, a, e, kind) ==
  CASE e.k = "module" -> [s |-> [s EXCEPT !.core_modules = Append(@, e.ty)], a |-> a,
                          e |-> e, panic |-> FALSE]
    [] e.k = "component" -> [s |-> [s EXCEPT !.components = Append(@, e.ty)], a |-> a,
                             e |-> e, panic |-> FALSE]
    [] e.k = "func" -> [s |-> [s EXCEPT !.funcs = Append(@, e.ty)], a |-> a,
                        e |-> e, panic |-> FALSE]
    [] e.k = "value" -> [s |-> [s EXCEPT !.values = Append(@, <<e.ty, kind = "export">>)],
                         a |-> a, e |-> e, panic |-> FALSE]
    [] e.k = "type" -> [s |-> add_type_entity(s, e, kind), a |-> a, e |-> e, panic |-> FALSE]
    [] e.k = "instance" ->
         LET prep == CASE kind = "import" -> prepare_instance_import(s, a, e.ty)
                       [] kind = "export" -> prepare_instance_export(s, a, e.ty)
                       [] OTHER -> [s |-> s, a |-> a, ty |-> e.ty, panic |-> FALSE]
         IN  [s |-> [prep.s EXCEPT !.instances = Append(@, prep.ty)], a |-> prep.a,
              e |-> Entity("instance", prep.ty), panic |-> prep.panic]

\* validate_and_register_named_types below the top level; n is [ok, imported,
\* exported], the two sets of types that have a name.
RECURSIVE NameTypes(_, _, _)
NameTypes(n, e, kind) ==
  LET set == IF kind = "import" THEN n.imported ELSE n.exported
  IN  CASE ~n.ok -> n
        [] e.k = "type" ->
             IF ~all_valtypes_named(e.referenced, set) THEN [n EXCEPT !.ok = FALSE]
             ELSE [n EXCEPT !.imported = IF kind = "import" THEN @ \cup {e.created} ELSE @,
                            !.exported = @ \cup {e.created}]
        [] e.k = "instance" ->
             FoldLeft(LAMBDA acc, x : NameTypes(acc, x[2], kind), n, e.ty.exports)
        [] e.k = "func" -> [n EXCEPT !.ok = all_valtypes_named_in_func(e.ty, set)]
        [] e.k = "value" -> [n EXCEPT !.ok = type_named_valtype(e.ty, set)]
        [] OTHER -> n

NamesAfter(s, e, kind) ==
  IF s.kind = "InstanceType"
  THEN [ok |-> TRUE, imported |-> s.imported_types, exported |-> s.exported_types]
  ELSE NameTypes([ok |-> TRUE, imported |-> s.imported_types, exported |-> s.exported_types],
                 e, kind)

\* The names context of one side, with the resource that this entity names.
Context(s, name, e, kind) ==
  LET cx == IF kind = "import" THEN s.import_names ELSE s.export_names
  IN  IF e.k = "type" /\ e.created.t = "resource" THEN register(cx, name, e.created) ELSE cx

RegisterFires(s, e, kind) ==
  /\ e.k = "type"
  /\ e.created.t = "resource"
  /\ RegisterPanics(IF kind = "import" THEN s.import_names ELSE s.export_names, e.created)

\* The assertion of IndexMapAppendOnly::insert.
AppendFires(s) ==
  \/ Cardinality(Keys(s.imported)) # Len(s.imported)
  \/ Cardinality(Keys(s.defined)) # Len(s.defined)

\* The end of add_import and add_export: the entity has entered (t) the state s.
Named(s, t, name, kind, n, cx) ==
  IF ~n.ok \/ ~validate_extern(cx, name, kind, t.e, IF kind = "import" THEN s.imports ELSE s.exports)
  THEN Fail("err", s, t.a)
  ELSE Done(IF kind = "import"
            THEN [t.s EXCEPT !.imports = Append(@, <<name, t.e>>), !.import_names = cx,
                             !.imported_types = n.imported, !.exported_types = n.exported]
            ELSE [t.s EXCEPT !.exports = Append(@, <<name, t.e>>), !.export_names = cx,
                             !.imported_types = n.imported, !.exported_types = n.exported],
            t.a)

AddNamed(s, t, name, kind) ==
  IF t.panic \/ AppendFires(t.s) \/ RegisterFires(s, t.e, kind) THEN Fail("panic", s, t.a)
  ELSE Named(s, t, name, kind, NamesAfter(t.s, t.e, kind), Context(s, name, t.e, kind))

add_extern(s, a, name, e, kind) ==
  IF e.k = "value" /\ "cm_values" \notin Features THEN Fail("err", s, a)
  ELSE AddNamed(s, Entered(s, a, e, kind), name, kind)

-----------------------------------------------------------------------------
(* Type references                                                           *)

TypeKind == [func |-> "func", instance |-> "instance", component |-> "component"]

RefFits(s, ref) ==
  CASE ref.r = "sub" -> TRUE
    [] ref.r = "eq" -> ref.idx \in DOMAIN s.types
    [] ref.r = "value" -> "cm_values" \in Features /\ ValFits(s, ref.val)
    [] ref.r = "module" -> ref.idx \in DOMAIN s.core_types
                             /\ "imports" \in DOMAIN s.core_types[ref.idx]
    [] OTHER -> ref.idx \in DOMAIN s.types /\ s.types[ref.idx].t = TypeKind[ref.r]

\* check_type_ref: the entity a reference describes, and the allocator after it.
check_type_ref(s, a, ref) ==
  CASE ref.r = "sub" -> [e |-> TypeEntity(Resource(a.resource, NO_ALIAS), Resource(a.resource, NO_ALIAS)),
                         a |-> [a EXCEPT !.resource = @ + 1]]
    [] ref.r = "eq" -> [e |-> TypeEntity(with_unique(s.types[ref.idx], a), s.types[ref.idx]),
                        a |-> [a EXCEPT !.alias = @ + 1]]
    [] ref.r = "value" -> [e |-> Entity("value", Val(s, ref.val)), a |-> a]
    [] ref.r = "module" -> [e |-> Entity("module", s.core_types[ref.idx]), a |-> a]
    [] OTHER -> [e |-> Entity(ref.r, s.types[ref.idx]), a |-> a]

\* An import, or an export in a component or instance type.
add_declared(s, a, name, ref, kind) ==
  IF ~RefFits(s, ref) THEN Fail("err", s, a)
  ELSE LET t == check_type_ref(s, a, ref) IN add_extern(s, t.a, name, t.e, kind)

-----------------------------------------------------------------------------
(* Items of the index spaces: the arguments and exports of instances         *)

value_at(s, i) == i \in DOMAIN s.values /\ ~s.values[i][2]
UseValue(s, i) == [s EXCEPT !.values[i] = <<@[1], TRUE>>]

Space(s, k) ==
  CASE k = "module" -> s.core_modules
    [] k = "func" -> s.funcs
    [] k = "instance" -> s.instances
    [] k = "component" -> s.components
    [] k = "type" -> s.types

ItemFits(s, item) ==
  IF item.k = "value" THEN "cm_values" \in Features /\ value_at(s, item.idx)
  ELSE item.idx \in DOMAIN Space(s, item.k)

\* The entity of an item.  A type item stands for itself.
ItemEntity(s, item) ==
  CASE item.k = "value" -> Entity("value", s.values[item.idx][1])
    [] item.k = "type" -> TypeEntity(s.types[item.idx], s.types[item.idx])
    [] OTHER -> Entity(item.k, Space(s, item.k)[item.idx])

AfterItem(s, item) == IF item.k = "value" THEN UseValue(s, item.idx) ELSE s

\* export_to_entity_type: a type that is exported becomes a new name of itself.
ExportedEntity(s, a, item) ==
  IF item.k = "type"
  THEN [e |-> TypeEntity(with_unique(s.types[item.idx], a), s.types[item.idx]),
        a |-> [a EXCEPT !.alias = @ + 1]]
  ELSE [e |-> ItemEntity(s, item), a |-> a]

AscribeChecked(s, a, name, t, fits) ==
  IF fits # "ok" THEN Fail(fits, s, a) ELSE add_extern(s, t.a, name, t.e, "export")
Ascribe(s, a, name, actual, t) ==
  AscribeChecked(s, a, name, t, component_entity_type(actual, t.e))

NoRef == [r |-> "none"]

\* An export of a component: an item, with the type it is to have or NoRef.
add_export(s, a, name, item, ref) ==
  IF ~ItemFits(s, item) \/ (ref # NoRef /\ ~RefFits(s, ref)) THEN Fail("err", s, a)
  ELSE LET t == ExportedEntity(s, a, item)
       IN  IF ref = NoRef THEN add_extern(AfterItem(s, item), t.a, name, t.e, "export")
           ELSE Ascribe(AfterItem(s, item), t.a, name, t.e,
                        check_type_ref(AfterItem(s, item), t.a, ref))

-----------------------------------------------------------------------------
(* Instances                                                                 *)

\* The instance that instantiating T with the opened imports gives; `fresh` are
\* the resources that take the place of those T defines, and the last conjuncts
\* are the checks that the debug build makes of the instance.
InstanceOf(T, m) ==
  InstanceType(<<m.stamp>>, RemapMap(T.exports, m), <<>>,
               InsertAll(<<>>, RenameAll(T.explicit, m)))

InstanceRemapping(T, opened, fresh, stamp) ==
  Remapping([r \in DOMAIN opened.resources \cup ResourcesOf(T.defined) |->
               IF r \in ResourcesOf(T.defined)
               THEN fresh[SelectInSeq(T.defined, LAMBDA p : p[1] = r)]
               ELSE opened.resources[r]],
            opened.types, stamp)

AddInstantiated(s, a, T, opened, fresh, inst) ==
  IF \/ ResourcesOf(T.defined) \cap DOMAIN opened.resources # {}
     \/ ~(ToSet(fresh) \subseteq FreeInMap(inst.exports))
     \/ ~(ToSet(fresh) \subseteq Keys(inst.explicit))
  THEN Fail("panic", s, a)
  ELSE Done([s EXCEPT !.defined = @ \o [i \in DOMAIN fresh |-> <<fresh[i], "none">>],
                      !.instances = Append(@, inst)],
            [a EXCEPT !.resource = @ + Len(fresh), !.id = @ + 1])

Instantiated(s, a, T, opened, fresh) ==
  AddInstantiated(s, a, T, opened, fresh,
                  InstanceOf(T, InstanceRemapping(T, opened, fresh, a.id)))

\* The component T has been opened; what it defines gets fresh resources.
InstantiateOpened(s, a, T, opened) ==
  IF opened.outcome # "ok" THEN Fail(opened.outcome, s, a)
  ELSE Instantiated(s, a, T, opened, [i \in DOMAIN T.defined |-> a.resource - 1 + i])

AllArgs(s, items) == [i \in DOMAIN items |-> <<items[i].name, ItemEntity(s, items[i])>>]

\* Each argument or export may use up a value.
ItemsFit(s, items) ==
  /\ \A i \in DOMAIN items : ItemFits(s, items[i])
  /\ \A i, j \in DOMAIN items : i # j /\ items[i].k = "value" /\ items[j].k = "value"
                                  => items[i].idx # items[j].idx

UseItems(s, items) == FoldLeft(AfterItem, s, items)

instantiate_component(s, a, idx, items) ==
  IF \/ idx \notin DOMAIN s.components
     \/ ~ItemsFit(s, items)
     \/ ~Distinct([i \in DOMAIN items |-> items[i].name])
  THEN Fail("err", s, a)
  ELSE InstantiateOpened(UseItems(s, items), a, s.components[idx],
         open_instance_type(AllArgs(s, items), s.components[idx], "import"))

\* The explicit resources of an instance made of exports: those of the types and
\* the instances among them.
ExplicitOf(s, items) ==
  FoldLeftDomain(LAMBDA acc, i :
      CASE items[i].k = "type" /\ s.types[items[i].idx].t = "resource" ->
             Insert(acc, s.types[items[i].idx].id, <<i>>)
        [] items[i].k = "instance" ->
             InsertAll(acc, Under(i, s.instances[items[i].idx].explicit))
        [] OTHER -> acc,
    <<>>, items)

instantiate_component_exports(s, a, items) ==
  IF \/ ~ItemsFit(s, items)
     \/ \E i \in DOMAIN items :
          ~validate_extern(EmptyContext, items[i].name, "export", ItemEntity(s, items[i]),
                           SubSeq(AllArgs(s, items), 1, i - 1))
  THEN Fail("err", s, a)
  ELSE Done([UseItems(s, items) EXCEPT !.instances = Append(@,
               InstanceType(<<a.id>>, AllArgs(s, items), <<>>, ExplicitOf(s, items)))],
            Tick(a))

alias_instance_export(s, a, idx, name, k) ==
  IF \/ idx \notin DOMAIN s.instances
     \/ name \notin Keys(s.instances[idx].exports)
     \/ Get(s.instances[idx].exports, name).k # k
     \/ k = "value" /\ "cm_values" \notin Features
  THEN Fail("err", s, a)
  ELSE LET t == Entered(s, a, Get(s.instances[idx].exports, name), "none") IN Done(t.s, t.a)

-----------------------------------------------------------------------------
(* Core instances and start                                                  *)

CoreSpace == [func |-> "core_funcs", memory |-> "core_memories", table |-> "core_tables",
              global |-> "core_globals", tag |-> "core_tags"]

\* A core entity as an index space keeps it: functions and tags by their type.
Stored(e) == IF e.c \in {"func", "tag"} THEN e.ty ELSE e
Listed(s, c, i) ==
  IF c \in {"func", "tag"} THEN [c |-> c, ty |-> s[CoreSpace[c]][i]] ELSE s[CoreSpace[c]][i]

\* args are <<name, core instance index>>; the result is a core instance, the
\* map of its exports.
instantiate_core_module(s, a, idx, args) ==
  LET fits == /\ idx \in DOMAIN s.core_modules
              /\ \A i \in DOMAIN args : args[i][2] \in DOMAIN s.core_instances
              /\ Distinct([i \in DOMAIN args |-> args[i][1]])
              /\ \A p \in ToSet(s.core_modules[idx].imports) :
                   /\ p[1][1] \in Keys(args)
                   /\ p[1][2] \in Keys(s.core_instances[Get(args, p[1][1])])
                   /\ entity_type(Get(s.core_instances[Get(args, p[1][1])], p[1][2]), p[2])
  IN  IF ~fits THEN Fail("err", s, a)
      ELSE Done([s EXCEPT !.core_instances = Append(@, s.core_modules[idx].exports)], a)

\* exports are <<name, sort, index>>
instantiate_core_exports(s, a, exports) ==
  IF \/ \E i \in DOMAIN exports : exports[i][3] \notin DOMAIN s[CoreSpace[exports[i][2]]]
     \/ ~Distinct([i \in DOMAIN exports |-> exports[i][1]])
     \/ \E i \in DOMAIN exports : exports[i][2] = "tag" /\ "exceptions" \notin Features
  THEN Fail("err", s, a)
  ELSE Done([s EXCEPT !.core_instances = Append(@, [i \in DOMAIN exports |->
               <<exports[i][1], Listed(s, exports[i][2], exports[i][3])>>])], a)

alias_core_instance_export(s, a, idx, name, c) ==
  IF \/ idx \notin DOMAIN s.core_instances
     \/ name \notin Keys(s.core_instances[idx])
     \/ Get(s.core_instances[idx], name).c # c
     \/ c = "tag" /\ "exceptions" \notin Features
  THEN Fail("err", s, a)
  ELSE Done([s EXCEPT ![CoreSpace[c]] = Append(@, Stored(Get(s.core_instances[idx], name)))], a)

\* add_start: the arguments are values, used in order.
add_start(s, a, idx, args, results) ==
  IF \/ "cm_values" \notin Features
     \/ s.has_start
     \/ idx \notin DOMAIN s.funcs
     \/ Len(s.funcs[idx].params) # Len(args)
     \/ (s.funcs[idx].result # None) # (results = 1)
     \/ ~ItemsFit(s, [i \in DOMAIN args |-> [k |-> "value", idx |-> args[i]]])
     \/ \E i \in DOMAIN args :
          ~component_val_type(s.values[args[i]][1], s.funcs[idx].params[i][2])
  THEN Fail("err", s, a)
  ELSE Done([FoldLeft(UseValue, s, args) EXCEPT
               !.values = IF results = 1 THEN Append(@, <<s.funcs[idx].result, FALSE>>) ELSE @,
               !.has_start = TRUE], a)

-----------------------------------------------------------------------------
(* The end of a component                                                    *)

\* The resources defined here that the exports mention.
ExportedDefined(s) == SelectSeq(s.defined, LAMBDA p : p[1] \in FreeInMap(s.exports))

LocalInImports(s) == Keys(s.defined) \cap FreeInMap(s.imports) # {}
NotExplicit(s) == \E i \in DOMAIN ExportedDefined(s) : ExportedDefined(s)[i][1] \notin Keys(s.explicit)

\* ComponentState::finish
FinishFits(s) == ~LocalInImports(s) /\ ~NotExplicit(s)

finish(s, id) ==
  LET own == ExportedDefined(s)
  IN  ComponentType(<<id>>, s.imports, s.exports, s.imported,
                    [i \in DOMAIN own |-> <<own[i][1], Get(s.explicit, own[i][1])>>], s.explicit)

ValuesUsed(s) == \A i \in DOMAIN s.values : s.values[i][2]

=============================================================================
