--------------------------- MODULE ComponentTypes ---------------------------
(***************************************************************************)
(* The types of the component model, as inf-wasmparser's validator keeps   *)
(* them (validator/component_types.rs).  The validator stores types in     *)
(* arenas and passes ids around; here a type is a value that carries the   *)
(* id ("idx") the arena gave it, so that two ids are equal exactly when    *)
(* the values are.  An IndexMap is the sequence of its <<key, value>>      *)
(* pairs; an index into one is counted from 1.                             *)
(*                                                                         *)
(*   value types   None, Prim(p), OfType(defined)                          *)
(*   any types     "resource" [id, alias], "defined" [idx, alias, def],    *)
(*                 "func", "instance", "component"                         *)
(*   entities      "type" [created, referenced], "func", "value",          *)
(*                 "instance", "component", "module"                       *)
(*                                                                         *)
(* Every check answers "ok", "err" (a validation error) or "panic" (an     *)
(* assertion, an unwrap or an unreachable! of the code fired).             *)
(***************************************************************************)
EXTENDS Integers, Sequences, FiniteSets, SequencesExt

CONSTANTS MaxFlatParams,  \* MAX_FLAT_FUNC_PARAMS: 16 in the code
          MaxFlatResults, \* MAX_FLAT_FUNC_RESULTS: 1 in the code
          Features        \* the WasmFeatures that are enabled

ASSUME FlatAssumption == MaxFlatParams \in Nat \ {0} /\ MaxFlatResults \in Nat \ {0}

-----------------------------------------------------------------------------
(* Constructors                                                            *)

NO_ALIAS == 0
None == [v |-> "none"]
Prim(p) == [v |-> "prim", p |-> p]
OfType(defined) == [v |-> "type", id |-> defined]

Resource(r, alias) == [t |-> "resource", id |-> r, alias |-> alias]
NoResource == Resource(0, NO_ALIAS)

\* A ComponentDefinedType: its kind, the labels of its fields, cases, flags or
\* enum cases, the value types it is made of (None for an absent payload) and
\* the resource of an own or borrow handle.
Def(d, names, of, res) == [d |-> d, names |-> names, of |-> of, res |-> res]
Defined(idx, def) == [t |-> "defined", idx |-> idx, alias |-> NO_ALIAS, def |-> def]

FuncType(idx, params, result) ==
  [t |-> "func", idx |-> idx, params |-> params, result |-> result]
InstanceType(idx, exports, defined, explicit) ==
  [t |-> "instance", idx |-> idx, exports |-> exports, defined |-> defined,
   explicit |-> explicit]
ComponentType(idx, imports, exports, imported, defined, explicit) ==
  [t |-> "component", idx |-> idx, imports |-> imports, exports |-> exports,
   imported |-> imported, defined |-> defined, explicit |-> explicit]

TypeEntity(created, referenced) ==
  [k |-> "type", created |-> created, referenced |-> referenced]
Entity(k, ty) == [k |-> k, ty |-> ty]

Handles == {"own", "borrow"}

-----------------------------------------------------------------------------
(* Index maps                                                              *)

Keys(map) == {map[i][1] : i \in DOMAIN map}
Values(map) == [i \in DOMAIN map |-> map[i][2]]
Get(map, key) == map[CHOOSE i \in DOMAIN map : map[i][1] = key][2]

\* IndexMap::insert: an existing key keeps its place and gets the new value.
Insert(map, key, value) ==
  IF key \in Keys(map)
  THEN [i \in DOMAIN map |-> IF map[i][1] = key THEN <<key, value>> ELSE map[i]]
  ELSE Append(map, <<key, value>>)

\* The first outcome of a sequence of checks that is not "ok".
FirstBad(outcomes) ==
  IF \A i \in DOMAIN outcomes : outcomes[i] = "ok" THEN "ok"
  ELSE SelectSeq(outcomes, LAMBDA o : o # "ok")[1]

Holds(b) == IF b THEN "ok" ELSE "err"

-----------------------------------------------------------------------------
(* Free variables: the resources a type mentions and does not bind.        *)

ResourcesOf(pairs) == {pairs[i][1] : i \in DOMAIN pairs}

RECURSIVE free_variables_valtype(_), free_variables_any_type_id(_)

free_variables_component_defined_type_id(def) ==
  UNION {free_variables_valtype(def.of[i]) : i \in DOMAIN def.of}
    \cup (IF def.d \in Handles THEN {def.res.id} ELSE {})

free_variables_valtype(v) ==
  IF v.v = "type" THEN free_variables_component_defined_type_id(v.id.def) ELSE {}

free_variables_component_entity(e) ==
  CASE e.k = "module" -> {}
    [] e.k = "type" -> free_variables_any_type_id(e.created)
    [] e.k = "value" -> free_variables_valtype(e.ty)
    [] OTHER -> free_variables_any_type_id(e.ty)

FreeInMap(map) == UNION {free_variables_component_entity(map[i][2]) : i \in DOMAIN map}

free_variables_any_type_id(T) ==
  CASE T.t = "resource" -> {T.id}
    [] T.t = "defined" -> free_variables_component_defined_type_id(T.def)
    [] T.t = "func" -> UNION {free_variables_valtype(T.params[i][2]) : i \in DOMAIN T.params}
                         \cup free_variables_valtype(T.result)
    [] T.t = "instance" -> FreeInMap(T.exports) \ ToSet(T.defined)
    [] T.t = "component" -> (FreeInMap(T.imports) \cup FreeInMap(T.exports))
                              \ (ResourcesOf(T.imported) \cup ResourcesOf(T.defined))

-----------------------------------------------------------------------------
(* Named types: what an import or an export may refer to must itself have   *)
(* been imported or exported under a name.                                  *)

RECURSIVE type_named_type_id(_, _)

type_named_valtype(v, set) == v.v = "type" => type_named_type_id(v.id, set)

AllNamed(vs, set) == \A i \in DOMAIN vs : type_named_valtype(vs[i], set)

type_named_type_id(T, set) ==
  CASE T.def.d \in {"flags", "enum", "record", "variant"} -> T \in set
    [] T.def.d \in Handles -> T.def.res \in set
    [] OTHER -> AllNamed(T.def.of, set)

all_valtypes_named_in_func(T, set) ==
  AllNamed(Append(Values(T.params), T.result), set)

\* Mutant: a handle needs no name for its resource.
Mutall_valtypes_named_in_defined(T, set) == AllNamed(T.def.of, set)
all_valtypes_named_in_defined(T, set) ==
  IF T.def.d \in Handles THEN T.def.res \in set ELSE AllNamed(T.def.of, set)

RECURSIVE all_valtypes_named(_, _)
all_valtypes_named(T, set) ==
  CASE T.t \in {"resource", "component"} -> TRUE
    [] T.t = "defined" -> all_valtypes_named_in_defined(T, set)
    [] T.t = "func" -> all_valtypes_named_in_func(T, set)
    [] T.t = "instance" ->
         \A i \in DOMAIN T.exports :
           LET e == T.exports[i][2]
           IN  CASE e.k = "type" -> all_valtypes_named(e.created, set)
                 [] e.k \in {"func", "instance"} -> all_valtypes_named(e.ty, set)
                 [] e.k = "value" -> e.ty.v = "type" =>
                                       all_valtypes_named_in_defined(e.ty.id, set)
                 [] OTHER -> TRUE

\* TypeInfo::borrow: whether a value type contains a borrow handle.  The payload
\* of a future or a stream is not looked at.
RECURSIVE contains_borrow(_)
contains_borrow(v) ==
  /\ v.v = "type"
  /\ \/ v.id.def.d = "borrow"
     \/ /\ v.id.def.d \notin {"future", "stream"}
        /\ \E i \in DOMAIN v.id.def.of : contains_borrow(v.id.def.of[i])

-----------------------------------------------------------------------------
(***************************************************************************)
(* Substitution of resources in component types (trait Remap) and the      *)
(* subtype checks (SubtypeCx) of validator/component_types.rs.             *)
(*                                                                         *)
(* A Remapping m has m.resources, the resources it replaces with their     *)
(* replacements, m.types, the pairs of types it renames, and m.stamp, a    *)
(* number no other Remapping has: a type that the substitution changes is  *)
(* pushed once (the code caches it in Remapping::types), under an id that  *)
(* is the old id with the stamp.                                           *)
(***************************************************************************)


Remapping(resources, types, stamp) ==
  [resources |-> resources, types |-> types, stamp |-> stamp]

Rename(r, m) == IF r \in DOMAIN m.resources THEN m.resources[r] ELSE r

RenameAll(pairs, m) ==
  [i \in DOMAIN pairs |-> <<Rename(pairs[i][1], m), pairs[i][2]>>]

\* Remapping::remap_id: the types that are renamed as a whole.
Renamed(T, m) == \E p \in m.types : p[1] = T
remap_id(T, m) == (CHOOSE p \in m.types : p[1] = T)[2]

remap_resource_id(T, m) ==
  IF Renamed(T, m) THEN remap_id(T, m) ELSE [T EXCEPT !.id = Rename(@, m)]

RECURSIVE remap_component_any_type_id(_, _)

remap_valtype(v, m) ==
  IF v.v = "type" THEN [v EXCEPT !.id = remap_component_any_type_id(@, m)] ELSE v

remap_component_entity(e, m) ==
  CASE e.k = "module" -> e
    [] e.k = "type" -> TypeEntity(remap_component_any_type_id(e.created, m),
                                  remap_component_any_type_id(e.referenced, m))
    [] e.k = "value" -> [e EXCEPT !.ty = remap_valtype(@, m)]
    [] OTHER -> [e EXCEPT !.ty = remap_component_any_type_id(@, m)]

RemapMap(map, m) ==
  [i \in DOMAIN map |-> <<map[i][1], remap_component_entity(map[i][2], m)>>]

\* insert_if_any_changed: a changed type is pushed and gets a new id, which is
\* an alias of nothing.
NewId(idx, m) == Append(idx, m.stamp)

insert_if_any_changed(T, new, m) ==
  CASE new = T -> T
    [] T.t = "defined" -> Defined(Append(NewId(T.idx, m), T.alias), new.def)
    [] OTHER -> [new EXCEPT !.idx = NewId(@, m)]

remap_component_defined_type_id(T, m) ==
  insert_if_any_changed(T,
    [T EXCEPT !.def.of = [i \in DOMAIN @ |-> remap_valtype(@[i], m)],
              !.def.res = IF T.def.d \in Handles THEN remap_resource_id(@, m) ELSE @], m)

remap_component_func_type_id(T, m) ==
  insert_if_any_changed(T,
    [T EXCEPT !.params = [i \in DOMAIN @ |-> <<@[i][1], remap_valtype(@[i][2], m)>>],
              !.result = remap_valtype(@, m)], m)

remap_component_instance_type_id(T, m) ==
  insert_if_any_changed(T,
    [T EXCEPT !.exports = RemapMap(@, m), !.defined = [i \in DOMAIN @ |-> Rename(@[i], m)],
              !.explicit = RenameAll(@, m)], m)

remap_component_type_id(T, m) ==
  insert_if_any_changed(T,
    [T EXCEPT !.imports = RemapMap(@, m), !.exports = RemapMap(@, m),
              !.imported = RenameAll(@, m), !.defined = RenameAll(@, m),
              !.explicit = RenameAll(@, m)], m)

remap_component_any_type_id(T, m) ==
  IF Renamed(T, m) THEN remap_id(T, m)
  ELSE CASE T.t = "resource" -> remap_resource_id(T, m)
         [] T.t = "defined" -> remap_component_defined_type_id(T, m)
         [] T.t = "func" -> remap_component_func_type_id(T, m)
         [] T.t = "instance" -> remap_component_instance_type_id(T, m)
         [] T.t = "component" -> remap_component_type_id(T, m)

-----------------------------------------------------------------------------
(* Value types: subtyping is structural equality.                           *)

RECURSIVE component_defined_type(_, _)

component_val_type(a, b) ==
  CASE a.v = "type" /\ b.v = "type" -> component_defined_type(a.id.def, b.id.def)
    [] a.v = "prim" /\ b.v = "type" -> b.id.def.d = "primitive" /\ b.id.def.of = <<a>>
    [] a.v = "type" /\ b.v = "prim" -> a.id.def.d = "primitive" /\ a.id.def.of = <<b>>
    [] OTHER -> a = b

component_defined_type(a, b) ==
  /\ a.d = b.d
  /\ a.names = b.names
  /\ Len(a.of) = Len(b.of)
  /\ \A i \in DOMAIN a.of : component_val_type(a.of[i], b.of[i])
  /\ a.d \in Handles => a.res.id = b.res.id

component_func_type(a, b) ==
  /\ Len(a.params) = Len(b.params)
  /\ \A i \in DOMAIN a.params : /\ a.params[i][1] = b.params[i][1]
                                /\ component_val_type(a.params[i][2], b.params[i][2])
  /\ component_val_type(a.result, b.result)

-----------------------------------------------------------------------------
(* Core entities, as the imports and exports of core modules: functions     *)
(* [c |-> "func", ty], memories and tables with their limits, globals and   *)
(* tags.  A maximum of -1 is an absent one.                                 *)

limits_match(a, b) ==
  /\ a.initial >= b.initial
  /\ b.maximum >= 0 => a.maximum >= 0 /\ a.maximum <= b.maximum

entity_type(a, b) ==
  /\ a.c = b.c
  /\ CASE a.c \in {"func", "tag"} -> a.ty = b.ty
       [] a.c = "global" -> a.mutable = b.mutable /\ a.content = b.content
       [] a.c \in {"table", "memory"} -> a.kind = b.kind /\ limits_match(a, b)

module_type(a, b) ==
  /\ \A k \in Keys(a.imports) : k \in Keys(b.imports)
       /\ entity_type(Get(b.imports, k), Get(a.imports, k))
  /\ \A k \in Keys(b.exports) : k \in Keys(a.exports)
       /\ entity_type(Get(a.exports, k), Get(b.exports, k))

-----------------------------------------------------------------------------
(* Paths: where among the imports or exports of a type a resource is        *)
(* introduced.  Each further index goes into the exports of an instance.    *)

Lost == [names |-> <<>>, ty |-> [k |-> "none"]]

RECURSIVE Follow(_, _)
Follow(entities, path) ==
  IF path = <<>> \/ path[1] \notin DOMAIN entities THEN Lost
  ELSE LET e == entities[path[1]]
       IN  IF Len(path) = 1 THEN [names |-> <<e[1]>>, ty |-> e[2]]
           ELSE IF e[2].k # "instance" THEN Lost
           ELSE LET rest == Follow(e[2].ty.exports, Tail(path))
                IN  [rest EXCEPT !.names = <<e[1]>> \o @]

\* The entity that a path of names leads to among arguments, by name.
RECURSIVE FollowNames(_, _)
FollowNames(args, names) ==
  IF names[1] \notin Keys(args) THEN Lost.ty
  ELSE LET e == Get(args, names[1])
       IN  IF Len(names) = 1 THEN e
           ELSE IF e.k # "instance" THEN Lost.ty
           ELSE FollowNames(e.ty.exports, Tail(names))

\* The path leads to the type that introduces resource r.
LeadsTo(entities, path, r) ==
  LET leaf == Follow(entities, path).ty
  IN  leaf.k = "type" /\ leaf.created.t = "resource" /\ leaf.created.id = r

\* register_type_renamings: the types an entity introduces, paired with those
\* the actual entity has in their place.
RECURSIVE register_type_renamings(_, _)
register_type_renamings(actual, expected) ==
  CASE actual.k = "type" /\ expected.k = "type" -> <<<<expected.created, actual.created>>>>
    [] actual.k = "instance" /\ expected.k = "instance" ->
         FlattenSeq([i \in DOMAIN expected.ty.exports |->
           register_type_renamings(Get(actual.ty.exports, expected.ty.exports[i][1]),
                                   expected.ty.exports[i][2])])
    [] OTHER -> <<>>

-----------------------------------------------------------------------------
(* Instantiation and the subtype check of components                        *)

RECURSIVE component_entity_type(_, _)

\* The resources of b that the arguments provide, by the paths of b: leaves[i]
\* is the entity that the arguments have where b introduces resources[i].
ResourcesAt(resources, leaves) ==
  [r \in {resources[i][1] : i \in {j \in DOMAIN leaves :
             leaves[j].k = "type" /\ leaves[j].created.t = "resource"}} |->
     leaves[SelectInSeq(resources, LAMBDA p : p[1] = r)].created.id]

ProvidedResources(args, entities, resources) ==
  ResourcesAt(resources, [i \in DOMAIN resources |->
                            FollowNames(args, Follow(entities, resources[i][2]).names)])

\* The outcome of checking args[name] against each entity in turn: the first
\* missing name, then the types in order.
Outcomes(args, entities, m) ==
  IF \E i \in DOMAIN entities : entities[i][1] \notin Keys(args) THEN <<"err">>
  ELSE [i \in DOMAIN entities |->
          component_entity_type(Get(args, entities[i][1]),
                                remap_component_entity(entities[i][2], m))]

Injective(pairs) == Cardinality(ResourcesOf(pairs)) = Len(pairs)

\* The answer once the outcomes are known: the renamings of the entities that
\* were accepted are registered as the loop goes, and one registered twice
\* fires the assertion of register_type_renamings.
Opened(resources, outcomes, pairs) ==
  [outcome |-> IF ~Injective(pairs) THEN "renaming" ELSE FirstBad(outcomes),
   resources |-> resources, types |-> ToSet(pairs)]

Renamings(args, entities, good) ==
  IF \E i \in DOMAIN entities : entities[i][1] \notin Keys(args) THEN <<>>
  ELSE FlattenSeq([i \in 1..good |->
         register_type_renamings(Get(args, entities[i][1]), entities[i][2])])

OpenWith(args, entities, resources, outcomes) ==
  Opened(resources, outcomes,
         Renamings(args, entities, SelectInSeq(outcomes \o <<"end">>, LAMBDA o : o # "ok") - 1))

OpenChecked(args, entities, resources) ==
  OpenWith(args, entities, resources, Outcomes(args, entities, Remapping(resources, {}, 0)))

OpenEntities(args, entities, paths) ==
  IF \E i \in DOMAIN paths : ~LeadsTo(entities, paths[i][2], paths[i][1])
  THEN [outcome |-> "panic", resources |-> <<>>, types |-> {}]
  ELSE OpenChecked(args, entities, ProvidedResources(args, entities, paths))

\* open_instance_type: do args satisfy the imports (or exports) of b, and with
\* which resources and types in the place of b's?
open_instance_type(args, b, kind) ==
  IF kind = "import" THEN OpenEntities(args, b.imports, b.imported)
  ELSE OpenEntities(args, b.exports, b.defined)

\* The exports of a, once its imports have been opened with those of b.
ExportsFit(a, b, opened) ==
  IF opened.outcome # "ok" THEN opened.outcome
  ELSE open_instance_type(RemapMap(a.exports, Remapping(opened.resources, opened.types, 0)),
                          b, "export").outcome

component_type(a, b) == ExportsFit(a, b, open_instance_type(b.imports, a, "import"))

component_instance_type(a, b) ==
  IF \E k \in Keys(b.exports) : k \notin Keys(a.exports) THEN "err"
  ELSE FirstBad([i \in DOMAIN b.exports |->
         component_entity_type(Get(a.exports, b.exports[i][1]), b.exports[i][2])])

component_any_type_id(a, b) ==
  IF a.t # b.t THEN "err"
  ELSE CASE a.t = "resource" -> Holds(a.id = b.id)
         [] a.t = "defined" -> Holds(component_defined_type(a.def, b.def))
         [] a.t = "func" -> Holds(component_func_type(a, b))
         [] a.t = "instance" -> component_instance_type(a, b)
         [] a.t = "component" -> component_type(a, b)

component_entity_type(a, b) ==
  IF a.k # b.k THEN "err"
  ELSE CASE a.k = "module" -> Holds(module_type(a.ty, b.ty))
         [] a.k = "value" -> Holds(component_val_type(a.ty, b.ty))
         [] a.k = "type" -> component_any_type_id(a.referenced, b.referenced)
         [] OTHER -> component_any_type_id(a.ty, b.ty)

=============================================================================
