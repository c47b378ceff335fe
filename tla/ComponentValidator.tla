------------------------- MODULE ComponentValidator -------------------------
(***************************************************************************)
(* Validation of a component binary: the stack of components and of        *)
(* component and instance types under construction (Validator::components),*)
(* and one action per item of the binary, each of which works on the top   *)
(* of the stack.  An item that is rejected ends the validation.            *)
(*                                                                         *)
(* A menu bounds the binaries: menu.left says how many items of each sort  *)
(* the binary may still have, the other fields which operands they use.    *)
(***************************************************************************)
EXTENDS ComponentState

CONSTANT Menus

VARIABLES components,  \* Validator::components: the stack of ComponentStates
          alloc,       \* the counters of the TypeAlloc
          status,      \* "open", "done", "err", or the panic that fired
          root,        \* the type of the whole component, once it is done
          menu

vars == <<components, alloc, status, root, menu>>

Top == components[Len(components)]
NoType == ComponentType(<<>>, <<>>, <<>>, <<>>, <<>>, <<>>)

Init ==
  /\ components = <<New("Component")>>
  /\ alloc = NewAlloc
  /\ status = "open"
  /\ root = NoType
  /\ menu \in Menus

-----------------------------------------------------------------------------
(* Operands                                                                  *)

Refs(s) ==
  [r : menu.refs \cap {"eq", "func", "instance", "component"}, idx : DOMAIN s.types]
    \cup {ref \in {[r |-> "sub"]} : "sub" \in menu.refs}
    \cup [r : menu.refs \cap {"module"}, idx : DOMAIN s.core_types]
    \cup [r : menu.refs \cap {"value"}, val : menu.prims]

ValRefs(s) == menu.prims \cup {[v |-> "at", idx |-> i] : i \in
                                  {j \in DOMAIN s.types : s.types[j].t = "defined"}}

Decl(d, names, of, res) == [d |-> d, names |-> names, of |-> of, res |-> res]

\* A case of a variant or a result may have no payload.
Payloads(s, d) == IF d \in {"variant", "result"} THEN ValRefs(s) \cup {None} ELSE ValRefs(s)

\* One declaration of each shape; a shape is [d, labels, parts].
Decls(s) ==
  UNION {{Decl(shape.d, shape.labels, of, res) :
            of \in [1..shape.parts -> Payloads(s, shape.d)],
            res \in IF shape.d \in Handles THEN DOMAIN s.types ELSE {0}} :
         shape \in menu.shapes}

FuncDecls(s) ==
  {[params |-> p, result |-> r] :
     p \in {<<>>} \cup {<<<<label, v>>>> : label \in menu.params, v \in ValRefs(s)},
     r \in {None} \cup ValRefs(s)}

Items(s) ==
  [k : menu.items \ {"value"}, idx : 1..3] \cup [k : menu.items \cap {"value"}, idx : DOMAIN s.values]

PresentItems(s) == {item \in Items(s) : item.k = "value" \/ item.idx \in DOMAIN Space(s, item.k)}

NamedItem(name, item) == [name |-> name, k |-> item.k, idx |-> item.idx]

\* The arguments of an instantiation: one item for each import, or one too few.
ArgLists(s, T) ==
  LET full == {[i \in DOMAIN T.imports |-> NamedItem(T.imports[i][1], args[i])] :
                 args \in [DOMAIN T.imports -> PresentItems(s)]}
  IN  full \cup {SubSeq(args, 2, Len(args)) : args \in full}

ExportLists(s) ==
  UNION {{[i \in 1..n |-> NamedItem(names[i], items[i])] :
            names \in [1..n -> menu.names], items \in [1..n -> PresentItems(s)]} :
         n \in 1..menu.width}

Canon(op, f, kind, ty, idx, async, options, result) ==
  [op |-> op, f |-> f, kind |-> kind, ty |-> ty, idx |-> idx, async |-> async,
   options |-> options, result |-> result]

\* The canonical functions of one family.
CanonFamily(s, op) ==
  CASE op = "lift" -> {Canon(op, op, "", t, i, FALSE, o, None) :
                         t \in DOMAIN s.types, i \in DOMAIN s.core_funcs, o \in menu.options}
    [] op = "lower" -> {Canon(op, op, "", 0, i, FALSE, o, None) :
                          i \in DOMAIN s.funcs, o \in menu.options}
    [] op = "resource" -> {Canon(op, f, "", t, 0, FALSE, <<>>, None) :
                             f \in ResourceOps, t \in DOMAIN s.types}
    [] op = "task" -> {Canon(op, f, "", 0, i, y, <<>>, None) :
                         f \in TaskOps, i \in 1..3, y \in BOOLEAN}
    [] op = "waitable" -> {Canon(op, f, "", 0, i, y, <<>>, None) :
                             f \in WaitableOps, i \in 1..2, y \in BOOLEAN}
    [] op = "channel" -> {Canon(op, f, kind, t, 0, y, o, None) :
                            f \in ChannelOps, kind \in {"stream", "future"},
                            t \in DOMAIN s.types, y \in BOOLEAN, o \in menu.options}
    [] op = "error" -> {Canon(op, f, "", 0, 0, FALSE, o, None) :
                          f \in ErrorContextOps, o \in menu.options}
    [] op = "return" -> {Canon(op, op, "", 0, 0, FALSE, o, Val(s, r)) :
                           o \in menu.options, r \in {None} \cup ValRefs(s)}
    [] op = "thread" -> {Canon(op, f, "", t, i, FALSE, <<>>, None) :
                           f \in ThreadOps, t \in 1..2, i \in 1..2}

-----------------------------------------------------------------------------
(* Items                                                                     *)

May(sort) == status = "open" /\ menu.left[sort] > 0
Spend(sort) == menu' = [menu EXCEPT !.left[sort] = @ - 1]

\* The result of an operation on the top of the stack.
Commit(r, sort) ==
  IF r.outcome = "ok"
  THEN /\ components' = [components EXCEPT ![Len(components)] = r.s]
       /\ alloc' = r.a
       /\ Spend(sort)
       /\ UNCHANGED <<status, root>>
  ELSE status' = r.outcome /\ UNCHANGED <<components, alloc, root, menu>>

AddDefinedType == May("type") /\ \E decl \in Decls(Top) :
  Commit(add_defined_type(Top, alloc, decl), "type")

AddFuncType == May("func") /\ \E decl \in FuncDecls(Top) :
  Commit(add_func_type(Top, alloc, decl), "func")

AddResourceType == May("resource") /\ \E dtor \in 0..Len(Top.core_funcs) :
  Commit(add_resource_type(Top, alloc, dtor), "resource")

AddImport ==
  /\ May("import")
  /\ Top.kind # "InstanceType"
  /\ \E name \in menu.names, ref \in Refs(Top) :
       Commit(add_declared(Top, alloc, name, ref, "import"), "import")

\* An export of a component type or an instance type names a type.
AddExportDecl ==
  /\ May("export")
  /\ Top.kind # "Component"
  /\ \E name \in menu.names, ref \in Refs(Top) :
       Commit(add_declared(Top, alloc, name, ref, "export"), "export")

\* An export of a component names an item, with or without a type.
AddExport ==
  /\ May("export")
  /\ Top.kind = "Component"
  /\ \E name \in menu.names, item \in PresentItems(Top),
        ref \in {NoRef} \cup {x \in Refs(Top) : menu.ascribe} :
       Commit(add_export(Top, alloc, name, item, ref), "export")

AddInstance ==
  /\ May("instance")
  /\ Top.kind = "Component"
  /\ \E i \in DOMAIN Top.components : \E args \in ArgLists(Top, Top.components[i]) :
       Commit(instantiate_component(Top, alloc, i, args), "instance")

AddInstanceOfExports ==
  /\ May("bag")
  /\ Top.kind = "Component"
  /\ \E exports \in ExportLists(Top) :
       Commit(instantiate_component_exports(Top, alloc, exports), "bag")

AddAlias ==
  /\ May("alias")
  /\ \E i \in DOMAIN Top.instances, name \in menu.names, k \in menu.items :
       Commit(alias_instance_export(Top, alloc, i, name, k), "alias")

\* Mutant: the check looks at the target of the alias, not one level deeper.
Mutalias_type(count, idx) ==
  LET from == components[Len(components) - count]
  IN  IF \/ idx \notin DOMAIN from.types
         \/ /\ from.kind # "Component"
            /\ free_variables_any_type_id(from.types[idx]) # {}
      THEN Fail("err", Top, alloc)
      ELSE Done(PushType(Top, from.types[idx]), alloc)

\* alias_type: a type of an enclosing component may not mention resources once
\* the alias leaves a component.
alias_type(count, idx) ==
  LET from == components[Len(components) - count]
      after == Len(components) - count + 1
  IN  IF \/ idx \notin DOMAIN from.types
         \/ /\ after \in DOMAIN components
            /\ components[after].kind = "Component"
            /\ free_variables_any_type_id(from.types[idx]) # {}
      THEN Fail("err", Top, alloc)
      ELSE Done(PushType(Top, from.types[idx]), alloc)

\* alias_component, alias_module and alias_core_type.
alias_other(count, field, idx) ==
  LET from == components[Len(components) - count][field]
  IN  IF idx \notin DOMAIN from THEN Fail("err", Top, alloc)
      ELSE Done([Top EXCEPT ![field] = Append(@, from[idx])], alloc)

AddOuterAlias ==
  /\ May("outer")
  /\ \E count \in 0..Len(components), idx \in 1..2, field \in menu.outer :
       Commit(CASE count = Len(components) -> Fail("err", Top, alloc)
                [] field = "types" -> alias_type(count, idx)
                [] OTHER -> alias_other(count, field, idx), "outer")

AddStart ==
  /\ May("start")
  /\ Top.kind = "Component"
  /\ \E i \in DOMAIN Top.funcs, n \in 0..1, results \in 0..1 :
       \E args \in [1..n -> DOMAIN Top.values] :
         Commit(add_start(Top, alloc, i, args, results), "start")

\* A core module in the component; what it is was settled when it was validated.
AddCoreModule ==
  /\ May("module")
  /\ Top.kind = "Component"
  /\ \E M \in menu.modules :
       Commit(Done([Top EXCEPT !.core_modules = Append(@, M)], alloc), "module")

AddCoreType == May("coretype") /\ \E T \in menu.coretypes :
  Commit(Done([Top EXCEPT !.core_types = Append(@, T)], alloc), "coretype")

CoreArgLists(s) ==
  {<<>>} \cup {<<<<module, i>>>> : module \in menu.labels, i \in DOMAIN s.core_instances}

AddCoreInstance ==
  /\ May("coreinstance")
  /\ Top.kind = "Component"
  /\ \/ \E i \in DOMAIN Top.core_modules, args \in CoreArgLists(Top) :
          Commit(instantiate_core_module(Top, alloc, i, args), "coreinstance")
     \/ \E name \in menu.labels, c \in menu.sorts : \E i \in 1..2 :
          Commit(instantiate_core_exports(Top, alloc, <<<<name, c, i>>>>), "coreinstance")

AddCoreAlias ==
  /\ May("corealias")
  /\ Top.kind = "Component"
  /\ \E i \in DOMAIN Top.core_instances, name \in menu.labels, c \in menu.sorts :
       Commit(alias_core_instance_export(Top, alloc, i, name, c), "corealias")

AddCanonicalFunction ==
  /\ May("canon")
  /\ Top.kind = "Component"
  /\ \E op \in menu.canon : \E f \in CanonFamily(Top, op) :
       \E r \in {canonical_function(Top, f)} :
         Commit([outcome |-> r.outcome, s |-> r.state, a |-> alloc], "canon")

-----------------------------------------------------------------------------
(* Nesting                                                                   *)

Open(kind, sort) ==
  /\ May(sort)
  /\ components' = Append(components, New(kind))
  /\ Spend(sort)
  /\ UNCHANGED <<alloc, status, root>>

BeginComponent == Top.kind = "Component" /\ Open("Component", "component")
BeginComponentType == Open("ComponentType", "comptype")
BeginInstanceType == Open("InstanceType", "insttype")

\* The finished type goes to the component below.
Close(field, T) ==
  /\ components' = [Front(components) EXCEPT ![Len(components) - 1][field] = Append(@, T)]
  /\ alloc' = Tick(alloc)
  /\ UNCHANGED <<status, root, menu>>

Reject(outcome) == status' = outcome /\ UNCHANGED <<components, alloc, root, menu>>

EndInstanceType ==
  /\ status = "open"
  /\ Top.kind = "InstanceType"
  /\ IF InstanceTypePanics(Top) THEN Reject("panic")
     ELSE Close("types", create_instance_type(Top, alloc.id))

EndComponentType ==
  /\ status = "open"
  /\ Top.kind = "ComponentType"
  /\ IF ~FinishFits(Top) THEN Reject("err") ELSE Close("types", finish(Top, alloc.id))

\* Validator::end for a component.
EndComponent ==
  /\ status = "open"
  /\ Top.kind = "Component"
  /\ IF ~ValuesUsed(Top) \/ ~FinishFits(Top) THEN Reject("err")
     ELSE IF Len(components) > 1 THEN Close("components", finish(Top, alloc.id))
     ELSE /\ status' = "done"
          /\ root' = finish(Top, alloc.id)
          /\ UNCHANGED <<components, alloc, menu>>

Finished == status # "open" /\ UNCHANGED vars

Next ==
  \/ AddDefinedType \/ AddFuncType \/ AddResourceType
  \/ AddImport \/ AddExportDecl \/ AddExport
  \/ AddInstance \/ AddInstanceOfExports \/ AddAlias \/ AddOuterAlias \/ AddStart
  \/ AddCoreModule \/ AddCoreType \/ AddCoreInstance \/ AddCoreAlias
  \/ AddCanonicalFunction
  \/ BeginComponent \/ BeginComponentType \/ BeginInstanceType
  \/ EndInstanceType \/ EndComponentType \/ EndComponent
  \/ Finished

Spec == Init /\ [][Next]_vars

-----------------------------------------------------------------------------
(* Properties                                                                *)

\* The resources that the index spaces of a component mention.
Mentioned(s) ==
  UNION {free_variables_any_type_id(T) :
           T \in ToSet(s.types) \cup ToSet(s.funcs) \cup ToSet(s.instances)
                  \cup ToSet(s.components)}
    \cup UNION {free_variables_valtype(s.values[i][1]) : i \in DOMAIN s.values}

\* The component that a type under construction belongs to.
Enclosing(i) == CHOOSE j \in 1..i : /\ components[j].kind = "Component"
                                   /\ \A k \in (j+1)..i : components[k].kind # "Component"

\* The resources a component may mention: those that it imports or defines; in
\* an instance or a component type also those of the component around it.
Own(i) == UNION {Keys(components[j].imported) \cup Keys(components[j].defined) :
                   j \in Enclosing(i)..i}

\* The resources that the component's nested, imported or aliased components
\* leave unbound: alias_component lets them in from another component.
Unbound(s) == UNION {free_variables_any_type_id(T) : T \in ToSet(s.components)}

\* Everything a component can name mentions only its own resources:
\* instantiating, aliasing, freshening and renaming leave no resource of
\* another component behind, but for those that a component it can name
\* mentions already.
NoForeignResources ==
  \A i \in DOMAIN components :
    Mentioned(components[i]) \subseteq Own(i) \cup Unbound(components[i])

PathsOf(entities, paths) == \A i \in DOMAIN paths : LeadsTo(entities, paths[i][2], paths[i][1])

\* Every path that is recorded for a resource leads, through the imports or
\* exports and the exports of the instances in them, to the type that
\* introduces this resource, in components under construction and in
\* finished types: open_instance_type walks these paths by index unchecked.
PathsLeadToResources ==
  /\ \A i \in DOMAIN components :
       /\ PathsOf(components[i].imports, components[i].imported)
       /\ PathsOf(components[i].exports, components[i].explicit)
       /\ \A T \in ToSet(components[i].instances) \cup ToSet(components[i].types) :
            T.t = "instance" => /\ PathsOf(T.exports, T.explicit)
                                /\ ToSet(T.defined) \subseteq Keys(T.explicit)
       /\ \A T \in ToSet(components[i].components) \cup ToSet(components[i].types) :
            T.t = "component" => /\ PathsOf(T.imports, T.imported)
                                 /\ PathsOf(T.exports, T.defined)
                                 /\ PathsOf(T.exports, T.explicit)
  /\ PathsOf(root.imports, root.imported) /\ PathsOf(root.exports, root.defined)

\* No assertion, unwrap or unreachable! of the validator fires on any binary,
\* but for the one RenamedOnce is about.
NeverPanics == status # "panic"

\* register_type_renamings asserts that a type is renamed once.
RenamedOnce == status # "renaming"

\* Some entity of a map is, or holds, a component type.
RECURSIVE HoldsComponent(_)
HoldsComponent(map) ==
  \E i \in DOMAIN map :
    LET T == IF map[i][2].k = "type" THEN map[i][2].created ELSE map[i][2].ty
    IN  \/ map[i][2].k = "component"
        \/ map[i][2].k \in {"type", "instance"} /\ T.t = "component"
        \/ map[i][2].k \in {"type", "instance"} /\ T.t = "instance" /\ HoldsComponent(T.exports)

\* finish looks once more whether every local resource that exports mention is
\* exported itself.  Where no component type is exported, the rule that exported
\* types have names has already seen to it, unless the component is rejected
\* for a local resource in its imports.
NamedIsExplicit ==
  \A i \in DOMAIN components :
    components[i].kind # "InstanceType" =>
      \/ LocalInImports(components[i])
      \/ HoldsComponent(components[i].exports)
      \/ ~NotExplicit(components[i])

\* The flat types of a value type, however many they are.
RECURSIVE Flat(_)
FlatAll(vs) == FlattenSeq([i \in DOMAIN vs |-> Flat(vs[i])])

\* Position by position, the join of the cases that reach that far.
FlatCases(vs) ==
  LET flats == {Flat(vs[i]) : i \in DOMAIN vs}
      width == CHOOSE n \in {Len(f) : f \in flats} : \A f \in flats : Len(f) <= n
      At(i) == {f[i] : f \in {g \in flats : i <= Len(g)}}
  IN  [i \in 1..width |-> CASE At(i) \subseteq {"i32", "f32"} /\ Cardinality(At(i)) = 2 -> "i32"
                            [] Cardinality(At(i)) = 1 -> CHOOSE t \in At(i) : TRUE
                            [] OTHER -> "i64"]

Flat(v) ==
  CASE v.v = "none" -> <<>>
    [] v.v = "prim" -> PrimitiveTypes(v.p)
    [] v.id.def.d \in {"primitive", "record", "tuple"} -> FlatAll(v.id.def.of)
    [] v.id.def.d \in {"variant", "option", "result"} -> <<"i32">> \o FlatCases(v.id.def.of)
    [] v.id.def.d = "list" -> I32s(2)
    [] OTHER -> I32s(1)

\* The core signature that the canonical ABI gives a function when it is lowered
\* or lifted synchronously, from flattening it first and counting afterwards.
FlatSignature(T, lowering) ==
  LET params == FlatAll(Values(T.params))
      result == Flat(T.result)
      spills == Len(result) > MaxFlatResults
  IN  Sig((IF Len(params) > MaxFlatParams THEN I32s(1) ELSE params)
            \o (IF spills /\ lowering THEN I32s(1) ELSE <<>>),
          IF ~spills THEN result ELSE IF lowering THEN <<>> ELSE I32s(1))

\* The signatures that `lower` computes by pushing into bounded vectors and
\* joining the cases of variants as it goes are those of the canonical ABI, at,
\* below and above the limits.
LoweringIsFlattening ==
  \A T \in {U \in ToSet(Top.types) : U.t = "func"} :
    /\ lower(T, "LowerSync").sig = FlatSignature(T, TRUE)
    /\ lower(T, "LiftSync").sig = FlatSignature(T, FALSE)

=============================================================================
