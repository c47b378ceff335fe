----------------------------- MODULE MCComponent -----------------------------
(***************************************************************************)
(* Small binaries for ComponentValidator: each menu is a family of         *)
(* binaries that exercises one part of the validator.                      *)
(***************************************************************************)
EXTENDS ComponentValidator

Sorts == {"type", "func", "resource", "import", "export", "instance", "bag", "alias",
          "outer", "start", "module", "coretype", "coreinstance", "corealias", "canon",
          "component", "comptype", "insttype"}

Left(f) == [sort \in Sorts |-> IF sort \in DOMAIN f THEN f[sort] ELSE 0]

NA == Label("a")
NB == Label("b")

Shape(d, labels, parts) == [d |-> d, labels |-> labels, parts |-> parts]
HandleShapes == {Shape("own", <<>>, 0), Shape("borrow", <<>>, 0)}

Plain == [left |-> Left(<<>>), refs |-> {}, prims |-> {}, shapes |-> {}, params |-> {},
          names |-> {NA, NB}, items |-> {}, width |-> 1, ascribe |-> FALSE, outer |-> {},
          canon |-> {}, options |-> {<<>>}, modules |-> {}, coretypes |-> {}, labels |-> {},
          sorts |-> {}]

\* Resources that pass through nested components and their instances.
NestedResources == [Plain EXCEPT
  !.left = Left([resource |-> 1, component |-> 1, import |-> 1, export |-> 2,
                 instance |-> 2, alias |-> 1]),
  !.refs = {"sub"}, !.items = {"type"}]

\* A nested component whose functions own a resource.
NestedHandles == [Plain EXCEPT
  !.left = Left([resource |-> 1, component |-> 1, type |-> 1, func |-> 1, import |-> 1,
                 export |-> 1, instance |-> 1]),
  !.refs = {"sub", "func"}, !.items = {"type", "func"}, !.shapes = {Shape("own", <<>>, 0)},
  !.names = {NA}]

\* Instance types, imported more than once.
ImportedInstances == [Plain EXCEPT
  !.left = Left([insttype |-> 1, import |-> 2, export |-> 2, alias |-> 1, type |-> 1]),
  !.refs = {"sub", "eq", "instance"}, !.items = {"type", "instance"},
  !.shapes = {Shape("own", <<>>, 0)}]

\* Component types and the instances of components imported under them.
ImportedComponents == [Plain EXCEPT
  !.left = Left([comptype |-> 1, resource |-> 1, import |-> 2, export |-> 1, instance |-> 2]),
  !.refs = {"sub", "eq", "component"}, !.items = {"type", "component"}]

\* Instances made of exports, and exports with a type ascribed.
Bags == [Plain EXCEPT
  !.left = Left([insttype |-> 1, resource |-> 1, export |-> 2, bag |-> 1, alias |-> 1]),
  !.refs = {"sub", "eq", "instance"}, !.items = {"type", "instance"}, !.width = 2,
  !.ascribe = TRUE]

\* Component types that mention the resources of the component around them.
OpenComponents == [Plain EXCEPT
  !.left = Left([component |-> 1, comptype |-> 1, import |-> 3, outer |-> 2]),
  !.refs = {"sub", "eq", "component"},
  !.outer = {"types", "components"}]

\* Values, and a start function that uses them.
StartValues == [Plain EXCEPT
  !.left = Left([func |-> 1, import |-> 2, export |-> 1, start |-> 2, bag |-> 1, alias |-> 1]),
  !.refs = {"func", "value"}, !.items = {"value"}, !.prims = {Prim("u8")}, !.params = {"p"}]

\* Value types of every kind, in functions that are imported and exported.
NamedTypes == [Plain EXCEPT
  !.left = Left([resource |-> 1, type |-> 2, func |-> 1, import |-> 2, export |-> 2]),
  !.refs = {"eq", "func"}, !.items = {"type", "func"},
  !.shapes = HandleShapes \cup {Shape("record", <<"x">>, 1)}, !.params = {"p"},
  !.names = {NA}]

\* Functions that belong to a resource.
ResourceFunctions == [Plain EXCEPT
  !.left = Left([import |-> 3, type |-> 1, func |-> 1]),
  !.refs = {"sub", "func"}, !.params = {"self"}, !.shapes = HandleShapes,
  !.names = {NA} \cup {Name(form, id, fn, 0) :
     form \in {"constructor", "method", "async-static"}, id \in {"a", "b"}, fn \in {"f"}}]

\* Core modules, their instances, and functions lifted from and lowered to them.
CoreFunc(params, results) == [c |-> "func", ty |-> Sig(params, results)]
Memory == [c |-> "memory", kind |-> "mem32", initial |-> 1, maximum |-> -1]
Lib == [imports |-> <<>>,
        exports |-> <<<<"m", Memory>>, <<"f", CoreFunc(<<"i32">>, <<"i32">>)>>,
                      <<"r", CoreFunc(I32s(4), I32s(1))>>>>]
Main == [imports |-> <<<<<<"m", "m">>, Memory>>>>, exports |-> <<>>]
CoreInstances == [Plain EXCEPT
  !.left = Left([module |-> 2, coreinstance |-> 3, corealias |-> 1, outer |-> 1, coretype |-> 1, import |-> 1]),
  !.modules = {Lib, Main}, !.coretypes = {Main, Sig(I32s(1), <<>>)}, !.labels = {"m", "f"},
  !.sorts = {"memory", "func"}, !.outer = {"core_modules", "core_types"}, !.refs = {"module"},
  !.names = {NA}]

\* Component types that mention a local resource, exported.
ExportedOpen == [Plain EXCEPT
  !.left = Left([resource |-> 1, comptype |-> 1, import |-> 1, export |-> 1, outer |-> 1]),
  !.refs = {"eq"}, !.items = {"type"},
  !.outer = {"types"}]

\* Function types around the limits of flattening.
Lowerings == [Plain EXCEPT
  !.left = Left([type |-> 2, func |-> 1]),
  !.prims = {Prim("u8"), Prim("s64"), Prim("f32")}, !.params = {"p"},
  !.shapes = {Shape("variant", <<"x", "y">>, 2), Shape("record", <<"x", "y">>, 2)}]

\* Canonical functions and their options.
Opt(o, i) == [o |-> o, idx |-> i]
OptionLists ==
  {<<>>, <<Opt("memory", 1)>>, <<Opt("memory", 1), Opt("realloc", 2)>>,
   <<Opt("utf8", 0), Opt("utf16", 0)>>, <<Opt("async", 0), Opt("memory", 1)>>,
   <<Opt("async", 0), Opt("callback", 1)>>, <<Opt("post-return", 1)>>}
LiftAndLower == [Plain EXCEPT
  !.left = Left([module |-> 1, coreinstance |-> 1, corealias |-> 3, func |-> 1, canon |-> 2]),
  !.modules = {Lib}, !.labels = {"m", "f", "r"}, !.sorts = {"memory", "func"},
  !.prims = {Prim("u8"), Prim("string")}, !.params = {"p"}, !.options = OptionLists, !.canon = {"lift", "lower"}]

Builtins == [Plain EXCEPT
  !.left = Left([module |-> 1, coreinstance |-> 1, corealias |-> 1, type |-> 1,
                 resource |-> 1, canon |-> 1, coretype |-> 1]),
  !.modules = {Lib}, !.labels = {"m"}, !.sorts = {"memory"},
  !.coretypes = {[params |-> I32s(1), results |-> <<>>, shared |-> TRUE]},
  !.prims = {Prim("string")}, !.shapes = {Shape("stream", <<>>, 1), Shape("future", <<>>, 1)},
  !.options = OptionLists,
  !.canon = {"resource", "task", "waitable", "channel", "error", "return", "thread"}]

MCMenus == {NestedResources, NestedHandles, ImportedInstances, ImportedComponents, Bags,
            OpenComponents, ExportedOpen, StartValues, NamedTypes, ResourceFunctions,
            CoreInstances, Lowerings, LiftAndLower, Builtins}

\* A type that a nested component imports under two names.
TypesTwice == [Plain EXCEPT
  !.left = Left([component |-> 1, func |-> 2, type |-> 1, import |-> 2, instance |-> 1]),
  !.refs = {"eq"}, !.items = {"type"}, !.shapes = {Shape("flags", <<"x">>, 0)}]

TwiceMenus == {TypesTwice}
=============================================================================
