--------------------------- MODULE MCTypeChecker ---------------------------
(***************************************************************************)
(* Programs for the type checker: a struct with a field and methods, a     *)
(* generic function, definitions that clash, imports in every order.       *)
(***************************************************************************)
EXTENDS TypeChecker

Def(kind, name, params, ret) ==
    [kind |-> kind, name |-> name, params |-> params, ret |-> ret, tps |-> <<>>, methods |-> <<>>,
     has_self |-> FALSE]

Param(name, ty) == [name |-> name, ty |-> ty]

GetSelf == [Def("fn", "m", <<>>, I32) EXCEPT !.has_self = TRUE]
StructS == [Def("struct", "S", <<Param("m", I32)>>, Unit) EXCEPT !.methods = <<GetSelf>>]
FnF == Def("fn", "f", <<Param("a", I32)>>, Bool)
GenericF == [Def("fn", "f", <<Param("a", Generic("T")), Param("_", Generic("T"))>>, Generic("T"))
                EXCEPT !.tps = <<"T">>]

MCNames == {"a", "x", "self", "S", "f", "U", "V"}

MCPrograms == {
    <<StructS, FnF>>,
    <<GenericF>>,
    <<Def("use", "f", <<>>, Unit), Def("const", "x", <<>>, Bool), Def("spec", "V", <<>>, Unit),
      Def("enum", "S", <<Param("m", Unit)>>, Unit),
      [Def("fn", "f", <<Param("a", Custom("S")), Param("a", Custom("U"))>>, Array(I32, 1))
          EXCEPT !.has_self = TRUE]>>,
    <<Def("use", "S", <<>>, Unit), Def("extern", "S", <<>>, Unit), Def("type", "S", <<>>, I32)>>,
    <<Def("const", "x", <<>>, I32), Def("const", "x", <<>>, Bool)>> }

MCTypes == {Unit, I32, Bool, Generic("T"), Custom("S"), Custom("U"), Array(I32, 1)}

MCAnnotations == {I32, Custom("S")}

\* What the errors have to say to the invariants: whether there are any, and
\* whether a registration failed, which no expression reports.
MCView == <<table, phase, program, pos, method, return_type, frames, nodes, statements, gap, hole, env,
            errors = {}, "RegistrationFailed" \in errors,
            [i \in DOMAIN stack |-> [stack[i] EXCEPT !.err = (@ = {}), !.bad = FALSE]]>>

MCTypeArguments == {<<>>, <<Custom("S")>>, <<I32, I32>>}
=============================================================================
