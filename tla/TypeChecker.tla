---------------------------- MODULE TypeChecker ----------------------------
(***************************************************************************)
(* TypeChecker::infer_types (core/type-checker/src/type_checker.rs): five  *)
(* phases over the definitions of a program, the last of which walks the   *)
(* function bodies.  Registration errors do not stop the later phases.     *)
(*                                                                         *)
(* The definitions are chosen in Init; the bodies are written while they   *)
(* are walked.  infer_expression visits operands before it decides about a *)
(* node, so a walk is a stack of results: an action takes the results of   *)
(* the operands off the stack and puts the result of the node on it.  A    *)
(* result says what the visit returned and did:                            *)
(*   node   "identifier", "literal", "uzumaki" (@) or "value"              *)
(*   ty     the type returned, or None                                     *)
(*   err    the errors pushed                                              *)
(*   gap    a value expression in it was left without TypeInfo             *)
(*   val    it contains a value expression (is_value_expression)           *)
(*   hole   it contains an @ nobody gives a type, an empty array literal,  *)
(*          or field values of a struct expression                         *)
(*   bad    it contains a call whose arguments do not fit the parameters   *)
(* The errors are a set: how often one is pushed, and push_error_dedup,    *)
(* make no difference to the verdict.                                      *)
(***************************************************************************)
EXTENDS SymbolTable, SequencesExt

CONSTANTS Programs,       \* sequences of definitions
          VarNames, TypeNames, FunctionNames, MemberNames,  \* names used in the bodies
          Types,          \* types the parser builds
          Annotations,    \* types written in the bodies
          TypeArguments,  \* lists of type arguments of calls, <<>> for none
          MaxStatements,  \* bound: statements written, in all bodies
          MaxNodes        \* bound: nodes of their expressions

ASSUME CheckerAssumption ==
    /\ VarNames \cup TypeNames \cup FunctionNames \subseteq Names
    /\ MaxStatements \in Nat
    /\ MaxNodes \in Nat

\* What the syntax tree holds: a name for each definition, and a list of
\* type parameters and of methods, empty for the kinds that have none.
IsList(s) == s \in Seq(Range(s))

ASSUME ProgramsAssumption ==
    \A p \in Programs :
        /\ IsList(p) /\ p # <<>>
        /\ \A i \in DOMAIN p : /\ p[i] # None /\ p[i].name \in Names
                               /\ IsList(p[i].methods) /\ IsList(p[i].tps)

VARIABLES phase,
          program,
          pos,         \* position of the loop over the definitions
          imports,     \* names imported by the use directives
          resolved_imports,
          errors,
          method,      \* position in the methods of a struct, 0 for none
          return_type,
          frames,      \* the open blocks: the recursion of infer_statement
          stack,       \* results of the operands visited so far
          nodes, statements,     \* counters for the bounds
          gap, hole, bad,        \* of the statements walked so far
          env          \* history: what each open block has declared, from the root

walk == <<stack, nodes, statements, gap, hole, bad>>
vars == <<table, phase, program, pos, imports, resolved_imports, errors, method,
          return_type, frames, walk, env>>

Unit == <<"Unit">>
Bool == <<"Bool">>
I32 == <<"Number", "i32">>
U32 == <<"Number", "u32">>
Custom(name) == <<"Custom", name>>
Generic(name) == <<"Generic", name>>
Array(elem, len) == <<"Array", elem, len>>

kind_of(ty) == ty[1]
is_number(ty) == kind_of(ty) = "Number"
is_signed_integer(ty) == ty = I32

\* Types are never nothing and arrays have an element type.
Signed(d) ==
    IsList(d.params) /\ d.ret \in Types /\ \A i \in DOMAIN d.params : d.params[i].ty \in Types

ASSUME TypesAssumption ==
    /\ None \notin Types
    /\ \A ty \in Types : /\ kind_of(ty) = "Array" => ty[2] \in Types
                         /\ kind_of(ty) \in {"Custom", "Struct"} => ty[2] \in Names
    /\ Annotations \subseteq Types
    /\ \A targs \in TypeArguments : IsList(targs) /\ \A k \in DOMAIN targs : targs[k] \in Types
    /\ \A p \in Programs : \A i \in DOMAIN p :
          Signed(p[i]) /\ \A k \in DOMAIN p[i].methods : Signed(p[i].methods[k])

Errors == {"RegistrationFailed", "ImportResolutionFailed", "UnknownType", "UnknownIdentifier",
           "UndefinedFunction", "UndefinedStruct", "UndefinedEnum", "VariantNotFound",
           "FieldNotFound", "ExpectedStructType", "ExpectedArrayType", "ArrayIndexNotNumeric",
           "ArrayElementTypeMismatch", "InvalidUnaryOperand", "InvalidBinaryOperand",
           "BinaryOperandTypeMismatch", "ArgumentCountMismatch", "MethodNotFound",
           "MethodCallOnNonStruct", "InstanceMethodCalledAsAssociated",
           "AssociatedFunctionCalledAsMethod", "TypeParameterCountMismatch",
           "MissingTypeParameters", "CannotInferTypeParameter", "ConflictingTypeInference",
           "PrivateAccessViolation", "SelfReferenceInFunction", "SelfReferenceOutsideMethod", "TypeMismatch", "CannotInferUzumakiType"}

If(condition, error) == IF condition THEN {error} ELSE {}

-----------------------------------------------------------------------------
(* Results.                                                                *)

Leaf(node, ty, err, isHole) ==
    [node |-> node, ty |-> ty, err |-> err, gap |-> node = "uzumaki", val |-> node = "uzumaki",
     hole |-> isHole, bad |-> FALSE]

\* A node with the results of its operands.
Node(node, ty, err, operands) ==
    [node |-> node, ty |-> ty,
     err |-> err \cup UNION {operands[i].err : i \in DOMAIN operands},
     gap |-> (node = "value" /\ ty = None) \/ \E i \in DOMAIN operands : operands[i].gap,
     val |-> node = "value" \/ \E i \in DOMAIN operands : operands[i].val,
     hole |-> \E i \in DOMAIN operands : operands[i].hole,
     bad |-> \E i \in DOMAIN operands : operands[i].bad]

\* An operand that is never visited: it reports nothing and gets no types.
Skipped(e) == [e EXCEPT !.err = {}, !.gap = e.val]

SkipAll(es) == [i \in DOMAIN es |-> Skipped(es[i])]

\* An @ in a position that gives it a type.
Given(e) == [e EXCEPT !.gap = FALSE, !.hole = FALSE]

-----------------------------------------------------------------------------
(* infer_expression, one operator for each arm of the match.               *)

\* Mutant: an unknown identifier is not reported.
MutIdentifier(name) == Leaf("identifier", lookup_variable(name), {}, FALSE)

Identifier(name) ==
    LET ty == lookup_variable(name)
    IN  Leaf("identifier", ty, If(ty = None, "UnknownIdentifier"), FALSE)

Literal(ty) == Leaf("literal", ty, {}, FALSE)

\* The type of an @ is looked up, and only some statements have set it.
Uzumaki == Leaf("uzumaki", None, {}, TRUE)

Parenthesized(e) == Node("value", e.ty, {}, <<e>>)

PrefixUnary(op, e) ==
    LET ok == CASE op = "Not" -> e.ty = Bool
                [] op = "Neg" -> is_signed_integer(e.ty)
                [] op = "BitNot" -> is_number(e.ty)
    IN  IF e.ty = None THEN Node("value", None, {}, <<e>>)
        ELSE IF ok THEN Node("value", e.ty, {}, <<e>>)
        ELSE Node("value", None, {"InvalidUnaryOperand"}, <<e>>)

Logical == {"And"}
Comparison == {"Lt"}
Arithmetic == {"Add"}

Binary(op, l, r) ==
    IF l.ty = None \/ r.ty = None THEN Node("value", None, {}, <<l, r>>)
    ELSE LET mismatch == If(l.ty # r.ty, "BinaryOperandTypeMismatch")
         IN  IF op \in Logical
             THEN IF l.ty = Bool /\ r.ty = Bool THEN Node("value", Bool, mismatch, <<l, r>>)
                  ELSE Node("value", None, mismatch \cup {"InvalidBinaryOperand"}, <<l, r>>)
             ELSE IF op \in Comparison THEN Node("value", Bool, mismatch, <<l, r>>)
             ELSE Node("value", l.ty,
                       mismatch \cup If(~is_number(l.ty) \/ ~is_number(r.ty), "InvalidBinaryOperand"),
                       <<l, r>>)

\* The first element decides; without its type the rest is not visited.
ArrayLiteral(es) ==
    IF es = <<>> THEN Leaf("literal", None, {}, TRUE)
    ELSE IF es[1].ty = None
         THEN Node("literal", None, {}, [i \in DOMAIN es |-> IF i = 1 THEN es[i] ELSE Skipped(es[i])])
         ELSE Node("literal", Array(es[1].ty, Len(es)),
                   If(\E i \in DOMAIN es : es[i].ty \notin {None, es[1].ty}, "ArrayElementTypeMismatch"),
                   es)

ArrayIndexAccess(a, i) ==
    IF a.ty = None THEN Node("value", None, {}, <<a, Skipped(i)>>)
    ELSE LET notNumeric == If(i.ty # None /\ ~is_number(i.ty), "ArrayIndexNotNumeric")
         IN  IF kind_of(a.ty) = "Array" THEN Node("value", a.ty[2], notNumeric, <<a, i>>)
             ELSE Node("value", None, notNumeric \cup {"ExpectedArrayType"}, <<a, i>>)

\* check_and_report_visibility of an item of the root scope.  Every item counts
\* as private: a public one is never refused.
private_access == If(~is_scope_descendant_of(current_scope, root_scope), "PrivateAccessViolation")

\* The struct an object is of: its own kind, or a custom type of that name;
\* "" for none.
struct_name(ty) ==
    IF ty # None /\ (kind_of(ty) = "Struct" \/ (kind_of(ty) = "Custom" /\ lookup_struct(ty[2]) # None))
    THEN ty[2] ELSE ""

\* The fields of a struct by name: the last one of a name counts.
field_type(fields, name) ==
    LET found == {i \in DOMAIN fields : fields[i].name = name}
    IN  IF found = {} THEN None ELSE fields[CHOOSE i \in found : \A j \in found : i >= j].ty

MemberAccess(e, field) ==
    IF e.ty = None THEN Node("value", None, {}, <<e>>)
    ELSE LET struct == struct_name(e.ty)
             ty == IF struct = "" \/ lookup_struct(struct) = None THEN None
                   ELSE field_type(lookup_struct(struct).params, field)
         IN  IF struct = "" THEN Node("value", None, {"ExpectedStructType"}, <<e>>)
             ELSE IF ty = None THEN Node("value", None, {"FieldNotFound"}, <<e>>)
             ELSE Node("value", ty, private_access, <<e>>)

\* E::variant
TypeMemberAccess(name, variant) ==
    LET enum == lookup_enum(name)
    IN  IF enum = None THEN Node("value", None, {"UndefinedEnum"}, <<>>)
        ELSE IF ~\E i \in DOMAIN enum.params : enum.params[i].name = variant
             THEN Node("value", None, {"VariantNotFound"}, <<>>)
        ELSE Node("value", <<"Enum", name>>, private_access, <<>>)

\* The field values are not visited.
StructExpression(name, values) ==
    LET ty == lookup_type(name)
    IN  [Node("value", ty, If(ty = None, "UndefinedStruct"), SkipAll(values))
            EXCEPT !.hole = \E i \in DOMAIN values : values[i].val]

is_builtin(ty) == ty # None /\ kind_of(ty) \in {"Number", "Bool"}

\* History: the arguments do not fit the parameters, in number or in type.
Fitted(call, args, params) ==
    [call EXCEPT !.bad =
        \/ @
        \/ Len(args) # Len(params)
        \/ \E i \in DOMAIN args : /\ is_builtin(args[i].ty) /\ is_builtin(params[i].ty)
                                  /\ args[i].ty # params[i].ty]

\* Arguments are visited, their types compared with nothing.
MethodCallResult(m, receiver, args, misuse) ==
    Fitted(Node("value", m.ret,
                    misuse \cup private_access \cup If(Len(args) # Len(m.params), "ArgumentCountMismatch"),
                    receiver \o args),
               args, m.params)

\* Type::function(args).  On an enum or an unknown method the call is treated
\* as one of the function named "", which does not exist.
AssociatedCall(type, name, args) ==
    LET m == lookup_method(type, name)
    IN  IF lookup_enum(type) # None \/ m = None
        THEN Node("value", None, {"UndefinedFunction"}, args)
        ELSE MethodCallResult(m, <<>>, args, If(m.has_self, "InstanceMethodCalledAsAssociated"))

\* receiver.method(args)
MethodCall(receiver, name, args) ==
    LET struct == struct_name(receiver.ty)
        m == IF struct = "" THEN None ELSE lookup_method(struct, name)
    IN  IF receiver.ty = None THEN Node("value", None, {}, <<receiver>> \o args)
        ELSE IF struct = ""
             THEN Node("value", None, {"MethodCallOnNonStruct"}, <<receiver>> \o args)
        ELSE IF m = None
             THEN Node("value", None, {"MethodNotFound"}, <<receiver>> \o SkipAll(args))
        ELSE MethodCallResult(m, <<receiver>>, args, If(~m.has_self, "AssociatedFunctionCalledAsMethod"))

\* infer_type_params_from_args: the arguments at the positions of a type parameter.
evidence(f, args, tp) ==
    {i \in DOMAIN args : i <= Len(f.params) /\ f.params[i].ty = Generic(tp) /\ args[i].ty # None}

\* A type argument is the name of a type, known or not.
type_argument(ty) ==
    IF kind_of(ty) = "Custom" /\ lookup_type(ty[2]) # None THEN lookup_type(ty[2]) ELSE ty

\* The type found for each type parameter, None if there is none.
inferred(f, args, targs) ==
    [k \in DOMAIN f.tps |->
        IF targs # <<>> THEN IF Len(targs) = Len(f.tps) THEN type_argument(targs[k]) ELSE None
        ELSE LET found == evidence(f, args, f.tps[k])
             IN  IF found = {} THEN None ELSE args[CHOOSE i \in found : \A j \in found : i <= j].ty]

inference_errors(f, args, targs) ==
    LET types == inferred(f, args, targs)
        silent == {k \in DOMAIN f.tps : types[k] = None}
    IN  IF f.tps = <<>> THEN {}
        ELSE IF targs # <<>> THEN If(Len(targs) # Len(f.tps), "TypeParameterCountMismatch")
        ELSE If(args # <<>> /\ silent # {}, "CannotInferTypeParameter")
             \cup If(silent = DOMAIN f.tps, "MissingTypeParameters")
             \cup If(\E k \in DOMAIN f.tps : \E i \in evidence(f, args, f.tps[k]) : args[i].ty # types[k],
                     "ConflictingTypeInference")

\* TypeInfo::substitute
substitute(f, types, ty) ==
    LET bound(t) == {k \in DOMAIN f.tps : t = Generic(f.tps[k]) /\ types[k] # None}
        value(t) == IF bound(t) = {} THEN t ELSE types[CHOOSE k \in bound(t) : TRUE]
    IN  IF kind_of(ty) = "Array" THEN Array(value(ty[2]), ty[3]) ELSE value(ty)

\* f(args) with explicit type arguments targs.  A call without arguments has no
\* argument list, and its length is not compared with the parameters.
FunctionCall(name, args, targs) ==
    LET f == lookup_function(name)
    IN  IF f = None THEN Node("value", None, {"UndefinedFunction"}, args)
        ELSE IF args # <<>> /\ Len(args) # Len(f.params)
             THEN Fitted(Node("value", None, private_access \cup {"ArgumentCountMismatch"}, args),
                             args, f.params)
        ELSE Fitted(Node("value", substitute(f, inferred(f, args, targs), f.ret),
                             private_access \cup inference_errors(f, args, targs), args),
                        args, f.params)

-----------------------------------------------------------------------------
(* Phases 1 to 4: a loop over the definitions of all source files each.    *)

Definition == program[pos]

Advance(next) ==
    IF pos < Len(program) THEN pos' = pos + 1 /\ UNCHANGED phase
    ELSE pos' = 1 /\ phase' = next

Init ==
    /\ TableInit
    /\ phase = "directives"
    /\ program \in Programs
    /\ pos = 1
    /\ imports = {}
    /\ resolved_imports = {}
    /\ errors = {}
    /\ method = 0
    /\ return_type = Unit
    /\ frames = <<>>
    /\ stack = <<>>
    /\ nodes = 0
    /\ statements = 0
    /\ gap = FALSE
    /\ hole = FALSE
    /\ bad = FALSE
    /\ env = <<[scope |-> root_scope, vars |-> EmptyScope]>>

\* History: the innermost block declares a name, unless it has done so.
Declared(name, ty) ==
    IF env[Len(env)].vars[name] = None THEN [env EXCEPT ![Len(env)].vars[name] = ty] ELSE env

\* process_directives: use directives are written down, not looked at.
ProcessDirective ==
    /\ phase = "directives"
    /\ imports' = imports \cup If(Definition.kind = "use", Definition.name)
    /\ Advance("types")
    /\ UNCHANGED <<table, program, resolved_imports, errors, method, return_type, frames, walk, env>>

TypeKinds == {"type", "struct", "enum", "spec"}

\* The methods of a struct in the form register_method keeps them.
methods_of(d) ==
    [i \in DOMAIN d.methods |-> [type |-> d.name, name |-> d.methods[i].name,
        params |-> d.methods[i].params, ret |-> d.methods[i].ret, has_self |-> d.methods[i].has_self]]

\* register_types.  A struct brings its methods, even when its name is taken.
RegisterType ==
    /\ phase = "types"
    /\ Advance("imports")
    /\ symbols' = IF Definition.kind \in TypeKinds
                  THEN insert_symbol(Definition.name, Definition) ELSE symbols
    /\ methods' = IF Definition.kind = "struct" THEN methods \o methods_of(Definition) ELSE methods
    /\ errors' = errors \cup If(Definition.kind \in TypeKinds /\ ~can_insert(symbols, Definition.name),
                                "RegistrationFailed")
    /\ UNCHANGED <<parent, variables, next_scope_id, current_scope, program, imports, resolved_imports,
                   method, return_type, frames, walk, env>>

\* resolve_imports: before the functions are registered.
ResolveImports ==
    /\ phase = "imports"
    /\ phase' = "functions"
    /\ resolved_imports' = {n \in imports : resolve_in_root(n) # None}
    /\ errors' = errors \cup If(resolved_imports' # imports, "ImportResolutionFailed")
    /\ UNCHANGED <<table, program, pos, imports, method, return_type, frames, walk, env>>

\* validate_type: a custom type must be known.  Type parameters are Generic here.
unknown_type(ty) ==
    LET base == IF kind_of(ty) = "Array" THEN ty[2] ELSE ty
    IN  kind_of(base) = "Custom" /\ lookup_type(base[2]) = None

signature_errors(d) ==
    If(unknown_type(d.ret) \/ \E i \in DOMAIN d.params : unknown_type(d.params[i].ty), "UnknownType")
    \cup If(d.has_self, "SelfReferenceInFunction")

\* collect_function_and_constant_definitions.  A function is registered even
\* when its signature is wrong; that of an external one is not looked at.
CollectDefinition ==
    /\ phase = "functions"
    /\ Advance("bodies")
    /\ LET d == Definition
           isConst == d.kind = "const"
           isFn == d.kind \in {"fn", "extern"}
       IN  /\ variables' = IF isConst THEN insert_variable(d.name, d.ret) ELSE variables
           /\ symbols' = IF isFn THEN insert_symbol(d.name, d) ELSE symbols
           /\ errors' = errors \cup (IF d.kind = "fn" THEN signature_errors(d) ELSE {})
                               \cup If(\/ isConst /\ ~can_insert(variables, d.name)
                                       \/ isFn /\ ~can_insert(symbols, d.name), "RegistrationFailed")
           /\ env' = IF isConst THEN Declared(d.name, d.ret) ELSE env
    /\ UNCHANGED <<parent, methods, next_scope_id, current_scope, program, imports, resolved_imports,
                   method, return_type, frames, walk>>

-----------------------------------------------------------------------------
(* Phase 5: the blocks of the bodies.                                      *)

context == <<program, imports, resolved_imports>>

\* push_scope and the recursive call; from is the scope that is current then.
Open(kind, from, outer, declared) ==
    /\ push_scope(from, declared)
    /\ frames' = Append(frames, kind)
    /\ env' = Append(outer, [scope |-> next_scope_id, vars |-> declared])

\* The parameters and self as variables; the first of a name counts, an
\* ignored argument (_) declares none.
parameters(d, self) ==
    [n \in Names |->
        LET found == {i \in DOMAIN d.params : d.params[i].name = n}
        IN  IF n = "self" /\ self # None THEN self
            ELSE IF found = {} THEN None
            ELSE d.params[CHOOSE i \in found : \A j \in found : i <= j].ty]

DuplicateParameter(d) ==
    \E i, j \in DOMAIN d.params : i # j /\ d.params[i].name = d.params[j].name /\ d.params[i].name \in Names

EnterBody(d, self, misuse) ==
    /\ Open("body", current_scope, env, parameters(d, self))
    /\ return_type' = d.ret
    /\ errors' = errors \cup misuse \cup If(DuplicateParameter(d), "RegistrationFailed")
    /\ UNCHANGED <<phase, pos, context, walk>>

\* infer_variables
EnterFunction ==
    /\ phase = "bodies" /\ frames = <<>>
    /\ Definition.kind = "fn"
    /\ EnterBody(Definition, None, If(Definition.has_self, "SelfReferenceOutsideMethod"))
    /\ UNCHANGED method

\* infer_method_variables
EnterMethod ==
    /\ phase = "bodies" /\ frames = <<>>
    /\ Definition.kind = "struct"
    /\ method < Len(Definition.methods)
    /\ LET m == Definition.methods[method + 1]
       IN  EnterBody(m, IF m.has_self THEN <<"Struct", Definition.name>> ELSE None, {})
    /\ method' = method + 1

\* Definitions without bodies, and a struct whose methods are done.
NextDefinition ==
    /\ phase = "bodies" /\ frames = <<>>
    /\ Definition.kind # "fn"
    /\ method = Len(Definition.methods)
    /\ method' = 0
    /\ Advance("done")
    /\ UNCHANGED <<table, context, errors, return_type, frames, walk, env>>

Walking == phase = "bodies" /\ frames # <<>>

\* Mutant: the scope of a loop body is not popped.
MutLeaveBlock ==
    /\ Walking /\ stack = <<>>
    /\ IF Last(frames) = "loop" THEN UNCHANGED table ELSE pop_scope
    /\ frames' = Front(frames)
    /\ env' = Front(env)
    /\ IF Last(frames) = "body" /\ Definition.kind = "fn" THEN Advance("done") ELSE UNCHANGED <<pos, phase>>
    /\ UNCHANGED <<context, errors, method, return_type, walk>>

\* The end of a block: pop_scope.
LeaveBlock ==
    /\ Walking /\ stack = <<>>
    /\ pop_scope
    /\ frames' = Front(frames)
    /\ env' = Front(env)
    /\ IF Last(frames) = "body" /\ Definition.kind = "fn" THEN Advance("done") ELSE UNCHANGED <<pos, phase>>
    /\ UNCHANGED <<context, errors, method, return_type, walk>>

\* The end of the if arm when there is an else arm: pop_scope and push_scope.
ElseArm ==
    /\ Walking /\ stack = <<>>
    /\ Last(frames) = "if"
    /\ push_scope(parent[current_scope], EmptyScope)
    /\ frames' = [frames EXCEPT ![Len(frames)] = "else"]
    /\ env' = [env EXCEPT ![Len(env)] = [scope |-> next_scope_id, vars |-> EmptyScope]]
    /\ UNCHANGED <<phase, pos, context, errors, method, return_type, walk>>

-----------------------------------------------------------------------------
(* Phase 5: expressions.                                                   *)

\* The results of the last k operands, and the stack with the result of a node
\* in their place.
Operands(k) == SubSeq(stack, Len(stack) - k + 1, Len(stack))

Visit(k, result) ==
    /\ Walking
    /\ statements < MaxStatements
    /\ nodes < MaxNodes
    /\ nodes' = nodes + 1
    /\ stack' = Append(SubSeq(stack, 1, Len(stack) - k), result)
    /\ UNCHANGED <<table, phase, pos, context, errors, method, return_type, frames, env, statements,
                   gap, hole, bad>>

VisitLeaf ==
    \/ \E n \in VarNames : Visit(0, Identifier(n))
    \/ \E ty \in {I32, Bool} : Visit(0, Literal(ty))
    \/ Visit(0, Uzumaki)
    \/ Visit(0, ArrayLiteral(<<>>))
    \/ \E n \in TypeNames, v \in MemberNames : Visit(0, TypeMemberAccess(n, v))

VisitUnary ==
    /\ Len(stack) >= 1
    /\ LET e == Last(stack)
       IN  \/ Visit(1, Parenthesized(e))
           \/ \E op \in {"Not", "Neg", "BitNot"} : Visit(1, PrefixUnary(op, e))
           \/ \E m \in MemberNames : Visit(1, MemberAccess(e, m))

VisitBinary ==
    /\ Len(stack) >= 2
    /\ LET es == Operands(2)
       IN  \/ \E op \in {"And", "Lt", "Add"} : Visit(2, Binary(op, es[1], es[2]))
           \/ Visit(2, ArrayIndexAccess(es[1], es[2]))

\* Nodes with any number of operands.
VisitMany ==
    \E k \in 0..Len(stack) :
        LET es == Operands(k)
        IN  \/ k > 0 /\ Visit(k, ArrayLiteral(es))
            \/ \E n \in TypeNames : Visit(k, StructExpression(n, es))
            \/ \E n \in FunctionNames, targs \in TypeArguments : Visit(k, FunctionCall(n, es, targs))
            \/ \E n \in TypeNames, m \in MemberNames : Visit(k, AssociatedCall(n, m, es))
            \/ \E m \in MemberNames : k > 0 /\ Visit(k, MethodCall(es[1], m, Tail(es)))

-----------------------------------------------------------------------------
(* Phase 5: infer_statement, one action for each arm of the match.         *)

\* A statement over the operands es ends an expression, if it has one.
Statement(es, err) ==
    /\ Walking
    /\ statements < MaxStatements
    /\ statements' = statements + 1
    /\ errors' = errors \cup err \cup UNION {es[i].err : i \in DOMAIN es}
    /\ gap' = (gap \/ \E i \in DOMAIN es : es[i].gap)
    /\ hole' = (hole \/ \E i \in DOMAIN es : es[i].hole)
    /\ bad' = (bad \/ \E i \in DOMAIN es : es[i].bad)
    /\ stack' = <<>>
    /\ UNCHANGED <<phase, pos, context, method, return_type, nodes>>

SameBlock == UNCHANGED <<frames, env>>

is_uzumaki(e) == e.node = "uzumaki"

\* The target is inferred first; an @ gets its type.
Assign ==
    /\ Len(stack) = 2
    /\ LET target == stack[1]
           value == stack[2]
       IN  IF is_uzumaki(value)
           THEN IF target.ty = None THEN Statement(stack, {"CannotInferUzumakiType"})
                ELSE Statement(<<target, Given(value)>>, {})
           ELSE Statement(stack, If(target.ty # None /\ value.ty # None /\ target.ty # value.ty,
                                    "TypeMismatch"))
    /\ SameBlock /\ UNCHANGED table

ExpressionStatement ==
    /\ Len(stack) = 1
    /\ Statement(stack, {})
    /\ SameBlock /\ UNCHANGED table

Return ==
    /\ Len(stack) = 1
    /\ IF is_uzumaki(stack[1]) THEN Statement(<<Given(stack[1])>>, {})
       ELSE LET ty == IF stack[1].ty = None THEN Unit ELSE stack[1].ty
            IN  Statement(stack, If(ty # return_type, "TypeMismatch"))
    /\ SameBlock /\ UNCHANGED table

Condition(e) == If(e.ty # Bool, "TypeMismatch")

AssertStatement ==
    /\ Len(stack) = 1
    /\ Statement(stack, Condition(stack[1]))
    /\ SameBlock /\ UNCHANGED table

IfStatement ==
    /\ Len(stack) = 1
    /\ Statement(stack, Condition(stack[1]))
    /\ Open("if", current_scope, env, EmptyScope)

\* The condition of a loop is optional.
Loop ==
    /\ Len(stack) \in {0, 1}
    /\ Statement(stack, IF stack = <<>> THEN {} ELSE Condition(stack[1]))
    /\ Open("loop", current_scope, env, EmptyScope)

Block ==
    /\ stack = <<>>
    /\ Statement(<<>>, {})
    /\ Open("block", current_scope, env, EmptyScope)

\* let name: ty [= value]; the name is in scope after the value only.  A
\* constant definition does the same without looking at its value.
VariableDefinition(name, ty) ==
    /\ Len(stack) \in {0, 1}
    /\ LET taken == If(~can_insert(variables, name), "RegistrationFailed")
       IN  IF stack = <<>> THEN Statement(<<>>, taken)
           ELSE IF is_uzumaki(stack[1]) THEN Statement(<<Given(stack[1])>>, taken)
           ELSE Statement(stack, taken \cup If(stack[1].ty \notin {None, ty}, "TypeMismatch"))
    /\ variables' = insert_variable(name, ty)
    /\ env' = Declared(name, ty)
    /\ UNCHANGED <<frames, parent, symbols, methods, next_scope_id, current_scope>>

Alias(name, ty) == [kind |-> "type", name |-> name, params |-> <<>>, ret |-> ty, tps |-> <<>>,
                    methods |-> <<>>, has_self |-> FALSE]

\* A type definition inside a body belongs to the block.
TypeDefinition(name, ty) ==
    /\ stack = <<>>
    /\ Statement(<<>>, If(~can_insert(symbols, name), "RegistrationFailed"))
    /\ symbols' = insert_symbol(name, Alias(name, ty))
    /\ SameBlock
    /\ UNCHANGED <<parent, variables, methods, next_scope_id, current_scope>>

-----------------------------------------------------------------------------
(* A break does nothing.  The walk may end at any block: there are bodies  *)
(* of every length.                                                        *)

StatementStep ==
    \/ Assign \/ ExpressionStatement \/ Return \/ AssertStatement
    \/ IfStatement \/ Loop \/ Block
    \/ \E n \in VarNames, ty \in Annotations : VariableDefinition(n, ty)
    \/ \E n \in TypeNames, ty \in Annotations : TypeDefinition(n, ty)

Next ==
    \/ ProcessDirective \/ RegisterType \/ ResolveImports \/ CollectDefinition
    \/ EnterFunction \/ EnterMethod \/ NextDefinition \/ LeaveBlock \/ ElseArm
    \/ VisitLeaf \/ VisitUnary \/ VisitBinary \/ VisitMany
    \/ StatementStep

Spec == Init /\ [][Next]_vars

-----------------------------------------------------------------------------
(* Properties.                                                             *)

\* The state is well formed: scopes are numbered without gaps, positions are
\* inside the program, results and errors are of the known kinds.
TypeOK ==
    /\ parent \in [ScopeIds -> ScopeIds]
    /\ next_scope_id \in 1..(MaxScopes + 1)
    /\ current_scope \in 0..(next_scope_id - 1)
    /\ phase \in {"directives", "types", "imports", "functions", "bodies", "done"}
    /\ pos \in DOMAIN program
    /\ method \in 0..Len(Definition.methods)
    /\ errors \subseteq Errors
    /\ resolved_imports \subseteq imports
    /\ \A i \in DOMAIN frames : frames[i] \in {"body", "if", "else", "loop", "block"}
    /\ \A i \in DOMAIN stack : stack[i].err \subseteq Errors
    /\ nodes \in 0..MaxNodes /\ Len(stack) <= nodes
    /\ statements \in 0..MaxStatements
    /\ {gap, hole, bad} \subseteq BOOLEAN

\* infer_expression returns no type, or leaves an expression without one, only
\* after an error was pushed, save for the forms that fail in silence: an @ in
\* a place that gives it no type, an empty array, the fields of a struct.
UntypedIsReported ==
    /\ \A i \in DOMAIN stack :
          stack[i].ty = None \/ stack[i].gap => stack[i].err # {} \/ stack[i].hole
    /\ gap => errors # {} \/ hole

\* The binding of a name in the innermost open block that declares it.
innermost(name) ==
    LET binding == {i \in DOMAIN env : env[i].vars[name] # None}
    IN  IF binding = {} THEN None ELSE env[Max(binding)].vars[name]

\* Scoping is lexical: a variable means its declaration in the nearest block
\* around the use, never one of a block that has been left or of another body.
LexicalLookup == \A n \in Names : lookup_variable(n) = innermost(n)

\* The scopes on the path from the current one to the root are the open blocks,
\* each with what its block has declared: push_scope and pop_scope are balanced
\* on every path through infer_statement.
ScopesAreBlocks ==
    /\ Len(env) = Len(frames) + 1
    /\ env[1].scope = root_scope
    /\ current_scope = env[Len(env)].scope
    /\ \A i \in DOMAIN env : variables[env[i].scope] = env[i].vars
    /\ \A i \in 1..(Len(env) - 1) : parent[env[i + 1].scope] = env[i].scope
    /\ \A i, j \in DOMAIN env : i < j => env[i].scope < env[j].scope

\* Positions of the definitions of a name, in a set of kinds.
defined(name, kinds) == {i \in DOMAIN program : program[i].name = name /\ program[i].kind \in kinds}

\* A name of the root scope means its first definition, types before functions
\* wherever they stand in the sources, and a second definition is reported.
FirstDefinitionWins ==
    phase \in {"bodies", "done"} =>
        \A n \in Names :
            LET types == defined(n, TypeKinds)
                fns == defined(n, {"fn", "extern"})
            IN  /\ symbols[root_scope][n] =
                      IF types # {} THEN program[Min(types)]
                      ELSE IF fns # {} THEN program[Min(fns)]
                      ELSE None
                /\ Cardinality(types \cup fns) > 1 => "RegistrationFailed" \in errors

\* "All expressions should have TypeInfo after type checking": a program that is
\* accepted has a type for every value expression.
AllExpressionsTyped == phase = "done" /\ errors = {} => ~gap

\* A program that is accepted calls functions with arguments that fit.
AcceptedCallsFit == phase = "done" /\ errors = {} => ~bad
=============================================================================
