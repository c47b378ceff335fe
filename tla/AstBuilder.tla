------------------------------ MODULE AstBuilder ------------------------------
(* The syntax tree builder, core/ast/src/builder.rs, and the arena it fills,  *)
(* core/ast/src/arena.rs.  The builder walks the concrete syntax tree of one   *)
(* source file.  Every build_* method draws an id, builds its children with    *)
(* that id as their parent and only then adds its own node, so ids are in      *)
(* pre-order and insertions in post-order; a syntax error is noted in `errors` *)
(* and the walk goes on, often with a placeholder that is never added.         *)
(*                                                                            *)
(* The tree is chosen as the walk meets it.  A method is the sequence of the   *)
(* fields it reads, in its order, each with what may stand there and what the  *)
(* method does when it is missing; `calls` is the stack of running methods.    *)
(* Of a node's text only identifiers' names are kept, of `errors` only whether *)
(* it is empty, and locations are left out.                                    *)
EXTENDS Naturals, Sequences, FiniteSets, SequencesExt

CONSTANTS
  Names,        \* the names an identifier may have
  SimpleTypes,  \* the primitive types the source uses
  Grammar,      \* bound: the kinds of node the enumerated trees are made of
  MaxIds,       \* bound: the ids drawn for a tree without faults
  MaxFaultyIds, \* bound: the ids drawn for a tree with faults
  MaxFaults     \* bound: ERROR nodes and missing fields of the tree

VARIABLES
  arena,    \* node id |-> its node: kind, parent and what code generation reads
  counter,  \* COUNTER, the next id
  errors,   \* whether the builder noted an error
  calls,    \* the running build_* methods, innermost last
  outcome,  \* "running", "ok", "err" or "panic"
  units,    \* ids of the unit literals a return without a value makes up
  faults    \* ERROR nodes and missing fields met so far

builderVars == <<arena, counter, errors, calls, outcome, units, faults>>

-------------------------------------------------------------------------------
(* What a field holds and what is done when it is not there: "panic" is an     *)
(* unwrap, "none" an Option, "many" any number of children, "list" the same    *)
(* inside a list node that collect_errors is never called for, "error" notes   *)
(* an error and makes up a placeholder, "abandon" returns a placeholder at     *)
(* once, "unit" makes up a unit literal without an error.                      *)

Field(what, missing) == [what |-> what, missing |-> missing]
One(what)  == Field(what, "panic")
Opt(what)  == Field(what, "none")
Many(what) == Field(what, "many")
List(what) == Field(what, "list")

\* The source file: directives and definitions in any order.
build_ast == << Many("definition") >>
build_use_directive == << Opt("string"), Many("identifier"), Many("identifier") >>
build_spec_definition == << One("identifier"), Many("definition") >>
build_enum_definition == << One("identifier"), Many("identifier") >>
build_struct_definition ==
  << One("identifier"), Many("struct_field"), Many("method") >>
build_struct_field == << One("type"), One("identifier") >>
build_constant_definition == << One("type"), One("identifier"), One("literal") >>
\* The arguments, type parameters and result come before the name is looked at.
build_function_definition ==
  << List("argument"), List("identifier"), Opt("type"),
     Field("identifier", "abandon"), Field("block", "error") >>
build_external_function_definition ==
  << One("identifier"), Many("argument"), Opt("type") >>
build_type_definition == << One("type"), One("identifier") >>
build_argument == << One("type"), One("identifier") >>
build_self_reference == << >>
build_ignore_argument == << One("type") >>
build_block == << Many("statement") >>
build_return_statement == << Field("expression", "unit") >>
build_loop_statement == << Opt("expression"), Field("block", "error") >>
build_if_statement ==
  << Field("expression", "error"), Field("block", "error"), Opt("block") >>
build_variable_definition_statement ==
  << One("type"), One("identifier"), Opt("expression") >>
build_type_definition_statement == << One("type"), One("identifier") >>
build_assign_statement == << One("expression"), One("expression") >>
build_assert_statement == << One("expression") >>
build_break_statement == << >>
build_array_index_access_expression == << One("expression"), One("expression") >>
build_member_access_expression == << One("expression"), One("identifier") >>
build_type_member_access_expression == << One("expression"), One("identifier") >>
\* The function, then names and values of arguments as they come, then types.
build_function_call_expression ==
  << One("expression"), Many("expression"), List("identifier") >>
build_struct_expression == << One("identifier"), Many("struct_item") >>
build_prefix_unary_expression == << One("expression"), One("unary_operator") >>
build_parenthesized_expression == << One("expression") >>
build_binary_expression ==
  << One("expression"), One("operator"), One("expression") >>
build_array_literal == << Many("expression") >>
build_bool_literal == << One("truth") >>
build_string_literal == << >>
build_number_literal == << >>
build_unit_literal == << >>
build_type_array == << One("type"), One("expression") >>
build_generic_type == << One("identifier"), List("identifier") >>
build_function_type == << Many("type"), Opt("type") >>
build_type_qualified_name == << One("identifier"), One("identifier") >>
build_qualified_name == << One("identifier"), One("identifier") >>
build_uzumaki_expression == << >>
build_identifier == << >>

-------------------------------------------------------------------------------
(* What may stand where: the kinds the dispatching methods tell apart.         *)

Blocks == {"block", "forall_block", "assume_block", "exists_block", "unique_block"}
build_literal ==
  {"array_literal", "bool_literal", "string_literal", "number_literal", "unit_literal"}
build_type ==
  {"type_array", "generic_type", "type_qualified_name", "qualified_name", "type_fn",
   "identifier"}
build_expression ==
  build_literal \cup
  {"array_index_access_expression", "generic_type", "qualified_name",
   "member_access_expression", "type_member_access_expression",
   "function_call_expression", "struct_expression", "prefix_unary_expression",
   "parenthesized_expression", "binary_expression", "uzumaki_keyword", "identifier"}
build_statement ==
  Blocks \cup build_expression \cup
  {"assign_statement", "return_statement", "loop_statement", "if_statement",
   "variable_definition_statement", "type_definition_statement",
   "assert_statement", "break_statement", "constant_definition"}
build_definition ==
  {"use_directive", "spec_definition", "struct_definition", "enum_definition",
   "constant_definition", "function_definition", "external_function_definition",
   "type_definition"}
build_argument_type ==
  {"argument_declaration", "self_reference", "ignore_argument"} \cup build_type

Kinds == [ definition |-> build_definition, argument |-> build_argument_type,
           type |-> build_type, statement |-> build_statement,
           expression |-> build_expression, literal |-> build_literal,
           block |-> Blocks, struct_item |-> build_expression,
           method |-> {"function_definition"}, string |-> {"string_literal"},
           identifier |-> {"identifier"}, struct_field |-> {"struct_field"} ]

Shape ==
  [ source_file |-> build_ast, use_directive |-> build_use_directive,
    spec_definition |-> build_spec_definition, enum_definition |-> build_enum_definition,
    struct_definition |-> build_struct_definition, struct_field |-> build_struct_field,
    constant_definition |-> build_constant_definition,
    function_definition |-> build_function_definition,
    external_function_definition |-> build_external_function_definition,
    type_definition |-> build_type_definition, argument_declaration |-> build_argument,
    self_reference |-> build_self_reference, ignore_argument |-> build_ignore_argument,
    block |-> build_block, forall_block |-> build_block, assume_block |-> build_block,
    exists_block |-> build_block, unique_block |-> build_block,
    return_statement |-> build_return_statement, loop_statement |-> build_loop_statement,
    if_statement |-> build_if_statement,
    variable_definition_statement |-> build_variable_definition_statement,
    type_definition_statement |-> build_type_definition_statement,
    assign_statement |-> build_assign_statement,
    assert_statement |-> build_assert_statement, break_statement |-> build_break_statement,
    array_index_access_expression |-> build_array_index_access_expression,
    member_access_expression |-> build_member_access_expression,
    type_member_access_expression |-> build_type_member_access_expression,
    function_call_expression |-> build_function_call_expression,
    struct_expression |-> build_struct_expression,
    prefix_unary_expression |-> build_prefix_unary_expression,
    parenthesized_expression |-> build_parenthesized_expression,
    binary_expression |-> build_binary_expression, array_literal |-> build_array_literal,
    bool_literal |-> build_bool_literal, string_literal |-> build_string_literal,
    number_literal |-> build_number_literal, unit_literal |-> build_unit_literal,
    type_array |-> build_type_array, generic_type |-> build_generic_type,
    type_fn |-> build_function_type, type_qualified_name |-> build_type_qualified_name,
    qualified_name |-> build_qualified_name,
    uzumaki_keyword |-> build_uzumaki_expression, identifier |-> build_identifier ]

-------------------------------------------------------------------------------
(* The arena.                                                                 *)

NoName == "no name"
NoType == "no type"
Root == 0   \* the parent u32::MAX of a source file, which parent_map leaves out

Top == Last(calls)
ReplaceTop(frame) == [calls EXCEPT ![Len(calls)] = frame]

\* The frame after its next field was read: repeated fields stay until skipped.
Consume(frame) ==
  IF Head(frame.todo).missing \in {"many", "list"} THEN [frame EXCEPT !.pending = FALSE]
  ELSE [frame EXCEPT !.todo = Tail(frame.todo)]

Drop(frame) == [frame EXCEPT !.todo = Tail(frame.todo)]

Node(kind, parent, name, ty, public) ==
  [kind |-> kind, parent |-> parent, name |-> name, ty |-> ty, public |-> public]

\* Arena::add_node refuses an id that is already there; ids are never reused.
add_node(id, node) ==
  /\ id \notin DOMAIN arena
  /\ arena' = [i \in DOMAIN arena \cup {id} |-> IF i = id THEN node ELSE arena[i]]

\* Arena::find_source_file_for_node: up the parent map to a source file.
find_source_file_for_node(id) ==
  LET Up[n \in Nat] ==
        IF n \notin DOMAIN arena THEN Root
        ELSE IF arena[n].parent = Root THEN n
        ELSE IF arena[n].parent < n THEN Up[arena[n].parent] ELSE Root
      top == Up[id]
  IN  IF top # Root /\ arena[top].kind = "source_file" THEN top ELSE Root

-------------------------------------------------------------------------------
(* The walk.                                                                  *)

Running == outcome = "running" /\ calls # << >>
Next_field == Head(Top.todo)
Reading == Running /\ Top.todo # << >>
Expects(kind) == kind \in Grammar /\ Next_field.what \in DOMAIN Kinds /\ kind \in Kinds[Next_field.what]
Room == counter < (IF faults > 0 THEN MaxFaultyIds ELSE MaxIds)
Fault == faults < MaxFaults /\ counter < MaxFaultyIds /\ faults' = faults + 1

\* collect_errors: an ERROR among the node's direct children is noted.
collect_errors ==
  \/ UNCHANGED <<errors, faults>>
  \/ Fault /\ errors' = TRUE

Frame(kind, id, parent, public) ==
  [ kind |-> kind, id |-> id, parent |-> parent, todo |-> Shape[kind],
    pending |-> FALSE, name |-> NoName, ty |-> NoType, public |-> public ]

\* The value of a field of a struct expression takes the name that waits for it
\* and panics when there is none.
TakePendingName ==
  outcome' = IF Next_field.what = "struct_item" /\ ~Top.pending THEN "panic" ELSE outcome

\* The type the method read; that of an argument is not the method's own.
SetType(ty) == IF Next_field.what = "type" THEN [Top EXCEPT !.ty = ty] ELSE Top

\* The identifiers whose text code generation reads: names of definitions and
\* identifiers that are expressions.
Read_name(kind) ==
  /\ kind = "identifier"
  /\ \/ Next_field.what \in {"expression", "statement"}
     \/ Next_field.what = "identifier" /\ Next_field.missing \in {"panic", "abandon"}

\* A leaf: the node is built and added at once.
BuildLeaf(kind, name) ==
  /\ Reading /\ Expects(kind) /\ Shape[kind] = << >>
  /\ Read_name(kind) <=> name # NoName
  /\ Room
  /\ add_node(counter, Node(kind, Top.id, name, NoType, FALSE))
  /\ counter' = counter + 1
  /\ calls' = ReplaceTop(Consume(IF Next_field.what = "identifier"
                                 THEN [Top EXCEPT !.name = name] ELSE SetType("node")))
  /\ TakePendingName
  /\ UNCHANGED <<errors, units, faults>>

\* A node with fields: its id is drawn, its children are built next.
BuildNode(kind, public) ==
  /\ Reading /\ Expects(kind) /\ Shape[kind] # << >>
  /\ Room
  /\ public => kind = "function_definition"
  /\ collect_errors
  /\ counter' = counter + 1
  /\ calls' = Append(ReplaceTop(Consume(SetType("node"))),
                     Frame(kind, counter, Top.id, public))
  /\ TakePendingName
  /\ UNCHANGED <<arena, units>>

\* The name of a field of a struct expression waits for its value.
BuildFieldName(name) ==
  /\ Reading /\ Next_field.what = "struct_item"
  /\ Room
  /\ add_node(counter, Node("identifier", Top.id, name, NoType, FALSE))
  /\ counter' = counter + 1
  /\ calls' = ReplaceTop([Top EXCEPT !.pending = TRUE])
  /\ UNCHANGED <<errors, outcome, units, faults>>

\* A primitive type has no node.
BuildSimpleType(ty) ==
  /\ Reading /\ Next_field.what \in {"type", "argument"}
  /\ calls' = ReplaceTop(Consume(SetType(ty)))
  /\ UNCHANGED <<arena, counter, errors, outcome, units, faults>>

\* Operators and truth values have no node: an unknown binary operator or
\* truth value is noted, an unknown unary operator is an unreachable!().
BuildToken(known) ==
  /\ Reading /\ Next_field.what \in {"operator", "unary_operator", "truth"}
  /\ IF known THEN UNCHANGED <<errors, outcome, faults>>
     ELSE /\ Fault
          /\ IF Next_field.what = "unary_operator"
             THEN outcome' = "panic" /\ UNCHANGED errors
             ELSE errors' = TRUE /\ UNCHANGED outcome
  /\ calls' = ReplaceTop(Consume(Top))
  /\ UNCHANGED <<arena, counter, units>>

\* The field is absent, or the last of the repeated children was read.
Skip ==
  /\ Reading /\ Next_field.missing \in {"none", "many", "list"}
  /\ calls' = ReplaceTop(Drop(Top))
  /\ UNCHANGED <<arena, counter, errors, outcome, units, faults>>

\* return without a value makes up a unit literal, which is never added.
ImplicitUnit ==
  /\ Reading /\ Next_field.missing = "unit"
  /\ counter' = counter + 1
  /\ units' = units \cup {counter}
  /\ calls' = ReplaceTop(Drop(Top))
  /\ UNCHANGED <<arena, errors, outcome, faults>>

\* unwrap() of a field that error recovery left out.
UnwrapMissing ==
  /\ Reading /\ Next_field.missing = "panic" /\ Fault
  /\ outcome' = "panic"
  /\ UNCHANGED <<arena, counter, errors, calls, units>>

\* A missing body or condition: the error is noted, a placeholder takes its place.
PlaceholderForMissing ==
  /\ Reading /\ Next_field.missing = "error" /\ Fault
  /\ errors' = TRUE
  /\ counter' = counter + 1
  /\ calls' = ReplaceTop(Drop(Top))
  /\ UNCHANGED <<arena, outcome, units>>

\* Mutant: the missing name is not reported.
MutAbandonFunction ==
  /\ Reading /\ Next_field.missing = "abandon" /\ Fault
  /\ counter' = counter + 2
  /\ calls' = Front(calls)
  /\ UNCHANGED <<arena, errors, outcome, units>>

\* A function without a name returns at once: it is never added, although its
\* arguments, type parameters and result already were.
AbandonFunction ==
  /\ Reading /\ Next_field.missing = "abandon" /\ Fault
  /\ errors' = TRUE
  /\ counter' = counter + 2
  /\ calls' = Front(calls)
  /\ UNCHANGED <<arena, outcome, units>>

\* An ERROR, or a kind no arm names, where a definition, an expression or a
\* literal should be: a placeholder that is never added.
create_error_definition ==
  /\ Reading /\ Next_field.what \in {"definition", "expression", "literal"} /\ Fault
  /\ errors' = TRUE
  /\ counter' = counter + (IF Next_field.what = "definition" THEN 3 ELSE 1)
  /\ calls' = ReplaceTop(Consume(Top))
  /\ UNCHANGED <<arena, outcome, units>>

\* The same for a type: the unit type takes its place.
ErrorType ==
  /\ Reading /\ Next_field.what \in {"type", "argument"} /\ Fault
  /\ errors' = TRUE
  /\ calls' = ReplaceTop(Consume(SetType("unit")))
  /\ UNCHANGED <<arena, counter, outcome, units>>

\* An expression statement without an expression: added, and no error noted.
\* An ERROR in a statement's place is added too, and noted.
create_error_statement(noted) ==
  /\ Reading /\ Next_field.what = "statement" /\ Fault
  /\ add_node(counter, Node("identifier", Top.id, NoName, NoType, FALSE))
  /\ counter' = counter + 1
  /\ errors' = (errors \/ noted)
  /\ calls' = ReplaceTop(Consume(Top))
  /\ UNCHANGED <<outcome, units>>

\* build_block drew an id of its own before it finds the ERROR.
create_error_block ==
  /\ Reading /\ Next_field.what = "block" /\ Fault
  /\ add_node(counter + 1, Node("block", Top.id, NoName, NoType, FALSE))
  /\ counter' = counter + 2
  /\ errors' = TRUE
  /\ calls' = ReplaceTop(Consume(Top))
  /\ UNCHANGED <<outcome, units>>

\* An ERROR among the children of an argument list, a type parameter list or
\* the arguments of a generic type: no method collects the errors of the list.
ErrorInList ==
  /\ Reading /\ Next_field.missing = "list" /\ Fault
  /\ UNCHANGED <<arena, counter, errors, calls, outcome, units>>

\* The method adds its node and returns; build_ast ends the walk.
Close ==
  /\ Running /\ Top.todo = << >>
  /\ add_node(Top.id, Node(Top.kind, Top.parent, Top.name, Top.ty, Top.public))
  /\ calls' = Front(calls)
  /\ outcome' = IF Len(calls) > 1 THEN outcome ELSE IF errors THEN "err" ELSE "ok"
  /\ UNCHANGED <<counter, errors, units, faults>>

BuilderInit ==
  /\ arena = << >> /\ counter = 2 /\ errors = FALSE
  /\ calls = << Frame("source_file", 1, Root, FALSE) >>
  /\ outcome = "running" /\ units = {} /\ faults = 0

BuilderNext ==
  \/ \E kind \in DOMAIN Shape :
       \/ \E name \in Names \cup {NoName} : BuildLeaf(kind, name)
       \/ \E public \in BOOLEAN : BuildNode(kind, public)
  \/ \E name \in Names : BuildFieldName(name)
  \/ \E ty \in SimpleTypes : BuildSimpleType(ty)
  \/ \E known \in BOOLEAN : BuildToken(known)
  \/ \E noted \in BOOLEAN : create_error_statement(noted)
  \/ Skip \/ ImplicitUnit \/ UnwrapMissing \/ PlaceholderForMissing \/ AbandonFunction
  \/ create_error_definition \/ ErrorType \/ create_error_block \/ ErrorInList
  \/ Close

-------------------------------------------------------------------------------

\* A tree that build_ast hands out is whole: every id that was drawn is in the
\* arena, the made-up unit literals of value-less returns excepted, and every
\* node reaches the source file, so that a placeholder or an abandoned function,
\* whose children are orphans, never gets past the error check of build_ast.
BuildOkIsWhole ==
  outcome = "ok" =>
    /\ DOMAIN arena = (1 .. counter - 1) \ units
    /\ \A id \in DOMAIN arena : find_source_file_for_node(id) = 1
===============================================================================
