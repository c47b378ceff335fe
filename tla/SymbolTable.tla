---------------------------- MODULE SymbolTable ----------------------------
(***************************************************************************)
(* The scope tree of the type checker (core/type-checker/src/              *)
(* symbol_table.rs).  Scopes are numbered in the order they are pushed and *)
(* never removed: leaving a block only moves the current scope back to the *)
(* parent.  A lookup starts at the current scope and follows the parents.  *)
(*                                                                         *)
(* A type is a tuple that starts with its TypeInfoKind; None stands for an *)
(* Option that is None.  The builtin types are keywords, never names.      *)
(***************************************************************************)
EXTENDS Naturals, Sequences

CONSTANTS Names,      \* identifiers of the program
          MaxScopes   \* bound: scopes pushed

ASSUME TableAssumption == MaxScopes \in Nat

VARIABLES parent,         \* parent scope of each scope; the root is its own
          symbols,        \* scope -> name -> symbol: functions and types
          variables,      \* scope -> name -> type
          methods,        \* methods of the structs, in order of registration
          next_scope_id,
          current_scope

table == <<parent, symbols, variables, methods, next_scope_id, current_scope>>

ScopeIds == 0..MaxScopes
root_scope == 0
None == <<>>

EmptyScope == [n \in Names |-> None]

\* SymbolTable::default
TableInit ==
    /\ parent = [s \in ScopeIds |-> root_scope]
    /\ symbols = [s \in ScopeIds |-> EmptyScope]
    /\ variables = [s \in ScopeIds |-> EmptyScope]
    /\ methods = <<>>
    /\ next_scope_id = 1
    /\ current_scope = root_scope

-----------------------------------------------------------------------------
(* Scopes.                                                                 *)

\* Mutant: every scope hangs off the root.
Mut_push_scope(from, vars) ==
    /\ next_scope_id <= MaxScopes
    /\ parent' = [parent EXCEPT ![next_scope_id] = root_scope]
    /\ variables' = [variables EXCEPT ![next_scope_id] = vars]
    /\ current_scope' = next_scope_id
    /\ next_scope_id' = next_scope_id + 1
    /\ UNCHANGED <<symbols, methods>>

\* push_scope while scope from is the current one, with the variables the
\* caller declares right away.
push_scope(from, vars) ==
    /\ next_scope_id <= MaxScopes
    /\ parent' = [parent EXCEPT ![next_scope_id] = from]
    /\ variables' = [variables EXCEPT ![next_scope_id] = vars]
    /\ current_scope' = next_scope_id
    /\ next_scope_id' = next_scope_id + 1
    /\ UNCHANGED <<symbols, methods>>

pop_scope ==
    /\ current_scope' = parent[current_scope]
    /\ UNCHANGED <<parent, symbols, variables, methods, next_scope_id>>

\* Scope::insert_symbol and insert_variable refuse a name that is taken in
\* the same scope; both leave the table alone then.
can_insert(field, name) == field[current_scope][name] = None

\* Mutant: the later definition replaces the earlier one.
Mut_insert_symbol(name, symbol) == [symbols EXCEPT ![current_scope][name] = symbol]

\* The symbols with a new one in the current scope.
insert_symbol(name, symbol) ==
    IF can_insert(symbols, name) THEN [symbols EXCEPT ![current_scope][name] = symbol] ELSE symbols

insert_variable(name, ty) ==
    IF can_insert(variables, name) THEN [variables EXCEPT ![current_scope][name] = ty] ELSE variables

-----------------------------------------------------------------------------
(* Lookups.                                                                *)

\* The binding of a name in the nearest scope that has one.
lookup(field, name) ==
    LET find[s \in ScopeIds] ==
            IF field[s][name] # None THEN field[s][name]
            ELSE IF s = root_scope THEN None ELSE find[parent[s]]
    IN  find[current_scope]

lookup_variable(name) == lookup(variables, name)
lookup_symbol(name) == lookup(symbols, name)

lookup_kind(name, kind) ==
    LET symbol == lookup_symbol(name)
    IN  IF symbol # None /\ symbol.kind = kind THEN symbol ELSE None

lookup_function(name) == lookup_kind(name, "fn")
lookup_struct(name) == lookup_kind(name, "struct")
lookup_enum(name) == lookup_kind(name, "enum")

\* Symbol::as_type_info: a function is no type.
lookup_type(name) ==
    LET symbol == lookup_symbol(name)
    IN  IF symbol = None THEN None
        ELSE CASE symbol.kind = "struct" -> <<"Struct", name>>
               [] symbol.kind = "enum" -> <<"Enum", name>>
               [] symbol.kind = "spec" -> <<"Spec", name>>
               [] symbol.kind = "type" -> symbol.ret
               [] OTHER -> None

\* The first method of that name of the type.
lookup_method(type, name) ==
    LET found == {i \in DOMAIN methods : methods[i].type = type /\ methods[i].name = name}
    IN  IF found = {} THEN None
        ELSE methods[CHOOSE i \in found : \A j \in found : i <= j]

\* resolve_qualified_name of a path of one segment: in the root scope only.
resolve_in_root(name) == symbols[root_scope][name]

\* is_scope_descendant_of
is_scope_descendant_of(access, target) ==
    LET up[s \in ScopeIds] == s = target \/ (s # root_scope /\ up[parent[s]])
    IN  up[access]
=============================================================================
