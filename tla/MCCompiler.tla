----------------------------- MODULE MCCompiler -----------------------------
(* The compiler on small programs: one or two functions, quantifier blocks two *)
(* deep, and every family of operators in translated modules.                  *)
EXTENDS Compiler

const_Grammar ==
  {"function_definition", "block", "forall_block", "exists_block", "return_statement",
   "constant_definition", "identifier", "number_literal", "uzumaki_keyword",
   "struct_expression", "bool_literal",
   "variable_definition_statement", "break_statement"}

const_Alphabet ==
  {<<"structured", "forall", "empty">>, <<"structured", "if", "i32">>, End, Else,
   <<"const", "i32">>, <<"structured", "loop", "anyref">>, <<"exception", "try">>}
===============================================================================
