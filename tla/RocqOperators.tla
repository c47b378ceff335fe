---------------------------- MODULE RocqOperators ----------------------------
(* The Rocq term of each WebAssembly operator: translate_basic_operator of    *)
(* core/wasm-to-v/src/translator.rs and the small translations it uses.  An    *)
(* operator is a tuple of its family and the parts its name spells, a term a   *)
(* tuple of the constructor and its arguments; immediates that a term repeats  *)
(* as they are (indices, offsets) are left out.  "todo" is a todo!(), a panic; *)
(* "unsupported" an Err.                                                      *)
EXTENDS Naturals, FiniteSets, Sequences

Ints == {"i32", "i64"}
Floats == {"f32", "f64"}
Signs == {"S", "U"}

Todo == <<"todo">>
Unsupported == <<"unsupported">>

translate_ref_type(ref) ==
  CASE ref = "funcref" -> <<"T_funcref">>
    [] ref = "externref" -> <<"T_externref">>
    [] OTHER -> Unsupported

translate_value_type(ty) ==
  CASE ty \in Ints \cup Floats -> <<"T_num", ty>>
    [] ty = "v128" -> <<"T_vec", ty>>
    [] OTHER -> translate_ref_type(ty)

\* The type of a block: none, an index into the types, or one value type.
translate_block_type(bt) ==
  CASE bt = "empty" -> <<"BT_valtype", "None">>
    [] bt = "index" -> <<"BT_id">>
    [] OTHER -> translate_value_type(bt)

-------------------------------------------------------------------------------

Structured == {"block", "loop", "if", "forall", "exists", "assume", "unique"}
BlockTypes == {"empty", "index", "i32", "anyref"}
StructuredOps == {<<"structured", o, bt>> : o \in Structured, bt \in BlockTypes}
StructuredTerm(op) ==
  LET blockty == translate_block_type(op[3]) IN
  IF blockty = Unsupported THEN Unsupported ELSE <<"BI_" \o op[2]>> \o blockty

\* A br_table lists its targets and leaves its default out.
ControlOps ==
  {<<"control", o>> :
     o \in {"nop", "unreachable", "br", "br_if", "br_table", "return", "call",
            "call_indirect", "drop", "select"}} \cup
  {<<"uzumaki", t>> : t \in Ints}
ControlTerm(op) ==
  IF op[1] = "uzumaki" THEN <<"BI_uzumaki_num", op[2]>> ELSE <<"BI_" \o op[2]>>

\* Locals may carry their name in a comment.
VariableOps ==
  {<<"variable", o>> : o \in {"local_get", "local_set", "local_tee",
                              "global_get", "global_set"}}
VariableTerm(op) == <<"BI_" \o op[2]>>

Packed(t) == {"8", "16"} \cup (IF t = "i64" THEN {"32"} ELSE {})
LoadOps ==
  {<<"load", t, "full", "-">> : t \in Ints \cup Floats} \cup
  UNION {{<<"load", t, p, s>> : p \in Packed(t), s \in Signs} : t \in Ints}
LoadTerm(op) ==
  IF op[3] = "full" THEN <<"BI_load", op[2], "None">>
  ELSE <<"BI_load", op[2], "Tp_i" \o op[3], op[4]>>

StoreOps ==
  {<<"store", t, "full">> : t \in Ints \cup Floats} \cup
  UNION {{<<"store", t, p>> : p \in Packed(t)} : t \in Ints}
StoreTerm(op) ==
  IF op[3] = "full" THEN <<"BI_store", op[2], "None">>
  ELSE <<"BI_store", op[2], "Tp_i" \o op[3]>>

\* Only memory 0 is supported where the memory is looked at.
MemoryOps ==
  {<<"memory", o, m>> : o \in {"size", "grow"}, m \in {0, 1}} \cup
  {<<"const", t>> : t \in Ints \cup Floats}
MemoryTerm(op) ==
  CASE op[1] = "const" -> <<"BI_const_num", op[2]>>
    [] op[1] = "memory" /\ op[3] > 0 -> Unsupported
    [] OTHER -> <<"BI_memory_" \o op[2]>>

RelOps ==
  {<<"testop", t, "eqz">> : t \in Ints} \cup
  {<<"relop", t, o, "-">> : t \in Ints \cup Floats, o \in {"eq", "ne"}} \cup
  {<<"relop", t, o, s>> : t \in Ints, o \in {"lt", "gt", "le", "ge"}, s \in Signs} \cup
  {<<"relop", t, o, "-">> : t \in Floats, o \in {"lt", "gt", "le", "ge"}}
RelTerm(op) ==
  IF op[1] = "testop" THEN <<"BI_testop", op[2], "TO_eqz">>
  ELSE <<"BI_relop", op[2], IF op[2] \in Ints THEN "Relop_i" ELSE "Relop_f",
         "ROI_" \o op[3], op[4]>>

IntOps ==
  {<<"unop", t, o>> : t \in Ints, o \in {"clz", "ctz", "popcnt"}} \cup
  {<<"binop", t, o, "-">> :
     t \in Ints, o \in {"add", "sub", "mul", "and", "or", "xor", "shl", "rotl", "rotr"}} \cup
  {<<"binop", t, o, s>> : t \in Ints, o \in {"div", "rem", "shr"}, s \in Signs}
IntTerm(op) ==
  IF op[1] = "unop" THEN <<"BI_unop", op[2], "UOI_" \o op[3]>>
  ELSE <<"BI_binop", op[2], "BOI_" \o op[3], op[4]>>

FloatOps ==
  {<<"unop", t, o>> :
     t \in Floats, o \in {"abs", "neg", "ceil", "floor", "trunc", "nearest", "sqrt"}} \cup
  {<<"binop", t, o, "-">> :
     t \in Floats, o \in {"add", "sub", "mul", "div", "min", "max", "copysign"}}
FloatTerm(op) ==
  IF op[1] = "unop" THEN <<"BI_unop", op[2], "UOF_" \o op[3]>>
  ELSE <<"BI_binop", op[2], "BOF_" \o op[3]>>

\* Conversions; sign extension and saturating truncation are not implemented.
ConversionOps ==
  {<<"cvt", "i32", "wrap", "i64", "-">>, <<"cvt", "f32", "demote", "f64", "-">>,
   <<"cvt", "f64", "promote", "f32", "-">>} \cup
  {<<"cvt", t, "trunc", f, s>> : t \in Ints, f \in Floats, s \in Signs} \cup
  {<<"cvt", "i64", "extend", "i32", s>> : s \in Signs} \cup
  {<<"cvt", f, "convert", t, s>> : f \in Floats, t \in Ints, s \in Signs} \cup
  {<<"cvt", t[1], "reinterpret", t[2], "-">> :
     t \in {<<"i32", "f32">>, <<"i64", "f64">>, <<"f32", "i32">>, <<"f64", "i64">>}}
ConversionTerm(op) == <<"BI_cvtop", op[2], "CVO_" \o op[3], op[4], op[5]>>

\* The memories of copy, fill and init are not looked at.
BulkOps ==
  {<<"bulk", o>> : o \in {"memory_init", "data_drop", "memory_copy", "memory_fill"}} \cup
  {<<"bulk", o>> : o \in {"ref_is_null", "ref_func", "table_fill", "table_get",
                          "table_set", "table_grow", "table_size"}}
BulkTerm(op) == <<"BI_" \o op[2]>>

GcOps == {<<"gc", o>> : o \in {"ref_eq", "struct", "array", "ref_test", "ref_cast",
                               "br_on_cast", "convert", "i31", "trunc_sat", "extend_s"}}
TableOps == {<<"table", o>> : o \in {"table_init", "elem_drop", "table_copy",
                                     "typed_select", "ref_null", "return_call",
                                     "memory_discard"}}
AtomicOps == {<<"atomic", o>> : o \in {"notify", "wait", "fence", "load", "store",
                                       "rmw", "cmpxchg"}}
SharedOps == {<<"shared", o>> : o \in {"global", "table", "struct", "array"}}

Lanes == {"8", "16", "32", "64"}
VectorLoadOps ==
  {<<"v128_load">>} \cup
  {<<"v128_load_packed", w, s>> : w \in {"8", "16", "32"}, s \in Signs} \cup
  {<<"v128_load_splat", l>> : l \in Lanes} \cup
  {<<"v128_load_zero", l>> : l \in {"32", "64"}}

\* The plain vector load is the unsigned packed load of 16 bits.
VectorLoadTerm(op) ==
  CASE op[1] = "v128_load" -> <<"BI_load_vec", "LVA_packed", "Tp_i16", "U">>
    [] op[1] = "v128_load_packed" ->
         <<"BI_load_vec", "LVA_packed", "Tp_i" \o op[2], op[3]>>
    [] op[1] = "v128_load_splat" -> <<"BI_load_vec", "LVA_splat", "Twv_" \o op[2]>>
    [] OTHER -> <<"BI_load_vec", "LVA_zero", "Tztv_" \o op[2]>>

VectorLaneOps == {<<"v128_store">>} \cup
  {<<"v128_load_lane", l>> : l \in Lanes} \cup {<<"v128_store_lane", l>> : l \in Lanes}

\* A lane load is a lane store, and the plain store that of a 64 bit lane.
VectorLaneTerm(op) ==
  <<"BI_store_vec_lane", "Twv_" \o (IF op[1] = "v128_store" THEN "64" ELSE op[2])>>

Shapes == {"i8x16", "i16x8", "i32x4", "i64x2", "f32x4", "f64x2"}
Width(shape) == CASE shape = "i8x16" -> "8" [] shape = "i16x8" -> "16"
                  [] shape \in {"i32x4", "f32x4"} -> "32" [] OTHER -> "64"
SplatOps == {<<"splat", s>> : s \in Shapes}

\* A splat of a register is written like a load, by width alone.
SplatTerm(op) == <<"BI_load_vec", "LVA_splat", "Twv_" \o Width(op[2])>>

\* Only the narrow integer shapes have a signed and an unsigned extraction.
ExtractOps ==
  {<<"extract_lane", s, x>> : s \in {"i8x16", "i16x8"}, x \in Signs} \cup
  {<<"extract_lane", s, "-">> : s \in Shapes \ {"i8x16", "i16x8"}}
ReplaceOps == {<<"replace_lane", s>> : s \in Shapes} \cup {<<"v128_const">>}

\* The extractions of the wide integer shapes are written as signed ones.
ExtractTerm(op) ==
  <<"BI_extract_vec", op[2],
    IF op[3] # "-" THEN op[3] ELSE IF op[2] \in {"i32x4", "i64x2"} THEN "S" ELSE "None">>
ReplaceTerm(op) ==
  IF op[1] = "v128_const" THEN <<"BI_const_vec">> ELSE <<"BI_replace_vec", op[2]>>

VectorOps == {<<"vector", o>> : o \in {"shuffle", "compare", "bitwise", "arith", "relaxed"}}
TypedRefOps == {<<"typed", o>> : o \in {"call_ref", "ref_as_non_null", "br_on_null",
                                        "stack_switching", "wide_arithmetic",
                                        "ref_i31_shared"}}
ExceptionOps == {<<"exception", o>> : o \in {"try", "try_table", "throw", "throw_ref",
                                             "catch", "rethrow", "delegate", "catch_all"}}

-------------------------------------------------------------------------------

Operators ==
  StructuredOps \cup ControlOps \cup VariableOps \cup LoadOps \cup StoreOps \cup
  MemoryOps \cup RelOps \cup IntOps \cup FloatOps \cup ConversionOps \cup BulkOps \cup
  GcOps \cup TableOps \cup AtomicOps \cup SharedOps \cup VectorLoadOps \cup
  VectorLaneOps \cup ExtractOps \cup ReplaceOps \cup SplatOps \cup VectorOps \cup
  TypedRefOps \cup ExceptionOps

translate_basic_operator(op) ==
  CASE op \in StructuredOps -> StructuredTerm(op)
    [] op \in ControlOps -> ControlTerm(op)
    [] op \in VariableOps -> VariableTerm(op)
    [] op \in LoadOps -> LoadTerm(op)
    [] op \in StoreOps -> StoreTerm(op)
    [] op \in MemoryOps -> MemoryTerm(op)
    [] op \in RelOps -> RelTerm(op)
    [] op \in IntOps -> IntTerm(op)
    [] op \in FloatOps -> FloatTerm(op)
    [] op \in ConversionOps -> ConversionTerm(op)
    [] op \in BulkOps -> BulkTerm(op)
    [] op \in VectorLoadOps -> VectorLoadTerm(op)
    [] op \in VectorLaneOps -> VectorLaneTerm(op)
    [] op \in ExtractOps -> ExtractTerm(op)
    [] op \in ReplaceOps -> ReplaceTerm(op)
    [] op \in SplatOps -> SplatTerm(op)
    [] op \in GcOps \cup TableOps \cup VectorOps \cup TypedRefOps \cup
              ExceptionOps -> Todo
    [] OTHER -> Unsupported

Translated == {op \in Operators : translate_basic_operator(op) \notin {Todo, Unsupported}}

\* The vector operators whose terms do not tell them apart.
Confused ==
  VectorLaneOps \cup SplatOps \cup {<<"v128_load_splat", l>> : l \in Lanes} \cup
  {<<"v128_load">>, <<"v128_load_packed", "16", "U">>}

\* Outside the confused vector operators, and outside memory.size and
\* memory.grow whose index is fixed, two operators never share a term: the
\* Rocq text determines the operator it was written for.
ASSUME TermsAreDistinct ==
  \A op1, op2 \in Translated \ Confused :
    translate_basic_operator(op1) = translate_basic_operator(op2) => op1 = op2
===============================================================================
