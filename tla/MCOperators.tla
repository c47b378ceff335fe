------------------------------ MODULE MCOperators ------------------------------
(* One small module with every kind of type and item, for OperatorValidator. *)
EXTENDS OperatorValidator

MCTypes ==
    <<FuncSub(<<>>, <<>>),
      FuncSub(<<I32>>, <<I32>>),
      [StructSub(<<[ty |-> I32, mutable |-> TRUE], [ty |-> Packed("i8"), mutable |-> TRUE]>>)
          EXCEPT !.final = FALSE],
      ArraySub([ty |-> I32, mutable |-> TRUE]),
      ContSub(2),
      FuncSub(<<>>, <<ConcreteRef(FALSE, 5)>>)>>

MCFuncs == <<1, 2>>
MCTables == <<[elem |-> NullRef("func"), index |-> I32, shared |-> FALSE],
              [elem |-> AsShared(NullRef("eq")), index |-> I64, shared |-> FALSE]>>
MCMemories == <<I32>>
MCGlobals == <<[ty |-> I32, mutable |-> TRUE, shared |-> FALSE]>>
MCTags == <<1, 2>>
MCElems == <<NullRef("func")>>
MCFeatures ==
    {"simd", "relaxed_simd", "threads", "shared_everything_threads", "saturating_float_to_int",
     "reference_types", "bulk_memory", "sign_extension", "exceptions", "tail_call",
     "function_references", "memory_control", "gc", "gc_types", "legacy_exceptions",
     "stack_switching", "wide_arithmetic", "floats", "multi_value"}

MCMemArgs == {[memory |-> 1, align |-> 2, max_align |-> 2, beyond32 |-> FALSE]}
MCBlockTypes == {NoBlock, FuncBlock(2), FuncBlock(6)}
MCRefTypes == {ConcreteRef(FALSE, 3), NullRef("eq")}
MCValueTypes == {I32, ConcreteRef(FALSE, 3)}
MCCatchLists == {{[tag |-> 1, ref |-> FALSE, label |-> 0]}}
MCHandlerLists == {{[tag |-> 2, label |-> 1]}, {[tag |-> 1, label |-> -1]}}
=============================================================================
