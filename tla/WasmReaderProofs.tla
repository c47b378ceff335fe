--------------------------- MODULE WasmReaderProofs ---------------------------
EXTENDS WasmReader, SequenceTheorems, WellFoundedInduction, Integers, TLAPS

\* Induction is by the least number of a set of counterexamples.
LEMMA LeastNumber ==
  ASSUME NEW T, T \subseteq Nat, T # {}
  PROVE  \E x \in T : \A y \in T : x <= y
<1>1. PICK x \in T : \A y \in T : <<y, x>> \notin OpToRel(<, Nat)
  BY NatLessThanWellFounded, WFMin, Zenon
<1>2. ASSUME NEW y \in T PROVE x <= y
  <2>1. ~(y < x)
    BY <1>1 DEF OpToRel
  <2> QED
    BY <2>1
<1> QED
  BY <1>2

\* Induction up to n.
LEMMA Upwards ==
  ASSUME NEW n \in Nat, NEW Bad, Bad \subseteq 0..n, 0 \notin Bad,
         \A m \in 1..n : m - 1 \notin Bad => m \notin Bad
  PROVE  Bad = {}
<1> SUFFICES ASSUME Bad # {} PROVE FALSE
  OBVIOUS
<1>1. PICK m \in Bad : \A k \in Bad : m <= k
  <2>1. Bad \subseteq Nat
    OBVIOUS
  <2> QED
    BY <2>1, LeastNumber
<1>2. m \in 1..n /\ m - 1 \in 0..n /\ ~(m <= m - 1)
  BY <1>1
<1> QED
  BY <1>1, <1>2

-----------------------------------------------------------------------------
(* Items of a section.                                                     *)

Shaped(x) ==
  /\ {"state", "expected", "module", "components", "types", "bodies", "error"} \subseteq DOMAIN x
  /\ {"order", "types", "functions", "tables", "memories", "globals", "tags", "elems",
      "data_count", "segments", "expected", "imported_functions", "imported_globals",
      "references", "imports", "exports", "next_body", "shared"} \subseteq DOMAIN x.module

\* What no item changes; an error stays.
Frame(x, y) ==
  /\ Shaped(y)
  /\ x.error # "" => y.error = x.error
  /\ y.state = x.state /\ y.expected = x.expected
  /\ y.components = x.components /\ y.bodies = x.bodies
  /\ y.module.order = x.module.order /\ y.module.data_count = x.module.data_count
  /\ y.module.segments = x.module.segments /\ y.module.expected = x.module.expected
  /\ y.module.next_body = x.module.next_body /\ y.module.shared = x.module.shared

SameFunctions(x, y) ==
  /\ y.module.functions = x.module.functions
  /\ y.module.imported_functions = x.module.imported_functions

LEMMA FrameRefl == ASSUME NEW x, Shaped(x) PROVE Frame(x, x) /\ SameFunctions(x, x)
BY DEF Frame, SameFunctions

LEMMA FrameTrans ==
  ASSUME NEW x, NEW y, NEW z, Frame(x, y), Frame(y, z) PROVE Frame(x, z)
BY DEF Frame

LEMMA SameTrans ==
  ASSUME NEW x, NEW y, NEW z, SameFunctions(x, y), SameFunctions(y, z) PROVE SameFunctions(x, z)
BY DEF SameFunctions

\* A check that fails is an error, not a panic.
Stops(x, y) ==
  \/ y = x
  \/ x.error = "" /\ y = [x EXCEPT !.error = y.error] /\ y.error # "" /\ y.error # "panic"

\* A check that refuses for this reason, or does nothing.
Refuses(x, y, why) ==
  /\ why # "" /\ why # "panic"
  /\ y = x \/ (x.error = "" /\ y = [x EXCEPT !.error = why])

LEMMA StopsIs == ASSUME NEW x, Shaped(x), NEW y, NEW why, Refuses(x, y, why) PROVE Stops(x, y)
<1>1. CASE y = x
  BY <1>1 DEF Stops
<1>2. CASE x.error = "" /\ y = [x EXCEPT !.error = why] /\ why # "" /\ why # "panic"
  <2>1. y.error = why
    BY <1>2 DEF Shaped
  <2> QED
    BY <1>2, <2>1 DEF Stops
<1> QED
  BY <1>1, <1>2 DEF Refuses

LEMMA StopFacts ==
  ASSUME NEW x, Shaped(x), NEW y, Stops(x, y)
  PROVE  /\ Frame(x, y) /\ SameFunctions(x, y) /\ y.module = x.module /\ y.types = x.types
         /\ y.error = "" => y = x
         /\ y.error = "panic" => x.error = "panic"
BY DEF Stops, Frame, SameFunctions, Shaped

LEMMA StopKeeps ==
  ASSUME NEW x, Shaped(x), x.error # "panic", NEW y, Stops(x, y)
  PROVE  Shaped(y) /\ (y.error = "" => y = x) /\ y.error # "panic"
BY DEF Stops, Shaped

LEMMA ErrorFacts ==
  ASSUME NEW x, Shaped(x), NEW why, why # "", why # "panic", NEW y, y = Error(x, why)
  PROVE  Stops(x, y) /\ y.error # ""
BY DEF Error, Stops, Shaped

LEMMA AssertFacts ==
  ASSUME NEW x, Shaped(x), NEW y, y = assert_mut(x)
  PROVE  /\ Frame(x, y) /\ SameFunctions(x, y) /\ y.module = x.module
         /\ y.error = "" => y = x
         /\ y.error = x.error \/ (y.error = "panic" /\ x.module.shared)
BY DEF assert_mut, Check, Frame, SameFunctions, Shaped

LEMMA ReferenceFacts ==
  ASSUME NEW x, Shaped(x), NEW index, NEW y, y = Reference(x, index)
  PROVE  /\ Frame(x, y) /\ SameFunctions(x, y)
         /\ y.error = x.error \/ (y.error = "panic" /\ x.module.shared)
<1> DEFINE a == assert_mut(x)
<1>1. /\ Frame(x, a) /\ SameFunctions(x, a) /\ a.module = x.module
      /\ a.error = "" => a = x
      /\ a.error = x.error \/ (a.error = "panic" /\ x.module.shared)
  BY AssertFacts
<1> HIDE DEF a
<1>2. y = IF a.error # "" THEN a ELSE [a EXCEPT !.module.references = @ \cup {index}]
  BY DEF Reference, Then, a
<1>3. CASE a.error # ""
  BY <1>1, <1>2, <1>3
<1>4. CASE a.error = ""
  <2>1. a = x /\ x.error = ""
    BY <1>1, <1>4
  <2>2. y = [x EXCEPT !.module.references = @ \cup {index}]
    BY <1>2, <1>4, <2>1
  <2> QED
    BY <2>1, <2>2, ZenonT(60) DEF Frame, SameFunctions, Shaped
<1> QED
  BY <1>3, <1>4

LEMMA GetFuncTypeFacts ==
  ASSUME NEW x, Shaped(x), NEW func, NEW y, y = get_func_type(x, func)
  PROVE  /\ Frame(x, y) /\ SameFunctions(x, y) /\ y.module = x.module
         /\ y.error = "" => y = x
         /\ y.error = "panic" => x.error = "panic"
<1>1. Stops(x, y)
  BY DEF get_func_type, Check, Stops, Shaped
<1> QED
  BY <1>1, StopFacts

\* One constant operator.
LEMMA VisitConstFacts ==
  ASSUME NEW x, Shaped(x), NEW i, NEW y, y = VisitConst(x, i)
  PROVE  /\ Frame(x, y) /\ SameFunctions(x, y)
         /\ y.error # "panic" \/ x.error = "panic" \/ (x.module.shared /\ x.module.order # Order.data)
         /\ x.module.order = Order.data => y.module = x.module
<1>1. CASE i.op = "i32.const"
  BY <1>1, FrameRefl DEF VisitConst
<1>2. CASE i.op = "global.get"
  <2>1. y = validate_global(x, i.args[1])
    BY <1>2 DEF VisitConst
  <2>2. Stops(x, y)
    BY <2>1 DEF validate_global, Check, Stops, Shaped
  <2> QED
    BY <2>2, StopFacts
<1>3. CASE i.op = "ref.func"
  <2> DEFINE r == insert_ref_func(x, i.args[1])
  <2>2. /\ Frame(x, r) /\ SameFunctions(x, r)
        /\ r.error = x.error \/ (r.error = "panic" /\ x.module.shared /\ x.module.order # Order.data)
        /\ x.module.order = Order.data => r.module = x.module
    BY ReferenceFacts, FrameRefl DEF insert_ref_func
  <2> HIDE DEF r
  <2>3. Shaped(r)
    BY <2>2 DEF Frame
  <2>1. Stops(r, y)
    <3>1. y = Check(r, InBounds(x.module, "func", i.args[1]), "bounds")
      BY <1>3 DEF VisitConst, r
    <3> QED
      BY <3>1, <2>3 DEF Check, Stops, Shaped
  <2>4. /\ Frame(r, y) /\ SameFunctions(r, y) /\ y.module = r.module
        /\ y.error = "panic" => r.error = "panic"
    BY <2>1, <2>3, StopFacts
  <2> QED
    BY <2>2, <2>4, FrameTrans, SameTrans
<1>4. CASE i.op \notin {"i32.const", "global.get", "ref.func"}
  <2>1. y = Error(x, "const")
    BY <1>4 DEF VisitConst
  <2> QED
    BY <2>1, ErrorFacts, StopFacts
<1> QED
  BY <1>1, <1>2, <1>3, <1>4

\* A constant expression panics only if the module is shared before its data
\* section, or if it leaves a function unrecorded where one is expected.
LEMMA ConstFacts ==
  ASSUME NEW x, Shaped(x), NEW instrs, NEW expected, NEW y, y = check_const_expr(x, instrs, expected),
         x.module.order # Order.data \/ expected = "i32"
  PROVE  /\ Frame(x, y) /\ SameFunctions(x, y)
         /\ y.error # "panic" \/ x.error = "panic" \/ (x.module.shared /\ x.module.order # Order.data)
         /\ x.module.order = Order.data => y.module = x.module
<1>1. CASE instrs = <<>>
  BY <1>1, FrameRefl DEF check_const_expr
<1>2. CASE instrs # <<>>
  <2> DEFINE a == VisitConst(x, instrs[1])
             b == Check(a, ConstType(instrs[1]) = expected, "type")
             plain == instrs[1].op # "ref.func" \/ x.module.order # Order.data
  <2>1. /\ Frame(x, a) /\ SameFunctions(x, a)
        /\ a.error # "panic" \/ x.error = "panic" \/ (x.module.shared /\ x.module.order # Order.data)
        /\ x.module.order = Order.data => a.module = x.module
    BY VisitConstFacts
  <2>2. Shaped(a) /\ a.module.order = x.module.order
    BY <2>1 DEF Frame
  <2>3. /\ Frame(a, b) /\ SameFunctions(a, b) /\ b.module = a.module
        /\ b.error = "" => ConstType(instrs[1]) = expected
        /\ b.error = "panic" => a.error = "panic"
    <3> HIDE DEF a
    <3>1. Stops(a, b) /\ (b.error = "" => ConstType(instrs[1]) = expected)
      BY <2>2 DEF Check, Stops, Shaped
    <3> QED
      BY <2>2, <3>1, StopFacts
  <2>4. y = Check(b, instrs[1].op # "ref.func" \/ x.module.order # Order.data, "panic")
    BY <1>2 DEF check_const_expr
  <2> HIDE DEF a, b
  <2>5. Shaped(b)
    BY <2>3 DEF Frame
  <2>6. b.error = "" => instrs[1].op # "ref.func" \/ x.module.order # Order.data
    BY <2>3 DEF ConstType
  <2>7. /\ Frame(b, y) /\ SameFunctions(b, y) /\ y.module = b.module
        /\ y.error = b.error
    <3>1. y = b
      BY <2>4, <2>6 DEF Check
    <3> QED
      BY <3>1, <2>5, FrameRefl
  <2> QED
    BY <2>1, <2>3, <2>7, FrameTrans, SameTrans
<1> QED
  BY <1>1, <1>2

-----------------------------------------------------------------------------
(* One item.  It panics only if the module is shared.                      *)

Steps(x, y) ==
  /\ Frame(x, y)
  /\ y.error = "panic" => x.error = "panic" \/ x.module.shared

LEMMA StepsTrans ==
  ASSUME NEW x, NEW y, NEW z, Steps(x, y), Steps(y, z) PROVE Steps(x, z)
BY FrameTrans DEF Steps, Frame

LEMMA StepsRefl == ASSUME NEW x, Shaped(x) PROVE Steps(x, x) /\ SameFunctions(x, x)
BY FrameRefl DEF Steps

LEMMA StopSteps ==
  ASSUME NEW x, Shaped(x), NEW y, Stops(x, y)
  PROVE  Steps(x, y) /\ SameFunctions(x, y) /\ Shaped(y) /\ (y.error = "" => y = x)
<1>1. /\ Frame(x, y) /\ SameFunctions(x, y)
      /\ y.error = "" => y = x
      /\ y.error = "panic" => x.error = "panic"
  BY StopFacts
<1> QED
  BY <1>1 DEF Steps, Frame

\* assert_mut and what is done to the module then.
LEMMA MutFacts ==
  ASSUME NEW x, Shaped(x), NEW u, NEW y,
         y = IF assert_mut(x).error # "" THEN assert_mut(x) ELSE u
  PROVE  \/ Steps(x, y) /\ SameFunctions(x, y) /\ y.error # ""
         \/ x.error = "" /\ y = u /\ assert_mut(x) = x
<1> DEFINE a == assert_mut(x)
<1>1. /\ Frame(x, a) /\ SameFunctions(x, a) /\ a.module = x.module
      /\ a.error = "" => a = x
      /\ a.error = x.error \/ (a.error = "panic" /\ x.module.shared)
  BY AssertFacts
<1> HIDE DEF a
<1>2. y = IF a.error # "" THEN a ELSE u
  BY DEF a
<1>3. CASE a.error # ""
  BY <1>1, <1>2, <1>3 DEF Steps
<1>4. CASE a.error = ""
  BY <1>1, <1>2, <1>4 DEF a
<1> QED
  BY <1>3, <1>4

LEMMA AddTypesFacts ==
  ASSUME NEW x, Shaped(x), NEW group, NEW y, y = add_types(x, group)
  PROVE  Steps(x, y) /\ SameFunctions(x, y)
<1> DEFINE b == check_max(x, Len(x.module.types), Len(group.types), MaxItems)
           a == assert_mut(b)
           r == canonicalize_and_intern_rec_group(a.module.types, a.types, group)
           u == Interned(a, r)
<1>1. Stops(x, b)
  BY DEF check_max, Check, Stops, Shaped
<1>2. y = IF a.error # "" THEN a ELSE u
  BY DEF add_types, Then
<1> HIDE DEF b, r
<1>3. Steps(x, b) /\ SameFunctions(x, b) /\ Shaped(b)
  BY <1>1, StopSteps
<1>4. CASE Steps(b, y) /\ SameFunctions(b, y)
  BY <1>3, <1>4, StepsTrans, SameTrans
<1>5. CASE b.error = "" /\ y = u /\ a = b
  <2>1. y = [b EXCEPT !.types = r.types, !.module.types = r.ids, !.error = IF r.ok THEN "" ELSE "type"]
    BY <1>5 DEF Interned
  <2> DEFINE m == [b.module EXCEPT !.types = r.ids]
             e == IF r.ok THEN "" ELSE "type"
  <2>2. y = [b EXCEPT !.types = r.types, !.module = m, !.error = e]
    BY <2>1, <1>3 DEF Shaped
  <2>3. /\ DOMAIN m = DOMAIN b.module
        /\ m.order = b.module.order /\ m.data_count = b.module.data_count
        /\ m.segments = b.module.segments /\ m.expected = b.module.expected
        /\ m.next_body = b.module.next_body /\ m.shared = b.module.shared
        /\ m.functions = b.module.functions
        /\ m.imported_functions = b.module.imported_functions
    BY <1>3 DEF Shaped
  <2>4. e # "panic"
    OBVIOUS
  <2> HIDE DEF m, e
  <2>5. Steps(b, y) /\ SameFunctions(b, y)
    BY <2>2, <2>3, <2>4, <1>3, <1>5 DEF Steps, Frame, SameFunctions, Shaped
  <2> QED
    BY <2>5, <1>4
<1> HIDE DEF u
<1> QED
  BY <1>2, <1>3, <1>4, <1>5, MutFacts

\* A function is imported, or none is.
Imports(x, y) ==
  \/ SameFunctions(x, y)
  \/ /\ y.module.imported_functions = x.module.imported_functions + 1
     /\ \E f : y.module.functions = Append(x.module.functions, f)

LEMMA AddImportFacts ==
  ASSUME NEW x, Shaped(x), NEW i, NEW y, y = add_import(x, i)
  PROVE  Steps(x, y) /\ Imports(x, y)
<1> DEFINE b == check_type_ref(x, i)
           a == assert_mut(b)
           u == [a EXCEPT !.module = Imported(@, i)]
           c == IF a.error # "" THEN a ELSE u
<1>1. Stops(x, b)
  <2>1. CASE i.kind = "func"
    BY <2>1 DEF check_type_ref, Check, Stops, Shaped
  <2>2. CASE i.kind = "tag"
    <3>1. b = check_tag_type(x, i.type)
      BY <2>2 DEF check_type_ref
    <3> QED
      BY <3>1 DEF check_tag_type, Check, Stops, Shaped
  <2>3. CASE i.kind # "func" /\ i.kind # "tag"
    BY <2>3 DEF check_type_ref, Stops
  <2> QED
    BY <2>1, <2>2, <2>3
<1>3. Steps(x, b) /\ SameFunctions(x, b) /\ Shaped(b)
  <2> HIDE DEF b
  <2> QED
    BY <1>1, StopSteps
<1>4. Steps(b, c) /\ Imports(b, c)
  <2>1. CASE Steps(b, c) /\ SameFunctions(b, c)
    BY <2>1 DEF Imports
  <2>2. CASE b.error = "" /\ c = u /\ a = b
    <3> HIDE DEF a, b
    <3> DEFINE n == Imported(b.module, i)
    <3>1. c = [b EXCEPT !.module = n]
      BY <2>2, <1>3 DEF Shaped
    <3> DEFINE m == [b.module EXCEPT !.imports = Append(@, i.name)]
    <3>2. /\ DOMAIN m = DOMAIN b.module
          /\ m.order = b.module.order /\ m.data_count = b.module.data_count
          /\ m.segments = b.module.segments /\ m.expected = b.module.expected
          /\ m.next_body = b.module.next_body /\ m.shared = b.module.shared
          /\ m.functions = b.module.functions
          /\ m.imported_functions = b.module.imported_functions
      BY <1>3 DEF Shaped
    <3>a. n = CASE i.kind = "func" -> [m EXCEPT !.functions = Append(@, i.type), !.imported_functions = @ + 1]
                [] i.kind = "table" -> [m EXCEPT !.tables = @ + 1]
                [] i.kind = "memory" -> [m EXCEPT !.memories = @ + 1]
                [] i.kind = "tag" -> [m EXCEPT !.tags = Append(@, m.types[i.type + 1])]
                [] OTHER -> [m EXCEPT !.globals = Append(@, i.mutable), !.imported_globals = @ + 1]
      BY DEF Imported
    <3> HIDE DEF n, m
    <3>3. \/ /\ n.functions = m.functions
             /\ n.imported_functions = m.imported_functions
          \/ /\ n.imported_functions = m.imported_functions + 1
             /\ n.functions = Append(m.functions, i.type)
      BY <3>a, <3>2, <1>3 DEF Shaped
    <3>4. /\ DOMAIN n = DOMAIN b.module
          /\ n.order = b.module.order /\ n.data_count = b.module.data_count
          /\ n.segments = b.module.segments /\ n.expected = b.module.expected
          /\ n.next_body = b.module.next_body /\ n.shared = b.module.shared
      BY <3>a, <3>2, <1>3 DEF Shaped
    <3>6. Steps(b, c) /\ c.module = n
      BY <3>1, <3>4, <1>3, <2>2 DEF Steps, Frame, Shaped
    <3>7. Imports(b, c)
      BY <3>2, <3>3, <3>6 DEF Imports, SameFunctions
    <3> QED
      BY <3>6, <3>7
  <2> HIDE DEF b, u
  <2> QED
    BY <1>3, <2>1, <2>2, MutFacts
<1>2. Stops(c, y)
  <2>1. y = IF c.error # "" THEN c
            ELSE check_max(c, Count(c.module, i.kind), 0, IF i.kind = "memory" THEN MaxMemories ELSE MaxItems)
    BY DEF add_import, Then
  <2> HIDE DEF c
  <2>2. Refuses(c, y, "limit")
    BY <2>1 DEF check_max, Check, Refuses
  <2> QED
    BY <2>2, <1>4, StopsIs DEF Steps, Frame
<1> HIDE DEF c
<1>5. Steps(c, y) /\ SameFunctions(c, y)
  BY <1>2, <1>4, StopSteps, ZenonT(60) DEF Steps, Frame
<1>6. Steps(x, y)
  BY <1>3, <1>4, <1>5, StepsTrans
<1>7. Imports(x, y)
  BY <1>3, <1>4, <1>5 DEF Imports, SameFunctions
<1> QED
  BY <1>6, <1>7

LEMMA AddFunctionFacts ==
  ASSUME NEW x, Shaped(x), NEW f, NEW y, y = add_function(x, f)
  PROVE  /\ Steps(x, y)
         /\ y.error = "" => /\ y.module.imported_functions = x.module.imported_functions
                            /\ y.module.functions = Append(x.module.functions, f.type)
<1> DEFINE b == Check(x, IsFuncType(x, f.type), "bounds")
           a == assert_mut(b)
           u == [a EXCEPT !.module.functions = Append(@, f.type)]
<1>1. Stops(x, b)
  BY DEF Check, Stops, Shaped
<1>2. y = IF a.error # "" THEN a ELSE u
  BY DEF add_function, Then
<1> HIDE DEF b
<1>3. Steps(x, b) /\ SameFunctions(x, b) /\ Shaped(b)
  BY <1>1, StopSteps
<1>4. CASE Steps(b, y) /\ SameFunctions(b, y) /\ y.error # ""
  BY <1>3, <1>4, StepsTrans
<1>5. CASE b.error = "" /\ y = u /\ a = b
  <2>1. y = [b EXCEPT !.module.functions = Append(@, f.type)]
    BY <1>5
  <2>2. Steps(b, y) /\ y.module.functions = Append(b.module.functions, f.type)
        /\ y.module.imported_functions = b.module.imported_functions
    BY <2>1, <1>3, <1>5, ZenonT(60) DEF Steps, Frame, Shaped
  <2> QED
    BY <2>2, <1>3, StepsTrans DEF SameFunctions
<1> HIDE DEF u
<1> QED
  BY <1>2, <1>3, <1>4, <1>5, MutFacts

\* An item that changes neither the functions nor what Frame names.
LEMMA PlainFacts ==
  ASSUME NEW x, NEW b, Steps(x, b), SameFunctions(x, b), NEW u, NEW y,
         y = IF assert_mut(b).error # "" THEN assert_mut(b) ELSE u,
         b.error = "" /\ assert_mut(b) = b => Steps(b, u) /\ SameFunctions(b, u)
  PROVE  Steps(x, y) /\ SameFunctions(x, y)
<1>1. Shaped(b)
  BY DEF Steps, Frame
<1>2. \/ Steps(b, y) /\ SameFunctions(b, y) /\ y.error # ""
      \/ b.error = "" /\ y = u /\ assert_mut(b) = b
  BY <1>1, MutFacts
<1> QED
  BY <1>2, StepsTrans, SameTrans

LEMMA ConstSteps ==
  ASSUME NEW x, Shaped(x), NEW instrs, NEW expected, NEW y, y = check_const_expr(x, instrs, expected),
         x.module.order # Order.data
  PROVE  Steps(x, y) /\ SameFunctions(x, y) /\ Shaped(y)
<1>1. /\ Frame(x, y) /\ SameFunctions(x, y)
      /\ y.error # "panic" \/ x.error = "panic" \/ (x.module.shared /\ x.module.order # Order.data)
  BY ConstFacts
<1> QED
  BY <1>1 DEF Steps, Frame

LEMMA AddTableFacts ==
  ASSUME NEW x, Shaped(x), x.module.order # Order.data, NEW t, NEW y, y = add_table(x, t)
  PROVE  Steps(x, y) /\ SameFunctions(x, y)
<1> DEFINE b == check_const_expr(x, t.instrs, "funcref")
           a == assert_mut(b)
           u == [a EXCEPT !.module.tables = @ + 1]
<1>1. y = IF a.error # "" THEN a ELSE u
  BY DEF add_table, Then
<1>2. Steps(x, b) /\ SameFunctions(x, b) /\ Shaped(b)
  BY ConstSteps
<1> HIDE DEF b
<1>3. b.error = "" /\ a = b => Steps(b, u) /\ SameFunctions(b, u)
  BY <1>2 DEF Steps, Frame, SameFunctions, Shaped
<1> HIDE DEF u
<1> QED
  BY <1>1, <1>2, <1>3, PlainFacts

LEMMA AddMemoryFacts ==
  ASSUME NEW x, Shaped(x), NEW t, NEW y, y = add_memory(x, t)
  PROVE  Steps(x, y) /\ SameFunctions(x, y)
<1> DEFINE a == assert_mut(x)
           u == [a EXCEPT !.module.memories = @ + 1]
<1>1. y = IF a.error # "" THEN a ELSE u
  BY DEF add_memory, Then
<1>2. Steps(x, x) /\ SameFunctions(x, x)
  BY StepsRefl
<1>3. x.error = "" /\ a = x => Steps(x, u) /\ SameFunctions(x, u)
  <2> HIDE DEF a
  <2> QED
    BY DEF Steps, Frame, SameFunctions, Shaped
<1> HIDE DEF u
<1> QED
  BY <1>1, <1>2, <1>3, PlainFacts

LEMMA TagTypeFacts ==
  ASSUME NEW x, Shaped(x), NEW index, NEW y, y = check_tag_type(x, index)
  PROVE  Stops(x, y)
BY DEF check_tag_type, Check, Stops, Shaped

LEMMA AddTagFacts ==
  ASSUME NEW x, Shaped(x), NEW t, NEW y, y = add_tag(x, t)
  PROVE  Steps(x, y) /\ SameFunctions(x, y)
<1> DEFINE b == check_tag_type(x, t.type)
           a == assert_mut(b)
           u == [a EXCEPT !.module.tags = Append(@, a.module.types[t.type + 1])]
<1>1. y = IF a.error # "" THEN a ELSE u
  BY DEF add_tag, Then
<1>2. Steps(x, b) /\ SameFunctions(x, b) /\ Shaped(b)
  BY TagTypeFacts, StopSteps
<1> HIDE DEF b
<1>3. b.error = "" /\ a = b => Steps(b, u) /\ SameFunctions(b, u)
  BY <1>2 DEF Steps, Frame, SameFunctions, Shaped
<1> HIDE DEF u
<1> QED
  BY <1>1, <1>2, <1>3, PlainFacts

LEMMA AddGlobalFacts ==
  ASSUME NEW x, Shaped(x), x.module.order # Order.data, NEW g, NEW y, y = add_global(x, g)
  PROVE  Steps(x, y) /\ SameFunctions(x, y)
<1> DEFINE b == check_const_expr(x, g.instrs, "i32")
           a == assert_mut(b)
           u == [a EXCEPT !.module.globals = Append(@, g.mutable)]
<1>1. y = IF a.error # "" THEN a ELSE u
  BY DEF add_global, Then
<1>2. Steps(x, b) /\ SameFunctions(x, b) /\ Shaped(b)
  BY ConstSteps
<1> HIDE DEF b
<1>3. b.error = "" /\ a = b => Steps(b, u) /\ SameFunctions(b, u)
  BY <1>2 DEF Steps, Frame, SameFunctions, Shaped
<1> HIDE DEF u
<1> QED
  BY <1>1, <1>2, <1>3, PlainFacts

LEMMA ReferenceSteps ==
  ASSUME NEW x, Shaped(x), NEW index, NEW y, y = Reference(x, index)
  PROVE  Steps(x, y) /\ SameFunctions(x, y)
BY ReferenceFacts DEF Steps

LEMMA AddExportFacts ==
  ASSUME NEW x, Shaped(x), NEW e, NEW y, y = add_export(x, e)
  PROVE  Steps(x, y) /\ SameFunctions(x, y)
<1> DEFINE b == Check(x, InBounds(x.module, e.kind, e.index), "bounds")
           a == assert_mut(b)
           t == IF e.kind = "func" THEN Reference(a, e.index) ELSE a
           c == IF a.error # "" THEN a ELSE t
           d == IF c.error # "" THEN c ELSE [c EXCEPT !.module.exports = @ \cup {e.name}]
<1>1. Stops(x, b)
  BY DEF Check, Stops, Shaped
<1>2. Steps(x, b) /\ SameFunctions(x, b) /\ Shaped(b)
  <2> HIDE DEF b
  <2> QED
    BY <1>1, StopSteps
<1>3. y = Check(d, e.name \notin x.module.exports, "name")
  BY DEF add_export, export_to_entity_type, Then
<1> HIDE DEF b
<1>4. b.error = "" /\ a = b => Steps(b, t) /\ SameFunctions(b, t)
  BY <1>2, ReferenceSteps, StepsRefl
<1>5. Steps(x, c) /\ SameFunctions(x, c)
  <2> HIDE DEF t
  <2> QED
    BY <1>2, <1>4, PlainFacts
<1> HIDE DEF c
<1>6. Steps(c, d) /\ SameFunctions(c, d)
  BY <1>5 DEF Steps, Frame, SameFunctions, Shaped
<1>7. Stops(d, y) /\ Shaped(d)
  <2> HIDE DEF d
  <2>1. Shaped(d)
    BY <1>6 DEF Steps, Frame
  <2> QED
    BY <2>1, <1>3 DEF Check, Stops, Shaped
<1> HIDE DEF d
<1>8. Steps(d, y) /\ SameFunctions(d, y)
  BY <1>7, StopSteps
<1>9. Steps(x, y)
  BY <1>5, <1>6, <1>8, StepsTrans
<1> QED
  BY <1>5, <1>6, <1>8, <1>9 DEF SameFunctions

\* A data segment changes nothing.
LEMMA AddDataFacts ==
  ASSUME NEW x, Shaped(x), x.module.order = Order.data, NEW d, NEW y, y = add_data_segment(x, d)
  PROVE  /\ Frame(x, y) /\ y.module = x.module
         /\ y.error = "panic" => x.error = "panic"
<1>1. CASE d.mode # "active"
  BY <1>1, FrameRefl DEF add_data_segment
<1>2. CASE d.mode = "active"
  <2> DEFINE b == Check(x, InBounds(x.module, "memory", d.target), "bounds")
             c == check_const_expr(b, d.offset, "i32")
  <2>1. Stops(x, b)
    BY DEF Check, Stops, Shaped
  <2>2. y = IF b.error # "" THEN b ELSE c
    BY <1>2 DEF add_data_segment, Then
  <2> HIDE DEF b
  <2>3. /\ Frame(x, b) /\ b.module = x.module
        /\ b.error = "" => b = x
        /\ b.error = "panic" => x.error = "panic"
    BY <2>1, StopFacts
  <2>4. Shaped(b)
    BY <2>3 DEF Frame
  <2>5. /\ Frame(b, c) /\ SameFunctions(b, c)
        /\ c.error # "panic" \/ b.error = "panic" \/ (b.module.shared /\ b.module.order # Order.data)
        /\ b.module.order = Order.data => c.module = b.module
    <3>1. PICK i32 : i32 = "i32"
      OBVIOUS
    <3>2. c = check_const_expr(b, d.offset, i32)
      BY <3>1
    <3> HIDE DEF c
    <3> QED
      BY <2>4, <3>1, <3>2, ConstFacts
  <2> HIDE DEF c
  <2>6. c.module = b.module /\ (c.error = "panic" => b.error = "panic")
    BY <2>3, <2>5
  <2>7. Frame(x, y)
    BY <2>2, <2>3, <2>5, FrameTrans
  <2> QED
    BY <2>2, <2>3, <2>6, <2>7
<1> QED
  BY <1>1, <1>2

\* The functions of an element segment, one after the other.
ElementStep(w, f) ==
  LET g == get_func_type(w, f) IN IF g.error # "" THEN g ELSE Reference(g, f)

Elements(s, base, items) ==
  s = [k \in 0..Len(items) |-> IF k = 0 THEN base ELSE ElementStep(s[k - 1], items[k])]

LEMMA ElementsExist ==
  ASSUME NEW base, NEW items, Len(items) \in Nat
  PROVE  \E s : Elements(s, base, items)
<1> DEFINE n == Len(items)
           Upto(m, s) == /\ s = [k \in 0..n |-> s[k]] /\ s[0] = base
                         /\ \A k \in 1..m : s[k] = ElementStep(s[k - 1], items[k])
           Bad == {m \in 0..n : ~ \E s : Upto(m, s)}
<1> HIDE DEF n
<1>n. n \in Nat
  BY DEF n
<1>1. Upto(0, [k \in 0..n |-> base])
  BY <1>n
<1>2. ASSUME NEW m \in 1..n, NEW s, Upto(m - 1, s) PROVE \E t : Upto(m, t)
  <2> DEFINE t == [k \in 0..n |-> IF k = m THEN ElementStep(s[m - 1], items[m]) ELSE s[k]]
  <2>1. m \in 0..n /\ m - 1 \in 0..n /\ m # 0
    BY <1>n
  <2>2. t = [k \in 0..n |-> t[k]] /\ t[0] = base
    BY <1>2, <2>1, <1>n
  <2>3. ASSUME NEW k \in 1..m PROVE t[k] = ElementStep(t[k - 1], items[k])
    <3>1. k \in 0..n /\ k - 1 \in 0..n /\ k - 1 # m
      BY <1>n
    <3>2. t[k - 1] = s[k - 1]
      BY <1>2, <3>1
    <3>3. CASE k = m
      BY <1>2, <2>1, <3>2, <3>3
    <3>4. CASE k # m
      <4>1. k \in 1..(m - 1)
        BY <3>4
      <4>2. t[k] = s[k]
        BY <1>2, <3>1, <3>4
      <4> QED
        BY <1>2, <4>1, <4>2, <3>2
    <3> QED
      BY <3>3, <3>4
  <2> HIDE DEF t
  <2>4. Upto(m, t)
    BY <2>2, <2>3
  <2> QED
    BY <2>4
<1>3. Bad = {}
  <2>1. ASSUME NEW m \in 1..n, m - 1 \notin Bad PROVE m \notin Bad
    <3>1. m - 1 \in 0..n
      BY <1>n
    <3> HIDE DEF Upto
    <3>2. \E s : Upto(m - 1, s)
      BY <2>1, <3>1
    <3> QED
      BY <3>2, <1>2
  <2>2. 0 \notin Bad /\ Bad \subseteq 0..n
    BY <1>1
  <2> HIDE DEF Bad
  <2> QED
    BY <2>1, <2>2, <1>n, Upwards
<1>4. n \in 0..n
  BY <1>n
<1>5. PICK s : Upto(n, s)
  <2> HIDE DEF Upto
  <2> QED
    BY <1>3, <1>4
<1>6. s = [k \in 0..n |-> IF k = 0 THEN base ELSE ElementStep(s[k - 1], items[k])]
  <2>1. ASSUME NEW k \in 0..n
        PROVE  s[k] = IF k = 0 THEN base ELSE ElementStep(s[k - 1], items[k])
    <3>1. k = 0 \/ k \in 1..n
      BY <1>n
    <3> QED
      BY <3>1, <1>5
  <2> QED
    BY <2>1, <1>5
<1> QED
  BY <1>6 DEF Elements, n

LEMMA ElementStepFacts ==
  ASSUME NEW x, Shaped(x), NEW f, NEW y, y = ElementStep(x, f)
  PROVE  Steps(x, y) /\ SameFunctions(x, y)
<1> DEFINE g == get_func_type(x, f)
<1>1. Stops(x, g)
  BY DEF get_func_type, Check, Stops, Shaped
<1>2. y = IF g.error # "" THEN g ELSE Reference(g, f)
  BY DEF ElementStep
<1> HIDE DEF g
<1>3. Steps(x, g) /\ SameFunctions(x, g) /\ Shaped(g)
  BY <1>1, StopSteps
<1>4. Steps(g, y) /\ SameFunctions(g, y)
  BY <1>2, <1>3, StepsRefl, ReferenceSteps
<1> QED
  BY <1>3, <1>4, StepsTrans, SameTrans

LEMMA AddElementFacts ==
  ASSUME NEW x, Shaped(x), x.module.order # Order.data, NEW e, Len(e.items) \in Nat,
         NEW y, y = add_element_segment(x, e)
  PROVE  Steps(x, y) /\ SameFunctions(x, y)
<1> DEFINE n == Len(e.items)
           Active == IF e.mode # "active" THEN x
                     ELSE Then(Check(x, InBounds(x.module, "table", e.target), "bounds"),
                               LAMBDA w : check_const_expr(w, e.offset, "i32"))
           added == CHOOSE s : Elements(s, Active, e.items)
           a == assert_mut(added[n])
           u == [a EXCEPT !.module.elems = @ + 1]
<1>1. y = IF a.error # "" THEN a ELSE u
  BY DEF add_element_segment, Then, Elements, ElementStep
<1>2. Steps(x, Active) /\ SameFunctions(x, Active) /\ Shaped(Active)
  <2>1. CASE e.mode # "active"
    BY <2>1, StepsRefl
  <2>2. CASE e.mode = "active"
    <3> DEFINE b == Check(x, InBounds(x.module, "table", e.target), "bounds")
               c == check_const_expr(b, e.offset, "i32")
    <3>1. Stops(x, b)
      BY DEF Check, Stops, Shaped
    <3>2. Active = IF b.error # "" THEN b ELSE c
      BY <2>2 DEF Then
    <3> HIDE DEF b, Active
    <3>3. Steps(x, b) /\ SameFunctions(x, b) /\ Shaped(b)
      BY <3>1, StopSteps
    <3>4. b.module.order # Order.data
      BY <3>3 DEF Steps, Frame
    <3>5. Steps(b, c) /\ SameFunctions(b, c) /\ Shaped(c)
      BY <3>3, <3>4, ConstSteps
    <3> HIDE DEF c
    <3> QED
      BY <3>2, <3>3, <3>5, StepsTrans, SameTrans
  <2> QED
    BY <2>1, <2>2
<1> HIDE DEF Active
<1>3. Elements(added, Active, e.items)
  BY ElementsExist
<1> HIDE DEF added
<1>4. Steps(x, added[n]) /\ SameFunctions(x, added[n])
  <2> DEFINE Good(k) == Steps(x, added[k]) /\ SameFunctions(x, added[k])
             Bad == {k \in 0..n : ~Good(k)}
  <2>1. ASSUME NEW k \in 0..n
        PROVE  added[k] = IF k = 0 THEN Active ELSE ElementStep(added[k - 1], e.items[k])
    BY <1>3 DEF Elements
  <2> HIDE DEF n
  <2>2. n \in Nat /\ 0 \in 0..n /\ n \in 0..n
    BY DEF n
  <2>3. Good(0)
    BY <1>2, <2>1, <2>2
  <2>4. ASSUME NEW m \in 1..n, Good(m - 1) PROVE Good(m)
    <3>1. m \in 0..n /\ m # 0
      BY <2>2
    <3>2. added[m] = ElementStep(added[m - 1], e.items[m])
      BY <2>1, <3>1
    <3>3. Shaped(added[m - 1])
      BY <2>4 DEF Steps, Frame
    <3>4. Steps(added[m - 1], added[m]) /\ SameFunctions(added[m - 1], added[m])
      BY <3>2, <3>3, ElementStepFacts
    <3> QED
      BY <2>4, <3>4, StepsTrans, SameTrans
  <2> HIDE DEF Good
  <2>5. Bad \subseteq 0..n /\ 0 \notin Bad
    BY <2>3
  <2>6. ASSUME NEW m \in 1..n, m - 1 \notin Bad PROVE m \notin Bad
    <3>1. m - 1 \in 0..n
      BY <2>2
    <3> QED
      BY <2>4, <2>6, <3>1
  <2>7. Bad = {}
    <3> HIDE DEF Bad
    <3> QED
      BY <2>2, <2>5, <2>6, Upwards
  <2>8. Good(n)
    BY <2>2, <2>7
  <2> QED
    BY <2>8 DEF Good
<1>5. Shaped(added[n])
  BY <1>4 DEF Steps, Frame
<1> HIDE DEF n
<1>6. added[n].error = "" /\ a = added[n] => Steps(added[n], u) /\ SameFunctions(added[n], u)
  BY <1>5, ZenonT(60) DEF Steps, Frame, SameFunctions, Shaped
<1> HIDE DEF u
<1> QED
  BY <1>1, <1>4, <1>6, PlainFacts, ZenonT(60)

-----------------------------------------------------------------------------
(* A section.                                                              *)

Kinds == {"type", "import", "func", "table", "memory", "tag", "global", "export", "elem", "data"}

\* What an item of a section does to the functions.
Counts(kind, x, y) ==
  CASE kind = "func" ->
         y.error = "" => /\ y.module.imported_functions = x.module.imported_functions
                         /\ \E f : y.module.functions = Append(x.module.functions, f)
    [] kind = "import" -> Imports(x, y)
    [] OTHER -> SameFunctions(x, y)

\* The functions of an element are a list.
Listed(item) == item # <<>> /\ "items" \in DOMAIN item[1] => Len(item[1].items) \in Nat

LEMMA AddItemFacts ==
  ASSUME NEW kind \in Kinds \ {"data"}, NEW x, Shaped(x), x.module.order = Order[kind],
         NEW item, kind = "elem" => Len(item.items) \in Nat, NEW y, y = AddItem(kind, x, item)
  PROVE  Steps(x, y) /\ Counts(kind, x, y)
<1>1. x.module.order # Order.data
  BY DEF Kinds, Order
<1>2. CASE kind = "type"
  <2>1. y = add_types(x, item)
    BY <1>2 DEF AddItem
  <2> QED
    BY <2>1, <1>2, AddTypesFacts DEF Counts
<1>3. CASE kind = "import"
  <2>1. y = add_import(x, item)
    BY <1>3 DEF AddItem
  <2> QED
    BY <2>1, <1>3, AddImportFacts DEF Counts
<1>4. CASE kind = "func"
  <2>1. y = add_function(x, item)
    BY <1>4 DEF AddItem
  <2>2. /\ Steps(x, y)
        /\ y.error = "" => /\ y.module.imported_functions = x.module.imported_functions
                           /\ y.module.functions = Append(x.module.functions, item.type)
    BY <2>1, AddFunctionFacts
  <2> QED
    BY <2>2, <1>4 DEF Counts
<1>5. CASE kind \in {"table", "memory", "tag", "global", "export", "elem"}
  <2>1. Steps(x, y) /\ SameFunctions(x, y)
    <3>1. CASE kind = "table"
      <4>1. y = add_table(x, item)
        BY <3>1 DEF AddItem
      <4> QED
        BY <4>1, <1>1, AddTableFacts
    <3>2. CASE kind = "memory"
      <4>1. y = add_memory(x, item)
        BY <3>2 DEF AddItem
      <4> QED
        BY <4>1, AddMemoryFacts
    <3>3. CASE kind = "tag"
      <4>1. y = add_tag(x, item)
        BY <3>3 DEF AddItem
      <4> QED
        BY <4>1, AddTagFacts
    <3>4. CASE kind = "global"
      <4>1. y = add_global(x, item)
        BY <3>4 DEF AddItem
      <4> QED
        BY <4>1, <1>1, AddGlobalFacts
    <3>5. CASE kind = "export"
      <4>1. y = add_export(x, item)
        BY <3>5 DEF AddItem
      <4> QED
        BY <4>1, AddExportFacts
    <3>6. CASE kind = "elem"
      <4>1. y = add_element_segment(x, item)
        BY <3>6 DEF AddItem
      <4> QED
        BY <4>1, <3>6, <1>1, AddElementFacts
    <3> QED
      BY <1>5, <3>1, <3>2, <3>3, <3>4, <3>5, <3>6
  <2> QED
    BY <2>1, <1>5 DEF Counts
<1> QED
  BY <1>2, <1>3, <1>4, <1>5 DEF Kinds

\* One cell after the other.
ItemStep(kind, w, cell) ==
  LET c == Check(w, Readable(kind, cell.item), "binary")
  IN  IF c.error # "" THEN c ELSE AddItem(kind, c, cell.item[1])

ItemLoop(s, kind, base, cells, n) ==
  s = [k \in 0..n |-> IF k = 0 THEN base ELSE ItemStep(kind, s[k - 1], cells[k])]

LEMMA ItemLoopExists ==
  ASSUME NEW kind, NEW base, NEW cells, NEW n \in Nat
  PROVE  \E s : ItemLoop(s, kind, base, cells, n)
<1> DEFINE Upto(m, s) == /\ s = [k \in 0..n |-> s[k]] /\ s[0] = base
                         /\ \A k \in 1..m : s[k] = ItemStep(kind, s[k - 1], cells[k])
           Bad == {m \in 0..n : ~ \E s : Upto(m, s)}
<1>1. Upto(0, [k \in 0..n |-> base])
  OBVIOUS
<1>2. ASSUME NEW m \in 1..n, NEW s, Upto(m - 1, s) PROVE \E t : Upto(m, t)
  <2> DEFINE t == [k \in 0..n |-> IF k = m THEN ItemStep(kind, s[m - 1], cells[m]) ELSE s[k]]
  <2>1. m \in 0..n /\ m - 1 \in 0..n /\ m # 0
    OBVIOUS
  <2>2. t = [k \in 0..n |-> t[k]] /\ t[0] = base
    BY <1>2, <2>1
  <2>3. ASSUME NEW k \in 1..m PROVE t[k] = ItemStep(kind, t[k - 1], cells[k])
    <3>1. k \in 0..n /\ k - 1 \in 0..n /\ k - 1 # m
      OBVIOUS
    <3>2. t[k - 1] = s[k - 1]
      BY <1>2, <3>1
    <3>3. CASE k = m
      BY <1>2, <2>1, <3>2, <3>3
    <3>4. CASE k # m
      <4>1. k \in 1..(m - 1)
        BY <3>4
      <4>2. t[k] = s[k]
        BY <1>2, <3>1, <3>4
      <4> QED
        BY <1>2, <4>1, <4>2, <3>2
    <3> QED
      BY <3>3, <3>4
  <2> HIDE DEF t
  <2>4. Upto(m, t)
    BY <2>2, <2>3
  <2> QED
    BY <2>4
<1>3. Bad = {}
  <2>1. ASSUME NEW m \in 1..n, m - 1 \notin Bad PROVE m \notin Bad
    <3>1. m - 1 \in 0..n
      OBVIOUS
    <3> HIDE DEF Upto
    <3>2. \E s : Upto(m - 1, s)
      BY <2>1, <3>1
    <3> QED
      BY <3>2, <1>2
  <2>2. 0 \notin Bad /\ Bad \subseteq 0..n
    BY <1>1
  <2> HIDE DEF Bad
  <2> QED
    BY <2>1, <2>2, Upwards
<1>4. n \in 0..n
  OBVIOUS
<1>5. PICK s : Upto(n, s)
  <2> HIDE DEF Upto
  <2> QED
    BY <1>3, <1>4
<1>6. s = [k \in 0..n |-> IF k = 0 THEN base ELSE ItemStep(kind, s[k - 1], cells[k])]
  <2>1. ASSUME NEW k \in 0..n
        PROVE  s[k] = IF k = 0 THEN base ELSE ItemStep(kind, s[k - 1], cells[k])
    <3>1. k = 0 \/ k \in 1..n
      OBVIOUS
    <3> QED
      BY <3>1, <1>5
  <2> QED
    BY <2>1, <1>5
<1> QED
  BY <1>6 DEF ItemLoop

LEMMA ItemStepFacts ==
  ASSUME NEW kind \in Kinds \ {"data"}, NEW x, Shaped(x), x.module.order = Order[kind],
         NEW cell, Listed(cell.item), NEW y, y = ItemStep(kind, x, cell)
  PROVE  Steps(x, y) /\ Counts(kind, x, y) /\ (y.error = "" => x.error = "")
<1> DEFINE c == Check(x, Readable(kind, cell.item), "binary")
<1>1. Stops(x, c) /\ (c.error = "" => Readable(kind, cell.item))
  BY DEF Check, Stops, Shaped
<1>2. y = IF c.error # "" THEN c ELSE AddItem(kind, c, cell.item[1])
  BY DEF ItemStep
<1> HIDE DEF c
<1>3. Steps(x, c) /\ SameFunctions(x, c) /\ Shaped(c) /\ (c.error = "" => c = x)
  BY <1>1, StopSteps
<1>4. CASE c.error # ""
  BY <1>2, <1>3, <1>4 DEF Counts, Imports
<1>5. CASE c.error = ""
  <2>1. y = AddItem(kind, x, cell.item[1]) /\ x.error = ""
    BY <1>2, <1>3, <1>5
  <2>2. kind = "elem" => Len(cell.item[1].items) \in Nat
    BY <1>1, <1>5 DEF Listed, Readable
  <2> QED
    BY <2>1, <2>2, AddItemFacts
<1> QED
  BY <1>4, <1>5

\* The functions of a module are a sequence, the imported ones among them.
Functions(m) == (\E S : m.functions \in Seq(S)) /\ m.imported_functions \in Nat

LEMMA AppendIs ==
  ASSUME NEW s, \E S : s \in Seq(S), NEW e
  PROVE  (\E S : Append(s, e) \in Seq(S)) /\ Len(Append(s, e)) = Len(s) + 1 /\ Len(s) \in Nat
<1>1. PICK S : s \in Seq(S)
  OBVIOUS
<1>2. s \in Seq(S \cup {e}) /\ e \in S \cup {e}
  <2>1. DOMAIN s = 1..Len(s) /\ Len(s) \in Nat /\ \A i \in 1..Len(s) : s[i] \in S
    BY <1>1
  <2> QED
    BY <1>1, <2>1, SeqDef
<1>3. Append(s, e) \in Seq(S \cup {e}) /\ Len(Append(s, e)) = Len(s) + 1 /\ Len(s) \in Nat
  BY <1>2
<1> QED
  BY <1>3

Own(m) == Len(m.functions) - m.imported_functions

LEMMA OwnIs ==
  ASSUME NEW m, Functions(m) PROVE Own(m) \in Int /\ Len(m.functions) \in Nat
<1>1. PICK S : m.functions \in Seq(S)
  BY DEF Functions
<1>2. Len(m.functions) \in Nat
  BY <1>1
<1> QED
  BY <1>2 DEF Own, Functions

\* The module n has k functions of its own more than m after a function section.
Gains(kind, m, n, k) ==
  /\ kind = "func" => Own(n) = Own(m) + k
  /\ kind # "func" => Own(n) = Own(m)

LEMMA OwnFunction ==
  ASSUME NEW m, NEW n, Functions(m), NEW f, n.functions = Append(m.functions, f),
         n.imported_functions = m.imported_functions
  PROVE  Functions(n) /\ Own(n) = Own(m) + 1
<1>1. /\ \E S : n.functions \in Seq(S)
      /\ Len(n.functions) = Len(m.functions) + 1 /\ Len(m.functions) \in Nat
  BY AppendIs DEF Functions
<1>2. m.imported_functions \in Nat
  BY DEF Functions
<1>3. Functions(n)
  BY <1>1, <1>2 DEF Functions
<1>4. Own(n) = Own(m) + 1
  BY <1>1, <1>2 DEF Own
<1> QED
  BY <1>3, <1>4

LEMMA ImportedFunction ==
  ASSUME NEW m, NEW n, Functions(m), NEW f, n.functions = Append(m.functions, f),
         n.imported_functions = m.imported_functions + 1
  PROVE  Functions(n) /\ Own(n) = Own(m)
<1>1. /\ \E S : n.functions \in Seq(S)
      /\ Len(n.functions) = Len(m.functions) + 1 /\ Len(m.functions) \in Nat
  BY AppendIs DEF Functions
<1>2. m.imported_functions \in Nat
  BY DEF Functions
<1>3. n.imported_functions \in Nat
  BY <1>2
<1>4. Functions(n)
  BY <1>1, <1>3 DEF Functions
<1>5. Own(n) = Own(m)
  BY <1>1, <1>2 DEF Own
<1> QED
  BY <1>4, <1>5

LEMMA CountsFacts ==
  ASSUME NEW kind, NEW x, NEW y, Functions(x.module), Counts(kind, x, y), kind = "func" => y.error = ""
  PROVE  /\ Functions(y.module)
         /\ Gains(kind, x.module, y.module, 1)
<1> DEFINE m == x.module
           n == y.module
<1>0. Functions(m) /\ Own(m) \in Int
  BY OwnIs
<1>1. CASE kind = "func"
  <2>1. n.imported_functions = m.imported_functions /\ \E f : n.functions = Append(m.functions, f)
    BY <1>1 DEF Counts
  <2> HIDE DEF m, n
  <2>2. PICK f : n.functions = Append(m.functions, f)
    BY <2>1
  <2>4. Functions(n) /\ Own(n) = Own(m) + 1
    BY <2>1, <2>2, <1>0, OwnFunction
  <2>5. Gains(kind, m, n, 1)
    BY <1>1, <2>4 DEF Gains
  <2> QED
    BY <2>4, <2>5 DEF m, n
<1>2. CASE kind = "import" /\ ~SameFunctions(x, y)
  <2>1. n.imported_functions = m.imported_functions + 1 /\ \E f : n.functions = Append(m.functions, f)
    BY <1>2 DEF Counts, Imports
  <2> HIDE DEF m, n
  <2>2. PICK f : n.functions = Append(m.functions, f)
    BY <2>1
  <2>3. Functions(n) /\ Own(n) = Own(m)
    BY <2>1, <2>2, <1>0, ImportedFunction
  <2>5. Gains(kind, m, n, 1)
    BY <1>2, <2>3 DEF Gains
  <2> QED
    BY <2>3, <2>5 DEF m, n
<1>3. CASE kind # "func" /\ SameFunctions(x, y)
  BY <1>3 DEF Functions, Own, SameFunctions, Gains
<1>4. CASE kind # "func" /\ kind # "import"
  <2>1. SameFunctions(x, y)
    BY <1>4 DEF Counts
  <2> QED
    BY <1>4, <2>1, <1>3
<1> QED
  BY <1>1, <1>2, <1>3, <1>4

\* All the items of a section that is not the data section.
LEMMA SectionFacts ==
  ASSUME NEW kind \in Kinds \ {"data"}, NEW base, Shaped(base), base.module.order = Order[kind],
         Functions(base.module),
         NEW cells, NEW n \in Nat, \A k \in 1..n : Listed(cells[k].item),
         NEW s, ItemLoop(s, kind, base, cells, n)
  PROVE  /\ Steps(base, s[n])
         /\ s[n].error = "" => /\ Functions(s[n].module)
                               /\ Gains(kind, base.module, s[n].module, n)
<1> DEFINE Good(k) ==
             /\ Steps(base, s[k])
             /\ s[k].error = "" => /\ Functions(s[k].module)
                                   /\ Gains(kind, base.module, s[k].module, k)
           Bad == {k \in 0..n : ~Good(k)}
<1>1. ASSUME NEW k \in 0..n
      PROVE  s[k] = IF k = 0 THEN base ELSE ItemStep(kind, s[k - 1], cells[k])
  BY DEF ItemLoop
<1>2. Good(0)
  <2>1. s[0] = base
    BY <1>1
  <2>2. Own(base.module) \in Int
    BY OwnIs
  <2>3. Gains(kind, base.module, base.module, 0)
    BY <2>2 DEF Gains
  <2>4. Steps(base, base)
    BY StepsRefl
  <2> QED
    BY <2>1, <2>3, <2>4
<1>3. ASSUME NEW m \in 1..n, Good(m - 1) PROVE Good(m)
  <2> HIDE DEF Bad
  <2>1. m \in 0..n /\ m # 0
    OBVIOUS
  <2>2. s[m] = ItemStep(kind, s[m - 1], cells[m])
    BY <1>1, <2>1
  <2>3. Shaped(s[m - 1]) /\ s[m - 1].module.order = Order[kind]
    BY <1>3 DEF Steps, Frame
  <2>4. Listed(cells[m].item)
    OBVIOUS
  <2>5. Steps(s[m - 1], s[m]) /\ Counts(kind, s[m - 1], s[m]) /\ (s[m].error = "" => s[m - 1].error = "")
    <3> DEFINE x == s[m - 1]
    <3> HIDE DEF x
    <3>1. s[m] = ItemStep(kind, x, cells[m]) /\ Shaped(x) /\ x.module.order = Order[kind]
      BY <2>2, <2>3 DEF x
    <3>2. Steps(x, s[m]) /\ Counts(kind, x, s[m]) /\ (s[m].error = "" => x.error = "")
      BY <3>1, <2>4, ItemStepFacts
    <3> QED
      BY <3>2 DEF x
  <2>6. Steps(base, s[m])
    BY <1>3, <2>5, StepsTrans
  <2>7. ASSUME s[m].error = ""
        PROVE  Functions(s[m].module) /\ Gains(kind, base.module, s[m].module, m)
    <3>1. /\ Functions(s[m - 1].module) /\ s[m - 1].error = ""
          /\ Gains(kind, base.module, s[m - 1].module, m - 1)
      BY <1>3, <2>5, <2>7
    <3>2. Functions(s[m].module) /\ Gains(kind, s[m - 1].module, s[m].module, 1)
      BY <3>1, <2>5, <2>7, CountsFacts
    <3>3. Own(base.module) \in Int
      BY OwnIs
    <3>4. Gains(kind, base.module, s[m].module, m)
      <4>1. CASE kind = "func"
        <5>1. Own(s[m].module) = Own(s[m - 1].module) + 1
          BY <4>1, <3>2 DEF Gains
        <5>2. Own(s[m - 1].module) = Own(base.module) + (m - 1)
          BY <4>1, <3>1 DEF Gains
        <5>3. Own(s[m].module) = Own(base.module) + m
          BY <5>1, <5>2, <3>3
        <5> QED
          BY <4>1, <5>3 DEF Gains
      <4>2. CASE kind # "func"
        BY <4>2, <3>1, <3>2 DEF Gains
      <4> QED
        BY <4>1, <4>2
    <3> QED
      BY <3>2, <3>4
  <2> QED
    BY <2>6, <2>7
<1> HIDE DEF Good
<1>a. Bad \subseteq 0..n /\ 0 \notin Bad
  BY <1>2
<1>b. ASSUME NEW m \in 1..n, m - 1 \notin Bad PROVE m \notin Bad
  <2>1. m - 1 \in 0..n
    OBVIOUS
  <2> QED
    BY <1>3, <1>b, <2>1
<1>c. Bad = {}
  <2> HIDE DEF Bad
  <2> QED
    BY <1>a, <1>b, Upwards
<1>d. Good(n)
  <2>1. n \in 0..n
    OBVIOUS
  <2> QED
    BY <1>c, <2>1
<1> QED
  BY <1>d DEF Good

\* The loop over a data section changes nothing.
LEMMA DataLoop ==
  ASSUME NEW kind, kind = "data", NEW base, Shaped(base), base.module.order = Order.data,
         NEW cells, NEW n \in Nat, NEW s, ItemLoop(s, kind, base, cells, n)
  PROVE  /\ Frame(base, s[n]) /\ s[n].module = base.module
         /\ s[n].error = "panic" => base.error = "panic"
<1> DEFINE Good(k) == /\ Frame(base, s[k]) /\ s[k].module = base.module
                      /\ s[k].error = "panic" => base.error = "panic"
           Bad == {k \in 0..n : ~Good(k)}
<1>1. ASSUME NEW k \in 0..n
      PROVE  s[k] = IF k = 0 THEN base ELSE ItemStep(kind, s[k - 1], cells[k])
  BY DEF ItemLoop
<1>2. Good(0)
  <2>1. s[0] = base
    BY <1>1
  <2> QED
    BY <2>1, FrameRefl
<1>3. ASSUME NEW m \in 1..n, Good(m - 1) PROVE Good(m)
  <2> DEFINE x == s[m - 1]
             c == Check(x, Readable(kind, cells[m].item), "binary")
             y == AddItem(kind, c, cells[m].item[1])
  <2>1. m \in 0..n /\ m # 0
    OBVIOUS
  <2>2. s[m] = IF c.error # "" THEN c ELSE y
    BY <1>1, <2>1 DEF ItemStep
  <2>3. Shaped(x)
    BY <1>3 DEF Frame
  <2> HIDE DEF x
  <2>4. Stops(x, c)
    BY <2>3 DEF Check, Stops, Shaped
  <2> HIDE DEF c
  <2>5. /\ Frame(x, c) /\ c.module = x.module
        /\ c.error = "panic" => x.error = "panic"
    BY <2>3, <2>4, StopFacts
  <2>6. c.module.order = Order.data /\ Shaped(c)
    BY <1>3, <2>5 DEF x, Frame
  <2>7. y = add_data_segment(c, cells[m].item[1])
    BY DEF AddItem
  <2> HIDE DEF y
  <2>8. /\ Frame(c, y) /\ y.module = c.module
        /\ y.error = "panic" => c.error = "panic"
    BY <2>6, <2>7, AddDataFacts
  <2>9. Frame(x, s[m]) /\ s[m].module = x.module /\ (s[m].error = "panic" => x.error = "panic")
    <3>1. Frame(x, y)
      BY <2>5, <2>8, FrameTrans
    <3>2. y.module = x.module /\ (y.error = "panic" => x.error = "panic")
      BY <2>5, <2>8
    <3>3. CASE c.error # ""
      <4>1. s[m] = c
        BY <2>2, <3>3
      <4> QED
        BY <4>1, <2>5
    <3>4. CASE c.error = ""
      <4>1. s[m] = y
        BY <2>2, <3>4
      <4> QED
        BY <4>1, <3>1, <3>2
    <3> QED
      BY <3>3, <3>4
  <2>10. Frame(base, x) /\ x.module = base.module /\ (x.error = "panic" => base.error = "panic")
    BY <1>3 DEF x
  <2>11. Frame(base, s[m])
    BY <2>9, <2>10, FrameTrans
  <2> QED
    BY <2>9, <2>10, <2>11
<1> HIDE DEF Good
<1>4. Bad \subseteq 0..n /\ 0 \notin Bad
  BY <1>2
<1>5. ASSUME NEW m \in 1..n, m - 1 \notin Bad PROVE m \notin Bad
  <2>1. m - 1 \in 0..n
    OBVIOUS
  <2> QED
    BY <1>3, <1>5, <2>1
<1>6. Bad = {}
  <2> HIDE DEF Bad
  <2> QED
    BY <1>4, <1>5, Upwards
<1>7. Good(n)
  <2>1. n \in 0..n
    OBVIOUS
  <2> QED
    BY <1>6, <2>1
<1> QED
  BY <1>7 DEF Good

-----------------------------------------------------------------------------
(* Payloads.  A state without an error is fine; the rest is about those.   *)

Fine(x) == x.error = ""

\* ensure and update_order.
LEMMA OrderFacts ==
  ASSUME NEW x, Shaped(x), Fine(x), NEW kind, NEW y, y = update_order(ensure(x, "module"), kind)
  PROVE  \/ ~Fine(y) /\ y.error # "panic"
         \/ /\ Fine(y) /\ x.state = "module" /\ x.module.order < Order[kind]
            /\ y = [x EXCEPT !.module.order = Order[kind]]
<1> DEFINE a == ensure(x, "module")
           b == Check(a, a.module.order < Order[kind], "order")
<1>1. y = IF b.error # "" THEN b ELSE [b EXCEPT !.module.order = Order[kind]]
  BY DEF update_order, Ordered, Then
<1>2. (a = x /\ x.state = "module") \/ (a.error # "" /\ a.error # "panic")
  BY DEF ensure, Check, Shaped, Fine
<1> HIDE DEF a
<1>3. CASE a.error # "" /\ a.error # "panic"
  <2>1. b = a
    BY <1>3 DEF Check
  <2> QED
    BY <1>1, <1>3, <2>1 DEF Fine
<1>4. CASE a = x /\ x.state = "module"
  <2>1. (b = x /\ x.module.order < Order[kind]) \/ (b.error # "" /\ b.error # "panic")
    BY <1>4 DEF Check, Shaped, Fine
  <2> HIDE DEF b
  <2>2. CASE b = x /\ x.module.order < Order[kind]
    <3>1. y = [x EXCEPT !.module.order = Order[kind]]
      BY <1>1, <2>2 DEF Fine
    <3>2. Fine(y)
      BY <3>1 DEF Fine, Shaped
    <3> QED
      BY <3>1, <3>2, <1>4, <2>2
  <2>3. CASE b.error # "" /\ b.error # "panic"
    BY <1>1, <2>3 DEF Fine
  <2> QED
    BY <2>1, <2>2, <2>3
<1> QED
  BY <1>2, <1>3, <1>4

\* What the validator knows besides its module stays.
SameOutside(x, y) ==
  /\ Shaped(y) /\ y.state = x.state /\ y.expected = x.expected
  /\ y.components = x.components /\ y.bodies = x.bodies

\* What a body can refer to.
SameSpaces(m, n) ==
  /\ n.types = m.types /\ n.functions = m.functions /\ n.tables = m.tables
  /\ n.memories = m.memories /\ n.globals = m.globals /\ n.tags = m.tags /\ n.elems = m.elems
  /\ n.imported_functions = m.imported_functions /\ n.data_count = m.data_count

\* A section of this kind with so many items.
SectionAdded(kind, count, m, n) ==
  /\ m.order < Order[kind] /\ n.order = Order[kind]
  /\ n.data_count = m.data_count /\ n.next_body = m.next_body /\ n.shared = m.shared
  /\ n.segments = (IF kind = "data" THEN count ELSE m.segments)
  /\ n.expected = (IF kind = "func" THEN count ELSE m.expected)
  /\ Functions(n) /\ Gains(kind, m, n, count)
  /\ kind = "data" => SameSpaces(m, n)

\* What a section begins with.
LEMMA BeginFacts ==
  ASSUME NEW x, Shaped(x), Fine(x), NEW kind, NEW count, NEW y, y = validate_section(x, kind, count)
  PROVE  \/ ~Fine(y) /\ y.error # "panic"
         \/ Fine(y) /\ y = (CASE kind = "func" -> [x EXCEPT !.module.expected = count]
                             [] kind = "data" -> [x EXCEPT !.module.segments = count]
                             [] OTHER -> x)
<1> DEFINE before == CASE kind = "export" -> Cardinality(x.module.exports)
                       [] kind \in {"import", "data"} -> 0
                       [] OTHER -> Count(x.module, kind)
           max == IF kind = "memory" THEN MaxMemories ELSE MaxItems
           c == check_max(x, before, count, max)
           u == CASE kind = "func" -> [c EXCEPT !.module.expected = count]
                  [] kind = "data" -> [c EXCEPT !.module.segments = count]
                  [] OTHER -> c
<1>1. y = IF c.error # "" THEN c ELSE u
  BY DEF validate_section, Then
<1> HIDE DEF before, max
<1>2. c = x \/ (c.error # "" /\ c.error # "panic")
  BY DEF check_max, Check, Shaped, Fine
<1> HIDE DEF c
<1>3. CASE c = x
  <2>1. y = (CASE kind = "func" -> [x EXCEPT !.module.expected = count]
               [] kind = "data" -> [x EXCEPT !.module.segments = count]
               [] OTHER -> x)
    BY <1>1, <1>3 DEF Fine
  <2>2. Fine(y)
    BY <2>1 DEF Fine, Shaped
  <2> QED
    BY <2>1, <2>2
<1>4. CASE c.error # "" /\ c.error # "panic"
  <2> HIDE DEF u
  <2> QED
    BY <1>1, <1>4 DEF Fine
<1> QED
  BY <1>2, <1>3, <1>4

\* Between the beginning of a section and its end, by the lemmas above.
Begun(kind, base, cells, n) ==
  /\ kind \in Kinds /\ Shaped(base) /\ Fine(base) /\ base.module.order = Order[kind]
  /\ Functions(base.module)
  /\ n \in Nat /\ \A k \in 1..n : Listed(cells[k].item)

Filled(kind, base, y, n) ==
  /\ Frame(base, y)
  /\ y.error = "panic" => kind # "data" /\ base.module.shared
  /\ Fine(y) => /\ Functions(y.module) /\ Gains(kind, base.module, y.module, n)
                /\ kind = "data" => y.module = base.module

LEMMA LoopFacts ==
  ASSUME NEW kind, NEW base, NEW cells, NEW n, Begun(kind, base, cells, n),
         NEW s, ItemLoop(s, kind, base, cells, n)
  PROVE  Filled(kind, base, s[n], n)
<1> USE DEF Begun, Filled
<1>1. CASE kind = "data"
  <2>1. base.module.order = Order.data
    BY <1>1
  <2>2. /\ Frame(base, s[n]) /\ s[n].module = base.module
        /\ s[n].error = "panic" => base.error = "panic"
    BY <1>1, <2>1, DataLoop
  <2>3. Gains(kind, base.module, base.module, n)
    BY <1>1 DEF Gains
  <2> QED
    BY <1>1, <2>2, <2>3 DEF Fine
<1>2. CASE kind # "data"
  <2>1. kind \in Kinds \ {"data"}
    BY <1>2
  <2>2. /\ Steps(base, s[n])
        /\ s[n].error = "" => /\ Functions(s[n].module)
                              /\ Gains(kind, base.module, s[n].module, n)
    BY <2>1, SectionFacts
  <2> QED
    BY <1>2, <2>2 DEF Fine, Steps
<1> QED
  BY <1>1, <1>2

\* The section as a whole, seen from the modules before and after it.
ModuleSteps(kind, count, m, a, b, n) ==
  /\ Functions(m) /\ m.order < Order[kind]
  /\ {"order", "segments", "expected", "types", "functions", "tables", "memories", "globals",
      "tags", "elems", "data_count", "imported_functions", "next_body", "shared"}
       \subseteq DOMAIN m
  /\ a = [m EXCEPT !.order = Order[kind]]
  /\ b = (CASE kind = "func" -> [a EXCEPT !.expected = count]
            [] kind = "data" -> [a EXCEPT !.segments = count]
            [] OTHER -> a)
  /\ n.order = b.order /\ n.data_count = b.data_count /\ n.segments = b.segments
  /\ n.expected = b.expected /\ n.next_body = b.next_body /\ n.shared = b.shared
  /\ Functions(n) /\ Gains(kind, b, n, count) /\ (kind = "data" => n = b)

LEMMA SectionModules ==
  ASSUME NEW kind, NEW count, NEW m, NEW a, NEW b, NEW n, ModuleSteps(kind, count, m, a, b, n)
  PROVE  SectionAdded(kind, count, m, n)
<1> USE DEF ModuleSteps
<1>1. /\ b.order = Order[kind] /\ b.data_count = m.data_count /\ b.next_body = m.next_body
      /\ b.shared = m.shared /\ b.functions = m.functions
      /\ b.imported_functions = m.imported_functions
  OBVIOUS
<1>2. /\ b.segments = (IF kind = "data" THEN count ELSE m.segments)
      /\ b.expected = (IF kind = "func" THEN count ELSE m.expected)
  OBVIOUS
<1>3. Own(b) = Own(m)
  BY <1>1 DEF Own
<1>4. Gains(kind, m, n, count)
  BY <1>3 DEF Gains
<1>5. kind = "data" => SameSpaces(m, n)
  <2>1. kind = "data" => SameSpaces(m, b)
    BY DEF SameSpaces
  <2> QED
    BY <2>1
<1> QED
  BY <1>1, <1>2, <1>4, <1>5 DEF SectionAdded

\* Nothing happens after an error.
LEMMA LoopStops ==
  ASSUME NEW kind, NEW base, ~Fine(base), NEW cells, NEW n \in Nat, NEW s,
         ItemLoop(s, kind, base, cells, n)
  PROVE  s[n] = base
<1> DEFINE Bad == {k \in 0..n : s[k] # base}
<1>1. ASSUME NEW k \in 0..n
      PROVE  s[k] = IF k = 0 THEN base ELSE ItemStep(kind, s[k - 1], cells[k])
  BY DEF ItemLoop
<1>2. Bad \subseteq 0..n /\ 0 \notin Bad
  BY <1>1
<1>3. ASSUME NEW m \in 1..n, m - 1 \notin Bad PROVE m \notin Bad
  <2>1. m - 1 \in 0..n /\ m \in 0..n /\ m # 0
    OBVIOUS
  <2>2. s[m] = ItemStep(kind, base, cells[m])
    BY <1>1, <1>3, <2>1
  <2>3. ItemStep(kind, base, cells[m]) = base
    BY DEF ItemStep, Check, Fine
  <2> QED
    BY <2>2, <2>3
<1>4. n \in 0..n
  OBVIOUS
<1> HIDE DEF Bad
<1>5. Bad = {}
  BY <1>2, <1>3, Upwards
<1> QED
  BY <1>4, <1>5 DEF Bad

\* process_module_section: it panics only when the module is shared and something
\* else than data comes after it.
LEMMA ProcessFacts ==
  ASSUME NEW x, Shaped(x), Fine(x), Functions(x.module), NEW p, p.kind \in Kinds, p.count \in Nat,
         Len(p.cells) \in Nat, \A k \in 1..Len(p.cells) : Listed(p.cells[k].item),
         NEW y, y = process_module_section(x, p)
  PROVE  /\ y.error = "panic" => /\ x.module.shared /\ p.kind # "data"
                                 /\ x.module.order < Order[p.kind]
         /\ Fine(y) => /\ SameOutside(x, y) /\ x.state = "module"
                       /\ SectionAdded(p.kind, p.count, x.module, y.module)
<1> DEFINE kind == p.kind
           cells == p.cells
           o == update_order(ensure(x, "module"), kind)
           base == IF o.error # "" THEN o ELSE validate_section(o, kind, p.count)
           n == IF p.count < Len(cells) THEN p.count ELSE Len(cells)
           Loop(s) == s = [k \in 0..n |-> IF k = 0 THEN base ELSE
                             LET c == Check(s[k - 1], Readable(kind, cells[k].item), "binary")
                             IN  IF c.error # "" THEN c ELSE AddItem(kind, c, cells[k].item[1])]
<1>0. n \in Nat
  OBVIOUS
<1>1. y = Check((CHOOSE s : Loop(s))[n], p.count = Len(cells), "binary")
  BY DEF process_module_section, Then
<1>2. PICK s : Loop(s) /\ y = Check(s[n], p.count = Len(cells), "binary")
  <2>1. PICK s : ItemLoop(s, kind, base, cells, n)
    BY <1>0, ItemLoopExists
  <2>2. Loop(s)
    BY <2>1 DEF ItemLoop, ItemStep
  <2> HIDE DEF Loop
  <2> QED
    BY <1>1, <2>2
<1>3. ItemLoop(s, kind, base, cells, n)
  BY <1>2 DEF ItemLoop, ItemStep
<1> HIDE DEF o, base, n, Loop
<1>4. s[0] = base
  BY <1>3, <1>0 DEF ItemLoop
<1>5. p.count = Len(cells) => n = p.count
  BY DEF n
<1>6. kind \in Kinds
  OBVIOUS
<1>a. \A k \in 1..n : Listed(cells[k].item)
  BY DEF n
<1> HIDE DEF kind, cells
<1>7. CASE ~Fine(base) /\ base.error # "panic"
  <2>1. s[n] = base
    BY <1>0, <1>3, <1>7, LoopStops
  <2>2. y = base
    BY <2>1, <1>2, <1>7 DEF Check, Fine
  <2> QED
    BY <2>2, <1>7
<1>8. CASE Fine(base)
  <2>1. Fine(o) /\ base = validate_section(o, kind, p.count)
    BY <1>8 DEF base, Fine
  <2>2. /\ x.state = "module" /\ x.module.order < Order[kind]
        /\ o = [x EXCEPT !.module.order = Order[kind]]
    BY <2>1, OrderFacts DEF o
  <2>3. Shaped(o)
    BY <2>2 DEF Shaped
  <2>4. base = (CASE kind = "func" -> [o EXCEPT !.module.expected = p.count]
                  [] kind = "data" -> [o EXCEPT !.module.segments = p.count]
                  [] OTHER -> o)
    BY <2>1, <2>3, <1>8, BeginFacts
  <2>5. /\ Shaped(base) /\ base.state = x.state /\ base.expected = x.expected
        /\ base.components = x.components /\ base.bodies = x.bodies
    BY <2>2, <2>4 DEF Shaped
  <2>6. o.module = [x.module EXCEPT !.order = Order[kind]]
    BY <2>2 DEF Shaped
  <2>7. base.module = (CASE kind = "func" -> [o.module EXCEPT !.expected = p.count]
                         [] kind = "data" -> [o.module EXCEPT !.segments = p.count]
                         [] OTHER -> o.module)
    BY <2>3, <2>4 DEF Shaped
  <2>8. /\ base.module.functions = x.module.functions /\ base.module.shared = x.module.shared
        /\ base.module.imported_functions = x.module.imported_functions
        /\ base.module.order = Order[kind]
    BY <2>6, <2>7 DEF Shaped
  <2>9. Functions(base.module)
    BY <2>8 DEF Functions
  <2>11. Filled(kind, base, s[n], n)
    <3>1. Begun(kind, base, cells, n)
      BY <1>0, <1>6, <1>8, <1>a, <2>5, <2>8, <2>9 DEF Begun
    <3> QED
      BY <1>3, <3>1, LoopFacts
  <2>10. /\ Fine(y) => y = s[n] /\ n = p.count
         /\ y.error = "panic" => s[n].error = "panic"
    <3>1. Shaped(s[n])
      BY <2>11 DEF Filled, Frame
    <3>2. CASE p.count = Len(cells)
      BY <1>2, <1>5, <3>2 DEF Check
    <3>3. CASE p.count # Len(cells)
      <4>1. CASE s[n].error # ""
        BY <1>2, <4>1 DEF Check, Fine
      <4>2. CASE s[n].error = ""
        <5>1. y = [s[n] EXCEPT !.error = "binary"]
          BY <1>2, <3>3, <4>2 DEF Check
        <5>2. y.error = "binary"
          BY <5>1, <3>1 DEF Shaped
        <5> QED
          BY <5>2 DEF Fine
      <4> QED
        BY <4>1, <4>2
    <3> QED
      BY <3>2, <3>3
  <2>12. ASSUME Fine(y)
         PROVE  SameOutside(x, y) /\ x.state = "module"
                  /\ SectionAdded(kind, p.count, x.module, y.module)
    <3>1. y = s[n] /\ n = p.count /\ Fine(s[n])
      BY <2>10, <2>12
    <3>2. SameOutside(x, y)
      BY <3>1, <2>5, <2>11 DEF SameOutside, Frame, Filled
    <3>3. SectionAdded(kind, p.count, x.module, s[n].module)
      <4> DEFINE a == o.module
                 b == base.module
                 m == x.module
                 z == s[n].module
                 count == p.count
      <4>1. /\ z.order = b.order /\ z.data_count = b.data_count /\ z.segments = b.segments
            /\ z.expected = b.expected /\ z.next_body = b.next_body /\ z.shared = b.shared
        BY <2>11 DEF Frame, Filled
      <4>2. Functions(z) /\ Gains(kind, b, z, count) /\ (kind = "data" => z = b)
        BY <2>11, <3>1 DEF Filled
      <4>3. {"order", "segments", "expected", "types", "functions", "tables", "memories", "globals",
          "tags", "elems", "data_count", "imported_functions", "next_body", "shared"}
           \subseteq DOMAIN m
        BY DEF Shaped
      <4>4. a = [m EXCEPT !.order = Order[kind]]
        BY <2>6
      <4>5. b = (CASE kind = "func" -> [a EXCEPT !.expected = count]
                   [] kind = "data" -> [a EXCEPT !.segments = count]
                   [] OTHER -> a)
        BY <2>7
      <4>6. m.order < Order[kind] /\ Functions(m)
        BY <2>2
      <4>7. ModuleSteps(kind, count, m, a, b, z)
        BY <4>1, <4>2, <4>3, <4>4, <4>5, <4>6 DEF ModuleSteps
      <4> HIDE DEF a, b, m, z, count
      <4>8. SectionAdded(kind, count, m, z)
        BY <4>7, SectionModules
      <4> QED
        BY <4>8 DEF m, z, count
    <3> QED
      BY <2>2, <3>1, <3>2, <3>3
  <2> QED
    BY <2>10, <2>2, <2>8, <2>11, <2>12 DEF kind, Filled
<1>9. ~Fine(base) => base.error # "panic"
  <2>1. CASE ~Fine(o)
    <3>1. base = o
      BY <2>1 DEF base, Fine
    <3> QED
      BY <2>1, <3>1, OrderFacts DEF o
  <2>2. CASE Fine(o)
    <3>1. base = validate_section(o, kind, p.count)
      BY <2>2 DEF base, Fine
    <3>2. o = [x EXCEPT !.module.order = Order[kind]]
      BY <2>2, OrderFacts DEF o
    <3>3. Shaped(o)
      BY <3>2 DEF Shaped
    <3> QED
      BY <3>1, <3>3, <2>2, BeginFacts
  <2> QED
    BY <2>1, <2>2
<1> QED
  BY <1>7, <1>8, <1>9

-----------------------------------------------------------------------------
(* The other payloads.                                                     *)

\* What a version does.
Versioned(x, p, y) ==
  /\ y.error # "panic"
  /\ Fine(y) => /\ x.state = "unparsed"
                /\ y = IF p.count = Version.module
                       THEN [x EXCEPT !.state = "module", !.module = NewModule]
                       ELSE [x EXCEPT !.state = "component",
                                      !.components = Append(x.components, NewComponent)]

LEMMA VersionFacts ==
  ASSUME NEW x, Shaped(x), Fine(x), NEW p, NEW y, y = version(x, p)
  PROVE  Versioned(x, p, y)
<1> SUFFICES /\ y.error # "panic"
             /\ Fine(y) => /\ x.state = "unparsed"
                           /\ y = IF p.count = Version.module
                                  THEN [x EXCEPT !.state = "module", !.module = NewModule]
                                  ELSE [x EXCEPT !.state = "component",
                                                 !.components = Append(x.components, NewComponent)]
  BY DEF Versioned
<1> DEFINE encoding == IF p.count = Version.module THEN "module" ELSE "component"
           c == Check(x, x.state = "unparsed" /\ x.expected \in {"any", encoding}, "version")
           u == IF p.count = Version.module
                THEN [x EXCEPT !.state = "module", !.module = NewModule]
                ELSE [x EXCEPT !.state = "component",
                               !.components = Append(x.components, NewComponent)]
<1>1. CASE x.state = "unparsed" /\ x.expected \in {"any", encoding}
  <2>1. c = x
    BY <1>1 DEF Check
  <2>2. y = u
    <3>1. CASE p.count = Version.module
      BY <2>1, <3>1 DEF version, Then, Fine
    <3>2. CASE p.count # Version.module
      BY <2>1, <3>2 DEF version, Then, Fine
    <3> QED
      BY <3>1, <3>2
  <2>3. y.error = ""
    BY <2>2 DEF Fine, Shaped
  <2> QED
    BY <1>1, <2>2, <2>3
<1>2. CASE ~(x.state = "unparsed" /\ x.expected \in {"any", encoding})
  <2>1. c = [x EXCEPT !.error = "version"]
    BY <1>2 DEF Check, Fine
  <2>2. c.error = "version"
    BY <2>1 DEF Shaped
  <2>3. y = c
    BY <2>2 DEF version, Then
  <2> QED
    BY <2>2, <2>3 DEF Fine
<1> QED
  BY <1>1, <1>2

LEMMA StartFacts ==
  ASSUME NEW x, Shaped(x), Fine(x), NEW p, NEW y, y = start_section(x, p)
  PROVE  /\ y.error # "panic"
         /\ Fine(y) => /\ x.state = "module" /\ x.module.order < Order.start
                       /\ y = [x EXCEPT !.module.order = Order.start]
<1> DEFINE o == update_order(ensure(x, "module"), "start")
           g == get_func_type(o, p.count)
           c == Check(g, NoArguments(o, p.count), "type")
<1>1. y = IF o.error # "" THEN o ELSE c
  BY DEF start_section, Then
<1>2. \/ ~Fine(o) /\ o.error # "panic"
      \/ /\ Fine(o) /\ x.state = "module" /\ x.module.order < Order["start"]
         /\ o = [x EXCEPT !.module.order = Order["start"]]
  <2>1. PICK kind : kind = "start"
    OBVIOUS
  <2>2. o = update_order(ensure(x, "module"), kind)
    BY <2>1
  <2> HIDE DEF o
  <2> QED
    BY <2>1, <2>2, OrderFacts
<1> HIDE DEF o
<1>3. CASE ~Fine(o)
  BY <1>1, <1>2, <1>3 DEF Fine
<1>4. CASE Fine(o)
  <2>1. Shaped(o)
    BY <1>2, <1>4 DEF Shaped
  <2>b. Refuses(o, g, "bounds")
    BY DEF get_func_type, Check, Refuses
  <2>2. Stops(o, g)
    BY <2>1, <2>b, StopsIs
  <2>3. Shaped(g) /\ (g.error = "" => g = o) /\ g.error # "panic"
    BY <2>1, <2>2, <1>4, StopFacts, ZenonT(60) DEF Frame, Fine
  <2> HIDE DEF g
  <2>4. Stops(g, c)
    BY <2>3 DEF Check, Stops, Shaped
  <2>5. (c.error = "" => c = g) /\ c.error # "panic"
    BY <2>3, <2>4, StopFacts
  <2> HIDE DEF c
  <2>6. y = c
    BY <1>1, <1>4 DEF Fine
  <2>7. Fine(y) => y = o
    BY <2>3, <2>5, <2>6 DEF Fine
  <2>8. y.error # "panic"
    BY <2>5, <2>6
  <2>9. x.state = "module" /\ x.module.order < Order.start /\ o = [x EXCEPT !.module.order = Order.start]
    BY <1>2, <1>4
  <2> QED
    BY <2>7, <2>8, <2>9
<1> QED
  BY <1>3, <1>4

\* What the number of data segments does.
DataCounted(x, p, y) ==
  /\ y.error = "panic" => x.module.shared /\ x.module.order < Order.datacount
  /\ Fine(y) => /\ x.state = "module" /\ x.module.order < Order.datacount
                /\ y = [x EXCEPT !.module.order = Order.datacount,
                                 !.module.data_count = p.count]

LEMMA DataCountFacts ==
  ASSUME NEW x, Shaped(x), Fine(x), NEW p, NEW y, y = data_count_section(x, p)
  PROVE  DataCounted(x, p, y)
<1> SUFFICES /\ y.error = "panic" => x.module.shared /\ x.module.order < Order.datacount
             /\ Fine(y) => /\ x.state = "module" /\ x.module.order < Order.datacount
                           /\ y = [x EXCEPT !.module.order = Order.datacount,
                                            !.module.data_count = p.count]
  BY DEF DataCounted
<1> DEFINE o == update_order(ensure(x, "module"), "datacount")
           l == check_max(o, 0, p.count, MaxItems)
           a == assert_mut(l)
<1>1. y = IF a.error # "" THEN a ELSE [a EXCEPT !.module.data_count = p.count]
  BY DEF data_count_section, Then
<1>2. \/ ~Fine(o) /\ o.error # "panic"
      \/ /\ Fine(o) /\ x.state = "module" /\ x.module.order < Order["datacount"]
         /\ o = [x EXCEPT !.module.order = Order["datacount"]]
  <2>1. PICK kind : kind = "datacount"
    OBVIOUS
  <2>2. o = update_order(ensure(x, "module"), kind)
    BY <2>1
  <2> HIDE DEF o
  <2> QED
    BY <2>1, <2>2, OrderFacts
<1> HIDE DEF o
<1>3. CASE ~Fine(o)
  <2>1. a = o
    BY <1>3 DEF assert_mut, check_max, Check, Fine
  <2> HIDE DEF a
  <2> QED
    BY <1>1, <1>2, <1>3, <2>1 DEF Fine
<1>4. CASE Fine(o)
  <2>1. Shaped(o) /\ o.module.shared = x.module.shared
    BY <1>2, <1>4 DEF Shaped
  <2>b. Refuses(o, l, "limit")
    BY DEF check_max, Check, Refuses
  <2>2. Stops(o, l)
    BY <2>1, <2>b, StopsIs
  <2>3. Shaped(l) /\ (l.error = "" => l = o) /\ l.error # "panic" /\ l.module = o.module
    BY <2>1, <2>2, <1>4, StopFacts, ZenonT(60) DEF Frame, Fine
  <2> HIDE DEF l
  <2>4. /\ a.error = "" => a = l
        /\ a.error = l.error \/ (a.error = "panic" /\ l.module.shared)
    BY <2>3, AssertFacts
  <2> HIDE DEF a
  <2>5. CASE a.error # ""
    BY <1>1, <1>2, <1>4, <2>1, <2>3, <2>4, <2>5 DEF Fine
  <2>6. CASE a.error = ""
    <3>1. a = o
      BY <2>3, <2>4, <2>6
    <3>2. y = [o EXCEPT !.module.data_count = p.count]
      BY <1>1, <2>6, <3>1
    <3>3. y.error = "" /\ y = [x EXCEPT !.module.order = Order["datacount"],
                                        !.module.data_count = p.count]
      BY <3>2, <1>2, <1>4 DEF Shaped, Fine
    <3> QED
      BY <1>2, <1>4, <3>3
  <2> QED
    BY <2>5, <2>6
<1> QED
  BY <1>3, <1>4

\* What the start of a code section does.
CodeBegun(x, p, y) ==
  /\ y.error = "panic" => x.module.shared /\ x.module.order < Order.codestart
  /\ Fine(y) => /\ x.state = "module" /\ x.module.order < Order.codestart
                /\ \/ x.module.expected = p.count
                   \/ x.module.expected = -1 /\ p.count = 0
                /\ y = [x EXCEPT !.module.order = Order.codestart, !.module.expected = -1,
                                 !.types = commit(x.types)]

LEMMA CodeStartFacts ==
  ASSUME NEW x, Shaped(x), Fine(x), NEW p, NEW y, y = code_section_start(x, p)
  PROVE  CodeBegun(x, p, y)
<1> SUFFICES /\ y.error = "panic" => x.module.shared /\ x.module.order < Order.codestart
             /\ Fine(y) => /\ x.state = "module" /\ x.module.order < Order.codestart
                           /\ \/ x.module.expected = p.count
                              \/ x.module.expected = -1 /\ p.count = 0
                           /\ y = [x EXCEPT !.module.order = Order.codestart, !.module.expected = -1,
                                            !.types = commit(x.types)]
  BY DEF CodeBegun
<1> DEFINE promised == x.module.expected = p.count \/ (x.module.expected = -1 /\ p.count = 0)
           o == update_order(ensure(x, "module"), "codestart")
           l == Check(o, promised, "bodies")
           a == assert_mut(l)
<1>1. y = IF a.error # "" THEN a
          ELSE [a EXCEPT !.module.expected = -1, !.types = commit(a.types)]
  BY DEF code_section_start, Then
<1>2. \/ ~Fine(o) /\ o.error # "panic"
      \/ /\ Fine(o) /\ x.state = "module" /\ x.module.order < Order["codestart"]
         /\ o = [x EXCEPT !.module.order = Order["codestart"]]
  <2>1. PICK kind : kind = "codestart"
    OBVIOUS
  <2>2. o = update_order(ensure(x, "module"), kind)
    BY <2>1
  <2> HIDE DEF o
  <2> QED
    BY <2>1, <2>2, OrderFacts
<1> HIDE DEF o, promised
<1>3. CASE ~Fine(o)
  <2>1. a = o
    BY <1>3 DEF assert_mut, Check, Fine
  <2> HIDE DEF a
  <2> QED
    BY <1>1, <1>2, <1>3, <2>1 DEF Fine
<1>4. CASE Fine(o)
  <2>1. Shaped(o) /\ o.module.shared = x.module.shared
    BY <1>2, <1>4 DEF Shaped
  <2>b. Refuses(o, l, "bodies")
    BY DEF Check, Refuses
  <2>2. Stops(o, l)
    BY <2>1, <2>b, StopsIs
  <2>3. Shaped(l) /\ (l.error = "" => l = o) /\ l.error # "panic" /\ l.module = o.module
    BY <2>1, <2>2, <1>4, StopFacts, ZenonT(60) DEF Frame, Fine
  <2>a. l.error = "" => promised
    BY <2>1, <1>4 DEF Check, Fine, Shaped
  <2> HIDE DEF l
  <2>4. /\ a.error = "" => a = l
        /\ a.error = l.error \/ (a.error = "panic" /\ l.module.shared)
    BY <2>3, AssertFacts
  <2> HIDE DEF a
  <2>5. CASE a.error # ""
    BY <1>1, <1>2, <1>4, <2>1, <2>3, <2>4, <2>5 DEF Fine
  <2>6. CASE a.error = ""
    <3>1. a = o /\ promised
      BY <2>3, <2>4, <2>6, <2>a
    <3>2. y = [o EXCEPT !.module.expected = -1, !.types = commit(o.types)]
      BY <1>1, <2>6, <3>1
    <3>3. y.error = ""
      BY <3>2, <2>1, <1>4 DEF Shaped, Fine
    <3>4. y = [x EXCEPT !.module.order = Order["codestart"], !.module.expected = -1,
                        !.types = commit(x.types)]
      BY <3>2, <1>2, <1>4 DEF Shaped
    <3> QED
      BY <1>2, <1>4, <3>1, <3>3, <3>4 DEF promised
  <2> QED
    BY <2>5, <2>6
<1> QED
  BY <1>3, <1>4

\* A body as it is kept.
Body(x, p) ==
  [index |-> next_code_index(x.module), module |-> x.module,
   instrs |-> [i \in DOMAIN p.cells |-> p.cells[i].item]]

LEMMA EntryFacts ==
  ASSUME NEW x, Shaped(x), Fine(x), NEW p, NEW y, y = code_section_entry(x, p)
  PROVE  /\ y.error # "panic"
         /\ Fine(y) => /\ x.state = "module"
                       /\ y = [x EXCEPT !.module.next_body = next_code_index(x.module) + 1,
                                        !.module.shared = TRUE,
                                        !.bodies = Append(x.bodies, Body(x, p))]
<1> DEFINE e == ensure(x, "module")
           c == Check(e, InBounds(e.module, "func", next_code_index(x.module)), "bodies")
           c0 == Check(e, InBounds(x.module, "func", next_code_index(x.module)), "bodies")
<1>1. y = IF c0.error # "" THEN c0
          ELSE [c0 EXCEPT !.module.next_body = next_code_index(x.module) + 1,
                          !.module.shared = TRUE, !.bodies = Append(c0.bodies, Body(x, p))]
  BY DEF code_section_entry, Then, Body
<1>2. Stops(x, e) /\ (e.error = "" => x.state = "module")
  <2>1. /\ Refuses(x, e, "section")
        /\ x.state = "module" \/ e = [x EXCEPT !.error = "section"]
    BY DEF ensure, Check, Fine, Refuses
  <2>2. e = [x EXCEPT !.error = "section"] => e.error # ""
    BY DEF Shaped
  <2> HIDE DEF e
  <2>3. Stops(x, e)
    BY <2>1, StopsIs
  <2> QED
    BY <2>1, <2>2, <2>3
<1>3. Shaped(e) /\ (e.error = "" => e = x) /\ e.error # "panic"
  BY <1>2, StopFacts DEF Frame, Fine
<1> HIDE DEF e
<1>a. Refuses(e, c0, "bodies")
  BY DEF Check, Refuses
<1>4. Stops(e, c0)
  BY <1>3, <1>a, StopsIs
<1>5. (c0.error = "" => c0 = e) /\ c0.error # "panic"
  BY <1>3, <1>4, StopFacts
<1> HIDE DEF c0
<1>6. CASE c0.error # ""
  BY <1>1, <1>5, <1>6 DEF Fine
<1>7. CASE c0.error = ""
  <2>1. c0 = x /\ x.state = "module"
    BY <1>2, <1>3, <1>5, <1>7
  <2>2. y = [x EXCEPT !.module.next_body = next_code_index(x.module) + 1,
                      !.module.shared = TRUE, !.bodies = Append(x.bodies, Body(x, p))]
    BY <1>1, <1>7, <2>1
  <2>3. y.error = ""
    BY <2>2 DEF Shaped, Fine
  <2> QED
    BY <2>1, <2>2, <2>3
<1> QED
  BY <1>6, <1>7

LEMMA NestedFacts ==
  ASSUME NEW x, Shaped(x), Fine(x), NEW p, NEW y, y = nested_section(x, p)
  PROVE  /\ y.error # "panic"
         /\ Fine(y) => /\ x.state = "component"
                       /\ y = [x EXCEPT !.state = "unparsed", !.expected = p.kind]
<1> DEFINE e == ensure(x, "component")
           l == IF e.error # "" THEN e ELSE check_max(e, Last(e.components)[p.kind], 1, MaxItems)
<1>1. y = IF l.error # "" THEN l ELSE [l EXCEPT !.state = "unparsed", !.expected = p.kind]
  BY DEF nested_section, Then
<1>2. Stops(x, e) /\ (e.error = "" => x.state = "component")
  <2>1. /\ Refuses(x, e, "section")
        /\ x.state = "component" \/ e = [x EXCEPT !.error = "section"]
    BY DEF ensure, Check, Fine, Refuses
  <2>2. e = [x EXCEPT !.error = "section"] => e.error # ""
    BY DEF Shaped
  <2> HIDE DEF e
  <2>3. Stops(x, e)
    BY <2>1, StopsIs
  <2> QED
    BY <2>1, <2>2, <2>3
<1>3. Shaped(e) /\ (e.error = "" => e = x) /\ e.error # "panic"
  BY <1>2, StopFacts DEF Frame, Fine
<1> HIDE DEF e
<1>a. Refuses(e, l, "limit")
  BY DEF check_max, Check, Refuses
<1>4. Stops(e, l)
  BY <1>3, <1>a, StopsIs
<1>5. (l.error = "" => l = e) /\ l.error # "panic"
  BY <1>3, <1>4, StopFacts
<1> HIDE DEF l
<1>6. CASE l.error # ""
  BY <1>1, <1>5, <1>6 DEF Fine
<1>7. CASE l.error = ""
  <2>1. l = x /\ x.state = "component"
    BY <1>2, <1>3, <1>5, <1>7
  <2>2. y = [x EXCEPT !.state = "unparsed", !.expected = p.kind]
    BY <1>1, <1>7, <2>1
  <2>3. y.error = ""
    BY <2>2 DEF Shaped, Fine
  <2> QED
    BY <2>1, <2>2, <2>3
<1> QED
  BY <1>6, <1>7

LEMMA ValidateEndFacts ==
  ASSUME NEW x, Shaped(x), Fine(x), NEW y, y = validate_end(x)
  PROVE  /\ y.error # "panic" /\ Shaped(y)
         /\ Fine(y) => /\ y = x /\ x.module.data_count \in {-1, x.module.segments}
                       /\ x.module.expected <= 0
<1> DEFINE c == Check(x, x.module.data_count \in {-1, x.module.segments}, "datacount")
           d == Check(c, x.module.expected <= 0, "bodies")
<1>1. y = d
  BY DEF validate_end
<1>2. Stops(x, c) /\ (c.error = "" => x.module.data_count \in {-1, x.module.segments})
  BY DEF Check, Stops, Shaped, Fine
<1>3. Shaped(c) /\ (c.error = "" => c = x) /\ c.error # "panic"
  BY <1>2, StopFacts, ZenonT(60) DEF Frame, Fine
<1> HIDE DEF c
<1>4. Stops(c, d) /\ (d.error = "" => x.module.expected <= 0)
  BY <1>3 DEF Check, Stops, Shaped
<1> HIDE DEF d
<1>5. (d.error = "" => d = c) /\ d.error # "panic" /\ Shaped(d)
  BY <1>3, <1>4, StopFacts, ZenonT(60) DEF Frame
<1> QED
  BY <1>1, <1>2, <1>3, <1>4, <1>5 DEF Fine

\* What the end of a module or a component does.
Ended(x, y) ==
  /\ y.error # "panic"
  /\ Fine(y) =>
       \/ /\ x.state = "module"
          /\ x.module.data_count \in {-1, x.module.segments} /\ x.module.expected <= 0
          /\ y = IF x.components = <<>>
                 THEN [x EXCEPT !.state = "end", !.types = commit(x.types)]
                 ELSE [AddTo(x, "module") EXCEPT !.types = commit(AddTo(x, "module").types)]
       \/ /\ x.state = "component"
          /\ y.error = "" /\ y.bodies = x.bodies /\ y.module = x.module /\ Shaped(y)
          /\ \E c : /\ c = [x EXCEPT !.components = Front(x.components)]
                    /\ IF c.components = <<>>
                       THEN y.state = "end" /\ y.components = <<>>
                       ELSE /\ y.state = "component"
                            /\ y.components = AddTo(c, "component").components

LEMMA EndFacts ==
  ASSUME NEW x, Shaped(x), Fine(x), NEW y, y = end(x)
  PROVE  Ended(x, y)
<1> SUFFICES /\ y.error # "panic"
             /\ Fine(y) =>
                  \/ /\ x.state = "module"
                     /\ x.module.data_count \in {-1, x.module.segments} /\ x.module.expected <= 0
                     /\ y = IF x.components = <<>>
                            THEN [x EXCEPT !.state = "end", !.types = commit(x.types)]
                            ELSE [AddTo(x, "module") EXCEPT !.types = commit(AddTo(x, "module").types)]
                  \/ /\ x.state = "component"
                     /\ y.error = "" /\ y.bodies = x.bodies /\ y.module = x.module /\ Shaped(y)
                     /\ \E c : /\ c = [x EXCEPT !.components = Front(x.components)]
                               /\ IF c.components = <<>>
                                  THEN y.state = "end" /\ y.components = <<>>
                                  ELSE /\ y.state = "component"
                                       /\ y.components = AddTo(c, "component").components
  BY DEF Ended
<1>1. CASE x.state = "module"
  <2> DEFINE e == validate_end(x)
             u == [e EXCEPT !.state = "end"]
             c == Check(e, IsInjective(e.module.imports), "name")
             a == IF c.error # "" THEN c ELSE AddTo(c, "module")
             w == IF x.components = <<>> THEN IF e.error # "" THEN e ELSE u
                  ELSE IF e.error # "" THEN e ELSE a
  <2>1. y = IF w.error # "" THEN w ELSE [w EXCEPT !.types = commit(w.types)]
    BY <1>1 DEF end, Then, add_core_module
  <2>2. /\ e.error # "panic" /\ Shaped(e)
        /\ Fine(e) => /\ e = x /\ x.module.data_count \in {-1, x.module.segments}
                      /\ x.module.expected <= 0
    BY ValidateEndFacts
  <2> HIDE DEF e
  <2>3. CASE e.error # ""
    <3>1. w = e
      BY <2>3
    <3> HIDE DEF w
    <3> QED
      BY <2>1, <2>2, <2>3, <3>1 DEF Fine
  <2>4. CASE e.error = "" /\ x.components = <<>>
    <3>1. e = x
      BY <2>2, <2>4 DEF Fine
    <3>2. w = [x EXCEPT !.state = "end"]
      BY <2>4, <3>1
    <3> HIDE DEF w
    <3>3. y = [x EXCEPT !.state = "end", !.types = commit(x.types)] /\ y.error = ""
      BY <2>1, <3>2 DEF Shaped, Fine
    <3> QED
      BY <1>1, <2>2, <2>4, <3>1, <3>3 DEF Fine
  <2>5. CASE e.error = "" /\ x.components # <<>>
    <3>1. e = x
      BY <2>2, <2>5 DEF Fine
    <3>2. w = a
      BY <2>5
    <3>3. Stops(x, c)
      BY <3>1, <2>5 DEF Check, Stops, Shaped
    <3>4. (c.error = "" => c = x) /\ c.error # "panic"
      BY <3>3, StopFacts DEF Fine
    <3> HIDE DEF c
    <3>5. CASE c.error # ""
      <4>1. a = c
        BY <3>5
      <4> HIDE DEF a, w
      <4> QED
        BY <2>1, <3>2, <3>4, <3>5, <4>1 DEF Fine
    <3>6. CASE c.error = ""
      <4>1. a = AddTo(x, "module") /\ AddTo(x, "module").error = ""
        BY <3>4, <3>6 DEF AddTo, Shaped
      <4>2. Shaped(AddTo(x, "module"))
        BY DEF AddTo, Shaped
      <4> HIDE DEF a, w
      <4>3. y = [AddTo(x, "module") EXCEPT !.types = commit(AddTo(x, "module").types)]
        BY <2>1, <3>2, <4>1
      <4>4. y.error = ""
        BY <4>1, <4>2, <4>3 DEF Shaped
      <4> QED
        BY <1>1, <2>2, <2>5, <3>1, <4>3, <4>4 DEF Fine
    <3> QED
      BY <3>5, <3>6
  <2> QED
    BY <2>3, <2>4, <2>5
<1>2. CASE x.state = "component"
  <2> DEFINE c == [x EXCEPT !.components = Front(x.components)]
             w == IF c.components = <<>> THEN [c EXCEPT !.state = "end"] ELSE AddTo(c, "component")
  <2>1. y = [w EXCEPT !.types = commit(w.types)]
    BY <1>2 DEF end
  <2>2. Shaped(c) /\ c.error = "" /\ c.bodies = x.bodies /\ c.module = x.module
    BY DEF Shaped, Fine
  <2>3. CASE c.components = <<>>
    <3>1. w = [c EXCEPT !.state = "end"]
      BY <2>3
    <3>2. /\ Shaped(w) /\ w.error = "" /\ w.bodies = x.bodies /\ w.module = x.module
          /\ w.state = "end" /\ w.components = <<>>
      BY <2>2, <2>3, <3>1 DEF Shaped
    <3> HIDE DEF w
    <3>3. /\ Shaped(y) /\ y.error = "" /\ y.bodies = x.bodies /\ y.module = x.module
          /\ y.state = "end" /\ y.components = <<>>
      BY <2>1, <3>2 DEF Shaped
    <3> QED
      BY <1>2, <2>3, <3>3
  <2>4. CASE c.components # <<>>
    <3>1. w = AddTo(c, "component")
      BY <2>4
    <3>2. /\ Shaped(w) /\ w.error = "" /\ w.bodies = x.bodies /\ w.module = x.module
          /\ w.state = "component" /\ w.components = AddTo(c, "component").components
      BY <2>2, <3>1 DEF Shaped, AddTo
    <3> HIDE DEF w
    <3>3. /\ Shaped(y) /\ y.error = "" /\ y.bodies = x.bodies /\ y.module = x.module
          /\ y.state = "component" /\ y.components = AddTo(c, "component").components
      BY <2>1, <3>2 DEF Shaped
    <3> QED
      BY <1>2, <2>4, <3>3
  <2> QED
    BY <2>3, <2>4
<1>3. CASE x.state \notin {"module", "component"}
  <2>1. y = [x EXCEPT !.error = "version"]
    BY <1>3 DEF end, Error, Fine
  <2>2. y.error = "version"
    BY <2>1 DEF Shaped
  <2> QED
    BY <2>2 DEF Fine
<1> QED
  BY <1>1, <1>2, <1>3

\* validate_bodies, one body after the other.
BodyStep(w, b) == validate_body(w, b)

BodyLoop(s, base, bodies, n) ==
  s = [k \in 0..n |-> IF k = 0 THEN base ELSE BodyStep(s[k - 1], bodies[k])]

LEMMA BodyLoopExists ==
  ASSUME NEW base, NEW bodies, NEW n \in Nat
  PROVE  \E s : BodyLoop(s, base, bodies, n)
<1> DEFINE Upto(m, s) == /\ s = [k \in 0..n |-> s[k]] /\ s[0] = base
                         /\ \A k \in 1..m : s[k] = BodyStep(s[k - 1], bodies[k])
           Bad == {m \in 0..n : ~ \E s : Upto(m, s)}
<1>1. Upto(0, [k \in 0..n |-> base])
  OBVIOUS
<1>2. ASSUME NEW m \in 1..n, NEW s, Upto(m - 1, s) PROVE \E t : Upto(m, t)
  <2> DEFINE t == [k \in 0..n |-> IF k = m THEN BodyStep(s[m - 1], bodies[m]) ELSE s[k]]
  <2>1. m \in 0..n /\ m - 1 \in 0..n /\ m # 0
    OBVIOUS
  <2>2. t = [k \in 0..n |-> t[k]] /\ t[0] = base
    BY <1>2, <2>1
  <2>3. ASSUME NEW k \in 1..m PROVE t[k] = BodyStep(t[k - 1], bodies[k])
    <3>1. k \in 0..n /\ k - 1 \in 0..n /\ k - 1 # m
      OBVIOUS
    <3>2. t[k - 1] = s[k - 1]
      BY <1>2, <3>1
    <3>3. CASE k = m
      BY <1>2, <2>1, <3>2, <3>3
    <3>4. CASE k # m
      <4>1. k \in 1..(m - 1)
        BY <3>4
      <4>2. t[k] = s[k]
        BY <1>2, <3>1, <3>4
      <4> QED
        BY <1>2, <4>1, <4>2, <3>2
    <3> QED
      BY <3>3, <3>4
  <2> HIDE DEF t
  <2>4. Upto(m, t)
    BY <2>2, <2>3
  <2> QED
    BY <2>4
<1>3. Bad = {}
  <2>1. ASSUME NEW m \in 1..n, m - 1 \notin Bad PROVE m \notin Bad
    <3>1. m - 1 \in 0..n
      OBVIOUS
    <3> HIDE DEF Upto
    <3>2. \E s : Upto(m - 1, s)
      BY <2>1, <3>1
    <3> QED
      BY <3>2, <1>2
  <2>2. 0 \notin Bad /\ Bad \subseteq 0..n
    BY <1>1
  <2> HIDE DEF Bad
  <2> QED
    BY <2>1, <2>2, Upwards
<1>4. n \in 0..n
  OBVIOUS
<1>5. PICK s : Upto(n, s)
  <2> HIDE DEF Upto
  <2> QED
    BY <1>3, <1>4
<1>6. s = [k \in 0..n |-> IF k = 0 THEN base ELSE BodyStep(s[k - 1], bodies[k])]
  <2>1. ASSUME NEW k \in 0..n
        PROVE  s[k] = IF k = 0 THEN base ELSE BodyStep(s[k - 1], bodies[k])
    <3>1. k = 0 \/ k \in 1..n
      OBVIOUS
    <3> QED
      BY <3>1, <1>5
  <2> QED
    BY <2>1, <1>5
<1> QED
  BY <1>6 DEF BodyLoop

\* What validate_body asks of a body.
Checked(b) ==
  /\ <<>> \notin Range(b.instrs)
  /\ \A i \in {b.instrs[k][1] : k \in DOMAIN b.instrs} : OperandsInBounds(b.module, i)

LEMMA BodyStepFacts ==
  ASSUME NEW x, Shaped(x), x.error # "panic", NEW b, NEW y, y = BodyStep(x, b)
  PROVE  /\ Shaped(y) /\ y.error # "panic"
         /\ Fine(y) => y = x /\ Checked(b)
<1> DEFINE instrs == {b.instrs[k][1] : k \in DOMAIN b.instrs}
           bounded == \A i \in instrs : OperandsInBounds(b.module, i)
           c == Check(x, bounded, "operand")
           d == Check(c, \A i \in instrs : Declared(b.module, i), "undeclared")
<1>1. CASE x.error # ""
  BY <1>1 DEF BodyStep, validate_body, Fine
<1>2. CASE x.error = "" /\ <<>> \in Range(b.instrs)
  <2>1. y = Error(x, "binary")
    BY <1>2 DEF BodyStep, validate_body
  <2>2. Stops(x, y) /\ y.error # ""
    BY <2>1, ErrorFacts
  <2> QED
    BY <2>2, <1>2, StopFacts DEF Fine, Frame
<1>3. CASE x.error = "" /\ <<>> \notin Range(b.instrs)
  <2>1. y = d
    BY <1>3 DEF BodyStep, validate_body
  <2>2. Stops(x, c) /\ (c.error = "" => bounded)
    <3> HIDE DEF bounded
    <3> QED
      BY <1>3 DEF Check, Stops, Shaped
  <2>3. Shaped(c) /\ (c.error = "" => c = x) /\ c.error # "panic"
    <3> HIDE DEF c
    <3> QED
      BY <2>2, <1>3, StopFacts, ZenonT(60) DEF Frame
  <2> HIDE DEF c
  <2>4. Stops(c, d)
    BY <2>3 DEF Check, Stops, Shaped
  <2> HIDE DEF d
  <2>5. Shaped(d) /\ (d.error = "" => d = c) /\ d.error # "panic"
    BY <2>3, <2>4, StopKeeps
  <2>6. d.error = "" => bounded
    BY <2>2, <2>5
  <2> QED
    BY <1>3, <2>1, <2>3, <2>5, <2>6 DEF Fine, Checked
<1> QED
  BY <1>1, <1>2, <1>3

LEMMA BodiesFacts ==
  ASSUME NEW x, Shaped(x), Fine(x), Len(x.bodies) \in Nat, NEW y, y = validate_bodies(x)
  PROVE  /\ y.error # "panic"
         /\ Fine(y) => y = x /\ \A k \in 1..Len(x.bodies) : Checked(x.bodies[k])
<1> DEFINE n == Len(x.bodies)
           bodies == x.bodies
           Loop(s) == s = [k \in 0..n |-> IF k = 0 THEN x ELSE validate_body(s[k - 1], bodies[k])]
<1>1. y = (CHOOSE s : Loop(s))[n]
  BY DEF validate_bodies
<1>2. PICK s : Loop(s) /\ y = s[n]
  <2>1. PICK s : BodyLoop(s, x, bodies, n)
    BY BodyLoopExists
  <2>2. Loop(s)
    BY <2>1 DEF BodyLoop, BodyStep
  <2> HIDE DEF Loop
  <2> QED
    BY <1>1, <2>2
<1>3. n \in Nat
  OBVIOUS
<1>4. ASSUME NEW k \in 0..n PROVE s[k] = IF k = 0 THEN x ELSE BodyStep(s[k - 1], bodies[k])
  BY <1>2 DEF BodyStep
<1> HIDE DEF n, bodies
<1> DEFINE Good(k) == /\ Shaped(s[k]) /\ s[k].error # "panic"
                      /\ Fine(s[k]) => s[k] = x /\ \A j \in 1..k : Checked(bodies[j])
           Bad == {k \in 0..n : ~Good(k)}
<1>5. Good(0)
  <2>1. s[0] = x
    BY <1>3, <1>4
  <2>2. x.error # "panic"
    BY DEF Fine
  <2> QED
    BY <2>1, <2>2
<1>6. ASSUME NEW m \in 1..n, Good(m - 1) PROVE Good(m)
  <2>1. m \in 0..n /\ m # 0 /\ m - 1 \in 0..n
    BY <1>3
  <2>2. s[m] = BodyStep(s[m - 1], bodies[m])
    BY <1>4, <2>1
  <2>3. /\ Shaped(s[m]) /\ s[m].error # "panic"
        /\ Fine(s[m]) => s[m] = s[m - 1] /\ Checked(bodies[m])
    BY <1>6, <2>2, BodyStepFacts
  <2>4. ASSUME Fine(s[m]) PROVE s[m] = x /\ \A j \in 1..m : Checked(bodies[j])
    <3>1. s[m] = x /\ \A j \in 1..(m - 1) : Checked(bodies[j])
      BY <1>6, <2>3, <2>4
    <3>2. ASSUME NEW j \in 1..m PROVE Checked(bodies[j])
      <4>1. j = m \/ j \in 1..(m - 1)
        BY <1>3
      <4> QED
        BY <4>1, <3>1, <2>3, <2>4
    <3> QED
      BY <3>1, <3>2
  <2> QED
    BY <2>3, <2>4
<1> HIDE DEF Good
<1>7. Bad \subseteq 0..n /\ 0 \notin Bad
  BY <1>5
<1>8. ASSUME NEW m \in 1..n, m - 1 \notin Bad PROVE m \notin Bad
  <2>1. m - 1 \in 0..n
    BY <1>3
  <2> QED
    BY <1>6, <1>8, <2>1
<1>9. Bad = {}
  <2> HIDE DEF Bad
  <2> QED
    BY <1>3, <1>7, <1>8, Upwards
<1>10. Good(n)
  <2>1. n \in 0..n
    BY <1>3
  <2> QED
    BY <1>9, <2>1
<1> QED
  BY <1>2, <1>10 DEF Good, n, bodies

-----------------------------------------------------------------------------
(* The byte reader.                                                        *)

\* Powers of two, by functions that are right up to a number.
LEMMA PowersExist == \E f : f = [n \in Nat |-> IF n = 0 THEN 1 ELSE 2 * f[n - 1]]
<1> DEFINE Upto(m, f) == f[0] = 1 /\ \A k \in 1..m : f[k] = 2 * f[k - 1]
<1>1. ASSUME NEW n \in Nat PROVE \E f : Upto(n, f)
  <2> DEFINE Bad == {m \in 0..n : ~ \E f : Upto(m, f)}
  <2>1. Upto(0, [k \in Nat |-> 1])
    OBVIOUS
  <2>2. ASSUME NEW m \in 1..n, NEW f, Upto(m - 1, f) PROVE \E g : Upto(m, g)
    <3> DEFINE g == [k \in Nat |-> IF k = m THEN 2 * f[m - 1] ELSE f[k]]
    <3>1. g[0] = 1
      BY <2>2
    <3>2. ASSUME NEW k \in 1..m PROVE g[k] = 2 * g[k - 1]
      <4>1. k \in Nat /\ k - 1 \in Nat /\ k - 1 # m
        OBVIOUS
      <4>2. g[k - 1] = f[k - 1]
        BY <4>1
      <4>3. CASE k = m
        BY <4>1, <4>2, <4>3
      <4>4. CASE k # m
        <5>1. k \in 1..(m - 1) /\ g[k] = f[k]
          BY <4>1, <4>4
        <5> QED
          BY <2>2, <4>2, <5>1
      <4> QED
        BY <4>3, <4>4
    <3> HIDE DEF g
    <3> QED
      BY <3>1, <3>2
  <2>3. 0 \notin Bad /\ Bad \subseteq 0..n
    BY <2>1
  <2>4. ASSUME NEW m \in 1..n, m - 1 \notin Bad PROVE m \notin Bad
    <3>1. m - 1 \in 0..n
      OBVIOUS
    <3> HIDE DEF Upto
    <3>2. \E f : Upto(m - 1, f)
      BY <2>4, <3>1
    <3> QED
      BY <2>2, <3>2
  <2>5. Bad = {}
    <3> HIDE DEF Bad
    <3> QED
      BY <2>3, <2>4, Upwards
  <2> HIDE DEF Upto
  <2> QED
    BY <2>5
<1>2. ASSUME NEW n \in Nat, NEW f, Upto(n, f), NEW l \in n..(n + 1), NEW g, Upto(l, g)
      PROVE  f[n] = g[n]
  <2> DEFINE Bad == {k \in 0..n : f[k] # g[k]}
  <2>1. 0 \notin Bad /\ Bad \subseteq 0..n
    BY <1>2
  <2>2. ASSUME NEW m \in 1..n, m - 1 \notin Bad PROVE m \notin Bad
    <3>1. m - 1 \in 0..n /\ m \in 1..l
      OBVIOUS
    <3>2. f[m] = 2 * f[m - 1] /\ g[m] = 2 * g[m - 1]
      BY <1>2, <3>1
    <3> QED
      BY <2>2, <3>1, <3>2
  <2>3. Bad = {}
    <3> HIDE DEF Bad
    <3> QED
      BY <2>1, <2>2, Upwards
  <2>4. n \in 0..n
    OBVIOUS
  <2> QED
    BY <2>3, <2>4
<1> DEFINE F == [n \in Nat |-> (CHOOSE f : Upto(n, f))[n]]
<1>3. ASSUME NEW n \in Nat PROVE F[n] = IF n = 0 THEN 1 ELSE 2 * F[n - 1]
  <2> DEFINE g == CHOOSE f : Upto(n, f)
             h == CHOOSE f : Upto(n - 1, f)
  <2>1. F[n] = g[n]
    OBVIOUS
  <2>2. Upto(n, g)
    <3> HIDE DEF Upto
    <3> QED
      BY <1>1
  <2>3. CASE n = 0
    <3> HIDE DEF g, F
    <3> QED
      BY <2>1, <2>2, <2>3
  <2>4. CASE n # 0
    <3>1. n - 1 \in Nat /\ n \in (n - 1)..((n - 1) + 1)
      BY <2>4
    <3>2. F[n - 1] = h[n - 1]
      BY <3>1
    <3>3. Upto(n - 1, h)
      <4> HIDE DEF Upto
      <4> QED
        BY <1>1, <3>1
    <3>4. h[n - 1] = g[n - 1]
      <4> HIDE DEF Upto, g, h
      <4> QED
        BY <1>2, <2>2, <3>1, <3>3
    <3>5. g[n] = 2 * g[n - 1]
      <4>1. n \in 1..n
        BY <2>4
      <4> HIDE DEF g
      <4> QED
        BY <2>2, <4>1
    <3> HIDE DEF g, h, F
    <3> QED
      BY <2>1, <2>4, <3>2, <3>4, <3>5
  <2> QED
    BY <2>3, <2>4
<1>4. F = [n \in Nat |-> IF n = 0 THEN 1 ELSE 2 * F[n - 1]]
  <2>1. F = [n \in Nat |-> F[n]]
    OBVIOUS
  <2> HIDE DEF F
  <2> QED
    BY <1>3, <2>1
<1> HIDE DEF F
<1> QED
  BY <1>4

LEMMA PowersAre == \A n \in Nat : TwoTo[n] \in Nat \ {0}
<1> DEFINE Is(f) == f = [n \in Nat |-> IF n = 0 THEN 1 ELSE 2 * f[n - 1]]
<1>1. TwoTo = CHOOSE f : Is(f)
  BY DEF TwoTo
<1>2. Is(TwoTo)
  <2>1. \E f : Is(f)
    BY PowersExist
  <2> HIDE DEF Is
  <2> QED
    BY <1>1, <2>1
<1>3. ASSUME NEW n \in Nat PROVE TwoTo[n] = IF n = 0 THEN 1 ELSE 2 * TwoTo[n - 1]
  BY <1>2
<1>4. ASSUME NEW n \in Nat PROVE TwoTo[n] \in Nat \ {0}
  <2> DEFINE Bad == {k \in 0..n : TwoTo[k] \notin Nat \ {0}}
  <2>1. Bad \subseteq 0..n /\ 0 \notin Bad
    BY <1>3
  <2>2. ASSUME NEW m \in 1..n, m - 1 \notin Bad PROVE m \notin Bad
    <3>1. m - 1 \in 0..n /\ m \in Nat /\ m # 0
      OBVIOUS
    <3>2. TwoTo[m - 1] \in Nat \ {0}
      BY <2>2, <3>1
    <3>3. TwoTo[m] = 2 * TwoTo[m - 1]
      BY <1>3, <3>1
    <3> QED
      BY <3>2, <3>3
  <2>3. Bad = {}
    <3> HIDE DEF Bad
    <3> QED
      BY <2>1, <2>2, Upwards
  <2>4. n \in 0..n
    OBVIOUS
  <2> QED
    BY <2>3, <2>4
<1> QED
  BY <1>4

\* A read gives a value of S and moves on by n at least.
Gives(r, S, data, p, n) ==
  /\ {"ok", "v", "p", "hint"} \subseteq DOMAIN r /\ r.ok \in BOOLEAN
  /\ r.ok => r.v \in S /\ r.p \in Nat /\ r.p >= p + n /\ r.p <= Len(data)

LEMMA ByteFacts ==
  ASSUME NEW C, \A c \in C : c.byte \in Nat, NEW data \in Seq(C), NEW p \in Nat
  PROVE  Gives(read_u8(data, p), Nat, data, p, 1)
<1>1. CASE p < Len(data)
  <2>1. p + 1 \in 1..Len(data)
    BY <1>1
  <2>2. data[p + 1] \in C
    BY <2>1
  <2> QED
    BY <1>1, <2>2 DEF read_u8, Read, Gives
<1>2. CASE ~(p < Len(data))
  BY <1>2 DEF read_u8, Eof, Gives
<1> QED
  BY <1>1, <1>2

LEMMA BytesFacts ==
  ASSUME NEW C, NEW data \in Seq(C), NEW p \in Nat, NEW size \in Nat,
         NEW r, r = read_bytes(data, p, size)
  PROVE  /\ Gives(r, Seq(C), data, p, size)
         /\ r.ok => /\ r.p = p + size /\ p + size <= Len(data) /\ Len(r.v) = size
                    /\ r.v = SubSeq(data, p + 1, p + size)
<1>1. CASE p + size <= Len(data)
  <2>1. r = Read(SubSeq(data, p + 1, p + size), p + size)
    BY <1>1 DEF read_bytes
  <2>2. SubSeq(data, p + 1, p + size) \in Seq(C) /\ Len(SubSeq(data, p + 1, p + size)) = size
    <3>1. \A i \in (p + 1)..(p + size) : data[i] \in C
      BY <1>1
    <3> QED
      BY <3>1, <1>1, SubSeqProperties
  <2> QED
    BY <1>1, <2>1, <2>2 DEF Read, Gives
<1>2. CASE ~(p + size <= Len(data))
  BY <1>2 DEF read_bytes, Eof, Gives
<1> QED
  BY <1>1, <1>2

\* One group of read_var_u32, when the rest of the number is known.
LastGroup(k) == k * GroupBits >= WordBits - GroupBits

GroupStep(data, p, k, rest) ==
  LET r == read_u8(data, p + k)
      shift == k * GroupBits
      final == shift >= WordBits - GroupBits
      word == Read(r.v * TwoTo[shift], r.p)
  IN  CASE ~r.ok -> r
        [] r.ok /\ final -> IF r.v \div TwoTo[WordBits - shift] # 0 THEN Fail ELSE word
        [] r.ok /\ ~final /\ ~Continues(r.v) -> word
        [] OTHER -> IF rest.ok THEN [rest EXCEPT !.v = @ + Low(r.v) * TwoTo[shift]] ELSE rest

GroupLoop(f, data, p) == f = [k \in 0..WordBits |-> GroupStep(data, p, k, f[k + 1])]

\* The last group is never continued.
LEMMA LastGroupStops ==
  ASSUME NEW data, NEW p, NEW k \in Nat, k >= WordBits, NEW a, NEW b
  PROVE  LastGroup(k) /\ GroupStep(data, p, k, a) = GroupStep(data, p, k, b)
<1>1. k * GroupBits >= WordBits - GroupBits
  <2>1. GroupBits \in Nat /\ GroupBits >= 1 /\ WordBits \in Nat
    BY WidthAssumption
  <2>2. k * GroupBits >= k
    BY <2>1
  <2> QED
    BY <2>1, <2>2
<1> QED
  BY <1>1 DEF GroupStep, LastGroup

\* Induction from n down.
LEMMA Downwards ==
  ASSUME NEW n \in Nat, NEW Bad, Bad \subseteq 0..n, n \notin Bad,
         \A m \in 1..n : m \notin Bad => m - 1 \notin Bad
  PROVE  Bad = {}
<1> DEFINE Mirrored == {k \in 0..n : n - k \in Bad}
<1>1. Mirrored \subseteq 0..n /\ 0 \notin Mirrored
  BY DEF Mirrored
<1>2. ASSUME NEW m \in 1..n, m - 1 \notin Mirrored PROVE m \notin Mirrored
  <2>1. m - 1 \in 0..n /\ n - (m - 1) \in 1..n /\ n - (m - 1) - 1 = n - m
    OBVIOUS
  <2>2. n - (m - 1) \notin Bad
    BY <1>2, <2>1
  <2> QED
    BY <2>1, <2>2
<1>3. Mirrored = {}
  <2> HIDE DEF Mirrored
  <2> QED
    BY <1>1, <1>2, Upwards
<1>4. ASSUME NEW k \in Bad PROVE FALSE
  <2>1. k \in 0..n /\ n - k \in 0..n /\ n - (n - k) = k
    OBVIOUS
  <2>2. n - k \in Mirrored
    BY <1>4, <2>1
  <2> QED
    BY <1>3, <2>2
<1> QED
  BY <1>4

LEMMA GroupLoopExists ==
  ASSUME NEW data, NEW p
  PROVE  \E f : GroupLoop(f, data, p)
<1> DEFINE From(m, f) == /\ f = [k \in 0..WordBits |-> f[k]]
                         /\ \A k \in m..WordBits : f[k] = GroupStep(data, p, k, f[k + 1])
           Bad == {m \in 0..WordBits : ~ \E f : From(m, f)}
<1>0. WordBits \in Nat
  BY WidthAssumption
<1>1. \E f : From(WordBits, f)
  <2> DEFINE f == [k \in 0..WordBits |-> GroupStep(data, p, WordBits, 0)]
  <2>1. f[WordBits] = GroupStep(data, p, WordBits, 0)
    BY <1>0
  <2>2. GroupStep(data, p, WordBits, 0) = GroupStep(data, p, WordBits, f[WordBits + 1])
    BY <1>0, LastGroupStops
  <2>3. f = [k \in 0..WordBits |-> f[k]]
    OBVIOUS
  <2> HIDE DEF f
  <2>4. From(WordBits, f)
    BY <1>0, <2>1, <2>2, <2>3
  <2> QED
    BY <2>4
<1>2. ASSUME NEW m \in 1..WordBits, NEW f, From(m, f) PROVE \E g : From(m - 1, g)
  <2> DEFINE g == [k \in 0..WordBits |-> IF k = m - 1 THEN GroupStep(data, p, m - 1, f[m]) ELSE f[k]]
  <2>1. g = [k \in 0..WordBits |-> g[k]]
    OBVIOUS
  <2>2. ASSUME NEW k \in (m - 1)..WordBits PROVE g[k] = GroupStep(data, p, k, g[k + 1])
    <3>1. k \in 0..WordBits /\ k + 1 # m - 1
      BY <1>0
    <3>2. CASE k = WordBits
      <4>1. GroupStep(data, p, k, g[k + 1]) = GroupStep(data, p, k, f[k + 1])
        BY <1>0, <3>2, LastGroupStops
      <4>2. k # m - 1 /\ k \in m..WordBits
        BY <1>0, <3>2
      <4>3. g[k] = f[k]
        BY <3>1, <4>2
      <4> HIDE DEF g
      <4> QED
        BY <1>2, <4>1, <4>2, <4>3
    <3>3. CASE k # WordBits
      <4>1. k + 1 \in 0..WordBits
        BY <1>0, <3>1, <3>3
      <4>2. g[k + 1] = f[k + 1]
        BY <3>1, <4>1
      <4>3. CASE k = m - 1
        <5>1. g[k] = GroupStep(data, p, m - 1, f[m])
          BY <3>1, <4>3
        <5>2. k + 1 = m
          BY <1>0, <4>3
        <5> HIDE DEF g
        <5> QED
          BY <4>2, <4>3, <5>1, <5>2
      <4>4. CASE k # m - 1
        <5>1. k \in m..WordBits /\ g[k] = f[k]
          BY <1>0, <3>1, <4>4
        <5> HIDE DEF g
        <5> QED
          BY <1>2, <4>2, <5>1
      <4> QED
        BY <4>3, <4>4
    <3> QED
      BY <3>2, <3>3
  <2> HIDE DEF g
  <2>3. From(m - 1, g)
    BY <2>1, <2>2
  <2> QED
    BY <2>3
<1>3. Bad = {}
  <2>1. ASSUME NEW m \in 1..WordBits, m \notin Bad PROVE m - 1 \notin Bad
    <3>1. m \in 0..WordBits
      BY <1>0
    <3> HIDE DEF From
    <3>2. \E f : From(m, f)
      BY <2>1, <3>1
    <3> QED
      BY <3>2, <1>2
  <2>2. WordBits \notin Bad /\ Bad \subseteq 0..WordBits
    BY <1>1
  <2> HIDE DEF Bad
  <2> QED
    BY <1>0, <2>1, <2>2, Downwards
<1>4. PICK f : From(0, f)
  <2>1. 0 \in 0..WordBits
    BY <1>0
  <2> HIDE DEF From
  <2> QED
    BY <1>3, <2>1
<1>5. GroupLoop(f, data, p)
  BY <1>4 DEF GroupLoop
<1> QED
  BY <1>5

\* read_var_u32 is the loop from the first group.
LEMMA NumberIsLoop ==
  ASSUME NEW data, NEW p
  PROVE  \E f : GroupLoop(f, data, p) /\ read_var_u32(data, p) = f[0]
<1> DEFINE Loop(f) == f = [k \in 0..WordBits |->
        LET r == read_u8(data, p + k)
            shift == k * GroupBits
            final == shift >= WordBits - GroupBits
            word == Read(r.v * TwoTo[shift], r.p)
        IN  CASE ~r.ok -> r
              [] r.ok /\ final -> IF r.v \div TwoTo[WordBits - shift] # 0 THEN Fail ELSE word
              [] r.ok /\ ~final /\ ~Continues(r.v) -> word
              [] OTHER -> LET rest == f[k + 1]
                          IN  IF rest.ok THEN [rest EXCEPT !.v = @ + Low(r.v) * TwoTo[shift]]
                              ELSE rest]
<1>1. read_var_u32(data, p) = (CHOOSE f : Loop(f))[0]
  BY DEF read_var_u32
<1>2. PICK g : GroupLoop(g, data, p)
  BY GroupLoopExists
<1>3. Loop(g)
  BY <1>2 DEF GroupLoop, GroupStep
<1> HIDE DEF Loop
<1>4. PICK f : Loop(f) /\ read_var_u32(data, p) = f[0]
  BY <1>1, <1>3
<1>5. GroupLoop(f, data, p)
  BY <1>4 DEF GroupLoop, GroupStep, Loop
<1> QED
  BY <1>4, <1>5

LEMMA NumberFacts ==
  ASSUME NEW C, \A c \in C : c.byte \in Nat, NEW data \in Seq(C), NEW p \in Nat
  PROVE  Gives(read_var_u32(data, p), Nat, data, p, 1)
<1>1. PICK f : GroupLoop(f, data, p) /\ read_var_u32(data, p) = f[0]
  BY NumberIsLoop
<1> DEFINE Good(k) == Gives(f[k], Nat, data, p, k + 1)
           Bad == {k \in 0..WordBits : ~Good(k)}
<1>0. WordBits \in Nat /\ GroupBits \in Nat
  BY WidthAssumption
<1>2. ASSUME NEW k \in 0..WordBits, k = WordBits \/ Good(k + 1) PROVE Good(k)
  <2> DEFINE r == read_u8(data, p + k)
             shift == k * GroupBits
             rest == f[k + 1]
  <2>1. f[k] = GroupStep(data, p, k, f[k + 1])
    BY <1>1 DEF GroupLoop
  <2>2. Gives(r, Nat, data, p, k + 1)
    <3>1. p + k \in Nat
      BY <1>0
    <3>2. Gives(r, Nat, data, p + k, 1)
      <4> HIDE DEF r
      <4> QED
        BY <3>1, ByteFacts DEF r
    <3> HIDE DEF r
    <3> QED
      BY <3>2, <1>0 DEF Gives
  <2>3. shift \in Nat /\ TwoTo[shift] \in Nat
    BY <1>0, PowersAre
  <2>4. k = WordBits => shift >= WordBits - GroupBits
    BY <1>0, LastGroupStops DEF LastGroup
  <2> HIDE DEF r
  <2>5. CASE ~r.ok
    <3>1. f[k] = r
      BY <2>1, <2>5 DEF GroupStep, r
    <3> QED
      BY <3>1, <2>2, <2>5 DEF Gives
  <2>6. CASE r.ok /\ f[k] \in {Fail, Read(r.v * TwoTo[shift], r.p)}
    <3>1. r.v \in Nat /\ r.p \in Nat /\ r.p >= p + (k + 1) /\ r.p <= Len(data)
      BY <2>2, <2>6 DEF Gives
    <3>2. r.v * TwoTo[shift] \in Nat
      BY <2>3, <3>1
    <3>3. Gives(Fail, Nat, data, p, k + 1)
      BY DEF Fail, Gives
    <3>4. Gives(Read(r.v * TwoTo[shift], r.p), Nat, data, p, k + 1)
      <4> HIDE DEF shift
      <4> QED
        BY <3>1, <3>2 DEF Read, Gives
    <3> HIDE DEF shift
    <3> QED
      BY <2>6, <3>3, <3>4
  <2>7. CASE /\ r.ok /\ k # WordBits
             /\ f[k] = IF rest.ok THEN [rest EXCEPT !.v = @ + Low(r.v) * TwoTo[shift]] ELSE rest
    <3>1. Gives(rest, Nat, data, p, k + 2)
      BY <1>2, <2>7
    <3>2. Low(r.v) \in Nat
      <4>1. Group \in Nat \ {0}
        BY PowersAre, <1>0 DEF Group
      <4>2. r.v \in Nat
        BY <2>2, <2>7 DEF Gives
      <4> QED
        BY <4>1, <4>2 DEF Low
    <3>3. Low(r.v) * TwoTo[shift] \in Nat
      BY <2>3, <3>2
    <3> DEFINE w == Low(r.v) * TwoTo[shift]
    <3>4. f[k] = IF rest.ok THEN [rest EXCEPT !.v = rest.v + w] ELSE rest
      BY <2>7
    <3> HIDE DEF w, rest
    <3>5. Gives(f[k], Nat, data, p, k + 2)
      BY <3>1, <3>3, <3>4 DEF Gives, w
    <3> QED
      BY <3>5, <1>0 DEF Gives
  <2>8. \/ ~r.ok
        \/ r.ok /\ f[k] \in {Fail, Read(r.v * TwoTo[shift], r.p)}
        \/ /\ r.ok /\ k # WordBits
           /\ f[k] = IF rest.ok THEN [rest EXCEPT !.v = @ + Low(r.v) * TwoTo[shift]] ELSE rest
    BY <2>1, <2>2, <2>4 DEF GroupStep, Gives, r
  <2> QED
    BY <2>5, <2>6, <2>7, <2>8
<1> HIDE DEF Good
<1>3. Bad \subseteq 0..WordBits /\ WordBits \notin Bad
  <2>1. WordBits \in 0..WordBits
    BY <1>0
  <2> QED
    BY <1>2, <2>1
<1>4. ASSUME NEW m \in 1..WordBits, m \notin Bad PROVE m - 1 \notin Bad
  <2>1. m - 1 \in 0..WordBits /\ m \in 0..WordBits /\ (m - 1) + 1 = m
    BY <1>0
  <2> QED
    BY <1>2, <1>4, <2>1
<1>5. Bad = {}
  <2> HIDE DEF Bad
  <2> QED
    BY <1>0, <1>3, <1>4, Downwards
<1>6. Good(0)
  <2>1. 0 \in 0..WordBits
    BY <1>0
  <2> QED
    BY <1>5, <2>1
<1> QED
  BY <1>1, <1>6 DEF Good

-----------------------------------------------------------------------------
(* The parser: what a payload may be, by the state of the parser.          *)

Result(r, ps, kind, data, C) ==
  /\ {"ok", "ps", "payload", "p", "hint"} \subseteq DOMAIN r
  /\ r.ok \in BOOLEAN
  /\ ~r.ok => r.ps = ps
  /\ r.ok => /\ r.ps \in ParserStates /\ r.p \in 0..Len(data)
             /\ r.payload.kind = kind /\ r.payload.start \in Nat /\ r.payload.len \in Nat
             /\ r.payload.count \in Nat /\ r.payload.cells \in Seq(C)

LEMMA FailedResult ==
  ASSUME NEW ps, NEW kind, NEW data, NEW C, NEW x
  PROVE  Result(Failed(ps, x), ps, kind, data, C) /\ ~Failed(ps, x).ok
BY DEF Result, Failed

IsPayload(next, from, count, cells, p, data, C) ==
  /\ next \in ParserStates /\ p \in 0..Len(data)
  /\ from \in Nat /\ count \in Nat /\ cells \in Seq(C)

LEMMA ParsedResult ==
  ASSUME NEW ps, NEW kind, NEW data, NEW C, NEW next, NEW from, NEW count, NEW cells, NEW p,
         IsPayload(next, from, count, cells, p, data, C)
  PROVE  LET r == Parsed(next, Payload(kind, from, count, cells), p)
         IN  Result(r, ps, kind, data, C) /\ r.ok /\ r.ps = next
BY DEF Result, Parsed, Payload, IsPayload

IsHanded(next, given, kind, p, data, C) ==
  /\ next \in ParserStates /\ p \in 0..Len(data) /\ given.kind = kind
  /\ given.start \in Nat /\ given.len \in Nat
  /\ given.count \in Nat /\ given.cells \in Seq(C)

LEMMA HandedResult ==
  ASSUME NEW ps, NEW kind, NEW data, NEW C, NEW next, NEW given, NEW p,
         IsHanded(next, given, kind, p, data, C)
  PROVE  LET r == Parsed(next, given, p) IN Result(r, ps, kind, data, C) /\ r.ok /\ r.ps = next
BY DEF Result, Parsed, IsHanded

\* Readable cells.
IsData(data, C) == data \in Seq(C) /\ \A c \in C : c.byte \in Nat

LEMMA ItemsResult ==
  ASSUME NEW C, NEW data, IsData(data, C), NEW ps \in ParserStates,
         NEW p \in Nat, NEW len \in Nat, NEW kind, NEW r, r = section(ps, data, p, kind, len)
  PROVE  Result(r, ps, kind, data, C) /\ r.ps = ps
<1>0. data \in Seq(C) /\ \A c \in C : c.byte \in Nat
  BY DEF IsData
<1> DEFINE content == read_bytes(data, p, len)
           count == read_var_u32(content.v, 0)
<1>1. /\ Gives(content, Seq(C), data, p, len)
      /\ content.ok => Len(content.v) = len
  BY <1>0, BytesFacts
<1>2. content.ok => Gives(count, Nat, content.v, 0, 1)
  <2> HIDE DEF content
  <2>1. content.ok => content.v \in Seq(C)
    BY <1>1 DEF Gives
  <2> QED
    BY <1>0, <2>1, NumberFacts
<1> HIDE DEF content, count
<1>3. r = IF ~content.ok THEN Failed(ps, content)
          ELSE IF kind = "custom"
          THEN IF len = 0 THEN Failed(ps, Fail)
               ELSE Parsed(ps, Payload(kind, ps.offset + p, 0, content.v), content.p)
          ELSE IF ~count.ok THEN Failed(ps, Fail)
          ELSE Parsed(ps, Payload(kind, ps.offset + p, count.v,
                                  SubSeq(content.v, count.p + 1, len)), content.p)
  BY DEF section, content, count
<1>4. ps.offset + p \in Nat
  BY DEF ParserStates
<1>5. CASE r = Failed(ps, content) \/ r = Failed(ps, Fail)
  BY <1>5, FailedResult DEF Failed
<1>6. CASE content.ok /\ r = Parsed(ps, Payload(kind, ps.offset + p, 0, content.v), content.p)
  <2>1. content.v \in Seq(C) /\ content.p \in 0..Len(data)
    BY <1>1, <1>6 DEF Gives
  <2>2. IsPayload(ps, ps.offset + p, 0, content.v, content.p, data, C)
    BY <1>4, <2>1 DEF IsPayload
  <2>3. Result(r, ps, kind, data, C) /\ r.ok /\ r.ps = ps
    BY <1>6, <2>2, ParsedResult
  <2> QED
    BY <2>3
<1>7. CASE /\ content.ok /\ count.ok
           /\ r = Parsed(ps, Payload(kind, ps.offset + p, count.v,
                                     SubSeq(content.v, count.p + 1, len)), content.p)
  <2>1. content.v \in Seq(C) /\ content.p \in 0..Len(data) /\ count.v \in Nat
    BY <1>1, <1>2, <1>7 DEF Gives
  <2>2. count.p + 1 \in 1..(Len(content.v) + 1) /\ len \in ((count.p + 1) - 1)..Len(content.v)
    BY <1>1, <1>2, <1>7 DEF Gives
  <2>3. SubSeq(content.v, count.p + 1, len) \in Seq(C)
    BY <2>1, <2>2, SubSeqProperties
  <2>4. IsPayload(ps, ps.offset + p, count.v, SubSeq(content.v, count.p + 1, len), content.p,
                  data, C)
    BY <1>4, <2>1, <2>3 DEF IsPayload
  <2>5. Result(r, ps, kind, data, C) /\ r.ok /\ r.ps = ps
    BY <1>7, <2>4, ParsedResult
  <2> QED
    BY <2>5
<1> QED
  BY <1>3, <1>5, <1>6, <1>7

LEMMA SingleResult ==
  ASSUME NEW C, NEW data, IsData(data, C), NEW ps \in ParserStates,
         NEW p \in Nat, NEW len \in Nat, NEW kind, NEW r, r = single_item(ps, data, p, kind, len)
  PROVE  Result(r, ps, kind, data, C) /\ r.ps = ps
<1>0. data \in Seq(C) /\ \A c \in C : c.byte \in Nat
  BY DEF IsData
<1> DEFINE content == read_bytes(data, p, len)
           item == read_var_u32(content.v, 0)
<1>1. /\ Gives(content, Seq(C), data, p, len)
      /\ content.ok => Len(content.v) = len
  BY <1>0, BytesFacts
<1>2. content.ok => Gives(item, Nat, content.v, 0, 1)
  <2> HIDE DEF content
  <2>1. content.ok => content.v \in Seq(C)
    BY <1>1 DEF Gives
  <2> QED
    BY <1>0, <2>1, NumberFacts
<1> HIDE DEF content, item
<1>3. r = IF ~content.ok THEN Failed(ps, content)
          ELSE IF ~item.ok \/ item.p # len THEN Failed(ps, Fail)
          ELSE Parsed(ps, Payload(kind, ps.offset + p, item.v, <<>>), content.p)
  BY DEF single_item, content, item
<1>4. ps.offset + p \in Nat
  BY DEF ParserStates
<1>5. CASE r = Failed(ps, content) \/ r = Failed(ps, Fail)
  BY <1>5, FailedResult DEF Failed
<1>6. CASE /\ content.ok /\ item.ok
           /\ r = Parsed(ps, Payload(kind, ps.offset + p, item.v, <<>>), content.p)
  <2>1. content.p \in 0..Len(data) /\ item.v \in Nat
    BY <1>1, <1>2, <1>6 DEF Gives
  <2>2. <<>> \in Seq(C)
    OBVIOUS
  <2>3. IsPayload(ps, ps.offset + p, item.v, <<>>, content.p, data, C)
    BY <1>4, <2>1, <2>2 DEF IsPayload
  <2>4. Result(r, ps, kind, data, C) /\ r.ok /\ r.ps = ps
    BY <1>6, <2>3, ParsedResult
  <2> QED
    BY <2>4
<1> QED
  BY <1>3, <1>5, <1>6

LEMMA DelimitedFacts ==
  ASSUME NEW S, NEW data, NEW p \in Nat, NEW n \in Nat, NEW x, Gives(x, S, data, p, n),
         NEW len \in Nat, NEW r, r = Delimited(x, p, len)
  PROVE  Gives(r, S, data, p, n) /\ (r.ok => r = x /\ r.p - p <= len)
<1>1. CASE x.ok /\ x.p - p > len
  <2>1. r = Fail
    BY <1>1 DEF Delimited
  <2> QED
    BY <2>1 DEF Fail, Gives
<1>2. CASE ~(x.ok /\ x.p - p > len)
  <2>1. r = x
    BY <1>2 DEF Delimited
  <2>2. r.ok => r.p \in Nat /\ r.p - p <= len
    BY <1>2, <2>1 DEF Gives
  <2> QED
    BY <2>1, <2>2
<1> QED
  BY <1>1, <1>2

LEMMA CodeStartResult ==
  ASSUME NEW C, \A c \in C : c.byte \in Nat, NEW data \in Seq(C), NEW ps \in ParserStates,
         NEW p \in Nat, NEW len \in Nat, NEW r, r = CodeStart(ps, data, p, len)
  PROVE  /\ Result(r, ps, "codestart", data, C)
         /\ r.ok => /\ r.ps.state = "body" /\ r.ps.remaining = r.payload.count
                    /\ r.ps.encoding = ps.encoding
<1> DEFINE count == Delimited(read_var_u32(data, p), p, len)
           next == [ps EXCEPT !.state = "body", !.remaining = count.v, !.len = len - (count.p - p)]
<1>1. Gives(count, Nat, data, p, 1) /\ (count.ok => count.p - p <= len)
  <2>1. Gives(read_var_u32(data, p), Nat, data, p, 1)
    BY NumberFacts
  <2> DEFINE x == read_var_u32(data, p)
  <2>2. Gives(x, Nat, data, p, 1) /\ count = Delimited(x, p, len) /\ 1 \in Nat
    BY <2>1
  <2> HIDE DEF x, count
  <2> QED
    BY <2>2, DelimitedFacts
<1> HIDE DEF count
<1>2. r = IF ~count.ok THEN Failed(ps, count)
          ELSE Parsed(next, Payload("codestart", ps.offset + p, count.v, <<>>), count.p)
  BY DEF CodeStart, count
<1>3. CASE ~count.ok
  BY <1>2, <1>3, FailedResult
<1>4. CASE count.ok
  <2>1. count.v \in Nat /\ count.p \in 0..Len(data) /\ len - (count.p - p) \in Nat
    BY <1>1, <1>4 DEF Gives
  <2>2. next \in ParserStates
    BY <2>1 DEF ParserStates
  <2>3. ps.offset + p \in Nat
    BY DEF ParserStates
  <2>4. <<>> \in Seq(C)
    OBVIOUS
  <2>5. next.state = "body" /\ next.remaining = count.v /\ next.encoding = ps.encoding
    BY DEF ParserStates
  <2> HIDE DEF next
  <2>6. r = Parsed(next, Payload("codestart", ps.offset + p, count.v, <<>>), count.p)
    BY <1>2, <1>4
  <2>7. Result(r, ps, "codestart", data, C) /\ r.ok /\ r.ps = next
    <3>1. PICK kind : kind = "codestart"
      OBVIOUS
    <3>2. IsPayload(next, ps.offset + p, count.v, <<>>, count.p, data, C)
      BY <2>1, <2>2, <2>3, <2>4 DEF IsPayload
    <3>3. r = Parsed(next, Payload(kind, ps.offset + p, count.v, <<>>), count.p)
      BY <2>6, <3>1
    <3>4. Result(r, ps, kind, data, C) /\ r.ok /\ r.ps = next
      BY <3>2, <3>3, ParsedResult
    <3> QED
      BY <3>1, <3>4
  <2>8. r.payload.count = count.v
    BY <2>6 DEF Parsed, Payload
  <2> QED
    BY <2>5, <2>7, <2>8
<1> QED
  BY <1>3, <1>4

\* What a section may be, and the parser after it.
SectionYields(ps, kind, r) ==
  /\ r.ps.encoding = ps.encoding
  /\ \/ kind = "end" /\ r.ps.state = "section"
     \/ /\ kind = "codestart" /\ ps.encoding = "module"
        /\ r.ps.state = "body" /\ r.ps.remaining = r.payload.count
     \/ kind \in {"module", "component"} /\ ps.encoding = "component" /\ r.ps.state = "section"
     \/ /\ kind \in Kinds \cup {"start", "datacount"} /\ ps.encoding = "module"
        /\ r.ps.state = "section"
     \/ /\ kind \in {"custom", "unknown", "coreinstance", "coretype", "instance", "alias", "ctype",
                     "canonical", "cstart", "cimport", "cexport"}
        /\ r.ps.state = "section"

SectionKinds(encoding) ==
  (IF encoding = "module"
   THEN {"custom", "type", "import", "func", "table", "memory", "global", "export", "start",
         "elem", "code", "data", "datacount", "tag"}
   ELSE {"custom", "module", "coreinstance", "coretype", "component", "instance", "alias",
         "ctype", "canonical", "cstart", "cimport", "cexport"}) \cup {"unknown"}

LEMMA SectionOfIs == ASSUME NEW encoding, NEW id PROVE SectionOf(encoding, id) \in SectionKinds(encoding)
<1> DEFINE ids == IF encoding = "module" THEN SectionId ELSE ComponentSectionId
           named == {k \in DOMAIN ids : ids[k] = id}
<1>1. SectionOf(encoding, id) = IF named = {} THEN "unknown" ELSE CHOOSE k \in named : TRUE
  BY DEF SectionOf
<1>2. DOMAIN ids \subseteq SectionKinds(encoding)
  BY DEF SectionId, ComponentSectionId, SectionKinds
<1>3. named # {} => (CHOOSE k \in named : TRUE) \in DOMAIN ids
  <2> HIDE DEF ids
  <2> QED
    OBVIOUS
<1>4. "unknown" \in SectionKinds(encoding)
  BY DEF SectionKinds
<1> HIDE DEF ids, named
<1> QED
  BY <1>1, <1>2, <1>3, <1>4

LEMMA NestedResult ==
  ASSUME NEW C, NEW data \in Seq(C), NEW ps \in ParserStates,
         NEW p \in 0..Len(data), NEW len \in Nat, NEW kind, NEW r, r = Nested(ps, p, kind, len)
  PROVE  Result(r, ps, kind, data, C) /\ r.ps.state = ps.state /\ r.ps.encoding = ps.encoding
<1> DEFINE next == [ps EXCEPT !.offset = ps.offset + len, !.max_size = ps.max_size - len]
<1>0. ps.offset + len \in Nat /\ ps.max_size - len \in Int
  <2>1. ps.offset \in Nat /\ ps.max_size \in Int
    BY DEF ParserStates
  <2> QED
    BY <2>1
<1>1. next \in ParserStates
  BY <1>0 DEF ParserStates
<1>2. next.state = ps.state /\ next.encoding = ps.encoding
  BY DEF ParserStates
<1>3. ps.offset + p \in Nat
  BY DEF ParserStates
<1>4. r = Parsed(next, [Payload(kind, ps.offset + p, 0, <<>>) EXCEPT !.len = len], p)
  BY DEF Nested
<1> HIDE DEF next
<1>5. <<>> \in Seq(C)
  OBVIOUS
<1> DEFINE given == [Payload(kind, ps.offset + p, 0, <<>>) EXCEPT !.len = len]
<1>6. IsHanded(next, given, kind, p, data, C)
  BY <1>1, <1>3, <1>5 DEF IsHanded, Payload
<1> HIDE DEF given
<1>7. Result(r, ps, kind, data, C) /\ r.ok /\ r.ps = next
  BY <1>4, <1>6, HandedResult DEF given
<1> QED
  BY <1>2, <1>7

LEMMA UnknownResult ==
  ASSUME NEW C, NEW data \in Seq(C), NEW ps \in ParserStates,
         NEW p \in Nat, NEW len \in Nat, NEW kind, kind = "unknown",
         NEW r, r = SectionPayload(ps, data, p, kind, len)
  PROVE  Result(r, ps, kind, data, C) /\ r.ps = ps
<1> DEFINE content == read_bytes(data, p, len)
<1>1. r = IF ~content.ok THEN Failed(ps, content)
          ELSE Parsed(ps, Payload(kind, ps.offset + p, 0, <<>>), content.p)
  BY DEF SectionPayload
<1>2. Gives(content, Seq(C), data, p, len)
  BY BytesFacts
<1> HIDE DEF content
<1>3. CASE ~content.ok
  BY <1>1, <1>3, FailedResult DEF Failed
<1>4. CASE content.ok
  <2>1. content.p \in 0..Len(data) /\ ps.offset + p \in Nat
    BY <1>2, <1>4 DEF Gives, ParserStates
  <2>2. <<>> \in Seq(C)
    OBVIOUS
  <2>3. IsPayload(ps, ps.offset + p, 0, <<>>, content.p, data, C)
    BY <2>1, <2>2 DEF IsPayload
  <2>4. Result(r, ps, kind, data, C) /\ r.ok /\ r.ps = ps
    BY <1>1, <1>4, <2>3, ParsedResult
  <2> QED
    BY <2>4
<1> QED
  BY <1>3, <1>4

Reading(data, ps, p, len, C) ==
  IsData(data, C) /\ ps \in ParserStates /\ p \in Nat /\ len \in Nat

LEMMA SectionIs ==
  ASSUME NEW C, NEW data, NEW ps, NEW p, NEW len, NEW kind, Reading(data, ps, p, len, C)
  PROVE  LET r == section(ps, data, p, kind, len)
         IN  Result(r, ps, kind, data, C) /\ r.ps = ps
BY ItemsResult DEF Reading

LEMMA SingleItemIs ==
  ASSUME NEW C, NEW data, NEW ps, NEW p, NEW len, NEW kind, Reading(data, ps, p, len, C)
  PROVE  LET r == single_item(ps, data, p, kind, len)
         IN  Result(r, ps, kind, data, C) /\ r.ps = ps
BY SingleResult DEF Reading

LEMMA UnknownIs ==
  ASSUME NEW C, NEW data, NEW ps, NEW p, NEW len, NEW kind, Reading(data, ps, p, len, C),
         kind = "unknown"
  PROVE  LET r == SectionPayload(ps, data, p, kind, len)
         IN  Result(r, ps, kind, data, C) /\ r.ps = ps
BY UnknownResult DEF Reading, IsData

LEMMA SectionPayloadResult ==
  ASSUME NEW C, \A c \in C : c.byte \in Nat, NEW data \in Seq(C), NEW ps \in ParserStates,
         ps.state = "section", NEW p \in 0..Len(data), NEW len \in Nat,
         NEW kind, kind \in SectionKinds(ps.encoding),
         NEW r, r = SectionPayload(ps, data, p, kind, len)
  PROVE  \E k : Result(r, ps, k, data, C) /\ (r.ok => SectionYields(ps, k, r))
<1>0. p \in Nat /\ IsData(data, C) /\ Reading(data, ps, p, len, C)
  BY DEF IsData, Reading
<1>1. ps.encoding \in {"module", "component"}
  BY DEF ParserStates, Version
<1>2. CASE kind = "code"
  <2>1. r = CodeStart(ps, data, p, len)
    BY <1>2 DEF SectionPayload
  <2>2. /\ Result(r, ps, "codestart", data, C)
        /\ r.ok => /\ r.ps.state = "body" /\ r.ps.remaining = r.payload.count
                   /\ r.ps.encoding = ps.encoding
    BY <1>0, <2>1, CodeStartResult
  <2>3. ps.encoding = "module"
    BY <1>1, <1>2 DEF SectionKinds
  <2> QED
    BY <2>2, <2>3 DEF SectionYields
<1>3. CASE kind \in {"start", "datacount"}
  <2>1. r = single_item(ps, data, p, kind, len)
    BY <1>3 DEF SectionPayload
  <2>2. Result(r, ps, kind, data, C) /\ r.ps = ps
    BY <1>0, <2>1, SingleItemIs
  <2>3. ps.encoding = "module"
    BY <1>1, <1>3 DEF SectionKinds
  <2>4. SectionYields(ps, kind, r)
    BY <1>3, <2>2, <2>3 DEF SectionYields
  <2> QED
    BY <2>2, <2>4
<1>4. CASE kind \in {"module", "component"}
  <2>1. r = Nested(ps, p, kind, len)
    BY <1>4 DEF SectionPayload
  <2>2. Result(r, ps, kind, data, C) /\ r.ps.state = ps.state /\ r.ps.encoding = ps.encoding
    BY <2>1, NestedResult
  <2>3. ps.encoding = "component"
    BY <1>1, <1>4 DEF SectionKinds
  <2>4. SectionYields(ps, kind, r)
    BY <1>4, <2>2, <2>3 DEF SectionYields
  <2> QED
    BY <2>2, <2>4
<1>5. CASE kind \notin {"code", "start", "datacount", "module", "component"}
  <2>1. Result(r, ps, kind, data, C) /\ r.ps = ps
    <3>1. CASE kind = "unknown"
      BY <1>0, <3>1, UnknownIs
    <3>2. CASE kind # "unknown"
      <4>1. r = section(ps, data, p, kind, len)
        BY <1>5, <3>2 DEF SectionPayload
      <4> QED
        BY <1>0, <4>1, SectionIs
    <3> QED
      BY <3>1, <3>2
  <2>2. SectionYields(ps, kind, r)
    BY <1>1, <1>5, <2>1 DEF SectionYields, SectionKinds, Kinds
  <2> QED
    BY <2>1, <2>2
<1> QED
  BY <1>2, <1>3, <1>4, <1>5

LEMMA ParseSectionResult ==
  ASSUME NEW C, NEW data, IsData(data, C), NEW ps \in ParserStates, ps.state = "section",
         NEW ends \in BOOLEAN, NEW r, r = parse_section(ps, data, ends)
  PROVE  \E k : Result(r, ps, k, data, C) /\ (r.ok => SectionYields(ps, k, r))
<1> DEFINE id == read_u8(data, 0)
           len == read_var_u32(data, 1)
           kind == SectionOf(ps.encoding, id.v)
<1>0. data \in Seq(C) /\ \A c \in C : c.byte \in Nat
  BY DEF IsData
<1>1. Gives(id, Nat, data, 0, 1) /\ Gives(len, Nat, data, 1, 1)
  BY <1>0, ByteFacts, NumberFacts
<1>2. kind \in SectionKinds(ps.encoding)
  BY SectionOfIs
<1> HIDE DEF id, len, kind
<1>3. r = IF ends /\ data = <<>> THEN Parsed(ps, Payload("end", ps.offset, 0, <<>>), 0)
          ELSE IF ~id.ok THEN Failed(ps, id)
          ELSE IF Continues(id.v) THEN Failed(ps, Fail)
          ELSE IF ~len.ok THEN Failed(ps, len)
          ELSE IF len.p + len.v > ps.max_size THEN Failed(ps, Fail)
          ELSE SectionPayload(ps, data, len.p, kind, len.v)
  BY DEF parse_section, id, len, kind
<1>4. CASE r = Parsed(ps, Payload("end", ps.offset, 0, <<>>), 0)
  <2>1. PICK k : k = "end"
    OBVIOUS
  <2>2. ps.offset \in Nat /\ 0 \in 0..Len(data) /\ <<>> \in Seq(C)
    BY <1>0 DEF ParserStates
  <2>3. IsPayload(ps, ps.offset, 0, <<>>, 0, data, C)
    BY <2>2 DEF IsPayload
  <2>4. Result(r, ps, k, data, C) /\ r.ok /\ r.ps = ps
    BY <1>4, <2>1, <2>3, ParsedResult
  <2>5. SectionYields(ps, k, r)
    BY <2>1, <2>4 DEF SectionYields
  <2> QED
    BY <2>4, <2>5
<1>5. CASE r \in {Failed(ps, id), Failed(ps, Fail), Failed(ps, len)}
  <2>1. \A x : Result(Failed(ps, x), ps, "end", data, C) /\ ~Failed(ps, x).ok
    BY FailedResult
  <2> QED
    BY <1>5, <2>1
<1>6. CASE len.ok /\ r = SectionPayload(ps, data, len.p, kind, len.v)
  <2>1. len.p \in 0..Len(data) /\ len.v \in Nat
    BY <1>1, <1>6 DEF Gives
  <2> QED
    BY <1>0, <1>2, <1>6, <2>1, SectionPayloadResult
<1> QED
  BY <1>3, <1>4, <1>5, <1>6

LEMMA ParseHeaderResult ==
  ASSUME NEW C, NEW data, IsData(data, C), NEW ps \in ParserStates, NEW r, r = parse_header(ps, data)
  PROVE  /\ Result(r, ps, "version", data, C)
         /\ r.ok => /\ r.ps.state = "section" /\ r.payload.count = Version[r.ps.encoding]
                    /\ r.payload.count = data[2].byte /\ r.p = 2
<1> DEFINE header == read_bytes(data, 0, 2)
           magic == read_bytes(data, 0, 1)
           known == {e \in DOMAIN Version : Version[e] = header.v[2].byte}
           encoding == CHOOSE e \in known : TRUE
           next == [ps EXCEPT !.state = "section", !.encoding = encoding]
<1>0. data \in Seq(C)
  BY DEF IsData
<1>1. header.ok => /\ header.p = 2 /\ 2 <= Len(data) /\ header.v = SubSeq(data, 1, 2)
  BY <1>0, BytesFacts
<1>2. header.ok => header.v[2] = data[2]
  BY <1>0, <1>1
<1> HIDE DEF header, magic
<1>3. \/ ~r.ok /\ \E x : r = Failed(ps, x)
      \/ /\ header.ok /\ known # {}
         /\ r = Parsed(next, Payload("version", ps.offset, Version[encoding], <<>>), 2)
  <2>1. r = IF ~magic.ok \/ (magic.v[1].byte = Magic /\ ~header.ok)
            THEN Failed(ps, IF magic.ok THEN header ELSE magic)
            ELSE IF magic.v[1].byte # Magic \/ known = {} THEN Failed(ps, Fail)
            ELSE Parsed(next, Payload("version", ps.offset, Version[encoding], <<>>), 2)
    BY DEF parse_header, header, magic
  <2> HIDE DEF known, next, encoding
  <2>2. \A x : ~Failed(ps, x).ok
    BY DEF Failed
  <2> QED
    BY <2>1, <2>2
<1>4. CASE ~r.ok /\ \E x : r = Failed(ps, x)
  BY <1>4, FailedResult
<1>5. CASE /\ header.ok /\ known # {}
           /\ r = Parsed(next, Payload("version", ps.offset, Version[encoding], <<>>), 2)
  <2>1. encoding \in DOMAIN Version /\ Version[encoding] = data[2].byte
    BY <1>2, <1>5
  <2> HIDE DEF encoding, known
  <2>2. Version[encoding] \in Nat
    BY <2>1 DEF Version
  <2>3. next \in ParserStates /\ next.state = "section" /\ next.encoding = encoding
    BY <2>1 DEF ParserStates
  <2> HIDE DEF next
  <2>4. ps.offset \in Nat /\ <<>> \in Seq(C) /\ 2 \in 0..Len(data)
    BY <1>0, <1>1, <1>5 DEF ParserStates
  <2>5. IsPayload(next, ps.offset, Version[encoding], <<>>, 2, data, C)
    BY <2>2, <2>3, <2>4 DEF IsPayload
  <2>6. PICK k : k = "version"
    OBVIOUS
  <2>7. Result(r, ps, k, data, C) /\ r.ok /\ r.ps = next
    BY <1>5, <2>5, <2>6, ParsedResult
  <2>8. r.payload.count = Version[encoding] /\ r.p = 2
    BY <1>5 DEF Parsed, Payload
  <2> QED
    BY <2>1, <2>3, <2>6, <2>7, <2>8
<1> QED
  BY <1>3, <1>4, <1>5

LEMMA ParseBodyResult ==
  ASSUME NEW C, NEW data, IsData(data, C), NEW ps \in ParserStates,
         ps.remaining # 0, NEW r, r = parse_body(ps, data)
  PROVE  /\ Result(r, ps, "body", data, C)
         /\ r.ok => /\ r.ps.state = ps.state /\ r.ps.remaining = ps.remaining - 1
                    /\ r.ps.encoding = ps.encoding
<1> DEFINE len == read_var_u32(data, 0)
           read == read_reader(data, 0)
           body == Delimited(read, 0, ps.len)
           next == [ps EXCEPT !.remaining = ps.remaining - 1, !.len = ps.len - body.p]
<1>0. data \in Seq(C) /\ \A c \in C : c.byte \in Nat
  BY DEF IsData
<1>1. Gives(read, Seq(C), data, 0, 1) /\ (read.ok => read.p >= Len(read.v))
  <2>1. Gives(len, Nat, data, 0, 1)
    BY <1>0, NumberFacts
  <2> HIDE DEF len
  <2>2. read = IF ~len.ok THEN len ELSE read_bytes(data, len.p, len.v)
    BY DEF read_reader, len
  <2>3. CASE ~len.ok
    BY <2>1, <2>2, <2>3 DEF Gives
  <2>4. CASE len.ok
    <3>1. len.p \in Nat /\ len.v \in Nat /\ len.p >= 1
      BY <2>1, <2>4 DEF Gives
    <3>2. /\ Gives(read, Seq(C), data, len.p, len.v)
          /\ read.ok => /\ read.p = len.p + len.v /\ Len(read.v) = len.v
      BY <1>0, <2>2, <2>4, <3>1, BytesFacts
    <3> HIDE DEF read
    <3> QED
      BY <3>1, <3>2 DEF Gives
  <2> QED
    BY <2>3, <2>4
<1> HIDE DEF read
<1>2. Gives(body, Seq(C), data, 0, 1) /\ (body.ok => body = read /\ body.p - 0 <= ps.len)
  <2>1. 0 \in Nat /\ 1 \in Nat /\ ps.len \in Nat
    BY DEF ParserStates
  <2> QED
    BY <1>1, <2>1, DelimitedFacts
<1> HIDE DEF body
<1>3. r = IF ~body.ok THEN Failed(ps, body)
          ELSE Parsed(next, Payload("body", ps.offset + body.p - Len(body.v), 0, body.v), body.p)
  BY DEF parse_body, body, read
<1>4. CASE ~body.ok
  BY <1>3, <1>4, FailedResult
<1>5. CASE body.ok
  <2>1. body.p \in Nat /\ body.p <= Len(data) /\ body.v \in Seq(C) /\ body.p <= ps.len
    BY <1>2, <1>5 DEF Gives
  <2>2. body.p >= Len(body.v) /\ Len(body.v) \in Nat
    BY <1>1, <1>2, <1>5, <2>1
  <2>3. ps.remaining \in Nat /\ ps.len \in Nat /\ ps.offset \in Nat
    BY DEF ParserStates
  <2>4. /\ ps.remaining - 1 \in Nat /\ ps.len - body.p \in Nat /\ body.p \in 0..Len(data)
        /\ ps.offset + body.p - Len(body.v) \in Nat
    <3>1. ps.remaining - 1 \in Nat
      BY <2>3
    <3>2. ps.len - body.p \in Nat
      BY <2>1, <2>3
    <3>3. body.p \in 0..Len(data)
      BY <2>1
    <3>4. ps.offset + body.p - Len(body.v) \in Nat
      BY <2>1, <2>2, <2>3
    <3> QED
      BY <3>1, <3>2, <3>3, <3>4
  <2>5. /\ next \in ParserStates /\ next.state = ps.state /\ next.encoding = ps.encoding
        /\ next.remaining = ps.remaining - 1
    BY <2>4 DEF ParserStates
  <2> HIDE DEF next
  <2>6. IsPayload(next, ps.offset + body.p - Len(body.v), 0, body.v, body.p, data, C)
    BY <2>1, <2>4, <2>5 DEF IsPayload
  <2>7. PICK k : k = "body"
    OBVIOUS
  <2>8. Result(r, ps, k, data, C) /\ r.ok /\ r.ps = next
    BY <1>3, <1>5, <2>6, <2>7, ParsedResult
  <2> QED
    BY <2>5, <2>7, <2>8
<1> QED
  BY <1>4, <1>5

\* The state of the parser decides what a payload may be; without one the parser
\* stays, or has left a code section that is over.
Closes(t, u) ==
  t.state = "body" /\ t.remaining = 0 /\ t.len = 0 /\ u = [t EXCEPT !.state = "section"]

Yields(t, data, r, k) ==
  \/ /\ t.state = "header" /\ k = "version" /\ r.ps.state = "section"
     /\ r.payload.count = Version[r.ps.encoding]
     /\ 2 \in 1..Len(data) /\ r.payload.count = data[2].byte
  \/ t.state = "section" /\ SectionYields(t, k, r)
  \/ t.state = "body" /\ t.remaining = 0 /\ SectionYields(t, k, r)
  \/ /\ t.state = "body" /\ t.remaining # 0 /\ k = "body" /\ r.ps.state = "body"
     /\ r.ps.remaining = t.remaining - 1 /\ r.ps.encoding = t.encoding

Parses(t, data, r, C) ==
  /\ {"ok", "ps", "payload", "p", "hint"} \subseteq DOMAIN r /\ r.ok \in BOOLEAN
  /\ r.ps \in ParserStates
  /\ ~r.ok => r.ps = t \/ Closes(t, r.ps)
  /\ r.ok => \E k : IsHanded(r.ps, r.payload, k, r.p, data, C) /\ Yields(t, data, r, k)

LEMMA ResultParses ==
  ASSUME NEW t \in ParserStates, NEW data, NEW r, NEW C, NEW k, Result(r, t, k, data, C),
         r.ok => Yields(t, data, r, k)
  PROVE  Parses(t, data, r, C)
BY DEF Result, Parses, IsHanded

LEMMA ReaderParses ==
  ASSUME NEW C, NEW data, IsData(data, C), NEW t \in ParserStates, NEW ends \in BOOLEAN,
         NEW r, r = parse_reader(t, data, ends)
  PROVE  Parses(t, data, r, C)
<1>0. t.state \in {"header", "section", "body"} /\ t.remaining \in Nat /\ t.len \in Nat
  BY DEF ParserStates
<1>1. CASE t.state = "header"
  <2>1. r = parse_header(t, data)
    BY <1>1 DEF parse_reader
  <2>2. /\ Result(r, t, "version", data, C)
        /\ r.ok => /\ r.ps.state = "section" /\ r.payload.count = Version[r.ps.encoding]
                   /\ r.payload.count = data[2].byte /\ r.p = 2
    BY <2>1, ParseHeaderResult
  <2>3. r.ok => 2 \in 1..Len(data)
    BY <2>2 DEF Result, IsData
  <2>4. r.ok => Yields(t, data, r, "version")
    BY <1>1, <2>2, <2>3 DEF Yields
  <2> QED
    BY <2>2, <2>4, ResultParses
<1>2. CASE t.state = "section"
  <2>1. r = parse_section(t, data, ends)
    BY <1>2 DEF parse_reader
  <2>2. PICK k : Result(r, t, k, data, C) /\ (r.ok => SectionYields(t, k, r))
    BY <1>2, <2>1, ParseSectionResult
  <2>3. r.ok => Yields(t, data, r, k)
    BY <1>2, <2>2 DEF Yields
  <2> QED
    BY <2>2, <2>3, ResultParses
<1>3. CASE t.state = "body" /\ t.remaining = 0 /\ t.len = 0
  <2> DEFINE u == [t EXCEPT !.state = "section"]
  <2>1. r = parse_section(u, data, ends)
    BY <1>3 DEF parse_reader
  <2>2. u \in ParserStates /\ u.state = "section" /\ u.encoding = t.encoding /\ Closes(t, u)
    BY <1>3 DEF ParserStates, Closes
  <2> HIDE DEF u
  <2>3. PICK k : Result(r, u, k, data, C) /\ (r.ok => SectionYields(u, k, r))
    BY <2>1, <2>2, ParseSectionResult
  <2>4. r.ok => Yields(t, data, r, k)
    BY <1>3, <2>2, <2>3 DEF Yields, SectionYields
  <2> QED
    BY <2>2, <2>3, <2>4 DEF Result, Parses, IsHanded
<1>4. CASE t.state = "body" /\ t.remaining = 0 /\ t.len > 0
  <2>1. r = Failed(t, Fail)
    BY <1>4 DEF parse_reader
  <2>2. Result(r, t, "none", data, C) /\ ~r.ok
    BY <2>1, FailedResult
  <2> QED
    BY <2>2, ResultParses
<1>5. CASE t.state = "body" /\ t.remaining # 0
  <2>1. r = parse_body(t, data)
    BY <1>5 DEF parse_reader
  <2>2. /\ Result(r, t, "body", data, C)
        /\ r.ok => /\ r.ps.state = t.state /\ r.ps.remaining = t.remaining - 1
                   /\ r.ps.encoding = t.encoding
    BY <1>5, <2>1, ParseBodyResult
  <2>3. r.ok => Yields(t, data, r, "body")
    BY <1>5, <2>2 DEF Yields
  <2> QED
    BY <2>2, <2>3, ResultParses
<1> QED
  BY <1>0, <1>1, <1>2, <1>3, <1>4, <1>5

\* parse itself sees some of the data and moves the parser on.
LEMMA AdvanceParses ==
  ASSUME NEW C, NEW data, NEW t \in ParserStates, NEW x, Parses(t, data, x, C),
         NEW ends \in BOOLEAN, NEW r, r = Advance(x, ends)
  PROVE  Parses(t, data, r, C) /\ r.p = x.p /\ r.payload = x.payload /\ r.ok = x.ok
<1>1. CASE x.ok
  <2> DEFINE moved == [x.ps EXCEPT !.offset = x.ps.offset + x.p, !.max_size = x.ps.max_size - x.p]
  <2>1. r = [x EXCEPT !.ps = moved]
    BY <1>1 DEF Advance, Parses
  <2>2. PICK k : IsHanded(x.ps, x.payload, k, x.p, data, C) /\ Yields(t, data, x, k)
    BY <1>1 DEF Parses
  <2>3. x.p \in Nat /\ x.ps.offset \in Nat /\ x.ps.max_size \in Int
    BY <2>2 DEF IsHanded, ParserStates
  <2>a. x.ps.offset + x.p \in Nat /\ x.ps.max_size - x.p \in Int /\ x.ps \in ParserStates
    BY <2>3 DEF Parses
  <2>4. /\ moved \in ParserStates /\ moved.state = x.ps.state /\ moved.encoding = x.ps.encoding
        /\ moved.remaining = x.ps.remaining
    BY <2>a DEF ParserStates
  <2> HIDE DEF moved
  <2>5. r.ps = moved /\ r.p = x.p /\ r.payload = x.payload /\ r.ok = x.ok /\ DOMAIN r = DOMAIN x
    BY <2>1 DEF Parses
  <2>6. IsHanded(r.ps, r.payload, k, r.p, data, C)
    BY <2>2, <2>4, <2>5 DEF IsHanded
  <2>7. Yields(t, data, r, k)
    BY <2>2, <2>4, <2>5 DEF Yields, SectionYields
  <2> QED
    BY <1>1, <2>4, <2>5, <2>6, <2>7 DEF Parses
<1>2. CASE ~x.ok
  <2>1. r = x \/ r = [x EXCEPT !.hint = 0]
    BY <1>2 DEF Advance
  <2>2. /\ r.ps = x.ps /\ r.p = x.p /\ r.payload = x.payload /\ r.ok = x.ok
        /\ DOMAIN r = DOMAIN x
    BY <2>1 DEF Parses
  <2> QED
    BY <1>2, <2>2 DEF Parses
<1> QED
  BY <1>1, <1>2 DEF Parses

LEMMA LimitIs ==
  ASSUME NEW C, NEW data \in Seq(C), NEW n \in Int, n < Len(data), NEW s, s = SubSeq(data, 1, n)
  PROVE  /\ s \in Seq(C) /\ Len(s) <= Len(data)
         /\ \A i \in 1..Len(s) : i \in 1..Len(data) /\ s[i] = data[i]
<1>1. CASE n >= 0
  <2>1. \A i \in 1..n : data[i] \in C
    BY <1>1
  <2>2. /\ SubSeq(data, 1, n) \in Seq(C)
        /\ Len(SubSeq(data, 1, n)) = n
        /\ \A i \in 1..n : SubSeq(data, 1, n)[i] = data[i]
    BY <1>1, <2>1, SubSeqProperties
  <2> QED
    BY <1>1, <2>2
<1>2. CASE n < 0
  <2>1. SubSeq(data, 1, n) = <<>>
    BY <1>2
  <2> QED
    BY <2>1
<1> QED
  BY <1>1, <1>2

LEMMA ParseParses ==
  ASSUME NEW C, NEW data, IsData(data, C), NEW t \in ParserStates, NEW ends \in BOOLEAN,
         NEW r, r = parse(t, data, ends)
  PROVE  Parses(t, data, r, C)
<1> DEFINE limited == Len(data) > t.max_size
           s == IF limited THEN SubSeq(data, 1, t.max_size) ELSE data
           x == parse_reader(t, s, limited \/ ends)
<1>0. data \in Seq(C) /\ t.max_size \in Int /\ limited \in BOOLEAN
  BY DEF IsData, ParserStates
<1>1. /\ s \in Seq(C) /\ Len(s) <= Len(data) /\ Len(s) \in Nat
      /\ \A i \in 1..Len(s) : i \in 1..Len(data) /\ s[i] = data[i]
  <2>1. CASE limited
    <3>1. t.max_size < Len(data) /\ s = SubSeq(data, 1, t.max_size)
      BY <1>0, <2>1
    <3> HIDE DEF s, limited
    <3> QED
      BY <1>0, <3>1, LimitIs
  <2>2. CASE ~limited
    BY <1>0, <2>2
  <2> QED
    BY <2>1, <2>2
<1>2. r = Advance(x, limited \/ ends)
  BY DEF parse
<1>3. Parses(t, s, x, C)
  <2>1. IsData(s, C) /\ (limited \/ ends) \in BOOLEAN
    BY <1>1 DEF IsData
  <2> HIDE DEF s, limited
  <2> QED
    BY <2>1, ReaderParses
<1> HIDE DEF s, x
<1>4. Parses(t, s, r, C)
  <2>1. (limited \/ ends) \in BOOLEAN
    OBVIOUS
  <2> HIDE DEF limited
  <2> QED
    BY <1>2, <1>3, <2>1, AdvanceParses
<1>5. ASSUME NEW k, IsHanded(r.ps, r.payload, k, r.p, s, C), Yields(t, s, r, k)
      PROVE  IsHanded(r.ps, r.payload, k, r.p, data, C) /\ Yields(t, data, r, k)
  <2>1. IsHanded(r.ps, r.payload, k, r.p, data, C)
    <3>1. r.p \in 0..Len(data)
      <4>1. r.p \in 0..Len(s)
        BY <1>5 DEF IsHanded
      <4> QED
        BY <4>1, <1>0, <1>1
    <3> QED
      BY <1>5, <3>1 DEF IsHanded
  <2>2. 2 \in 1..Len(s) => 2 \in 1..Len(data) /\ data[2] = s[2]
    BY <1>1
  <2>3. Yields(t, data, r, k)
    BY <1>5, <2>2 DEF Yields
  <2> QED
    BY <2>1, <2>3
<1> QED
  BY <1>4, <1>5 DEF Parses

-----------------------------------------------------------------------------
(* What the validator knows of the module it is in.                        *)

ModuleOk(m) ==
  /\ Functions(m) /\ m.order \in Nat /\ m.expected \in Int /\ m.segments \in Nat
  /\ m.data_count \in Int /\ m.next_body \in Int
  /\ m.shared => m.order >= Order.codestart

ValidatorOk(x) ==
  /\ Shaped(x) /\ Fine(x) /\ ModuleOk(x.module)
  /\ x.components \in Seq([module : Nat, component : Nat])
  /\ \E S : x.bodies \in Seq(S)

\* The promise of the function section, so many bodies, without a code section.
Promised(m, bodies) ==
  /\ bodies = <<>> /\ m.next_body = -1
  /\ \/ m.expected = -1 /\ Own(m) = 0
     \/ m.expected \in Nat /\ Own(m) = m.expected
  /\ m.order < Order.func => m.expected = -1

\* A code section keeps it: `rest' bodies are missing, those that are there are
\* numbered from the imported functions on, and the module still has everything
\* they could refer to.
Kept(m, bodies, rest) ==
  /\ m.order >= Order.codestart /\ m.expected = -1
  /\ Len(bodies) + rest = Own(m)
  /\ next_code_index(m) = m.imported_functions + Len(bodies)
  /\ \A k \in 1..Len(bodies) : /\ bodies[k].index = m.imported_functions + (k - 1)
                               /\ SameSpaces(bodies[k].module, m)

Counted(m, bodies, rest) ==
  \/ Promised(m, bodies) /\ rest = 0
  \/ Kept(m, bodies, rest)

LEMMA SameSpacesTrans ==
  ASSUME NEW a, NEW b, NEW c, SameSpaces(a, b), SameSpaces(b, c) PROVE SameSpaces(a, c)
BY DEF SameSpaces

LEMMA OrderOfKinds ==
  ASSUME NEW kind \in Kinds
  PROVE  /\ Order[kind] \in Nat /\ Order.codestart = 12 /\ Order.func = 3
         /\ kind # "data" => Order[kind] < Order.codestart
         /\ kind = "func" => Order[kind] = 3
         /\ kind = "data" => Order[kind] = 13
BY DEF Kinds, Order

\* A section keeps all this.
LEMMA SectionModuleOk ==
  ASSUME NEW kind \in Kinds, NEW count \in Nat, NEW m, ModuleOk(m), NEW n,
         SectionAdded(kind, count, m, n)
  PROVE  ModuleOk(n) /\ n.order > m.order
<1>1. /\ m.order \in Nat /\ m.expected \in Int /\ m.segments \in Nat /\ m.data_count \in Int
      /\ m.next_body \in Int /\ (m.shared => m.order >= Order.codestart)
  BY DEF ModuleOk
<1>2. /\ m.order < Order[kind] /\ n.order = Order[kind]
      /\ n.data_count = m.data_count /\ n.next_body = m.next_body /\ n.shared = m.shared
      /\ n.segments = (IF kind = "data" THEN count ELSE m.segments)
      /\ n.expected = (IF kind = "func" THEN count ELSE m.expected)
      /\ Functions(n)
  BY DEF SectionAdded
<1>3. Order[kind] \in Nat /\ Order.codestart \in Nat
  BY OrderOfKinds
<1>4. n.order > m.order /\ n.order \in Nat
  BY <1>1, <1>2, <1>3
<1>5. n.shared => n.order >= Order.codestart
  BY <1>1, <1>2, <1>3
<1>6. n.segments \in Nat /\ n.expected \in Int /\ n.data_count \in Int /\ n.next_body \in Int
  BY <1>1, <1>2
<1> QED
  BY <1>2, <1>4, <1>5, <1>6 DEF ModuleOk

LEMMA SectionCounted ==
  ASSUME NEW kind \in Kinds, NEW count \in Nat, NEW m, ModuleOk(m), NEW n,
         SectionAdded(kind, count, m, n), NEW bodies, \E S : bodies \in Seq(S),
         Counted(m, bodies, 0)
  PROVE  Counted(n, bodies, 0)
<1>1. /\ m.order \in Nat /\ m.expected \in Int
      /\ m.order < Order[kind] /\ n.order = Order[kind] /\ n.next_body = m.next_body
      /\ n.expected = (IF kind = "func" THEN count ELSE m.expected)
      /\ Gains(kind, m, n, count)
  BY DEF SectionAdded, ModuleOk
<1>2. /\ Order[kind] \in Nat /\ Order.codestart = 12 /\ Order.func = 3
      /\ kind # "data" => Order[kind] < Order.codestart
      /\ kind = "func" => Order[kind] = 3
      /\ kind = "data" => Order[kind] = 13
  BY OrderOfKinds
<1>3. Own(m) \in Int
  BY OwnIs DEF ModuleOk
<1>4. CASE Promised(m, bodies)
  <2>1. /\ bodies = <<>> /\ m.next_body = -1
        /\ \/ m.expected = -1 /\ Own(m) = 0
           \/ m.expected \in Nat /\ Own(m) = m.expected
        /\ m.order < Order.func => m.expected = -1
    BY <1>4 DEF Promised
  <2>2. CASE kind = "func"
    <3>1. m.order < Order.func
      BY <1>1, <1>2, <2>2
    <3>2. Own(m) = 0 /\ Own(n) = Own(m) + count /\ n.expected = count
      BY <1>1, <2>1, <2>2, <3>1 DEF Gains
    <3>3. Own(n) = count /\ ~(n.order < Order.func)
      BY <1>1, <1>2, <2>2, <3>2
    <3> QED
      BY <1>1, <2>1, <3>2, <3>3 DEF Counted, Promised
  <2>3. CASE kind # "func"
    <3>1. Own(n) = Own(m) /\ n.expected = m.expected
      BY <1>1, <2>3 DEF Gains
    <3>2. n.order < Order.func => m.order < Order.func
      BY <1>1, <1>2, <2>3
    <3> QED
      BY <1>1, <2>1, <3>1, <3>2 DEF Counted, Promised
  <2> QED
    BY <2>2, <2>3
<1>5. CASE Kept(m, bodies, 0)
  <2>0. m.order >= Order.codestart
    BY <1>5 DEF Kept
  <2>1. kind = "data" /\ SameSpaces(m, n) /\ n.expected = m.expected /\ Own(n) = Own(m)
    <3>1. kind = "data"
      BY <1>1, <1>2, <2>0
    <3> QED
      BY <1>1, <3>1 DEF SectionAdded, Gains
  <2>2. /\ m.expected = -1 /\ Len(bodies) + 0 = Own(m)
        /\ next_code_index(m) = m.imported_functions + Len(bodies)
        /\ \A k \in 1..Len(bodies) : /\ bodies[k].index = m.imported_functions + (k - 1)
                                     /\ SameSpaces(bodies[k].module, m)
    BY <1>5 DEF Kept
  <2>3. n.imported_functions = m.imported_functions
    BY <2>1 DEF SameSpaces
  <2>4. next_code_index(n) = next_code_index(m)
    BY <1>1, <2>3 DEF next_code_index
  <2>5. n.order >= Order.codestart
    BY <1>1, <1>2, <2>1
  <2>6. \A k \in 1..Len(bodies) : SameSpaces(bodies[k].module, n)
    BY <2>1, <2>2, SameSpacesTrans
  <2> QED
    BY <2>1, <2>2, <2>3, <2>4, <2>5, <2>6 DEF Counted, Kept
<1> QED
  BY <1>4, <1>5 DEF Counted

\* A section that only says something, the start section or the number of data
\* segments.
Passed(m, n, o) ==
  /\ o \in Nat /\ m.order < o /\ o < Order.codestart /\ n.order = o
  /\ n.functions = m.functions /\ n.imported_functions = m.imported_functions
  /\ n.next_body = m.next_body /\ n.expected = m.expected /\ n.segments = m.segments
  /\ n.shared = m.shared /\ n.data_count \in Int

LEMMA PassedFacts ==
  ASSUME NEW m, ModuleOk(m), NEW n, NEW o, Passed(m, n, o)
  PROVE  /\ ModuleOk(n)
         /\ \A bodies : Counted(m, bodies, 0) => Counted(n, bodies, 0)
<1>0. Order.codestart = 12 /\ Order.func = 3
  BY DEF Order
<1>1. Functions(n) /\ Own(n) = Own(m)
  BY DEF Functions, Own, ModuleOk, Passed
<1>2. ModuleOk(n)
  BY <1>0, <1>1 DEF ModuleOk, Passed
<1>3. ASSUME NEW bodies, Counted(m, bodies, 0) PROVE Counted(n, bodies, 0)
  <2>1. Promised(m, bodies)
    BY <1>0, <1>3 DEF Counted, Kept, Passed, ModuleOk
  <2>2. n.order < Order.func => m.order < Order.func
    BY <1>0 DEF Passed, ModuleOk
  <2> QED
    BY <1>1, <2>1, <2>2 DEF Counted, Promised, Passed
<1> QED
  BY <1>2, <1>3

\* A code section of so many bodies.
CodeStarted(m, n, count) ==
  /\ m.order < Order.codestart /\ n.order = Order.codestart
  /\ n.functions = m.functions /\ n.imported_functions = m.imported_functions
  /\ n.next_body = m.next_body /\ n.segments = m.segments
  /\ n.shared = m.shared /\ n.data_count = m.data_count
  /\ count \in Nat /\ n.expected = -1
  /\ m.expected = count \/ (m.expected = -1 /\ count = 0)

LEMMA CodeStartedFacts ==
  ASSUME NEW m, ModuleOk(m), NEW n, NEW count, CodeStarted(m, n, count)
  PROVE  /\ ModuleOk(n)
         /\ \A bodies : Counted(m, bodies, 0) => Counted(n, bodies, count)
<1>0. Order.codestart = 12 /\ Order.func = 3
  BY DEF Order
<1>1. Functions(n) /\ Own(n) = Own(m)
  BY DEF Functions, Own, ModuleOk, CodeStarted
<1>2. ModuleOk(n)
  BY <1>0, <1>1 DEF ModuleOk, CodeStarted
<1>3. ASSUME NEW bodies, Counted(m, bodies, 0) PROVE Counted(n, bodies, count)
  <2>1. Promised(m, bodies)
    BY <1>0, <1>3 DEF Counted, Kept, CodeStarted, ModuleOk
  <2>2. Own(m) = count
    BY <2>1 DEF Promised, CodeStarted
  <2>3. bodies = <<>> /\ Len(bodies) = 0 /\ n.next_body = -1
    BY <2>1 DEF Promised, CodeStarted
  <2>4. next_code_index(n) = n.imported_functions /\ n.imported_functions \in Nat
    BY <1>1, <2>3 DEF next_code_index, Functions
  <2>5. n.order >= Order.codestart /\ count \in Nat /\ n.expected = -1
    BY <1>0 DEF CodeStarted
  <2> QED
    BY <1>1, <2>2, <2>3, <2>4, <2>5 DEF Counted, Kept
<1> QED
  BY <1>2, <1>3

\* One body more, of the next function.
Entered(m, n) ==
  /\ m.order >= Order.codestart /\ n.order = m.order
  /\ n.segments = m.segments /\ n.expected = m.expected /\ SameSpaces(m, n)
  /\ n.next_body = next_code_index(m) + 1

LEMMA EnteredFacts ==
  ASSUME NEW m, ModuleOk(m), NEW n, Entered(m, n)
  PROVE  /\ ModuleOk(n)
         /\ \A bodies, rest, b :
              /\ (\E S : bodies \in Seq(S)) /\ Counted(m, bodies, rest) /\ rest \in Nat \ {0}
              /\ b.index = next_code_index(m) /\ b.module = m
              => Counted(n, Append(bodies, b), rest - 1)
<1>0. Order.codestart = 12
  BY DEF Order
<1>1. Functions(n) /\ Own(n) = Own(m) /\ Own(m) \in Int
  BY OwnIs DEF Functions, Own, ModuleOk, Entered, SameSpaces
<1>2. ModuleOk(n)
  <2>1. next_code_index(m) \in Int
    BY DEF ModuleOk, Functions, next_code_index
  <2> QED
    BY <1>0, <1>1, <2>1 DEF ModuleOk, Entered, SameSpaces
<1>3. ASSUME NEW bodies, NEW rest, NEW b, \E S : bodies \in Seq(S), Counted(m, bodies, rest),
             rest \in Nat \ {0}, b.index = next_code_index(m), b.module = m
      PROVE  Counted(n, Append(bodies, b), rest - 1)
  <2>1. Kept(m, bodies, rest)
    BY <1>3 DEF Counted
  <2>2. PICK S : bodies \in Seq(S)
    BY <1>3
  <2> DEFINE more == Append(bodies, b)
  <2>3. /\ Len(bodies) \in Nat /\ Len(more) = Len(bodies) + 1
        /\ \A k \in 1..Len(bodies) : more[k] = bodies[k]
        /\ more[Len(bodies) + 1] = b
    <3>1. bodies \in Seq(S \cup {b}) /\ b \in S \cup {b}
      BY <2>2
    <3> QED
      BY <3>1
  <2>4. n.imported_functions = m.imported_functions /\ m.imported_functions \in Nat
    BY DEF Entered, SameSpaces, ModuleOk, Functions
  <2>5. next_code_index(m) = m.imported_functions + Len(bodies)
    BY <2>1 DEF Kept
  <2>6. next_code_index(n) = n.imported_functions + Len(more)
    <3>1. n.next_body = m.imported_functions + Len(bodies) + 1 /\ n.next_body # -1
      BY <2>3, <2>4, <2>5 DEF Entered
    <3> QED
      BY <3>1, <2>3, <2>4 DEF next_code_index
  <2>7. Len(more) + (rest - 1) = Own(n)
    BY <1>1, <1>3, <2>1, <2>3 DEF Kept
  <2>8. n.order >= Order.codestart /\ n.expected = -1
    BY <2>1 DEF Kept, Entered
  <2>9. ASSUME NEW k \in 1..Len(more)
        PROVE  more[k].index = n.imported_functions + (k - 1) /\ SameSpaces(more[k].module, n)
    <3>1. CASE k \in 1..Len(bodies)
      <4>1. more[k] = bodies[k] /\ SameSpaces(m, n)
        BY <2>3, <3>1 DEF Entered
      <4>2. bodies[k].index = m.imported_functions + (k - 1) /\ SameSpaces(bodies[k].module, m)
        BY <2>1, <3>1 DEF Kept
      <4> QED
        BY <2>4, <4>1, <4>2, SameSpacesTrans
    <3>2. CASE k = Len(bodies) + 1
      <4>1. more[k] = b
        BY <2>3, <3>2
      <4>2. b.index = n.imported_functions + (k - 1)
        BY <1>3, <2>3, <2>4, <2>5, <3>2
      <4> QED
        BY <1>3, <4>1, <4>2 DEF Entered
    <3> QED
      BY <2>3, <3>1, <3>2
  <2> HIDE DEF more
  <2>10. Kept(n, more, rest - 1)
    BY <2>6, <2>7, <2>8, <2>9 DEF Kept
  <2> QED
    BY <2>10 DEF Counted, more
<1> QED
  BY <1>2, <1>3

-----------------------------------------------------------------------------
(* What Validator::payload does with a payload, by its kind.               *)

\* Inside a module.
Works(x, y) ==
  /\ ValidatorOk(y) /\ x.state = "module" /\ y.state = "module"
  /\ y.components = x.components

\* A payload as the parser hands it out.
IsGiven(p, C) ==
  /\ p.count \in Nat /\ p.cells \in Seq(C)
  /\ \A c \in C : Listed(c.item)

LEMMA GivenCells ==
  ASSUME NEW p, NEW C, IsGiven(p, C)
  PROVE  Len(p.cells) \in Nat /\ \A k \in 1..Len(p.cells) : Listed(p.cells[k].item)
BY DEF IsGiven

LEMMA SectionWorks ==
  ASSUME NEW x, ValidatorOk(x), NEW C, NEW p, IsGiven(p, C), p.kind \in Kinds,
         NEW y, y = payload(x, p)
  PROVE  /\ y.error # "panic"
         /\ Fine(y) => /\ Works(x, y) /\ y.bodies = x.bodies
                       /\ Counted(x.module, x.bodies, 0) => Counted(y.module, y.bodies, 0)
<1>1. y = process_module_section(x, p)
  BY DEF payload, Kinds, Order
<1>2. /\ Shaped(x) /\ Fine(x) /\ ModuleOk(x.module) /\ Functions(x.module)
      /\ x.components \in Seq([module : Nat, component : Nat])
      /\ \E S : x.bodies \in Seq(S)
  BY DEF ValidatorOk, ModuleOk
<1>3. p.count \in Nat /\ Len(p.cells) \in Nat /\ \A k \in 1..Len(p.cells) : Listed(p.cells[k].item)
  BY GivenCells DEF IsGiven
<1>4. /\ y.error = "panic" => /\ x.module.shared /\ p.kind # "data"
                              /\ x.module.order < Order[p.kind]
      /\ Fine(y) => /\ SameOutside(x, y) /\ x.state = "module"
                    /\ SectionAdded(p.kind, p.count, x.module, y.module)
  BY <1>1, <1>2, <1>3, ProcessFacts
<1>5. y.error # "panic"
  <2>1. SUFFICES ASSUME y.error = "panic" PROVE FALSE
    OBVIOUS
  <2>2. x.module.order \in Nat /\ x.module.order >= Order.codestart
    BY <1>2, <1>4, <2>1 DEF ModuleOk
  <2>3. Order[p.kind] \in Nat /\ Order.codestart = 12 /\ Order[p.kind] < Order.codestart
    BY <1>4, <2>1, OrderOfKinds
  <2> QED
    BY <1>4, <2>1, <2>2, <2>3
<1>6. ASSUME Fine(y)
      PROVE  /\ Works(x, y) /\ y.bodies = x.bodies
             /\ Counted(x.module, x.bodies, 0) => Counted(y.module, y.bodies, 0)
  <2>1. SameOutside(x, y) /\ x.state = "module" /\ SectionAdded(p.kind, p.count, x.module, y.module)
    BY <1>4, <1>6
  <2>2. ModuleOk(y.module)
    BY <1>2, <1>3, <2>1, SectionModuleOk
  <2>3. /\ Shaped(y) /\ y.state = "module" /\ y.components = x.components /\ y.bodies = x.bodies
    BY <2>1 DEF SameOutside
  <2>4. ValidatorOk(y)
    BY <1>2, <1>6, <2>2, <2>3 DEF ValidatorOk
  <2>5. Counted(x.module, x.bodies, 0) => Counted(y.module, x.bodies, 0)
    BY <1>2, <1>3, <2>1, SectionCounted
  <2> QED
    BY <2>1, <2>3, <2>4, <2>5 DEF Works
<1> QED
  BY <1>5, <1>6

LEMMA StartWorks ==
  ASSUME NEW x, ValidatorOk(x), NEW p, p.kind = "start", NEW y, y = payload(x, p)
  PROVE  /\ y.error # "panic"
         /\ Fine(y) => /\ Works(x, y) /\ y.bodies = x.bodies
                       /\ Counted(x.module, x.bodies, 0) => Counted(y.module, y.bodies, 0)
<1>1. y = start_section(x, p)
  BY DEF payload
<1>2. /\ Shaped(x) /\ Fine(x) /\ ModuleOk(x.module)
      /\ x.components \in Seq([module : Nat, component : Nat])
      /\ \E S : x.bodies \in Seq(S)
  BY DEF ValidatorOk
<1>3. /\ y.error # "panic"
      /\ Fine(y) => /\ x.state = "module" /\ x.module.order < Order.start
                    /\ y = [x EXCEPT !.module.order = Order.start]
  BY <1>1, <1>2, StartFacts
<1>4. ASSUME Fine(y)
      PROVE  /\ Works(x, y) /\ y.bodies = x.bodies
             /\ Counted(x.module, x.bodies, 0) => Counted(y.module, y.bodies, 0)
  <2>1. /\ x.state = "module" /\ y.state = "module" /\ y.components = x.components
        /\ y.bodies = x.bodies /\ Shaped(y) /\ y.module = [x.module EXCEPT !.order = Order.start]
    BY <1>2, <1>3, <1>4 DEF Shaped
  <2>2. Passed(x.module, y.module, Order.start)
    <3>1. Order.start = 9 /\ Order.codestart = 12
      BY DEF Order
    <3>2. x.module.order < Order.start
      BY <1>3, <1>4
    <3>3. x.module.data_count \in Int /\ "order" \in DOMAIN x.module
      BY <1>2 DEF ModuleOk, Shaped
    <3> QED
      BY <2>1, <3>1, <3>2, <3>3 DEF Passed
  <2>3. /\ ModuleOk(y.module)
        /\ \A bodies : Counted(x.module, bodies, 0) => Counted(y.module, bodies, 0)
    BY <1>2, <2>2, PassedFacts
  <2> QED
    BY <1>2, <1>4, <2>1, <2>3 DEF Works, ValidatorOk
<1> QED
  BY <1>3, <1>4

LEMMA DataCountWorks ==
  ASSUME NEW x, ValidatorOk(x), NEW p, p.count \in Nat, p.kind = "datacount",
         NEW y, y = payload(x, p)
  PROVE  /\ y.error # "panic"
         /\ Fine(y) => /\ Works(x, y) /\ y.bodies = x.bodies
                       /\ Counted(x.module, x.bodies, 0) => Counted(y.module, y.bodies, 0)
<1>0. Order.datacount = 11 /\ Order.codestart = 12
  BY DEF Order
<1>1. y = data_count_section(x, p)
  BY DEF payload
<1>2. /\ Shaped(x) /\ Fine(x) /\ ModuleOk(x.module)
      /\ x.components \in Seq([module : Nat, component : Nat])
      /\ \E S : x.bodies \in Seq(S)
  BY DEF ValidatorOk
<1>3. /\ y.error = "panic" => x.module.shared /\ x.module.order < Order.datacount
      /\ Fine(y) => /\ x.state = "module" /\ x.module.order < Order.datacount
                    /\ y = [x EXCEPT !.module.order = Order.datacount,
                                     !.module.data_count = p.count]
  <2>1. Shaped(x) /\ Fine(x)
    BY <1>2
  <2>2. DataCounted(x, p, y)
    BY <1>1, <2>1, DataCountFacts
  <2> QED
    BY <2>2 DEF DataCounted
<1>4. y.error # "panic"
  BY <1>0, <1>2, <1>3 DEF ModuleOk
<1>5. ASSUME Fine(y)
      PROVE  /\ Works(x, y) /\ y.bodies = x.bodies
             /\ Counted(x.module, x.bodies, 0) => Counted(y.module, y.bodies, 0)
  <2>1. /\ x.state = "module" /\ y.state = "module" /\ y.components = x.components
        /\ y.bodies = x.bodies /\ Shaped(y)
        /\ y.module = [x.module EXCEPT !.order = Order.datacount, !.data_count = p.count]
    BY <1>2, <1>3, <1>5 DEF Shaped
  <2>2. Passed(x.module, y.module, Order.datacount)
    <3>1. x.module.order < Order.datacount
      BY <1>3, <1>5
    <3>2. "order" \in DOMAIN x.module /\ "data_count" \in DOMAIN x.module
      BY <1>2 DEF Shaped
    <3> QED
      BY <1>0, <2>1, <3>1, <3>2 DEF Passed
  <2>3. /\ ModuleOk(y.module)
        /\ \A bodies : Counted(x.module, bodies, 0) => Counted(y.module, bodies, 0)
    BY <1>2, <2>2, PassedFacts
  <2> QED
    BY <1>2, <1>5, <2>1, <2>3 DEF Works, ValidatorOk
<1> QED
  BY <1>4, <1>5

LEMMA CodeStartWorks ==
  ASSUME NEW x, ValidatorOk(x), NEW p, p.count \in Nat, p.kind = "codestart",
         NEW y, y = payload(x, p)
  PROVE  /\ y.error # "panic"
         /\ Fine(y) => /\ Works(x, y) /\ y.bodies = x.bodies
                       /\ y.module.order >= Order.codestart
                       /\ Counted(x.module, x.bodies, 0) => Counted(y.module, y.bodies, p.count)
<1>0. Order.codestart = 12
  BY DEF Order
<1>1. y = code_section_start(x, p)
  BY DEF payload
<1>2. /\ Shaped(x) /\ Fine(x) /\ ModuleOk(x.module)
      /\ x.components \in Seq([module : Nat, component : Nat])
      /\ \E S : x.bodies \in Seq(S)
  BY DEF ValidatorOk
<1>3. /\ y.error = "panic" => x.module.shared /\ x.module.order < Order.codestart
      /\ Fine(y) => /\ x.state = "module" /\ x.module.order < Order.codestart
                    /\ \/ x.module.expected = p.count
                       \/ x.module.expected = -1 /\ p.count = 0
                    /\ y = [x EXCEPT !.module.order = Order.codestart, !.module.expected = -1,
                                     !.types = commit(x.types)]
  <2>1. Shaped(x) /\ Fine(x)
    BY <1>2
  <2>2. CodeBegun(x, p, y)
    BY <1>1, <2>1, CodeStartFacts
  <2> QED
    BY <2>2 DEF CodeBegun
<1>4. y.error # "panic"
  BY <1>0, <1>2, <1>3 DEF ModuleOk
<1>5. ASSUME Fine(y)
      PROVE  /\ Works(x, y) /\ y.bodies = x.bodies /\ y.module.order >= Order.codestart
             /\ Counted(x.module, x.bodies, 0) => Counted(y.module, y.bodies, p.count)
  <2>1. /\ x.state = "module" /\ y.state = "module" /\ y.components = x.components
        /\ y.bodies = x.bodies /\ Shaped(y)
        /\ y.module = [x.module EXCEPT !.order = Order.codestart, !.expected = -1]
    BY <1>2, <1>3, <1>5 DEF Shaped
  <2>2. CodeStarted(x.module, y.module, p.count)
    <3>1. /\ x.module.order < Order.codestart
          /\ x.module.expected = p.count \/ (x.module.expected = -1 /\ p.count = 0)
      BY <1>3, <1>5
    <3>2. "order" \in DOMAIN x.module /\ "expected" \in DOMAIN x.module
      BY <1>2 DEF Shaped
    <3> QED
      BY <1>0, <2>1, <3>1, <3>2 DEF CodeStarted
  <2>3. /\ ModuleOk(y.module)
        /\ \A bodies : Counted(x.module, bodies, 0) => Counted(y.module, bodies, p.count)
    BY <1>2, <2>2, CodeStartedFacts
  <2>4. y.module.order >= Order.codestart
    BY <1>0, <2>2 DEF CodeStarted
  <2> QED
    BY <1>2, <1>5, <2>1, <2>3, <2>4 DEF Works, ValidatorOk
<1> QED
  BY <1>4, <1>5

LEMMA EntryWorks ==
  ASSUME NEW x, ValidatorOk(x), x.module.order >= Order.codestart, NEW p, p.kind = "body",
         NEW y, y = payload(x, p)
  PROVE  /\ y.error # "panic"
         /\ Fine(y) => /\ Works(x, y)
                       /\ y.module.order >= Order.codestart
                       /\ \A rest \in Nat \ {0} :
                            Counted(x.module, x.bodies, rest) => Counted(y.module, y.bodies, rest - 1)
<1>1. y = code_section_entry(x, p)
  BY DEF payload, Order
<1>2. /\ Shaped(x) /\ Fine(x) /\ ModuleOk(x.module)
      /\ x.components \in Seq([module : Nat, component : Nat])
      /\ \E S : x.bodies \in Seq(S)
  BY DEF ValidatorOk
<1>3. /\ y.error # "panic"
      /\ Fine(y) => /\ x.state = "module"
                    /\ y = [x EXCEPT !.module.next_body = next_code_index(x.module) + 1,
                                     !.module.shared = TRUE,
                                     !.bodies = Append(x.bodies, Body(x, p))]
  BY <1>1, <1>2, EntryFacts
<1>4. ASSUME Fine(y)
      PROVE  /\ Works(x, y) /\ y.module.order >= Order.codestart
             /\ \A rest \in Nat \ {0} :
                  Counted(x.module, x.bodies, rest) => Counted(y.module, y.bodies, rest - 1)
  <2>1. /\ x.state = "module" /\ y.state = "module" /\ y.components = x.components
        /\ y.bodies = Append(x.bodies, Body(x, p)) /\ Shaped(y)
        /\ y.module = [x.module EXCEPT !.next_body = next_code_index(x.module) + 1,
                                       !.shared = TRUE]
    BY <1>2, <1>3, <1>4 DEF Shaped
  <2>2. Entered(x.module, y.module)
    <3>1. "next_body" \in DOMAIN x.module /\ "shared" \in DOMAIN x.module
      BY <1>2 DEF Shaped
    <3> QED
      BY <2>1, <3>1 DEF Entered, SameSpaces
  <2>3. /\ ModuleOk(y.module)
        /\ \A bodies, rest, b :
             /\ (\E S : bodies \in Seq(S)) /\ Counted(x.module, bodies, rest) /\ rest \in Nat \ {0}
             /\ b.index = next_code_index(x.module) /\ b.module = x.module
             => Counted(y.module, Append(bodies, b), rest - 1)
    BY <1>2, <2>2, EnteredFacts
  <2>4. \E S : y.bodies \in Seq(S)
    <3>1. \E S : x.bodies \in Seq(S)
      BY <1>2
    <3>2. \E S : Append(x.bodies, Body(x, p)) \in Seq(S)
      BY <3>1, AppendIs
    <3> QED
      BY <2>1, <3>2
  <2>5. y.module.order >= Order.codestart
    BY <2>2 DEF Entered
  <2>6. Body(x, p).index = next_code_index(x.module) /\ Body(x, p).module = x.module
    BY DEF Body
  <2>7. ASSUME NEW rest \in Nat \ {0}, Counted(x.module, x.bodies, rest)
        PROVE  Counted(y.module, y.bodies, rest - 1)
    BY <1>2, <2>1, <2>3, <2>6, <2>7
  <2> QED
    BY <1>2, <1>4, <2>1, <2>3, <2>4, <2>5, <2>7 DEF Works, ValidatorOk
<1> QED
  BY <1>3, <1>4

LEMMA NewModuleOk == ModuleOk(NewModule) /\ Counted(NewModule, <<>>, 0)
<1>1. Functions(NewModule) /\ Own(NewModule) = 0
  <2>1. NewModule.functions = <<>> /\ NewModule.imported_functions = 0
    BY DEF NewModule
  <2>2. \E S : NewModule.functions \in Seq(S)
    <3>1. NewModule.functions \in Seq({})
      BY <2>1
    <3> QED
      BY <3>1
  <2> QED
    BY <2>1, <2>2 DEF Functions, Own
<1>2. /\ NewModule.order = 0 /\ NewModule.expected = -1 /\ NewModule.segments = 0
      /\ NewModule.data_count = -1 /\ NewModule.next_body = -1 /\ NewModule.shared = FALSE
  BY DEF NewModule
<1> QED
  BY <1>1, <1>2 DEF ModuleOk, Counted, Promised

LEMMA VersionWorks ==
  ASSUME NEW x, ValidatorOk(x), NEW p, p.kind = "version", NEW y, y = payload(x, p)
  PROVE  /\ y.error # "panic"
         /\ Fine(y) => /\ ValidatorOk(y) /\ y.bodies = x.bodies
                       /\ p.count = Version.module =>
                            /\ y.state = "module" /\ y.components = x.components
                            /\ y.module = NewModule
                       /\ p.count # Version.module =>
                            /\ y.state = "component"
                            /\ Len(y.components) = Len(x.components) + 1
<1>1. y = version(x, p)
  BY DEF payload, Order
<1>2. /\ Shaped(x) /\ Fine(x) /\ ModuleOk(x.module)
      /\ x.components \in Seq([module : Nat, component : Nat])
      /\ \E S : x.bodies \in Seq(S)
  BY DEF ValidatorOk
<1>3. /\ y.error # "panic"
      /\ Fine(y) => /\ x.state = "unparsed"
                    /\ y = IF p.count = Version.module
                           THEN [x EXCEPT !.state = "module", !.module = NewModule]
                           ELSE [x EXCEPT !.state = "component",
                                          !.components = Append(x.components, NewComponent)]
  <2>1. Versioned(x, p, y)
    BY <1>1, <1>2, VersionFacts
  <2> QED
    BY <2>1 DEF Versioned
<1>4. ASSUME Fine(y), p.count = Version.module
      PROVE  /\ ValidatorOk(y) /\ y.bodies = x.bodies /\ y.state = "module"
             /\ y.components = x.components /\ y.module = NewModule
  <2>1. y = [x EXCEPT !.state = "module", !.module = NewModule]
    BY <1>3, <1>4
  <2>2. /\ y.bodies = x.bodies /\ y.state = "module"
        /\ y.components = x.components /\ y.module = NewModule
    BY <1>2, <2>1 DEF Shaped
  <2>3. Shaped(y)
    BY <1>2, <2>1, <2>2 DEF Shaped, NewModule
  <2> QED
    BY <1>2, <1>4, <2>2, <2>3, NewModuleOk DEF ValidatorOk
<1>5. ASSUME Fine(y), p.count # Version.module
      PROVE  /\ ValidatorOk(y) /\ y.bodies = x.bodies /\ y.state = "component"
             /\ Len(y.components) = Len(x.components) + 1
  <2>1. y = [x EXCEPT !.state = "component", !.components = Append(x.components, NewComponent)]
    BY <1>3, <1>5
  <2>2. /\ y.bodies = x.bodies /\ y.state = "component" /\ y.module = x.module
        /\ y.components = Append(x.components, NewComponent) /\ Shaped(y)
    BY <1>2, <2>1 DEF Shaped
  <2>3. NewComponent \in [module : Nat, component : Nat]
    BY DEF NewComponent
  <2>4. /\ y.components \in Seq([module : Nat, component : Nat])
        /\ Len(y.components) = Len(x.components) + 1
    BY <1>2, <2>2, <2>3
  <2> QED
    BY <1>2, <1>5, <2>2, <2>4 DEF ValidatorOk
<1> QED
  BY <1>3, <1>4, <1>5

LEMMA NestedWorks ==
  ASSUME NEW x, ValidatorOk(x), NEW p, p.kind \in {"module", "component"}, NEW y, y = payload(x, p)
  PROVE  /\ y.error # "panic"
         /\ Fine(y) => /\ ValidatorOk(y) /\ x.state = "component" /\ y.state = "unparsed"
                       /\ y.components = x.components
<1>1. y = nested_section(x, p)
  BY DEF payload, Order
<1>2. /\ Shaped(x) /\ Fine(x) /\ ModuleOk(x.module)
      /\ x.components \in Seq([module : Nat, component : Nat])
      /\ \E S : x.bodies \in Seq(S)
  BY DEF ValidatorOk
<1>3. /\ y.error # "panic"
      /\ Fine(y) => /\ x.state = "component"
                    /\ y = [x EXCEPT !.state = "unparsed", !.expected = p.kind]
  BY <1>1, <1>2, NestedFacts
<1>4. ASSUME Fine(y)
      PROVE  ValidatorOk(y) /\ y.state = "unparsed" /\ y.components = x.components
  <2>1. /\ y.bodies = x.bodies /\ y.state = "unparsed" /\ y.module = x.module
        /\ y.components = x.components /\ Shaped(y)
    BY <1>2, <1>3, <1>4 DEF Shaped
  <2> QED
    BY <1>2, <1>4, <2>1 DEF ValidatorOk
<1> QED
  BY <1>3, <1>4

\* One module or component more in the innermost component.
LEMMA AddToFacts ==
  ASSUME NEW w, Shaped(w), w.components \in Seq([module : Nat, component : Nat]),
         w.components # <<>>, NEW kind \in {"module", "component"}
  PROVE  LET u == AddTo(w, kind)
         IN  /\ Shaped(u) /\ u.state = "component" /\ u.module = w.module /\ u.types = w.types
             /\ u.bodies = w.bodies /\ u.error = w.error
             /\ u.components \in Seq([module : Nat, component : Nat])
             /\ Len(u.components) = Len(w.components)
<1> DEFINE R == [module : Nat, component : Nat]
           cs == w.components
           c == [cs[Len(cs)] EXCEPT ![kind] = @ + 1]
           u == AddTo(w, kind)
<1>1. Len(cs) \in 1..Len(cs) /\ cs[Len(cs)] \in R
  <2>1. cs \in Seq(R) /\ cs # <<>>
    OBVIOUS
  <2>2. Len(cs) \in Nat \ {0}
    BY <2>1, EmptySeq, LenProperties
  <2> HIDE DEF cs, R
  <2> QED
    BY <2>1, <2>2
<1>2. c \in R
  <2> DEFINE d == cs[Len(cs)]
  <2>1. d \in R
    BY <1>1
  <2> HIDE DEF d
  <2>2. [d EXCEPT ![kind] = @ + 1] \in R
    BY <2>1
  <2> QED
    BY <2>2 DEF d
<1>3. u = [w EXCEPT !.state = "component", !.components = [cs EXCEPT ![Len(cs)] = c]]
  BY DEF AddTo, Shaped
<1>4. [cs EXCEPT ![Len(cs)] = c] \in Seq(R) /\ Len([cs EXCEPT ![Len(cs)] = c]) = Len(cs)
  BY <1>1, <1>2, ExceptSeq
<1> HIDE DEF c
<1> QED
  BY <1>3, <1>4 DEF Shaped

\* The end of a module or a component.
Ends(x, y) ==
  /\ ValidatorOk(y) /\ y.bodies = x.bodies /\ y.module = x.module
  /\ x.state \in {"module", "component"}
  /\ x.state = "module" => /\ x.module.data_count \in {-1, x.module.segments}
                           /\ x.module.expected <= 0
                           /\ Len(y.components) = Len(x.components)
                           /\ IF Len(x.components) = 0 THEN y.state = "end"
                              ELSE y.state = "component"
  /\ x.state = "component" => IF Len(x.components) = 1
                              THEN y.state = "end" /\ Len(y.components) = 0
                              ELSE /\ y.state = "component"
                                   /\ Len(y.components) = Len(x.components) - 1

LEMMA FrontIs ==
  ASSUME NEW R, NEW cs \in Seq(R), cs # <<>>
  PROVE  /\ Front(cs) \in Seq(R) /\ Len(Front(cs)) = Len(cs) - 1 /\ Len(cs) \in Nat \ {0}
         /\ \A i \in 1..(Len(cs) - 1) : Front(cs)[i] = cs[i]
         /\ Front(cs) = <<>> <=> Len(cs) = 1
<1>1. Len(cs) \in Nat \ {0}
  BY EmptySeq, LenProperties
<1>2. Front(cs) = SubSeq(cs, 1, Len(cs) - 1)
  BY DEF Front
<1>3. /\ Front(cs) \in Seq(R) /\ Len(Front(cs)) = Len(cs) - 1
      /\ \A i \in 1..(Len(cs) - 1) : Front(cs)[i] = cs[i]
  <2> DEFINE n == Len(cs) - 1
  <2>1. n \in 0..Len(cs) /\ n + 1 - 1 = n
    BY <1>1
  <2>2. /\ SubSeq(cs, 1, n) \in Seq(R) /\ Len(SubSeq(cs, 1, n)) = n
        /\ \A i \in 1..n : SubSeq(cs, 1, n)[i] = cs[i]
    <3>1. CASE n = 0
      <4>1. SubSeq(cs, 1, n) = <<>>
        <5>1. SubSeq(cs, 1, 0) = <<>>
          OBVIOUS
        <5> QED
          BY <3>1, <5>1
      <4> HIDE DEF n
      <4> QED
        BY <3>1, <4>1, EmptySeq
    <3>2. CASE n > 0
      BY <2>1, <3>2, SubSeqProperties
    <3> QED
      BY <2>1, <3>1, <3>2
  <2> QED
    BY <1>2, <2>2
<1> QED
  BY <1>1, <1>3, EmptySeq

LEMMA EndWorks ==
  ASSUME NEW x, ValidatorOk(x), x.state = "component" => x.components # <<>>,
         NEW p, p.kind = "end", NEW y, y = payload(x, p)
  PROVE  y.error # "panic" /\ (Fine(y) => Ends(x, y))
<1> DEFINE R == [module : Nat, component : Nat]
<1>1. y = end(x)
  BY DEF payload, Order
<1>2. /\ Shaped(x) /\ Fine(x) /\ ModuleOk(x.module)
      /\ x.components \in Seq([module : Nat, component : Nat])
      /\ \E S : x.bodies \in Seq(S)
  BY DEF ValidatorOk
<1>3. /\ y.error # "panic"
      /\ Fine(y) =>
           \/ /\ x.state = "module"
              /\ x.module.data_count \in {-1, x.module.segments} /\ x.module.expected <= 0
              /\ y = IF x.components = <<>>
                     THEN [x EXCEPT !.state = "end", !.types = commit(x.types)]
                     ELSE [AddTo(x, "module") EXCEPT !.types = commit(AddTo(x, "module").types)]
           \/ /\ x.state = "component"
              /\ y.error = "" /\ y.bodies = x.bodies /\ y.module = x.module /\ Shaped(y)
              /\ \E c : /\ c = [x EXCEPT !.components = Front(x.components)]
                        /\ IF c.components = <<>>
                           THEN y.state = "end" /\ y.components = <<>>
                           ELSE /\ y.state = "component"
                                /\ y.components = AddTo(c, "component").components
  <2>1. Shaped(x) /\ Fine(x)
    BY <1>2
  <2>2. Ended(x, y)
    BY <1>1, <2>1, EndFacts
  <2> QED
    BY <2>2 DEF Ended
<1>4. ASSUME Fine(y), x.state = "module"
      PROVE  Ends(x, y)
  <2>1. /\ x.module.data_count \in {-1, x.module.segments} /\ x.module.expected <= 0
        /\ y = IF x.components = <<>>
               THEN [x EXCEPT !.state = "end", !.types = commit(x.types)]
               ELSE [AddTo(x, "module") EXCEPT !.types = commit(AddTo(x, "module").types)]
    BY <1>3, <1>4
  <2>2. x.components = <<>> <=> Len(x.components) = 0
    BY <1>2, EmptySeq
  <2>3. CASE x.components = <<>>
    <3>1. y = [x EXCEPT !.state = "end", !.types = commit(x.types)]
      BY <2>1, <2>3
    <3>2. /\ y.state = "end" /\ y.components = x.components /\ y.bodies = x.bodies
          /\ y.module = x.module /\ Shaped(y)
      BY <1>2, <3>1 DEF Shaped
    <3> QED
      BY <1>2, <1>4, <2>1, <2>2, <2>3, <3>2 DEF Ends, ValidatorOk
  <2>4. CASE x.components # <<>>
    <3> DEFINE u == AddTo(x, "module")
    <3>1. /\ Shaped(u) /\ u.state = "component" /\ u.module = x.module /\ u.types = x.types
          /\ u.bodies = x.bodies /\ u.error = x.error
          /\ u.components \in Seq([module : Nat, component : Nat])
          /\ Len(u.components) = Len(x.components)
      BY <1>2, <2>4, AddToFacts
    <3>2. y = [u EXCEPT !.types = commit(u.types)]
      BY <2>1, <2>4
    <3> HIDE DEF u
    <3>3. /\ y.state = "component" /\ y.components = u.components /\ y.bodies = x.bodies
          /\ y.module = x.module /\ Shaped(y)
      BY <3>1, <3>2 DEF Shaped
    <3> QED
      BY <1>2, <1>4, <2>1, <2>2, <2>4, <3>1, <3>3 DEF Ends, ValidatorOk
  <2> QED
    BY <2>3, <2>4
<1>5. ASSUME Fine(y), x.state = "component"
      PROVE  Ends(x, y)
  <2>1. PICK c : /\ c = [x EXCEPT !.components = Front(x.components)]
                 /\ IF c.components = <<>>
                    THEN y.state = "end" /\ y.components = <<>>
                    ELSE /\ y.state = "component"
                         /\ y.components = AddTo(c, "component").components
    BY <1>3, <1>5
  <2>2. y.bodies = x.bodies /\ y.module = x.module /\ Shaped(y)
    BY <1>3, <1>5
  <2>3. /\ Front(x.components) \in Seq(R) /\ Len(Front(x.components)) = Len(x.components) - 1
        /\ Len(x.components) \in Nat \ {0}
        /\ Front(x.components) = <<>> <=> Len(x.components) = 1
    BY <1>2, <1>5, FrontIs
  <2>4. Shaped(c) /\ c.components = Front(x.components)
    BY <1>2, <2>1 DEF Shaped
  <2>5. CASE Len(x.components) = 1
    <3>1. y.state = "end" /\ y.components = <<>> /\ Len(y.components) = 0 /\ y.components \in Seq(R)
      BY <2>1, <2>3, <2>4, <2>5
    <3> QED
      BY <1>2, <1>5, <2>2, <2>5, <3>1 DEF Ends, ValidatorOk
  <2>6. CASE Len(x.components) # 1
    <3>1. c.components # <<>> /\ c.components \in Seq(R)
      BY <2>3, <2>4, <2>6
    <3> DEFINE u == AddTo(c, "component")
    <3>2. u.components \in Seq(R) /\ Len(u.components) = Len(c.components)
      BY <2>4, <3>1, AddToFacts
    <3>3. y.state = "component" /\ y.components = u.components
      BY <2>1, <3>1
    <3> HIDE DEF u
    <3>4. Len(y.components) = Len(x.components) - 1 /\ y.components \in Seq(R)
      BY <2>3, <2>4, <3>2, <3>3
    <3> QED
      BY <1>2, <1>5, <2>2, <2>6, <3>3, <3>4 DEF Ends, ValidatorOk
  <2> QED
    BY <2>5, <2>6
<1>6. ASSUME Fine(y) PROVE x.state \in {"module", "component"}
  BY <1>3, <1>6
<1> QED
  BY <1>3, <1>4, <1>5, <1>6

-----------------------------------------------------------------------------
(* The stack of parsers and the validator go together: below the top there *)
(* are components, and the validator is in as many of them, in the state   *)
(* the parser at the top is in.                                            *)

Enclosing(ps) ==
  \A k \in 1..(Len(ps) - 1) : ps[k].state = "section" /\ ps[k].encoding = "component"

AtTop(x, t, n) ==
  \/ t.state = "header" /\ x.state = "unparsed" /\ Len(x.components) = n - 1
  \/ /\ t.state \in {"section", "body"} /\ t.encoding = "module"
     /\ x.state = "module" /\ Len(x.components) = n - 1
     /\ t.state = "body" => x.module.order >= Order.codestart
  \/ /\ t.state = "section" /\ t.encoding = "component"
     /\ x.state = "component" /\ Len(x.components) = n

Matched(x, ps) ==
  /\ ValidatorOk(x) /\ ps \in Seq(ParserStates) /\ Enclosing(ps)
  /\ IF ps = <<>> THEN x.state = "end" /\ Len(x.components) = 0
     ELSE AtTop(x, Last(ps), Len(ps))

\* In a file that is a module nothing is nested, and the promise of the function
\* section and the bodies still missing are those of that module.
Rest(t) == IF t.state = "body" THEN t.remaining ELSE 0

TopAccount(x, t) ==
  IF t.state = "header" THEN x.bodies = <<>>
  ELSE t.encoding = "module" /\ Counted(x.module, x.bodies, Rest(t))

Account(x, ps) ==
  IF ps = <<>>
  THEN /\ Counted(x.module, x.bodies, 0)
       /\ x.module.data_count \in {-1, x.module.segments} /\ x.module.expected <= 0
  ELSE Len(ps) = 1 /\ TopAccount(x, Last(ps))

LEMMA TopFacts ==
  ASSUME NEW x, NEW ps, Matched(x, ps), ps # <<>>
  PROVE  /\ ValidatorOk(x) /\ Last(ps) \in ParserStates /\ Len(ps) \in Nat \ {0}
         /\ AtTop(x, Last(ps), Len(ps))
<1>1. ps \in Seq(ParserStates)
  BY DEF Matched
<1>2. Len(ps) \in Nat \ {0}
  BY <1>1, EmptySeq, LenProperties
<1>3. Last(ps) \in ParserStates
  <2>1. ps[Len(ps)] \in ParserStates
    BY <1>1, <1>2
  <2> QED
    BY <2>1 DEF Last
<1> QED
  BY <1>2, <1>3 DEF Matched

\* The parser at the top is replaced.
LEMMA Replaced ==
  ASSUME NEW ps \in Seq(ParserStates), ps # <<>>, Enclosing(ps), NEW u \in ParserStates,
         NEW s, s = Append(Front(ps), u)
  PROVE  /\ s \in Seq(ParserStates) /\ s # <<>> /\ Len(s) = Len(ps) /\ Last(s) = u
         /\ Enclosing(s)
<1>1. /\ Front(ps) \in Seq(ParserStates) /\ Len(Front(ps)) = Len(ps) - 1 /\ Len(ps) \in Nat \ {0}
      /\ \A i \in 1..(Len(ps) - 1) : Front(ps)[i] = ps[i]
  BY FrontIs
<1> DEFINE f == Front(ps)
<1> HIDE DEF f
<1>2. f \in Seq(ParserStates) /\ Len(f) = Len(ps) - 1 /\ s = Append(f, u)
      /\ \A i \in 1..(Len(ps) - 1) : f[i] = ps[i]
  BY <1>1 DEF f
<1>3. /\ s \in Seq(ParserStates) /\ Len(s) = Len(ps) /\ s[Len(ps)] = u
      /\ \A i \in 1..(Len(ps) - 1) : s[i] = ps[i]
  BY <1>1, <1>2
<1>4. s # <<>>
  BY <1>1, <1>3, EmptySeq
<1>5. Last(s) = u
  BY <1>3 DEF Last
<1>6. Enclosing(s)
  BY <1>3 DEF Enclosing
<1> QED
  BY <1>3, <1>4, <1>5, <1>6

\* A parser is put on top of one of a component.
IsStacked(ps, u, z) ==
  /\ ps \in Seq(ParserStates) /\ ps # <<>> /\ Enclosing(ps)
  /\ u \in ParserStates /\ u.state = "section" /\ u.encoding = "component"
  /\ z \in ParserStates

OnTop(ps, z, s) ==
  /\ s \in Seq(ParserStates) /\ s # <<>> /\ Len(s) = Len(ps) + 1 /\ Last(s) = z
  /\ Enclosing(s)

LEMMA Stacked ==
  ASSUME NEW ps, NEW u, NEW z, IsStacked(ps, u, z), NEW s, s = Append(Append(Front(ps), u), z)
  PROVE  OnTop(ps, z, s)
<1>0. /\ ps \in Seq(ParserStates) /\ ps # <<>> /\ Enclosing(ps)
      /\ u \in ParserStates /\ u.state = "section" /\ u.encoding = "component"
      /\ z \in ParserStates
  BY DEF IsStacked
<1> DEFINE f == Append(Front(ps), u)
<1>1. /\ f \in Seq(ParserStates) /\ Len(f) = Len(ps) /\ Len(ps) \in Nat /\ Last(f) = u
      /\ Enclosing(f) /\ s = Append(f, z)
  <2>1. s = Append(f, z)
    OBVIOUS
  <2>2. f = Append(Front(ps), u)
    OBVIOUS
  <2>3. Len(ps) \in Nat
    BY <1>0, LenProperties
  <2> HIDE DEF f
  <2>4. f \in Seq(ParserStates) /\ Len(f) = Len(ps) /\ Last(f) = u /\ Enclosing(f)
    BY <1>0, <2>2, Replaced
  <2> QED
    BY <2>1, <2>3, <2>4
<1> HIDE DEF f
<1>2. /\ s \in Seq(ParserStates) /\ Len(s) = Len(ps) + 1 /\ s[Len(ps) + 1] = z
      /\ \A i \in 1..Len(ps) : s[i] = f[i]
  BY <1>0, <1>1
<1>3. s # <<>>
  BY <1>1, <1>2, EmptySeq
<1>4. Last(s) = z
  BY <1>2 DEF Last
<1>5. Enclosing(s)
  <2>1. SUFFICES ASSUME NEW k \in 1..(Len(s) - 1)
                 PROVE  s[k].state = "section" /\ s[k].encoding = "component"
    BY DEF Enclosing
  <2>2. s[k] = f[k] /\ (k = Len(ps) \/ k \in 1..(Len(f) - 1))
    BY <1>1, <1>2
  <2>3. f[Len(ps)] = u
    BY <1>1 DEF Last
  <2> QED
    BY <1>0, <1>1, <2>2, <2>3 DEF Enclosing
<1> QED
  BY <1>2, <1>3, <1>4, <1>5 DEF OnTop

\* The parser at the top goes.
LEMMA Uncovered ==
  ASSUME NEW ps \in Seq(ParserStates), ps # <<>>, Enclosing(ps), NEW s, s = Front(ps)
  PROVE  /\ s \in Seq(ParserStates) /\ Len(s) = Len(ps) - 1 /\ Len(ps) \in Nat \ {0}
         /\ s = <<>> <=> Len(ps) = 1
         /\ Enclosing(s)
         /\ s # <<>> => Last(s).state = "section" /\ Last(s).encoding = "component"
<1>1. /\ s \in Seq(ParserStates) /\ Len(s) = Len(ps) - 1 /\ Len(ps) \in Nat \ {0}
      /\ \A i \in 1..(Len(ps) - 1) : s[i] = ps[i]
      /\ s = <<>> <=> Len(ps) = 1
  BY FrontIs
<1>2. Enclosing(s)
  BY <1>1 DEF Enclosing
<1>3. ASSUME s # <<>> PROVE Last(s).state = "section" /\ Last(s).encoding = "component"
  <2>1. Len(s) \in 1..(Len(ps) - 1)
    BY <1>1, <1>3
  <2>2. s[Len(s)] = ps[Len(s)] /\ ps[Len(s)].state = "section" /\ ps[Len(s)].encoding = "component"
    BY <1>1, <2>1 DEF Enclosing
  <2> QED
    BY <2>2 DEF Last
<1> QED
  BY <1>1, <1>2, <1>3

-----------------------------------------------------------------------------
(* A payload of the parser t, the n-th on the stack, for the validator x,   *)
(* and the parser u after it.                                              *)

Meets(x, t, n, whole) ==
  /\ ValidatorOk(x) /\ t \in ParserStates /\ n \in Nat \ {0} /\ AtTop(x, t, n)
  /\ whole => n = 1 /\ TopAccount(x, t)

GoesOn(y, u, n, whole) ==
  /\ y.error # "panic"
  /\ Fine(y) => /\ ValidatorOk(y) /\ AtTop(y, u, n)
                /\ whole => n = 1 /\ TopAccount(y, u)

\* A parser between two sections.
Between(t) == t.state = "section" \/ (t.state = "body" /\ t.remaining = 0)

LEMMA InModule ==
  ASSUME NEW x, NEW t, NEW n, NEW whole, Meets(x, t, n, whole), t.state # "header",
         t.encoding = "module"
  PROVE  /\ x.state = "module" /\ Len(x.components) = n - 1
         /\ t.state = "body" => x.module.order >= Order.codestart
         /\ whole => n = 1 /\ Counted(x.module, x.bodies, Rest(t))
BY DEF Meets, AtTop, TopAccount

LEMMA InComponent ==
  ASSUME NEW x, NEW t, NEW n, NEW whole, Meets(x, t, n, whole), t.state # "header",
         t.encoding # "module"
  PROVE  /\ x.state = "component" /\ Len(x.components) = n /\ t.state = "section" /\ ~whole
         /\ t.encoding = "component"
BY DEF Meets, AtTop, TopAccount

LEMMA VersionGoes ==
  ASSUME NEW x, NEW t, NEW n, NEW whole, Meets(x, t, n, whole), t.state = "header",
         NEW u \in ParserStates, u.state = "section", NEW p, p.kind = "version",
         p.count = Version[u.encoding], whole => p.count = Version.module,
         NEW y, y = payload(x, p)
  PROVE  GoesOn(y, u, n, whole)
<1>1. /\ ValidatorOk(x) /\ n \in Nat \ {0} /\ Len(x.components) = n - 1
      /\ whole => n = 1 /\ x.bodies = <<>>
  BY DEF Meets, AtTop, TopAccount
<1>2. /\ y.error # "panic"
      /\ Fine(y) => /\ ValidatorOk(y) /\ y.bodies = x.bodies
                    /\ p.count = Version.module =>
                         /\ y.state = "module" /\ y.components = x.components
                         /\ y.module = NewModule
                    /\ p.count # Version.module =>
                         /\ y.state = "component"
                         /\ Len(y.components) = Len(x.components) + 1
  BY <1>1, VersionWorks
<1>3. u.encoding \in {"module", "component"}
  BY DEF ParserStates, Version
<1>4. Version.module = 1 /\ Version.component = 2
  BY DEF Version
<1>5. CASE u.encoding = "module"
  <2>1. p.count = Version.module
    BY <1>5
  <2>2. u.state \in {"section", "body"} /\ u.state # "body" /\ u.state # "header"
    OBVIOUS
  <2>3. Rest(u) = 0
    BY <2>2 DEF Rest
  <2>4. ASSUME Fine(y)
        PROVE  ValidatorOk(y) /\ AtTop(y, u, n) /\ (whole => n = 1 /\ TopAccount(y, u))
    <3>1. /\ ValidatorOk(y) /\ y.bodies = x.bodies /\ y.state = "module"
          /\ y.components = x.components /\ y.module = NewModule
      BY <1>2, <2>1, <2>4
    <3>2. AtTop(y, u, n)
      BY <1>1, <1>5, <2>2, <3>1 DEF AtTop
    <3>3. whole => n = 1 /\ TopAccount(y, u)
      <4>1. whole => n = 1 /\ y.bodies = <<>>
        BY <1>1, <3>1
      <4>2. Counted(NewModule, <<>>, Rest(u))
        BY <2>3, NewModuleOk
      <4> QED
        BY <1>5, <2>2, <3>1, <4>1, <4>2 DEF TopAccount
    <3> QED
      BY <3>1, <3>2, <3>3
  <2> QED
    BY <1>2, <2>4 DEF GoesOn
<1>6. CASE u.encoding = "component"
  <2>1. p.count # Version.module /\ ~whole
    BY <1>4, <1>6
  <2>2. ASSUME Fine(y)
        PROVE  ValidatorOk(y) /\ AtTop(y, u, n)
    <3>1. ValidatorOk(y) /\ y.state = "component" /\ Len(y.components) = Len(x.components) + 1
      BY <1>2, <2>1, <2>2
    <3>2. Len(y.components) = n
      BY <1>1, <3>1
    <3> QED
      BY <1>6, <3>1, <3>2 DEF AtTop
  <2> QED
    BY <1>2, <2>1, <2>2 DEF GoesOn
<1> QED
  BY <1>3, <1>5, <1>6

\* A section of a module.
LEMMA ModuleGoes ==
  ASSUME NEW x, NEW t, NEW n, NEW whole, Meets(x, t, n, whole), Between(t), t.encoding = "module",
         NEW u, u.state = "section", u.encoding = "module", NEW C, NEW p, IsGiven(p, C),
         p.kind \in Kinds \cup {"start", "datacount"}, NEW y, y = payload(x, p)
  PROVE  GoesOn(y, u, n, whole)
<1>0. t.state # "header" /\ Rest(t) = 0 /\ Rest(u) = 0
  BY DEF Between, Rest
<1>1. /\ ValidatorOk(x) /\ Len(x.components) = n - 1
      /\ whole => n = 1 /\ Counted(x.module, x.bodies, 0)
  BY <1>0, InModule DEF Meets
<1>2. /\ y.error # "panic"
      /\ Fine(y) => /\ Works(x, y) /\ y.bodies = x.bodies
                    /\ Counted(x.module, x.bodies, 0) => Counted(y.module, y.bodies, 0)
  <2>1. CASE p.kind \in Kinds
    BY <1>1, <2>1, SectionWorks
  <2>2. CASE p.kind = "start"
    BY <1>1, <2>2, StartWorks
  <2>3. CASE p.kind = "datacount"
    <3>1. p.count \in Nat
      BY DEF IsGiven
    <3> QED
      BY <1>1, <2>3, <3>1, DataCountWorks
  <2> QED
    BY <2>1, <2>2, <2>3
<1>3. ASSUME Fine(y)
      PROVE  ValidatorOk(y) /\ AtTop(y, u, n) /\ (whole => n = 1 /\ TopAccount(y, u))
  <2>1. ValidatorOk(y) /\ y.state = "module" /\ y.components = x.components
    BY <1>2, <1>3 DEF Works
  <2>2. AtTop(y, u, n)
    BY <1>1, <2>1 DEF AtTop
  <2>3. whole => n = 1 /\ TopAccount(y, u)
    BY <1>0, <1>1, <1>2, <1>3 DEF TopAccount
  <2> QED
    BY <2>1, <2>2, <2>3
<1> QED
  BY <1>2, <1>3 DEF GoesOn

LEMMA CodeStartGoes ==
  ASSUME NEW x, NEW t, NEW n, NEW whole, Meets(x, t, n, whole), Between(t), t.encoding = "module",
         NEW p, p.count \in Nat, p.kind = "codestart",
         NEW u, u.state = "body", u.encoding = "module", u.remaining = p.count,
         NEW y, y = payload(x, p)
  PROVE  GoesOn(y, u, n, whole)
<1>0. t.state # "header" /\ Rest(t) = 0 /\ Rest(u) = p.count
  BY DEF Between, Rest
<1>1. /\ ValidatorOk(x) /\ Len(x.components) = n - 1
      /\ whole => n = 1 /\ Counted(x.module, x.bodies, 0)
  BY <1>0, InModule DEF Meets
<1>2. /\ y.error # "panic"
      /\ Fine(y) => /\ Works(x, y) /\ y.bodies = x.bodies
                    /\ y.module.order >= Order.codestart
                    /\ Counted(x.module, x.bodies, 0) => Counted(y.module, y.bodies, p.count)
  BY <1>1, CodeStartWorks
<1>3. ASSUME Fine(y)
      PROVE  ValidatorOk(y) /\ AtTop(y, u, n) /\ (whole => n = 1 /\ TopAccount(y, u))
  <2>1. ValidatorOk(y) /\ y.state = "module" /\ y.components = x.components
    BY <1>2, <1>3 DEF Works
  <2>2. AtTop(y, u, n)
    BY <1>1, <1>2, <1>3, <2>1 DEF AtTop
  <2>3. whole => n = 1 /\ TopAccount(y, u)
    BY <1>0, <1>1, <1>2, <1>3 DEF TopAccount
  <2> QED
    BY <2>1, <2>2, <2>3
<1> QED
  BY <1>2, <1>3 DEF GoesOn

LEMMA EntryGoes ==
  ASSUME NEW x, NEW t, NEW n, NEW whole, Meets(x, t, n, whole), t.state = "body", t.remaining # 0,
         NEW p, p.kind = "body",
         NEW u, u.state = "body", u.encoding = t.encoding, u.remaining = t.remaining - 1,
         NEW y, y = payload(x, p)
  PROVE  GoesOn(y, u, n, whole)
<1>0. t.state # "header" /\ t.remaining \in Nat \ {0} /\ t.encoding = "module"
      /\ Rest(t) = t.remaining /\ Rest(u) = t.remaining - 1
  BY DEF Meets, AtTop, ParserStates, Rest
<1>1. /\ ValidatorOk(x) /\ Len(x.components) = n - 1 /\ x.module.order >= Order.codestart
      /\ whole => n = 1 /\ Counted(x.module, x.bodies, t.remaining)
  BY <1>0, InModule DEF Meets
<1>2. /\ y.error # "panic"
      /\ Fine(y) => /\ Works(x, y)
                    /\ y.module.order >= Order.codestart
                    /\ \A rest \in Nat \ {0} :
                         Counted(x.module, x.bodies, rest) => Counted(y.module, y.bodies, rest - 1)
  BY <1>1, EntryWorks
<1>3. ASSUME Fine(y)
      PROVE  ValidatorOk(y) /\ AtTop(y, u, n) /\ (whole => n = 1 /\ TopAccount(y, u))
  <2>1. ValidatorOk(y) /\ y.state = "module" /\ y.components = x.components
    BY <1>2, <1>3 DEF Works
  <2>2. AtTop(y, u, n)
    BY <1>0, <1>1, <1>2, <1>3, <2>1 DEF AtTop
  <2>3. whole => n = 1 /\ Counted(y.module, y.bodies, t.remaining - 1)
    BY <1>0, <1>1, <1>2, <1>3
  <2>4. whole => n = 1 /\ TopAccount(y, u)
    BY <1>0, <2>3 DEF TopAccount
  <2> QED
    BY <2>1, <2>2, <2>4
<1> QED
  BY <1>2, <1>3 DEF GoesOn

\* A section the validator has nothing to do with, or does not know here.
LEMMA OtherGoes ==
  ASSUME NEW x, NEW t, NEW n, NEW whole, Meets(x, t, n, whole), Between(t),
         NEW u, u.state = "section", u.encoding = t.encoding, NEW p,
         p.kind \in {"custom", "unknown", "coreinstance", "coretype", "instance", "alias", "ctype",
                     "canonical", "cstart", "cimport", "cexport"},
         NEW y, y = payload(x, p)
  PROVE  GoesOn(y, u, n, whole)
<1>0. t.state # "header" /\ Rest(t) = 0 /\ Rest(u) = 0
  BY DEF Between, Rest
<1>1. ValidatorOk(x) /\ Shaped(x) /\ Fine(x)
  BY DEF Meets, ValidatorOk
<1>2. CASE p.kind = "custom"
  <2>1. y = x
    BY <1>2 DEF payload, Order
  <2>2. x.error # "panic"
    BY <1>1 DEF Fine
  <2>3. AtTop(x, u, n) /\ (whole => n = 1 /\ TopAccount(x, u))
    <3>1. CASE t.encoding = "module"
      BY <1>0, <3>1, InModule DEF AtTop, TopAccount
    <3>2. CASE t.encoding # "module"
      BY <1>0, <3>2, InComponent DEF AtTop
    <3> QED
      BY <3>1, <3>2
  <2> QED
    BY <1>1, <2>1, <2>2, <2>3 DEF GoesOn
<1>3. CASE p.kind # "custom"
  <2>1. y = Error(x, "section")
    BY <1>3 DEF payload, Order
  <2> DEFINE why == "section"
  <2>2. y = Error(x, why) /\ why # "" /\ why # "panic"
    BY <2>1
  <2> HIDE DEF why
  <2>3. y.error # "panic" /\ ~Fine(y)
    BY <1>1, <2>2 DEF Error, Fine, Shaped
  <2> QED
    BY <2>3 DEF GoesOn
<1> QED
  BY <1>2, <1>3

\* A module or a component in a component.
Nests(t, p, z, n, m) ==
  /\ Between(t) /\ t.encoding = "component" /\ p.kind \in {"module", "component"}
  /\ z.state = "header" /\ m = n + 1

LEMMA NestedGoes ==
  ASSUME NEW x, NEW t, NEW n, NEW whole, Meets(x, t, n, whole), NEW p, NEW z, NEW m,
         Nests(t, p, z, n, m), NEW y, y = payload(x, p)
  PROVE  ~whole /\ GoesOn(y, z, m, whole)
<1>0. /\ Between(t) /\ t.encoding = "component" /\ p.kind \in {"module", "component"}
      /\ z.state = "header" /\ m = n + 1
  BY DEF Nests
<1>1. ValidatorOk(x) /\ x.state = "component" /\ Len(x.components) = n /\ ~whole /\ n \in Nat
  BY <1>0, InComponent DEF Meets, Between
<1>2. /\ y.error # "panic"
      /\ Fine(y) => /\ ValidatorOk(y) /\ x.state = "component" /\ y.state = "unparsed"
                    /\ y.components = x.components
  BY <1>0, <1>1, NestedWorks
<1>3. m - 1 = n
  BY <1>0, <1>1
<1> QED
  BY <1>0, <1>1, <1>2, <1>3 DEF GoesOn, AtTop

\* The end: what is left is the enclosing component, or nothing.
LEMMA EndGoes ==
  ASSUME NEW x, NEW t, NEW n, NEW whole, Meets(x, t, n, whole), Between(t),
         NEW p, p.kind = "end", NEW y, y = payload(x, p)
  PROVE  /\ y.error # "panic"
         /\ Fine(y) => /\ ValidatorOk(y)
                       /\ IF n = 1 THEN y.state = "end" /\ Len(y.components) = 0
                          ELSE y.state = "component" /\ Len(y.components) = n - 1
                       /\ whole => /\ n = 1 /\ Counted(y.module, y.bodies, 0)
                                   /\ y.module.data_count \in {-1, y.module.segments}
                                   /\ y.module.expected <= 0
<1>0. t.state # "header" /\ Rest(t) = 0 /\ n \in Nat \ {0} /\ ValidatorOk(x)
  BY DEF Between, Rest, Meets
<1>1. x.state = "component" => x.components # <<>>
  <2>1. x.state = "component" => t.encoding # "module"
    BY <1>0, InModule
  <2>2. x.state = "component" => Len(x.components) = n
    BY <1>0, <2>1, InComponent
  <2> QED
    BY <1>0, <2>2
<1>2. y.error # "panic" /\ (Fine(y) => Ends(x, y))
  BY <1>0, <1>1, EndWorks
<1>3. ASSUME Fine(y), t.encoding = "module"
      PROVE  /\ ValidatorOk(y)
             /\ IF n = 1 THEN y.state = "end" /\ Len(y.components) = 0
                ELSE y.state = "component" /\ Len(y.components) = n - 1
             /\ whole => /\ n = 1 /\ Counted(y.module, y.bodies, 0)
                         /\ y.module.data_count \in {-1, y.module.segments}
                         /\ y.module.expected <= 0
  <2>1. /\ x.state = "module" /\ Len(x.components) = n - 1
        /\ whole => n = 1 /\ Counted(x.module, x.bodies, 0)
    BY <1>0, <1>3, InModule
  <2>2. /\ ValidatorOk(y) /\ y.bodies = x.bodies /\ y.module = x.module
        /\ x.module.data_count \in {-1, x.module.segments}
        /\ x.module.expected <= 0
        /\ Len(y.components) = Len(x.components)
        /\ IF Len(x.components) = 0 THEN y.state = "end" ELSE y.state = "component"
    BY <1>2, <1>3, <2>1 DEF Ends
  <2>3. n - 1 = 0 <=> n = 1
    BY <1>0
  <2> QED
    BY <2>1, <2>2, <2>3
<1>4. ASSUME Fine(y), t.encoding # "module"
      PROVE  /\ ValidatorOk(y) /\ ~whole
             /\ IF n = 1 THEN y.state = "end" /\ Len(y.components) = 0
                ELSE y.state = "component" /\ Len(y.components) = n - 1
  <2>1. x.state = "component" /\ Len(x.components) = n /\ ~whole
    BY <1>0, <1>4, InComponent
  <2>2. /\ ValidatorOk(y)
        /\ IF Len(x.components) = 1 THEN y.state = "end" /\ Len(y.components) = 0
           ELSE y.state = "component" /\ Len(y.components) = Len(x.components) - 1
    BY <1>2, <1>4, <2>1 DEF Ends
  <2> QED
    BY <2>1, <2>2
<1> QED
  BY <1>2, <1>3, <1>4

-----------------------------------------------------------------------------
(* The stack after a payload that the validator has taken.                 *)

Cells(C) == \A c \in C : c.byte \in Nat /\ Listed(c.item)

Dealt(y, s, whole) ==
  /\ y.error # "panic"
  /\ Fine(y) => Matched(y, s) /\ (whole => Account(y, s))

LEMMA MeetsTop ==
  ASSUME NEW x, NEW ps, Matched(x, ps), ps # <<>>, NEW whole, whole => Account(x, ps)
  PROVE  Meets(x, Last(ps), Len(ps), whole)
<1>1. /\ ValidatorOk(x) /\ Last(ps) \in ParserStates /\ Len(ps) \in Nat \ {0}
      /\ AtTop(x, Last(ps), Len(ps))
  BY TopFacts
<1>2. whole => Len(ps) = 1 /\ TopAccount(x, Last(ps))
  BY DEF Account
<1> QED
  BY <1>1, <1>2 DEF Meets

LEMMA Resumed ==
  ASSUME NEW x, NEW ps, Matched(x, ps), ps # <<>>, NEW u \in ParserStates, NEW whole, NEW y,
         GoesOn(y, u, Len(ps), whole), NEW s, s = Append(Front(ps), u)
  PROVE  Dealt(y, s, whole)
<1>1. ps \in Seq(ParserStates) /\ Enclosing(ps)
  BY DEF Matched
<1>2. /\ s \in Seq(ParserStates) /\ s # <<>> /\ Len(s) = Len(ps) /\ Last(s) = u
      /\ Enclosing(s)
  BY <1>1, Replaced
<1>3. ASSUME Fine(y) PROVE Matched(y, s) /\ (whole => Account(y, s))
  <2>1. /\ ValidatorOk(y) /\ AtTop(y, u, Len(ps))
        /\ whole => Len(ps) = 1 /\ TopAccount(y, u)
    BY <1>3 DEF GoesOn
  <2>2. Matched(y, s)
    BY <1>2, <2>1 DEF Matched
  <2>3. whole => Account(y, s)
    BY <1>2, <2>1 DEF Account
  <2> QED
    BY <2>2, <2>3
<1> QED
  BY <1>3 DEF Dealt, GoesOn

LEMMA ParserIsNew ==
  ASSUME NEW offset \in Nat, NEW size \in Nat
  PROVE  new_parser(offset, size) \in ParserStates /\ new_parser(offset, size).state = "header"
BY DEF new_parser, ParserStates, Version

LEMMA Opened ==
  ASSUME NEW x, NEW ps, Matched(x, ps), ps # <<>>, NEW u \in ParserStates, u.state = "section",
         u.encoding = "component", NEW z \in ParserStates, NEW m, m = Len(ps) + 1,
         NEW whole, ~whole, NEW y, GoesOn(y, z, m, whole), NEW s, s = Append(Append(Front(ps), u), z)
  PROVE  Dealt(y, s, whole)
<1>1. ps \in Seq(ParserStates) /\ Enclosing(ps)
  BY DEF Matched
<1>2. /\ s \in Seq(ParserStates) /\ s # <<>> /\ Len(s) = Len(ps) + 1 /\ Last(s) = z
      /\ Enclosing(s)
  <2>1. IsStacked(ps, u, z)
    BY <1>1 DEF IsStacked
  <2>2. OnTop(ps, z, s)
    BY <2>1, Stacked
  <2> QED
    BY <2>2 DEF OnTop
<1>3. ASSUME Fine(y) PROVE Matched(y, s)
  <2>1. ValidatorOk(y) /\ AtTop(y, z, Len(ps) + 1)
    BY <1>3 DEF GoesOn
  <2> QED
    BY <1>2, <2>1 DEF Matched
<1> QED
  BY <1>3 DEF Dealt, GoesOn

LEMMA Closed ==
  ASSUME NEW x, NEW ps, Matched(x, ps), ps # <<>>, NEW whole, whole => Account(x, ps),
         Between(Last(ps)), NEW p, p.kind = "end", NEW y, y = payload(x, p), NEW s, s = Front(ps)
  PROVE  Dealt(y, s, whole)
<1>1. ps \in Seq(ParserStates) /\ Enclosing(ps)
  BY DEF Matched
<1>2. /\ s \in Seq(ParserStates) /\ Len(s) = Len(ps) - 1 /\ Len(ps) \in Nat \ {0}
      /\ s = <<>> <=> Len(ps) = 1
      /\ Enclosing(s)
      /\ s # <<>> => Last(s).state = "section" /\ Last(s).encoding = "component"
  BY <1>1, Uncovered
<1>3. /\ y.error # "panic"
      /\ Fine(y) => /\ ValidatorOk(y)
                    /\ IF Len(ps) = 1 THEN y.state = "end" /\ Len(y.components) = 0
                       ELSE y.state = "component" /\ Len(y.components) = Len(ps) - 1
                    /\ whole => /\ Len(ps) = 1 /\ Counted(y.module, y.bodies, 0)
                                /\ y.module.data_count \in {-1, y.module.segments}
                                /\ y.module.expected <= 0
  <2>1. Meets(x, Last(ps), Len(ps), whole)
    BY MeetsTop
  <2> DEFINE n == Len(ps)
             t == Last(ps)
  <2>2. Meets(x, t, n, whole) /\ Between(t)
    BY <2>1
  <2> HIDE DEF n, t
  <2>3. /\ y.error # "panic"
        /\ Fine(y) => /\ ValidatorOk(y)
                      /\ IF n = 1 THEN y.state = "end" /\ Len(y.components) = 0
                         ELSE y.state = "component" /\ Len(y.components) = n - 1
                      /\ whole => /\ n = 1 /\ Counted(y.module, y.bodies, 0)
                                  /\ y.module.data_count \in {-1, y.module.segments}
                                  /\ y.module.expected <= 0
    BY <2>2, EndGoes
  <2> QED
    BY <2>3 DEF n
<1>4. ASSUME Fine(y) PROVE Matched(y, s) /\ (whole => Account(y, s))
  <2>1. CASE Len(ps) = 1
    <3>1. s = <<>> /\ y.state = "end" /\ Len(y.components) = 0 /\ ValidatorOk(y)
      BY <1>2, <1>3, <1>4, <2>1
    <3>2. Matched(y, s)
      BY <1>2, <3>1 DEF Matched
    <3>3. whole => Account(y, s)
      BY <1>3, <1>4, <3>1 DEF Account
    <3> QED
      BY <3>2, <3>3
  <2>2. CASE Len(ps) # 1
    <3>1. /\ s # <<>> /\ y.state = "component" /\ Len(y.components) = Len(s)
          /\ ValidatorOk(y) /\ ~whole
      BY <1>2, <1>3, <1>4, <2>2
    <3>2. AtTop(y, Last(s), Len(s))
      BY <1>2, <3>1 DEF AtTop
    <3> QED
      BY <1>2, <3>1, <3>2 DEF Matched
  <2> QED
    BY <2>1, <2>2
<1> QED
  BY <1>3, <1>4 DEF Dealt

\* What the parser at the top of the stack may have handed out.
Offered(x, ps, r, C, whole) ==
  /\ Matched(x, ps) /\ ps # <<>> /\ (whole => Account(x, ps))
  /\ \E k, data : /\ IsHanded(r.ps, r.payload, k, r.p, data, C) /\ Yields(Last(ps), data, r, k)
                  /\ whole /\ k = "version" => r.payload.count = Version.module

LEMMA PayloadDealt ==
  ASSUME NEW C, Cells(C), NEW x, NEW ps, NEW r, NEW whole, Offered(x, ps, r, C, whole),
         NEW y, y = payload(x, r.payload)
  PROVE  Dealt(y, After(ps, r), whole)
<1> DEFINE t == Last(ps)
           n == Len(ps)
           u == r.ps
           p == r.payload
           s == After(ps, r)
<1>1. Matched(x, ps) /\ ps # <<>> /\ (whole => Account(x, ps))
  BY DEF Offered
<1>2. PICK k, data : /\ IsHanded(u, p, k, r.p, data, C) /\ Yields(t, data, r, k)
                     /\ whole /\ k = "version" => p.count = Version.module
  BY DEF Offered
<1>3. Meets(x, t, n, whole)
  BY <1>1, MeetsTop
<1>4. /\ u \in ParserStates /\ p.kind = k /\ p.start \in Nat /\ p.len \in Nat /\ IsGiven(p, C)
  BY <1>2 DEF IsHanded, IsGiven, Cells
<1>5. /\ k \in {"module", "component"} => s = Append(Append(Front(ps), u), new_parser(p.start, p.len))
      /\ k = "end" => s = Front(ps)
      /\ k \notin {"module", "component", "end"} => s = Append(Front(ps), u)
  BY <1>4 DEF After
<1> HIDE DEF t, n, u, p, s
<1>6. y = payload(x, p) /\ t = Last(ps) /\ n = Len(ps)
  BY DEF p, t, n
<1>7. ASSUME GoesOn(y, u, n, whole), k \notin {"module", "component", "end"}
      PROVE  Dealt(y, s, whole)
  BY <1>1, <1>4, <1>5, <1>6, <1>7, Resumed
<1>8. CASE t.state = "header"
  <2>1. k = "version" /\ u.state = "section" /\ p.count = Version[u.encoding]
    BY <1>2, <1>8 DEF Yields, u, p
  <2>2. GoesOn(y, u, n, whole)
    BY <1>2, <1>3, <1>4, <1>6, <1>8, <2>1, VersionGoes
  <2> QED
    BY <1>7, <2>1, <2>2 DEF s
<1>9. CASE t.state = "body" /\ t.remaining # 0
  <2>1. /\ k = "body" /\ u.state = "body" /\ u.remaining = t.remaining - 1
        /\ u.encoding = t.encoding
    BY <1>2, <1>9 DEF Yields, u
  <2>2. GoesOn(y, u, n, whole)
    BY <1>3, <1>4, <1>6, <1>9, <2>1, EntryGoes
  <2> QED
    BY <1>7, <2>1, <2>2 DEF s
<1>10. CASE Between(t)
  <2>1. SectionYields(t, k, r)
    BY <1>2, <1>10 DEF Yields, Between
  <2>2. u.encoding = t.encoding
    BY <2>1 DEF SectionYields, u
  <2>3. CASE k = "end"
    <3>1. Dealt(y, s, whole)
      BY <1>1, <1>4, <1>5, <1>6, <1>10, <2>3, Closed
    <3> QED
      BY <3>1 DEF s
  <2>4. CASE k = "codestart"
    <3>1. t.encoding = "module" /\ u.state = "body" /\ u.remaining = p.count
      BY <2>1, <2>4 DEF SectionYields, Kinds, u, p
    <3>2. p.count \in Nat
      BY <1>4 DEF IsGiven
    <3>3. GoesOn(y, u, n, whole)
      BY <1>3, <1>4, <1>6, <1>10, <2>2, <2>4, <3>1, <3>2, CodeStartGoes
    <3> QED
      BY <1>7, <2>4, <3>3 DEF s
  <2>5. CASE k \in {"module", "component"}
    <3>1. t.encoding = "component" /\ u.state = "section"
      BY <2>1, <2>5 DEF SectionYields, Kinds, u
    <3> DEFINE z == new_parser(p.start, p.len)
    <3>2. z \in ParserStates /\ z.state = "header"
      BY <1>4, ParserIsNew
    <3>3. s = Append(Append(Front(ps), u), z)
      BY <1>5, <2>5
    <3> HIDE DEF z
    <3> DEFINE m == n + 1
    <3>4. Nests(t, p, z, n, m)
      BY <1>4, <1>10, <2>5, <3>1, <3>2 DEF Nests
    <3>5. m = Len(ps) + 1
      BY <1>6
    <3> HIDE DEF m
    <3>6. ~whole /\ GoesOn(y, z, m, whole)
      BY <1>3, <1>6, <3>4, NestedGoes
    <3>7. Dealt(y, s, whole)
      BY <1>1, <1>4, <2>2, <3>1, <3>2, <3>3, <3>5, <3>6, Opened
    <3> QED
      BY <3>7 DEF s
  <2>6. CASE k \in Kinds \cup {"start", "datacount"}
    <3>1. t.encoding = "module" /\ u.state = "section"
      BY <2>1, <2>6 DEF SectionYields, Kinds, u
    <3>2. GoesOn(y, u, n, whole)
      BY <1>3, <1>4, <1>6, <1>10, <2>2, <2>6, <3>1, ModuleGoes
    <3> QED
      BY <1>7, <2>6, <3>2 DEF s, Kinds
  <2>7. CASE k \in {"custom", "unknown", "coreinstance", "coretype", "instance", "alias", "ctype",
                    "canonical", "cstart", "cimport", "cexport"}
    <3>1. u.state = "section"
      BY <2>1, <2>7 DEF SectionYields, Kinds, u
    <3>2. GoesOn(y, u, n, whole)
      BY <1>3, <1>4, <1>6, <1>10, <2>2, <2>7, <3>1, OtherGoes
    <3> QED
      BY <1>7, <2>7, <3>2 DEF s
  <2> QED
    BY <2>1, <2>3, <2>4, <2>5, <2>6, <2>7 DEF SectionYields
<1> QED
  <2>1. t.state \in {"header", "section", "body"}
    BY <1>3 DEF Meets, ParserStates
  <2> QED
    BY <1>8, <1>9, <1>10, <2>1 DEF Between

\* A parser that asks for more, or has left a code section that is over.
LEMMA Stayed ==
  ASSUME NEW x, NEW ps, Matched(x, ps), ps # <<>>, NEW whole, whole => Account(x, ps),
         NEW u \in ParserStates, u = Last(ps) \/ Closes(Last(ps), u),
         NEW s, s = Append(Front(ps), u)
  PROVE  Matched(x, s) /\ (whole => Account(x, s))
<1> DEFINE t == Last(ps)
           n == Len(ps)
<1>1. Meets(x, t, n, whole)
  BY MeetsTop
<1>2. u = t \/ Closes(t, u)
  OBVIOUS
<1> HIDE DEF t, n
<1>3. ValidatorOk(x) /\ t \in ParserStates
  BY <1>1 DEF Meets
<1>4. GoesOn(x, u, n, whole)
  <2>1. x.error # "panic"
    BY <1>3 DEF ValidatorOk, Fine
  <2>2. CASE u = t
    BY <1>1, <2>1, <2>2 DEF Meets, GoesOn
  <2>3. CASE Closes(t, u)
    <3>1. t.state = "body" /\ t.remaining = 0 /\ u.state = "section" /\ u.encoding = t.encoding
      BY <1>3, <2>3 DEF Closes, ParserStates
    <3>2. t.encoding = "module" /\ Rest(t) = 0 /\ Rest(u) = 0 /\ t.state # "header"
      BY <1>1, <3>1 DEF Meets, AtTop, Rest
    <3>3. /\ x.state = "module" /\ Len(x.components) = n - 1
          /\ whole => n = 1 /\ Counted(x.module, x.bodies, 0)
      BY <1>1, <3>2, InModule
    <3>4. AtTop(x, u, n)
      BY <3>1, <3>2, <3>3 DEF AtTop
    <3>5. whole => n = 1 /\ TopAccount(x, u)
      BY <3>1, <3>2, <3>3 DEF TopAccount
    <3> QED
      BY <1>3, <2>1, <3>4, <3>5 DEF GoesOn
  <2> QED
    BY <1>2, <2>2, <2>3
<1>5. Dealt(x, s, whole)
  BY <1>4, Resumed DEF n
<1> QED
  BY <1>3, <1>5 DEF Dealt, ValidatorOk

\* Only the first parser is ever alone in its header.
LEMMA NoHeaderAfter ==
  ASSUME NEW C, NEW x, NEW ps, NEW r, NEW whole, Offered(x, ps, r, C, whole),
         NEW s, s = After(ps, r), s # <<>>, Len(s) = 1
  PROVE  Last(s).state # "header"
<1> DEFINE u == r.ps
           p == r.payload
<1>1. Matched(x, ps) /\ ps # <<>>
  BY DEF Offered
<1>2. PICK k, data : IsHanded(u, p, k, r.p, data, C) /\ Yields(Last(ps), data, r, k)
  BY DEF Offered
<1>3. ps \in Seq(ParserStates) /\ Enclosing(ps)
  BY <1>1 DEF Matched
<1>4. u \in ParserStates /\ p.kind = k /\ p.start \in Nat /\ p.len \in Nat
  BY <1>2 DEF IsHanded
<1>5. u.state \in {"section", "body"} /\ (k \in {"module", "component"} => u.state = "section")
  BY <1>2 DEF Yields, SectionYields, Kinds
<1>6. /\ k \in {"module", "component"} => s = Append(Append(Front(ps), u), new_parser(p.start, p.len))
      /\ k = "end" => s = Front(ps)
      /\ k \notin {"module", "component", "end"} => s = Append(Front(ps), u)
  BY <1>4 DEF After
<1> HIDE DEF u, p
<1>7. CASE k \in {"module", "component"}
  <2>1. u.encoding = "component" /\ u.state = "section"
    <3>1. SectionYields(Last(ps), k, r) /\ r.ps.state = "section"
      BY <1>2, <1>5, <1>7 DEF Yields, u
    <3>2. Last(ps).encoding = "component" /\ r.ps.encoding = Last(ps).encoding
      BY <1>7, <3>1 DEF SectionYields, Kinds
    <3> QED
      BY <3>1, <3>2 DEF u
  <2>2. new_parser(p.start, p.len) \in ParserStates
    BY <1>4, ParserIsNew
  <2> DEFINE z == new_parser(p.start, p.len)
  <2>3. s = Append(Append(Front(ps), u), z) /\ z \in ParserStates
    BY <1>6, <1>7, <2>2
  <2> HIDE DEF z
  <2>4. OnTop(ps, z, s)
    <3>1. IsStacked(ps, u, z)
      BY <1>1, <1>3, <1>4, <2>1, <2>3 DEF IsStacked
    <3> QED
      BY <2>3, <3>1, Stacked
  <2>5. Len(ps) \in Nat \ {0}
    BY <1>1, TopFacts
  <2>6. Len(s) = Len(ps) + 1
    BY <2>4 DEF OnTop
  <2>7. Len(ps) + 1 # 1
    BY <2>5
  <2> QED
    BY <2>6, <2>7
<1>8. CASE k = "end"
  <2>1. s = Front(ps)
    BY <1>6, <1>8
  <2>2. Last(s).state = "section"
    BY <1>1, <1>3, <2>1, Uncovered
  <2> QED
    BY <2>2
<1>9. CASE k \notin {"module", "component", "end"}
  <2>1. s = Append(Front(ps), u)
    BY <1>6, <1>9
  <2>2. Last(s) = u
    BY <1>1, <1>3, <1>4, <2>1, Replaced
  <2> QED
    BY <1>5, <2>2
<1> QED
  BY <1>7, <1>8, <1>9

-----------------------------------------------------------------------------
(* What is known when a file has been accepted.                            *)

\* The bodies were checked with the module as it was when they were met.
LEMMA BoundsStay ==
  ASSUME NEW a, NEW m, SameSpaces(a, m), m.data_count \in {-1, m.segments},
         "data_count" \in DOMAIN m, NEW space, NEW index, InBounds(a, space, index)
  PROVE  InBounds([m EXCEPT !.data_count = m.segments], space, index)
<1> DEFINE n == [m EXCEPT !.data_count = m.segments]
<1>1. /\ n.types = m.types /\ n.functions = m.functions /\ n.tables = m.tables
      /\ n.memories = m.memories /\ n.globals = m.globals /\ n.tags = m.tags /\ n.elems = m.elems
      /\ n.data_count = m.segments
  OBVIOUS
<1> HIDE DEF n
<1>2. Count(a, space) # -1 /\ index < Count(a, space)
  BY DEF InBounds
<1>3. CASE space \in {"type", "func", "table", "memory", "global", "tag", "elem"}
  <2>1. Count(n, space) = Count(a, space)
    BY <1>1, <1>3 DEF Count, SameSpaces
  <2> QED
    BY <1>2, <2>1 DEF InBounds, n
<1>4. CASE space \notin {"type", "func", "table", "memory", "global", "tag", "elem"}
  <2>1. Count(a, space) = m.data_count /\ Count(n, space) = m.segments
    BY <1>1, <1>4 DEF Count, SameSpaces
  <2>2. m.data_count = m.segments
    BY <1>2, <2>1
  <2> QED
    BY <1>2, <2>1, <2>2 DEF InBounds, n
<1> QED
  BY <1>3, <1>4

LEMMA OperandsStay ==
  ASSUME NEW a, NEW m, SameSpaces(a, m), m.data_count \in {-1, m.segments},
         "data_count" \in DOMAIN m, NEW i, OperandsInBounds(a, i)
  PROVE  OperandsInBounds([m EXCEPT !.data_count = m.segments], i)
<1> DEFINE n == [m EXCEPT !.data_count = m.segments]
<1>1. \A space, index : InBounds(a, space, index) => InBounds(n, space, index)
  BY BoundsStay
<1> HIDE DEF n
<1>2. OperandsInBounds(n, i)
  BY <1>1 DEF OperandsInBounds
<1> QED
  BY <1>2 DEF n

\* The numbers of the bodies are those of the functions a module defines.
LEMMA PlaceIn ==
  ASSUME NEW a \in Nat, NEW b \in Nat, NEW j \in a..(b - 1), NEW k, k = j - a + 1
  PROVE  k \in 1..(b - a) /\ a + (k - 1) = j
OBVIOUS

LEMMA IndicesAre ==
  ASSUME NEW m, ModuleOk(m), NEW bodies, \E S : bodies \in Seq(S), Counted(m, bodies, 0),
         m.expected <= 0
  PROVE  /\ Len(bodies) = Len(m.functions) - m.imported_functions
         /\ {b.index : b \in Range(bodies)} = m.imported_functions..(Len(m.functions) - 1)
         /\ \A k \in 1..Len(bodies) : SameSpaces(bodies[k].module, m)
<1>1. /\ Own(m) \in Int /\ Len(m.functions) \in Nat /\ m.imported_functions \in Nat
      /\ Own(m) = Len(m.functions) - m.imported_functions
  BY OwnIs DEF ModuleOk, Functions, Own
<1>2. PICK S : bodies \in Seq(S)
  OBVIOUS
<1>3. CASE Promised(m, bodies)
  <2>1. bodies = <<>> /\ Own(m) = 0
    BY <1>3 DEF Promised
  <2>2. Len(bodies) = 0 /\ Range(bodies) = {}
    BY <2>1 DEF Range
  <2>3. m.imported_functions..(Len(m.functions) - 1) = {}
    BY <1>1, <2>1
  <2> QED
    BY <1>1, <2>1, <2>2, <2>3
<1>4. CASE Kept(m, bodies, 0)
  <2>1. /\ Len(bodies) \in Nat /\ Len(bodies) = Own(m)
        /\ \A k \in 1..Len(bodies) : /\ bodies[k].index = m.imported_functions + (k - 1)
                                     /\ SameSpaces(bodies[k].module, m)
    BY <1>1, <1>2, <1>4 DEF Kept
  <2>2. Range(bodies) = {bodies[k] : k \in 1..Len(bodies)}
    BY <1>2 DEF Range
  <2>3. {b.index : b \in Range(bodies)} = m.imported_functions..(Len(m.functions) - 1)
    <3>1. ASSUME NEW b \in Range(bodies)
          PROVE  b.index \in m.imported_functions..(Len(m.functions) - 1)
      <4>1. PICK k \in 1..Len(bodies) : b = bodies[k]
        BY <2>2
      <4> QED
        BY <1>1, <2>1, <4>1
    <3>2. ASSUME NEW j \in m.imported_functions..(Len(m.functions) - 1)
          PROVE  \E b \in Range(bodies) : b.index = j
      <4> DEFINE k == j - m.imported_functions + 1
      <4>1. k \in 1..(Len(m.functions) - m.imported_functions) /\ m.imported_functions + (k - 1) = j
        BY <1>1, PlaceIn
      <4> HIDE DEF k
      <4>2. bodies[k] \in Range(bodies) /\ bodies[k].index = j
        BY <1>1, <2>1, <2>2, <4>1
      <4> QED
        BY <4>2
    <3> QED
      BY <3>1, <3>2
  <2> QED
    BY <1>1, <2>1, <2>3
<1> QED
  BY <1>3, <1>4 DEF Counted

\* What an accepted module is, by AcceptedIsWhole.
IsWhole(x) ==
  LET m == x.module
  IN  /\ Len(x.bodies) = Len(m.functions) - m.imported_functions
      /\ {b.index : b \in Range(x.bodies)} = m.imported_functions..(Len(m.functions) - 1)
      /\ m.data_count \in {-1, m.segments}
      /\ \A b \in Range(x.bodies) : \A i \in Range(b.instrs) :
           OperandsInBounds([m EXCEPT !.data_count = m.segments], i[1])

LEMMA WholeWhenChecked ==
  ASSUME NEW x, ValidatorOk(x), Account(x, <<>>),
         \A k \in 1..Len(x.bodies) : Checked(x.bodies[k])
  PROVE  IsWhole(x)
<1> DEFINE m == x.module
           bodies == x.bodies
           n == [m EXCEPT !.data_count = m.segments]
<1>1. /\ ModuleOk(m) /\ (\E S : bodies \in Seq(S)) /\ "data_count" \in DOMAIN m
      /\ Counted(m, bodies, 0) /\ m.data_count \in {-1, m.segments} /\ m.expected <= 0
  BY DEF ValidatorOk, Account, Shaped
<1>2. \A k \in 1..Len(bodies) : Checked(bodies[k])
  OBVIOUS
<1> HIDE DEF m, bodies
<1>3. /\ Len(bodies) = Len(m.functions) - m.imported_functions
      /\ {b.index : b \in Range(bodies)} = m.imported_functions..(Len(m.functions) - 1)
      /\ \A k \in 1..Len(bodies) : SameSpaces(bodies[k].module, m)
  BY <1>1, IndicesAre
<1>4. ASSUME NEW b \in Range(bodies), NEW i \in Range(b.instrs)
      PROVE  OperandsInBounds(n, i[1])
  <2>1. PICK S : bodies \in Seq(S)
    BY <1>1
  <2>2. PICK k \in 1..Len(bodies) : b = bodies[k]
    BY <2>1 DEF Range
  <2>3. Checked(b) /\ SameSpaces(b.module, m)
    BY <1>2, <1>3, <2>2
  <2>4. PICK j \in DOMAIN b.instrs : i = b.instrs[j]
    BY DEF Range
  <2>5. OperandsInBounds(b.module, i[1])
    BY <2>3, <2>4 DEF Checked
  <2> QED
    BY <1>1, <2>3, <2>5, OperandsStay
<1>5. IsWhole(x)
  BY <1>1, <1>3, <1>4 DEF IsWhole, m, bodies
<1> QED
  BY <1>5

-----------------------------------------------------------------------------
(* The reader.                                                             *)

Fresh(x) ==
  /\ Shaped(x) /\ Fine(x) /\ x.state = "unparsed" /\ x.components = <<>> /\ x.bodies = <<>>
  /\ x.module = NewModule

LEMMA FreshMatches ==
  ASSUME NEW x, Fresh(x), NEW ps, ps = <<new_parser(0, MaxSize)>>
  PROVE  Matched(x, ps) /\ Account(x, ps)
<1> DEFINE z == new_parser(0, MaxSize)
<1>1. z \in ParserStates /\ z.state = "header"
  BY MaxSizeAssumption, ParserIsNew
<1> HIDE DEF z
<1>2. ps = <<z>>
  BY DEF z
<1>3. /\ ps \in Seq(ParserStates) /\ ps # <<>> /\ Len(ps) = 1 /\ Last(ps) = z
  BY <1>1, <1>2 DEF Last
<1>4. Enclosing(ps)
  BY <1>3 DEF Enclosing
<1>5. ValidatorOk(x) /\ Len(x.components) = 0
  <2>1. x.bodies \in Seq({}) /\ x.components \in Seq([module : Nat, component : Nat])
    BY DEF Fresh
  <2>2. Len(x.components) = 0
    BY DEF Fresh
  <2> QED
    BY <2>1, <2>2, NewModuleOk DEF Fresh, ValidatorOk
<1>6. AtTop(x, z, 1)
  BY <1>1, <1>5 DEF AtTop, Fresh
<1>7. TopAccount(x, z)
  BY <1>1 DEF TopAccount, Fresh
<1> QED
  BY <1>3, <1>4, <1>5, <1>6, <1>7 DEF Matched, Account

LEMMA NewValidatorIsFresh == Fresh(new_validator)
BY DEF Fresh, Shaped, Fine, new_validator, NewModule

LEMMA ResetIsFresh ==
  ASSUME NEW x, Shaped(x), Fine(x), x.state = "end", x.components = <<>>, NEW y, y = reset(x)
  PROVE  Fresh(y)
<1>1. Check(x, x.state = "end" /\ x.components = <<>>, "panic") = x
  BY DEF Check
<1>2. y = [new_validator EXCEPT !.types = x.types]
  BY <1>1 DEF reset, Then, Fine
<1> QED
  BY <1>2, NewValidatorIsFresh DEF Fresh, Shaped, Fine, new_validator, NewModule

LEMMA FineIsNoPanic == ASSUME NEW x, Fine(x) PROVE x.error # "panic"
BY DEF Fine

\* The module is in a file of its own.
Plain == input[2].byte = Version.module

\* While a file is read: the validator goes with the parsers, or the payload it
\* has not yet taken is the one the parsers are ahead.
Parsing(C) ==
  /\ input \in Seq(C) /\ avail \in 0..Len(input) /\ start \in 0..avail /\ eof \in BOOLEAN
  /\ seen \in Nat /\ taken \in Nat
  /\ outcome = (IF parsers = <<>> THEN "done" ELSE "running")
  /\ parsers # <<>> /\ Len(parsers) = 1 /\ Last(parsers).state = "header" => start = 0
  /\ taken = seen => Matched(v, parsers) /\ (Plain => Account(v, parsers))
  /\ taken # seen => \E ps, r : /\ Offered(v, ps, r, C, Plain)
                                /\ last[1] = r.payload /\ parsers = After(ps, r)

\* The inductive invariant.
ReaderInv(C) ==
  /\ v.error # "panic"
  /\ stage \in {"open", "resolved"} => Fresh(v)
  /\ stage = "parse" => Parsing(C)
  /\ stage = "accepted" => /\ Shaped(v) /\ Fine(v) /\ v.state = "end" /\ v.components = <<>>
                           /\ Plain => IsWhole(v)

LEMMA Offers ==
  ASSUME NEW x, NEW ps, Matched(x, ps), ps # <<>>, NEW whole, whole => Account(x, ps),
         NEW data, NEW C, NEW r, Parses(Last(ps), data, r, C), r.ok,
         whole /\ Last(ps).state = "header" /\ 2 \in 1..Len(data) => data[2].byte = Version.module
  PROVE  Offered(x, ps, r, C, whole)
<1> DEFINE t == Last(ps)
<1>1. PICK k : IsHanded(r.ps, r.payload, k, r.p, data, C) /\ Yields(t, data, r, k)
  BY DEF Parses
<1>2. ASSUME whole, k = "version" PROVE r.payload.count = Version.module
  <2>1. /\ t.state = "header" /\ 2 \in 1..Len(data) /\ r.payload.count = data[2].byte
    BY <1>1, <1>2 DEF Yields, SectionYields, Kinds
  <2> QED
    BY <1>2, <2>1
<1> QED
  BY <1>1, <1>2 DEF Offered

\* The bytes that are there.
LEMMA ThereIs ==
  ASSUME NEW C, NEW s \in Seq(C), NEW n \in 0..Len(s), NEW m \in 0..n,
         NEW data, data = SubSeq(s, m + 1, n)
  PROVE  /\ data \in Seq(C) /\ Len(data) = n - m
         /\ m = 0 /\ 2 \in 1..Len(data) => data[2] = s[2]
<1>0. Len(s) \in Nat
  OBVIOUS
<1>1. CASE m = n
  <2>1. n \in Nat /\ m \in Nat
    BY <1>0
  <2>2. SubSeq(s, m + 1, n) = <<>>
    BY <1>1, <2>1
  <2>3. data = <<>>
    BY <2>2
  <2> QED
    BY <1>1, <2>1, <2>3
<1>2. CASE m # n
  <2>1. n \in Nat /\ m \in Nat /\ m < n
    BY <1>0, <1>2
  <2>2. m + 1 \in 1..(n + 1) /\ n \in m..Len(s)
    BY <1>0, <2>1
  <2>3. /\ SubSeq(s, m + 1, n) \in Seq(C) /\ Len(SubSeq(s, m + 1, n)) = n - m
        /\ \A i \in 1..(n - m) : SubSeq(s, m + 1, n)[i] = s[m + i]
    BY <2>1, <2>2, SubSeqProperties
  <2>4. data \in Seq(C) /\ Len(data) = n - m /\ \A i \in 1..(n - m) : data[i] = s[m + i]
    BY <2>3
  <2>5. ASSUME m = 0, 2 \in 1..Len(data) PROVE data[2] = s[2]
    <3>1. 2 \in 1..(n - m)
      BY <2>4, <2>5
    <3>2. data[2] = s[m + 2]
      BY <2>4, <3>1
    <3> QED
      BY <2>5, <3>2
  <2> QED
    BY <2>4, <2>5
<1> QED
  BY <1>1, <1>2

LEMMA InvInit == ASSUME NEW C, ReaderInit PROVE ReaderInv(C)
<1>1. v = new_validator /\ stage = "open"
  BY DEF ReaderInit
<1>2. Fresh(v)
  BY <1>1, NewValidatorIsFresh
<1>3. v.error # "panic"
  BY <1>2, FineIsNoPanic DEF Fresh
<1> QED
  BY <1>1, <1>2, <1>3 DEF ReaderInv

LEMMA PrepareKeeps ==
  ASSUME NEW C, ReaderInv(C), NEW s \in {"resolved", "unresolved", "encoded"}, Prepare(s)
  PROVE  ReaderInv(C)'
<1>1. Fresh(v) /\ v' = v /\ stage' = s /\ v.error # "panic"
  BY DEF Prepare, ReaderInv
<1>2. Fresh(v)'
  BY <1>1 DEF Fresh, Shaped, Fine
<1> QED
  BY <1>1, <1>2 DEF ReaderInv

LEMMA OpenKeeps ==
  ASSUME NEW C, ReaderInv(C), NEW cells \in Seq(C), NEW n \in 0..Len(cells), OpenFile(cells, n)
  PROVE  ReaderInv(C)'
<1>1. /\ stage \in {"open", "resolved"} /\ stage' = "parse" /\ taken' = 0 /\ v' = v
      /\ input' = cells /\ start' = 0 /\ avail' = n /\ eof' = FALSE
      /\ parsers' = <<new_parser(0, MaxSize)>> /\ seen' = 0 /\ outcome' = "running"
  BY DEF OpenFile, Open
<1>2. Fresh(v) /\ v.error # "panic"
  BY <1>1 DEF ReaderInv
<1>3. Matched(v, parsers') /\ Account(v, parsers')
  BY <1>1, <1>2, FreshMatches
<1>4. parsers' # <<>> /\ Len(cells) \in Nat
  BY <1>1
<1>5. Parsing(C)'
  <2>1. Matched(v, parsers)' /\ Account(v, parsers)'
    <3>1. v' = v
      BY <1>1
    <3> QED
      BY <1>3, <3>1
  <2>2. /\ input' \in Seq(C) /\ avail' \in 0..Len(input') /\ start' \in 0..avail'
        /\ eof' \in BOOLEAN /\ seen' \in Nat /\ taken' \in Nat /\ taken' = seen'
    <3>1. /\ input' = cells /\ start' = 0 /\ avail' = n /\ eof' = FALSE /\ seen' = 0
          /\ taken' = 0
      BY <1>1
    <3>2. n \in Nat /\ Len(cells) \in Nat
      BY <1>4
    <3>3. n \in 0..Len(cells) /\ 0 \in 0..n
      BY <3>2
    <3>4. avail' \in 0..Len(input') /\ start' \in 0..avail'
      BY <3>1, <3>3
    <3>5. eof' \in BOOLEAN /\ seen' \in Nat /\ taken' \in Nat /\ taken' = seen'
      BY <3>1
    <3> QED
      BY <3>1, <3>4, <3>5
  <2> QED
    BY <1>1, <1>4, <2>1, <2>2 DEF Parsing
<1> QED
  BY <1>1, <1>2, <1>5 DEF ReaderInv

LEMMA ReceiveKeeps ==
  ASSUME NEW C, ReaderInv(C), Receive
  PROVE  ReaderInv(C)'
<1>1. /\ stage = "parse" /\ stage' = stage /\ v' = v /\ taken' = taken /\ input' = input
      /\ start' = start /\ parsers' = parsers /\ seen' = seen /\ last' = last /\ outcome' = outcome
  BY DEF Receive, Deliver, ReadEof
<1>2. Parsing(C) /\ v.error # "panic"
  BY <1>1 DEF ReaderInv
<1>3. avail' \in 0..Len(input) /\ start \in 0..avail' /\ eof' \in BOOLEAN
  <2>1. avail \in 0..Len(input) /\ start \in 0..avail /\ eof \in BOOLEAN /\ Len(input) \in Nat
    BY <1>2 DEF Parsing
  <2>2. CASE \E n \in 1..Len(input) : Deliver(n)
    <3>1. PICK n \in 1..Len(input) : Deliver(n)
      BY <2>2
    <3>2. n \in 1..(Len(input) - avail) /\ avail' = avail + n /\ eof' = eof
      BY <3>1 DEF Deliver
    <3> QED
      BY <2>1, <3>2
  <2>3. CASE ReadEof
    BY <2>1, <2>3 DEF ReadEof
  <2> QED
    BY <2>2, <2>3 DEF Receive
<1>4. Parsing(C)'
  BY <1>1, <1>2, <1>3 DEF Parsing, Plain
<1> QED
  BY <1>1, <1>2, <1>4 DEF ReaderInv

LEMMA ParseKeeps ==
  ASSUME NEW C, Cells(C), ReaderInv(C), Parse
  PROVE  ReaderInv(C)'
<1> DEFINE data == SubSeq(input, start + 1, avail)
           t == Last(parsers)
           r == parse(t, data, eof)
<1>1. /\ stage = "parse" /\ taken = seen /\ outcome = "running" /\ v' = v /\ taken' = taken
      /\ input' = input /\ avail' = avail /\ eof' = eof
      /\ stage' = IF outcome' = "error" THEN "rejected" ELSE stage
  BY DEF Parse, ParsePayload
<1>2. /\ v.error # "panic"
      /\ input \in Seq(C) /\ avail \in 0..Len(input) /\ start \in 0..avail /\ eof \in BOOLEAN
      /\ seen \in Nat
      /\ Len(parsers) = 1 /\ Last(parsers).state = "header" => start = 0
      /\ parsers # <<>>
      /\ Matched(v, parsers) /\ (Plain => Account(v, parsers))
  BY <1>1 DEF ReaderInv, Parsing
<1>3. \/ /\ r.ok /\ start' = start + r.p /\ seen' = seen + 1 /\ last' = <<r.payload>>
         /\ parsers' = After(parsers, r)
         /\ outcome' = IF parsers' = <<>> THEN "done" ELSE "running"
      \/ /\ ~r.ok /\ outcome' \in {"running", "error"} /\ parsers' = Append(Front(parsers), r.ps)
         /\ start' = start /\ seen' = seen /\ last' = last
  BY DEF Parse, ParsePayload
<1>4. /\ data \in Seq(C) /\ Len(data) = avail - start
      /\ start = 0 /\ 2 \in 1..Len(data) => data[2] = input[2]
  BY <1>2, ThereIs
<1>5. Parses(t, data, r, C)
  <2>1. t \in ParserStates
    BY <1>2, TopFacts
  <2>2. IsData(data, C)
    BY <1>4 DEF IsData, Cells
  <2> HIDE DEF t, data
  <2> QED
    BY <1>2, <2>1, <2>2, ParseParses
<1> HIDE DEF data, r
<1>6. CASE /\ r.ok /\ start' = start + r.p /\ seen' = seen + 1 /\ last' = <<r.payload>>
           /\ parsers' = After(parsers, r)
           /\ outcome' = IF parsers' = <<>> THEN "done" ELSE "running"
  <2>1. Offered(v, parsers, r, C, Plain)
    <3> DEFINE whole == Plain
    <3>1. whole /\ Last(parsers).state = "header" /\ 2 \in 1..Len(data)
          => data[2].byte = Version.module
      <4>1. whole => Len(parsers) = 1
        BY <1>2 DEF Account
      <4> QED
        BY <1>2, <1>4, <4>1 DEF Plain
    <3>2. whole => Account(v, parsers)
      BY <1>2
    <3>3. Parses(Last(parsers), data, r, C) /\ r.ok
      BY <1>5, <1>6
    <3> HIDE DEF whole, t
    <3>4. Offered(v, parsers, r, C, whole)
      BY <1>2, <3>1, <3>2, <3>3, Offers
    <3> QED
      BY <3>4 DEF whole
  <2>2. r.p \in 0..Len(data)
    BY <1>5, <1>6 DEF Parses, IsHanded
  <2>3. start' \in 0..avail' /\ seen' \in Nat /\ taken' \in Nat /\ taken' # seen'
    <3>1. Len(data) = avail - start /\ avail \in Nat /\ start \in Nat /\ start <= avail
      BY <1>2, <1>4
    <3> QED
      BY <1>1, <1>2, <1>6, <2>2, <3>1
  <2>4. parsers' # <<>> /\ Len(parsers') = 1 => Last(parsers').state # "header"
    BY <1>6, <2>1, NoHeaderAfter
  <2>5. Offered(v, parsers, r, C, Plain) /\ last'[1] = r.payload
    BY <1>6, <2>1
  <2>6. stage' = "parse"
    BY <1>1, <1>6
  <2>7. \E ps, x : /\ Offered(v', ps, x, C, Plain')
                   /\ last'[1] = x.payload /\ parsers' = After(ps, x)
    BY <1>1, <1>6, <2>5 DEF Plain
  <2>8. Parsing(C)'
    BY <1>1, <1>2, <1>6, <2>3, <2>4, <2>7 DEF Parsing
  <2> QED
    BY <1>1, <1>2, <2>6, <2>8 DEF ReaderInv
<1>7. CASE /\ ~r.ok /\ outcome' \in {"running", "error"} /\ parsers' = Append(Front(parsers), r.ps)
           /\ start' = start /\ seen' = seen /\ last' = last
  <2>1. r.ps \in ParserStates /\ (r.ps = t \/ Closes(t, r.ps))
    BY <1>5, <1>7 DEF Parses
  <2>2. Matched(v, parsers') /\ (Plain => Account(v, parsers'))
    <3> DEFINE whole == Plain
               u == r.ps
    <3>1. u \in ParserStates /\ (u = Last(parsers) \/ Closes(Last(parsers), u))
          /\ parsers' = Append(Front(parsers), u) /\ (whole => Account(v, parsers))
      BY <1>2, <1>7, <2>1
    <3> HIDE DEF whole, u, t
    <3>2. Matched(v, parsers') /\ (whole => Account(v, parsers'))
      BY <1>2, <3>1, Stayed
    <3> QED
      BY <3>2 DEF whole
  <2>3. /\ parsers' # <<>> /\ Len(parsers') = Len(parsers) /\ Last(parsers') = r.ps
    <3>1. parsers \in Seq(ParserStates) /\ Enclosing(parsers)
      BY <1>2 DEF Matched
    <3> QED
      BY <1>2, <1>7, <2>1, <3>1, Replaced, ZenonT(60)
  <2>4. r.ps.state = "header" => t.state = "header"
    <3>1. t \in ParserStates
      BY <1>2, TopFacts
    <3> HIDE DEF t
    <3> QED
      BY <2>1, <3>1 DEF Closes, ParserStates
  <2>5. CASE outcome' = "running"
    <3>1. Parsing(C)'
      <4>1. Matched(v, parsers)' /\ (Plain => Account(v, parsers))'
        BY <1>1, <2>2 DEF Plain
      <4>2. Len(parsers') = 1 /\ Last(parsers').state = "header" => start' = 0
        BY <1>2, <1>7, <2>3, <2>4
      <4> QED
        BY <1>1, <1>2, <1>7, <2>3, <2>5, <4>1, <4>2 DEF Parsing
    <3> QED
      BY <1>1, <1>2, <2>5, <3>1 DEF ReaderInv
  <2>6. CASE outcome' = "error"
    BY <1>1, <1>2, <2>6 DEF ReaderInv
  <2> QED
    BY <1>7, <2>5, <2>6
<1> QED
  BY <1>3, <1>6, <1>7

LEMMA ValidateKeeps ==
  ASSUME NEW C, Cells(C), ReaderInv(C), Validate
  PROVE  ReaderInv(C)'
<1>1. /\ stage = "parse" /\ taken < seen /\ v' = payload(v, last[1]) /\ taken' = seen
      /\ stage' = (IF v'.error # "" THEN "rejected" ELSE stage)
      /\ UNCHANGED <<input, start, avail, eof, parsers, seen, outcome>>
  BY DEF Validate, streamVars
<1>2. Parsing(C)
  BY <1>1 DEF ReaderInv
<1>3. taken # seen
  <2>1. taken \in Nat /\ seen \in Nat
    BY <1>2 DEF Parsing
  <2>2. taken < seen
    BY DEF Validate
  <2> QED
    BY <2>1, <2>2
<1>4. PICK ps, r : /\ Offered(v, ps, r, C, Plain)
                   /\ last[1] = r.payload /\ parsers = After(ps, r)
  BY <1>2, <1>3 DEF Parsing
<1>5. Dealt(v', parsers, Plain)
  <2> DEFINE whole == Plain
             y == v'
  <2>1. Offered(v, ps, r, C, whole) /\ y = payload(v, r.payload)
    BY <1>1, <1>4
  <2> HIDE DEF whole, y
  <2>2. Dealt(y, After(ps, r), whole)
    BY <2>1, PayloadDealt
  <2>3. Dealt(y, parsers, whole)
    BY <1>4, <2>2
  <2> QED
    BY <2>3 DEF whole, y
<1>6. v'.error # "panic"
  BY <1>5 DEF Dealt
<1>7. CASE Fine(v')
  <2>1. stage' = "parse"
    BY <1>1, <1>7 DEF Fine
  <2>2. Matched(v', parsers) /\ (Plain => Account(v', parsers))
    BY <1>5, <1>7 DEF Dealt
  <2>3. Parsing(C)'
    <3>1. Matched(v, parsers)' /\ (Plain => Account(v, parsers))'
      <4>1. parsers' = parsers /\ input' = input
        BY <1>1
      <4> QED
        BY <2>2, <4>1 DEF Plain
    <3>2. taken' = seen' /\ seen' \in Nat
      BY <1>1, <1>2 DEF Parsing
    <3> QED
      BY <1>1, <1>2, <3>1, <3>2 DEF Parsing
  <2> QED
    BY <1>6, <2>1, <2>3 DEF ReaderInv
<1>8. CASE ~Fine(v')
  <2>1. stage' = "rejected"
    BY <1>1, <1>8 DEF Fine
  <2> QED
    BY <1>6, <2>1 DEF ReaderInv
<1> QED
  BY <1>7, <1>8

LEMMA BodiesKeep ==
  ASSUME NEW C, ReaderInv(C), ValidateBodies
  PROVE  ReaderInv(C)'
<1>1. /\ stage = "parse" /\ outcome = "done" /\ taken = seen /\ v' = validate_bodies(v)
      /\ stage' = (IF v'.error # "" THEN "rejected" ELSE "accepted")
      /\ input' = input
  BY DEF ValidateBodies, streamVars
<1>2. Parsing(C)
  BY <1>1 DEF ReaderInv
<1>3. parsers = <<>>
  BY <1>1, <1>2 DEF Parsing
<1>4. Matched(v, <<>>) /\ (Plain => Account(v, <<>>))
  BY <1>1, <1>2, <1>3 DEF Parsing
<1>5. ValidatorOk(v) /\ v.state = "end" /\ Len(v.components) = 0
  BY <1>4 DEF Matched
<1>6. Shaped(v) /\ Fine(v) /\ Len(v.bodies) \in Nat /\ v.components = <<>>
  <2>1. PICK S : v.bodies \in Seq(S)
    BY <1>5 DEF ValidatorOk
  <2>2. v.components = <<>>
    BY <1>5, EmptySeq DEF ValidatorOk
  <2> QED
    BY <1>5, <2>1, <2>2 DEF ValidatorOk
<1>7. /\ v'.error # "panic"
      /\ Fine(v') => v' = v /\ \A k \in 1..Len(v.bodies) : Checked(v.bodies[k])
  <2> DEFINE y == v'
  <2>1. y = validate_bodies(v)
    BY <1>1
  <2> HIDE DEF y
  <2>2. /\ y.error # "panic"
        /\ Fine(y) => y = v /\ \A k \in 1..Len(v.bodies) : Checked(v.bodies[k])
    BY <1>6, <2>1, BodiesFacts
  <2> QED
    BY <2>2 DEF y
<1>8. CASE Fine(v')
  <2>1. v' = v /\ \A k \in 1..Len(v.bodies) : Checked(v.bodies[k])
    BY <1>7, <1>8
  <2>2. Plain => IsWhole(v)
    BY <1>4, <1>5, <2>1, WholeWhenChecked
  <2>3. stage' = "accepted" /\ Plain' = Plain
    BY <1>1, <1>8 DEF Fine, Plain
  <2>4. (Plain => IsWhole(v))'
    BY <2>1, <2>2, <2>3
  <2>5. Shaped(v') /\ Fine(v') /\ v'.state = "end" /\ v'.components = <<>>
    BY <1>5, <1>6, <2>1
  <2> QED
    BY <1>7, <2>3, <2>4, <2>5 DEF ReaderInv
<1>9. CASE ~Fine(v')
  <2>1. stage' = "rejected"
    BY <1>1, <1>9 DEF Fine
  <2> QED
    BY <1>7, <2>1 DEF ReaderInv
<1> QED
  BY <1>8, <1>9

LEMMA ReuseKeeps ==
  ASSUME NEW C, ReaderInv(C), Reuse
  PROVE  ReaderInv(C)'
<1>1. stage = "accepted" /\ stage' = "open" /\ v' = reset(v)
  BY DEF Reuse
<1>2. Shaped(v) /\ Fine(v) /\ v.state = "end" /\ v.components = <<>>
  BY <1>1 DEF ReaderInv
<1>3. Fresh(v')
  BY <1>1, <1>2, ResetIsFresh
<1>4. v'.error # "panic"
  BY <1>3, FineIsNoPanic DEF Fresh
<1> QED
  BY <1>1, <1>3, <1>4 DEF ReaderInv

LEMMA StutterKeeps ==
  ASSUME NEW C, ReaderInv(C), UNCHANGED readerVars
  PROVE  ReaderInv(C)'
<1>1. UNCHANGED <<stage, v, taken, input, start, avail, eof, parsers, seen, last, outcome>>
  BY DEF readerVars, streamVars
<1>2. Parsing(C)' = Parsing(C)
  BY <1>1 DEF Parsing, Plain
<1> QED
  BY <1>1, <1>2 DEF ReaderInv, Plain

-----------------------------------------------------------------------------
(* Items are any records; the functions of an element segment are a list.   *)

\* Whatever arrives, in whatever chunks, and however often the validator is
\* reset: the stack of parsers, the bytes in front of it and the state of the
\* validator agree (Parser::parse of parser.rs, Validator::payload of validator.rs).
THEOREM ReaderInvariant ==
  ASSUME NEW Items, \A i \in Items : Listed(i)
  PROVE  ReaderSpec(Items) => []ReaderInv([byte : Nat, item : Items])
<1> DEFINE C == [byte : Nat, item : Items]
<1>1. Cells(C)
  BY DEF Cells
<1> HIDE DEF C
<1>2. ReaderInit => ReaderInv(C)
  BY InvInit
<1>3. ReaderInv(C) /\ [ReaderNext(Items)]_readerVars => ReaderInv(C)'
  <2>1. SUFFICES ASSUME ReaderInv(C), [ReaderNext(Items)]_readerVars PROVE ReaderInv(C)'
    OBVIOUS
  <2>2. CASE \E s \in {"resolved", "unresolved", "encoded"} : Prepare(s)
    BY <2>1, <2>2, PrepareKeeps
  <2>3. CASE \E cells \in Seq(C) : \E n \in 0..Len(cells) : OpenFile(cells, n)
    BY <2>1, <2>3, OpenKeeps
  <2>4. CASE Parse
    BY <1>1, <2>1, <2>4, ParseKeeps
  <2>5. CASE Receive
    BY <2>1, <2>5, ReceiveKeeps
  <2>6. CASE Validate
    BY <1>1, <2>1, <2>6, ValidateKeeps
  <2>7. CASE ValidateBodies
    BY <2>1, <2>7, BodiesKeep
  <2>8. CASE Reuse
    BY <2>1, <2>8, ReuseKeeps
  <2>9. CASE UNCHANGED readerVars
    BY <2>1, <2>9, StutterKeeps
  <2> QED
    BY <2>1, <2>2, <2>3, <2>4, <2>5, <2>6, <2>7, <2>8, <2>9 DEF ReaderNext, C
<1> QED
  BY <1>2, <1>3, PTL DEF ReaderSpec, C

\* No payload, body or reset makes the validator panic: ValidatorNeverPanics
\* (validator.rs, and core.rs, MaybeOwned::assert_mut).
THEOREM ReaderNeverPanics ==
  ASSUME NEW Items, \A i \in Items : Listed(i)
  PROVE  ReaderSpec(Items) => []ValidatorNeverPanics
<1> DEFINE C == [byte : Nat, item : Items]
<1>1. ReaderInv(C) => ValidatorNeverPanics
  BY DEF ReaderInv, ValidatorNeverPanics
<1> QED
  BY <1>1, ReaderInvariant, PTL

\* A module that is accepted is whole: see AcceptedIsWhole (Validator::validate_all,
\* code_section_start, code_section_entry and validate_end of validator.rs).
THEOREM ReaderAcceptsWhole ==
  ASSUME NEW Items, \A i \in Items : Listed(i)
  PROVE  ReaderSpec(Items) => []AcceptedIsWhole
<1> DEFINE C == [byte : Nat, item : Items]
<1>1. ReaderInv(C) => AcceptedIsWhole
  BY DEF ReaderInv, AcceptedIsWhole, IsWhole, Plain
<1> QED
  BY <1>1, ReaderInvariant, PTL

-----------------------------------------------------------------------------
(* Where the bytes are cut.  With fewer bytes the parser does what it does  *)
(* with all of them, or asks for more.                                      *)

\* The cells d are the first of e.
Starts(d, e, C) ==
  /\ d \in Seq(C) /\ e \in Seq(C) /\ Len(d) <= Len(e)
  /\ \A i \in 1..Len(d) : d[i] = e[i]

\* The result a stands whatever follows, where b is the one with more data: a value is
\* the same, and an error that asks for nothing stays an error.
Settled(a, b) ==
  /\ a.ok => b = a
  /\ ~a.ok /\ ~(a.hint > 0) => ~b.ok

LEMMA SettledSame == ASSUME NEW a, NEW b, b = a PROVE Settled(a, b)
BY DEF Settled

LEMMA SettledOpen == ASSUME NEW a, NEW b, ~a.ok, a.hint > 0 PROVE Settled(a, b)
BY DEF Settled

LEMMA ByteSettled ==
  ASSUME NEW C, NEW d, NEW e, Starts(d, e, C), NEW p \in Nat
  PROVE  Settled(read_u8(d, p), read_u8(e, p))
<1>1. CASE p < Len(d)
  <2>1. p + 1 \in 1..Len(d) /\ p < Len(e) /\ d[p + 1] = e[p + 1]
    BY <1>1 DEF Starts
  <2>2. read_u8(d, p) = read_u8(e, p)
    BY <1>1, <2>1 DEF read_u8
  <2> QED
    BY <2>2, SettledSame
<1>2. CASE ~(p < Len(d))
  <2>1. read_u8(d, p) = Eof(1)
    BY <1>2 DEF read_u8
  <2> QED
    BY <2>1, SettledOpen DEF Eof
<1> QED
  BY <1>1, <1>2

LEMMA BytesSettled ==
  ASSUME NEW C, NEW d, NEW e, Starts(d, e, C), NEW p \in Nat, NEW size \in Nat
  PROVE  Settled(read_bytes(d, p, size), read_bytes(e, p, size))
<1>0. d \in Seq(C) /\ e \in Seq(C) /\ Len(d) \in Nat /\ Len(e) \in Nat /\ Len(d) <= Len(e)
      /\ \A i \in 1..Len(d) : d[i] = e[i]
  BY DEF Starts
<1>1. CASE p + size <= Len(d)
  <2>1. p + size <= Len(e)
    BY <1>0, <1>1
  <2>2. SubSeq(d, p + 1, p + size) = SubSeq(e, p + 1, p + size)
    <3> DEFINE a == SubSeq(d, p + 1, p + size)
               b == SubSeq(e, p + 1, p + size)
    <3>1. \A i \in (p + 1)..(p + size) : i \in 1..Len(d) /\ i \in 1..Len(e) /\ d[i] \in C /\ e[i] \in C
      BY <1>0, <1>1, <2>1
    <3>2. a \in Seq(C) /\ Len(a) = size /\ \A i \in 1..size : a[i] = d[p + i]
      BY <1>0, <1>1, <3>1, SubSeqProperties
    <3>3. b \in Seq(C) /\ Len(b) = size /\ \A i \in 1..size : b[i] = e[p + i]
      BY <1>0, <2>1, <3>1, SubSeqProperties
    <3>4. \A i \in 1..size : p + i \in 1..Len(d)
      BY <1>0, <1>1
    <3> HIDE DEF a, b
    <3>5. \A i \in 1..size : a[i] = b[i]
      BY <1>0, <3>2, <3>3, <3>4
    <3>6. a = b
      BY <3>2, <3>3, <3>5, SeqEqual
    <3> QED
      BY <3>6 DEF a, b
  <2>3. read_bytes(d, p, size) = read_bytes(e, p, size)
    BY <1>1, <2>1, <2>2 DEF read_bytes
  <2> QED
    BY <2>3, SettledSame
<1>2. CASE ~(p + size <= Len(d))
  <2>1. read_bytes(d, p, size) = Eof(p + size - Len(d)) /\ p + size - Len(d) > 0
    BY <1>0, <1>2 DEF read_bytes
  <2> QED
    BY <2>1, SettledOpen DEF Eof
<1> QED
  BY <1>1, <1>2

LEMMA NumberSettled ==
  ASSUME NEW C, NEW d, NEW e, Starts(d, e, C), NEW p \in Nat
  PROVE  Settled(read_var_u32(d, p), read_var_u32(e, p))
<1>1. PICK f : GroupLoop(f, d, p) /\ read_var_u32(d, p) = f[0]
  BY NumberIsLoop
<1>2. PICK g : GroupLoop(g, e, p) /\ read_var_u32(e, p) = g[0]
  BY NumberIsLoop
<1> DEFINE Good(k) == Settled(f[k], g[k])
           Bad == {k \in 0..WordBits : ~Good(k)}
<1>0. WordBits \in Nat
  BY WidthAssumption
<1>3. ASSUME NEW k \in 0..WordBits, k = WordBits \/ Good(k + 1) PROVE Good(k)
  <2>1. f[k] = GroupStep(d, p, k, f[k + 1]) /\ g[k] = GroupStep(e, p, k, g[k + 1])
    BY <1>1, <1>2 DEF GroupLoop
  <2>2. Settled(read_u8(d, p + k), read_u8(e, p + k))
    <3>1. p + k \in Nat
      BY <1>0
    <3> QED
      BY <3>1, ByteSettled
  <2>3. CASE ~read_u8(d, p + k).ok
    <3>1. f[k] = read_u8(d, p + k)
      BY <2>1, <2>3 DEF GroupStep
    <3>2. ~read_u8(e, p + k).ok => g[k] = read_u8(e, p + k)
      BY <2>1 DEF GroupStep
    <3> QED
      BY <2>2, <2>3, <3>1, <3>2 DEF Settled
  <2>4. CASE read_u8(d, p + k).ok
    <3> DEFINE r == read_u8(d, p + k)
    <3>1. r.ok /\ read_u8(e, p + k) = r
      BY <2>2, <2>4 DEF Settled
    <3>2. \A rest : GroupStep(d, p, k, rest) = GroupStep(e, p, k, rest)
      BY <3>1 DEF GroupStep
    <3>3. CASE k = WordBits
      <4>1. GroupStep(d, p, k, f[k + 1]) = GroupStep(d, p, k, g[k + 1])
        BY <1>0, <3>3, LastGroupStops
      <4>2. f[k] = g[k]
        BY <2>1, <3>2, <4>1
      <4> QED
        BY <4>2, SettledSame
    <3>4. CASE Good(k + 1) /\ f[k + 1].ok
      <4>1. f[k] = g[k]
        BY <2>1, <3>2, <3>4 DEF Settled
      <4> QED
        BY <4>1, SettledSame
    <3>5. CASE Good(k + 1) /\ ~f[k + 1].ok
      <4>1. \/ \A rest : GroupStep(d, p, k, rest) = GroupStep(d, p, k, f[k + 1])
            \/ \A rest : GroupStep(d, p, k, rest)
                           = IF rest.ok THEN [rest EXCEPT !.v = @ + Low(r.v) * TwoTo[k * GroupBits]]
                             ELSE rest
        BY <3>1 DEF GroupStep
      <4>2. CASE \A rest : GroupStep(d, p, k, rest) = GroupStep(d, p, k, f[k + 1])
        <5>1. f[k] = g[k]
          BY <2>1, <3>2, <4>2
        <5> QED
          BY <5>1, SettledSame
      <4>3. CASE \A rest : GroupStep(d, p, k, rest)
                           = IF rest.ok THEN [rest EXCEPT !.v = @ + Low(r.v) * TwoTo[k * GroupBits]]
                             ELSE rest
        <5>1. f[k] = f[k + 1]
          BY <2>1, <3>5, <4>3
        <5>2. ~g[k + 1].ok => g[k] = g[k + 1]
          BY <2>1, <3>2, <4>3
        <5> QED
          BY <3>5, <5>1, <5>2 DEF Settled
      <4> QED
        BY <4>1, <4>2, <4>3
    <3> QED
      BY <1>3, <3>3, <3>4, <3>5
  <2> QED
    BY <2>3, <2>4
<1>4. Bad = {}
  <2>1. WordBits \notin Bad
    BY <1>0, <1>3
  <2>2. ASSUME NEW m \in 1..WordBits, m \notin Bad PROVE m - 1 \notin Bad
    <3>1. m \in 0..WordBits /\ m - 1 \in 0..WordBits /\ (m - 1) + 1 = m
      BY <1>0
    <3>2. Good(m)
      BY <2>2, <3>1
    <3>3. Good((m - 1) + 1)
      BY <3>1, <3>2
    <3> HIDE DEF Good
    <3>4. Good(m - 1)
      BY <1>3, <3>1, <3>3
    <3> QED
      BY <3>4
  <2>3. Bad \subseteq 0..WordBits
    OBVIOUS
  <2> HIDE DEF Bad
  <2> QED
    BY <1>0, <2>1, <2>2, <2>3, Downwards
<1>5. Good(0)
  BY <1>0, <1>4
<1> QED
  BY <1>1, <1>2, <1>5

\* What is made of a part of the data is settled with it.
LEMMA SettledPart ==
  ASSUME NEW a, NEW b, Settled(a, b), NEW x, NEW y,
         a.ok /\ b = a => y = x,
         ~a.ok => ~x.ok /\ x.hint = a.hint,
         ~b.ok => ~y.ok
  PROVE  Settled(x, y)
<1>1. CASE a.ok
  <2>1. y = x
    BY <1>1 DEF Settled
  <2> QED
    BY <2>1, SettledSame
<1>2. CASE ~a.ok
  BY <1>2 DEF Settled
<1> QED
  BY <1>1, <1>2

Cut(d, e, C) == Starts(d, e, C) /\ IsData(d, C) /\ IsData(e, C)

LEMMA FailedIs == \A ps, x : ~Failed(ps, x).ok /\ Failed(ps, x).hint = x.hint
BY DEF Failed

LEMMA SectionSettled ==
  ASSUME NEW C, NEW d, NEW e, Cut(d, e, C), NEW ps, NEW p \in Nat, NEW kind, NEW len \in Nat
  PROVE  /\ Settled(section(ps, d, p, kind, len), section(ps, e, p, kind, len))
         /\ Settled(single_item(ps, d, p, kind, len), single_item(ps, e, p, kind, len))
<1> DEFINE a == read_bytes(d, p, len)
           b == read_bytes(e, p, len)
<1>1. Settled(a, b)
  BY BytesSettled DEF Cut
<1>2. /\ a.ok /\ b = a => section(ps, e, p, kind, len) = section(ps, d, p, kind, len)
      /\ ~a.ok => section(ps, d, p, kind, len) = Failed(ps, a)
      /\ ~b.ok => section(ps, e, p, kind, len) = Failed(ps, b)
  BY DEF section
<1>3. /\ a.ok /\ b = a => single_item(ps, e, p, kind, len) = single_item(ps, d, p, kind, len)
      /\ ~a.ok => single_item(ps, d, p, kind, len) = Failed(ps, a)
      /\ ~b.ok => single_item(ps, e, p, kind, len) = Failed(ps, b)
  BY DEF single_item
<1> HIDE DEF a, b
<1>4. Settled(section(ps, d, p, kind, len), section(ps, e, p, kind, len))
  BY <1>1, <1>2, FailedIs, SettledPart
<1>5. Settled(single_item(ps, d, p, kind, len), single_item(ps, e, p, kind, len))
  BY <1>1, <1>3, FailedIs, SettledPart
<1> QED
  BY <1>4, <1>5

LEMMA DelimitedSettled ==
  ASSUME NEW a, NEW b, Settled(a, b), NEW p, NEW len
  PROVE  Settled(Delimited(a, p, len), Delimited(b, p, len))
<1>1. /\ a.ok /\ b = a => Delimited(b, p, len) = Delimited(a, p, len)
      /\ ~a.ok => Delimited(a, p, len) = a
      /\ ~b.ok => Delimited(b, p, len) = b
  BY DEF Delimited
<1> QED
  BY <1>1, SettledPart

LEMMA CodeSettled ==
  ASSUME NEW C, NEW d, NEW e, Cut(d, e, C), NEW ps, NEW p \in Nat, NEW len
  PROVE  Settled(CodeStart(ps, d, p, len), CodeStart(ps, e, p, len))
<1> DEFINE a == Delimited(read_var_u32(d, p), p, len)
           b == Delimited(read_var_u32(e, p), p, len)
<1>1. Settled(a, b)
  BY NumberSettled, DelimitedSettled DEF Cut
<1>2. /\ a.ok /\ b = a => CodeStart(ps, e, p, len) = CodeStart(ps, d, p, len)
      /\ ~a.ok => CodeStart(ps, d, p, len) = Failed(ps, a)
      /\ ~b.ok => CodeStart(ps, e, p, len) = Failed(ps, b)
  BY DEF CodeStart
<1> HIDE DEF a, b
<1> QED
  BY <1>1, <1>2, FailedIs, SettledPart

LEMMA PayloadSettled ==
  ASSUME NEW C, NEW d, NEW e, Cut(d, e, C), NEW ps, NEW p \in Nat, NEW kind, NEW len \in Nat
  PROVE  Settled(SectionPayload(ps, d, p, kind, len), SectionPayload(ps, e, p, kind, len))
<1>1. CASE kind = "code"
  <2>1. /\ SectionPayload(ps, d, p, kind, len) = CodeStart(ps, d, p, len)
        /\ SectionPayload(ps, e, p, kind, len) = CodeStart(ps, e, p, len)
    BY <1>1 DEF SectionPayload
  <2> QED
    BY <2>1, CodeSettled
<1>2. CASE kind \in {"start", "datacount"}
  <2>1. /\ SectionPayload(ps, d, p, kind, len) = single_item(ps, d, p, kind, len)
        /\ SectionPayload(ps, e, p, kind, len) = single_item(ps, e, p, kind, len)
    BY <1>2 DEF SectionPayload
  <2> QED
    BY <2>1, SectionSettled
<1>3. CASE kind \in {"module", "component"}
  <2>1. /\ SectionPayload(ps, d, p, kind, len) = Nested(ps, p, kind, len)
        /\ SectionPayload(ps, e, p, kind, len) = Nested(ps, p, kind, len)
    BY <1>3 DEF SectionPayload
  <2> QED
    BY <2>1, SettledSame
<1>4. CASE kind = "unknown"
  <2> DEFINE a == read_bytes(d, p, len)
             b == read_bytes(e, p, len)
  <2>1. Settled(a, b)
    BY BytesSettled DEF Cut
  <2>2. /\ a.ok /\ b = a => SectionPayload(ps, e, p, kind, len) = SectionPayload(ps, d, p, kind, len)
        /\ ~a.ok => SectionPayload(ps, d, p, kind, len) = Failed(ps, a)
        /\ ~b.ok => SectionPayload(ps, e, p, kind, len) = Failed(ps, b)
    BY <1>4 DEF SectionPayload
  <2> HIDE DEF a, b
  <2> QED
    BY <2>1, <2>2, FailedIs, SettledPart
<1>5. CASE kind \notin {"code", "start", "datacount", "module", "component", "unknown"}
  <2>1. /\ SectionPayload(ps, d, p, kind, len) = section(ps, d, p, kind, len)
        /\ SectionPayload(ps, e, p, kind, len) = section(ps, e, p, kind, len)
    BY <1>5 DEF SectionPayload
  <2> QED
    BY <2>1, SectionSettled
<1> QED
  BY <1>1, <1>2, <1>3, <1>4, <1>5

HeaderEnd(ps, header) ==
  LET known == {x \in DOMAIN Version : Version[x] = header.v[2].byte}
      encoding == CHOOSE x \in known : TRUE
  IN  IF known = {} THEN Failed(ps, Fail)
      ELSE Parsed([ps EXCEPT !.state = "section", !.encoding = encoding],
                  Payload("version", ps.offset, Version[encoding], <<>>), 2)

HeaderFrom(ps, magic, header) ==
  IF ~magic.ok THEN Failed(ps, magic)
  ELSE IF magic.v[1].byte # Magic THEN Failed(ps, Fail)
  ELSE IF ~header.ok THEN Failed(ps, header)
  ELSE HeaderEnd(ps, header)

LEMMA HeaderFromIs ==
  ASSUME NEW ps, NEW data
  PROVE  parse_header(ps, data) = HeaderFrom(ps, read_bytes(data, 0, 1), read_bytes(data, 0, 2))
<1> DEFINE header == read_bytes(data, 0, 2)
           magic == read_bytes(data, 0, 1)
           known == {x \in DOMAIN Version : Version[x] = header.v[2].byte}
           encoding == CHOOSE x \in known : TRUE
           given == Parsed([ps EXCEPT !.state = "section", !.encoding = encoding],
                           Payload("version", ps.offset, Version[encoding], <<>>), 2)
<1>1. parse_header(ps, data)
        = IF ~magic.ok \/ (magic.v[1].byte = Magic /\ ~header.ok)
          THEN Failed(ps, IF magic.ok THEN header ELSE magic)
          ELSE IF magic.v[1].byte # Magic \/ known = {} THEN Failed(ps, Fail)
          ELSE given
  BY DEF parse_header
<1>2. HeaderEnd(ps, header) = IF known = {} THEN Failed(ps, Fail) ELSE given
  BY DEF HeaderEnd
<1> HIDE DEF header, magic, known, encoding, given
<1>3. parse_header(ps, data) = HeaderFrom(ps, magic, header)
  BY <1>1, <1>2 DEF HeaderFrom
<1> QED
  BY <1>3 DEF header, magic

LEMMA HeaderSettled ==
  ASSUME NEW C, NEW d, NEW e, Cut(d, e, C), NEW ps
  PROVE  Settled(parse_header(ps, d), parse_header(ps, e))
<1> DEFINE a1 == read_bytes(d, 0, 1)
           b1 == read_bytes(e, 0, 1)
           a2 == read_bytes(d, 0, 2)
           b2 == read_bytes(e, 0, 2)
<1>1. Settled(a1, b1) /\ Settled(a2, b2)
  BY BytesSettled DEF Cut
<1>2. (~a1.ok => a1.hint > 0) /\ (~a2.ok => a2.hint > 0)
  <2>1. Len(d) \in Nat
    BY DEF Cut, Starts
  <2>2. (a1.ok \/ a1 = Eof(0 + 1 - Len(d))) /\ (a2.ok \/ a2 = Eof(0 + 2 - Len(d)))
    BY DEF read_bytes, Read
  <2>3. (~a1.ok => 0 + 1 > Len(d)) /\ (~a2.ok => 0 + 2 > Len(d))
    BY <2>1 DEF read_bytes, Read
  <2>4. \A n : Eof(n).hint = n
    BY DEF Eof
  <2> HIDE DEF a1, a2
  <2> QED
    BY <2>1, <2>2, <2>3, <2>4
<1>3. /\ ~a1.ok => parse_header(ps, d) = Failed(ps, a1)
      /\ a1.ok /\ a1.v[1].byte = Magic /\ ~a2.ok => parse_header(ps, d) = Failed(ps, a2)
      /\ a1.ok /\ a1.v[1].byte # Magic => parse_header(ps, d) = Failed(ps, Fail)
      /\ b1.ok /\ b1.v[1].byte # Magic => parse_header(ps, e) = Failed(ps, Fail)
      /\ a1.ok /\ a2.ok /\ b1 = a1 /\ b2 = a2 => parse_header(ps, e) = parse_header(ps, d)
  <2>1. parse_header(ps, d) = HeaderFrom(ps, a1, a2) /\ parse_header(ps, e) = HeaderFrom(ps, b1, b2)
    BY HeaderFromIs
  <2> HIDE DEF a1, b1, a2, b2
  <2> QED
    BY <2>1 DEF HeaderFrom
<1> HIDE DEF a1, b1, a2, b2
<1>4. CASE ~a1.ok
  BY <1>2, <1>3, <1>4, FailedIs, SettledOpen
<1>5. CASE a1.ok /\ a1.v[1].byte # Magic
  <2>1. b1 = a1
    BY <1>1, <1>5 DEF Settled
  <2> QED
    BY <1>3, <1>5, <2>1, SettledSame
<1>6. CASE a1.ok /\ a1.v[1].byte = Magic /\ ~a2.ok
  BY <1>2, <1>3, <1>6, FailedIs, SettledOpen
<1>7. CASE a1.ok /\ a2.ok
  <2>1. b1 = a1 /\ b2 = a2
    BY <1>1, <1>7 DEF Settled
  <2> QED
    BY <1>3, <1>7, <2>1, SettledSame
<1> QED
  BY <1>4, <1>5, <1>6, <1>7

LEMMA ParseSectionSettled ==
  ASSUME NEW C, NEW d, NEW e, Cut(d, e, C), NEW ps, NEW ends
  PROVE  Settled(parse_section(ps, d, FALSE), parse_section(ps, e, ends))
<1> DEFINE x == parse_section(ps, d, FALSE)
           y == parse_section(ps, e, ends)
           i == read_u8(d, 0)
           j == read_u8(e, 0)
           m == read_var_u32(d, 1)
           n == read_var_u32(e, 1)
<1>0. d \in Seq(C) /\ e \in Seq(C) /\ (\A c \in C : c.byte \in Nat) /\ Len(d) <= Len(e)
  BY DEF Cut, Starts, IsData
<1>1. Settled(i, j) /\ Settled(m, n)
  BY ByteSettled, NumberSettled DEF Cut
<1>2. m.ok => m.p \in Nat /\ m.v \in Nat
  <2>1. Gives(m, Nat, d, 1, 1)
    BY <1>0, NumberFacts
  <2> QED
    BY <2>1 DEF Gives
<1>3. (~i.ok => i.hint > 0) /\ (i.ok => e # <<>>)
  <2>1. i.ok => 0 < Len(d)
    BY <1>0 DEF read_u8, Read, Eof
  <2>2. ~i.ok => i = Eof(1)
    BY <1>0 DEF read_u8, Read
  <2>3. Len(<<>>) = 0 /\ Len(d) \in Nat /\ Len(e) \in Nat
    BY <1>0
  <2> QED
    BY <1>0, <2>1, <2>2, <2>3 DEF Eof
<1>4. x = IF ~i.ok THEN Failed(ps, i)
          ELSE IF Continues(i.v) THEN Failed(ps, Fail)
          ELSE IF ~m.ok THEN Failed(ps, m)
          ELSE IF m.p + m.v > ps.max_size THEN Failed(ps, Fail)
          ELSE SectionPayload(ps, d, m.p, SectionOf(ps.encoding, i.v), m.v)
  BY DEF parse_section
<1>5. e # <<>> => y = IF ~j.ok THEN Failed(ps, j)
          ELSE IF Continues(j.v) THEN Failed(ps, Fail)
          ELSE IF ~n.ok THEN Failed(ps, n)
          ELSE IF n.p + n.v > ps.max_size THEN Failed(ps, Fail)
          ELSE SectionPayload(ps, e, n.p, SectionOf(ps.encoding, j.v), n.v)
  BY DEF parse_section
<1> HIDE DEF x, y, i, j, m, n
<1>6. CASE ~i.ok
  BY <1>3, <1>4, <1>6, FailedIs, SettledOpen DEF x, y
<1>7. CASE i.ok
  <2>1. j = i /\ e # <<>>
    BY <1>1, <1>3, <1>7 DEF Settled
  <2>2. CASE Continues(i.v)
    <3>1. x = Failed(ps, Fail) /\ y = Failed(ps, Fail)
      BY <1>4, <1>5, <1>7, <2>1, <2>2
    <3> QED
      BY <3>1, SettledSame DEF x, y
  <2>3. CASE ~Continues(i.v) /\ ~m.ok
    <3>1. x = Failed(ps, m) /\ (~n.ok => y = Failed(ps, n))
      BY <1>4, <1>5, <1>7, <2>1, <2>3
    <3>2. ~x.ok /\ x.hint = m.hint /\ (~n.ok => ~y.ok)
      BY <3>1, FailedIs
    <3>3. Settled(x, y)
      BY <1>1, <2>3, <3>2 DEF Settled
    <3> QED
      BY <3>3 DEF x, y
  <2>4. CASE ~Continues(i.v) /\ m.ok
    <3>1. n = m
      BY <1>1, <2>4 DEF Settled
    <3>2. CASE m.p + m.v > ps.max_size
      <4>1. x = Failed(ps, Fail) /\ y = Failed(ps, Fail)
        BY <1>4, <1>5, <1>7, <2>1, <2>4, <3>1, <3>2
      <4> QED
        BY <4>1, SettledSame DEF x, y
    <3>3. CASE ~(m.p + m.v > ps.max_size)
      <4>1. /\ x = SectionPayload(ps, d, m.p, SectionOf(ps.encoding, i.v), m.v)
            /\ y = SectionPayload(ps, e, m.p, SectionOf(ps.encoding, i.v), m.v)
        BY <1>4, <1>5, <1>7, <2>1, <2>4, <3>1, <3>3
      <4>2. m.p \in Nat /\ m.v \in Nat
        BY <1>2, <2>4
      <4>3. Settled(x, y)
        BY <4>1, <4>2, PayloadSettled
      <4> QED
        BY <4>3 DEF x, y
    <3> QED
      BY <3>2, <3>3
  <2> QED
    BY <2>2, <2>3, <2>4
<1> QED
  BY <1>6, <1>7

LEMMA BodySettled ==
  ASSUME NEW C, NEW d, NEW e, Cut(d, e, C), NEW ps
  PROVE  Settled(parse_body(ps, d), parse_body(ps, e))
<1> DEFINE m == read_var_u32(d, 0)
           n == read_var_u32(e, 0)
           r == read_reader(d, 0)
           s == read_reader(e, 0)
           a == Delimited(r, 0, ps.len)
           b == Delimited(s, 0, ps.len)
<1>0. d \in Seq(C) /\ (\A c \in C : c.byte \in Nat)
  BY DEF Cut, Starts, IsData
<1>1. Settled(m, n)
  BY NumberSettled DEF Cut
<1>2. m.ok => m.p \in Nat /\ m.v \in Nat
  <2>1. Gives(m, Nat, d, 0, 1)
    BY <1>0, NumberFacts
  <2> QED
    BY <2>1 DEF Gives
<1>3. /\ ~m.ok => r = m
      /\ ~n.ok => s = n
      /\ m.ok => r = read_bytes(d, m.p, m.v)
      /\ n.ok => s = read_bytes(e, n.p, n.v)
  BY DEF read_reader
<1> HIDE DEF m, n, r, s
<1>4. Settled(r, s)
  <2>1. CASE ~m.ok
    BY <1>1, <1>3, <2>1 DEF Settled
  <2>2. CASE m.ok
    <3>1. n = m
      BY <1>1, <2>2 DEF Settled
    <3>2. Settled(read_bytes(d, m.p, m.v), read_bytes(e, m.p, m.v))
      BY <1>2, <2>2, BytesSettled DEF Cut
    <3> QED
      BY <1>3, <2>2, <3>1, <3>2
  <2> QED
    BY <2>1, <2>2
<1>5. Settled(a, b)
  BY <1>4, DelimitedSettled
<1>6. /\ a.ok /\ b = a => parse_body(ps, e) = parse_body(ps, d)
      /\ ~a.ok => parse_body(ps, d) = Failed(ps, a)
      /\ ~b.ok => parse_body(ps, e) = Failed(ps, b)
  BY DEF parse_body, r, s
<1> HIDE DEF a, b
<1> QED
  BY <1>5, <1>6, FailedIs, SettledPart

LEMMA ReaderSettled ==
  ASSUME NEW C, NEW d, NEW e, Cut(d, e, C), NEW t \in ParserStates, NEW ends
  PROVE  Settled(parse_reader(t, d, FALSE), parse_reader(t, e, ends))
<1>0. t.state \in {"header", "section", "body"} /\ t.remaining \in Nat /\ t.len \in Nat
  BY DEF ParserStates
<1>1. CASE t.state = "header"
  <2>1. parse_reader(t, d, FALSE) = parse_header(t, d) /\ parse_reader(t, e, ends) = parse_header(t, e)
    BY <1>1 DEF parse_reader
  <2> QED
    BY <2>1, HeaderSettled
<1>2. CASE t.state = "section"
  <2>1. /\ parse_reader(t, d, FALSE) = parse_section(t, d, FALSE)
        /\ parse_reader(t, e, ends) = parse_section(t, e, ends)
    BY <1>2 DEF parse_reader
  <2> QED
    BY <2>1, ParseSectionSettled
<1>3. CASE t.state = "body" /\ t.remaining = 0 /\ t.len = 0
  <2> DEFINE u == [t EXCEPT !.state = "section"]
  <2>1. /\ parse_reader(t, d, FALSE) = parse_section(u, d, FALSE)
        /\ parse_reader(t, e, ends) = parse_section(u, e, ends)
    BY <1>3 DEF parse_reader
  <2> HIDE DEF u
  <2> QED
    BY <2>1, ParseSectionSettled
<1>4. CASE t.state = "body" /\ t.remaining = 0 /\ t.len > 0
  <2>1. \A x, y : parse_reader(t, x, y) = Failed(t, Fail)
    <3>1. t.len # 0
      BY <1>0, <1>4
    <3> QED
      BY <1>4, <3>1 DEF parse_reader
  <2> QED
    BY <2>1, SettledSame
<1>5. CASE t.state = "body" /\ t.remaining # 0
  <2>1. parse_reader(t, d, FALSE) = parse_body(t, d)
    BY <1>5 DEF parse_reader
  <2>2. parse_reader(t, e, ends) = parse_body(t, e)
    BY <1>5 DEF parse_reader
  <2> QED
    BY <2>1, <2>2, BodySettled
<1>6. \/ t.state = "header" \/ t.state = "section"
      \/ t.state = "body" /\ t.remaining = 0 /\ t.len = 0
      \/ t.state = "body" /\ t.remaining = 0 /\ t.len > 0
      \/ t.state = "body" /\ t.remaining # 0
  BY <1>0
<1> QED
  BY <1>1, <1>2, <1>3, <1>4, <1>5, <1>6

Sees(t, data) == IF Len(data) > t.max_size THEN SubSeq(data, 1, t.max_size) ELSE data

LEMMA ParseIs ==
  \A t, data, ends :
    LET all == Len(data) > t.max_size \/ ends
    IN  parse(t, data, ends) = Advance(parse_reader(t, Sees(t, data), all), all)
BY DEF parse, Sees

LEMMA AdvanceIs ==
  \A x, ends : /\ x.ok => Advance(x, ends) = Advance(x, TRUE)
               /\ ~x.ok /\ ~ends => Advance(x, ends) = x
BY DEF Advance

\* An error with all the bytes there is final.
LEMMA AdvanceOk == ASSUME NEW x, ~x.ok, {"ok", "hint"} \subseteq DOMAIN x
                   PROVE  ~Advance(x, TRUE).ok /\ ~(Advance(x, TRUE).hint > 0)
BY DEF Advance

LEMMA SameLimit ==
  ASSUME NEW C, NEW d, NEW e, Starts(d, e, C), NEW n \in Int, n < Len(d)
  PROVE  SubSeq(d, 1, n) = SubSeq(e, 1, n)
<1>0. d \in Seq(C) /\ e \in Seq(C) /\ Len(d) \in Nat /\ Len(e) \in Nat /\ Len(d) <= Len(e)
      /\ \A i \in 1..Len(d) : d[i] = e[i]
  BY DEF Starts
<1>1. CASE n >= 0
  <2> DEFINE a == SubSeq(d, 1, n)
             b == SubSeq(e, 1, n)
  <2>1. \A i \in 1..n : i \in 1..Len(d) /\ i \in 1..Len(e) /\ d[i] \in C /\ e[i] \in C
    BY <1>0, <1>1
  <2>2. a \in Seq(C) /\ Len(a) = n /\ \A i \in 1..n : a[i] = d[i]
    BY <1>0, <1>1, <2>1, SubSeqProperties
  <2>3. b \in Seq(C) /\ Len(b) = n /\ \A i \in 1..n : b[i] = e[i]
    BY <1>0, <1>1, <2>1, SubSeqProperties
  <2> HIDE DEF a, b
  <2>4. a = b
    BY <1>0, <2>1, <2>2, <2>3, SeqEqual
  <2> QED
    BY <2>4 DEF a, b
<1>2. CASE n < 0
  <2>1. SubSeq(d, 1, n) = <<>> /\ SubSeq(e, 1, n) = <<>>
    BY <1>2
  <2> QED
    BY <2>1
<1> QED
  BY <1>1, <1>2

LEMMA LimitStarts ==
  ASSUME NEW C, NEW d, NEW e, Starts(d, e, C), NEW n \in Int, ~(n < Len(d)), n < Len(e),
         NEW s, s = SubSeq(e, 1, n)
  PROVE  Starts(d, s, C)
<1>0. d \in Seq(C) /\ e \in Seq(C) /\ Len(d) \in Nat /\ Len(e) \in Nat /\ Len(d) <= Len(e)
      /\ \A i \in 1..Len(d) : d[i] = e[i]
  BY DEF Starts
<1>1. n \in Nat /\ Len(d) <= n
  BY <1>0
<1>2. \A i \in 1..n : e[i] \in C
  BY <1>0, <1>1
<1>3. s \in Seq(C) /\ Len(s) = n /\ \A i \in 1..n : s[i] = e[i]
  BY <1>0, <1>1, <1>2, SubSeqProperties
<1> QED
  BY <1>0, <1>1, <1>3 DEF Starts

\* What parse makes of the bytes that are there is what it makes of all of them,
\* unless it asks for more.
LEMMA ParseSettled ==
  ASSUME NEW C, NEW d, NEW e, Cut(d, e, C), NEW t \in ParserStates
  PROVE  Settled(parse(t, d, FALSE), parse(t, e, TRUE))
<1>0. /\ Starts(d, e, C) /\ IsData(d, C) /\ IsData(e, C) /\ t.max_size \in Int
      /\ Len(d) \in Nat /\ Len(e) \in Nat /\ Len(d) <= Len(e)
  BY DEF Cut, Starts, ParserStates
<1>1. CASE Len(d) > t.max_size
  <2>1. t.max_size < Len(d) /\ Len(e) > t.max_size
    BY <1>0, <1>1
  <2>2. Sees(t, d) = Sees(t, e)
    BY <1>0, <1>1, <2>1, SameLimit DEF Sees
  <2>3. parse(t, d, FALSE) = Advance(parse_reader(t, Sees(t, d), TRUE), TRUE)
    BY <1>1, ParseIs
  <2>4. parse(t, e, TRUE) = Advance(parse_reader(t, Sees(t, e), TRUE), TRUE)
    BY <2>1, ParseIs
  <2>5. parse(t, e, TRUE) = parse(t, d, FALSE)
    BY <2>2, <2>3, <2>4
  <2> QED
    BY <2>5, SettledSame
<1>2. CASE ~(Len(d) > t.max_size)
  <2> DEFINE s == Sees(t, e)
             x == parse_reader(t, d, FALSE)
             y == parse_reader(t, s, TRUE)
  <2>1. Cut(d, s, C)
    <3>1. CASE Len(e) > t.max_size
      <4>1. s = SubSeq(e, 1, t.max_size) /\ ~(t.max_size < Len(d)) /\ t.max_size < Len(e)
        BY <1>0, <1>2, <3>1 DEF Sees
      <4> HIDE DEF s
      <4>2. Starts(d, s, C)
        BY <1>0, <4>1, LimitStarts
      <4> QED
        BY <1>0, <4>2 DEF Cut, Starts, IsData
    <3>2. CASE ~(Len(e) > t.max_size)
      <4>1. s = e
        BY <3>2 DEF Sees
      <4> HIDE DEF s
      <4> QED
        BY <4>1
    <3> QED
      BY <3>1, <3>2
  <2>2. parse(t, d, FALSE) = Advance(x, FALSE)
    <3>1. Sees(t, d) = d
      BY <1>2 DEF Sees
    <3>2. (Len(d) > t.max_size \/ FALSE) = FALSE
      BY <1>2
    <3> QED
      BY <3>1, <3>2, ParseIs
  <2>3. parse(t, e, TRUE) = Advance(y, TRUE)
    <3>1. (Len(e) > t.max_size \/ TRUE) = TRUE
      OBVIOUS
    <3> QED
      BY <3>1, ParseIs
  <2>4. Settled(x, y)
    <3> HIDE DEF s
    <3> QED
      BY <2>1, ReaderSettled
  <2>5. Parses(t, d, x, C) /\ Parses(t, s, y, C)
    <3>1. IsData(s, C)
      BY <2>1 DEF Cut
    <3> HIDE DEF s
    <3> QED
      BY <1>0, <3>1, ReaderParses
  <2>6. /\ {"ok", "ps", "payload", "p", "hint"} \subseteq DOMAIN x
        /\ {"ok", "ps", "payload", "p", "hint"} \subseteq DOMAIN y
    BY <2>5 DEF Parses
  <2> HIDE DEF s, x, y
  <2>7. CASE x.ok
    <3>1. y = x
      BY <2>4, <2>7 DEF Settled
    <3>2. Advance(x, FALSE) = Advance(y, TRUE)
      BY <2>7, <3>1, AdvanceIs
    <3> QED
      BY <2>2, <2>3, <3>2, SettledSame
  <2>8. CASE ~x.ok
    <3>1. parse(t, d, FALSE) = x
      BY <2>2, <2>8, AdvanceIs
    <3>2. ~y.ok => ~parse(t, e, TRUE).ok
      BY <2>3, <2>6, AdvanceOk
    <3> QED
      BY <2>4, <2>8, <3>1, <3>2 DEF Settled
  <2> QED
    BY <2>7, <2>8
<1> QED
  BY <1>1, <1>2

\* A parser that has left a code section that is over goes on as before.
LEMMA ClosedParses ==
  ASSUME NEW t \in ParserStates, NEW u, Closes(t, u), NEW data
  PROVE  parse(u, data, TRUE) = parse(t, data, TRUE)
<1>1. u = [t EXCEPT !.state = "section"]
  BY DEF Closes
<1>2. u.max_size = t.max_size /\ u.state = "section"
  BY <1>1 DEF ParserStates
<1>3. \A s, b : parse_reader(t, s, b) = parse_section(u, s, b)
  BY <1>1 DEF parse_reader, Closes
<1>4. \A s, b : parse_reader(u, s, b) = parse_section(u, s, b)
  BY <1>2 DEF parse_reader
<1>5. Sees(u, data) = Sees(t, data)
  BY <1>2 DEF Sees
<1>6. parse_reader(u, Sees(u, data), TRUE) = parse_reader(t, Sees(t, data), TRUE)
  BY <1>3, <1>4, <1>5
<1>7. /\ (Len(data) > t.max_size \/ TRUE) = TRUE
      /\ (Len(data) > u.max_size \/ TRUE) = TRUE
  OBVIOUS
<1> QED
  BY <1>6, <1>7, ParseIs

\* Every payload but the end takes some of the bytes.
Takes(r, n) == r.ok => r.p \in Nat /\ r.p >= n

LEMMA ParsedTakes == \A next, given, p, n : p \in Nat /\ p >= n => Takes(Parsed(next, given, p), n)
BY DEF Takes, Parsed

LEMMA FailedTakes == \A ps, x, n : Takes(Failed(ps, x), n)
BY DEF Takes, Failed

LEMMA SectionTakes ==
  ASSUME NEW C, NEW data, IsData(data, C), NEW ps, NEW p \in Nat, NEW len \in Nat, NEW kind
  PROVE  /\ Takes(section(ps, data, p, kind, len), p)
         /\ Takes(single_item(ps, data, p, kind, len), p)
         /\ kind = "unknown" => Takes(SectionPayload(ps, data, p, kind, len), p)
<1> DEFINE content == read_bytes(data, p, len)
<1>1. content.ok => content.p \in Nat /\ content.p >= p
  <2>1. Gives(content, Seq(C), data, p, len)
    BY BytesFacts DEF IsData
  <2> HIDE DEF content
  <2> QED
    BY <2>1 DEF Gives
<1>2. /\ \/ \E x : section(ps, data, p, kind, len) = Failed(ps, x)
         \/ \E x : content.ok /\ section(ps, data, p, kind, len) = Parsed(ps, x, content.p)
      /\ \/ \E x : single_item(ps, data, p, kind, len) = Failed(ps, x)
         \/ \E x : content.ok /\ single_item(ps, data, p, kind, len) = Parsed(ps, x, content.p)
  BY DEF section, single_item
<1>3. kind = "unknown" =>
         \/ \E x : SectionPayload(ps, data, p, kind, len) = Failed(ps, x)
         \/ \E x : content.ok /\ SectionPayload(ps, data, p, kind, len) = Parsed(ps, x, content.p)
  BY DEF SectionPayload
<1> HIDE DEF content
<1> QED
  BY <1>1, <1>2, <1>3, ParsedTakes, FailedTakes

LEMMA CodeTakes ==
  ASSUME NEW C, NEW data, IsData(data, C), NEW ps, NEW p \in Nat, NEW len \in Nat
  PROVE  Takes(CodeStart(ps, data, p, len), p)
<1> DEFINE count == Delimited(read_var_u32(data, p), p, len)
<1>1. count.ok => count.p \in Nat /\ count.p >= p
  <2>1. Gives(read_var_u32(data, p), Nat, data, p, 1)
    BY NumberFacts DEF IsData
  <2> DEFINE x == read_var_u32(data, p)
  <2>2. Gives(x, Nat, data, p, 1) /\ count = Delimited(x, p, len) /\ 1 \in Nat
    BY <2>1
  <2> HIDE DEF x, count
  <2>3. Gives(count, Nat, data, p, 1)
    BY <2>2, DelimitedFacts
  <2> QED
    BY <2>3 DEF Gives
<1>2. \/ CodeStart(ps, data, p, len) = Failed(ps, count)
      \/ count.ok /\ \E next, x : CodeStart(ps, data, p, len) = Parsed(next, x, count.p)
  BY DEF CodeStart
<1> HIDE DEF count
<1> QED
  BY <1>1, <1>2, ParsedTakes, FailedTakes

LEMMA PayloadTakes ==
  ASSUME NEW C, NEW data, IsData(data, C), NEW ps, NEW p \in Nat, NEW len \in Nat, NEW kind
  PROVE  Takes(SectionPayload(ps, data, p, kind, len), p)
<1>1. CASE kind = "code"
  <2>1. SectionPayload(ps, data, p, kind, len) = CodeStart(ps, data, p, len)
    BY <1>1 DEF SectionPayload
  <2> QED
    BY <2>1, CodeTakes
<1>2. CASE kind \in {"start", "datacount"}
  <2>1. SectionPayload(ps, data, p, kind, len) = single_item(ps, data, p, kind, len)
    BY <1>2 DEF SectionPayload
  <2> QED
    BY <2>1, SectionTakes
<1>3. CASE kind \in {"module", "component"}
  <2>1. SectionPayload(ps, data, p, kind, len) = Nested(ps, p, kind, len)
    BY <1>3 DEF SectionPayload
  <2>2. \E next, x : SectionPayload(ps, data, p, kind, len) = Parsed(next, x, p)
    BY <2>1 DEF Nested
  <2> QED
    BY <2>2, ParsedTakes
<1>4. CASE kind = "unknown"
  BY <1>4, SectionTakes
<1>5. CASE kind \notin {"code", "start", "datacount", "module", "component", "unknown"}
  <2>1. SectionPayload(ps, data, p, kind, len) = section(ps, data, p, kind, len)
    BY <1>5 DEF SectionPayload
  <2> QED
    BY <2>1, SectionTakes
<1> QED
  BY <1>1, <1>2, <1>3, <1>4, <1>5

Progresses(r) == r.ok => r.p \in Nat /\ (r.p >= 1 \/ r.payload.kind = "end")

LEMMA TakesProgress == ASSUME NEW r, NEW n \in Nat \ {0}, Takes(r, n) PROVE Progresses(r)
BY DEF Takes, Progresses

LEMMA SectionProgress ==
  ASSUME NEW C, NEW data, IsData(data, C), NEW ps, NEW ends
  PROVE  Progresses(parse_section(ps, data, ends))
<1> DEFINE r == parse_section(ps, data, ends)
           id == read_u8(data, 0)
           len == read_var_u32(data, 1)
           z == Parsed(ps, Payload("end", ps.offset, 0, <<>>), 0)
           y == SectionPayload(ps, data, len.p, SectionOf(ps.encoding, id.v), len.v)
<1>1. r = IF ends /\ data = <<>> THEN z
          ELSE IF ~id.ok THEN Failed(ps, id)
          ELSE IF Continues(id.v) THEN Failed(ps, Fail)
          ELSE IF ~len.ok THEN Failed(ps, len)
          ELSE IF len.p + len.v > ps.max_size THEN Failed(ps, Fail)
          ELSE y
  BY DEF parse_section
<1>2. Progresses(z)
  <2>1. z.p = 0 /\ z.payload.kind = "end"
    BY DEF Parsed, Payload
  <2> HIDE DEF z
  <2> QED
    BY <2>1 DEF Progresses
<1>3. len.ok => Progresses(y)
  <2>1. Gives(len, Nat, data, 1, 1)
    BY NumberFacts DEF IsData
  <2>2. len.ok => len.p \in Nat /\ len.p >= 1 /\ len.v \in Nat
    <3> HIDE DEF len
    <3> QED
      BY <2>1 DEF Gives
  <2>3. len.ok => Takes(y, len.p)
    <3> HIDE DEF len
    <3> QED
      BY <2>2, PayloadTakes
  <2> HIDE DEF len, y
  <2> QED
    BY <2>2, <2>3, TakesProgress
<1>4. \A x : Progresses(Failed(ps, x))
  BY DEF Progresses, Failed
<1> HIDE DEF r, id, len, z, y
<1>5. Progresses(r)
  BY <1>1, <1>2, <1>3, <1>4
<1> QED
  BY <1>5 DEF r

LEMMA BodyProgress ==
  ASSUME NEW C, NEW data, IsData(data, C), NEW ps, ps.len \in Nat
  PROVE  Progresses(parse_body(ps, data))
<1> DEFINE len == read_var_u32(data, 0)
           read == read_reader(data, 0)
           body == Delimited(read, 0, ps.len)
<1>1. read.ok => read.p \in Nat /\ read.p >= 1
  <2>1. Gives(len, Nat, data, 0, 1)
    BY NumberFacts DEF IsData
  <2>2. len.ok => len.p \in Nat /\ len.p >= 1 /\ len.v \in Nat
    <3> HIDE DEF len
    <3> QED
      BY <2>1 DEF Gives
  <2> HIDE DEF len
  <2>3. read = IF ~len.ok THEN len ELSE read_bytes(data, len.p, len.v)
    BY DEF read_reader, len
  <2> HIDE DEF read
  <2>4. CASE len.ok
    <3>1. Gives(read, Seq(C), data, len.p, len.v)
      BY <2>2, <2>3, <2>4, BytesFacts DEF IsData
    <3> QED
      BY <2>2, <2>4, <3>1 DEF Gives
  <2>5. CASE ~len.ok
    BY <2>3, <2>5
  <2> QED
    BY <2>4, <2>5
<1>2. body.ok => body = read
  <2> HIDE DEF read
  <2> QED
    BY DEF Delimited, Fail
<1>3. \/ parse_body(ps, data) = Failed(ps, body)
      \/ body.ok /\ \E next, x : parse_body(ps, data) = Parsed(next, x, body.p)
  BY DEF parse_body
<1> HIDE DEF read, body
<1>4. Takes(parse_body(ps, data), 1)
  BY <1>1, <1>2, <1>3, ParsedTakes, FailedTakes
<1> QED
  BY <1>4, TakesProgress

LEMMA ReaderProgress ==
  ASSUME NEW C, NEW data, IsData(data, C), NEW t \in ParserStates, NEW ends \in BOOLEAN
  PROVE  Progresses(parse_reader(t, data, ends))
<1>0. t.len \in Nat
  BY DEF ParserStates
<1>1. CASE parse_reader(t, data, ends) = parse_header(t, data)
  <2>1. parse_header(t, data).ok => parse_header(t, data).p = 2
    BY ParseHeaderResult
  <2> QED
    BY <1>1, <2>1 DEF Progresses
<1>2. CASE \E u : parse_reader(t, data, ends) = parse_section(u, data, ends)
  BY <1>2, SectionProgress
<1>3. CASE parse_reader(t, data, ends) = parse_body(t, data)
  BY <1>0, <1>3, BodyProgress
<1>4. CASE parse_reader(t, data, ends) = Failed(t, Fail)
  BY <1>4 DEF Progresses, Failed
<1>5. \/ parse_reader(t, data, ends) = parse_header(t, data)
      \/ \E u : parse_reader(t, data, ends) = parse_section(u, data, ends)
      \/ parse_reader(t, data, ends) = parse_body(t, data)
      \/ parse_reader(t, data, ends) = Failed(t, Fail)
  BY DEF parse_reader
<1> QED
  BY <1>1, <1>2, <1>3, <1>4, <1>5

LEMMA SeesData ==
  ASSUME NEW C, NEW e, IsData(e, C), NEW t \in ParserStates
  PROVE  IsData(Sees(t, e), C)
<1>0. e \in Seq(C) /\ t.max_size \in Int /\ Len(e) \in Nat /\ \A c \in C : c.byte \in Nat
  BY DEF IsData, ParserStates
<1>1. CASE Len(e) > t.max_size
  <2> DEFINE s == SubSeq(e, 1, t.max_size)
  <2>1. Sees(t, e) = s /\ t.max_size < Len(e)
    BY <1>0, <1>1 DEF Sees
  <2>2. s \in Seq(C)
    <3>1. s = SubSeq(e, 1, t.max_size)
      OBVIOUS
    <3> HIDE DEF s
    <3> QED
      BY <1>0, <2>1, <3>1, LimitIs
  <2> HIDE DEF s
  <2> QED
    BY <1>0, <2>1, <2>2 DEF IsData
<1>2. CASE ~(Len(e) > t.max_size)
  BY <1>2 DEF Sees
<1> QED
  BY <1>1, <1>2

LEMMA ParseProgress ==
  ASSUME NEW C, NEW data, IsData(data, C), NEW t \in ParserStates, NEW ends \in BOOLEAN
  PROVE  Progresses(parse(t, data, ends))
<1> DEFINE all == Len(data) > t.max_size \/ ends
           x == parse_reader(t, Sees(t, data), all)
           r == parse(t, data, ends)
<1>0. all \in BOOLEAN
  OBVIOUS
<1>1. IsData(Sees(t, data), C)
  BY SeesData
<1>2. r = Advance(x, all)
  BY ParseIs
<1> HIDE DEF all
<1>3. Parses(t, Sees(t, data), x, C) /\ Progresses(x)
  BY <1>0, <1>1, ReaderParses, ReaderProgress
<1> HIDE DEF x, r
<1>4. r.p = x.p /\ r.payload = x.payload /\ r.ok = x.ok
  BY <1>0, <1>2, <1>3, AdvanceParses
<1>5. Progresses(r)
  BY <1>3, <1>4 DEF Progresses
<1> QED
  BY <1>5 DEF r

\* A function that goes down along a measure to where its value is known.
Before(given, rest) == [rest EXCEPT !.payloads = <<given>> \o @]

Link(x, T, B, P, N, g) == IF x \in T THEN B[x] ELSE Before(P[x], g[N[x]])

Chain(f, X, T, B, P, N) == f = [x \in X |-> Link(x, T, B, P, N, f)]

Descends(X, T, N, M) ==
  /\ \A x \in X : M[x] \in Nat
  /\ \A x \in X \ T : N[x] \in X /\ M[N[x]] < M[x]

Upto(X, M, n) == {x \in X : M[x] <= n}

LEMMA UptoIs == \A X, M, n, x : x \in Upto(X, M, n) <=> x \in X /\ M[x] <= n
BY DEF Upto

LEMMA LinkIs ==
  ASSUME NEW x, NEW T, NEW B, NEW P, NEW N, NEW g, NEW h, x \notin T => g[N[x]] = h[N[x]]
  PROVE  Link(x, T, B, P, N, g) = Link(x, T, B, P, N, h)
BY DEF Link

LEMMA ChainUpto ==
  ASSUME NEW X, NEW T, NEW B, NEW P, NEW N, NEW M, Descends(X, T, N, M), NEW n \in Nat
  PROVE  \E g : Chain(g, Upto(X, M, n), T, B, P, N)
<1> DEFINE Is(g, m) == Chain(g, Upto(X, M, m), T, B, P, N)
           Bad == {m \in 0..n : ~ \E g : Is(g, m)}
<1>0. /\ \A x \in X : M[x] \in Nat
      /\ \A x \in X \ T : N[x] \in X /\ M[N[x]] < M[x]
  BY DEF Descends
<1>1. 0 \notin Bad
  <2> DEFINE g == [x \in Upto(X, M, 0) |-> B[x]]
  <2>1. ASSUME NEW x \in Upto(X, M, 0) PROVE x \in T
    <3>1. x \in X /\ M[x] <= 0 /\ M[x] \in Nat
      BY <1>0, UptoIs
    <3>2. x \notin T => M[N[x]] \in Nat /\ M[N[x]] < M[x]
      BY <1>0, <3>1
    <3> QED
      BY <3>1, <3>2
  <2>2. \A x \in Upto(X, M, 0) : Link(x, T, B, P, N, g) = B[x]
    BY <2>1 DEF Link
  <2>3. Is(g, 0)
    BY <2>2 DEF Chain
  <2> HIDE DEF Is
  <2> QED
    BY <2>3
<1>2. ASSUME NEW m \in 1..n, m - 1 \notin Bad PROVE m \notin Bad
  <2>1. m \in Nat /\ m - 1 \in 0..n
    OBVIOUS
  <2>2. PICK g : Is(g, m - 1)
    <3> HIDE DEF Is
    <3> QED
      BY <1>2, <2>1
  <2> DEFINE h == [x \in Upto(X, M, m) |-> Link(x, T, B, P, N, g)]
  <2>3. g = [x \in Upto(X, M, m - 1) |-> Link(x, T, B, P, N, g)]
    BY <2>2 DEF Chain
  <2>4. ASSUME NEW x \in Upto(X, M, m - 1) PROVE h[x] = g[x]
    <3>1. x \in Upto(X, M, m)
      <4>1. x \in X /\ M[x] <= m - 1 /\ M[x] \in Nat
        BY <1>0, UptoIs
      <4>2. M[x] <= m
        BY <2>1, <4>1
      <4> QED
        BY <4>1, <4>2, UptoIs
    <3>2. h[x] = Link(x, T, B, P, N, g)
      BY <3>1
    <3> QED
      BY <2>3, <3>2
  <2>5. ASSUME NEW x \in Upto(X, M, m)
        PROVE  Link(x, T, B, P, N, g) = Link(x, T, B, P, N, h)
    <3>1. x \in X /\ M[x] <= m /\ M[x] \in Nat
      BY <1>0, UptoIs
    <3>2. CASE x \in T
      BY <3>2, LinkIs
    <3>3. CASE x \notin T
      <4>1. N[x] \in X /\ M[N[x]] < M[x] /\ M[N[x]] \in Nat
        BY <1>0, <3>1, <3>3
      <4>2. M[N[x]] <= m - 1
        BY <2>1, <3>1, <4>1
      <4>3. N[x] \in Upto(X, M, m - 1)
        BY <4>1, <4>2, UptoIs
      <4>4. g[N[x]] = h[N[x]]
        BY <2>4, <4>3
      <4> HIDE DEF h
      <4> QED
        BY <4>4, LinkIs
    <3> QED
      BY <3>2, <3>3
  <2>6. h = [x \in Upto(X, M, m) |-> Link(x, T, B, P, N, h)]
    BY <2>5
  <2> HIDE DEF h
  <2>7. Is(h, m)
    BY <2>6 DEF Chain
  <2> HIDE DEF Is
  <2> QED
    BY <2>7
<1>3. Bad = {}
  <2>1. Bad \subseteq 0..n
    OBVIOUS
  <2> HIDE DEF Bad
  <2> QED
    BY <1>1, <1>2, <2>1, Upwards
<1>4. n \in 0..n
  OBVIOUS
<1> HIDE DEF Is
<1>5. \E g : Is(g, n)
  BY <1>3, <1>4
<1> QED
  BY <1>5 DEF Is

LEMMA ChainsAgree ==
  ASSUME NEW X, NEW T, NEW B, NEW P, NEW N, NEW M, Descends(X, T, N, M),
         NEW n \in Nat, NEW m \in Nat, NEW g, NEW h,
         Chain(g, Upto(X, M, n), T, B, P, N), Chain(h, Upto(X, M, m), T, B, P, N),
         NEW x \in Upto(X, M, n), x \in Upto(X, M, m)
  PROVE  g[x] = h[x]
<1> DEFINE Both == Upto(X, M, n) \cap Upto(X, M, m)
           Bad == {y \in Both : g[y] # h[y]}
           Sizes == {M[y] : y \in Bad}
<1>0. /\ \A y \in X : M[y] \in Nat
      /\ \A y \in X \ T : N[y] \in X /\ M[N[y]] < M[y]
  BY DEF Descends
<1>1. \A y \in Both : y \in X /\ M[y] <= n /\ M[y] <= m /\ M[y] \in Nat
  BY <1>0, UptoIs
<1>2. Bad = {}
  <2>1. SUFFICES ASSUME Bad # {} PROVE FALSE
    OBVIOUS
  <2>2. Sizes \subseteq Nat /\ Sizes # {}
    BY <1>1, <2>1
  <2>3. PICK least \in Sizes : \A k \in Sizes : least <= k
    <3> HIDE DEF Sizes
    <3> QED
      BY <2>2, LeastNumber
  <2>4. PICK y \in Bad : M[y] = least
    BY <2>3
  <2>5. y \in Both /\ g[y] # h[y] /\ y \in X /\ M[y] <= n /\ M[y] <= m /\ M[y] \in Nat
    BY <1>1, <2>4
  <2>6. g[y] = Link(y, T, B, P, N, g) /\ h[y] = Link(y, T, B, P, N, h)
    BY <2>5 DEF Chain
  <2>7. y \notin T => g[N[y]] = h[N[y]]
    <3>1. ASSUME y \notin T, g[N[y]] # h[N[y]] PROVE FALSE
      <4>1. N[y] \in X /\ M[N[y]] < M[y] /\ M[N[y]] \in Nat
        BY <1>0, <2>5, <3>1
      <4>2. M[N[y]] <= n /\ M[N[y]] <= m
        BY <2>5, <4>1
      <4>3. N[y] \in Both
        BY <4>1, <4>2, UptoIs
      <4>4. N[y] \in Bad
        BY <3>1, <4>3
      <4>5. M[N[y]] \in Sizes
        BY <4>4
      <4>6. least <= M[N[y]] /\ least = M[y]
        BY <2>3, <2>4, <4>5
      <4> QED
        BY <2>5, <4>1, <4>6
    <3> QED
      BY <3>1
  <2>8. g[y] = h[y]
    BY <2>6, <2>7, LinkIs
  <2> QED
    BY <2>5, <2>8
<1> QED
  BY <1>2

LEMMA ChainExists ==
  ASSUME NEW X, NEW T, NEW B, NEW P, NEW N, NEW M, Descends(X, T, N, M)
  PROVE  \E f : Chain(f, X, T, B, P, N)
<1> DEFINE Is(g, n) == Chain(g, Upto(X, M, n), T, B, P, N)
           G(n) == CHOOSE g : Is(g, n)
           f == [x \in X |-> G(M[x])[x]]
<1>0. /\ \A x \in X : M[x] \in Nat
      /\ \A x \in X \ T : N[x] \in X /\ M[N[x]] < M[x]
  BY DEF Descends
<1>1. ASSUME NEW n \in Nat PROVE Is(G(n), n)
  <2>1. \E g : Is(g, n)
    BY ChainUpto
  <2> HIDE DEF Is
  <2> QED
    BY <2>1
<1>2. ASSUME NEW n \in Nat, NEW m \in Nat, NEW x \in X, M[x] <= n, M[x] <= m
      PROVE  G(n)[x] = G(m)[x]
  <2>1. x \in Upto(X, M, n) /\ x \in Upto(X, M, m)
    BY <1>2, UptoIs
  <2>2. Is(G(n), n) /\ Is(G(m), m)
    BY <1>1
  <2> HIDE DEF G
  <2> QED
    BY <2>1, <2>2, ChainsAgree
<1>3. ASSUME NEW n \in Nat, NEW x \in X, M[x] <= n
      PROVE  G(n)[x] = Link(x, T, B, P, N, G(n))
  <2>1. x \in Upto(X, M, n) /\ Is(G(n), n)
    BY <1>1, <1>3, UptoIs
  <2> HIDE DEF G
  <2> QED
    BY <2>1 DEF Chain
<1> HIDE DEF G, Is
<1>4. ASSUME NEW x \in X PROVE f[x] = Link(x, T, B, P, N, f)
  <2>1. M[x] \in Nat /\ M[x] <= M[x]
    BY <1>0
  <2>2. f[x] = Link(x, T, B, P, N, G(M[x]))
    BY <1>3, <2>1
  <2>3. ASSUME x \notin T PROVE G(M[x])[N[x]] = f[N[x]]
    <3>1. N[x] \in X /\ M[N[x]] < M[x] /\ M[N[x]] \in Nat
      BY <1>0, <2>3
    <3>2. M[N[x]] <= M[x] /\ M[N[x]] <= M[N[x]]
      BY <2>1, <3>1
    <3>3. G(M[x])[N[x]] = G(M[N[x]])[N[x]]
      BY <1>2, <2>1, <3>1, <3>2
    <3> QED
      BY <3>1, <3>3
  <2> DEFINE g == G(M[x])
  <2>4. x \notin T => g[N[x]] = f[N[x]]
    BY <2>3
  <2>5. f[x] = Link(x, T, B, P, N, g)
    BY <2>2
  <2> HIDE DEF f, g
  <2> QED
    BY <2>4, <2>5, LinkIs
<1>5. f = [x \in X |-> f[x]]
  OBVIOUS
<1> HIDE DEF f
<1>6. Chain(f, X, T, B, P, N)
  BY <1>4, <1>5 DEF Chain
<1> QED
  BY <1>6

-----------------------------------------------------------------------------
(* parse_all: every payload takes bytes or a parser away.                  *)

States(cells) == (0..Len(cells)) \X Seq(ParserStates)

At(cells, at) == parse(Last(at[2]), SubSeq(cells, at[1] + 1, Len(cells)), TRUE)

Over(cells) == {at \in States(cells) : at[2] = <<>> \/ ~At(cells, at).ok}

Ending(cells) == [at \in States(cells) |-> [payloads |-> <<>>, ok |-> at[2] = <<>>]]

Heads(cells) == [at \in States(cells) |-> At(cells, at).payload]

Nexts(cells) ==
  [at \in States(cells) |-> <<at[1] + At(cells, at).p, After(at[2], At(cells, at))>>]

Size(cells) == [at \in States(cells) |-> 2 * (Len(cells) - at[1]) + Len(at[2])]

IsPlan(f, cells) ==
  Chain(f, States(cells), Over(cells), Ending(cells), Heads(cells), Nexts(cells))

AllOf(cells, at, f) ==
  LET p == at[1]
      ps == at[2]
      Yield(r) == IF ~r.ok THEN [payloads |-> <<>>, ok |-> FALSE]
                  ELSE [f[<<p + r.p, After(ps, r)>>] EXCEPT !.payloads = <<r.payload>> \o @]
  IN  IF ps = <<>> THEN [payloads |-> <<>>, ok |-> TRUE]
      ELSE Yield(parse(Last(ps), SubSeq(cells, p + 1, Len(cells)), TRUE))

LEMMA AllOfIsLink ==
  ASSUME NEW cells, NEW at \in States(cells), NEW f
  PROVE  AllOf(cells, at, f)
           = Link(at, Over(cells), Ending(cells), Heads(cells), Nexts(cells), f)
<1> DEFINE r == At(cells, at)
           next == <<at[1] + r.p, After(at[2], r)>>
<1>1. AllOf(cells, at, f) = IF at[2] = <<>> THEN [payloads |-> <<>>, ok |-> TRUE]
                            ELSE IF ~r.ok THEN [payloads |-> <<>>, ok |-> FALSE]
                            ELSE Before(r.payload, f[next])
  BY DEF AllOf, At, Before
<1>2. Heads(cells)[at] = r.payload /\ Nexts(cells)[at] = next
  BY DEF Heads, Nexts
<1>3. /\ at[2] = <<>> => Ending(cells)[at] = [payloads |-> <<>>, ok |-> TRUE]
      /\ at[2] # <<>> => Ending(cells)[at] = [payloads |-> <<>>, ok |-> FALSE]
  BY DEF Ending
<1>4. at \in Over(cells) <=> at[2] = <<>> \/ ~r.ok
  BY DEF Over
<1> HIDE DEF r, next
<1> QED
  BY <1>1, <1>2, <1>3, <1>4 DEF Link

LEMMA PlanIs ==
  ASSUME NEW cells, \E f : IsPlan(f, cells)
  PROVE  \E f : IsPlan(f, cells) /\ parse_all(cells) = f[<<0, <<new_parser(0, MaxSize)>>>>]
<1> DEFINE Is(f) == f = [at \in States(cells) |-> AllOf(cells, at, f)]
           first == <<0, <<new_parser(0, MaxSize)>>>>
<1>1. \A f : Is(f) <=> IsPlan(f, cells)
  <2>1. SUFFICES ASSUME NEW f PROVE Is(f) <=> IsPlan(f, cells)
    OBVIOUS
  <2>2. [at \in States(cells) |-> AllOf(cells, at, f)]
          = [at \in States(cells) |->
               Link(at, Over(cells), Ending(cells), Heads(cells), Nexts(cells), f)]
    BY AllOfIsLink
  <2> QED
    BY <2>2 DEF IsPlan, Chain
<1>2. parse_all(cells) = (CHOOSE f : Is(f))[first]
  BY DEF parse_all, AllOf, States
<1> HIDE DEF Is, first
<1>3. IsPlan(CHOOSE f : Is(f), cells)
  BY <1>1
<1> QED
  BY <1>2, <1>3 DEF first

LEMMA AfterIs ==
  ASSUME NEW ps \in Seq(ParserStates), ps # <<>>, NEW r, r.ps \in ParserStates,
         r.payload.start \in Nat, r.payload.len \in Nat, NEW s, s = After(ps, r)
  PROVE  /\ s \in Seq(ParserStates) /\ Len(s) \in Nat /\ Len(s) <= Len(ps) + 1
         /\ r.payload.kind = "end" => Len(s) = Len(ps) - 1
<1> DEFINE f == Front(ps)
           z == new_parser(r.payload.start, r.payload.len)
           o == Append(f, r.ps)
<1>1. f \in Seq(ParserStates) /\ Len(f) = Len(ps) - 1 /\ Len(ps) \in Nat \ {0}
  BY FrontIs
<1>2. z \in ParserStates
  BY ParserIsNew
<1>3. s = CASE r.payload.kind \in {"module", "component"} -> Append(o, z)
            [] r.payload.kind = "end" -> f
            [] OTHER -> o
  BY DEF After
<1> HIDE DEF f, z
<1>4. o \in Seq(ParserStates) /\ Len(o) = Len(ps)
  BY <1>1
<1> HIDE DEF o
<1>5. CASE r.payload.kind = "end"
  <2>1. s = f
    BY <1>3, <1>5
  <2> QED
    BY <1>1, <2>1
<1>6. CASE r.payload.kind # "end"
  <2>1. s = o \/ s = Append(o, z)
    BY <1>3, <1>6
  <2>2. CASE s = o
    BY <1>1, <1>4, <1>6, <2>2
  <2>3. CASE s = Append(o, z)
    <3>1. s \in Seq(ParserStates) /\ Len(s) = Len(o) + 1
      BY <1>2, <1>4, <2>3
    <3> QED
      BY <1>1, <1>4, <1>6, <3>1
  <2> QED
    BY <2>1, <2>2, <2>3
<1> QED
  BY <1>5, <1>6

LEMMA PlanDescends ==
  ASSUME NEW C, NEW cells, IsData(cells, C)
  PROVE  Descends(States(cells), Over(cells), Nexts(cells), Size(cells))
<1> DEFINE n == Len(cells)
<1>0. n \in Nat /\ cells \in Seq(C)
  BY DEF IsData
<1>1. ASSUME NEW at \in States(cells) PROVE Size(cells)[at] \in Nat
  <2>1. at[1] \in 0..n /\ at[2] \in Seq(ParserStates)
    BY DEF States
  <2>2. Len(at[2]) \in Nat
    BY <2>1, LenProperties
  <2>3. Size(cells)[at] = 2 * (n - at[1]) + Len(at[2])
    BY DEF Size
  <2> QED
    BY <1>0, <2>1, <2>2, <2>3
<1>2. ASSUME NEW at \in States(cells) \ Over(cells)
      PROVE  /\ Nexts(cells)[at] \in States(cells)
             /\ Size(cells)[Nexts(cells)[at]] < Size(cells)[at]
  <2> DEFINE p == at[1]
             ps == at[2]
             data == SubSeq(cells, p + 1, n)
             r == At(cells, at)
             s == After(ps, r)
  <2>1. p \in 0..n /\ ps \in Seq(ParserStates) /\ ps # <<>> /\ r.ok /\ at \in States(cells)
    BY DEF States, Over
  <2>2. Last(ps) \in ParserStates /\ Len(ps) \in Nat \ {0}
    <3> HIDE DEF ps
    <3>1. Len(ps) \in Nat \ {0}
      BY <2>1, EmptySeq, LenProperties
    <3>2. ps[Len(ps)] \in ParserStates
      BY <2>1, <3>1
    <3> QED
      BY <3>1, <3>2 DEF Last
  <2>3. IsData(data, C) /\ Len(data) = n - p
    <3>1. n \in 0..Len(cells) /\ p \in 0..n
      BY <1>0, <2>1
    <3>2. data = SubSeq(cells, p + 1, n)
      OBVIOUS
    <3> HIDE DEF p, data, n
    <3>3. data \in Seq(C) /\ Len(data) = n - p
      BY <1>0, <3>1, <3>2, ThereIs
    <3> QED
      BY <3>3 DEF IsData
  <2>4. r = parse(Last(ps), data, TRUE)
    BY DEF At
  <2> HIDE DEF p, ps, data, r, s
  <2>5. Parses(Last(ps), data, r, C)
    BY <2>2, <2>3, <2>4, ParseParses
  <2>6. Progresses(r)
    BY <2>2, <2>3, <2>4, ParseProgress
  <2>7. PICK k : IsHanded(r.ps, r.payload, k, r.p, data, C)
    BY <2>1, <2>5 DEF Parses
  <2>8. r.ps \in ParserStates /\ r.payload.start \in Nat /\ r.payload.len \in Nat
        /\ r.p \in 0..(n - p)
    BY <2>3, <2>7 DEF IsHanded
  <2>9. /\ s \in Seq(ParserStates) /\ Len(s) \in Nat /\ Len(s) <= Len(ps) + 1
        /\ r.payload.kind = "end" => Len(s) = Len(ps) - 1
    BY <2>1, <2>8, AfterIs DEF s
  <2>10. p + r.p \in 0..n
    BY <1>0, <2>1, <2>8
  <2>11. Nexts(cells)[at] = <<p + r.p, s>>
    BY <2>1 DEF Nexts, p, ps, r, s
  <2>12. <<p + r.p, s>> \in States(cells)
    BY <2>9, <2>10 DEF States
  <2>13. /\ Size(cells)[<<p + r.p, s>>] = 2 * (n - (p + r.p)) + Len(s)
         /\ Size(cells)[at] = 2 * (n - p) + Len(ps)
    BY <2>1, <2>12 DEF Size, p, ps
  <2>14. 2 * (n - (p + r.p)) + Len(s) < 2 * (n - p) + Len(ps)
    <3>1. r.p >= 1 \/ r.payload.kind = "end"
      BY <2>1, <2>6 DEF Progresses
    <3>2. p \in Nat /\ r.p \in Nat /\ Len(s) \in Nat /\ Len(ps) \in Nat /\ Len(s) <= Len(ps) + 1
          /\ (r.p >= 1 \/ Len(s) = Len(ps) - 1)
      BY <1>0, <2>1, <2>2, <2>8, <2>9, <3>1
    <3> HIDE DEF n
    <3> QED
      BY <1>0, <3>2
  <2> QED
    BY <2>11, <2>12, <2>13, <2>14
<1> QED
  BY <1>1, <1>2 DEF Descends

\* What is left of a plan is a sequence of payloads.
Payloads(cells) == {At(cells, at).payload : at \in States(cells)}

PlansOf(V) == [payloads : Seq(V), ok : BOOLEAN]

Nothing(b) == [payloads |-> <<>>, ok |-> b]

Begins(q, given, rest) ==
  /\ q.ok = rest.ok
  /\ Len(rest.payloads) \in Nat /\ Len(q.payloads) = Len(rest.payloads) + 1
  /\ q.payloads[1] = given
  /\ \A k \in 1..Len(rest.payloads) : q.payloads[k + 1] = rest.payloads[k]

LEMMA BeforeIs ==
  ASSUME NEW V, NEW given \in V, NEW rest \in PlansOf(V), NEW q, q = Before(given, rest)
  PROVE  q \in PlansOf(V) /\ Begins(q, given, rest)
<1> DEFINE a == <<given>>
           b == rest.payloads
           c == a \o b
<1>1. a \in Seq(V) /\ Len(a) = 1 /\ a[1] = given
  OBVIOUS
<1>2. b \in Seq(V) /\ Len(b) \in Nat
  BY DEF PlansOf
<1>3. q = [rest EXCEPT !.payloads = c]
  BY DEF Before
<1> HIDE DEF a, b
<1>4. /\ c \in Seq(V) /\ Len(c) = Len(b) + 1 /\ c[1] = given
      /\ \A k \in 1..Len(b) : c[k + 1] = b[k]
  <2>1. c \in Seq(V) /\ Len(c) = Len(a) + Len(b)
        /\ \A i \in 1..(Len(a) + Len(b)) : c[i] = IF i <= Len(a) THEN a[i] ELSE b[i - Len(a)]
    BY <1>1, <1>2, ConcatProperties
  <2> HIDE DEF c
  <2>2. 1 \in 1..(Len(a) + Len(b)) /\ 1 <= Len(a)
    BY <1>1, <1>2
  <2>3. c[1] = given
    BY <1>1, <2>1, <2>2
  <2>4. ASSUME NEW k \in 1..Len(b) PROVE c[k + 1] = b[k]
    <3>1. k + 1 \in 1..(Len(a) + Len(b)) /\ ~(k + 1 <= Len(a)) /\ (k + 1) - Len(a) = k
      BY <1>1, <1>2
    <3> QED
      BY <2>1, <3>1
  <2> QED
    BY <1>1, <1>2, <2>1, <2>3, <2>4
<1> HIDE DEF c
<1>5. q \in PlansOf(V) /\ q.ok = rest.ok /\ q.payloads = c
  BY <1>3, <1>4 DEF PlansOf
<1> QED
  BY <1>2, <1>4, <1>5 DEF Begins, b

Unfolds(cells, f, at) ==
  /\ at \in Over(cells) /\ at[2] = <<>> => f[at] = Nothing(TRUE)
  /\ at \in Over(cells) /\ at[2] # <<>> => f[at] = Nothing(FALSE)
  /\ at \notin Over(cells) =>
       /\ Nexts(cells)[at] \in States(cells)
       /\ f[at] = Before(At(cells, at).payload, f[Nexts(cells)[at]])

LEMMA PlanStep ==
  ASSUME NEW C, NEW cells, IsData(cells, C), NEW f, IsPlan(f, cells), NEW at \in States(cells)
  PROVE  Unfolds(cells, f, at)
<1>1. f[at] = Link(at, Over(cells), Ending(cells), Heads(cells), Nexts(cells), f)
  BY DEF IsPlan, Chain
<1>2. at \notin Over(cells) => Nexts(cells)[at] \in States(cells)
  BY PlanDescends DEF Descends
<1>3. /\ at[2] = <<>> => Ending(cells)[at] = Nothing(TRUE)
      /\ at[2] # <<>> => Ending(cells)[at] = Nothing(FALSE)
  BY DEF Ending, Nothing
<1>4. Heads(cells)[at] = At(cells, at).payload
  BY DEF Heads
<1> QED
  BY <1>1, <1>2, <1>3, <1>4 DEF Link, Unfolds

LEMMA PlanIsSequence ==
  ASSUME NEW C, NEW cells, IsData(cells, C), NEW f, IsPlan(f, cells), NEW at \in States(cells)
  PROVE  f[at] \in PlansOf(Payloads(cells))
<1> DEFINE M == Size(cells)
           N == Nexts(cells)
           Bad == {x \in States(cells) : f[x] \notin PlansOf(Payloads(cells))}
           Sizes == {M[x] : x \in Bad}
<1>1. /\ \A x \in States(cells) : M[x] \in Nat
      /\ \A x \in States(cells) \ Over(cells) : N[x] \in States(cells) /\ M[N[x]] < M[x]
  BY PlanDescends DEF Descends
<1> HIDE DEF M, N
<1>2. Bad = {}
  <2>1. SUFFICES ASSUME Bad # {} PROVE FALSE
    OBVIOUS
  <2>2. Sizes \subseteq Nat /\ Sizes # {}
    BY <1>1, <2>1
  <2>3. PICK least \in Sizes : \A k \in Sizes : least <= k
    <3> HIDE DEF Sizes
    <3> QED
      BY <2>2, LeastNumber
  <2>4. PICK x \in Bad : M[x] = least
    BY <2>3
  <2>5. x \in States(cells) /\ f[x] \notin PlansOf(Payloads(cells)) /\ M[x] \in Nat
    BY <1>1, <2>4
  <2>6. CASE x \in Over(cells)
    <3>1. f[x] = Nothing(TRUE) \/ f[x] = Nothing(FALSE)
      BY <2>5, <2>6, PlanStep DEF Unfolds
    <3>2. Nothing(TRUE) \in PlansOf(Payloads(cells)) /\ Nothing(FALSE) \in PlansOf(Payloads(cells))
      BY DEF Nothing, PlansOf
    <3> QED
      BY <2>5, <3>1, <3>2
  <2>7. CASE x \notin Over(cells)
    <3>1. f[x] = Before(At(cells, x).payload, f[N[x]])
      <4>1. f[x] = Before(At(cells, x).payload, f[Nexts(cells)[x]])
        BY <2>5, <2>7, PlanStep DEF Unfolds
      <4> QED
        BY <4>1 DEF N
    <3>2. N[x] \in States(cells) /\ M[N[x]] < M[x] /\ M[N[x]] \in Nat
      BY <1>1, <2>5, <2>7
    <3>3. N[x] \notin Bad
      <4>1. SUFFICES ASSUME N[x] \in Bad PROVE FALSE
        OBVIOUS
      <4>2. M[N[x]] \in Sizes
        BY <4>1
      <4>3. M[x] <= M[N[x]]
        BY <2>3, <2>4, <4>2
      <4> QED
        BY <2>5, <3>2, <4>3
    <3>4. f[N[x]] \in PlansOf(Payloads(cells))
      BY <3>2, <3>3
    <3>5. At(cells, x).payload \in Payloads(cells)
      BY <2>5 DEF Payloads
    <3> DEFINE given == At(cells, x).payload
               rest == f[N[x]]
    <3>6. f[x] = Before(given, rest)
      BY <3>1
    <3> HIDE DEF given, rest
    <3>7. f[x] \in PlansOf(Payloads(cells))
      BY <3>4, <3>5, <3>6, BeforeIs DEF given, rest
    <3> QED
      BY <2>5, <3>7
  <2> QED
    BY <2>6, <2>7
<1> QED
  BY <1>2

-----------------------------------------------------------------------------
(* The loop that reads in chunks follows parse_all.                        *)

LEMMA CutIs ==
  ASSUME NEW C, NEW cells, IsData(cells, C), NEW n \in 0..Len(cells), NEW p \in 0..n,
         NEW d, d = SubSeq(cells, p + 1, n), NEW e, e = SubSeq(cells, p + 1, Len(cells))
  PROVE  Cut(d, e, C)
<1>0. cells \in Seq(C) /\ Len(cells) \in Nat /\ \A c \in C : c.byte \in Nat
  BY DEF IsData
<1>1. n \in Nat /\ p \in Nat /\ p <= n /\ n <= Len(cells) /\ p \in 0..Len(cells)
      /\ Len(cells) \in 0..Len(cells)
  BY <1>0
<1>2. d \in Seq(C) /\ Len(d) = n - p /\ e \in Seq(C) /\ Len(e) = Len(cells) - p
  BY <1>0, <1>1, ThereIs
<1>3. \A i \in 1..Len(d) : d[i] = e[i]
  <2>1. SUFFICES ASSUME NEW i \in 1..Len(d) PROVE d[i] = e[i]
    OBVIOUS
  <2>2. i \in 1..(n - p) /\ i \in 1..(Len(cells) - p) /\ p < n /\ p < Len(cells)
    BY <1>0, <1>1, <1>2
  <2>3. \A j \in (p + 1)..Len(cells) : cells[j] \in C
    BY <1>0, <1>1
  <2>4. d[i] = cells[p + i]
    <3>1. p + 1 \in 1..(Len(cells) + 1) /\ n \in ((p + 1) - 1)..Len(cells) /\ p + 1 <= n
      BY <1>0, <1>1, <2>2
    <3>2. \A j \in 1..(n - p) : SubSeq(cells, p + 1, n)[j] = cells[p + j]
      BY <1>0, <1>1, <2>3, <3>1, SubSeqProperties
    <3> QED
      BY <2>2, <3>2
  <2>5. e[i] = cells[p + i]
    <3>1. p + 1 \in 1..(Len(cells) + 1) /\ Len(cells) \in ((p + 1) - 1)..Len(cells)
          /\ p + 1 <= Len(cells)
      BY <1>0, <1>1, <2>2
    <3>2. \A j \in 1..(Len(cells) - p) : SubSeq(cells, p + 1, Len(cells))[j] = cells[p + j]
      BY <1>0, <1>1, <2>3, <3>1, SubSeqProperties
    <3> QED
      BY <2>2, <3>2
  <2> QED
    BY <2>4, <2>5
<1>4. Len(d) <= Len(e)
  BY <1>0, <1>1, <1>2
<1> QED
  BY <1>0, <1>2, <1>3, <1>4 DEF Cut, Starts, IsData

LEMMA FrontOfAppend ==
  ASSUME NEW S, NEW f \in Seq(S), NEW u \in S, NEW s, s = Append(f, u)
  PROVE  s \in Seq(S) /\ s # <<>> /\ Front(s) = f /\ Last(s) = u
<1>1. s \in Seq(S) /\ Len(s) = Len(f) + 1 /\ Len(f) \in Nat /\ s[Len(f) + 1] = u
      /\ \A i \in 1..Len(f) : s[i] = f[i]
  OBVIOUS
<1>2. s # <<>> /\ Last(s) = u
  BY <1>1, EmptySeq DEF Last
<1>3. /\ Front(s) \in Seq(S) /\ Len(Front(s)) = Len(s) - 1
      /\ \A i \in 1..(Len(s) - 1) : Front(s)[i] = s[i]
  BY <1>1, <1>2, FrontIs
<1> DEFINE g == Front(s)
<1>4. g \in Seq(S) /\ Len(g) = Len(f) /\ \A i \in 1..Len(f) : g[i] = f[i]
  BY <1>1, <1>3
<1> HIDE DEF g
<1>5. g = f
  BY <1>4, SeqEqual
<1> QED
  BY <1>1, <1>2, <1>5 DEF g

Reached(cells, C, p, n, ps, ends) ==
  /\ IsData(cells, C) /\ n \in 0..Len(cells) /\ p \in 0..n /\ ends \in BOOLEAN
  /\ ends => n = Len(cells)
  /\ ps \in Seq(ParserStates) /\ ps # <<>>

LEMMA ReachedState ==
  ASSUME NEW cells, NEW C, NEW p, NEW n, NEW ps, NEW ends, Reached(cells, C, p, n, ps, ends)
  PROVE  <<p, ps>> \in States(cells) /\ Last(ps) \in ParserStates
<1>0. /\ IsData(cells, C) /\ n \in 0..Len(cells) /\ p \in 0..n
      /\ ps \in Seq(ParserStates) /\ ps # <<>> /\ Len(cells) \in Nat
  BY DEF Reached, IsData
<1>1. p \in 0..Len(cells)
  BY <1>0
<1>2. Len(ps) \in 1..Len(ps)
  BY <1>0, EmptySeq, LenProperties
<1>3. ps[Len(ps)] \in ParserStates
  BY <1>0, <1>2
<1> QED
  BY <1>0, <1>1, <1>3 DEF States, Last

\* A payload in a chunk is the one of the whole file, and without one and without
\* a request there is none.
LEMMA ChunkSettles ==
  ASSUME NEW cells, NEW C, NEW p, NEW n, NEW ps, NEW ends, Reached(cells, C, p, n, ps, ends),
         NEW r, r = parse(Last(ps), SubSeq(cells, p + 1, n), ends)
  PROVE  /\ r.ok => At(cells, <<p, ps>>) = r
         /\ ~r.ok /\ ~(r.hint > 0) => ~At(cells, <<p, ps>>).ok
         /\ Parses(Last(ps), SubSeq(cells, p + 1, n), r, C)
<1> DEFINE t == Last(ps)
           d == SubSeq(cells, p + 1, n)
           e == SubSeq(cells, p + 1, Len(cells))
<1>0. /\ IsData(cells, C) /\ n \in 0..Len(cells) /\ p \in 0..n /\ t \in ParserStates
      /\ ends \in BOOLEAN /\ (ends => n = Len(cells))
  BY ReachedState DEF Reached
<1>1. At(cells, <<p, ps>>) = parse(t, e, TRUE)
  BY DEF At
<1>2. Cut(d, e, C)
  <2>1. d = SubSeq(cells, p + 1, n) /\ e = SubSeq(cells, p + 1, Len(cells))
    OBVIOUS
  <2> HIDE DEF d, e
  <2> QED
    BY <1>0, <2>1, CutIs
<1>3. ends => d = e
  BY <1>0
<1>4. r = parse(t, d, ends)
  OBVIOUS
<1> HIDE DEF t, d, e
<1>5. Settled(r, parse(t, e, TRUE))
  <2>1. CASE ends
    <3>1. parse(t, e, TRUE) = r
      BY <1>3, <1>4, <2>1
    <3> QED
      BY <3>1, SettledSame
  <2>2. CASE ~ends
    <3>1. r = parse(t, d, FALSE)
      BY <1>0, <1>4, <2>2
    <3> QED
      BY <1>0, <1>2, <3>1, ParseSettled
  <2> QED
    BY <2>1, <2>2
<1>6. Parses(t, d, r, C)
  BY <1>0, <1>2, <1>4, ParseParses DEF Cut
<1> QED
  BY <1>1, <1>5, <1>6 DEF Settled, t, d

\* The parser that a payload is waited for with stands for the one before.
Replaces(s, ps, u) ==
  s \in Seq(ParserStates) /\ s # <<>> /\ Front(s) = Front(ps) /\ Last(s) = u

LEMMA AppendReplaces ==
  ASSUME NEW ps \in Seq(ParserStates), ps # <<>>, NEW u \in ParserStates
  PROVE  Replaces(Append(Front(ps), u), ps, u)
<1> DEFINE s == Append(Front(ps), u)
           f == Front(ps)
<1>1. f \in Seq(ParserStates)
  BY FrontIs
<1>2. s = Append(f, u)
  OBVIOUS
<1> HIDE DEF s, f
<1>3. s \in Seq(ParserStates) /\ s # <<>> /\ Front(s) = f /\ Last(s) = u
  BY <1>1, <1>2, FrontOfAppend
<1> QED
  BY <1>3 DEF Replaces, s, f

Waits(t, u) == u = t \/ Closes(t, u)

LEMMA WaitsParses ==
  ASSUME NEW t \in ParserStates, NEW u, Waits(t, u), NEW data
  PROVE  parse(u, data, TRUE) = parse(t, data, TRUE)
<1>1. CASE u = t
  BY <1>1
<1>2. CASE Closes(t, u)
  BY <1>2, ClosedParses
<1> QED
  BY <1>1, <1>2 DEF Waits

LEMMA WaitingIsSame ==
  ASSUME NEW cells, NEW C, NEW p, NEW n, NEW ps, NEW ends, Reached(cells, C, p, n, ps, ends),
         NEW u \in ParserStates, Waits(Last(ps), u), NEW s, Replaces(s, ps, u),
         NEW f, IsPlan(f, cells)
  PROVE  f[<<p, s>>] = f[<<p, ps>>]
<1> DEFINE at == <<p, ps>>
           bt == <<p, s>>
           q == At(cells, at)
<1>0. /\ IsData(cells, C) /\ at \in States(cells) /\ Last(ps) \in ParserStates
      /\ ps # <<>>
  BY ReachedState DEF Reached
<1>1. s \in Seq(ParserStates) /\ s # <<>> /\ Front(s) = Front(ps) /\ Last(s) = u
  BY DEF Replaces
<1>2. bt \in States(cells) /\ bt[2] = s /\ at[2] = ps
  BY <1>0, <1>1 DEF States
<1>3. At(cells, bt) = q
  <2> DEFINE e == SubSeq(cells, p + 1, Len(cells))
  <2>1. q = parse(Last(ps), e, TRUE) /\ At(cells, bt) = parse(u, e, TRUE)
    BY <1>1 DEF At
  <2> HIDE DEF e, q, bt
  <2> QED
    BY <1>0, <2>1, WaitsParses
<1>4. After(s, q) = After(ps, q)
  BY <1>1 DEF After
<1>5. bt \in Over(cells) <=> at \in Over(cells)
  BY <1>0, <1>1, <1>2, <1>3 DEF Over
<1>6. Nexts(cells)[bt] = Nexts(cells)[at]
  BY <1>0, <1>2, <1>3, <1>4 DEF Nexts
<1> HIDE DEF at, bt, q
<1>7. Unfolds(cells, f, at) /\ Unfolds(cells, f, bt)
  BY <1>0, <1>2, PlanStep
<1>8. At(cells, at) = q
  BY DEF q
<1>9. f[bt] = f[at]
  BY <1>0, <1>1, <1>2, <1>3, <1>5, <1>6, <1>7, <1>8 DEF Unfolds
<1> QED
  BY <1>9 DEF at, bt

\* What is left of a plan after n payloads.
Left(all, n, rest) ==
  /\ Len(rest.payloads) \in Nat /\ n \in Nat
  /\ Len(all.payloads) = n + Len(rest.payloads)
  /\ \A k \in 1..Len(rest.payloads) : all.payloads[n + k] = rest.payloads[k]
  /\ all.ok = rest.ok

LEMMA LeftYields ==
  ASSUME NEW all, NEW n, NEW V, NEW given \in V, NEW next \in PlansOf(V),
         Left(all, n, Before(given, next))
  PROVE  n < Len(all.payloads) /\ all.payloads[n + 1] = given /\ Left(all, n + 1, next)
<1> DEFINE rest == Before(given, next)
<1>1. /\ rest.ok = next.ok
      /\ Len(next.payloads) \in Nat /\ Len(rest.payloads) = Len(next.payloads) + 1
      /\ rest.payloads[1] = given
      /\ \A k \in 1..Len(next.payloads) : rest.payloads[k + 1] = next.payloads[k]
  <2>1. rest = Before(given, next)
    OBVIOUS
  <2> HIDE DEF rest
  <2>2. Begins(rest, given, next)
    BY <2>1, BeforeIs
  <2> QED
    BY <2>2 DEF Begins
<1>2. Left(all, n, rest)
  OBVIOUS
<1> HIDE DEF rest
<1>3. /\ n \in Nat /\ Len(all.payloads) = n + Len(rest.payloads)
      /\ \A k \in 1..Len(rest.payloads) : all.payloads[n + k] = rest.payloads[k]
      /\ all.ok = rest.ok
  BY <1>2 DEF Left
<1>4. n < Len(all.payloads) /\ Len(all.payloads) = (n + 1) + Len(next.payloads)
  <2> DEFINE i == Len(all.payloads)
             j == Len(rest.payloads)
             k == Len(next.payloads)
  <2>1. n \in Nat /\ k \in Nat /\ i = n + j /\ j = k + 1
    BY <1>1, <1>3
  <2> HIDE DEF i, j, k
  <2>2. n < i /\ i = (n + 1) + k
    BY <2>1
  <2> QED
    BY <2>2 DEF i, k
<1>5. all.payloads[n + 1] = given
  <2>1. 1 \in 1..Len(rest.payloads)
    BY <1>1
  <2> QED
    BY <1>1, <1>3, <2>1
<1>6. ASSUME NEW k \in 1..Len(next.payloads)
      PROVE  all.payloads[(n + 1) + k] = next.payloads[k]
  <2>1. k + 1 \in 1..Len(rest.payloads) /\ (n + 1) + k = n + (k + 1)
    BY <1>1, <1>3
  <2> QED
    BY <1>1, <1>3, <2>1
<1>7. n + 1 \in Nat
  BY <1>3
<1> QED
  BY <1>1, <1>3, <1>4, <1>5, <1>6, <1>7 DEF Left

\* A plan is over where there are no parsers left.
IsOver(cells, all, n, at) ==
  /\ n = Len(all.payloads) /\ all.ok <=> at[2] = <<>>
  /\ at \in Over(cells) /\ at[2] # <<>> => n = Len(all.payloads) /\ ~all.ok

LEMMA LeftOver ==
  ASSUME NEW C, NEW cells, IsData(cells, C), NEW f, IsPlan(f, cells), NEW at \in States(cells),
         NEW all, NEW n, Left(all, n, f[at])
  PROVE  IsOver(cells, all, n, at)
<1> DEFINE rest == f[at]
<1>0. Unfolds(cells, f, at)
  BY PlanStep
<1>1. CASE at \in Over(cells) /\ at[2] = <<>>
  <2>1. rest = Nothing(TRUE)
    BY <1>1, <1>0 DEF Unfolds
  <2>2. rest.payloads = <<>> /\ rest.ok = TRUE /\ Left(all, n, rest)
    BY <2>1 DEF Nothing
  <2> HIDE DEF rest
  <2>3. Len(all.payloads) = n + 0 /\ n \in Nat /\ all.ok = TRUE
    BY <2>2 DEF Left
  <2> QED
    BY <1>1, <2>3 DEF IsOver
<1>2. CASE at \in Over(cells) /\ at[2] # <<>>
  <2>1. rest = Nothing(FALSE)
    BY <1>2, <1>0 DEF Unfolds
  <2>2. rest.payloads = <<>> /\ rest.ok = FALSE /\ Left(all, n, rest)
    BY <2>1 DEF Nothing
  <2> HIDE DEF rest
  <2>3. Len(all.payloads) = n + 0 /\ n \in Nat /\ all.ok = FALSE
    BY <2>2 DEF Left
  <2> QED
    BY <1>2, <2>3 DEF IsOver
<1>3. CASE at \notin Over(cells)
  <2> DEFINE V == Payloads(cells)
             given == At(cells, at).payload
             next == f[Nexts(cells)[at]]
  <2>1. rest = Before(given, next) /\ Nexts(cells)[at] \in States(cells)
    BY <1>3, <1>0 DEF Unfolds
  <2>2. given \in V /\ next \in PlansOf(V)
    <3>1. next \in PlansOf(V)
      BY <2>1, PlanIsSequence
    <3> QED
      BY <3>1 DEF Payloads
  <2>3. Left(all, n, rest)
    OBVIOUS
  <2> HIDE DEF V, given, next, rest
  <2>4. n < Len(all.payloads) /\ n \in Nat /\ Len(all.payloads) \in Nat
    <3>1. n < Len(all.payloads)
      BY <2>1, <2>2, <2>3, LeftYields
    <3>2. n \in Nat /\ Len(all.payloads) \in Nat
      BY <2>3 DEF Left
    <3> QED
      BY <3>1, <3>2
  <2>5. at[2] # <<>>
    BY <1>3 DEF Over
  <2> QED
    BY <1>3, <2>4, <2>5 DEF IsOver
<1> QED
  BY <1>1, <1>2, <1>3

\* Where the loop is in the plan of its file.
Planned(C) ==
  /\ Reached(input, C, start, avail, parsers, eof) /\ seen \in Nat
  /\ \E f : IsPlan(f, input) /\ Left(plan, seen, f[<<start, parsers>>])

\* A loop that runs is in its plan; no other loop can go on with a file.
StreamInv(C) ==
  /\ stage \in {"open", "resolved"} => outcome \in {"idle", "done"}
  /\ stage = "accepted" => outcome = "done"
  /\ outcome = "running" => Planned(C)

LEMMA PlanOpened ==
  ASSUME NEW C, NEW cells, IsData(cells, C)
  PROVE  \E f : /\ IsPlan(f, cells)
                /\ Left(parse_all(cells), 0, f[<<0, <<new_parser(0, MaxSize)>>>>])
<1> DEFINE first == <<0, <<new_parser(0, MaxSize)>>>>
<1>1. first \in States(cells)
  <2>1. new_parser(0, MaxSize) \in ParserStates
    BY MaxSizeAssumption, ParserIsNew
  <2>2. <<new_parser(0, MaxSize)>> \in Seq(ParserStates) /\ Len(cells) \in Nat
    BY <2>1 DEF IsData
  <2>3. 0 \in 0..Len(cells)
    BY <2>2
  <2> QED
    BY <2>2, <2>3 DEF States
<1>2. \E f : IsPlan(f, cells)
  BY PlanDescends, ChainExists DEF IsPlan
<1>3. PICK f : IsPlan(f, cells) /\ parse_all(cells) = f[first]
  BY <1>2, PlanIs
<1> DEFINE all == parse_all(cells)
<1> HIDE DEF first, all
<1>4. all = f[first]
  BY <1>3 DEF all
<1>5. f[first] \in PlansOf(Payloads(cells))
  BY <1>1, <1>3, PlanIsSequence
<1>6. Len(all.payloads) \in Nat
  BY <1>4, <1>5 DEF PlansOf
<1>7. Left(all, 0, all)
  BY <1>6 DEF Left
<1> QED
  BY <1>3, <1>4, <1>7 DEF first, all

LEMMA StreamOpens ==
  ASSUME NEW C, \A c \in C : c.byte \in Nat, StreamInv(C),
         NEW cells \in Seq(C), NEW n \in 0..Len(cells), OpenFile(cells, n)
  PROVE  StreamInv(C)' /\ Whole!Start
<1>1. /\ stage \in {"open", "resolved"} /\ stage' = "parse"
      /\ input' = cells /\ start' = 0 /\ avail' = n /\ eof' = FALSE
      /\ parsers' = <<new_parser(0, MaxSize)>> /\ seen' = 0 /\ last' = <<>>
      /\ outcome' = "running" /\ plan' = parse_all(cells)
  BY DEF OpenFile, Open
<1>2. IsData(cells, C) /\ Len(cells) \in Nat
  BY DEF IsData
<1>3. Whole!Start
  BY <1>1 DEF Whole!Start, StreamInv
<1>4. Planned(C)'
  <2>1. new_parser(0, MaxSize) \in ParserStates
    BY MaxSizeAssumption, ParserIsNew
  <2>2. parsers' \in Seq(ParserStates) /\ parsers' # <<>>
    BY <1>1, <2>1
  <2>3. n \in 0..Len(cells) /\ 0 \in 0..n /\ FALSE \in BOOLEAN
    BY <1>2
  <2>4. Reached(cells, C, 0, n, parsers', FALSE)
    BY <1>2, <2>2, <2>3 DEF Reached
  <2>5. Reached(input, C, start, avail, parsers, eof)'
    BY <1>1, <2>4
  <2>6. PICK f : IsPlan(f, cells) /\ Left(plan', 0, f[<<0, parsers'>>])
    BY <1>1, <1>2, PlanOpened
  <2>7. IsPlan(f, input') /\ Left(plan', seen', f[<<start', parsers'>>])
    BY <1>1, <2>6
  <2>8. seen' \in Nat
    BY <1>1
  <2> QED
    BY <2>5, <2>7, <2>8 DEF Planned
<1> QED
  BY <1>1, <1>3, <1>4 DEF StreamInv

LEMMA StreamReceives ==
  ASSUME NEW C, StreamInv(C), Receive
  PROVE  StreamInv(C)' /\ UNCHANGED <<plan, seen, last, outcome>>
<1>1. /\ outcome = "running" /\ stage' = stage /\ input' = input /\ start' = start
      /\ parsers' = parsers /\ seen' = seen /\ last' = last /\ outcome' = outcome /\ plan' = plan
  BY DEF Receive, Deliver, ReadEof
<1>2. Planned(C)
  BY <1>1 DEF StreamInv
<1>3. /\ IsData(input, C) /\ avail \in 0..Len(input) /\ start \in 0..avail /\ eof \in BOOLEAN
      /\ eof => avail = Len(input)
      /\ parsers \in Seq(ParserStates) /\ parsers # <<>> /\ Len(input) \in Nat
  BY <1>2 DEF Planned, Reached, IsData
<1>4. /\ avail' \in 0..Len(input) /\ start \in 0..avail' /\ eof' \in BOOLEAN
      /\ eof' => avail' = Len(input)
  <2>1. CASE \E n \in 1..Len(input) : Deliver(n)
    <3>1. PICK n \in 1..Len(input) : Deliver(n)
      BY <2>1
    <3>2. n \in 1..(Len(input) - avail) /\ avail' = avail + n /\ eof' = eof
      BY <3>1 DEF Deliver
    <3> QED
      BY <1>3, <3>2
  <2>2. CASE ReadEof
    BY <1>3, <2>2 DEF ReadEof
  <2> QED
    BY <2>1, <2>2 DEF Receive
<1>5. Reached(input, C, start, avail', parsers, eof')
  BY <1>3, <1>4 DEF Reached
<1>6. Planned(C)'
  BY <1>1, <1>2, <1>5 DEF Planned
<1> QED
  BY <1>1, <1>6 DEF StreamInv

\* A payload of a chunk is the next of the plan.
HandsOut(all, m, r, s, next, n, p) ==
  /\ m < Len(all.payloads) /\ all.payloads[m + 1] = r.payload
  /\ Left(all, m + 1, next)
  /\ (m + 1 = Len(all.payloads) /\ all.ok) <=> s = <<>>
  /\ p + r.p \in 0..n /\ s \in Seq(ParserStates)

LEMMA ChunkYields ==
  ASSUME NEW cells, NEW C, NEW p, NEW n, NEW ps, NEW ends, Reached(cells, C, p, n, ps, ends),
         NEW r, r = parse(Last(ps), SubSeq(cells, p + 1, n), ends), r.ok,
         NEW f, IsPlan(f, cells), NEW all, NEW m, Left(all, m, f[<<p, ps>>]),
         NEW s, s = After(ps, r)
  PROVE  HandsOut(all, m, r, s, f[<<p + r.p, s>>], n, p)
<1> DEFINE at == <<p, ps>>
           bt == <<p + r.p, s>>
           V == Payloads(cells)
<1>0. /\ IsData(cells, C) /\ n \in 0..Len(cells) /\ p \in 0..n
      /\ ps \in Seq(ParserStates) /\ ps # <<>> /\ at \in States(cells) /\ at[2] = ps /\ at[1] = p
      /\ Len(cells) \in Nat
  BY ReachedState DEF Reached, IsData
<1>1. /\ At(cells, at) = r
      /\ Parses(Last(ps), SubSeq(cells, p + 1, n), r, C)
  BY ChunkSettles
<1>2. at \notin Over(cells) /\ Nexts(cells)[at] = bt
  BY <1>0, <1>1 DEF Over, Nexts
<1>3. p + r.p \in 0..n /\ s \in Seq(ParserStates)
  <2> DEFINE d == SubSeq(cells, p + 1, n)
  <2>1. Len(d) = n - p
    <3>1. d = SubSeq(cells, p + 1, n)
      OBVIOUS
    <3> HIDE DEF d
    <3> QED
      BY <1>0, <3>1, ThereIs DEF IsData
  <2>2. Parses(Last(ps), d, r, C)
    BY <1>1
  <2> HIDE DEF d
  <2>3. PICK k : IsHanded(r.ps, r.payload, k, r.p, d, C)
    BY <2>2 DEF Parses
  <2>4. r.ps \in ParserStates /\ r.payload.start \in Nat /\ r.payload.len \in Nat
        /\ r.p \in 0..(n - p)
    BY <2>1, <2>3 DEF IsHanded
  <2>5. s \in Seq(ParserStates)
    BY <1>0, <2>4, AfterIs
  <2>6. p + r.p \in 0..n
    <3> DEFINE q == r.p
    <3>1. q \in 0..(n - p) /\ n \in Nat /\ p \in 0..n
      BY <1>0, <2>4
    <3> HIDE DEF q
    <3>2. p + q \in 0..n
      BY <3>1
    <3> QED
      BY <3>2 DEF q
  <2> QED
    BY <2>5, <2>6
<1> HIDE DEF at, bt, V
<1>4. Unfolds(cells, f, at)
  BY <1>0, PlanStep
<1>5. bt \in States(cells) /\ f[at] = Before(r.payload, f[bt])
  BY <1>1, <1>2, <1>4 DEF Unfolds
<1>6. r.payload \in V /\ f[bt] \in PlansOf(V)
  <2>1. f[bt] \in PlansOf(V)
    BY <1>0, <1>5, PlanIsSequence DEF V
  <2>2. r.payload \in V
    BY <1>0, <1>1 DEF V, Payloads
  <2> QED
    BY <2>1, <2>2
<1> DEFINE given == r.payload
           next == f[bt]
<1>7. Left(all, m, Before(given, next)) /\ given \in V /\ next \in PlansOf(V)
  BY <1>5, <1>6 DEF at
<1> HIDE DEF given, next
<1>8. m < Len(all.payloads) /\ all.payloads[m + 1] = given /\ Left(all, m + 1, next)
  BY <1>7, LeftYields
<1>9. (m + 1 = Len(all.payloads) /\ all.ok) <=> bt[2] = <<>>
  <2>1. Left(all, m + 1, f[bt])
    BY <1>8 DEF next
  <2> DEFINE i == m + 1
  <2>2. Left(all, i, f[bt])
    BY <2>1
  <2> HIDE DEF i
  <2>3. IsOver(cells, all, i, bt)
    BY <1>0, <1>5, <2>2, LeftOver
  <2> QED
    BY <2>3 DEF IsOver, i
<1>10. bt[2] = s
  BY DEF bt
<1> QED
  BY <1>3, <1>8, <1>9, <1>10 DEF HandsOut, given, next, bt

LEMMA StreamParses ==
  ASSUME NEW C, StreamInv(C), Parse
  PROVE  StreamInv(C)' /\ (Whole!Yield \/ Whole!Refuse \/ UNCHANGED <<plan, seen, last, outcome>>)
<1> DEFINE r == parse(Last(parsers), SubSeq(input, start + 1, avail), eof)
           s == After(parsers, r)
<1>1. /\ stage = "parse" /\ outcome = "running" /\ input' = input /\ avail' = avail
      /\ eof' = eof /\ plan' = plan
      /\ stage' = IF outcome' = "error" THEN "rejected" ELSE stage
  BY DEF Parse, ParsePayload
<1>2. /\ r.ok => /\ start' = start + r.p /\ seen' = seen + 1 /\ last' = <<r.payload>>
                 /\ parsers' = s
                 /\ outcome' = IF parsers' = <<>> THEN "done" ELSE "running"
      /\ ~r.ok => /\ outcome' = IF r.hint > 0 THEN "running" ELSE "error"
                  /\ parsers' = Append(Front(parsers), r.ps)
                  /\ start' = start /\ seen' = seen /\ last' = last
  BY DEF Parse, ParsePayload
<1>3. Reached(input, C, start, avail, parsers, eof) /\ seen \in Nat
  BY <1>1 DEF StreamInv, Planned
<1>4. PICK f : IsPlan(f, input) /\ Left(plan, seen, f[<<start, parsers>>])
  BY <1>1 DEF StreamInv, Planned
<1>5. /\ IsData(input, C) /\ avail \in 0..Len(input) /\ start \in 0..avail /\ eof \in BOOLEAN
      /\ eof => avail = Len(input)
      /\ parsers \in Seq(ParserStates) /\ parsers # <<>>
  BY <1>3 DEF Reached
<1>6. stage' \notin {"open", "resolved", "accepted"}
  BY <1>1
<1>7. CASE r.ok
  <2>1. /\ seen < Len(plan.payloads) /\ plan.payloads[seen + 1] = r.payload
        /\ Left(plan, seen + 1, f[<<start + r.p, s>>])
        /\ (seen + 1 = Len(plan.payloads) /\ plan.ok) <=> s = <<>>
        /\ start + r.p \in 0..avail /\ s \in Seq(ParserStates)
    <3>1. r = parse(Last(parsers), SubSeq(input, start + 1, avail), eof) /\ s = After(parsers, r)
      OBVIOUS
    <3> HIDE DEF r, s
    <3>2. HandsOut(plan, seen, r, s, f[<<start + r.p, s>>], avail, start)
      BY <1>3, <1>4, <1>7, <3>1, ChunkYields
    <3> QED
      BY <3>2 DEF HandsOut
  <2> HIDE DEF r, s
  <2>2. Whole!Yield
    BY <1>1, <1>2, <1>7, <2>1 DEF Whole!Yield
  <2>3. ASSUME outcome' = "running" PROVE Planned(C)'
    <3>1. s # <<>>
      BY <1>2, <1>7, <2>3
    <3>2. Reached(input, C, start + r.p, avail, s, eof)
      BY <1>5, <2>1, <3>1 DEF Reached
    <3>3. Reached(input, C, start, avail, parsers, eof)'
      BY <1>1, <1>2, <1>7, <3>2
    <3>4. IsPlan(f, input') /\ Left(plan', seen', f[<<start', parsers'>>])
      BY <1>1, <1>2, <1>4, <1>7, <2>1
    <3>5. seen' \in Nat
      BY <1>2, <1>3, <1>7
    <3> QED
      BY <3>3, <3>4, <3>5 DEF Planned
  <2> QED
    BY <1>6, <2>2, <2>3 DEF StreamInv
<1>8. CASE ~r.ok
  <2>1. /\ ~(r.hint > 0) => ~At(input, <<start, parsers>>).ok
        /\ Parses(Last(parsers), SubSeq(input, start + 1, avail), r, C)
    <3>1. r = parse(Last(parsers), SubSeq(input, start + 1, avail), eof)
      OBVIOUS
    <3> HIDE DEF r
    <3> QED
      BY <1>3, <1>8, <3>1, ChunkSettles
  <2> HIDE DEF r, s
  <2>2. r.ps \in ParserStates /\ Waits(Last(parsers), r.ps)
    BY <1>8, <2>1 DEF Parses, Waits
  <2>3. CASE r.hint > 0
    <3>1. UNCHANGED <<plan, seen, last, outcome>>
      BY <1>1, <1>2, <1>8, <2>3
    <3>2. Replaces(parsers', parsers, r.ps)
      BY <1>2, <1>5, <1>8, <2>2, AppendReplaces
    <3>3. f[<<start, parsers'>>] = f[<<start, parsers>>]
      BY <1>3, <1>4, <2>2, <3>2, WaitingIsSame
    <3>4. parsers' \in Seq(ParserStates) /\ parsers' # <<>>
      BY <3>2 DEF Replaces
    <3>5. Reached(input, C, start, avail, parsers', eof)
      BY <1>5, <3>4 DEF Reached
    <3>6. Reached(input, C, start, avail, parsers, eof)'
      BY <1>1, <1>2, <1>8, <3>5
    <3>7. IsPlan(f, input') /\ Left(plan', seen', f[<<start', parsers'>>]) /\ seen' \in Nat
      BY <1>1, <1>2, <1>3, <1>4, <1>8, <3>3
    <3>8. Planned(C)'
      BY <3>6, <3>7 DEF Planned
    <3> QED
      BY <1>6, <3>1, <3>8 DEF StreamInv
  <2>4. CASE ~(r.hint > 0)
    <3> DEFINE at == <<start, parsers>>
    <3>1. at \in States(input) /\ at[2] = parsers
      BY <1>3, ReachedState
    <3>2. at \in Over(input)
      BY <2>1, <2>4, <3>1 DEF Over
    <3>3. Left(plan, seen, f[at])
      BY <1>4
    <3> HIDE DEF at
    <3>4. seen = Len(plan.payloads) /\ ~plan.ok
      <4>1. IsOver(input, plan, seen, at)
        BY <1>4, <1>5, <3>1, <3>3, LeftOver
      <4> QED
        BY <1>5, <3>1, <3>2, <4>1 DEF IsOver
    <3>5. outcome' = "error" /\ seen' = seen /\ last' = last
      BY <1>2, <1>8, <2>4
    <3>6. Whole!Refuse
      BY <1>1, <3>4, <3>5 DEF Whole!Refuse
    <3> QED
      BY <1>6, <3>5, <3>6 DEF StreamInv
  <2> QED
    BY <2>3, <2>4
<1> QED
  BY <1>7, <1>8

\* What the validator and the texts do leaves the stream alone.
LEMMA StreamStays ==
  ASSUME NEW C, StreamInv(C), UNCHANGED streamVars,
         stage' \in {"open", "resolved"} => outcome \in {"idle", "done"},
         stage' = "accepted" => outcome = "done"
  PROVE  StreamInv(C)' /\ UNCHANGED <<plan, seen, last, outcome>>
<1>1. /\ input' = input /\ start' = start /\ avail' = avail /\ eof' = eof /\ parsers' = parsers
      /\ seen' = seen /\ last' = last /\ outcome' = outcome /\ plan' = plan
  BY DEF streamVars
<1>2. outcome' = "running" => Planned(C)'
  BY <1>1 DEF StreamInv, Planned
<1> QED
  BY <1>1, <1>2 DEF StreamInv

\* A step of PayloadStream, or none.
StreamGoes == Whole!Next \/ UNCHANGED <<plan, seen, last, outcome>>

LEMMA StreamStep ==
  ASSUME NEW Items, NEW C, C = [byte : Nat, item : Items], StreamInv(C),
         [ReaderNext(Items)]_readerVars
  PROVE  StreamInv(C)' /\ StreamGoes
<1>0. \A c \in C : c.byte \in Nat
  OBVIOUS
<1>1. CASE \E s \in {"resolved", "unresolved", "encoded"} : Prepare(s)
  <2>1. /\ UNCHANGED streamVars /\ stage \in {"open", "resolved"}
        /\ stage' \in {"resolved", "unresolved", "encoded"}
    BY <1>1 DEF Prepare
  <2>2. outcome \in {"idle", "done"} /\ stage' # "accepted"
    BY <2>1 DEF StreamInv
  <2> QED
    BY <2>1, <2>2, StreamStays DEF StreamGoes
<1>2. CASE \E cells \in Seq(C) : \E n \in 0..Len(cells) : OpenFile(cells, n)
  <2>1. PICK cells \in Seq(C) : \E n \in 0..Len(cells) : OpenFile(cells, n)
    BY <1>2
  <2>2. PICK n \in 0..Len(cells) : OpenFile(cells, n)
    BY <2>1
  <2>3. StreamInv(C)' /\ Whole!Start
    BY <1>0, <2>2, StreamOpens
  <2> QED
    BY <2>3 DEF StreamGoes, Whole!Next
<1>3. CASE Parse
  BY <1>3, StreamParses DEF StreamGoes, Whole!Next
<1>4. CASE Receive
  BY <1>4, StreamReceives DEF StreamGoes
<1>5. CASE Validate
  <2>1. UNCHANGED streamVars /\ (stage' = "rejected" \/ stage' = "parse")
    BY <1>5, Zenon DEF Validate
  <2> QED
    BY <2>1, StreamStays DEF StreamGoes
<1>6. CASE ValidateBodies
  <2>1. UNCHANGED streamVars /\ (stage' = "rejected" \/ stage' = "accepted") /\ outcome = "done"
    BY <1>6, Zenon DEF ValidateBodies
  <2> QED
    BY <2>1, StreamStays DEF StreamGoes
<1>7. CASE Reuse
  <2>1. UNCHANGED streamVars /\ stage = "accepted" /\ stage' = "open"
    BY <1>7 DEF Reuse
  <2>2. outcome = "done" /\ stage' # "accepted"
    BY <2>1 DEF StreamInv
  <2> QED
    BY <2>1, <2>2, StreamStays DEF StreamGoes
<1>8. CASE UNCHANGED readerVars
  <2>1. UNCHANGED streamVars /\ stage' = stage
    BY <1>8 DEF readerVars
  <2>2. /\ stage' \in {"open", "resolved"} => outcome \in {"idle", "done"}
        /\ stage' = "accepted" => outcome = "done"
    BY <2>1 DEF StreamInv
  <2> QED
    BY <2>1, <2>2, StreamStays DEF StreamGoes
<1> QED
  BY <1>1, <1>2, <1>3, <1>4, <1>5, <1>6, <1>7, <1>8 DEF ReaderNext

\* However the bytes of a file are cut, the reader hands out the payloads of
\* parse_all, in order, and ends as it does: every step of the reader is one of
\* PayloadStream or leaves it where it is (Parser::parse and parse_all, parser.rs).
THEOREM ReaderFollowsStream ==
  ASSUME NEW Items
  PROVE  ReaderSpec(Items) => ChunkingIsInvisible
<1> DEFINE C == [byte : Nat, item : Items]
<1>1. ReaderInit => StreamInv(C) /\ Whole!Init
  BY DEF ReaderInit, StreamInit, StreamInv, Whole!Init
<1>2. StreamInv(C) /\ [ReaderNext(Items)]_readerVars => StreamInv(C)' /\ StreamGoes
  BY StreamStep
<1>3. StreamGoes => [Whole!Next]_<<plan, seen, last, outcome>>
  BY DEF StreamGoes
<1> QED
  BY <1>1, <1>2, <1>3, PTL DEF ReaderSpec, ChunkingIsInvisible, Whole!Spec
=============================================================================
