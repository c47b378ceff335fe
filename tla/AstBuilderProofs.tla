--------------------------- MODULE AstBuilderProofs ---------------------------
(* A tree that build_ast hands out is whole (BuildOkIsWhole).  As long as no    *)
(* error was noted and nothing panicked, every id that was drawn belongs to a   *)
(* node of the arena, to a running method, which will add it when it returns,   *)
(* or to the unit literal of a return without a value; and the parent of a      *)
(* node, an older id, is in the arena or runs (Whole).  At the end no method    *)
(* runs, so that the parents lead to the source file, by least counterexample   *)
(* (LeastNumber).  When an error was noted nothing of this need hold, and       *)
(* build_ast does not hand the tree out.                                        *)
EXTENDS AstBuilder, SequenceTheorems, WellFoundedInduction, Integers, TLAPS

-------------------------------------------------------------------------------
(* The invariant.                                                             *)

\* What the argument needs of a running method.
IsFrame(f) == {"kind", "id", "parent"} \subseteq DOMAIN f

\* A running method of another progress.
SameFrame(f, g) ==
  IsFrame(g) /\ g.kind = f.kind /\ g.id = f.id /\ g.parent = f.parent

\* The id was drawn by a method that runs.
Open(s, id) == \E i \in 1..Len(s) : s[i].id = id

\* The methods that run: build_ast, and each within the one before.
Nested(c, s) ==
  /\ \E S : s \in Seq(S)
  /\ \A i \in 1..Len(s) :
       /\ IsFrame(s[i]) /\ s[i].id \in 1..(c - 1)
       /\ i = 1 => s[i].id = 1 /\ s[i].parent = Root /\ s[i].kind = "source_file"
       /\ i # 1 => s[i].parent = s[i - 1].id /\ s[i].parent < s[i].id

\* Every id that was drawn is accounted for.
Accounted(a, c, s, u) ==
  /\ c \in Nat \ {0}
  /\ \A id \in 1..(c - 1) : id \in DOMAIN a \/ Open(s, id) \/ id \in u
  /\ \A id \in DOMAIN a : id \in 1..(c - 1) /\ id \notin u
  /\ \A id \in u : id \in 1..(c - 1) /\ ~Open(s, id)

\* A node other than the source file is below an older one.
Rooted(a, s) ==
  \A id \in DOMAIN a :
    \/ id = 1 /\ a[id].parent = Root /\ a[id].kind = "source_file"
    \/ /\ id # 1 /\ a[id].parent \in 1..(id - 1)
       /\ a[id].parent \in DOMAIN a \/ Open(s, a[id].parent)

Whole(a, c, s, u) == Nested(c, s) /\ Accounted(a, c, s, u) /\ Rooted(a, s)

BuilderInv ==
  /\ outcome = "ok" => ~errors /\ calls = << >>
  /\ ~errors /\ outcome \in {"running", "ok"} => Whole(arena, counter, calls, units)

\* The arena with one more node.
Added(a, id, node) ==
  [i \in DOMAIN a \cup {id} |-> IF i = id THEN node ELSE a[i]]

\* Only the progress of the methods differs.
SameStack(s, t) ==
  /\ \E S : t \in Seq(S)
  /\ Len(t) = Len(s) /\ \A i \in 1..Len(s) : SameFrame(s[i], t[i])

-------------------------------------------------------------------------------
(* The moves of the walk.                                                     *)

LEMMA LeastNumber ==
  ASSUME NEW T, T \subseteq Nat, T # {}
  PROVE  \E x \in T : \A y \in T : x <= y
<1>1. PICK x \in T : \A y \in T : <<y, x>> \notin OpToRel(<, Nat)
  BY NatLessThanWellFounded, WFMin, Zenon
<1>2. ASSUME NEW y \in T PROVE x <= y
  <2>1. ~(y < x)
    BY <1>1 DEF OpToRel
  <2> QED
    BY <2>1
<1> QED
  BY <1>2

\* Progress disturbs nothing.
LEMMA KeepWhole ==
  ASSUME NEW a, NEW c, NEW s, NEW u, Whole(a, c, s, u), NEW t, SameStack(s, t)
  PROVE  Whole(a, c, t, u)
<1>1. \A id : Open(t, id) <=> Open(s, id)
  BY DEF Open, SameStack, SameFrame
<1>2. \A i \in 1..Len(t) : i # 1 => i - 1 \in 1..Len(t)
  <2>1. Len(t) \in Nat
    BY DEF SameStack
  <2> QED
    BY <2>1
<1>3. Nested(c, t)
  BY <1>2 DEF Whole, Nested, SameStack, SameFrame
<1> QED
  BY <1>1, <1>3 DEF Whole, Accounted, Rooted

\* The innermost method.
LEMMA TopFacts ==
  ASSUME NEW c \in Nat, NEW s, Nested(c, s), s # << >>
  PROVE  /\ Len(s) \in Nat /\ Len(s) \in 1..Len(s)
         /\ s[Len(s)].id \in 1..(c - 1) /\ Open(s, s[Len(s)].id)
<1>1. Len(s) \in Nat /\ Len(s) # 0
  BY DEF Nested
<1>2. Len(s) \in 1..Len(s)
  BY <1>1
<1> QED
  BY <1>1, <1>2 DEF Nested, Open

\* A node is added under the innermost method.
LEMMA LeafWhole ==
  ASSUME NEW a, NEW c, NEW s, NEW u, Whole(a, c, s, u), s # << >>,
         NEW node, node.parent = s[Len(s)].id
  PROVE  Whole(Added(a, c, node), c + 1, s, u)
<1> DEFINE b == Added(a, c, node)
           p == s[Len(s)].id
<1>1. c \in Nat /\ p \in 1..(c - 1) /\ Open(s, p)
  BY TopFacts DEF Whole, Accounted
<1>2. /\ DOMAIN b = DOMAIN a \cup {c} /\ b[c] = node
      /\ \A id \in DOMAIN a : id # c => b[id] = a[id]
  BY DEF Added
<1>3. \A id : id \in 1..((c + 1) - 1) <=> id \in 1..(c - 1) \/ id = c
  BY <1>1
<1>4. c \notin DOMAIN a /\ c \notin u /\ c # 1 /\ p \in 1..(c - 1)
  BY <1>1 DEF Whole, Accounted
<1> HIDE DEF b, p
<1>5. Nested(c + 1, s)
  BY <1>3 DEF Whole, Nested
<1>6. Accounted(b, c + 1, s, u)
  BY <1>1, <1>2, <1>3, <1>4 DEF Whole, Accounted
<1>7. Rooted(b, s)
  BY <1>1, <1>2, <1>4 DEF Whole, Rooted, p
<1> QED
  BY <1>5, <1>6, <1>7 DEF Whole, b

\* A method starts within the innermost one.
LEMMA PushWhole ==
  ASSUME NEW a, NEW c, NEW s, NEW u, Whole(a, c, s, u), s # << >>,
         NEW f, IsFrame(f), f.id = c, f.parent = s[Len(s)].id
  PROVE  Whole(a, c + 1, Append(s, f), u)
<1> DEFINE t == Append(s, f)
           n == Len(s)
<1>1. c \in Nat /\ n \in Nat /\ n \in 1..n /\ s[n].id \in 1..(c - 1)
  BY TopFacts DEF Whole, Accounted
<1>2. PICK S : s \in Seq(S)
  BY DEF Whole, Nested
<1>3. t \in Seq(S \cup {f}) /\ Len(t) = n + 1 /\ t[n + 1] = f /\ \A i \in 1..n : t[i] = s[i]
  BY <1>2
<1> HIDE DEF t
<1>4. \A i : i \in 1..Len(t) <=> i \in 1..n \/ i = n + 1
  <2> HIDE DEF n
  <2> QED
    BY <1>1, <1>3
<1>5. \A id : Open(t, id) <=> Open(s, id) \/ id = c
  BY <1>3, <1>4 DEF Open
<1>6. \A id : id \in 1..((c + 1) - 1) <=> id \in 1..(c - 1) \/ id = c
  BY <1>1
<1>7. (n + 1) - 1 = n /\ n + 1 # 1 /\ s[n].id < c /\ c \in 1..((c + 1) - 1) /\ c \notin 1..(c - 1)
  <2>1. \A x \in 1..(c - 1) : x < c
    BY <1>1
  <2>2. c \in 1..((c + 1) - 1) /\ c \notin 1..(c - 1)
    BY <1>1
  <2>3. s[n].id < c
    BY <1>1, <2>1
  <2> HIDE DEF n
  <2> QED
    BY <1>1, <2>2, <2>3
<1>8. Nested(c + 1, t)
  <2>1. ASSUME NEW i \in 1..Len(t)
        PROVE  /\ IsFrame(t[i]) /\ t[i].id \in 1..((c + 1) - 1)
               /\ i = 1 => t[i].id = 1 /\ t[i].parent = Root /\ t[i].kind = "source_file"
               /\ i # 1 => t[i].parent = t[i - 1].id /\ t[i].parent < t[i].id
    <3>1. CASE i = n + 1
      BY <3>1, <1>1, <1>3, <1>7
    <3>2. CASE i \in 1..n
      <4>1. i # 1 => i - 1 \in 1..n
        <5> HIDE DEF n
        <5> QED
          BY <3>2, <1>1
      <4> QED
        BY <3>2, <4>1, <1>3, <1>6 DEF Whole, Nested
    <3> QED
      BY <3>1, <3>2, <1>4
  <2> QED
    BY <2>1, <1>3 DEF Nested
<1>9. Accounted(a, c + 1, t, u)
  BY <1>1, <1>5, <1>6, <1>7 DEF Whole, Accounted
<1>10. Rooted(a, t)
  BY <1>5 DEF Whole, Rooted
<1> QED
  BY <1>8, <1>9, <1>10 DEF Whole, t

\* An id is set aside for a unit literal.
LEMMA UnitWhole ==
  ASSUME NEW a, NEW c, NEW s, NEW u, Whole(a, c, s, u)
  PROVE  Whole(a, c + 1, s, u \cup {c})
<1>1. c \in Nat /\ c \notin DOMAIN a
  BY DEF Whole, Accounted
<1>2. \A id : id \in 1..((c + 1) - 1) <=> id \in 1..(c - 1) \/ (id = c /\ c > 0)
  BY <1>1
<1>3. ~Open(s, c) /\ c \notin 1..(c - 1)
  BY <1>1 DEF Whole, Nested, Open
<1>4. c > 0
  <2>1. c \in Nat \ {0}
    BY DEF Whole, Accounted
  <2> QED
    BY <2>1
<1> QED
  BY <1>1, <1>2, <1>3, <1>4 DEF Whole, Nested, Accounted, Rooted

\* The innermost method adds its node and returns.
LEMMA PopWhole ==
  ASSUME NEW a, NEW c, NEW s, NEW u, Whole(a, c, s, u), s # << >>,
         NEW node, node.kind = s[Len(s)].kind, node.parent = s[Len(s)].parent
  PROVE  Whole(Added(a, s[Len(s)].id, node), c, Front(s), u)
<1> DEFINE n == Len(s)
           k == s[n].id
           b == Added(a, k, node)
           t == Front(s)
<1>1. c \in Nat /\ n \in Nat /\ n \in 1..n /\ k \in 1..(c - 1) /\ Open(s, k)
  BY TopFacts DEF Whole, Accounted
<1>2. PICK S : s \in Seq(S)
  BY DEF Whole, Nested
<1>3. t \in Seq(S) /\ Len(t) = n - 1 /\ \A i \in 1..(n - 1) : t[i] = s[i]
  <2>1. \A i \in 1..(n - 1) : s[i] \in S
    <3>1. \A i \in 1..(n - 1) : i \in 1..n
      <4> HIDE DEF n
      <4> QED
        BY <1>1
    <3> QED
      BY <3>1, <1>2
  <2>2. t = [i \in 1..(n - 1) |-> s[i]]
    <3>1. n - 1 \in Nat
      <4> HIDE DEF n
      <4> QED
        BY <1>1
    <3>2. t = SubSeq(s, 1, n - 1)
      BY DEF Front
    <3> QED
      BY <3>1, <3>2, <1>2, SubSeqProperties
  <2>3. n - 1 \in Nat
    <3> HIDE DEF n
    <3> QED
      BY <1>1
  <2> HIDE DEF t, n
  <2> QED
    BY <2>1, <2>2, <2>3
<1>4. /\ DOMAIN b = DOMAIN a \cup {k} /\ b[k] = node
      /\ \A id \in DOMAIN a : id # k => b[id] = a[id]
  BY DEF Added
<1> HIDE DEF b, t
<1>5. \A i : i \in 1..n <=> i \in 1..(n - 1) \/ i = n
  <2> HIDE DEF n
  <2> QED
    BY <1>1
<1>6. \A id : Open(s, id) <=> Open(t, id) \/ id = k
  BY <1>3, <1>5 DEF Open
<1>7. \A i \in 1..(n - 1) : i # 1 => i - 1 \in 1..(n - 1)
  <2> HIDE DEF n
  <2> QED
    BY <1>1
<1>8. Nested(c, t)
  BY <1>3, <1>5, <1>7 DEF Whole, Nested
<1>9. Accounted(b, c, t, u)
  BY <1>1, <1>4, <1>6 DEF Whole, Accounted
<1>10. \/ k = 1 /\ b[k].parent = Root /\ b[k].kind = "source_file"
       \/ k # 1 /\ b[k].parent \in 1..(k - 1) /\ Open(t, b[k].parent)
  <2>1. CASE n = 1
    BY <2>1, <1>1, <1>4 DEF Whole, Nested
  <2>2. CASE n # 1
    <3>1. n - 1 \in 1..(n - 1) /\ n - 1 \in 1..n
      <4> HIDE DEF n
      <4> QED
        BY <2>2, <1>1
    <3>2. node.parent = s[n - 1].id /\ node.parent < k /\ node.parent \in 1..(c - 1)
      BY <2>2, <3>1, <1>1 DEF Whole, Nested
    <3>3. node.parent \in 1..(k - 1) /\ k # 1
      <4> HIDE DEF k
      <4> QED
        BY <3>2, <1>1
    <3>4. Open(t, node.parent)
      BY <3>1, <3>2, <1>3 DEF Open
    <3> QED
      BY <3>3, <3>4, <1>4
  <2> QED
    BY <2>1, <2>2
<1>11. Rooted(b, t)
  <2> HIDE DEF k
  <2> QED
    BY <1>4, <1>6, <1>10 DEF Whole, Rooted
<1> QED
  BY <1>8, <1>9, <1>11 DEF Whole, b, t

-------------------------------------------------------------------------------
(* The steps.                                                                 *)

\* What a method has read, and the type and the name it noted, is its progress.
LEMMA ProgressSame ==
  ASSUME NEW f, IsFrame(f)
  PROVE  /\ SameFrame(f, f) /\ SameFrame(f, Consume(f)) /\ SameFrame(f, Drop(f))
         /\ \A x : /\ SameFrame(f, [f EXCEPT !.name = x])
                   /\ SameFrame(f, [f EXCEPT !.ty = x])
                   /\ SameFrame(f, [f EXCEPT !.pending = x])
  BY DEF SameFrame, IsFrame, Consume, Drop

LEMMA SameTwice ==
  ASSUME NEW f, NEW g, NEW h, SameFrame(f, g), SameFrame(g, h)
  PROVE  SameFrame(f, h)
  BY DEF SameFrame

LEMMA ConsumeSame ==
  ASSUME NEW f, NEW g, SameFrame(f, g)
  PROVE  SameFrame(f, Consume(g))
<1>1. IsFrame(g)
  BY DEF SameFrame
<1>2. SameFrame(g, Consume(g))
  BY <1>1, ProgressSame
<1> QED
  BY <1>2, SameTwice

LEMMA TypeSame ==
  ASSUME IsFrame(Top), NEW ty
  PROVE  SameFrame(Top, SetType(ty))
<1>1. SameFrame(Top, Top) /\ SameFrame(Top, [Top EXCEPT !.ty = ty])
  BY ProgressSame
<1> QED
  BY <1>1 DEF SetType

\* The innermost method gets on.
LEMMA ReplaceSame ==
  ASSUME NEW c, Nested(c, calls), calls # << >>, NEW f, SameFrame(Top, f)
  PROVE  /\ SameStack(calls, ReplaceTop(f)) /\ ReplaceTop(f) # << >>
         /\ Len(ReplaceTop(f)) = Len(calls) /\ ReplaceTop(f)[Len(calls)].id = Top.id
<1> DEFINE n == Len(calls)
           t == ReplaceTop(f)
<1>1. PICK S : calls \in Seq(S)
  BY DEF Nested
<1>2. n \in Nat /\ n \in 1..n /\ n # 0
  <2>1. n \in Nat /\ n # 0
    BY <1>1
  <2> HIDE DEF n
  <2> QED
    BY <2>1
<1>3. t \in Seq(S \cup {f}) /\ Len(t) = n /\ t[n] = f /\ \A i \in 1..n : i # n => t[i] = calls[i]
  BY <1>1, <1>2 DEF ReplaceTop
<1>4. \A i \in 1..n : SameFrame(calls[i], calls[i])
  BY ProgressSame DEF Nested
<1>5. SameFrame(calls[n], f)
  BY DEF Top, Last
<1> HIDE DEF t, n
<1>6. \A i \in 1..n : SameFrame(calls[i], t[i])
  BY <1>3, <1>4, <1>5
<1>7. t # << >>
  BY <1>2, <1>3
<1>8. f.id = Top.id
  BY DEF SameFrame
<1> QED
  BY <1>3, <1>6, <1>7, <1>8 DEF SameStack, n, t

\* The innermost method is in order while the walk runs without an error.
LEMMA RunningFacts ==
  ASSUME BuilderInv, Running, ~errors
  PROVE  /\ Whole(arena, counter, calls, units) /\ Nested(counter, calls) /\ calls # << >>
         /\ IsFrame(Top) /\ Top = calls[Len(calls)]
<1>1. Whole(arena, counter, calls, units) /\ calls # << >>
  BY DEF BuilderInv, Running
<1>2. Len(calls) \in 1..Len(calls)
  BY <1>1, TopFacts DEF Whole, Accounted
<1> QED
  BY <1>1, <1>2 DEF Whole, Nested, Top, Last

\* The walk stops for good, or an error is noted.
LEMMA GivenUp ==
  ASSUME Running, outcome' = "panic" \/ (errors' /\ outcome' = outcome)
  PROVE  BuilderInv'
  BY DEF BuilderInv, Running

\* The walk goes on and no error was noted yet.
LEMMA GoesOn ==
  ASSUME Running, outcome' = outcome, errors' = errors,
         ~errors => Whole(arena', counter', calls', units')
  PROVE  BuilderInv'
  BY DEF BuilderInv, Running

\* A method's progress and nothing else.
LEMMA ProgressKeeps ==
  ASSUME BuilderInv, Running, NEW f, IsFrame(Top) => SameFrame(Top, f), calls' = ReplaceTop(f)
  PROVE  ~errors => Whole(arena, counter, calls', units)
<1> SUFFICES ASSUME ~errors PROVE Whole(arena, counter, calls', units)
  OBVIOUS
<1>1. Whole(arena, counter, calls, units) /\ SameStack(calls, calls')
  BY RunningFacts, ReplaceSame
<1> QED
  BY <1>1, KeepWhole

\* A leaf is added and the innermost method gets on.
LEMMA LeafKeeps ==
  ASSUME BuilderInv, Running, NEW node, node.parent = Top.id, add_node(counter, node),
         counter' = counter + 1,
         NEW f, IsFrame(Top) => SameFrame(Top, f), calls' = ReplaceTop(f)
  PROVE  ~errors => Whole(arena', counter', calls', units)
<1> SUFFICES ASSUME ~errors PROVE Whole(arena', counter', calls', units)
  OBVIOUS
<1>1. /\ Whole(arena, counter, calls', units) /\ calls' # << >>
      /\ node.parent = calls'[Len(calls')].id
  <2>1. /\ Whole(arena, counter, calls, units) /\ Nested(counter, calls) /\ calls # << >>
        /\ SameFrame(Top, f)
    BY RunningFacts
  <2> QED
    BY <2>1, ReplaceSame, KeepWhole
<1>2. arena' = Added(arena, counter, node)
  BY DEF add_node, Added
<1> QED
  BY <1>1, <1>2, LeafWhole

LEMMA BuildLeafStep ==
  ASSUME BuilderInv, NEW kind, NEW name, BuildLeaf(kind, name)
  PROVE  BuilderInv'
<1> DEFINE f == Consume(IF Next_field.what = "identifier"
                        THEN [Top EXCEPT !.name = name] ELSE SetType("node"))
           node == Node(kind, Top.id, name, NoType, FALSE)
<1>1. /\ Running /\ calls' = ReplaceTop(f) /\ errors' = errors /\ units' = units
      /\ add_node(counter, node) /\ counter' = counter + 1 /\ TakePendingName
  BY DEF BuildLeaf, Reading
<1>2. IsFrame(Top) => SameFrame(Top, f)
  <2> DEFINE g == IF Next_field.what = "identifier"
                  THEN [Top EXCEPT !.name = name] ELSE SetType("node")
  <2>1. IsFrame(Top) => SameFrame(Top, [Top EXCEPT !.name = name]) /\ SameFrame(Top, SetType("node"))
    BY ProgressSame, TypeSame
  <2>2. IsFrame(Top) => SameFrame(Top, g)
    BY <2>1
  <2> HIDE DEF g
  <2>3. IsFrame(Top) => SameFrame(Top, Consume(g))
    BY <2>2, ConsumeSame
  <2> QED
    BY <2>3 DEF g
<1>3. node.parent = Top.id
  BY DEF Node
<1> HIDE DEF f, node
<1>4. ~errors => Whole(arena', counter', calls', units')
  BY <1>1, <1>2, <1>3, LeafKeeps
<1>5. outcome' = "panic" \/ outcome' = outcome
  BY <1>1 DEF TakePendingName
<1> QED
  BY <1>1, <1>4, <1>5, GivenUp, GoesOn

LEMMA BuildNodeStep ==
  ASSUME BuilderInv, NEW kind, NEW public, BuildNode(kind, public)
  PROVE  BuilderInv'
<1> DEFINE f == Consume(SetType("node"))
           g == Frame(kind, counter, Top.id, public)
           t == ReplaceTop(f)
<1>1. /\ Running /\ calls' = Append(t, g) /\ arena' = arena /\ units' = units
      /\ counter' = counter + 1 /\ TakePendingName /\ collect_errors
  BY DEF BuildNode, Reading
<1>2. IsFrame(Top) => SameFrame(Top, f)
  BY TypeSame, ConsumeSame
<1>3. IsFrame(g) /\ g.id = counter /\ g.parent = Top.id
  BY DEF Frame, IsFrame
<1>4. ASSUME ~errors PROVE Whole(arena', counter', calls', units')
  <2>1. /\ Whole(arena, counter, calls, units) /\ Nested(counter, calls) /\ calls # << >>
        /\ SameFrame(Top, f)
    BY <1>1, <1>2, <1>4, RunningFacts
  <2> HIDE DEF f, g
  <2>2. /\ Whole(arena, counter, t, units) /\ t # << >> /\ t[Len(t)].id = Top.id
    BY <2>1, ReplaceSame, KeepWhole
  <2> HIDE DEF t
  <2> QED
    BY <1>1, <1>3, <2>2, PushWhole
<1>5. outcome' = "panic" \/ outcome' = outcome
  BY <1>1 DEF TakePendingName
<1>6. errors' = TRUE \/ errors' = errors
  BY <1>1 DEF collect_errors
<1> HIDE DEF f, g, t
<1> QED
  BY <1>1, <1>4, <1>5, <1>6, GivenUp, GoesOn

LEMMA BuildFieldNameStep ==
  ASSUME BuilderInv, NEW name, BuildFieldName(name)
  PROVE  BuilderInv'
<1> DEFINE f == [Top EXCEPT !.pending = TRUE]
           node == Node("identifier", Top.id, name, NoType, FALSE)
<1>1. /\ Running /\ calls' = ReplaceTop(f) /\ errors' = errors /\ units' = units
      /\ add_node(counter, node) /\ counter' = counter + 1 /\ outcome' = outcome
  BY DEF BuildFieldName, Reading
<1>2. IsFrame(Top) => SameFrame(Top, f)
  BY ProgressSame
<1>3. node.parent = Top.id
  BY DEF Node
<1> HIDE DEF f, node
<1>4. ~errors => Whole(arena', counter', calls', units')
  BY <1>1, <1>2, <1>3, LeafKeeps
<1> QED
  BY <1>1, <1>4, GoesOn

LEMMA BuildSimpleTypeStep ==
  ASSUME BuilderInv, NEW ty, BuildSimpleType(ty)
  PROVE  BuilderInv'
<1> DEFINE f == Consume(SetType(ty))
<1>1. /\ Running /\ calls' = ReplaceTop(f)
      /\ UNCHANGED <<arena, counter, errors, outcome, units>>
  BY DEF BuildSimpleType, Reading
<1>2. IsFrame(Top) => SameFrame(Top, f)
  BY TypeSame, ConsumeSame
<1> HIDE DEF f
<1> QED
  BY <1>1, <1>2, ProgressKeeps, GoesOn

LEMMA BuildTokenStep ==
  ASSUME BuilderInv, NEW known, BuildToken(known)
  PROVE  BuilderInv'
<1> DEFINE f == Consume(Top)
<1>1. /\ Running /\ calls' = ReplaceTop(f) /\ UNCHANGED <<arena, counter, units>>
      /\ \/ UNCHANGED <<errors, outcome>>
         \/ outcome' = "panic"
         \/ errors' /\ outcome' = outcome
  BY DEF BuildToken, Reading
<1>2. IsFrame(Top) => SameFrame(Top, f)
  BY ProgressSame
<1> HIDE DEF f
<1>3. ~errors => Whole(arena', counter', calls', units')
  BY <1>1, <1>2, ProgressKeeps
<1> QED
  BY <1>1, <1>3, GivenUp, GoesOn

LEMMA SkipStep ==
  ASSUME BuilderInv, Skip
  PROVE  BuilderInv'
<1>1. /\ Running /\ calls' = ReplaceTop(Drop(Top))
      /\ UNCHANGED <<arena, counter, errors, outcome, units>>
  BY DEF Skip, Reading
<1>2. IsFrame(Top) => SameFrame(Top, Drop(Top))
  BY ProgressSame
<1> QED
  BY <1>1, <1>2, ProgressKeeps, GoesOn

LEMMA ImplicitUnitStep ==
  ASSUME BuilderInv, ImplicitUnit
  PROVE  BuilderInv'
<1>1. /\ Running /\ calls' = ReplaceTop(Drop(Top)) /\ UNCHANGED <<arena, errors, outcome>>
      /\ counter' = counter + 1 /\ units' = units \cup {counter}
  BY DEF ImplicitUnit, Reading
<1>2. IsFrame(Top) => SameFrame(Top, Drop(Top))
  BY ProgressSame
<1>3. ~errors => Whole(arena, counter, calls', units)
  BY <1>1, <1>2, ProgressKeeps
<1>4. ~errors => Whole(arena', counter', calls', units')
  BY <1>1, <1>3, UnitWhole
<1> QED
  BY <1>1, <1>4, GoesOn

LEMMA CreateErrorStatementStep ==
  ASSUME BuilderInv, NEW noted \in BOOLEAN, create_error_statement(noted)
  PROVE  BuilderInv'
<1> DEFINE f == Consume(Top)
           node == Node("identifier", Top.id, NoName, NoType, FALSE)
<1>1. /\ Running /\ calls' = ReplaceTop(f) /\ UNCHANGED <<outcome, units>>
      /\ add_node(counter, node) /\ counter' = counter + 1 /\ errors' = (errors \/ noted)
  BY DEF create_error_statement, Reading
<1>2. IsFrame(Top) => SameFrame(Top, f)
  BY ProgressSame
<1>3. node.parent = Top.id
  BY DEF Node
<1> HIDE DEF f, node
<1>4. ~errors => Whole(arena', counter', calls', units')
  BY <1>1, <1>2, <1>3, LeafKeeps
<1> QED
  BY <1>1, <1>4 DEF BuilderInv, Running

\* What notes an error, panics or leaves all but the count of faults alone.
LEMMA FaultStep ==
  ASSUME BuilderInv,
         \/ UnwrapMissing \/ PlaceholderForMissing \/ AbandonFunction
         \/ create_error_definition \/ ErrorType \/ create_error_block \/ ErrorInList
  PROVE  BuilderInv'
<1>1. /\ Running
      /\ \/ outcome' = "panic"
         \/ errors' /\ outcome' = outcome
         \/ UNCHANGED <<arena, counter, errors, calls, outcome, units>>
  BY DEF UnwrapMissing, PlaceholderForMissing, AbandonFunction, create_error_definition,
         ErrorType, create_error_block, ErrorInList, Reading
<1> QED
  BY <1>1, GivenUp DEF BuilderInv

LEMMA CloseStep ==
  ASSUME BuilderInv, Close
  PROVE  BuilderInv'
<1> DEFINE node == Node(Top.kind, Top.parent, Top.name, Top.ty, Top.public)
<1>1. /\ Running /\ add_node(Top.id, node) /\ calls' = Front(calls)
      /\ UNCHANGED <<counter, errors, units>>
      /\ outcome' = IF Len(calls) > 1 THEN outcome ELSE IF errors THEN "err" ELSE "ok"
  BY DEF Close
<1>2. node.kind = Top.kind /\ node.parent = Top.parent /\ arena' = Added(arena, Top.id, node)
  BY <1>1 DEF add_node, Added, Node
<1> HIDE DEF node
<1>3. ~errors => Whole(arena', counter', calls', units')
  BY <1>1, <1>2, RunningFacts, PopWhole
<1>4. ~errors /\ ~(Len(calls) > 1) => calls' = << >>
  <2> SUFFICES ASSUME ~errors, ~(Len(calls) > 1) PROVE calls' = << >>
    OBVIOUS
  <2>1. calls # << >> /\ \E S : calls \in Seq(S)
    BY <1>1, RunningFacts DEF Nested
  <2>2. Len(calls) = 1
    <3>1. Nested(counter, calls) /\ counter \in Nat
      BY <1>1, RunningFacts DEF Whole, Accounted
    <3> DEFINE n == Len(calls)
    <3>2. n \in Nat /\ n \in 1..n /\ ~(n > 1)
      BY <2>1, <3>1, TopFacts
    <3> HIDE DEF n
    <3>3. n = 1
      BY <3>2
    <3> QED
      BY <3>3 DEF n
  <2> QED
    BY <1>1, <2>1, <2>2 DEF Front
<1> QED
  BY <1>1, <1>3, <1>4 DEF BuilderInv, Running

-------------------------------------------------------------------------------
(* The theorem.                                                               *)

\* Before the walk, build_ast has drawn the id of the source file.
LEMMA InitWhole == BuilderInit => BuilderInv
<1> SUFFICES ASSUME BuilderInit PROVE BuilderInv
  OBVIOUS
<1> DEFINE f == Frame("source_file", 1, Root, FALSE)
<1>1. /\ IsFrame(f) /\ f.id = 1 /\ f.parent = Root /\ f.kind = "source_file"
  BY DEF Frame, IsFrame
<1>2. calls = << f >> /\ counter = 2 /\ units = {} /\ arena = << >> /\ outcome = "running"
  BY DEF BuilderInit
<1> HIDE DEF f
<1>3. calls \in Seq({f}) /\ Len(calls) = 1 /\ calls[1] = f /\ \A i \in 1..1 : i = 1
  BY <1>2
<1>4. Nested(counter, calls)
  <2>1. \A i \in 1..Len(calls) : i = 1 /\ calls[i] = f
    BY <1>3
  <2>2. 1 \in 1..(counter - 1)
    BY <1>2
  <2>3. \E S : calls \in Seq(S)
    BY <1>3
  <2> QED
    BY <1>1, <2>1, <2>2, <2>3 DEF Nested
<1>5. \A id \in 1..(counter - 1) : Open(calls, id)
  BY <1>1, <1>2, <1>3 DEF Open
<1>6. DOMAIN arena = {}
  BY <1>2
<1>7. Accounted(arena, counter, calls, units) /\ Rooted(arena, calls)
  BY <1>2, <1>5, <1>6 DEF Accounted, Rooted
<1> QED
  BY <1>2, <1>4, <1>7 DEF BuilderInv, Whole

\* BuilderInv is inductive.
LEMMA StepWhole == BuilderInv /\ [BuilderNext]_builderVars => BuilderInv'
<1> SUFFICES ASSUME BuilderInv, [BuilderNext]_builderVars PROVE BuilderInv'
  OBVIOUS
<1>1. ASSUME NEW kind \in DOMAIN Shape, NEW name \in Names \cup {NoName}, BuildLeaf(kind, name)
      PROVE  BuilderInv'
  BY <1>1, BuildLeafStep
<1>2. ASSUME NEW kind \in DOMAIN Shape, NEW public \in BOOLEAN, BuildNode(kind, public)
      PROVE  BuilderInv'
  BY <1>2, BuildNodeStep
<1>3. ASSUME NEW name \in Names, BuildFieldName(name) PROVE BuilderInv'
  BY <1>3, BuildFieldNameStep
<1>4. ASSUME NEW ty \in SimpleTypes, BuildSimpleType(ty) PROVE BuilderInv'
  BY <1>4, BuildSimpleTypeStep
<1>5. ASSUME NEW known \in BOOLEAN, BuildToken(known) PROVE BuilderInv'
  BY <1>5, BuildTokenStep
<1>6. ASSUME NEW noted \in BOOLEAN, create_error_statement(noted) PROVE BuilderInv'
  BY <1>6, CreateErrorStatementStep
<1>7. CASE Skip
  BY <1>7, SkipStep
<1>8. CASE ImplicitUnit
  BY <1>8, ImplicitUnitStep
<1>9. CASE Close
  BY <1>9, CloseStep
<1>10. CASE UNCHANGED builderVars
  BY <1>10 DEF BuilderInv, builderVars
<1> QED
  BY <1>1, <1>2, <1>3, <1>4, <1>5, <1>6, <1>7, <1>8, <1>9, <1>10, FaultStep DEF BuilderNext

\* The walk up the parent map, as the model's recursion reads it.
climb(f, n) ==
  IF n \notin DOMAIN arena THEN Root
  ELSE IF arena[n].parent = Root THEN n
  ELSE IF arena[n].parent < n THEN f[arena[n].parent] ELSE Root

Climbs(f) == f = [n \in Nat |-> climb(f, n)]

\* In an arena without open parents the walk ends at the source file.
LEMMA AllReachTheSource ==
  ASSUME DOMAIN arena \subseteq Nat, Rooted(arena, << >>), NEW id \in DOMAIN arena
  PROVE  find_source_file_for_node(id) = 1
<1> DEFINE up == CHOOSE f : Climbs(f)
           g == [n \in Nat |-> IF n \in DOMAIN arena THEN 1 ELSE Root]
           Lost == {n \in DOMAIN arena : up[n] # 1 \/ 1 \notin DOMAIN arena}
<1>1. \A n \in DOMAIN arena :
        \/ n = 1 /\ arena[n].parent = Root /\ arena[n].kind = "source_file"
        \/ /\ arena[n].parent \in 1..(n - 1) /\ arena[n].parent \in DOMAIN arena
           /\ arena[n].parent < n /\ arena[n].parent # Root
  <2>1. \A i : ~Open(<< >>, i)
    BY DEF Open
  <2>2. \A n \in Nat : \A p \in 1..(n - 1) : p < n /\ p # 0
    OBVIOUS
  <2> QED
    BY <2>1, <2>2 DEF Rooted, Root
<1>2. Climbs(g)
  <2>1. ASSUME NEW n \in Nat PROVE g[n] = climb(g, n)
    BY <1>1 DEF climb
  <2> QED
    BY <2>1 DEF Climbs
<1>3. Climbs(up)
  BY <1>2
<1> HIDE DEF up
<1>4. \A n \in DOMAIN arena : up[n] = climb(up, n)
  BY <1>3 DEF Climbs
<1>5. Lost = {}
  <2> SUFFICES ASSUME Lost # {} PROVE FALSE
    OBVIOUS
  <2>1. PICK n \in Lost : \A m \in Lost : n <= m
    BY LeastNumber
  <2>2. n \in DOMAIN arena /\ n \in Nat
    OBVIOUS
  <2>3. n # 1
    BY <2>1, <2>2, <1>1, <1>4 DEF climb, Root
  <2>4. /\ arena[n].parent \in DOMAIN arena /\ arena[n].parent < n
        /\ up[n] = up[arena[n].parent]
    BY <2>2, <2>3, <1>1, <1>4 DEF climb
  <2>5. arena[n].parent \in Lost
    BY <2>4
  <2>6. arena[n].parent \in Nat
    BY <2>4
  <2> QED
    BY <2>1, <2>2, <2>4, <2>5, <2>6
<1>6. up[id] = 1 /\ 1 \in DOMAIN arena /\ arena[1].kind = "source_file"
  BY <1>5, <1>1
<1>7. find_source_file_for_node(id) =
        IF up[id] # Root /\ arena[up[id]].kind = "source_file" THEN up[id] ELSE Root
  BY DEF find_source_file_for_node, up, Climbs, climb
<1> QED
  BY <1>6, <1>7 DEF Root

\* A tree without noted errors is whole when build_ast returns.
LEMMA WholeAtTheEnd == BuilderInv => BuildOkIsWhole
<1> SUFFICES ASSUME BuilderInv, outcome = "ok"
             PROVE  /\ DOMAIN arena = (1 .. counter - 1) \ units
                    /\ \A id \in DOMAIN arena : find_source_file_for_node(id) = 1
  BY DEF BuildOkIsWhole
<1>1. calls = << >> /\ Whole(arena, counter, << >>, units)
  BY DEF BuilderInv
<1>2. \A i : ~Open(<< >>, i)
  BY DEF Open
<1>3. DOMAIN arena = (1 .. counter - 1) \ units
  BY <1>1, <1>2 DEF Whole, Accounted
<1>4. \A i \in 1..(counter - 1) : i \in Nat
  OBVIOUS
<1>5. DOMAIN arena \subseteq Nat
  BY <1>3, <1>4
<1> QED
  BY <1>1, <1>3, <1>5, AllReachTheSource DEF Whole

\* Whatever tree is built, with whatever faults, the arena that build_ast hands
\* out holds every id it drew, the unit literals of value-less returns excepted,
\* and find_source_file_for_node finds the source file from every node.
THEOREM BuildOkIsWholeHolds == BuilderInit /\ [][BuilderNext]_builderVars => []BuildOkIsWhole
  BY InitWhole, StepWhole, WholeAtTheEnd, PTL
===============================================================================
