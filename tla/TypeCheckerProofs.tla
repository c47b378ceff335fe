------------------------- MODULE TypeCheckerProofs -------------------------
(***************************************************************************)
(* What the names of a program mean, for every program.                    *)
(*                                                                         *)
(* push_scope and pop_scope are balanced on every path through the bodies: *)
(* the scopes from the current one to the root are the open blocks.  The   *)
(* argument needs that the scope about to be pushed is none of the open    *)
(* ones (Fresh), so that what is written to it disturbs none of them, and  *)
(* that the open scopes are numbered upwards, so that a declaration in the *)
(* current one is invisible in the others.                                 *)
(*                                                                         *)
(* Scoping is lexical: a parent is older than its scope, so that the walk  *)
(* of lookup ends, and it passes the open blocks from the innermost to the *)
(* outermost.  That is an induction, by the least number for which the     *)
(* claim fails (LeastNumber).                                              *)
(*                                                                         *)
(* A name of the root scope means its first definition: the loops over the *)
(* definitions register it, and no body reaches the root scope.            *)
(***************************************************************************)
EXTENDS TypeChecker, SequenceTheorems, FiniteSetTheorems, WellFoundedInduction, Integers, TLAPS

Definitions == UNION {{p[i] : i \in DOMAIN p} : p \in Programs}
Bodies == Definitions \cup UNION {{d.methods[i] : i \in 1..Len(d.methods)} : d \in Definitions}

Selves == {None} \cup {<<"Struct", n>> : n \in Names}

ParameterTypes == UNION {{parameters(d, self)[n] : n \in Names} : d \in Bodies, self \in Selves}

\* The types a program can give a variable.
Written == {None} \cup Annotations \cup {d.ret : d \in Definitions} \cup ParameterTypes

Declarations == [Names -> Written]
Blocks == [scope : ScopeIds, vars : Declarations]

Kinds == {"body", "if", "else", "loop", "block"}

Typed ==
    /\ parent \in [ScopeIds -> ScopeIds]
    /\ variables \in [ScopeIds -> Declarations]
    /\ next_scope_id \in 1..(MaxScopes + 1)
    /\ env \in Seq(Blocks)
    /\ frames \in Seq(Kinds)
    /\ program \in Programs
    /\ pos \in 1..Len(program)

Fresh == \A i \in DOMAIN env : env[i].scope < next_scope_id

Inv == Typed /\ ScopesAreBlocks /\ Fresh

bystanders == <<parent, variables, next_scope_id, current_scope, env, frames, program>>

LEMMA ListFacts ==
  ASSUME NEW s, IsList(s)
  PROVE  /\ Len(s) \in Nat /\ DOMAIN s = 1..Len(s)
         /\ s = <<>> \/ 1 \in DOMAIN s
<1> DEFINE S == Range(s)
<1>1. s \in Seq(S)
  BY DEF IsList
<1> HIDE DEF S
<1> QED
  BY <1>1

LEMMA ListIs ==
  ASSUME NEW n \in Nat, NEW s, s = [i \in 1..n |-> s[i]]
  PROVE  IsList(s)
BY DEF IsList, Range

LEMMA InitInv == Init => Inv
<1> SUFFICES ASSUME Init PROVE Inv
  OBVIOUS
<1> DEFINE top == [scope |-> root_scope, vars |-> EmptyScope]
<1>1. /\ 0 \in ScopeIds
      /\ EmptyScope \in Declarations
  BY TableAssumption DEF EmptyScope, Declarations, Written, ScopeIds
<1>2. /\ env = <<top>>
      /\ frames = <<>>
      /\ top \in Blocks
  BY <1>1 DEF Init, root_scope, Blocks
<1>3. /\ env \in Seq(Blocks)
      /\ Len(env) = 1 /\ DOMAIN env = {1} /\ env[1] = top
  BY <1>2
<1>4. Typed
  BY <1>1, <1>2, <1>3, TableAssumption, ProgramsAssumption, ListFacts DEF Typed, Init, TableInit, root_scope
<1>5. ScopesAreBlocks
  BY <1>1, <1>2, <1>3 DEF ScopesAreBlocks, Init, TableInit, root_scope
<1>6. Fresh
  BY <1>3 DEF Fresh, Init, TableInit, root_scope
<1> QED
  BY <1>4, <1>5, <1>6 DEF Inv

\* Advance moves the position inside the program.
LEMMA AdvanceTyped ==
  ASSUME NEW next, program \in Programs, pos \in 1..Len(program), Advance(next)
  PROVE  pos' \in 1..Len(program)
BY ProgramsAssumption, ListFacts DEF Advance

\* Steps that touch neither the scopes nor the blocks.
LEMMA Bystanders ==
  ASSUME Inv, UNCHANGED bystanders, pos' \in 1..Len(program)
  PROVE  Inv'
BY DEF Inv, Typed, ScopesAreBlocks, Fresh, bystanders

\* What the invariant says of the open scopes.
LEMMA OpenScopes ==
  ASSUME Inv
  PROVE  /\ Len(env) \in Nat /\ Len(frames) \in Nat /\ Len(env) = Len(frames) + 1
         /\ DOMAIN env = 1..Len(env)
         /\ \A i \in 1..Len(env) : /\ env[i] \in Blocks
                                   /\ env[i].scope \in ScopeIds
                                   /\ env[i].scope < next_scope_id
                                   /\ env[i].scope # next_scope_id
         /\ current_scope = env[Len(env)].scope
         /\ current_scope \in ScopeIds
<1>1. /\ Len(env) \in Nat /\ Len(frames) \in Nat /\ Len(env) = Len(frames) + 1
      /\ DOMAIN env = 1..Len(env)
  BY DEF Inv, Typed, ScopesAreBlocks
<1>2. \A i \in 1..Len(env) : env[i] \in Blocks
  BY DEF Inv, Typed
<1>3. \A i \in 1..Len(env) : env[i].scope \in ScopeIds
  BY <1>2 DEF Blocks
<1>4. \A i \in 1..Len(env) : env[i].scope < next_scope_id
  BY <1>1 DEF Inv, Fresh
<1>5. \A i \in 1..Len(env) : env[i].scope # next_scope_id
  BY <1>3, <1>4 DEF Inv, Typed, ScopeIds
<1>6. current_scope = env[Len(env)].scope /\ current_scope \in ScopeIds
  BY <1>1, <1>3 DEF Inv, ScopesAreBlocks
<1> QED
  BY <1>1, <1>2, <1>3, <1>4, <1>5, <1>6

\* push_scope and the start of a block.
LEMMA OpenInv ==
  ASSUME Inv, NEW kind \in Kinds, NEW declared \in Declarations,
         Open(kind, current_scope, env, declared),
         UNCHANGED program, pos' \in 1..Len(program)
  PROVE  Inv'
<1> DEFINE block == [scope |-> next_scope_id, vars |-> declared]
<1>1. /\ next_scope_id \in ScopeIds
      /\ parent' = [parent EXCEPT ![next_scope_id] = current_scope]
      /\ variables' = [variables EXCEPT ![next_scope_id] = declared]
      /\ current_scope' = next_scope_id
      /\ next_scope_id' = next_scope_id + 1
      /\ next_scope_id' \in 1..(MaxScopes + 1)
      /\ frames' = Append(frames, kind)
      /\ env' = Append(env, block)
  BY TableAssumption DEF Open, push_scope, Inv, Typed, ScopeIds
<1>2. block \in Blocks
  BY <1>1 DEF Blocks
<1>3. /\ Len(env') = Len(env) + 1
      /\ \A i \in 1..Len(env) : env'[i] = env[i]
      /\ env'[Len(env) + 1] = block
      /\ DOMAIN env' = 1..(Len(env) + 1)
      /\ DOMAIN env = 1..Len(env)
      /\ Len(env) \in Nat
  BY <1>1, <1>2 DEF Inv, Typed
<1>4. /\ Len(env) = Len(frames) + 1
      /\ env[1].scope = root_scope
      /\ current_scope = env[Len(env)].scope
      /\ current_scope \in ScopeIds
  BY OpenScopes DEF Inv, ScopesAreBlocks
<1>5. Typed'
  BY <1>1, <1>2, <1>4 DEF Inv, Typed
<1>6. Len(env') = Len(frames') + 1 /\ env'[1].scope = root_scope
  BY <1>1, <1>3, <1>4 DEF Inv, Typed
<1>7. current_scope' = env'[Len(env')].scope
  BY <1>1, <1>3
<1>8. \A i \in DOMAIN env' : variables'[env'[i].scope] = env'[i].vars
  <2> TAKE i \in DOMAIN env'
  <2>1. CASE i = Len(env) + 1
    BY <2>1, <1>1, <1>3 DEF Inv, Typed
  <2>2. CASE i \in 1..Len(env)
    <3>1. env[i].scope # next_scope_id /\ env[i].scope \in ScopeIds
      BY <2>2, OpenScopes
    <3>2. variables[env[i].scope] = env[i].vars
      BY <2>2, <1>3 DEF Inv, ScopesAreBlocks
    <3> QED
      BY <2>2, <3>1, <3>2, <1>1, <1>3 DEF Inv, Typed
  <2> QED
    BY <2>1, <2>2, <1>3
<1>9. \A i \in 1..(Len(env') - 1) : parent'[env'[i + 1].scope] = env'[i].scope
  <2> TAKE i \in 1..(Len(env') - 1)
  <2>1. CASE i = Len(env)
    BY <2>1, <1>1, <1>3, <1>4 DEF Inv, Typed
  <2>2. CASE i \in 1..(Len(env) - 1)
    <3>1. i + 1 \in 1..Len(env) /\ i \in 1..Len(env)
      BY <2>2, <1>3
    <3>2. env[i + 1].scope # next_scope_id /\ env[i + 1].scope \in ScopeIds
      BY <3>1, OpenScopes
    <3>3. parent[env[i + 1].scope] = env[i].scope
      BY <2>2 DEF Inv, ScopesAreBlocks
    <3> QED
      BY <3>1, <3>2, <3>3, <1>1, <1>3 DEF Inv, Typed
  <2> QED
    BY <2>1, <2>2, <1>3
<1>10. \A i, j \in DOMAIN env' : i < j => env'[i].scope < env'[j].scope
  <2> SUFFICES ASSUME NEW i \in DOMAIN env', NEW j \in DOMAIN env', i < j
               PROVE  env'[i].scope < env'[j].scope
    OBVIOUS
  <2>1. i \in 1..Len(env) /\ env[i].scope < next_scope_id
    BY <1>3 DEF Inv, Fresh
  <2>2. CASE j = Len(env) + 1
    BY <2>1, <2>2, <1>3
  <2>3. CASE j \in 1..Len(env)
    BY <2>1, <2>3, <1>3 DEF Inv, ScopesAreBlocks
  <2> QED
    BY <2>2, <2>3, <1>3
<1>11. Fresh'
  <2> SUFFICES ASSUME NEW i \in DOMAIN env' PROVE env'[i].scope < next_scope_id'
    BY DEF Fresh
  <2>1. CASE i = Len(env) + 1
    BY <2>1, <1>1, <1>3 DEF Inv, Typed
  <2>2. CASE i \in 1..Len(env)
    <3>1. env[i].scope < next_scope_id /\ env[i].scope \in ScopeIds
      BY <2>2, OpenScopes
    <3> QED
      BY <2>2, <3>1, <1>1, <1>3 DEF Inv, Typed, ScopeIds
  <2> QED
    BY <2>1, <2>2, <1>3
<1> QED
  BY <1>5, <1>6, <1>7, <1>8, <1>9, <1>10, <1>11 DEF Inv, ScopesAreBlocks

\* A declaration in the innermost block.
LEMMA DeclareInv ==
  ASSUME Inv, NEW name \in Names, NEW ty \in Written,
         variables' = insert_variable(name, ty), env' = Declared(name, ty),
         UNCHANGED <<parent, next_scope_id, current_scope, frames, program>>,
         pos' \in 1..Len(program)
  PROVE  Inv'
<1> DEFINE L == Len(env)
           declared == [env[L].vars EXCEPT ![name] = ty]
<1>1. /\ L \in 1..Len(env) /\ env[L] \in Blocks
      /\ current_scope = env[L].scope /\ current_scope \in ScopeIds
      /\ variables[current_scope] = env[L].vars
  BY OpenScopes DEF Inv, ScopesAreBlocks
<1>2. CASE env[L].vars[name] # None
  <2>1. UNCHANGED bystanders
    BY <1>1, <1>2 DEF insert_variable, can_insert, Declared, bystanders
  <2> QED
    BY <2>1, Bystanders
<1>3. CASE env[L].vars[name] = None
  <2>1. /\ variables' = [variables EXCEPT ![current_scope] = declared]
        /\ env' = [env EXCEPT ![L] = [env[L] EXCEPT !.vars = declared]]
    BY <1>1, <1>3 DEF insert_variable, can_insert, Declared, Inv, Typed
  <2>2. env[L].vars \in Declarations
    BY <1>1 DEF Blocks
  <2>3. declared \in Declarations
    BY <2>2 DEF Declarations
  <2>4. [env[L] EXCEPT !.vars = declared] = [scope |-> env[L].scope, vars |-> declared]
    BY <1>1 DEF Blocks
  <2>5. [scope |-> env[L].scope, vars |-> declared] \in Blocks
    BY <1>1, <2>3 DEF Blocks
  <2> DEFINE block == [scope |-> env[L].scope, vars |-> declared]
  <2>a. env' = [env EXCEPT ![L] = block] /\ block \in Blocks /\ env \in Seq(Blocks)
    BY <2>1, <2>4, <2>5 DEF Inv, Typed
  <2>b. block.scope = env[L].scope /\ block.vars = declared
    OBVIOUS
  <2> HIDE DEF block, declared
  <2>6. /\ env' \in Seq(Blocks) /\ Len(env') = L /\ DOMAIN env' = 1..L
        /\ env'[L] = block
        /\ \A i \in 1..L : i # L => env'[i] = env[i]
    BY <2>a, <1>1
  <2>7. \A i \in 1..L : env'[i].scope = env[i].scope
    BY <2>6, <2>b
  <2>8. Typed'
    BY <2>1, <2>3, <2>6, <1>1 DEF Inv, Typed
  <2>9. \A i \in 1..L : variables'[env'[i].scope] = env'[i].vars
    <3> TAKE i \in 1..L
    <3>1. CASE i = L
      BY <3>1, <2>1, <2>6, <2>b, <1>1 DEF Inv, Typed
    <3>2. CASE i # L
      <4>0. env[i].scope < env[L].scope
        BY <3>2, <1>1, OpenScopes DEF Inv, ScopesAreBlocks
      <4>1. env[i].scope \in ScopeIds /\ env[i].scope # current_scope
        BY <4>0, <1>1, OpenScopes DEF ScopeIds
      <4>2. variables[env[i].scope] = env[i].vars
        BY OpenScopes DEF Inv, ScopesAreBlocks
      <4> QED
        BY <3>2, <4>1, <4>2, <2>1, <2>6 DEF Inv, Typed
    <3> QED
      BY <3>1, <3>2
  <2>10. ScopesAreBlocks'
    <3>1. /\ Len(env') = Len(frames') + 1 /\ env'[1].scope = root_scope
          /\ current_scope' = env'[Len(env')].scope
      BY <2>6, <2>7, <1>1, OpenScopes DEF Inv, ScopesAreBlocks
    <3>2. \A i \in 1..(L - 1) : parent[env[i + 1].scope] = env[i].scope
      BY DEF Inv, ScopesAreBlocks
    <3>3. \A i \in 1..(L - 1) : parent'[env'[i + 1].scope] = env'[i].scope
      BY <3>2, <2>7, <1>1, OpenScopes
    <3>4. \A i, j \in 1..L : i < j => env'[i].scope < env'[j].scope
      BY <2>7, OpenScopes DEF Inv, ScopesAreBlocks
    <3> QED
      BY <3>1, <3>3, <3>4, <2>6, <2>9 DEF ScopesAreBlocks
  <2>11. Fresh'
    BY <2>6, <2>7, OpenScopes DEF Fresh
  <2> QED
    BY <2>8, <2>10, <2>11 DEF Inv
<1> QED
  BY <1>2, <1>3

\* pop_scope and the end of the innermost block.
LEMMA CloseInv ==
  ASSUME Inv, frames # <<>>, pop_scope, frames' = Front(frames), env' = Front(env),
         UNCHANGED program, pos' \in 1..Len(program)
  PROVE  Inv'
<1> DEFINE L == Len(env)
<1>1. L \in Nat /\ L >= 2
  BY OpenScopes DEF Inv, Typed
<1>2. /\ env' \in Seq(Blocks) /\ Len(env') = L - 1 /\ DOMAIN env' = 1..(L - 1)
      /\ \A i \in 1..(L - 1) : env'[i] = env[i]
  BY <1>1 DEF Inv, Typed, Front
<1>3. frames' \in Seq(Kinds) /\ Len(frames') = Len(frames) - 1
  <2>1. frames \in Seq(Kinds) /\ Len(frames) \in Nat /\ Len(frames) >= 1
    BY <1>1, OpenScopes DEF Inv, Typed
  <2>2. frames' = SubSeq(frames, 1, Len(frames) - 1)
    BY DEF Front
  <2>3. CASE Len(frames) >= 2
    BY <2>1, <2>2, <2>3
  <2>4. CASE Len(frames) = 1
    <3>1. SubSeq(frames, 1, 0) = <<>>
      BY SubSeqEmpty
    <3> QED
      BY <3>1, <2>2, <2>4
  <2>5. Len(frames) = 1 \/ Len(frames) >= 2
    <3>1. \A k \in Nat : k >= 1 => k = 1 \/ k >= 2
      OBVIOUS
    <3> QED
      BY <2>1, <3>1, Zenon
  <2> QED
    BY <2>3, <2>4, <2>5, Zenon
<1>4. /\ current_scope' = env[L - 1].scope
      /\ UNCHANGED <<parent, variables, next_scope_id>>
  BY <1>1, OpenScopes DEF Inv, ScopesAreBlocks, pop_scope
<1>5. Typed'
  BY <1>2, <1>3, <1>4 DEF Inv, Typed
<1>6. ScopesAreBlocks'
  <2>1. /\ Len(env') = Len(frames') + 1 /\ env'[1].scope = root_scope
        /\ current_scope' = env'[Len(env')].scope
    BY <1>1, <1>2, <1>3, <1>4, OpenScopes DEF Inv, ScopesAreBlocks
  <2>2. \A i \in 1..(L - 1) : variables'[env'[i].scope] = env'[i].vars
    BY <1>1, <1>2, <1>4, OpenScopes DEF Inv, ScopesAreBlocks
  <2>3. \A i \in 1..(L - 1) : parent[env[i + 1].scope] = env[i].scope
    BY DEF Inv, ScopesAreBlocks
  <2>4. \A i \in 1..(L - 2) : parent'[env'[i + 1].scope] = env'[i].scope
    BY <2>3, <1>1, <1>2, <1>4
  <2>5. \A i, j \in 1..(L - 1) : i < j => env'[i].scope < env'[j].scope
    <3> SUFFICES ASSUME NEW i \in 1..(L - 1), NEW j \in 1..(L - 1), i < j
                 PROVE  env'[i].scope < env'[j].scope
      OBVIOUS
    <3>1. i \in DOMAIN env /\ j \in DOMAIN env
      BY <1>1, OpenScopes
    <3>2. env[i].scope < env[j].scope
      BY <3>1 DEF Inv, ScopesAreBlocks
    <3> QED
      BY <3>2, <1>2
  <2>6. Len(env') - 1 = L - 2
    BY <1>1, <1>2
  <2> QED
    BY <2>1, <2>2, <2>4, <2>5, <2>6, <1>2 DEF ScopesAreBlocks
<1>7. Fresh'
  BY <1>1, <1>2, <1>4, OpenScopes DEF Fresh
<1> QED
  BY <1>5, <1>6, <1>7 DEF Inv

\* pop_scope, push_scope: the else arm takes the place of the if arm.
LEMMA ElseArmInv ==
  ASSUME Inv, ElseArm
  PROVE  Inv'
<1> DEFINE L == Len(env)
           block == [scope |-> next_scope_id, vars |-> EmptyScope]
           outer == parent[current_scope]
<1>0. frames # <<>>
  BY DEF ElseArm, Walking
<1>1. L \in Nat /\ L >= 2 /\ Len(frames) \in Nat /\ Len(frames) >= 1
  BY <1>0, OpenScopes DEF Inv, Typed
<1>2. outer = env[L - 1].scope /\ outer \in ScopeIds
  <2>1. L - 1 \in 1..(L - 1) /\ L - 1 \in 1..L /\ (L - 1) + 1 = L
    BY <1>1
  <2>2. parent[env[(L - 1) + 1].scope] = env[L - 1].scope
    BY <2>1 DEF Inv, ScopesAreBlocks
  <2> QED
    BY <2>1, <2>2, OpenScopes
<1>3. EmptyScope \in Declarations
  BY DEF EmptyScope, Declarations, Written
<1>4. /\ next_scope_id \in ScopeIds
      /\ next_scope_id' = next_scope_id + 1 /\ next_scope_id' \in 1..(MaxScopes + 1)
      /\ parent' = [parent EXCEPT ![next_scope_id] = outer]
      /\ variables' = [variables EXCEPT ![next_scope_id] = EmptyScope]
      /\ current_scope' = next_scope_id
      /\ UNCHANGED <<program, pos>>
  BY TableAssumption DEF ElseArm, push_scope, context, Inv, Typed, ScopeIds
<1>5. block \in Blocks /\ block.scope = next_scope_id /\ block.vars = EmptyScope
  BY <1>3, <1>4 DEF Blocks
<1>6. env' = [env EXCEPT ![L] = block]
  BY DEF ElseArm
<1> HIDE DEF block
<1>7. /\ env' \in Seq(Blocks) /\ Len(env') = L /\ DOMAIN env' = 1..L /\ env'[L] = block
      /\ \A i \in 1..(L - 1) : env'[i] = env[i]
  BY <1>1, <1>5, <1>6 DEF Inv, Typed
<1>8. frames' \in Seq(Kinds) /\ Len(frames') = Len(frames)
  <2>1. frames \in Seq(Kinds) /\ "else" \in Kinds
    BY DEF Inv, Typed, Kinds
  <2>2. frames' = [frames EXCEPT ![Len(frames)] = "else"]
    BY DEF ElseArm
  <2> QED
    BY <2>1, <2>2, <1>1
<1>9. Typed'
  BY <1>2, <1>3, <1>4, <1>7, <1>8 DEF Inv, Typed
<1>10. /\ Len(env') = Len(frames') + 1 /\ env'[1].scope = root_scope
       /\ current_scope' = env'[Len(env')].scope
  BY <1>1, <1>4, <1>5, <1>7, <1>8, OpenScopes DEF Inv, ScopesAreBlocks
<1>11. \A i \in 1..L : variables'[env'[i].scope] = env'[i].vars
  <2> TAKE i \in 1..L
  <2>1. CASE i = L
    BY <2>1, <1>4, <1>5, <1>7 DEF Inv, Typed
  <2>2. CASE i \in 1..(L - 1)
    <3>1. env[i].scope # next_scope_id /\ env[i].scope \in ScopeIds /\ i \in DOMAIN env
      BY <2>2, <1>1, OpenScopes
    <3>2. variables[env[i].scope] = env[i].vars
      BY <3>1 DEF Inv, ScopesAreBlocks
    <3> QED
      BY <2>2, <3>1, <3>2, <1>4, <1>7 DEF Inv, Typed
  <2> QED
    BY <2>1, <2>2, <1>1
<1>12. \A i \in 1..(L - 1) : parent'[env'[i + 1].scope] = env'[i].scope
  <2> TAKE i \in 1..(L - 1)
  <2>1. CASE i = L - 1
    <3>1. i + 1 = L
      BY <2>1, <1>1
    <3> QED
      BY <2>1, <3>1, <1>1, <1>2, <1>4, <1>5, <1>7 DEF Inv, Typed
  <2>2. CASE i # L - 1
    <3>1. i + 1 \in 1..(L - 1) /\ i + 1 \in 1..L /\ i \in 1..(L - 1)
      BY <2>2, <1>1
    <3>2. env[i + 1].scope # next_scope_id /\ env[i + 1].scope \in ScopeIds
      BY <3>1, OpenScopes
    <3>3. parent[env[i + 1].scope] = env[i].scope
      BY DEF Inv, ScopesAreBlocks
    <3> QED
      BY <3>1, <3>2, <3>3, <1>4, <1>7 DEF Inv, Typed
  <2> QED
    BY <2>1, <2>2
<1>13. \A i \in 1..(L - 1) : env'[i].scope < next_scope_id
  BY <1>1, <1>7, OpenScopes
<1>14. \A i, j \in 1..L : i < j => env'[i].scope < env'[j].scope
  <2> SUFFICES ASSUME NEW i \in 1..L, NEW j \in 1..L, i < j
               PROVE  env'[i].scope < env'[j].scope
    OBVIOUS
  <2>1. i \in 1..(L - 1)
    BY <1>1
  <2>2. CASE j = L
    BY <2>1, <2>2, <1>5, <1>7, <1>13
  <2>3. CASE j # L
    <3>1. j \in 1..(L - 1) /\ i \in DOMAIN env /\ j \in DOMAIN env
      BY <2>3, <1>1, OpenScopes
    <3>2. env[i].scope < env[j].scope
      BY <3>1 DEF Inv, ScopesAreBlocks
    <3> QED
      BY <2>1, <3>1, <3>2, <1>7
  <2> QED
    BY <2>2, <2>3
<1>15. ScopesAreBlocks'
  BY <1>7, <1>10, <1>11, <1>12, <1>14 DEF ScopesAreBlocks
<1>16. Fresh'
  <2> SUFFICES ASSUME NEW i \in 1..L PROVE env'[i].scope < next_scope_id'
    BY <1>7 DEF Fresh
  <2>1. CASE i = L
    BY <2>1, <1>4, <1>5, <1>7 DEF Inv, Typed
  <2>2. CASE i \in 1..(L - 1)
    <3>1. env[i].scope < next_scope_id /\ env[i].scope \in ScopeIds
      BY <2>2, <1>1, OpenScopes
    <3> QED
      BY <2>2, <3>1, <1>4, <1>7 DEF Inv, Typed, ScopeIds
  <2> QED
    BY <2>1, <2>2, <1>1
<1> QED
  BY <1>9, <1>15, <1>16 DEF Inv

\* The variables a function or a method declares at its start.
LEMMA ParametersTyped ==
  ASSUME NEW d \in Bodies, NEW self \in Selves
  PROVE  parameters(d, self) \in Declarations
<1>1. \A n \in Names : parameters(d, self)[n] \in Written
  <2> TAKE n \in Names
  <2> DEFINE types == {parameters(d, self)[m] : m \in Names}
             all == {{parameters(b, s)[m] : m \in Names} : b \in Bodies, s \in Selves}
  <2>1. parameters(d, self)[n] \in types
    OBVIOUS
  <2>2. types \in all
    OBVIOUS
  <2>3. parameters(d, self)[n] \in ParameterTypes
    <3>1. ParameterTypes = UNION all
      BY DEF ParameterTypes
    <3> HIDE DEF types, all
    <3> QED
      BY <2>1, <2>2, <3>1
  <2> QED
    BY <2>3 DEF Written
<1>2. parameters(d, self) = [n \in Names |-> parameters(d, self)[n]]
  BY DEF parameters
<1> QED
  BY <1>1, <1>2, Zenon DEF Declarations

\* The definition at the current position.
LEMMA CurrentDefinition ==
  ASSUME Inv
  PROVE  /\ Definition \in Definitions /\ Definition.name \in Names
         /\ Len(Definition.methods) \in Nat
         /\ Definition \in Bodies
         /\ \A i \in 1..Len(Definition.methods) : Definition.methods[i] \in Bodies
<1>1. program \in Programs /\ pos \in DOMAIN program
  BY ProgramsAssumption, ListFacts DEF Inv, Typed
<1>2. Definition \in Definitions
  BY <1>1 DEF Definition, Definitions
<1>3. Definition.name \in Names /\ Len(Definition.methods) \in Nat
  BY <1>1, ProgramsAssumption, ListFacts DEF Definition
<1> QED
  BY <1>2, <1>3 DEF Bodies

\* The definitions phases: only a constant touches the variables.
LEMMA CollectInv == Inv /\ CollectDefinition => Inv'
<1> SUFFICES ASSUME Inv, CollectDefinition PROVE Inv'
  OBVIOUS
<1>1. pos' \in 1..Len(program) /\ UNCHANGED <<parent, next_scope_id, current_scope, frames, program>>
  BY AdvanceTyped DEF CollectDefinition, Inv, Typed
<1>2. CASE Definition.kind = "const"
  <2>1. /\ variables' = insert_variable(Definition.name, Definition.ret)
        /\ env' = Declared(Definition.name, Definition.ret)
    BY <1>2 DEF CollectDefinition
  <2>2. Definition.name \in Names /\ Definition.ret \in Written
    BY CurrentDefinition DEF Written
  <2> QED
    BY <1>1, <2>1, <2>2, DeclareInv
<1>3. CASE Definition.kind # "const"
  <2>1. UNCHANGED bystanders
    BY <1>1, <1>3 DEF CollectDefinition, bystanders
  <2> QED
    BY <1>1, <2>1, Bystanders
<1> QED
  BY <1>2, <1>3

\* The start of a body.
LEMMA EnterInv ==
  ASSUME Inv, NEW d \in Bodies, NEW self \in Selves, NEW misuse, EnterBody(d, self, misuse)
  PROVE  Inv'
<1>1. parameters(d, self) \in Declarations /\ "body" \in Kinds
  BY ParametersTyped DEF Kinds
<1>2. Open("body", current_scope, env, parameters(d, self)) /\ UNCHANGED <<program, pos>>
  BY DEF EnterBody, context
<1>3. pos' \in 1..Len(program)
  BY <1>2 DEF Inv, Typed
<1> QED
  BY <1>1, <1>2, <1>3, OpenInv

\* The position in the methods is a number.
LEMMA MethodIndex == method \in Nat /\ [Next]_vars => method' \in Nat
<1> SUFFICES ASSUME method \in Nat, [Next]_vars PROVE method' \in Nat
  OBVIOUS
<1>1. CASE ProcessDirective \/ RegisterType \/ ResolveImports \/ CollectDefinition
  BY <1>1 DEF ProcessDirective, RegisterType, ResolveImports, CollectDefinition
<1>2. CASE EnterFunction \/ EnterMethod \/ NextDefinition \/ LeaveBlock \/ ElseArm
  BY <1>2 DEF EnterFunction, EnterMethod, NextDefinition, LeaveBlock, ElseArm
<1>3. CASE VisitLeaf \/ VisitUnary \/ VisitBinary \/ VisitMany
  <2>1. ASSUME NEW k, NEW result, Visit(k, result) PROVE UNCHANGED method
    BY <2>1 DEF Visit
  <2> QED
    BY <1>3, <2>1 DEF VisitLeaf, VisitUnary, VisitBinary, VisitMany
<1>4. CASE StatementStep
  <2>1. ASSUME NEW es, NEW err, Statement(es, err) PROVE UNCHANGED method
    BY <2>1 DEF Statement
  <2> QED
    BY <1>4, <2>1 DEF StatementStep, Assign, ExpressionStatement, Return, AssertStatement, IfStatement,
                      Loop, Block, VariableDefinition, TypeDefinition
<1>5. CASE UNCHANGED vars
  BY <1>5 DEF vars
<1> QED
  BY <1>1, <1>2, <1>3, <1>4, <1>5 DEF Next

LEMMA NextInv == Inv /\ method \in Nat /\ [Next]_vars => Inv'
<1> SUFFICES ASSUME Inv, method \in Nat, [Next]_vars PROVE Inv'
  OBVIOUS
<1>0. pos \in 1..Len(program) /\ EmptyScope \in Declarations
  BY DEF Inv, Typed, EmptyScope, Declarations, Written
<1>1. CASE ProcessDirective \/ RegisterType
  <2>1. UNCHANGED bystanders /\ pos' \in 1..Len(program)
    BY <1>1, AdvanceTyped DEF ProcessDirective, RegisterType, bystanders, table, Inv, Typed
  <2> QED
    BY <2>1, Bystanders
<1>2. CASE ResolveImports
  BY <1>0, <1>2, Bystanders DEF ResolveImports, bystanders, table
<1>3. CASE CollectDefinition
  BY <1>3, CollectInv
<1>4. CASE EnterFunction
  BY <1>4, CurrentDefinition, EnterInv DEF EnterFunction, Selves
<1>5. CASE EnterMethod
  <2> DEFINE m == Definition.methods[method + 1]
             self == IF m.has_self THEN <<"Struct", Definition.name>> ELSE None
  <2>1. m \in Bodies
    <3>1. method + 1 \in 1..Len(Definition.methods)
      BY <1>5, CurrentDefinition DEF EnterMethod
    <3> QED
      BY <3>1, CurrentDefinition
  <2>2. self \in Selves
    BY CurrentDefinition DEF Selves
  <2> QED
    BY <1>5, <2>1, <2>2, EnterInv DEF EnterMethod
<1>6. CASE NextDefinition
  <2>1. UNCHANGED bystanders /\ pos' \in 1..Len(program)
    BY <1>6, AdvanceTyped DEF NextDefinition, bystanders, table, context, Inv, Typed
  <2> QED
    BY <2>1, Bystanders
<1>7. CASE LeaveBlock
  <2>1. pos' \in 1..Len(program)
    BY <1>0, <1>7, AdvanceTyped DEF LeaveBlock, Inv, Typed
  <2> QED
    BY <1>7, <2>1, CloseInv DEF LeaveBlock, Walking, context
<1>8. CASE ElseArm
  BY <1>8, ElseArmInv
<1>9. CASE VisitLeaf \/ VisitUnary \/ VisitBinary \/ VisitMany
  <2>1. ASSUME NEW k, NEW result, Visit(k, result)
        PROVE  Inv'
    BY <1>0, <2>1, Bystanders DEF Visit, bystanders, table, context
  <2> QED
    BY <1>9, <2>1 DEF VisitLeaf, VisitUnary, VisitBinary, VisitMany
<1>10. ASSUME NEW es, NEW err, Statement(es, err)
       PROVE  UNCHANGED program /\ pos' \in 1..Len(program)
  BY <1>0, <1>10 DEF Statement, context
<1>11. CASE Assign \/ ExpressionStatement \/ Return \/ AssertStatement
  <2>1. UNCHANGED program /\ pos' \in 1..Len(program)
    BY <1>10, <1>11 DEF Assign, ExpressionStatement, Return, AssertStatement
  <2>2. UNCHANGED bystanders
    BY <2>1, <1>11 DEF Assign, ExpressionStatement, Return, AssertStatement, SameBlock, bystanders, table
  <2> QED
    BY <2>1, <2>2, Bystanders
<1>12. CASE IfStatement \/ Loop \/ Block
  <2>1. UNCHANGED program /\ pos' \in 1..Len(program)
    BY <1>10, <1>12 DEF IfStatement, Loop, Block
  <2>2. PICK kind \in Kinds : Open(kind, current_scope, env, EmptyScope)
    BY <1>12 DEF IfStatement, Loop, Block, Kinds
  <2> QED
    BY <1>0, <2>1, <2>2, OpenInv
<1>13. ASSUME NEW n \in VarNames, NEW ty \in Annotations, VariableDefinition(n, ty)
       PROVE  Inv'
  <2>1. UNCHANGED program /\ pos' \in 1..Len(program)
    BY <1>10, <1>13 DEF VariableDefinition
  <2>2. n \in Names /\ ty \in Written
    BY CheckerAssumption DEF Written
  <2> QED
    BY <1>13, <2>1, <2>2, DeclareInv DEF VariableDefinition
<1>14. ASSUME NEW n \in TypeNames, NEW ty \in Annotations, TypeDefinition(n, ty)
       PROVE  Inv'
  <2>1. UNCHANGED program /\ pos' \in 1..Len(program)
    BY <1>10, <1>14 DEF TypeDefinition
  <2>2. UNCHANGED bystanders
    BY <2>1, <1>14 DEF TypeDefinition, SameBlock, bystanders
  <2> QED
    BY <2>1, <2>2, Bystanders
<1>15. CASE UNCHANGED vars
  BY <1>0, <1>15, Bystanders DEF vars, bystanders, table
<1> QED
  BY <1>1, <1>2, <1>3, <1>4, <1>5, <1>6, <1>7, <1>8, <1>9, <1>11, <1>12, <1>13, <1>14, <1>15
  DEF Next, StatementStep

\* push_scope and pop_scope are balanced for every program and every body: in
\* every state the scopes from the current one to the root are the open blocks,
\* each with the variables its block has declared (infer_statement,
\* infer_variables and infer_method_variables over symbol_table.rs).
THEOREM ScopesAreBlocksHolds == Spec => []ScopesAreBlocks
<1> DEFINE IInv == Inv /\ method \in Nat
<1>1. Init => IInv
  BY InitInv DEF Init
<1>2. IInv /\ [Next]_vars => IInv'
  BY NextInv, MethodIndex
<1>3. IInv => ScopesAreBlocks
  BY DEF Inv
<1> QED
  BY <1>1, <1>2, <1>3, PTL DEF Spec

-----------------------------------------------------------------------------
(* The walk of lookup.                                                     *)

\* Every non-empty set of numbers has a least one: a claim about all numbers
\* fails for none if it cannot fail for a least one.
LEMMA LeastNumber ==
  ASSUME NEW T, T \subseteq Nat, T # {}
  PROVE  \E x \in T : \A y \in T : x <= y
<1> DEFINE R == OpToRel(<, Nat)
<1>1. \E x \in T : \A y \in T : ~ (<<y, x>> \in R)
  <2>1. IsWellFoundedOn(R, Nat)
    BY NatLessThanWellFounded
  <2> HIDE DEF R
  <2> QED
    BY <2>1, WFMin
<1>2. \A x, y \in Nat : y < x => <<y, x>> \in R
  BY DEF OpToRel
<1> HIDE DEF R
<1>3. PICK x \in T : \A y \in T : ~ (<<y, x>> \in R)
  BY <1>1
<1>4. ASSUME NEW y \in T PROVE x <= y
  <2>1. ~ (<<y, x>> \in R) /\ x \in Nat /\ y \in Nat
    BY <1>3
  <2>2. ~ (y < x)
    BY <2>1, <1>2
  <2> QED
    BY <2>1, <2>2
<1> QED
  BY <1>4

\* What the walk of lookup finds at a scope, given what it finds at the others.
found_at(field, name, f, s) ==
    IF field[s][name] # None THEN field[s][name]
    ELSE IF s = root_scope THEN None ELSE f[parent[s]]

Finds(field, name, f) == f = [s \in ScopeIds |-> found_at(field, name, f, s)]

ParentsAreOlder ==
    /\ parent \in [ScopeIds -> ScopeIds]
    /\ parent[root_scope] = root_scope
    /\ \A s \in ScopeIds : s # root_scope => parent[s] < s

LEMMA FindExists ==
  ASSUME ParentsAreOlder, NEW field, NEW name
  PROVE  \E f : Finds(field, name, f)
<1> DEFINE Partial(n, f) == f = [s \in 0..n |-> found_at(field, name, f, s)]
           Stuck == {n \in ScopeIds : ~ \E f : Partial(n, f)}
<1>0. MaxScopes \in Nat /\ ScopeIds = 0..MaxScopes /\ Stuck \subseteq Nat
  BY TableAssumption DEF ScopeIds
<1>1. Stuck = {}
  <2> SUFFICES ASSUME Stuck # {} PROVE FALSE
    OBVIOUS
  <2>1. PICK m \in Stuck : \A n \in Stuck : m <= n
    <3> HIDE DEF Stuck
    <3> QED
      BY <1>0, LeastNumber
  <2>2. m \in ScopeIds /\ m \in Nat
    BY <1>0
  <2>3. CASE m = 0
    <3> DEFINE f == [s \in 0..0 |-> found_at(field, name, <<>>, s)]
    <3>1. Partial(0, f)
      BY DEF found_at, root_scope
    <3> QED
      BY <3>1, <2>1, <2>3
  <2>4. CASE m # 0
    <3>1. m - 1 \in ScopeIds /\ m - 1 \in Nat /\ ~(m <= m - 1)
      BY <2>2, <2>4, <1>0
    <3>2. PICK f : Partial(m - 1, f)
      <4>1. m - 1 \notin Stuck
        BY <2>1, <3>1
      <4> QED
        BY <4>1, <3>1
    <3> DEFINE g == [s \in 0..m |-> IF s = m THEN found_at(field, name, f, m) ELSE f[s]]
    <3>3. \A s \in 0..(m - 1) : f[s] = found_at(field, name, f, s)
      BY <3>2
    <3>4. \A s \in 0..m : s # root_scope => parent[s] \in 0..(m - 1) /\ g[parent[s]] = f[parent[s]]
      BY <2>2, <1>0 DEF ParentsAreOlder, root_scope
    <3>5. \A s \in 0..m : found_at(field, name, g, s) = found_at(field, name, f, s)
      BY <3>4 DEF found_at
    <3>6. \A s \in 0..m : g[s] = found_at(field, name, f, s)
      BY <3>3, <2>2
    <3>7. g = [s \in 0..m |-> g[s]]
      OBVIOUS
    <3>8. Partial(m, g)
      <4> HIDE DEF g
      <4> QED
        BY <3>5, <3>6, <3>7
    <3> QED
      BY <3>8, <2>1
  <2> QED
    BY <2>3, <2>4
<1>2. \E f : Partial(MaxScopes, f)
  BY <1>0, <1>1
<1> QED
  BY <1>0, <1>2 DEF Finds

find_in(field, name) == CHOOSE f : Finds(field, name, f)

LEMMA LookupEquation ==
  ASSUME ParentsAreOlder, NEW field, NEW name
  PROVE  /\ lookup(field, name) = find_in(field, name)[current_scope]
         /\ \A s \in ScopeIds : find_in(field, name)[s] = found_at(field, name, find_in(field, name), s)
<1>1. lookup(field, name) = find_in(field, name)[current_scope]
  BY DEF lookup, find_in, Finds, found_at
<1>2. Finds(field, name, find_in(field, name))
  BY FindExists DEF find_in
<1>3. \A s \in ScopeIds : find_in(field, name)[s] = found_at(field, name, find_in(field, name), s)
  BY <1>2 DEF Finds
<1> QED
  BY <1>1, <1>3

-----------------------------------------------------------------------------
(* The definitions of the program and the root scope.                      *)

Phases == {"directives", "types", "imports", "functions", "bodies", "done"}

Symbols == {None} \cup Definitions \cup {Alias(n, ty) : n \in TypeNames, ty \in Annotations}

\* Positions of the definitions of a name the loops have come past.
TypesSeen(n) == {i \in defined(n, TypeKinds) : \/ phase \in {"imports", "functions", "bodies", "done"}
                                               \/ phase = "types" /\ i < pos}

FunctionKinds == {"fn", "extern"}

FunctionsSeen(n) == {i \in defined(n, FunctionKinds) : \/ phase \in {"bodies", "done"}
                                                       \/ phase = "functions" /\ i < pos}

\* The symbol of the first one, types first.
FirstOf(s, types, fns) ==
    \/ types \cup fns = {} /\ s = None
    \/ \E i \in types : s = program[i] /\ \A j \in types : i <= j
    \/ types = {} /\ \E i \in fns : s = program[i] /\ \A j \in fns : i <= j

RootOK(n) ==
    /\ FirstOf(symbols[root_scope][n], TypesSeen(n), FunctionsSeen(n))
    /\ \A i, j \in TypesSeen(n) \cup FunctionsSeen(n) : i # j => "RegistrationFailed" \in errors

PhaseOK ==
    /\ phase \in Phases
    /\ symbols \in [ScopeIds -> [Names -> Symbols]]
    /\ phase \notin {"bodies", "done"} => frames = <<>>
    /\ phase = "imports" => pos = 1

RootInv == PhaseOK /\ \A n \in Names : RootOK(n)

LEMMA ProgramPositions ==
  ASSUME Inv
  PROVE  /\ program \in Programs /\ Len(program) \in Nat /\ pos \in 1..Len(program)
         /\ DOMAIN program = 1..Len(program)
         /\ \A i \in 1..Len(program) : /\ program[i].name \in Names /\ program[i] # None
                                       /\ program[i] \in Definitions
<1>1. program \in Programs /\ pos \in 1..Len(program)
  BY DEF Inv, Typed
<1>2. Len(program) \in Nat /\ DOMAIN program = 1..Len(program)
  BY <1>1, ProgramsAssumption, ListFacts
<1>3. \A i \in DOMAIN program : /\ program[i].name \in Names /\ program[i] # None
                               /\ program[i] \in Definitions
  BY <1>1, ProgramsAssumption DEF Definitions
<1> QED
  BY <1>1, <1>2, <1>3

\* Outside the bodies the root scope is the current one.
LEMMA AtRoot ==
  ASSUME Inv, frames = <<>>
  PROVE  current_scope = root_scope
<1>1. Len(frames) = 0
  OBVIOUS
<1> QED
  BY <1>1, OpenScopes DEF Inv, ScopesAreBlocks

\* Inside the bodies it is not.
LEMMA BelowRoot ==
  ASSUME Inv, frames # <<>>
  PROVE  current_scope # root_scope /\ current_scope \in ScopeIds
<1>1. Len(env) >= 2 /\ Len(env) \in Nat /\ 1 \in DOMAIN env /\ Len(env) \in DOMAIN env
  BY OpenScopes DEF Inv, Typed
<1>2. env[1].scope < env[Len(env)].scope
  BY <1>1 DEF Inv, ScopesAreBlocks
<1> QED
  BY <1>1, <1>2, OpenScopes DEF Inv, ScopesAreBlocks, root_scope, ScopeIds

LEMMA RootInit == Init => RootInv
<1> SUFFICES ASSUME Init PROVE RootInv
  OBVIOUS
<1>1. root_scope \in ScopeIds
  BY TableAssumption DEF ScopeIds, root_scope
<1>2. EmptyScope \in [Names -> Symbols]
  BY DEF EmptyScope, Symbols
<1>3. PhaseOK
  BY <1>2 DEF PhaseOK, Init, TableInit, Phases
<1>4. ASSUME NEW n \in Names PROVE RootOK(n)
  <2>1. TypesSeen(n) = {} /\ FunctionsSeen(n) = {} /\ symbols[root_scope][n] = None
    BY <1>1 DEF TypesSeen, FunctionsSeen, Init, TableInit, EmptyScope
  <2> QED
    BY <2>1 DEF RootOK, FirstOf
<1> QED
  BY <1>3, <1>4 DEF RootInv

\* A step that leaves the symbols of the root scope and what was seen alone.
LEMMA RootKept ==
  ASSUME RootInv, PhaseOK', UNCHANGED program, errors \subseteq errors',
         \A n \in Names : /\ symbols'[root_scope][n] = symbols[root_scope][n]
                          /\ TypesSeen(n)' = TypesSeen(n)
                          /\ FunctionsSeen(n)' = FunctionsSeen(n)
  PROVE  RootInv'
<1> SUFFICES ASSUME NEW n \in Names PROVE RootOK(n)'
  BY DEF RootInv
<1>1. RootOK(n)
  BY DEF RootInv
<1> DEFINE s == symbols[root_scope][n]
           types == TypesSeen(n)
           fns == FunctionsSeen(n)
<1>2. FirstOf(s, types, fns)' <=> FirstOf(s, types, fns)
  BY DEF FirstOf
<1> HIDE DEF s, types, fns
<1> QED
  BY <1>1, <1>2 DEF RootOK, s, types, fns

\* insert_symbol in the root scope, pointwise.
LEMMA InsertAtRoot ==
  ASSUME Inv, PhaseOK, current_scope = root_scope, NEW name \in Names, NEW symbol \in Symbols,
         symbols' = insert_symbol(name, symbol)
  PROVE  /\ symbols' \in [ScopeIds -> [Names -> Symbols]]
         /\ \A n \in Names : symbols'[root_scope][n] =
               IF n = name /\ symbols[root_scope][n] = None THEN symbol ELSE symbols[root_scope][n]
<1>1. root_scope \in ScopeIds
  BY TableAssumption DEF ScopeIds, root_scope
<1> QED
  BY <1>1 DEF PhaseOK, insert_symbol, can_insert

\* The loops over the definitions: the one at the position is seen next.
LEMMA RegisterRoot == Inv /\ RootInv /\ RegisterType => RootInv'
<1> SUFFICES ASSUME Inv, RootInv, RegisterType PROVE RootInv'
  OBVIOUS
<1> DEFINE d == program[pos]
           isType == d.kind \in TypeKinds
<1>1. /\ program' = program /\ pos \in 1..Len(program) /\ Len(program) \in Nat
      /\ DOMAIN program = 1..Len(program)
      /\ d \in Symbols /\ d # None /\ d.name \in Names /\ frames = <<>> /\ current_scope = root_scope
      /\ phase = "types"
  BY ProgramPositions, AtRoot DEF RegisterType, RootInv, PhaseOK, Symbols
<1>2. /\ symbols' = IF isType THEN insert_symbol(d.name, d) ELSE symbols
      /\ errors' = errors \cup If(isType /\ ~can_insert(symbols, d.name), "RegistrationFailed")
      /\ UNCHANGED frames
      /\ \/ pos < Len(program) /\ pos' = pos + 1 /\ phase' = "types"
         \/ ~(pos < Len(program)) /\ pos' = 1 /\ phase' = "imports"
  BY <1>1 DEF RegisterType, Definition, Advance
<1>3. PhaseOK'
  BY <1>1, <1>2, InsertAtRoot DEF RootInv, PhaseOK, Phases
<1>4. ASSUME NEW n \in Names PROVE RootOK(n)'
  <2>1. defined(n, TypeKinds)' = defined(n, TypeKinds) /\ FunctionsSeen(n)' = {} /\ FunctionsSeen(n) = {}
    BY <1>1, <1>2 DEF defined, FunctionsSeen
  <2>2. TypesSeen(n)' = TypesSeen(n) \cup (IF isType /\ n = d.name THEN {pos} ELSE {})
    BY <1>1, <1>2, <2>1 DEF TypesSeen, defined
  <2>3. \A j \in TypesSeen(n) : j < pos /\ j \in Nat
    BY <1>1 DEF TypesSeen, defined
  <2>4. RootOK(n)
    BY DEF RootInv
  <2>5. CASE ~(isType /\ n = d.name)
    <3>1. symbols'[root_scope][n] = symbols[root_scope][n]
      BY <1>1, <1>2, <2>5, InsertAtRoot DEF RootInv
    <3>2. FirstOf(symbols[root_scope][n], TypesSeen(n), FunctionsSeen(n))'
      BY <3>1, <2>1, <2>2, <2>4, <2>5, <1>1 DEF RootOK, FirstOf
    <3> QED
      BY <3>2, <2>1, <2>2, <2>4, <2>5, <1>2 DEF RootOK
  <2>6. CASE isType /\ n = d.name
    <3>1. symbols'[root_scope][n] = IF symbols[root_scope][n] = None THEN d ELSE symbols[root_scope][n]
      BY <1>1, <1>2, <2>6, InsertAtRoot DEF RootInv
    <3>2. TypesSeen(n)' = TypesSeen(n) \cup {pos}
      BY <2>2, <2>6
    <3>3. CASE TypesSeen(n) = {}
      <4>1. symbols[root_scope][n] = None
        BY <2>1, <2>4, <3>3 DEF RootOK, FirstOf
      <4>2. symbols'[root_scope][n] = program[pos] /\ TypesSeen(n)' = {pos}
        BY <3>1, <3>2, <3>3, <4>1
      <4>3. FirstOf(symbols[root_scope][n], TypesSeen(n), FunctionsSeen(n))'
        BY <4>2, <1>1 DEF FirstOf
      <4> QED
        BY <4>2, <4>3, <2>1 DEF RootOK
    <3>4. CASE TypesSeen(n) # {}
      <4>1. PICK i \in TypesSeen(n) : /\ symbols[root_scope][n] = program[i]
                                      /\ \A j \in TypesSeen(n) : i <= j
        BY <3>4, <2>1, <2>4 DEF RootOK, FirstOf
      <4>2. symbols[root_scope][n] # None /\ i \in Nat /\ i < pos
        <5>1. i \in 1..Len(program)
          BY <1>1 DEF TypesSeen, defined
        <5> QED
          BY <5>1, <4>1, <2>3, ProgramPositions
      <4>3. symbols'[root_scope][n] = program[i] /\ "RegistrationFailed" \in errors'
        BY <3>1, <4>1, <4>2, <1>1, <1>2, <2>6 DEF can_insert, If
      <4>4. i \in TypesSeen(n)' /\ \A j \in TypesSeen(n)' : i <= j
        BY <3>2, <4>1, <2>3, <1>1
      <4>5. FirstOf(symbols[root_scope][n], TypesSeen(n), FunctionsSeen(n))'
        BY <4>3, <4>4, <1>1 DEF FirstOf
      <4> QED
        BY <4>3, <4>5 DEF RootOK
    <3> QED
      BY <3>3, <3>4
  <2> QED
    BY <2>5, <2>6
<1> QED
  BY <1>3, <1>4 DEF RootInv

LEMMA CollectRoot == Inv /\ RootInv /\ CollectDefinition => RootInv'
<1> SUFFICES ASSUME Inv, RootInv, CollectDefinition PROVE RootInv'
  OBVIOUS
<1> DEFINE d == program[pos]
           isFn == d.kind \in FunctionKinds
<1>1. /\ program' = program /\ pos \in 1..Len(program) /\ Len(program) \in Nat
      /\ DOMAIN program = 1..Len(program)
      /\ d \in Symbols /\ d # None /\ d.name \in Names /\ frames = <<>> /\ current_scope = root_scope
      /\ phase = "functions"
  BY ProgramPositions, AtRoot DEF CollectDefinition, RootInv, PhaseOK, Symbols
<1>2. /\ symbols' = IF isFn THEN insert_symbol(d.name, d) ELSE symbols
      /\ errors \subseteq errors'
      /\ isFn /\ ~can_insert(symbols, d.name) => "RegistrationFailed" \in errors'
      /\ UNCHANGED frames
      /\ \/ pos < Len(program) /\ pos' = pos + 1 /\ phase' = "functions"
         \/ ~(pos < Len(program)) /\ pos' = 1 /\ phase' = "bodies"
  BY <1>1 DEF CollectDefinition, Definition, Advance, FunctionKinds, If
<1>3. PhaseOK'
  BY <1>1, <1>2, InsertAtRoot DEF RootInv, PhaseOK, Phases
<1>4. ASSUME NEW n \in Names PROVE RootOK(n)'
  <2>1. /\ defined(n, TypeKinds)' = defined(n, TypeKinds)
        /\ defined(n, FunctionKinds)' = defined(n, FunctionKinds)
        /\ TypesSeen(n)' = TypesSeen(n)
    BY <1>1, <1>2 DEF defined, TypesSeen
  <2>2. FunctionsSeen(n)' = FunctionsSeen(n) \cup (IF isFn /\ n = d.name THEN {pos} ELSE {})
    BY <1>1, <1>2, <2>1 DEF FunctionsSeen, defined
  <2>3. \A j \in FunctionsSeen(n) : j < pos /\ j \in Nat
    BY <1>1 DEF FunctionsSeen, defined
  <2>4. RootOK(n)
    BY DEF RootInv
  <2>5. CASE ~(isFn /\ n = d.name)
    <3>1. symbols'[root_scope][n] = symbols[root_scope][n]
      BY <1>1, <1>2, <2>5, InsertAtRoot DEF RootInv
    <3>2. FirstOf(symbols[root_scope][n], TypesSeen(n), FunctionsSeen(n))'
      BY <3>1, <2>1, <2>2, <2>4, <2>5, <1>1 DEF RootOK, FirstOf
    <3> QED
      BY <3>2, <2>1, <2>2, <2>4, <2>5, <1>2 DEF RootOK
  <2>6. CASE isFn /\ n = d.name
    <3>1. symbols'[root_scope][n] = IF symbols[root_scope][n] = None THEN d ELSE symbols[root_scope][n]
      BY <1>1, <1>2, <2>6, InsertAtRoot DEF RootInv
    <3>2. FunctionsSeen(n)' = FunctionsSeen(n) \cup {pos}
      BY <2>2, <2>6
    <3>3. CASE TypesSeen(n) \cup FunctionsSeen(n) = {}
      <4>1. symbols[root_scope][n] = None
        BY <2>4, <3>3 DEF RootOK, FirstOf
      <4>2. symbols'[root_scope][n] = program[pos] /\ FunctionsSeen(n)' = {pos} /\ TypesSeen(n)' = {}
        BY <3>1, <3>2, <3>3, <4>1, <2>1
      <4>3. FirstOf(symbols[root_scope][n], TypesSeen(n), FunctionsSeen(n))'
        BY <4>2, <1>1 DEF FirstOf
      <4> QED
        BY <4>2, <4>3 DEF RootOK
    <3>4. CASE TypesSeen(n) \cup FunctionsSeen(n) # {}
      <4>1. symbols[root_scope][n] # None
        <5>1. PICK i \in TypesSeen(n) \cup FunctionsSeen(n) : symbols[root_scope][n] = program[i]
          BY <3>4, <2>4 DEF RootOK, FirstOf
        <5>2. i \in 1..Len(program)
          BY <1>1 DEF TypesSeen, FunctionsSeen, defined
        <5> QED
          BY <5>1, <5>2, ProgramPositions
      <4>2. symbols'[root_scope][n] = symbols[root_scope][n] /\ "RegistrationFailed" \in errors'
        BY <3>1, <4>1, <1>1, <1>2, <2>6 DEF can_insert
      <4>3. FirstOf(symbols[root_scope][n], TypesSeen(n), FunctionsSeen(n))'
        <5>1. CASE TypesSeen(n) # {}
          BY <5>1, <4>2, <2>1, <2>4, <1>1 DEF RootOK, FirstOf
        <5>2. CASE TypesSeen(n) = {}
          <6>1. PICK i \in FunctionsSeen(n) : /\ symbols[root_scope][n] = program[i]
                                              /\ \A j \in FunctionsSeen(n) : i <= j
            BY <5>2, <3>4, <2>4 DEF RootOK, FirstOf
          <6>2. i \in FunctionsSeen(n)' /\ \A j \in FunctionsSeen(n)' : i <= j
            BY <6>1, <3>2, <2>3, <1>1
          <6> QED
            BY <6>1, <6>2, <5>2, <2>1, <4>2, <1>1 DEF FirstOf
        <5> QED
          BY <5>1, <5>2
      <4> QED
        BY <4>2, <4>3 DEF RootOK
    <3> QED
      BY <3>3, <3>4
  <2> QED
    BY <2>5, <2>6
<1> QED
  BY <1>3, <1>4 DEF RootInv

\* The bodies only touch the symbols of their own blocks.
LEMMA BodiesRoot ==
  ASSUME Inv, RootInv, UNCHANGED <<phase, program>>, phase = "bodies", errors \subseteq errors',
         symbols' \in [ScopeIds -> [Names -> Symbols]], symbols'[root_scope] = symbols[root_scope]
  PROVE  RootInv'
<1>1. PhaseOK'
  BY DEF RootInv, PhaseOK
<1>2. ASSUME NEW n \in Names
      PROVE  TypesSeen(n)' = TypesSeen(n) /\ FunctionsSeen(n)' = FunctionsSeen(n)
  BY DEF TypesSeen, FunctionsSeen, defined
<1> QED
  BY <1>1, <1>2, RootKept

\* Most of their steps touch no symbols.
LEMMA BodiesKept ==
  ASSUME Inv, RootInv, UNCHANGED <<phase, program, symbols>>, phase = "bodies", errors \subseteq errors'
  PROVE  RootInv'
<1>1. symbols \in [ScopeIds -> [Names -> Symbols]]
  BY DEF RootInv, PhaseOK
<1> QED
  BY <1>1, BodiesRoot

\* A type definition inside a body.
LEMMA BodiesType ==
  ASSUME Inv, RootInv, UNCHANGED <<phase, program>>, phase = "bodies", errors \subseteq errors',
         frames # <<>>, NEW n \in Names, NEW symbol \in Symbols, symbols' = insert_symbol(n, symbol)
  PROVE  RootInv'
<1>1. current_scope # root_scope /\ current_scope \in ScopeIds /\ root_scope \in ScopeIds
  BY BelowRoot, TableAssumption DEF ScopeIds, root_scope
<1>2. symbols \in [ScopeIds -> [Names -> Symbols]]
  BY DEF RootInv, PhaseOK
<1>3. /\ symbols' \in [ScopeIds -> [Names -> Symbols]]
      /\ symbols'[root_scope] = symbols[root_scope]
  BY <1>1, <1>2 DEF insert_symbol
<1> QED
  BY <1>3, BodiesRoot

LEMMA RootNext == Inv /\ RootInv /\ [Next]_vars => RootInv'
<1> SUFFICES ASSUME Inv, RootInv, [Next]_vars PROVE RootInv'
  OBVIOUS
<1>0. /\ pos \in 1..Len(program) /\ Len(program) \in Nat /\ DOMAIN program = 1..Len(program)
      /\ \A n \in Names : defined(n, TypeKinds) \subseteq 1..Len(program)
      /\ \A n \in Names : defined(n, FunctionKinds) \subseteq 1..Len(program)
  BY ProgramPositions DEF defined
<1>1. CASE ProcessDirective
  <2>1. /\ UNCHANGED <<program, symbols, errors, frames>> /\ phase = "directives"
        /\ \/ phase' = "directives"
           \/ pos' = 1 /\ phase' = "types"
    BY <1>1 DEF ProcessDirective, Advance, table
  <2>2. PhaseOK'
    BY <2>1 DEF RootInv, PhaseOK, Phases
  <2>3. ASSUME NEW n \in Names
        PROVE  TypesSeen(n)' = TypesSeen(n) /\ FunctionsSeen(n)' = FunctionsSeen(n)
    BY <1>0, <2>1 DEF TypesSeen, FunctionsSeen, defined
  <2> QED
    BY <2>1, <2>2, <2>3, RootKept
<1>2. CASE RegisterType
  BY <1>2, RegisterRoot
<1>3. CASE ResolveImports
  <2>1. /\ UNCHANGED <<program, symbols, frames, pos>> /\ errors \subseteq errors'
        /\ phase = "imports" /\ phase' = "functions" /\ pos = 1
    BY <1>3 DEF ResolveImports, table, RootInv, PhaseOK
  <2>2. PhaseOK'
    BY <2>1 DEF RootInv, PhaseOK, Phases
  <2>3. ASSUME NEW n \in Names
        PROVE  TypesSeen(n)' = TypesSeen(n) /\ FunctionsSeen(n)' = FunctionsSeen(n)
    BY <1>0, <2>1 DEF TypesSeen, FunctionsSeen, defined
  <2> QED
    BY <2>1, <2>2, <2>3, RootKept
<1>4. CASE CollectDefinition
  BY <1>4, CollectRoot
<1>5. CASE EnterFunction \/ EnterMethod
  <2>1. ASSUME NEW d, NEW self, NEW misuse, EnterBody(d, self, misuse)
        PROVE  UNCHANGED <<phase, program, symbols>> /\ errors \subseteq errors'
    BY <2>1 DEF EnterBody, Open, push_scope, context
  <2>2. UNCHANGED <<phase, program, symbols>> /\ errors \subseteq errors' /\ phase = "bodies"
    BY <1>5, <2>1 DEF EnterFunction, EnterMethod
  <2> QED
    BY <2>2, BodiesKept
<1>6. CASE (NextDefinition \/ LeaveBlock) /\ UNCHANGED phase
  <2>1. UNCHANGED <<program, symbols, errors>> /\ phase = "bodies"
    BY <1>6 DEF NextDefinition, LeaveBlock, Walking, table, context, pop_scope
  <2> QED
    BY <1>6, <2>1, BodiesKept
<1>7. CASE (NextDefinition \/ LeaveBlock) /\ phase' # phase
  <2>1. UNCHANGED <<program, symbols, errors>> /\ phase = "bodies" /\ phase' = "done"
    BY <1>7 DEF NextDefinition, LeaveBlock, Walking, table, context, pop_scope, Advance
  <2>3. PhaseOK'
    BY <2>1 DEF RootInv, PhaseOK, Phases
  <2>4. ASSUME NEW n \in Names
        PROVE  TypesSeen(n)' = TypesSeen(n) /\ FunctionsSeen(n)' = FunctionsSeen(n)
    BY <1>0, <2>1 DEF TypesSeen, FunctionsSeen, defined
  <2> QED
    BY <2>1, <2>3, <2>4, RootKept
<1>8. CASE ElseArm
  <2>1. UNCHANGED <<phase, program, symbols, errors>> /\ phase = "bodies"
    BY <1>8 DEF ElseArm, Walking, push_scope, context
  <2> QED
    BY <2>1, BodiesKept
<1>9. CASE VisitLeaf \/ VisitUnary \/ VisitBinary \/ VisitMany
  <2>1. ASSUME NEW k, NEW result, Visit(k, result)
        PROVE  RootInv'
    BY <2>1, BodiesKept DEF Visit, Walking, table, context
  <2> QED
    BY <1>9, <2>1 DEF VisitLeaf, VisitUnary, VisitBinary, VisitMany
<1>10. ASSUME NEW es, NEW err, Statement(es, err)
       PROVE  /\ UNCHANGED <<phase, program>> /\ errors \subseteq errors'
              /\ phase = "bodies" /\ frames # <<>>
  BY <1>10 DEF Statement, Walking, context
<1>11. CASE Assign \/ ExpressionStatement \/ Return \/ AssertStatement
  <2>1. UNCHANGED <<phase, program>> /\ errors \subseteq errors' /\ phase = "bodies"
    BY <1>10, <1>11 DEF Assign, ExpressionStatement, Return, AssertStatement
  <2>2. UNCHANGED symbols
    BY <1>11 DEF Assign, ExpressionStatement, Return, AssertStatement, table
  <2> QED
    BY <2>1, <2>2, BodiesKept
<1>12. CASE IfStatement \/ Loop \/ Block
  <2>1. UNCHANGED <<phase, program>> /\ errors \subseteq errors' /\ phase = "bodies"
    BY <1>10, <1>12 DEF IfStatement, Loop, Block
  <2>2. UNCHANGED symbols
    BY <1>12 DEF IfStatement, Loop, Block, Open, push_scope
  <2> QED
    BY <2>1, <2>2, BodiesKept
<1>13. ASSUME NEW n \in VarNames, NEW ty \in Annotations, VariableDefinition(n, ty)
       PROVE  RootInv'
  <2>1. UNCHANGED <<phase, program>> /\ errors \subseteq errors' /\ phase = "bodies"
    BY <1>10, <1>13 DEF VariableDefinition
  <2>2. UNCHANGED symbols
    BY <1>13 DEF VariableDefinition
  <2> QED
    BY <2>1, <2>2, BodiesKept
<1>14. ASSUME NEW n \in TypeNames, NEW ty \in Annotations, TypeDefinition(n, ty)
       PROVE  RootInv'
  <2>1. /\ UNCHANGED <<phase, program>> /\ errors \subseteq errors'
        /\ phase = "bodies" /\ frames # <<>>
    BY <1>10, <1>14 DEF TypeDefinition
  <2>2. symbols' = insert_symbol(n, Alias(n, ty))
    BY <1>14 DEF TypeDefinition
  <2>3. Alias(n, ty) \in Symbols /\ n \in Names
    BY CheckerAssumption DEF Symbols
  <2> QED
    BY <2>1, <2>2, <2>3, BodiesType
<1>15. CASE UNCHANGED vars
  <2>1. UNCHANGED <<program, symbols, errors, phase, pos, frames>>
    BY <1>15 DEF vars, table
  <2>2. PhaseOK'
    BY <2>1 DEF RootInv, PhaseOK
  <2>3. ASSUME NEW n \in Names
        PROVE  TypesSeen(n)' = TypesSeen(n) /\ FunctionsSeen(n)' = FunctionsSeen(n)
    BY <2>1 DEF TypesSeen, FunctionsSeen, defined
  <2> QED
    BY <2>1, <2>2, <2>3, RootKept
<1> QED
  BY <1>1, <1>2, <1>3, <1>4, <1>5, <1>6, <1>7, <1>8, <1>9, <1>11, <1>12, <1>13, <1>14, <1>15
  DEF Next, StatementStep

LEMMA Pair ==
  ASSUME NEW S, Cardinality(S) > 1
  PROVE  \E x, y \in S : x # y
<1> SUFFICES ASSUME \A x, y \in S : x = y PROVE FALSE
  OBVIOUS
<1>1. CASE S = {}
  BY <1>1, FS_EmptySet
<1>2. CASE S # {}
  <2>1. PICK x \in S : S = {x}
    BY <1>2
  <2> QED
    BY <2>1, FS_Singleton
<1> QED
  BY <1>1, <1>2

LEMMA MinIs ==
  ASSUME NEW S, S \subseteq Nat, NEW i \in S, \A j \in S : i <= j
  PROVE  Min(S) = i
<1>1. Min(S) \in S /\ \A j \in S : Min(S) <= j
  BY DEF Min
<1>2. Min(S) <= i /\ i <= Min(S) /\ Min(S) \in Nat /\ i \in Nat
  BY <1>1
<1> QED
  BY <1>2

LEMMA RootIsFirst == Inv /\ RootInv => FirstDefinitionWins
<1> SUFFICES ASSUME Inv, RootInv, phase \in {"bodies", "done"}, NEW n \in Names
             PROVE  LET types == defined(n, TypeKinds)
                        fns == defined(n, {"fn", "extern"})
                    IN  /\ symbols[root_scope][n] =
                              IF types # {} THEN program[Min(types)]
                              ELSE IF fns # {} THEN program[Min(fns)]
                              ELSE None
                        /\ Cardinality(types \cup fns) > 1 => "RegistrationFailed" \in errors
  BY DEF FirstDefinitionWins
<1> DEFINE types == defined(n, TypeKinds)
           fns == defined(n, {"fn", "extern"})
<1>1. types \subseteq Nat /\ fns \subseteq Nat
  BY ProgramPositions DEF defined
<1>2. types = TypesSeen(n) /\ fns = FunctionsSeen(n)
  BY DEF TypesSeen, FunctionsSeen, FunctionKinds
<1>3. /\ FirstOf(symbols[root_scope][n], types, fns)
      /\ \A i, j \in types \cup fns : i # j => "RegistrationFailed" \in errors
  BY <1>2 DEF RootInv, RootOK
<1> HIDE DEF types, fns
<1>4. symbols[root_scope][n] = IF types # {} THEN program[Min(types)]
                               ELSE IF fns # {} THEN program[Min(fns)] ELSE None
  BY <1>1, <1>3, MinIs DEF FirstOf
<1>5. Cardinality(types \cup fns) > 1 => "RegistrationFailed" \in errors
  BY <1>3, Pair
<1> QED
  BY <1>4, <1>5 DEF types, fns

\* A name of the root scope means its first definition, types before functions,
\* and a second definition is reported, for every program (register_types,
\* collect_function_and_constant_definitions, Scope::insert_symbol): no body
\* changes what the root scope holds.
THEOREM FirstDefinitionWinsHolds == Spec => []FirstDefinitionWins
<1> DEFINE IInv == Inv /\ method \in Nat /\ RootInv
<1>1. Init => IInv
  BY InitInv, RootInit DEF Init
<1>2. IInv /\ [Next]_vars => IInv'
  BY NextInv, MethodIndex, RootNext
<1>3. IInv => FirstDefinitionWins
  BY RootIsFirst
<1> QED
  BY <1>1, <1>2, <1>3, PTL DEF Spec

-----------------------------------------------------------------------------
(* Scoping is lexical.                                                     *)

LEMMA OlderInit == Init => ParentsAreOlder
BY TableAssumption DEF Init, TableInit, ParentsAreOlder, ScopeIds, root_scope

LEMMA PushOlder ==
  ASSUME Inv, ParentsAreOlder, NEW from, from \in ScopeIds, from < next_scope_id,
         NEW declared, push_scope(from, declared)
  PROVE  ParentsAreOlder'
<1>1. next_scope_id \in ScopeIds /\ parent' = [parent EXCEPT ![next_scope_id] = from]
  BY TableAssumption DEF push_scope, Inv, Typed, ScopeIds
<1>2. next_scope_id # root_scope
  BY DEF Inv, Typed, root_scope
<1> QED
  BY <1>1, <1>2 DEF ParentsAreOlder

LEMMA OlderNext == Inv /\ ParentsAreOlder /\ [Next]_vars => ParentsAreOlder'
<1> SUFFICES ASSUME Inv, ParentsAreOlder, [Next]_vars PROVE ParentsAreOlder'
  OBVIOUS
<1>0. /\ current_scope \in ScopeIds /\ current_scope < next_scope_id
      /\ parent[current_scope] \in ScopeIds /\ parent[current_scope] < next_scope_id
  <2>1. current_scope \in ScopeIds /\ current_scope < next_scope_id /\ next_scope_id \in Nat
    BY OpenScopes DEF Inv, Typed
  <2>2. /\ parent[current_scope] \in ScopeIds
        /\ current_scope # root_scope => parent[current_scope] < current_scope
    BY <2>1 DEF ParentsAreOlder
  <2>3. parent[root_scope] = root_scope
    BY DEF ParentsAreOlder
  <2> QED
    BY <2>1, <2>2, <2>3 DEF root_scope, ScopeIds
<1>1. UNCHANGED parent => ParentsAreOlder'
  BY DEF ParentsAreOlder
<1>2. ASSUME NEW kind, NEW declared, Open(kind, current_scope, env, declared)
      PROVE  ParentsAreOlder'
  BY <1>0, <1>2, PushOlder DEF Open
<1>3. CASE \/ ProcessDirective \/ RegisterType \/ ResolveImports \/ CollectDefinition
           \/ NextDefinition \/ LeaveBlock
  BY <1>1, <1>3 DEF ProcessDirective, RegisterType, ResolveImports, CollectDefinition, NextDefinition,
                    LeaveBlock, pop_scope, table
<1>4. CASE EnterFunction \/ EnterMethod
  <2>1. ASSUME NEW d, NEW self, NEW misuse, EnterBody(d, self, misuse)
        PROVE  ParentsAreOlder'
    BY <2>1, <1>2 DEF EnterBody
  <2> QED
    BY <1>4, <2>1 DEF EnterFunction, EnterMethod
<1>5. CASE ElseArm
  BY <1>0, <1>5, PushOlder DEF ElseArm
<1>6. CASE VisitLeaf \/ VisitUnary \/ VisitBinary \/ VisitMany
  <2>1. ASSUME NEW k, NEW result, Visit(k, result)
        PROVE  ParentsAreOlder'
    BY <2>1, <1>1 DEF Visit, table
  <2> QED
    BY <1>6, <2>1 DEF VisitLeaf, VisitUnary, VisitBinary, VisitMany
<1>7. CASE StatementStep
  BY <1>1, <1>2, <1>7
  DEF StatementStep, Assign, ExpressionStatement, Return, AssertStatement, IfStatement, Loop, Block,
      VariableDefinition, TypeDefinition, table
<1>8. CASE UNCHANGED vars
  BY <1>1, <1>8 DEF vars, table
<1> QED
  BY <1>3, <1>4, <1>5, <1>6, <1>7, <1>8 DEF Next

\* v is the binding of a name in the last of the first k open blocks that has one.
LastBinding(k, name, v) ==
    LET binding == {i \in 1..k : env[i].vars[name] # None}
    IN  \/ binding = {} /\ v = None
        \/ \E i \in binding : v = env[i].vars[name] /\ \A j \in binding : j <= i

\* lookup walks the open blocks from the innermost to the outermost.
LEMMA FindWalksTheBlocks ==
  ASSUME Inv, ParentsAreOlder, NEW name \in Names, NEW k \in 1..Len(env)
  PROVE  LastBinding(k, name, find_in(variables, name)[env[k].scope])
<1> DEFINE found(i) == find_in(variables, name)[env[i].scope]
           Wrong == {i \in 1..Len(env) : ~LastBinding(i, name, found(i))}
<1>1. Len(env) \in Nat /\ Wrong \subseteq Nat
  BY OpenScopes
<1>2. Wrong = {}
  <2> SUFFICES ASSUME Wrong # {} PROVE FALSE
    OBVIOUS
  <2>1. PICK m \in Wrong : \A i \in Wrong : m <= i
    <3> HIDE DEF Wrong
    <3> QED
      BY <1>1, LeastNumber
  <2>2. m \in 1..Len(env) /\ m \in Nat /\ ~LastBinding(m, name, found(m))
    BY <1>1
  <2>3. env[m].scope \in ScopeIds /\ variables[env[m].scope] = env[m].vars
    BY <2>2, OpenScopes DEF Inv, ScopesAreBlocks
  <2>4. found(m) = IF env[m].vars[name] # None THEN env[m].vars[name]
                   ELSE IF env[m].scope = root_scope THEN None
                   ELSE find_in(variables, name)[parent[env[m].scope]]
    BY <2>3, LookupEquation DEF found_at
  <2>5. CASE env[m].vars[name] # None
    <3>1. found(m) = env[m].vars[name]
      BY <2>4, <2>5
    <3> HIDE DEF found
    <3> QED
      BY <3>1, <2>2, <2>5 DEF LastBinding
  <2>6. CASE env[m].vars[name] = None /\ m = 1
    <3>1. found(m) = None
      BY <2>4, <2>6 DEF Inv, ScopesAreBlocks
    <3> HIDE DEF found
    <3> QED
      BY <3>1, <2>2, <2>6 DEF LastBinding
  <2>7. CASE env[m].vars[name] = None /\ m # 1
    <3>1. m - 1 \in 1..(Len(env) - 1) /\ m - 1 \in 1..Len(env) /\ (m - 1) + 1 = m /\ ~(m <= m - 1)
      BY <2>2, <2>7, <1>1
    <3>2. parent[env[m].scope] = env[m - 1].scope
      <4>1. parent[env[(m - 1) + 1].scope] = env[m - 1].scope
        BY <3>1 DEF Inv, ScopesAreBlocks
      <4> QED
        BY <3>1, <4>1
    <3>3. env[m].scope # root_scope
      <4>1. 1 \in DOMAIN env /\ m \in DOMAIN env /\ 1 < m
        BY <2>2, <2>7, OpenScopes
      <4>2. env[1].scope < env[m].scope /\ env[1].scope = root_scope
        BY <4>1 DEF Inv, ScopesAreBlocks
      <4> QED
        BY <4>2 DEF root_scope
    <3>4. found(m) = found(m - 1)
      BY <2>4, <2>7, <3>2, <3>3
    <3>5. LastBinding(m - 1, name, found(m - 1))
      <4>1. m - 1 \notin Wrong
        BY <2>1, <3>1
      <4> QED
        BY <4>1, <3>1
    <3>6. \A i \in 1..m : env[i].vars[name] # None => i \in 1..(m - 1)
      BY <2>2, <2>7
    <3>7. {i \in 1..m : env[i].vars[name] # None} = {i \in 1..(m - 1) : env[i].vars[name] # None}
      BY <3>6, <2>2
    <3> HIDE DEF found
    <3> QED
      BY <3>4, <3>5, <3>7, <2>2 DEF LastBinding
  <2> QED
    BY <2>5, <2>6, <2>7
<1> QED
  BY <1>2

LEMMA MaxIs ==
  ASSUME NEW S, S \subseteq Nat, NEW i \in S, \A j \in S : j <= i
  PROVE  Max(S) = i
<1>1. Max(S) \in S /\ \A j \in S : Max(S) >= j
  BY DEF Max
<1>2. Max(S) <= i /\ i <= Max(S) /\ Max(S) \in Nat /\ i \in Nat
  BY <1>1
<1> QED
  BY <1>2

LEMMA LookupIsLexical == Inv /\ ParentsAreOlder => LexicalLookup
<1> SUFFICES ASSUME Inv, ParentsAreOlder, NEW name \in Names
             PROVE  lookup_variable(name) = innermost(name)
  BY DEF LexicalLookup
<1> DEFINE L == Len(env)
           binding == {i \in 1..L : env[i].vars[name] # None}
<1>1. L \in 1..L /\ DOMAIN env = 1..L /\ current_scope = env[L].scope /\ L \in Nat
  BY OpenScopes DEF Inv, Typed
<1>2. lookup_variable(name) = find_in(variables, name)[env[L].scope]
  BY <1>1, LookupEquation DEF lookup_variable
<1>3. LastBinding(L, name, lookup_variable(name))
  BY <1>1, <1>2, FindWalksTheBlocks
<1>4. binding \subseteq Nat
  BY <1>1
<1>5. innermost(name) = IF binding = {} THEN None ELSE env[Max(binding)].vars[name]
  BY <1>1 DEF innermost
<1>6. \/ binding = {} /\ lookup_variable(name) = None
      \/ \E i \in binding : lookup_variable(name) = env[i].vars[name] /\ \A j \in binding : j <= i
  BY <1>3 DEF LastBinding
<1> HIDE DEF binding
<1> QED
  BY <1>4, <1>5, <1>6, MaxIs

\* Scoping is lexical, for every program and every nesting of blocks: a variable
\* means its declaration in the nearest block around the use (lookup_variable
\* follows the parents of the scopes; push_scope, pop_scope keep them the blocks).
THEOREM LexicalLookupHolds == Spec => []LexicalLookup
<1> DEFINE IInv == Inv /\ method \in Nat /\ ParentsAreOlder
<1>1. Init => IInv
  BY InitInv, OlderInit DEF Init
<1>2. IInv /\ [Next]_vars => IInv'
  BY NextInv, MethodIndex, OlderNext
<1>3. IInv => LexicalLookup
  BY LookupIsLexical
<1> QED
  BY <1>1, <1>2, <1>3, PTL DEF Spec

-----------------------------------------------------------------------------
(***************************************************************************)
(* The errors of infer_expression: what is left without a type has been    *)
(* reported, but for the forms that fail in silence.  Every visit is given *)
(* results that are in order (ResultOK) and returns one.  A type a visit   *)
(* returns is something all the way down (Proper), because those are the   *)
(* types that the symbols, the variables and the methods hold; otherwise   *)
(* an array could be indexed to nothing without an error.                  *)
(***************************************************************************)

LEMMA GreatestNumber ==
  ASSUME NEW n \in Nat, NEW T, T \subseteq 1..n, T # {}
  PROVE  \E x \in T : \A y \in T : x >= y
<1> DEFINE S == {n - x : x \in T}
<1>1. S \subseteq Nat /\ S # {}
  <2>1. \A x \in 1..n : n - x \in Nat
    OBVIOUS
  <2> QED
    BY <2>1
<1>2. PICK s \in S : \A r \in S : s <= r
  <2> HIDE DEF S
  <2> QED
    BY <1>1, LeastNumber
<1>3. PICK x \in T : s = n - x
  OBVIOUS
<1>4. ASSUME NEW y \in T PROVE x >= y
  <2>1. n - x <= n - y
    BY <1>2, <1>3
  <2>2. x \in Int /\ y \in Int
    OBVIOUS
  <2> QED
    BY <2>1, <2>2
<1> QED
  BY <1>4

-----------------------------------------------------------------------------
(* What the lookups return.                                                *)

\* A lookup returns what some scope binds the name to.
LEMMA LookupFinds ==
  ASSUME ParentsAreOlder, current_scope \in ScopeIds, NEW field, NEW name, lookup(field, name) # None
  PROVE  \E s \in ScopeIds : lookup(field, name) = field[s][name]
<1> DEFINE found(s) == find_in(field, name)[s]
           Wrong == {s \in ScopeIds : found(s) # None /\ ~ \E t \in ScopeIds : found(s) = field[t][name]}
<1>1. Wrong \subseteq Nat
  BY TableAssumption DEF ScopeIds
<1>2. Wrong = {}
  <2> SUFFICES ASSUME Wrong # {} PROVE FALSE
    OBVIOUS
  <2>1. PICK m \in Wrong : \A s \in Wrong : m <= s
    <3> HIDE DEF Wrong
    <3> QED
      BY <1>1, LeastNumber
  <2>2. /\ m \in ScopeIds /\ found(m) # None
        /\ ~ \E t \in ScopeIds : found(m) = field[t][name]
    OBVIOUS
  <2>3. found(m) = IF field[m][name] # None THEN field[m][name]
                   ELSE IF m = root_scope THEN None
                   ELSE found(parent[m])
    BY <2>2, LookupEquation DEF found_at
  <2> HIDE DEF found
  <2>4. m # root_scope /\ found(m) = found(parent[m])
    BY <2>2, <2>3
  <2>5. parent[m] \in ScopeIds /\ parent[m] \in Nat /\ m \in Nat /\ parent[m] < m
    BY <2>2, <2>4, TableAssumption DEF ParentsAreOlder, ScopeIds
  <2>6. parent[m] \in Wrong
    BY <2>2, <2>4, <2>5
  <2> HIDE DEF Wrong
  <2> QED
    BY <2>1, <2>5, <2>6
<1>3. lookup(field, name) = found(current_scope)
  BY LookupEquation
<1> HIDE DEF found
<1> QED
  BY <1>2, <1>3

-----------------------------------------------------------------------------
(* Types that are something all the way down.                              *)

\* A set of types that holds the element type of each of its array types, and
\* whose named types have names.
ElementClosed(T) == /\ None \notin T
                    /\ \A ty \in T : /\ kind_of(ty) = "Array" => ty[2] \in T
                                     /\ kind_of(ty) \in {"Custom", "Struct"} => ty[2] \in Names

Proper(ty) == \E T : ElementClosed(T) /\ ty \in T

ProperOrNone(ty) == ty = None \/ Proper(ty)

LEMMA WrittenAreProper == \A ty \in Types : Proper(ty)
BY TypesAssumption DEF Proper, ElementClosed

LEMMA ProperIsSomething ==
  ASSUME NEW ty, Proper(ty)
  PROVE  /\ ty # None
         /\ kind_of(ty) = "Array" => Proper(ty[2])
         /\ kind_of(ty) \in {"Custom", "Struct"} => ty[2] \in Names
<1>1. PICK T : ElementClosed(T) /\ ty \in T
  BY DEF Proper
<1>2. /\ ty # None
      /\ kind_of(ty) = "Array" => ty[2] \in T
      /\ kind_of(ty) \in {"Custom", "Struct"} => ty[2] \in Names
  BY <1>1, Zenon DEF ElementClosed
<1>3. ty[2] \in T => Proper(ty[2])
  BY <1>1 DEF Proper
<1> QED
  BY <1>2, <1>3

LEMMA ArrayIsProper ==
  ASSUME NEW ty, Proper(ty), NEW len
  PROVE  Proper(Array(ty, len))
<1>1. PICK T : ElementClosed(T) /\ ty \in T
  BY DEF Proper
<1>2. Array(ty, len) # None /\ Array(ty, len)[2] = ty /\ kind_of(Array(ty, len)) = "Array"
  BY DEF Array, None, kind_of
<1>3. ElementClosed(T \cup {Array(ty, len)})
  BY <1>1, <1>2 DEF ElementClosed
<1> QED
  BY <1>3 DEF Proper

LEMMA NamedIsProper ==
  ASSUME NEW name \in Names
  PROVE  Proper(<<"Struct", name>>) /\ Proper(<<"Enum", name>>) /\ Proper(<<"Spec", name>>)
<1>1. ASSUME NEW kind, kind # "Array" PROVE Proper(<<kind, name>>)
  <2>1. ElementClosed({<<kind, name>>})
    BY <1>1 DEF ElementClosed, kind_of, None
  <2> QED
    BY <2>1 DEF Proper
<1> QED
  BY <1>1

LEMMA BuiltinIsProper == Proper(Bool) /\ Proper(I32)
<1>1. ElementClosed({Bool, I32})
  BY DEF ElementClosed, kind_of, None, Bool, I32
<1> QED
  BY <1>1 DEF Proper

\* The symbols, the variables and the methods only speak of such types.
ProperSymbol(s) ==
    /\ Proper(s.ret)
    /\ IsList(s.params) /\ \A i \in DOMAIN s.params : Proper(s.params[i].ty)
    /\ IsList(s.tps)

MethodsOK == IsList(methods) /\ \A i \in DOMAIN methods : Proper(methods[i].ret)

LEMMA SymbolsAreProper ==
  ASSUME NEW s \in Symbols, s # None
  PROVE  ProperSymbol(s)
<1>1. CASE s \in Definitions
  <2>1. PICK p \in Programs : \E i \in DOMAIN p : s = p[i]
    BY <1>1 DEF Definitions
  <2>2. Signed(s) /\ IsList(s.tps)
    BY <2>1, TypesAssumption, ProgramsAssumption
  <2> QED
    BY <2>2, WrittenAreProper DEF Signed, ProperSymbol
<1>2. CASE \E n \in TypeNames, ty \in Annotations : s = Alias(n, ty)
  <2>1. PICK n \in TypeNames, ty \in Annotations : s = Alias(n, ty)
    BY <1>2
  <2>2. s.ret = ty /\ s.params = <<>> /\ s.tps = <<>>
    BY <2>1 DEF Alias
  <2>3. Proper(ty)
    BY TypesAssumption, WrittenAreProper
  <2> QED
    BY <2>2, <2>3 DEF ProperSymbol, IsList, Range
<1> QED
  BY <1>1, <1>2 DEF Symbols

LEMMA BodiesAreSigned == \A d \in Bodies : Signed(d)
BY TypesAssumption, ProgramsAssumption, ListFacts DEF Bodies, Definitions

LEMMA VariablesAreProper == \A ty \in Written : ProperOrNone(ty)
<1> SUFFICES ASSUME NEW ty \in Written PROVE ProperOrNone(ty)
  OBVIOUS
<1>1. CASE ty \in {d.ret : d \in Definitions}
  BY <1>1, BodiesAreSigned, WrittenAreProper DEF Bodies, Signed, ProperOrNone
<1>2. CASE ty \in ParameterTypes
  <2>1. PICK d \in Bodies, self \in Selves, n \in Names : ty = parameters(d, self)[n]
    BY <1>2 DEF ParameterTypes
  <2>2. ty \in {None, self} \/ \E i \in DOMAIN d.params : ty = d.params[i].ty
    <3> DEFINE found == {i \in DOMAIN d.params : d.params[i].name = n}
               first == CHOOSE i \in found : \A j \in found : i <= j
    <3>1. ty = IF n = "self" /\ self # None THEN self
               ELSE IF found = {} THEN None
               ELSE d.params[first].ty
      BY <2>1 DEF parameters
    <3>2. CASE found = {}
      BY <3>1, <3>2
    <3>3. CASE found # {}
      <4>1. found \subseteq Nat
        BY BodiesAreSigned, ListFacts DEF Signed
      <4>2. first \in found
        <5>1. \E i \in found : \A j \in found : i <= j
          <6> HIDE DEF found
          <6> QED
            BY <3>3, <4>1, LeastNumber
        <5> QED
          BY <5>1
      <4> QED
        BY <3>1, <3>3, <4>2
    <3> QED
      BY <3>2, <3>3
  <2>3. ProperOrNone(None) /\ ProperOrNone(self)
    BY NamedIsProper DEF Selves, ProperOrNone
  <2> QED
    BY <2>2, <2>3, BodiesAreSigned, WrittenAreProper DEF Signed, ProperOrNone
<1>3. CASE ty \in {None} \cup Annotations
  BY <1>3, TypesAssumption, WrittenAreProper DEF ProperOrNone
<1> QED
  BY <1>1, <1>2, <1>3 DEF Written

\* What the expressions are visited in.
Context == Inv /\ RootInv /\ ParentsAreOlder /\ MethodsOK

LEMMA LookupVariable ==
  ASSUME Context, NEW name \in Names
  PROVE  ProperOrNone(lookup_variable(name))
<1>1. CASE lookup_variable(name) # None
  <2>1. PICK s \in ScopeIds : lookup_variable(name) = variables[s][name]
    BY <1>1, LookupFinds, OpenScopes DEF Context, lookup_variable
  <2>2. variables[s][name] \in Written
    BY DEF Context, Inv, Typed, Declarations
  <2> QED
    BY <2>1, <2>2, VariablesAreProper
<1> QED
  BY <1>1 DEF ProperOrNone

LEMMA LookupSymbol ==
  ASSUME Context, NEW name \in Names, lookup_symbol(name) # None
  PROVE  ProperSymbol(lookup_symbol(name))
<1>1. PICK s \in ScopeIds : lookup_symbol(name) = symbols[s][name]
  BY LookupFinds, OpenScopes DEF Context, lookup_symbol
<1>2. symbols[s][name] \in Symbols
  BY DEF Context, RootInv, PhaseOK
<1> QED
  BY <1>1, <1>2, SymbolsAreProper

LEMMA LookupKind ==
  ASSUME Context, NEW name \in Names, NEW kind, lookup_kind(name, kind) # None
  PROVE  ProperSymbol(lookup_kind(name, kind))
BY LookupSymbol DEF lookup_kind

LEMMA LookupType ==
  ASSUME Context, NEW name \in Names
  PROVE  ProperOrNone(lookup_type(name))
<1> DEFINE symbol == lookup_symbol(name)
<1>1. CASE symbol = None
  BY <1>1 DEF lookup_type, ProperOrNone
<1>2. CASE symbol # None
  <2>1. Proper(symbol.ret)
    BY <1>2, LookupSymbol DEF ProperSymbol
  <2>2. lookup_type(name) = CASE symbol.kind = "struct" -> <<"Struct", name>>
                              [] symbol.kind = "enum" -> <<"Enum", name>>
                              [] symbol.kind = "spec" -> <<"Spec", name>>
                              [] symbol.kind = "type" -> symbol.ret
                              [] OTHER -> None
    BY <1>2 DEF lookup_type
  <2> HIDE DEF symbol
  <2>3. lookup_type(name) \in {<<"Struct", name>>, <<"Enum", name>>, <<"Spec", name>>, symbol.ret, None}
    BY <2>2
  <2> QED
    BY <2>1, <2>3, NamedIsProper DEF ProperOrNone
<1> QED
  BY <1>1, <1>2

LEMMA LookupMethod ==
  ASSUME Context, NEW type, NEW name, lookup_method(type, name) # None
  PROVE  Proper(lookup_method(type, name).ret)
<1> DEFINE found == {i \in DOMAIN methods : methods[i].type = type /\ methods[i].name = name}
           first == CHOOSE i \in found : \A j \in found : i <= j
<1>1. found # {} /\ lookup_method(type, name) = methods[first]
  BY DEF lookup_method
<1>2. first \in found
  <2>1. \E i \in found : \A j \in found : i <= j
    <3>1. found \subseteq Nat
      BY ListFacts DEF Context, MethodsOK
    <3> HIDE DEF found
    <3> QED
      BY <1>1, <3>1, LeastNumber
  <2> QED
    BY <2>1
<1> QED
  BY <1>1, <1>2 DEF Context, MethodsOK

-----------------------------------------------------------------------------
(* The results of the visits.                                              *)

Reported(r) == r.err # {} \/ r.hole

Complete(r) == r.ty = None \/ r.gap => Reported(r)

Shaped(r) == r = [node |-> r.node, ty |-> r.ty, err |-> r.err, gap |-> r.gap, val |-> r.val,
                  hole |-> r.hole, bad |-> r.bad]

ResultOK(r) ==
    /\ Shaped(r)
    /\ ProperOrNone(r.ty)
    /\ Complete(r)

LEMMA SkippedGap ==
  ASSUME NEW e, Shaped(e)
  PROVE  Skipped(e).gap = e.val
<1>1. PICK a, b, c, d, f, g, h :
         e = [node |-> a, ty |-> b, err |-> c, gap |-> d, val |-> f, hole |-> g, bad |-> h]
  BY DEF Shaped
<1> QED
  BY <1>1 DEF Skipped

LEMMA WithHole ==
  ASSUME NEW e, Shaped(e), NEW unvisited, NEW r, r = [e EXCEPT !.hole = unvisited]
  PROVE  Shaped(r) /\ r.ty = e.ty /\ r.err = e.err /\ r.gap = e.gap /\ r.hole = unvisited
<1>1. PICK a, b, c, d, f, g, h :
         e = [node |-> a, ty |-> b, err |-> c, gap |-> d, val |-> f, hole |-> g, bad |-> h]
  BY DEF Shaped
<1>2. r = [node |-> a, ty |-> b, err |-> c, gap |-> d, val |-> f, hole |-> unvisited, bad |-> h]
  BY <1>1
<1> QED
  BY <1>1, <1>2 DEF Shaped

LEMMA WithBad ==
  ASSUME NEW e, ResultOK(e), NEW misfit
  PROVE  ResultOK([e EXCEPT !.bad = misfit])
<1> DEFINE r == [e EXCEPT !.bad = misfit]
<1>1. Shaped(r) /\ r.ty = e.ty /\ r.err = e.err /\ r.gap = e.gap /\ r.hole = e.hole
  BY DEF Shaped, ResultOK
<1> HIDE DEF r
<1> QED
  BY <1>1 DEF r, ResultOK, Complete, Reported

\* A node whose type is there, over results that are in order.
LEMMA NodeTyped ==
  ASSUME NEW node, NEW ty, NEW err, NEW operands,
         Proper(ty), \A i \in DOMAIN operands : ResultOK(operands[i])
  PROVE  ResultOK(Node(node, ty, err, operands))
<1> DEFINE r == Node(node, ty, err, operands)
<1>1. /\ r.ty = ty /\ ty # None
      /\ r.err = err \cup UNION {operands[i].err : i \in DOMAIN operands}
      /\ r.gap => \E i \in DOMAIN operands : operands[i].gap
      /\ (\E i \in DOMAIN operands : operands[i].hole) => r.hole
      /\ Shaped(r)
  BY ProperIsSomething DEF Node, Shaped
<1> HIDE DEF r
<1>2. r.gap => Reported(r)
  <2> SUFFICES ASSUME r.gap PROVE Reported(r)
    OBVIOUS
  <2>1. PICK i \in DOMAIN operands : operands[i].gap
    BY <1>1
  <2>2. operands[i].err # {} \/ operands[i].hole
    BY <2>1 DEF ResultOK, Complete, Reported
  <2> QED
    BY <1>1, <2>2 DEF Reported
<1> QED
  BY <1>1, <1>2 DEF r, ResultOK, ProperOrNone, Complete

\* A node without a type that pushes an error, or has an operand with one.
LEMMA NodeReported ==
  ASSUME NEW node, NEW ty, NEW err, NEW operands, ProperOrNone(ty),
         err # {} \/ \E i \in DOMAIN operands : Reported(operands[i])
  PROVE  ResultOK(Node(node, ty, err, operands))
<1> DEFINE r == Node(node, ty, err, operands)
<1>1. /\ r.ty = ty
      /\ r.err = err \cup UNION {operands[i].err : i \in DOMAIN operands}
      /\ (\E i \in DOMAIN operands : operands[i].hole) => r.hole
      /\ Shaped(r)
  BY DEF Node, Shaped
<1> HIDE DEF r
<1>2. Reported(r)
  BY <1>1 DEF Reported
<1> QED
  BY <1>1, <1>2 DEF r, ResultOK, Complete

\* Such a node over results that are in order: the untyped operand was reported.
LEMMA NodeUntyped ==
  ASSUME NEW node, NEW ty, NEW err, NEW operands, ProperOrNone(ty),
         NEW i \in DOMAIN operands, ResultOK(operands[i]), operands[i].ty = None
  PROVE  ResultOK(Node(node, ty, err, operands))
<1>1. Reported(operands[i])
  BY DEF ResultOK, Complete
<1> QED
  BY <1>1, NodeReported

LEMMA IfPushes == \A condition, error : If(condition, error) # {} <=> condition
BY DEF If

LEMMA LeavesOK ==
  ASSUME Context, NEW n \in Names
  PROVE  /\ ResultOK(Identifier(n)) /\ ResultOK(Uzumaki) /\ ResultOK(ArrayLiteral(<<>>))
         /\ \A ty \in {I32, Bool} : ResultOK(Literal(ty))
<1>1. ASSUME NEW node, NEW ty, NEW err, NEW isHole \in BOOLEAN, ProperOrNone(ty),
             ty = None \/ node = "uzumaki" => err # {} \/ isHole
      PROVE  ResultOK(Leaf(node, ty, err, isHole))
  BY <1>1 DEF Leaf, Shaped, ResultOK, Complete, Reported
<1>2. ResultOK(Identifier(n))
  BY <1>1, LookupVariable, IfPushes DEF Identifier
<1>3. ResultOK(Uzumaki) /\ ResultOK(ArrayLiteral(<<>>))
  BY <1>1 DEF Uzumaki, ArrayLiteral, ProperOrNone
<1>4. \A ty \in {I32, Bool} : ResultOK(Literal(ty))
  BY <1>1, BuiltinIsProper, ProperIsSomething DEF Literal, ProperOrNone
<1> QED
  BY <1>2, <1>3, <1>4

LEMMA ParenthesizedOK ==
  ASSUME NEW e, ResultOK(e)
  PROVE  ResultOK(Parenthesized(e))
<1> DEFINE es == <<e>>
<1>1. DOMAIN es = {1} /\ es[1] = e /\ Parenthesized(e) = Node("value", e.ty, {}, es)
  BY DEF Parenthesized
<1> HIDE DEF es
<1>2. CASE e.ty = None
  BY <1>1, <1>2, NodeUntyped DEF ProperOrNone
<1>3. CASE e.ty # None
  BY <1>1, <1>3, NodeTyped DEF ResultOK, ProperOrNone
<1> QED
  BY <1>2, <1>3

LEMMA PrefixUnaryOK ==
  ASSUME NEW e, ResultOK(e), NEW op \in {"Not", "Neg", "BitNot"}
  PROVE  ResultOK(PrefixUnary(op, e))
<1> DEFINE es == <<e>>
<1>1. DOMAIN es = {1} /\ es[1] = e
  OBVIOUS
<1>2. PrefixUnary(op, e) \in {Node("value", None, {}, es), Node("value", e.ty, {}, es),
                              Node("value", None, {"InvalidUnaryOperand"}, es)}
      /\ (e.ty = None => PrefixUnary(op, e) = Node("value", None, {}, es))
  BY DEF PrefixUnary
<1> HIDE DEF es
<1>3. CASE e.ty = None
  BY <1>1, <1>2, <1>3, NodeUntyped DEF ProperOrNone
<1>4. CASE e.ty # None /\ PrefixUnary(op, e) = Node("value", e.ty, {}, es)
  BY <1>1, <1>4, NodeTyped DEF ResultOK, ProperOrNone
<1>5. CASE PrefixUnary(op, e) = Node("value", None, {"InvalidUnaryOperand"}, es)
  BY <1>5, NodeReported DEF ProperOrNone
<1>6. CASE e.ty # None /\ PrefixUnary(op, e) = Node("value", None, {}, es)
  <2>1. PrefixUnary(op, e) \in {Node("value", e.ty, {}, es), Node("value", None, {"InvalidUnaryOperand"}, es)}
    BY <1>6 DEF PrefixUnary, es
  <2> QED
    BY <2>1, <1>4, <1>5, <1>6
<1> QED
  BY <1>2, <1>3, <1>4, <1>5, <1>6

\* The struct an object is of.
LEMMA StructName ==
  ASSUME NEW ty, Proper(ty), struct_name(ty) # ""
  PROVE  struct_name(ty) \in Names
<1>1. struct_name(ty) = ty[2] /\ kind_of(ty) \in {"Custom", "Struct"}
  BY DEF struct_name
<1> QED
  BY <1>1, ProperIsSomething

LEMMA FieldType ==
  ASSUME NEW fields, IsList(fields), \A i \in DOMAIN fields : Proper(fields[i].ty), NEW name
  PROVE  ProperOrNone(field_type(fields, name))
<1> DEFINE found == {i \in DOMAIN fields : fields[i].name = name}
           last == CHOOSE i \in found : \A j \in found : i >= j
<1>1. field_type(fields, name) = IF found = {} THEN None ELSE fields[last].ty
  BY DEF field_type
<1>2. CASE found = {}
  BY <1>1, <1>2 DEF ProperOrNone
<1>3. CASE found # {}
  <2>1. found \subseteq 1..Len(fields) /\ Len(fields) \in Nat
    BY ListFacts
  <2>2. \E i \in found : \A j \in found : i >= j
    <3> HIDE DEF found
    <3> QED
      BY <1>3, <2>1, GreatestNumber
  <2>3. last \in found
    BY <2>2
  <2> QED
    BY <1>1, <1>3, <2>3 DEF ProperOrNone
<1> QED
  BY <1>2, <1>3

LEMMA MemberAccessOK ==
  ASSUME Context, NEW e, ResultOK(e), NEW field
  PROVE  ResultOK(MemberAccess(e, field))
<1> DEFINE es == <<e>>
           struct == struct_name(e.ty)
           ty == IF struct = "" \/ lookup_struct(struct) = None THEN None
                 ELSE field_type(lookup_struct(struct).params, field)
<1>1. DOMAIN es = {1} /\ es[1] = e
  OBVIOUS
<1>2. MemberAccess(e, field) =
         IF e.ty = None THEN Node("value", None, {}, es)
         ELSE IF struct = "" THEN Node("value", None, {"ExpectedStructType"}, es)
         ELSE IF ty = None THEN Node("value", None, {"FieldNotFound"}, es)
         ELSE Node("value", ty, private_access, es)
  BY DEF MemberAccess
<1>3. ASSUME e.ty # None, struct # "", ty # None
      PROVE  Proper(ty)
  <2>1. struct \in Names /\ lookup_struct(struct) # None
    BY <1>3, StructName DEF ResultOK, ProperOrNone
  <2>2. ProperSymbol(lookup_struct(struct))
    BY <2>1, LookupKind DEF lookup_struct
  <2>3. ProperOrNone(field_type(lookup_struct(struct).params, field))
    BY <2>2, FieldType DEF ProperSymbol
  <2> QED
    BY <1>3, <2>3 DEF ProperOrNone
<1> HIDE DEF es, struct, ty
<1>4. ProperOrNone(None)
  BY DEF ProperOrNone
<1>5. CASE e.ty = None
  BY <1>1, <1>2, <1>4, <1>5, NodeUntyped
<1>6. CASE e.ty # None /\ (struct = "" \/ ty = None)
  BY <1>2, <1>4, <1>6, NodeReported
<1>7. CASE e.ty # None /\ struct # "" /\ ty # None
  BY <1>1, <1>2, <1>3, <1>7, NodeTyped
<1> QED
  BY <1>5, <1>6, <1>7

LEMMA TypeMemberAccessOK ==
  ASSUME NEW name \in Names, NEW variant
  PROVE  ResultOK(TypeMemberAccess(name, variant))
<1> DEFINE es == <<>>
           type == <<"Enum", name>>
<1>1. \/ \E err : err # {} /\ TypeMemberAccess(name, variant) = Node("value", None, err, es)
      \/ TypeMemberAccess(name, variant) = Node("value", type, private_access, es)
  <2>1. {"UndefinedEnum"} # {} /\ {"VariantNotFound"} # {}
    OBVIOUS
  <2> QED
    BY <2>1 DEF TypeMemberAccess
<1>2. \A i \in DOMAIN es : ResultOK(es[i])
  OBVIOUS
<1>3. Proper(type) /\ ProperOrNone(None)
  BY NamedIsProper DEF ProperOrNone
<1> HIDE DEF es, type
<1> QED
  BY <1>1, <1>2, <1>3, NodeReported, NodeTyped

LEMMA PrivateAccess == private_access \subseteq {"PrivateAccessViolation"}
BY DEF private_access, If

LEMMA BinaryOK ==
  ASSUME NEW l, NEW r, ResultOK(l), ResultOK(r), NEW op
  PROVE  ResultOK(Binary(op, l, r)) /\ ResultOK(ArrayIndexAccess(l, r))
<1> DEFINE es == <<l, r>>
           first == <<l, Skipped(r)>>
<1>1. DOMAIN es = {1, 2} /\ es[1] = l /\ es[2] = r /\ DOMAIN first = {1, 2} /\ first[1] = l
  OBVIOUS
<1>2. \A i \in DOMAIN es : ResultOK(es[i])
  BY <1>1
<1>3. ProperOrNone(None) /\ Proper(Bool)
  BY BuiltinIsProper DEF ProperOrNone
<1>4. (l.ty # None => Proper(l.ty)) /\ (r.ty # None => Proper(r.ty))
  BY DEF ResultOK, ProperOrNone
<1>5. ResultOK(Binary(op, l, r))
  <2> DEFINE mismatch == If(l.ty # r.ty, "BinaryOperandTypeMismatch")
             wrong == If(~is_number(l.ty) \/ ~is_number(r.ty), "InvalidBinaryOperand")
  <2>1. CASE l.ty = None \/ r.ty = None
    <3>1. Binary(op, l, r) = Node("value", None, {}, es)
      BY <2>1 DEF Binary
    <3>2. PICK i \in {1, 2} : es[i].ty = None
      BY <1>1, <2>1
    <3> HIDE DEF es
    <3> QED
      BY <1>1, <1>2, <1>3, <3>1, <3>2, NodeUntyped
  <2>2. CASE l.ty # None /\ r.ty # None
    <3>1. Binary(op, l, r) \in {Node("value", Bool, mismatch, es),
                                Node("value", None, mismatch \cup {"InvalidBinaryOperand"}, es),
                                Node("value", l.ty, mismatch \cup wrong, es)}
      BY <2>2 DEF Binary
    <3>2. mismatch \cup {"InvalidBinaryOperand"} # {}
      OBVIOUS
    <3> HIDE DEF es, mismatch, wrong
    <3> QED
      BY <1>2, <1>3, <1>4, <2>2, <3>1, <3>2, NodeTyped, NodeReported
  <2> QED
    BY <2>1, <2>2
<1>6. ResultOK(ArrayIndexAccess(l, r))
  <2> DEFINE notNumeric == If(r.ty # None /\ ~is_number(r.ty), "ArrayIndexNotNumeric")
  <2>1. CASE l.ty = None
    <3>1. ArrayIndexAccess(l, r) = Node("value", None, {}, first)
      BY <2>1 DEF ArrayIndexAccess
    <3> HIDE DEF first
    <3> QED
      BY <1>1, <1>3, <2>1, <3>1, NodeUntyped
  <2>2. CASE l.ty # None
    <3>1. \/ /\ kind_of(l.ty) = "Array"
             /\ ArrayIndexAccess(l, r) = Node("value", l.ty[2], notNumeric, es)
          \/ ArrayIndexAccess(l, r) = Node("value", None, notNumeric \cup {"ExpectedArrayType"}, es)
      BY <2>2 DEF ArrayIndexAccess
    <3>2. kind_of(l.ty) = "Array" => Proper(l.ty[2])
      BY <1>4, <2>2, ProperIsSomething
    <3>3. notNumeric \cup {"ExpectedArrayType"} # {}
      OBVIOUS
    <3> HIDE DEF es, notNumeric
    <3> QED
      BY <1>2, <1>3, <3>1, <3>2, <3>3, NodeTyped, NodeReported
  <2> QED
    BY <2>1, <2>2
<1> QED
  BY <1>5, <1>6

LEMMA ArrayLiteralOK ==
  ASSUME NEW es, \A i \in DOMAIN es : ResultOK(es[i]), IsList(es), es # <<>>
  PROVE  ResultOK(ArrayLiteral(es))
<1>1. 1 \in DOMAIN es
  BY ListFacts
<1>2. CASE es[1].ty = None
  <2> DEFINE first == [i \in DOMAIN es |-> IF i = 1 THEN es[i] ELSE Skipped(es[i])]
  <2>1. ArrayLiteral(es) = Node("literal", None, {}, first)
    BY <1>2 DEF ArrayLiteral
  <2>2. 1 \in DOMAIN first /\ first[1] = es[1] /\ ResultOK(es[1])
    BY <1>1
  <2> HIDE DEF first
  <2> QED
    BY <1>2, <2>1, <2>2, NodeUntyped DEF ProperOrNone
<1>3. CASE es[1].ty # None
  <2>1. Proper(Array(es[1].ty, Len(es)))
    BY <1>1, <1>3, ArrayIsProper DEF ResultOK, ProperOrNone
  <2>2. \E err : ArrayLiteral(es) = Node("literal", Array(es[1].ty, Len(es)), err, es)
    BY <1>3 DEF ArrayLiteral
  <2> QED
    BY <2>1, <2>2, NodeTyped
<1> QED
  BY <1>2, <1>3

\* The field values are not visited: what they leave without a type is a hole.
LEMMA StructExpressionOK ==
  ASSUME Context, NEW name \in Names, NEW values, \A i \in DOMAIN values : ResultOK(values[i])
  PROVE  ResultOK(StructExpression(name, values))
<1> DEFINE ty == lookup_type(name)
           node == Node("value", ty, If(ty = None, "UndefinedStruct"), SkipAll(values))
           r == StructExpression(name, values)
<1>1. r = [node EXCEPT !.hole = \E i \in DOMAIN values : values[i].val]
  BY DEF StructExpression
<1>2. /\ node.ty = ty /\ (ty = None => node.err # {})
      /\ node.gap => ty = None \/ \E i \in DOMAIN values : SkipAll(values)[i].gap
  BY DEF Node, If, SkipAll
<1>3. \A i \in DOMAIN values : SkipAll(values)[i].gap = values[i].val
  BY SkippedGap DEF SkipAll, ResultOK
<1>4. Shaped(node)
  BY DEF Node, Shaped
<1>5. ProperOrNone(ty)
  BY LookupType
<1> DEFINE unvisited == \E i \in DOMAIN values : values[i].val
<1> HIDE DEF node, ty, r, unvisited
<1>6. /\ r.ty = ty /\ r.err = node.err /\ r.gap = node.gap /\ r.hole = unvisited
      /\ Shaped(r)
  <2>1. r = [node EXCEPT !.hole = unvisited]
    BY <1>1 DEF unvisited
  <2> QED
    BY <1>2, <1>4, <2>1, WithHole
<1>7. Complete(r)
  BY <1>2, <1>3, <1>6 DEF Complete, Reported, unvisited
<1> QED
  BY <1>5, <1>6, <1>7 DEF r, ResultOK

\* A list of results that are in order.
LEMMA ListOK ==
  ASSUME NEW S, \A r \in S : ResultOK(r), NEW es \in Seq(S)
  PROVE  IsList(es) /\ \A i \in DOMAIN es : ResultOK(es[i])
BY DEF IsList, Range

LEMMA FittedOK ==
  ASSUME NEW call, ResultOK(call), NEW args, NEW params
  PROVE  ResultOK(Fitted(call, args, params))
BY WithBad DEF Fitted

LEMMA MethodCallResultOK ==
  ASSUME NEW S, \A r \in S : ResultOK(r), NEW receiver \in Seq(S), NEW args \in Seq(S),
         NEW m, Proper(m.ret), NEW misuse
  PROVE  ResultOK(MethodCallResult(m, receiver, args, misuse))
<1> DEFINE es == receiver \o args
           err == misuse \cup private_access \cup If(Len(args) # Len(m.params), "ArgumentCountMismatch")
<1>1. MethodCallResult(m, receiver, args, misuse) = Fitted(Node("value", m.ret, err, es), args, m.params)
  BY DEF MethodCallResult
<1>2. es \in Seq(S)
  OBVIOUS
<1> HIDE DEF es, err
<1>3. ResultOK(Node("value", m.ret, err, es))
  BY <1>2, ListOK, NodeTyped
<1> QED
  BY <1>1, <1>3, FittedOK

LEMMA AssociatedCallOK ==
  ASSUME Context, NEW S, \A r \in S : ResultOK(r), NEW args \in Seq(S), NEW type, NEW name
  PROVE  ResultOK(AssociatedCall(type, name, args))
<1> DEFINE m == lookup_method(type, name)
           misuse == If(m.has_self, "InstanceMethodCalledAsAssociated")
<1>1. \/ AssociatedCall(type, name, args) = Node("value", None, {"UndefinedFunction"}, args)
      \/ m # None /\ AssociatedCall(type, name, args) = MethodCallResult(m, <<>>, args, misuse)
  BY DEF AssociatedCall
<1>2. m # None => Proper(m.ret)
  BY LookupMethod
<1> HIDE DEF m, misuse
<1>3. ResultOK(Node("value", None, {"UndefinedFunction"}, args))
  BY NodeReported DEF ProperOrNone
<1>4. m # None => ResultOK(MethodCallResult(m, <<>>, args, misuse))
  <2>1. <<>> \in Seq(S)
    OBVIOUS
  <2> QED
    BY <1>2, <2>1, MethodCallResultOK
<1> QED
  BY <1>1, <1>3, <1>4

LEMMA MethodCallOK ==
  ASSUME Context, NEW S, \A r \in S : ResultOK(r), NEW receiver \in S, NEW args \in Seq(S), NEW name
  PROVE  ResultOK(MethodCall(receiver, name, args))
<1> DEFINE struct == struct_name(receiver.ty)
           m == IF struct = "" THEN None ELSE lookup_method(struct, name)
           misuse == If(~m.has_self, "AssociatedFunctionCalledAsMethod")
           es == <<receiver>> \o args
           skipped == <<receiver>> \o SkipAll(args)
           r == MethodCall(receiver, name, args)
<1>1. \/ receiver.ty = None /\ r = Node("value", None, {}, es)
      \/ r = Node("value", None, {"MethodCallOnNonStruct"}, es)
      \/ r = Node("value", None, {"MethodNotFound"}, skipped)
      \/ m # None /\ r = MethodCallResult(m, <<receiver>>, args, misuse)
  BY DEF MethodCall
<1>2. m # None => Proper(m.ret)
  BY LookupMethod
<1>3. 1 \in DOMAIN es /\ es[1] = receiver /\ ResultOK(receiver)
  OBVIOUS
<1>4. <<receiver>> \in Seq(S) /\ ProperOrNone(None)
  BY DEF ProperOrNone
<1> HIDE DEF m, misuse, es, skipped, r
<1>5. receiver.ty = None => ResultOK(Node("value", None, {}, es))
  BY <1>3, <1>4, NodeUntyped
<1>6. /\ ResultOK(Node("value", None, {"MethodCallOnNonStruct"}, es))
      /\ ResultOK(Node("value", None, {"MethodNotFound"}, skipped))
  BY <1>4, NodeReported
<1>7. m # None => ResultOK(MethodCallResult(m, <<receiver>>, args, misuse))
  BY <1>2, <1>4, MethodCallResultOK
<1> QED
  BY <1>1, <1>5, <1>6, <1>7 DEF r

\* The type found for a type parameter is something, if it is found.
LEMMA InferredProper ==
  ASSUME Context, NEW S, \A r \in S : ResultOK(r), NEW args \in Seq(S),
         NEW f, IsList(f.tps), NEW targs \in TypeArguments, NEW k \in DOMAIN f.tps
  PROVE  ProperOrNone(inferred(f, args, targs)[k])
<1> DEFINE found == evidence(f, args, f.tps[k])
           first == CHOOSE i \in found : \A j \in found : i <= j
<1>1. inferred(f, args, targs)[k] =
         IF targs # <<>> THEN IF Len(targs) = Len(f.tps) THEN type_argument(targs[k]) ELSE None
         ELSE IF found = {} THEN None ELSE args[first].ty
  BY DEF inferred
<1>2. CASE targs # <<>> /\ Len(targs) = Len(f.tps)
  <2>1. Proper(targs[k])
    <3>1. k \in DOMAIN targs
      BY <1>2, TypesAssumption, ListFacts
    <3>2. targs[k] \in Types
      BY <3>1, TypesAssumption
    <3> QED
      BY <3>2, WrittenAreProper
  <2>2. type_argument(targs[k]) = targs[k] \/
        /\ kind_of(targs[k]) = "Custom"
        /\ type_argument(targs[k]) = lookup_type(targs[k][2])
    BY DEF type_argument
  <2>3. kind_of(targs[k]) = "Custom" => ProperOrNone(lookup_type(targs[k][2]))
    BY <2>1, ProperIsSomething, LookupType
  <2> QED
    BY <1>1, <1>2, <2>1, <2>2, <2>3 DEF ProperOrNone
<1>3. CASE targs = <<>> /\ found # {}
  <2>1. found \subseteq DOMAIN args /\ DOMAIN args \subseteq Nat
    BY DEF evidence
  <2>2. \E i \in found : \A j \in found : i <= j
    <3> HIDE DEF found
    <3> QED
      BY <1>3, <2>1, LeastNumber
  <2>3. first \in found
    BY <2>2
  <2>4. ResultOK(args[first])
    BY <2>1, <2>3, ListOK
  <2> QED
    BY <1>1, <1>3, <2>4 DEF ResultOK
<1>4. CASE ~(targs # <<>> /\ Len(targs) = Len(f.tps)) /\ ~(targs = <<>> /\ found # {})
  BY <1>1, <1>4 DEF ProperOrNone
<1> QED
  BY <1>2, <1>3, <1>4

LEMMA SubstituteProper ==
  ASSUME NEW f, NEW types, \A k \in DOMAIN f.tps : ProperOrNone(types[k]), NEW ty, Proper(ty)
  PROVE  Proper(substitute(f, types, ty))
<1> DEFINE bound(t) == {k \in DOMAIN f.tps : t = Generic(f.tps[k]) /\ types[k] # None}
           value(t) == IF bound(t) = {} THEN t ELSE types[CHOOSE k \in bound(t) : TRUE]
<1>1. substitute(f, types, ty) =
         IF kind_of(ty) = "Array" THEN Array(value(ty[2]), ty[3]) ELSE value(ty)
  BY DEF substitute
<1>2. ASSUME NEW t, Proper(t) PROVE Proper(value(t))
  <2>1. CASE bound(t) = {}
    BY <1>2, <2>1
  <2>2. CASE bound(t) # {}
    <3>1. PICK k \in bound(t) : value(t) = types[k]
      BY <2>2
    <3> QED
      BY <3>1 DEF ProperOrNone
  <2> QED
    BY <2>1, <2>2
<1> HIDE DEF value
<1>3. kind_of(ty) = "Array" => Proper(Array(value(ty[2]), ty[3]))
  BY <1>2, ProperIsSomething, ArrayIsProper
<1> QED
  BY <1>1, <1>2, <1>3

LEMMA FunctionCallOK ==
  ASSUME Context, NEW S, \A r \in S : ResultOK(r), NEW args \in Seq(S),
         NEW name \in Names, NEW targs \in TypeArguments
  PROVE  ResultOK(FunctionCall(name, args, targs))
<1> DEFINE f == lookup_function(name)
           ty == substitute(f, inferred(f, args, targs), f.ret)
           call == Node("value", None, private_access \cup {"ArgumentCountMismatch"}, args)
           typed == Node("value", ty, private_access \cup inference_errors(f, args, targs), args)
           r == FunctionCall(name, args, targs)
<1>1. \/ r = Node("value", None, {"UndefinedFunction"}, args)
      \/ r = Fitted(call, args, f.params)
      \/ f # None /\ r = Fitted(typed, args, f.params)
  BY DEF FunctionCall
<1>2. f # None => Proper(ty)
  <2>1. f # None => ProperSymbol(f)
    BY LookupKind DEF lookup_function
  <2> HIDE DEF f
  <2> QED
    BY <2>1, InferredProper, SubstituteProper DEF ProperSymbol
<1> HIDE DEF f, ty, r
<1>3. ResultOK(Node("value", None, {"UndefinedFunction"}, args)) /\ ResultOK(call)
  BY NodeReported DEF ProperOrNone
<1>4. f # None => ResultOK(typed)
  BY <1>2, ListOK, NodeTyped
<1> HIDE DEF call, typed
<1> QED
  BY <1>1, <1>3, <1>4, FittedOK DEF r

-----------------------------------------------------------------------------
(* What is left without a type was reported.                               *)

StackOK == \E S : stack \in Seq(S) /\ \A r \in S : ResultOK(r)

GapOK == gap => errors # {} \/ hole

ReportInv == MethodsOK /\ StackOK /\ GapOK

LEMMA ReportInit == Init => ReportInv
<1> SUFFICES ASSUME Init PROVE ReportInv
  OBVIOUS
<1>1. StackOK
  <2>1. stack \in Seq({})
    BY DEF Init
  <2> QED
    BY <2>1 DEF StackOK
<1> QED
  BY <1>1 DEF ReportInv, Init, TableInit, MethodsOK, GapOK, IsList, Range

\* Steps outside the expressions only add errors.
LEMMA ReportKept ==
  ASSUME ReportInv, UNCHANGED <<methods, stack, gap, hole>>, errors \subseteq errors'
  PROVE  ReportInv'
<1>1. MethodsOK' /\ StackOK'
  BY DEF ReportInv, MethodsOK, StackOK
<1>2. GapOK'
  BY DEF ReportInv, GapOK
<1> QED
  BY <1>1, <1>2 DEF ReportInv

\* The methods a struct brings.
LEMMA RegisterMethods ==
  ASSUME Inv, ReportInv, RegisterType
  PROVE  ReportInv'
<1> DEFINE d == Definition
           new == methods_of(d)
<1>1. UNCHANGED <<stack, gap, hole>> /\ errors \subseteq errors'
  BY DEF RegisterType, walk
<1>2. CASE UNCHANGED methods
  BY <1>1, <1>2, ReportKept
<1>3. CASE methods' = methods \o new
  <2>1. PICK p \in Programs : \E i \in DOMAIN p : d = p[i]
    BY CurrentDefinition DEF Definitions
  <2>2. IsList(d.methods) /\ \A i \in DOMAIN d.methods : Proper(d.methods[i].ret)
    BY <2>1, ProgramsAssumption, TypesAssumption, WrittenAreProper DEF Signed
  <2>3. IsList(new) /\ \A i \in DOMAIN new : Proper(new[i].ret)
    <3> DEFINE n == Len(d.methods)
    <3>1. n \in Nat /\ DOMAIN d.methods = 1..n
      BY <2>2, ListFacts
    <3>2. /\ new = [i \in 1..n |-> new[i]] /\ DOMAIN new = 1..n
          /\ \A i \in 1..n : new[i].ret = d.methods[i].ret
      BY <3>1 DEF methods_of
    <3> HIDE DEF n, new
    <3> QED
      BY <2>2, <3>1, <3>2, ListIs
  <2> DEFINE M == {methods[i] : i \in DOMAIN methods} \cup {new[i] : i \in DOMAIN new}
  <2>4. \A m \in M : Proper(m.ret)
    BY <2>3 DEF ReportInv, MethodsOK
  <2>5. methods \in Seq(M) /\ new \in Seq(M)
    BY <2>3 DEF ReportInv, MethodsOK, IsList, Range
  <2> HIDE DEF M, new
  <2>6. methods' \in Seq(M)
    BY <1>3, <2>5
  <2>7. MethodsOK'
    BY <2>4, <2>6 DEF MethodsOK, IsList, Range
  <2>8. StackOK' /\ GapOK'
    BY <1>1 DEF ReportInv, StackOK, GapOK
  <2> QED
    BY <2>7, <2>8 DEF ReportInv
<1> QED
  BY <1>2, <1>3 DEF RegisterType

\* A node takes the place of its operands.
LEMMA VisitReport ==
  ASSUME ReportInv, NEW k \in 0..Len(stack), NEW result, ResultOK(result), Visit(k, result)
  PROVE  ReportInv'
<1>1. PICK S : stack \in Seq(S) /\ \A r \in S : ResultOK(r)
  BY DEF ReportInv, StackOK
<1>2. Len(stack) - k \in 0..Len(stack)
  BY <1>1
<1>3. SubSeq(stack, 1, Len(stack) - k) \in Seq(S)
  <2>1. CASE k = Len(stack)
    <3>1. SubSeq(stack, 1, 0) = <<>> /\ Len(stack) - k = 0
      BY <1>1, <2>1, SubSeqEmpty
    <3> QED
      BY <3>1
  <2>2. CASE k # Len(stack)
    BY <1>1, <1>2, <2>2
  <2> QED
    BY <2>1, <2>2
<1>4. stack' \in Seq(S \cup {result})
  <2> DEFINE rest == SubSeq(stack, 1, Len(stack) - k)
  <2>1. rest \in Seq(S \cup {result})
    BY <1>3
  <2>2. stack' = Append(rest, result)
    BY DEF Visit
  <2> HIDE DEF rest
  <2> QED
    BY <2>1, <2>2
<1>5. StackOK'
  BY <1>1, <1>4 DEF StackOK
<1>6. MethodsOK' /\ GapOK'
  BY DEF Visit, table, ReportInv, MethodsOK, GapOK
<1> QED
  BY <1>5, <1>6 DEF ReportInv

LEMMA OperandsTyped ==
  ASSUME NEW S, stack \in Seq(S), NEW k \in 0..Len(stack)
  PROVE  Operands(k) \in Seq(S) /\ Len(Operands(k)) = k
<1>1. CASE k = 0
  <2>1. Operands(k) = <<>>
    BY <1>1, SubSeqEmpty DEF Operands
  <2>2. <<>> \in Seq(S) /\ Len(<<>>) = 0
    OBVIOUS
  <2> QED
    BY <1>1, <2>1, <2>2
<1>2. CASE k # 0
  <2>1. Len(stack) - k + 1 \in 1..Len(stack) /\ Len(stack) \in 1..Len(stack)
    BY <1>2
  <2> DEFINE from == Len(stack) - k + 1
             to == Len(stack)
  <2>2. to - from + 1 = k /\ from \in 1..to /\ to \in Nat
    BY <2>1
  <2>3. Operands(k) = SubSeq(stack, from, to)
    BY DEF Operands
  <2> HIDE DEF from, to
  <2>4. from \in 1..(to + 1) /\ from <= to
    BY <2>2
  <2>5. SubSeq(stack, from, to) \in Seq(S) /\ Len(SubSeq(stack, from, to)) = to - from + 1
    BY <2>2, <2>4, SubSeqProperties DEF to
  <2> QED
    BY <2>2, <2>3, <2>5
<1> QED
  BY <1>1, <1>2

LEMMA VisitsReport ==
  ASSUME Context, ReportInv, VisitLeaf \/ VisitUnary \/ VisitBinary \/ VisitMany
  PROVE  ReportInv'
<1>1. PICK S : stack \in Seq(S) /\ \A r \in S : ResultOK(r)
  BY DEF ReportInv, StackOK
<1>2. Len(stack) \in Nat /\ 0 \in 0..Len(stack)
  BY <1>1
<1>3. CASE VisitLeaf
  <2>1. ASSUME NEW n \in VarNames PROVE ResultOK(Identifier(n))
    BY LeavesOK, CheckerAssumption
  <2>2. ResultOK(Uzumaki) /\ ResultOK(ArrayLiteral(<<>>)) /\ \A ty \in {I32, Bool} : ResultOK(Literal(ty))
    BY LeavesOK, CurrentDefinition DEF Context
  <2>3. ASSUME NEW n \in TypeNames, NEW v \in MemberNames PROVE ResultOK(TypeMemberAccess(n, v))
    BY TypeMemberAccessOK, CheckerAssumption
  <2> QED
    BY <1>2, <1>3, <2>1, <2>2, <2>3, VisitReport DEF VisitLeaf
<1>4. CASE VisitUnary
  <2> DEFINE e == Last(stack)
  <2>1. Len(stack) >= 1 /\ 1 \in 0..Len(stack) /\ ResultOK(e)
    BY <1>1, <1>2, <1>4 DEF VisitUnary, Last
  <2>2. \/ Visit(1, Parenthesized(e))
        \/ \E op \in {"Not", "Neg", "BitNot"} : Visit(1, PrefixUnary(op, e))
        \/ \E m \in MemberNames : Visit(1, MemberAccess(e, m))
    BY <1>4 DEF VisitUnary
  <2> HIDE DEF e
  <2> QED
    BY <2>1, <2>2, ParenthesizedOK, PrefixUnaryOK, MemberAccessOK, VisitReport
<1>5. CASE VisitBinary
  <2> DEFINE es == Operands(2)
  <2>1. 2 \in 0..Len(stack)
    BY <1>2, <1>5 DEF VisitBinary
  <2>2. es \in Seq(S) /\ Len(es) = 2
    BY <1>1, <2>1, OperandsTyped
  <2>3. \/ \E op \in {"And", "Lt", "Add"} : Visit(2, Binary(op, es[1], es[2]))
        \/ Visit(2, ArrayIndexAccess(es[1], es[2]))
    BY <1>5 DEF VisitBinary
  <2> HIDE DEF es
  <2>4. ResultOK(es[1]) /\ ResultOK(es[2])
    <3>1. es[1] \in S /\ es[2] \in S
      BY <2>2
    <3> QED
      BY <1>1, <3>1
  <2> QED
    BY <2>1, <2>3, <2>4, BinaryOK, VisitReport
<1>6. CASE VisitMany
  <2>1. PICK k \in 0..Len(stack) :
           LET es == Operands(k)
           IN  \/ k > 0 /\ Visit(k, ArrayLiteral(es))
               \/ \E n \in TypeNames : Visit(k, StructExpression(n, es))
               \/ \E n \in FunctionNames, targs \in TypeArguments : Visit(k, FunctionCall(n, es, targs))
               \/ \E n \in TypeNames, m \in MemberNames : Visit(k, AssociatedCall(n, m, es))
               \/ \E m \in MemberNames : k > 0 /\ Visit(k, MethodCall(es[1], m, Tail(es)))
    BY <1>6 DEF VisitMany
  <2> DEFINE es == Operands(k)
  <2>2. es \in Seq(S) /\ Len(es) = k /\ k \in Nat
    BY <1>1, <2>1, OperandsTyped
  <2>3. \/ k > 0 /\ Visit(k, ArrayLiteral(es))
        \/ \E n \in TypeNames : Visit(k, StructExpression(n, es))
        \/ \E n \in FunctionNames, targs \in TypeArguments : Visit(k, FunctionCall(n, es, targs))
        \/ \E n \in TypeNames, m \in MemberNames : Visit(k, AssociatedCall(n, m, es))
        \/ \E m \in MemberNames : k > 0 /\ Visit(k, MethodCall(es[1], m, Tail(es)))
    BY <2>1
  <2> HIDE DEF es
  <2>4. IsList(es) /\ \A i \in DOMAIN es : ResultOK(es[i])
    BY <1>1, <2>2, ListOK
  <2>5. CASE k > 0 /\ Visit(k, ArrayLiteral(es))
    <3>1. es # <<>>
      BY <2>2, <2>5
    <3>2. ResultOK(ArrayLiteral(es))
      BY <2>4, <3>1, ArrayLiteralOK
    <3> QED
      BY <2>5, <3>2, VisitReport
  <2>6. ASSUME NEW n \in TypeNames, Visit(k, StructExpression(n, es)) PROVE ReportInv'
    <3>1. ResultOK(StructExpression(n, es))
      BY <2>4, StructExpressionOK, CheckerAssumption
    <3> QED
      BY <2>6, <3>1, VisitReport
  <2>7. ASSUME NEW n \in FunctionNames, NEW targs \in TypeArguments, Visit(k, FunctionCall(n, es, targs))
        PROVE  ReportInv'
    <3>1. ResultOK(FunctionCall(n, es, targs))
      BY <1>1, <2>2, FunctionCallOK, CheckerAssumption
    <3> QED
      BY <2>7, <3>1, VisitReport
  <2>8. ASSUME NEW n \in TypeNames, NEW m \in MemberNames, Visit(k, AssociatedCall(n, m, es))
        PROVE  ReportInv'
    <3>1. ResultOK(AssociatedCall(n, m, es))
      BY <1>1, <2>2, AssociatedCallOK
    <3> QED
      BY <2>8, <3>1, VisitReport
  <2>9. ASSUME NEW m \in MemberNames, k > 0, Visit(k, MethodCall(es[1], m, Tail(es)))
        PROVE  ReportInv'
    <3>1. es[1] \in S /\ Tail(es) \in Seq(S)
      BY <2>2, <2>9
    <3>2. ResultOK(MethodCall(es[1], m, Tail(es)))
      BY <1>1, <3>1, MethodCallOK
    <3> QED
      BY <2>9, <3>2, VisitReport
  <2> QED
    BY <2>3, <2>5, <2>6, <2>7, <2>8, <2>9
<1> QED
  BY <1>3, <1>4, <1>5, <1>6

\* A statement whose operands have reported what they left without a type.
LEMMA StatementReport ==
  ASSUME ReportInv, NEW es, NEW err, Statement(es, err), UNCHANGED methods,
         \A i \in DOMAIN es : es[i].gap => Reported(es[i])
  PROVE  ReportInv'
<1>1. /\ errors' = errors \cup err \cup UNION {es[i].err : i \in DOMAIN es}
      /\ gap' => gap \/ \E i \in DOMAIN es : es[i].gap
      /\ hole \/ (\E i \in DOMAIN es : es[i].hole) => hole'
      /\ stack' = <<>>
  BY DEF Statement
<1>2. GapOK'
  <2> SUFFICES ASSUME gap' PROVE errors' # {} \/ hole'
    BY DEF GapOK
  <2>1. CASE gap
    BY <1>1, <2>1 DEF ReportInv, GapOK
  <2>2. CASE \E i \in DOMAIN es : es[i].gap
    <3>1. PICK i \in DOMAIN es : Reported(es[i])
      BY <2>2
    <3> QED
      BY <1>1, <3>1 DEF Reported
  <2> QED
    BY <1>1, <2>1, <2>2
<1>3. StackOK'
  <2>1. <<>> \in Seq({})
    OBVIOUS
  <2> QED
    BY <1>1, <2>1 DEF StackOK
<1>4. MethodsOK'
  BY DEF ReportInv, MethodsOK
<1> QED
  BY <1>2, <1>3, <1>4 DEF ReportInv

\* The operands are the whole stack, or an @ among them was given a type.
LEMMA StackReport ==
  ASSUME ReportInv
  PROVE  /\ \A i \in DOMAIN stack : ResultOK(stack[i]) /\ (stack[i].gap => Reported(stack[i]))
         /\ \A i \in DOMAIN stack : ~Given(stack[i]).gap
<1>1. PICK S : stack \in Seq(S) /\ \A r \in S : ResultOK(r)
  BY DEF ReportInv, StackOK
<1>2. \A i \in DOMAIN stack : ResultOK(stack[i])
  BY <1>1, ListOK
<1>3. \A i \in DOMAIN stack : stack[i].gap => Reported(stack[i])
  BY <1>2 DEF ResultOK, Complete
<1>4. ASSUME NEW e, Shaped(e) PROVE ~Given(e).gap
  <2>1. PICK a, b, c, d, f, g, h :
           e = [node |-> a, ty |-> b, err |-> c, gap |-> d, val |-> f, hole |-> g, bad |-> h]
    BY <1>4 DEF Shaped
  <2> QED
    BY <2>1 DEF Given
<1> QED
  BY <1>2, <1>3, <1>4 DEF ResultOK

LEMMA StatementsReport ==
  ASSUME ReportInv, StatementStep
  PROVE  ReportInv'
<1>1. ASSUME NEW err, Statement(stack, err), UNCHANGED methods PROVE ReportInv'
  BY <1>1, StackReport, StatementReport
<1>2. ASSUME NEW err, Statement(<<>>, err), UNCHANGED methods PROVE ReportInv'
  <2>1. \A i \in DOMAIN <<>> : <<>>[i].gap => Reported(<<>>[i])
    OBVIOUS
  <2> QED
    BY <1>2, <2>1, StatementReport
<1>3. ASSUME NEW err, 1 \in DOMAIN stack, Statement(<<Given(stack[1])>>, err), UNCHANGED methods
      PROVE  ReportInv'
  <2> DEFINE es == <<Given(stack[1])>>
  <2>1. \A i \in DOMAIN es : ~es[i].gap
    BY <1>3, StackReport
  <2> HIDE DEF es
  <2> QED
    BY <1>3, <2>1, StatementReport DEF es
<1>4. ASSUME NEW err, {1, 2} \subseteq DOMAIN stack, UNCHANGED methods,
             Statement(<<stack[1], Given(stack[2])>>, err)
      PROVE  ReportInv'
  <2> DEFINE es == <<stack[1], Given(stack[2])>>
  <2>1. DOMAIN es = {1, 2} /\ es[1] = stack[1] /\ es[2] = Given(stack[2])
    OBVIOUS
  <2> HIDE DEF es
  <2>2. \A i \in DOMAIN es : es[i].gap => Reported(es[i])
    BY <1>4, <2>1, StackReport
  <2> QED
    BY <1>4, <2>2, StatementReport DEF es
<1>5. /\ Len(stack) = 1 => 1 \in DOMAIN stack
      /\ Len(stack) = 2 => {1, 2} \subseteq DOMAIN stack
      /\ Len(stack) \in {0, 1} /\ stack # <<>> => 1 \in DOMAIN stack
  BY DEF ReportInv, StackOK
<1>6. CASE Assign
  <2>1. UNCHANGED methods /\ {1, 2} \subseteq DOMAIN stack
    BY <1>5, <1>6 DEF Assign, table
  <2>2. \/ \E err : Statement(stack, err)
        \/ \E err : Statement(<<stack[1], Given(stack[2])>>, err)
    BY <1>6 DEF Assign
  <2> QED
    BY <1>1, <1>4, <2>1, <2>2
<1>7. CASE ExpressionStatement \/ AssertStatement
  <2>1. UNCHANGED methods /\ \E err : Statement(stack, err)
    BY <1>7 DEF ExpressionStatement, AssertStatement, table
  <2> QED
    BY <1>1, <2>1
<1>8. CASE Return
  <2>1. UNCHANGED methods /\ 1 \in DOMAIN stack
    BY <1>5, <1>8 DEF Return, table
  <2>2. \/ \E err : Statement(stack, err)
        \/ \E err : Statement(<<Given(stack[1])>>, err)
    BY <1>8 DEF Return
  <2> QED
    BY <1>1, <1>3, <2>1, <2>2
<1>9. CASE IfStatement \/ Loop
  <2>1. UNCHANGED methods /\ \E err : Statement(stack, err)
    BY <1>9 DEF IfStatement, Loop, Open, push_scope
  <2> QED
    BY <1>1, <2>1
<1>10. CASE Block
  <2>1. UNCHANGED methods /\ \E err : Statement(<<>>, err)
    BY <1>10 DEF Block, Open, push_scope
  <2> QED
    BY <1>2, <2>1
<1>11. ASSUME NEW n \in VarNames, NEW ty \in Annotations, VariableDefinition(n, ty)
       PROVE  ReportInv'
  <2>1. UNCHANGED methods /\ (stack # <<>> => 1 \in DOMAIN stack)
    BY <1>5, <1>11 DEF VariableDefinition
  <2>2. \/ \E err : Statement(<<>>, err)
        \/ stack # <<>> /\ \E err : Statement(<<Given(stack[1])>>, err)
        \/ \E err : Statement(stack, err)
    BY <1>11 DEF VariableDefinition
  <2> QED
    BY <1>1, <1>2, <1>3, <2>1, <2>2
<1>12. ASSUME NEW n \in TypeNames, NEW ty \in Annotations, TypeDefinition(n, ty)
       PROVE  ReportInv'
  <2>1. UNCHANGED methods /\ \E err : Statement(<<>>, err)
    BY <1>12 DEF TypeDefinition
  <2> QED
    BY <1>2, <2>1
<1> QED
  BY <1>6, <1>7, <1>8, <1>9, <1>10, <1>11, <1>12 DEF StatementStep

LEMMA ReportNext ==
  ASSUME Inv, RootInv, ParentsAreOlder, ReportInv, [Next]_vars
  PROVE  ReportInv'
<1>1. CASE RegisterType
  BY <1>1, RegisterMethods
<1>2. CASE ProcessDirective \/ ResolveImports \/ CollectDefinition \/ NextDefinition \/ LeaveBlock \/ ElseArm
  <2>1. UNCHANGED <<methods, stack, gap, hole>> /\ errors \subseteq errors'
    BY <1>2 DEF ProcessDirective, ResolveImports, CollectDefinition, NextDefinition, LeaveBlock, ElseArm,
                push_scope, pop_scope, table, walk
  <2> QED
    BY <2>1, ReportKept
<1>3. CASE EnterFunction \/ EnterMethod
  <2>1. ASSUME NEW d, NEW self, NEW misuse, EnterBody(d, self, misuse)
        PROVE  UNCHANGED <<methods, stack, gap, hole>> /\ errors \subseteq errors'
    BY <2>1 DEF EnterBody, Open, push_scope, walk
  <2>2. UNCHANGED <<methods, stack, gap, hole>> /\ errors \subseteq errors'
    BY <1>3, <2>1 DEF EnterFunction, EnterMethod
  <2> QED
    BY <2>2, ReportKept
<1>4. CASE VisitLeaf \/ VisitUnary \/ VisitBinary \/ VisitMany
  BY <1>4, VisitsReport DEF Context, ReportInv
<1>5. CASE StatementStep
  BY <1>5, StatementsReport
<1>6. CASE UNCHANGED vars
  <2>1. UNCHANGED <<methods, stack, gap, hole, errors>>
    BY <1>6 DEF vars, table, walk
  <2> QED
    BY <2>1, ReportKept
<1> QED
  BY <1>1, <1>2, <1>3, <1>4, <1>5, <1>6 DEF Next

\* infer_expression fails in silence in three forms only, for every program and
\* every expression: whatever has no type, or holds a value expression that has
\* none, has pushed an error or is an @ without a type, an empty array, or the
\* field values of a struct expression.
THEOREM UntypedIsReportedHolds == Spec => []UntypedIsReported
<1> DEFINE IInv == Inv /\ method \in Nat /\ RootInv /\ ParentsAreOlder /\ ReportInv
<1>1. Init => IInv
  BY InitInv, RootInit, OlderInit, ReportInit DEF Init
<1>2. IInv /\ [Next]_vars => IInv'
  BY NextInv, MethodIndex, RootNext, OlderNext, ReportNext
<1>3. IInv => UntypedIsReported
  BY StackReport DEF UntypedIsReported, ReportInv, GapOK, ResultOK, Complete, Reported
<1> QED
  BY <1>1, <1>2, <1>3, PTL DEF Spec
=============================================================================
