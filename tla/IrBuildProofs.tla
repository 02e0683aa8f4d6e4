---------------------------- MODULE IrBuildProofs ----------------------------
(***************************************************************************)
(* Machine-checked proofs about the blocks and the lists of variables that *)
(* IrBuild builds, for any names, any nesting and any number of            *)
(* statements: an inductive invariant, what the operators that build the   *)
(* graph do to each of its parts, and a lemma for each action.             *)
(*                                                                         *)
(* The properties speak of the block that is being built. What a name      *)
(* means in the next one is decided by the lists of all blocks that lead   *)
(* there, some of which were left long before; so the invariant says of    *)
(* every construct that is open which of its blocks have still to begin,   *)
(* and that the list of each block that leads to one suits the constructs  *)
(* around it. Its parts take the blocks, the current one and the frames as *)
(* arguments, for the graphs between the first and the last call of a step *)
(* have to satisfy them too.                                               *)
(***************************************************************************)
EXTENDS IrBuild, FiniteSetTheorems, SequenceTheorems, WellFoundedInduction, TLAPS

(***************************************************************************)
(* What the records of the graph and of the walk are made of.              *)
(***************************************************************************)
VariableSet == [name : Names, id : Nat, value : Nat]
UseSet == [at : Nat, degree : Nat, phi : BOOLEAN]
OperandSet == [value : Nat, from : Nat, known : BOOLEAN]
BlockSet == [idx : Int, preds : Seq(Nat), vars : Seq(VariableSet), entry : SUBSET VariableSet,
             headers : Seq(Nat), to : SUBSET Nat, exit : Seq(VariableSet)]
ValueSet == [at : Nat, right : Int, degree : Nat, uses : Seq(UseSet), args : Seq(OperandSet),
             gone : Nat, grown : BOOLEAN]
ScopeSet == [name : Names, id : Nat]

Args(bl, args) ==
  args \in Seq(OperandSet) /\ \A i \in 1 .. Len(args) : args[i].from \in 1 .. Len(bl)

Jumps == {"return", "break"}
Statements == {"define", "assign"} \cup Jumps
Phases == {"statements", "operand", "condition", "then", "more", "else", "body"}

FrameSet == [kind : {"block", "if", "while"} \cup Statements, phase : Phases, name : Names,
             target : Nat, ends : Seq(Nat), results : Seq(OperandSet), old : Nat,
             scope : Seq(ScopeSet), arms : BOOLEAN]

(* Variables have values, and operands come from blocks.                   *)
WellTyped(bl, vl) ==
  /\ bl \in Seq(BlockSet) /\ vl \in Seq(ValueSet)
  /\ \A b \in 1 .. Len(bl) : \A k \in 1 .. Len(bl[b].vars) : bl[b].vars[k].value \in 1 .. Len(vl)
  /\ \A v \in 1 .. Len(vl) : \A i \in 1 .. Len(vl[v].args) : vl[v].args[i].from \in 1 .. Len(bl)

WalkTyped(vl, fr, sc, val) ==
  /\ fr \in Seq(FrameSet)
  /\ sc \in Seq(ScopeSet)
  /\ val \in Pending .. Len(vl)

(***************************************************************************)
(* Blocks.                                                                 *)
(***************************************************************************)
Begun(bl, b) == bl[b].idx # NotBegun

(* The current block has begun, and so has every predecessor; a block that *)
(* has not has no variables yet.                                           *)
Connected(bl, cur) ==
  /\ cur \in 1 .. Len(bl) /\ Begun(bl, cur)
  /\ \A b \in 1 .. Len(bl) :
       /\ \A n \in 1 .. Len(bl[b].preds) : bl[b].preds[n] \in 1 .. Len(bl) /\ Begun(bl, bl[b].preds[n])
       /\ ~Begun(bl, b) => bl[b].vars = <<>>

(* The variables at the end of the n-th predecessor.                       *)
Arriving(bl, b, n) == bl[bl[b].preds[n]].vars

(***************************************************************************)
(* Lists of variables.                                                     *)
(***************************************************************************)
(* The name is not in the list behind the place.                           *)
Nowhere(list, k, name) == \A l \in k + 1 .. Len(list) : list[l].name # name

(* The last of a name in the list, at most at the bound, is the last of it *)
(* in the scope.                                                           *)
MeansSame(list, sc, bound) ==
  \A m \in 1 .. Len(sc) : Nowhere(sc, m, sc[m].name) =>
    \E k \in 1 .. Len(list) :
      /\ k <= bound /\ list[k].name = sc[m].name /\ list[k].id = sc[m].id
      /\ Nowhere(list, k, sc[m].name)

(* The list begins with the same names.                                    *)
StartsWith(list, base) ==
  Len(base) <= Len(list) /\ \A k \in 1 .. Len(base) : list[k].name = base[k].name

(* A list suits a construct: names mean what they did outside of it, a     *)
(* block has what it began with, and so does a loop, in its place.         *)
Suits(bl, f, list) ==
  /\ ~Shadowing => MeansSame(list, f.scope, IF f.kind = "block" THEN f.old ELSE Len(list))
  /\ f.kind = "while" => StartsWith(list, bl[f.ends[5]].vars)

SeesAll(sc, other) == \A m \in 1 .. Len(sc) : \E l \in 1 .. Len(other) : other[l].name = sc[m].name

(***************************************************************************)
(* Constructs.                                                             *)
(***************************************************************************)
(* The blocks a construct still has to begin, by their places in ends, and *)
(* those of them that a jump leads to already.                             *)
Waiting(f) ==
  CASE f.kind = "block" -> {1}
    [] f.kind = "if" /\ f.phase = "condition" -> {1, 2, 3}
    [] f.kind = "if" /\ f.phase = "then" -> {1, 3}
    [] f.kind = "while" /\ f.phase = "condition" -> {1, 3, 4}
    [] f.kind = "while" /\ f.phase = "body" -> {1, 4}
    [] f.kind \in {"if", "while"} /\ f.phase \in {"more", "else"} -> {1}
    [] OTHER -> {}

Reached(f) ==
  CASE f.kind = "if" /\ f.phase = "condition" -> {2, 3}
    [] f.kind = "if" /\ f.phase = "then" -> {3}
    [] f.kind = "while" /\ f.phase = "body" -> {4}
    [] OTHER -> {}

Shaped(f) ==
  \/ f.kind = "block" /\ f.phase = "statements" /\ Len(f.ends) = 1
  \/ f.kind = "if" /\ f.phase \in {"condition", "then", "more", "else"} /\ Len(f.ends) = 3
  \/ f.kind = "while" /\ f.phase \in {"condition", "body", "more", "else"} /\ Len(f.ends) = 5
  \/ f.kind \in Statements /\ f.phase = "operand"

(* Its blocks are there, and those that wait are told apart.               *)
Owns(bl, f) ==
  /\ Shaped(f)
  /\ \A k \in 1 .. Len(f.ends) : f.ends[k] \in 1 .. Len(bl)
  /\ \A k \in Waiting(f) :
       ~Begun(bl, f.ends[k]) /\ \A l \in Waiting(f) : f.ends[k] = f.ends[l] => k = l
  /\ \A k \in Reached(f) : bl[f.ends[k]].preds # <<>>

(* What a loop keeps is not touched any more.                              *)
Kept(bl, cur, f) ==
  f.kind = "while" =>
    /\ f.ends[5] # cur
    /\ Begun(bl, f.ends[2]) /\ Begun(bl, f.ends[5])
    /\ StartsWith(bl[f.ends[2]].vars, bl[f.ends[5]].vars)

(* A construct in another one.                                             *)
Apart(outer, f) ==
  \A k \in Waiting(outer) : \A l \in Waiting(f) : outer.ends[k] # f.ends[l]
Within(bl, outer, f) ==
  /\ ~Shadowing => SeesAll(outer.scope, f.scope)
  /\ outer.kind = "while" /\ f.kind = "block" => Len(bl[outer.ends[5]].vars) <= f.old

(* The construct behind the first n: the block being built, and any that   *)
(* leads to one that waits, suits it and those it is in.                   *)
Behind(bl, cur, fr, n, f) ==
  /\ Owns(bl, f)
  /\ Kept(bl, cur, f)
  /\ Suits(bl, f, bl[cur].vars)
  /\ \A k \in Waiting(f) : \A p \in 1 .. Len(bl[f.ends[k]].preds) :
       /\ Suits(bl, f, Arriving(bl, f.ends[k], p))
       /\ \A j \in 1 .. n : Suits(bl, fr[j], Arriving(bl, f.ends[k], p))
  /\ \A j \in 1 .. n : Apart(fr[j], f) /\ Within(bl, fr[j], f)

Standing(bl, cur, fr) ==
  /\ Connected(bl, cur)
  /\ \A i \in 1 .. Len(fr) : Behind(bl, cur, fr, i - 1, fr[i])

(***************************************************************************)
(* Scopes: only the statements of a block change what is visible.          *)
(***************************************************************************)
ScopeBehind(fr, i, sc) == IF i < Len(fr) THEN fr[i + 1].scope ELSE sc

ScopedAt(fr, i, sc) ==
  /\ fr[i].kind \in Statements => i > 1 /\ fr[i - 1].kind = "block"
  /\ fr[i].kind # "block" => ScopeBehind(fr, i, sc) = fr[i].scope
  /\ fr[i].kind = "define" /\ ~Shadowing => Nowhere(fr[i].scope, 0, fr[i].name)
  /\ ~Shadowing => SeesAll(fr[i].scope, sc)
  /\ fr[i].kind \in Jumps =>
       fr[i].target \in 1 .. i - 1 /\ fr[fr[i].target].kind \in {"block", "while"}
Scoped(fr, sc) == \A i \in 1 .. Len(fr) : ScopedAt(fr, i, sc)

Resulting(bl, fr) == \A i \in 1 .. Len(fr) : Args(bl, fr[i].results)

Lexical(bl, cur, sc) == ~Shadowing => MeansSame(bl[cur].vars, sc, Len(bl[cur].vars))

BuildInv ==
  /\ WellTyped(blocks, values)
  /\ WalkTyped(values, frames, scope, value)
  /\ wild \in BOOLEAN
  /\ Standing(blocks, current, frames)
  /\ Scoped(frames, scope)
  /\ Resulting(blocks, frames)
  /\ Lexical(blocks, current, scope)

(***************************************************************************)
(* Numbers and sequences.                                                  *)
(***************************************************************************)
(* A set of naturals has a least element.                                  *)
LEMMA LeastNatural ==
  ASSUME NEW S, S \subseteq Nat, S # {}
  PROVE  \E x \in S : \A y \in S : x <= y
<1> DEFINE R == OpToRel(<, Nat)
<1>1. IsWellFoundedOn(R, Nat)
  BY NatLessThanWellFounded
<1>2. \A x, y \in Nat : x < y => <<x, y>> \in R
  BY DEF OpToRel
<1> HIDE DEF R
<1>3. PICK x \in S : \A y \in S : ~(<<y, x>> \in R)
  BY <1>1, WFMin
<1>4. \A y \in S : ~(y < x)
  BY <1>2, <1>3
<1> QED BY <1>3, <1>4

(* Max of numbers up to n is the greatest of them.                         *)
LEMMA Greatest ==
  ASSUME NEW n \in Nat, NEW S, S \subseteq 0 .. n, S # {}
  PROVE  Max(S) \in S /\ \A y \in S : Max(S) >= y
<1> DEFINE T == {n - x : x \in S}
<1>1. T \subseteq Nat /\ T # {}
  <2>1. \A x \in S : n - x \in Nat
    OBVIOUS
  <2> QED BY <2>1
<1> HIDE DEF T
<1>2. PICK m \in T : \A y \in T : m <= y
  BY <1>1, LeastNatural
<1>3. PICK x \in S : m = n - x
  BY <1>2 DEF T
<1>4. ASSUME NEW y \in S
      PROVE  x >= y
  <2>1. n - y \in T
    BY DEF T
  <2>2. n - x <= n - y
    BY <1>2, <1>3, <2>1
  <2> QED BY <2>2
<1> QED BY <1>4 DEF Max

(* Numbers that are each in a set when the one before them is.             *)
LEMMA OneByOne ==
  ASSUME NEW n \in Nat, NEW S, 0 \in S, \A k \in 0 .. n - 1 : k \in S => k + 1 \in S
  PROVE  0 .. n \subseteq S
<1> DEFINE T == {k \in 0 .. n : k \notin S}
<1> SUFFICES ASSUME T # {} PROVE FALSE
  OBVIOUS
<1>1. T \subseteq Nat
  OBVIOUS
<1> HIDE DEF T
<1>2. PICK m \in T : \A y \in T : m <= y
  BY <1>1, LeastNatural
<1>3. m \in 0 .. n /\ m \notin S
  BY <1>2 DEF T
<1>4. m # 0 /\ m - 1 \in 0 .. n - 1
  BY <1>3
<1>5. m - 1 \in S
  <2>1. m - 1 \in 0 .. n /\ ~(m <= m - 1)
    BY <1>3, <1>4
  <2> QED BY <1>2, <2>1 DEF T
<1>6. (m - 1) + 1 = m
  BY <1>3
<1> QED BY <1>3, <1>4, <1>5, <1>6

(* How many numbers up to n are in a set.                                  *)
LEMMA HowMany ==
  ASSUME NEW n \in Nat, NEW S, S \subseteq 1 .. n
  PROVE  IsFiniteSet(S) /\ Cardinality(S) \in Nat
<1>1. IsFiniteSet(1 .. n)
  BY FS_Interval
<1>2. IsFiniteSet(S)
  BY <1>1, FS_Subset
<1> QED BY <1>2, FS_CardinalityType

(* A sequence with another element in one place.                           *)
LEMMA Replaced ==
  ASSUME NEW S, NEW s \in Seq(S), NEW i \in 1 .. Len(s), NEW e \in S
  PROVE  LET r == [s EXCEPT ![i] = e]
         IN  /\ r \in Seq(S) /\ Len(r) = Len(s) /\ r[i] = e
             /\ \A j \in 1 .. Len(s) : j # i => r[j] = s[j]
BY ExceptSeq

(* A sequence with one element more.                                       *)
LEMMA Appended ==
  ASSUME NEW S, NEW s \in Seq(S), NEW e \in S
  PROVE  LET r == Append(s, e)
         IN  /\ r \in Seq(S) /\ Len(r) = Len(s) + 1 /\ r[Len(s) + 1] = e
             /\ \A j \in 1 .. Len(s) : r[j] = s[j]
BY AppendProperties

(* The first elements of a sequence.                                       *)
LEMMA Shortened ==
  ASSUME NEW S, NEW s \in Seq(S), NEW n \in 0 .. Len(s)
  PROVE  LET r == SubSeq(s, 1, n)
         IN  /\ r \in Seq(S) /\ Len(r) = n
             /\ \A j \in 1 .. n : r[j] = s[j]
<1>1. Len(s) \in Nat /\ \A k \in 1 .. n : s[k] \in S
  BY LenProperties, ElementOfSeq
<1>2. /\ SubSeq(s, 1, n) \in Seq(S) /\ Len(SubSeq(s, 1, n)) = IF 1 <= n THEN n - 1 + 1 ELSE 0
      /\ \A j \in 1 .. n - 1 + 1 : SubSeq(s, 1, n)[j] = s[1 + j - 1]
  BY <1>1, SubSeqProperties
<1>3. \A j \in 1 .. n : j \in 1 .. n - 1 + 1 /\ 1 + j - 1 = j
  BY <1>1
<1>4. (IF 1 <= n THEN n - 1 + 1 ELSE 0) = n
  BY <1>1
<1> QED BY <1>2, <1>3, <1>4

(* A stack without its top.                                                *)
LEMMA WithoutTop ==
  ASSUME NEW S, NEW s \in Seq(S), s # <<>>
  PROVE  /\ Len(s) \in Nat \ {0} /\ Last(s) = s[Len(s)] /\ Last(s) \in S
         /\ Front(s) \in Seq(S) /\ Len(Front(s)) = Len(s) - 1
         /\ \A j \in 1 .. Len(s) - 1 : Front(s)[j] = s[j]
<1>1. Len(s) \in Nat \ {0}
  BY EmptySeq
<1>2. Last(s) = s[Len(s)] /\ Front(s) = SubSeq(s, 1, Len(s) - 1)
  BY DEF Last, Front
<1>3. s[Len(s)] \in S
  BY <1>1, ElementOfSeq
<1>4. Len(s) - 1 \in 0 .. Len(s)
  BY <1>1
<1> DEFINE r == SubSeq(s, 1, Len(s) - 1)
<1>5. r \in Seq(S) /\ Len(r) = Len(s) - 1 /\ \A j \in 1 .. Len(s) - 1 : r[j] = s[j]
  BY <1>4, Shortened
<1> QED BY <1>1, <1>2, <1>3, <1>5

(* A sequence of one element in each place.                                *)
LEMMA Repeated ==
  ASSUME NEW S, NEW n \in Nat, NEW f \in [1 .. n -> S]
  PROVE  f \in Seq(S) /\ Len(f) = n
<1>1. f \in Seq(S)
  OBVIOUS
<1>2. DOMAIN f = 1 .. n /\ DOMAIN f = 1 .. Len(f) /\ Len(f) \in Nat
  BY <1>1, LenProperties
<1> QED BY <1>1, <1>2

(***************************************************************************)
(* The graph: what each step of building it changes.                       *)
(***************************************************************************)
IsGraph(g) ==
  /\ g = [blocks |-> g.blocks, values |-> g.values, degree |-> g.degree]
  /\ g.degree \in Nat
  /\ WellTyped(g.blocks, g.values)

(* A new list of values that is not shorter.                               *)
LEMMA ValuesGrow ==
  ASSUME NEW bl, NEW vl, WellTyped(bl, vl), NEW vs \in Seq(ValueSet), Len(vl) <= Len(vs),
         \A v \in 1 .. Len(vs) : Args(bl, vs[v].args)
  PROVE  WellTyped(bl, vs)
<1>1. Len(vl) \in Nat /\ Len(vs) \in Nat
  BY LenProperties DEF WellTyped
<1>2. ASSUME NEW b \in 1 .. Len(bl), NEW k \in 1 .. Len(bl[b].vars)
      PROVE  bl[b].vars[k].value \in 1 .. Len(vs)
  <2>1. bl[b].vars[k].value \in 1 .. Len(vl)
    BY DEF WellTyped
  <2> QED BY <1>1, <2>1
<1>3. \A v \in 1 .. Len(vs) : \A i \in 1 .. Len(vs[v].args) : vs[v].args[i].from \in 1 .. Len(bl)
  BY DEF Args
<1> QED BY <1>2, <1>3 DEF WellTyped

LEMMA ValueArgs ==
  ASSUME NEW bl, NEW vl, WellTyped(bl, vl), NEW v \in 1 .. Len(vl)
  PROVE  Args(bl, vl[v].args) /\ vl[v] \in ValueSet
<1>1. vl[v] \in ValueSet
  BY ElementOfSeq DEF WellTyped
<1>2. vl[v].args \in Seq(OperandSet)
  BY <1>1 DEF ValueSet
<1> QED BY <1>1, <1>2 DEF WellTyped, Args

LEMMA LeafIs == Leaf \in ValueSet /\ Leaf.args = <<>>
<1>1. <<>> \in Seq(UseSet) /\ <<>> \in Seq(OperandSet)
  BY EmptySeq
<1> QED BY <1>1 DEF Leaf, ValueSet

(* One value has another use.                                              *)
LEMMA UsedIs ==
  ASSUME NEW g, IsGraph(g), NEW b \in Nat, NEW val \in Nat, NEW phi \in BOOLEAN
  PROVE  LET h == Used(g, b, val, phi)
         IN  /\ IsGraph(h) /\ h.blocks = g.blocks /\ h.degree = g.degree
             /\ Len(h.values) = Len(g.values)
<1> DEFINE h == Used(g, b, val, phi)
           use == [at |-> b, degree |-> g.degree, phi |-> phi]
           vs == [g.values EXCEPT ![val].uses = Append(@, use)]
<1>1. g.values \in Seq(ValueSet) /\ Len(g.values) \in Nat /\ DOMAIN g.values = 1 .. Len(g.values)
  BY LenProperties DEF IsGraph, WellTyped
<1>2. h = [blocks |-> g.blocks, values |-> vs, degree |-> g.degree]
  BY DEF Used, IsGraph
<1>3. vs \in Seq(ValueSet) /\ Len(vs) = Len(g.values) /\ \A v \in 1 .. Len(vs) : Args(g.blocks, vs[v].args)
  <2>1. CASE val \notin 1 .. Len(g.values)
    <3>1. vs = g.values
      BY <1>1, <2>1
    <3> QED BY <1>1, <3>1, ValueArgs DEF IsGraph
  <2>2. CASE val \in 1 .. Len(g.values)
    <3> DEFINE e == [g.values[val] EXCEPT !.uses = Append(@, use)]
    <3>1. g.values[val] \in ValueSet /\ Args(g.blocks, g.values[val].args)
      BY <2>2, ValueArgs DEF IsGraph
    <3>2. use \in UseSet
      BY DEF UseSet, IsGraph
    <3>3. Append(g.values[val].uses, use) \in Seq(UseSet)
      <4>1. g.values[val].uses \in Seq(UseSet)
        BY <3>1 DEF ValueSet
      <4> HIDE DEF use
      <4> QED BY <3>2, <4>1, AppendProperties
    <3>4. e \in ValueSet /\ e.args = g.values[val].args
      <4> HIDE DEF use
      <4> QED BY <3>1, <3>3 DEF ValueSet
    <3>5. vs = [g.values EXCEPT ![val] = e]
      BY <1>1
    <3> HIDE DEF e
    <3>6. /\ vs \in Seq(ValueSet) /\ Len(vs) = Len(g.values) /\ vs[val] = e
          /\ \A j \in 1 .. Len(g.values) : j # val => vs[j] = g.values[j]
      <4> HIDE DEF vs
      <4> QED BY <1>1, <2>2, <3>4, <3>5, Replaced
    <3>7. \A v \in 1 .. Len(vs) : Args(g.blocks, vs[v].args)
      <4> HIDE DEF vs
      <4>1. \A v \in 1 .. Len(g.values) : Args(g.blocks, g.values[v].args)
        BY ValueArgs DEF IsGraph
      <4> QED BY <3>1, <3>4, <3>6, <4>1
    <3> QED BY <3>6, <3>7
  <2> QED BY <2>1, <2>2
<1> HIDE DEF vs
<1>4. WellTyped(g.blocks, vs)
  BY <1>1, <1>3, ValuesGrow DEF IsGraph
<1>5. g.degree \in Nat
  BY DEF IsGraph
<1> HIDE DEF h
<1>6. IsGraph(h) /\ h.blocks = g.blocks /\ h.degree = g.degree /\ Len(h.values) = Len(g.values)
  BY <1>2, <1>3, <1>4, <1>5 DEF IsGraph
<1> QED BY <1>6 DEF h

(* A new value.                                                            *)
LEMMA WithValueIs ==
  ASSUME NEW g, IsGraph(g), NEW b \in 1 .. Len(g.blocks), NEW args, Args(g.blocks, args)
  PROVE  LET h == WithValue(g, b, args)
         IN  /\ IsGraph(h) /\ h.blocks = g.blocks /\ h.degree = g.degree
             /\ Len(h.values) = Len(g.values) + 1
<1> DEFINE h == WithValue(g, b, args)
           e == [Leaf EXCEPT !.at = b, !.args = args, !.degree = g.degree, !.right = g.blocks[b].idx]
           vs == Append(g.values, e)
<1>1. g.values \in Seq(ValueSet) /\ Len(g.values) \in Nat
  BY LenProperties DEF IsGraph, WellTyped
<1>2. h = [blocks |-> g.blocks, values |-> vs, degree |-> g.degree]
  BY DEF WithValue, IsGraph
<1>4. e \in ValueSet /\ e.args = args
  <2>1. g.blocks[b] \in BlockSet
    BY ElementOfSeq DEF IsGraph, WellTyped
  <2>2. g.blocks[b].idx \in Int
    BY <2>1 DEF BlockSet
  <2>3. args \in Seq(OperandSet) /\ g.degree \in Nat /\ b \in Nat
    BY DEF Args, IsGraph
  <2> QED BY <2>2, <2>3, LeafIs DEF ValueSet
<1> HIDE DEF e
<1>5. /\ vs \in Seq(ValueSet) /\ Len(vs) = Len(g.values) + 1 /\ vs[Len(g.values) + 1] = e
      /\ \A j \in 1 .. Len(g.values) : vs[j] = g.values[j]
  BY <1>1, <1>4, Appended
<1> HIDE DEF vs
<1>6. \A v \in 1 .. Len(vs) : Args(g.blocks, vs[v].args)
  <2>1. \A v \in 1 .. Len(g.values) : Args(g.blocks, g.values[v].args)
    BY ValueArgs DEF IsGraph
  <2>2. \A v \in 1 .. Len(vs) : v \in 1 .. Len(g.values) \/ v = Len(g.values) + 1
    BY <1>1, <1>5
  <2> QED BY <1>4, <1>5, <2>1, <2>2
<1>7. WellTyped(g.blocks, vs)
  BY <1>1, <1>5, <1>6, ValuesGrow DEF IsGraph
<1>8. g.degree \in Nat
  BY DEF IsGraph
<1> HIDE DEF h
<1>9. IsGraph(h) /\ h.blocks = g.blocks /\ h.degree = g.degree /\ Len(h.values) = Len(g.values) + 1
  BY <1>2, <1>5, <1>7, <1>8 DEF IsGraph
<1> QED BY <1>9 DEF h

(* The uses of a phi's operands, one after the other.                      *)
PhiSteps(g, b, args, after, m) ==
  /\ after[0] = WithValue(g, b, args)
  /\ \A j \in 1 .. m : after[j] = Used(after[j - 1], b, args[j].value, TRUE)

LEMMA PhiRuns ==
  ASSUME NEW g, NEW b, NEW args, Len(args) \in Nat
  PROVE  \E after : PhiSteps(g, b, args, after, Len(args)) /\ WithPhi(g, b, args) = after[Len(args)]
<1> DEFINE n == Len(args)
           first == WithValue(g, b, args)
           F(f) == [j \in 0 .. n |-> IF j = 0 THEN first ELSE Used(f[j - 1], b, args[j].value, TRUE)]
           R(m) == \E f : PhiSteps(g, b, args, f, m)
           S == {m \in 0 .. n : R(m)}
<1> HIDE DEF first
<1>1. 0 \in S
  <2> DEFINE f == [j \in {0} |-> first]
  <2>1. f[0] = first /\ 1 .. 0 = {} /\ 0 \in 0 .. n
    OBVIOUS
  <2> HIDE DEF f
  <2>2. PhiSteps(g, b, args, f, 0)
    BY <2>1 DEF PhiSteps, first
  <2>3. R(0)
    BY <2>2
  <2> HIDE DEF R
  <2> QED BY <2>1, <2>3
<1>2. ASSUME NEW m \in 0 .. n - 1, m \in S
      PROVE  m + 1 \in S
  <2>1. PICK f : PhiSteps(g, b, args, f, m)
    BY <1>2
  <2> DEFINE new == Used(f[m], b, args[m + 1].value, TRUE)
             h == [j \in 0 .. m + 1 |-> IF j = m + 1 THEN new ELSE f[j]]
  <2> HIDE DEF new
  <2>2. h[0] = f[0] /\ h[m + 1] = new /\ \A j \in 0 .. m : h[j] = f[j]
    <3>1. m \in Nat
      OBVIOUS
    <3> QED BY <3>1
  <2> HIDE DEF h
  <2>3. ASSUME NEW j \in 1 .. m + 1
        PROVE  h[j] = Used(h[j - 1], b, args[j].value, TRUE)
    <3>1. CASE j \in 1 .. m
      <4>1. j \in 0 .. m /\ j - 1 \in 0 .. m
        BY <3>1
      <4> QED BY <2>1, <2>2, <3>1, <4>1 DEF PhiSteps
    <3>2. CASE j = m + 1
      <4>1. j - 1 = m /\ m \in 0 .. m
        BY <3>2
      <4> QED BY <2>2, <3>2, <4>1 DEF new
    <3>3. j \in 1 .. m \/ j = m + 1
      OBVIOUS
    <3> QED BY <3>1, <3>2, <3>3
  <2>4. m + 1 \in 0 .. n
    OBVIOUS
  <2>5. PhiSteps(g, b, args, h, m + 1)
    BY <2>1, <2>2, <2>3 DEF PhiSteps
  <2>6. R(m + 1)
    BY <2>5
  <2> HIDE DEF R
  <2> QED BY <2>4, <2>6
<1>3. R(n)
  <2> HIDE DEF R
  <2>1. 0 .. n \subseteq S
    <3> HIDE DEF S
    <3> QED BY <1>1, <1>2, OneByOne
  <2> QED BY <2>1
<1>4. PICK f : f[0] = first /\ \A j \in 1 .. n : f[j] = Used(f[j - 1], b, args[j].value, TRUE)
  BY <1>3 DEF PhiSteps, first
<1> DEFINE h == [j \in 0 .. n |-> f[j]]
           after == CHOOSE a : a = F(a)
<1>5. h = F(h)
  <2>1. ASSUME NEW j \in 0 .. n
        PROVE  h[j] = IF j = 0 THEN first ELSE Used(h[j - 1], b, args[j].value, TRUE)
    <3>1. j # 0 => j \in 1 .. n /\ j - 1 \in 0 .. n
      OBVIOUS
    <3> QED BY <1>4, <3>1
  <2>2. h = [j \in 0 .. n |-> h[j]]
    OBVIOUS
  <2> HIDE DEF h
  <2> QED BY <2>1, <2>2
<1> HIDE DEF h
<1>6. after = F(after)
  <2> HIDE DEF F
  <2> QED BY <1>5
<1>7. WithPhi(g, b, args) = after[n]
  BY DEF WithPhi, first
<1> HIDE DEF after
<1>8. after[0] = first /\ \A j \in 1 .. n : after[j] = Used(after[j - 1], b, args[j].value, TRUE)
  BY <1>6
<1>9. PhiSteps(g, b, args, after, n) /\ WithPhi(g, b, args) = after[n]
  BY <1>7, <1>8 DEF first, PhiSteps
<1> HIDE DEF n
<1>10. \E a : PhiSteps(g, b, args, a, n) /\ WithPhi(g, b, args) = a[n]
  BY <1>9
<1> QED BY <1>10 DEF n

(* A phi is a new value, and the blocks are as before.                     *)
LEMMA WithPhiIs ==
  ASSUME NEW g, IsGraph(g), NEW b \in 1 .. Len(g.blocks), NEW args, Args(g.blocks, args)
  PROVE  LET h == WithPhi(g, b, args)
         IN  /\ IsGraph(h) /\ h.blocks = g.blocks /\ h.degree = g.degree
             /\ Len(h.values) = Len(g.values) + 1
<1>1. args \in Seq(OperandSet) /\ Len(args) \in Nat
  BY LenProperties DEF Args
<1>2. PICK after : PhiSteps(g, b, args, after, Len(args)) /\ WithPhi(g, b, args) = after[Len(args)]
  BY <1>1, PhiRuns
<1> DEFINE P(h) == IsGraph(h) /\ h.blocks = g.blocks /\ h.degree = g.degree /\ Len(h.values) = Len(g.values) + 1
           n == Len(args)
           S == {j \in 0 .. n : P(after[j])}
<1>3. 0 \in S
  <2>1. P(after[0])
    BY <1>2, WithValueIs DEF PhiSteps
  <2> HIDE DEF P
  <2> QED BY <1>1, <2>1
<1>4. ASSUME NEW j \in 0 .. n - 1, j \in S
      PROVE  j + 1 \in S
  <2>1. P(after[j]) /\ j + 1 \in 1 .. n /\ j + 1 \in 0 .. n /\ (j + 1) - 1 = j
    BY <1>1, <1>4
  <2>2. args[j + 1].value \in Nat
    <3>1. args[j + 1] \in OperandSet
      BY <1>1, <2>1, ElementOfSeq
    <3> QED BY <3>1 DEF OperandSet
  <2>3. after[j + 1] = Used(after[j], b, args[j + 1].value, TRUE)
    BY <1>2, <2>1 DEF PhiSteps
  <2>4. b \in Nat /\ TRUE \in BOOLEAN
    OBVIOUS
  <2> DEFINE h == Used(after[j], b, args[j + 1].value, TRUE)
  <2>5. /\ IsGraph(h) /\ h.blocks = after[j].blocks /\ h.degree = after[j].degree
        /\ Len(h.values) = Len(after[j].values)
    BY <2>1, <2>2, <2>4, UsedIs
  <2> HIDE DEF h
  <2>6. P(h)
    BY <2>1, <2>5
  <2> HIDE DEF P
  <2>7. after[j + 1] = h
    BY <2>3 DEF h
  <2> QED BY <2>1, <2>6, <2>7
<1> HIDE DEF S, P
<1>5. n \in S
  <2>1. 0 .. n \subseteq S
    BY <1>1, <1>3, <1>4, OneByOne
  <2> QED BY <1>1, <2>1
<1>6. P(WithPhi(g, b, args))
  BY <1>2, <1>5 DEF S
<1> QED BY <1>6 DEF P

(***************************************************************************)
(* Lists of variables.                                                     *)
(***************************************************************************)
(* The same names and definitions in the same places.                      *)
Same(list, other) ==
  /\ Len(other) = Len(list) /\ Len(list) \in Nat
  /\ \A k \in 1 .. Len(list) : other[k].name = list[k].name /\ other[k].id = list[k].id

LEMMA SameNowhere ==
  ASSUME NEW list, NEW other, Same(list, other), NEW k, NEW name, Nowhere(list, k, name), k \in Nat
  PROVE  Nowhere(other, k, name)
<1>1. \A l \in k + 1 .. Len(other) : l \in 1 .. Len(list)
  BY DEF Same
<1> QED BY <1>1 DEF Same, Nowhere

LEMMA SameMeans ==
  ASSUME NEW list, NEW other, Same(list, other), NEW sc, NEW bound, MeansSame(list, sc, bound)
  PROVE  MeansSame(other, sc, bound)
<1> SUFFICES ASSUME NEW m \in 1 .. Len(sc), Nowhere(sc, m, sc[m].name)
             PROVE  \E k \in 1 .. Len(other) :
                      /\ k <= bound /\ other[k].name = sc[m].name /\ other[k].id = sc[m].id
                      /\ Nowhere(other, k, sc[m].name)
  BY DEF MeansSame
<1>1. PICK k \in 1 .. Len(list) :
        /\ k <= bound /\ list[k].name = sc[m].name /\ list[k].id = sc[m].id
        /\ Nowhere(list, k, sc[m].name)
  BY DEF MeansSame
<1>2. k \in Nat /\ k \in 1 .. Len(other)
  BY DEF Same
<1>3. Nowhere(other, k, sc[m].name)
  BY <1>1, <1>2, SameNowhere
<1> QED BY <1>1, <1>2, <1>3 DEF Same

LEMMA SameStarts ==
  ASSUME NEW list, NEW other, Same(list, other), NEW base, NEW start, Same(base, start),
         StartsWith(list, base)
  PROVE  StartsWith(other, start)
<1>1. \A k \in 1 .. Len(base) : k \in 1 .. Len(list)
  BY DEF Same, StartsWith
<1> QED BY <1>1 DEF Same, StartsWith

(* A variable behind the list, of a name that the scope does not have.     *)
LEMMA LongerMeans ==
  ASSUME NEW S, NEW list \in Seq(S), NEW e \in S, NEW sc, NEW bound, MeansSame(list, sc, bound),
         \A m \in 1 .. Len(sc) : sc[m].name # e.name
  PROVE  MeansSame(Append(list, e), sc, bound)
<1> DEFINE longer == Append(list, e)
<1>1. /\ Len(list) \in Nat /\ Len(longer) = Len(list) + 1 /\ longer[Len(list) + 1] = e
      /\ \A j \in 1 .. Len(list) : longer[j] = list[j]
  BY Appended, LenProperties
<1> HIDE DEF longer
<1>2. ASSUME NEW m \in 1 .. Len(sc), Nowhere(sc, m, sc[m].name)
      PROVE  \E k \in 1 .. Len(longer) :
               /\ k <= bound /\ longer[k].name = sc[m].name /\ longer[k].id = sc[m].id
               /\ Nowhere(longer, k, sc[m].name)
  <2>1. PICK k \in 1 .. Len(list) :
          /\ k <= bound /\ list[k].name = sc[m].name /\ list[k].id = sc[m].id
          /\ Nowhere(list, k, sc[m].name)
    BY <1>2 DEF MeansSame
  <2>2. ASSUME NEW l \in k + 1 .. Len(longer)
        PROVE  longer[l].name # sc[m].name
    <3>1. (l \in k + 1 .. Len(list) /\ l \in 1 .. Len(list)) \/ l = Len(list) + 1
      BY <1>1, <2>1
    <3> QED BY <1>1, <2>1, <3>1 DEF Nowhere
  <2>3. k \in 1 .. Len(longer)
    BY <1>1
  <2> QED BY <1>1, <2>1, <2>2, <2>3 DEF Nowhere
<1> QED BY <1>2 DEF MeansSame, longer

LEMMA LongerStarts ==
  ASSUME NEW S, NEW list \in Seq(S), NEW e \in S, NEW base, Len(base) \in Nat, StartsWith(list, base)
  PROVE  StartsWith(Append(list, e), base)
<1> DEFINE longer == Append(list, e)
<1>1. /\ Len(list) \in Nat /\ Len(longer) = Len(list) + 1
      /\ \A j \in 1 .. Len(list) : longer[j] = list[j]
  BY Appended, LenProperties
<1> HIDE DEF longer
<1>2. \A k \in 1 .. Len(base) : k \in 1 .. Len(list)
  BY <1>1 DEF StartsWith
<1> QED BY <1>1, <1>2 DEF StartsWith, longer

(* Every last name of a scope has the place at most Len that MeansSame    *)
(* gives it.                                                               *)
LEMMA MeansAnywhere ==
  ASSUME NEW list, Len(list) \in Nat, NEW sc, NEW bound, MeansSame(list, sc, bound)
  PROVE  MeansSame(list, sc, Len(list))
<1>1. \A k \in 1 .. Len(list) : k <= Len(list)
  OBVIOUS
<1> QED BY <1>1 DEF MeansSame

(* The beginning of a list, of which the names of outer have their last    *)
(* places in it.                                                           *)
LEMMA ShorterMeans ==
  ASSUME NEW S, NEW list \in Seq(S), NEW n \in 0 .. Len(list), NEW sc, NEW bound,
         MeansSame(list, sc, bound),
         \A m \in 1 .. Len(sc) : \E k \in 1 .. n : list[k].name = sc[m].name /\ Nowhere(list, k, sc[m].name)
  PROVE  MeansSame(SubSeq(list, 1, n), sc, bound)
<1> DEFINE short == SubSeq(list, 1, n)
<1>1. Len(list) \in Nat /\ Len(short) = n /\ \A j \in 1 .. n : short[j] = list[j]
  BY Shortened, LenProperties
<1> HIDE DEF short
<1>2. ASSUME NEW m \in 1 .. Len(sc), Nowhere(sc, m, sc[m].name)
      PROVE  \E k \in 1 .. Len(short) :
               /\ k <= bound /\ short[k].name = sc[m].name /\ short[k].id = sc[m].id
               /\ Nowhere(short, k, sc[m].name)
  <2>1. PICK k \in 1 .. Len(list) :
          /\ k <= bound /\ list[k].name = sc[m].name /\ list[k].id = sc[m].id
          /\ Nowhere(list, k, sc[m].name)
    BY <1>2 DEF MeansSame
  <2>2. PICK j \in 1 .. n : list[j].name = sc[m].name /\ Nowhere(list, j, sc[m].name)
    OBVIOUS
  <2>3. k = j
    <3>1. ~(k < j) /\ ~(j < k)
      BY <1>1, <2>1, <2>2 DEF Nowhere
    <3> QED BY <1>1, <3>1
  <2>4. ASSUME NEW l \in k + 1 .. n
        PROVE  short[l].name # sc[m].name
    <3>1. l \in k + 1 .. Len(list) /\ l \in 1 .. n
      BY <1>1
    <3> QED BY <1>1, <2>1, <3>1 DEF Nowhere
  <2>5. k \in 1 .. Len(short)
    BY <1>1, <2>3
  <2> QED BY <1>1, <2>1, <2>4, <2>5 DEF Nowhere
<1> QED BY <1>2 DEF MeansSame, short

LEMMA ShorterStarts ==
  ASSUME NEW S, NEW list \in Seq(S), NEW n \in 0 .. Len(list), NEW base, Len(base) \in Nat,
         StartsWith(list, base), Len(base) <= n
  PROVE  StartsWith(SubSeq(list, 1, n), base)
<1> DEFINE short == SubSeq(list, 1, n)
<1>1. Len(list) \in Nat /\ Len(short) = n /\ \A j \in 1 .. n : short[j] = list[j]
  BY Shortened, LenProperties
<1> HIDE DEF short
<1>2. \A k \in 1 .. Len(base) : k \in 1 .. n
  BY <1>1
<1> QED BY <1>1, <1>2 DEF StartsWith, short

(***************************************************************************)
(* Where blocks meet: the list of the first n of a list, without some of   *)
(* those whose names are not common to all that meet.                      *)
(***************************************************************************)
Thinned(out, list, n, common) ==
  /\ Len(out) <= n
  /\ \A k \in 1 .. n : list[k].name \in common =>
       \E j \in 1 .. Len(out) :
         /\ j <= k /\ out[j].name = list[k].name /\ out[j].id = list[k].id
         /\ (\A l \in k + 1 .. n : list[l].name # list[k].name) => Nowhere(out, j, list[k].name)
  /\ \A m \in 0 .. n : (\A k \in 1 .. m : list[k].name \in common) =>
       m <= Len(out) /\ \A k \in 1 .. m : out[k].name = list[k].name /\ out[k].id = list[k].id

LEMMA ThinnedNothing ==
  ASSUME NEW list, NEW common
  PROVE  Thinned(<<>>, list, 0, common)
<1>1. Len(<<>>) = 0 /\ \A m \in 0 .. 0 : m = 0 /\ \A k \in 1 .. 0 : FALSE
  OBVIOUS
<1> QED BY <1>1 DEF Thinned

LEMMA ThinnedLess ==
  ASSUME NEW out, Len(out) \in Nat, NEW list, NEW n \in Nat, NEW common,
         Thinned(out, list, n, common), list[n + 1].name \notin common
  PROVE  Thinned(out, list, n + 1, common)
<1>1. Len(out) <= n + 1
  BY DEF Thinned
<1>2. ASSUME NEW k \in 1 .. n + 1, list[k].name \in common
      PROVE  \E j \in 1 .. Len(out) :
               /\ j <= k /\ out[j].name = list[k].name /\ out[j].id = list[k].id
               /\ (\A l \in k + 1 .. n + 1 : list[l].name # list[k].name) => Nowhere(out, j, list[k].name)
  <2>1. k \in 1 .. n
    BY <1>2
  <2>2. \A l \in k + 1 .. n : l \in k + 1 .. n + 1
    BY <2>1
  <2> QED BY <1>2, <2>1, <2>2 DEF Thinned
<1>3. ASSUME NEW m \in 0 .. n + 1, \A k \in 1 .. m : list[k].name \in common
      PROVE  m <= Len(out) /\ \A k \in 1 .. m : out[k].name = list[k].name /\ out[k].id = list[k].id
  <2>1. m # n + 1
    BY <1>3
  <2>2. m \in 0 .. n
    BY <2>1
  <2> QED BY <1>3, <2>2 DEF Thinned
<1> QED BY <1>1, <1>2, <1>3 DEF Thinned

LEMMA ThinnedMore ==
  ASSUME NEW S, NEW out \in Seq(S), NEW list, NEW n \in Nat, NEW common,
         Thinned(out, list, n, common), NEW e \in S, e.name = list[n + 1].name, e.id = list[n + 1].id
  PROVE  Thinned(Append(out, e), list, n + 1, common)
<1> DEFINE more == Append(out, e)
<1>1. /\ Len(out) \in Nat /\ Len(more) = Len(out) + 1 /\ more[Len(out) + 1] = e
      /\ \A j \in 1 .. Len(out) : more[j] = out[j]
  BY Appended, LenProperties
<1> HIDE DEF more
<1>2. Len(out) <= n
  BY DEF Thinned
<1>3. ASSUME NEW k \in 1 .. n + 1, list[k].name \in common
      PROVE  \E j \in 1 .. Len(more) :
               /\ j <= k /\ more[j].name = list[k].name /\ more[j].id = list[k].id
               /\ (\A l \in k + 1 .. n + 1 : list[l].name # list[k].name) => Nowhere(more, j, list[k].name)
  <2>1. CASE k = n + 1
    <3>1. Len(out) + 1 \in 1 .. Len(more) /\ Len(out) + 1 <= k
      BY <1>1, <1>2, <2>1
    <3>2. \A l \in (Len(out) + 1) + 1 .. Len(more) : FALSE
      BY <1>1
    <3>3. Nowhere(more, Len(out) + 1, list[k].name)
      BY <3>2 DEF Nowhere
    <3> QED BY <1>1, <2>1, <3>1, <3>3
  <2>2. CASE k \in 1 .. n
    <3>1. PICK j \in 1 .. Len(out) :
            /\ j <= k /\ out[j].name = list[k].name /\ out[j].id = list[k].id
            /\ (\A l \in k + 1 .. n : list[l].name # list[k].name) => Nowhere(out, j, list[k].name)
      BY <1>3, <2>2 DEF Thinned
    <3>2. ASSUME \A l \in k + 1 .. n + 1 : list[l].name # list[k].name
          PROVE  Nowhere(more, j, list[k].name)
      <4>1. n + 1 \in k + 1 .. n + 1 /\ \A l \in k + 1 .. n : l \in k + 1 .. n + 1
        BY <2>2
      <4>2. Nowhere(out, j, list[k].name) /\ e.name # list[k].name
        BY <3>1, <3>2, <4>1
      <4>3. ASSUME NEW l \in j + 1 .. Len(more)
            PROVE  more[l].name # list[k].name
        <5>1. (l \in j + 1 .. Len(out) /\ l \in 1 .. Len(out)) \/ l = Len(out) + 1
          BY <1>1, <3>1
        <5> QED BY <1>1, <4>2, <5>1 DEF Nowhere
      <4> QED BY <4>3 DEF Nowhere
    <3>3. j \in 1 .. Len(more)
      BY <1>1, <3>1
    <3> QED BY <1>1, <3>1, <3>2, <3>3
  <2> QED BY <2>1, <2>2
<1>4. ASSUME NEW m \in 0 .. n + 1, \A k \in 1 .. m : list[k].name \in common
      PROVE  m <= Len(more) /\ \A k \in 1 .. m : more[k].name = list[k].name /\ more[k].id = list[k].id
  <2>1. CASE m \in 0 .. n
    <3>1. m <= Len(out) /\ \A k \in 1 .. m : out[k].name = list[k].name /\ out[k].id = list[k].id
      BY <1>4, <2>1 DEF Thinned
    <3>2. \A k \in 1 .. m : k \in 1 .. Len(out)
      BY <1>1, <2>1, <3>1
    <3> QED BY <1>1, <2>1, <3>1, <3>2
  <2>2. CASE m = n + 1
    <3>1. n \in 0 .. n /\ \A k \in 1 .. n : k \in 1 .. m
      BY <2>2
    <3>2. n <= Len(out) /\ \A k \in 1 .. n : out[k].name = list[k].name /\ out[k].id = list[k].id
      BY <1>4, <3>1 DEF Thinned
    <3>3. Len(out) = n
      BY <1>1, <1>2, <3>2
    <3>4. \A k \in 1 .. m : k \in 1 .. n \/ k = n + 1
      BY <2>2
    <3> QED BY <1>1, <2>2, <3>2, <3>3, <3>4
  <2> QED BY <2>1, <2>2
<1>5. Len(more) <= n + 1
  BY <1>1, <1>2
<1> QED BY <1>3, <1>4, <1>5 DEF Thinned, more

LEMMA ThinnedMeans ==
  ASSUME NEW out, Len(out) \in Nat, NEW list, Len(list) \in Nat, NEW common,
         Thinned(out, list, Len(list), common),
         NEW sc, NEW bound \in Nat, MeansSame(list, sc, bound),
         \A m \in 1 .. Len(sc) : Nowhere(sc, m, sc[m].name) => sc[m].name \in common
  PROVE  MeansSame(out, sc, bound)
<1> SUFFICES ASSUME NEW m \in 1 .. Len(sc), Nowhere(sc, m, sc[m].name)
             PROVE  \E j \in 1 .. Len(out) :
                      /\ j <= bound /\ out[j].name = sc[m].name /\ out[j].id = sc[m].id
                      /\ Nowhere(out, j, sc[m].name)
  BY DEF MeansSame
<1>1. PICK k \in 1 .. Len(list) :
        /\ k <= bound /\ list[k].name = sc[m].name /\ list[k].id = sc[m].id
        /\ Nowhere(list, k, sc[m].name)
  BY DEF MeansSame
<1>2. PICK j \in 1 .. Len(out) :
        /\ j <= k /\ out[j].name = list[k].name /\ out[j].id = list[k].id
        /\ (\A l \in k + 1 .. Len(list) : list[l].name # list[k].name) => Nowhere(out, j, list[k].name)
  BY <1>1 DEF Thinned
<1>3. j <= bound
  BY <1>1, <1>2
<1> QED BY <1>1, <1>2, <1>3 DEF Nowhere

LEMMA ThinnedStarts ==
  ASSUME NEW out, Len(out) \in Nat, NEW list, Len(list) \in Nat, NEW common,
         Thinned(out, list, Len(list), common),
         NEW base, Len(base) \in Nat, StartsWith(list, base),
         \A k \in 1 .. Len(base) : base[k].name \in common
  PROVE  StartsWith(out, base)
<1>1. Len(base) \in 0 .. Len(list) /\ \A k \in 1 .. Len(base) : list[k].name = base[k].name
  BY DEF StartsWith
<1>2. Len(base) <= Len(out) /\ \A k \in 1 .. Len(base) : out[k].name = list[k].name
  BY <1>1 DEF Thinned
<1> QED BY <1>1, <1>2 DEF StartsWith

(* Nothing is left out when all names are common.                          *)
LEMMA ThinnedSame ==
  ASSUME NEW out, Len(out) \in Nat, NEW list, Len(list) \in Nat, NEW common,
         Thinned(out, list, Len(list), common), \A k \in 1 .. Len(list) : list[k].name \in common
  PROVE  Same(list, out)
<1>1. Len(list) \in 0 .. Len(list)
  OBVIOUS
<1>2. Len(list) <= Len(out) /\ Len(out) <= Len(list)
  BY <1>1 DEF Thinned
<1>3. Len(list) = Len(out)
  BY <1>2
<1> QED BY <1>1, <1>3 DEF Thinned, Same

(***************************************************************************)
(* Blocks that change.                                                     *)
(***************************************************************************)
(* Only one block is another, and its predecessors are as they were.       *)
OnlyBlock(bl, other, b) ==
  /\ Len(other) = Len(bl)
  /\ \A c \in 1 .. Len(bl) : c # b => other[c] = bl[c]
  /\ other[b].preds = bl[b].preds

(* Blocks are added, which have not begun, and the current one leads to    *)
(* more of them than before; variables get other values at most.           *)
Grown(bl, other, cur) ==
  /\ Len(bl) <= Len(other) /\ Len(bl) \in Nat /\ Len(other) \in Nat
  /\ \A b \in 1 .. Len(bl) :
       /\ Begun(other, b) <=> Begun(bl, b)
       /\ Same(bl[b].vars, other[b].vars)
       /\ bl[b].vars = <<>> => other[b].vars = <<>>
       /\ bl[b].preds # <<>> => other[b].preds # <<>>
       /\ \A n \in 1 .. Len(other[b].preds) :
            \/ other[b].preds[n] = cur
            \/ \E m \in 1 .. Len(bl[b].preds) : other[b].preds[n] = bl[b].preds[m]
  /\ \A b \in Len(bl) + 1 .. Len(other) :
       /\ ~Begun(other, b) /\ other[b].vars = <<>>
       /\ \A n \in 1 .. Len(other[b].preds) : other[b].preds[n] = cur

LEMMA BlockIs ==
  ASSUME NEW bl, NEW vl, WellTyped(bl, vl), NEW b \in 1 .. Len(bl)
  PROVE  /\ bl \in Seq(BlockSet) /\ bl[b] \in BlockSet /\ Len(bl) \in Nat /\ Len(vl) \in Nat
         /\ bl[b].preds \in Seq(Nat) /\ Len(bl[b].preds) \in Nat
         /\ bl[b].vars \in Seq(VariableSet) /\ Len(bl[b].vars) \in Nat
         /\ \A k \in 1 .. Len(bl[b].vars) :
              bl[b].vars[k] \in VariableSet /\ bl[b].vars[k].value \in 1 .. Len(vl)
<1>1. bl \in Seq(BlockSet) /\ Len(bl) \in Nat /\ Len(vl) \in Nat
  BY LenProperties DEF WellTyped
<1>2. bl[b] \in BlockSet
  BY <1>1, ElementOfSeq
<1>3. bl[b].preds \in Seq(Nat) /\ bl[b].vars \in Seq(VariableSet)
  BY <1>2 DEF BlockSet
<1>4. Len(bl[b].preds) \in Nat /\ Len(bl[b].vars) \in Nat
  BY <1>3, LenProperties
<1>5. \A k \in 1 .. Len(bl[b].vars) : bl[b].vars[k] \in VariableSet
  BY <1>3, ElementOfSeq
<1> QED BY <1>1, <1>2, <1>3, <1>4, <1>5 DEF WellTyped

LEMMA SameItself ==
  ASSUME NEW list, Len(list) \in Nat
  PROVE  Same(list, list)
BY DEF Same

LEMMA SameThrough ==
  ASSUME NEW a, NEW b, NEW c, Same(a, b), Same(b, c)
  PROVE  Same(a, c)
BY DEF Same

LEMMA GrownItself ==
  ASSUME NEW bl, NEW vl, WellTyped(bl, vl), NEW cur
  PROVE  Grown(bl, bl, cur)
<1>1. Len(bl) \in Nat
  BY LenProperties DEF WellTyped
<1>2. ASSUME NEW b \in 1 .. Len(bl)
      PROVE  Same(bl[b].vars, bl[b].vars)
  BY BlockIs, SameItself
<1>3. \A b \in Len(bl) + 1 .. Len(bl) : FALSE
  BY <1>1
<1> QED BY <1>1, <1>2, <1>3 DEF Grown

LEMMA GrownThrough ==
  ASSUME NEW a, NEW b, NEW c, NEW cur, Grown(a, b, cur), Grown(b, c, cur)
  PROVE  Grown(a, c, cur)
<1>1. Len(a) <= Len(c) /\ Len(a) \in Nat /\ Len(b) \in Nat /\ Len(c) \in Nat /\ Len(a) <= Len(b)
  BY DEF Grown
<1>2. ASSUME NEW i \in 1 .. Len(a)
      PROVE  /\ Begun(c, i) <=> Begun(a, i)
             /\ Same(a[i].vars, c[i].vars)
             /\ a[i].vars = <<>> => c[i].vars = <<>>
             /\ a[i].preds # <<>> => c[i].preds # <<>>
             /\ \A n \in 1 .. Len(c[i].preds) :
                  \/ c[i].preds[n] = cur
                  \/ \E m \in 1 .. Len(a[i].preds) : c[i].preds[n] = a[i].preds[m]
  <2>1. i \in 1 .. Len(b)
    BY <1>1
  <2>2. Same(a[i].vars, c[i].vars)
    <3>1. Same(a[i].vars, b[i].vars) /\ Same(b[i].vars, c[i].vars)
      BY <2>1 DEF Grown
    <3> QED BY <3>1, SameThrough
  <2>3. ASSUME NEW n \in 1 .. Len(c[i].preds), c[i].preds[n] # cur
        PROVE  \E m \in 1 .. Len(a[i].preds) : c[i].preds[n] = a[i].preds[m]
    <3>1. PICK m \in 1 .. Len(b[i].preds) : c[i].preds[n] = b[i].preds[m]
      BY <2>1, <2>3 DEF Grown
    <3> QED BY <2>3, <3>1 DEF Grown
  <2> QED BY <2>1, <2>2, <2>3 DEF Grown
<1>3. ASSUME NEW i \in Len(a) + 1 .. Len(c)
      PROVE  /\ ~Begun(c, i) /\ c[i].vars = <<>>
             /\ \A n \in 1 .. Len(c[i].preds) : c[i].preds[n] = cur
  <2>1. CASE i \in Len(a) + 1 .. Len(b)
    <3>1. i \in 1 .. Len(b)
      BY <1>1, <2>1
    <3>2. ~Begun(b, i) /\ b[i].vars = <<>> /\ \A m \in 1 .. Len(b[i].preds) : b[i].preds[m] = cur
      BY <2>1 DEF Grown
    <3> QED BY <3>1, <3>2 DEF Grown
  <2>2. CASE i \in Len(b) + 1 .. Len(c)
    BY <2>2 DEF Grown
  <2>3. i \in Len(a) + 1 .. Len(b) \/ i \in Len(b) + 1 .. Len(c)
    BY <1>1
  <2> QED BY <2>1, <2>2, <2>3
<1> QED BY <1>1, <1>2, <1>3 DEF Grown

(* One block in place of another.                                          *)
LEMMA BlockReplaced ==
  ASSUME NEW bl, NEW vl, WellTyped(bl, vl), NEW b \in 1 .. Len(bl), NEW q \in BlockSet,
         \A k \in 1 .. Len(q.vars) : q.vars[k].value \in 1 .. Len(vl)
  PROVE  LET bs == [bl EXCEPT ![b] = q]
         IN  WellTyped(bs, vl) /\ Len(bs) = Len(bl) /\ bs[b] = q /\ \A c \in 1 .. Len(bl) : c # b => bs[c] = bl[c]
<1> DEFINE bs == [bl EXCEPT ![b] = q]
<1>1. /\ bs \in Seq(BlockSet) /\ Len(bs) = Len(bl) /\ bs[b] = q
      /\ \A c \in 1 .. Len(bl) : c # b => bs[c] = bl[c]
  BY BlockIs, Replaced
<1> HIDE DEF bs
<1>2. \A c \in 1 .. Len(bs) : \A k \in 1 .. Len(bs[c].vars) : bs[c].vars[k].value \in 1 .. Len(vl)
  BY <1>1 DEF WellTyped
<1>3. WellTyped(bs, vl)
  BY <1>1, <1>2 DEF WellTyped
<1> QED BY <1>1, <1>3 DEF bs

(* What a change of one block is for the graph.                            *)
Changed(g, b, q) ==
  [blocks |-> [g.blocks EXCEPT ![b] = q], values |-> g.values, degree |-> g.degree]

LEMMA GraphWithBlock ==
  ASSUME NEW g, IsGraph(g), NEW b \in 1 .. Len(g.blocks), NEW q \in BlockSet,
         \A k \in 1 .. Len(q.vars) : q.vars[k].value \in 1 .. Len(g.values),
         NEW h, h = Changed(g, b, q)
  PROVE  /\ IsGraph(h) /\ h.values = g.values /\ h.degree = g.degree
         /\ Len(h.blocks) = Len(g.blocks) /\ h.blocks[b] = q
         /\ \A c \in 1 .. Len(g.blocks) : c # b => h.blocks[c] = g.blocks[c]
<1> DEFINE bs == [g.blocks EXCEPT ![b] = q]
<1>1. WellTyped(g.blocks, g.values) /\ g.degree \in Nat
  BY DEF IsGraph
<1>2. /\ WellTyped(bs, g.values) /\ Len(bs) = Len(g.blocks) /\ bs[b] = q
      /\ \A c \in 1 .. Len(g.blocks) : c # b => bs[c] = g.blocks[c]
  BY <1>1, BlockReplaced
<1>3. /\ h.blocks = bs /\ h.values = g.values /\ h.degree = g.degree
      /\ h = [blocks |-> h.blocks, values |-> h.values, degree |-> h.degree]
  BY DEF Changed
<1> HIDE DEF bs
<1> QED BY <1>1, <1>2, <1>3 DEF IsGraph

(***************************************************************************)
(* The steps that change one block.                                        *)
(***************************************************************************)
LEMMA GraphBlock ==
  ASSUME NEW g, IsGraph(g), NEW b \in 1 .. Len(g.blocks)
  PROVE  LET q == g.blocks[b]
         IN  /\ g.blocks \in Seq(BlockSet) /\ q \in BlockSet /\ Len(g.blocks) \in Nat /\ Len(g.values) \in Nat
             /\ q.preds \in Seq(Nat) /\ Len(q.preds) \in Nat
             /\ q.vars \in Seq(VariableSet) /\ Len(q.vars) \in Nat
             /\ \A k \in 1 .. Len(q.vars) : q.vars[k] \in VariableSet /\ q.vars[k].value \in 1 .. Len(g.values)
<1>1. WellTyped(g.blocks, g.values)
  BY DEF IsGraph
<1> QED BY <1>1, BlockIs

(* A block that only gets jumps or a predecessor more is grown.            *)
LEMMA GrownByBlock ==
  ASSUME NEW g, IsGraph(g), NEW h, NEW cur, NEW b \in 1 .. Len(g.blocks),
         Len(h.blocks) = Len(g.blocks),
         \A c \in 1 .. Len(g.blocks) : c # b => h.blocks[c] = g.blocks[c],
         Begun(h.blocks, b) <=> Begun(g.blocks, b),
         Same(g.blocks[b].vars, h.blocks[b].vars),
         g.blocks[b].vars = <<>> => h.blocks[b].vars = <<>>,
         g.blocks[b].preds # <<>> => h.blocks[b].preds # <<>>,
         \A n \in 1 .. Len(h.blocks[b].preds) :
            \/ h.blocks[b].preds[n] = cur
            \/ \E m \in 1 .. Len(g.blocks[b].preds) : h.blocks[b].preds[n] = g.blocks[b].preds[m]
  PROVE  Grown(g.blocks, h.blocks, cur)
<1>1. Grown(g.blocks, g.blocks, cur) /\ Len(g.blocks) \in Nat
  BY GrownItself, LenProperties DEF IsGraph, WellTyped
<1>2. \A c \in Len(g.blocks) + 1 .. Len(h.blocks) : FALSE
  BY <1>1
<1>3. ASSUME NEW c \in 1 .. Len(g.blocks)
      PROVE  /\ Begun(h.blocks, c) <=> Begun(g.blocks, c)
             /\ Same(g.blocks[c].vars, h.blocks[c].vars)
             /\ g.blocks[c].vars = <<>> => h.blocks[c].vars = <<>>
             /\ g.blocks[c].preds # <<>> => h.blocks[c].preds # <<>>
             /\ \A n \in 1 .. Len(h.blocks[c].preds) :
                  \/ h.blocks[c].preds[n] = cur
                  \/ \E m \in 1 .. Len(g.blocks[c].preds) : h.blocks[c].preds[n] = g.blocks[c].preds[m]
  <2>1. CASE c = b
    BY <2>1
  <2>2. CASE c # b
    <3>1. h.blocks[c] = g.blocks[c] /\ Same(g.blocks[c].vars, g.blocks[c].vars)
      BY <1>1, <2>2 DEF Grown
    <3> QED BY <3>1 DEF Begun
  <2> QED BY <2>1, <2>2
<1> QED BY <1>1, <1>2, <1>3 DEF Grown

(* The block begins.                                                       *)
LEMMA PlacedIs ==
  ASSUME NEW g, IsGraph(g), NEW b \in 1 .. Len(g.blocks)
  PROVE  LET h == Placed(g, b)
         IN  /\ IsGraph(h) /\ h.values = g.values /\ h.degree = g.degree
             /\ OnlyBlock(g.blocks, h.blocks, b)
             /\ Begun(h.blocks, b) /\ h.blocks[b].vars = g.blocks[b].vars
<1> DEFINE n == Cardinality({c \in DOMAIN g.blocks : g.blocks[c].idx # NotBegun})
           q == [g.blocks[b] EXCEPT !.idx = n]
           h == Placed(g, b)
<1>1. g.blocks \in Seq(BlockSet) /\ g.blocks[b] \in BlockSet /\ Len(g.blocks) \in Nat /\ DOMAIN g.blocks = 1 .. Len(g.blocks)
  BY GraphBlock, LenProperties
<1>2. n \in Nat
  <2> DEFINE S == {c \in DOMAIN g.blocks : g.blocks[c].idx # NotBegun}
  <2>1. S \subseteq 1 .. Len(g.blocks)
    BY <1>1
  <2> HIDE DEF S
  <2>2. Cardinality(S) \in Nat
    BY <1>1, <2>1, HowMany
  <2> QED BY <2>2 DEF S
<1>3. h = Changed(g, b, q)
  <2>1. h = [g EXCEPT !.blocks[b].idx = n]
    BY DEF Placed
  <2> HIDE DEF n, h
  <2> QED BY <1>1, <2>1 DEF IsGraph, Changed
<1> HIDE DEF n, h
<1>4. q \in BlockSet /\ q.idx = n /\ q.preds = g.blocks[b].preds /\ q.vars = g.blocks[b].vars
  <2>1. n \in Int /\ g.blocks[b] \in BlockSet
    BY <1>1, <1>2
  <2> QED BY <2>1 DEF BlockSet
<1> HIDE DEF q
<1>5. \A k \in 1 .. Len(q.vars) : q.vars[k].value \in 1 .. Len(g.values)
  BY <1>4, GraphBlock
<1>6. /\ IsGraph(h) /\ h.values = g.values /\ h.degree = g.degree
      /\ Len(h.blocks) = Len(g.blocks) /\ h.blocks[b] = q
      /\ \A c \in 1 .. Len(g.blocks) : c # b => h.blocks[c] = g.blocks[c]
  BY <1>3, <1>4, <1>5, GraphWithBlock
<1>7. n # NotBegun
  BY <1>2 DEF NotBegun
<1>8. /\ IsGraph(h) /\ h.values = g.values /\ h.degree = g.degree
      /\ OnlyBlock(g.blocks, h.blocks, b)
      /\ Begun(h.blocks, b) /\ h.blocks[b].vars = g.blocks[b].vars
  BY <1>4, <1>6, <1>7 DEF OnlyBlock, Begun
<1> QED BY <1>8 DEF h

(* Another predecessor.                                                    *)
LEMMA EdgeIs ==
  ASSUME NEW g, IsGraph(g), NEW from \in Nat, NEW to \in 1 .. Len(g.blocks)
  PROVE  LET h == Edge(g, from, to)
         IN  /\ IsGraph(h) /\ h.values = g.values /\ h.degree = g.degree
             /\ Len(h.blocks) = Len(g.blocks)
             /\ Grown(g.blocks, h.blocks, from) /\ h.blocks[to].preds # <<>>
             /\ \A b \in 1 .. Len(g.blocks) : b # to => h.blocks[b] = g.blocks[b]
<1> DEFINE q == [g.blocks[to] EXCEPT !.preds = Append(@, from)]
           h == Edge(g, from, to)
           preds == g.blocks[to].preds
<1>1. /\ g.blocks \in Seq(BlockSet) /\ g.blocks[to] \in BlockSet /\ DOMAIN g.blocks = 1 .. Len(g.blocks)
      /\ preds \in Seq(Nat) /\ Len(preds) \in Nat
  BY GraphBlock, LenProperties
<1>2. CASE from \in Range(preds)
  <2>1. h = g
    BY <1>2 DEF Edge
  <2>2. preds # <<>>
    BY <1>2 DEF Range
  <2>3. Grown(g.blocks, g.blocks, from)
    BY GrownItself DEF IsGraph
  <2> HIDE DEF h
  <2>4. /\ IsGraph(h) /\ h.values = g.values /\ h.degree = g.degree
        /\ Len(h.blocks) = Len(g.blocks)
        /\ Grown(g.blocks, h.blocks, from) /\ h.blocks[to].preds # <<>>
        /\ \A b \in 1 .. Len(g.blocks) : b # to => h.blocks[b] = g.blocks[b]
    BY <2>1, <2>2, <2>3
  <2> QED BY <2>4 DEF h
<1>3. CASE from \notin Range(preds)
  <2>1. h = Changed(g, to, q)
    BY <1>1, <1>3 DEF Edge, IsGraph, Changed
  <2> HIDE DEF h
  <2> DEFINE more == Append(preds, from)
  <2>2. /\ more \in Seq(Nat) /\ Len(more) = Len(preds) + 1 /\ more[Len(preds) + 1] = from
        /\ \A n \in 1 .. Len(preds) : more[n] = preds[n]
    BY <1>1, Appended
  <2> HIDE DEF more
  <2>3. q \in BlockSet /\ q.idx = g.blocks[to].idx /\ q.preds = more /\ q.vars = g.blocks[to].vars
    BY <1>1, <2>2 DEF BlockSet, more
  <2> HIDE DEF q
  <2>4. \A k \in 1 .. Len(q.vars) : q.vars[k].value \in 1 .. Len(g.values)
    BY <2>3, GraphBlock
  <2>5. /\ IsGraph(h) /\ h.values = g.values /\ h.degree = g.degree
        /\ Len(h.blocks) = Len(g.blocks) /\ h.blocks[to] = q
        /\ \A c \in 1 .. Len(g.blocks) : c # to => h.blocks[c] = g.blocks[c]
    BY <2>1, <2>3, <2>4, GraphWithBlock
  <2>6. more # <<>>
    <3>1. Len(more) # 0
      BY <1>1, <2>2
    <3> QED BY <2>2, <3>1, EmptySeq
  <2>7. Same(g.blocks[to].vars, h.blocks[to].vars)
    BY <2>3, <2>5, GraphBlock, SameItself
  <2>8. ASSUME NEW n \in 1 .. Len(more)
        PROVE  more[n] = from \/ \E m \in 1 .. Len(preds) : more[n] = preds[m]
    <3>1. n \in 1 .. Len(preds) \/ n = Len(preds) + 1
      BY <1>1, <2>2
    <3> QED BY <2>2, <3>1
  <2>9. Grown(g.blocks, h.blocks, from)
    <3>1. Begun(h.blocks, to) <=> Begun(g.blocks, to)
      BY <2>3, <2>5 DEF Begun
    <3> QED BY <2>3, <2>5, <2>6, <2>7, <2>8, <3>1, GrownByBlock
  <2>10. /\ IsGraph(h) /\ h.values = g.values /\ h.degree = g.degree
         /\ Len(h.blocks) = Len(g.blocks)
         /\ Grown(g.blocks, h.blocks, from) /\ h.blocks[to].preds # <<>>
         /\ \A b \in 1 .. Len(g.blocks) : b # to => h.blocks[b] = g.blocks[b]
    BY <2>3, <2>5, <2>6, <2>9
  <2> QED BY <2>10 DEF h
<1> QED BY <1>2, <1>3

(* The jump at the end of a block.                                         *)
Jumped(g, from, targets, exit) ==
  [g EXCEPT !.blocks[from].to = targets, !.blocks[from].exit = exit]

LEMMA JumpingIs ==
  ASSUME NEW g, IsGraph(g), NEW from \in 1 .. Len(g.blocks), NEW targets \in SUBSET Nat,
         NEW exit \in Seq(VariableSet), NEW cur
  PROVE  LET h == Jumped(g, from, targets, exit)
         IN  /\ IsGraph(h) /\ h.values = g.values /\ h.degree = g.degree
             /\ Len(h.blocks) = Len(g.blocks)
             /\ Grown(g.blocks, h.blocks, cur)
             /\ \A b \in 1 .. Len(g.blocks) : h.blocks[b].preds = g.blocks[b].preds /\ h.blocks[b].vars = g.blocks[b].vars
<1> DEFINE q == [[g.blocks[from] EXCEPT !.to = targets] EXCEPT !.exit = exit]
           h == Jumped(g, from, targets, exit)
<1>1. g.blocks \in Seq(BlockSet) /\ g.blocks[from] \in BlockSet /\ DOMAIN g.blocks = 1 .. Len(g.blocks)
  BY GraphBlock, LenProperties
<1>2. h = Changed(g, from, q)
  <2>1. ASSUME NEW r, r = Jumped(g, from, targets, exit)
        PROVE  r = Changed(g, from, q)
    BY <1>1, <2>1 DEF IsGraph, Changed, Jumped
  <2> HIDE DEF q
  <2> QED BY <2>1
<1> HIDE DEF h
<1>3. q \in BlockSet /\ q.idx = g.blocks[from].idx /\ q.preds = g.blocks[from].preds /\ q.vars = g.blocks[from].vars
  BY <1>1 DEF BlockSet
<1> HIDE DEF q
<1>4. \A k \in 1 .. Len(q.vars) : q.vars[k].value \in 1 .. Len(g.values)
  BY <1>3, GraphBlock
<1>5. /\ IsGraph(h) /\ h.values = g.values /\ h.degree = g.degree
      /\ Len(h.blocks) = Len(g.blocks) /\ h.blocks[from] = q
      /\ \A c \in 1 .. Len(g.blocks) : c # from => h.blocks[c] = g.blocks[c]
  BY <1>2, <1>3, <1>4, GraphWithBlock
<1>6. Same(g.blocks[from].vars, h.blocks[from].vars)
  BY <1>3, <1>5, GraphBlock, SameItself
<1>7. Grown(g.blocks, h.blocks, cur)
  <2>1. Begun(h.blocks, from) <=> Begun(g.blocks, from)
    BY <1>3, <1>5 DEF Begun
  <2> QED BY <1>3, <1>5, <1>6, <2>1, GrownByBlock
<1>8. \A b \in 1 .. Len(g.blocks) : h.blocks[b].preds = g.blocks[b].preds /\ h.blocks[b].vars = g.blocks[b].vars
  BY <1>3, <1>5
<1> QED BY <1>5, <1>7, <1>8 DEF h

LEMMA JumpingGrows ==
  ASSUME NEW g, IsGraph(g), NEW from \in 1 .. Len(g.blocks), NEW targets \in SUBSET Nat
  PROVE  LET h == Jumping(g, from, targets)
         IN  /\ IsGraph(h) /\ h.values = g.values /\ h.degree = g.degree
             /\ Len(h.blocks) = Len(g.blocks)
             /\ Grown(g.blocks, h.blocks, from)
             /\ \A b \in 1 .. Len(g.blocks) : h.blocks[b].preds = g.blocks[b].preds /\ h.blocks[b].vars = g.blocks[b].vars
<1>1. CASE g.blocks[from].to # {}
  <2>1. Grown(g.blocks, g.blocks, from)
    BY GrownItself DEF IsGraph
  <2>2. Jumping(g, from, targets) = g
    BY <1>1 DEF Jumping
  <2> QED BY <2>1, <2>2
<1>2. CASE g.blocks[from].to = {}
  <2> DEFINE h == Jumped(g, from, targets, g.blocks[from].vars)
  <2>1. Jumping(g, from, targets) = h
    BY <1>2 DEF Jumping, Jumped
  <2>2. g.blocks[from].vars \in Seq(VariableSet)
    BY GraphBlock
  <2>3. /\ IsGraph(h) /\ h.values = g.values /\ h.degree = g.degree
        /\ Len(h.blocks) = Len(g.blocks)
        /\ Grown(g.blocks, h.blocks, from)
        /\ \A b \in 1 .. Len(g.blocks) : h.blocks[b].preds = g.blocks[b].preds /\ h.blocks[b].vars = g.blocks[b].vars
    BY <2>2, JumpingIs
  <2> QED BY <2>1, <2>3
<1> QED BY <1>1, <1>2

LEMMA BranchIs ==
  ASSUME NEW g, IsGraph(g), NEW from \in 1 .. Len(g.blocks), NEW to \in 1 .. Len(g.blocks)
  PROVE  LET h == Branch(g, from, to)
         IN  /\ IsGraph(h) /\ h.values = g.values /\ h.degree = g.degree
             /\ Len(h.blocks) = Len(g.blocks)
             /\ Grown(g.blocks, h.blocks, from) /\ h.blocks[to].preds # <<>>
             /\ \A b \in 1 .. Len(g.blocks) : b # to => h.blocks[b].preds = g.blocks[b].preds
             /\ \A b \in 1 .. Len(g.blocks) : b # to => h.blocks[b].vars = g.blocks[b].vars
<1> DEFINE j == Jumping(g, from, {to})
           h == Edge(j, from, to)
<1>1. from \in Nat /\ to \in Nat
  BY GraphBlock
<1>2. /\ IsGraph(j) /\ j.values = g.values /\ j.degree = g.degree
      /\ Len(j.blocks) = Len(g.blocks)
      /\ Grown(g.blocks, j.blocks, from)
      /\ \A b \in 1 .. Len(g.blocks) : j.blocks[b].preds = g.blocks[b].preds /\ j.blocks[b].vars = g.blocks[b].vars
  BY <1>1, JumpingGrows
<1>3. Branch(g, from, to) = h
  BY DEF Branch
<1> HIDE DEF j
<1>4. /\ IsGraph(h) /\ h.values = j.values /\ h.degree = j.degree
      /\ Len(h.blocks) = Len(j.blocks)
      /\ Grown(j.blocks, h.blocks, from) /\ h.blocks[to].preds # <<>>
      /\ \A b \in 1 .. Len(j.blocks) : b # to => h.blocks[b] = j.blocks[b]
  BY <1>1, <1>2, EdgeIs
<1> HIDE DEF h
<1>5. Grown(g.blocks, h.blocks, from)
  BY <1>2, <1>4, GrownThrough
<1>6. /\ IsGraph(h) /\ h.values = g.values /\ h.degree = g.degree
      /\ Len(h.blocks) = Len(g.blocks)
      /\ Grown(g.blocks, h.blocks, from) /\ h.blocks[to].preds # <<>>
      /\ \A b \in 1 .. Len(g.blocks) : b # to => h.blocks[b].preds = g.blocks[b].preds
      /\ \A b \in 1 .. Len(g.blocks) : b # to => h.blocks[b].vars = g.blocks[b].vars
  BY <1>2, <1>4, <1>5
<1> QED BY <1>3, <1>6

(***************************************************************************)
(* A block gets a variable from those that lead to it.                     *)
(***************************************************************************)
(* The names that each predecessor has.                                    *)
Common(bl, b) ==
  {name \in Names : \A n \in 1 .. Len(bl[b].preds) :
     \E k \in 1 .. Len(Arriving(bl, b, n)) : Arriving(bl, b, n)[k].name = name}

LEMMA ValueOfIs ==
  ASSUME NEW list \in Seq(VariableSet), NEW top \in Nat,
         \A k \in 1 .. Len(list) : list[k].value \in 1 .. top, NEW name
  PROVE  /\ ValueOf(list, name) \in 0 .. top
         /\ ValueOf(list, name) # Void <=> \E k \in 1 .. Len(list) : list[k].name = name
<1> DEFINE S == {k \in DOMAIN list : list[k].name = name}
<1>1. DOMAIN list = 1 .. Len(list) /\ Len(list) \in Nat
  BY LenProperties
<1>2. S \subseteq 0 .. Len(list)
  BY <1>1
<1>3. ValueOf(list, name) = IF S = {} THEN Void ELSE list[Max(S)].value
  BY DEF ValueOf
<1>4. S = {} <=> ~ \E k \in 1 .. Len(list) : list[k].name = name
  BY <1>1
<1>5. S # {} => Max(S) \in 1 .. Len(list)
  <2>1. S # {} => Max(S) \in S
    <3> HIDE DEF S
    <3> QED BY <1>1, <1>2, Greatest
  <2> QED BY <1>1, <2>1
<1> HIDE DEF S
<1> QED BY <1>3, <1>4, <1>5 DEF Void

(* A block gets a list of variables.                                       *)
WithList(g, b, list) == [g EXCEPT !.blocks[b].vars = list]

LEMMA ListReplaced ==
  ASSUME NEW g, IsGraph(g), NEW b \in 1 .. Len(g.blocks), NEW list \in Seq(VariableSet),
         \A k \in 1 .. Len(list) : list[k].value \in 1 .. Len(g.values)
  PROVE  LET h == WithList(g, b, list)
         IN  /\ IsGraph(h) /\ h.values = g.values /\ h.degree = g.degree
             /\ OnlyBlock(g.blocks, h.blocks, b)
             /\ h.blocks[b].idx = g.blocks[b].idx /\ h.blocks[b].vars = list
             /\ h.blocks[b].headers = g.blocks[b].headers
<1> DEFINE q == [g.blocks[b] EXCEPT !.vars = list]
           h == WithList(g, b, list)
<1>1. g.blocks \in Seq(BlockSet) /\ g.blocks[b] \in BlockSet /\ DOMAIN g.blocks = 1 .. Len(g.blocks)
  BY GraphBlock, LenProperties
<1>2. h = Changed(g, b, q)
  <2>1. ASSUME NEW r, r = WithList(g, b, list)
        PROVE  r = Changed(g, b, q)
    BY <1>1, <2>1 DEF IsGraph, Changed, WithList
  <2> HIDE DEF q
  <2> QED BY <2>1
<1> HIDE DEF h
<1>3. q \in BlockSet /\ q.idx = g.blocks[b].idx /\ q.preds = g.blocks[b].preds /\ q.vars = list
         /\ q.headers = g.blocks[b].headers
  BY <1>1 DEF BlockSet
<1> HIDE DEF q
<1>4. \A k \in 1 .. Len(q.vars) : q.vars[k].value \in 1 .. Len(g.values)
  BY <1>3
<1>5. /\ IsGraph(h) /\ h.values = g.values /\ h.degree = g.degree
      /\ Len(h.blocks) = Len(g.blocks) /\ h.blocks[b] = q
      /\ \A c \in 1 .. Len(g.blocks) : c # b => h.blocks[c] = g.blocks[c]
  BY <1>2, <1>3, <1>4, GraphWithBlock
<1>6. OnlyBlock(g.blocks, h.blocks, b)
  BY <1>3, <1>5 DEF OnlyBlock
<1>7. /\ h.blocks[b].idx = g.blocks[b].idx /\ h.blocks[b].vars = list
      /\ h.blocks[b].headers = g.blocks[b].headers
  BY <1>3, <1>5
<1> QED BY <1>5, <1>6, <1>7 DEF h

LEMMA VariableAppended ==
  ASSUME NEW g, IsGraph(g), NEW b \in 1 .. Len(g.blocks), NEW e \in VariableSet, e.value \in 1 .. Len(g.values)
  PROVE  LET h == [g EXCEPT !.blocks[b].vars = Append(@, e)]
         IN  /\ IsGraph(h) /\ h.values = g.values /\ h.degree = g.degree
             /\ OnlyBlock(g.blocks, h.blocks, b)
             /\ h.blocks[b].idx = g.blocks[b].idx
             /\ h.blocks[b].vars = Append(g.blocks[b].vars, e)
<1> DEFINE list == Append(g.blocks[b].vars, e)
           h == WithList(g, b, list)
<1>1. /\ g.blocks[b].vars \in Seq(VariableSet) /\ Len(g.blocks[b].vars) \in Nat
      /\ \A k \in 1 .. Len(g.blocks[b].vars) : g.blocks[b].vars[k].value \in 1 .. Len(g.values)
  BY GraphBlock
<1>2. /\ list \in Seq(VariableSet) /\ Len(list) = Len(g.blocks[b].vars) + 1
      /\ list[Len(g.blocks[b].vars) + 1] = e
      /\ \A k \in 1 .. Len(g.blocks[b].vars) : list[k] = g.blocks[b].vars[k]
  BY <1>1, Appended
<1>3. [g EXCEPT !.blocks[b].vars = Append(@, e)] = h
  BY DEF WithList
<1> HIDE DEF list
<1>4. ASSUME NEW k \in 1 .. Len(list)
      PROVE  list[k].value \in 1 .. Len(g.values)
  <2>1. k \in 1 .. Len(g.blocks[b].vars) \/ k = Len(g.blocks[b].vars) + 1
    BY <1>1, <1>2
  <2> QED BY <1>1, <1>2, <2>1
<1>5. /\ IsGraph(h) /\ h.values = g.values /\ h.degree = g.degree
      /\ OnlyBlock(g.blocks, h.blocks, b)
      /\ h.blocks[b].idx = g.blocks[b].idx /\ h.blocks[b].vars = list
  BY <1>2, <1>4, ListReplaced
<1> HIDE DEF h
<1>6. h.blocks[b].vars = Append(g.blocks[b].vars, e)
  BY <1>5 DEF list
<1> QED BY <1>3, <1>5, <1>6

(* The block has another variable of that name, or a predecessor has none. *)
Gained(g, h, b, variable) ==
  /\ IsGraph(h) /\ h.degree = g.degree /\ Len(g.values) <= Len(h.values)
  /\ OnlyBlock(g.blocks, h.blocks, b) /\ h.blocks[b].idx = g.blocks[b].idx
  /\ \/ h.blocks[b].vars = g.blocks[b].vars /\ variable.name \notin Common(g.blocks, b)
     \/ \E e \in VariableSet : /\ e.name = variable.name /\ e.id = variable.id
                               /\ h.blocks[b].vars = Append(g.blocks[b].vars, e)

LEMMA TransitionIs ==
  ASSUME NEW g, IsGraph(g), NEW b \in 1 .. Len(g.blocks), NEW variable \in VariableSet,
         variable.value \in 1 .. Len(g.values),
         \A n \in 1 .. Len(g.blocks[b].preds) : g.blocks[b].preds[n] \in 1 .. Len(g.blocks)
  PROVE  Gained(g, Transition(b, g, variable), b, variable)
<1> DEFINE preds == g.blocks[b].preds
           of(j) == IF j = 1 THEN variable.value
                    ELSE ValueOf(g.blocks[preds[j]].vars, variable.name)
           args == [j \in DOMAIN preds |-> Operand(of(j), preds[j], TRUE)]
           differ == \E j \in DOMAIN args : args[j].value # variable.value
           h == IF differ THEN WithPhi(g, b, args) ELSE g
           new == [variable EXCEPT !.value = IF differ THEN Len(h.values) ELSE @]
           end == [h EXCEPT !.blocks[b].vars = Append(@, new)]
           addressed == [g EXCEPT !.blocks[b].vars = Append(@, variable)]
           missing == \E j \in DOMAIN args : args[j].value = Void
           result == IF variable.name \in Addressed THEN addressed ELSE IF missing THEN g ELSE end
<1>0. Transition(b, g, variable) = result
  BY DEF Transition
<1>1. /\ preds \in Seq(Nat) /\ Len(preds) \in Nat /\ DOMAIN preds = 1 .. Len(preds) /\ Len(g.values) \in Nat
  BY GraphBlock, LenProperties
<1>2. \A n \in 1 .. Len(preds) :
        /\ ValueOf(g.blocks[preds[n]].vars, variable.name) \in 0 .. Len(g.values)
        /\ ValueOf(g.blocks[preds[n]].vars, variable.name) # Void <=>
             \E k \in 1 .. Len(Arriving(g.blocks, b, n)) : Arriving(g.blocks, b, n)[k].name = variable.name
  BY <1>1, GraphBlock, ValueOfIs DEF Arriving
<1>3. \A n \in 1 .. Len(preds) : of(n) \in Nat /\ (of(n) = Void => variable.name \notin Common(g.blocks, b))
  <2>1. ASSUME NEW n \in 1 .. Len(preds)
        PROVE  of(n) \in Nat /\ (of(n) = Void => ~ \E k \in 1 .. Len(Arriving(g.blocks, b, n)) : Arriving(g.blocks, b, n)[k].name = variable.name)
    <3>1. ValueOf(g.blocks[preds[n]].vars, variable.name) \in Nat /\ variable.value \in Nat \ {0}
      BY <1>1, <1>2
    <3> QED BY <1>2, <3>1 DEF Void
  <2> HIDE DEF of
  <2> QED BY <2>1 DEF Common
<1> HIDE DEF of
<1>4. /\ args \in Seq(OperandSet) /\ Len(args) = Len(preds) /\ DOMAIN args = 1 .. Len(preds)
      /\ \A n \in 1 .. Len(preds) : args[n].value = of(n) /\ args[n].from = preds[n]
  <2>1. args \in [1 .. Len(preds) -> OperandSet]
    BY <1>1, <1>3 DEF Operand, OperandSet
  <2>2. \A n \in 1 .. Len(preds) : args[n].value = of(n) /\ args[n].from = preds[n]
    BY <1>1 DEF Operand
  <2>3. DOMAIN args = 1 .. Len(preds)
    BY <1>1
  <2> HIDE DEF args
  <2>4. args \in Seq(OperandSet) /\ Len(args) = Len(preds)
    BY <1>1, <2>1, Repeated
  <2> QED BY <2>2, <2>3, <2>4
<1>5. Args(g.blocks, args)
  BY <1>4 DEF Args
<1> HIDE DEF args, preds
<1>6. missing => variable.name \notin Common(g.blocks, b)
  BY <1>3, <1>4
<1> HIDE DEF missing
<1>7. /\ IsGraph(h) /\ h.blocks = g.blocks /\ h.degree = g.degree /\ Len(g.values) <= Len(h.values)
      /\ differ => Len(h.values) = Len(g.values) + 1
  BY <1>1, <1>5, WithPhiIs
<1> HIDE DEF differ, h
<1>8. new \in VariableSet /\ new.name = variable.name /\ new.id = variable.id /\ new.value \in 1 .. Len(h.values)
  <2>1. (IF differ THEN Len(h.values) ELSE variable.value) \in 1 .. Len(h.values)
    BY <1>1, <1>7
  <2>2. 1 .. Len(h.values) \subseteq Nat
    OBVIOUS
  <2> DEFINE v == IF differ THEN Len(h.values) ELSE variable.value
  <2>3. new = [variable EXCEPT !.value = v] /\ v \in Nat
    BY <2>1, <2>2
  <2> HIDE DEF v, new
  <2>4. new \in VariableSet /\ new.name = variable.name /\ new.id = variable.id /\ new.value = v
    BY <2>3 DEF VariableSet
  <2> QED BY <2>1, <2>4 DEF v
<1> HIDE DEF new
<1>9. CASE variable.name \in Addressed
  <2>1. /\ IsGraph(addressed) /\ addressed.values = g.values /\ addressed.degree = g.degree
        /\ OnlyBlock(g.blocks, addressed.blocks, b)
        /\ addressed.blocks[b].idx = g.blocks[b].idx
        /\ addressed.blocks[b].vars = Append(g.blocks[b].vars, variable)
    BY VariableAppended
  <2> HIDE DEF addressed
  <2>2. result = addressed
    BY <1>9
  <2>3. Len(g.values) <= Len(addressed.values)
    BY <1>1, <2>1
  <2> QED BY <1>0, <2>1, <2>2, <2>3 DEF Gained
<1>10. CASE variable.name \notin Addressed /\ missing
  <2>1. result = g
    BY <1>10
  <2>2. Len(g.values) <= Len(g.values)
    BY <1>1
  <2> QED BY <1>0, <1>6, <1>10, <2>1, <2>2 DEF OnlyBlock, Gained
<1>11. CASE variable.name \notin Addressed /\ ~missing
  <2>1. b \in 1 .. Len(h.blocks)
    BY <1>7
  <2>2. /\ IsGraph(end) /\ end.values = h.values /\ end.degree = h.degree
        /\ OnlyBlock(h.blocks, end.blocks, b)
        /\ end.blocks[b].idx = h.blocks[b].idx
        /\ end.blocks[b].vars = Append(h.blocks[b].vars, new)
    BY <1>7, <1>8, <2>1, VariableAppended
  <2> HIDE DEF end
  <2>3. result = end
    BY <1>11
  <2> QED BY <1>0, <1>7, <1>8, <2>2, <2>3 DEF Gained
<1> HIDE DEF result
<1> QED BY <1>9, <1>10, <1>11

(***************************************************************************)
(* All the variables of a block.                                           *)
(***************************************************************************)
(* The variables of the first predecessor, one after the other.            *)
TransitionSteps(g, b, after, m) ==
  /\ after[0] = g
  /\ \A j \in 1 .. m : after[j] = Transition(b, after[j - 1], Arriving(g.blocks, b, 1)[j])

LEMMA TransitionsRun ==
  ASSUME NEW g, NEW b, Len(Arriving(g.blocks, b, 1)) \in Nat
  PROVE  \E after : TransitionSteps(g, b, after, Len(Arriving(g.blocks, b, 1))) /\ Transitions(g, b) = Entered(after[Len(Arriving(g.blocks, b, 1))], b, Top.scope)
<1> DEFINE n == Len(Arriving(g.blocks, b, 1))
           first == g
           F(f) == [j \in 0 .. n |-> IF j = 0 THEN first ELSE Transition(b, f[j - 1], Arriving(g.blocks, b, 1)[j])]
           R(m) == \E f : TransitionSteps(g, b, f, m)
           S == {m \in 0 .. n : R(m)}
<1> HIDE DEF first
<1>1. 0 \in S
  <2> DEFINE f == [j \in {0} |-> first]
  <2>1. f[0] = first /\ 1 .. 0 = {} /\ 0 \in 0 .. n
    OBVIOUS
  <2> HIDE DEF f
  <2>2. TransitionSteps(g, b, f, 0)
    BY <2>1 DEF TransitionSteps, first
  <2>3. R(0)
    BY <2>2
  <2> HIDE DEF R
  <2> QED BY <2>1, <2>3
<1>2. ASSUME NEW m \in 0 .. n - 1, m \in S
      PROVE  m + 1 \in S
  <2>1. PICK f : TransitionSteps(g, b, f, m)
    BY <1>2
  <2> DEFINE new == Transition(b, f[m], Arriving(g.blocks, b, 1)[m + 1])
             h == [j \in 0 .. m + 1 |-> IF j = m + 1 THEN new ELSE f[j]]
  <2> HIDE DEF new
  <2>2. h[0] = f[0] /\ h[m + 1] = new /\ \A j \in 0 .. m : h[j] = f[j]
    <3>1. m \in Nat
      OBVIOUS
    <3> QED BY <3>1
  <2> HIDE DEF h
  <2>3. ASSUME NEW j \in 1 .. m + 1
        PROVE  h[j] = Transition(b, h[j - 1], Arriving(g.blocks, b, 1)[j])
    <3>1. CASE j \in 1 .. m
      <4>1. j \in 0 .. m /\ j - 1 \in 0 .. m
        BY <3>1
      <4> QED BY <2>1, <2>2, <3>1, <4>1 DEF TransitionSteps
    <3>2. CASE j = m + 1
      <4>1. j - 1 = m /\ m \in 0 .. m
        BY <3>2
      <4> QED BY <2>2, <3>2, <4>1 DEF new
    <3>3. j \in 1 .. m \/ j = m + 1
      OBVIOUS
    <3> QED BY <3>1, <3>2, <3>3
  <2>4. m + 1 \in 0 .. n
    OBVIOUS
  <2>5. TransitionSteps(g, b, h, m + 1)
    BY <2>1, <2>2, <2>3 DEF TransitionSteps
  <2>6. R(m + 1)
    BY <2>5
  <2> HIDE DEF R
  <2> QED BY <2>4, <2>6
<1>3. R(n)
  <2> HIDE DEF R
  <2>1. 0 .. n \subseteq S
    <3> HIDE DEF S
    <3> QED BY <1>1, <1>2, OneByOne
  <2> QED BY <2>1
<1>4. PICK f : f[0] = first /\ \A j \in 1 .. n : f[j] = Transition(b, f[j - 1], Arriving(g.blocks, b, 1)[j])
  BY <1>3 DEF TransitionSteps, first
<1> DEFINE h == [j \in 0 .. n |-> f[j]]
           after == CHOOSE a : a = F(a)
<1>5. h = F(h)
  <2>1. ASSUME NEW j \in 0 .. n
        PROVE  h[j] = IF j = 0 THEN first ELSE Transition(b, h[j - 1], Arriving(g.blocks, b, 1)[j])
    <3>1. j # 0 => j \in 1 .. n /\ j - 1 \in 0 .. n
      OBVIOUS
    <3> QED BY <1>4, <3>1
  <2>2. h = [j \in 0 .. n |-> h[j]]
    OBVIOUS
  <2> HIDE DEF h
  <2> QED BY <2>1, <2>2
<1> HIDE DEF h
<1>6. after = F(after)
  <2> HIDE DEF F
  <2> QED BY <1>5
<1>7. Transitions(g, b) = Entered(after[n], b, Top.scope)
  <2>1. Arriving(g.blocks, b, 1) = g.blocks[Head(g.blocks[b].preds)].vars
    BY DEF Arriving
  <2> QED BY <2>1 DEF Transitions, first
<1> HIDE DEF after
<1>8. after[0] = first /\ \A j \in 1 .. n : after[j] = Transition(b, after[j - 1], Arriving(g.blocks, b, 1)[j])
  BY <1>6
<1>9. TransitionSteps(g, b, after, n) /\ Transitions(g, b) = Entered(after[n], b, Top.scope)
  BY <1>7, <1>8 DEF first, TransitionSteps
<1> HIDE DEF n
<1>10. \E a : TransitionSteps(g, b, a, n) /\ Transitions(g, b) = Entered(a[n], b, Top.scope)
  BY <1>9
<1> QED BY <1>10 DEF n

LEMMA EnteredIs ==
  ASSUME NEW g, IsGraph(g), NEW b \in 1 .. Len(g.blocks), NEW seen
  PROVE  LET h == Entered(g, b, seen)
         IN  /\ IsGraph(h) /\ h.values = g.values /\ h.degree = g.degree
             /\ OnlyBlock(g.blocks, h.blocks, b)
             /\ h.blocks[b].idx = g.blocks[b].idx /\ h.blocks[b].vars = g.blocks[b].vars
<1> DEFINE list == {v \in Range(g.blocks[b].vars) : \E k \in DOMAIN seen : seen[k].id = v.id}
           q == [g.blocks[b] EXCEPT !.entry = list]
           h == Entered(g, b, seen)
<1>1. /\ g.blocks \in Seq(BlockSet) /\ g.blocks[b] \in BlockSet /\ DOMAIN g.blocks = 1 .. Len(g.blocks)
      /\ g.blocks[b].vars \in Seq(VariableSet) /\ DOMAIN g.blocks[b].vars = 1 .. Len(g.blocks[b].vars)
  BY GraphBlock, LenProperties
<1>2. list \subseteq VariableSet
  <2>1. \A k \in 1 .. Len(g.blocks[b].vars) : g.blocks[b].vars[k] \in VariableSet
    BY GraphBlock
  <2> QED BY <1>1, <2>1 DEF Range
<1>3. h = [g EXCEPT !.blocks[b].entry = list]
  BY DEF Entered
<1> HIDE DEF list, h
<1>4. h = Changed(g, b, q)
  <2>1. ASSUME NEW r, r = [g EXCEPT !.blocks[b].entry = list]
        PROVE  r = Changed(g, b, q)
    BY <1>1, <2>1 DEF IsGraph, Changed
  <2> HIDE DEF q
  <2> QED BY <1>3, <2>1
<1>5. q \in BlockSet /\ q.idx = g.blocks[b].idx /\ q.preds = g.blocks[b].preds /\ q.vars = g.blocks[b].vars
  BY <1>1, <1>2 DEF BlockSet
<1> HIDE DEF q
<1>6. \A k \in 1 .. Len(q.vars) : q.vars[k].value \in 1 .. Len(g.values)
  BY <1>5, GraphBlock
<1>7. /\ IsGraph(h) /\ h.values = g.values /\ h.degree = g.degree
      /\ Len(h.blocks) = Len(g.blocks) /\ h.blocks[b] = q
      /\ \A c \in 1 .. Len(g.blocks) : c # b => h.blocks[c] = g.blocks[c]
  BY <1>4, <1>5, <1>6, GraphWithBlock
<1>8. OnlyBlock(g.blocks, h.blocks, b) /\ h.blocks[b].idx = g.blocks[b].idx /\ h.blocks[b].vars = g.blocks[b].vars
  BY <1>5, <1>7 DEF OnlyBlock
<1> QED BY <1>7, <1>8 DEF h

LEMMA OnlyThrough ==
  ASSUME NEW bl, NEW mid, NEW end, NEW b, OnlyBlock(bl, mid, b), OnlyBlock(mid, end, b)
  PROVE  OnlyBlock(bl, end, b)
BY DEF OnlyBlock

(* What n of the transitions make of the block.                            *)
Joining(g, h, b, n) ==
  /\ IsGraph(h) /\ h.degree = g.degree /\ Len(g.values) <= Len(h.values)
  /\ OnlyBlock(g.blocks, h.blocks, b) /\ h.blocks[b].idx = g.blocks[b].idx
  /\ Thinned(h.blocks[b].vars, Arriving(g.blocks, b, 1), n, Common(g.blocks, b))

Joined(g, h, b) == Joining(g, h, b, Len(Arriving(g.blocks, b, 1)))

(* A block where others end, before it has any variables.                  *)
Meets(g, b) ==
  /\ IsGraph(g) /\ b \in 1 .. Len(g.blocks)
  /\ g.blocks[b].vars = <<>> /\ g.blocks[b].preds # <<>>
  /\ \A n \in 1 .. Len(g.blocks[b].preds) :
       g.blocks[b].preds[n] \in 1 .. Len(g.blocks) /\ g.blocks[b].preds[n] # b

LEMMA JoiningMore ==
  ASSUME NEW g, NEW b, Meets(g, b), NEW n \in 0 .. Len(Arriving(g.blocks, b, 1)) - 1,
         NEW h, Joining(g, h, b, n)
  PROVE  Joining(g, Transition(b, h, Arriving(g.blocks, b, 1)[n + 1]), b, n + 1)
<1> DEFINE list == Arriving(g.blocks, b, 1)
           preds == g.blocks[b].preds
           variable == list[n + 1]
           r == Transition(b, h, variable)
<1>1. /\ IsGraph(g) /\ b \in 1 .. Len(g.blocks) /\ Len(preds) \in Nat \ {0}
      /\ \A k \in 1 .. Len(preds) : preds[k] \in 1 .. Len(g.blocks) /\ preds[k] # b
  <2>1. IsGraph(g) /\ b \in 1 .. Len(g.blocks) /\ preds # <<>>
    BY DEF Meets
  <2>2. Len(preds) \in Nat \ {0}
    BY <2>1, GraphBlock, EmptySeq
  <2> QED BY <2>1, <2>2 DEF Meets
<1>2. /\ list \in Seq(VariableSet) /\ Len(list) \in Nat
      /\ \A k \in 1 .. Len(list) : list[k] \in VariableSet /\ list[k].value \in 1 .. Len(g.values)
  <2>1. preds[1] \in 1 .. Len(g.blocks)
    BY <1>1
  <2> QED BY <2>1, <1>1, GraphBlock DEF Arriving
<1>3. n + 1 \in 1 .. Len(list) /\ n \in Nat
  BY <1>2
<1>4. /\ IsGraph(h) /\ h.degree = g.degree /\ Len(g.values) <= Len(h.values)
      /\ OnlyBlock(g.blocks, h.blocks, b) /\ h.blocks[b].idx = g.blocks[b].idx
      /\ Thinned(h.blocks[b].vars, list, n, Common(g.blocks, b))
  BY DEF Joining
<1>5. b \in 1 .. Len(h.blocks) /\ h.blocks[b].preds = preds /\ Len(h.blocks) = Len(g.blocks)
  BY <1>1, <1>4 DEF OnlyBlock
<1>6. Common(h.blocks, b) = Common(g.blocks, b)
  <2>1. \A k \in 1 .. Len(preds) : Arriving(h.blocks, b, k) = Arriving(g.blocks, b, k)
    BY <1>1, <1>4, <1>5 DEF Arriving, OnlyBlock
  <2> QED BY <1>5, <2>1 DEF Common
<1>7. variable \in VariableSet /\ variable.value \in 1 .. Len(h.values)
  <2>1. variable.value \in 1 .. Len(g.values) /\ Len(h.values) \in Nat /\ Len(g.values) \in Nat
    BY <1>1, <1>2, <1>3, <1>4, <1>5, GraphBlock
  <2> QED BY <1>2, <1>3, <1>4, <2>1
<1>8. Gained(h, r, b, variable)
  <2> HIDE DEF variable
  <2> QED BY <1>1, <1>4, <1>5, <1>7, TransitionIs
<1> HIDE DEF r
<1>9. /\ h.blocks[b].vars \in Seq(VariableSet) /\ Len(h.blocks[b].vars) \in Nat
      /\ Len(h.values) \in Nat /\ Len(g.values) \in Nat
  BY <1>1, <1>4, <1>5, GraphBlock
<1>10. Thinned(r.blocks[b].vars, list, n + 1, Common(g.blocks, b))
  <2> HIDE DEF list
  <2>1. CASE r.blocks[b].vars = h.blocks[b].vars /\ variable.name \notin Common(g.blocks, b)
    BY <1>3, <1>4, <1>9, <2>1, ThinnedLess
  <2>2. ASSUME NEW e \in VariableSet, e.name = variable.name, e.id = variable.id,
               r.blocks[b].vars = Append(h.blocks[b].vars, e)
        PROVE  Thinned(r.blocks[b].vars, list, n + 1, Common(g.blocks, b))
    BY <1>3, <1>4, <1>9, <2>2, ThinnedMore
  <2> QED BY <1>6, <1>8, <2>1, <2>2 DEF Gained
<1>11. Len(g.values) <= Len(r.values) /\ IsGraph(r) /\ r.degree = g.degree
  <2>1. Len(h.values) <= Len(r.values) /\ IsGraph(r) /\ r.degree = h.degree
    BY <1>8 DEF Gained
  <2>2. Len(r.values) \in Nat
    BY <2>1, LenProperties DEF IsGraph, WellTyped
  <2> QED BY <1>4, <1>9, <2>1, <2>2
<1>12. OnlyBlock(g.blocks, r.blocks, b) /\ r.blocks[b].idx = g.blocks[b].idx
  <2>1. OnlyBlock(h.blocks, r.blocks, b) /\ r.blocks[b].idx = h.blocks[b].idx
    BY <1>8 DEF Gained
  <2> QED BY <1>4, <2>1, OnlyThrough
<1>13. Joining(g, r, b, n + 1)
  BY <1>10, <1>11, <1>12 DEF Joining
<1> QED BY <1>13 DEF r

(* ir_create_block_transitions as a whole.                                 *)
LEMMA TransitionsIs ==
  ASSUME NEW g, NEW b, Meets(g, b)
  PROVE  Joined(g, Transitions(g, b), b)
<1> DEFINE list == Arriving(g.blocks, b, 1)
           n == Len(list)
           preds == g.blocks[b].preds
<1>1. IsGraph(g) /\ b \in 1 .. Len(g.blocks)
  BY DEF Meets
<1>2. n \in Nat
  <2>1. Len(preds) \in Nat \ {0}
    BY <1>1, GraphBlock, EmptySeq DEF Meets
  <2>2. preds[1] \in 1 .. Len(g.blocks)
    BY <2>1 DEF Meets
  <2> QED BY <1>1, <2>2, GraphBlock DEF Arriving
<1>3. PICK after : TransitionSteps(g, b, after, n) /\ Transitions(g, b) = Entered(after[n], b, Top.scope)
  BY <1>2, TransitionsRun
<1> DEFINE S == {k \in 0 .. n : Joining(g, after[k], b, k)}
<1> HIDE DEF n
<1>4. 0 \in S
  <2>1. Thinned(g.blocks[b].vars, list, 0, Common(g.blocks, b))
    BY ThinnedNothing DEF Meets
  <2>2. Len(g.values) <= Len(g.values) /\ OnlyBlock(g.blocks, g.blocks, b)
    <3>1. Len(g.values) \in Nat
      BY <1>1, GraphBlock
    <3> QED BY <3>1 DEF OnlyBlock
  <2>3. Joining(g, g, b, 0)
    BY <1>1, <2>1, <2>2 DEF Joining
  <2>4. after[0] = g
    BY <1>3 DEF TransitionSteps
  <2> QED BY <1>2, <2>3, <2>4
<1>5. ASSUME NEW k \in 0 .. n - 1, k \in S
      PROVE  k + 1 \in S
  <2>1. Joining(g, after[k], b, k) /\ k \in 0 .. Len(Arriving(g.blocks, b, 1)) - 1
    BY <1>5 DEF n
  <2>2. Joining(g, Transition(b, after[k], list[k + 1]), b, k + 1)
    BY <2>1, JoiningMore
  <2>3. k + 1 \in 1 .. n /\ k + 1 \in 0 .. n /\ (k + 1) - 1 = k
    BY <1>2
  <2>4. after[k + 1] = Transition(b, after[k], list[k + 1])
    BY <1>3, <2>3 DEF TransitionSteps
  <2> QED BY <2>2, <2>3, <2>4
<1> HIDE DEF S
<1>6. n \in S
  <2>1. 0 .. n \subseteq S
    BY <1>2, <1>4, <1>5, OneByOne
  <2> QED BY <1>2, <2>1
<1>7. Joining(g, after[n], b, n)
  BY <1>6 DEF S
<1> DEFINE last == after[n]
           h == Entered(last, b, Top.scope)
<1>8. b \in 1 .. Len(last.blocks)
  BY <1>1, <1>7 DEF Joining, OnlyBlock
<1>9. /\ IsGraph(h) /\ h.values = last.values /\ h.degree = last.degree
      /\ OnlyBlock(last.blocks, h.blocks, b)
      /\ h.blocks[b].idx = last.blocks[b].idx /\ h.blocks[b].vars = last.blocks[b].vars
  <2>1. IsGraph(last)
    BY <1>7 DEF Joining
  <2> HIDE DEF last
  <2> QED BY <1>8, <2>1, EnteredIs
<1>10. Joining(g, last, b, n)
  BY <1>7
<1> HIDE DEF h, last
<1>11. Joining(g, h, b, n)
  BY <1>9, <1>10, OnlyThrough DEF Joining
<1>12. Transitions(g, b) = h
  BY <1>3 DEF h, last
<1> QED BY <1>11, <1>12 DEF Joined, n

(***************************************************************************)
(* Variables that get other values.                                        *)
(***************************************************************************)
(* Nothing but values, and what the blocks know of them, is different.     *)
Revalued(g, h) ==
  /\ IsGraph(h) /\ h.degree = g.degree /\ Len(g.values) <= Len(h.values)
  /\ Len(h.blocks) = Len(g.blocks)
  /\ \A c \in 1 .. Len(g.blocks) :
       /\ h.blocks[c].idx = g.blocks[c].idx /\ h.blocks[c].preds = g.blocks[c].preds
       /\ Same(g.blocks[c].vars, h.blocks[c].vars)

LEMMA RevaluedItself ==
  ASSUME NEW g, IsGraph(g)
  PROVE  Revalued(g, g)
<1>1. Len(g.values) \in Nat
  BY LenProperties DEF IsGraph, WellTyped
<1>2. \A c \in 1 .. Len(g.blocks) : Same(g.blocks[c].vars, g.blocks[c].vars)
  BY GraphBlock, SameItself
<1> QED BY <1>1, <1>2 DEF Revalued

LEMMA RevaluedThrough ==
  ASSUME NEW f, NEW g, NEW h, IsGraph(f), Revalued(f, g), Revalued(g, h)
  PROVE  Revalued(f, h)
<1>1. Len(f.values) \in Nat /\ Len(g.values) \in Nat /\ Len(h.values) \in Nat
  BY LenProperties DEF IsGraph, WellTyped, Revalued
<1>2. Len(f.values) <= Len(h.values)
  BY <1>1 DEF Revalued
<1>3. ASSUME NEW c \in 1 .. Len(f.blocks)
      PROVE  Same(f.blocks[c].vars, h.blocks[c].vars)
  <2>1. Same(f.blocks[c].vars, g.blocks[c].vars) /\ Same(g.blocks[c].vars, h.blocks[c].vars)
    BY DEF Revalued
  <2> QED BY <2>1, SameThrough
<1> QED BY <1>2, <1>3 DEF Revalued

LEMMA RevaluedGrows ==
  ASSUME NEW g, NEW h, IsGraph(g), Revalued(g, h), NEW cur
  PROVE  Grown(g.blocks, h.blocks, cur)
<1>1. Len(g.blocks) \in Nat /\ Len(h.blocks) = Len(g.blocks)
  BY LenProperties DEF IsGraph, WellTyped, Revalued
<1>2. \A c \in Len(g.blocks) + 1 .. Len(h.blocks) : FALSE
  BY <1>1
<1>3. ASSUME NEW c \in 1 .. Len(g.blocks)
      PROVE  /\ Begun(h.blocks, c) <=> Begun(g.blocks, c)
             /\ Same(g.blocks[c].vars, h.blocks[c].vars)
             /\ g.blocks[c].vars = <<>> => h.blocks[c].vars = <<>>
             /\ g.blocks[c].preds # <<>> => h.blocks[c].preds # <<>>
             /\ \A n \in 1 .. Len(h.blocks[c].preds) :
                  \/ h.blocks[c].preds[n] = cur
                  \/ \E m \in 1 .. Len(g.blocks[c].preds) : h.blocks[c].preds[n] = g.blocks[c].preds[m]
  <2>1. /\ h.blocks[c].idx = g.blocks[c].idx /\ h.blocks[c].preds = g.blocks[c].preds
        /\ Same(g.blocks[c].vars, h.blocks[c].vars) /\ IsGraph(h)
    BY DEF Revalued
  <2>2. g.blocks[c].vars = <<>> => h.blocks[c].vars = <<>>
    <3>1. h.blocks[c].vars \in Seq(VariableSet)
      BY <1>1, <2>1, GraphBlock
    <3>2. g.blocks[c].vars = <<>> => Len(h.blocks[c].vars) = 0
      BY <2>1 DEF Same
    <3> QED BY <3>1, <3>2, EmptySeq
  <2> QED BY <2>1, <2>2 DEF Begun
<1> QED BY <1>1, <1>2, <1>3 DEF Grown

(* The values are others, and the blocks are not.                          *)
LEMMA OtherValues ==
  ASSUME NEW g, IsGraph(g), NEW h, h.blocks = g.blocks, h.degree = g.degree, IsGraph(h),
         Len(g.values) <= Len(h.values)
  PROVE  Revalued(g, h)
<1>1. \A c \in 1 .. Len(g.blocks) : Same(g.blocks[c].vars, g.blocks[c].vars)
  BY GraphBlock, SameItself
<1> QED BY <1>1 DEF Revalued

(* A block is another one with the same variables.                         *)
LEMMA OnlyRevalued ==
  ASSUME NEW g, IsGraph(g), NEW h, IsGraph(h), h.degree = g.degree, h.values = g.values,
         NEW b \in 1 .. Len(g.blocks), OnlyBlock(g.blocks, h.blocks, b),
         h.blocks[b].idx = g.blocks[b].idx, Same(g.blocks[b].vars, h.blocks[b].vars)
  PROVE  Revalued(g, h)
<1>1. Revalued(g, g)
  BY RevaluedItself
<1>2. ASSUME NEW c \in 1 .. Len(g.blocks)
      PROVE  /\ h.blocks[c].idx = g.blocks[c].idx /\ h.blocks[c].preds = g.blocks[c].preds
             /\ Same(g.blocks[c].vars, h.blocks[c].vars)
  <2>1. CASE c = b
    BY <2>1 DEF OnlyBlock
  <2>2. CASE c # b
    <3>1. h.blocks[c] = g.blocks[c] /\ Same(g.blocks[c].vars, g.blocks[c].vars)
      BY <1>1, <2>2 DEF OnlyBlock, Revalued
    <3> QED BY <3>1
  <2> QED BY <2>1, <2>2
<1> QED BY <1>1, <1>2 DEF Revalued, OnlyBlock

(* A variable in its place has another value.                              *)
ValueAt(list, i, val) == [list EXCEPT ![i].value = val]

LEMMA VariableRevalued ==
  ASSUME NEW list \in Seq(VariableSet), NEW i \in 1 .. Len(list), NEW val \in Nat
  PROVE  LET r == ValueAt(list, i, val)
         IN  /\ r \in Seq(VariableSet) /\ Same(list, r) /\ r[i].value = val
             /\ \A k \in 1 .. Len(list) : k # i => r[k] = list[k]
<1> DEFINE e == [list[i] EXCEPT !.value = val]
           r == ValueAt(list, i, val)
<1>1. list[i] \in VariableSet /\ Len(list) \in Nat /\ DOMAIN list = 1 .. Len(list)
  BY ElementOfSeq, LenProperties
<1>2. e \in VariableSet /\ e.name = list[i].name /\ e.id = list[i].id /\ e.value = val
  BY <1>1 DEF VariableSet
<1>3. r = [list EXCEPT ![i] = e]
  BY <1>1 DEF ValueAt
<1> HIDE DEF e, r
<1>4. r \in Seq(VariableSet) /\ Len(r) = Len(list) /\ r[i] = e /\ \A k \in 1 .. Len(list) : k # i => r[k] = list[k]
  BY <1>2, <1>3, Replaced
<1>5. Same(list, r)
  BY <1>1, <1>2, <1>4 DEF Same
<1> QED BY <1>2, <1>4, <1>5 DEF r

LEMMA ValueSetIn ==
  ASSUME NEW g, IsGraph(g), NEW b \in 1 .. Len(g.blocks), NEW i \in 1 .. Len(g.blocks[b].vars),
         NEW val \in 1 .. Len(g.values)
  PROVE  Revalued(g, [g EXCEPT !.blocks[b].vars[i].value = val])
<1> DEFINE old == g.blocks[b].vars
           list == ValueAt(old, i, val)
           h == WithList(g, b, list)
<1>0. val \in Nat
  OBVIOUS
<1>1. /\ old \in Seq(VariableSet) /\ Len(old) \in Nat
      /\ \A k \in 1 .. Len(old) : old[k].value \in 1 .. Len(g.values)
  BY GraphBlock
<1>2. /\ list \in Seq(VariableSet) /\ Same(old, list) /\ list[i].value = val
      /\ \A k \in 1 .. Len(old) : k # i => list[k] = old[k]
  BY <1>0, <1>1, VariableRevalued
<1>3. [g EXCEPT !.blocks[b].vars[i].value = val] = h
  BY DEF ValueAt, WithList
<1> HIDE DEF list
<1>4. \A k \in 1 .. Len(list) : list[k].value \in 1 .. Len(g.values)
  BY <1>1, <1>2 DEF Same
<1>5. /\ IsGraph(h) /\ h.values = g.values /\ h.degree = g.degree
      /\ OnlyBlock(g.blocks, h.blocks, b)
      /\ h.blocks[b].idx = g.blocks[b].idx /\ h.blocks[b].vars = list
  BY <1>2, <1>4, ListReplaced
<1> HIDE DEF h
<1> QED BY <1>2, <1>3, <1>5, OnlyRevalued

LEMMA HeaderAdded ==
  ASSUME NEW g, IsGraph(g), NEW b \in 1 .. Len(g.blocks), NEW phi \in Nat
  PROVE  Revalued(g, [g EXCEPT !.blocks[b].headers = Append(@, phi)])
<1> DEFINE list == Append(g.blocks[b].headers, phi)
           q == [g.blocks[b] EXCEPT !.headers = list]
           h == [g EXCEPT !.blocks[b].headers = Append(@, phi)]
<1>1. g.blocks \in Seq(BlockSet) /\ g.blocks[b] \in BlockSet /\ DOMAIN g.blocks = 1 .. Len(g.blocks)
  BY GraphBlock, LenProperties
<1>2. list \in Seq(Nat)
  <2>1. g.blocks[b].headers \in Seq(Nat)
    BY <1>1 DEF BlockSet
  <2> QED BY <2>1, Appended
<1>3. h = [g EXCEPT !.blocks[b].headers = list]
  OBVIOUS
<1> HIDE DEF list, h
<1>4. h = Changed(g, b, q)
  <2>1. ASSUME NEW r, r = [g EXCEPT !.blocks[b].headers = list]
        PROVE  r = Changed(g, b, q)
    BY <1>1, <2>1 DEF IsGraph, Changed
  <2> HIDE DEF q
  <2> QED BY <1>3, <2>1
<1>5. q \in BlockSet /\ q.idx = g.blocks[b].idx /\ q.preds = g.blocks[b].preds /\ q.vars = g.blocks[b].vars
  BY <1>1, <1>2 DEF BlockSet
<1> HIDE DEF q
<1>6. \A k \in 1 .. Len(q.vars) : q.vars[k].value \in 1 .. Len(g.values)
  BY <1>5, GraphBlock
<1>7. /\ IsGraph(h) /\ h.values = g.values /\ h.degree = g.degree
      /\ Len(h.blocks) = Len(g.blocks) /\ h.blocks[b] = q
      /\ \A c \in 1 .. Len(g.blocks) : c # b => h.blocks[c] = g.blocks[c]
  BY <1>4, <1>5, <1>6, GraphWithBlock
<1>8. OnlyBlock(g.blocks, h.blocks, b) /\ h.blocks[b].idx = g.blocks[b].idx
  BY <1>5, <1>7 DEF OnlyBlock
<1>9. Same(g.blocks[b].vars, h.blocks[b].vars)
  BY <1>5, <1>7, GraphBlock, SameItself
<1>10. Revalued(g, h)
  BY <1>7, <1>8, <1>9, OnlyRevalued
<1> QED BY <1>10 DEF h

(***************************************************************************)
(* Loops: what begins one and what ends its body.                          *)
(***************************************************************************)
(* The variables of a loop, one after the other.                           *)
HeaderSteps(g, b, prev, after, m) ==
  /\ after[0] = g
  /\ \A j \in 1 .. m : after[j] = WithHeader(b, prev, after[j - 1], j)

LEMMA HeadersRun ==
  ASSUME NEW g, NEW b, NEW prev, Len(g.blocks[b].vars) \in Nat
  PROVE  \E after : HeaderSteps(g, b, prev, after, Len(g.blocks[b].vars)) /\ WithHeaders(g, b, prev) = Entered(after[Len(g.blocks[b].vars)], b, scope)
<1> DEFINE n == Len(g.blocks[b].vars)
           first == g
           F(f) == [j \in 0 .. n |-> IF j = 0 THEN first ELSE WithHeader(b, prev, f[j - 1], j)]
           R(m) == \E f : HeaderSteps(g, b, prev, f, m)
           S == {m \in 0 .. n : R(m)}
<1> HIDE DEF first
<1>1. 0 \in S
  <2> DEFINE f == [j \in {0} |-> first]
  <2>1. f[0] = first /\ 1 .. 0 = {} /\ 0 \in 0 .. n
    OBVIOUS
  <2> HIDE DEF f
  <2>2. HeaderSteps(g, b, prev, f, 0)
    BY <2>1 DEF HeaderSteps, first
  <2>3. R(0)
    BY <2>2
  <2> HIDE DEF R
  <2> QED BY <2>1, <2>3
<1>2. ASSUME NEW m \in 0 .. n - 1, m \in S
      PROVE  m + 1 \in S
  <2>1. PICK f : HeaderSteps(g, b, prev, f, m)
    BY <1>2
  <2> DEFINE new == WithHeader(b, prev, f[m], m + 1)
             h == [j \in 0 .. m + 1 |-> IF j = m + 1 THEN new ELSE f[j]]
  <2> HIDE DEF new
  <2>2. h[0] = f[0] /\ h[m + 1] = new /\ \A j \in 0 .. m : h[j] = f[j]
    <3>1. m \in Nat
      OBVIOUS
    <3> QED BY <3>1
  <2> HIDE DEF h
  <2>3. ASSUME NEW j \in 1 .. m + 1
        PROVE  h[j] = WithHeader(b, prev, h[j - 1], j)
    <3>1. CASE j \in 1 .. m
      <4>1. j \in 0 .. m /\ j - 1 \in 0 .. m
        BY <3>1
      <4> QED BY <2>1, <2>2, <3>1, <4>1 DEF HeaderSteps
    <3>2. CASE j = m + 1
      <4>1. j - 1 = m /\ m \in 0 .. m
        BY <3>2
      <4> QED BY <2>2, <3>2, <4>1 DEF new
    <3>3. j \in 1 .. m \/ j = m + 1
      OBVIOUS
    <3> QED BY <3>1, <3>2, <3>3
  <2>4. m + 1 \in 0 .. n
    OBVIOUS
  <2>5. HeaderSteps(g, b, prev, h, m + 1)
    BY <2>1, <2>2, <2>3 DEF HeaderSteps
  <2>6. R(m + 1)
    BY <2>5
  <2> HIDE DEF R
  <2> QED BY <2>4, <2>6
<1>3. R(n)
  <2> HIDE DEF R
  <2>1. 0 .. n \subseteq S
    <3> HIDE DEF S
    <3> QED BY <1>1, <1>2, OneByOne
  <2> QED BY <2>1
<1>4. PICK f : f[0] = first /\ \A j \in 1 .. n : f[j] = WithHeader(b, prev, f[j - 1], j)
  BY <1>3 DEF HeaderSteps, first
<1> DEFINE h == [j \in 0 .. n |-> f[j]]
           after == CHOOSE a : a = F(a)
<1>5. h = F(h)
  <2>1. ASSUME NEW j \in 0 .. n
        PROVE  h[j] = IF j = 0 THEN first ELSE WithHeader(b, prev, h[j - 1], j)
    <3>1. j # 0 => j \in 1 .. n /\ j - 1 \in 0 .. n
      OBVIOUS
    <3> QED BY <1>4, <3>1
  <2>2. h = [j \in 0 .. n |-> h[j]]
    OBVIOUS
  <2> HIDE DEF h
  <2> QED BY <2>1, <2>2
<1> HIDE DEF h
<1>6. after = F(after)
  <2> HIDE DEF F
  <2> QED BY <1>5
<1>7. WithHeaders(g, b, prev) = Entered(after[n], b, scope)
  BY DEF WithHeaders, first
<1> HIDE DEF after
<1>8. after[0] = first /\ \A j \in 1 .. n : after[j] = WithHeader(b, prev, after[j - 1], j)
  <2>1. 0 \in 0 .. n /\ \A j \in 1 .. n : j \in 0 .. n /\ j # 0
    OBVIOUS
  <2> HIDE DEF n
  <2> QED BY <1>6, <2>1
<1>9. HeaderSteps(g, b, prev, after, n) /\ WithHeaders(g, b, prev) = Entered(after[n], b, scope)
  BY <1>7, <1>8 DEF first, HeaderSteps
<1> HIDE DEF n
<1>10. \E a : HeaderSteps(g, b, prev, a, n) /\ WithHeaders(g, b, prev) = Entered(a[n], b, scope)
  BY <1>9
<1> QED BY <1>10 DEF n

LEMMA WithHeaderIs ==
  ASSUME NEW g, IsGraph(g), NEW b \in 1 .. Len(g.blocks), NEW prev \in 1 .. Len(g.blocks),
         NEW i \in 1 .. Len(g.blocks[b].vars)
  PROVE  Revalued(g, WithHeader(b, prev, g, i))
<1> DEFINE variable == g.blocks[b].vars[i]
           args == <<Operand(variable.value, prev, TRUE)>>
           h == WithPhi(g, b, args)
           phi == Len(h.values)
           m == [h EXCEPT !.blocks[b].vars[i].value = phi]
           end == [m EXCEPT !.blocks[b].headers = Append(@, phi)]
<1>1. CASE variable.name \in Addressed
  <2>1. WithHeader(b, prev, g, i) = g
    BY <1>1 DEF WithHeader
  <2> QED BY <2>1, RevaluedItself
<1>2. CASE variable.name \notin Addressed
  <2>1. WithHeader(b, prev, g, i) = [h EXCEPT !.blocks[b].vars[i].value = phi, !.blocks[b].headers = Append(@, phi)]
    BY <1>2 DEF WithHeader
  <2>2. variable \in VariableSet /\ prev \in Nat
    BY GraphBlock
  <2>3. Args(g.blocks, args)
    <3> DEFINE op == Operand(variable.value, prev, TRUE)
    <3> HIDE DEF variable
    <3>1. op \in OperandSet /\ op.from = prev
      BY <2>2 DEF Operand, OperandSet, VariableSet
    <3>2. args = <<op>>
      OBVIOUS
    <3> HIDE DEF op, args
    <3>3. args \in Seq(OperandSet) /\ Len(args) = 1 /\ args[1] = op
      BY <3>1, <3>2
    <3> QED BY <3>1, <3>3 DEF Args
  <2> HIDE DEF args
  <2>4. /\ IsGraph(h) /\ h.blocks = g.blocks /\ h.degree = g.degree
        /\ Len(h.values) = Len(g.values) + 1
    BY <2>3, WithPhiIs
  <2>5. Len(g.values) \in Nat
    BY GraphBlock
  <2> HIDE DEF h
  <2>6. Revalued(g, h)
    <3>1. Len(g.values) <= Len(h.values)
      BY <2>4, <2>5
    <3> QED BY <2>4, <3>1, OtherValues
  <2>7. phi \in 1 .. Len(h.values) /\ phi \in Nat
    BY <2>4, <2>5
  <2>8. b \in 1 .. Len(h.blocks) /\ i \in 1 .. Len(h.blocks[b].vars)
    BY <2>4
  <2> HIDE DEF phi
  <2>9. Revalued(h, m)
    BY <2>4, <2>7, <2>8, ValueSetIn
  <2>10. [h EXCEPT !.blocks[b].vars[i].value = phi, !.blocks[b].headers = Append(@, phi)] = end
    OBVIOUS
  <2> HIDE DEF m
  <2>11. IsGraph(m) /\ b \in 1 .. Len(m.blocks)
    BY <2>8, <2>9 DEF Revalued
  <2>12. Revalued(m, end)
    BY <2>7, <2>11, HeaderAdded
  <2> HIDE DEF end
  <2>13. Revalued(g, m)
    BY <2>6, <2>9, RevaluedThrough
  <2>14. Revalued(g, end)
    BY <2>12, <2>13, RevaluedThrough
  <2> QED BY <2>1, <2>10, <2>14
<1> QED BY <1>1, <1>2

LEMMA WithHeadersIs ==
  ASSUME NEW g, IsGraph(g), NEW b \in 1 .. Len(g.blocks), NEW prev \in 1 .. Len(g.blocks)
  PROVE  Revalued(g, WithHeaders(g, b, prev))
<1> DEFINE n == Len(g.blocks[b].vars)
<1>1. n \in Nat
  BY GraphBlock
<1>2. PICK after : HeaderSteps(g, b, prev, after, n) /\ WithHeaders(g, b, prev) = Entered(after[n], b, scope)
  BY <1>1, HeadersRun
<1> DEFINE S == {k \in 0 .. n : Revalued(g, after[k])}
<1>3. 0 \in S
  <2>1. Revalued(g, after[0])
    BY <1>2, RevaluedItself DEF HeaderSteps
  <2> QED BY <1>1, <2>1
<1>4. ASSUME NEW k \in 0 .. n - 1, k \in S
      PROVE  k + 1 \in S
  <2>1. Revalued(g, after[k])
    BY <1>4
  <2>2. k + 1 \in 1 .. n /\ k + 1 \in 0 .. n /\ (k + 1) - 1 = k
    BY <1>1
  <2>3. after[k + 1] = WithHeader(b, prev, after[k], k + 1)
    BY <1>2, <2>2 DEF HeaderSteps
  <2>4. /\ IsGraph(after[k]) /\ b \in 1 .. Len(after[k].blocks) /\ prev \in 1 .. Len(after[k].blocks)
        /\ k + 1 \in 1 .. Len(after[k].blocks[b].vars)
    BY <2>1, <2>2 DEF Revalued, Same
  <2>5. Revalued(after[k], after[k + 1])
    BY <2>3, <2>4, WithHeaderIs
  <2>6. Revalued(g, after[k + 1])
    BY <2>1, <2>5, RevaluedThrough
  <2> QED BY <2>2, <2>6
<1> HIDE DEF S
<1>5. Revalued(g, after[n])
  <2> HIDE DEF n
  <2>1. 0 .. n \subseteq S
    BY <1>1, <1>3, <1>4, OneByOne
  <2> QED BY <1>1, <2>1 DEF S
<1> DEFINE last == after[n]
           h == Entered(last, b, scope)
<1>6. IsGraph(last) /\ b \in 1 .. Len(last.blocks)
  BY <1>5 DEF Revalued
<1>7. Revalued(g, last)
  BY <1>5
<1> HIDE DEF last
<1>8. /\ IsGraph(h) /\ h.values = last.values /\ h.degree = last.degree
      /\ OnlyBlock(last.blocks, h.blocks, b)
      /\ h.blocks[b].idx = last.blocks[b].idx /\ h.blocks[b].vars = last.blocks[b].vars
  BY <1>6, EnteredIs
<1> HIDE DEF h
<1>9. Same(last.blocks[b].vars, h.blocks[b].vars)
  BY <1>6, <1>8, GraphBlock, SameItself
<1>10. Revalued(last, h)
  BY <1>6, <1>8, <1>9, OnlyRevalued
<1>11. Revalued(g, h)
  BY <1>7, <1>10, RevaluedThrough
<1> QED BY <1>2, <1>11 DEF h, last

(* The value is used no more.                                              *)
LEMMA DroppedIs ==
  ASSUME NEW bl, NEW vs, WellTyped(bl, vs), NEW phi \in 1 .. Len(vs), NEW val \in 1 .. Len(vs),
         NEW end \in Int, NEW header
  PROVE  LET r == Dropped(vs, phi, header, val, end)
         IN  WellTyped(bl, r) /\ Len(r) = Len(vs)
<1> DEFINE r == Dropped(vs, phi, header, val, end)
           use(v, i) == IF vs[v].args[i].known /\ vs[v].args[i].value = phi /\ ~vs[v].grown
                        THEN [vs[v].args[i] EXCEPT !.value = val] ELSE vs[v].args[i]
           kept(v) == IF v = header THEN Len(vs[v].args) - 1 ELSE Len(vs[v].args)
           args(v) == [i \in 1 .. kept(v) |-> use(v, i)]
           gone(v) == IF v = header THEN val ELSE vs[v].gone
           uses(v) == IF v = val THEN vs[v].uses \o vs[phi].uses ELSE vs[v].uses
           right(v) == IF v = val THEN end ELSE vs[v].right
           e(v) == [vs[v] EXCEPT !.gone = gone(v), !.args = args(v), !.uses = uses(v),
                                 !.right = right(v)]
<1>1. /\ vs \in Seq(ValueSet) /\ Len(vs) \in Nat /\ DOMAIN vs = 1 .. Len(vs)
      /\ \A v \in 1 .. Len(vs) : vs[v] \in ValueSet /\ Args(bl, vs[v].args)
  BY ValueArgs, LenProperties DEF WellTyped
<1>2. \A v \in 1 .. Len(vs) : Args(bl, args(v))
  <2> SUFFICES ASSUME NEW v \in 1 .. Len(vs)
               PROVE  Args(bl, args(v))
    OBVIOUS
  <2>1. /\ vs[v].args \in Seq(OperandSet) /\ Len(vs[v].args) \in Nat
        /\ \A i \in 1 .. Len(vs[v].args) : vs[v].args[i] \in OperandSet /\ vs[v].args[i].from \in 1 .. Len(bl)
    BY <1>1, LenProperties, ElementOfSeq DEF Args
  <2>2. \A i \in 1 .. Len(vs[v].args) : use(v, i) \in OperandSet /\ use(v, i).from \in 1 .. Len(bl)
    <3> SUFFICES ASSUME NEW i \in 1 .. Len(vs[v].args)
                 PROVE  use(v, i) \in OperandSet /\ use(v, i).from \in 1 .. Len(bl)
      OBVIOUS
    <3> DEFINE a == vs[v].args[i]
    <3>1. a \in OperandSet /\ a.from \in 1 .. Len(bl) /\ val \in Nat
      BY <2>1
    <3> HIDE DEF a
    <3>2. [a EXCEPT !.value = val] \in OperandSet /\ [a EXCEPT !.value = val].from = a.from
      BY <3>1 DEF OperandSet
    <3>3. use(v, i) = a \/ use(v, i) = [a EXCEPT !.value = val]
      BY DEF a
    <3> HIDE DEF use
    <3> QED BY <3>1, <3>2, <3>3
  <2> HIDE DEF use
  <2>3. \E m \in Nat : 1 .. kept(v) = 1 .. m /\ m <= Len(vs[v].args)
    <3>1. CASE kept(v) \in Nat
      <4>1. kept(v) <= Len(vs[v].args)
        BY <2>1
      <4> HIDE DEF kept
      <4> QED BY <3>1, <4>1
    <3>2. CASE kept(v) \notin Nat
      <4>1. kept(v) = -1
        BY <2>1, <3>2
      <4>2. 1 .. kept(v) = 1 .. 0
        BY <4>1
      <4> QED BY <2>1, <4>2
    <3> QED BY <3>1, <3>2
  <2>4. PICK m \in Nat : 1 .. kept(v) = 1 .. m /\ m <= Len(vs[v].args)
    BY <2>3
  <2> DEFINE f == [i \in 1 .. m |-> use(v, i)]
  <2>5. args(v) = f
    BY <2>4
  <2>6. \A i \in 1 .. m : i \in 1 .. Len(vs[v].args)
    BY <2>1, <2>4
  <2>7. f \in [1 .. m -> OperandSet] /\ \A i \in 1 .. m : f[i].from \in 1 .. Len(bl)
    BY <2>2, <2>6
  <2> HIDE DEF f, args
  <2>8. f \in Seq(OperandSet) /\ Len(f) = m
    BY <2>7, Repeated
  <2> QED BY <2>5, <2>7, <2>8 DEF Args
<1> HIDE DEF args
<1>3. \A v \in 1 .. Len(vs) : gone(v) \in Nat
  <2>1. \A v \in 1 .. Len(vs) : vs[v].gone \in Nat
    BY <1>1 DEF ValueSet
  <2> QED BY <2>1
<1>4. \A v \in 1 .. Len(vs) : uses(v) \in Seq(UseSet) /\ right(v) \in Int
  <2> SUFFICES ASSUME NEW v \in 1 .. Len(vs)
               PROVE  uses(v) \in Seq(UseSet) /\ right(v) \in Int
    OBVIOUS
  <2>1. vs[v].uses \in Seq(UseSet) /\ vs[phi].uses \in Seq(UseSet) /\ vs[v].right \in Int
    <3>1. vs[v] \in ValueSet /\ vs[phi] \in ValueSet
      BY <1>1
    <3> QED BY <3>1 DEF ValueSet
  <2>2. vs[v].uses \o vs[phi].uses \in Seq(UseSet)
    BY <2>1, ConcatProperties
  <2> QED BY <2>1, <2>2
<1>5. r = [v \in 1 .. Len(vs) |-> e(v)]
  <2>1. DOMAIN vs = 1 .. Len(vs)
    BY <1>1
  <2> QED BY ONLY <2>1 DEF Dropped, r, e, gone, uses, right, args, use, kept
<1> HIDE DEF uses, right, gone, r, e
<1>6. \A v \in 1 .. Len(vs) : e(v) \in ValueSet /\ e(v).args = args(v)
  <2> SUFFICES ASSUME NEW v \in 1 .. Len(vs)
               PROVE  e(v) \in ValueSet /\ e(v).args = args(v)
    OBVIOUS
  <2>1. /\ vs[v] \in ValueSet /\ gone(v) \in Nat /\ args(v) \in Seq(OperandSet)
        /\ uses(v) \in Seq(UseSet) /\ right(v) \in Int
    BY <1>1, <1>2, <1>3, <1>4 DEF Args
  <2> QED BY <2>1 DEF ValueSet, e
<1>7. r \in [1 .. Len(vs) -> ValueSet] /\ \A v \in 1 .. Len(vs) : Args(bl, r[v].args)
  BY <1>2, <1>5, <1>6
<1>8. r \in Seq(ValueSet) /\ Len(r) = Len(vs)
  BY <1>1, <1>7, Repeated
<1>9. WellTyped(bl, r)
  BY <1>1, <1>7, <1>8, ValuesGrow
<1> QED BY <1>8, <1>9 DEF r

(* An operand is added.                                                    *)
LEMMA PushedIs ==
  ASSUME NEW bl, NEW vs, WellTyped(bl, vs), NEW phi, NEW val \in Nat, NEW from \in 1 .. Len(bl)
  PROVE  LET r == Pushed(vs, phi, val, from)
         IN  WellTyped(bl, r) /\ Len(r) = Len(vs)
<1> DEFINE r == Pushed(vs, phi, val, from)
           op == Operand(val, from, FALSE)
           e(v) == [vs[v] EXCEPT !.args = Append(vs[v].args, op), !.grown = TRUE]
<1>1. /\ vs \in Seq(ValueSet) /\ Len(vs) \in Nat /\ DOMAIN vs = 1 .. Len(vs)
      /\ \A v \in 1 .. Len(vs) : vs[v] \in ValueSet /\ Args(bl, vs[v].args)
  BY ValueArgs, LenProperties DEF WellTyped
<1>2. r = [v \in 1 .. Len(vs) |-> IF v = phi THEN e(v) ELSE vs[v]]
  BY <1>1 DEF Pushed
<1>3. op \in OperandSet /\ op.from = from
  <2>1. from \in Nat
    BY LenProperties DEF WellTyped
  <2> QED BY <2>1 DEF Operand, OperandSet
<1> HIDE DEF op, e, r
<1>4. CASE phi \notin 1 .. Len(vs)
  <2>1. vs = [v \in 1 .. Len(vs) |-> vs[v]]
    BY <1>1
  <2>2. r = [v \in 1 .. Len(vs) |-> vs[v]]
    BY <1>2, <1>4
  <2> QED BY <2>1, <2>2 DEF r
<1>5. CASE phi \in 1 .. Len(vs)
  <2> DEFINE args == Append(vs[phi].args, op)
  <2>1. Args(bl, args)
    <3>1. /\ vs[phi].args \in Seq(OperandSet) /\ Len(vs[phi].args) \in Nat
          /\ \A i \in 1 .. Len(vs[phi].args) : vs[phi].args[i].from \in 1 .. Len(bl)
      BY <1>1, <1>5, LenProperties DEF Args
    <3>2. /\ args \in Seq(OperandSet) /\ Len(args) = Len(vs[phi].args) + 1
          /\ args[Len(vs[phi].args) + 1] = op
          /\ \A i \in 1 .. Len(vs[phi].args) : args[i] = vs[phi].args[i]
      BY <1>3, <3>1, Appended
    <3> HIDE DEF args
    <3>3. ASSUME NEW i \in 1 .. Len(args)
          PROVE  args[i].from \in 1 .. Len(bl)
      <4>1. i \in 1 .. Len(vs[phi].args) \/ i = Len(vs[phi].args) + 1
        BY <3>1, <3>2
      <4> QED BY <1>3, <3>1, <3>2, <4>1
    <3> QED BY <3>2, <3>3 DEF Args
  <2>2. r = [vs EXCEPT ![phi] = e(phi)]
    BY <1>1, <1>2
  <2>3. e(phi) \in ValueSet /\ e(phi).args = args
    <3>1. vs[phi] \in ValueSet /\ args \in Seq(OperandSet)
      BY <1>1, <1>5, <2>1 DEF Args
    <3> QED BY <3>1 DEF ValueSet, e
  <2> HIDE DEF args
  <2>4. /\ r \in Seq(ValueSet) /\ Len(r) = Len(vs) /\ r[phi] = e(phi)
        /\ \A v \in 1 .. Len(vs) : v # phi => r[v] = vs[v]
    BY <1>1, <1>5, <2>2, <2>3, Replaced
  <2>5. \A v \in 1 .. Len(r) : Args(bl, r[v].args)
    BY <1>1, <2>1, <2>3, <2>4
  <2>6. WellTyped(bl, r)
    BY <1>1, <2>4, <2>5, ValuesGrow
  <2> QED BY <2>4, <2>6 DEF r
<1> QED BY <1>4, <1>5

(* The variables of a loop whose body is built, one after the other.       *)
ClosingSteps(g, after, m) ==
  /\ after[0] = [blocks |-> g.blocks, values |-> g.values, wild |-> wild]
  /\ \A j \in 1 .. m : after[j] = CloseHeader(after[j - 1], j)

LEMMA ClosingRuns ==
  ASSUME NEW g, Len(g.blocks[Top.ends[5]].vars) \in Nat
  PROVE  \E after : ClosingSteps(g, after, Len(g.blocks[Top.ends[5]].vars)) /\ Closed(g) = after[Len(g.blocks[Top.ends[5]].vars)]
<1> DEFINE n == Len(g.blocks[Top.ends[5]].vars)
           first == [blocks |-> g.blocks, values |-> g.values, wild |-> wild]
           F(f) == [j \in 0 .. n |-> IF j = 0 THEN first ELSE CloseHeader(f[j - 1], j)]
           R(m) == \E f : ClosingSteps(g, f, m)
           S == {m \in 0 .. n : R(m)}
<1> HIDE DEF first
<1>1. 0 \in S
  <2> DEFINE f == [j \in {0} |-> first]
  <2>1. f[0] = first /\ 1 .. 0 = {} /\ 0 \in 0 .. n
    OBVIOUS
  <2> HIDE DEF f
  <2>2. ClosingSteps(g, f, 0)
    BY <2>1 DEF ClosingSteps, first
  <2>3. R(0)
    BY <2>2
  <2> HIDE DEF R
  <2> QED BY <2>1, <2>3
<1>2. ASSUME NEW m \in 0 .. n - 1, m \in S
      PROVE  m + 1 \in S
  <2>1. PICK f : ClosingSteps(g, f, m)
    BY <1>2
  <2> DEFINE new == CloseHeader(f[m], m + 1)
             h == [j \in 0 .. m + 1 |-> IF j = m + 1 THEN new ELSE f[j]]
  <2> HIDE DEF new
  <2>2. h[0] = f[0] /\ h[m + 1] = new /\ \A j \in 0 .. m : h[j] = f[j]
    <3>1. m \in Nat
      OBVIOUS
    <3> QED BY <3>1
  <2> HIDE DEF h
  <2>3. ASSUME NEW j \in 1 .. m + 1
        PROVE  h[j] = CloseHeader(h[j - 1], j)
    <3>1. CASE j \in 1 .. m
      <4>1. j \in 0 .. m /\ j - 1 \in 0 .. m
        BY <3>1
      <4> QED BY <2>1, <2>2, <3>1, <4>1 DEF ClosingSteps
    <3>2. CASE j = m + 1
      <4>1. j - 1 = m /\ m \in 0 .. m
        BY <3>2
      <4> QED BY <2>2, <3>2, <4>1 DEF new
    <3>3. j \in 1 .. m \/ j = m + 1
      OBVIOUS
    <3> QED BY <3>1, <3>2, <3>3
  <2>4. m + 1 \in 0 .. n
    OBVIOUS
  <2>5. ClosingSteps(g, h, m + 1)
    BY <2>1, <2>2, <2>3 DEF ClosingSteps
  <2>6. R(m + 1)
    BY <2>5
  <2> HIDE DEF R
  <2> QED BY <2>4, <2>6
<1>3. R(n)
  <2> HIDE DEF R
  <2>1. 0 .. n \subseteq S
    <3> HIDE DEF S
    <3> QED BY <1>1, <1>2, OneByOne
  <2> QED BY <2>1
<1>4. PICK f : f[0] = first /\ \A j \in 1 .. n : f[j] = CloseHeader(f[j - 1], j)
  BY <1>3 DEF ClosingSteps, first
<1> DEFINE h == [j \in 0 .. n |-> f[j]]
           after == CHOOSE a : a = F(a)
<1>5. h = F(h)
  <2>1. ASSUME NEW j \in 0 .. n
        PROVE  h[j] = IF j = 0 THEN first ELSE CloseHeader(h[j - 1], j)
    <3>1. j # 0 => j \in 1 .. n /\ j - 1 \in 0 .. n
      OBVIOUS
    <3> QED BY <1>4, <3>1
  <2>2. h = [j \in 0 .. n |-> h[j]]
    OBVIOUS
  <2> HIDE DEF h
  <2> QED BY <2>1, <2>2
<1> HIDE DEF h
<1>6. after = F(after)
  <2> HIDE DEF F
  <2> QED BY <1>5
<1>7. Closed(g) = after[n]
  BY DEF Closed, first
<1> HIDE DEF after
<1>8. after[0] = first /\ \A j \in 1 .. n : after[j] = CloseHeader(after[j - 1], j)
  <2>1. 0 \in 0 .. n /\ \A j \in 1 .. n : j \in 0 .. n /\ j # 0
    OBVIOUS
  <2> HIDE DEF n
  <2> QED BY <1>6, <2>1
<1>9. ClosingSteps(g, after, n) /\ Closed(g) = after[n]
  BY <1>7, <1>8 DEF first, ClosingSteps
<1> HIDE DEF n
<1>10. \E a : ClosingSteps(g, a, n) /\ Closed(g) = a[n]
  BY <1>9
<1> QED BY <1>10 DEF n

AsGraph(h) == [blocks |-> h.blocks, values |-> h.values, degree |-> 0]

(* The blocks, the values and what is wild at a variable of the loop.      *)
Closing(h) ==
  /\ IsGraph(AsGraph(h)) /\ h.wild \in BOOLEAN
  /\ h = [blocks |-> h.blocks, values |-> h.values, wild |-> h.wild]
  /\ Top.ends[5] \in 1 .. Len(h.blocks) /\ Top.ends[2] \in 1 .. Len(h.blocks) /\ current \in 1 .. Len(h.blocks)
  /\ Len(h.blocks[Top.ends[5]].vars) <= Len(h.blocks[Top.ends[2]].vars)
  /\ Len(h.blocks[Top.ends[5]].vars) <= Len(h.blocks[current].vars)

LEMMA ClosingRevalued ==
  ASSUME NEW h, Closing(h), NEW r, r.wild \in BOOLEAN, Revalued(AsGraph(h), AsGraph(r)),
         r = [blocks |-> r.blocks, values |-> r.values, wild |-> r.wild]
  PROVE  Closing(r)
<1>1. AsGraph(h).blocks = h.blocks /\ AsGraph(r).blocks = r.blocks
  BY DEF AsGraph
<1>2. /\ IsGraph(AsGraph(r)) /\ Len(r.blocks) = Len(h.blocks)
      /\ \A c \in 1 .. Len(h.blocks) : Len(r.blocks[c].vars) = Len(h.blocks[c].vars)
  BY <1>1 DEF Revalued, Same
<1> QED BY <1>2 DEF Closing

LEMMA CloseHeaderIs ==
  ASSUME NEW h, Closing(h), NEW i \in 1 .. Len(h.blocks[Top.ends[5]].vars)
  PROVE  Closing(CloseHeader(h, i)) /\ Revalued(AsGraph(h), AsGraph(CloseHeader(h, i)))
<1> DEFINE prev == Top.ends[5]
           cond == Top.ends[2]
           original == h.blocks[prev].vars[i].value
           before == h.blocks[cond].vars[i]
           phi == before.value
           after == h.blocks[current].vars[i].value
           header == HeaderOf(h.blocks[cond], i)
           blocks1 == [h.blocks EXCEPT ![cond].vars[i].value = original]
           blocks2 == [blocks1 EXCEPT ![current].vars[i].value = original]
           end == h.blocks[current].idx
           dropped == Dropped(h.values, phi, header, original, end)
           wilder == h.wild \/ Misses(h.values, phi) \/ Overlooks(h.values, header)
           closed == [blocks |-> blocks2, values |-> dropped, wild |-> wilder]
           pushed == Pushed(h.values, header, after, current)
           opened == [blocks |-> h.blocks, values |-> pushed, wild |-> h.wild]
           g == AsGraph(h)
           g1 == [g EXCEPT !.blocks[cond].vars[i].value = original]
           g2 == [g1 EXCEPT !.blocks[current].vars[i].value = original]
<1>1. /\ IsGraph(g) /\ g.blocks = h.blocks /\ g.values = h.values /\ g.degree = 0 /\ h.wild \in BOOLEAN
      /\ h = [blocks |-> h.blocks, values |-> h.values, wild |-> h.wild]
      /\ prev \in 1 .. Len(g.blocks) /\ cond \in 1 .. Len(g.blocks) /\ current \in 1 .. Len(g.blocks)
      /\ Len(g.blocks[prev].vars) <= Len(g.blocks[cond].vars)
      /\ Len(g.blocks[prev].vars) <= Len(g.blocks[current].vars)
  BY DEF Closing, AsGraph
<1>2. i \in 1 .. Len(g.blocks[prev].vars) /\ i \in 1 .. Len(g.blocks[cond].vars) /\ i \in 1 .. Len(g.blocks[current].vars)
  <2>1. Len(g.blocks[prev].vars) \in Nat /\ Len(g.blocks[cond].vars) \in Nat /\ Len(g.blocks[current].vars) \in Nat
    BY <1>1, GraphBlock
  <2>2. i \in 1 .. Len(g.blocks[prev].vars)
    BY <1>1
  <2> HIDE DEF g, prev, cond
  <2> QED BY <1>1, <2>1, <2>2
<1>3. original \in 1 .. Len(g.values) /\ phi \in 1 .. Len(g.values) /\ after \in 1 .. Len(g.values)
  BY <1>1, <1>2, GraphBlock
<1> HIDE DEF wilder
<1>4. CloseHeader(h, i) = IF before.name \in Addressed THEN h ELSE IF phi = after THEN closed ELSE opened
  <2>1. opened = [h EXCEPT !.values = pushed]
    <3> HIDE DEF pushed
    <3>1. h = [blocks |-> h.blocks, values |-> h.values, wild |-> h.wild]
      BY <1>1
    <3> QED BY ONLY <3>1 DEF opened
  <2>2. blocks2 = [h.blocks EXCEPT ![cond].vars[i].value = original, ![current].vars[i].value = original]
    OBVIOUS
  <2> HIDE DEF opened, blocks2, pushed
  <2> QED BY <2>1, <2>2 DEF CloseHeader, pushed, wilder
<1> HIDE DEF g
<1>5. CASE before.name \in Addressed
  <2>1. CloseHeader(h, i) = h
    <3> HIDE DEF before, phi, after, closed, opened
    <3> QED BY <1>4, <1>5
  <2> QED BY <1>1, <2>1, RevaluedItself DEF g
<1>6. CASE before.name \notin Addressed /\ phi = after
  <2>1. CloseHeader(h, i) = closed
    <3> HIDE DEF before, phi, after, closed, opened
    <3> QED BY <1>4, <1>6
  <2> HIDE DEF prev, cond, original, phi, after, header, before
  <2>2. wilder \in BOOLEAN
    BY <1>1 DEF wilder, Misses, Overlooks
  <2>3. Revalued(g, g1)
    BY <1>1, <1>2, <1>3, ValueSetIn
  <2>4. g1.blocks = blocks1 /\ g1.values = g.values
    BY <1>1 DEF g, AsGraph
  <2> HIDE DEF g1
  <2>5. IsGraph(g1) /\ current \in 1 .. Len(g1.blocks) /\ i \in 1 .. Len(g1.blocks[current].vars)
    BY <1>1, <1>2, <2>3 DEF Revalued, Same
  <2>6. Revalued(g1, g2)
    BY <1>3, <2>4, <2>5, ValueSetIn
  <2>7. g2.blocks = blocks2 /\ g2.values = g.values /\ g2.degree = 0
    <3>1. g1 = [blocks |-> g1.blocks, values |-> g1.values, degree |-> 0]
      BY <1>1, <2>3 DEF IsGraph, Revalued
    <3> QED BY <2>4, <3>1
  <2> HIDE DEF g2, blocks1, blocks2
  <2>8. Revalued(g, g2) /\ IsGraph(g2)
    BY <1>1, <2>3, <2>6, RevaluedThrough DEF Revalued
  <2>9. WellTyped(blocks2, dropped) /\ Len(dropped) = Len(g.values)
    <3>1. end \in Int
      <4>1. g.blocks[current] \in BlockSet
        BY <1>1, GraphBlock
      <4> QED BY <1>1, <4>1 DEF BlockSet
    <3>2. WellTyped(blocks2, g.values)
      BY <2>7, <2>8 DEF IsGraph
    <3> HIDE DEF end
    <3>3. phi \in 1 .. Len(h.values) /\ original \in 1 .. Len(h.values)
      BY <1>1, <1>3
    <3> QED BY <1>1, <3>1, <3>2, <3>3, DroppedIs
  <2> DEFINE g3 == AsGraph(closed)
  <2> HIDE DEF dropped
  <2>10. /\ g3 = [blocks |-> g3.blocks, values |-> g3.values, degree |-> g3.degree]
         /\ g3.blocks = blocks2 /\ g3.values = dropped /\ g3.degree = 0
    BY DEF AsGraph
  <2>11. closed = [blocks |-> closed.blocks, values |-> closed.values, wild |-> closed.wild] /\ closed.wild = wilder
    OBVIOUS
  <2> HIDE DEF g3, closed
  <2>12. IsGraph(g3)
    BY <2>9, <2>10 DEF IsGraph
  <2>13. Revalued(g2, g3)
    <3>1. Len(g2.values) <= Len(g3.values)
      <4>1. Len(g.values) \in Nat
        BY <1>1, GraphBlock
      <4> QED BY <2>7, <2>9, <2>10, <4>1
    <3> QED BY <2>7, <2>8, <2>10, <2>12, <3>1, OtherValues
  <2>14. Revalued(g, g3)
    BY <1>1, <2>8, <2>13, RevaluedThrough
  <2>15. Revalued(AsGraph(h), AsGraph(closed))
    BY <2>14 DEF g, g3
  <2>16. Closing(closed)
    BY <2>2, <2>11, <2>15, ClosingRevalued
  <2> QED BY <2>1, <2>15, <2>16
<1>7. CASE before.name \notin Addressed /\ phi # after
  <2>1. CloseHeader(h, i) = opened
    <3> HIDE DEF before, phi, after, closed, opened
    <3> QED BY <1>4, <1>7
  <2> HIDE DEF prev, cond, original, phi, after, header, before
  <2>2. WellTyped(g.blocks, pushed) /\ Len(pushed) = Len(g.values)
    <3>1. WellTyped(h.blocks, h.values) /\ after \in Nat /\ current \in 1 .. Len(h.blocks)
      BY <1>1, <1>3 DEF IsGraph
    <3> QED BY <1>1, <3>1, PushedIs
  <2> DEFINE g3 == AsGraph(opened)
  <2> HIDE DEF pushed
  <2>3. /\ g3 = [blocks |-> g3.blocks, values |-> g3.values, degree |-> g3.degree]
        /\ g3.blocks = h.blocks /\ g3.values = pushed /\ g3.degree = 0
    BY DEF AsGraph
  <2>4. opened = [blocks |-> opened.blocks, values |-> opened.values, wild |-> opened.wild] /\ opened.wild = h.wild
    OBVIOUS
  <2> HIDE DEF g3, opened
  <2>5. IsGraph(g3)
    BY <1>1, <2>2, <2>3 DEF IsGraph
  <2>6. Revalued(g, g3)
    <3>1. Len(g.values) <= Len(g3.values)
      <4>1. Len(g.values) \in Nat
        BY <1>1, GraphBlock
      <4> QED BY <2>2, <2>3, <4>1
    <3> QED BY <1>1, <2>3, <2>5, <3>1, OtherValues
  <2>7. Revalued(AsGraph(h), AsGraph(opened))
    BY <2>6 DEF g, g3
  <2>8. Closing(opened)
    BY <1>1, <2>4, <2>7, ClosingRevalued
  <2> QED BY <2>1, <2>7, <2>8
<1> QED BY <1>5, <1>6, <1>7

(* What the end of a loop's body makes of the graph.                       *)
LEMMA ClosedIs ==
  ASSUME NEW g, IsGraph(g), wild \in BOOLEAN,
         Top.ends[5] \in 1 .. Len(g.blocks), Top.ends[2] \in 1 .. Len(g.blocks), current \in 1 .. Len(g.blocks),
         Len(g.blocks[Top.ends[5]].vars) <= Len(g.blocks[Top.ends[2]].vars),
         Len(g.blocks[Top.ends[5]].vars) <= Len(g.blocks[current].vars)
  PROVE  LET h == Closed(g)
             r == [g EXCEPT !.blocks = h.blocks, !.values = h.values]
         IN  h.wild \in BOOLEAN /\ Revalued(g, r)
<1> DEFINE n == Len(g.blocks[Top.ends[5]].vars)
           first == [blocks |-> g.blocks, values |-> g.values, wild |-> wild]
           h == Closed(g)
           r == [g EXCEPT !.blocks = h.blocks, !.values = h.values]
<1>1. n \in Nat
  BY GraphBlock
<1>2. PICK after : ClosingSteps(g, after, n) /\ h = after[n]
  BY <1>1, ClosingRuns
<1> HIDE DEF h
<1>3. /\ Closing(first) /\ AsGraph(first) = [g EXCEPT !.degree = 0]
      /\ first.blocks = g.blocks
  <2>1. IsGraph(AsGraph(first)) /\ AsGraph(first) = [g EXCEPT !.degree = 0]
    <3>1. WellTyped(g.blocks, g.values) /\ g = [blocks |-> g.blocks, values |-> g.values, degree |-> g.degree]
      BY DEF IsGraph
    <3>2. AsGraph(first) = [blocks |-> g.blocks, values |-> g.values, degree |-> 0]
      BY DEF AsGraph
    <3> DEFINE f == AsGraph(first)
    <3>3. f.blocks = g.blocks /\ f.values = g.values /\ f.degree = 0 /\ f = [blocks |-> f.blocks, values |-> f.values, degree |-> f.degree]
      BY <3>2
    <3>4. f = [g EXCEPT !.degree = 0]
      BY <3>1, <3>2
    <3> HIDE DEF f
    <3>5. IsGraph(f)
      BY <3>1, <3>3 DEF IsGraph
    <3> QED BY <3>4, <3>5 DEF f
  <2> QED BY <2>1 DEF Closing
<1> DEFINE S == {k \in 0 .. n : Closing(after[k]) /\ Revalued(AsGraph(first), AsGraph(after[k]))}
<1>4. 0 \in S
  <2>1. after[0] = first
    BY <1>2 DEF ClosingSteps
  <2> HIDE DEF first
  <2>2. Revalued(AsGraph(first), AsGraph(first))
    BY <1>3, RevaluedItself DEF Closing
  <2> QED BY <1>1, <1>3, <2>1, <2>2
<1> HIDE DEF first, n
<1>5. ASSUME NEW k \in 0 .. n - 1, k \in S
      PROVE  k + 1 \in S
  <2>1. Closing(after[k]) /\ Revalued(AsGraph(first), AsGraph(after[k]))
    BY <1>5
  <2>2. k + 1 \in 1 .. n /\ k + 1 \in 0 .. n /\ (k + 1) - 1 = k
    BY <1>1
  <2>3. after[k + 1] = CloseHeader(after[k], k + 1)
    BY <1>2, <2>2 DEF ClosingSteps
  <2>4. k + 1 \in 1 .. Len(after[k].blocks[Top.ends[5]].vars)
    <3>1. AsGraph(first).blocks = g.blocks /\ AsGraph(after[k]).blocks = after[k].blocks
      BY <1>3 DEF AsGraph
    <3> QED BY <2>1, <2>2, <3>1 DEF Revalued, Same, n
  <2>5. Closing(after[k + 1]) /\ Revalued(AsGraph(after[k]), AsGraph(after[k + 1]))
    BY <2>1, <2>3, <2>4, CloseHeaderIs
  <2>6. Revalued(AsGraph(first), AsGraph(after[k + 1]))
    BY <1>3, <2>1, <2>5, RevaluedThrough DEF Closing
  <2> QED BY <2>2, <2>5, <2>6
<1> HIDE DEF S
<1>6. Closing(h) /\ Revalued(AsGraph(first), AsGraph(h))
  <2> HIDE DEF n
  <2>1. 0 .. n \subseteq S
    BY <1>1, <1>4, <1>5, OneByOne
  <2> QED BY <1>1, <1>2, <2>1 DEF S
<1>7. /\ r = [blocks |-> r.blocks, values |-> r.values, degree |-> r.degree]
      /\ r.blocks = h.blocks /\ r.values = h.values /\ r.degree = g.degree
  <2>1. g = [blocks |-> g.blocks, values |-> g.values, degree |-> g.degree]
    BY DEF IsGraph
  <2> DEFINE m == [g EXCEPT !.blocks = h.blocks]
  <2>2. m = [blocks |-> h.blocks, values |-> g.values, degree |-> g.degree]
    BY <2>1
  <2>3. r = [m EXCEPT !.values = h.values]
    OBVIOUS
  <2> HIDE DEF m, r
  <2>4. r = [blocks |-> h.blocks, values |-> h.values, degree |-> g.degree]
    BY <2>2, <2>3
  <2> HIDE DEF h
  <2> QED BY <2>4
<1> HIDE DEF r
<1>8. /\ AsGraph(first).blocks = g.blocks /\ AsGraph(first).values = g.values
      /\ AsGraph(h).blocks = h.blocks /\ AsGraph(h).values = h.values
  <2>1. AsGraph(first).values = g.values /\ AsGraph(first).blocks = g.blocks
    BY DEF AsGraph, first
  <2> QED BY <2>1 DEF AsGraph
<1>9. IsGraph(r)
  <2>1. WellTyped(h.blocks, h.values)
    BY <1>6, <1>8 DEF Closing, IsGraph
  <2> QED BY <1>7, <2>1 DEF IsGraph
<1>10. Revalued(g, r)
  BY <1>6, <1>7, <1>8, <1>9 DEF Revalued
<1>11. h.wild \in BOOLEAN
  BY <1>6 DEF Closing
<1> QED BY <1>10, <1>11 DEF h, r

(***************************************************************************)
(* What the walk has before a step.                                        *)
(***************************************************************************)
LEMMA GraphIs ==
  ASSUME WellTyped(blocks, values), frames \in Seq(FrameSet)
  PROVE  IsGraph(Graph) /\ Graph.blocks = blocks /\ Graph.values = values
<1> DEFINE S == {i \in DOMAIN frames : frames[i].kind = "while"}
<1>1. Cardinality(S) \in Nat
  <2>1. S \subseteq 1 .. Len(frames) /\ Len(frames) \in Nat
    BY LenProperties
  <2> HIDE DEF S
  <2> QED BY <2>1, HowMany
<1>2. Graph = [blocks |-> blocks, values |-> values, degree |-> Cardinality(S)]
  BY DEF Graph
<1> HIDE DEF S
<1> DEFINE g == Graph
<1>3. /\ g.blocks = blocks /\ g.values = values /\ g.degree = Cardinality(S)
      /\ g = [blocks |-> g.blocks, values |-> g.values, degree |-> g.degree]
  BY <1>2
<1> HIDE DEF g
<1>4. IsGraph(g)
  BY <1>1, <1>3 DEF IsGraph
<1> QED BY <1>3, <1>4 DEF g

LEMMA NewBlockIs == NewBlock \in BlockSet /\ NewBlock.idx = NotBegun /\ NewBlock.preds = <<>> /\ NewBlock.vars = <<>>
<1>1. <<>> \in Seq(Nat) /\ <<>> \in Seq(VariableSet)
  BY EmptySeq
<1> QED BY <1>1 DEF NewBlock, BlockSet, NotBegun

(* Blocks that have not begun are added.                                   *)
LEMMA WithBlocksIs ==
  ASSUME WellTyped(blocks, values), frames \in Seq(FrameSet), NEW n \in Nat, NEW cur
  PROVE  LET h == WithBlocks(n)
         IN  /\ IsGraph(h) /\ h.values = values /\ Len(h.blocks) = Len(blocks) + n
             /\ Grown(blocks, h.blocks, cur)
             /\ \A b \in 1 .. Len(blocks) : h.blocks[b] = blocks[b]
             /\ \A b \in Len(blocks) + 1 .. Len(blocks) + n : h.blocks[b] = NewBlock
<1> DEFINE bs == [b \in 1 .. Len(blocks) + n |-> IF b \in DOMAIN blocks THEN blocks[b] ELSE NewBlock]
           h == WithBlocks(n)
<1>1. blocks \in Seq(BlockSet) /\ Len(blocks) \in Nat /\ DOMAIN blocks = 1 .. Len(blocks)
  BY LenProperties DEF WellTyped
<1>2. IsGraph(Graph) /\ Graph.blocks = blocks /\ Graph.values = values
  BY GraphIs
<1>3. h = [blocks |-> bs, values |-> values, degree |-> Graph.degree]
  <2>1. Graph = [blocks |-> blocks, values |-> values, degree |-> Graph.degree]
    BY <1>2 DEF IsGraph
  <2>2. h = [Graph EXCEPT !.blocks = bs]
    BY DEF WithBlocks
  <2> HIDE DEF bs, h
  <2> QED BY <2>1, <2>2
<1>4. bs \in [1 .. Len(blocks) + n -> BlockSet]
  <2>1. \A b \in 1 .. Len(blocks) : blocks[b] \in BlockSet
    BY <1>1, ElementOfSeq
  <2> QED BY <1>1, <2>1, NewBlockIs
<1>5. /\ \A b \in 1 .. Len(blocks) : bs[b] = blocks[b]
      /\ \A b \in Len(blocks) + 1 .. Len(blocks) + n : bs[b] = NewBlock
  <2>1. \A b \in 1 .. Len(blocks) : b \in 1 .. Len(blocks) + n
    BY <1>1
  <2>2. \A b \in Len(blocks) + 1 .. Len(blocks) + n : b \in 1 .. Len(blocks) + n /\ b \notin 1 .. Len(blocks)
    BY <1>1
  <2> QED BY <1>1, <2>1, <2>2
<1> HIDE DEF bs
<1>6. bs \in Seq(BlockSet) /\ Len(bs) = Len(blocks) + n
  <2>1. Len(blocks) + n \in Nat
    BY <1>1
  <2> QED BY <1>4, <2>1, Repeated
<1>7. \A b \in 1 .. Len(bs) : b \in 1 .. Len(blocks) \/ b \in Len(blocks) + 1 .. Len(blocks) + n
  BY <1>1, <1>6
<1>8. WellTyped(bs, values)
  <2>1. ASSUME NEW b \in 1 .. Len(bs), NEW k \in 1 .. Len(bs[b].vars)
        PROVE  bs[b].vars[k].value \in 1 .. Len(values)
    <3>1. CASE b \in 1 .. Len(blocks)
      BY <1>5, <3>1 DEF WellTyped
    <3>2. CASE b \in Len(blocks) + 1 .. Len(blocks) + n
      <4>1. Len(bs[b].vars) = 0
        BY <1>5, <3>2, NewBlockIs, EmptySeq
      <4>2. FALSE
        BY <4>1
      <4> QED BY <4>2
    <3> QED BY <1>7, <3>1, <3>2
  <2>2. \A v \in 1 .. Len(values) : \A i \in 1 .. Len(values[v].args) : values[v].args[i].from \in 1 .. Len(bs)
    <3>1. \A b \in 1 .. Len(blocks) : b \in 1 .. Len(bs)
      BY <1>1, <1>6
    <3> QED BY <3>1 DEF WellTyped
  <2> QED BY <1>6, <2>1, <2>2 DEF WellTyped
<1>9. Grown(blocks, bs, cur)
  <2>1. Grown(blocks, blocks, cur)
    BY GrownItself
  <2>2. ASSUME NEW b \in Len(blocks) + 1 .. Len(bs)
        PROVE  ~Begun(bs, b) /\ bs[b].vars = <<>> /\ \A m \in 1 .. Len(bs[b].preds) : bs[b].preds[m] = cur
    <3>1. bs[b] = NewBlock
      BY <1>5, <1>6
    <3>2. \A m \in 1 .. Len(<<>>) : FALSE
      OBVIOUS
    <3> QED BY <3>1, <3>2, NewBlockIs DEF Begun
  <2>3. Len(blocks) <= Len(bs) /\ Len(bs) \in Nat
    BY <1>1, <1>6
  <2>4. \A b \in 1 .. Len(blocks) :
          /\ Begun(bs, b) <=> Begun(blocks, b)
          /\ Same(blocks[b].vars, bs[b].vars)
          /\ blocks[b].vars = <<>> => bs[b].vars = <<>>
          /\ blocks[b].preds # <<>> => bs[b].preds # <<>>
          /\ \A m \in 1 .. Len(bs[b].preds) :
               \/ bs[b].preds[m] = cur
               \/ \E k \in 1 .. Len(blocks[b].preds) : bs[b].preds[m] = blocks[b].preds[k]
    BY <1>5, <2>1 DEF Grown, Begun
  <2> QED BY <1>1, <2>2, <2>3, <2>4 DEF Grown
<1>10. /\ h = [blocks |-> h.blocks, values |-> h.values, degree |-> h.degree]
       /\ h.blocks = bs /\ h.values = values /\ h.degree \in Nat
  BY <1>2, <1>3 DEF IsGraph
<1> HIDE DEF h
<1>11. IsGraph(h)
  BY <1>8, <1>10 DEF IsGraph
<1> QED BY <1>5, <1>6, <1>9, <1>10, <1>11 DEF h

(***************************************************************************)
(* Constructs stand when blocks change.                                    *)
(***************************************************************************)
LEMMA ShapedIs ==
  ASSUME NEW f, Shaped(f)
  PROVE  /\ Waiting(f) \subseteq 1 .. Len(f.ends) /\ Reached(f) \subseteq 1 .. Len(f.ends)
         /\ f.kind = "while" => 2 \in 1 .. Len(f.ends) /\ 5 \in 1 .. Len(f.ends)
<1>1. CASE f.kind = "block"
  <2>1. Waiting(f) = {1} /\ Reached(f) = {}
    BY <1>1 DEF Waiting, Reached
  <2>2. Len(f.ends) = 1
    BY <1>1 DEF Shaped, Statements, Jumps
  <2> QED BY <1>1, <2>1, <2>2
<1>2. CASE f.kind = "if"
  <2>1. Waiting(f) \subseteq {1, 2, 3} /\ Reached(f) \subseteq {2, 3}
    BY <1>2 DEF Waiting, Reached
  <2>2. Len(f.ends) = 3
    BY <1>2 DEF Shaped, Statements, Jumps
  <2> QED BY <1>2, <2>1, <2>2
<1>3. CASE f.kind = "while"
  <2>1. Waiting(f) \subseteq {1, 3, 4} /\ Reached(f) \subseteq {4}
    BY <1>3 DEF Waiting, Reached
  <2>2. Len(f.ends) = 5
    BY <1>3 DEF Shaped, Statements, Jumps
  <2> QED BY <2>1, <2>2
<1>4. CASE f.kind \in Statements
  BY <1>4 DEF Shaped, Waiting, Reached, Statements, Jumps
<1> QED BY <1>1, <1>2, <1>3, <1>4 DEF Shaped

(* A list with the same names suits what the other one does.               *)
LEMMA SuitsSame ==
  ASSUME NEW bl, NEW other, NEW f, NEW list, NEW end, Suits(bl, f, list), Same(list, end),
         f.kind = "while" => Same(bl[f.ends[5]].vars, other[f.ends[5]].vars)
  PROVE  Suits(other, f, end)
<1>1. ASSUME ~Shadowing
      PROVE  MeansSame(end, f.scope, IF f.kind = "block" THEN f.old ELSE Len(end))
  <2>1. MeansSame(list, f.scope, IF f.kind = "block" THEN f.old ELSE Len(list)) /\ Len(end) = Len(list)
    BY <1>1 DEF Suits, Same
  <2> QED BY <2>1, SameMeans
<1>2. ASSUME f.kind = "while"
      PROVE  StartsWith(end, other[f.ends[5]].vars)
  BY <1>2, SameStarts DEF Suits
<1> QED BY <1>1, <1>2 DEF Suits

LEMMA GrownSuits ==
  ASSUME NEW bl, NEW other, NEW cur, Grown(bl, other, cur), NEW f, Owns(bl, f),
         NEW b \in 1 .. Len(bl), Suits(bl, f, bl[b].vars)
  PROVE  Suits(other, f, other[b].vars)
<1>1. Same(bl[b].vars, other[b].vars)
  BY DEF Grown
<1>2. f.kind = "while" => Same(bl[f.ends[5]].vars, other[f.ends[5]].vars)
  <2>1. f.kind = "while" => f.ends[5] \in 1 .. Len(bl)
    BY ShapedIs DEF Owns
  <2> QED BY <2>1 DEF Grown
<1> QED BY <1>1, <1>2, SuitsSame

LEMMA GrownOwns ==
  ASSUME NEW bl, NEW other, NEW cur, Grown(bl, other, cur), NEW f, Owns(bl, f)
  PROVE  Owns(other, f)
<1>1. /\ Waiting(f) \subseteq 1 .. Len(f.ends) /\ Reached(f) \subseteq 1 .. Len(f.ends)
      /\ \A k \in 1 .. Len(f.ends) : f.ends[k] \in 1 .. Len(bl)
  BY ShapedIs DEF Owns
<1>2. \A b \in 1 .. Len(bl) : b \in 1 .. Len(other)
  BY DEF Grown
<1>3. \A k \in 1 .. Len(f.ends) : f.ends[k] \in 1 .. Len(other)
  BY <1>1, <1>2
<1>4. \A k \in Waiting(f) : ~Begun(other, f.ends[k])
  BY <1>1 DEF Owns, Grown
<1>5. \A k \in Reached(f) : other[f.ends[k]].preds # <<>>
  BY <1>1 DEF Owns, Grown
<1> QED BY <1>3, <1>4, <1>5 DEF Owns

LEMMA GrownStands ==
  ASSUME NEW bl, NEW other, NEW cur, NEW fr, Standing(bl, cur, fr), Grown(bl, other, cur)
  PROVE  Standing(other, cur, fr)
<1>1. /\ Connected(bl, cur) /\ cur \in 1 .. Len(bl)
      /\ \A i \in 1 .. Len(fr) : Behind(bl, cur, fr, i - 1, fr[i]) /\ Owns(bl, fr[i])
  BY DEF Standing, Connected, Behind
<1>2. \A b \in 1 .. Len(bl) : b \in 1 .. Len(other)
  BY DEF Grown
<1>3. \A b \in 1 .. Len(other) : b \in 1 .. Len(bl) \/ b \in Len(bl) + 1 .. Len(other)
  BY DEF Grown
<1>4. Connected(other, cur)
  <2>1. cur \in 1 .. Len(other) /\ Begun(other, cur)
    BY <1>1, <1>2 DEF Connected, Grown
  <2>2. ASSUME NEW b \in 1 .. Len(other), NEW n \in 1 .. Len(other[b].preds)
        PROVE  other[b].preds[n] \in 1 .. Len(other) /\ Begun(other, other[b].preds[n])
    <3>1. CASE other[b].preds[n] = cur
      BY <2>1, <3>1
    <3>2. CASE other[b].preds[n] # cur
      <4>1. b \in 1 .. Len(bl)
        BY <1>3, <3>2 DEF Grown
      <4>2. PICK m \in 1 .. Len(bl[b].preds) : other[b].preds[n] = bl[b].preds[m]
        BY <3>2, <4>1 DEF Grown
      <4>3. bl[b].preds[m] \in 1 .. Len(bl) /\ Begun(bl, bl[b].preds[m])
        BY <1>1, <4>1, <4>2 DEF Connected
      <4> QED BY <1>2, <4>2, <4>3 DEF Grown
    <3> QED BY <3>1, <3>2
  <2>3. ASSUME NEW b \in 1 .. Len(other), ~Begun(other, b)
        PROVE  other[b].vars = <<>>
    BY <1>1, <1>3, <2>3 DEF Connected, Grown
  <2> QED BY <2>1, <2>2, <2>3 DEF Connected
<1>5. ASSUME NEW i \in 1 .. Len(fr)
      PROVE  Behind(other, cur, fr, i - 1, fr[i])
  <2> DEFINE f == fr[i]
  <2>1. Behind(bl, cur, fr, i - 1, f) /\ Owns(bl, f)
    BY <1>1
  <2>2. \A j \in 1 .. i - 1 : j \in 1 .. Len(fr)
    OBVIOUS
  <2> HIDE DEF f
  <2>3. Owns(other, f)
    BY <2>1, GrownOwns
  <2>4. Kept(other, cur, f)
    <3> SUFFICES ASSUME f.kind = "while"
                 PROVE  /\ f.ends[5] # cur
                        /\ Begun(other, f.ends[2]) /\ Begun(other, f.ends[5])
                        /\ StartsWith(other[f.ends[2]].vars, other[f.ends[5]].vars)
      BY DEF Kept
    <3>1. f.ends[2] \in 1 .. Len(bl) /\ f.ends[5] \in 1 .. Len(bl)
      BY <2>1, ShapedIs DEF Owns
    <3>2. /\ f.ends[5] # cur
          /\ Begun(bl, f.ends[2]) /\ Begun(bl, f.ends[5])
          /\ StartsWith(bl[f.ends[2]].vars, bl[f.ends[5]].vars)
      BY <2>1 DEF Behind, Kept
    <3>3. Same(bl[f.ends[2]].vars, other[f.ends[2]].vars) /\ Same(bl[f.ends[5]].vars, other[f.ends[5]].vars)
      BY <3>1 DEF Grown
    <3>4. StartsWith(other[f.ends[2]].vars, other[f.ends[5]].vars)
      BY <3>2, <3>3, SameStarts
    <3> QED BY <3>1, <3>2, <3>4 DEF Grown
  <2>5. Suits(other, f, other[cur].vars)
    <3>1. Suits(bl, f, bl[cur].vars)
      BY <2>1 DEF Behind
    <3> QED BY <1>1, <2>1, <3>1, GrownSuits
  <2>6. ASSUME NEW k \in Waiting(f), NEW p \in 1 .. Len(other[f.ends[k]].preds)
        PROVE  /\ Suits(other, f, Arriving(other, f.ends[k], p))
               /\ \A j \in 1 .. i - 1 : Suits(other, fr[j], Arriving(other, f.ends[k], p))
    <3> DEFINE b == f.ends[k]
    <3>1. b \in 1 .. Len(bl)
      BY <2>1, ShapedIs DEF Owns
    <3>2. CASE other[b].preds[p] = cur
      <4>1. \A j \in 1 .. i - 1 : Owns(bl, fr[j]) /\ Suits(bl, fr[j], bl[cur].vars)
        BY <1>1, <2>2 DEF Behind
      <4>2. \A j \in 1 .. i - 1 : Suits(other, fr[j], other[cur].vars)
        BY <1>1, <4>1, GrownSuits
      <4> QED BY <2>5, <3>2, <4>2 DEF Arriving
    <3>3. CASE other[b].preds[p] # cur
      <4>1. PICK m \in 1 .. Len(bl[b].preds) : other[b].preds[p] = bl[b].preds[m]
        BY <3>1, <3>3 DEF Grown
      <4>2. /\ Suits(bl, f, Arriving(bl, b, m))
            /\ \A j \in 1 .. i - 1 : Suits(bl, fr[j], Arriving(bl, b, m))
        BY <2>1, <4>1 DEF Behind
      <4>3. bl[b].preds[m] \in 1 .. Len(bl)
        BY <1>1, <3>1, <4>1 DEF Connected
      <4>4. \A j \in 1 .. i - 1 : Owns(bl, fr[j])
        BY <1>1, <2>2
      <4> QED BY <2>1, <4>1, <4>2, <4>3, <4>4, GrownSuits DEF Arriving
    <3> QED BY <3>2, <3>3
  <2>7. ASSUME NEW j \in 1 .. i - 1
        PROVE  Apart(fr[j], f) /\ Within(other, fr[j], f)
    <3>1. Apart(fr[j], f) /\ Within(bl, fr[j], f) /\ Owns(bl, fr[j])
      BY <1>1, <2>1, <2>2 DEF Behind
    <3>2. fr[j].kind = "while" => fr[j].ends[5] \in 1 .. Len(bl)
      BY <3>1, ShapedIs DEF Owns
    <3>3. fr[j].kind = "while" => Len(other[fr[j].ends[5]].vars) = Len(bl[fr[j].ends[5]].vars)
      BY <3>2 DEF Grown, Same
    <3> QED BY <3>1, <3>3 DEF Within
  <2>8. Behind(other, cur, fr, i - 1, f)
    BY <2>3, <2>4, <2>5, <2>6, <2>7 DEF Behind
  <2> QED BY <2>8 DEF f
<1> QED BY <1>4, <1>5 DEF Standing

(* Another block is the one being built.                                   *)
LEMMA EnteredStands ==
  ASSUME NEW bl, NEW other, NEW cur, NEW fr, Standing(bl, cur, fr),
         NEW b \in 1 .. Len(bl), ~Begun(bl, b),
         \A i \in 1 .. Len(fr) : \A k \in Waiting(fr[i]) : fr[i].ends[k] # b,
         OnlyBlock(bl, other, b), Begun(other, b),
         \A i \in 1 .. Len(fr) : Suits(bl, fr[i], other[b].vars)
  PROVE  Standing(other, b, fr)
<1>1. /\ Len(other) = Len(bl) /\ other[b].preds = bl[b].preds
      /\ \A c \in 1 .. Len(bl) : other[c].preds = bl[c].preds
      /\ \A c \in 1 .. Len(bl) : c # b => other[c] = bl[c]
  BY DEF OnlyBlock
<1>2. \A c \in 1 .. Len(bl) : Begun(bl, c) => c # b /\ other[c] = bl[c] /\ Begun(other, c)
  BY <1>1 DEF Begun
<1>3. Connected(bl, cur) /\ \A i \in 1 .. Len(fr) : Behind(bl, cur, fr, i - 1, fr[i])
  BY DEF Standing
<1>4. ASSUME NEW c \in 1 .. Len(bl), NEW n \in 1 .. Len(bl[c].preds)
      PROVE  /\ other[c].preds[n] \in 1 .. Len(bl) /\ Begun(other, other[c].preds[n])
             /\ Arriving(other, c, n) = Arriving(bl, c, n)
  <2>1. bl[c].preds[n] \in 1 .. Len(bl) /\ Begun(bl, bl[c].preds[n])
    BY <1>3 DEF Connected
  <2> QED BY <1>1, <1>2, <2>1 DEF Arriving
<1>5. Connected(other, b)
  <2>1. ASSUME NEW c \in 1 .. Len(bl), ~Begun(other, c)
        PROVE  other[c].vars = <<>>
    <3>1. c # b /\ other[c] = bl[c]
      BY <1>1, <2>1
    <3>2. ~Begun(bl, c)
      BY <2>1, <3>1 DEF Begun
    <3> QED BY <1>3, <3>1, <3>2 DEF Connected
  <2>2. \A c \in 1 .. Len(other) : \A n \in 1 .. Len(other[c].preds) :
          other[c].preds[n] \in 1 .. Len(other) /\ Begun(other, other[c].preds[n])
    BY <1>1, <1>4
  <2> QED BY <1>1, <2>1, <2>2 DEF Connected
<1>6. ASSUME NEW i \in 1 .. Len(fr)
      PROVE  Owns(bl, fr[i]) /\ Kept(bl, cur, fr[i]) /\ Behind(bl, cur, fr, i - 1, fr[i])
  BY <1>3 DEF Behind
<1>7. ASSUME NEW i \in 1 .. Len(fr), fr[i].kind = "while"
      PROVE  /\ fr[i].ends[2] \in 1 .. Len(bl) /\ fr[i].ends[5] \in 1 .. Len(bl)
             /\ other[fr[i].ends[2]] = bl[fr[i].ends[2]] /\ other[fr[i].ends[5]] = bl[fr[i].ends[5]]
             /\ Begun(other, fr[i].ends[2]) /\ Begun(other, fr[i].ends[5]) /\ fr[i].ends[5] # b
             /\ StartsWith(bl[fr[i].ends[2]].vars, bl[fr[i].ends[5]].vars)
  <2>1. fr[i].ends[2] \in 1 .. Len(bl) /\ fr[i].ends[5] \in 1 .. Len(bl)
    BY <1>6, <1>7, ShapedIs DEF Owns
  <2>2. /\ Begun(bl, fr[i].ends[2]) /\ Begun(bl, fr[i].ends[5])
        /\ StartsWith(bl[fr[i].ends[2]].vars, bl[fr[i].ends[5]].vars)
    BY <1>6, <1>7 DEF Kept
  <2> QED BY <1>2, <2>1, <2>2
<1>8. ASSUME NEW i \in 1 .. Len(fr), NEW list, Suits(bl, fr[i], list)
      PROVE  Suits(other, fr[i], list)
  BY <1>7, <1>8 DEF Suits
<1>9. ASSUME NEW i \in 1 .. Len(fr)
      PROVE  Behind(other, b, fr, i - 1, fr[i])
  <2> DEFINE f == fr[i]
  <2>1. \A j \in 1 .. i - 1 : j \in 1 .. Len(fr)
    OBVIOUS
  <2>2. Owns(other, f)
    <3>1. /\ Waiting(f) \subseteq 1 .. Len(f.ends) /\ Reached(f) \subseteq 1 .. Len(f.ends)
          /\ \A k \in 1 .. Len(f.ends) : f.ends[k] \in 1 .. Len(bl)
      BY <1>6, ShapedIs DEF Owns
    <3>2. \A k \in Waiting(f) : ~Begun(other, f.ends[k])
      <4> SUFFICES ASSUME NEW k \in Waiting(f)
                   PROVE  ~Begun(other, f.ends[k])
        OBVIOUS
      <4>1. f.ends[k] # b /\ f.ends[k] \in 1 .. Len(bl) /\ ~Begun(bl, f.ends[k])
        BY <1>6, <3>1 DEF Owns
      <4> QED BY <1>1, <4>1 DEF Begun
    <3>3. \A k \in Reached(f) : other[f.ends[k]].preds # <<>>
      BY <1>1, <1>6, <3>1 DEF Owns
    <3> QED BY <1>1, <1>6, <3>1, <3>2, <3>3 DEF Owns
  <2>3. Kept(other, b, f)
    BY <1>7 DEF Kept
  <2>4. Suits(other, f, other[b].vars)
    BY <1>8
  <2>5. ASSUME NEW k \in Waiting(f), NEW p \in 1 .. Len(other[f.ends[k]].preds)
        PROVE  /\ Suits(other, f, Arriving(other, f.ends[k], p))
               /\ \A j \in 1 .. i - 1 : Suits(other, fr[j], Arriving(other, f.ends[k], p))
    <3>1. f.ends[k] \in 1 .. Len(bl)
      BY <1>6, ShapedIs DEF Owns
    <3>2. Arriving(other, f.ends[k], p) = Arriving(bl, f.ends[k], p) /\ p \in 1 .. Len(bl[f.ends[k]].preds)
      BY <1>1, <1>4, <3>1
    <3>3. /\ Suits(bl, f, Arriving(bl, f.ends[k], p))
          /\ \A j \in 1 .. i - 1 : Suits(bl, fr[j], Arriving(bl, f.ends[k], p))
      BY <1>6, <3>2 DEF Behind
    <3> QED BY <1>8, <2>1, <3>2, <3>3
  <2>6. ASSUME NEW j \in 1 .. i - 1
        PROVE  Apart(fr[j], f) /\ Within(other, fr[j], f)
    <3>1. Apart(fr[j], f) /\ Within(bl, fr[j], f)
      BY <1>6 DEF Behind
    <3> QED BY <1>7, <2>1, <3>1 DEF Within
  <2>7. Behind(other, b, fr, i - 1, f)
    <3> HIDE DEF f
    <3> QED BY <2>2, <2>3, <2>4, <2>5, <2>6 DEF Behind
  <2> QED BY <2>7
<1> QED BY <1>5, <1>9 DEF Standing

(***************************************************************************)
(* Constructs that come and go.                                            *)
(***************************************************************************)
(* The same construct, whatever values it has.                             *)
Alike(f, g) ==
  /\ g.kind = f.kind /\ g.phase = f.phase /\ g.ends = f.ends
  /\ g.old = f.old /\ g.scope = f.scope

LEMMA AlikeBehind ==
  ASSUME NEW bl, NEW cur, NEW fr, NEW n \in Nat, NEW f, Behind(bl, cur, fr, n, f),
         NEW other, NEW g, Alike(f, g), \A j \in 1 .. n : Alike(fr[j], other[j])
  PROVE  Behind(bl, cur, other, n, g)
<1>1. Waiting(g) = Waiting(f) /\ Reached(g) = Reached(f) /\ g.ends = f.ends
  BY DEF Alike, Waiting, Reached
<1>2. \A list : Suits(bl, f, list) => Suits(bl, g, list)
  BY DEF Alike, Suits
<1>3. \A j \in 1 .. n : \A list : Suits(bl, fr[j], list) => Suits(bl, other[j], list)
  BY DEF Alike, Suits
<1>4. Owns(bl, g)
  <2>1. Shaped(g)
    BY DEF Alike, Shaped, Behind, Owns
  <2> QED BY <1>1, <2>1 DEF Behind, Owns
<1>5. Kept(bl, cur, g)
  BY DEF Alike, Kept, Behind
<1>6. ASSUME NEW j \in 1 .. n
      PROVE  Apart(other[j], g) /\ Within(bl, other[j], g)
  <2>1. Waiting(other[j]) = Waiting(fr[j]) /\ other[j].ends = fr[j].ends
    BY DEF Alike, Waiting
  <2>2. Apart(fr[j], f) /\ Within(bl, fr[j], f)
    BY DEF Behind
  <2>3. Apart(other[j], g)
    BY <1>1, <2>1, <2>2 DEF Apart
  <2>4. Within(bl, other[j], g)
    BY <2>2 DEF Within, Alike
  <2> QED BY <2>3, <2>4
<1>7. Suits(bl, g, bl[cur].vars)
  BY <1>2 DEF Behind
<1>8. ASSUME NEW k \in Waiting(g), NEW p \in 1 .. Len(bl[g.ends[k]].preds)
      PROVE  /\ Suits(bl, g, Arriving(bl, g.ends[k], p))
             /\ \A j \in 1 .. n : Suits(bl, other[j], Arriving(bl, g.ends[k], p))
  <2>1. /\ Suits(bl, f, Arriving(bl, g.ends[k], p))
        /\ \A j \in 1 .. n : Suits(bl, fr[j], Arriving(bl, g.ends[k], p))
    BY <1>1 DEF Behind
  <2> QED BY <1>2, <1>3, <2>1
<1> QED BY <1>4, <1>5, <1>6, <1>7, <1>8 DEF Behind

(* The constructs are as they were, but perhaps for their values, and      *)
(* there may be fewer.                                                     *)
LEMMA FewerStand ==
  ASSUME NEW bl, NEW cur, NEW fr, NEW other, Len(fr) \in Nat, Len(other) \in Nat,
         Standing(bl, cur, fr), Len(other) <= Len(fr), \A i \in 1 .. Len(other) : Alike(fr[i], other[i])
  PROVE  Standing(bl, cur, other)
<1>1. ASSUME NEW i \in 1 .. Len(other)
      PROVE  Behind(bl, cur, other, i - 1, other[i])
  <2>1. i \in 1 .. Len(fr) /\ i - 1 \in Nat /\ \A j \in 1 .. i - 1 : j \in 1 .. Len(other)
    OBVIOUS
  <2>2. Behind(bl, cur, fr, i - 1, fr[i])
    BY <2>1 DEF Standing
  <2> QED BY <2>1, <2>2, AlikeBehind
<1> QED BY <1>1 DEF Standing

(* Another construct, inside of those that stand.                          *)
LEMMA PushedStands ==
  ASSUME NEW bl, NEW cur, NEW fr \in Seq(FrameSet), NEW f \in FrameSet,
         Standing(bl, cur, fr), Behind(bl, cur, fr, Len(fr), f)
  PROVE  Standing(bl, cur, Append(fr, f))
<1> DEFINE other == Append(fr, f)
<1>1. /\ Len(fr) \in Nat /\ Len(other) = Len(fr) + 1 /\ other[Len(fr) + 1] = f
      /\ \A j \in 1 .. Len(fr) : other[j] = fr[j]
  BY Appended, LenProperties
<1> HIDE DEF other
<1>2. ASSUME NEW i \in 1 .. Len(other)
      PROVE  Behind(bl, cur, other, i - 1, other[i])
  <2>1. CASE i \in 1 .. Len(fr)
    <3>1. i - 1 \in Nat /\ \A j \in 1 .. i - 1 : Alike(fr[j], other[j])
      BY <1>1, <2>1 DEF Alike
    <3>2. Behind(bl, cur, fr, i - 1, fr[i]) /\ Alike(fr[i], other[i])
      BY <1>1, <2>1 DEF Standing, Alike
    <3> QED BY <3>1, <3>2, AlikeBehind
  <2>2. CASE i = Len(fr) + 1
    <3>1. i - 1 = Len(fr)
      BY <1>1, <2>2
    <3>2. \A j \in 1 .. Len(fr) : Alike(fr[j], other[j])
      BY <1>1 DEF Alike
    <3>3. Alike(f, other[i])
      BY <1>1, <2>2 DEF Alike
    <3>4. Behind(bl, cur, other, Len(fr), other[i])
      BY <1>1, <3>2, <3>3, AlikeBehind
    <3> QED BY <3>1, <3>4
  <2> QED BY <1>1, <2>1, <2>2
<1>3. Connected(bl, cur)
  BY DEF Standing
<1> QED BY <1>2, <1>3 DEF Standing, other

(***************************************************************************)
(* Blocks that begin, and lists that change.                               *)
(***************************************************************************)
(* What suits a construct on every way to a block does where they meet.    *)
LEMMA JoinedSuits ==
  ASSUME NEW g, NEW b, Meets(g, b), NEW h, Joined(g, h, b), NEW bl, NEW f,
         f.scope \in Seq(ScopeSet), f.old \in Nat,
         f.kind = "while" => bl[f.ends[5]].vars \in Seq(VariableSet),
         \A n \in 1 .. Len(g.blocks[b].preds) : Suits(bl, f, Arriving(g.blocks, b, n))
  PROVE  Suits(bl, f, h.blocks[b].vars)
<1> DEFINE list == Arriving(g.blocks, b, 1)
           out == h.blocks[b].vars
           common == Common(g.blocks, b)
<1>1. /\ g.blocks[b].preds \in Seq(Nat) /\ Len(g.blocks[b].preds) \in Nat /\ g.blocks[b].preds # <<>>
      /\ IsGraph(g) /\ b \in 1 .. Len(g.blocks)
  BY GraphBlock DEF Meets
<1>2. 1 \in 1 .. Len(g.blocks[b].preds)
  BY <1>1, EmptySeq, LenProperties
<1>3. \A n \in 1 .. Len(g.blocks[b].preds) :
        /\ Arriving(g.blocks, b, n) \in Seq(VariableSet) /\ Len(Arriving(g.blocks, b, n)) \in Nat
        /\ Suits(bl, f, Arriving(g.blocks, b, n))
  BY <1>1, GraphBlock DEF Meets, Arriving
<1>4. Len(list) \in Nat /\ Suits(bl, f, list)
  BY <1>2, <1>3
<1>5. Len(out) \in Nat /\ Thinned(out, list, Len(list), common)
  <2>1. IsGraph(h) /\ Len(h.blocks) = Len(g.blocks) /\ Thinned(out, list, Len(list), common)
    BY DEF Joined, Joining, OnlyBlock
  <2> QED BY <1>1, <2>1, GraphBlock
<1>6. ASSUME ~Shadowing
      PROVE  MeansSame(out, f.scope, IF f.kind = "block" THEN f.old ELSE Len(out))
  <2> DEFINE bound == IF f.kind = "block" THEN f.old ELSE Len(list)
  <2>1. MeansSame(list, f.scope, bound) /\ bound \in Nat
    BY <1>4, <1>6 DEF Suits
  <2>2. ASSUME NEW m \in 1 .. Len(f.scope), Nowhere(f.scope, m, f.scope[m].name)
        PROVE  f.scope[m].name \in common
    <3>1. f.scope[m] \in ScopeSet
      BY ElementOfSeq
    <3>2. f.scope[m].name \in Names
      BY <3>1 DEF ScopeSet
    <3>3. ASSUME NEW n \in 1 .. Len(g.blocks[b].preds)
          PROVE  \E k \in 1 .. Len(Arriving(g.blocks, b, n)) : Arriving(g.blocks, b, n)[k].name = f.scope[m].name
      <4>1. MeansSame(Arriving(g.blocks, b, n), f.scope,
                      IF f.kind = "block" THEN f.old ELSE Len(Arriving(g.blocks, b, n)))
        BY <1>3, <1>6 DEF Suits
      <4> QED BY <2>2, <4>1 DEF MeansSame
    <3> QED BY <3>2, <3>3 DEF Common
  <2> HIDE DEF list, out, common, bound
  <2>3. MeansSame(out, f.scope, bound)
    BY <1>4, <1>5, <2>1, <2>2, ThinnedMeans
  <2>4. MeansSame(out, f.scope, Len(out))
    BY <1>5, <2>3, MeansAnywhere
  <2> QED BY <2>3, <2>4 DEF bound
<1>7. ASSUME f.kind = "while"
      PROVE  StartsWith(out, bl[f.ends[5]].vars)
  <2> DEFINE base == bl[f.ends[5]].vars
  <2>1. base \in Seq(VariableSet) /\ Len(base) \in Nat /\ StartsWith(list, base)
    BY <1>4, <1>7, LenProperties DEF Suits
  <2>2. ASSUME NEW k \in 1 .. Len(base)
        PROVE  base[k].name \in common
    <3>1. base[k] \in VariableSet
      BY <2>1, ElementOfSeq
    <3>2. base[k].name \in Names
      BY <3>1 DEF VariableSet
    <3>3. ASSUME NEW n \in 1 .. Len(g.blocks[b].preds)
          PROVE  \E l \in 1 .. Len(Arriving(g.blocks, b, n)) : Arriving(g.blocks, b, n)[l].name = base[k].name
      <4>1. StartsWith(Arriving(g.blocks, b, n), base) /\ Len(Arriving(g.blocks, b, n)) \in Nat
        BY <1>3, <1>7 DEF Suits
      <4>2. k \in 1 .. Len(Arriving(g.blocks, b, n))
        BY <2>1, <4>1 DEF StartsWith
      <4> QED BY <4>1, <4>2 DEF StartsWith
    <3> QED BY <3>2, <3>3 DEF Common
  <2> HIDE DEF list, out, common, base
  <2>3. StartsWith(out, base)
    BY <1>4, <1>5, <2>1, <2>2, ThinnedStarts
  <2> QED BY <2>3 DEF base
<1> QED BY <1>6, <1>7 DEF Suits

(* The list of the current block is another one.                           *)
LEMMA CurrentStands ==
  ASSUME NEW bl, NEW other, NEW cur, NEW fr, Standing(bl, cur, fr),
         OnlyBlock(bl, other, cur), Begun(other, cur),
         \A i \in 1 .. Len(fr) : Suits(bl, fr[i], other[cur].vars)
  PROVE  Standing(other, cur, fr)
<1>1. /\ Len(other) = Len(bl) /\ cur \in 1 .. Len(bl) /\ Begun(bl, cur)
      /\ \A c \in 1 .. Len(bl) : other[c].preds = bl[c].preds
      /\ \A c \in 1 .. Len(bl) : c # cur => other[c] = bl[c]
  BY DEF OnlyBlock, Standing, Connected
<1>2. \A c \in 1 .. Len(bl) : Begun(other, c) <=> Begun(bl, c)
  BY <1>1 DEF Begun
<1>3. Connected(bl, cur) /\ \A i \in 1 .. Len(fr) : Behind(bl, cur, fr, i - 1, fr[i])
  BY DEF Standing
<1>4. Connected(other, cur)
  BY <1>1, <1>2, <1>3 DEF Connected
<1>5. ASSUME NEW i \in 1 .. Len(fr), fr[i].kind = "while"
      PROVE  /\ fr[i].ends[2] \in 1 .. Len(bl) /\ fr[i].ends[5] \in 1 .. Len(bl)
             /\ fr[i].ends[5] # cur /\ other[fr[i].ends[5]] = bl[fr[i].ends[5]]
             /\ Begun(other, fr[i].ends[2]) /\ Begun(other, fr[i].ends[5])
             /\ StartsWith(bl[fr[i].ends[2]].vars, bl[fr[i].ends[5]].vars)
  <2>1. fr[i].ends[2] \in 1 .. Len(bl) /\ fr[i].ends[5] \in 1 .. Len(bl)
    BY <1>3, <1>5, ShapedIs DEF Behind, Owns
  <2>2. /\ Begun(bl, fr[i].ends[2]) /\ Begun(bl, fr[i].ends[5]) /\ fr[i].ends[5] # cur
        /\ StartsWith(bl[fr[i].ends[2]].vars, bl[fr[i].ends[5]].vars)
    BY <1>3, <1>5 DEF Behind, Kept
  <2> QED BY <1>1, <1>2, <2>1, <2>2
<1>6. ASSUME NEW i \in 1 .. Len(fr), NEW list, Suits(bl, fr[i], list)
      PROVE  Suits(other, fr[i], list)
  BY <1>5, <1>6 DEF Suits
<1>7. ASSUME NEW i \in 1 .. Len(fr), NEW c \in 1 .. Len(bl), NEW p \in 1 .. Len(bl[c].preds),
             Suits(bl, fr[i], Arriving(bl, c, p))
      PROVE  Suits(other, fr[i], Arriving(other, c, p))
  <2>1. CASE bl[c].preds[p] = cur
    <3>1. Arriving(other, c, p) = other[cur].vars
      BY <1>1, <2>1 DEF Arriving
    <3> QED BY <1>6, <3>1
  <2>2. CASE bl[c].preds[p] # cur
    <3>1. bl[c].preds[p] \in 1 .. Len(bl)
      BY <1>3 DEF Connected
    <3>2. Arriving(other, c, p) = Arriving(bl, c, p)
      BY <1>1, <2>2, <3>1 DEF Arriving
    <3> QED BY <1>6, <1>7, <3>2
  <2> QED BY <2>1, <2>2
<1>8. ASSUME NEW i \in 1 .. Len(fr)
      PROVE  Behind(other, cur, fr, i - 1, fr[i])
  <2> DEFINE f == fr[i]
  <2>1. Behind(bl, cur, fr, i - 1, f) /\ Owns(bl, f) /\ \A j \in 1 .. i - 1 : j \in 1 .. Len(fr)
    BY <1>3 DEF Behind
  <2>2. /\ Waiting(f) \subseteq 1 .. Len(f.ends) /\ Reached(f) \subseteq 1 .. Len(f.ends)
        /\ \A k \in 1 .. Len(f.ends) : f.ends[k] \in 1 .. Len(bl)
    BY <2>1, ShapedIs DEF Owns
  <2>3. Owns(other, f)
    BY <1>1, <1>2, <2>1, <2>2 DEF Owns
  <2>4. Kept(other, cur, f)
    <3> SUFFICES ASSUME f.kind = "while"
                 PROVE  StartsWith(other[f.ends[2]].vars, other[f.ends[5]].vars)
      BY <1>5 DEF Kept
    <3>1. CASE f.ends[2] = cur
      BY <1>5, <3>1 DEF Suits
    <3>2. CASE f.ends[2] # cur
      BY <1>1, <1>5, <3>2
    <3> QED BY <3>1, <3>2
  <2>5. Suits(other, f, other[cur].vars)
    BY <1>6
  <2>6. ASSUME NEW k \in Waiting(f), NEW p \in 1 .. Len(other[f.ends[k]].preds)
        PROVE  /\ Suits(other, f, Arriving(other, f.ends[k], p))
               /\ \A j \in 1 .. i - 1 : Suits(other, fr[j], Arriving(other, f.ends[k], p))
    <3>1. f.ends[k] \in 1 .. Len(bl) /\ p \in 1 .. Len(bl[f.ends[k]].preds)
      BY <1>1, <2>2
    <3>2. /\ Suits(bl, f, Arriving(bl, f.ends[k], p))
          /\ \A j \in 1 .. i - 1 : Suits(bl, fr[j], Arriving(bl, f.ends[k], p))
      BY <2>1, <3>1 DEF Behind
    <3> QED BY <1>7, <2>1, <3>1, <3>2
  <2>7. ASSUME NEW j \in 1 .. i - 1
        PROVE  Apart(fr[j], f) /\ Within(other, fr[j], f)
    <3>1. Apart(fr[j], f) /\ Within(bl, fr[j], f) /\ j \in 1 .. Len(fr)
      BY <2>1 DEF Behind
    <3> QED BY <1>5, <3>1 DEF Within
  <2>8. Behind(other, cur, fr, i - 1, f)
    <3> HIDE DEF f
    <3> QED BY <2>3, <2>4, <2>5, <2>6, <2>7 DEF Behind
  <2> QED BY <2>8
<1> QED BY <1>4, <1>8 DEF Standing

(***************************************************************************)
(* The innermost construct goes on.                                        *)
(***************************************************************************)
LEMMA TopReplaced ==
  ASSUME NEW S, NEW s \in Seq(S), s # <<>>, NEW e \in S
  PROVE  LET r == ReplaceAt(s, Len(s), e)
         IN  /\ r \in Seq(S) /\ Len(r) = Len(s) /\ r[Len(s)] = e
             /\ \A j \in 1 .. Len(s) - 1 : r[j] = s[j]
<1> DEFINE r == ReplaceAt(s, Len(s), e)
<1>1. Len(s) \in Nat /\ Len(s) # 0
  BY EmptySeq, LenProperties
<1>2. \A i \in 1 .. Len(s) : s[i] \in S
  BY ElementOfSeq
<1>3. r \in [1 .. Len(s) -> S]
  BY <1>1, <1>2, LenProperties DEF ReplaceAt
<1>4. r \in Seq(S) /\ Len(r) = Len(s)
  BY <1>1, <1>3, Repeated
<1>5. r[Len(s)] = e
  BY <1>1, LenProperties DEF ReplaceAt
<1>6. \A j \in 1 .. Len(s) - 1 : r[j] = s[j]
  BY <1>1, LenProperties DEF ReplaceAt
<1> QED BY <1>4, <1>5, <1>6

LEMMA ReplacedStands ==
  ASSUME NEW bl, NEW cur, NEW fr \in Seq(FrameSet), fr # <<>>, NEW f \in FrameSet,
         Standing(bl, cur, fr), Behind(bl, cur, fr, Len(fr) - 1, f)
  PROVE  Standing(bl, cur, ReplaceAt(fr, Len(fr), f))
<1> DEFINE other == ReplaceAt(fr, Len(fr), f)
<1>1. /\ Len(fr) \in Nat /\ Len(fr) # 0 /\ Len(other) = Len(fr) /\ other[Len(fr)] = f
      /\ \A j \in 1 .. Len(fr) - 1 : other[j] = fr[j]
  BY TopReplaced, EmptySeq, LenProperties
<1> HIDE DEF other
<1>2. ASSUME NEW i \in 1 .. Len(other)
      PROVE  Behind(bl, cur, other, i - 1, other[i])
  <2>1. i - 1 \in Nat /\ \A j \in 1 .. i - 1 : j \in 1 .. Len(fr) - 1
    BY <1>1
  <2>2. \A j \in 1 .. i - 1 : Alike(fr[j], other[j])
    BY <1>1, <2>1 DEF Alike
  <2>3. CASE i = Len(fr)
    <3>1. Alike(f, other[i])
      BY <1>1, <2>3 DEF Alike
    <3>2. Behind(bl, cur, fr, i - 1, f)
      BY <2>3
    <3> QED BY <2>1, <2>2, <3>1, <3>2, AlikeBehind
  <2>4. CASE i # Len(fr)
    <3>1. i \in 1 .. Len(fr) - 1 /\ i \in 1 .. Len(fr)
      BY <1>1, <2>4
    <3>2. Behind(bl, cur, fr, i - 1, fr[i]) /\ Alike(fr[i], other[i])
      BY <1>1, <3>1 DEF Standing, Alike
    <3> QED BY <2>1, <2>2, <3>2, AlikeBehind
  <2> QED BY <2>3, <2>4
<1>3. Connected(bl, cur)
  BY DEF Standing
<1> QED BY <1>2, <1>3 DEF Standing, other

(* A construct in a later phase, which waits for fewer of its blocks.      *)
Turns(bl, f, g) ==
  /\ g.kind = f.kind /\ g.ends = f.ends /\ g.old = f.old /\ g.scope = f.scope
  /\ Shaped(g) /\ Waiting(g) \subseteq Waiting(f)
  /\ \A k \in Reached(g) : bl[f.ends[k]].preds # <<>>

LEMMA TurnedBehind ==
  ASSUME NEW bl, NEW cur, NEW fr, NEW n \in Nat, NEW f, Behind(bl, cur, fr, n, f), NEW g, Turns(bl, f, g)
  PROVE  Behind(bl, cur, fr, n, g)
<1>1. /\ g.kind = f.kind /\ g.ends = f.ends /\ g.old = f.old /\ g.scope = f.scope
      /\ Shaped(g) /\ Waiting(g) \subseteq Waiting(f)
      /\ \A k \in Reached(g) : bl[f.ends[k]].preds # <<>>
  BY DEF Turns
<1>2. Owns(bl, f) /\ Kept(bl, cur, f) /\ Suits(bl, f, bl[cur].vars)
  BY DEF Behind
<1>3. Owns(bl, g)
  BY <1>1, <1>2 DEF Owns
<1>4. Kept(bl, cur, g)
  BY <1>1, <1>2 DEF Kept
<1>5. \A list : Suits(bl, f, list) => Suits(bl, g, list)
  BY <1>1 DEF Suits
<1>6. ASSUME NEW k \in Waiting(g), NEW p \in 1 .. Len(bl[g.ends[k]].preds)
      PROVE  /\ Suits(bl, g, Arriving(bl, g.ends[k], p))
             /\ \A j \in 1 .. n : Suits(bl, fr[j], Arriving(bl, g.ends[k], p))
  <2>1. /\ Suits(bl, f, Arriving(bl, g.ends[k], p))
        /\ \A j \in 1 .. n : Suits(bl, fr[j], Arriving(bl, g.ends[k], p))
    BY <1>1 DEF Behind
  <2> QED BY <1>5, <2>1
<1>7. ASSUME NEW j \in 1 .. n
      PROVE  Apart(fr[j], g) /\ Within(bl, fr[j], g)
  <2>1. Apart(fr[j], f) /\ Within(bl, fr[j], f)
    BY DEF Behind
  <2>2. Apart(fr[j], g)
    BY <1>1, <2>1 DEF Apart
  <2>3. Within(bl, fr[j], g)
    BY <1>1, <2>1 DEF Within
  <2> QED BY <2>2, <2>3
<1> QED BY <1>2, <1>3, <1>4, <1>5, <1>6, <1>7 DEF Behind

LEMMA TurnedStands ==
  ASSUME NEW bl, NEW cur, NEW fr \in Seq(FrameSet), fr # <<>>, NEW f \in FrameSet,
         Standing(bl, cur, fr), Turns(bl, fr[Len(fr)], f)
  PROVE  Standing(bl, cur, ReplaceAt(fr, Len(fr), f))
<1>1. Len(fr) \in Nat /\ Len(fr) # 0
  BY EmptySeq, LenProperties
<1>2. Len(fr) \in 1 .. Len(fr) /\ Len(fr) - 1 \in Nat
  BY <1>1
<1>3. Behind(bl, cur, fr, Len(fr) - 1, fr[Len(fr)])
  BY <1>2 DEF Standing
<1>4. Behind(bl, cur, fr, Len(fr) - 1, f)
  BY <1>2, <1>3, TurnedBehind
<1> QED BY <1>4, ReplacedStands

(***************************************************************************)
(* Constructs that begin one of their blocks.                              *)
(***************************************************************************)
(* The block is a waiting one of the innermost, and something leads there. *)
Enters(g, cur, fr, b) ==
  /\ IsGraph(g) /\ fr \in Seq(FrameSet) /\ fr # <<>> /\ Standing(g.blocks, cur, fr)
  /\ \E k \in Waiting(fr[Len(fr)]) : fr[Len(fr)].ends[k] = b
  /\ g.blocks[b].preds # <<>>

(* It has begun, in the graph p, and that is all.                          *)
Begins(g, p, b) ==
  /\ IsGraph(p) /\ Len(g.values) <= Len(p.values)
  /\ OnlyBlock(g.blocks, p.blocks, b) /\ Begun(p.blocks, b) /\ p.blocks[b].vars = g.blocks[b].vars

LEMMA EntersBlock ==
  ASSUME NEW g, NEW cur, NEW fr, NEW b, Enters(g, cur, fr, b)
  PROVE  /\ Len(fr) \in Nat \ {0} /\ b \in 1 .. Len(g.blocks) /\ ~Begun(g.blocks, b)
         /\ g.blocks[b].vars = <<>>
         /\ \A n \in 1 .. Len(g.blocks[b].preds) :
              /\ g.blocks[b].preds[n] \in 1 .. Len(g.blocks) /\ g.blocks[b].preds[n] # b
              /\ \A i \in 1 .. Len(fr) : Suits(g.blocks, fr[i], Arriving(g.blocks, b, n))
         /\ \A i \in 1 .. Len(fr) - 1 : \A k \in Waiting(fr[i]) : fr[i].ends[k] # b
         /\ \A i \in 1 .. Len(fr) : fr[i].kind = "while" =>
              fr[i].ends[5] \in 1 .. Len(g.blocks) /\ fr[i].ends[5] # b
<1> DEFINE bl == g.blocks
           top == fr[Len(fr)]
<1>1. Len(fr) \in Nat /\ Len(fr) # 0
  BY EmptySeq, LenProperties DEF Enters
<1>2. Len(fr) \in 1 .. Len(fr) /\ Len(fr) - 1 \in Nat
  BY <1>1
<1>3. Connected(bl, cur) /\ \A i \in 1 .. Len(fr) : Behind(bl, cur, fr, i - 1, fr[i])
  BY DEF Enters, Standing
<1>4. PICK k \in Waiting(top) : top.ends[k] = b
  BY DEF Enters
<1>5. Behind(bl, cur, fr, Len(fr) - 1, top) /\ Owns(bl, top)
  BY <1>2, <1>3 DEF Behind
<1>6. b \in 1 .. Len(bl) /\ ~Begun(bl, b)
  BY <1>4, <1>5, ShapedIs DEF Owns
<1>7. bl[b].vars = <<>>
  BY <1>3, <1>6 DEF Connected
<1>8. ASSUME NEW n \in 1 .. Len(bl[b].preds)
      PROVE  /\ bl[b].preds[n] \in 1 .. Len(bl) /\ bl[b].preds[n] # b
             /\ \A i \in 1 .. Len(fr) : Suits(bl, fr[i], Arriving(bl, b, n))
  <2>1. bl[b].preds[n] \in 1 .. Len(bl) /\ Begun(bl, bl[b].preds[n])
    BY <1>3, <1>6 DEF Connected
  <2>2. Suits(bl, top, Arriving(bl, b, n)) /\ \A i \in 1 .. Len(fr) - 1 : Suits(bl, fr[i], Arriving(bl, b, n))
    BY <1>4, <1>5 DEF Behind
  <2>3. \A i \in 1 .. Len(fr) : i = Len(fr) \/ i \in 1 .. Len(fr) - 1
    BY <1>1
  <2> QED BY <1>6, <2>1, <2>2, <2>3
<1>9. ASSUME NEW i \in 1 .. Len(fr) - 1, NEW l \in Waiting(fr[i])
      PROVE  fr[i].ends[l] # b
  BY <1>4, <1>5 DEF Behind, Apart
<1>10. ASSUME NEW i \in 1 .. Len(fr), fr[i].kind = "while"
       PROVE  fr[i].ends[5] \in 1 .. Len(bl) /\ fr[i].ends[5] # b
  <2>1. Owns(bl, fr[i]) /\ Kept(bl, cur, fr[i])
    BY <1>3 DEF Behind
  <2>2. fr[i].ends[5] \in 1 .. Len(bl)
    BY <1>10, <2>1, ShapedIs DEF Owns
  <2> QED BY <1>6, <1>10, <2>1, <2>2 DEF Kept
<1> QED BY <1>1, <1>6, <1>7, <1>8, <1>9, <1>10

(* What it begins with suits every construct around it.                    *)
LEMMA EntersSuits ==
  ASSUME NEW g, NEW cur, NEW fr, NEW b, Enters(g, cur, fr, b), NEW p, Begins(g, p, b)
  PROVE  /\ Joined(p, Transitions(p, b), b)
         /\ OnlyBlock(g.blocks, Transitions(p, b).blocks, b)
         /\ Begun(Transitions(p, b).blocks, b)
         /\ \A i \in 1 .. Len(fr) : Suits(g.blocks, fr[i], Transitions(p, b).blocks[b].vars)
<1> DEFINE h == Transitions(p, b)
<1>1. /\ b \in 1 .. Len(g.blocks) /\ Len(p.blocks) = Len(g.blocks)
      /\ p.blocks[b].preds = g.blocks[b].preds /\ p.blocks[b].vars = g.blocks[b].vars
      /\ \A c \in 1 .. Len(g.blocks) : c # b => p.blocks[c] = g.blocks[c]
  BY EntersBlock DEF Begins, OnlyBlock
<1>2. Meets(p, b)
  <2>1. IsGraph(p) /\ g.blocks[b].preds # <<>>
    BY DEF Begins, Enters
  <2>2. /\ g.blocks[b].vars = <<>>
        /\ \A n \in 1 .. Len(g.blocks[b].preds) :
             g.blocks[b].preds[n] \in 1 .. Len(g.blocks) /\ g.blocks[b].preds[n] # b
    BY EntersBlock
  <2> QED BY <1>1, <2>1, <2>2 DEF Meets
<1>3. Joined(p, h, b)
  BY <1>2, TransitionsIs
<1> HIDE DEF h
<1>4. /\ OnlyBlock(p.blocks, h.blocks, b) /\ h.blocks[b].idx = p.blocks[b].idx
  BY <1>3 DEF Joined, Joining
<1>5. OnlyBlock(g.blocks, h.blocks, b) /\ Begun(h.blocks, b)
  BY <1>4, OnlyThrough DEF Begins, Begun
<1>6. ASSUME NEW i \in 1 .. Len(fr)
      PROVE  Suits(g.blocks, fr[i], h.blocks[b].vars)
  <2>1. fr[i] \in FrameSet
    BY ElementOfSeq DEF Enters
  <2>2. fr[i].scope \in Seq(ScopeSet) /\ fr[i].old \in Nat
    BY <2>1 DEF FrameSet
  <2>3. fr[i].kind = "while" => g.blocks[fr[i].ends[5]].vars \in Seq(VariableSet)
    BY EntersBlock, GraphBlock DEF Enters
  <2>4. ASSUME NEW n \in 1 .. Len(p.blocks[b].preds)
        PROVE  Suits(g.blocks, fr[i], Arriving(p.blocks, b, n))
    <3>1. n \in 1 .. Len(g.blocks[b].preds)
      BY <1>1
    <3>2. /\ g.blocks[b].preds[n] \in 1 .. Len(g.blocks) /\ g.blocks[b].preds[n] # b
          /\ Suits(g.blocks, fr[i], Arriving(g.blocks, b, n))
      BY <3>1, EntersBlock
    <3>3. Arriving(p.blocks, b, n) = Arriving(g.blocks, b, n)
      BY <1>1, <3>2 DEF Arriving
    <3> QED BY <3>2, <3>3
  <2> QED BY <1>2, <1>3, <2>2, <2>3, <2>4, JoinedSuits
<1> QED BY <1>3, <1>5, <1>6 DEF h

(* The constructs stand where it is built: the innermost goes on or ends,  *)
(* and does not wait for the block any more.                               *)
LEMMA EntersStand ==
  ASSUME NEW g, NEW cur, NEW fr, NEW b, Enters(g, cur, fr, b), NEW p, Begins(g, p, b),
         NEW f \in FrameSet, Turns(g.blocks, fr[Len(fr)], f),
         \A k \in Waiting(f) : f.ends[k] # b
  PROVE  Standing(Transitions(p, b).blocks, b, ReplaceAt(fr, Len(fr), f))
<1> DEFINE h == Transitions(p, b)
           next == ReplaceAt(fr, Len(fr), f)
<1>1. /\ fr \in Seq(FrameSet) /\ fr # <<>> /\ Standing(g.blocks, cur, fr)
      /\ Len(fr) \in Nat \ {0}
  BY EntersBlock DEF Enters
<1>2. /\ Len(next) = Len(fr) /\ next[Len(fr)] = f
      /\ \A j \in 1 .. Len(fr) - 1 : next[j] = fr[j]
  BY <1>1, TopReplaced
<1>3. Standing(g.blocks, cur, next)
  BY <1>1, TurnedStands
<1>4. /\ OnlyBlock(g.blocks, h.blocks, b) /\ Begun(h.blocks, b)
      /\ \A i \in 1 .. Len(fr) : Suits(g.blocks, fr[i], h.blocks[b].vars)
  BY EntersSuits
<1> HIDE DEF h, next
<1>5. \A i \in 1 .. Len(next) : i = Len(fr) \/ i \in 1 .. Len(fr) - 1
  BY <1>1, <1>2
<1>6. \A i \in 1 .. Len(next) : \A k \in Waiting(next[i]) : next[i].ends[k] # b
  BY <1>2, <1>5, EntersBlock
<1>7. ASSUME NEW i \in 1 .. Len(next)
      PROVE  Suits(g.blocks, next[i], h.blocks[b].vars)
  <2>1. CASE i = Len(fr)
    <3>1. Suits(g.blocks, fr[i], h.blocks[b].vars)
      BY <1>2, <1>4
    <3> QED BY <1>2, <2>1, <3>1 DEF Suits, Turns
  <2>2. CASE i \in 1 .. Len(fr) - 1
    BY <1>2, <1>4, <2>2
  <2> QED BY <1>5, <2>1, <2>2
<1>8. b \in 1 .. Len(g.blocks) /\ ~Begun(g.blocks, b)
  BY EntersBlock
<1>9. Standing(h.blocks, b, next)
  BY <1>3, <1>4, <1>6, <1>7, <1>8, EnteredStands
<1> QED BY <1>9 DEF h, next

LEMMA EntersLast ==
  ASSUME NEW g, NEW cur, NEW fr, NEW b, Enters(g, cur, fr, b), NEW p, Begins(g, p, b)
  PROVE  Standing(Transitions(p, b).blocks, b, Front(fr))
<1> DEFINE h == Transitions(p, b)
           next == Front(fr)
<1>1. /\ fr \in Seq(FrameSet) /\ fr # <<>> /\ Standing(g.blocks, cur, fr)
      /\ Len(fr) \in Nat \ {0}
  BY EntersBlock DEF Enters
<1>2. /\ Len(next) = Len(fr) - 1 /\ \A j \in 1 .. Len(fr) - 1 : next[j] = fr[j]
  BY <1>1, WithoutTop
<1>4. /\ OnlyBlock(g.blocks, h.blocks, b) /\ Begun(h.blocks, b)
      /\ \A i \in 1 .. Len(fr) : Suits(g.blocks, fr[i], h.blocks[b].vars)
  BY EntersSuits
<1> HIDE DEF h, next
<1>3. Standing(g.blocks, cur, next)
  <2>1. \A i \in 1 .. Len(next) : Alike(fr[i], next[i])
    BY <1>2 DEF Alike
  <2>2. Len(next) \in Nat /\ Len(next) <= Len(fr) /\ Len(fr) \in Nat
    BY <1>1, <1>2
  <2> QED BY <1>1, <2>1, <2>2, FewerStand
<1>5. \A i \in 1 .. Len(next) : \A k \in Waiting(next[i]) : next[i].ends[k] # b
  BY <1>2, EntersBlock
<1>6. \A i \in 1 .. Len(next) : Suits(g.blocks, next[i], h.blocks[b].vars)
  <2>1. \A i \in 1 .. Len(next) : i \in 1 .. Len(fr)
    BY <1>1, <1>2
  <2> QED BY <1>2, <1>4, <2>1
<1>7. b \in 1 .. Len(g.blocks) /\ ~Begun(g.blocks, b)
  BY EntersBlock
<1>8. Standing(h.blocks, b, next)
  BY <1>3, <1>4, <1>5, <1>6, <1>7, EnteredStands
<1> QED BY <1>8 DEF h, next

(***************************************************************************)
(* What is visible, when constructs come and go.                           *)
(***************************************************************************)
SameScope(f, g) == g.kind = f.kind /\ g.name = f.name /\ g.target = f.target /\ g.scope = f.scope

LEMMA ScopedSame ==
  ASSUME NEW fr, NEW other, NEW sc, Scoped(fr, sc), Len(other) = Len(fr), Len(fr) \in Nat,
         \A i \in 1 .. Len(fr) : SameScope(fr[i], other[i])
  PROVE  Scoped(other, sc)
<1> SUFFICES ASSUME NEW i \in 1 .. Len(fr)
             PROVE  ScopedAt(other, i, sc)
  BY DEF Scoped
<1>1. /\ other[i].kind = fr[i].kind /\ other[i].name = fr[i].name
      /\ other[i].target = fr[i].target /\ other[i].scope = fr[i].scope
  BY DEF SameScope
<1>2. ScopeBehind(other, i, sc) = ScopeBehind(fr, i, sc)
  <2>1. CASE i < Len(fr)
    <3>1. i + 1 \in 1 .. Len(fr)
      BY <2>1
    <3> QED BY <2>1, <3>1 DEF ScopeBehind, SameScope
  <2>2. CASE ~(i < Len(fr))
    BY <2>2 DEF ScopeBehind
  <2> QED BY <2>1, <2>2
<1>3. \A j \in 1 .. i - 1 : other[j].kind = fr[j].kind
  <2>1. \A j \in 1 .. i - 1 : j \in 1 .. Len(fr)
    OBVIOUS
  <2> QED BY <2>1 DEF SameScope
<1>4. ScopedAt(fr, i, sc)
  BY DEF Scoped
<1>5. fr[i].kind \in Statements => i > 1 /\ other[i - 1].kind = "block"
  <2> SUFFICES ASSUME fr[i].kind \in Statements
               PROVE  i > 1 /\ other[i - 1].kind = "block"
    OBVIOUS
  <2>1. i > 1 /\ fr[i - 1].kind = "block"
    BY <1>4 DEF ScopedAt
  <2>2. i - 1 \in 1 .. i - 1
    BY <2>1
  <2> QED BY <1>3, <2>1, <2>2
<1>6. fr[i].kind \in Jumps => fr[i].target \in 1 .. i - 1 /\ other[fr[i].target].kind \in {"block", "while"}
  BY <1>3, <1>4 DEF ScopedAt
<1> QED BY <1>1, <1>2, <1>4, <1>5, <1>6 DEF ScopedAt

LEMMA ScopedPushed ==
  ASSUME NEW fr \in Seq(FrameSet), NEW sc, Scoped(fr, sc), NEW f \in FrameSet, f.scope = sc,
         f.kind \in Statements => fr # <<>> /\ fr[Len(fr)].kind = "block",
         f.kind = "define" /\ ~Shadowing => Nowhere(sc, 0, f.name),
         f.kind \in Jumps => f.target \in 1 .. Len(fr) /\ fr[f.target].kind \in {"block", "while"}
  PROVE  Scoped(Append(fr, f), sc)
<1> DEFINE other == Append(fr, f)
<1>1. /\ Len(fr) \in Nat /\ Len(other) = Len(fr) + 1 /\ other[Len(fr) + 1] = f
      /\ \A j \in 1 .. Len(fr) : other[j] = fr[j]
  BY Appended, LenProperties
<1> HIDE DEF other
<1>2. ASSUME NEW i \in 1 .. Len(other)
      PROVE  ScopedAt(other, i, sc)
  <2>1. CASE i \in 1 .. Len(fr)
    <3>1. other[i] = fr[i] /\ \A j \in 1 .. i - 1 : other[j] = fr[j]
      BY <1>1, <2>1
    <3>2. ScopeBehind(other, i, sc) = ScopeBehind(fr, i, sc)
      <4>1. CASE i = Len(fr)
        BY <1>1, <4>1 DEF ScopeBehind
      <4>2. CASE i # Len(fr)
        <5>1. i + 1 \in 1 .. Len(fr) /\ i < Len(fr) /\ i < Len(other)
          BY <1>1, <2>1, <4>2
        <5> QED BY <1>1, <5>1 DEF ScopeBehind
      <4> QED BY <4>1, <4>2
    <3>3. ScopedAt(fr, i, sc)
      BY <2>1 DEF Scoped
    <3>4. fr[i].kind \in Statements => i > 1 /\ other[i - 1].kind = "block"
      <4> SUFFICES ASSUME fr[i].kind \in Statements
                   PROVE  i > 1 /\ other[i - 1].kind = "block"
        OBVIOUS
      <4>1. i > 1 /\ fr[i - 1].kind = "block"
        BY <3>3 DEF ScopedAt
      <4>2. i - 1 \in 1 .. i - 1
        BY <4>1
      <4> QED BY <3>1, <4>1, <4>2
    <3>5. fr[i].kind \in Jumps => fr[i].target \in 1 .. i - 1 /\ other[fr[i].target].kind \in {"block", "while"}
      BY <3>1, <3>3 DEF ScopedAt
    <3> QED BY <3>1, <3>2, <3>3, <3>4, <3>5 DEF ScopedAt
  <2>2. CASE i = Len(fr) + 1
    <3>1. other[i] = f /\ i - 1 = Len(fr) /\ ScopeBehind(other, i, sc) = sc
      BY <1>1, <2>2 DEF ScopeBehind
    <3>2. SeesAll(sc, sc)
      BY DEF SeesAll
    <3>3. f.kind \in Statements => i > 1 /\ other[i - 1].kind = "block"
      <4> SUFFICES ASSUME f.kind \in Statements
                   PROVE  i > 1 /\ other[i - 1].kind = "block"
        OBVIOUS
      <4>1. Len(fr) # 0 /\ fr[Len(fr)].kind = "block"
        BY EmptySeq
      <4>2. Len(fr) \in 1 .. Len(fr)
        BY <1>1, <4>1
      <4> QED BY <1>1, <3>1, <4>1, <4>2
    <3>4. f.kind \in Jumps => f.target \in 1 .. i - 1 /\ other[f.target].kind \in {"block", "while"}
      BY <1>1, <3>1
    <3> QED BY <3>1, <3>2, <3>3, <3>4 DEF ScopedAt
  <2> QED BY <1>1, <2>1, <2>2
<1> QED BY <1>2 DEF Scoped, other

(* What the innermost construct began with is visible when it ends.        *)
LEMMA ScopedLess ==
  ASSUME NEW bl, NEW cur, NEW fr \in Seq(FrameSet), NEW sc, fr # <<>>,
         Standing(bl, cur, fr), Scoped(fr, sc)
  PROVE  Scoped(Front(fr), fr[Len(fr)].scope)
<1> DEFINE other == Front(fr)
           end == fr[Len(fr)].scope
<1>1. /\ Len(fr) \in Nat \ {0} /\ Len(other) = Len(fr) - 1
      /\ \A j \in 1 .. Len(fr) - 1 : other[j] = fr[j]
  BY WithoutTop
<1> HIDE DEF other
<1>2. ASSUME NEW i \in 1 .. Len(other)
      PROVE  ScopedAt(other, i, end)
  <2>1. i \in 1 .. Len(fr) - 1 /\ i \in 1 .. Len(fr) /\ i < Len(fr)
    BY <1>1
  <2>2. other[i] = fr[i] /\ \A j \in 1 .. i - 1 : other[j] = fr[j]
    BY <1>1, <2>1
  <2>3. ScopeBehind(other, i, end) = ScopeBehind(fr, i, sc)
    <3>1. CASE i = Len(fr) - 1
      BY <1>1, <2>1, <3>1 DEF ScopeBehind
    <3>2. CASE i # Len(fr) - 1
      <4>1. i + 1 \in 1 .. Len(fr) - 1 /\ i < Len(other)
        BY <1>1, <2>1, <3>2
      <4> QED BY <1>1, <2>1, <4>1 DEF ScopeBehind
    <3> QED BY <3>1, <3>2
  <2>4. ScopedAt(fr, i, sc)
    BY <2>1 DEF Scoped
  <2>5. ~Shadowing => SeesAll(fr[i].scope, end)
    <3>1. Len(fr) \in 1 .. Len(fr)
      BY <1>1
    <3>2. Within(bl, fr[i], fr[Len(fr)])
      BY <2>1, <3>1 DEF Standing, Behind
    <3> QED BY <3>2 DEF Within
  <2>6. fr[i].kind \in Statements => i > 1 /\ other[i - 1].kind = "block"
    <3> SUFFICES ASSUME fr[i].kind \in Statements
                 PROVE  i > 1 /\ other[i - 1].kind = "block"
      OBVIOUS
    <3>1. i > 1 /\ fr[i - 1].kind = "block"
      BY <2>4 DEF ScopedAt
    <3>2. i - 1 \in 1 .. i - 1
      BY <3>1
    <3> QED BY <2>2, <3>1, <3>2
  <2>7. fr[i].kind \in Jumps => fr[i].target \in 1 .. i - 1 /\ other[fr[i].target].kind \in {"block", "while"}
    BY <2>2, <2>4 DEF ScopedAt
  <2> HIDE DEF end
  <2> QED BY <2>2, <2>3, <2>4, <2>5, <2>6, <2>7 DEF ScopedAt
<1> QED BY <1>2 DEF Scoped, other

(* Another definition in the innermost block.                              *)
LEMMA ScopedMore ==
  ASSUME NEW fr, Len(fr) \in Nat, NEW sc \in Seq(ScopeSet), Scoped(fr, sc), NEW e \in ScopeSet,
         Len(fr) # 0 => fr[Len(fr)].kind = "block"
  PROVE  Scoped(fr, Append(sc, e))
<1> DEFINE end == Append(sc, e)
<1>1. Len(sc) \in Nat /\ Len(end) = Len(sc) + 1 /\ \A j \in 1 .. Len(sc) : end[j] = sc[j]
  BY Appended, LenProperties
<1> HIDE DEF end
<1>2. ASSUME NEW i \in 1 .. Len(fr)
      PROVE  ScopedAt(fr, i, end)
  <2>1. ScopedAt(fr, i, sc)
    BY DEF Scoped
  <2>2. fr[i].kind # "block" => ScopeBehind(fr, i, end) = fr[i].scope
    <3>1. CASE i < Len(fr)
      BY <2>1, <3>1 DEF ScopedAt, ScopeBehind
    <3>2. CASE i = Len(fr)
      BY <3>2
    <3> QED BY <3>1, <3>2
  <2>3. ~Shadowing => SeesAll(fr[i].scope, end)
    <3> SUFFICES ASSUME ~Shadowing, NEW m \in 1 .. Len(fr[i].scope)
                 PROVE  \E l \in 1 .. Len(end) : end[l].name = fr[i].scope[m].name
      BY DEF SeesAll
    <3>1. PICK l \in 1 .. Len(sc) : sc[l].name = fr[i].scope[m].name
      BY <2>1 DEF ScopedAt, SeesAll
    <3> QED BY <1>1, <3>1
  <2> QED BY <2>1, <2>2, <2>3 DEF ScopedAt
<1> QED BY <1>2 DEF Scoped, end


(***************************************************************************)
(* The invariant of a graph and a walk, and what keeps it.                 *)
(***************************************************************************)
Sound(g, cur, fr, sc, val) ==
  /\ IsGraph(g)
  /\ WalkTyped(g.values, fr, sc, val)
  /\ Standing(g.blocks, cur, fr)
  /\ Scoped(fr, sc)
  /\ Resulting(g.blocks, fr)
  /\ Lexical(g.blocks, cur, sc)

LEMMA InvHolds ==
  ASSUME BuildInv
  PROVE  /\ Sound(Graph, current, frames, scope, value) /\ wild \in BOOLEAN
         /\ Graph.blocks = blocks /\ Graph.values = values
<1>1. WellTyped(blocks, values) /\ frames \in Seq(FrameSet)
  BY DEF BuildInv, WalkTyped
<1>2. IsGraph(Graph) /\ Graph.blocks = blocks /\ Graph.values = values
  BY <1>1, GraphIs
<1> QED BY <1>2 DEF BuildInv, Sound

LEMMA InvNext ==
  ASSUME NEW g, Becomes(g), Sound(g, current', frames', scope', value'), wild' \in BOOLEAN
  PROVE  BuildInv'
<1>1. blocks' = g.blocks /\ values' = g.values
  BY DEF Becomes
<1>2. WellTyped(g.blocks, g.values)
  BY DEF Sound, IsGraph
<1> QED BY <1>1, <1>2 DEF BuildInv, Sound

(* What there is at the place that is built.                               *)
LEMMA SoundIs ==
  ASSUME NEW g, NEW cur, NEW fr, NEW sc, NEW val, Sound(g, cur, fr, sc, val)
  PROVE  /\ IsGraph(g) /\ cur \in 1 .. Len(g.blocks) /\ Begun(g.blocks, cur)
         /\ Len(g.blocks) \in Nat /\ Len(g.values) \in Nat
         /\ fr \in Seq(FrameSet) /\ Len(fr) \in Nat /\ sc \in Seq(ScopeSet) /\ val \in Pending .. Len(g.values)
         /\ Standing(g.blocks, cur, fr)
<1>1. IsGraph(g) /\ cur \in 1 .. Len(g.blocks) /\ Begun(g.blocks, cur) /\ Standing(g.blocks, cur, fr)
  BY DEF Sound, Standing, Connected
<1>2. Len(g.blocks) \in Nat /\ Len(g.values) \in Nat
  BY <1>1, GraphBlock
<1>3. fr \in Seq(FrameSet) /\ sc \in Seq(ScopeSet) /\ val \in Pending .. Len(g.values)
  BY DEF Sound, WalkTyped
<1> QED BY <1>1, <1>2, <1>3, LenProperties

LEMMA SoundTop ==
  ASSUME NEW g, NEW cur, NEW fr, NEW sc, NEW val, Sound(g, cur, fr, sc, val), fr # <<>>
  PROVE  LET top == fr[Len(fr)]
         IN  /\ Last(fr) = top /\ top \in FrameSet /\ Len(fr) \in Nat \ {0}
             /\ Len(fr) \in 1 .. Len(fr)
             /\ Behind(g.blocks, cur, fr, Len(fr) - 1, top) /\ Owns(g.blocks, top)
             /\ ScopedAt(fr, Len(fr), sc) /\ Args(g.blocks, top.results)
             /\ top.kind # "block" => top.scope = sc
<1> DEFINE top == fr[Len(fr)]
<1>1. fr \in Seq(FrameSet) /\ Standing(g.blocks, cur, fr)
  BY SoundIs
<1>2. Len(fr) \in Nat \ {0} /\ Last(fr) = top /\ top \in FrameSet
  BY <1>1, WithoutTop
<1>3. Len(fr) \in 1 .. Len(fr)
  BY <1>2
<1>4. Behind(g.blocks, cur, fr, Len(fr) - 1, top) /\ Owns(g.blocks, top)
  BY <1>1, <1>3 DEF Standing, Behind
<1>5. ScopedAt(fr, Len(fr), sc) /\ Args(g.blocks, top.results)
  BY <1>3 DEF Sound, Scoped, Resulting
<1>6. top.kind # "block" => top.scope = sc
  BY <1>5 DEF ScopedAt, ScopeBehind
<1> QED BY <1>2, <1>3, <1>4, <1>5, <1>6

LEMMA SoundGrown ==
  ASSUME NEW g, NEW cur, NEW fr, NEW sc, NEW val, Sound(g, cur, fr, sc, val),
         NEW h, IsGraph(h), Grown(g.blocks, h.blocks, cur), Len(g.values) <= Len(h.values)
  PROVE  Sound(h, cur, fr, sc, val)
<1>1. /\ Len(g.blocks) <= Len(h.blocks) /\ Len(h.blocks) \in Nat /\ Len(h.values) \in Nat
      /\ Len(g.blocks) \in Nat /\ Len(g.values) \in Nat /\ cur \in 1 .. Len(g.blocks)
  <2>1. cur \in 1 .. Len(g.blocks) /\ Len(g.blocks) \in Nat /\ Len(g.values) \in Nat
    BY SoundIs
  <2>2. Len(g.blocks) <= Len(h.blocks) /\ Len(h.blocks) \in Nat
    BY DEF Grown
  <2>3. h.values \in Seq(ValueSet)
    BY DEF IsGraph, WellTyped
  <2> QED BY <2>1, <2>2, <2>3, LenProperties
<1>2. WalkTyped(h.values, fr, sc, val)
  <2>1. WalkTyped(g.values, fr, sc, val)
    BY DEF Sound
  <2>2. ASSUME val \in Pending .. Len(g.values)
        PROVE  val \in Pending .. Len(h.values)
    BY <1>1, <2>2 DEF Pending
  <2> QED BY <2>1, <2>2 DEF WalkTyped
<1>3. Standing(h.blocks, cur, fr)
  BY GrownStands DEF Sound
<1>4. Resulting(h.blocks, fr)
  <2>1. \A from : from \in 1 .. Len(g.blocks) => from \in 1 .. Len(h.blocks)
    BY <1>1
  <2> QED BY <2>1 DEF Sound, Resulting, Args
<1>5. Lexical(h.blocks, cur, sc)
  <2>1. Same(g.blocks[cur].vars, h.blocks[cur].vars)
    BY <1>1 DEF Grown
  <2>2. ~Shadowing => MeansSame(g.blocks[cur].vars, sc, Len(h.blocks[cur].vars))
    BY <2>1 DEF Sound, Lexical, Same
  <2> QED BY <2>1, <2>2, SameMeans DEF Lexical
<1> QED BY <1>2, <1>3, <1>4, <1>5 DEF Sound

LEMMA SoundValue ==
  ASSUME NEW g, NEW cur, NEW fr, NEW sc, NEW val, Sound(g, cur, fr, sc, val),
         NEW other \in Pending .. Len(g.values)
  PROVE  Sound(g, cur, fr, sc, other)
BY DEF Sound, WalkTyped

LEMMA SoundPush ==
  ASSUME NEW g, NEW cur, NEW fr, NEW sc, NEW val, Sound(g, cur, fr, sc, val),
         NEW f \in FrameSet, Behind(g.blocks, cur, fr, Len(fr), f), f.scope = sc, f.results = <<>>,
         f.kind \in Statements => fr # <<>> /\ fr[Len(fr)].kind = "block",
         f.kind = "define" /\ ~Shadowing => Nowhere(sc, 0, f.name),
         f.kind \in Jumps => f.target \in 1 .. Len(fr) /\ fr[f.target].kind \in {"block", "while"}
  PROVE  Sound(g, cur, Append(fr, f), sc, val)
<1> DEFINE other == Append(fr, f)
<1>1. fr \in Seq(FrameSet) /\ Standing(g.blocks, cur, fr) /\ Scoped(fr, sc) /\ sc \in Seq(ScopeSet)
  BY SoundIs DEF Sound
<1>2. /\ other \in Seq(FrameSet) /\ Len(fr) \in Nat /\ Len(other) = Len(fr) + 1 /\ other[Len(fr) + 1] = f
      /\ \A j \in 1 .. Len(fr) : other[j] = fr[j]
  BY <1>1, Appended, LenProperties
<1>3. Standing(g.blocks, cur, other)
  BY <1>1, PushedStands
<1>4. Scoped(other, sc)
  BY <1>1, ScopedPushed
<1> HIDE DEF other
<1>5. Resulting(g.blocks, other)
  <2> SUFFICES ASSUME NEW i \in 1 .. Len(other)
               PROVE  Args(g.blocks, other[i].results)
    BY DEF Resulting
  <2>1. CASE i \in 1 .. Len(fr)
    BY <1>2, <2>1 DEF Sound, Resulting
  <2>2. CASE i = Len(fr) + 1
    <3>1. Args(g.blocks, <<>>)
      BY EmptySeq DEF Args
    <3> QED BY <1>2, <2>2, <3>1
  <2> QED BY <1>2, <2>1, <2>2
<1>6. WalkTyped(g.values, other, sc, val)
  BY <1>2 DEF Sound, WalkTyped
<1> QED BY <1>3, <1>4, <1>5, <1>6 DEF Sound, other

LEMMA ResultingLess ==
  ASSUME NEW bl, NEW fr, NEW other, Resulting(bl, fr), Len(other) \in Nat, Len(fr) \in Nat, Len(other) <= Len(fr),
         \A i \in 1 .. Len(other) : other[i] = fr[i] \/ Args(bl, other[i].results)
  PROVE  Resulting(bl, other)
<1>1. \A i \in 1 .. Len(other) : i \in 1 .. Len(fr)
  OBVIOUS
<1> QED BY <1>1 DEF Resulting

(* A construct that ends where it was built.                               *)
LEMMA SoundPop ==
  ASSUME NEW g, NEW cur, NEW fr, NEW sc, NEW val, Sound(g, cur, fr, sc, val), fr # <<>>,
         fr[Len(fr)].kind # "block"
  PROVE  Sound(g, cur, Front(fr), sc, val)
<1> DEFINE other == Front(fr)
<1>1. /\ fr \in Seq(FrameSet) /\ Standing(g.blocks, cur, fr) /\ Scoped(fr, sc)
      /\ fr[Len(fr)].scope = sc
  BY SoundIs, SoundTop DEF Sound
<1>2. /\ other \in Seq(FrameSet) /\ Len(fr) \in Nat \ {0} /\ Len(other) = Len(fr) - 1
      /\ \A j \in 1 .. Len(fr) - 1 : other[j] = fr[j]
  BY <1>1, WithoutTop
<1>3. Scoped(other, sc)
  BY <1>1, ScopedLess
<1> HIDE DEF other
<1>4. Len(other) \in Nat /\ Len(other) <= Len(fr) /\ \A i \in 1 .. Len(other) : other[i] = fr[i]
  BY <1>2
<1>5. Standing(g.blocks, cur, other)
  <2>1. \A i \in 1 .. Len(other) : Alike(fr[i], other[i])
    BY <1>4 DEF Alike
  <2> QED BY <1>1, <1>2, <1>4, <2>1, FewerStand
<1>6. Resulting(g.blocks, other)
  BY <1>2, <1>4, ResultingLess DEF Sound
<1>7. WalkTyped(g.values, other, sc, val)
  BY <1>2 DEF Sound, WalkTyped
<1> QED BY <1>3, <1>5, <1>6, <1>7 DEF Sound, other

(* The innermost construct is in another phase.                            *)
LEMMA WalkReplaced ==
  ASSUME NEW fr \in Seq(FrameSet), fr # <<>>, NEW f \in FrameSet, SameScope(fr[Len(fr)], f),
         NEW sc, Scoped(fr, sc), NEW bl, NEW other, Resulting(bl, fr), Len(bl) \in Nat, Len(other) \in Nat,
         Len(bl) <= Len(other), Args(other, f.results)
  PROVE  LET next == ReplaceAt(fr, Len(fr), f)
         IN  next \in Seq(FrameSet) /\ Scoped(next, sc) /\ Resulting(other, next)
<1> DEFINE next == ReplaceAt(fr, Len(fr), f)
<1>1. Len(fr) \in Nat /\ Len(fr) # 0
  BY EmptySeq, LenProperties
<1>2. /\ next \in Seq(FrameSet) /\ Len(next) = Len(fr) /\ next[Len(fr)] = f
      /\ \A j \in 1 .. Len(fr) - 1 : next[j] = fr[j]
  BY TopReplaced
<1> HIDE DEF next
<1>3. \A i \in 1 .. Len(fr) : i = Len(fr) \/ i \in 1 .. Len(fr) - 1
  BY <1>1
<1>4. \A i \in 1 .. Len(fr) : SameScope(fr[i], next[i])
  BY <1>2, <1>3 DEF SameScope
<1>5. Scoped(next, sc)
  BY <1>1, <1>2, <1>4, ScopedSame
<1>6. \A from : from \in 1 .. Len(bl) => from \in 1 .. Len(other)
  OBVIOUS
<1>7. Resulting(other, next)
  BY <1>2, <1>3, <1>6 DEF Resulting, Args
<1> QED BY <1>2, <1>5, <1>7 DEF next

LEMMA SoundReplaced ==
  ASSUME NEW g, NEW cur, NEW fr, NEW sc, NEW val, Sound(g, cur, fr, sc, val), fr # <<>>,
         NEW f \in FrameSet, Behind(g.blocks, cur, fr, Len(fr) - 1, f),
         SameScope(fr[Len(fr)], f), Args(g.blocks, f.results)
  PROVE  Sound(g, cur, ReplaceAt(fr, Len(fr), f), sc, val)
<1>1. /\ fr \in Seq(FrameSet) /\ Standing(g.blocks, cur, fr) /\ Scoped(fr, sc) /\ Len(g.blocks) \in Nat
      /\ Resulting(g.blocks, fr)
  BY SoundIs DEF Sound
<1>2. Standing(g.blocks, cur, ReplaceAt(fr, Len(fr), f))
  BY <1>1, ReplacedStands
<1>3. /\ ReplaceAt(fr, Len(fr), f) \in Seq(FrameSet) /\ Scoped(ReplaceAt(fr, Len(fr), f), sc)
      /\ Resulting(g.blocks, ReplaceAt(fr, Len(fr), f))
  <2>1. Len(g.blocks) <= Len(g.blocks)
    BY <1>1
  <2> QED BY <1>1, <2>1, WalkReplaced
<1> QED BY <1>2, <1>3 DEF Sound, WalkTyped

LEMMA SoundTurned ==
  ASSUME NEW g, NEW cur, NEW fr, NEW sc, NEW val, Sound(g, cur, fr, sc, val), fr # <<>>,
         NEW f \in FrameSet, Turns(g.blocks, fr[Len(fr)], f),
         SameScope(fr[Len(fr)], f), Args(g.blocks, f.results)
  PROVE  Sound(g, cur, ReplaceAt(fr, Len(fr), f), sc, val)
<1>1. Behind(g.blocks, cur, fr, Len(fr) - 1, fr[Len(fr)]) /\ Len(fr) - 1 \in Nat
  BY SoundTop
<1>2. Behind(g.blocks, cur, fr, Len(fr) - 1, f)
  BY <1>1, TurnedBehind
<1> QED BY <1>2, SoundReplaced

(* It begins another of its blocks.                                        *)
LEMMA SoundEnters ==
  ASSUME NEW g, NEW cur, NEW fr, NEW sc, NEW val, Sound(g, cur, fr, sc, val), fr # <<>>,
         NEW b, \E k \in Waiting(fr[Len(fr)]) : fr[Len(fr)].ends[k] = b,
         g.blocks[b].preds # <<>>
  PROVE  Enters(g, cur, fr, b)
BY SoundIs DEF Enters

LEMMA TransitionsKeep ==
  ASSUME NEW g, NEW cur, NEW fr, NEW sc, NEW val, Sound(g, cur, fr, sc, val),
         NEW b, Enters(g, cur, fr, b), NEW p, Begins(g, p, b), NEW other \in Pending .. Len(p.values)
  PROVE  /\ IsGraph(Transitions(p, b)) /\ Len(Transitions(p, b).blocks) = Len(g.blocks)
         /\ Len(p.values) <= Len(Transitions(p, b).values) /\ Len(Transitions(p, b).values) \in Nat
         /\ other \in Pending .. Len(Transitions(p, b).values)
         /\ fr[Len(fr)].kind # "block" => Lexical(Transitions(p, b).blocks, b, sc)
<1> DEFINE h == Transitions(p, b)
<1>1. /\ Joined(p, h, b) /\ OnlyBlock(g.blocks, h.blocks, b)
      /\ \A i \in 1 .. Len(fr) : Suits(g.blocks, fr[i], h.blocks[b].vars)
  BY EntersSuits
<1> HIDE DEF h
<1>2. IsGraph(h) /\ Len(h.blocks) = Len(g.blocks) /\ Len(p.values) <= Len(h.values)
  BY <1>1 DEF Joined, Joining, OnlyBlock
<1>3. Len(h.values) \in Nat /\ Len(p.values) \in Nat
  <2>1. h.values \in Seq(ValueSet) /\ p.values \in Seq(ValueSet)
    BY <1>2 DEF IsGraph, WellTyped, Begins
  <2> QED BY <2>1, LenProperties
<1>4. other \in Pending .. Len(h.values)
  BY <1>2, <1>3 DEF Pending
<1>5. ASSUME fr[Len(fr)].kind # "block"
      PROVE  Lexical(h.blocks, b, sc)
  <2>1. fr # <<>>
    BY DEF Enters
  <2>2. fr[Len(fr)].scope = sc /\ Len(fr) \in 1 .. Len(fr)
    BY <1>5, <2>1, SoundTop
  <2>3. Suits(g.blocks, fr[Len(fr)], h.blocks[b].vars)
    BY <1>1, <2>2
  <2> QED BY <1>5, <2>2, <2>3 DEF Suits, Lexical
<1> QED BY <1>2, <1>3, <1>4, <1>5 DEF h

LEMMA SoundEntered ==
  ASSUME NEW g, NEW cur, NEW fr, NEW sc, NEW val, Sound(g, cur, fr, sc, val),
         NEW b, Enters(g, cur, fr, b), NEW p, Begins(g, p, b), NEW other \in Pending .. Len(p.values),
         fr[Len(fr)].kind # "block", NEW f \in FrameSet, Turns(g.blocks, fr[Len(fr)], f),
         SameScope(fr[Len(fr)], f), Args(g.blocks, f.results),
         \A k \in Waiting(f) : f.ends[k] # b
  PROVE  Sound(Transitions(p, b), b, ReplaceAt(fr, Len(fr), f), sc, other)
<1> DEFINE h == Transitions(p, b)
           next == ReplaceAt(fr, Len(fr), f)
<1>1. /\ IsGraph(h) /\ Len(h.blocks) = Len(g.blocks) /\ other \in Pending .. Len(h.values)
      /\ Lexical(h.blocks, b, sc)
  BY TransitionsKeep
<1>2. Standing(h.blocks, b, next)
  BY EntersStand
<1>3. fr \in Seq(FrameSet) /\ Len(g.blocks) \in Nat /\ sc \in Seq(ScopeSet)
  BY SoundIs
<1>4. fr # <<>> /\ Scoped(fr, sc) /\ Resulting(g.blocks, fr)
  BY DEF Enters, Sound
<1> HIDE DEF h
<1>5. Len(g.blocks) <= Len(h.blocks) /\ Len(h.blocks) \in Nat /\ Args(h.blocks, f.results)
  BY <1>1, <1>3 DEF Args
<1>6. next \in Seq(FrameSet) /\ Scoped(next, sc) /\ Resulting(h.blocks, next)
  BY <1>3, <1>4, <1>5, WalkReplaced
<1> HIDE DEF next
<1>7. WalkTyped(h.values, next, sc, other)
  BY <1>1, <1>3, <1>6 DEF WalkTyped
<1> QED BY <1>1, <1>2, <1>6, <1>7 DEF Sound, h, next

(* Its last block begins.                                                  *)
LEMMA FrontKeeps ==
  ASSUME NEW g, NEW cur, NEW fr, NEW sc, NEW val, Sound(g, cur, fr, sc, val), fr # <<>>,
         NEW bl, Len(bl) = Len(g.blocks)
  PROVE  Front(fr) \in Seq(FrameSet) /\ Scoped(Front(fr), fr[Len(fr)].scope) /\ Resulting(bl, Front(fr))
<1> DEFINE next == Front(fr)
<1>1. /\ fr \in Seq(FrameSet) /\ Standing(g.blocks, cur, fr) /\ Scoped(fr, sc) /\ Resulting(g.blocks, fr)
  BY SoundIs DEF Sound
<1>2. Scoped(next, fr[Len(fr)].scope)
  BY <1>1, ScopedLess
<1>3. /\ next \in Seq(FrameSet) /\ Len(fr) \in Nat \ {0} /\ Len(next) = Len(fr) - 1
      /\ \A j \in 1 .. Len(fr) - 1 : next[j] = fr[j]
  BY <1>1, WithoutTop
<1> HIDE DEF next
<1>4. Resulting(bl, next)
  <2>1. \A i \in 1 .. Len(next) : i \in 1 .. Len(fr) /\ next[i] = fr[i]
    BY <1>3
  <2> QED BY <1>1, <2>1 DEF Resulting, Args
<1> QED BY <1>2, <1>3, <1>4 DEF next

LEMMA SoundLeft ==
  ASSUME NEW g, NEW cur, NEW fr, NEW sc, NEW val, Sound(g, cur, fr, sc, val),
         NEW b, Enters(g, cur, fr, b), NEW p, Begins(g, p, b), NEW other \in Pending .. Len(p.values),
         fr[Len(fr)].kind # "block"
  PROVE  Sound(Transitions(p, b), b, Front(fr), sc, other)
<1> DEFINE h == Transitions(p, b)
<1>1. /\ IsGraph(h) /\ Len(h.blocks) = Len(g.blocks) /\ other \in Pending .. Len(h.values)
      /\ Lexical(h.blocks, b, sc)
  BY TransitionsKeep
<1>2. Standing(h.blocks, b, Front(fr))
  BY EntersLast
<1>3. fr # <<>> /\ sc \in Seq(ScopeSet)
  BY SoundIs DEF Enters
<1>4. fr[Len(fr)].scope = sc
  BY <1>3, SoundTop
<1>5. Front(fr) \in Seq(FrameSet) /\ Scoped(Front(fr), sc) /\ Resulting(h.blocks, Front(fr))
  BY <1>1, <1>3, <1>4, FrontKeeps
<1>6. WalkTyped(h.values, Front(fr), sc, other)
  BY <1>1, <1>3, <1>5 DEF WalkTyped
<1> HIDE DEF h
<1> QED BY <1>1, <1>2, <1>5, <1>6 DEF Sound, h

(***************************************************************************)
(* Expressions.                                                            *)
(***************************************************************************)
LEMMA SoundSame ==
  ASSUME NEW g, NEW cur, NEW fr, NEW sc, NEW val, Sound(g, cur, fr, sc, val),
         NEW h, IsGraph(h), h.blocks = g.blocks, Len(g.values) <= Len(h.values)
  PROVE  Sound(h, cur, fr, sc, val)
<1>1. WellTyped(g.blocks, g.values)
  BY DEF Sound, IsGraph
<1>2. Grown(g.blocks, h.blocks, cur)
  BY <1>1, GrownItself
<1> QED BY <1>2, SoundGrown

(* A step that makes more values at most, and returns one.                 *)
LEMMA SameNext ==
  ASSUME BuildInv, NEW h, IsGraph(h), h.blocks = blocks, Len(values) <= Len(h.values), Becomes(h),
         value' \in Pending .. Len(h.values), current' = current, frames' = frames, scope' = scope,
         wild' = wild
  PROVE  BuildInv'
<1>1. /\ Sound(Graph, current, frames, scope, value) /\ Graph.blocks = blocks /\ Graph.values = values
      /\ wild \in BOOLEAN
  BY InvHolds
<1>2. Sound(h, current, frames, scope, value)
  BY <1>1, SoundSame
<1>3. Sound(h, current', frames', scope', value')
  BY <1>2, SoundValue
<1> QED BY <1>1, <1>3, InvNext

LEMMA GrowsNext ==
  ASSUME BuildInv, NEW h, IsGraph(h), Grown(blocks, h.blocks, current), Len(values) <= Len(h.values),
         Becomes(h), value' \in Pending .. Len(h.values), current' = current, frames' = frames,
         scope' = scope, wild' = wild
  PROVE  BuildInv'
<1>1. /\ Sound(Graph, current, frames, scope, value) /\ Graph.blocks = blocks /\ Graph.values = values
      /\ wild \in BOOLEAN
  BY InvHolds
<1>2. Sound(h, current, frames, scope, value)
  BY <1>1, SoundGrown
<1>3. Sound(h, current', frames', scope', value')
  BY <1>2, SoundValue
<1> QED BY <1>1, <1>3, InvNext

(* What the invariant says of the current state.                           *)
LEMMA Facts ==
  ASSUME BuildInv
  PROVE  /\ IsGraph(Graph) /\ Graph.blocks = blocks /\ Graph.values = values
         /\ current \in 1 .. Len(blocks) /\ Begun(blocks, current)
         /\ Len(blocks) \in Nat /\ Len(values) \in Nat
         /\ frames \in Seq(FrameSet) /\ Len(frames) \in Nat /\ scope \in Seq(ScopeSet)
         /\ value \in Pending .. Len(values) /\ wild \in BOOLEAN
         /\ blocks[current].vars \in Seq(VariableSet) /\ Len(blocks[current].vars) \in Nat
<1>1. /\ Sound(Graph, current, frames, scope, value) /\ Graph.blocks = blocks /\ Graph.values = values
      /\ wild \in BOOLEAN
  BY InvHolds
<1> HIDE DEF BuildInv
<1>2. /\ IsGraph(Graph) /\ current \in 1 .. Len(blocks) /\ Begun(blocks, current)
      /\ Len(blocks) \in Nat /\ Len(values) \in Nat
      /\ frames \in Seq(FrameSet) /\ Len(frames) \in Nat /\ scope \in Seq(ScopeSet)
      /\ value \in Pending .. Len(values)
  BY <1>1, SoundIs
<1>3. blocks[current].vars \in Seq(VariableSet) /\ Len(blocks[current].vars) \in Nat
  BY <1>1, <1>2, GraphBlock
<1> QED BY <1>1, <1>2, <1>3

LEMMA LeafAdded ==
  ASSUME NEW g, IsGraph(g)
  PROVE  LET h == [g EXCEPT !.values = Append(@, Leaf)]
         IN  IsGraph(h) /\ h.blocks = g.blocks /\ h.degree = g.degree /\ Len(h.values) = Len(g.values) + 1
<1> DEFINE vs == Append(g.values, Leaf)
<1>1. /\ g = [blocks |-> g.blocks, values |-> g.values, degree |-> g.degree]
      /\ g.degree \in Nat /\ WellTyped(g.blocks, g.values) /\ g.values \in Seq(ValueSet)
  BY DEF IsGraph, WellTyped
<1>2. /\ vs \in Seq(ValueSet) /\ Len(vs) = Len(g.values) + 1 /\ vs[Len(g.values) + 1] = Leaf
      /\ \A j \in 1 .. Len(g.values) : vs[j] = g.values[j]
  BY <1>1, LeafIs, Appended
<1>3. Len(g.values) \in Nat
  BY <1>1, LenProperties
<1> HIDE DEF vs
<1>4. ASSUME NEW v \in 1 .. Len(vs)
      PROVE  Args(g.blocks, vs[v].args)
  <2>1. CASE v \in 1 .. Len(g.values)
    BY <1>1, <1>2, <2>1, ValueArgs
  <2>2. CASE v = Len(g.values) + 1
    <3>1. Args(g.blocks, <<>>)
      BY EmptySeq DEF Args
    <3>2. vs[v].args = <<>>
      BY <1>2, <2>2, LeafIs
    <3> QED BY <3>1, <3>2
  <2> QED BY <1>2, <1>3, <2>1, <2>2
<1>5. WellTyped(g.blocks, vs)
  BY <1>1, <1>2, <1>3, <1>4, ValuesGrow
<1>6. ASSUME NEW h, h = [g EXCEPT !.values = Append(@, Leaf)]
      PROVE  h = [blocks |-> g.blocks, values |-> vs, degree |-> g.degree]
  BY <1>1, <1>6 DEF vs
<1>7. ASSUME NEW h, h = [blocks |-> g.blocks, values |-> vs, degree |-> g.degree]
      PROVE  IsGraph(h) /\ h.blocks = g.blocks /\ h.degree = g.degree /\ Len(h.values) = Len(g.values) + 1
  BY <1>1, <1>2, <1>5, <1>7 DEF IsGraph
<1> QED BY <1>6, <1>7

LEMMA ComputedIs ==
  ASSUME BuildInv, NEW val \in Nat
  PROVE  LET h == Computed(Graph, val)
         IN  IsGraph(h) /\ h.blocks = blocks /\ Len(h.values) = Len(values) + 1
<1> DEFINE m == WithValue(Graph, current, <<>>)
<1>1. /\ IsGraph(Graph) /\ Graph.blocks = blocks /\ Graph.values = values
      /\ current \in 1 .. Len(blocks) /\ Len(blocks) \in Nat
  BY Facts
<1>2. Args(Graph.blocks, <<>>)
  BY EmptySeq DEF Args
<1>3. IsGraph(m) /\ m.blocks = blocks /\ Len(m.values) = Len(values) + 1
  BY <1>1, <1>2, WithValueIs
<1> HIDE DEF m
<1>4. current \in Nat
  BY <1>1
<1>5. LET h == Used(m, current, val, FALSE)
      IN  IsGraph(h) /\ h.blocks = blocks /\ Len(h.values) = Len(values) + 1
  BY <1>3, <1>4, UsedIs
<1> QED BY <1>5 DEF Computed, m

LEMMA SimpleStep ==
  ASSUME BuildInv, Simple
  PROVE  BuildInv'
<1> DEFINE h == [Graph EXCEPT !.values = Append(@, Leaf)]
<1>1. IsGraph(Graph) /\ Graph.blocks = blocks /\ Graph.values = values /\ Len(values) \in Nat
  BY Facts
<1>2. IsGraph(h) /\ h.blocks = blocks /\ Len(h.values) = Len(values) + 1
  BY <1>1, LeafAdded
<1>3. h.values = Append(values, Leaf)
  BY <1>1 DEF Graph
<1> HIDE DEF h
<1>4. Becomes(h)
  BY <1>2, <1>3 DEF Simple, Becomes
<1>5. value' \in Pending .. Len(h.values) /\ Len(values) <= Len(h.values)
  BY <1>1, <1>2 DEF Simple, Pending
<1>6. current' = current /\ frames' = frames /\ scope' = scope /\ wild' = wild
  BY DEF Simple
<1> QED BY <1>2, <1>4, <1>5, <1>6, SameNext

LEMMA ReadStep ==
  ASSUME BuildInv, NEW name, Read(name)
  PROVE  BuildInv'
<1> DEFINE val == ValueOf(blocks[current].vars, name)
<1>1. /\ IsGraph(Graph) /\ Graph.blocks = blocks /\ Graph.values = values
      /\ current \in 1 .. Len(blocks) /\ Len(values) \in Nat
      /\ blocks[current].vars \in Seq(VariableSet) 
  BY Facts
<1>2. val \in 0 .. Len(values)
  BY <1>1, GraphBlock, ValueOfIs
<1> HIDE DEF val
<1>3. /\ Becomes(Loaded(name)) /\ value' = ValueRead(name)
      /\ current' = current /\ frames' = frames /\ scope' = scope /\ wild' = wild
  BY DEF Read
<1>4. CASE name \in Addressed
  <2>1. Loaded(name) = Computed(Graph, val) /\ ValueRead(name) = Len(values) + 1
    BY <1>4 DEF Loaded, ValueRead, val
  <2> DEFINE h == Computed(Graph, val)
  <2>2. IsGraph(h) /\ h.blocks = blocks /\ Len(h.values) = Len(values) + 1
    BY <1>2, ComputedIs
  <2> HIDE DEF h
  <2>3. value' \in Pending .. Len(h.values) /\ Len(values) <= Len(h.values)
    BY <1>1, <1>3, <2>1, <2>2 DEF Pending
  <2>4. Becomes(h)
    BY <1>3, <2>1 DEF h
  <2> QED BY <1>3, <2>2, <2>3, <2>4, SameNext
<1>5. CASE name \notin Addressed
  <2>1. Loaded(name) = Graph /\ ValueRead(name) = val
    BY <1>5 DEF Loaded, ValueRead, val
  <2>2. value' \in Pending .. Len(Graph.values) /\ Len(values) <= Len(Graph.values)
    BY <1>1, <1>2, <1>3, <2>1 DEF Pending
  <2> QED BY <1>1, <1>3, <2>1, <2>2, SameNext
<1> QED BY <1>4, <1>5

LEMMA ComputeStep ==
  ASSUME BuildInv, NEW name, Compute(name)
  PROVE  BuildInv'
<1> DEFINE val == ValueRead(name)
           h == Computed(Graph, val)
<1>1. /\ IsGraph(Graph) /\ Graph.blocks = blocks /\ Graph.values = values
      /\ current \in 1 .. Len(blocks) /\ Len(values) \in Nat
      /\ blocks[current].vars \in Seq(VariableSet)
  BY Facts
<1>2. val \in Nat
  <2>1. ValueOf(blocks[current].vars, name) \in 0 .. Len(values)
    BY <1>1, GraphBlock, ValueOfIs
  <2> QED BY <1>1, <2>1 DEF ValueRead
<1>3. /\ Becomes(h) /\ value' = Len(values) + 1
      /\ current' = current /\ frames' = frames /\ scope' = scope /\ wild' = wild
  BY DEF Compute
<1>4. IsGraph(h) /\ h.blocks = blocks /\ Len(h.values) = Len(values) + 1
  BY <1>2, ComputedIs
<1> HIDE DEF h
<1>5. value' \in Pending .. Len(h.values) /\ Len(values) <= Len(h.values)
  BY <1>1, <1>3, <1>4 DEF Pending
<1> QED BY <1>3, <1>4, <1>5, SameNext

LEMMA EvalStep ==
  ASSUME BuildInv, Eval
  PROVE  BuildInv'
<1>1. /\ IsGraph(Graph) /\ Graph.blocks = blocks /\ Graph.values = values /\ Len(values) \in Nat
  BY Facts
<1>2. /\ Becomes(Graph) /\ value' = Pending
      /\ current' = current /\ frames' = frames /\ scope' = scope /\ wild' = wild
  BY <1>1 DEF Eval, Becomes
<1>3. value' \in Pending .. Len(Graph.values) /\ Len(values) <= Len(Graph.values)
  BY <1>1, <1>2 DEF Pending
<1> QED BY <1>1, <1>2, <1>3, SameNext

(***************************************************************************)
(* Steps of the walk where it stands.                                      *)
(***************************************************************************)
LEMMA TopFacts ==
  ASSUME BuildInv, frames # <<>>
  PROVE  /\ Top = frames[Len(frames)] /\ Top \in FrameSet /\ Len(frames) \in Nat \ {0}
         /\ Len(frames) \in 1 .. Len(frames)
         /\ Behind(blocks, current, frames, Len(frames) - 1, Top) /\ Owns(blocks, Top) /\ Shaped(Top)
         /\ Kept(blocks, current, Top) /\ Suits(blocks, Top, blocks[current].vars)
         /\ ScopedAt(frames, Len(frames), scope) /\ Args(blocks, Top.results)
         /\ Top.kind # "block" => Top.scope = scope
<1>1. Sound(Graph, current, frames, scope, value) /\ Graph.blocks = blocks
  BY InvHolds
<1>2. /\ Last(frames) = frames[Len(frames)] /\ frames[Len(frames)] \in FrameSet /\ Len(frames) \in Nat \ {0}
      /\ Len(frames) \in 1 .. Len(frames)
      /\ Behind(blocks, current, frames, Len(frames) - 1, frames[Len(frames)]) /\ Owns(blocks, frames[Len(frames)])
      /\ ScopedAt(frames, Len(frames), scope) /\ Args(blocks, frames[Len(frames)].results)
      /\ frames[Len(frames)].kind # "block" => frames[Len(frames)].scope = scope
  BY <1>1, SoundTop
<1>3. Top = frames[Len(frames)]
  BY <1>2 DEF Top
<1>4. /\ Kept(blocks, current, Top) /\ Suits(blocks, Top, blocks[current].vars) /\ Shaped(Top)
  BY <1>2, <1>3 DEF Behind, Owns
<1> QED BY <1>2, <1>3, <1>4

(* From more to else.                                                      *)
LEMMA ElseKeeps ==
  ASSUME BuildInv, frames # <<>>, Top.kind \in {"if", "while"}, Top.phase = "more",
         Becoming([Top EXCEPT !.phase = "else"]),
         UNCHANGED <<blocks, values, current, value, scope, wild>>
  PROVE  BuildInv'
<1>1. /\ Sound(Graph, current, frames, scope, value) /\ Graph.blocks = blocks /\ Graph.values = values
      /\ wild \in BOOLEAN
  BY InvHolds
<1>2. Top = frames[Len(frames)] /\ Top \in FrameSet /\ Shaped(Top) /\ Args(blocks, Top.results)
  BY TopFacts
<1>3. ASSUME NEW f, f = [Top EXCEPT !.phase = "else"]
      PROVE  Sound(Graph, current, ReplaceAt(frames, Len(frames), f), scope, value)
  <2>1. /\ f.kind = Top.kind /\ f.phase = "else" /\ f.ends = Top.ends /\ f.old = Top.old /\ f.scope = Top.scope
        /\ f.name = Top.name /\ f.target = Top.target /\ f.results = Top.results
    BY <1>2, <1>3 DEF FrameSet
  <2>2. f \in FrameSet
    BY <1>2, <1>3 DEF FrameSet, Phases
  <2>3. Waiting(f) = {1} /\ Waiting(Top) = {1} /\ Reached(f) = {}
    BY <2>1 DEF Waiting, Reached
  <2>4. Shaped(f)
    BY <1>2, <2>1 DEF Shaped, Statements, Jumps
  <2>5. Turns(blocks, Top, f) /\ SameScope(Top, f)
    BY <2>1, <2>3, <2>4 DEF Turns, SameScope
  <2> HIDE DEF Top
  <2> QED BY <1>1, <1>2, <2>1, <2>2, <2>5, SoundTurned
<1>4. Sound(Graph, current', frames', scope', value')
  BY <1>3 DEF Becoming
<1>5. Becomes(Graph) /\ wild' \in BOOLEAN
  BY <1>1 DEF Becomes
<1> QED BY <1>4, <1>5, InvNext

LEMMA IfElseStep ==
  ASSUME BuildInv, IfElse
  PROVE  BuildInv'
BY ElseKeeps DEF IfElse, In

LEMMA WhileElseStep ==
  ASSUME BuildInv, WhileElse
  PROVE  BuildInv'
BY ElseKeeps DEF WhileElse, In

(***************************************************************************)
(* Statements.                                                             *)
(***************************************************************************)
(* A frame of the walk, before the fields of its own.                      *)
LEMMA FrameIs ==
  ASSUME NEW kind \in {"block", "if", "while"} \cup Statements, NEW phase \in Phases, scope \in Seq(ScopeSet)
  PROVE  LET f == Frame(kind, phase)
         IN  /\ f \in FrameSet /\ f.kind = kind /\ f.phase = phase /\ f.scope = scope /\ f.results = <<>>
<1>1. Parameter \in Names
  BY IrBuildAssumption
<1> QED BY <1>1, EmptySeq DEF Frame, FrameSet

(* Another construct begins, inside of the others.                         *)
LEMMA PushNext ==
  ASSUME BuildInv, NEW f \in FrameSet, Behind(blocks, current, frames, Len(frames), f),
         f.scope = scope, f.results = <<>>,
         f.kind \in Statements => frames # <<>> /\ Top.kind = "block",
         f.kind = "define" /\ ~Shadowing => Nowhere(scope, 0, f.name),
         f.kind \in Jumps => f.target \in 1 .. Len(frames) /\ frames[f.target].kind \in {"block", "while"},
         frames' = Append(frames, f), UNCHANGED <<blocks, values, current, value, scope, wild>>
  PROVE  BuildInv'
<1>1. /\ Sound(Graph, current, frames, scope, value) /\ Graph.blocks = blocks /\ Graph.values = values
      /\ wild \in BOOLEAN
  BY InvHolds
<1>2. f.kind \in Statements => frames # <<>> /\ frames[Len(frames)].kind = "block"
  BY TopFacts
<1>3. Sound(Graph, current, Append(frames, f), scope, value)
  BY <1>1, <1>2, SoundPush
<1>4. Sound(Graph, current', frames', scope', value')
  BY <1>3
<1>5. Becomes(Graph) /\ wild' \in BOOLEAN
  BY <1>1 DEF Becomes
<1> QED BY <1>4, <1>5, InvNext

(* A statement waits for no blocks.                                        *)
LEMMA StatementBehind ==
  ASSUME BuildInv, NEW f \in FrameSet, f.kind \in Statements, f.phase = "operand", f.scope = scope,
         f.ends = <<>>
  PROVE  Behind(blocks, current, frames, Len(frames), f)
<1>1. f.kind # "block" /\ f.kind # "while" /\ f.kind # "if"
  BY DEF Statements, Jumps
<1>2. Waiting(f) = {} /\ Reached(f) = {}
  BY <1>1 DEF Waiting, Reached
<1>3. Owns(blocks, f)
  BY <1>2, EmptySeq DEF Owns, Shaped
<1>4. Kept(blocks, current, f)
  BY <1>1 DEF Kept
<1>5. Suits(blocks, f, blocks[current].vars)
  BY <1>1 DEF Suits, BuildInv, Lexical
<1>6. ASSUME NEW j \in 1 .. Len(frames)
      PROVE  Apart(frames[j], f) /\ Within(blocks, frames[j], f)
  <2>1. Apart(frames[j], f)
    BY <1>2 DEF Apart
  <2>2. ScopedAt(frames, j, scope)
    BY DEF BuildInv, Scoped
  <2>3. Within(blocks, frames[j], f)
    BY <1>1, <2>2 DEF Within, ScopedAt
  <2> QED BY <2>1, <2>3
<1> QED BY <1>2, <1>3, <1>4, <1>5, <1>6 DEF Behind

LEMMA StatementStep ==
  ASSUME BuildInv, NEW f \in FrameSet, f.kind \in Statements, f.phase = "operand", f.scope = scope,
         f.results = <<>>, f.ends = <<>>, Statement(f),
         f.kind = "define" /\ ~Shadowing => ~Visible(f.name),
         f.kind \in Jumps => f.target \in 1 .. Len(frames) /\ frames[f.target].kind \in {"block", "while"}
  PROVE  BuildInv'
<1>1. scope \in Seq(ScopeSet)
  BY Facts
<1>4. Behind(blocks, current, frames, Len(frames), f)
  BY StatementBehind
<1>5. frames # <<>> /\ Top.kind = "block"
  BY DEF Statement, StatementNext, In
<1>6. frames' = Append(frames, f) /\ UNCHANGED <<blocks, values, current, value, scope, wild>>
  BY DEF Statement, Open
<1>7. f.kind = "define" /\ ~Shadowing => Nowhere(scope, 0, f.name)
  <2>1. Len(scope) \in Nat /\ DOMAIN scope = 1 .. Len(scope)
    BY <1>1, LenProperties
  <2> QED BY <2>1 DEF Visible, Nowhere
<1> QED BY <1>4, <1>5, <1>6, <1>7, PushNext

LEMMA DefineBeginStep ==
  ASSUME BuildInv, NEW name \in Names, DefineBegin(name)
  PROVE  BuildInv'
<1>1. ASSUME NEW f, f = [Frame("define", "operand") EXCEPT !.name = name]
      PROVE  /\ f \in FrameSet /\ f.kind = "define" /\ f.phase = "operand" /\ f.scope = scope
             /\ f.results = <<>> /\ f.ends = <<>> /\ f.name = name
  <2>1. Frame("define", "operand") \in FrameSet
    BY Facts, FrameIs DEF Phases, Statements
  <2>2. f \in FrameSet
    BY <1>1, <2>1 DEF FrameSet
  <2> QED BY <1>1, <2>2 DEF Frame
<1>2. "define" \in Statements /\ "define" \notin Jumps
  BY DEF Statements, Jumps
<1>3. ASSUME NEW f, f = [Frame("define", "operand") EXCEPT !.name = name], Statement(f)
      PROVE  BuildInv'
  <2>1. /\ f \in FrameSet /\ f.kind = "define" /\ f.phase = "operand" /\ f.scope = scope
        /\ f.results = <<>> /\ f.ends = <<>> /\ f.name = name
    BY <1>1, <1>3
  <2>2. ~Shadowing => ~Visible(name)
    BY DEF DefineBegin
  <2> QED BY <1>2, <1>3, <2>1, <2>2, StatementStep
<1> QED BY <1>3 DEF DefineBegin

LEMMA AssignBeginStep ==
  ASSUME BuildInv, NEW name \in Names, AssignBegin(name)
  PROVE  BuildInv'
<1>1. ASSUME NEW f, f = [Frame("assign", "operand") EXCEPT !.name = name]
      PROVE  /\ f \in FrameSet /\ f.kind = "assign" /\ f.phase = "operand" /\ f.scope = scope
             /\ f.results = <<>> /\ f.ends = <<>> /\ f.name = name
  <2>1. Frame("assign", "operand") \in FrameSet
    BY Facts, FrameIs DEF Phases, Statements
  <2>2. f \in FrameSet
    BY <1>1, <2>1 DEF FrameSet
  <2> QED BY <1>1, <2>2 DEF Frame
<1>2. "assign" \in Statements /\ "assign" \notin Jumps
  BY DEF Statements, Jumps
<1>3. ASSUME NEW f, f = [Frame("assign", "operand") EXCEPT !.name = name], Statement(f)
      PROVE  BuildInv'
  <2>1. /\ f \in FrameSet /\ f.kind = "assign" /\ f.phase = "operand" /\ f.scope = scope
        /\ f.results = <<>> /\ f.ends = <<>> /\ f.name = name
    BY <1>1, <1>3
  <2> QED BY <1>2, <1>3, <2>1, StatementStep
<1> QED BY <1>3 DEF AssignBegin

LEMMA JumpBegin ==
  ASSUME BuildInv, NEW kind \in Jumps, NEW i \in 1 .. Len(frames), frames[i].kind \in {"block", "while"},
         Statement([Frame(kind, "operand") EXCEPT !.target = i])
  PROVE  BuildInv'
<1>1. ASSUME NEW f, f = [Frame(kind, "operand") EXCEPT !.target = i]
      PROVE  /\ f \in FrameSet /\ f.kind = kind /\ f.phase = "operand" /\ f.scope = scope
             /\ f.results = <<>> /\ f.ends = <<>> /\ f.target = i
  <2>1. Frame(kind, "operand") \in FrameSet
    BY Facts, FrameIs DEF Phases, Statements
  <2>2. i \in Nat
    OBVIOUS
  <2>3. f \in FrameSet
    BY <1>1, <2>1, <2>2 DEF FrameSet
  <2> QED BY <1>1, <2>3 DEF Frame
<1>2. kind \in Statements /\ kind # "define"
  BY DEF Statements, Jumps
<1>3. ASSUME NEW f, f = [Frame(kind, "operand") EXCEPT !.target = i], Statement(f)
      PROVE  BuildInv'
  <2>1. /\ f \in FrameSet /\ f.kind = kind /\ f.phase = "operand" /\ f.scope = scope
        /\ f.results = <<>> /\ f.ends = <<>> /\ f.target = i
    BY <1>1, <1>3
  <2> QED BY <1>2, <1>3, <2>1, StatementStep
<1> QED BY <1>3

LEMMA ReturnBeginStep ==
  ASSUME BuildInv, NEW i, ReturnBegin(i)
  PROVE  BuildInv'
<1>1. i \in 1 .. Len(frames) /\ frames[i].kind \in {"block", "while"}
  <2>1. DOMAIN frames = 1 .. Len(frames)
    BY Facts, LenProperties
  <2> QED BY <2>1 DEF ReturnBegin
<1>2. "return" \in Jumps /\ Statement([Frame("return", "operand") EXCEPT !.target = i])
  BY DEF Jumps, ReturnBegin
<1> QED BY <1>1, <1>2, JumpBegin

LEMMA BreakBeginStep ==
  ASSUME BuildInv, NEW i, BreakBegin(i)
  PROVE  BuildInv'
<1>1. i \in 1 .. Len(frames) /\ frames[i].kind \in {"block", "while"}
  <2>1. DOMAIN frames = 1 .. Len(frames)
    BY Facts, LenProperties
  <2> QED BY <2>1 DEF BreakBegin
<1>2. "break" \in Jumps /\ Statement([Frame("break", "operand") EXCEPT !.target = i])
  BY DEF Jumps, BreakBegin
<1> QED BY <1>1, <1>2, JumpBegin

(* The operand of a statement is built.                                    *)
LEMMA StoredIs ==
  ASSUME BuildInv, value \notin {Pending, Void}, NEW name
  PROVE  /\ IsGraph(Stored(name)) /\ Stored(name).blocks = blocks
         /\ Len(Stored(name).values) = Len(values)
         /\ value \in 1 .. Len(values)
<1>1. /\ IsGraph(Graph) /\ Graph.blocks = blocks /\ Graph.values = values
      /\ current \in 1 .. Len(blocks) /\ Len(values) \in Nat /\ value \in Pending .. Len(values)
  BY Facts
<1>2. value \in 1 .. Len(values) /\ value \in Nat /\ current \in Nat
  BY <1>1 DEF Pending, Void
<1>3. CASE name \in Addressed
  <2> DEFINE h == Used(Graph, current, value, FALSE)
  <2>1. IsGraph(h) /\ h.blocks = blocks /\ Len(h.values) = Len(values)
    BY <1>1, <1>2, UsedIs
  <2>2. Stored(name) = h
    BY <1>3 DEF Stored
  <2> QED BY <1>2, <2>1, <2>2
<1>4. CASE name \notin Addressed
  BY <1>1, <1>2, <1>4 DEF Stored
<1> QED BY <1>3, <1>4

(* A definition is visible, and found, where it is not hidden.             *)
LEMMA BothMean ==
  ASSUME NEW S, NEW list \in Seq(S), NEW e \in S, NEW T, NEW sc \in Seq(T), NEW d \in T,
         d.name = e.name, d.id = e.id, MeansSame(list, sc, Len(list))
  PROVE  MeansSame(Append(list, e), Append(sc, d), Len(Append(list, e)))
<1> DEFINE l2 == Append(list, e)
           s2 == Append(sc, d)
<1>1. Len(list) \in Nat /\ Len(l2) = Len(list) + 1 /\ l2[Len(list) + 1] = e /\ \A k \in 1 .. Len(list) : l2[k] = list[k]
  BY Appended, LenProperties
<1>2. Len(sc) \in Nat /\ Len(s2) = Len(sc) + 1 /\ s2[Len(sc) + 1] = d /\ \A k \in 1 .. Len(sc) : s2[k] = sc[k]
  BY Appended, LenProperties
<1> HIDE DEF l2, s2
<1>3. ASSUME NEW m \in 1 .. Len(s2), Nowhere(s2, m, s2[m].name)
      PROVE  \E k \in 1 .. Len(l2) :
               /\ k <= Len(l2) /\ l2[k].name = s2[m].name /\ l2[k].id = s2[m].id
               /\ Nowhere(l2, k, s2[m].name)
  <2>1. CASE m = Len(sc) + 1
    <3>1. Len(l2) \in 1 .. Len(l2) /\ Nowhere(l2, Len(l2), s2[m].name)
      BY <1>1 DEF Nowhere
    <3> QED BY <1>1, <1>2, <2>1, <3>1
  <2>2. CASE m \in 1 .. Len(sc)
    <3>1. s2[m] = sc[m] /\ Len(sc) + 1 \in m + 1 .. Len(s2)
      BY <1>2, <2>2
    <3>2. sc[m].name # e.name
      BY <1>2, <1>3, <3>1 DEF Nowhere
    <3>3. Nowhere(sc, m, sc[m].name)
      <4> SUFFICES ASSUME NEW l \in m + 1 .. Len(sc)
                   PROVE  sc[l].name # sc[m].name
        BY DEF Nowhere
      <4>1. l \in m + 1 .. Len(s2) /\ l \in 1 .. Len(sc)
        BY <1>2, <2>2
      <4> QED BY <1>2, <1>3, <3>1, <4>1 DEF Nowhere
    <3>4. PICK k \in 1 .. Len(list) :
            list[k].name = sc[m].name /\ list[k].id = sc[m].id /\ Nowhere(list, k, sc[m].name)
      BY <2>2, <3>3 DEF MeansSame
    <3>5. Nowhere(l2, k, sc[m].name)
      <4> SUFFICES ASSUME NEW l \in k + 1 .. Len(l2)
                   PROVE  l2[l].name # sc[m].name
        BY DEF Nowhere
      <4>1. CASE l = Len(list) + 1
        BY <1>1, <3>2, <4>1
      <4>2. CASE l # Len(list) + 1
        <5>1. l \in k + 1 .. Len(list) /\ l \in 1 .. Len(list)
          BY <1>1, <4>2
        <5> QED BY <1>1, <3>4, <5>1 DEF Nowhere
      <4> QED BY <4>1, <4>2
    <3>6. k \in 1 .. Len(l2) /\ k <= Len(l2) /\ l2[k] = list[k]
      BY <1>1
    <3> QED BY <3>1, <3>4, <3>5, <3>6
  <2> QED BY <1>2, <2>1, <2>2
<1> QED BY <1>3 DEF MeansSame, l2, s2

LEMMA SoundDefined ==
  ASSUME NEW g, NEW cur, NEW fr, NEW sc, NEW val, Sound(g, cur, fr, sc, val),
         NEW e \in VariableSet, e.value \in 1 .. Len(g.values),
         NEW d \in ScopeSet, d.name = e.name, d.id = e.id,
         Len(fr) # 0 => fr[Len(fr)].kind = "block",
         ~Shadowing => Nowhere(sc, 0, e.name)
  PROVE  Sound([g EXCEPT !.blocks[cur].vars = Append(@, e)], cur, fr, Append(sc, d), val)
<1> DEFINE h == [g EXCEPT !.blocks[cur].vars = Append(@, e)]
           list == g.blocks[cur].vars
<1>1. /\ IsGraph(g) /\ cur \in 1 .. Len(g.blocks) /\ Begun(g.blocks, cur) /\ Len(g.blocks) \in Nat
      /\ fr \in Seq(FrameSet) /\ Len(fr) \in Nat /\ sc \in Seq(ScopeSet) /\ val \in Pending .. Len(g.values)
      /\ Standing(g.blocks, cur, fr)
  BY SoundIs
<1>2. /\ IsGraph(h) /\ h.values = g.values /\ OnlyBlock(g.blocks, h.blocks, cur)
      /\ h.blocks[cur].idx = g.blocks[cur].idx /\ h.blocks[cur].vars = Append(list, e)
  <2>1. IsGraph(g) /\ cur \in 1 .. Len(g.blocks)
    BY <1>1
  <2>2. LET r == [g EXCEPT !.blocks[cur].vars = Append(@, e)]
         IN  /\ IsGraph(r) /\ r.values = g.values /\ r.degree = g.degree
             /\ OnlyBlock(g.blocks, r.blocks, cur)
             /\ r.blocks[cur].idx = g.blocks[cur].idx
             /\ r.blocks[cur].vars = Append(g.blocks[cur].vars, e)
    BY ONLY <2>1, e \in VariableSet, e.value \in 1 .. Len(g.values), VariableAppended
  <2> QED BY ONLY <2>2 DEF h, list
<1>3. list \in Seq(VariableSet)
  BY <1>1, GraphBlock
<1> HIDE DEF h, list
<1>4. Begun(h.blocks, cur)
  BY <1>1, <1>2 DEF Begun
<1>5. ASSUME NEW i \in 1 .. Len(fr)
      PROVE  Suits(g.blocks, fr[i], h.blocks[cur].vars)
  <2>1. Suits(g.blocks, fr[i], list) /\ ScopedAt(fr, i, sc) /\ Owns(g.blocks, fr[i])
    BY <1>1 DEF Standing, Behind, Sound, Scoped, list
  <2>2. ASSUME ~Shadowing
        PROVE  MeansSame(h.blocks[cur].vars, fr[i].scope,
                         IF fr[i].kind = "block" THEN fr[i].old ELSE Len(h.blocks[cur].vars))
    <3> DEFINE bound == IF fr[i].kind = "block" THEN fr[i].old ELSE Len(list)
               longer == Append(list, e)
    <3>1. MeansSame(list, fr[i].scope, bound)
      BY <2>1, <2>2 DEF Suits
    <3>2. \A m \in 1 .. Len(fr[i].scope) : fr[i].scope[m].name # e.name
      <4> SUFFICES ASSUME NEW m \in 1 .. Len(fr[i].scope)
                   PROVE  fr[i].scope[m].name # e.name
        OBVIOUS
      <4>1. PICK l \in 1 .. Len(sc) : sc[l].name = fr[i].scope[m].name
        BY <2>1, <2>2 DEF ScopedAt, SeesAll
      <4>2. l \in 0 + 1 .. Len(sc)
        OBVIOUS
      <4> QED BY <2>2, <4>1, <4>2 DEF Nowhere
    <3> HIDE DEF bound
    <3>3. MeansSame(longer, fr[i].scope, bound)
      BY <1>3, <3>1, <3>2, LongerMeans
    <3>4. Len(longer) \in Nat
      BY <1>3, Appended, LenProperties
    <3> HIDE DEF longer
    <3>5. MeansSame(longer, fr[i].scope, Len(longer))
      BY <3>3, <3>4, MeansAnywhere
    <3>6. h.blocks[cur].vars = longer
      BY <1>2 DEF longer
    <3> QED BY <3>3, <3>5, <3>6 DEF bound
  <2>3. ASSUME fr[i].kind = "while"
        PROVE  StartsWith(h.blocks[cur].vars, g.blocks[fr[i].ends[5]].vars)
    <3>1. fr[i].ends[5] \in 1 .. Len(g.blocks)
      BY <2>1, <2>3, ShapedIs DEF Owns
    <3>2. Len(g.blocks[fr[i].ends[5]].vars) \in Nat
      BY <1>1, <3>1, GraphBlock
    <3>3. StartsWith(list, g.blocks[fr[i].ends[5]].vars)
      BY <2>1, <2>3 DEF Suits
    <3> QED BY <1>2, <1>3, <3>2, <3>3, LongerStarts
  <2> QED BY <2>2, <2>3 DEF Suits
<1>6. Standing(h.blocks, cur, fr)
  BY <1>1, <1>2, <1>4, <1>5, CurrentStands
<1>7. Resulting(h.blocks, fr)
  BY <1>2 DEF Sound, Resulting, Args, OnlyBlock
<1>8. Lexical(h.blocks, cur, Append(sc, d))
  <2> SUFFICES ASSUME ~Shadowing
               PROVE  MeansSame(Append(list, e), Append(sc, d), Len(Append(list, e)))
    BY <1>2 DEF Lexical
  <2>1. MeansSame(list, sc, Len(list))
    BY DEF Sound, Lexical, list
  <2> QED BY <1>1, <1>3, <2>1, BothMean
<1>9. Scoped(fr, Append(sc, d))
  BY <1>1, ScopedMore DEF Sound
<1>10. WalkTyped(h.values, fr, Append(sc, d), val)
  BY <1>1, <1>2, Appended DEF WalkTyped
<1>11. Sound(h, cur, fr, Append(sc, d), val)
  BY <1>2, <1>6, <1>7, <1>8, <1>9, <1>10 DEF Sound
<1> QED BY <1>11 DEF h

(* The frame of a statement is in a block.                                 *)
LEMMA StatementEnds ==
  ASSUME NEW g, NEW cur, NEW fr, NEW sc, NEW val, Sound(g, cur, fr, sc, val), fr # <<>>,
         fr[Len(fr)].kind \in Statements, NEW other \in Pending .. Len(g.values)
  PROVE  /\ Sound(g, cur, Front(fr), sc, other)
         /\ Len(Front(fr)) # 0 => Front(fr)[Len(Front(fr))].kind = "block"
<1>1. fr[Len(fr)].kind # "block"
  BY DEF Statements, Jumps
<1>2. Sound(g, cur, Front(fr), sc, other)
  BY <1>1, SoundPop, SoundValue
<1>3. ScopedAt(fr, Len(fr), sc) /\ fr \in Seq(FrameSet)
  BY SoundTop, SoundIs
<1>4. fr[Len(fr) - 1].kind = "block" /\ Len(fr) > 1
  BY <1>3 DEF ScopedAt
<1>5. /\ Len(fr) \in Nat /\ Len(Front(fr)) = Len(fr) - 1
      /\ \A j \in 1 .. Len(fr) - 1 : Front(fr)[j] = fr[j]
  BY <1>3, WithoutTop
<1>6. Len(fr) - 1 \in 1 .. Len(fr) - 1
  BY <1>4, <1>5
<1> QED BY <1>2, <1>4, <1>5, <1>6

LEMMA DefineStep ==
  ASSUME BuildInv, Define
  PROVE  BuildInv'
<1> DEFINE name == Top.name
           id == Len(values) + 1
           new == Variable(name, id, IF name \in Addressed THEN id ELSE value)
           s == Stored(name)
           m == [s EXCEPT !.values = Append(@, Leaf)]
           h == [m EXCEPT !.blocks[current].vars = Append(@, new)]
           d == [name |-> name, id |-> id]
<1>1. frames # <<>> /\ Top.kind = "define" /\ value \notin {Pending, Void}
  BY DEF Define, Built, In
<1>2. /\ Sound(Graph, current, frames, scope, value) /\ Graph.blocks = blocks /\ Graph.values = values
      /\ wild \in BOOLEAN /\ Len(values) \in Nat
  BY InvHolds, Facts
<1>3. /\ Top = frames[Len(frames)] /\ Top \in FrameSet /\ Top.scope = scope
      /\ ScopedAt(frames, Len(frames), scope)
  BY <1>1, TopFacts
<1>4. name \in Names /\ name = frames[Len(frames)].name /\ frames[Len(frames)].kind = "define"
      /\ (~Shadowing => Nowhere(scope, 0, name))
  BY <1>1, <1>3 DEF FrameSet, ScopedAt
<1>5. IsGraph(s) /\ s.blocks = blocks /\ Len(s.values) = Len(values) /\ value \in 1 .. Len(values)
  BY <1>1, StoredIs
<1> HIDE DEF name, s
<1>6. IsGraph(m) /\ m.blocks = blocks /\ Len(m.values) = Len(values) + 1
  BY <1>5, LeafAdded
<1>7. Becomes([s EXCEPT !.blocks[current].vars = Append(@, new), !.values = Append(@, Leaf)])
  BY DEF Define, s, name
<1>8. Becomes(h)
  <2>1. s = [blocks |-> s.blocks, values |-> s.values, degree |-> s.degree]
    BY <1>5 DEF IsGraph
  <2>2. /\ h.blocks = [s.blocks EXCEPT ![current].vars = Append(@, new)]
        /\ h.values = Append(s.values, Leaf)
    BY <2>1
  <2> QED BY <1>7, <2>1, <2>2 DEF Becomes
<1>9. new \in VariableSet /\ new.value \in 1 .. Len(m.values) /\ new.name = name /\ new.id = id
  BY <1>2, <1>4, <1>5, <1>6 DEF VariableSet, Variable
<1>10. d \in ScopeSet /\ d.name = name /\ d.id = id
  BY <1>2, <1>4 DEF ScopeSet
<1> HIDE DEF m, new, d
<1>11. Sound(m, current, frames, scope, value)
  BY <1>2, <1>6, SoundSame
<1>12. frames[Len(frames)].kind \in Statements
  BY <1>4 DEF Statements
<1>13. Pending \in Pending .. Len(m.values)
  BY <1>2, <1>6 DEF Pending
<1>14. /\ Sound(m, current, Front(frames), scope, Pending)
       /\ Len(Front(frames)) # 0 => Front(frames)[Len(Front(frames))].kind = "block"
  BY <1>1, <1>11, <1>12, <1>13, StatementEnds
<1>15. Sound(h, current, Front(frames), Append(scope, d), Pending)
  BY <1>4, <1>9, <1>10, <1>14, SoundDefined
<1>16. frames' = Front(frames) /\ value' = Pending /\ current' = current /\ wild' = wild
  BY DEF Define, Close
<1>17. scope' = Append(scope, d)
  BY DEF Define, d, name
<1> HIDE DEF h
<1>18. Sound(h, current', frames', scope', value')
  BY <1>15, <1>16, <1>17
<1> QED BY <1>2, <1>8, <1>16, <1>18, InvNext

(* An assignment; where there is no such variable nothing is different.    *)
LEMMA ValueSetAt ==
  ASSUME NEW g, IsGraph(g), NEW b \in 1 .. Len(g.blocks), NEW i, NEW val \in 1 .. Len(g.values)
  PROVE  Revalued(g, [g EXCEPT !.blocks[b].vars[i].value = val])
<1>1. CASE i \in 1 .. Len(g.blocks[b].vars)
  BY <1>1, ValueSetIn
<1>2. CASE i \notin 1 .. Len(g.blocks[b].vars)
  <2> DEFINE old == g.blocks[b].vars
             list == ValueAt(old, i, val)
             h == WithList(g, b, list)
  <2>1. /\ old \in Seq(VariableSet) /\ Len(old) \in Nat /\ DOMAIN old = 1 .. Len(old)
        /\ \A k \in 1 .. Len(old) : old[k].value \in 1 .. Len(g.values)
    BY GraphBlock, LenProperties
  <2>2. list = old
    BY <1>2, <2>1 DEF ValueAt
  <2>3. [g EXCEPT !.blocks[b].vars[i].value = val] = h
    BY DEF ValueAt, WithList
  <2> HIDE DEF list
  <2>4. /\ IsGraph(h) /\ h.values = g.values /\ h.degree = g.degree
        /\ OnlyBlock(g.blocks, h.blocks, b)
        /\ h.blocks[b].idx = g.blocks[b].idx /\ h.blocks[b].vars = list
    BY <2>1, <2>2, ListReplaced
  <2>5. Same(old, h.blocks[b].vars)
    BY <2>1, <2>2, <2>4, SameItself
  <2> HIDE DEF h
  <2>6. Revalued(g, h)
    BY <2>4, <2>5, OnlyRevalued
  <2> QED BY <2>3, <2>6
<1> QED BY <1>1, <1>2

LEMMA AssignStep ==
  ASSUME BuildInv, Assign
  PROVE  BuildInv'
<1> DEFINE name == Top.name
<1>1. frames # <<>> /\ Top.kind = "assign" /\ value \notin {Pending, Void}
  BY DEF Assign, Built, In
<1>2. /\ Sound(Graph, current, frames, scope, value) /\ Graph.blocks = blocks /\ Graph.values = values
      /\ wild \in BOOLEAN /\ Len(values) \in Nat /\ current \in 1 .. Len(blocks) /\ IsGraph(Graph)
  BY InvHolds, Facts
<1>3. frames[Len(frames)].kind \in Statements
  BY <1>1, TopFacts DEF Statements
<1>4. value \in 1 .. Len(values)
  BY <1>1, StoredIs
<1>5. PICK h : Becomes(h) /\ IsGraph(h) /\ Grown(blocks, h.blocks, current) /\ Len(values) <= Len(h.values)
  <2>1. CASE name \in Addressed
    <3>1. Becomes(Stored(name))
      BY <2>1 DEF Assign
    <3>2. IsGraph(Stored(name)) /\ Stored(name).blocks = blocks /\ Len(Stored(name).values) = Len(values)
      BY <1>1, StoredIs
    <3>3. Grown(blocks, blocks, current)
      BY <1>2, GrownItself DEF IsGraph
    <3> HIDE DEF name
    <3> QED BY <1>2, <3>1, <3>2, <3>3
  <2>2. CASE name \notin Addressed
    <3> DEFINE k == Max({j \in DOMAIN blocks[current].vars : blocks[current].vars[j].name = name})
               h == [Graph EXCEPT !.blocks[current].vars[k].value = value]
    <3>1. Becomes(h)
      BY <2>2 DEF Assign
    <3> HIDE DEF k
    <3>2. Revalued(Graph, h)
      BY <1>2, <1>4, ValueSetAt
    <3> HIDE DEF h
    <3>3. Grown(blocks, h.blocks, current)
      BY <1>2, <3>2, RevaluedGrows
    <3>4. IsGraph(h) /\ Len(values) <= Len(h.values)
      BY <1>2, <3>2 DEF Revalued
    <3> QED BY <3>1, <3>3, <3>4
  <2> QED BY <2>1, <2>2
<1>6. Sound(h, current, frames, scope, value)
  BY <1>2, <1>5, SoundGrown
<1>7. Pending \in Pending .. Len(h.values)
  <2>1. Len(h.values) \in Nat
    BY <1>6, SoundIs
  <2> QED BY <2>1 DEF Pending
<1>8. Sound(h, current, Front(frames), scope, Pending)
  BY <1>1, <1>3, <1>6, <1>7, StatementEnds
<1>9. frames' = Front(frames) /\ value' = Pending /\ current' = current /\ wild' = wild /\ scope' = scope
  BY DEF Assign, Close
<1>10. Sound(h, current', frames', scope', value')
  BY <1>8, <1>9
<1> QED BY <1>2, <1>5, <1>9, <1>10, InvNext

(* Constructs with other values of their own.                              *)
LEMMA SoundResults ==
  ASSUME NEW g, NEW cur, NEW fr, NEW sc, NEW val, Sound(g, cur, fr, sc, val),
         NEW other \in Seq(FrameSet), Len(other) = Len(fr),
         \A i \in 1 .. Len(fr) : /\ Alike(fr[i], other[i]) /\ SameScope(fr[i], other[i])
                                 /\ Args(g.blocks, other[i].results)
  PROVE  Sound(g, cur, other, sc, val)
<1>1. /\ fr \in Seq(FrameSet) /\ Standing(g.blocks, cur, fr) /\ Scoped(fr, sc) /\ Len(fr) \in Nat
      /\ sc \in Seq(ScopeSet)
  BY SoundIs DEF Sound
<1>2. Standing(g.blocks, cur, other)
  <2>1. Len(other) \in Nat /\ Len(other) <= Len(fr)
    BY <1>1
  <2> QED BY <1>1, <2>1, FewerStand
<1>3. Scoped(other, sc)
  BY <1>1, ScopedSame
<1>4. Resulting(g.blocks, other)
  BY DEF Resulting
<1> QED BY <1>2, <1>3, <1>4 DEF Sound, WalkTyped

LEMMA OperandIs ==
  ASSUME NEW bl, NEW val \in Nat, NEW from \in 1 .. Len(bl), NEW known \in BOOLEAN, NEW args, Args(bl, args)
  PROVE  Args(bl, Append(args, Operand(val, from, known)))
<1> DEFINE e == Operand(val, from, known)
           r == Append(args, e)
<1>1. e \in OperandSet /\ e.from = from
  BY DEF Operand, OperandSet
<1>2. args \in Seq(OperandSet) /\ Len(args) \in Nat
  BY LenProperties DEF Args
<1> HIDE DEF e
<1>3. /\ r \in Seq(OperandSet) /\ Len(r) = Len(args) + 1 /\ r[Len(args) + 1] = e
      /\ \A j \in 1 .. Len(args) : r[j] = args[j]
  BY <1>1, <1>2, Appended
<1> HIDE DEF r
<1>4. ASSUME NEW i \in 1 .. Len(r)
      PROVE  r[i].from \in 1 .. Len(bl)
  <2>1. CASE i \in 1 .. Len(args)
    BY <1>3, <2>1 DEF Args
  <2>2. CASE i = Len(args) + 1
    BY <1>1, <1>3, <2>2
  <2> QED BY <1>2, <1>3, <2>1, <2>2
<1> QED BY <1>3, <1>4 DEF Args, r, e

(* A jump leads to the end of the block or loop.                           *)
LEMMA HeadOf ==
  ASSUME NEW s \in Seq(Nat), Len(s) # 0
  PROVE  Head(s) = s[1]
<1>1. s # <<>>
  OBVIOUS
<1> QED BY <1>1

LEMMA HeadIs ==
  ASSUME NEW bl, NEW f \in FrameSet, Owns(bl, f), f.kind \notin Statements
  PROVE  Len(f.ends) \in Nat /\ 1 \in 1 .. Len(f.ends) /\ Head(f.ends) = f.ends[1] /\ f.ends[1] \in 1 .. Len(bl)
<1>1. f.ends \in Seq(Nat) /\ (Len(f.ends) = 1 \/ Len(f.ends) = 3 \/ Len(f.ends) = 5)
  BY DEF FrameSet, Owns, Shaped
<1>2. f.ends \in Seq(Nat) /\ Len(f.ends) # 0
  BY <1>1
<1>3. Head(f.ends) = f.ends[1]
  BY <1>2, HeadOf
<1>4. Len(f.ends) \in Nat /\ 1 \in 1 .. Len(f.ends)
  <2>1. Len(f.ends) \in Nat
    BY <1>2, LenProperties
  <2> QED BY <1>2, <2>1
<1>5. \A k \in 1 .. Len(f.ends) : f.ends[k] \in 1 .. Len(bl)
  BY DEF Owns
<1> QED BY <1>3, <1>4, <1>5

LEMMA JumpStep ==
  ASSUME BuildInv, Jump
  PROVE  BuildInv'
<1> DEFINE i == Top.target
           frame == frames[i]
           results == IF value = Void THEN frame.results
                      ELSE Append(frame.results, Operand(value, current, TRUE))
           with == [frame EXCEPT !.results = results]
           fr == [frames EXCEPT ![i] = with]
           h == Branch(Graph, current, Head(frame.ends))
<1>1. frames # <<>> /\ Top.kind \in Jumps /\ value # Pending
  BY DEF Jump, Built, In, Jumps
<1>2. /\ Sound(Graph, current, frames, scope, value) /\ Graph.blocks = blocks /\ Graph.values = values
      /\ wild \in BOOLEAN /\ Len(values) \in Nat /\ current \in 1 .. Len(blocks) /\ IsGraph(Graph)
      /\ frames \in Seq(FrameSet) /\ Len(frames) \in Nat /\ value \in Pending .. Len(values)
  BY InvHolds, Facts
<1>3. /\ Top = frames[Len(frames)] /\ Len(frames) \in Nat \ {0}
      /\ ScopedAt(frames, Len(frames), scope)
  BY <1>1, TopFacts
<1>4. i \in 1 .. Len(frames) - 1 /\ frame.kind \in {"block", "while"}
  BY <1>1, <1>3 DEF ScopedAt
<1>5. i \in 1 .. Len(frames) /\ frame \in FrameSet /\ frame.kind \notin Statements
      /\ Owns(blocks, frame) /\ Args(blocks, frame.results)
  <2>1. i \in 1 .. Len(frames)
    BY <1>3, <1>4
  <2>2. frame \in FrameSet
    BY <1>2, <2>1, ElementOfSeq
  <2>3. Owns(blocks, frame) /\ Args(blocks, frame.results)
    BY <1>2, <2>1 DEF Sound, Standing, Behind, Resulting
  <2> QED BY <1>4, <2>1, <2>2, <2>3 DEF Statements, Jumps
<1> HIDE DEF i
<1>6. Head(frame.ends) \in 1 .. Len(blocks)
  BY <1>5, HeadIs
<1>7. /\ IsGraph(h) /\ h.values = values /\ Len(h.blocks) = Len(blocks)
      /\ Grown(blocks, h.blocks, current)
  BY <1>2, <1>6, BranchIs
<1>8. Args(blocks, results)
  <2>1. CASE value = Void
    BY <1>5, <2>1
  <2>2. CASE value # Void
    <3>1. value \in Nat
      BY <1>1, <1>2 DEF Pending
    <3> QED BY <1>2, <1>5, <2>2, <3>1, OperandIs
  <2> QED BY <2>1, <2>2
<1> HIDE DEF results
<1>9. with \in FrameSet /\ Alike(frame, with) /\ SameScope(frame, with) /\ with.results = results
  <2>1. results \in Seq(OperandSet)
    BY <1>8 DEF Args
  <2> HIDE DEF frame
  <2> QED BY <1>5, <2>1 DEF FrameSet, Alike, SameScope
<1> HIDE DEF with
<1>10. /\ fr \in Seq(FrameSet) /\ Len(fr) = Len(frames) /\ fr[i] = with
       /\ \A j \in 1 .. Len(frames) : j # i => fr[j] = frames[j]
  BY <1>2, <1>5, <1>9, Replaced
<1> HIDE DEF h
<1>11. Sound(h, current, frames, scope, value)
  <2>1. Len(values) <= Len(h.values)
    BY <1>2, <1>7
  <2> QED BY <1>2, <1>7, <2>1, SoundGrown
<1>12. Becomes(h)
  BY DEF Jump, h, i
<1>13. frames' = Front(fr)
  <2>1. frames' = Front([frames EXCEPT ![i].results = IF value = Void THEN @ ELSE Append(@, Operand(value, current, TRUE))])
    BY DEF Jump, i
  <2>2. [frames EXCEPT ![i].results = IF value = Void THEN @ ELSE Append(@, Operand(value, current, TRUE))] = fr
    BY DEF with, results
  <2> QED BY <2>1, <2>2
<1> HIDE DEF fr
<1>14. Sound(h, current, fr, scope, value)
  <2>1. ASSUME NEW j \in 1 .. Len(frames)
        PROVE  /\ Alike(frames[j], fr[j]) /\ SameScope(frames[j], fr[j])
               /\ Args(h.blocks, fr[j].results)
    <3>1. CASE j = i
      BY <1>7, <1>8, <1>9, <1>10, <3>1 DEF Args
    <3>2. CASE j # i
      <4>1. fr[j] = frames[j] /\ Args(h.blocks, frames[j].results)
        BY <1>10, <1>11, <3>2 DEF Sound, Resulting
      <4> QED BY <4>1 DEF Alike, SameScope
    <3> QED BY <3>1, <3>2
  <2> QED BY <1>10, <1>11, <2>1, SoundResults
<1>15. fr # <<>> /\ fr[Len(fr)].kind # "block"
  <2>1. Len(frames) # i
    BY <1>3, <1>4
  <2>2. fr[Len(fr)] = frames[Len(frames)]
    BY <1>3, <1>10, <2>1
  <2> QED BY <1>1, <1>3, <1>10, <2>2, EmptySeq DEF Jumps
<1>16. Sound(h, current, Front(fr), scope, Pending)
  <2>1. Pending \in Pending .. Len(h.values)
    BY <1>2, <1>7 DEF Pending
  <2> QED BY <1>14, <1>15, <2>1, SoundPop, SoundValue
<1>17. value' = Pending /\ current' = current /\ wild' = wild /\ scope' = scope
  BY DEF Jump
<1>18. Sound(h, current', frames', scope', value')
  BY <1>13, <1>16, <1>17
<1> QED BY <1>2, <1>12, <1>17, <1>18, InvNext

(* Phis get another operand each.                                          *)
LEMMA ContinueStep ==
  ASSUME BuildInv, NEW i, Continue(i)
  PROVE  BuildInv'
<1> DEFINE cond == frames[i].ends[2]
           g == Branch(Graph, current, cond)
           list == blocks[current].vars
           plain == {k \in DOMAIN blocks[cond].vars : blocks[cond].vars[k].name \notin Addressed}
           of(v) == {k \in plain : HeaderOf(blocks[cond], k) = v}
           operand(v) == Operand(list[CHOOSE k \in of(v) : TRUE].value, current, FALSE)
           more(v) == [values[v] EXCEPT !.args = Append(@, operand(v)), !.grown = TRUE]
           vs == [v \in DOMAIN values |-> IF of(v) = {} THEN values[v] ELSE more(v)]
           h == [g EXCEPT !.values = vs]
<1>1. /\ Sound(Graph, current, frames, scope, value) /\ Graph.blocks = blocks /\ Graph.values = values
      /\ wild \in BOOLEAN /\ Len(values) \in Nat /\ current \in 1 .. Len(blocks) /\ IsGraph(Graph)
      /\ frames \in Seq(FrameSet) /\ Len(frames) \in Nat /\ value \in Pending .. Len(values)
      /\ list \in Seq(VariableSet) /\ Len(blocks) \in Nat
  BY InvHolds, Facts
<1>2. i \in 1 .. Len(frames) /\ frames[i].kind = "while"
  <2>1. DOMAIN frames = 1 .. Len(frames)
    BY <1>1, LenProperties
  <2> QED BY <2>1 DEF Continue
<1>3. cond \in 1 .. Len(blocks)
  <2>1. Owns(blocks, frames[i])
    BY <1>1, <1>2 DEF Sound, Standing, Behind
  <2> QED BY <1>2, <2>1, ShapedIs DEF Owns
<1> HIDE DEF cond
<1>4. /\ IsGraph(g) /\ g.values = values /\ Grown(blocks, g.blocks, current) /\ Len(g.blocks) = Len(blocks)
  BY <1>1, <1>3, BranchIs
<1>5. \A k \in plain : k \in DOMAIN list
  BY DEF Continue, cond
<1> HIDE DEF plain, g
<1>6. ASSUME NEW v \in 1 .. Len(values)
      PROVE  /\ (IF of(v) = {} THEN values[v] ELSE more(v)) \in ValueSet
             /\ Args(g.blocks, (IF of(v) = {} THEN values[v] ELSE more(v)).args)
  <2>1. values[v] \in ValueSet /\ Args(g.blocks, values[v].args)
    BY <1>4, ValueArgs DEF IsGraph
  <2>2. CASE of(v) = {}
    BY <2>1, <2>2
  <2>3. CASE of(v) # {}
    <3>1. PICK k : k = (CHOOSE j \in of(v) : TRUE)
      OBVIOUS
    <3>2. k \in of(v)
      BY <2>3, <3>1
    <3>3. k \in 1 .. Len(list)
      BY <1>1, <1>5, <3>2, LenProperties
    <3>4. list[k].value \in 1 .. Len(values)
      BY <1>1, <3>3, GraphBlock
    <3>5. list[k].value \in Nat /\ current \in 1 .. Len(g.blocks)
      BY <1>1, <1>4, <3>4
    <3>6. operand(v) = Operand(list[k].value, current, FALSE)
      BY <3>1
    <3> HIDE DEF operand
    <3> DEFINE args == Append(values[v].args, operand(v))
    <3>7. Args(g.blocks, args)
      BY <2>1, <3>5, <3>6, OperandIs
    <3>8. args \in Seq(OperandSet)
      BY <3>7 DEF Args
    <3>9. more(v) = [values[v] EXCEPT !.args = args, !.grown = TRUE]
      OBVIOUS
    <3> HIDE DEF args, more
    <3>10. more(v) \in ValueSet /\ more(v).args = args
      BY <2>1, <3>8, <3>9 DEF ValueSet
    <3> QED BY <2>3, <3>7, <3>10
  <2> QED BY <2>2, <2>3
<1>7. vs \in Seq(ValueSet) /\ Len(vs) = Len(values) /\ \A v \in 1 .. Len(values) : Args(g.blocks, vs[v].args)
  <2>1. DOMAIN values = 1 .. Len(values)
    <3>1. values \in Seq(ValueSet)
      BY <1>4 DEF IsGraph, WellTyped
    <3> QED BY <3>1, LenProperties
  <2> HIDE DEF more, of
  <2>2. vs \in [1 .. Len(values) -> ValueSet]
    BY <1>6, <2>1
  <2>3. vs \in Seq(ValueSet) /\ Len(vs) = Len(values)
    BY <1>1, <2>2, Repeated
  <2>4. \A v \in 1 .. Len(values) : Args(g.blocks, vs[v].args)
    BY <1>6, <2>1
  <2> QED BY <2>3, <2>4
<1>8. blocks' = g.blocks /\ values' = vs
  BY DEF Continue, g, cond, plain
<1> HIDE DEF vs
<1>9. IsGraph(h) /\ h.blocks = g.blocks /\ h.values = vs
  <2>1. WellTyped(g.blocks, vs)
    <3>1. WellTyped(g.blocks, values) /\ Len(values) <= Len(vs)
      BY <1>1, <1>4, <1>7 DEF IsGraph
    <3> QED BY <1>7, <3>1, ValuesGrow
  <2>2. h = [blocks |-> g.blocks, values |-> vs, degree |-> g.degree] /\ g.degree \in Nat
    BY <1>4 DEF IsGraph
  <2> HIDE DEF h
  <2> QED BY <2>1, <2>2 DEF IsGraph
<1> HIDE DEF h
<1>10. Becomes(h)
  BY <1>8, <1>9 DEF Becomes
<1>11. current' = current /\ frames' = frames /\ scope' = scope /\ wild' = wild /\ value' = value
  BY DEF Continue
<1>12. Len(values) <= Len(h.values) /\ value' \in Pending .. Len(h.values)
  BY <1>1, <1>7, <1>9, <1>11
<1> QED BY <1>4, <1>9, <1>10, <1>11, <1>12, GrowsNext

(***************************************************************************)
(* Branches and loops, from one block to the next.                         *)
(***************************************************************************)
LEMMA PlacedBegins ==
  ASSUME NEW g, IsGraph(g), NEW b \in 1 .. Len(g.blocks)
  PROVE  Begins(g, Placed(g, b), b) /\ Placed(g, b).values = g.values
<1> DEFINE p == Placed(g, b)
<1>1. /\ IsGraph(p) /\ p.values = g.values /\ OnlyBlock(g.blocks, p.blocks, b)
      /\ Begun(p.blocks, b) /\ p.blocks[b].vars = g.blocks[b].vars
  BY PlacedIs
<1>2. Len(g.values) \in Nat
  BY GraphBlock
<1> HIDE DEF p
<1>3. Begins(g, p, b) /\ p.values = g.values
  BY <1>1, <1>2 DEF Begins
<1> QED BY <1>3 DEF p

LEMMA PhiBegins ==
  ASSUME NEW g, IsGraph(g), NEW b \in 1 .. Len(g.blocks), NEW p, Begins(g, p, b), NEW args, Args(g.blocks, args)
  PROVE  Begins(g, WithPhi(p, b, args), b) /\ Len(WithPhi(p, b, args).values) = Len(p.values) + 1
<1> DEFINE h == WithPhi(p, b, args)
<1>1. IsGraph(p) /\ Len(p.blocks) = Len(g.blocks) /\ Len(g.values) <= Len(p.values)
  BY DEF Begins, OnlyBlock
<1>2. b \in 1 .. Len(p.blocks) /\ Args(p.blocks, args)
  BY <1>1 DEF Args
<1>3. IsGraph(h) /\ h.blocks = p.blocks /\ Len(h.values) = Len(p.values) + 1
  BY <1>1, <1>2, WithPhiIs
<1>4. Len(g.values) \in Nat /\ Len(p.values) \in Nat
  BY <1>1, <1>2, GraphBlock
<1> HIDE DEF h
<1>5. Begins(g, h, b)
  BY <1>1, <1>3, <1>4 DEF Begins
<1> QED BY <1>3, <1>5 DEF h

(* The construct begins its k-th block.                                    *)
LEMMA TopEnters ==
  ASSUME BuildInv, NEW g, IsGraph(g), Grown(blocks, g.blocks, current), Len(values) <= Len(g.values),
         frames # <<>>, NEW k \in Waiting(Top), g.blocks[Top.ends[k]].preds # <<>>
  PROVE  /\ Sound(g, current, frames, scope, value)
         /\ Enters(g, current, frames, Top.ends[k]) /\ Top.ends[k] \in 1 .. Len(g.blocks)
         /\ Len(g.blocks) \in Nat /\ Len(g.values) \in Nat
         /\ Pending \in Pending .. Len(g.values) /\ Void \in Pending .. Len(g.values)
<1>1. Sound(Graph, current, frames, scope, value) /\ Graph.blocks = blocks /\ Graph.values = values
  BY InvHolds
<1>2. Sound(g, current, frames, scope, value)
  BY <1>1, SoundGrown
<1>3. Top = frames[Len(frames)]
  BY TopFacts
<1>4. Enters(g, current, frames, Top.ends[k])
  BY <1>2, <1>3, SoundEnters
<1>5. Top.ends[k] \in 1 .. Len(g.blocks)
  BY <1>4, EntersBlock
<1>6. Len(g.blocks) \in Nat /\ Len(g.values) \in Nat
  BY <1>2, SoundIs
<1>7. Pending \in Pending .. Len(g.values) /\ Void \in Pending .. Len(g.values)
  BY <1>6 DEF Pending, Void
<1> QED BY <1>2, <1>4, <1>5, <1>6, <1>7

LEMMA TurnNext ==
  ASSUME BuildInv, NEW g, IsGraph(g), Grown(blocks, g.blocks, current), Len(values) <= Len(g.values),
         frames # <<>>, Top.kind # "block", NEW k \in Waiting(Top), g.blocks[Top.ends[k]].preds # <<>>,
         NEW f \in FrameSet, Turns(g.blocks, Top, f), SameScope(Top, f), Args(g.blocks, f.results),
         k \notin Waiting(f), NEW b, b = Top.ends[k], Becomes(Transitions(Placed(g, b), b)),
         current' = b, Becoming(f), value' = Pending, scope' = scope, wild' \in BOOLEAN
  PROVE  BuildInv'
<1> DEFINE p == Placed(g, b)
<1>1. /\ Sound(g, current, frames, scope, value) /\ Enters(g, current, frames, b) /\ b \in 1 .. Len(g.blocks)
      /\ Pending \in Pending .. Len(g.values)
  BY TopEnters
<1>2. Begins(g, p, b) /\ Pending \in Pending .. Len(p.values)
  BY <1>1, PlacedBegins
<1> HIDE DEF p
<1>3. Top = frames[Len(frames)] /\ Owns(blocks, Top)
  BY TopFacts
<1>4. \A l \in Waiting(f) : f.ends[l] # b
  <2>1. Waiting(f) \subseteq Waiting(Top) /\ f.ends = Top.ends
    BY DEF Turns
  <2> QED BY <1>3, <2>1 DEF Owns
<1>5. Sound(Transitions(p, b), b, ReplaceAt(frames, Len(frames), f), scope, Pending)
  BY <1>1, <1>2, <1>3, <1>4, SoundEntered
<1>6. Sound(Transitions(p, b), current', frames', scope', value')
  BY <1>5 DEF Becoming
<1>7. Becomes(Transitions(p, b))
  BY DEF p
<1> QED BY <1>6, <1>7, InvNext

LEMMA IfConditionStep ==
  ASSUME BuildInv, IfCondition
  PROVE  BuildInv'
<1> DEFINE then == Top.ends[2]
           else == Top.ends[3]
           u == Used(Graph, current, value, FALSE)
           targets == {then, else}
           exit == blocks[current].vars
           g == Jumped(u, current, targets, exit)
<1>1. frames # <<>> /\ Top.kind = "if" /\ Top.phase = "condition" /\ value \notin {Pending, Void}
  BY DEF IfCondition, Built, In
<1>2. /\ Top \in FrameSet /\ Owns(blocks, Top) /\ Shaped(Top) /\ Args(blocks, Top.results)
  BY <1>1, TopFacts
<1>3. /\ IsGraph(Graph) /\ Graph.blocks = blocks /\ Graph.values = values
      /\ current \in 1 .. Len(blocks) /\ Len(values) \in Nat /\ Len(blocks) \in Nat
      /\ blocks[current].vars \in Seq(VariableSet) /\ wild \in BOOLEAN
  BY Facts
<1>4. Waiting(Top) = {1, 2, 3} /\ Reached(Top) = {2, 3}
  BY <1>1 DEF Waiting, Reached
<1>5. /\ Len(Top.ends) = 3 /\ then \in 1 .. Len(blocks) /\ else \in 1 .. Len(blocks)
      /\ blocks[then].preds # <<>> /\ blocks[else].preds # <<>>
  <2>1. Len(Top.ends) = 3
    BY <1>1, <1>2 DEF Shaped, Statements, Jumps
  <2> QED BY <1>2, <1>4, <2>1 DEF Owns
<1>6. value \in Nat /\ current \in Nat
  <2>1. value \in 1 .. Len(values)
    BY <1>1, StoredIs
  <2> QED BY <1>3, <2>1
<1>7. IsGraph(u) /\ u.blocks = blocks /\ Len(u.values) = Len(values)
  BY <1>3, <1>6, UsedIs
<1>8. Becomes(Transitions(Placed(g, then), then)) 
  BY DEF IfCondition, Jumped
<1> HIDE DEF u
<1>9. targets \in SUBSET Nat /\ exit \in Seq(VariableSet) /\ current \in 1 .. Len(u.blocks)
  BY <1>3, <1>5, <1>7
<1> HIDE DEF targets, exit
<1>10. /\ IsGraph(g) /\ g.values = u.values /\ Len(g.blocks) = Len(blocks) /\ Grown(blocks, g.blocks, current)
  BY <1>7, <1>9, JumpingIs
<1> HIDE DEF g
<1>11. g.blocks[then].preds # <<>> /\ g.blocks[else].preds # <<>>
  BY <1>5, <1>10 DEF Grown
<1>12. Len(values) <= Len(g.values)
  BY <1>3, <1>7, <1>10
<1>13. ASSUME NEW f, f = [Top EXCEPT !.phase = "then"]
       PROVE  /\ f \in FrameSet /\ Turns(g.blocks, Top, f) /\ SameScope(Top, f) /\ Args(g.blocks, f.results)
              /\ 2 \notin Waiting(f)
  <2>1. /\ f.kind = Top.kind /\ f.phase = "then" /\ f.ends = Top.ends /\ f.old = Top.old /\ f.scope = Top.scope
        /\ f.name = Top.name /\ f.target = Top.target /\ f.results = Top.results
    BY <1>2, <1>13 DEF FrameSet
  <2>2. f \in FrameSet
    BY <1>2, <1>13 DEF FrameSet, Phases
  <2>3. Waiting(f) = {1, 3} /\ Reached(f) = {3}
    BY <1>1, <2>1 DEF Waiting, Reached
  <2>4. Shaped(f)
    BY <1>1, <1>5, <2>1 DEF Shaped
  <2>5. Turns(g.blocks, Top, f)
    BY <1>4, <1>11, <2>1, <2>3, <2>4 DEF Turns
  <2>6. SameScope(Top, f) /\ Args(g.blocks, f.results)
    BY <1>2, <1>10, <2>1 DEF SameScope, Args
  <2> QED BY <2>2, <2>3, <2>5, <2>6
<1>14. Becoming([Top EXCEPT !.phase = "then"]) /\ current' = then /\ value' = Pending /\ scope' = scope /\ wild' = wild
  BY DEF IfCondition
<1>15. 2 \in Waiting(Top) /\ Top.kind # "block"
  BY <1>1, <1>4
<1> HIDE DEF then, else
<1>16. then = Top.ends[2]
  BY DEF then
<1> HIDE DEF Top
<1> QED BY <1>1, <1>3, <1>8, <1>10, <1>11, <1>12, <1>13, <1>14, <1>15, <1>16, TurnNext

LEMMA IfThenStep ==
  ASSUME BuildInv, IfThen
  PROVE  BuildInv'
<1> DEFINE else == Top.ends[3]
           g == Branch(Graph, current, Head(Top.ends))
           next == [Top EXCEPT !.phase = "more", !.arms = @ /\ value # Void,
                     !.results = Append(@, Operand(value, current, TRUE))]
<1>1. frames # <<>> /\ Top.kind = "if" /\ Top.phase = "then" /\ value # Pending
  BY DEF IfThen, Built, In
<1>2. /\ Top \in FrameSet /\ Owns(blocks, Top) /\ Shaped(Top) /\ Args(blocks, Top.results)
  BY <1>1, TopFacts
<1>3. /\ IsGraph(Graph) /\ Graph.blocks = blocks /\ Graph.values = values
      /\ current \in 1 .. Len(blocks) /\ Len(values) \in Nat /\ Len(blocks) \in Nat
      /\ wild \in BOOLEAN /\ value \in Nat
  BY <1>1, Facts DEF Pending
<1>4. Waiting(Top) = {1, 3} /\ Reached(Top) = {3}
  BY <1>1 DEF Waiting, Reached
<1>5. /\ Len(Top.ends) = 3 /\ Head(Top.ends) \in 1 .. Len(blocks) /\ else \in 1 .. Len(blocks)
      /\ blocks[else].preds # <<>>
  <2>1. Len(Top.ends) = 3
    BY <1>1, <1>2 DEF Shaped, Statements, Jumps
  <2>2. Head(Top.ends) \in 1 .. Len(blocks)
    BY <1>1, <1>2, HeadIs DEF Statements, Jumps
  <2> QED BY <1>2, <1>4, <2>1, <2>2 DEF Owns
<1>8. Becomes(Transitions(Placed(g, else), else))
  BY DEF IfThen
<1>10. /\ IsGraph(g) /\ g.values = values /\ Len(g.blocks) = Len(blocks) /\ Grown(blocks, g.blocks, current)
  BY <1>3, <1>5, BranchIs
<1> HIDE DEF g
<1>11. g.blocks[else].preds # <<>>
  BY <1>5, <1>10 DEF Grown
<1>12. Len(values) <= Len(g.values)
  BY <1>3, <1>10
<1>13. ASSUME NEW f, f = next
       PROVE  /\ f \in FrameSet /\ Turns(g.blocks, Top, f) /\ SameScope(Top, f) /\ Args(g.blocks, f.results)
              /\ 3 \notin Waiting(f)
  <2> DEFINE args == Append(Top.results, Operand(value, current, TRUE))
             arms == Top.arms /\ value # Void
  <2>1. /\ f.kind = Top.kind /\ f.phase = "more" /\ f.ends = Top.ends /\ f.old = Top.old /\ f.scope = Top.scope
        /\ f.name = Top.name /\ f.target = Top.target /\ f.results = args
    BY <1>2, <1>13 DEF FrameSet
  <2>2. Args(blocks, args)
    BY <1>2, <1>3, OperandIs
  <2>3. f = [Top EXCEPT !.phase = "more", !.arms = arms, !.results = args]
    BY <1>13
  <2> HIDE DEF args
  <2>4. args \in Seq(OperandSet) /\ arms \in BOOLEAN
    BY <2>2 DEF Args
  <2> HIDE DEF arms
  <2>5. f \in FrameSet
    BY <1>2, <2>3, <2>4 DEF FrameSet, Phases
  <2>6. Waiting(f) = {1} /\ Reached(f) = {}
    BY <1>1, <2>1 DEF Waiting, Reached
  <2>7. Shaped(f)
    BY <1>1, <1>5, <2>1 DEF Shaped
  <2>8. Turns(g.blocks, Top, f)
    BY <1>4, <2>1, <2>6, <2>7 DEF Turns
  <2>9. SameScope(Top, f) /\ Args(g.blocks, f.results)
    BY <1>10, <2>1, <2>2 DEF SameScope, Args
  <2> QED BY <2>5, <2>6, <2>8, <2>9
<1>14. Becoming(next) /\ current' = else /\ value' = Pending /\ scope' = scope /\ wild' = wild
  BY DEF IfThen
<1>15. 3 \in Waiting(Top) /\ Top.kind # "block"
  BY <1>1, <1>4
<1> HIDE DEF else, next
<1>16. else = Top.ends[3]
  BY DEF else
<1> HIDE DEF Top
<1> QED BY <1>1, <1>3, <1>8, <1>10, <1>11, <1>12, <1>13, <1>14, <1>15, <1>16, TurnNext

(* A construct that waits for its end only, and begins that.               *)
LEMMA EndIs ==
  ASSUME BuildInv, frames # <<>>, Top.kind \in {"block", "if", "while"},
         Top.phase \in {"statements", "more", "else"}
  PROVE  LET g == Branch(Graph, current, Head(Top.ends))
         IN  /\ Head(Top.ends) \in 1 .. Len(g.blocks) /\ IsGraph(g) /\ g.values = values
             /\ Len(g.blocks) = Len(blocks)
             /\ Sound(g, current, frames, scope, value) /\ Enters(g, current, frames, Head(Top.ends))
             /\ Len(g.values) \in Nat
<1> DEFINE g == Branch(Graph, current, Head(Top.ends))
<1>1. Top \in FrameSet /\ Owns(blocks, Top) /\ Shaped(Top)
  BY TopFacts
<1>2. IsGraph(Graph) /\ Graph.blocks = blocks /\ Graph.values = values /\ current \in 1 .. Len(blocks) /\ Len(values) \in Nat
  BY Facts
<1>3. Head(Top.ends) = Top.ends[1] /\ Top.ends[1] \in 1 .. Len(blocks)
  BY <1>1, HeadIs DEF Statements, Jumps
<1>4. Waiting(Top) = {1}
  BY <1>1 DEF Waiting, Shaped, Statements, Jumps
<1>5. /\ IsGraph(g) /\ g.values = values /\ Len(g.blocks) = Len(blocks)
      /\ Grown(blocks, g.blocks, current) /\ g.blocks[Head(Top.ends)].preds # <<>>
  BY <1>2, <1>3, BranchIs
<1> HIDE DEF g
<1>6. Len(values) <= Len(g.values) /\ 1 \in Waiting(Top) /\ g.blocks[Top.ends[1]].preds # <<>>
  BY <1>2, <1>3, <1>4, <1>5
<1>7. Sound(g, current, frames, scope, value) /\ Enters(g, current, frames, Top.ends[1])
  BY <1>5, <1>6, TopEnters
<1> QED BY <1>2, <1>3, <1>5, <1>7 DEF g

LEMMA IfEndsNext ==
  ASSUME BuildInv, frames # <<>>, Top.kind = "if", Top.phase \in {"more", "else"},
         NEW typed \in BOOLEAN, NEW results, Args(blocks, results), IfEnds(typed, results), wild' = wild
  PROVE  BuildInv'
<1> DEFINE end == Head(Top.ends)
           g == Branch(Graph, current, end)
           p == Placed(g, end)
           h == Transitions(p, end)
           q == WithPhi(h, end, results)
<1>1. /\ end \in 1 .. Len(g.blocks) /\ IsGraph(g) /\ g.values = values
      /\ Len(g.blocks) = Len(blocks)
      /\ Sound(g, current, frames, scope, value) /\ Enters(g, current, frames, end)
      /\ Len(g.values) \in Nat
  BY EndIs
<1> HIDE DEF g
<1>2. Begins(g, p, end) /\ p.values = values
  BY <1>1, PlacedBegins
<1>3. Void \in Pending .. Len(p.values)
  BY <1>1, <1>2 DEF Pending, Void
<1>4. frames[Len(frames)].kind # "block"
  BY TopFacts
<1> HIDE DEF p
<1>5. /\ Sound(h, end, Front(frames), scope, Void)
      /\ Len(h.blocks) = Len(g.blocks)
  BY <1>1, <1>2, <1>3, <1>4, SoundLeft, TransitionsKeep
<1>6. /\ Becomes(IF typed THEN q ELSE h) /\ current' = end /\ frames' = Front(frames)
      /\ value' = (IF typed THEN Len(h.values) + 1 ELSE Void) /\ scope' = scope
  BY DEF IfEnds, Close, g, p
<1> HIDE DEF h, end
<1>7. CASE ~typed
  <2>1. Becomes(h) /\ Sound(h, current', frames', scope', value')
    BY <1>5, <1>6, <1>7
  <2>2. wild' \in BOOLEAN
    BY Facts
  <2> QED BY <2>1, <2>2, InvNext
<1>8. CASE typed
  <2>1. IsGraph(h) /\ end \in 1 .. Len(h.blocks) /\ Args(h.blocks, results) /\ Len(h.values) \in Nat
    BY <1>1, <1>5, SoundIs DEF Args
  <2>2. IsGraph(q) /\ q.blocks = h.blocks /\ Len(q.values) = Len(h.values) + 1
    BY <2>1, WithPhiIs
  <2> HIDE DEF q
  <2>3. Len(h.values) <= Len(q.values) /\ Len(h.values) + 1 \in Pending .. Len(q.values)
    BY <2>1, <2>2 DEF Pending
  <2>4. Sound(q, end, Front(frames), scope, Len(h.values) + 1)
    BY <1>5, <2>2, <2>3, SoundSame, SoundValue
  <2>5. Becomes(q) /\ Sound(q, current', frames', scope', value')
    BY <1>6, <1>8, <2>4
  <2>6. wild' \in BOOLEAN
    BY Facts
  <2> QED BY <2>5, <2>6, InvNext
<1> QED BY <1>7, <1>8

LEMMA IfWithoutElseStep ==
  ASSUME BuildInv, IfWithoutElse
  PROVE  BuildInv'
<1>1. frames # <<>> /\ Top.kind = "if" /\ Top.phase = "more"
  BY DEF IfWithoutElse, In
<1>2. IfEnds(FALSE, <<>>) /\ wild' = wild
  BY DEF IfWithoutElse, IfEnds
<1>3. Args(blocks, <<>>)
  BY EmptySeq DEF Args
<1> QED BY <1>1, <1>2, <1>3, IfEndsNext

LEMMA IfEndStep ==
  ASSUME BuildInv, IfEnd
  PROVE  BuildInv'
<1> DEFINE typed == Top.arms /\ value # Void
           args == Append(Top.results, Operand(value, current, TRUE))
<1>1. frames # <<>> /\ Top.kind = "if" /\ Top.phase = "else" /\ value # Pending
  BY DEF IfEnd, Built, In
<1>2. IfEnds(typed, args) /\ wild' = wild
  BY DEF IfEnd, IfEnds
<1>3. Args(blocks, Top.results) /\ Top \in FrameSet
  BY <1>1, TopFacts
<1>4. value \in Nat /\ current \in 1 .. Len(blocks)
  BY <1>1, Facts DEF Pending
<1>5. Args(blocks, args)
  BY <1>3, <1>4, OperandIs
<1>6. typed \in BOOLEAN
  BY <1>3 DEF FrameSet
<1> HIDE DEF args, typed
<1> QED BY <1>1, <1>2, <1>5, <1>6, IfEndsNext

LEMMA WhileEndsNext ==
  ASSUME BuildInv, frames # <<>>, Top.kind = "while", Top.phase \in {"more", "else"},
         NEW result \in Nat, WhileEnds(result)
  PROVE  BuildInv'
<1> DEFINE end == Head(Top.ends)
           g == Branch(Graph, current, end)
           jumped == Placed(g, end)
           typed == result # Void
           args == Append(Top.results, Operand(result, Top.ends[4], TRUE))
           p == IF typed THEN WithPhi(jumped, end, args) ELSE jumped
           h == Transitions(p, end)
           val == IF typed THEN Len(jumped.values) + 1 ELSE Void
<1>1. /\ end \in 1 .. Len(g.blocks) /\ IsGraph(g) /\ g.values = values
      /\ Len(g.blocks) = Len(blocks)
      /\ Sound(g, current, frames, scope, value) /\ Enters(g, current, frames, end)
      /\ Len(g.values) \in Nat
  BY EndIs
<1> HIDE DEF g
<1>2. Begins(g, jumped, end) /\ jumped.values = g.values
  BY <1>1, PlacedBegins
<1>3. Args(g.blocks, args)
  <2>1. Owns(blocks, Top) /\ Shaped(Top) /\ Args(blocks, Top.results)
    BY TopFacts
  <2>2. Len(Top.ends) = 5
    BY <2>1 DEF Shaped, Statements, Jumps
  <2>3. Top.ends[4] \in 1 .. Len(blocks)
    BY <2>1, <2>2 DEF Owns
  <2>4. Args(blocks, args)
    BY <2>1, <2>3, OperandIs
  <2> HIDE DEF args
  <2> QED BY <1>1, <2>4 DEF Args
<1>4. frames[Len(frames)].kind # "block"
  BY TopFacts
<1> HIDE DEF jumped, args
<1>5. Begins(g, p, end) /\ val \in Pending .. Len(p.values)
  <2>1. CASE typed
    <3>1. Begins(g, WithPhi(jumped, end, args), end) /\ Len(WithPhi(jumped, end, args).values) = Len(jumped.values) + 1
      BY <1>1, <1>2, <1>3, PhiBegins
    <3>2. val = Len(jumped.values) + 1 /\ p = WithPhi(jumped, end, args)
      BY <2>1
    <3> QED BY <1>1, <1>2, <3>1, <3>2 DEF Pending
  <2>2. CASE ~typed
    <3>1. val = 0 /\ p = jumped
      BY <2>2 DEF Void
    <3> QED BY <1>1, <1>2, <3>1 DEF Pending
  <2> QED BY <2>1, <2>2
<1>6. /\ Becomes(h) /\ current' = end /\ frames' = Front(frames)
      /\ value' = val /\ scope' = scope /\ wild' = wild
  BY DEF WhileEnds, Close, g, jumped, args
<1> HIDE DEF p, val, end
<1>7. Sound(h, end, Front(frames), scope, val)
  BY <1>1, <1>4, <1>5, SoundLeft
<1> HIDE DEF h
<1>8. Sound(h, current', frames', scope', value')
  BY <1>6, <1>7
<1>9. wild' \in BOOLEAN
  BY <1>6, Facts
<1> QED BY <1>6, <1>8, <1>9, InvNext

LEMMA WhileWithoutElseStep ==
  ASSUME BuildInv, WhileWithoutElse
  PROVE  BuildInv'
<1>1. frames # <<>> /\ Top.kind = "while" /\ Top.phase = "more" /\ WhileEnds(Void)
  BY DEF WhileWithoutElse, In
<1>2. Void \in Nat
  BY DEF Void
<1> QED BY <1>1, <1>2, WhileEndsNext

LEMMA WhileEndStep ==
  ASSUME BuildInv, WhileEnd
  PROVE  BuildInv'
<1>1. frames # <<>> /\ Top.kind = "while" /\ Top.phase = "else" /\ value # Pending /\ WhileEnds(value)
  BY DEF WhileEnd, Built, In
<1>2. value \in Nat
  BY <1>1, Facts DEF Pending
<1> QED BY <1>1, <1>2, WhileEndsNext

LEMMA WhileConditionStep ==
  ASSUME BuildInv, WhileCondition
  PROVE  BuildInv'
<1> DEFINE then == Top.ends[3]
           else == Top.ends[4]
           targets == {then, else}
           u == Used(Graph, current, value, FALSE)
           jump == Jumping(u, current, targets)
           e == Edge(jump, current, then)
           g == Edge(e, current, else)
<1>1. frames # <<>> /\ Top.kind = "while" /\ Top.phase = "condition" /\ value \notin {Pending, Void}
  BY DEF WhileCondition, Built, In
<1>2. /\ Top \in FrameSet /\ Owns(blocks, Top) /\ Shaped(Top) /\ Args(blocks, Top.results)
  BY <1>1, TopFacts
<1>3. /\ IsGraph(Graph) /\ Graph.blocks = blocks /\ Graph.values = values
      /\ current \in 1 .. Len(blocks) /\ Len(values) \in Nat /\ Len(blocks) \in Nat
      /\ wild \in BOOLEAN
  BY Facts
<1>4. Waiting(Top) = {1, 3, 4}
  BY <1>1 DEF Waiting, Reached
<1>5. Len(Top.ends) = 5 /\ then \in 1 .. Len(blocks) /\ else \in 1 .. Len(blocks)
  <2>1. Len(Top.ends) = 5
    BY <1>1, <1>2 DEF Shaped, Statements, Jumps
  <2> QED BY <1>2, <2>1 DEF Owns
<1>6. value \in Nat /\ current \in Nat
  <2>1. value \in 1 .. Len(values)
    BY <1>1, StoredIs
  <2> QED BY <1>3, <2>1
<1>7. IsGraph(u) /\ u.blocks = blocks /\ Len(u.values) = Len(values)
  BY <1>3, <1>6, UsedIs
<1>8. Becomes(Transitions(Placed(g, then), then))
  BY DEF WhileCondition
<1> HIDE DEF u
<1>9. targets \in SUBSET Nat /\ current \in 1 .. Len(u.blocks)
  BY <1>3, <1>5, <1>7
<1> HIDE DEF targets
<1>10. /\ IsGraph(jump) /\ jump.values = u.values /\ Len(jump.blocks) = Len(blocks)
       /\ Grown(blocks, jump.blocks, current)
  BY <1>7, <1>9, JumpingGrows
<1> HIDE DEF jump
<1>11. /\ IsGraph(e) /\ e.values = u.values /\ Len(e.blocks) = Len(blocks)
       /\ Grown(jump.blocks, e.blocks, current) /\ e.blocks[then].preds # <<>>
  <2>1. then \in 1 .. Len(jump.blocks)
    BY <1>5, <1>10
  <2> QED BY <1>6, <1>10, <2>1, EdgeIs
<1> HIDE DEF e
<1>12. /\ IsGraph(g) /\ g.values = u.values /\ Len(g.blocks) = Len(blocks)
       /\ Grown(e.blocks, g.blocks, current) /\ g.blocks[else].preds # <<>>
  <2>1. else \in 1 .. Len(e.blocks)
    BY <1>5, <1>11
  <2> QED BY <1>6, <1>11, <2>1, EdgeIs
<1> HIDE DEF g
<1>13. Grown(blocks, g.blocks, current) /\ g.blocks[then].preds # <<>>
  <2>1. Grown(blocks, e.blocks, current)
    BY <1>10, <1>11, GrownThrough
  <2>2. Grown(blocks, g.blocks, current)
    BY <1>12, <2>1, GrownThrough
  <2>3. g.blocks[then].preds # <<>>
    BY <1>5, <1>11, <1>12 DEF Grown
  <2> QED BY <2>2, <2>3
<1>14. Len(values) <= Len(g.values)
  BY <1>3, <1>7, <1>12
<1>15. ASSUME NEW f, f = [Top EXCEPT !.phase = "body"]
       PROVE  /\ f \in FrameSet /\ Turns(g.blocks, Top, f) /\ SameScope(Top, f) /\ Args(g.blocks, f.results)
              /\ 3 \notin Waiting(f)
  <2>1. /\ f.kind = Top.kind /\ f.phase = "body" /\ f.ends = Top.ends /\ f.old = Top.old /\ f.scope = Top.scope
        /\ f.name = Top.name /\ f.target = Top.target /\ f.results = Top.results
    BY <1>2, <1>15 DEF FrameSet
  <2>2. f \in FrameSet
    BY <1>2, <1>15 DEF FrameSet, Phases
  <2>3. Waiting(f) = {1, 4} /\ Reached(f) = {4}
    BY <1>1, <2>1 DEF Waiting, Reached
  <2>4. Shaped(f)
    BY <1>1, <1>5, <2>1 DEF Shaped
  <2>5. Turns(g.blocks, Top, f)
    BY <1>4, <1>12, <2>1, <2>3, <2>4 DEF Turns
  <2>6. SameScope(Top, f) /\ Args(g.blocks, f.results)
    BY <1>2, <1>12, <2>1 DEF SameScope, Args
  <2> QED BY <2>2, <2>3, <2>5, <2>6
<1>16. Becoming([Top EXCEPT !.phase = "body"]) /\ current' = then /\ value' = Pending /\ scope' = scope /\ wild' = wild
  BY DEF WhileCondition
<1>17. 3 \in Waiting(Top) /\ Top.kind # "block"
  BY <1>1, <1>4
<1> HIDE DEF then, else
<1>18. then = Top.ends[3]
  BY DEF then
<1> HIDE DEF Top
<1> QED BY <1>1, <1>3, <1>8, <1>12, <1>13, <1>14, <1>15, <1>16, <1>17, <1>18, TurnNext

LEMMA WhileBodyStep ==
  ASSUME BuildInv, WhileBody
  PROVE  BuildInv'
<1> DEFINE cond == Top.ends[2]
           else == Top.ends[4]
           prev == Top.ends[5]
           b == Branch(Graph, current, cond)
           h == Closed(b)
           g == [b EXCEPT !.blocks = h.blocks, !.values = h.values]
<1>1. frames # <<>> /\ Top.kind = "while" /\ Top.phase = "body"
  BY DEF WhileBody, Built, In
<1>2. /\ Top \in FrameSet /\ Owns(blocks, Top) /\ Shaped(Top) /\ Args(blocks, Top.results)
      /\ Kept(blocks, current, Top) /\ Suits(blocks, Top, blocks[current].vars)
  BY <1>1, TopFacts
<1>3. /\ IsGraph(Graph) /\ Graph.blocks = blocks /\ Graph.values = values
      /\ current \in 1 .. Len(blocks) /\ Len(values) \in Nat /\ Len(blocks) \in Nat
      /\ wild \in BOOLEAN
  BY Facts
<1>4. Waiting(Top) = {1, 4} /\ Reached(Top) = {4}
  BY <1>1 DEF Waiting, Reached
<1>5. /\ Len(Top.ends) = 5 /\ cond \in 1 .. Len(blocks) /\ else \in 1 .. Len(blocks) /\ prev \in 1 .. Len(blocks)
      /\ blocks[else].preds # <<>>
  <2>1. Len(Top.ends) = 5
    BY <1>1, <1>2 DEF Shaped, Statements, Jumps
  <2> QED BY <1>2, <1>4, <2>1 DEF Owns
<1>6. /\ IsGraph(b) /\ b.values = values /\ Len(b.blocks) = Len(blocks) /\ Grown(blocks, b.blocks, current)
  BY <1>3, <1>5, BranchIs
<1>7. Becomes(Transitions(Placed(g, else), else)) /\ wild' = h.wild
  BY DEF WhileBody
<1> HIDE DEF b
<1>8. /\ Len(b.blocks[prev].vars) <= Len(b.blocks[cond].vars)
      /\ Len(b.blocks[prev].vars) <= Len(b.blocks[current].vars)
  <2>1. /\ Len(blocks[prev].vars) <= Len(blocks[cond].vars)
        /\ Len(blocks[prev].vars) <= Len(blocks[current].vars)
    BY <1>1, <1>2 DEF Kept, Suits, StartsWith
  <2>2. /\ Len(b.blocks[prev].vars) = Len(blocks[prev].vars) /\ Len(b.blocks[cond].vars) = Len(blocks[cond].vars)
        /\ Len(b.blocks[current].vars) = Len(blocks[current].vars)
    BY <1>3, <1>5, <1>6 DEF Grown, Same
  <2> QED BY <2>1, <2>2
<1>9. h.wild \in BOOLEAN /\ Revalued(b, g)
  BY <1>3, <1>5, <1>6, <1>8, ClosedIs
<1> HIDE DEF h, g
<1>10. /\ IsGraph(g) /\ Len(values) <= Len(g.values) /\ Len(g.blocks) = Len(blocks)
       /\ Grown(blocks, g.blocks, current)
  <2>1. Grown(b.blocks, g.blocks, current)
    BY <1>6, <1>9, RevaluedGrows
  <2> QED BY <1>6, <1>9, <2>1, GrownThrough DEF Revalued
<1>11. g.blocks[else].preds # <<>>
  BY <1>5, <1>10 DEF Grown
<1>12. ASSUME NEW f, f = [Top EXCEPT !.phase = "more"]
       PROVE  /\ f \in FrameSet /\ Turns(g.blocks, Top, f) /\ SameScope(Top, f) /\ Args(g.blocks, f.results)
              /\ 4 \notin Waiting(f)
  <2>1. /\ f.kind = Top.kind /\ f.phase = "more" /\ f.ends = Top.ends /\ f.old = Top.old /\ f.scope = Top.scope
        /\ f.name = Top.name /\ f.target = Top.target /\ f.results = Top.results
    BY <1>2, <1>12 DEF FrameSet
  <2>2. f \in FrameSet
    BY <1>2, <1>12 DEF FrameSet, Phases
  <2>3. Waiting(f) = {1} /\ Reached(f) = {}
    BY <1>1, <2>1 DEF Waiting, Reached
  <2>4. Shaped(f)
    BY <1>1, <1>5, <2>1 DEF Shaped
  <2>5. Turns(g.blocks, Top, f)
    BY <1>4, <2>1, <2>3, <2>4 DEF Turns
  <2>6. SameScope(Top, f) /\ Args(g.blocks, f.results)
    BY <1>2, <1>10, <2>1 DEF SameScope, Args
  <2> QED BY <2>2, <2>3, <2>5, <2>6
<1>13. Becoming([Top EXCEPT !.phase = "more"]) /\ current' = else /\ value' = Pending /\ scope' = scope
  BY DEF WhileBody
<1>14. 4 \in Waiting(Top) /\ Top.kind # "block"
  BY <1>1, <1>4
<1>15. wild' \in BOOLEAN
  BY <1>7, <1>9
<1> HIDE DEF else
<1>16. else = Top.ends[4]
  BY DEF else
<1> HIDE DEF Top
<1> QED BY <1>1, <1>7, <1>10, <1>11, <1>12, <1>13, <1>14, <1>15, <1>16, TurnNext

(* Another condition: the end waits as before, the two others are new.     *)
LEMMA IfAgainStep ==
  ASSUME BuildInv, IfAgain
  PROVE  BuildInv'
<1> DEFINE n == Len(blocks)
           w == WithBlocks(2)
           e == Edge(w, current, n + 1)
           g == Edge(e, current, n + 2)
           first == Head(Top.ends)
           next == [Top EXCEPT !.phase = "condition", !.ends = <<Head(@), n + 1, n + 2>>]
<1>1. frames # <<>> /\ Top.kind = "if" /\ Top.phase = "more"
  BY DEF IfAgain, In
<1>2. /\ Top \in FrameSet /\ Owns(blocks, Top) /\ Shaped(Top) /\ Args(blocks, Top.results)
      /\ Top = frames[Len(frames)] /\ Len(frames) \in Nat \ {0}
      /\ Behind(blocks, current, frames, Len(frames) - 1, Top)
  BY <1>1, TopFacts
<1>3. /\ Sound(Graph, current, frames, scope, value) /\ Graph.blocks = blocks /\ Graph.values = values
      /\ current \in 1 .. n /\ Len(values) \in Nat /\ n \in Nat /\ WellTyped(blocks, values)
      /\ wild \in BOOLEAN /\ frames \in Seq(FrameSet)
  BY InvHolds, Facts DEF IsGraph
<1>4. first = Top.ends[1] /\ first \in 1 .. n /\ Waiting(Top) = {1} /\ Len(Top.ends) = 3
  <2>1. Waiting(Top) = {1}
    BY <1>1 DEF Waiting
  <2>2. first = Top.ends[1] /\ first \in 1 .. n
    BY <1>1, <1>2, HeadIs DEF Statements, Jumps
  <2>3. Len(Top.ends) = 3
    BY <1>1, <1>2 DEF Shaped, Statements, Jumps
  <2> QED BY <2>1, <2>2, <2>3
<1>5. /\ IsGraph(w) /\ w.values = values /\ Len(w.blocks) = n + 2 /\ Grown(blocks, w.blocks, current)
  BY <1>3, WithBlocksIs
<1> HIDE DEF w, n
<1>6. /\ IsGraph(e) /\ e.values = values /\ Len(e.blocks) = n + 2 /\ Grown(w.blocks, e.blocks, current)
      /\ e.blocks[n + 1].preds # <<>>
  <2>1. n + 1 \in 1 .. Len(w.blocks) /\ current \in Nat
    BY <1>3, <1>5
  <2> QED BY <1>5, <2>1, EdgeIs
<1> HIDE DEF e
<1>7. /\ IsGraph(g) /\ g.values = values /\ Len(g.blocks) = n + 2 /\ Grown(e.blocks, g.blocks, current)
      /\ g.blocks[n + 2].preds # <<>>
  <2>1. n + 2 \in 1 .. Len(e.blocks) /\ current \in Nat
    BY <1>3, <1>6
  <2> QED BY <1>6, <2>1, EdgeIs
<1>8. blocks' = g.blocks /\ values' = g.values
  BY DEF IfAgain, Becomes, g, e, w, n
<1> HIDE DEF g
<1>9. Grown(blocks, g.blocks, current) /\ g.blocks[n + 1].preds # <<>>
  <2>1. Grown(blocks, e.blocks, current)
    BY <1>5, <1>6, GrownThrough
  <2>2. Grown(blocks, g.blocks, current)
    BY <1>7, <2>1, GrownThrough
  <2>3. n + 1 \in 1 .. Len(e.blocks)
    BY <1>3, <1>6
  <2>4. g.blocks[n + 1].preds # <<>>
    BY <1>6, <1>7, <2>3 DEF Grown
  <2> QED BY <2>2, <2>4
<1>10. Sound(g, current, frames, scope, value)
  <2>1. Len(values) <= Len(g.values)
    BY <1>3, <1>7
  <2> QED BY <1>3, <1>7, <1>9, <2>1, SoundGrown
<1>11. /\ Standing(g.blocks, current, frames)
       /\ Behind(g.blocks, current, frames, Len(frames) - 1, Top) /\ Owns(g.blocks, Top)
  BY <1>1, <1>2, <1>10, SoundTop, SoundIs
<1>12. \A c \in {n + 1, n + 2} :
         /\ c \in 1 .. Len(g.blocks) /\ ~Begun(g.blocks, c) /\ c # first
         /\ \A p \in 1 .. Len(g.blocks[c].preds) : g.blocks[c].preds[p] = current
  <2>1. \A c \in {n + 1, n + 2} : c \in n + 1 .. Len(g.blocks) /\ c \in 1 .. Len(g.blocks) /\ c # first
    BY <1>3, <1>4, <1>7
  <2>2. \A c \in n + 1 .. Len(g.blocks) :
          /\ ~Begun(g.blocks, c)
          /\ \A p \in 1 .. Len(g.blocks[c].preds) : g.blocks[c].preds[p] = current
    BY <1>9 DEF Grown, n
  <2> QED BY <2>1, <2>2
<1>13. ASSUME NEW f, f = next
       PROVE  Sound(g, current, ReplaceAt(frames, Len(frames), f), scope, value)
  <2>1. /\ f.kind = "if" /\ f.phase = "condition" /\ f.ends = <<first, n + 1, n + 2>> /\ f.old = Top.old
        /\ f.scope = Top.scope /\ f.name = Top.name /\ f.target = Top.target /\ f.results = Top.results
    BY <1>1, <1>2, <1>13 DEF FrameSet
  <2>2. f \in FrameSet
    <3> DEFINE ends == <<first, n + 1, n + 2>>
    <3>1. ends \in Seq(Nat)
      BY <1>3, <1>4
    <3>2. f = [Top EXCEPT !.phase = "condition", !.ends = ends]
      BY <1>13
    <3> HIDE DEF ends
    <3> QED BY <1>2, <3>1, <3>2 DEF FrameSet, Phases
  <2>3. Waiting(f) = {1, 2, 3} /\ Reached(f) = {2, 3}
    BY <2>1 DEF Waiting, Reached
  <2>4. Len(f.ends) = 3 /\ f.ends[1] = first /\ f.ends[2] = n + 1 /\ f.ends[3] = n + 2
    BY <2>1
  <2>5. Owns(g.blocks, f)
    <3>1. Shaped(f)
      BY <2>1, <2>4 DEF Shaped
    <3>2. first \in 1 .. Len(g.blocks) /\ ~Begun(g.blocks, first)
      BY <1>4, <1>11 DEF Owns
    <3>3. \A k \in {1, 2, 3} : f.ends[k] \in 1 .. Len(g.blocks) /\ ~Begun(g.blocks, f.ends[k])
      BY <1>12, <2>4, <3>2
    <3>4. \A k, l \in {1, 2, 3} : f.ends[k] = f.ends[l] => k = l
      BY <1>3, <1>12, <2>4
    <3>5. \A k \in {2, 3} : g.blocks[f.ends[k]].preds # <<>>
      BY <1>7, <1>9, <2>4
    <3>6. \A k \in 1 .. Len(f.ends) : f.ends[k] \in 1 .. Len(g.blocks)
      BY <2>4, <3>3
    <3> QED BY <2>3, <3>1, <3>3, <3>4, <3>5, <3>6 DEF Owns
  <2>6. \A list : Suits(g.blocks, Top, list) => Suits(g.blocks, f, list)
    BY <1>1, <2>1 DEF Suits
  <2>7. Kept(g.blocks, current, f) /\ Suits(g.blocks, f, g.blocks[current].vars)
    BY <1>11, <2>1, <2>6 DEF Kept, Behind
  <2>8. ASSUME NEW k \in Waiting(f), NEW p \in 1 .. Len(g.blocks[f.ends[k]].preds)
        PROVE  /\ Suits(g.blocks, f, Arriving(g.blocks, f.ends[k], p))
               /\ \A j \in 1 .. Len(frames) - 1 : Suits(g.blocks, frames[j], Arriving(g.blocks, f.ends[k], p))
    <3>1. CASE k = 1
      <4>1. /\ Suits(g.blocks, Top, Arriving(g.blocks, f.ends[k], p))
            /\ \A j \in 1 .. Len(frames) - 1 : Suits(g.blocks, frames[j], Arriving(g.blocks, f.ends[k], p))
        BY <1>4, <1>11, <2>4, <3>1 DEF Behind
      <4> QED BY <2>6, <4>1
    <3>2. CASE k # 1
      <4>1. f.ends[k] \in {n + 1, n + 2}
        BY <2>3, <2>4, <3>2
      <4>2. Arriving(g.blocks, f.ends[k], p) = g.blocks[current].vars
        BY <1>12, <4>1 DEF Arriving
      <4>3. \A j \in 1 .. Len(frames) - 1 : j \in 1 .. Len(frames)
        BY <1>2
      <4>4. \A j \in 1 .. Len(frames) - 1 : Suits(g.blocks, frames[j], g.blocks[current].vars)
        BY <1>11, <4>3 DEF Standing, Behind
      <4> QED BY <2>7, <4>2, <4>4
    <3> QED BY <3>1, <3>2
  <2>9. ASSUME NEW j \in 1 .. Len(frames) - 1
        PROVE  Apart(frames[j], f) /\ Within(g.blocks, frames[j], f)
    <3>1. Apart(frames[j], Top) /\ Within(g.blocks, frames[j], Top) /\ j \in 1 .. Len(frames)
      BY <1>2, <1>11 DEF Behind
    <3>2. Owns(blocks, frames[j])
      BY <1>3, <3>1 DEF Sound, Standing, Behind
    <3>3. \A k \in Waiting(frames[j]) : frames[j].ends[k] \in 1 .. n
      BY <3>2, ShapedIs DEF Owns, n
    <3>4. Apart(frames[j], f)
      <4> SUFFICES ASSUME NEW k \in Waiting(frames[j]), NEW l \in {1, 2, 3}
                   PROVE  frames[j].ends[k] # f.ends[l]
        BY <2>3 DEF Apart
      <4>1. CASE l = 1
        BY <1>4, <2>4, <3>1, <4>1 DEF Apart
      <4>2. CASE l # 1
        BY <1>3, <2>4, <3>3, <4>2
      <4> QED BY <4>1, <4>2
    <3>5. Within(g.blocks, frames[j], f)
      BY <1>1, <2>1, <3>1 DEF Within
    <3> QED BY <3>4, <3>5
  <2>10. Behind(g.blocks, current, frames, Len(frames) - 1, f)
    BY <2>5, <2>7, <2>8, <2>9 DEF Behind
  <2>11. SameScope(frames[Len(frames)], f) /\ Args(g.blocks, f.results)
    <3>1. Args(g.blocks, Top.results)
      BY <1>2, <1>3, <1>7 DEF Args, n
    <3> QED BY <1>1, <1>2, <2>1, <3>1 DEF SameScope
  <2> QED BY <1>1, <1>10, <2>2, <2>10, <2>11, SoundReplaced
<1>14. Becoming(next) /\ current' = current /\ value' = value /\ scope' = scope /\ wild' = wild
  BY DEF IfAgain, n
<1> HIDE DEF next
<1>15. Sound(g, current', frames', scope', value')
  BY <1>13, <1>14 DEF Becoming
<1>16. Becomes(g)
  BY <1>8 DEF Becomes
<1> QED BY <1>3, <1>14, <1>15, <1>16, InvNext

(***************************************************************************)
(* Constructs that begin.                                                  *)
(***************************************************************************)
Opens(bl, n, cur, f) ==
  /\ Shaped(f)
  /\ \A k \in 1 .. Len(f.ends) : f.ends[k] \in 1 .. Len(bl)
  /\ \A k \in Waiting(f) :
       /\ f.ends[k] > n /\ ~Begun(bl, f.ends[k])
       /\ \A l \in Waiting(f) : f.ends[k] = f.ends[l] => k = l
       /\ \A p \in 1 .. Len(bl[f.ends[k]].preds) : bl[f.ends[k]].preds[p] = cur
  /\ \A k \in Reached(f) : bl[f.ends[k]].preds # <<>>
  /\ f.kind = "block" => f.old = Len(bl[cur].vars)
  /\ f.kind = "while" => StartsWith(bl[cur].vars, bl[f.ends[5]].vars)
  /\ Kept(bl, cur, f)

(* All the blocks that it waits for are new, and only the current one      *)
(* leads there.                                                            *)
LEMMA NewBehind ==
  ASSUME NEW g, NEW cur, NEW fr, NEW sc, NEW val, Sound(g, cur, fr, sc, val), NEW n \in Nat,
         \A j \in 1 .. Len(fr) : \A k \in Waiting(fr[j]) : fr[j].ends[k] \in 1 .. n,
         NEW f \in FrameSet, f.scope = sc,
         Opens(g.blocks, n, cur, f)
  PROVE  Behind(g.blocks, cur, fr, Len(fr), f)
<1> DEFINE bl == g.blocks
           list == bl[cur].vars
<1>1. Standing(bl, cur, fr) /\ fr \in Seq(FrameSet) /\ Len(fr) \in Nat
  BY SoundIs
<1>2. ~Shadowing => MeansSame(list, sc, Len(list))
  BY DEF Sound, Lexical
<1>3. Suits(bl, f, list)
  BY <1>2 DEF Suits, Opens
<1>4. Owns(bl, f) /\ Kept(bl, cur, f)
  BY DEF Owns, Opens
<1>5. ASSUME NEW j \in 1 .. Len(fr)
      PROVE  Suits(bl, fr[j], list) /\ Owns(bl, fr[j]) /\ ScopedAt(fr, j, sc)
  BY <1>1 DEF Standing, Behind, Sound, Scoped
<1>6. ASSUME NEW k \in Waiting(f), NEW p \in 1 .. Len(bl[f.ends[k]].preds)
      PROVE  /\ Suits(bl, f, Arriving(bl, f.ends[k], p))
             /\ \A j \in 1 .. Len(fr) : Suits(bl, fr[j], Arriving(bl, f.ends[k], p))
  <2>1. Arriving(bl, f.ends[k], p) = list
    BY DEF Arriving, Opens
  <2> QED BY <1>3, <1>5, <2>1
<1>7. ASSUME NEW j \in 1 .. Len(fr)
      PROVE  Apart(fr[j], f) /\ Within(bl, fr[j], f)
  <2>1. Apart(fr[j], f)
    <3> SUFFICES ASSUME NEW k \in Waiting(fr[j]), NEW l \in Waiting(f)
                 PROVE  fr[j].ends[k] # f.ends[l]
      BY DEF Apart
    <3>1. fr[j].ends[k] \in 1 .. n /\ f.ends[l] > n
      BY DEF Opens
    <3> QED BY <3>1
  <2>2. ASSUME fr[j].kind = "while", f.kind = "block"
        PROVE  Len(bl[fr[j].ends[5]].vars) <= f.old
    BY <1>5, <2>2 DEF Suits, StartsWith, Opens
  <2>3. ~Shadowing => SeesAll(fr[j].scope, f.scope)
    BY <1>5 DEF ScopedAt
  <2> QED BY <2>1, <2>2, <2>3 DEF Within
<1> QED BY <1>3, <1>4, <1>6, <1>7 DEF Behind

(* The construct is pushed where it has begun to be built.                 *)
LEMMA BeginNext ==
  ASSUME BuildInv, NEW g, NEW cur, Sound(g, cur, frames, scope, value), Becomes(g), current' = cur,
         NEW f \in FrameSet, f.scope = scope, f.results = <<>>, f.kind \in {"block", "if", "while"},
         Opens(g.blocks, Len(blocks), cur, f),
         frames' = Append(frames, f), value' = value, scope' = scope, wild' = wild
  PROVE  BuildInv'
<1>1. Len(blocks) \in Nat /\ wild \in BOOLEAN
  BY Facts
<1>2. ASSUME NEW j \in 1 .. Len(frames), NEW k \in Waiting(frames[j])
      PROVE  frames[j].ends[k] \in 1 .. Len(blocks)
  <2>1. Owns(blocks, frames[j])
    BY DEF BuildInv, Standing, Behind
  <2> QED BY <2>1, ShapedIs DEF Owns
<1>3. Behind(g.blocks, cur, frames, Len(frames), f)
  BY <1>1, <1>2, NewBehind
<1>4. f.kind \notin Statements /\ f.kind \notin Jumps /\ f.kind # "define"
  BY DEF Statements, Jumps
<1>5. Sound(g, cur, Append(frames, f), scope, value)
  BY <1>3, <1>4, SoundPush
<1>6. Sound(g, current', frames', scope', value')
  BY <1>5
<1> QED BY <1>1, <1>6, InvNext

LEMMA BlockBeginStep ==
  ASSUME BuildInv, BlockBegin
  PROVE  BuildInv'
<1> DEFINE n == Len(blocks)
           g == WithBlocks(1)
           old == Len(blocks[current].vars)
<1>1. /\ Sound(Graph, current, frames, scope, value) /\ Graph.blocks = blocks /\ Graph.values = values
      /\ current \in 1 .. n /\ Len(values) \in Nat /\ n \in Nat /\ WellTyped(blocks, values)
      /\ frames \in Seq(FrameSet) /\ scope \in Seq(ScopeSet) /\ old \in Nat
  BY InvHolds, Facts DEF IsGraph
<1>2. /\ IsGraph(g) /\ g.values = values /\ Len(g.blocks) = n + 1 /\ Grown(blocks, g.blocks, current)
      /\ \A b \in 1 .. n : g.blocks[b] = blocks[b]
      /\ g.blocks[n + 1] = NewBlock
  <2>1. n + 1 \in n + 1 .. n + 1
    BY <1>1
  <2> QED BY <1>1, <2>1, WithBlocksIs
<1>3. /\ Becomes(g) /\ current' = current /\ value' = value /\ scope' = scope /\ wild' = wild
      /\ frames' = Append(frames, [Frame("block", "statements") EXCEPT !.ends = <<Len(g.blocks)>>, !.old = old])
  BY DEF BlockBegin, Open
<1> HIDE DEF g, n, old
<1>4. Sound(g, current, frames, scope, value)
  <2>1. Len(values) <= Len(g.values)
    BY <1>1, <1>2
  <2> QED BY <1>1, <1>2, <2>1, SoundGrown
<1>5. ASSUME NEW f, f = [Frame("block", "statements") EXCEPT !.ends = <<Len(g.blocks)>>, !.old = old],
             frames' = Append(frames, f)
      PROVE  BuildInv'
  <2>1. f = [Frame("block", "statements") EXCEPT !.ends = <<n + 1>>, !.old = old]
    BY <1>2, <1>5
  <2>2. /\ f.kind = "block" /\ f.phase = "statements" /\ f.scope = scope /\ f.results = <<>>
        /\ f.ends = <<n + 1>> /\ f.old = old
    BY <2>1 DEF Frame
  <2>3. f \in FrameSet
    <3> DEFINE ends == <<n + 1>>
    <3>1. Frame("block", "statements") \in FrameSet
      BY <1>1, FrameIs DEF Phases
    <3>2. ends \in Seq(Nat)
      BY <1>1
    <3>3. f = [Frame("block", "statements") EXCEPT !.ends = ends, !.old = old]
      BY <2>1
    <3> HIDE DEF ends
    <3> QED BY <1>1, <3>1, <3>2, <3>3 DEF FrameSet
  <2>4. Len(f.ends) = 1 /\ f.ends[1] = n + 1
    BY <2>2
  <2>5. Shaped(f) /\ Waiting(f) = {1} /\ Reached(f) = {} /\ Kept(g.blocks, current, f)
    BY <2>2, <2>4 DEF Shaped, Waiting, Reached, Kept
  <2>6. \A k \in 1 .. Len(f.ends) : f.ends[k] \in 1 .. Len(g.blocks)
    BY <1>1, <1>2, <2>4
  <2>7. ~Begun(g.blocks, n + 1) /\ g.blocks[n + 1].preds = <<>>
    BY <1>2, NewBlockIs DEF Begun
  <2>8. ASSUME NEW k \in Waiting(f)
        PROVE  /\ f.ends[k] > Len(blocks) /\ ~Begun(g.blocks, f.ends[k])
               /\ \A l \in Waiting(f) : f.ends[k] = f.ends[l] => k = l
               /\ \A p \in 1 .. Len(g.blocks[f.ends[k]].preds) : g.blocks[f.ends[k]].preds[p] = current
    <3>1. f.ends[k] = n + 1 /\ k = 1
      BY <2>4, <2>5
    <3>2. n + 1 > Len(blocks)
      BY <1>1 DEF n
    <3>3. \A p \in 1 .. Len(g.blocks[n + 1].preds) : g.blocks[n + 1].preds[p] = current
      BY <2>7, EmptySeq
    <3> QED BY <2>5, <2>7, <3>1, <3>2, <3>3
  <2>9. f.old = Len(g.blocks[current].vars)
    BY <1>1, <1>2, <2>2 DEF old
  <2>10. Opens(g.blocks, Len(blocks), current, f)
    BY <2>2, <2>5, <2>6, <2>8, <2>9 DEF Opens
  <2>11. /\ Becomes(g) /\ current' = current /\ value' = value /\ scope' = scope /\ wild' = wild
    BY <1>3
  <2>12. f.scope = scope /\ f.results = <<>> /\ f.kind \in {"block", "if", "while"}
    BY <2>2
  <2> QED BY <1>4, <1>5, <2>3, <2>10, <2>11, <2>12, BeginNext
<1> QED BY <1>3, <1>5

LEMMA IfBeginStep ==
  ASSUME BuildInv, IfBegin
  PROVE  BuildInv'
<1> DEFINE n == Len(blocks)
           w == WithBlocks(3)
           e == Edge(w, current, n + 2)
           g == Edge(e, current, n + 3)
<1>1. /\ Sound(Graph, current, frames, scope, value) /\ Graph.blocks = blocks /\ Graph.values = values
      /\ current \in 1 .. n /\ Len(values) \in Nat /\ n \in Nat /\ WellTyped(blocks, values)
      /\ frames \in Seq(FrameSet) /\ scope \in Seq(ScopeSet)
  BY InvHolds, Facts DEF IsGraph
<1>2. /\ IsGraph(w) /\ w.values = values /\ Len(w.blocks) = n + 3 /\ Grown(blocks, w.blocks, current)
  BY <1>1, WithBlocksIs
<1>3. /\ Becomes(g) /\ current' = current /\ value' = value /\ scope' = scope /\ wild' = wild
      /\ frames' = Append(frames, [Frame("if", "condition") EXCEPT !.ends = <<n + 1, n + 2, n + 3>>])
  BY DEF IfBegin, Open
<1> HIDE DEF w, n
<1>4. /\ IsGraph(e) /\ e.values = values /\ Len(e.blocks) = n + 3 /\ Grown(w.blocks, e.blocks, current)
      /\ e.blocks[n + 2].preds # <<>>
  <2>1. n + 2 \in 1 .. Len(w.blocks) /\ current \in Nat
    BY <1>1, <1>2
  <2> QED BY <1>2, <2>1, EdgeIs
<1> HIDE DEF e
<1>5. /\ IsGraph(g) /\ g.values = values /\ Len(g.blocks) = n + 3 /\ Grown(e.blocks, g.blocks, current)
      /\ g.blocks[n + 3].preds # <<>>
  <2>1. n + 3 \in 1 .. Len(e.blocks) /\ current \in Nat
    BY <1>1, <1>4
  <2> QED BY <1>4, <2>1, EdgeIs
<1> HIDE DEF g
<1>6. Grown(blocks, g.blocks, current) /\ g.blocks[n + 2].preds # <<>>
  <2>1. Grown(blocks, e.blocks, current)
    BY <1>2, <1>4, GrownThrough
  <2>2. Grown(blocks, g.blocks, current)
    BY <1>5, <2>1, GrownThrough
  <2>3. n + 2 \in 1 .. Len(e.blocks)
    BY <1>1, <1>4
  <2>4. g.blocks[n + 2].preds # <<>>
    BY <1>4, <1>5, <2>3 DEF Grown
  <2> QED BY <2>2, <2>4
<1>7. Sound(g, current, frames, scope, value)
  <2>1. Len(values) <= Len(g.values)
    BY <1>1, <1>5
  <2> QED BY <1>1, <1>5, <1>6, <2>1, SoundGrown
<1>8. \A c \in {n + 1, n + 2, n + 3} :
        /\ c \in 1 .. Len(g.blocks) /\ c > Len(blocks) /\ ~Begun(g.blocks, c)
        /\ \A p \in 1 .. Len(g.blocks[c].preds) : g.blocks[c].preds[p] = current
  <2>1. \A c \in {n + 1, n + 2, n + 3} : c \in n + 1 .. Len(g.blocks) /\ c \in 1 .. Len(g.blocks) /\ c > n
    BY <1>1, <1>5
  <2>2. \A c \in n + 1 .. Len(g.blocks) :
          /\ ~Begun(g.blocks, c)
          /\ \A p \in 1 .. Len(g.blocks[c].preds) : g.blocks[c].preds[p] = current
    BY <1>6 DEF Grown, n
  <2> QED BY <2>1, <2>2 DEF n
<1>9. ASSUME NEW f, f = [Frame("if", "condition") EXCEPT !.ends = <<n + 1, n + 2, n + 3>>],
             frames' = Append(frames, f)
      PROVE  BuildInv'
  <2>1. /\ f.kind = "if" /\ f.phase = "condition" /\ f.scope = scope /\ f.results = <<>>
        /\ f.ends = <<n + 1, n + 2, n + 3>>
    BY <1>9 DEF Frame
  <2>2. f \in FrameSet
    <3> DEFINE ends == <<n + 1, n + 2, n + 3>>
    <3>1. Frame("if", "condition") \in FrameSet
      BY <1>1, FrameIs DEF Phases
    <3>2. ends \in Seq(Nat)
      BY <1>1
    <3>3. f = [Frame("if", "condition") EXCEPT !.ends = ends]
      BY <1>9
    <3> HIDE DEF ends
    <3> QED BY <3>1, <3>2, <3>3 DEF FrameSet
  <2>3. Len(f.ends) = 3 /\ f.ends[1] = n + 1 /\ f.ends[2] = n + 2 /\ f.ends[3] = n + 3
    BY <2>1
  <2>4. Shaped(f) /\ Waiting(f) = {1, 2, 3} /\ Reached(f) = {2, 3} /\ Kept(g.blocks, current, f)
    BY <2>1, <2>3 DEF Shaped, Waiting, Reached, Kept
  <2>5. \A k \in {1, 2, 3} : f.ends[k] \in {n + 1, n + 2, n + 3}
    BY <2>3
  <2>6. \A k, l \in {1, 2, 3} : f.ends[k] = f.ends[l] => k = l
    BY <1>1, <2>3
  <2>7. ASSUME NEW k \in Waiting(f)
        PROVE  /\ f.ends[k] > Len(blocks) /\ ~Begun(g.blocks, f.ends[k])
               /\ \A l \in Waiting(f) : f.ends[k] = f.ends[l] => k = l
               /\ \A p \in 1 .. Len(g.blocks[f.ends[k]].preds) : g.blocks[f.ends[k]].preds[p] = current
    BY <1>8, <2>4, <2>5, <2>6
  <2>8. \A k \in Reached(f) : g.blocks[f.ends[k]].preds # <<>>
    BY <1>5, <1>6, <2>3, <2>4
  <2>9. \A k \in 1 .. Len(f.ends) : f.ends[k] \in 1 .. Len(g.blocks)
    BY <1>8, <2>3, <2>5
  <2>10. Opens(g.blocks, Len(blocks), current, f)
    BY <2>1, <2>4, <2>7, <2>8, <2>9 DEF Opens
  <2>11. /\ Becomes(g) /\ current' = current /\ value' = value /\ scope' = scope /\ wild' = wild
    BY <1>3
  <2>12. f.scope = scope /\ f.results = <<>> /\ f.kind \in {"block", "if", "while"}
    BY <2>1
  <2> QED BY <1>7, <1>9, <2>2, <2>10, <2>11, <2>12, BeginNext
<1> QED BY <1>3, <1>9

(* A new block where only the current one leads has the same variables.    *)
LEMMA OnwardIs ==
  ASSUME NEW g, NEW cur, NEW fr, NEW sc, NEW val, Sound(g, cur, fr, sc, val),
         NEW b \in 1 .. Len(g.blocks), ~Begun(g.blocks, b), g.blocks[b].preds # <<>>,
         \A n \in 1 .. Len(g.blocks[b].preds) : g.blocks[b].preds[n] = cur
  PROVE  LET h == Transitions(Placed(g, b), b)
         IN  /\ IsGraph(h) /\ h.degree = g.degree /\ Len(g.values) <= Len(h.values)
             /\ OnlyBlock(g.blocks, h.blocks, b) /\ Begun(h.blocks, b)
             /\ Same(g.blocks[cur].vars, h.blocks[b].vars)
<1> DEFINE p == Placed(g, b)
           h == Transitions(p, b)
           list == g.blocks[cur].vars
<1>1. /\ IsGraph(g) /\ cur \in 1 .. Len(g.blocks) /\ Begun(g.blocks, cur) /\ b # cur
      /\ Connected(g.blocks, cur) /\ list \in Seq(VariableSet) /\ Len(list) \in Nat
  BY SoundIs, GraphBlock DEF Standing
<1>2. /\ IsGraph(p) /\ p.values = g.values /\ p.degree = g.degree /\ OnlyBlock(g.blocks, p.blocks, b)
      /\ Begun(p.blocks, b) /\ p.blocks[b].vars = g.blocks[b].vars
  BY <1>1, PlacedIs
<1> HIDE DEF p
<1>3. /\ b \in 1 .. Len(p.blocks) /\ Len(p.blocks) = Len(g.blocks) /\ p.blocks[b].preds = g.blocks[b].preds
      /\ p.blocks[cur].vars = list
  BY <1>1, <1>2 DEF OnlyBlock
<1>4. p.blocks[b].vars = <<>>
  BY <1>1, <1>2 DEF Connected
<1>5. Meets(p, b)
  BY <1>1, <1>2, <1>3, <1>4 DEF Meets
<1>6. \A n \in 1 .. Len(p.blocks[b].preds) : Arriving(p.blocks, b, n) = list
  BY <1>3 DEF Arriving
<1>7. Arriving(p.blocks, b, 1) = list
  <2>1. Len(p.blocks[b].preds) \in Nat /\ p.blocks[b].preds # <<>>
    BY <1>2, <1>3, GraphBlock
  <2>2. p.blocks[b].preds \in Seq(Nat)
    BY <1>2, <1>3, GraphBlock
  <2>3. Len(p.blocks[b].preds) # 0
    BY <2>1, <2>2, EmptySeq
  <2>4. 1 \in 1 .. Len(p.blocks[b].preds)
    BY <2>1, <2>3
  <2> QED BY <1>6, <2>4
<1>8. Joined(p, h, b)
  BY <1>5, TransitionsIs
<1> HIDE DEF h, list
<1>9. \A k \in 1 .. Len(list) : list[k].name \in Common(p.blocks, b)
  <2> SUFFICES ASSUME NEW k \in 1 .. Len(list) PROVE list[k].name \in Common(p.blocks, b)
    OBVIOUS
  <2>1. list[k] \in VariableSet
    BY <1>1, ElementOfSeq
  <2>2. list[k].name \in Names
    BY <2>1 DEF VariableSet
  <2> QED BY <1>6, <2>2 DEF Common
<1>10. /\ IsGraph(h) /\ h.degree = p.degree /\ Len(p.values) <= Len(h.values)
       /\ OnlyBlock(p.blocks, h.blocks, b) /\ h.blocks[b].idx = p.blocks[b].idx
       /\ Thinned(h.blocks[b].vars, list, Len(list), Common(p.blocks, b))
  BY <1>7, <1>8 DEF Joined, Joining
<1>11. Len(h.blocks[b].vars) \in Nat /\ b \in 1 .. Len(h.blocks)
  <2>1. b \in 1 .. Len(h.blocks)
    BY <1>3, <1>10 DEF OnlyBlock
  <2> QED BY <1>10, <2>1, GraphBlock
<1>12. Same(list, h.blocks[b].vars)
  BY <1>1, <1>9, <1>10, <1>11, ThinnedSame
<1>13. OnlyBlock(g.blocks, h.blocks, b)
  BY <1>2, <1>10, OnlyThrough
<1>14. Begun(h.blocks, b)
  BY <1>2, <1>10 DEF Begun
<1> QED BY <1>2, <1>10, <1>12, <1>13, <1>14 DEF h, p, list

(* The walk goes on there.                                                 *)
LEMMA OnwardSound ==
  ASSUME NEW g, NEW cur, NEW fr, NEW sc, NEW val, Sound(g, cur, fr, sc, val),
         NEW b \in 1 .. Len(g.blocks), ~Begun(g.blocks, b),
         \A i \in 1 .. Len(fr) : \A k \in Waiting(fr[i]) : fr[i].ends[k] # b,
         NEW h, IsGraph(h), Len(g.values) <= Len(h.values), OnlyBlock(g.blocks, h.blocks, b),
         Begun(h.blocks, b), Same(g.blocks[cur].vars, h.blocks[b].vars)
  PROVE  Sound(h, b, fr, sc, val)
<1>1. /\ IsGraph(g) /\ Standing(g.blocks, cur, fr) /\ WalkTyped(g.values, fr, sc, val)
      /\ Scoped(fr, sc) /\ Resulting(g.blocks, fr) /\ Lexical(g.blocks, cur, sc)
  BY DEF Sound
<1>2. ASSUME NEW i \in 1 .. Len(fr)
      PROVE  Suits(g.blocks, fr[i], h.blocks[b].vars)
  <2>1. Suits(g.blocks, fr[i], g.blocks[cur].vars) /\ Owns(g.blocks, fr[i])
    BY <1>1 DEF Standing, Behind
  <2>2. ASSUME fr[i].kind = "while"
        PROVE  Same(g.blocks[fr[i].ends[5]].vars, g.blocks[fr[i].ends[5]].vars)
    <3>1. fr[i].ends[5] \in 1 .. Len(g.blocks)
      BY <2>1, <2>2 DEF Owns, Shaped, Statements, Jumps
    <3> QED BY <1>1, <3>1, GraphBlock, SameItself
  <2> QED BY <2>1, <2>2, SuitsSame
<1>3. Standing(h.blocks, b, fr)
  BY <1>1, <1>2, EnteredStands
<1>4. Len(h.blocks) = Len(g.blocks)
  BY DEF OnlyBlock
<1>5. Resulting(h.blocks, fr)
  BY <1>1, <1>4 DEF Resulting, Args
<1>6. WalkTyped(h.values, fr, sc, val)
  <2>1. Len(g.values) \in Nat /\ Len(h.values) \in Nat
    BY <1>1, LenProperties DEF IsGraph, WellTyped
  <2>2. val \in Pending .. Len(h.values)
    BY <1>1, <2>1 DEF WalkTyped, Pending
  <2> QED BY <1>1, <2>2 DEF WalkTyped
<1>7. Lexical(h.blocks, b, sc)
  <2> SUFFICES ASSUME ~Shadowing
               PROVE  MeansSame(h.blocks[b].vars, sc, Len(h.blocks[b].vars))
    BY DEF Lexical
  <2>1. MeansSame(g.blocks[cur].vars, sc, Len(g.blocks[cur].vars))
    BY <1>1 DEF Lexical
  <2>2. Len(h.blocks[b].vars) = Len(g.blocks[cur].vars)
    BY DEF Same
  <2> QED BY <2>1, <2>2, SameMeans
<1> QED BY <1>1, <1>3, <1>5, <1>6, <1>7 DEF Sound

LEMMA DegreeIs ==
  ASSUME NEW g, IsGraph(g)
  PROVE  LET h == [g EXCEPT !.degree = @ + 1]
         IN  IsGraph(h) /\ h.blocks = g.blocks /\ h.values = g.values
<1>1. /\ g = [blocks |-> g.blocks, values |-> g.values, degree |-> g.degree] /\ g.degree \in Nat
      /\ WellTyped(g.blocks, g.values)
  BY DEF IsGraph
<1>2. ASSUME NEW h, h = [g EXCEPT !.degree = @ + 1]
      PROVE  IsGraph(h) /\ h.blocks = g.blocks /\ h.values = g.values
  <2>1. h = [blocks |-> g.blocks, values |-> g.values, degree |-> g.degree + 1]
    BY <1>1, <1>2
  <2>2. /\ h.blocks = g.blocks /\ h.values = g.values /\ h.degree = g.degree + 1
        /\ h = [blocks |-> h.blocks, values |-> h.values, degree |-> h.degree]
    BY <2>1
  <2>3. h.degree \in Nat
    BY <1>1, <2>2
  <2> QED BY <1>1, <2>2, <2>3 DEF IsGraph
<1> QED BY <1>2

LEMMA WhileBeginStep ==
  ASSUME BuildInv, WhileBegin
  PROVE  BuildInv'
<1> DEFINE n == Len(blocks)
           b == n + 2
           w == WithBlocks(4)
           x == [w EXCEPT !.degree = @ + 1]
           h == Branch(x, current, b)
           g == Transitions(Placed(h, b), b)
           r == WithHeaders(g, b, current)
<1>1. /\ Sound(Graph, current, frames, scope, value) /\ Graph.blocks = blocks /\ Graph.values = values
      /\ current \in 1 .. n /\ Len(values) \in Nat /\ n \in Nat /\ WellTyped(blocks, values)
      /\ frames \in Seq(FrameSet) /\ scope \in Seq(ScopeSet) /\ Begun(blocks, current)
  BY InvHolds, Facts, SoundIs DEF IsGraph
<1>2. /\ IsGraph(w) /\ w.values = values /\ Len(w.blocks) = n + 4 /\ Grown(blocks, w.blocks, current)
      /\ \A c \in n + 1 .. n + 4 : w.blocks[c] = NewBlock
  BY <1>1, WithBlocksIs
<1>3. /\ Becomes(r) /\ current' = b /\ value' = value /\ scope' = scope /\ wild' = wild
      /\ frames' = Append(frames, [Frame("while", "condition") EXCEPT
                                     !.ends = <<n + 1, n + 2, n + 3, n + 4, current>>])
  BY DEF WhileBegin, Open
<1> HIDE DEF w
<1>4. IsGraph(x) /\ x.blocks = w.blocks /\ x.values = values
  BY <1>2, DegreeIs
<1>5. n + 2 = b /\ b \in 1 .. n + 4 /\ b \in n + 1 .. n + 4 /\ b > n /\ b # current
  BY <1>1
<1> HIDE DEF x, n, b
<1>6. /\ IsGraph(h) /\ h.values = values /\ Len(h.blocks) = n + 4 /\ Grown(w.blocks, h.blocks, current)
      /\ h.blocks[b].preds # <<>>
      /\ \A c \in 1 .. n + 4 : c # b => h.blocks[c].preds = w.blocks[c].preds
  <2>1. current \in 1 .. Len(x.blocks) /\ b \in 1 .. Len(x.blocks) /\ Len(x.blocks) = n + 4
    BY <1>1, <1>2, <1>4, <1>5
  <2> QED BY <1>4, <2>1, BranchIs
<1> HIDE DEF h
<1>7. Grown(blocks, h.blocks, current)
  BY <1>2, <1>6, GrownThrough
<1>8. \A c \in n + 1 .. n + 4 :
        /\ c \in 1 .. n + 4 /\ c > n /\ ~Begun(h.blocks, c)
        /\ \A p \in 1 .. Len(h.blocks[c].preds) : h.blocks[c].preds[p] = current
        /\ c # b => h.blocks[c].preds = <<>>
  <2>1. \A c \in n + 1 .. n + 4 : c \in 1 .. n + 4 /\ c > n
    BY <1>1
  <2>2. \A c \in n + 1 .. n + 4 :
          /\ ~Begun(h.blocks, c)
          /\ \A p \in 1 .. Len(h.blocks[c].preds) : h.blocks[c].preds[p] = current
    BY <1>6, <1>7 DEF Grown, n
  <2>3. \A c \in n + 1 .. n + 4 : c # b => h.blocks[c].preds = <<>>
    BY <1>2, <1>6, <2>1, NewBlockIs
  <2> QED BY <2>1, <2>2, <2>3
<1>9. Sound(h, current, frames, scope, value)
  <2>1. Len(values) <= Len(h.values)
    BY <1>1, <1>6
  <2> QED BY <1>1, <1>6, <1>7, <2>1, SoundGrown
<1>10. /\ b \in 1 .. Len(h.blocks) /\ ~Begun(h.blocks, b)
       /\ \A i \in 1 .. Len(frames) : \A k \in Waiting(frames[i]) : frames[i].ends[k] # b
  <2>1. ASSUME NEW i \in 1 .. Len(frames), NEW k \in Waiting(frames[i])
        PROVE  frames[i].ends[k] # b
    <3>1. Owns(blocks, frames[i])
      BY DEF BuildInv, Standing, Behind
    <3>2. frames[i].ends[k] \in 1 .. n
      BY <3>1, ShapedIs DEF Owns, n
    <3> QED BY <1>1, <1>5, <3>2
  <2> QED BY <1>5, <1>6, <1>8, <2>1
<1>11. /\ IsGraph(g) /\ Len(h.values) <= Len(g.values)
       /\ OnlyBlock(h.blocks, g.blocks, b) /\ Begun(g.blocks, b)
       /\ Same(h.blocks[current].vars, g.blocks[b].vars)
  BY <1>5, <1>6, <1>8, <1>9, <1>10, OnwardIs
<1> HIDE DEF g
<1>12. Sound(g, b, frames, scope, value)
  BY <1>9, <1>10, <1>11, OnwardSound
<1>13. b \in 1 .. Len(g.blocks) /\ current \in 1 .. Len(g.blocks) /\ Len(g.blocks) = n + 4
  BY <1>1, <1>5, <1>6, <1>11 DEF OnlyBlock
<1>14. Revalued(g, r)
  BY <1>11, <1>13, WithHeadersIs
<1> HIDE DEF r
<1>15. Sound(r, b, frames, scope, value)
  <2>1. Grown(g.blocks, r.blocks, b)
    BY <1>11, <1>14, RevaluedGrows
  <2>2. IsGraph(r) /\ Len(g.values) <= Len(r.values)
    BY <1>14 DEF Revalued
  <2> QED BY <1>12, <2>1, <2>2, SoundGrown
<1>16. /\ Len(r.blocks) = n + 4
       /\ \A c \in 1 .. n + 4 : c # b =>
            r.blocks[c].preds = h.blocks[c].preds /\ (Begun(r.blocks, c) <=> Begun(h.blocks, c))
       /\ Begun(r.blocks, b)
  <2>1. \A c \in 1 .. n + 4 : c # b => g.blocks[c] = h.blocks[c]
    BY <1>6, <1>11 DEF OnlyBlock
  <2>2. \A c \in 1 .. n + 4 : r.blocks[c].idx = g.blocks[c].idx /\ r.blocks[c].preds = g.blocks[c].preds
    BY <1>13, <1>14 DEF Revalued
  <2> QED BY <1>11, <1>13, <1>14, <2>1, <2>2 DEF Begun, Revalued
<1>17. StartsWith(r.blocks[b].vars, r.blocks[current].vars) /\ Begun(r.blocks, current)
  <2>1. Same(g.blocks[b].vars, r.blocks[b].vars) /\ Same(g.blocks[current].vars, r.blocks[current].vars)
    BY <1>13, <1>14 DEF Revalued
  <2>2. g.blocks[current].vars = h.blocks[current].vars
    BY <1>5, <1>6, <1>11, <1>13 DEF OnlyBlock
  <2>3. Same(g.blocks[current].vars, r.blocks[b].vars)
    BY <1>11, <2>1, <2>2, SameThrough
  <2>4. StartsWith(r.blocks[b].vars, r.blocks[current].vars)
    BY <2>1, <2>3 DEF Same, StartsWith
  <2>5. Begun(h.blocks, current)
    BY <1>9, SoundIs
  <2> QED BY <1>5, <1>13, <1>16, <2>4, <2>5
<1>18. ASSUME NEW f, f = [Frame("while", "condition") EXCEPT
                            !.ends = <<n + 1, n + 2, n + 3, n + 4, current>>],
              frames' = Append(frames, f)
       PROVE  BuildInv'
  <2>1. /\ f.kind = "while" /\ f.phase = "condition" /\ f.scope = scope /\ f.results = <<>>
        /\ f.ends = <<n + 1, n + 2, n + 3, n + 4, current>>
    BY <1>18 DEF Frame
  <2>2. f \in FrameSet
    <3> DEFINE ends == <<n + 1, n + 2, n + 3, n + 4, current>>
    <3>1. Frame("while", "condition") \in FrameSet
      BY <1>1, FrameIs DEF Phases
    <3>2. ends \in Seq(Nat)
      BY <1>1
    <3>3. f = [Frame("while", "condition") EXCEPT !.ends = ends]
      BY <1>18
    <3> HIDE DEF ends
    <3> QED BY <3>1, <3>2, <3>3 DEF FrameSet
  <2>3. /\ Len(f.ends) = 5 /\ f.ends[1] = n + 1 /\ f.ends[2] = b /\ f.ends[3] = n + 3
        /\ f.ends[4] = n + 4 /\ f.ends[5] = current
    BY <1>5, <2>1
  <2>4. Shaped(f) /\ Waiting(f) = {1, 3, 4} /\ Reached(f) = {}
    BY <2>1, <2>3 DEF Shaped, Waiting, Reached
  <2>5. Kept(r.blocks, b, f)
    BY <1>5, <1>16, <1>17, <2>3 DEF Kept
  <2>6. \A k \in {1, 3, 4} : f.ends[k] \in n + 1 .. n + 4 /\ f.ends[k] # b
    BY <1>1, <1>5, <2>3
  <2>7. \A k, l \in {1, 3, 4} : f.ends[k] = f.ends[l] => k = l
    BY <1>1, <2>3
  <2>8. \A c \in n + 1 .. n + 4 : c # b =>
          /\ c > Len(blocks) /\ ~Begun(r.blocks, c)
          /\ \A p \in 1 .. Len(r.blocks[c].preds) : r.blocks[c].preds[p] = b
    <3> SUFFICES ASSUME NEW c \in n + 1 .. n + 4, c # b
                 PROVE  /\ c > Len(blocks) /\ ~Begun(r.blocks, c)
                        /\ \A p \in 1 .. Len(r.blocks[c].preds) : r.blocks[c].preds[p] = b
      OBVIOUS
    <3>1. r.blocks[c].preds = <<>> /\ ~Begun(r.blocks, c) /\ c > n
      BY <1>8, <1>16
    <3>2. \A p \in 1 .. Len(<<>>) : FALSE
      OBVIOUS
    <3> QED BY <3>1, <3>2 DEF n
  <2>9. \A k \in Waiting(f) :
          /\ f.ends[k] > Len(blocks) /\ ~Begun(r.blocks, f.ends[k])
          /\ \A l \in Waiting(f) : f.ends[k] = f.ends[l] => k = l
          /\ \A p \in 1 .. Len(r.blocks[f.ends[k]].preds) : r.blocks[f.ends[k]].preds[p] = b
    BY <2>4, <2>6, <2>7, <2>8
  <2>10. \A k \in 1 .. Len(f.ends) : f.ends[k] \in 1 .. Len(r.blocks)
    <3>1. current \in 1 .. n + 4 /\ b \in 1 .. n + 4
      BY <1>1, <1>5
    <3>2. \A k \in 1 .. 5 : f.ends[k] \in n + 1 .. n + 4 \/ f.ends[k] = b \/ f.ends[k] = current
      BY <2>3, <2>6
    <3> QED BY <1>8, <1>16, <2>3, <3>1, <3>2
  <2>11. StartsWith(r.blocks[b].vars, r.blocks[f.ends[5]].vars)
    BY <1>17, <2>3
  <2>12. Opens(r.blocks, Len(blocks), b, f)
    BY <2>1, <2>4, <2>5, <2>9, <2>10, <2>11 DEF Opens
  <2>13. /\ Becomes(r) /\ current' = b /\ value' = value /\ scope' = scope /\ wild' = wild
    BY <1>3
  <2>14. f.scope = scope /\ f.results = <<>> /\ f.kind \in {"block", "if", "while"}
    BY <2>1
  <2> QED BY <1>15, <1>18, <2>2, <2>12, <2>13, <2>14, BeginNext
<1> QED BY <1>3, <1>18 DEF n

(***************************************************************************)
(* Blocks that end.                                                        *)
(***************************************************************************)
(* Each visible name has an innermost definition.                          *)
LEMMA LastVisible ==
  ASSUME NEW sc \in Seq(ScopeSet), NEW m \in 1 .. Len(sc)
  PROVE  \E l \in 1 .. Len(sc) : sc[l].name = sc[m].name /\ Nowhere(sc, l, sc[l].name)
<1> DEFINE S == {l \in 1 .. Len(sc) : sc[l].name = sc[m].name}
           top == Max(S)
<1>1. Len(sc) \in Nat
  BY LenProperties
<1>2. S \subseteq 0 .. Len(sc) /\ S # {}
  BY <1>1
<1>3. \A l \in 1 .. Len(sc) : sc[l].name = sc[m].name => l \in S
  OBVIOUS
<1>4. \A l \in S : l \in 1 .. Len(sc) /\ sc[l].name = sc[m].name
  OBVIOUS
<1> HIDE DEF S
<1>5. top \in S /\ \A l \in S : top >= l
  BY <1>1, <1>2, Greatest
<1> HIDE DEF top
<1>6. top \in 1 .. Len(sc) /\ sc[top].name = sc[m].name
  BY <1>4, <1>5
<1>7. ASSUME NEW l \in top + 1 .. Len(sc)
      PROVE  sc[l].name # sc[top].name
  <2>1. l \in 1 .. Len(sc) /\ ~(top >= l)
    BY <1>1, <1>6
  <2> QED BY <1>3, <1>5, <1>6, <2>1
<1> QED BY <1>6, <1>7 DEF Nowhere

(* What a scope shows is where the list has what the other shows.          *)
LEMMA SeenIs ==
  ASSUME NEW list, Len(list) \in Nat, NEW other \in Seq(ScopeSet), NEW old \in Nat, MeansSame(list, other, old),
         NEW sc, SeesAll(sc, other), NEW n \in Nat, old <= n, n <= Len(list)
  PROVE  \A m \in 1 .. Len(sc) : \E k \in 1 .. n : list[k].name = sc[m].name /\ Nowhere(list, k, sc[m].name)
<1> SUFFICES ASSUME NEW m \in 1 .. Len(sc)
             PROVE  \E k \in 1 .. n : list[k].name = sc[m].name /\ Nowhere(list, k, sc[m].name)
  OBVIOUS
<1>1. PICK i \in 1 .. Len(other) : other[i].name = sc[m].name
  BY DEF SeesAll
<1>2. PICK l \in 1 .. Len(other) : other[l].name = sc[m].name /\ Nowhere(other, l, other[l].name)
  BY <1>1, LastVisible
<1>3. PICK k \in 1 .. Len(list) : k <= old /\ list[k].name = other[l].name /\ Nowhere(list, k, other[l].name)
  BY <1>2 DEF MeansSame
<1>4. k \in 1 .. n
  BY <1>3
<1> QED BY <1>2, <1>3, <1>4

(* The list without what the block defined.                                *)
LEMMA PoppedIs ==
  ASSUME NEW S, NEW list \in Seq(S), NEW old \in Nat, Len(list) >= old
  PROVE  \E n \in 0 .. Len(list) :
           /\ old <= n /\ Popped(list, old) = SubSeq(list, 1, n)
           /\ Popped(list, old) \in Seq(S) /\ Len(Popped(list, old)) = n
           /\ \A k \in 1 .. n : Popped(list, old)[k] = list[k]
<1> DEFINE n == Len(list) - (Len(list) - old + 1) \div 2
<1>1. Len(list) \in Nat
  BY LenProperties
<1>2. PICK d \in Nat : d = Len(list) - old
  <2>1. Len(list) - old \in Nat
    BY <1>1
  <2> QED BY <2>1
<1>3. (d + 1) \div 2 \in Nat /\ (d + 1) \div 2 <= d
  OBVIOUS
<1>4. n = Len(list) - (d + 1) \div 2
  BY <1>2
<1>5. Popped(list, old) = SubSeq(list, 1, n)
  BY DEF Popped
<1> HIDE DEF n
<1>6. n \in 0 .. Len(list) /\ old <= n
  <2>1. PICK e \in Nat : e = (d + 1) \div 2 /\ e <= d
    BY <1>3
  <2>2. n = Len(list) - e
    BY <1>4, <2>1
  <2> QED BY <1>1, <1>2, <2>1, <2>2
<1>7. /\ SubSeq(list, 1, n) \in Seq(S) /\ Len(SubSeq(list, 1, n)) = n
      /\ \A k \in 1 .. n : SubSeq(list, 1, n)[k] = list[k]
  BY <1>6, Shortened
<1> QED BY <1>5, <1>6, <1>7

(* The constructs around the block.                                        *)
LEMMA PoppedSuits ==
  ASSUME NEW bl, NEW list \in Seq(VariableSet), NEW old \in Nat, NEW n \in 0 .. Len(list), old <= n,
         NEW other \in Seq(ScopeSet), ~Shadowing => MeansSame(list, other, old),
         NEW f, Suits(bl, f, list), ~Shadowing => SeesAll(f.scope, other),
         f.kind = "while" => Len(bl[f.ends[5]].vars) \in Nat /\ Len(bl[f.ends[5]].vars) <= old
  PROVE  Suits(bl, f, SubSeq(list, 1, n))
<1> DEFINE short == SubSeq(list, 1, n)
<1>1. Len(list) \in Nat /\ short \in Seq(VariableSet) /\ Len(short) = n /\ n \in Nat /\ n <= Len(list)
  <2>1. Len(list) \in Nat
    BY LenProperties
  <2>2. short \in Seq(VariableSet) /\ Len(short) = n
    BY Shortened
  <2> QED BY <2>1, <2>2
<1>2. ASSUME ~Shadowing
      PROVE  MeansSame(short, f.scope, IF f.kind = "block" THEN f.old ELSE Len(short))
  <2>1. \A m \in 1 .. Len(f.scope) :
          \E k \in 1 .. n : list[k].name = f.scope[m].name /\ Nowhere(list, k, f.scope[m].name)
    BY <1>1, <1>2, SeenIs
  <2>2. CASE f.kind = "block"
    <3>1. MeansSame(list, f.scope, f.old)
      BY <1>2, <2>2 DEF Suits
    <3>2. MeansSame(short, f.scope, f.old)
      BY <2>1, <3>1, ShorterMeans
    <3> QED BY <2>2, <3>2
  <2>3. CASE f.kind # "block"
    <3>1. MeansSame(list, f.scope, Len(list))
      BY <1>2, <2>3 DEF Suits
    <3>2. MeansSame(short, f.scope, Len(list))
      BY <2>1, <3>1, ShorterMeans
    <3> HIDE DEF short
    <3>3. MeansSame(short, f.scope, Len(short))
      BY <1>1, <3>2, MeansAnywhere
    <3> QED BY <2>3, <3>3
  <2> QED BY <2>2, <2>3
<1>3. ASSUME f.kind = "while"
      PROVE  StartsWith(short, bl[f.ends[5]].vars)
  <2>1. Len(bl[f.ends[5]].vars) \in Nat /\ StartsWith(list, bl[f.ends[5]].vars)
    BY <1>3 DEF Suits
  <2>2. Len(bl[f.ends[5]].vars) <= n
    BY <1>1, <1>3, <2>1
  <2> QED BY <2>1, <2>2, ShorterStarts
<1> QED BY <1>2, <1>3 DEF Suits

LEMMA BlockEndStep ==
  ASSUME BuildInv, BlockEnd
  PROVE  BuildInv'
<1> DEFINE end == Head(Top.ends)
           g == Branch(Graph, current, end)
           jumped == Placed(g, end)
           typed == Top.results # <<>>
           p == IF typed THEN WithPhi(jumped, end, Top.results) ELSE jumped
           h == Transitions(p, end)
           list == h.blocks[end].vars
           short == Popped(list, Top.old)
           r == WithList(h, end, short)
           val == IF typed THEN Len(jumped.values) + 1 ELSE Void
           last == Len(frames)
<1>1. frames # <<>> /\ Top.kind = "block" /\ Top.phase = "statements"
  BY DEF BlockEnd, In
<1>2. /\ Top \in FrameSet /\ Args(blocks, Top.results) /\ Top = frames[last] /\ last \in Nat \ {0}
      /\ last \in 1 .. last
  BY <1>1, TopFacts
<1>3. /\ end \in 1 .. Len(g.blocks) /\ IsGraph(g) /\ g.values = values
      /\ Len(g.blocks) = Len(blocks)
      /\ Sound(g, current, frames, scope, value) /\ Enters(g, current, frames, end)
      /\ Len(g.values) \in Nat
  BY <1>1, EndIs
<1>4. /\ Len(list) >= Top.old /\ current' = end /\ frames' = Front(frames) /\ value' = val
      /\ scope' = Top.scope /\ wild' = wild
  BY DEF BlockEnd, Close
<1>5. Becomes(r)
  <2>1. Becomes([h EXCEPT !.blocks[end].vars = Popped(@, Top.old)])
    BY DEF BlockEnd
  <2>2. [h EXCEPT !.blocks[end].vars = Popped(@, Top.old)] = r
    <3> HIDE DEF h
    <3> QED BY DEF WithList
  <2> QED BY <2>1, <2>2
<1> HIDE DEF g
<1>6. Begins(g, jumped, end) /\ jumped.values = g.values
  BY <1>3, PlacedBegins
<1>7. Args(g.blocks, Top.results)
  BY <1>2, <1>3 DEF Args
<1> HIDE DEF jumped, end
<1>8. Begins(g, p, end) /\ val \in Pending .. Len(p.values)
  <2>1. CASE typed
    <3>1. /\ Begins(g, WithPhi(jumped, end, Top.results), end)
          /\ Len(WithPhi(jumped, end, Top.results).values) = Len(jumped.values) + 1
      BY <1>3, <1>6, <1>7, PhiBegins
    <3>2. val = Len(jumped.values) + 1 /\ p = WithPhi(jumped, end, Top.results)
      BY <2>1
    <3> QED BY <1>3, <1>6, <3>1, <3>2 DEF Pending
  <2>2. CASE ~typed
    <3>1. val = 0 /\ p = jumped
      BY <2>2 DEF Void
    <3> QED BY <1>3, <1>6, <3>1 DEF Pending
  <2> QED BY <2>1, <2>2
<1> HIDE DEF p, val
<1>9. /\ IsGraph(h) /\ Len(h.blocks) = Len(g.blocks) /\ val \in Pending .. Len(h.values)
  BY <1>3, <1>8, TransitionsKeep
<1>10. /\ OnlyBlock(g.blocks, h.blocks, end) /\ Begun(h.blocks, end)
       /\ \A i \in 1 .. last : Suits(g.blocks, frames[i], list)
  BY <1>3, <1>8, EntersSuits
<1>11. Standing(h.blocks, end, Front(frames))
  BY <1>3, <1>8, EntersLast
<1> HIDE DEF h
<1>12. /\ end \in 1 .. Len(h.blocks) /\ list \in Seq(VariableSet)
       /\ \A k \in 1 .. Len(list) : list[k].value \in 1 .. Len(h.values)
  BY <1>3, <1>9, GraphBlock
<1>13. Top.old \in Nat /\ Top.scope \in Seq(ScopeSet)
  BY <1>2 DEF FrameSet
<1> HIDE DEF list
<1>14. PICK n \in 0 .. Len(list) :
         /\ Top.old <= n /\ short = SubSeq(list, 1, n) /\ short \in Seq(VariableSet) /\ Len(short) = n
         /\ \A k \in 1 .. n : short[k] = list[k]
  BY <1>4, <1>12, <1>13, PoppedIs
<1> HIDE DEF short
<1>15. \A k \in 1 .. Len(short) : short[k].value \in 1 .. Len(h.values)
  <2>1. Len(list) \in Nat
    BY <1>12, LenProperties
  <2>2. \A k \in 1 .. n : k \in 1 .. Len(list)
    BY <2>1
  <2> QED BY <1>12, <1>14, <2>2
<1>16. /\ IsGraph(r) /\ r.values = h.values /\ OnlyBlock(h.blocks, r.blocks, end)
       /\ r.blocks[end].idx = h.blocks[end].idx /\ r.blocks[end].vars = short
  <2>1. short \in Seq(VariableSet) /\ end \in 1 .. Len(h.blocks) /\ IsGraph(h)
    BY <1>9, <1>12, <1>14
  <2> QED BY <1>15, <2>1, ListReplaced
<1> HIDE DEF r
<1>17. /\ Behind(g.blocks, current, frames, last - 1, Top) /\ Standing(g.blocks, current, frames)
       /\ Top.scope = frames[last].scope
  <2>1. Standing(g.blocks, current, frames)
    BY <1>3, SoundIs
  <2> QED BY <1>2, <2>1 DEF Standing
<1>18. ~Shadowing => MeansSame(list, Top.scope, Top.old)
  BY <1>1, <1>2, <1>10 DEF Suits
<1>19. Suits(g.blocks, Top, short)
  <2>1. Suits(g.blocks, Top, list)
    BY <1>2, <1>10
  <2>2. SeesAll(Top.scope, Top.scope)
    BY DEF SeesAll
  <2> QED BY <1>1, <1>12, <1>13, <1>14, <1>18, <2>1, <2>2, PoppedSuits
<1>20. ASSUME NEW i \in 1 .. last - 1
       PROVE  Suits(h.blocks, frames[i], short)
  <2>1. i \in 1 .. last /\ Within(g.blocks, frames[i], Top) /\ Suits(g.blocks, frames[i], list)
    BY <1>2, <1>10, <1>17 DEF Behind
  <2>2. Owns(g.blocks, frames[i]) /\ Kept(g.blocks, current, frames[i])
    BY <1>17, <2>1 DEF Standing, Behind
  <2>3. ASSUME frames[i].kind = "while"
        PROVE  /\ frames[i].ends[5] \in 1 .. Len(g.blocks) /\ frames[i].ends[5] # end
               /\ Len(g.blocks[frames[i].ends[5]].vars) \in Nat
    <3>1. frames[i].ends[5] \in 1 .. Len(g.blocks)
      BY <2>2, <2>3 DEF Owns, Shaped, Statements, Jumps
    <3>2. Begun(g.blocks, frames[i].ends[5]) /\ ~Begun(g.blocks, end)
      BY <1>3, <2>2, <2>3, EntersBlock DEF Kept
    <3> QED BY <1>3, <3>1, <3>2, GraphBlock
  <2>4. Suits(g.blocks, frames[i], short)
    <3>1. frames[i].kind = "while" => Len(g.blocks[frames[i].ends[5]].vars) \in Nat /\ Len(g.blocks[frames[i].ends[5]].vars) <= Top.old
      BY <1>1, <2>1, <2>3 DEF Within
    <3>2. ~Shadowing => SeesAll(frames[i].scope, Top.scope)
      BY <2>1 DEF Within
    <3> QED BY <1>12, <1>13, <1>14, <1>18, <2>1, <3>1, <3>2, PoppedSuits
  <2>5. frames[i].kind = "while" => h.blocks[frames[i].ends[5]] = g.blocks[frames[i].ends[5]]
    BY <1>10, <2>3 DEF OnlyBlock
  <2> QED BY <2>4, <2>5 DEF Suits
<1>21. Standing(r.blocks, end, Front(frames))
  <2>1. Len(Front(frames)) = last - 1 /\ \A i \in 1 .. last - 1 : Front(frames)[i] = frames[i]
    <3>1. frames \in Seq(FrameSet)
      BY <1>3, SoundIs
    <3> QED BY <1>1, <3>1, WithoutTop
  <2>2. \A i \in 1 .. Len(Front(frames)) : Suits(h.blocks, Front(frames)[i], short)
    BY <1>20, <2>1
  <2>3. Begun(r.blocks, end)
    BY <1>10, <1>16 DEF Begun
  <2> QED BY <1>11, <1>16, <2>2, <2>3, CurrentStands
<1>22. Lexical(r.blocks, end, Top.scope)
  <2> SUFFICES ASSUME ~Shadowing PROVE MeansSame(short, Top.scope, Len(short))
    BY <1>16 DEF Lexical
  <2>1. MeansSame(short, Top.scope, Top.old)
    BY <1>1, <1>19 DEF Suits
  <2>2. Len(short) \in Nat
    BY <1>14
  <2> QED BY <2>1, <2>2, MeansAnywhere
<1>23. Len(r.blocks) = Len(g.blocks)
  BY <1>9, <1>16 DEF OnlyBlock
<1>24. Front(frames) \in Seq(FrameSet) /\ Scoped(Front(frames), Top.scope) /\ Resulting(r.blocks, Front(frames))
  BY <1>1, <1>3, <1>17, <1>23, FrontKeeps
<1>25. WalkTyped(r.values, Front(frames), Top.scope, val)
  BY <1>9, <1>13, <1>16, <1>24 DEF WalkTyped
<1>26. Sound(r, end, Front(frames), Top.scope, val)
  BY <1>16, <1>21, <1>22, <1>24, <1>25 DEF Sound
<1>27. Sound(r, current', frames', scope', value')
  BY <1>4, <1>26
<1>28. wild' \in BOOLEAN
  BY <1>4, Facts
<1> QED BY <1>5, <1>27, <1>28, InvNext

(***************************************************************************)
(* The invariant.                                                          *)
(***************************************************************************)
(* The function's first block, with its parameter.                         *)
LEMMA FirstBlock ==
  ASSUME Init
  PROVE  /\ WellTyped(blocks, values) /\ current = 1 /\ Len(blocks) = 1 /\ Begun(blocks, 1)
         /\ blocks[1].preds = <<>> /\ Len(blocks[1].vars) = 1
         /\ blocks[1].vars[1].name = Parameter /\ blocks[1].vars[1].id = 1
<1> DEFINE variable == Variable(Parameter, 1, 1)
           first == <<variable>>
           entry == Range(first)
           q == [NewBlock EXCEPT !.idx = 0, !.vars = first, !.entry = entry]
           v == [Leaf EXCEPT !.at = 1]
<1>1. blocks = <<q>> /\ values = <<v>> /\ current = 1
  BY DEF Init
<1>2. variable \in VariableSet /\ variable.name = Parameter /\ variable.id = 1 /\ variable.value = 1
  BY IrBuildAssumption DEF Variable, VariableSet
<1> HIDE DEF variable
<1>3. first \in Seq(VariableSet) /\ Len(first) = 1 /\ first[1] = variable
  BY <1>2
<1>4. entry \subseteq VariableSet
  BY <1>2 DEF Range
<1> HIDE DEF first, entry
<1>5. q \in BlockSet /\ q.idx = 0 /\ q.vars = first /\ q.preds = <<>>
  <2>1. NewBlock \in BlockSet /\ NewBlock.preds = <<>>
    BY NewBlockIs
  <2>2. entry \in SUBSET VariableSet /\ 0 \in Int
    BY <1>4
  <2>3. ASSUME NEW r, r = q
        PROVE  r \in BlockSet /\ r.idx = 0 /\ r.vars = first /\ r.preds = <<>>
    BY <1>3, <2>1, <2>2, <2>3 DEF BlockSet
  <2> QED BY <2>3
<1>6. v \in ValueSet /\ v.args = <<>>
  BY LeafIs DEF ValueSet
<1> HIDE DEF q, v
<1>7. /\ blocks \in Seq(BlockSet) /\ Len(blocks) = 1 /\ blocks[1] = q
      /\ values \in Seq(ValueSet) /\ Len(values) = 1 /\ values[1] = v
  BY <1>1, <1>5, <1>6
<1>8. \A i \in 1 .. Len(v.args) : FALSE
  BY <1>6
<1>9. WellTyped(blocks, values)
  <2>1. \A b \in 1 .. Len(blocks) : \A k \in 1 .. Len(blocks[b].vars) : blocks[b].vars[k].value = 1
    BY <1>2, <1>3, <1>5, <1>7
  <2>2. \A w \in 1 .. Len(values) : \A i \in 1 .. Len(values[w].args) : FALSE
    BY <1>7, <1>8
  <2>3. 1 \in 1 .. Len(values)
    BY <1>7
  <2> QED BY <1>7, <2>1, <2>2, <2>3 DEF WellTyped
<1> QED BY <1>1, <1>2, <1>3, <1>5, <1>7, <1>9 DEF Begun, NotBegun

LEMMA BuildInit == Init => BuildInv
<1> SUFFICES ASSUME Init PROVE BuildInv
  OBVIOUS
<1>1. /\ frames = <<>> /\ value = Pending /\ wild = FALSE /\ scope = <<[name |-> Parameter, id |-> 1]>>
  BY DEF Init
<1>2. /\ WellTyped(blocks, values) /\ current = 1 /\ Len(blocks) = 1 /\ Begun(blocks, 1)
      /\ blocks[1].preds = <<>> /\ Len(blocks[1].vars) = 1
      /\ blocks[1].vars[1].name = Parameter /\ blocks[1].vars[1].id = 1
  BY FirstBlock
<1>3. scope \in Seq(ScopeSet) /\ Len(scope) = 1 /\ scope[1].name = Parameter /\ scope[1].id = 1
  <2>1. [name |-> Parameter, id |-> 1] \in ScopeSet
    BY IrBuildAssumption DEF ScopeSet
  <2> QED BY <1>1, <2>1
<1>4. \A i \in 1 .. Len(frames) : FALSE
  BY <1>1
<1>5. WalkTyped(values, frames, scope, value)
  <2>1. Len(values) \in Nat
    BY <1>2, LenProperties DEF WellTyped
  <2>2. value \in Pending .. Len(values)
    BY <1>1, <2>1 DEF Pending
  <2> QED BY <1>1, <1>3, <2>2 DEF WalkTyped
<1>6. Connected(blocks, current)
  <2>1. \A n \in 1 .. Len(blocks[1].preds) : FALSE
    BY <1>2
  <2> QED BY <1>2, <2>1 DEF Connected
<1>7. Standing(blocks, current, frames) /\ Scoped(frames, scope) /\ Resulting(blocks, frames)
  BY <1>4, <1>6 DEF Standing, Scoped, Resulting
<1>8. MeansSame(blocks[1].vars, scope, Len(blocks[1].vars))
  <2> DEFINE list == blocks[1].vars
  <2>1. Nowhere(list, 1, Parameter)
    BY <1>2 DEF Nowhere
  <2> QED BY <1>2, <1>3, <2>1 DEF MeansSame
<1> QED BY <1>1, <1>2, <1>5, <1>7, <1>8 DEF BuildInv, Lexical

LEMMA BuildNext == BuildInv /\ [Next]_vars => BuildInv'
<1> SUFFICES ASSUME BuildInv, [Next]_vars PROVE BuildInv'
  OBVIOUS
<1>1. CASE Simple \/ Eval \/ Define \/ Assign \/ Jump
  BY <1>1, SimpleStep, EvalStep, DefineStep, AssignStep, JumpStep
<1>2. CASE \E n \in Names : Read(n) \/ Compute(n)
  BY <1>2, ReadStep, ComputeStep
<1>3. CASE BlockBegin \/ BlockEnd
  BY <1>3, BlockBeginStep, BlockEndStep
<1>4. CASE IfBegin \/ IfCondition \/ IfThen \/ IfAgain
  BY <1>4, IfBeginStep, IfConditionStep, IfThenStep, IfAgainStep
<1>5. CASE IfElse \/ IfWithoutElse \/ IfEnd
  BY <1>5, IfElseStep, IfWithoutElseStep, IfEndStep
<1>6. CASE WhileBegin \/ WhileCondition \/ WhileBody
  BY <1>6, WhileBeginStep, WhileConditionStep, WhileBodyStep
<1>7. CASE WhileElse \/ WhileWithoutElse \/ WhileEnd
  BY <1>7, WhileElseStep, WhileWithoutElseStep, WhileEndStep
<1>8. CASE \E n \in Names : DefineBegin(n) \/ AssignBegin(n)
  BY <1>8, DefineBeginStep, AssignBeginStep
<1>9. CASE \E i \in DOMAIN frames : ReturnBegin(i) \/ BreakBegin(i) \/ Continue(i)
  BY <1>9, ReturnBeginStep, BreakBeginStep, ContinueStep
<1>10. CASE UNCHANGED vars
  BY <1>10 DEF vars, BuildInv
<1> QED BY <1>1, <1>2, <1>3, <1>4, <1>5, <1>6, <1>7, <1>8, <1>9, <1>10 DEF Next

(* The blocks, lists and constructs are as the walk of ir_build.c needs    *)
(* them: every block that will begin is new, is led to when it begins, and *)
(* gets the lists of variables that the constructs around it count on.     *)
THEOREM BuildInvariant == Spec => []BuildInv
<1>1. Init => BuildInv
  BY BuildInit
<1>2. BuildInv /\ [Next]_vars => BuildInv'
  BY BuildNext
<1> QED BY <1>1, <1>2, PTL DEF Spec

(***************************************************************************)
(* What follows from it.                                                   *)
(***************************************************************************)
LEMMA TypesHold == BuildInv => TypeOK
<1> SUFFICES ASSUME BuildInv PROVE TypeOK
  OBVIOUS
<1>1. WellTyped(blocks, values) /\ value \in Pending .. Len(values) /\ wild \in BOOLEAN
  BY DEF BuildInv, WalkTyped
<1>2. Connected(blocks, current)
  BY DEF BuildInv, Standing
<1>3. /\ blocks \in Seq(BlockSet) /\ DOMAIN blocks = 1 .. Len(blocks)
      /\ values \in Seq(ValueSet) /\ DOMAIN values = 1 .. Len(values)
  BY <1>1, LenProperties DEF WellTyped
<1>4. ASSUME NEW b \in DOMAIN blocks
      PROVE  /\ Range(blocks[b].preds) \subseteq DOMAIN blocks
             /\ \A k \in DOMAIN blocks[b].vars :
                  blocks[b].vars[k].name \in Names /\ blocks[b].vars[k].value \in DOMAIN values
  <2>1. /\ blocks[b].preds \in Seq(Nat) /\ blocks[b].vars \in Seq(VariableSet)
        /\ \A k \in 1 .. Len(blocks[b].vars) :
             blocks[b].vars[k] \in VariableSet /\ blocks[b].vars[k].value \in 1 .. Len(values)
    BY <1>1, <1>3, BlockIs
  <2>2. DOMAIN blocks[b].preds = 1 .. Len(blocks[b].preds) /\ DOMAIN blocks[b].vars = 1 .. Len(blocks[b].vars)
    BY <2>1, LenProperties
  <2>3. \A n \in 1 .. Len(blocks[b].preds) : blocks[b].preds[n] \in 1 .. Len(blocks)
    BY <1>2, <1>3 DEF Connected
  <2>4. Range(blocks[b].preds) \subseteq DOMAIN blocks
    BY <1>3, <2>2, <2>3 DEF Range
  <2> QED BY <1>3, <2>1, <2>2, <2>4 DEF VariableSet
<1>5. ASSUME NEW v \in DOMAIN values, NEW i \in DOMAIN values[v].args
      PROVE  values[v].args[i].from \in DOMAIN blocks
  <2>1. values[v] \in ValueSet
    BY <1>3, ElementOfSeq
  <2>2. values[v].args \in Seq(OperandSet)
    BY <2>1 DEF ValueSet
  <2>3. i \in 1 .. Len(values[v].args)
    BY <2>2, LenProperties
  <2> QED BY <1>1, <1>3, <2>3 DEF WellTyped
<1>6. current \in DOMAIN blocks
  BY <1>2, <1>3 DEF Connected
<1> QED BY <1>1, <1>4, <1>5, <1>6 DEF TypeOK

(* Every variable of every block has a value, every operand of a phi comes *)
(* from a block, and so does every way into one.                           *)
THEOREM TypeCorrect == Spec => []TypeOK
BY BuildInvariant, TypesHold, PTL

(* The last of a name.                                                     *)
LEMMA LastOf ==
  ASSUME NEW S, NEW s \in Seq(S), NEW l \in 1 .. Len(s), NEW name, s[l].name = name, Nowhere(s, l, name)
  PROVE  Max({k \in DOMAIN s : s[k].name = name}) = l
<1> DEFINE P == {k \in DOMAIN s : s[k].name = name}
           top == Max(P)
<1>1. Len(s) \in Nat /\ DOMAIN s = 1 .. Len(s)
  BY LenProperties
<1>2. P \subseteq 0 .. Len(s) /\ l \in P
  BY <1>1
<1>3. \A k \in P : k \in 1 .. Len(s) /\ s[k].name = name
  BY <1>1
<1> HIDE DEF P
<1>4. top \in P /\ \A k \in P : top >= k
  BY <1>1, <1>2, Greatest
<1> HIDE DEF top
<1>5. top >= l /\ top \in 1 .. Len(s) /\ s[top].name = name
  BY <1>2, <1>3, <1>4
<1>6. top \notin l + 1 .. Len(s)
  BY <1>5 DEF Nowhere
<1>7. top = l
  BY <1>1, <1>5, <1>6
<1> QED BY <1>7 DEF top, P

LEMMA LexicalHolds == ~Shadowing /\ BuildInv => LookupsAreLexical
<1> SUFFICES ASSUME ~Shadowing, BuildInv PROVE LookupsAreLexical
  OBVIOUS
<1> DEFINE list == blocks[current].vars
           last(s, name) == s[Max({k \in DOMAIN s : s[k].name = name})].id
<1>1. scope \in Seq(ScopeSet) /\ list \in Seq(VariableSet)
  BY Facts
<1>2. MeansSame(list, scope, Len(list))
  BY DEF BuildInv, Lexical
<1>3. DOMAIN scope = 1 .. Len(scope) /\ DOMAIN list = 1 .. Len(list)
  BY <1>1, LenProperties
<1> HIDE DEF list
<1>4. ASSUME NEW m \in DOMAIN scope, NEW name, name = scope[m].name
      PROVE  (\E k \in DOMAIN list : list[k].name = name) /\ last(list, name) = last(scope, name)
  <2>1. PICK l \in 1 .. Len(scope) : scope[l].name = name /\ Nowhere(scope, l, scope[l].name)
    BY <1>1, <1>3, <1>4, LastVisible
  <2>2. PICK k \in 1 .. Len(list) :
          /\ list[k].name = name /\ list[k].id = scope[l].id /\ Nowhere(list, k, name)
    BY <1>2, <2>1 DEF MeansSame
  <2>3. Max({j \in DOMAIN scope : scope[j].name = name}) = l
    BY <1>1, <2>1, LastOf
  <2>4. Max({j \in DOMAIN list : list[j].name = name}) = k
    BY <1>1, <2>2, LastOf
  <2>5. last(list, name) = list[k].id /\ last(scope, name) = scope[l].id
    BY <2>3, <2>4
  <2> QED BY <1>3, <2>2, <2>5
<1> QED BY <1>4 DEF LookupsAreLexical, list

(* Where no block defines a name again that is visible, a name means the   *)
(* definition of it that the program can see, at every statement, however  *)
(* many variables ir_build_block left in the list when it popped half.     *)
THEOREM LookupsLexical == ~Shadowing => (Spec => []LookupsAreLexical)
<1> SUFFICES ASSUME ~Shadowing PROVE Spec => []LookupsAreLexical
  OBVIOUS
<1>1. BuildInv => LookupsAreLexical
  BY LexicalHolds
<1> QED BY <1>1, BuildInvariant, PTL

(* When the body of a loop has been built, the variables there were when   *)
(* it began have the same places in the lists of the condition's block and *)
(* of the current one: what the assertion at ir_build.c:486 checks.        *)
LoopListsAgree ==
  In("while", "body") =>
    LET original == blocks[Top.ends[5]].vars
        before == blocks[Top.ends[2]].vars
        after == blocks[current].vars
    IN  \A i \in DOMAIN original :
          i \in DOMAIN before /\ i \in DOMAIN after /\ before[i].name = after[i].name

LEMMA ListsAgree == BuildInv => LoopListsAgree
<1> SUFFICES ASSUME BuildInv, frames # <<>>, Top.kind = "while", Top.phase = "body",
                    NEW i \in DOMAIN blocks[Top.ends[5]].vars
             PROVE  /\ i \in DOMAIN blocks[Top.ends[2]].vars /\ i \in DOMAIN blocks[current].vars
                    /\ blocks[Top.ends[2]].vars[i].name = blocks[current].vars[i].name
  BY DEF LoopListsAgree, In
<1>1. Kept(blocks, current, Top) /\ Suits(blocks, Top, blocks[current].vars) /\ Owns(blocks, Top)
  BY TopFacts
<1>2. /\ StartsWith(blocks[current].vars, blocks[Top.ends[5]].vars)
      /\ StartsWith(blocks[Top.ends[2]].vars, blocks[Top.ends[5]].vars)
  BY <1>1 DEF Kept, Suits
<1>3. Top.ends[5] \in 1 .. Len(blocks) /\ Top.ends[2] \in 1 .. Len(blocks) /\ current \in 1 .. Len(blocks)
  BY <1>1, Facts DEF Owns, Shaped, Statements, Jumps
<1>4. WellTyped(blocks, values)
  BY DEF BuildInv
<1>5. ASSUME NEW list \in Seq(VariableSet)
      PROVE  DOMAIN list = 1 .. Len(list) /\ Len(list) \in Nat
  BY LenProperties
<1>6. \A b \in 1 .. Len(blocks) : blocks[b].vars \in Seq(VariableSet)
  BY <1>4, BlockIs
<1>7. /\ DOMAIN blocks[Top.ends[5]].vars = 1 .. Len(blocks[Top.ends[5]].vars)
      /\ DOMAIN blocks[Top.ends[2]].vars = 1 .. Len(blocks[Top.ends[2]].vars)
      /\ DOMAIN blocks[current].vars = 1 .. Len(blocks[current].vars)
      /\ Len(blocks[Top.ends[5]].vars) \in Nat /\ Len(blocks[Top.ends[2]].vars) \in Nat
      /\ Len(blocks[current].vars) \in Nat
  BY <1>3, <1>5, <1>6
<1>8. ASSUME NEW list, NEW base, StartsWith(list, base), DOMAIN base = 1 .. Len(base),
             DOMAIN list = 1 .. Len(list), Len(base) \in Nat, Len(list) \in Nat, NEW j \in DOMAIN base
      PROVE  j \in DOMAIN list /\ list[j].name = base[j].name
  BY <1>8 DEF StartsWith
<1>9. i \in DOMAIN blocks[Top.ends[2]].vars /\ blocks[Top.ends[2]].vars[i].name = blocks[Top.ends[5]].vars[i].name
  BY <1>2, <1>7, <1>8
<1>10. i \in DOMAIN blocks[current].vars /\ blocks[current].vars[i].name = blocks[Top.ends[5]].vars[i].name
  BY <1>2, <1>7, <1>8
<1> QED BY <1>9, <1>10

(* Whatever the body of a loop defines, assigns and leaves, _assert in      *)
(* ir_build_while (ir_build.c:486) never fails.                            *)
THEOREM LoopListsAlwaysAgree == Spec => []LoopListsAgree
BY BuildInvariant, ListsAgree, PTL

=============================================================================
