--------------------------- MODULE ExprParserProofs ---------------------------
(***************************************************************************)
(* The theorems of ExprParser, for any operators and inputs of any length. *)
(*                                                                         *)
(* The stack of operations cuts the tokens that have been read into gaps:  *)
(* one behind each entry, up to the next one or to where the parser is,    *)
(* and one before them all. A gap is filled if an operator between two     *)
(* operands follows it, or if no operand is due behind the last one; then  *)
(* it is an operand, and the stack of primaries has its tree.              *)
(***************************************************************************)
EXTENDS ExprParser, FiniteSetTheorems, SequenceTheorems, WellFoundedInduction, TLAPS

Entries == [type : Operations \cup {"("}, unary : BOOLEAN, pos : Nat \ {0}]

IsBinary(entry) == ~entry.unary /\ ~IsOpen(entry)
Binaries(ops, k) == Cardinality({j \in 1 .. k : IsBinary(ops[j])})
Opens(ops, k) == Cardinality({j \in 1 .. k : IsOpen(ops[j])})

From(ops, k) == IF k = 0 THEN 1 ELSE ops[k].pos + 1
To(ops, here, k) == IF k = Len(ops) THEN here ELSE ops[k + 1].pos - 1
Filled(ops, full, k) == IF k = Len(ops) THEN full ELSE IsBinary(ops[k + 1])

(* The tree of a span, as TableTree has it.                                *)
Growing(s, f, span) ==
  LET i == span[1]
      j == span[2]
      k == Weakest(s, i, j)
  IN  IF i > j THEN <<>>
      ELSE IF Outermost(s, i, j) # {} THEN <<k, f[<<i, k - 1>>], f[<<k + 1, j>>]>>
      ELSE IF s[i] \in Operations THEN <<i, f[<<i + 1, j>>]>>
      ELSE IF s[i] = "(" THEN f[<<i + 1, j - 1>>]
      ELSE <<i>>
Spans(s) == (1 .. Len(s) + 1) \X (0 .. Len(s))
Tree(s, i, j) == (CHOOSE f : f = [span \in Spans(s) |-> Growing(s, f, span)])[<<i, j>>]

(* What an entry of operations is in the input, read up to here.          *)
Entry(s, here, ops, k) ==
  /\ ops[k].pos <= here
  /\ s[ops[k].pos] = ops[k].type
  /\ ops[k].unary = Unary(s, ops[k].pos)
  /\ Priority(ops[k]) # 0
  /\ Depth(s, ops[k].pos) = Opens(ops, k)

(* The operators that are left outermost in the operand bind tighter than  *)
(* the entry before it, and not weaker than the one behind it; bound is    *)
(* what is said of the last one.                                           *)
Filling(s, here, ops, bound, k) ==
  LET from == From(ops, k)
      to == To(ops, here, k)
  IN  /\ from <= to
      /\ Depth(s, to) = Opens(ops, k)
      /\ \A l \in from .. to : Depth(s, l) >= Opens(ops, k)
      /\ \A l \in Outermost(s, from, to) :
           /\ k > 0 => BinaryPriority[s[l]] < Priority(ops[k])
           /\ BinaryPriority[s[l]] <= IF k = Len(ops) THEN bound ELSE Priority(ops[k + 1])

Gap(s, here, ops, prims, full, bound, k) ==
  IF Filled(ops, full, k)
  THEN /\ Filling(s, here, ops, bound, k)
       /\ prims[Binaries(ops, k) + 1] = Tree(s, From(ops, k), To(ops, here, k))
  ELSE From(ops, k) = To(ops, here, k) + 1

Frame(s, here, ops, prims, full, bound) ==
  /\ ops \in Seq(Entries)
  /\ \A k \in 1 .. Len(ops) : Entry(s, here, ops, k)
  /\ \A k \in 2 .. Len(ops) : ~IsOpen(ops[k]) => Priority(ops[k]) < Priority(ops[k - 1])
  /\ Len(prims) = Binaries(ops, Len(ops)) + (IF full THEN 1 ELSE 0)
  /\ \A k \in 0 .. Len(ops) : Gap(s, here, ops, prims, full, bound, k)

(* A call that begins with an operator that is never unary keeps it at the *)
(* bottom of the stack, and reports it sooner or later.                    *)
Doomed ==
  /\ BeginsBinary(input)
  /\ operations # <<>> /\ operations[1].unary
  /\ operations[1].type \in Operations \ UnaryOperators

Sequence(q) == q \in Seq({q[k] : k \in 1 .. Len(q)})

WellTyped ==
  /\ input \in Seq(Tokens) /\ Len(input) <= MaxTokens + 1
  /\ operations \in Seq(Entries)
  /\ \A k \in 1 .. Len(operations) : operations[k].pos <= Len(input)
  /\ Sequence(primaries)
  /\ state \in {"start", "unary", "binary", "open", "close", "identifier"}
  /\ outcome \in {"parsing", "accepted", "rejected"}
  /\ level \in 0 .. MaxTokens

(* While it parses: what is due is told by the last token, and an ordinary *)
(* input is in its frame, or the call is doomed.                           *)
Parsing ==
  /\ level = Opens(operations, Len(operations)) /\ level <= Len(input)
  /\ WantsOperand <=> input = <<>> \/ ~Operand(input, Len(input))
  /\ Ordinary(input) =>
       \/ /\ Viable(input)
          /\ Frame(input, Len(input), operations, primaries, ~WantsOperand, 0)
       \/ ~Viable(input) /\ Doomed

ParserInv ==
  /\ WellTyped
  /\ outcome = "parsing" => Parsing
  /\ TreesFollowTable
  /\ RejectsOnlyErrors

(***************************************************************************)
(* Numbers.                                                                *)
(***************************************************************************)
(* A set of naturals has a least element.                                  *)
LEMMA LeastNatural ==
  ASSUME NEW S, S \subseteq Nat, S # {}
  PROVE  \E x \in S : \A y \in S : x <= y
<1> DEFINE R == OpToRel(<, Nat)
<1>1. IsWellFoundedOn(R, Nat)
  BY NatLessThanWellFounded
<1>2. \A x, y \in Nat : x < y => <<x, y>> \in R
  BY DEF OpToRel
<1> HIDE DEF R
<1>3. PICK x \in S : \A y \in S : ~(<<y, x>> \in R)
  BY <1>1, WFMin
<1>4. \A y \in S : ~(y < x)
  BY <1>2, <1>3
<1> QED BY <1>3, <1>4

(* Max of numbers up to n is the greatest of them.                         *)
LEMMA Greatest ==
  ASSUME NEW n \in Nat, NEW S, S \subseteq 0 .. n, S # {}
  PROVE  Max(S) \in S /\ \A y \in S : Max(S) >= y
<1> DEFINE T == {n - x : x \in S}
<1>1. T \subseteq Nat /\ T # {}
  <2>1. \A x \in S : n - x \in Nat
    OBVIOUS
  <2> QED BY <2>1
<1> HIDE DEF T
<1>2. PICK m \in T : \A y \in T : m <= y
  BY <1>1, LeastNatural
<1>3. PICK x \in S : m = n - x
  BY <1>2 DEF T
<1>4. ASSUME NEW y \in S
      PROVE  x >= y
  <2>1. n - y \in T
    BY DEF T
  <2>2. n - x <= n - y
    BY <1>2, <1>3, <2>1
  <2> QED BY <2>2
<1> QED BY <1>4 DEF Max

(* Numbers that are each in a set when the one before them is.             *)
LEMMA OneByOne ==
  ASSUME NEW n \in Nat, NEW S, 0 \in S, \A k \in 0 .. n - 1 : k \in S => k + 1 \in S
  PROVE  0 .. n \subseteq S
<1> DEFINE T == {k \in 0 .. n : k \notin S}
<1> SUFFICES ASSUME T # {} PROVE FALSE
  OBVIOUS
<1>1. T \subseteq Nat
  OBVIOUS
<1> HIDE DEF T
<1>2. PICK m \in T : \A y \in T : m <= y
  BY <1>1, LeastNatural
<1>3. m \in 0 .. n /\ m \notin S
  BY <1>2 DEF T
<1>4. m # 0 /\ m - 1 \in 0 .. n - 1
  BY <1>3
<1>5. m - 1 \in S
  <2>1. m - 1 \in 0 .. n /\ ~(m <= m - 1)
    BY <1>3, <1>4
  <2> QED BY <1>2, <2>1 DEF T
<1>6. (m - 1) + 1 = m
  BY <1>3
<1> QED BY <1>3, <1>4, <1>5, <1>6

(* How many of the numbers up to k are in a set.                           *)
LEMMA Counting ==
  ASSUME NEW P
  PROVE  /\ Cardinality({j \in 1 .. 0 : j \in P}) = 0
         /\ \A k \in Nat : Cardinality({j \in 1 .. k : j \in P}) \in 0 .. k
         /\ \A k \in Nat \ {0} :
              Cardinality({j \in 1 .. k : j \in P}) =
                Cardinality({j \in 1 .. k - 1 : j \in P}) + IF k \in P THEN 1 ELSE 0
<1> DEFINE S(k) == {j \in 1 .. k : j \in P}
<1>1. \A k \in Nat : IsFiniteSet(S(k)) /\ Cardinality(S(k)) \in 0 .. k
  <2> SUFFICES ASSUME NEW k \in Nat PROVE IsFiniteSet(S(k)) /\ Cardinality(S(k)) \in 0 .. k
    OBVIOUS
  <2>1. IsFiniteSet(1 .. k) /\ Cardinality(1 .. k) = k
    BY FS_Interval
  <2>2. S(k) \in SUBSET (1 .. k)
    OBVIOUS
  <2> HIDE DEF S
  <2>3. IsFiniteSet(S(k)) /\ Cardinality(S(k)) <= k
    BY <2>1, <2>2, FS_Subset
  <2> QED BY <2>3, FS_CardinalityType
<1>2. Cardinality(S(0)) = 0
  <2>1. S(0) = {}
    OBVIOUS
  <2> QED BY <2>1, FS_EmptySet
<1>3. ASSUME NEW k \in Nat \ {0}
      PROVE  Cardinality(S(k)) = Cardinality(S(k - 1)) + IF k \in P THEN 1 ELSE 0
  <2>1. k - 1 \in Nat /\ k \notin S(k - 1)
    OBVIOUS
  <2>2. CASE k \in P
    <3>1. S(k) = S(k - 1) \cup {k}
      BY <2>2
    <3> HIDE DEF S
    <3> QED BY <1>1, <2>1, <2>2, <3>1, FS_AddElement
  <2>3. CASE k \notin P
    <3>1. S(k) = S(k - 1)
      BY <2>3
    <3>2. Cardinality(S(k - 1)) \in Nat
      BY <1>1, <2>1
    <3> HIDE DEF S
    <3> QED BY <2>3, <3>1, <3>2
  <2> QED BY <2>2, <2>3
<1> QED BY <1>1, <1>2, <1>3

(***************************************************************************)
(* Operators, parentheses and their depth.                                 *)
(***************************************************************************)
(* What operation_priority tells.                                          *)
LEMMA Priorities ==
  /\ "(" \in DOMAIN BinaryPriority /\ BinaryPriority["("] = 13
  /\ \A op \in BinaryOperators : op \in DOMAIN BinaryPriority /\ BinaryPriority[op] \in 3 .. 12
  /\ \A op \in DOMAIN BinaryPriority : op = "(" \/ op \in BinaryOperators
<1>1. DOMAIN BinaryPriority = BinaryOperators \cup {"("}
  BY DEF BinaryPriority
<1>2. BinaryPriority["("] = 13
  BY DEF BinaryPriority
<1>3. ASSUME NEW op \in BinaryOperators
      PROVE  BinaryPriority[op] \in 3 .. 12
  BY DEF BinaryPriority, BinaryOperators
<1> QED BY <1>1, <1>2, <1>3

(* Operators are no parentheses, and no operands.                          *)
LEMMA Operators ==
  /\ Operations \cap {"(", ")", "primary", "end"} = {}
  /\ \A op \in Operations : op \in UnaryOperators \/ op \in BinaryOperators
  /\ "(" \notin UnaryOperators /\ "(" \notin BinaryOperators
<1>1. UnaryOperators \cap {"(", ")", "primary", "end"} = {}
  BY DEF UnaryOperators
<1>2. BinaryOperators \cap {"(", ")", "primary", "end"} = {}
  BY DEF BinaryOperators
<1> QED BY <1>1, <1>2, ExprParserAssumption

(* Parentheses that are open, after each token.                            *)
LEMMA Depths ==
  ASSUME NEW s
  PROVE  /\ Depth(s, 0) = 0
         /\ \A k \in Nat : Depth(s, k) \in Int /\ Depth(s, k) <= k
         /\ \A k \in Nat \ {0} :
              Depth(s, k) = Depth(s, k - 1) + (IF s[k] = "(" THEN 1 ELSE 0)
                                            - (IF s[k] = ")" THEN 1 ELSE 0)
<1> DEFINE P == {j \in Nat : s[j] = "("}
           Q == {j \in Nat : s[j] = ")"}
           p(k) == Cardinality({j \in 1 .. k : j \in P})
           q(k) == Cardinality({j \in 1 .. k : j \in Q})
<1>1. \A k \in Nat : Depth(s, k) = p(k) - q(k)
  <2> SUFFICES ASSUME NEW k \in Nat PROVE Depth(s, k) = p(k) - q(k)
    OBVIOUS
  <2>1. {j \in 1 .. k : s[j] = "("} = {j \in 1 .. k : j \in P}
    OBVIOUS
  <2>2. {j \in 1 .. k : s[j] = ")"} = {j \in 1 .. k : j \in Q}
    OBVIOUS
  <2> QED BY <2>1, <2>2 DEF Depth
<1> HIDE DEF P, Q
<1>2. /\ p(0) = 0 /\ \A k \in Nat : p(k) \in 0 .. k
      /\ \A k \in Nat \ {0} : p(k) = p(k - 1) + IF k \in P THEN 1 ELSE 0
  BY Counting
<1>3. /\ q(0) = 0 /\ \A k \in Nat : q(k) \in 0 .. k
      /\ \A k \in Nat \ {0} : q(k) = q(k - 1) + IF k \in Q THEN 1 ELSE 0
  BY Counting
<1> HIDE DEF p, q
<1>4. \A k \in Nat : Depth(s, k) \in Int /\ Depth(s, k) <= k
  BY <1>1, <1>2, <1>3
<1>5. ASSUME NEW k \in Nat \ {0}
      PROVE  Depth(s, k) = Depth(s, k - 1) + (IF s[k] = "(" THEN 1 ELSE 0)
                                           - (IF s[k] = ")" THEN 1 ELSE 0)
  <2>1. /\ k - 1 \in Nat /\ p(k) \in Int /\ p(k - 1) \in Int /\ q(k) \in Int /\ q(k - 1) \in Int
        /\ Depth(s, k) = p(k) - q(k) /\ Depth(s, k - 1) = p(k - 1) - q(k - 1)
    BY <1>1, <1>2, <1>3
  <2>2. p(k) = p(k - 1) + (IF s[k] = "(" THEN 1 ELSE 0)
    BY <1>2 DEF P
  <2>3. q(k) = q(k - 1) + (IF s[k] = ")" THEN 1 ELSE 0)
    BY <1>3 DEF Q
  <2>4. ASSUME NEW x \in {0, 1}, NEW y \in {0, 1}, p(k) = p(k - 1) + x, q(k) = q(k - 1) + y
        PROVE  Depth(s, k) = Depth(s, k - 1) + x - y
    BY <2>1, <2>4
  <2> QED BY <2>2, <2>3, <2>4
<1>6. Depth(s, 0) = 0
  BY <1>1, <1>2, <1>3
<1> QED BY <1>4, <1>5, <1>6

(* Entries of a kind, up to each place of the stack.                       *)
LEMMA Kinds ==
  ASSUME NEW ops
  PROVE  /\ Opens(ops, 0) = 0 /\ Binaries(ops, 0) = 0
         /\ \A k \in Nat : Opens(ops, k) \in 0 .. k /\ Binaries(ops, k) \in 0 .. k
         /\ \A k \in Nat \ {0} :
              /\ Opens(ops, k) = Opens(ops, k - 1) + (IF IsOpen(ops[k]) THEN 1 ELSE 0)
              /\ Binaries(ops, k) = Binaries(ops, k - 1) + (IF IsBinary(ops[k]) THEN 1 ELSE 0)
<1> DEFINE P == {j \in Nat : IsOpen(ops[j])}
           Q == {j \in Nat : IsBinary(ops[j])}
           p(k) == Cardinality({j \in 1 .. k : j \in P})
           q(k) == Cardinality({j \in 1 .. k : j \in Q})
<1>1. \A k \in Nat : Opens(ops, k) = p(k) /\ Binaries(ops, k) = q(k)
  <2> SUFFICES ASSUME NEW k \in Nat PROVE Opens(ops, k) = p(k) /\ Binaries(ops, k) = q(k)
    OBVIOUS
  <2>1. {j \in 1 .. k : IsOpen(ops[j])} = {j \in 1 .. k : j \in P}
    OBVIOUS
  <2>2. {j \in 1 .. k : IsBinary(ops[j])} = {j \in 1 .. k : j \in Q}
    OBVIOUS
  <2> QED BY <2>1, <2>2 DEF Opens, Binaries
<1>2. \A k \in Nat \ {0} : (k \in P <=> IsOpen(ops[k])) /\ (k \in Q <=> IsBinary(ops[k])) /\ k - 1 \in Nat
  OBVIOUS
<1> HIDE DEF P, Q
<1>3. /\ p(0) = 0 /\ \A k \in Nat : p(k) \in 0 .. k
      /\ \A k \in Nat \ {0} : p(k) = p(k - 1) + IF k \in P THEN 1 ELSE 0
  BY Counting
<1>4. /\ q(0) = 0 /\ \A k \in Nat : q(k) \in 0 .. k
      /\ \A k \in Nat \ {0} : q(k) = q(k - 1) + IF k \in Q THEN 1 ELSE 0
  BY Counting
<1> HIDE DEF p, q
<1> QED BY <1>1, <1>2, <1>3, <1>4

(* What a part of two stacks has in common is counted alike.               *)
LEMMA KindsOfPart ==
  ASSUME NEW ops, NEW part, NEW n \in Nat, \A j \in 1 .. n : part[j] = ops[j]
  PROVE  \A k \in 0 .. n : Opens(part, k) = Opens(ops, k) /\ Binaries(part, k) = Binaries(ops, k)
<1> SUFFICES ASSUME NEW k \in 0 .. n
             PROVE  Opens(part, k) = Opens(ops, k) /\ Binaries(part, k) = Binaries(ops, k)
  OBVIOUS
<1>1. \A j \in 1 .. k : part[j] = ops[j]
  OBVIOUS
<1>2. {j \in 1 .. k : IsOpen(part[j])} = {j \in 1 .. k : IsOpen(ops[j])}
  BY <1>1
<1>3. {j \in 1 .. k : IsBinary(part[j])} = {j \in 1 .. k : IsBinary(ops[j])}
  BY <1>1
<1> QED BY <1>2, <1>3 DEF Opens, Binaries

(***************************************************************************)
(* A token more.                                                           *)
(***************************************************************************)
(* What is said of the tokens of an input stays true with another token.   *)
LEMMA Longer ==
  ASSUME NEW s \in Seq(Tokens), NEW t \in Tokens
  PROVE  /\ Append(s, t) \in Seq(Tokens) /\ Len(s) \in Nat /\ Len(Append(s, t)) = Len(s) + 1
         /\ \A k \in 1 .. Len(s) : Append(s, t)[k] = s[k]
         /\ Append(s, t)[Len(s) + 1] = t
         /\ \A k \in 0 .. Len(s) : Depth(Append(s, t), k) = Depth(s, k)
         /\ \A k \in 1 .. Len(s) : Operand(Append(s, t), k) <=> Operand(s, k)
         /\ \A k \in 1 .. Len(s) : Unary(Append(s, t), k) <=> Unary(s, k)
<1> DEFINE r == Append(s, t)
<1>1. /\ r \in Seq(Tokens) /\ Len(s) \in Nat /\ Len(r) = Len(s) + 1
      /\ \A k \in 1 .. Len(s) : r[k] = s[k]
      /\ r[Len(s) + 1] = t
  BY AppendProperties, LenProperties
<1> HIDE DEF r
<1>2. ASSUME NEW k \in 0 .. Len(s)
      PROVE  Depth(r, k) = Depth(s, k)
  <2>1. \A j \in 1 .. k : r[j] = s[j]
    BY <1>1
  <2>2. {j \in 1 .. k : r[j] = "("} = {j \in 1 .. k : s[j] = "("}
    BY <2>1
  <2>3. {j \in 1 .. k : r[j] = ")"} = {j \in 1 .. k : s[j] = ")"}
    BY <2>1
  <2> QED BY <2>2, <2>3 DEF Depth
<1>3. \A k \in 1 .. Len(s) : Operand(r, k) <=> Operand(s, k)
  BY <1>1 DEF Operand
<1>4. ASSUME NEW k \in 1 .. Len(s)
      PROVE  Unary(r, k) <=> Unary(s, k)
  <2>1. k = 1 \/ k - 1 \in 1 .. Len(s)
    BY <1>1
  <2> QED BY <1>1, <1>3, <2>1 DEF Unary
<1> QED BY <1>1, <1>2, <1>3, <1>4 DEF r

(* The operators that are outermost in a span of it stay so.               *)
LEMMA OutermostStay ==
  ASSUME NEW s \in Seq(Tokens), NEW t \in Tokens,
         NEW i \in 1 .. Len(s) + 1, NEW j \in 0 .. Len(s)
  PROVE  Outermost(Append(s, t), i, j) = Outermost(s, i, j)
<1> DEFINE r == Append(s, t)
<1>1. /\ Len(s) \in Nat /\ \A k \in 1 .. Len(s) : r[k] = s[k]
      /\ \A k \in 0 .. Len(s) : Depth(r, k) = Depth(s, k)
      /\ \A k \in 1 .. Len(s) : Unary(r, k) <=> Unary(s, k)
  BY Longer
<1> HIDE DEF r
<1>2. i - 1 \in 0 .. Len(s) /\ \A k \in i .. j : k \in 1 .. Len(s) /\ k \in 0 .. Len(s)
  BY <1>1
<1>3. Outermost(r, i, j) = Outermost(s, i, j)
  BY <1>1, <1>2 DEF Outermost
<1> QED BY <1>3 DEF r

(* An input is viable, or ordinary, when it was without its last token and *)
(* that fits.                                                              *)
LEMMA LongerInputs ==
  ASSUME NEW s \in Seq(Tokens), NEW t \in Tokens
  PROVE  /\ Ordinary(Append(s, t)) => Ordinary(s)
         /\ Viable(Append(s, t)) => Viable(s)
         /\ Viable(s) =>
              (Viable(Append(s, t)) <=>
                 /\ t # "end"
                 /\ Depth(Append(s, t), Len(s) + 1) >= 0
                 /\ IF t \in Operations
                    THEN t \in IF Unary(Append(s, t), Len(s) + 1) THEN UnaryOperators ELSE BinaryOperators
                    ELSE t = ")" <=> s # <<>> /\ Operand(s, Len(s)))
<1> DEFINE r == Append(s, t)
           Fits(q, i) ==
             /\ q[i] # "end"
             /\ Depth(q, i) >= 0
             /\ IF q[i] \in Operations
                THEN q[i] \in IF Unary(q, i) THEN UnaryOperators ELSE BinaryOperators
                ELSE (q[i] = ")") <=> (i > 1 /\ Operand(q, i - 1))
<1>1. /\ Len(s) \in Nat /\ Len(r) = Len(s) + 1 /\ r[Len(s) + 1] = t
      /\ \A k \in 1 .. Len(s) : r[k] = s[k]
      /\ \A k \in 0 .. Len(s) : Depth(r, k) = Depth(s, k)
      /\ \A k \in 1 .. Len(s) : Operand(r, k) <=> Operand(s, k)
      /\ \A k \in 1 .. Len(s) : Unary(r, k) <=> Unary(s, k)
  BY Longer
<1>2. \A k \in 1 .. Len(r) : k \in 1 .. Len(s) \/ k = Len(s) + 1
  BY <1>1
<1>3. 1 .. Len(s) \subseteq 1 .. Len(r) /\ Len(s) + 1 \in 1 .. Len(r)
  BY <1>1
<1> HIDE DEF r
<1>4. ASSUME NEW k \in 1 .. Len(s)
      PROVE  /\ r[k] = s[k] /\ (Unary(r, k) <=> Unary(s, k)) /\ Depth(r, k) = Depth(s, k)
             /\ k > 1 => /\ r[k - 1] = s[k - 1] /\ (Unary(r, k - 1) <=> Unary(s, k - 1))
                         /\ Operand(r, k - 1) <=> Operand(s, k - 1)
  <2>1. k \in 0 .. Len(s) /\ (k > 1 => k - 1 \in 1 .. Len(s))
    BY <1>1
  <2> QED BY <1>1, <2>1
<1>5. \A k \in 1 .. Len(s) : Fits(r, k) <=> Fits(s, k)
  BY <1>4
<1>6. Fits(r, Len(s) + 1) <=>
        /\ t # "end"
        /\ Depth(r, Len(s) + 1) >= 0
        /\ IF t \in Operations
           THEN t \in IF Unary(r, Len(s) + 1) THEN UnaryOperators ELSE BinaryOperators
           ELSE t = ")" <=> s # <<>> /\ Operand(s, Len(s))
  <2>1. Len(s) + 1 > 1 <=> s # <<>>
    BY <1>1, EmptySeq
  <2>2. (Len(s) + 1) - 1 = Len(s) /\ (s # <<>> => Len(s) \in 1 .. Len(s))
    BY <1>1, EmptySeq
  <2>3. s # <<>> => (Operand(r, Len(s)) <=> Operand(s, Len(s)))
    BY <1>1, <2>2
  <2> QED BY <1>1, <2>1, <2>2, <2>3
<1>7. Viable(s) <=> \A k \in 1 .. Len(s) : Fits(s, k)
  BY DEF Viable
<1>8. Viable(r) <=> \A k \in 1 .. Len(r) : Fits(r, k)
  BY DEF Viable
<1> HIDE DEF Fits
<1>9. Viable(r) <=> Viable(s) /\ Fits(r, Len(s) + 1)
  BY <1>2, <1>3, <1>5, <1>7, <1>8
<1>10. Ordinary(r) => Ordinary(s)
  BY <1>3, <1>4 DEF Ordinary
<1> QED BY <1>6, <1>9, <1>10 DEF r

(***************************************************************************)
(* Trees. The recursion of TableTree defines something for an ordinary     *)
(* input: a function on its spans, since it only looks at smaller ones.    *)
(***************************************************************************)
(* The operator that is applied last is one of those outermost, has the    *)
(* greatest number, and is the last that has it.                           *)
LEMMA WeakestOne ==
  ASSUME NEW s \in Seq(Tokens), Ordinary(s), NEW i \in 1 .. Len(s) + 1, NEW j \in 0 .. Len(s)
  PROVE  /\ \A k \in Outermost(s, i, j) : k \in i .. j /\ s[k] \in BinaryOperators
         /\ Outermost(s, i, j) # {} =>
              /\ Weakest(s, i, j) \in Outermost(s, i, j)
              /\ \A l \in Outermost(s, i, j) :
                   /\ BinaryPriority[s[l]] <= BinaryPriority[s[Weakest(s, i, j)]]
                   /\ BinaryPriority[s[l]] = BinaryPriority[s[Weakest(s, i, j)]] => l <= Weakest(s, i, j)
<1> DEFINE O == Outermost(s, i, j)
           p(l) == BinaryPriority[s[l]]
           W == {k \in O : \A l \in O : p(l) <= p(k)}
<1>1. Len(s) \in Nat
  BY LenProperties
<1>2. \A k \in O : k \in i .. j /\ k \in 1 .. Len(s) /\ s[k] \in Operations /\ ~Unary(s, k)
  BY <1>1 DEF Outermost
<1>3. \A k \in O : s[k] \in BinaryOperators
  BY <1>2 DEF Ordinary
<1>4. \A k \in O : p(k) \in 0 .. 12
  BY <1>3, Priorities
<1>5. Weakest(s, i, j) = Max(W)
  BY DEF Weakest
<1> HIDE DEF O, p
<1>6. ASSUME O # {}
      PROVE  /\ Max(W) \in O /\ \A l \in O : p(l) <= p(Max(W))
             /\ \A l \in O : p(l) = p(Max(W)) => l <= Max(W)
  <2> DEFINE S == {p(l) : l \in O}
  <2>1. S # {} /\ S \subseteq 0 .. 12
    BY <1>4, <1>6
  <2> HIDE DEF S
  <2>2. Max(S) \in S /\ \A y \in S : Max(S) >= y
    BY <2>1, Greatest
  <2>3. PICK k \in O : p(k) = Max(S)
    BY <2>2 DEF S
  <2>4. \A l \in O : p(l) <= p(k)
    <3>1. \A l \in O : p(l) \in S
      BY DEF S
    <3> QED BY <1>4, <2>2, <2>3, <3>1
  <2>5. W # {} /\ W \subseteq 0 .. Len(s)
    BY <1>1, <1>2, <2>4
  <2>6. Max(W) \in W /\ \A y \in W : Max(W) >= y
    <3> HIDE DEF W
    <3> QED BY <1>1, <2>5, Greatest
  <2>7. Max(W) \in O /\ \A l \in O : p(l) <= p(Max(W))
    BY <2>6
  <2>8. ASSUME NEW l \in O, p(l) = p(Max(W))
        PROVE  l <= Max(W)
    <3>1. l \in W
      BY <2>7, <2>8
    <3>2. Max(W) >= l
      BY <2>6, <3>1
    <3> HIDE DEF W
    <3>3. l \in Nat /\ Max(W) \in Nat
      BY <1>1, <1>2, <2>7
    <3> QED BY <3>2, <3>3
  <2> QED BY <2>7, <2>8
<1> HIDE DEF W
<1> QED BY <1>2, <1>3, <1>5, <1>6 DEF O, p

(* The tree of a span depends on those of smaller ones.                    *)
LEMMA GrowingSame ==
  ASSUME NEW s \in Seq(Tokens), Ordinary(s), NEW i \in 1 .. Len(s) + 1, NEW j \in 0 .. Len(s),
         NEW f, NEW g,
         \A a \in 1 .. Len(s) + 1, b \in 0 .. Len(s) : b - a < j - i => f[<<a, b>>] = g[<<a, b>>]
  PROVE  Growing(s, f, <<i, j>>) = Growing(s, g, <<i, j>>)
<1> DEFINE k == Weakest(s, i, j)
<1>1. Len(s) \in Nat
  BY LenProperties
<1>2. CASE i > j
  BY <1>2 DEF Growing
<1>3. CASE i <= j /\ Outermost(s, i, j) # {}
  <2>1. k \in i .. j
    BY <1>3, WeakestOne
  <2> HIDE DEF k
  <2>2. k - 1 \in 0 .. Len(s) /\ (k - 1) - i < j - i
    BY <1>1, <2>1
  <2>3. k + 1 \in 1 .. Len(s) + 1 /\ j - (k + 1) < j - i
    BY <1>1, <2>1
  <2>4. f[<<i, k - 1>>] = g[<<i, k - 1>>] /\ f[<<k + 1, j>>] = g[<<k + 1, j>>]
    BY <2>2, <2>3
  <2> QED BY <1>3, <2>4 DEF Growing, k
<1>4. CASE i <= j /\ Outermost(s, i, j) = {}
  <2>1. i + 1 \in 1 .. Len(s) + 1 /\ j - 1 \in 0 .. Len(s)
    BY <1>1, <1>4
  <2>2. j - (i + 1) < j - i /\ (j - 1) - (i + 1) < j - i
    BY <1>1
  <2>3. f[<<i + 1, j>>] = g[<<i + 1, j>>] /\ f[<<i + 1, j - 1>>] = g[<<i + 1, j - 1>>]
    BY <2>1, <2>2
  <2> QED BY <1>4, <2>3 DEF Growing
<1> QED BY <1>1, <1>2, <1>3, <1>4

(* There are trees for spans of every length.                              *)
LEMMA TreesGrow ==
  ASSUME NEW s \in Seq(Tokens), Ordinary(s)
  PROVE  \E f : f = [span \in Spans(s) |-> Growing(s, f, span)]
<1> DEFINE Grown(f, n) ==
             /\ f = [span \in Spans(s) |-> f[span]]
             /\ \A i \in 1 .. Len(s) + 1, j \in 0 .. Len(s) :
                  j - i < n => f[<<i, j>>] = Growing(s, f, <<i, j>>)
           L == Len(s) + 1
           S == {n \in 0 .. L : \E f : Grown(f, n)}
<1>1. Len(s) \in Nat /\ L \in Nat
  BY LenProperties
<1>2. \A i \in 1 .. Len(s) + 1, j \in 0 .. Len(s) : <<i, j>> \in Spans(s)
  BY DEF Spans
<1>3. 0 \in S
  <2> DEFINE f == [span \in Spans(s) |-> <<>>]
  <2>1. f = [span \in Spans(s) |-> f[span]]
    OBVIOUS
  <2>2. ASSUME NEW i \in 1 .. Len(s) + 1, NEW j \in 0 .. Len(s), j - i < 0
        PROVE  f[<<i, j>>] = Growing(s, f, <<i, j>>)
    <3>1. i > j
      BY <1>1, <2>2
    <3>2. Growing(s, f, <<i, j>>) = <<>>
      BY <3>1 DEF Growing
    <3> QED BY <1>2, <3>2
  <2> HIDE DEF f
  <2>3. Grown(f, 0)
    BY <2>1, <2>2
  <2> QED BY <1>1, <2>3
<1>4. ASSUME NEW n \in 0 .. L - 1, n \in S
      PROVE  n + 1 \in S
  <2>1. PICK f : Grown(f, n)
    BY <1>4
  <2> DEFINE g == [span \in Spans(s) |-> IF span[2] - span[1] < n THEN f[span] ELSE Growing(s, f, span)]
  <2>2. g = [span \in Spans(s) |-> g[span]]
    OBVIOUS
  <2>3. \A i \in 1 .. Len(s) + 1, j \in 0 .. Len(s) :
          g[<<i, j>>] = IF j - i < n THEN f[<<i, j>>] ELSE Growing(s, f, <<i, j>>)
    BY <1>2
  <2> HIDE DEF g
  <2>4. ASSUME NEW i \in 1 .. Len(s) + 1, NEW j \in 0 .. Len(s), j - i < n + 1
        PROVE  g[<<i, j>>] = Growing(s, g, <<i, j>>)
    <3>1. \A a \in 1 .. Len(s) + 1, b \in 0 .. Len(s) : b - a < j - i => f[<<a, b>>] = g[<<a, b>>]
      <4> SUFFICES ASSUME NEW a \in 1 .. Len(s) + 1, NEW b \in 0 .. Len(s), b - a < j - i
                   PROVE  f[<<a, b>>] = g[<<a, b>>]
        OBVIOUS
      <4>1. b - a < n
        BY <1>1, <2>4
      <4> QED BY <2>3, <4>1
    <3>2. Growing(s, f, <<i, j>>) = Growing(s, g, <<i, j>>)
      BY <3>1, GrowingSame
    <3>3. g[<<i, j>>] = Growing(s, f, <<i, j>>)
      BY <2>1, <2>3
    <3> QED BY <3>2, <3>3
  <2>5. Grown(g, n + 1)
    BY <2>2, <2>4
  <2>6. n + 1 \in 0 .. L
    BY <1>1
  <2> QED BY <2>5, <2>6
<1> HIDE DEF S
<1>5. L \in S
  <2>1. 0 .. L \subseteq S
    BY <1>1, <1>3, <1>4, OneByOne
  <2> QED BY <1>1, <2>1
<1>6. PICK f : Grown(f, L)
  BY <1>5 DEF S
<1>7. ASSUME NEW span \in Spans(s)
      PROVE  f[span] = Growing(s, f, span)
  <2>1. PICK i \in 1 .. Len(s) + 1, j \in 0 .. Len(s) : span = <<i, j>>
    BY DEF Spans
  <2>2. j - i < L
    BY <1>1
  <2> QED BY <1>6, <2>1, <2>2
<1>8. f = [span \in Spans(s) |-> Growing(s, f, span)]
  BY <1>6, <1>7
<1> QED BY <1>8

(* What the trees of an ordinary input are.                                *)
LEMMA TreeIs ==
  ASSUME NEW s \in Seq(Tokens), Ordinary(s), NEW i \in 1 .. Len(s) + 1, NEW j \in 0 .. Len(s), i <= j
  PROVE  Tree(s, i, j) =
           IF Outermost(s, i, j) # {}
           THEN <<Weakest(s, i, j), Tree(s, i, Weakest(s, i, j) - 1), Tree(s, Weakest(s, i, j) + 1, j)>>
           ELSE IF s[i] \in Operations THEN <<i, Tree(s, i + 1, j)>>
           ELSE IF s[i] = "(" THEN Tree(s, i + 1, j - 1)
           ELSE <<i>>
<1> DEFINE f == CHOOSE h : h = [span \in Spans(s) |-> Growing(s, h, span)]
<1>1. f = [span \in Spans(s) |-> Growing(s, f, span)]
  BY TreesGrow
<1>2. \A a, b : Tree(s, a, b) = f[<<a, b>>]
  BY DEF Tree
<1> HIDE DEF f
<1>3. Len(s) \in Nat /\ <<i, j>> \in Spans(s)
  BY LenProperties DEF Spans
<1>4. f[<<i, j>>] = Growing(s, f, <<i, j>>)
  BY <1>1, <1>3
<1>5. ~(i > j)
  BY <1>3
<1> QED BY <1>2, <1>4, <1>5 DEF Growing

(* The tree of an ordinary input is the one the documented table gives.    *)
LEMMA TableTreeIs ==
  ASSUME NEW s
  PROVE  TableTree(s) = Tree(s, 1, Len(s))
BY DEF TableTree, Tree, Growing, Spans

(* A token more leaves the trees of the spans before it.                   *)
LEMMA TreeStays ==
  ASSUME NEW s \in Seq(Tokens), NEW t \in Tokens, Ordinary(Append(s, t)),
         NEW i \in 1 .. Len(s) + 1, NEW j \in 0 .. Len(s)
  PROVE  Tree(Append(s, t), i, j) = Tree(s, i, j)
<1> DEFINE r == Append(s, t)
           f == CHOOSE h : h = [span \in Spans(s) |-> Growing(s, h, span)]
           g == CHOOSE h : h = [span \in Spans(r) |-> Growing(r, h, span)]
           L == Len(s) + 1
           S == {n \in 0 .. L : \A a \in 1 .. Len(s) + 1, b \in 0 .. Len(s) :
                                  b - a < n => f[<<a, b>>] = g[<<a, b>>]}
<1>1. Len(s) \in Nat /\ r \in Seq(Tokens) /\ Len(r) = Len(s) + 1 /\ L \in Nat
      /\ \A k \in 1 .. Len(s) : r[k] = s[k]
  BY Longer
<1>2. \A a, b : Outermost(r, a, b) = {k \in a .. b : r[k] \in Operations /\ ~Unary(r, k)
                                                      /\ Depth(r, k) = Depth(r, a - 1)}
  BY DEF Outermost
<1>3. ASSUME NEW a \in 1 .. Len(s) + 1, NEW b \in 0 .. Len(s)
      PROVE  Outermost(r, a, b) = Outermost(s, a, b)
  BY OutermostStay
<1>4. Ordinary(s) /\ Ordinary(r)
  BY LongerInputs
<1>5. f = [span \in Spans(s) |-> Growing(s, f, span)]
  BY <1>4, TreesGrow
<1>6. g = [span \in Spans(r) |-> Growing(r, g, span)]
  <2> HIDE DEF r
  <2> QED BY <1>1, <1>4, TreesGrow
<1>7. Tree(r, i, j) = g[<<i, j>>] /\ Tree(s, i, j) = f[<<i, j>>]
  BY DEF Tree
<1> HIDE DEF r, f, g
<1>8. ASSUME NEW a \in 1 .. Len(s) + 1, NEW b \in 0 .. Len(s)
      PROVE  f[<<a, b>>] = Growing(s, f, <<a, b>>) /\ g[<<a, b>>] = Growing(r, g, <<a, b>>)
  <2>1. <<a, b>> \in Spans(s) /\ <<a, b>> \in Spans(r)
    BY <1>1 DEF Spans
  <2> QED BY <1>5, <1>6, <2>1
<1>9. ASSUME NEW a \in 1 .. Len(s) + 1, NEW b \in 0 .. Len(s)
      PROVE  Growing(r, g, <<a, b>>) = Growing(s, g, <<a, b>>)
  <2>1. CASE a > b
    BY <2>1 DEF Growing
  <2>2. CASE a <= b
    <3>1. \A k \in Outermost(s, a, b) : r[k] = s[k]
      <4>1. \A k \in Outermost(s, a, b) : k \in 1 .. Len(s)
        BY <1>1, <1>4, WeakestOne
      <4> QED BY <1>1, <4>1
    <3>2. Weakest(r, a, b) = Weakest(s, a, b)
      <4>1. {k \in Outermost(r, a, b) :
               \A l \in Outermost(r, a, b) : BinaryPriority[r[l]] <= BinaryPriority[r[k]]}
            = {k \in Outermost(s, a, b) :
               \A l \in Outermost(s, a, b) : BinaryPriority[s[l]] <= BinaryPriority[s[k]]}
        BY <1>3, <3>1
      <4> QED BY <4>1 DEF Weakest
    <3>3. r[a] = s[a]
      BY <1>1, <2>2
    <3> QED BY <1>3, <3>2, <3>3 DEF Growing
  <2> QED BY <1>1, <2>1, <2>2
<1>10. 0 \in S
  <2> SUFFICES ASSUME NEW a \in 1 .. Len(s) + 1, NEW b \in 0 .. Len(s), b - a < 0
               PROVE  f[<<a, b>>] = g[<<a, b>>]
    BY <1>1
  <2>1. a > b
    BY <1>1
  <2>2. Growing(s, f, <<a, b>>) = <<>> /\ Growing(r, g, <<a, b>>) = <<>>
    BY <2>1 DEF Growing
  <2> QED BY <1>8, <2>2
<1>11. ASSUME NEW n \in 0 .. L - 1, n \in S
       PROVE  n + 1 \in S
  <2> SUFFICES ASSUME NEW a \in 1 .. Len(s) + 1, NEW b \in 0 .. Len(s), b - a < n + 1
               PROVE  f[<<a, b>>] = g[<<a, b>>]
    BY <1>1
  <2>1. ASSUME NEW c \in 1 .. Len(s) + 1, NEW d \in 0 .. Len(s), d - c < b - a
        PROVE  f[<<c, d>>] = g[<<c, d>>]
    <3>1. d - c < n
      BY <1>1, <2>1
    <3> QED BY <1>11, <3>1
  <2>2. Growing(s, f, <<a, b>>) = Growing(s, g, <<a, b>>)
    BY <1>4, <2>1, GrowingSame
  <2> QED BY <1>8, <1>9, <2>2
<1> HIDE DEF S
<1>12. L \in S
  <2>1. 0 .. L \subseteq S
    BY <1>1, <1>10, <1>11, OneByOne
  <2> QED BY <1>1, <2>1
<1>13. j - i < L
  BY <1>1
<1>14. f[<<i, j>>] = g[<<i, j>>]
  BY <1>12, <1>13 DEF S
<1> QED BY <1>7, <1>14 DEF r

(***************************************************************************)
(* The stack of operations.                                                *)
(***************************************************************************)
(* What the priority of an entry tells of it.                              *)
LEMMA EntryPriority ==
  ASSUME NEW e \in Entries
  PROVE  /\ Priority(e) \in 0 .. 13
         /\ IsOpen(e) => Priority(e) \in {0, 13}
         /\ IsBinary(e) /\ Priority(e) # 0 =>
              e.type \in BinaryOperators /\ Priority(e) = BinaryPriority[e.type] /\ Priority(e) \in 3 .. 12
         /\ e.unary /\ Priority(e) # 0 => e.type \in UnaryOperators /\ Priority(e) = 2 /\ ~IsOpen(e)
         /\ ~IsOpen(e) => e.type \in Operations /\ Priority(e) <= 12
<1>1. e.type \in Operations \cup {"("} /\ e.unary \in BOOLEAN
  BY DEF Entries
<1>2. CASE e.unary
  BY <1>1, <1>2, Operators DEF Priority, IsOpen, IsBinary
<1>3. CASE ~e.unary
  BY <1>1, <1>3, Priorities, Operators DEF Priority, IsOpen, IsBinary
<1> QED BY <1>2, <1>3

(* The entries of a kind are not fewer further up.                         *)
LEMMA KindsGrow ==
  ASSUME NEW ops, NEW m \in Nat, NEW k \in 0 .. m
  PROVE  Binaries(ops, k) <= Binaries(ops, m)
<1>1. IsFiniteSet(1 .. m)
  BY FS_Interval
<1>2. /\ {j \in 1 .. m : IsBinary(ops[j])} \in SUBSET (1 .. m)
      /\ {j \in 1 .. k : IsBinary(ops[j])} \in SUBSET {j \in 1 .. m : IsBinary(ops[j])}
  OBVIOUS
<1>3. IsFiniteSet({j \in 1 .. m : IsBinary(ops[j])})
  BY <1>1, <1>2, FS_Subset
<1> QED BY <1>2, <1>3, FS_Subset DEF Binaries

(* No parenthesis is opened by entries that are none.                      *)
LEMMA OpensBelow ==
  ASSUME NEW ops, NEW m \in Nat, NEW n \in 0 .. m, \A j \in n + 1 .. m : ~IsOpen(ops[j])
  PROVE  Opens(ops, m) = Opens(ops, n)
<1>1. \A j \in 1 .. m : j \in 1 .. n \/ j \in n + 1 .. m
  OBVIOUS
<1>2. \A j \in 1 .. n : j \in 1 .. m
  OBVIOUS
<1>3. {j \in 1 .. m : IsOpen(ops[j])} = {j \in 1 .. n : IsOpen(ops[j])}
  BY <1>1, <1>2
<1> QED BY <1>3 DEF Opens

(* Where the parser is, and before each gap, the parentheses that are open *)
(* are those on the stack.                                                 *)
LEMMA FrameDepth ==
  ASSUME NEW s, NEW here \in Nat, NEW ops, NEW prims, NEW full, NEW bound,
         Frame(s, here, ops, prims, full, bound)
  PROVE  /\ Depth(s, here) = Opens(ops, Len(ops))
         /\ \A k \in 0 .. Len(ops) : From(ops, k) \in Nat \ {0} /\ Depth(s, From(ops, k) - 1) = Opens(ops, k)
<1>1. ops \in Seq(Entries) /\ Len(ops) \in Nat
  BY LenProperties DEF Frame
<1>2. \A k \in 1 .. Len(ops) : ops[k] \in Entries /\ ops[k].pos \in Nat \ {0}
  <2>1. \A k \in 1 .. Len(ops) : ops[k] \in Entries
    BY <1>1, ElementOfSeq
  <2> QED BY <2>1 DEF Entries
<1>3. ASSUME NEW k \in 0 .. Len(ops)
      PROVE  From(ops, k) \in Nat \ {0} /\ Depth(s, From(ops, k) - 1) = Opens(ops, k)
  <2>1. CASE k = 0
    <3>1. From(ops, k) = 1 /\ From(ops, k) - 1 = 0
      BY <2>1 DEF From
    <3>2. Depth(s, 0) = 0 /\ Opens(ops, 0) = 0
      BY Depths, Kinds
    <3> QED BY <2>1, <3>1, <3>2
  <2>2. CASE k # 0
    <3>1. k \in 1 .. Len(ops)
      BY <2>2
    <3>2. From(ops, k) = ops[k].pos + 1 /\ Depth(s, ops[k].pos) = Opens(ops, k)
      BY <2>2, <3>1 DEF From, Frame, Entry
    <3>3. (ops[k].pos + 1) - 1 = ops[k].pos
      BY <1>2, <3>1
    <3> QED BY <1>2, <3>1, <3>2, <3>3
  <2> QED BY <2>1, <2>2
<1>4. Depth(s, here) = Opens(ops, Len(ops))
  <2> DEFINE m == Len(ops)
  <2>1. m \in 0 .. Len(ops) /\ To(ops, here, m) = here
    BY <1>1 DEF To
  <2>2. CASE full
    <3>1. Filling(s, here, ops, bound, m)
      BY <2>1, <2>2 DEF Frame, Gap, Filled
    <3> QED BY <2>1, <3>1 DEF Filling
  <2>3. CASE ~full
    <3>1. From(ops, m) = here + 1
      BY <2>1, <2>3 DEF Frame, Gap, Filled
    <3>2. here = From(ops, m) - 1
      BY <3>1
    <3> QED BY <1>3, <2>1, <3>2
  <2> QED BY <2>2, <2>3
<1> QED BY <1>3, <1>4

(* A gap between two entries is the same in a stack that has both.         *)
LEMMA GapStays ==
  ASSUME NEW s, NEW here, NEW ops, NEW prims, NEW full, NEW bound,
         NEW here2, NEW ops2, NEW prims2, NEW full2, NEW bound2,
         NEW k \in Nat, k < Len(ops), k < Len(ops2), Len(ops) \in Nat, Len(ops2) \in Nat,
         \A j \in 1 .. k + 1 : ops2[j] = ops[j],
         IsBinary(ops[k + 1]) => prims2[Binaries(ops, k) + 1] = prims[Binaries(ops, k) + 1],
         Gap(s, here, ops, prims, full, bound, k)
  PROVE  Gap(s, here2, ops2, prims2, full2, bound2, k)
<1>1. k # Len(ops) /\ k # Len(ops2)
  OBVIOUS
<1>2. ops2[k + 1] = ops[k + 1] /\ (k > 0 => ops2[k] = ops[k])
  OBVIOUS
<1>3. From(ops2, k) = From(ops, k) /\ To(ops2, here2, k) = To(ops, here, k)
      /\ Filled(ops2, full2, k) = Filled(ops, full, k)
  BY <1>1, <1>2 DEF From, To, Filled
<1>4. Opens(ops2, k) = Opens(ops, k) /\ Binaries(ops2, k) = Binaries(ops, k)
  BY KindsOfPart
<1>5. Filling(s, here, ops, bound, k) => Filling(s, here2, ops2, bound2, k)
  BY <1>1, <1>2, <1>3, <1>4 DEF Filling
<1>6. Filled(ops, full, k) <=> IsBinary(ops[k + 1])
  BY <1>1 DEF Filled
<1> QED BY <1>3, <1>4, <1>5, <1>6 DEF Gap

(* An entry is the same in a stack that begins with the same ones.         *)
LEMMA EntryStays ==
  ASSUME NEW s, NEW here \in Nat, NEW ops, NEW here2 \in Nat, here <= here2, NEW ops2,
         NEW k \in Nat \ {0}, \A j \in 1 .. k : ops2[j] = ops[j], ops[k].pos \in Nat,
         Entry(s, here, ops, k)
  PROVE  Entry(s, here2, ops2, k)
<1>1. ops2[k] = ops[k]
  OBVIOUS
<1>2. Opens(ops2, k) = Opens(ops, k)
  BY KindsOfPart
<1>3. ops[k].pos <= here2
  BY DEF Entry
<1> QED BY <1>1, <1>2, <1>3 DEF Entry

(* Where the gaps of a frame are.                                          *)
LEMMA FramePlaces ==
  ASSUME NEW s, NEW here \in Nat, NEW ops, NEW prims, NEW full, NEW bound,
         Frame(s, here, ops, prims, full, bound)
  PROVE  /\ ops \in Seq(Entries) /\ Len(ops) \in Nat
         /\ \A k \in 1 .. Len(ops) : ops[k] \in Entries /\ ops[k].pos \in 1 .. here
         /\ \A k \in 0 .. Len(ops) : From(ops, k) \in 1 .. here + 1 /\ To(ops, here, k) \in 0 .. here
<1>1. ops \in Seq(Entries) /\ Len(ops) \in Nat
  BY LenProperties DEF Frame
<1>2. ASSUME NEW k \in 1 .. Len(ops)
      PROVE  ops[k] \in Entries /\ ops[k].pos \in 1 .. here
  <2>1. ops[k] \in Entries
    BY <1>1, ElementOfSeq
  <2>2. ops[k].pos \in Nat \ {0}
    BY <2>1 DEF Entries
  <2>3. ops[k].pos <= here
    BY DEF Frame, Entry
  <2> QED BY <2>1, <2>2, <2>3
<1>3. ASSUME NEW k \in 0 .. Len(ops)
      PROVE  From(ops, k) \in 1 .. here + 1 /\ To(ops, here, k) \in 0 .. here
  <2>1. From(ops, k) \in 1 .. here + 1
    <3>1. k = 0 \/ ops[k].pos \in 1 .. here
      BY <1>2
    <3> QED BY <3>1 DEF From
  <2>2. To(ops, here, k) \in 0 .. here
    <3>1. k = Len(ops) \/ k + 1 \in 1 .. Len(ops)
      BY <1>1
    <3>2. k = Len(ops) \/ ops[k + 1].pos \in 1 .. here
      BY <1>2, <3>1
    <3> QED BY <3>2 DEF To
  <2> QED BY <2>1, <2>2
<1> QED BY <1>1, <1>2, <1>3

(* A token more leaves the frame of what was read before.                  *)
LEMMA FrameStays ==
  ASSUME NEW s \in Seq(Tokens), NEW t \in Tokens, Ordinary(Append(s, t)),
         NEW ops, NEW prims, NEW full, NEW bound, Frame(s, Len(s), ops, prims, full, bound)
  PROVE  Frame(Append(s, t), Len(s), ops, prims, full, bound)
<1> DEFINE r == Append(s, t)
           here == Len(s)
<1>1. /\ here \in Nat /\ \A k \in 1 .. here : r[k] = s[k]
      /\ \A k \in 0 .. here : Depth(r, k) = Depth(s, k)
      /\ \A k \in 1 .. here : Unary(r, k) <=> Unary(s, k)
  BY Longer
<1>2. \A i \in 1 .. here + 1, j \in 0 .. here :
        Tree(r, i, j) = Tree(s, i, j) /\ Outermost(r, i, j) = Outermost(s, i, j)
  BY TreeStays, OutermostStay
<1>3. Ordinary(s)
  BY LongerInputs
<1>4. \A i \in 1 .. here + 1, j \in 0 .. here : \A l \in Outermost(s, i, j) : l \in 1 .. here /\ l \in i .. j
  <2> SUFFICES ASSUME NEW i \in 1 .. here + 1, NEW j \in 0 .. here, NEW l \in Outermost(s, i, j)
               PROVE  l \in 1 .. here /\ l \in i .. j
    OBVIOUS
  <2>1. l \in i .. j
    BY <1>3, WeakestOne
  <2> QED BY <1>1, <2>1
<1> HIDE DEF r
<1>5. Frame(s, here, ops, prims, full, bound)
  OBVIOUS
<1> HIDE DEF here
<1>6. /\ ops \in Seq(Entries) /\ Len(ops) \in Nat
      /\ \A k \in 1 .. Len(ops) : ops[k] \in Entries /\ ops[k].pos \in 1 .. here
      /\ \A k \in 0 .. Len(ops) : From(ops, k) \in 1 .. here + 1 /\ To(ops, here, k) \in 0 .. here
  BY <1>1, <1>5, FramePlaces
<1>7. ASSUME NEW k \in 1 .. Len(ops)
      PROVE  Entry(r, here, ops, k)
  <2>1. ops[k].pos \in 1 .. here /\ ops[k].pos \in 0 .. here
    BY <1>1, <1>6
  <2>2. Entry(s, here, ops, k)
    BY <1>5 DEF Frame
  <2>3. ops[k].unary = Unary(r, ops[k].pos)
    <3>1. ops[k].unary \in BOOLEAN /\ Unary(r, ops[k].pos) \in BOOLEAN /\ Unary(s, ops[k].pos) \in BOOLEAN
      BY <1>6 DEF Entries, Unary
    <3> QED BY <1>1, <2>1, <2>2, <3>1 DEF Entry
  <2> QED BY <1>1, <2>1, <2>2, <2>3 DEF Entry
<1>8. ASSUME NEW k \in 0 .. Len(ops)
      PROVE  Gap(r, here, ops, prims, full, bound, k)
  <2>1. Gap(s, here, ops, prims, full, bound, k)
    BY <1>5 DEF Frame
  <2> DEFINE from == From(ops, k)
             to == To(ops, here, k)
  <2>2. from \in 1 .. here + 1 /\ to \in 0 .. here
    BY <1>6
  <2>3. Tree(r, from, to) = Tree(s, from, to) /\ Outermost(r, from, to) = Outermost(s, from, to)
    BY <1>2, <2>2
  <2>4. Filling(s, here, ops, bound, k) => Filling(r, here, ops, bound, k)
    <3>1. \A l \in from .. to : l \in 0 .. here
      BY <1>1, <2>2
    <3>2. \A l \in Outermost(s, from, to) : r[l] = s[l]
      BY <1>1, <1>4, <2>2
    <3> QED BY <1>1, <2>2, <2>3, <3>1, <3>2 DEF Filling
  <2> QED BY <2>1, <2>3, <2>4 DEF Gap
<1> QED BY <1>5, <1>7, <1>8 DEF Frame, r, here

(***************************************************************************)
(* process_operation.                                                      *)
(***************************************************************************)
(* A sequence over some set is one over its own elements.                  *)
LEMMA IsSequence ==
  ASSUME NEW S, NEW q \in Seq(S)
  PROVE  Sequence(q)
<1> DEFINE T == {q[k] : k \in 1 .. Len(q)}
<1>1. Len(q) \in Nat /\ \A k \in 1 .. Len(q) : q[k] \in T
  BY LenProperties
<1> HIDE DEF T
<1>2. SubSeq(q, 1, Len(q)) \in Seq(T)
  BY <1>1, SubSeqProperties
<1>3. SubSeq(q, 1, Len(q)) = q
  BY SubSeqFull
<1> QED BY <1>2, <1>3 DEF Sequence, T

(* The bottom of a stack.                                                  *)
LEMMA Shortened ==
  ASSUME NEW q, Sequence(q), NEW n \in 0 .. Len(q)
  PROVE  /\ Sequence(SubSeq(q, 1, n)) /\ Len(SubSeq(q, 1, n)) = n
         /\ \A j \in 1 .. n : SubSeq(q, 1, n)[j] = q[j]
<1> DEFINE T == {q[k] : k \in 1 .. Len(q)}
<1>1. q \in Seq(T) /\ Len(q) \in Nat
  BY LenProperties DEF Sequence
<1>2. \A k \in 1 .. n : q[k] \in T
  BY <1>1
<1> HIDE DEF T
<1>3. /\ SubSeq(q, 1, n) \in Seq(T) /\ Len(SubSeq(q, 1, n)) = IF 1 <= n THEN n - 1 + 1 ELSE 0
      /\ \A j \in 1 .. n - 1 + 1 : SubSeq(q, 1, n)[j] = q[1 + j - 1]
  BY <1>1, <1>2, SubSeqProperties
<1>4. Len(SubSeq(q, 1, n)) = n /\ \A j \in 1 .. n : SubSeq(q, 1, n)[j] = q[j]
  <2>1. \A j \in 1 .. n : j \in 1 .. n - 1 + 1 /\ 1 + j - 1 = j
    BY <1>1
  <2>2. (IF 1 <= n THEN n - 1 + 1 ELSE 0) = n
    BY <1>1
  <2> QED BY <1>3, <2>1, <2>2
<1> QED BY <1>3, <1>4, IsSequence

(* The bottom of a stack with something on it.                             *)
LEMMA Stacked ==
  ASSUME NEW q, Sequence(q), NEW n \in 0 .. Len(q), NEW x
  PROVE  LET r == Append(SubSeq(q, 1, n), x)
         IN  /\ Sequence(r) /\ Len(r) = n + 1 /\ r[n + 1] = x
             /\ \A j \in 1 .. n : r[j] = q[j]
<1> DEFINE p == SubSeq(q, 1, n)
           T == {p[k] : k \in 1 .. Len(p)} \cup {x}
<1>1. Sequence(p) /\ Len(p) = n /\ \A j \in 1 .. n : p[j] = q[j]
  BY Shortened
<1> HIDE DEF p
<1>2. p \in Seq(T) /\ x \in T
  <2>1. p \in Seq({p[k] : k \in 1 .. Len(p)})
    BY <1>1 DEF Sequence
  <2>2. {p[k] : k \in 1 .. Len(p)} \subseteq T
    OBVIOUS
  <2> HIDE DEF T
  <2>3. p \in Seq(T)
    BY <2>1, <2>2, SeqMonotonic
  <2> QED BY <2>3 DEF T
<1> HIDE DEF T
<1>3. /\ Append(p, x) \in Seq(T) /\ Len(Append(p, x)) = Len(p) + 1 /\ Append(p, x)[Len(p) + 1] = x
      /\ \A j \in 1 .. Len(p) : Append(p, x)[j] = p[j]
  BY <1>2, AppendProperties
<1>4. Sequence(Append(p, x))
  BY <1>3, IsSequence
<1> QED BY <1>1, <1>3, <1>4 DEF p

(* The last of a stack.                                                    *)
LEMMA Operands ==
  ASSUME NEW q, Sequence(q), NEW x
  PROVE  /\ Len(q) >= 1 => <<x>> \o SubSeq(q, Len(q), Len(q)) = <<x, q[Len(q)]>>
         /\ Len(q) >= 2 => <<x>> \o SubSeq(q, Len(q) - 1, Len(q)) = <<x, q[Len(q) - 1], q[Len(q)]>>
<1> DEFINE T == {q[k] : k \in 1 .. Len(q)} \cup {x}
<1>1. Len(q) \in Nat
  BY LenProperties DEF Sequence
<1>2. PICK n \in Nat : n = Len(q)
  BY <1>1
<1>3. x \in T /\ <<x>> \in Seq(T) /\ Len(<<x>>) = 1 /\ <<x>>[1] = x
  OBVIOUS
<1>4. \A k \in 1 .. n : q[k] \in T
  BY <1>2
<1> HIDE DEF T
<1>5. ASSUME n >= 1
      PROVE  <<x>> \o SubSeq(q, n, n) = <<x, q[n]>>
  <2> DEFINE p == SubSeq(q, n, n)
  <2>1. \A k \in n .. n : q[k] \in T
    BY <1>4, <1>5
  <2>2. p \in Seq(T) /\ Len(p) = 1 /\ p[1] = q[n]
    <3>1. /\ p \in Seq(T) /\ Len(p) = IF n <= n THEN n - n + 1 ELSE 0
          /\ \A i \in 1 .. n - n + 1 : p[i] = q[n + i - 1]
      BY <2>1, SubSeqProperties
    <3>2. n - n + 1 = 1 /\ n + 1 - 1 = n
      OBVIOUS
    <3> QED BY <3>1, <3>2
  <2> HIDE DEF p
  <2> DEFINE u == <<x>> \o p
             v == <<x, q[n]>>
  <2>3. u \in Seq(T) /\ Len(u) = 2 /\ u[1] = x /\ u[2] = q[n]
    <3> DEFINE o == <<x>>
    <3>1. o \in Seq(T) /\ Len(o) = 1 /\ o[1] = x
      BY <1>3
    <3> HIDE DEF o
    <3>2. /\ o \o p \in Seq(T) /\ Len(o \o p) = Len(o) + Len(p)
          /\ \A i \in 1 .. Len(o) + Len(p) : (o \o p)[i] = IF i <= Len(o) THEN o[i] ELSE p[i - Len(o)]
      BY <2>2, <3>1, ConcatProperties
    <3>3. Len(o) + Len(p) = 2 /\ 1 \in 1 .. 2 /\ 2 \in 1 .. 2 /\ 2 - 1 = 1
      BY <2>2, <3>1
    <3>4. (o \o p)[1] = x /\ (o \o p)[2] = q[n]
      BY <2>2, <3>1, <3>2, <3>3
    <3> QED BY <3>2, <3>3, <3>4 DEF o
  <2>4. v \in Seq(T) /\ Len(v) = 2 /\ v[1] = x /\ v[2] = q[n]
    BY <1>3, <1>4, <1>5
  <2>5. \A i \in 1 .. 2 : i = 1 \/ i = 2
    OBVIOUS
  <2> HIDE DEF u, v
  <2>6. u = v
    BY <2>3, <2>4, <2>5, SeqEqual
  <2> QED BY <2>6 DEF p, u, v
<1>6. ASSUME n >= 2
      PROVE  <<x>> \o SubSeq(q, n - 1, n) = <<x, q[n - 1], q[n]>>
  <2> DEFINE p == SubSeq(q, n - 1, n)
  <2>1. \A k \in n - 1 .. n : q[k] \in T
    BY <1>4, <1>6
  <2>2. p \in Seq(T) /\ Len(p) = 2 /\ p[1] = q[n - 1] /\ p[2] = q[n]
    <3>1. /\ p \in Seq(T) /\ Len(p) = IF n - 1 <= n THEN n - (n - 1) + 1 ELSE 0
          /\ \A i \in 1 .. n - (n - 1) + 1 : p[i] = q[(n - 1) + i - 1]
      BY <2>1, SubSeqProperties
    <3>2. n - (n - 1) + 1 = 2 /\ (n - 1) + 1 - 1 = n - 1 /\ (n - 1) + 2 - 1 = n /\ n - 1 <= n
      OBVIOUS
    <3> QED BY <3>1, <3>2
  <2> HIDE DEF p
  <2> DEFINE u == <<x>> \o p
             v == <<x, q[n - 1], q[n]>>
  <2>3. u \in Seq(T) /\ Len(u) = 3 /\ u[1] = x /\ u[2] = q[n - 1] /\ u[3] = q[n]
    <3>1. /\ u \in Seq(T) /\ Len(u) = Len(<<x>>) + Len(p)
          /\ \A i \in 1 .. Len(<<x>>) + Len(p) :
               u[i] = IF i <= Len(<<x>>) THEN <<x>>[i] ELSE p[i - Len(<<x>>)]
      BY <1>3, <2>2, ConcatProperties
    <3> HIDE DEF u
    <3>2. \A i \in 1 .. 3 : u[i] = IF i <= 1 THEN <<x>>[i] ELSE p[i - 1]
      BY <1>3, <2>2, <3>1
    <3>3. u[1] = <<x>>[1] /\ u[2] = p[1] /\ u[3] = p[2]
      BY <3>2
    <3> QED BY <1>3, <2>2, <3>1, <3>3
  <2>4. v \in Seq(T) /\ Len(v) = 3 /\ v[1] = x /\ v[2] = q[n - 1] /\ v[3] = q[n]
    BY <1>3, <1>4, <1>6
  <2>5. \A i \in 1 .. 3 : i = 1 \/ i = 2 \/ i = 3
    OBVIOUS
  <2> HIDE DEF u, v
  <2>6. u = v
    BY <2>3, <2>4, <2>5, SeqEqual
  <2> QED BY <2>6 DEF p, u, v
<1> QED BY <1>2, <1>5, <1>6

(* A frame whose bottom is that of another: what is new is its last gap,   *)
(* and an entry before that, if there is one.                              *)
LEMMA NewTop ==
  ASSUME NEW s, NEW here \in Nat, NEW ops, NEW prims, NEW full, NEW bound,
         Frame(s, here, ops, prims, full, bound),
         NEW here2 \in Nat, here <= here2, NEW ops2 \in Seq(Entries), NEW prims2, NEW full2, NEW bound2,
         NEW n \in 0 .. Len(ops), Len(ops2) = n \/ Len(ops2) = n + 1,
         \A j \in 1 .. n : ops2[j] = ops[j],
         \A j \in 1 .. Binaries(ops, n) : prims2[j] = prims[j],
         Len(prims2) = Binaries(ops2, Len(ops2)) + (IF full2 THEN 1 ELSE 0),
         Len(ops2) = n + 1 =>
           /\ Entry(s, here2, ops2, n + 1)
           /\ n > 0 /\ ~IsOpen(ops2[n + 1]) => Priority(ops2[n + 1]) < Priority(ops2[n])
           /\ Gap(s, here2, ops2, prims2, full2, bound2, n),
         Gap(s, here2, ops2, prims2, full2, bound2, Len(ops2))
  PROVE  Frame(s, here2, ops2, prims2, full2, bound2)
<1>1. /\ Len(ops) \in Nat /\ Len(ops2) \in Nat /\ n \in Nat
      /\ \A k \in 1 .. Len(ops) : ops[k].pos \in Nat
  <2>1. Len(ops) \in Nat /\ \A k \in 1 .. Len(ops) : ops[k].pos \in 1 .. here
    BY FramePlaces
  <2> QED BY <2>1
<1>2. ASSUME NEW k \in 1 .. n
      PROVE  Entry(s, here2, ops2, k)
  <2>1. Entry(s, here, ops, k)
    BY <1>1 DEF Frame
  <2>2. \A j \in 1 .. k : ops2[j] = ops[j]
    BY <1>1
  <2> QED BY <1>1, <2>1, <2>2, EntryStays
<1>3. ASSUME NEW k \in 2 .. n, ~IsOpen(ops2[k])
      PROVE  Priority(ops2[k]) < Priority(ops2[k - 1])
  <2>1. k - 1 \in 1 .. n /\ k \in 1 .. n /\ k \in 2 .. Len(ops)
    BY <1>1
  <2>2. ops2[k] = ops[k] /\ ops2[k - 1] = ops[k - 1]
    BY <2>1
  <2> QED BY <1>3, <2>1, <2>2 DEF Frame
<1>4. ASSUME NEW k \in 0 .. n - 1
      PROVE  Gap(s, here2, ops2, prims2, full2, bound2, k)
  <2>1. k \in Nat /\ k < Len(ops) /\ k < Len(ops2) /\ k \in 0 .. Len(ops)
    BY <1>1
  <2>2. \A j \in 1 .. k + 1 : ops2[j] = ops[j]
    BY <1>1
  <2>3. IsBinary(ops[k + 1]) => prims2[Binaries(ops, k) + 1] = prims[Binaries(ops, k) + 1]
    <3>1. k + 1 \in Nat \ {0} /\ k + 1 \in 0 .. n /\ (k + 1) - 1 = k
      BY <1>1
    <3>2. IsBinary(ops[k + 1]) => Binaries(ops, k + 1) = Binaries(ops, k) + 1
      BY <3>1, Kinds
    <3>3. Binaries(ops, k + 1) <= Binaries(ops, n)
      BY <1>1, <3>1, KindsGrow
    <3>4. Binaries(ops, k) \in Nat /\ Binaries(ops, n) \in Nat
      BY <1>1, <2>1, Kinds
    <3> QED BY <3>2, <3>3, <3>4
  <2>4. Gap(s, here, ops, prims, full, bound, k)
    BY <2>1 DEF Frame
  <2> QED BY <1>1, <2>1, <2>2, <2>3, <2>4, GapStays
<1>5. \A k \in 1 .. Len(ops2) : Entry(s, here2, ops2, k)
  <2>1. \A k \in 1 .. Len(ops2) : k \in 1 .. n \/ (k = n + 1 /\ Len(ops2) = n + 1)
    BY <1>1
  <2> QED BY <1>2, <2>1
<1>6. \A k \in 2 .. Len(ops2) : ~IsOpen(ops2[k]) => Priority(ops2[k]) < Priority(ops2[k - 1])
  <2>1. \A k \in 2 .. Len(ops2) :
          k \in 2 .. n \/ (k = n + 1 /\ Len(ops2) = n + 1 /\ n > 0 /\ k - 1 = n)
    BY <1>1
  <2> QED BY <1>3, <2>1
<1>7. \A k \in 0 .. Len(ops2) : Gap(s, here2, ops2, prims2, full2, bound2, k)
  <2>1. \A k \in 0 .. Len(ops2) :
          k \in 0 .. n - 1 \/ k = Len(ops2) \/ (k = n /\ Len(ops2) = n + 1)
    BY <1>1
  <2> QED BY <1>4, <2>1
<1> QED BY <1>5, <1>6, <1>7 DEF Frame

(***************************************************************************)
(* What the steps do to a frame.                                           *)
(***************************************************************************)
(* An operator or an open parenthesis that is put on the stack.            *)
LEMMA Pushed ==
  ASSUME NEW s, NEW here \in Nat, NEW ops, NEW prims, NEW full \in BOOLEAN, NEW bound \in Nat,
         Frame(s, here, ops, prims, full, bound),
         NEW e \in Entries, e.pos = here + 1, s[here + 1] = e.type, e.unary = Unary(s, here + 1),
         Priority(e) # 0, IsBinary(e) = full, full => bound <= Priority(e),
         Depth(s, here + 1) = Depth(s, here) + (IF IsOpen(e) THEN 1 ELSE 0),
         ops # <<>> /\ ~IsOpen(e) => Priority(e) < Priority(ops[Len(ops)]),
         Ordinary(s), s \in Seq(Tokens), here <= Len(s)
  PROVE  Frame(s, here + 1, Append(ops, e), prims, FALSE, 0)
<1> DEFINE m == Len(ops)
           ops2 == Append(ops, e)
<1>1. /\ ops \in Seq(Entries) /\ m \in Nat
      /\ From(ops, m) \in 1 .. here + 1
  <2>1. ops \in Seq(Entries) /\ m \in Nat /\ \A k \in 0 .. m : From(ops, k) \in 1 .. here + 1
    BY FramePlaces
  <2>2. m \in 0 .. m
    BY <2>1
  <2> HIDE DEF m
  <2> QED BY <2>1, <2>2
<1>2. /\ ops2 \in Seq(Entries) /\ Len(ops2) = m + 1 /\ ops2[m + 1] = e
      /\ \A j \in 1 .. m : ops2[j] = ops[j]
  BY <1>1, AppendProperties
<1>3. ops # <<>> <=> m > 0
  BY <1>1, EmptySeq
<1>4. Priority(e) \in Nat /\ e.pos \in Nat
  <2>1. Priority(e) \in 0 .. 13
    BY EntryPriority
  <2> QED BY <2>1
<1> HIDE DEF ops2
<1>5. \A k \in 0 .. m : Opens(ops2, k) = Opens(ops, k) /\ Binaries(ops2, k) = Binaries(ops, k)
  BY <1>1, <1>2, KindsOfPart
<1>6. /\ Opens(ops2, m + 1) = Opens(ops, m) + (IF IsOpen(e) THEN 1 ELSE 0)
      /\ Binaries(ops2, m + 1) = Binaries(ops, m) + (IF full THEN 1 ELSE 0)
  <2>1. m + 1 \in Nat \ {0} /\ (m + 1) - 1 = m /\ m \in 0 .. m
    BY <1>1
  <2>2. /\ Opens(ops2, m + 1) = Opens(ops2, (m + 1) - 1) + (IF IsOpen(ops2[m + 1]) THEN 1 ELSE 0)
        /\ Binaries(ops2, m + 1) = Binaries(ops2, (m + 1) - 1) + (IF IsBinary(ops2[m + 1]) THEN 1 ELSE 0)
    BY <2>1, Kinds
  <2> HIDE DEF m
  <2> QED BY <1>2, <1>5, <2>1, <2>2
<1>7. Depth(s, here) = Opens(ops, m)
  BY FrameDepth
<1>8. Entry(s, here + 1, ops2, m + 1)
  BY <1>2, <1>4, <1>6, <1>7 DEF Entry
<1>9. Gap(s, here + 1, ops2, prims, FALSE, 0, m)
  <2>1. Gap(s, here, ops, prims, full, bound, m)
    BY <1>1 DEF Frame
  <2>2. m # Len(ops2)
    BY <1>1, <1>2
  <2>3. To(ops, here, m) = here /\ To(ops2, here + 1, m) = here
    <3>1. To(ops, here, m) = here
      BY DEF To
    <3>2. To(ops2, here + 1, m) = ops2[m + 1].pos - 1
      <4> HIDE DEF m
      <4> QED BY <2>2 DEF To
    <3>3. ops2[m + 1].pos = here + 1
      BY <1>2
    <3> QED BY <3>1, <3>2, <3>3
  <2>4. From(ops2, m) = From(ops, m)
    BY <1>1, <1>2 DEF From
  <2>5. Filled(ops, full, m) = full /\ Filled(ops2, FALSE, m) = full
    BY <1>2, <2>2 DEF Filled
  <2>6. ASSUME Filling(s, here, ops, bound, m), full
        PROVE  Filling(s, here + 1, ops2, 0, m)
    <3>1. m > 0 => ops2[m] = ops[m]
      BY <1>1, <1>2
    <3>2. Opens(ops2, m) = Opens(ops, m)
      BY <1>1, <1>5
    <3> DEFINE O == Outermost(s, From(ops, m), here)
    <3>3. ASSUME NEW l \in O
          PROVE  BinaryPriority[s[l]] <= Priority(e)
      <4>1. From(ops, m) \in 1 .. Len(s) + 1 /\ here \in 0 .. Len(s)
        BY <1>1, LenProperties
      <4>2. s[l] \in BinaryOperators
        BY <4>1, WeakestOne
      <4>3. BinaryPriority[s[l]] \in Nat
        <5>1. \A op \in BinaryOperators : BinaryPriority[op] \in 3 .. 12
          BY Priorities
        <5>2. BinaryPriority[s[l]] \in 3 .. 12
          BY <4>2, <5>1
        <5> QED BY <5>2
      <4>4. BinaryPriority[s[l]] <= bound
        BY <2>3, <2>6 DEF Filling
      <4> QED BY <1>4, <2>6, <4>3, <4>4
    <3>4. \A l \in O : m > 0 => BinaryPriority[s[l]] < Priority(ops[m])
      BY <2>3, <2>6 DEF Filling
    <3>5. /\ From(ops, m) <= here /\ Depth(s, here) = Opens(ops, m)
          /\ \A l \in From(ops, m) .. here : Depth(s, l) >= Opens(ops, m)
      BY <2>3, <2>6 DEF Filling
    <3> HIDE DEF m
    <3> QED BY <1>2, <2>2, <2>3, <2>4, <3>1, <3>2, <3>3, <3>4, <3>5 DEF Filling
  <2>7. Binaries(ops2, m) = Binaries(ops, m)
    BY <1>1, <1>5
  <2> HIDE DEF m
  <2>8. CASE full
    <3>1. Filled(ops, full, m) /\ Filled(ops2, FALSE, m)
      BY <2>5, <2>8
    <3>2. Filling(s, here, ops, bound, m) /\ prims[Binaries(ops, m) + 1] = Tree(s, From(ops, m), here)
      BY <2>1, <2>3, <3>1 DEF Gap
    <3>3. Filling(s, here + 1, ops2, 0, m)
      BY <2>6, <2>8, <3>2
    <3> QED BY <2>3, <2>4, <2>7, <3>1, <3>2, <3>3 DEF Gap
  <2>9. CASE ~full
    <3>1. ~Filled(ops, full, m) /\ ~Filled(ops2, FALSE, m)
      BY <2>5, <2>9
    <3> QED BY <2>1, <2>3, <2>4, <3>1 DEF Gap
  <2> QED BY <2>8, <2>9
<1>10. Gap(s, here + 1, ops2, prims, FALSE, 0, Len(ops2))
  <2>1. From(ops2, m + 1) = (here + 1) + 1
    <3>1. m + 1 # 0
      BY <1>1
    <3> QED BY <1>2, <3>1 DEF From
  <2> QED BY <1>2, <2>1 DEF Gap, Filled, To
<1>11. Len(prims) = Binaries(ops2, Len(ops2)) + 0
  <2>1. Len(prims) = Binaries(ops, m) + (IF full THEN 1 ELSE 0)
    BY DEF Frame
  <2>2. Binaries(ops, m) \in Nat
    BY <1>1, Kinds
  <2> QED BY <1>2, <1>6, <2>1, <2>2
<1>12. m > 0 /\ ~IsOpen(ops2[m + 1]) => Priority(ops2[m + 1]) < Priority(ops2[m])
  BY <1>1, <1>2, <1>3
<1>13. here + 1 \in Nat /\ here <= here + 1 /\ m \in 0 .. Len(ops)
  BY <1>1
<1>14. Frame(s, here + 1, ops2, prims, FALSE, 0)
  BY <1>2, <1>8, <1>9, <1>10, <1>11, <1>12, <1>13, NewTop
<1> QED BY <1>14 DEF ops2

(* A primary where an operand is due.                                      *)
LEMMA PrimaryRead ==
  ASSUME NEW s \in Seq(Tokens), Ordinary(s), NEW here \in Nat, here + 1 <= Len(s),
         NEW ops, NEW prims, NEW bound, Frame(s, here, ops, prims, FALSE, bound), Sequence(prims),
         s[here + 1] = "primary"
  PROVE  Frame(s, here + 1, ops, Append(prims, <<here + 1>>), TRUE, 0)
<1> DEFINE m == Len(ops)
           n == Len(prims)
           prims2 == Append(prims, <<here + 1>>)
<1>1. ops \in Seq(Entries) /\ m \in Nat
  BY FramePlaces
<1>2. n = Binaries(ops, m) /\ n \in Nat
  <2>1. Binaries(ops, m) \in Nat
    BY <1>1, Kinds
  <2> QED BY <2>1 DEF Frame
<1>3. Len(prims2) = n + 1 /\ prims2[n + 1] = <<here + 1>> /\ \A j \in 1 .. n : prims2[j] = prims[j]
  <2>1. SubSeq(prims, 1, n) = prims
    BY SubSeqFull DEF Sequence
  <2>2. n \in 0 .. Len(prims)
    BY <1>2
  <2> HIDE DEF n
  <2> QED BY <2>1, <2>2, Stacked
<1> HIDE DEF prims2
<1>4. From(ops, m) = here + 1 /\ To(ops, here + 1, m) = here + 1
  <2>1. Gap(s, here, ops, prims, FALSE, bound, m)
    <3>1. m \in 0 .. Len(ops)
      BY <1>1
    <3> HIDE DEF m
    <3> QED BY <3>1 DEF Frame
  <2>2. To(ops, here, m) = here /\ To(ops, here + 1, m) = here + 1 /\ ~Filled(ops, FALSE, m)
    BY DEF To, Filled
  <2> HIDE DEF m
  <2> QED BY <2>1, <2>2 DEF Gap
<1>5. /\ Depth(s, here + 1) = Depth(s, here) /\ Depth(s, here) = Opens(ops, m)
      /\ Depth(s, here) \in Int
  <2>1. Depth(s, here) = Opens(ops, m)
    BY FrameDepth
  <2>2. here + 1 \in Nat \ {0} /\ (here + 1) - 1 = here
    OBVIOUS
  <2>3. Depth(s, here) \in Int
    BY Depths
  <2>4. Depth(s, here + 1) = Depth(s, (here + 1) - 1) + (IF s[here + 1] = "(" THEN 1 ELSE 0)
                                                      - (IF s[here + 1] = ")" THEN 1 ELSE 0)
    BY <2>2, Depths
  <2> QED BY <2>1, <2>2, <2>3, <2>4
<1>6. Outermost(s, here + 1, here + 1) = {}
  <2>1. s[here + 1] \notin Operations
    BY Operators
  <2>2. \A l \in here + 1 .. here + 1 : l = here + 1
    OBVIOUS
  <2> QED BY <2>1, <2>2 DEF Outermost
<1>7. Tree(s, here + 1, here + 1) = <<here + 1>>
  <2>1. here + 1 \in 1 .. Len(s) + 1 /\ here + 1 \in 0 .. Len(s) /\ here + 1 <= here + 1
    BY LenProperties
  <2>2. s[here + 1] \notin Operations
    BY Operators
  <2> QED BY <1>6, <2>1, <2>2, TreeIs
<1>8. Gap(s, here + 1, ops, prims2, TRUE, 0, m)
  <2>1. Filling(s, here + 1, ops, 0, m)
    <3>1. \A l \in here + 1 .. here + 1 : l = here + 1
      OBVIOUS
    <3> QED BY <1>4, <1>5, <1>6, <3>1 DEF Filling
  <2> QED BY <1>2, <1>3, <1>4, <1>7, <2>1 DEF Gap, Filled
<1>9. here + 1 \in Nat /\ here <= here + 1 /\ m \in 0 .. Len(ops)
  BY <1>1
<1>10. Len(ops) # m + 1
  BY <1>1
<1>11. /\ Len(ops) = m
       /\ Len(prims2) = Binaries(ops, Len(ops)) + (IF TRUE THEN 1 ELSE 0)
       /\ \A j \in 1 .. Binaries(ops, m) : prims2[j] = prims[j]
  BY <1>2, <1>3
<1>12. Frame(s, here + 1, ops, prims2, TRUE, 0)
  <2> HIDE DEF n
  <2>1. Gap(s, here + 1, ops, prims2, TRUE, 0, Len(ops))
    BY <1>8
  <2>2. \A j \in 1 .. m : ops[j] = ops[j]
    OBVIOUS
  <2>3. PICK no, yes \in BOOLEAN : no = FALSE /\ yes = TRUE
    OBVIOUS
  <2>4. /\ Frame(s, here, ops, prims, no, bound)
        /\ Gap(s, here + 1, ops, prims2, yes, 0, Len(ops))
        /\ Len(prims2) = Binaries(ops, Len(ops)) + (IF yes THEN 1 ELSE 0)
    BY <1>11, <2>1, <2>3
  <2> HIDE DEF m
  <2>5. Frame(s, here + 1, ops, prims2, yes, 0)
    BY <1>1, <1>9, <1>10, <1>11, <2>2, <2>4, NewTop
  <2> QED BY <2>3, <2>5
<1> QED BY <1>12 DEF prims2

(* What holds of the stack without its last entry.                         *)
BelowTop(here, ops) ==
  LET m == Len(ops)
  IN  /\ m \in Nat \ {0} /\ ops[m] \in Entries /\ ops[m].pos \in 1 .. here /\ Last(ops) = ops[m]
      /\ Front(ops) \in Seq(Entries) /\ Len(Front(ops)) = m - 1
      /\ Front(ops) = SubSeq(ops, 1, m - 1)
      /\ \A j \in 1 .. m - 1 : Front(ops)[j] = ops[j]
      /\ Binaries(Front(ops), m - 1) = Binaries(ops, m - 1)
      /\ Opens(Front(ops), m - 1) = Opens(ops, m - 1)
      /\ From(Front(ops), m - 1) = From(ops, m - 1)

(* It does of a frame.                                                     *)
LEMMA Below ==
  ASSUME NEW s, NEW here \in Nat, NEW ops, NEW prims, NEW full, NEW bound,
         Frame(s, here, ops, prims, full, bound), ops # <<>>
  PROVE  BelowTop(here, ops)
<1> DEFINE m == Len(ops)
<1>1. /\ ops \in Seq(Entries) /\ m \in Nat
      /\ \A k \in 1 .. m : ops[k] \in Entries /\ ops[k].pos \in 1 .. here
  BY FramePlaces
<1>2. m \in Nat \ {0} /\ m \in 1 .. m
  BY <1>1, EmptySeq
<1>3. Sequence(ops) /\ m - 1 \in 0 .. m
  BY <1>1, <1>2, IsSequence
<1>4. Front(ops) = SubSeq(ops, 1, m - 1) /\ Last(ops) = ops[m]
  BY DEF Front, Last
<1>5. Len(Front(ops)) = m - 1 /\ \A j \in 1 .. m - 1 : Front(ops)[j] = ops[j]
  BY <1>3, <1>4, Shortened
<1>6. Front(ops) \in Seq(Entries)
  <2>1. \A i \in 1 .. m - 1 : ops[i] \in Entries
    BY <1>1, <1>2
  <2>2. 1 \in Int /\ m - 1 \in Int
    BY <1>2
  <2> HIDE DEF m
  <2> QED BY <1>4, <2>1, <2>2, SubSeqProperties
<1>7. m - 1 \in Nat /\ m - 1 \in 0 .. m - 1
  BY <1>2
<1>8. Opens(Front(ops), m - 1) = Opens(ops, m - 1) /\ Binaries(Front(ops), m - 1) = Binaries(ops, m - 1)
  BY <1>5, <1>7, KindsOfPart
<1>9. From(Front(ops), m - 1) = From(ops, m - 1)
  <2>1. m - 1 # 0 => m - 1 \in 1 .. m - 1
    <3> HIDE DEF m
    <3> QED BY <1>2, <1>7
  <2>2. m - 1 # 0 => Front(ops)[m - 1] = ops[m - 1]
    BY <1>5, <2>1
  <2> HIDE DEF m
  <2> QED BY <2>2 DEF From
<1> QED BY <1>1, <1>2, <1>4, <1>5, <1>6, <1>8, <1>9 DEF BelowTop

(* The parenthesis that is closed: with what is in it, it is an operand.   *)
LEMMA Closed ==
  ASSUME NEW s \in Seq(Tokens), Ordinary(s), NEW here \in Nat, here + 1 <= Len(s),
         NEW ops, NEW prims, NEW bound, Frame(s, here, ops, prims, TRUE, bound),
         ops # <<>>, IsOpen(Last(ops)), s[here + 1] = ")"
  PROVE  Frame(s, here + 1, Front(ops), prims, TRUE, 0)
<1> DEFINE m == Len(ops)
           n == m - 1
           p == ops[m].pos
           rest == Front(ops)
<1>1. PICK yes \in BOOLEAN : yes = TRUE
  OBVIOUS
<1>2. Frame(s, here, ops, prims, yes, bound)
  BY <1>1
<1>3. /\ m \in Nat \ {0} /\ ops[m] \in Entries /\ p \in 1 .. here /\ Last(ops) = ops[m]
      /\ rest \in Seq(Entries) /\ Len(rest) = n /\ \A j \in 1 .. n : rest[j] = ops[j]
      /\ Binaries(rest, n) = Binaries(ops, n) /\ Opens(rest, n) = Opens(ops, n)
      /\ From(rest, n) = From(ops, n)
  <2>1. BelowTop(here, ops)
    BY <1>2, Below
  <2> QED BY <2>1 DEF BelowTop
<1>4. n \in Nat /\ n # m /\ n + 1 = m /\ m \in 1 .. m /\ n \in 0 .. m /\ m \in 0 .. m /\ m - 1 = n
  BY <1>3
<1> HIDE DEF n, rest
<1>5. IsOpen(ops[m]) /\ ~IsBinary(ops[m]) /\ s[p] = "(" /\ Depth(s, p) = Opens(ops, m)
  <2>1. IsOpen(ops[m]) /\ ~IsBinary(ops[m])
    BY <1>3 DEF IsBinary
  <2>2. Entry(s, here, ops, m)
    BY <1>4 DEF Frame
  <2> QED BY <2>1, <2>2 DEF Entry, IsOpen
<1>6. Opens(ops, m) = Opens(ops, n) + 1 /\ Binaries(ops, m) = Binaries(ops, n) /\ Opens(ops, n) \in Nat
  <2>1. /\ Opens(ops, m) = Opens(ops, m - 1) + (IF IsOpen(ops[m]) THEN 1 ELSE 0)
        /\ Binaries(ops, m) = Binaries(ops, m - 1) + (IF IsBinary(ops[m]) THEN 1 ELSE 0)
    BY <1>3, Kinds
  <2>2. Opens(ops, n) \in Nat /\ Binaries(ops, n) \in Nat
    BY <1>4, Kinds
  <2> HIDE DEF m
  <2> QED BY <1>4, <1>5, <2>1, <2>2
<1>7. From(ops, n) = p
  <2>1. Gap(s, here, ops, prims, TRUE, bound, n)
    BY <1>4 DEF Frame
  <2>2. ~Filled(ops, TRUE, n) /\ To(ops, here, n) = p - 1
    BY <1>4, <1>5 DEF Filled, To
  <2>3. From(ops, n) = (p - 1) + 1
    BY <2>1, <2>2 DEF Gap
  <2> QED BY <1>3, <2>3
<1>8. From(ops, m) = p + 1 /\ To(ops, here, m) = here
  BY <1>4 DEF From, To
<1>9. /\ Filling(s, here, ops, bound, m)
      /\ prims[Binaries(ops, m) + 1] = Tree(s, p + 1, here)
  <2>1. Gap(s, here, ops, prims, TRUE, bound, m) /\ Filled(ops, TRUE, m)
    BY <1>4 DEF Frame, Filled
  <2> HIDE DEF m, p
  <2> QED BY <1>8, <2>1 DEF Gap
<1>10. /\ p + 1 <= here /\ Depth(s, here) = Opens(ops, m)
       /\ \A l \in p + 1 .. here : Depth(s, l) >= Opens(ops, m)
  BY <1>8, <1>9 DEF Filling
<1>11. Depth(s, here + 1) = Opens(ops, n)
  <2>1. here + 1 \in Nat \ {0} /\ (here + 1) - 1 = here
    OBVIOUS
  <2>2. Depth(s, here + 1) = Depth(s, (here + 1) - 1) + (IF s[here + 1] = "(" THEN 1 ELSE 0)
                                                      - (IF s[here + 1] = ")" THEN 1 ELSE 0)
    BY <2>1, Depths
  <2> QED BY <1>6, <1>10, <2>1, <2>2
<1>12. Depth(s, p - 1) = Opens(ops, n)
  <2>1. /\ Depth(s, here) = Opens(ops, Len(ops))
        /\ \A k \in 0 .. Len(ops) : From(ops, k) \in Nat \ {0} /\ Depth(s, From(ops, k) - 1) = Opens(ops, k)
    BY <1>2, FrameDepth
  <2>2. \A k \in 0 .. m : Depth(s, From(ops, k) - 1) = Opens(ops, k)
    BY <2>1
  <2> QED BY <1>4, <1>7, <2>2
<1>13. \A l \in p .. here + 1 : l = p \/ l = here + 1 \/ l \in p + 1 .. here
  BY <1>3
<1>14. Outermost(s, p, here + 1) = {}
  <2>1. s[p] \notin Operations /\ s[here + 1] \notin Operations
    BY <1>5, Operators
  <2>2. \A l \in p + 1 .. here : Depth(s, l) # Depth(s, p - 1)
    <3> SUFFICES ASSUME NEW l \in p + 1 .. here PROVE Depth(s, l) # Depth(s, p - 1)
      OBVIOUS
    <3>1. Depth(s, l) >= Opens(ops, n) + 1
      BY <1>6, <1>10
    <3>2. l \in Nat
      BY <1>3
    <3>3. Depth(s, l) \in Int
      BY <3>2, Depths
    <3> QED BY <1>6, <1>12, <3>1, <3>3
  <2> HIDE DEF p
  <2> QED BY <1>13, <2>1, <2>2 DEF Outermost
<1>15. Tree(s, p, here + 1) = Tree(s, p + 1, here)
  <2>1. p \in 1 .. Len(s) + 1 /\ here + 1 \in 0 .. Len(s) /\ p <= here + 1 /\ (here + 1) - 1 = here
    <3>1. p \in 1 .. here
      BY <1>3
    <3>2. PICK L \in Nat : L = Len(s)
      BY LenProperties
    <3> HIDE DEF p
    <3> QED BY <3>1, <3>2
  <2>2. s[p] \notin Operations
    BY <1>5, Operators
  <2> HIDE DEF p
  <2> QED BY <1>5, <1>14, <2>1, <2>2, TreeIs
<1>16. From(rest, n) = p /\ To(rest, here + 1, n) = here + 1
  BY <1>3, <1>7 DEF To
<1>17. Filling(s, here + 1, rest, 0, n)
  <2>1. p <= here + 1
    BY <1>3
  <2>2. \A l \in p .. here + 1 : Depth(s, l) >= Opens(ops, n)
    <3> SUFFICES ASSUME NEW l \in p .. here + 1 PROVE Depth(s, l) >= Opens(ops, n)
      OBVIOUS
    <3>1. CASE l = p
      BY <1>5, <1>6, <3>1
    <3>2. CASE l = here + 1
      BY <1>6, <1>11, <3>2
    <3>3. CASE l \in p + 1 .. here
      <4>1. Depth(s, l) >= Opens(ops, n) + 1
        BY <1>6, <1>10, <3>3
      <4>2. l \in Nat
        BY <1>3
      <4>3. Depth(s, l) \in Int
        BY <4>2, Depths
      <4> QED BY <1>6, <4>1, <4>3
    <3> QED BY <1>13, <3>1, <3>2, <3>3
  <2> HIDE DEF p, m
  <2> QED BY <1>3, <1>11, <1>14, <1>16, <2>1, <2>2 DEF Filling
<1>18. Len(prims) = Binaries(rest, n) + 1
  <2>1. Len(prims) = Binaries(ops, m) + 1
    BY DEF Frame
  <2> QED BY <1>3, <1>6, <2>1
<1>19. Gap(s, here + 1, rest, prims, yes, 0, Len(rest))
  <2>1. Filled(rest, yes, n)
    BY <1>3, <1>1 DEF Filled
  <2>2. prims[Binaries(rest, n) + 1] = Tree(s, From(rest, n), To(rest, here + 1, n))
    BY <1>3, <1>6, <1>9, <1>15, <1>16
  <2> HIDE DEF m, p
  <2> QED BY <1>3, <1>17, <2>1, <2>2 DEF Gap
<1>20. Frame(s, here + 1, rest, prims, yes, 0)
  <2>1. /\ here + 1 \in Nat /\ here <= here + 1 /\ n \in 0 .. Len(ops) /\ Len(rest) # n + 1
        /\ Len(prims) = Binaries(rest, Len(rest)) + (IF yes THEN 1 ELSE 0)
    BY <1>3, <1>4, <1>18, <1>1
  <2> HIDE DEF m, p
  <2> QED BY <1>3, <1>19, <1>2, <2>1, NewTop
<1> QED BY <1>1, <1>20 DEF rest

(* The frame in which no operand is due.                                   *)
FullFrame(s, here, ops, prims, bound) == Frame(s, here, ops, prims, TRUE, bound)

(* An operation that is processed becomes an operand with its own: the     *)
(* frame is that of the stack below it.                                    *)
LEMMA Popped ==
  ASSUME NEW s \in Seq(Tokens), Ordinary(s), NEW here \in Nat, here <= Len(s),
         NEW ops, NEW prims, NEW below \in Nat, NEW bound \in Nat, below <= bound,
         FullFrame(s, here, ops, prims, below), Sequence(prims),
         ops # <<>>, ~IsOpen(Last(ops)), Priority(Last(ops)) <= bound
  PROVE  LET after == ProcessOperation([ok |-> TRUE, operations |-> ops, primaries |-> prims])
         IN  /\ after.ok /\ after.operations = Front(ops) /\ Sequence(after.primaries)
             /\ FullFrame(s, here, after.operations, after.primaries, bound)
<1> DEFINE m == Len(ops)
           n == m - 1
           e == ops[m]
           p == e.pos
           rest == Front(ops)
           from == From(ops, n)
           size == Len(prims)
           kept == IF e.unary THEN size - 1 ELSE size - 2
           tree == IF e.unary THEN <<p, prims[size]>> ELSE <<p, prims[size - 1], prims[size]>>
           prims2 == Append(SubSeq(prims, 1, kept), tree)
<1>1. PICK yes \in BOOLEAN : yes = TRUE
  OBVIOUS
<1>2. Frame(s, here, ops, prims, yes, below)
  BY <1>1 DEF FullFrame
(* Where things are.                                                       *)
<1>3. /\ m \in Nat \ {0} /\ e \in Entries /\ p \in 1 .. here /\ Last(ops) = e
      /\ rest \in Seq(Entries) /\ Len(rest) = n /\ \A j \in 1 .. n : rest[j] = ops[j]
      /\ Binaries(rest, n) = Binaries(ops, n) /\ Opens(rest, n) = Opens(ops, n)
      /\ From(rest, n) = from
  <2>1. BelowTop(here, ops)
    BY <1>2, Below
  <2> QED BY <2>1 DEF BelowTop
<1>4. n \in Nat /\ n # m /\ n + 1 = m /\ m \in 1 .. m /\ n \in 0 .. m /\ m \in 0 .. m /\ m - 1 = n
  BY <1>3
<1>5. Len(s) \in Nat
  BY LenProperties
<1> HIDE DEF n, rest
<1>6. /\ Entry(s, here, ops, m) /\ size = Binaries(ops, m) + 1
      /\ Gap(s, here, ops, prims, yes, below, m) /\ Gap(s, here, ops, prims, yes, below, n)
      /\ n > 0 => Priority(e) < Priority(ops[n])
  <2>1. ~IsOpen(ops[m])
    BY <1>3
  <2>2. n > 0 => m \in 2 .. Len(ops)
    BY <1>4
  <2>3. n > 0 => Priority(e) < Priority(ops[n])
    BY <1>2, <1>4, <2>1, <2>2 DEF Frame
  <2>4. Len(prims) = Binaries(ops, Len(ops)) + 1
    BY <1>1, <1>2 DEF Frame
  <2>5. Entry(s, here, ops, m) /\ Gap(s, here, ops, prims, yes, below, m) /\ Gap(s, here, ops, prims, yes, below, n)
    BY <1>2, <1>4 DEF Frame
  <2> QED BY <2>3, <2>4, <2>5
<1>7. /\ s[p] = e.type /\ e.type \in Operations /\ s[p] \in Operations /\ e.unary = Unary(s, p)
      /\ Priority(e) # 0 /\ Depth(s, p) = Opens(ops, m) /\ e.unary \in BOOLEAN /\ ~IsOpen(e)
      /\ Priority(e) \in Nat /\ (e.unary => Priority(e) = 2)
      /\ ~e.unary => s[p] \in BinaryOperators /\ Priority(e) = BinaryPriority[s[p]]
  <2>1. s[p] = e.type /\ e.unary = Unary(s, p) /\ Priority(e) # 0 /\ Depth(s, p) = Opens(ops, m)
    BY <1>6 DEF Entry
  <2>2. ~IsOpen(e) /\ e.unary \in BOOLEAN
    BY <1>3 DEF Entries
  <2> HIDE DEF e
  <2>3. e.type \in Operations /\ Priority(e) \in 0 .. 13
    BY <1>3, <2>2, EntryPriority
  <2>4. e.unary => Priority(e) = 2
    BY <1>3, <2>1, EntryPriority
  <2>5. ~e.unary => e.type \in BinaryOperators /\ Priority(e) = BinaryPriority[e.type]
    BY <1>3, <2>1, <2>2, EntryPriority DEF IsBinary
  <2> QED BY <2>1, <2>2, <2>3, <2>4, <2>5 DEF p
<1>8. /\ Opens(ops, m) = Opens(ops, n) /\ Opens(ops, n) \in Nat
      /\ Binaries(ops, m) = Binaries(ops, n) + (IF e.unary THEN 0 ELSE 1) /\ Binaries(ops, n) \in Nat
  <2>1. /\ Opens(ops, m) = Opens(ops, m - 1) + (IF IsOpen(ops[m]) THEN 1 ELSE 0)
        /\ Binaries(ops, m) = Binaries(ops, m - 1) + (IF IsBinary(ops[m]) THEN 1 ELSE 0)
    BY <1>3, Kinds
  <2>2. Opens(ops, n) \in Nat /\ Binaries(ops, n) \in Nat
    <3>1. \A k \in Nat : Opens(ops, k) \in 0 .. k /\ Binaries(ops, k) \in 0 .. k
      BY Kinds
    <3> QED BY <1>4, <3>1
  <2>3. IsBinary(e) <=> ~e.unary
    BY <1>7 DEF IsBinary
  <2> HIDE DEF m
  <2> QED BY <1>4, <1>7, <2>1, <2>2, <2>3
(* The operand behind the operation, and the one before it.                *)
<1>9. /\ p + 1 <= here /\ Depth(s, here) = Opens(ops, n)
      /\ \A l \in p + 1 .. here : Depth(s, l) >= Opens(ops, n)
      /\ \A l \in Outermost(s, p + 1, here) : BinaryPriority[s[l]] < Priority(e)
      /\ prims[size] = Tree(s, p + 1, here)
  <2>1. From(ops, m) = p + 1 /\ To(ops, here, m) = here /\ Filled(ops, yes, m) /\ m > 0
    BY <1>1, <1>3 DEF From, To, Filled
  <2> HIDE DEF m
  <2>2. Filling(s, here, ops, below, m) /\ prims[Binaries(ops, m) + 1] = Tree(s, p + 1, here)
    BY <1>6, <2>1 DEF Gap
  <2>3. /\ p + 1 <= here /\ Depth(s, here) = Opens(ops, m)
        /\ \A l \in p + 1 .. here : Depth(s, l) >= Opens(ops, m)
        /\ \A l \in Outermost(s, p + 1, here) : BinaryPriority[s[l]] < Priority(ops[m])
    BY <2>1, <2>2 DEF Filling
  <2> QED BY <1>6, <1>8, <2>2, <2>3
<1>10. /\ e.unary => from = p
       /\ ~e.unary =>
            /\ from <= p - 1
            /\ \A l \in from .. p - 1 : Depth(s, l) >= Opens(ops, n)
            /\ \A l \in Outermost(s, from, p - 1) :
                 /\ n > 0 => BinaryPriority[s[l]] < Priority(ops[n])
                 /\ BinaryPriority[s[l]] <= Priority(e)
            /\ prims[Binaries(ops, n) + 1] = Tree(s, from, p - 1)
  <2>1. To(ops, here, n) = p - 1 /\ (Filled(ops, yes, n) <=> ~e.unary)
    BY <1>4, <1>7 DEF To, Filled, IsBinary
  <2>2. CASE e.unary
    <3>1. from = (p - 1) + 1
      BY <1>6, <2>1, <2>2 DEF Gap
    <3> QED BY <1>3, <2>2, <3>1
  <2>3. CASE ~e.unary
    <3>1. Filling(s, here, ops, below, n) /\ prims[Binaries(ops, n) + 1] = Tree(s, from, p - 1)
      BY <1>6, <2>1, <2>3 DEF Gap
    <3>2. n # Len(ops) /\ ops[n + 1] = e
      BY <1>4
    <3> HIDE DEF e, p, m
    <3>3. /\ from <= p - 1
          /\ \A l \in from .. p - 1 : Depth(s, l) >= Opens(ops, n)
          /\ \A l \in Outermost(s, from, p - 1) :
               /\ n > 0 => BinaryPriority[s[l]] < Priority(ops[n])
               /\ BinaryPriority[s[l]] <= Priority(e)
      BY <2>1, <3>1, <3>2 DEF Filling
    <3> QED BY <2>3, <3>1, <3>3
  <2> QED BY <2>2, <2>3
<1>11. from \in 1 .. p /\ Depth(s, from - 1) = Opens(ops, n)
  <2>1. /\ Depth(s, here) = Opens(ops, Len(ops))
        /\ \A k \in 0 .. Len(ops) : From(ops, k) \in Nat \ {0} /\ Depth(s, From(ops, k) - 1) = Opens(ops, k)
    BY <1>2, FrameDepth
  <2>2. from \in Nat \ {0} /\ Depth(s, from - 1) = Opens(ops, n)
    BY <1>4, <2>1
  <2>3. from <= p
    <3> HIDE DEF from, p, e
    <3> QED BY <1>3, <1>10, <2>2
  <2> HIDE DEF from, p
  <2> QED BY <1>3, <2>2, <2>3
(* The operators that are outermost in what becomes one operand.           *)
<1> DEFINE left == Outermost(s, from, p - 1)
           right == Outermost(s, p + 1, here)
           all == Outermost(s, from, here)
<1>12. /\ \A l \in right : l \in p + 1 .. here /\ s[l] \in BinaryOperators /\ BinaryPriority[s[l]] \in 3 .. 12
       /\ \A l \in left : l \in from .. p - 1 /\ s[l] \in BinaryOperators /\ BinaryPriority[s[l]] \in 3 .. 12
       /\ \A l \in all : l \in from .. here /\ s[l] \in BinaryOperators /\ BinaryPriority[s[l]] \in 3 .. 12
  <2>1. /\ from \in 1 .. Len(s) + 1 /\ p + 1 \in 1 .. Len(s) + 1
        /\ p - 1 \in 0 .. Len(s) /\ here \in 0 .. Len(s)
    <3>1. PICK L \in Nat : L = Len(s)
      BY LenProperties
    <3>2. p \in 1 .. here /\ here <= L /\ from \in 1 .. p
      BY <1>3, <1>5, <1>11, <3>1
    <3> HIDE DEF from, p
    <3> QED BY <3>1, <3>2
  <2> HIDE DEF from, p
  <2>2. /\ \A l \in right : l \in p + 1 .. here /\ s[l] \in BinaryOperators
        /\ \A l \in left : l \in from .. p - 1 /\ s[l] \in BinaryOperators
        /\ \A l \in all : l \in from .. here /\ s[l] \in BinaryOperators
    BY <2>1, WeakestOne
  <2> HIDE DEF left, right, all
  <2> QED BY <2>2, Priorities
<1>13. all = left \cup right \cup (IF e.unary THEN {} ELSE {p})
  <2>1. /\ \A k \in from .. here : k \in from .. p - 1 \/ k = p \/ k \in p + 1 .. here
        /\ \A k \in from .. p - 1 : k \in from .. here /\ k # p
        /\ \A k \in p + 1 .. here : k \in from .. here /\ k # p
        /\ p \in from .. here
        /\ (p + 1) - 1 = p
    <3>1. p \in 1 .. here /\ from \in 1 .. p /\ p + 1 <= here
      BY <1>3, <1>9, <1>11
    <3> HIDE DEF p, from
    <3> QED BY <3>1
  <2>2. Depth(s, from - 1) = Depth(s, p)
    BY <1>7, <1>8, <1>11
  <2> HIDE DEF p, from
  <2>3. p \in all <=> ~e.unary
    BY <1>7, <2>1, <2>2 DEF Outermost
  <2>4. \A k \in from .. p - 1 : k \in all <=> k \in left
    BY <2>1 DEF Outermost
  <2>5. \A k \in p + 1 .. here : k \in all <=> k \in right
    BY <2>1, <2>2 DEF Outermost
  <2>6. all \subseteq from .. here /\ left \subseteq from .. p - 1 /\ right \subseteq p + 1 .. here
    BY <1>12
  <2> HIDE DEF all, left, right, e
  <2> QED BY <1>7, <2>1, <2>3, <2>4, <2>5, <2>6
<1>14. from \in 1 .. Len(s) + 1 /\ here \in 0 .. Len(s) /\ from <= here
  BY <1>3, <1>5, <1>9, <1>11
<1>15. Tree(s, from, here) = IF e.unary THEN <<p, Tree(s, p + 1, here)>>
                             ELSE <<p, Tree(s, from, p - 1), Tree(s, p + 1, here)>>
  <2>1. CASE e.unary
    <3>1. left = {}
      <4>1. \A l \in left : l \in from .. from - 1
        <5> HIDE DEF left, from, p, e
        <5> QED BY <1>10, <1>12, <2>1
      <4> HIDE DEF left
      <4> QED BY <1>11, <4>1
    <3>2. right = {}
      <4> SUFFICES ASSUME NEW l \in right PROVE FALSE
        OBVIOUS
      <4>1. BinaryPriority[s[l]] < Priority(e) /\ BinaryPriority[s[l]] \in 3 .. 12 /\ Priority(e) = 2
        BY <1>7, <1>9, <1>12, <2>1
      <4> HIDE DEF right, e
      <4> QED BY <4>1
    <3>3. all = {}
      BY <1>13, <2>1, <3>1, <3>2
    <3>4. s[from] \in Operations /\ from = p
      <4> HIDE DEF from, p, e
      <4> QED BY <1>7, <1>10, <2>1
    <3> HIDE DEF from, p
    <3> QED BY <1>14, <2>1, <3>3, <3>4, TreeIs
  <2>2. CASE ~e.unary
    <3> DEFINE w == Weakest(s, from, here)
    <3>1. p \in all
      BY <1>13, <2>2
    <3>2. /\ w \in all
          /\ \A l \in all : /\ BinaryPriority[s[l]] <= BinaryPriority[s[w]]
                            /\ BinaryPriority[s[l]] = BinaryPriority[s[w]] => l <= w
      <4> HIDE DEF from, p
      <4> QED BY <1>14, <3>1, WeakestOne
    <3>3. w = p
      <4> HIDE DEF w, from
      <4>1. BinaryPriority[s[p]] = Priority(e) /\ Priority(e) \in Nat
        BY <1>7, <2>2
      <4>2. BinaryPriority[s[p]] <= BinaryPriority[s[w]] /\ (BinaryPriority[s[p]] = BinaryPriority[s[w]] => p <= w)
        BY <3>1, <3>2
      <4>3. CASE w \in left
        <5>1. BinaryPriority[s[w]] <= Priority(e) /\ BinaryPriority[s[w]] \in 3 .. 12 /\ w \in from .. p - 1
          BY <1>10, <1>12, <2>2, <4>3
        <5> HIDE DEF left, right, all, e
        <5>2. BinaryPriority[s[w]] = BinaryPriority[s[p]]
          <6> HIDE DEF p
          <6>1. PICK x \in 3 .. 12 : x = BinaryPriority[s[w]]
            BY <5>1
          <6>2. PICK y \in Nat : y = Priority(e)
            BY <4>1
          <6>3. x <= y /\ BinaryPriority[s[p]] = y /\ BinaryPriority[s[p]] <= BinaryPriority[s[w]]
            BY <4>1, <4>2, <5>1, <6>1, <6>2
          <6>4. x = y
            <7>1. y <= x
              BY <6>1, <6>3
            <7> QED BY <6>3, <7>1
          <6> QED BY <4>1, <6>1, <6>2, <6>4
        <5> QED BY <1>3, <1>11, <4>2, <5>1, <5>2
      <4>4. CASE w \in right
        <5>1. BinaryPriority[s[w]] < Priority(e) /\ BinaryPriority[s[w]] \in 3 .. 12
          BY <1>9, <1>12, <4>4
        <5> HIDE DEF left, right, all, e, p
        <5>2. PICK x \in 3 .. 12 : x = BinaryPriority[s[w]]
          BY <5>1
        <5>3. PICK y \in Nat : y = Priority(e)
          BY <4>1
        <5>4. x < y /\ y <= x
          BY <4>1, <4>2, <5>1, <5>2, <5>3
        <5> QED BY <5>4
      <4>5. w \in left \/ w \in right \/ w = p
        BY <1>13, <2>2, <3>2
      <4> QED BY <4>3, <4>4, <4>5
    <3>4. all # {}
      BY <3>1
    <3>5. Tree(s, from, here) = <<w, Tree(s, from, w - 1), Tree(s, w + 1, here)>>
      <4> HIDE DEF from, p
      <4> QED BY <1>14, <3>4, TreeIs
    <3> QED BY <2>2, <3>3, <3>5
  <2> QED BY <2>1, <2>2
(* The new operand is what the last gap of the stack below is filled with. *)
<1>16. /\ \A l \in from .. here : Depth(s, l) >= Opens(ops, n)
       /\ \A l \in all : /\ n > 0 => BinaryPriority[s[l]] < Priority(ops[n])
                         /\ BinaryPriority[s[l]] <= bound
  <2>1. ASSUME NEW l \in from .. here
        PROVE  Depth(s, l) >= Opens(ops, n)
    <3>1. CASE l = p
      BY <1>7, <1>8, <3>1
    <3>2. CASE l \in p + 1 .. here
      BY <1>8, <1>9, <3>2
    <3>3. CASE l \in from .. p - 1
      <4>1. ~e.unary
        <5>1. from <= p - 1
          <6>1. from \in Nat /\ p \in Nat
            BY <1>3, <1>11
          <6> HIDE DEF from, p
          <6> QED BY <3>3, <6>1
        <5>2. from # p
          <6>1. from \in Nat /\ p \in Nat
            BY <1>3, <1>11
          <6> HIDE DEF from, p
          <6> QED BY <5>1, <6>1
        <5> HIDE DEF from, p, e
        <5> QED BY <1>7, <1>10, <5>2
      <4> QED BY <1>10, <3>3, <4>1
    <3>4. l = p \/ l \in p + 1 .. here \/ l \in from .. p - 1
      <4>1. p \in 1 .. here /\ from \in 1 .. p
        BY <1>3, <1>11
      <4> HIDE DEF p, from
      <4> QED BY <4>1
    <3> QED BY <3>1, <3>2, <3>3, <3>4
  <2>2. ASSUME NEW l \in all
        PROVE  /\ n > 0 => BinaryPriority[s[l]] < Priority(ops[n])
               /\ BinaryPriority[s[l]] <= bound
    <3>1. n > 0 => Priority(ops[n]) \in Nat
      <4>1. n > 0 => n \in 1 .. m
        BY <1>4
      <4>2. n > 0 => ops[n] \in Entries
        <5>1. \A k \in 1 .. m : ops[k] \in Entries
          BY <1>2, FramePlaces
        <5> QED BY <4>1, <5>1
      <4>3. \A o \in Entries : Priority(o) \in 0 .. 13
        BY EntryPriority
      <4>4. n > 0 => Priority(ops[n]) \in 0 .. 13
        BY <4>2, <4>3
      <4> QED BY <4>4
    <3>2. Priority(e) <= bound /\ Priority(e) \in Nat /\ BinaryPriority[s[l]] \in Nat
          /\ (n > 0 => Priority(e) < Priority(ops[n]))
      <4>1. BinaryPriority[s[l]] \in 3 .. 12
        BY <1>12
      <4>2. Priority(e) <= bound
        BY <1>3
      <4>3. Priority(e) \in Nat /\ (n > 0 => Priority(e) < Priority(ops[n]))
        BY <1>6, <1>7
      <4>4. BinaryPriority[s[l]] \in Nat
        BY <4>1
      <4> HIDE DEF e
      <4> QED BY <4>2, <4>3, <4>4
    <3>3. CASE l = p /\ ~e.unary
      <4>1. BinaryPriority[s[l]] = Priority(e)
        BY <1>7, <3>3
      <4> HIDE DEF e, p, all
      <4> QED BY <3>2, <4>1
    <3>4. CASE l \in right
      <4>1. BinaryPriority[s[l]] < Priority(e)
        BY <1>9, <3>4
      <4> HIDE DEF e, p, all, right
      <4> QED BY <3>1, <3>2, <4>1
    <3>5. CASE l \in left
      <4>1. ~e.unary
        <5>1. from <= p - 1
          <6>1. from \in Nat /\ p \in Nat /\ l \in from .. p - 1
            BY <1>3, <1>11, <1>12, <3>5
          <6> HIDE DEF from, p
          <6> QED BY <6>1
        <5>2. from # p
          <6>1. from \in Nat /\ p \in Nat
            BY <1>3, <1>11
          <6> HIDE DEF from, p
          <6> QED BY <5>1, <6>1
        <5> HIDE DEF from, p, e
        <5> QED BY <1>7, <1>10, <5>2
      <4>2. /\ n > 0 => BinaryPriority[s[l]] < Priority(ops[n])
            /\ BinaryPriority[s[l]] <= Priority(e)
        BY <1>10, <3>5, <4>1
      <4> HIDE DEF e, p, all, left
      <4> QED BY <3>2, <4>2
    <3>6. (l = p /\ ~e.unary) \/ l \in right \/ l \in left
      BY <1>13
    <3> QED BY <3>3, <3>4, <3>5, <3>6
  <2> QED BY <2>1, <2>2
<1>17. To(rest, here, n) = here /\ Filled(rest, yes, n)
  BY <1>1, <1>3 DEF To, Filled
<1>18. Filling(s, here, rest, bound, n)
  <2>1. n > 0 => rest[n] = ops[n]
    BY <1>3, <1>4
  <2>2. from <= here /\ Depth(s, here) = Opens(ops, n)
    BY <1>9, <1>14
  <2>3. From(rest, n) = from /\ Opens(rest, n) = Opens(ops, n) /\ Len(rest) = n
    BY <1>3
  <2> HIDE DEF from
  <2> QED BY <1>16, <1>17, <2>1, <2>2, <2>3 DEF Filling
(* process_operation puts it on the stack of primaries.                    *)
<1>19. /\ size \in Nat /\ kept \in 0 .. size /\ kept = Binaries(ops, n) /\ size >= 1 /\ (~e.unary => size >= 2)
       /\ size - kept = IF e.unary THEN 1 ELSE 2
  <2>1. size = Binaries(ops, n) + (IF e.unary THEN 0 ELSE 1) + 1
    BY <1>6, <1>8
  <2>2. Binaries(ops, n) \in Nat
    BY <1>8
  <2>3. CASE e.unary
    <3>1. size = Binaries(ops, n) + 1 /\ kept = size - 1
      BY <2>1, <2>2, <2>3
    <3> HIDE DEF size, e, kept
    <3> QED BY <2>2, <2>3, <3>1
  <2>4. CASE ~e.unary
    <3>1. size = Binaries(ops, n) + 2 /\ kept = size - 2
      BY <2>1, <2>2, <2>4
    <3> HIDE DEF size, e, kept
    <3> QED BY <2>2, <2>4, <3>1
  <2> QED BY <2>3, <2>4
<1>20. /\ Sequence(prims2) /\ Len(prims2) = kept + 1 /\ prims2[kept + 1] = tree
       /\ \A j \in 1 .. kept : prims2[j] = prims[j]
  <2>1. kept \in 0 .. Len(prims)
    BY <1>19
  <2> HIDE DEF kept, tree
  <2> QED BY <2>1, Stacked
<1>21. tree = Tree(s, from, here)
  <2>1. ~e.unary => prims[size - 1] = Tree(s, from, p - 1)
    <3>1. ~e.unary => size - 1 = Binaries(ops, n) + 1
      <4> HIDE DEF size, e
      <4> QED BY <1>19
    <3> QED BY <1>10, <3>1
  <2> QED BY <1>9, <1>15, <2>1
<1> DEFINE after == ProcessOperation([ok |-> TRUE, operations |-> ops, primaries |-> prims])
<1>22. after.ok /\ after.operations = rest /\ after.primaries = prims2
  <2> DEFINE arity == IF e.unary THEN 1 ELSE 2
  <2>1. ~(size < arity)
    <3> HIDE DEF size, e
    <3> QED BY <1>19
  <2>2. e.unary => e.type \in UnaryOperators
    BY <1>3, <1>7, EntryPriority
  <2>3. after = [ok |-> TRUE, operations |-> Front(ops),
                 primaries |-> Append(SubSeq(prims, 1, size - arity),
                                      <<p>> \o SubSeq(prims, size - arity + 1, size))]
    BY <1>3, <2>1, <2>2 DEF ProcessOperation
  <2>4. size - arity = kept
    BY <1>19
  <2>5. size - arity + 1 = IF e.unary THEN size ELSE size - 1
    <3> HIDE DEF size, e
    <3> QED BY <1>19
  <2>6. <<p>> \o SubSeq(prims, size - arity + 1, size) = tree
    <3>1. /\ size >= 1 => <<p>> \o SubSeq(prims, size, size) = <<p, prims[size]>>
          /\ size >= 2 => <<p>> \o SubSeq(prims, size - 1, size) = <<p, prims[size - 1], prims[size]>>
      BY Operands
    <3> HIDE DEF size, e, p
    <3> QED BY <1>19, <2>5, <3>1
  <2> HIDE DEF after, arity, size, kept, tree
  <2> QED BY <2>3, <2>4, <2>6 DEF rest
<1>23. Frame(s, here, rest, prims2, yes, bound)
  <2>1. Len(prims2) = Binaries(rest, Len(rest)) + (IF yes THEN 1 ELSE 0)
    BY <1>1, <1>3, <1>19, <1>20
  <2>2. Gap(s, here, rest, prims2, yes, bound, Len(rest))
    <3>1. prims2[Binaries(rest, n) + 1] = Tree(s, From(rest, n), To(rest, here, n))
      BY <1>3, <1>17, <1>19, <1>20, <1>21
    <3> HIDE DEF prims2, from
    <3> QED BY <1>3, <1>17, <1>18, <3>1 DEF Gap
  <2>3. /\ here <= here /\ n \in 0 .. Len(ops) /\ Len(rest) # n + 1 /\ Len(rest) = n
        /\ rest \in Seq(Entries)
        /\ \A j \in 1 .. n : rest[j] = ops[j]
    BY <1>3, <1>4
  <2>4. \A j \in 1 .. Binaries(ops, n) : prims2[j] = prims[j]
    BY <1>19, <1>20
  <2> HIDE DEF prims2, m
  <2> QED BY <1>2, <2>1, <2>2, <2>3, <2>4, NewTop
<1> HIDE DEF after, prims2
<1>24. FullFrame(s, here, rest, prims2, bound)
  BY <1>1, <1>23 DEF FullFrame
<1> QED BY <1>20, <1>22, <1>24 DEF after, rest

(***************************************************************************)
(* process_operation several times.                                        *)
(***************************************************************************)
Runs(run, n) ==
  /\ run[0] = [ok |-> TRUE, operations |-> operations, primaries |-> primaries]
  /\ \A k \in 1 .. n : run[k] = ProcessOperation(run[k - 1])
  /\ Process(n) = run[n]

(* The stacks after each time.                                             *)
LEMMA ProcessRuns ==
  ASSUME NEW n \in Nat
  PROVE  \E run : Runs(run, n)
<1> DEFINE first == [ok |-> TRUE, operations |-> operations, primaries |-> primaries]
           F(f) == [k \in 0 .. n |-> IF k = 0 THEN first ELSE ProcessOperation(f[k - 1])]
           S == {m \in 0 .. n : \E f : f[0] = first /\ \A k \in 1 .. m : f[k] = ProcessOperation(f[k - 1])}
<1> HIDE DEF first
<1>1. 0 \in S
  <2> DEFINE f == [k \in {0} |-> first]
  <2>1. f[0] = first /\ \A k \in 1 .. 0 : f[k] = ProcessOperation(f[k - 1])
    OBVIOUS
  <2> HIDE DEF f
  <2> QED BY <2>1
<1>2. ASSUME NEW m \in 0 .. n - 1, m \in S
      PROVE  m + 1 \in S
  <2>1. PICK f : f[0] = first /\ \A k \in 1 .. m : f[k] = ProcessOperation(f[k - 1])
    BY <1>2
  <2> DEFINE g == [k \in 0 .. m + 1 |-> IF k = m + 1 THEN ProcessOperation(f[m]) ELSE f[k]]
  <2>2. g[0] = first /\ g[m + 1] = ProcessOperation(f[m]) /\ \A k \in 0 .. m : g[k] = f[k]
    <3>1. m \in Nat
      OBVIOUS
    <3> QED BY <2>1, <3>1
  <2> HIDE DEF g
  <2>3. ASSUME NEW k \in 1 .. m + 1
        PROVE  g[k] = ProcessOperation(g[k - 1])
    <3>1. k \in 1 .. m \/ k = m + 1
      OBVIOUS
    <3>2. CASE k \in 1 .. m
      <4>1. k \in 0 .. m /\ k - 1 \in 0 .. m
        BY <3>2
      <4> QED BY <2>1, <2>2, <3>2, <4>1
    <3>3. CASE k = m + 1
      <4>1. k - 1 = m /\ m \in 0 .. m
        BY <3>3
      <4> QED BY <2>2, <3>3, <4>1
    <3> QED BY <3>1, <3>2, <3>3
  <2>4. m + 1 \in 0 .. n
    OBVIOUS
  <2> QED BY <2>2, <2>3, <2>4
<1> HIDE DEF S
<1>3. n \in S
  <2>1. 0 .. n \subseteq S
    BY <1>1, <1>2, OneByOne
  <2> QED BY <2>1
<1>4. PICK f : f[0] = first /\ \A k \in 1 .. n : f[k] = ProcessOperation(f[k - 1])
  BY <1>3 DEF S
<1> DEFINE g == [k \in 0 .. n |-> f[k]]
           run == CHOOSE h : h = F(h)
<1>5. g = F(g)
  <2>1. ASSUME NEW k \in 0 .. n
        PROVE  g[k] = IF k = 0 THEN first ELSE ProcessOperation(g[k - 1])
    <3>1. k # 0 => k \in 1 .. n /\ k - 1 \in 0 .. n
      OBVIOUS
    <3> QED BY <1>4, <3>1
  <2>2. g = [k \in 0 .. n |-> g[k]]
    OBVIOUS
  <2> HIDE DEF g
  <2> QED BY <2>1, <2>2
<1> HIDE DEF g
<1>6. run = F(run)
  <2> HIDE DEF F
  <2> QED BY <1>5
<1>7. Process(n) = run[n]
  BY DEF Process, first
<1> HIDE DEF run
<1>8. run[0] = first /\ \A k \in 1 .. n : run[k] = ProcessOperation(run[k - 1])
  BY <1>6
<1>9. Runs(run, n)
  BY <1>7, <1>8 DEF Runs, first
<1> QED BY <1>9

(* What is left of an operation that is taken off the front of a part.     *)
LEMMA FrontOfPart ==
  ASSUME NEW q, Sequence(q), NEW n \in 1 .. Len(q)
  PROVE  Front(SubSeq(q, 1, n)) = SubSeq(q, 1, n - 1) /\ Last(SubSeq(q, 1, n)) = q[n]
<1> DEFINE T == {q[k] : k \in 1 .. Len(q)}
           p == SubSeq(q, 1, n)
<1>1. Len(q) \in Nat
  BY LenProperties DEF Sequence
<1>2. n \in 0 .. Len(q) /\ n - 1 \in 0 .. Len(q) /\ n - 1 \in 0 .. n /\ n \in 1 .. n
  BY <1>1
<1>3. Sequence(p) /\ Len(p) = n /\ \A j \in 1 .. n : p[j] = q[j]
  BY <1>2, Shortened
<1>4. /\ SubSeq(q, 1, n - 1) \in Seq(T) /\ Len(SubSeq(q, 1, n - 1)) = n - 1
      /\ \A j \in 1 .. n - 1 : SubSeq(q, 1, n - 1)[j] = q[j]
  <2>1. Len(SubSeq(q, 1, n - 1)) = n - 1 /\ \A j \in 1 .. n - 1 : SubSeq(q, 1, n - 1)[j] = q[j]
    BY <1>2, Shortened
  <2>2. \A k \in 1 .. n - 1 : q[k] \in T
    BY <1>1
  <2> HIDE DEF T
  <2>3. SubSeq(q, 1, n - 1) \in Seq(T)
    BY <1>1, <2>2, SubSeqProperties
  <2> QED BY <2>1, <2>3
<1> HIDE DEF p
<1>5. /\ SubSeq(p, 1, n - 1) \in Seq(T) /\ Len(SubSeq(p, 1, n - 1)) = n - 1
      /\ \A j \in 1 .. n - 1 : SubSeq(p, 1, n - 1)[j] = p[j]
  <2>1. Len(SubSeq(p, 1, n - 1)) = n - 1 /\ \A j \in 1 .. n - 1 : SubSeq(p, 1, n - 1)[j] = p[j]
    BY <1>2, <1>3, Shortened
  <2>2. \A k \in 1 .. n - 1 : p[k] \in T
    BY <1>1, <1>3
  <2> HIDE DEF T
  <2>3. SubSeq(p, 1, n - 1) \in Seq(T)
    BY <1>1, <2>2, SubSeqProperties
  <2> QED BY <2>1, <2>3
<1>6. \A j \in 1 .. n - 1 : p[j] = q[j]
  BY <1>1, <1>3
<1> HIDE DEF T
<1>7. SubSeq(p, 1, n - 1) = SubSeq(q, 1, n - 1)
  BY <1>4, <1>5, <1>6, SeqEqual
<1>8. Front(p) = SubSeq(p, 1, n - 1) /\ Last(p) = q[n]
  BY <1>2, <1>3 DEF Front, Last
<1> QED BY <1>7, <1>8 DEF p

(* Once, on any stacks: it takes an operation from one, and fails if that  *)
(* is an operator that is never unary.                                     *)
LEMMA ProcessedOnce ==
  ASSUME NEW stacks,
         stacks = [ok |-> stacks.ok, operations |-> stacks.operations, primaries |-> stacks.primaries],
         stacks.ok \in BOOLEAN, stacks.ok => Sequence(stacks.primaries)
  PROVE  LET after == ProcessOperation(stacks)
         IN  /\ after = [ok |-> after.ok, operations |-> after.operations, primaries |-> after.primaries]
             /\ after.ok \in BOOLEAN
             /\ after.ok => /\ stacks.ok /\ after.operations = Front(stacks.operations)
                            /\ Sequence(after.primaries)
                            /\ Last(stacks.operations).unary => Last(stacks.operations).type \in UnaryOperators
<1> DEFINE op == Last(stacks.operations)
           size == Len(stacks.primaries)
           arity == IF op.unary THEN 1 ELSE 2
           bad == size < arity \/ (op.unary /\ op.type \notin UnaryOperators)
           tree == <<op.pos>> \o SubSeq(stacks.primaries, size - arity + 1, size)
           after == ProcessOperation(stacks)
<1> HIDE DEF op
<1>1. CASE bad
  <2>1. after = [stacks EXCEPT !.ok = FALSE]
    BY <1>1 DEF ProcessOperation, op
  <2>2. after = [ok |-> FALSE, operations |-> stacks.operations, primaries |-> stacks.primaries]
    BY <2>1
  <2> HIDE DEF after
  <2>3. after.ok = FALSE /\ after.operations = stacks.operations /\ after.primaries = stacks.primaries
    BY <2>2
  <2> QED BY <2>2, <2>3 DEF after
<1>2. CASE ~bad
  <2>1. after = [ok |-> stacks.ok, operations |-> Front(stacks.operations),
                 primaries |-> Append(SubSeq(stacks.primaries, 1, size - arity), tree)]
    BY <1>2 DEF ProcessOperation, op
  <2>2. Last(stacks.operations).unary => Last(stacks.operations).type \in UnaryOperators
    BY <1>2 DEF op
  <2>3. stacks.ok => Sequence(Append(SubSeq(stacks.primaries, 1, size - arity), tree))
    <3> HAVE stacks.ok
    <3>1. Sequence(stacks.primaries)
      OBVIOUS
    <3>2. size \in Nat
      BY <3>1, LenProperties DEF Sequence
    <3>3. size - arity \in 0 .. size
      <4> HIDE DEF size
      <4> QED BY <1>2, <3>2
    <3> HIDE DEF tree, arity, bad
    <3> QED BY <3>1, <3>3, Stacked
  <2> HIDE DEF tree, arity, bad, after
  <2>4. /\ after.ok = stacks.ok /\ after.operations = Front(stacks.operations)
        /\ after.primaries = Append(SubSeq(stacks.primaries, 1, size - arity), tree)
    BY <2>1
  <2> QED BY <2>1, <2>2, <2>3, <2>4 DEF after
<1> QED BY <1>1, <1>2

(* Several times, on any stacks.                                           *)
LEMMA Processed ==
  ASSUME Sequence(operations), Sequence(primaries), NEW n \in 0 .. Len(operations)
  PROVE  Process(n).ok =>
           /\ Process(n).operations = SubSeq(operations, 1, Len(operations) - n)
           /\ Sequence(Process(n).primaries)
           /\ \A i \in Len(operations) - n + 1 .. Len(operations) :
                operations[i].unary => operations[i].type \in UnaryOperators
<1>1. Len(operations) \in Nat
  BY LenProperties DEF Sequence
<1>2. PICK m \in Nat : m = Len(operations)
  BY <1>1
<1>3. n \in 0 .. m
  BY <1>2
<1>4. PICK run : Runs(run, n)
  <2>1. n \in Nat
    BY <1>3
  <2> QED BY <2>1, ProcessRuns
<1> DEFINE Good(k) ==
             /\ run[k] = [ok |-> run[k].ok, operations |-> run[k].operations, primaries |-> run[k].primaries]
             /\ run[k].ok \in BOOLEAN
             /\ run[k].ok =>
                  /\ run[k].operations = SubSeq(operations, 1, m - k)
                  /\ Sequence(run[k].primaries)
                  /\ \A i \in m - k + 1 .. m : operations[i].unary => operations[i].type \in UnaryOperators
           S == {k \in 0 .. n : Good(k)}
<1>5. 0 \in S
  <2>1. run[0] = [ok |-> TRUE, operations |-> operations, primaries |-> primaries]
    BY <1>4 DEF Runs
  <2>2. run[0].ok = TRUE /\ run[0].operations = operations /\ run[0].primaries = primaries
    BY <2>1
  <2>3. SubSeq(operations, 1, m - 0) = operations
    <3>1. SubSeq(operations, 1, Len(operations)) = operations
      BY SubSeqFull DEF Sequence
    <3>2. m - 0 = Len(operations)
      BY <1>2
    <3> QED BY <3>1, <3>2
  <2>4. 0 \in 0 .. n /\ m - 0 + 1 .. m = {}
    BY <1>3
  <2> QED BY <2>1, <2>2, <2>3, <2>4
<1>6. ASSUME NEW k \in 0 .. n - 1, k \in S
      PROVE  k + 1 \in S
  <2>1. Good(k)
    BY <1>6
  <2>2. k + 1 \in 1 .. n /\ (k + 1) - 1 = k /\ k + 1 \in 0 .. n /\ m - k \in 1 .. m /\ m - (k + 1) = (m - k) - 1
        /\ m - (k + 1) + 1 = m - k
    BY <1>3
  <2>3. run[k + 1] = ProcessOperation(run[k])
    <3>1. run[k + 1] = ProcessOperation(run[(k + 1) - 1])
      BY <1>4, <2>2 DEF Runs
    <3> QED BY <2>2, <3>1
  <2> DEFINE after == ProcessOperation(run[k])
  <2>4. /\ after = [ok |-> after.ok, operations |-> after.operations, primaries |-> after.primaries]
        /\ after.ok \in BOOLEAN
        /\ after.ok => /\ run[k].ok /\ after.operations = Front(run[k].operations)
                       /\ Sequence(after.primaries)
                       /\ Last(run[k].operations).unary => Last(run[k].operations).type \in UnaryOperators
    BY <2>1, ProcessedOnce
  <2> HIDE DEF after
  <2>5. ASSUME after.ok
        PROVE  /\ after.operations = SubSeq(operations, 1, m - (k + 1))
               /\ \A i \in m - (k + 1) + 1 .. m : operations[i].unary => operations[i].type \in UnaryOperators
    <3>1. m - k \in 1 .. Len(operations)
      BY <1>2, <2>2
    <3>2. /\ Front(SubSeq(operations, 1, m - k)) = SubSeq(operations, 1, m - k - 1)
          /\ Last(SubSeq(operations, 1, m - k)) = operations[m - k]
      BY <3>1, FrontOfPart
    <3>3. run[k].operations = SubSeq(operations, 1, m - k)
      BY <2>1, <2>4, <2>5
    <3>4. operations[m - k].unary => operations[m - k].type \in UnaryOperators
      BY <2>4, <2>5, <3>2, <3>3
    <3>5. \A i \in m - (k + 1) + 1 .. m : i = m - k \/ i \in m - k + 1 .. m
      BY <2>2
    <3>6. \A i \in m - k + 1 .. m : operations[i].unary => operations[i].type \in UnaryOperators
      BY <2>1, <2>4, <2>5
    <3> QED BY <2>2, <2>4, <2>5, <3>2, <3>3, <3>4, <3>5, <3>6
  <2>6. Good(k + 1)
    BY <2>3, <2>4, <2>5 DEF after
  <2> QED BY <2>2, <2>6
<1> HIDE DEF Good, S
<1>7. n \in S
  <2>1. 0 .. n \subseteq S
    <3>1. n \in Nat
      BY <1>3
    <3> QED BY <1>5, <1>6, <3>1, OneByOne
  <2> QED BY <1>3, <2>1
<1>8. Good(n)
  BY <1>7 DEF S
<1>9. Process(n) = run[n]
  BY <1>4 DEF Runs
<1> QED BY <1>2, <1>8, <1>9 DEF Good

(* Several times, on the stacks of a frame: nothing fails as long as no    *)
(* parenthesis is taken.                                                   *)
LEMMA ProcessedFrame ==
  ASSUME NEW s \in Seq(Tokens), Ordinary(s), NEW here \in Nat, here <= Len(s),
         FullFrame(s, here, operations, primaries, 0), Sequence(primaries),
         NEW n \in 0 .. Len(operations), NEW bound \in Nat,
         \A i \in Len(operations) - n + 1 .. Len(operations) :
           ~IsOpen(operations[i]) /\ Priority(operations[i]) <= bound
  PROVE  /\ Process(n).ok
         /\ \E b \in 0 .. bound : FullFrame(s, here, Process(n).operations, Process(n).primaries, b)
<1>1. operations \in Seq(Entries) /\ Sequence(operations) /\ Len(operations) \in Nat
  <2>1. operations \in Seq(Entries)
    BY DEF FullFrame, Frame
  <2> QED BY <2>1, IsSequence, LenProperties
<1>2. PICK m \in Nat : m = Len(operations)
  BY <1>1
<1>3. n \in 0 .. m /\ n \in Nat
  BY <1>2
<1>4. PICK run : Runs(run, n)
  BY <1>3, ProcessRuns
<1> DEFINE Good(k) ==
             /\ run[k] = [ok |-> TRUE, operations |-> run[k].operations, primaries |-> run[k].primaries]
             /\ run[k].operations = SubSeq(operations, 1, m - k)
             /\ Sequence(run[k].primaries)
             /\ \E b \in 0 .. bound : FullFrame(s, here, run[k].operations, run[k].primaries, b)
           S == {k \in 0 .. n : Good(k)}
<1>5. 0 \in S
  <2>1. run[0] = [ok |-> TRUE, operations |-> operations, primaries |-> primaries]
    BY <1>4 DEF Runs
  <2>2. run[0].operations = operations /\ run[0].primaries = primaries
    BY <2>1
  <2>3. SubSeq(operations, 1, m - 0) = operations
    <3>1. SubSeq(operations, 1, Len(operations)) = operations
      BY <1>1, SubSeqFull
    <3>2. m - 0 = Len(operations)
      BY <1>2
    <3> QED BY <3>1, <3>2
  <2>4. 0 \in 0 .. n /\ 0 \in 0 .. bound
    BY <1>3
  <2> QED BY <2>1, <2>2, <2>3, <2>4
<1>6. ASSUME NEW k \in 0 .. n - 1, k \in S
      PROVE  k + 1 \in S
  <2>1. Good(k)
    BY <1>6
  <2>2. k + 1 \in 1 .. n /\ (k + 1) - 1 = k /\ k + 1 \in 0 .. n /\ m - k \in 1 .. m
        /\ m - (k + 1) = m - k - 1 /\ m - k \in m - n + 1 .. m
    BY <1>3
  <2>3. run[k + 1] = ProcessOperation(run[k])
    <3>1. run[k + 1] = ProcessOperation(run[(k + 1) - 1])
      BY <1>4, <2>2 DEF Runs
    <3> QED BY <2>2, <3>1
  <2> DEFINE ops == run[k].operations
             prims == run[k].primaries
             after == ProcessOperation([ok |-> TRUE, operations |-> ops, primaries |-> prims])
  <2>4. run[k + 1] = after
    BY <2>1, <2>3
  <2>5. /\ Front(ops) = SubSeq(operations, 1, m - (k + 1)) /\ Last(ops) = operations[m - k]
        /\ ops # <<>>
    <3>1. m - k \in 1 .. Len(operations) /\ m - k \in 0 .. Len(operations)
      BY <1>2, <2>2
    <3>2. /\ Front(SubSeq(operations, 1, m - k)) = SubSeq(operations, 1, m - k - 1)
          /\ Last(SubSeq(operations, 1, m - k)) = operations[m - k]
      BY <1>1, <3>1, FrontOfPart
    <3>3. Len(ops) = m - k /\ Len(ops) # 0
      <4>1. Len(SubSeq(operations, 1, m - k)) = m - k
        BY <1>1, <3>1, Shortened
      <4> QED BY <2>1, <2>2, <4>1
    <3>4. ops # <<>>
      BY <3>3, EmptySeq
    <3> QED BY <2>1, <2>2, <3>2, <3>4
  <2>6. ~IsOpen(Last(ops)) /\ Priority(Last(ops)) <= bound
    <3>1. m - k \in Len(operations) - n + 1 .. Len(operations)
      BY <1>2, <2>2
    <3> QED BY <2>5, <3>1
  <2>7. PICK b \in 0 .. bound : FullFrame(s, here, ops, prims, b)
    BY <2>1
  <2>8. Sequence(prims)
    BY <2>1
  <2>9. b \in Nat /\ b <= bound
    OBVIOUS
  <2> HIDE DEF ops, prims
  <2>10. /\ after.ok /\ after.operations = Front(ops) /\ Sequence(after.primaries)
         /\ FullFrame(s, here, after.operations, after.primaries, bound)
    BY <2>5, <2>6, <2>7, <2>8, <2>9, Popped
  <2>11. after = [ok |-> TRUE, operations |-> after.operations, primaries |-> after.primaries]
    <3> DEFINE stacks == [ok |-> TRUE, operations |-> ops, primaries |-> prims]
    <3>1. stacks = [ok |-> stacks.ok, operations |-> stacks.operations, primaries |-> stacks.primaries]
          /\ stacks.ok \in BOOLEAN /\ stacks.ok = TRUE /\ stacks.primaries = prims
      OBVIOUS
    <3> HIDE DEF stacks
    <3> DEFINE next == ProcessOperation(stacks)
    <3>2. next = [ok |-> next.ok, operations |-> next.operations, primaries |-> next.primaries] /\ next.ok \in BOOLEAN
      BY <2>8, <3>1, ProcessedOnce
    <3>3. next = after
      BY DEF stacks
    <3> HIDE DEF next, after
    <3> QED BY <2>10, <3>2, <3>3
  <2> HIDE DEF after
  <2>12. bound \in 0 .. bound
    OBVIOUS
  <2>13. Good(k + 1)
    BY <2>4, <2>5, <2>10, <2>11, <2>12
  <2> QED BY <2>2, <2>13
<1> HIDE DEF Good, S
<1>7. n \in S
  <2>1. 0 .. n \subseteq S
    BY <1>3, <1>5, <1>6, OneByOne
  <2> QED BY <1>3, <2>1
<1>8. Good(n)
  BY <1>7 DEF S
<1>9. Process(n) = run[n]
  BY <1>4 DEF Runs
<1>10. run[n].ok = TRUE /\ \E b \in 0 .. bound : FullFrame(s, here, run[n].operations, run[n].primaries, b)
  BY <1>8 DEF Good
<1> QED BY <1>9, <1>10

(***************************************************************************)
(* The steps.                                                              *)
(***************************************************************************)
(* The operations that a loop takes: none of the places it stops at, and   *)
(* up to one, if there is one.                                             *)
LEMMA AtBack ==
  ASSUME Len(operations) \in Nat, NEW stops, stops \subseteq 1 .. Len(operations)
  PROVE  /\ RunAtBack(stops) \in 0 .. Len(operations)
         /\ \A i \in Len(operations) - RunAtBack(stops) + 1 .. Len(operations) : i \notin stops
         /\ RunAtBack(stops) # Len(operations) => Len(operations) - RunAtBack(stops) \in stops
         /\ stops = {} => RunAtBack(stops) = Len(operations)
<1> DEFINE m == Len(operations)
           T == stops \cup {0}
           n == RunAtBack(stops)
<1>1. T \subseteq 0 .. m /\ T # {}
  OBVIOUS
<1>2. n = m - Max(T)
  BY DEF RunAtBack
<1> HIDE DEF m, T
<1>3. Max(T) \in T /\ \A y \in T : Max(T) >= y
  BY <1>1, Greatest DEF m
<1>4. PICK x \in 0 .. m : x = Max(T)
  BY <1>1, <1>3
<1>5. m \in Nat /\ n = m - x
  BY <1>2, <1>4 DEF m
<1> HIDE DEF n
<1>6. n \in 0 .. m /\ m - n = x
  BY <1>5
<1>7. \A i \in m - n + 1 .. m : i \notin stops
  <2> SUFFICES ASSUME NEW i \in m - n + 1 .. m, i \in stops PROVE FALSE
    OBVIOUS
  <2>1. i \in T
    BY DEF T
  <2>2. x >= i
    BY <1>3, <1>4, <2>1
  <2> QED BY <1>6, <2>2
<1>8. n # m => x \in stops
  <2>1. n # m => x # 0
    BY <1>5
  <2>2. x \in T
    BY <1>3, <1>4
  <2> QED BY <2>1, <2>2 DEF T
<1>9. stops = {} => n = m
  <2>1. stops = {} => x = 0
    BY <1>3, <1>4 DEF T
  <2> QED BY <1>5, <2>1
<1> QED BY <1>6, <1>7, <1>8, <1>9 DEF m, n

(* What the state says of the input with the next token.                   *)
Reading(token) ==
  LET r == Append(input, token)
  IN  /\ r \in Seq(Tokens) /\ Len(input) \in Nat /\ Len(r) = Len(input) + 1 /\ r[Len(input) + 1] = token
      /\ Depth(input, Len(input)) \in Int
      /\ Depth(r, Len(input)) = Depth(input, Len(input))
      /\ Depth(r, Len(input) + 1) = Depth(input, Len(input)) + (IF token = "(" THEN 1 ELSE 0)
                                                            - (IF token = ")" THEN 1 ELSE 0)
      /\ Unary(r, Len(input) + 1) <=> token \in Operations /\ WantsOperand
      /\ Operand(r, Len(input) + 1) <=> token \in {"primary", ")"}
      /\ ~Viable(input) => ~Viable(r)
      /\ Viable(input) =>
           (Viable(r) <=>
              /\ token # "end"
              /\ Depth(r, Len(input) + 1) >= 0
              /\ IF token \in Operations
                 THEN token \in IF WantsOperand THEN UnaryOperators ELSE BinaryOperators
                 ELSE token = ")" <=> ~WantsOperand)
      /\ Ordinary(r) =>
           \/ /\ Ordinary(input) /\ Viable(input)
              /\ Frame(r, Len(input), operations, primaries, ~WantsOperand, 0)
           \/ ~Viable(input) /\ Doomed

(* It does.                                                                *)
LEMMA TokenNext ==
  ASSUME WellTyped, Parsing, NEW token \in Tokens
  PROVE  Reading(token)
<1> DEFINE r == Append(input, token)
<1>1. input \in Seq(Tokens)
  BY DEF WellTyped
<1>2. /\ r \in Seq(Tokens) /\ Len(input) \in Nat /\ Len(r) = Len(input) + 1 /\ r[Len(input) + 1] = token
      /\ \A k \in 0 .. Len(input) : Depth(r, k) = Depth(input, k)
      /\ \A k \in 1 .. Len(input) : Operand(r, k) <=> Operand(input, k)
  BY <1>1, Longer
<1>3. PICK L \in Nat : L = Len(input)
  BY <1>2
<1>4. input = <<>> <=> L = 0
  BY <1>1, <1>3, EmptySeq
<1>5. WantsOperand <=> L = 0 \/ ~Operand(input, L)
  BY <1>3, <1>4 DEF Parsing
<1>6. /\ Ordinary(r) => Ordinary(input)
      /\ Viable(r) => Viable(input)
      /\ Viable(input) =>
           (Viable(r) <=>
              /\ token # "end"
              /\ Depth(r, Len(input) + 1) >= 0
              /\ IF token \in Operations
                 THEN token \in IF Unary(r, Len(input) + 1) THEN UnaryOperators ELSE BinaryOperators
                 ELSE token = ")" <=> input # <<>> /\ Operand(input, Len(input)))
  BY <1>1, LongerInputs
<1>7. Ordinary(r) /\ Frame(input, Len(input), operations, primaries, ~WantsOperand, 0)
        => Frame(r, Len(input), operations, primaries, ~WantsOperand, 0)
  BY <1>1, FrameStays
<1> HIDE DEF r
<1>8. /\ \A k \in Nat : Depth(r, k) \in Int
      /\ Depth(r, L + 1) = Depth(r, (L + 1) - 1) + (IF r[L + 1] = "(" THEN 1 ELSE 0)
                                                 - (IF r[L + 1] = ")" THEN 1 ELSE 0)
  <2>1. L + 1 \in Nat \ {0}
    OBVIOUS
  <2>2. \A k \in Nat : Depth(r, k) \in Int
    BY Depths
  <2>3. \A k \in Nat \ {0} :
          Depth(r, k) = Depth(r, k - 1) + (IF r[k] = "(" THEN 1 ELSE 0) - (IF r[k] = ")" THEN 1 ELSE 0)
    BY Depths
  <2> QED BY <2>1, <2>2, <2>3
<1>9. /\ Depth(r, L) = Depth(input, L) /\ Depth(input, L) \in Int
      /\ Depth(r, L + 1) = Depth(input, L) + (IF token = "(" THEN 1 ELSE 0)
                                           - (IF token = ")" THEN 1 ELSE 0)
  <2>1. L \in 0 .. Len(input) /\ (L + 1) - 1 = L
    BY <1>3
  <2> QED BY <1>2, <1>3, <1>8, <2>1
<1>10. Operand(r, L + 1) <=> token \in {"primary", ")"}
  BY <1>2, <1>3 DEF Operand
<1>11. Unary(r, L + 1) <=> token \in Operations /\ WantsOperand
  <2>1. L + 1 = 1 <=> L = 0
    OBVIOUS
  <2>2. (L + 1) - 1 = L /\ (L # 0 => L \in 1 .. L)
    OBVIOUS
  <2>3. L # 0 => (Operand(r, L) <=> Operand(input, L))
    BY <1>2, <1>3, <2>2
  <2> QED BY <1>2, <1>3, <1>5, <2>1, <2>2, <2>3 DEF Unary
<1>12. (input # <<>> /\ Operand(input, Len(input))) <=> ~WantsOperand
  BY <1>3, <1>4, <1>5
<1>13. Ordinary(input) =>
         \/ /\ Viable(input)
            /\ Frame(input, Len(input), operations, primaries, ~WantsOperand, 0)
         \/ ~Viable(input) /\ Doomed
  BY DEF Parsing
<1>14. Viable(input) =>
         (Viable(r) <=>
            /\ token # "end"
            /\ Depth(r, Len(input) + 1) >= 0
            /\ IF token \in Operations
               THEN token \in IF WantsOperand THEN UnaryOperators ELSE BinaryOperators
               ELSE token = ")" <=> ~WantsOperand)
  <2>1. token \in Operations => (Unary(r, Len(input) + 1) <=> WantsOperand)
    BY <1>3, <1>11
  <2> QED BY <1>6, <1>12, <2>1
<1> QED BY <1>2, <1>3, <1>6, <1>7, <1>9, <1>10, <1>11, <1>13, <1>14 DEF Reading, r

(* The call goes on: what has to be shown.                                 *)
LEMMA ReadsOn ==
  ASSUME WellTyped, outcome = "parsing", Len(input) <= MaxTokens, NEW token \in Tokens, Reads(token),
         operations' \in Seq(Entries),
         \A k \in 1 .. Len(operations') : operations'[k].pos <= Len(input) + 1,
         Sequence(primaries'),
         state' \in {"unary", "binary", "open", "close", "identifier"},
         WantsOperand' <=> token \notin {"primary", ")"},
         level' = Opens(operations', Len(operations')), level' \in 0 .. MaxTokens, level' <= Len(input) + 1,
         Ordinary(Append(input, token)) =>
           \/ /\ Viable(Append(input, token))
              /\ Frame(Append(input, token), Len(input) + 1, operations', primaries', ~WantsOperand', 0)
           \/ ~Viable(Append(input, token)) /\ Doomed'
  PROVE  ParserInv'
<1> DEFINE r == Append(input, token)
<1>1. input' = r /\ outcome' = "parsing"
  BY DEF Reads
<1>2. r \in Seq(Tokens) /\ Len(r) = Len(input) + 1 /\ Len(input) \in Nat /\ r[Len(input) + 1] = token
  BY AppendProperties, LenProperties DEF WellTyped
<1> HIDE DEF r
<1>3. MaxTokens \in Nat
  BY ExprParserAssumption
<1>4. WellTyped'
  <2>1. input' \in Seq(Tokens) /\ Len(input') <= MaxTokens + 1
    BY <1>1, <1>2, <1>3
  <2>2. \A k \in 1 .. Len(operations') : operations'[k].pos <= Len(input')
    BY <1>1, <1>2
  <2> QED BY <1>1, <2>1, <2>2 DEF WellTyped
<1>5. Parsing'
  <2>1. level' <= Len(input')
    BY <1>1, <1>2
  <2>2. Operand(input', Len(input')) <=> token \in {"primary", ")"}
    BY <1>1, <1>2 DEF Operand
  <2>3. input' # <<>>
    <3>1. Len(input') # 0
      BY <1>1, <1>2
    <3> QED BY <3>1, EmptySeq
  <2>4. WantsOperand' <=> input' = <<>> \/ ~Operand(input', Len(input'))
    BY <2>2, <2>3
  <2>5. Ordinary(input') =>
          \/ /\ Viable(input')
             /\ Frame(input', Len(input'), operations', primaries', ~WantsOperand', 0)
          \/ ~Viable(input') /\ Doomed'
    BY <1>1, <1>2 DEF r
  <2> QED BY <2>1, <2>4, <2>5 DEF Parsing
<1>6. TreesFollowTable' /\ RejectsOnlyErrors'
  BY <1>1 DEF TreesFollowTable, RejectsOnlyErrors
<1> QED BY <1>4, <1>5, <1>6 DEF ParserInv

(* The token the call stops at comes off again.                            *)
LEMMA StopsBehind ==
  ASSUME NEW s \in Seq(Tokens), NEW t \in Tokens
  PROVE  Front(Append(s, t)) = s /\ Last(Append(s, t)) = t
<1> DEFINE r == Append(s, t)
<1>1. r \in Seq(Tokens) /\ Len(r) = Len(s) + 1 /\ Len(s) \in Nat /\ r[Len(s) + 1] = t
      /\ \A k \in 1 .. Len(s) : r[k] = s[k]
  BY AppendProperties, LenProperties
<1> HIDE DEF r
<1>2. PICK L \in Nat : L = Len(s)
  BY <1>1
<1>3. \A i \in 1 .. L : r[i] \in Tokens
  BY <1>1, <1>2, ElementOfSeq
<1>4. SubSeq(r, 1, L) \in Seq(Tokens) /\ Len(SubSeq(r, 1, L)) = L /\ \A i \in 1 .. L : SubSeq(r, 1, L)[i] = s[i]
  <2>1. Sequence(r) /\ L \in 0 .. Len(r)
    BY <1>1, <1>2, IsSequence
  <2>2. Len(SubSeq(r, 1, L)) = L /\ \A i \in 1 .. L : SubSeq(r, 1, L)[i] = r[i]
    BY <2>1, Shortened
  <2>3. SubSeq(r, 1, L) \in Seq(Tokens)
    BY <1>3, SubSeqProperties
  <2> QED BY <1>1, <1>2, <2>2, <2>3
<1>5. SubSeq(r, 1, L) = s
  BY <1>2, <1>4, SeqEqual
<1>6. Front(r) = SubSeq(r, 1, (L + 1) - 1) /\ Last(r) = r[L + 1]
  BY <1>1, <1>2 DEF Front, Last
<1>7. (L + 1) - 1 = L
  BY <1>2
<1> QED BY <1>1, <1>2, <1>5, <1>6, <1>7 DEF r

(* The call reports an error: what has to be shown.                        *)
LEMMA Fails ==
  ASSUME WellTyped, Parsing, Len(input) <= MaxTokens, NEW token \in Tokens, Fail(token),
         Ordinary(Append(input, token)) =>
           /\ ~Viable(Append(input, token))
           /\ Sentence(input) => token \in Operations
  PROVE  ParserInv'
<1> DEFINE r == Append(input, token)
<1>1. input' = r /\ outcome' = "rejected" /\ UNCHANGED <<primaries, operations, level, state>>
  BY DEF Fail
<1>2. r \in Seq(Tokens) /\ Len(r) = Len(input) + 1 /\ Len(input) \in Nat /\ input \in Seq(Tokens)
  BY AppendProperties, LenProperties DEF WellTyped
<1>3. Front(r) = input /\ Last(r) = token
  BY <1>2, StopsBehind
<1>4. MaxTokens \in Nat
  BY ExprParserAssumption
<1>5. WellTyped'
  <2>1. \A k \in 1 .. Len(operations) : operations[k].pos \in Nat
    <3>1. \A k \in 1 .. Len(operations) : operations[k] \in Entries
      BY ElementOfSeq DEF WellTyped
    <3> QED BY <3>1 DEF Entries
  <2> HIDE DEF r
  <2>2. input' \in Seq(Tokens) /\ Len(input') <= MaxTokens + 1
    BY <1>1, <1>2, <1>4
  <2>3. \A k \in 1 .. Len(operations') : operations'[k].pos <= Len(input')
    BY <1>1, <1>2, <2>1 DEF WellTyped
  <2> QED BY <1>1, <2>2, <2>3 DEF WellTyped
<1>6. RejectsOnlyErrors'
  <2> SUFFICES ASSUME Ordinary(r)
               PROVE  ~Viable(r) /\ ~Sentence(input) /\ (Viable(input) \/ BeginsBinary(input))
    BY <1>1, <1>3 DEF RejectsOnlyErrors, Parsed
  <2>1. ~Viable(r)
    OBVIOUS
  <2>2. Reading(token)
    BY TokenNext
  <2>3. Viable(input) \/ BeginsBinary(input)
    BY <2>2 DEF Reading, Doomed
  <2>4. ASSUME Sentence(input)
        PROVE  FALSE
    <3>1. token \in Operations
      BY <2>4
    <3>2. input # <<>> /\ Viable(input) /\ Operand(input, Len(input)) /\ Depth(input, Len(input)) = 0
      BY <2>4 DEF Sentence
    <3>3. ~WantsOperand
      BY <3>2 DEF Parsing
    <3>4. token \notin {"(", ")", "end"}
      BY <3>1, Operators
    <3>5. Depth(r, Len(input) + 1) >= 0
      BY <2>2, <3>2, <3>4 DEF Reading
    <3>6. PICK L \in Nat : L = Len(input) + 1
      BY <1>2
    <3>7. L \in 1 .. Len(r) /\ r[L] = token /\ ~Unary(r, L)
      BY <1>2, <2>2, <3>3, <3>6 DEF Reading
    <3>8. token \in BinaryOperators
      BY <3>1, <3>7 DEF Ordinary
    <3> QED BY <2>1, <2>2, <3>1, <3>2, <3>3, <3>4, <3>5, <3>8 DEF Reading
  <2> QED BY <2>1, <2>3, <2>4
<1>7. TreesFollowTable' /\ outcome' # "parsing"
  BY <1>1 DEF TreesFollowTable
<1> QED BY <1>5, <1>6, <1>7 DEF ParserInv

(* As long as it goes on, what it read is no expression, or an operator    *)
(* follows it.                                                             *)
LEMMA NoSentence ==
  ASSUME WellTyped, Parsing, NEW token \in Tokens, GoesOn(token), Ordinary(Append(input, token))
  PROVE  Sentence(input) => token \in Operations
<1> SUFFICES ASSUME Sentence(input), token \notin Operations PROVE FALSE
  OBVIOUS
<1>1. input \in Seq(Tokens) /\ Len(input) \in Nat
  BY LenProperties DEF WellTyped
<1>2. Ordinary(input)
  BY <1>1, LongerInputs
<1>3. input # <<>> /\ Viable(input) /\ Operand(input, Len(input)) /\ Depth(input, Len(input)) = 0
  BY DEF Sentence
<1>4. ~WantsOperand
  BY <1>3 DEF Parsing
<1>5. level # 0
  BY <1>4 DEF GoesOn
<1>6. Frame(input, Len(input), operations, primaries, ~WantsOperand, 0) /\ level = Opens(operations, Len(operations))
  BY <1>2, <1>3 DEF Parsing
<1>7. Depth(input, Len(input)) = Opens(operations, Len(operations))
  BY <1>1, <1>6, FrameDepth
<1> QED BY <1>3, <1>5, <1>6, <1>7


(* One entry more on the stack.                                            *)
LEMMA OnTop ==
  ASSUME NEW ops \in Seq(Entries), NEW e \in Entries
  PROVE  LET ops2 == Append(ops, e)
         IN  /\ ops2 \in Seq(Entries) /\ Len(ops) \in Nat /\ Len(ops2) = Len(ops) + 1
             /\ ops2 # <<>> /\ ops2[Len(ops) + 1] = e
             /\ \A k \in 1 .. Len(ops) : ops2[k] = ops[k]
             /\ Opens(ops2, Len(ops2)) = Opens(ops, Len(ops)) + (IF IsOpen(e) THEN 1 ELSE 0)
<1> DEFINE ops2 == Append(ops, e)
<1>1. /\ ops2 \in Seq(Entries) /\ Len(ops) \in Nat /\ Len(ops2) = Len(ops) + 1 /\ ops2[Len(ops) + 1] = e
      /\ \A k \in 1 .. Len(ops) : ops2[k] = ops[k]
  BY AppendProperties, LenProperties
<1> HIDE DEF ops2
<1>2. PICK m \in Nat : m = Len(ops)
  BY <1>1
<1>3. m + 1 \in Nat \ {0} /\ (m + 1) - 1 = m /\ m \in 0 .. m
  OBVIOUS
<1>4. Opens(ops2, m + 1) = Opens(ops2, (m + 1) - 1) + (IF IsOpen(ops2[m + 1]) THEN 1 ELSE 0)
  BY <1>3, Kinds
<1>5. \A j \in 1 .. m : ops2[j] = ops[j]
  BY <1>1, <1>2
<1>6. Opens(ops2, m) = Opens(ops, m)
  BY <1>3, <1>5, KindsOfPart
<1>7. Len(ops2) # 0
  BY <1>1, <1>2, <1>3
<1>8. ops2 # <<>>
  BY <1>7, EmptySeq
<1> QED BY <1>1, <1>2, <1>3, <1>4, <1>6, <1>8 DEF ops2

(* The first token and the first operation stay where they are.            *)
LEMMA DoomedStays ==
  ASSUME WellTyped, Doomed, NEW token \in Tokens, Reads(token),
         operations' # <<>>, operations'[1] = operations[1]
  PROVE  Doomed'
<1>1. input' = Append(input, token) /\ input \in Seq(Tokens)
  BY DEF Reads, WellTyped
<1>2. PICK L \in Nat : L = Len(input)
  BY <1>1, LenProperties
<1>3. L # 0
  BY <1>1, <1>2, EmptySeq DEF Doomed, BeginsBinary
<1>4. Len(input') = L + 1 /\ \A k \in 1 .. L : input'[k] = input[k]
  BY <1>1, <1>2, Longer
<1>5. input'[1] = input[1] /\ input' # <<>>
  <2>1. 1 \in 1 .. L /\ Len(input') # 0
    BY <1>2, <1>3, <1>4
  <2>2. input' # <<>>
    BY <2>1, EmptySeq
  <2> QED BY <1>4, <2>1, <2>2
<1> QED BY <1>5 DEF Doomed, BeginsBinary

LEMMA OpensParenthesis ==
  ASSUME WellTyped, Parsing, outcome = "parsing", Len(input) <= MaxTokens, NEW token \in Tokens,
         Len(input) = MaxTokens => token = "end", GoesOn(token), OpenParenthesis(token)
  PROVE  ParserInv'
<1> DEFINE r == Append(input, token)
           e == [type |-> "(", unary |-> FALSE, pos |-> Len(input) + 1]
<1>1. Reading(token) /\ token = "(" /\ token \notin Operations /\ token # ")"
  BY TokenNext, Operators DEF OpenParenthesis
<1>2. PICK L \in Nat : L = Len(input)
  BY <1>1 DEF Reading
<1>3. CASE WantsOperand
  <2>1. /\ operations' = Append(operations, e) /\ level' = level + 1 /\ state' = "open"
        /\ Reads(token) /\ primaries' = primaries
    BY <1>1, <1>3 DEF OpenParenthesis
  <2>2. e \in Entries /\ e.pos = L + 1 /\ e.type = "(" /\ ~e.unary /\ e.unary \in BOOLEAN /\ IsOpen(e)
    BY <1>2 DEF Entries, IsOpen
  <2>3. ~IsBinary(e) /\ Priority(e) = 13
    BY <2>2, Priorities DEF IsBinary, Priority
  <2> HIDE DEF e, r
  <2>4. operations \in Seq(Entries)
    BY DEF WellTyped
  <2>5. PICK m \in Nat : m = Len(operations)
    BY <2>4, LenProperties
  <2>6. /\ operations' \in Seq(Entries) /\ Len(operations') = m + 1
        /\ operations' # <<>> /\ operations'[m + 1] = e
        /\ \A k \in 1 .. m : operations'[k] = operations[k]
        /\ Opens(operations', Len(operations')) = Opens(operations, m) + 1
    <3> DEFINE ops2 == Append(operations, e)
    <3>1. /\ ops2 \in Seq(Entries) /\ Len(operations) \in Nat /\ Len(ops2) = Len(operations) + 1
          /\ ops2 # <<>> /\ ops2[Len(operations) + 1] = e
          /\ \A k \in 1 .. Len(operations) : ops2[k] = operations[k]
          /\ Opens(ops2, Len(ops2)) = Opens(operations, Len(operations)) + (IF IsOpen(e) THEN 1 ELSE 0)
      BY <2>2, <2>4, OnTop
    <3>2. operations' = ops2
      BY <2>1
    <3> HIDE DEF ops2
    <3> QED BY <2>2, <2>5, <3>1, <3>2
  <2>7. \A k \in 1 .. Len(operations') : operations'[k].pos <= Len(input) + 1
    <3>1. \A k \in 1 .. m : operations[k].pos \in Nat /\ operations[k].pos <= L
      <4>1. \A k \in 1 .. m : operations[k] \in Entries
        BY <2>4, <2>5, ElementOfSeq
      <4> QED BY <1>2, <2>5, <4>1 DEF Entries, WellTyped
    <3>2. TAKE k \in 1 .. Len(operations')
    <3>3. k = m + 1 \/ k \in 1 .. m
      BY <2>5, <2>6
    <3> QED BY <1>2, <2>2, <2>6, <3>1, <3>3
  <2>8. level = Opens(operations, m) /\ level <= L /\ level \in Nat
    BY <1>2, <2>5 DEF Parsing, WellTyped
  <2>9. MaxTokens \in Nat /\ L < MaxTokens
    BY <1>1, <1>2, ExprParserAssumption
  <2>10. /\ level' = Opens(operations', Len(operations')) /\ level' \in 0 .. MaxTokens
         /\ level' <= Len(input) + 1
    BY <1>2, <2>1, <2>6, <2>8, <2>9
  <2>11. WantsOperand' /\ Sequence(primaries')
    BY <2>1 DEF WantsOperand, WellTyped
  <2>12. ASSUME Ordinary(r)
         PROVE  \/ Viable(r) /\ Frame(r, Len(input) + 1, operations', primaries', ~WantsOperand', 0)
                \/ ~Viable(r) /\ Doomed'
    <3>1. CASE /\ Viable(input)
               /\ Frame(r, Len(input), operations, primaries, ~WantsOperand, 0)
      <4>1. PICK no \in BOOLEAN : no = FALSE
        OBVIOUS
      <4>2. Frame(r, L, operations, primaries, no, 0)
        BY <1>2, <1>3, <3>1, <4>1
      <4>3. Depth(r, L) = Opens(operations, m)
        BY <2>5, <4>2, FrameDepth
      <4>4. Depth(r, L + 1) = Depth(r, L) + 1 /\ Depth(r, L) \in Nat
        BY <1>1, <1>2, <2>8, <4>3 DEF Reading, r
      <4>5. Viable(r)
        <5>1. Depth(r, Len(input) + 1) >= 0
          BY <1>2, <4>4
        <5> QED BY <1>1, <1>3, <3>1, <5>1 DEF Reading, r
      <4>6. /\ r[L + 1] = e.type /\ e.unary = Unary(r, L + 1) /\ Priority(e) # 0 /\ IsBinary(e) = no
            /\ Depth(r, L + 1) = Depth(r, L) + (IF IsOpen(e) THEN 1 ELSE 0)
            /\ r \in Seq(Tokens) /\ L <= Len(r) /\ (no => 0 <= Priority(e))
            /\ (operations # <<>> /\ ~IsOpen(e) => Priority(e) < Priority(operations[Len(operations)]))
        <5>1. e.unary = FALSE
          BY <2>2
        <5>2. Unary(r, L + 1) = FALSE
          BY <1>1, <1>2 DEF Reading, r, Unary
        <5>3. IsBinary(e) = FALSE
          BY <2>3 DEF IsBinary
        <5>4. r[L + 1] = e.type /\ r \in Seq(Tokens) /\ L <= Len(r)
          BY <1>1, <1>2, <2>2 DEF Reading, r
        <5>5. Depth(r, L + 1) = Depth(r, L) + (IF IsOpen(e) THEN 1 ELSE 0)
          BY <2>2, <4>4
        <5>6. e.unary = Unary(r, L + 1) /\ IsBinary(e) = no
          BY <4>1, <5>1, <5>2, <5>3
        <5>7. Priority(e) # 0 /\ (no => 0 <= Priority(e)) /\ ~(operations # <<>> /\ ~IsOpen(e))
          BY <2>2, <2>3
        <5> QED BY <5>4, <5>5, <5>6, <5>7
      <4>7. 0 \in Nat
        OBVIOUS
      <4>8. Frame(r, L + 1, Append(operations, e), primaries, FALSE, 0)
        BY <2>2, <4>2, <4>6, <4>7, <2>12, Pushed
      <4> QED BY <1>2, <2>1, <2>11, <4>5, <4>8
    <3>2. CASE ~Viable(input) /\ Doomed
      <4>1. ~Viable(r)
        BY <1>1, <3>2 DEF Reading, r
      <4>2. m # 0
        BY <2>4, <2>5, <3>2, EmptySeq DEF Doomed
      <4>3. operations'[1] = operations[1]
        BY <2>5, <2>6, <4>2
      <4> QED BY <2>1, <2>6, <3>2, <4>1, <4>3, DoomedStays
    <3> QED BY <1>1, <2>12, <3>1, <3>2 DEF Reading, r
  <2>13. WantsOperand' <=> token \notin {"primary", ")"}
    BY <1>1, <2>11
  <2>14. Reads(token) /\ state' \in {"unary", "binary", "open", "close", "identifier"}
    BY <2>1
  <2>15. Ordinary(Append(input, token)) =>
           \/ /\ Viable(Append(input, token))
              /\ Frame(Append(input, token), Len(input) + 1, operations', primaries', ~WantsOperand', 0)
           \/ ~Viable(Append(input, token)) /\ Doomed'
    BY <2>12 DEF r
  <2> QED BY <2>6, <2>7, <2>10, <2>11, <2>13, <2>14, <2>15, ReadsOn
<1>4. CASE ~WantsOperand
  <2>1. Fail(token)
    BY <1>4 DEF OpenParenthesis
  <2>2. ~Viable(r)
    BY <1>1, <1>4 DEF Reading
  <2>3. Ordinary(r) => (Sentence(input) => token \in Operations)
    BY NoSentence
  <2> QED BY <2>1, <2>2, <2>3, Fails
<1> QED BY <1>3, <1>4

LEMMA ReadsPrimary ==
  ASSUME WellTyped, Parsing, outcome = "parsing", Len(input) <= MaxTokens, NEW token \in Tokens,
         Len(input) = MaxTokens => token = "end", GoesOn(token), Primary(token)
  PROVE  ParserInv'
<1> DEFINE r == Append(input, token)
<1>1. Reading(token) /\ token \in {"primary", "end"} /\ token \notin Operations /\ token # ")"
  BY TokenNext, Operators DEF Primary
<1>2. PICK L \in Nat : L = Len(input)
  BY <1>1 DEF Reading
<1>3. CASE WantsOperand /\ token = "primary"
  <2>1. /\ primaries' = Append(primaries, <<L + 1>>) /\ state' = "identifier"
        /\ Reads(token) /\ operations' = operations /\ level' = level
    BY <1>2, <1>3 DEF Primary
  <2> HIDE DEF r
  <2>2. operations \in Seq(Entries) /\ Sequence(primaries)
    BY DEF WellTyped
  <2>3. Sequence(primaries')
    <3>1. SubSeq(primaries, 1, Len(primaries)) = primaries /\ Len(primaries) \in Nat
      BY <2>2, SubSeqFull, LenProperties DEF Sequence
    <3>2. Len(primaries) \in 0 .. Len(primaries)
      BY <3>1
    <3>3. Sequence(Append(SubSeq(primaries, 1, Len(primaries)), <<L + 1>>))
      BY <2>2, <3>2, Stacked
    <3> QED BY <2>1, <3>1, <3>3
  <2>4. \A k \in 1 .. Len(operations') : operations'[k].pos <= Len(input) + 1
    <3>1. \A k \in 1 .. Len(operations) : operations[k] \in Entries
      BY <2>2, ElementOfSeq
    <3>2. \A k \in 1 .. Len(operations) : operations[k].pos \in Nat /\ operations[k].pos <= L
      BY <1>2, <3>1 DEF Entries, WellTyped
    <3> QED BY <1>2, <2>1, <3>2
  <2>5. level' = Opens(operations', Len(operations')) /\ level' \in 0 .. MaxTokens /\ level' <= Len(input) + 1
    <3>1. level = Opens(operations, Len(operations)) /\ level <= L /\ level \in 0 .. MaxTokens
      BY <1>2 DEF Parsing, WellTyped
    <3> QED BY <1>2, <2>1, <3>1
  <2>6. ~WantsOperand'
    BY <2>1 DEF WantsOperand
  <2>7. ASSUME Ordinary(r)
        PROVE  \/ Viable(r) /\ Frame(r, Len(input) + 1, operations', primaries', ~WantsOperand', 0)
               \/ ~Viable(r) /\ Doomed'
    <3>1. CASE /\ Viable(input)
               /\ Frame(r, Len(input), operations, primaries, ~WantsOperand, 0)
      <4>1. Frame(r, L, operations, primaries, FALSE, 0)
        BY <1>2, <1>3, <3>1
      <4>2. r \in Seq(Tokens) /\ L + 1 <= Len(r) /\ r[L + 1] = "primary"
        BY <1>1, <1>2, <1>3 DEF Reading, r
      <4>3. Frame(r, L + 1, operations, Append(primaries, <<L + 1>>), TRUE, 0)
        BY <2>2, <2>7, <4>1, <4>2, PrimaryRead
      <4>4. Depth(r, L) \in Int /\ Depth(r, L) >= 0
        <5>1. Depth(r, L) = Opens(operations, Len(operations))
          BY <4>1, FrameDepth
        <5>2. Len(operations) \in Nat
          BY <2>2, LenProperties
        <5>3. Opens(operations, Len(operations)) \in 0 .. Len(operations)
          BY <5>2, Kinds
        <5> QED BY <5>1, <5>2, <5>3
      <4>5. Viable(r)
        <5>1. token # "end" /\ token # "("
          BY <1>3
        <5>2. Depth(r, Len(input) + 1) >= 0
          BY <1>1, <1>2, <4>4, <5>1 DEF Reading, r
        <5> QED BY <1>1, <1>3, <3>1, <5>1, <5>2 DEF Reading, r
      <4> QED BY <1>2, <2>1, <2>6, <4>3, <4>5
    <3>2. CASE ~Viable(input) /\ Doomed
      <4>1. ~Viable(r)
        BY <1>1, <3>2 DEF Reading, r
      <4>2. operations' # <<>> /\ operations'[1] = operations[1]
        BY <2>1, <3>2 DEF Doomed
      <4> QED BY <2>1, <3>2, <4>1, <4>2, DoomedStays
    <3> QED BY <1>1, <2>7, <3>1, <3>2 DEF Reading, r
  <2>8. operations' \in Seq(Entries) /\ (WantsOperand' <=> token \notin {"primary", ")"})
        /\ Reads(token) /\ state' \in {"unary", "binary", "open", "close", "identifier"}
    BY <1>3, <2>1, <2>2, <2>6
  <2>9. Ordinary(Append(input, token)) =>
          \/ /\ Viable(Append(input, token))
             /\ Frame(Append(input, token), Len(input) + 1, operations', primaries', ~WantsOperand', 0)
          \/ ~Viable(Append(input, token)) /\ Doomed'
    BY <2>7 DEF r
  <2> QED BY <2>3, <2>4, <2>5, <2>8, <2>9, ReadsOn
<1>4. CASE ~(WantsOperand /\ token = "primary")
  <2>1. Fail(token)
    BY <1>4 DEF Primary
  <2>2. ~Viable(r)
    <3>1. Viable(r) => Viable(input) /\ token # "end" /\ (token = ")" <=> ~WantsOperand)
      BY <1>1 DEF Reading
    <3> QED BY <1>1, <1>4, <3>1
  <2>3. Ordinary(r) => (Sentence(input) => token \in Operations)
    BY NoSentence
  <2> QED BY <2>1, <2>2, <2>3, Fails
<1> QED BY <1>3, <1>4

(* What a run at the back leaves of the stack.                             *)
LEMMA RunLeaves ==
  ASSUME WellTyped, NEW n \in 0 .. Len(operations)
  PROVE  /\ operations \in Seq(Entries) /\ Sequence(operations) /\ Len(operations) \in Nat
         /\ \A k \in 1 .. Len(operations) : operations[k] \in Entries /\ operations[k].pos <= Len(input)
         /\ Process(n).ok =>
              /\ Process(n).operations = SubSeq(operations, 1, Len(operations) - n)
              /\ Process(n).operations \in Seq(Entries)
              /\ Len(Process(n).operations) = Len(operations) - n
              /\ \A k \in 1 .. Len(operations) - n : Process(n).operations[k] = operations[k]
              /\ Process(n).operations = <<>> <=> n = Len(operations)
              /\ Sequence(Process(n).primaries)
              /\ \A i \in Len(operations) - n + 1 .. Len(operations) :
                   operations[i].unary => operations[i].type \in UnaryOperators
<1>1. operations \in Seq(Entries) /\ Sequence(operations) /\ Sequence(primaries)
  <2>1. operations \in Seq(Entries) /\ Sequence(primaries)
    BY DEF WellTyped
  <2> QED BY <2>1, IsSequence
<1>2. PICK m \in Nat : m = Len(operations)
  BY <1>1, LenProperties
<1>3. \A k \in 1 .. Len(operations) : operations[k] \in Entries /\ operations[k].pos <= Len(input)
  <2>1. \A k \in 1 .. Len(operations) : operations[k] \in Entries
    BY <1>1, ElementOfSeq
  <2> QED BY <2>1 DEF WellTyped
<1>4. ASSUME Process(n).ok
      PROVE  /\ Process(n).operations = SubSeq(operations, 1, Len(operations) - n)
             /\ Process(n).operations \in Seq(Entries)
             /\ Len(Process(n).operations) = Len(operations) - n
             /\ \A k \in 1 .. Len(operations) - n : Process(n).operations[k] = operations[k]
             /\ Process(n).operations = <<>> <=> n = Len(operations)
             /\ Sequence(Process(n).primaries)
             /\ \A i \in Len(operations) - n + 1 .. Len(operations) :
                  operations[i].unary => operations[i].type \in UnaryOperators
  <2>1. /\ Process(n).operations = SubSeq(operations, 1, Len(operations) - n)
        /\ Sequence(Process(n).primaries)
        /\ \A i \in Len(operations) - n + 1 .. Len(operations) :
             operations[i].unary => operations[i].type \in UnaryOperators
    BY <1>1, <1>4, Processed
  <2> DEFINE ops2 == SubSeq(operations, 1, m - n)
  <2>2. m - n \in 0 .. m /\ n \in 0 .. m
    BY <1>2
  <2>3. Len(ops2) = m - n /\ \A k \in 1 .. m - n : ops2[k] = operations[k]
    BY <1>1, <1>2, <2>2, Shortened
  <2>4. ops2 \in Seq(Entries)
    <3>1. \A i \in 1 .. m - n : operations[i] \in Entries
      BY <1>2, <1>3, <2>2
    <3> QED BY <3>1, SubSeqProperties
  <2>5. Process(n).operations = ops2
    BY <1>2, <2>1
  <2> HIDE DEF ops2
  <2>6. ops2 = <<>> <=> n = m
    BY <2>2, <2>3, <2>4, EmptySeq
  <2> QED BY <1>2, <2>1, <2>3, <2>4, <2>5, <2>6
<1> QED BY <1>1, <1>2, <1>3, <1>4

(* The run up to the last open parenthesis.                                *)
LEMMA RunToOpen ==
  ASSUME WellTyped
  PROVE  LET m == Len(operations)
             n == RunAtBack({i \in DOMAIN operations : IsOpen(operations[i])})
         IN  /\ m \in Nat /\ n \in 0 .. m
             /\ \A i \in m - n + 1 .. m : ~IsOpen(operations[i]) /\ Priority(operations[i]) <= 12
             /\ n # m => IsOpen(operations[m - n])
             /\ Opens(operations, m) = Opens(operations, m - n)
<1> DEFINE stops == {i \in DOMAIN operations : IsOpen(operations[i])}
           n == RunAtBack(stops)
<1>1. operations \in Seq(Entries)
  BY DEF WellTyped
<1>2. DOMAIN operations = 1 .. Len(operations) /\ Len(operations) \in Nat
  BY <1>1, LenProperties
<1>3. \A i \in 1 .. Len(operations) : operations[i] \in Entries
  BY <1>1, ElementOfSeq
<1>4. PICK m \in Nat : m = Len(operations)
  BY <1>2
<1>5. stops \subseteq 1 .. Len(operations) /\ \A i \in 1 .. m : i \in stops <=> IsOpen(operations[i])
  BY <1>2, <1>4
<1> HIDE DEF stops
<1>6. /\ n \in 0 .. m
      /\ \A i \in m - n + 1 .. m : i \notin stops
      /\ n # m => m - n \in stops
  BY <1>2, <1>4, <1>5, AtBack
<1> HIDE DEF n
<1>7. ASSUME NEW i \in m - n + 1 .. m
      PROVE  ~IsOpen(operations[i]) /\ Priority(operations[i]) <= 12
  <2>1. i \in 1 .. m
    BY <1>6
  <2>2. ~IsOpen(operations[i]) /\ operations[i] \in Entries
    BY <1>3, <1>4, <1>5, <1>6, <2>1
  <2> QED BY <2>2, EntryPriority
<1>8. n # m => IsOpen(operations[m - n])
  <2>1. n # m => m - n \in 1 .. m
    BY <1>6
  <2> QED BY <1>5, <1>6, <2>1
<1>9. Opens(operations, m) = Opens(operations, m - n)
  <2>1. m - n \in 0 .. m
    BY <1>6
  <2>2. \A j \in (m - n) + 1 .. m : ~IsOpen(operations[j])
    BY <1>7
  <2> QED BY <2>1, <2>2, OpensBelow
<1> QED BY <1>4, <1>6, <1>7, <1>8, <1>9 DEF n, stops

(* Nothing fails in it when no operand is due.                             *)
LEMMA RunToOpenWorks ==
  ASSUME WellTyped, NEW s \in Seq(Tokens), Ordinary(s), NEW here \in Nat, here <= Len(s),
         FullFrame(s, here, operations, primaries, 0), NEW n \in 0 .. Len(operations),
         \A i \in Len(operations) - n + 1 .. Len(operations) :
           ~IsOpen(operations[i]) /\ Priority(operations[i]) <= 12
  PROVE  /\ Process(n).ok
         /\ \E b \in 0 .. 12 : FullFrame(s, here, Process(n).operations, Process(n).primaries, b)
<1>1. Sequence(primaries)
  BY DEF WellTyped
<1>2. 12 \in Nat
  OBVIOUS
<1> QED BY <1>1, <1>2, ProcessedFrame

LEMMA ClosesParenthesis ==
  ASSUME WellTyped, Parsing, outcome = "parsing", Len(input) <= MaxTokens, NEW token \in Tokens,
         Len(input) = MaxTokens => token = "end", GoesOn(token), CloseParenthesis(token)
  PROVE  ParserInv'
<1> DEFINE r == Append(input, token)
           n == RunAtBack({i \in DOMAIN operations : IsOpen(operations[i])})
           after == Process(n)
<1>1. Reading(token) /\ token = ")" /\ token \notin Operations
  BY TokenNext, Operators DEF CloseParenthesis
<1>2. PICK L \in Nat : L = Len(input)
  BY <1>1 DEF Reading
<1>3. PICK m \in Nat : m = Len(operations)
  BY LenProperties DEF WellTyped
<1>4. /\ n \in 0 .. m
      /\ \A i \in m - n + 1 .. m : ~IsOpen(operations[i]) /\ Priority(operations[i]) <= 12
      /\ n # m => IsOpen(operations[m - n])
      /\ Opens(operations, m) = Opens(operations, m - n)
  BY <1>3, RunToOpen
<1>5. IF state \in {"identifier", "close"} /\ after.ok /\ after.operations # <<>>
      THEN /\ primaries' = after.primaries /\ operations' = Front(after.operations)
           /\ level' = level - 1 /\ state' = "close" /\ Reads(token)
      ELSE Fail(token)
  BY DEF CloseParenthesis
<1> HIDE DEF n
<1>6. /\ operations \in Seq(Entries) /\ Sequence(operations)
      /\ \A k \in 1 .. m : operations[k] \in Entries /\ operations[k].pos <= L
      /\ after.ok => /\ after.operations = SubSeq(operations, 1, m - n)
                     /\ after.operations \in Seq(Entries)
                     /\ Len(after.operations) = m - n
                     /\ after.operations = <<>> <=> n = m
                     /\ Sequence(after.primaries)
  BY <1>2, <1>3, <1>4, RunLeaves
<1>7. (state \in {"identifier", "close"}) <=> ~WantsOperand
  BY DEF WellTyped, WantsOperand
<1>8. level = Opens(operations, m) /\ level <= L /\ level \in 0 .. MaxTokens
  BY <1>2, <1>3 DEF Parsing, WellTyped
<1>9. \A k \in 0 .. m : Opens(operations, k) \in 0 .. k
  <2>1. \A k \in Nat : Opens(operations, k) \in 0 .. k
    BY Kinds
  <2> QED BY <2>1
<1> HIDE DEF after, r
<1>10. ASSUME Ordinary(r)
       PROVE  \/ /\ Viable(input) /\ Depth(r, L + 1) = level - 1 /\ r \in Seq(Tokens) /\ Len(r) = L + 1
                 /\ Frame(r, L, operations, primaries, ~WantsOperand, 0)
                 /\ ~WantsOperand =>
                      after.ok /\ \E b \in 0 .. 12 : FullFrame(r, L, after.operations, after.primaries, b)
              \/ ~Viable(input) /\ ~Viable(r) /\ Doomed
  <2>1. CASE Viable(input) /\ Frame(r, L, operations, primaries, ~WantsOperand, 0)
    <3>1. Depth(r, L) = Opens(operations, m)
      BY <1>3, <2>1, FrameDepth
    <3>2. Depth(r, L + 1) = level - 1
      BY <1>1, <1>2, <1>8, <3>1 DEF Reading, r
    <3>3. r \in Seq(Tokens) /\ Len(r) = L + 1 /\ L <= Len(r)
      BY <1>1, <1>2 DEF Reading, r
    <3>4. ASSUME ~WantsOperand
          PROVE  after.ok /\ \E b \in 0 .. 12 : FullFrame(r, L, after.operations, after.primaries, b)
      <4>1. FullFrame(r, L, operations, primaries, 0)
        BY <2>1, <3>4 DEF FullFrame
      <4>2. n \in 0 .. Len(operations)
            /\ \A i \in Len(operations) - n + 1 .. Len(operations) :
                 ~IsOpen(operations[i]) /\ Priority(operations[i]) <= 12
        BY <1>3, <1>4
      <4> QED BY <1>10, <3>3, <4>1, <4>2, RunToOpenWorks DEF after
    <3> QED BY <2>1, <3>2, <3>3, <3>4
  <2>2. CASE ~Viable(input) /\ Doomed
    BY <1>1, <2>2 DEF Reading, r
  <2> QED BY <1>1, <1>2, <1>10, <2>1, <2>2 DEF Reading, r
<1>11. CASE state \in {"identifier", "close"} /\ after.ok /\ after.operations # <<>>
  <2>1. /\ primaries' = after.primaries /\ operations' = Front(after.operations)
        /\ level' = level - 1 /\ state' = "close" /\ Reads(token)
    BY <1>5, <1>11
  <2>2. n # m /\ m - n \in 1 .. m /\ IsOpen(operations[m - n])
    BY <1>4, <1>6, <1>11
  <2>3. PICK p \in Nat : p = m - n - 1
    BY <2>2
  <2>4. p + 1 = m - n /\ p \in 0 .. m /\ p + 1 \in 1 .. m /\ p + 1 \in Nat \ {0} /\ (p + 1) - 1 = p
    BY <2>2, <2>3
  <2>5. operations' = SubSeq(operations, 1, p) /\ Last(after.operations) = operations[p + 1]
    <3>1. p + 1 \in 1 .. Len(operations)
      BY <1>3, <2>4
    <3>2. Front(SubSeq(operations, 1, p + 1)) = SubSeq(operations, 1, (p + 1) - 1)
          /\ Last(SubSeq(operations, 1, p + 1)) = operations[p + 1]
      BY <1>6, <3>1, FrontOfPart
    <3> QED BY <1>6, <1>11, <2>1, <2>4, <3>2
  <2>6. Len(operations') = p /\ \A k \in 1 .. p : operations'[k] = operations[k]
    <3>1. p \in 0 .. Len(operations)
      BY <1>3, <2>4
    <3> QED BY <1>6, <2>5, <3>1, Shortened
  <2>7. operations' \in Seq(Entries)
    <3>1. \A i \in 1 .. p : operations[i] \in Entries
      BY <1>6, <2>4
    <3> QED BY <2>5, <3>1, SubSeqProperties
  <2>8. \A k \in 1 .. Len(operations') : operations'[k].pos <= Len(input) + 1
    <3>1. \A k \in 1 .. p : operations[k].pos \in Nat /\ operations[k].pos <= L
      BY <1>6, <2>4 DEF Entries
    <3> QED BY <1>2, <2>6, <3>1
  <2>9. level' = Opens(operations', Len(operations')) /\ level' \in 0 .. MaxTokens
        /\ level' <= Len(input) + 1 /\ level >= 1
    <3>1. Opens(operations, p + 1) = Opens(operations, (p + 1) - 1) + (IF IsOpen(operations[p + 1]) THEN 1 ELSE 0)
      BY <2>4, Kinds
    <3>2. Opens(operations', p) = Opens(operations, p)
      <4>1. p \in 0 .. p
        OBVIOUS
      <4> QED BY <2>6, <4>1, KindsOfPart
    <3>3. level = Opens(operations, p) + 1
      BY <1>4, <1>8, <2>2, <2>4, <3>1
    <3>4. Opens(operations, p) \in Nat
      BY <1>9, <2>4
    <3>5. MaxTokens \in Nat
      BY ExprParserAssumption
    <3> QED BY <1>2, <1>8, <2>1, <2>6, <3>2, <3>3, <3>4, <3>5
  <2>10. ~WantsOperand' /\ ~WantsOperand
    BY <1>7, <1>11, <2>1 DEF WantsOperand
  <2>11. ASSUME Ordinary(r)
         PROVE  \/ Viable(r) /\ Frame(r, Len(input) + 1, operations', primaries', ~WantsOperand', 0)
                \/ ~Viable(r) /\ Doomed'
    <3>1. CASE /\ Viable(input) /\ Depth(r, L + 1) = level - 1 /\ r \in Seq(Tokens) /\ Len(r) = L + 1
               /\ \E b \in 0 .. 12 : FullFrame(r, L, after.operations, after.primaries, b)
      <4>1. PICK b \in 0 .. 12 : Frame(r, L, after.operations, after.primaries, TRUE, b)
        BY <3>1 DEF FullFrame
      <4>2. r[L + 1] = ")" /\ L + 1 <= Len(r) /\ IsOpen(Last(after.operations))
        BY <1>1, <1>2, <2>2, <2>4, <2>5, <3>1 DEF Reading, r
      <4>3. Frame(r, L + 1, Front(after.operations), after.primaries, TRUE, 0)
        BY <1>11, <2>11, <3>1, <4>1, <4>2, Closed
      <4>4. Viable(r)
        <5>1. Depth(r, Len(input) + 1) >= 0
          BY <1>2, <1>8, <2>9, <3>1
        <5>2. token # "end"
          BY <1>1
        <5> QED BY <1>1, <2>10, <3>1, <5>1, <5>2 DEF Reading, r
      <4> QED BY <1>2, <2>1, <2>10, <4>3, <4>4
    <3>2. CASE ~Viable(r) /\ Doomed
      <4>1. operations[1] \in Entries /\ ~IsOpen(operations[1])
        <5>1. operations[1].type \in Operations
          BY <3>2 DEF Doomed
        <5>2. m # 0
          BY <1>3, <1>6, <3>2, EmptySeq DEF Doomed
        <5>3. 1 \in 1 .. m
          BY <5>2
        <5> QED BY <1>6, <5>1, <5>3, Operators DEF IsOpen
      <4>2. p # 0
        <5>1. p + 1 # 1
          BY <2>2, <2>4, <4>1
        <5> QED BY <5>1
      <4>3. operations'[1] = operations[1] /\ operations' # <<>>
        <5>1. 1 \in 1 .. p /\ Len(operations') # 0
          BY <2>6, <4>2
        <5>2. operations' # <<>>
          BY <5>1, EmptySeq
        <5> QED BY <2>6, <5>1, <5>2
      <4> QED BY <2>1, <3>2, <4>3, DoomedStays
    <3> QED BY <1>10, <2>10, <2>11, <3>1, <3>2
  <2>12. (WantsOperand' <=> token \notin {"primary", ")"}) /\ Sequence(primaries')
         /\ Reads(token) /\ state' \in {"unary", "binary", "open", "close", "identifier"}
    BY <1>1, <1>6, <1>11, <2>1, <2>10
  <2>13. Ordinary(Append(input, token)) =>
           \/ /\ Viable(Append(input, token))
              /\ Frame(Append(input, token), Len(input) + 1, operations', primaries', ~WantsOperand', 0)
           \/ ~Viable(Append(input, token)) /\ Doomed'
    BY <2>11 DEF r
  <2> QED BY <2>7, <2>8, <2>9, <2>12, <2>13, ReadsOn
<1>12. CASE ~(state \in {"identifier", "close"} /\ after.ok /\ after.operations # <<>>)
  <2>1. Fail(token)
    BY <1>5, <1>12
  <2>2. ASSUME Ordinary(r)
        PROVE  ~Viable(r)
    <3>1. CASE WantsOperand
      BY <1>1, <3>1 DEF Reading, r
    <3>2. CASE /\ ~WantsOperand /\ after.ok /\ Depth(r, L + 1) = level - 1 /\ Viable(input)
      <4>1. after.operations = <<>>
        BY <1>7, <1>12, <3>2
      <4>2. n = m
        BY <1>6, <3>2, <4>1
      <4>3. Opens(operations, 0) = 0
        BY Kinds
      <4>4. level = 0
        BY <1>4, <1>8, <4>2, <4>3
      <4>5. ~(Depth(r, L + 1) >= 0)
        BY <3>2, <4>4
      <4>6. ~(Depth(r, Len(input) + 1) >= 0)
        BY <1>2, <4>5
      <4> QED BY <1>1, <3>2, <4>6 DEF Reading, r
    <3> QED BY <1>10, <2>2, <3>1, <3>2
  <2>3. Ordinary(r) => (Sentence(input) => token \in Operations)
    BY NoSentence DEF r
  <2>4. Ordinary(Append(input, token)) =>
          /\ ~Viable(Append(input, token))
          /\ Sentence(input) => token \in Operations
    BY <2>2, <2>3 DEF r
  <2> QED BY <2>1, <2>4, Fails
<1> QED BY <1>11, <1>12

(* What Operation puts on the stack, and how many entries it takes.        *)
NewEntry(token) == [type |-> token, unary |-> WantsOperand, pos |-> Len(input) + 1]
Weaker(token) == RunAtBack({i \in DOMAIN operations : ~GivesWay(operations[i], NewEntry(token))})

LEMMA NewEntryIs ==
  ASSUME WellTyped, NEW token \in Operations
  PROVE  LET e == NewEntry(token)
         IN  /\ e \in Entries /\ e.type = token /\ e.pos = Len(input) + 1 /\ (e.unary <=> WantsOperand)
             /\ e.unary \in BOOLEAN /\ ~IsOpen(e) /\ Priority(e) \in 0 .. 12
             /\ WantsOperand => ~IsBinary(e) /\ Priority(e) = IF token \in UnaryOperators THEN 2 ELSE 0
             /\ ~WantsOperand => IsBinary(e) /\ (token \in BinaryOperators => Priority(e) \in 3 .. 12)
<1> DEFINE e == NewEntry(token)
<1>1. Len(input) \in Nat
  BY LenProperties DEF WellTyped
<1>2. WantsOperand \in BOOLEAN
  BY DEF WantsOperand
<1>3. e.type = token /\ e.pos = Len(input) + 1 /\ e.unary = WantsOperand
  BY DEF NewEntry
<1>4. e \in Entries
  BY <1>1, <1>2 DEF NewEntry, Entries
<1> HIDE DEF e
<1>5. ~IsOpen(e)
  BY <1>3, Operators DEF IsOpen
<1>6. Priority(e) \in 0 .. 12
  <2>1. Priority(e) \in 0 .. 13
    BY <1>4, EntryPriority
  <2>2. Priority(e) <= 12
    BY <1>4, <1>5, EntryPriority
  <2> QED BY <2>1, <2>2
<1>7. ASSUME WantsOperand
      PROVE  ~IsBinary(e) /\ Priority(e) = IF token \in UnaryOperators THEN 2 ELSE 0
  BY <1>3, <1>7 DEF IsBinary, Priority
<1>8. ASSUME ~WantsOperand
      PROVE  IsBinary(e) /\ (token \in BinaryOperators => Priority(e) \in 3 .. 12)
  <2>1. ~e.unary /\ IsBinary(e)
    BY <1>3, <1>5, <1>8 DEF IsBinary
  <2>2. token \in BinaryOperators => Priority(e) \in 3 .. 12
    BY <1>3, <2>1, Priorities DEF Priority
  <2> QED BY <2>1, <2>2
<1> QED BY <1>2, <1>3, <1>4, <1>5, <1>6, <1>7, <1>8 DEF e

(* The run up to the last operation that does not give way.                *)
LEMMA RunToStronger ==
  ASSUME WellTyped, NEW token \in Operations
  PROVE  LET m == Len(operations)
             n == Weaker(token)
             e == NewEntry(token)
         IN  /\ m \in Nat /\ n \in 0 .. m
             /\ \A i \in m - n + 1 .. m : ~IsOpen(operations[i]) /\ Priority(operations[i]) \in 1 .. Priority(e)
             /\ n # m => Priority(operations[m - n]) \in Nat
                         /\ (Priority(operations[m - n]) = 0 \/ Priority(operations[m - n]) > Priority(e))
             /\ Opens(operations, m) = Opens(operations, m - n)
<1> DEFINE e == NewEntry(token)
           stops == {i \in DOMAIN operations : ~GivesWay(operations[i], e)}
           n == RunAtBack(stops)
<1>1. operations \in Seq(Entries)
  BY DEF WellTyped
<1>2. DOMAIN operations = 1 .. Len(operations) /\ Len(operations) \in Nat
  BY <1>1, LenProperties
<1>3. \A i \in 1 .. Len(operations) : operations[i] \in Entries
  BY <1>1, ElementOfSeq
<1>4. PICK m \in Nat : m = Len(operations)
  BY <1>2
<1>5. Priority(e) \in 0 .. 12
  BY NewEntryIs
<1> HIDE DEF e
<1>6. /\ stops \subseteq 1 .. Len(operations)
      /\ \A i \in 1 .. m : i \notin stops <=> Priority(operations[i]) \in 1 .. Priority(e)
  BY <1>2, <1>4 DEF GivesWay
<1> HIDE DEF stops
<1>7. /\ n \in 0 .. m
      /\ \A i \in m - n + 1 .. m : i \notin stops
      /\ n # m => m - n \in stops
  BY <1>2, <1>4, <1>6, AtBack
<1> HIDE DEF n
<1>8. ASSUME NEW i \in m - n + 1 .. m
      PROVE  ~IsOpen(operations[i]) /\ Priority(operations[i]) \in 1 .. Priority(e)
  <2>1. i \in 1 .. m
    BY <1>7
  <2>2. Priority(operations[i]) \in 1 .. Priority(e) /\ operations[i] \in Entries
    BY <1>3, <1>4, <1>6, <1>7, <2>1
  <2>3. IsOpen(operations[i]) => Priority(operations[i]) \in {0, 13}
    BY <2>2, EntryPriority
  <2> QED BY <1>5, <2>2, <2>3
<1>9. n # m => Priority(operations[m - n]) \in Nat
               /\ (Priority(operations[m - n]) = 0 \/ Priority(operations[m - n]) > Priority(e))
  <2> SUFFICES ASSUME n # m PROVE Priority(operations[m - n]) \in Nat
               /\ (Priority(operations[m - n]) = 0 \/ Priority(operations[m - n]) > Priority(e))
    OBVIOUS
  <2>1. m - n \in 1 .. m
    BY <1>7
  <2>2. operations[m - n] \in Entries /\ Priority(operations[m - n]) \notin 1 .. Priority(e)
    BY <1>3, <1>4, <1>6, <1>7, <2>1
  <2>3. Priority(operations[m - n]) \in 0 .. 13
    BY <2>2, EntryPriority
  <2> QED BY <1>5, <2>2, <2>3
<1>10. Opens(operations, m) = Opens(operations, m - n)
  <2>1. m - n \in 0 .. m
    BY <1>7
  <2>2. \A j \in (m - n) + 1 .. m : ~IsOpen(operations[j])
    BY <1>8
  <2> QED BY <2>1, <2>2, OpensBelow
<1>11. n = Weaker(token)
  BY DEF n, stops, e, Weaker
<1> QED BY <1>4, <1>7, <1>8, <1>9, <1>10, <1>11 DEF e

(* Where the loop takes nothing.                                           *)
LEMMA TakesNothing ==
  /\ Process(0).ok
  /\ Process(0).operations = operations
  /\ Process(0).primaries = primaries
<1>1. 0 \in Nat
  OBVIOUS
<1>2. PICK run : Runs(run, 0)
  BY <1>1, ProcessRuns
<1> QED BY <1>2 DEF Runs

(* Where an operand is due nothing gives way: only a unary operator could, *)
(* to another one right behind it.                                         *)
LEMMA UnaryTakesNothing ==
  ASSUME WellTyped, Parsing, NEW token \in Operations, Ordinary(Append(input, token)), WantsOperand,
         Frame(Append(input, token), Len(input), operations, primaries, FALSE, 0)
  PROVE  Weaker(token) = 0
<1> DEFINE r == Append(input, token)
           e == NewEntry(token)
           n == Weaker(token)
<1>1. token \in Tokens
  BY DEF Tokens
<1>2. Reading(token)
  BY <1>1, TokenNext
<1>3. PICK L \in Nat : L = Len(input)
  BY <1>2 DEF Reading
<1>4. PICK m \in Nat : m = Len(operations)
  BY LenProperties DEF WellTyped
<1>5. /\ n \in 0 .. m
      /\ \A i \in m - n + 1 .. m : ~IsOpen(operations[i]) /\ Priority(operations[i]) \in 1 .. Priority(e)
  BY <1>4, RunToStronger
<1>6. Priority(e) \in {0, 2}
  BY NewEntryIs
<1>7. /\ Len(r) = L + 1 /\ r[L + 1] = token /\ Unary(r, L + 1)
  BY <1>2, <1>3 DEF Reading
<1>8. Frame(r, L, operations, primaries, FALSE, 0) /\ Ordinary(r)
  BY <1>3
<1> HIDE DEF r, e, n
<1> SUFFICES ASSUME n # 0 PROVE FALSE
  BY DEF n
<1>9. m \in m - n + 1 .. m /\ m \in 1 .. m /\ m # 0
  BY <1>5
<1>10. operations[m] \in Entries /\ operations[m].pos \in 1 .. L
  BY <1>4, <1>8, <1>9, FramePlaces
<1>11. ~IsOpen(operations[m]) /\ Priority(operations[m]) \in 1 .. 2
  BY <1>5, <1>6, <1>9
<1>12. operations[m].unary
  <2>1. ~IsBinary(operations[m])
    <3>1. IsBinary(operations[m]) /\ Priority(operations[m]) # 0 => Priority(operations[m]) \in 3 .. 12
      BY <1>10, EntryPriority
    <3> QED BY <1>11, <3>1
  <2> QED BY <1>11, <2>1 DEF IsBinary
<1>13. operations[m].pos = L
  <2>1. From(operations, m) = To(operations, L, m) + 1
    <3>1. Gap(r, L, operations, primaries, FALSE, 0, m)
      <4>1. \A k \in 0 .. Len(operations) : Gap(r, L, operations, primaries, FALSE, 0, k)
        BY <1>8 DEF Frame
      <4>2. m \in 0 .. Len(operations)
        BY <1>4
      <4> QED BY <4>1, <4>2
    <3>2. ~Filled(operations, FALSE, m)
      BY <1>4 DEF Filled
    <3> QED BY <3>1, <3>2 DEF Gap
  <2>2. To(operations, L, m) = L /\ From(operations, m) = operations[m].pos + 1
    BY <1>4, <1>9 DEF From, To
  <2> QED BY <1>10, <2>1, <2>2
<1>14. Unary(r, L) /\ r[L] \in Operations
  <2>1. Entry(r, L, operations, m)
    BY <1>4, <1>8, <1>9 DEF Frame
  <2>2. r[L] = operations[m].type /\ Unary(r, L)
    BY <1>12, <1>13, <2>1 DEF Entry
  <2> QED BY <1>10, <1>11, <2>2, EntryPriority
<1>15. L + 1 \in 1 .. Len(r) /\ (L + 1) - 1 = L /\ L + 1 > 1
  BY <1>7, <1>10
<1>16. r[L + 1] \in Operations
  BY <1>7
<1>17. r[(L + 1) - 1] \in Operations => ~Unary(r, (L + 1) - 1)
  BY <1>7, <1>8, <1>15, <1>16 DEF Ordinary
<1> QED BY <1>14, <1>15, <1>17

(* An operator that is read in a frame.                                    *)
LEMMA OrdinaryOperator ==
  ASSUME WellTyped, Parsing, NEW token \in Operations, Ordinary(Append(input, token)), Viable(input),
         Frame(Append(input, token), Len(input), operations, primaries, ~WantsOperand, 0)
  PROVE  LET after == Process(Weaker(token))
             e == NewEntry(token)
         IN  /\ after.ok
             /\ after.operations # <<>> => Priority(e) < Priority(after.operations[Len(after.operations)])
             /\ Viable(Append(input, token)) <=> Priority(e) # 0
             /\ ~WantsOperand => Priority(e) # 0
             /\ \E b \in Nat : /\ ~WantsOperand => b <= Priority(e)
                               /\ Frame(Append(input, token), Len(input),
                                        after.operations, after.primaries, ~WantsOperand, b)
<1> DEFINE r == Append(input, token)
           e == NewEntry(token)
           n == Weaker(token)
           after == Process(n)
<1>1. token \in Tokens
  BY DEF Tokens
<1>2. Reading(token)
  BY <1>1, TokenNext
<1>3. PICK L \in Nat : L = Len(input)
  BY <1>2 DEF Reading
<1>4. PICK m \in Nat : m = Len(operations)
  BY LenProperties DEF WellTyped
<1>5. /\ n \in 0 .. m
      /\ \A i \in m - n + 1 .. m : ~IsOpen(operations[i]) /\ Priority(operations[i]) \in 1 .. Priority(e)
      /\ n # m => Priority(operations[m - n]) \in Nat
                  /\ (Priority(operations[m - n]) = 0 \/ Priority(operations[m - n]) > Priority(e))
  BY <1>4, RunToStronger
<1>6. /\ e \in Entries /\ e.type = token /\ e.pos = L + 1 /\ (e.unary <=> WantsOperand) /\ ~IsOpen(e)
      /\ Priority(e) \in 0 .. 12
      /\ WantsOperand => ~IsBinary(e) /\ Priority(e) = IF token \in UnaryOperators THEN 2 ELSE 0
      /\ ~WantsOperand => IsBinary(e) /\ (token \in BinaryOperators => Priority(e) \in 3 .. 12)
  BY <1>3, NewEntryIs
<1>7. /\ r \in Seq(Tokens) /\ Len(r) = L + 1 /\ r[L + 1] = token /\ L <= Len(r)
      /\ Unary(r, L + 1) <=> WantsOperand
  BY <1>2, <1>3 DEF Reading
<1>8. Frame(r, L, operations, primaries, ~WantsOperand, 0) /\ Ordinary(r)
  BY <1>3
<1>9. token \in BinaryOperators \/ WantsOperand
  <2>1. L + 1 \in 1 .. Len(r)
    BY <1>7
  <2> HIDE DEF r
  <2> QED BY <1>7, <1>8, <2>1 DEF Ordinary
<1>10. ~WantsOperand => Priority(e) \in 3 .. 12
  BY <1>6, <1>9
<1>11. Viable(r) <=> Priority(e) # 0
  <2>1. Depth(r, L) = Opens(operations, m) /\ Opens(operations, m) \in Nat
    <3>1. Depth(r, L) = Opens(operations, m)
      BY <1>4, <1>8, FrameDepth
    <3>2. Opens(operations, m) \in 0 .. m
      BY Kinds
    <3> QED BY <3>1, <3>2
  <2>2. Depth(r, Len(input) + 1) >= 0 /\ token # "end"
    BY <1>2, <1>3, <2>1, Operators DEF Reading
  <2>3. Viable(r) <=> token \in IF WantsOperand THEN UnaryOperators ELSE BinaryOperators
    BY <1>2, <2>2 DEF Reading
  <2> HIDE DEF e, r
  <2> QED BY <1>6, <1>9, <1>10, <2>3
<1> HIDE DEF r, e, n
<1>12. \A i \in 1 .. m : Priority(operations[i]) # 0
  BY <1>4, <1>8 DEF Frame, Entry
<1>13. /\ after.ok
       /\ \E b \in Nat : /\ ~WantsOperand => b <= Priority(e)
                         /\ Frame(r, L, after.operations, after.primaries, ~WantsOperand, b)
  <2>1. CASE WantsOperand
    <3>1. Frame(Append(input, token), Len(input), operations, primaries, FALSE, 0)
      BY <1>3, <1>8, <2>1 DEF r
    <3>2. n = 0
      BY <2>1, <3>1, <1>8, UnaryTakesNothing DEF n, r
    <3>3. after.ok /\ after.operations = operations /\ after.primaries = primaries
      BY <3>2, TakesNothing
    <3> HIDE DEF after
    <3>4. 0 \in Nat
      OBVIOUS
    <3> QED BY <1>8, <2>1, <3>3, <3>4
  <2>2. CASE ~WantsOperand
    <3>1. FullFrame(r, L, operations, primaries, 0)
      BY <1>8, <2>2 DEF FullFrame
    <3>2. PICK bound \in Nat : bound = Priority(e)
      BY <1>6
    <3>3. /\ n \in 0 .. Len(operations) /\ Sequence(primaries)
          /\ \A i \in Len(operations) - n + 1 .. Len(operations) :
               ~IsOpen(operations[i]) /\ Priority(operations[i]) <= bound
      BY <1>4, <1>5, <3>2 DEF WellTyped
    <3>4. /\ after.ok
          /\ \E b \in 0 .. bound : FullFrame(r, L, after.operations, after.primaries, b)
      BY <1>7, <1>8, <3>1, <3>3, ProcessedFrame
    <3>5. PICK b \in 0 .. bound : FullFrame(r, L, after.operations, after.primaries, b)
      BY <3>4
    <3> HIDE DEF after
    <3>6. b \in Nat /\ b <= Priority(e)
      BY <3>2
    <3>7. Frame(r, L, after.operations, after.primaries, ~WantsOperand, b)
      BY <2>2, <3>5 DEF FullFrame
    <3> QED BY <3>4, <3>6, <3>7
  <2> QED BY <2>1, <2>2
<1>14. ASSUME after.operations # <<>>
       PROVE  Priority(e) < Priority(after.operations[Len(after.operations)])
  <2>1. n \in 0 .. Len(operations)
    BY <1>4, <1>5
  <2>2. /\ Len(after.operations) = m - n /\ n # m
        /\ \A k \in 1 .. m - n : after.operations[k] = operations[k]
    BY <1>4, <1>13, <1>14, <2>1, RunLeaves
  <2> HIDE DEF after
  <2>3. m - n \in 1 .. m - n /\ m - n \in 1 .. m
    BY <1>5, <2>2
  <2>4. after.operations[Len(after.operations)] = operations[m - n] /\ Priority(operations[m - n]) # 0
    BY <1>12, <2>2, <2>3
  <2> QED BY <1>5, <2>2, <2>4
<1>15. ~WantsOperand => Priority(e) # 0
  BY <1>10
<1> QED BY <1>3, <1>11, <1>13, <1>14, <1>15 DEF r, e, n

LEMMA ReadsOperation ==
  ASSUME WellTyped, Parsing, outcome = "parsing", Len(input) <= MaxTokens, NEW token \in Tokens,
         Len(input) = MaxTokens => token = "end", GoesOn(token), Operation(token)
  PROVE  ParserInv'
<1> DEFINE r == Append(input, token)
           e == NewEntry(token)
           n == Weaker(token)
           after == Process(n)
           orders == operations = <<>> \/
                     /\ Priority(e) # 0
                     /\ after.ok
                     /\ after.operations # <<>> => Priority(Last(after.operations)) # 0
<1>1. token \in Operations /\ Reading(token) /\ token \notin {"primary", ")", "(", "end"}
  BY TokenNext, Operators DEF Operation
<1>2. PICK L \in Nat : L = Len(input)
  BY <1>1 DEF Reading
<1>3. PICK m \in Nat : m = Len(operations)
  BY LenProperties DEF WellTyped
<1>4. IF orders
      THEN /\ primaries' = after.primaries
           /\ operations' = Append(after.operations, e)
           /\ state' = IF WantsOperand THEN "unary" ELSE "binary"
           /\ Reads(token)
           /\ level' = level
      ELSE Fail(token)
  BY DEF Operation, NewEntry, Weaker
<1>5. /\ n \in 0 .. m
      /\ \A i \in m - n + 1 .. m : Priority(operations[i]) \in 1 .. Priority(e)
      /\ Opens(operations, m) = Opens(operations, m - n)
  BY <1>1, <1>3, RunToStronger
<1>6. /\ e \in Entries /\ e.type = token /\ e.pos = L + 1 /\ (e.unary <=> WantsOperand) /\ ~IsOpen(e)
      /\ e.unary \in BOOLEAN /\ Priority(e) \in 0 .. 12
      /\ WantsOperand => ~IsBinary(e) /\ Priority(e) = IF token \in UnaryOperators THEN 2 ELSE 0
      /\ ~WantsOperand => IsBinary(e)
  BY <1>1, <1>2, NewEntryIs
<1>7. /\ operations \in Seq(Entries) /\ Sequence(operations)
      /\ \A k \in 1 .. m : operations[k] \in Entries /\ operations[k].pos <= L
      /\ after.ok => /\ after.operations \in Seq(Entries)
                     /\ Len(after.operations) = m - n
                     /\ \A k \in 1 .. m - n : after.operations[k] = operations[k]
                     /\ after.operations = <<>> <=> n = m
                     /\ Sequence(after.primaries)
  BY <1>2, <1>3, <1>5, RunLeaves
<1>8. level = Opens(operations, m) /\ level <= L /\ level \in 0 .. MaxTokens
  BY <1>2, <1>3 DEF Parsing, WellTyped
<1>9. operations = <<>> => after.ok /\ after.operations = operations
  <2> SUFFICES ASSUME operations = <<>> PROVE after.ok /\ after.operations = operations
    OBVIOUS
  <2>1. m = 0
    BY <1>3, EmptySeq, <1>7
  <2>2. n = 0
    <3> HIDE DEF n
    <3> QED BY <1>5, <2>1
  <2> QED BY <2>2, TakesNothing
<1>10. ASSUME Ordinary(r)
       PROVE  \/ /\ after.ok
                 /\ after.operations # <<>> => Priority(e) < Priority(after.operations[Len(after.operations)])
                 /\ Viable(r) <=> Priority(e) # 0
                 /\ ~WantsOperand => Priority(e) # 0
                 /\ \E b \in Nat : /\ ~WantsOperand => b <= Priority(e)
                                   /\ Frame(r, L, after.operations, after.primaries, ~WantsOperand, b)
              \/ ~Viable(r) /\ Doomed
  <2>1. CASE Viable(input) /\ Frame(r, Len(input), operations, primaries, ~WantsOperand, 0)
    BY <1>1, <1>2, <1>10, <2>1, OrdinaryOperator
  <2>2. CASE ~Viable(input) /\ Doomed
    BY <1>1, <2>2 DEF Reading
  <2> QED BY <1>1, <1>10, <2>1, <2>2 DEF Reading
<1> HIDE DEF r, e, n, after
<1>11. CASE orders
  <2>1. /\ primaries' = after.primaries
        /\ operations' = Append(after.operations, e)
        /\ state' = IF WantsOperand THEN "unary" ELSE "binary"
        /\ Reads(token)
        /\ level' = level
    BY <1>4, <1>11
  <2>2. after.ok
    BY <1>9, <1>11
  <2>3. PICK p \in Nat : p = m - n
    BY <1>5
  <2>4. Len(after.operations) = p /\ after.operations \in Seq(Entries)
        /\ \A k \in 1 .. p : after.operations[k] = operations[k]
    BY <1>7, <2>2, <2>3
  <2>5. /\ operations' \in Seq(Entries) /\ Len(operations') = p + 1 /\ operations' # <<>>
        /\ operations'[p + 1] = e
        /\ \A k \in 1 .. p : operations'[k] = operations[k]
        /\ Opens(operations', Len(operations')) = Opens(after.operations, p)
    <3> DEFINE ops2 == Append(after.operations, e)
    <3>1. /\ ops2 \in Seq(Entries) /\ Len(ops2) = Len(after.operations) + 1
          /\ ops2 # <<>> /\ ops2[Len(after.operations) + 1] = e
          /\ \A k \in 1 .. Len(after.operations) : ops2[k] = after.operations[k]
          /\ Opens(ops2, Len(ops2)) = Opens(after.operations, Len(after.operations)) + (IF IsOpen(e) THEN 1 ELSE 0)
      BY <1>6, <2>4, OnTop
    <3>2. operations' = ops2
      BY <2>1
    <3> HIDE DEF ops2
    <3>3. Opens(after.operations, p) \in Nat
      <4>1. Opens(after.operations, p) \in 0 .. p
        BY Kinds
      <4> QED BY <4>1
    <3> QED BY <1>6, <2>4, <3>1, <3>2, <3>3
  <2>6. p \in 0 .. m
    BY <1>5, <2>3
  <2>7. \A k \in 1 .. Len(operations') : operations'[k].pos <= Len(input) + 1
    <3>1. \A k \in 1 .. p : operations[k].pos \in Nat /\ operations[k].pos <= L
      BY <1>7, <2>6 DEF Entries
    <3>2. TAKE k \in 1 .. Len(operations')
    <3>3. k = p + 1 \/ k \in 1 .. p
      BY <2>5
    <3> QED BY <1>2, <1>6, <2>5, <3>1, <3>3
  <2>8. level' = Opens(operations', Len(operations')) /\ level' \in 0 .. MaxTokens
        /\ level' <= Len(input) + 1
    <3>1. Opens(after.operations, p) = Opens(operations, p)
      <4>1. p \in 0 .. p
        OBVIOUS
      <4> QED BY <2>4, <4>1, KindsOfPart
    <3>2. Opens(operations, p) = Opens(operations, m)
      BY <1>5, <2>3
    <3>3. level \in Nat
      BY <1>8
    <3> QED BY <1>2, <1>8, <2>1, <2>5, <3>1, <3>2, <3>3
  <2>9. WantsOperand' /\ state' \in {"unary", "binary", "open", "close", "identifier"}
    BY <2>1 DEF WantsOperand
  <2>10. ASSUME Ordinary(r)
         PROVE  \/ Viable(r) /\ Frame(r, Len(input) + 1, operations', primaries', ~WantsOperand', 0)
                \/ ~Viable(r) /\ Doomed'
    <3>1. ASSUME after.operations # <<>> => Priority(e) < Priority(after.operations[Len(after.operations)]),
                 Priority(e) # 0, Viable(r),
                 \E b \in Nat : /\ ~WantsOperand => b <= Priority(e)
                                /\ Frame(r, L, after.operations, after.primaries, ~WantsOperand, b)
          PROVE  Viable(r) /\ Frame(r, Len(input) + 1, operations', primaries', ~WantsOperand', 0)
      <4>1. PICK full \in BOOLEAN : full = ~WantsOperand
        BY DEF WantsOperand
      <4>2. PICK b \in Nat : (full => b <= Priority(e)) /\ Frame(r, L, after.operations, after.primaries, full, b)
        BY <3>1, <4>1
      <4>3. /\ r \in Seq(Tokens) /\ L <= Len(r) /\ r[L + 1] = e.type
            /\ Unary(r, L + 1) <=> WantsOperand
            /\ Depth(r, L + 1) = Depth(r, L)
        BY <1>1, <1>2, <1>6 DEF Reading, r
      <4>4. e.unary = Unary(r, L + 1)
        <5>1. Unary(r, L + 1) \in BOOLEAN
          BY DEF Unary
        <5> QED BY <1>6, <4>3, <5>1
      <4>5. IsBinary(e) = full
        <5>1. IsBinary(e) \in BOOLEAN
          BY DEF IsBinary
        <5> QED BY <1>6, <4>1, <5>1
      <4>6. Depth(r, L + 1) = Depth(r, L) + (IF IsOpen(e) THEN 1 ELSE 0)
        <5>1. Depth(r, L) \in Int
          BY Depths
        <5> QED BY <1>6, <4>3, <5>1
      <4>7. after.operations # <<>> /\ ~IsOpen(e) => Priority(e) < Priority(after.operations[Len(after.operations)])
        BY <3>1
      <4>8. e \in Entries /\ e.pos = L + 1
        BY <1>6
      <4>9. Frame(r, L + 1, Append(after.operations, e), after.primaries, FALSE, 0)
        BY <2>10, <3>1, <4>2, <4>3, <4>4, <4>5, <4>6, <4>7, <4>8, Pushed
      <4> QED BY <1>2, <2>1, <2>9, <3>1, <4>9
    <3>2. ASSUME WantsOperand, Priority(e) = 0
          PROVE  Doomed'
      <4>1. operations = <<>> /\ token \notin UnaryOperators
        BY <1>6, <1>11, <3>2
      <4>2. p = 0
        <5>1. m = 0
          BY <1>3, <1>7, <4>1, EmptySeq
        <5> QED BY <2>6, <5>1
      <4>3. operations'[1] = e
        BY <2>5, <4>2
      <4>4. L = 0
        <5>1. Ordinary(input)
          BY <2>10, LongerInputs DEF WellTyped, r
        <5>2. Frame(input, L, operations, primaries, ~WantsOperand, 0)
          BY <1>2, <4>1, <5>1 DEF Parsing, Doomed
        <5>3. Len(operations) = 0
          BY <4>1
        <5>4. Gap(input, L, operations, primaries, ~WantsOperand, 0, 0)
          BY <5>2, <5>3 DEF Frame
        <5>5. From(operations, 0) = 1 /\ To(operations, L, 0) = L /\ ~Filled(operations, ~WantsOperand, 0)
          BY <3>2, <5>3 DEF From, To, Filled
        <5>6. From(operations, 0) = To(operations, L, 0) + 1
          BY <5>4, <5>5 DEF Gap
        <5> QED BY <5>5, <5>6
      <4>5. BeginsBinary(input')
        <5>1. input' = r /\ r[1] = token /\ Len(r) = 1
          BY <1>1, <1>2, <2>1, <4>4 DEF Reading, Reads, r
        <5>2. input' # <<>>
          BY <5>1, EmptySeq
        <5> QED BY <1>1, <4>1, <5>1, <5>2 DEF BeginsBinary
      <4> QED BY <1>1, <1>6, <2>5, <3>2, <4>1, <4>3, <4>5 DEF Doomed
    <3>3. ASSUME Doomed
          PROVE  Doomed'
      <4>1. Priority(operations[1]) = 0
        BY <3>3 DEF Doomed, Priority
      <4>2. m # 0
        BY <1>3, <1>7, <3>3, EmptySeq DEF Doomed
      <4>3. p # 0
        <5>1. 1 \notin m - n + 1 .. m
          BY <1>5, <1>6, <4>1
        <5> QED BY <1>5, <2>3, <4>2, <5>1
      <4>4. operations'[1] = operations[1]
        BY <2>5, <4>3
      <4> QED BY <2>1, <2>5, <3>3, <4>4, DoomedStays
    <3> QED BY <1>10, <2>10, <3>1, <3>2, <3>3
  <2>11. (WantsOperand' <=> token \notin {"primary", ")"}) /\ Sequence(primaries')
    BY <1>1, <1>7, <2>1, <2>2, <2>9
  <2>12. Ordinary(Append(input, token)) =>
           \/ /\ Viable(Append(input, token))
              /\ Frame(Append(input, token), Len(input) + 1, operations', primaries', ~WantsOperand', 0)
           \/ ~Viable(Append(input, token)) /\ Doomed'
    BY <2>10 DEF r
  <2>13. Reads(token) /\ operations' \in Seq(Entries)
    BY <2>1, <2>5
  <2> QED BY <2>7, <2>8, <2>9, <2>11, <2>12, <2>13, ReadsOn
<1>12. CASE ~orders
  <2>1. Fail(token)
    BY <1>4, <1>12
  <2>2. ASSUME Ordinary(r), Viable(r)
        PROVE  FALSE
    <3>1. /\ after.ok /\ Priority(e) # 0
          /\ after.operations # <<>> => Priority(e) < Priority(after.operations[Len(after.operations)])
      BY <1>10, <2>2
    <3>2. after.operations # <<>> => Priority(Last(after.operations)) # 0
      <4>1. Last(after.operations) = after.operations[Len(after.operations)]
        BY DEF Last
      <4>2. Priority(e) < 0 => FALSE
        BY <1>6
      <4> QED BY <3>1, <4>1, <4>2
    <3> QED BY <1>12, <3>1, <3>2
  <2>3. Ordinary(Append(input, token)) =>
          /\ ~Viable(Append(input, token))
          /\ Sentence(input) => token \in Operations
    BY <1>1, <2>2 DEF r
  <2> QED BY <2>1, <2>3, Fails
<1> QED BY <1>11, <1>12

LEMMA NoOpens ==
  ASSUME NEW ops, NEW m \in Nat, Opens(ops, m) = 0
  PROVE  \A i \in 1 .. m : ~IsOpen(ops[i])
<1> DEFINE S == {j \in 1 .. m : IsOpen(ops[j])}
<1>1. IsFiniteSet(S)
  <2>1. IsFiniteSet(1 .. m)
    BY FS_Interval
  <2>2. S \subseteq 1 .. m
    OBVIOUS
  <2> HIDE DEF S
  <2> QED BY <2>1, <2>2, FS_Subset
<1>2. Cardinality(S) = 0
  BY DEF Opens
<1>3. S = {}
  <2> HIDE DEF S
  <2> QED BY <1>1, <1>2, FS_EmptySet
<1> QED BY <1>3

(* At the end of an ordinary input either one tree is left, the one of the *)
(* table, or an operator that is never unary is reported.                  *)
LEMMA LastOnes ==
  ASSUME WellTyped, Parsing, ~WantsOperand, level = 0, Ordinary(input)
  PROVE  LET after == Process(Len(operations))
         IN  \/ /\ after.ok /\ Len(after.primaries) = 1
                /\ Sentence(input) /\ after.primaries[1] = TableTree(input)
             \/ ~after.ok /\ ~Viable(input)
<1> DEFINE m == Len(operations)
           after == Process(m)
<1>1. operations \in Seq(Entries) /\ m \in Nat /\ input \in Seq(Tokens) /\ Sequence(primaries)
  BY LenProperties DEF WellTyped
<1>2. PICK L \in Nat : L = Len(input)
  BY <1>1, LenProperties
<1>3. m \in 0 .. m /\ m - m = 0 /\ m - m + 1 = 1
  BY <1>1
<1>4. /\ \A k \in 1 .. m : operations[k] \in Entries
      /\ after.ok => /\ Len(after.operations) = 0 /\ after.operations \in Seq(Entries)
                     /\ \A i \in 1 .. m : operations[i].unary => operations[i].type \in UnaryOperators
  BY <1>3, RunLeaves
<1>5. \A i \in 1 .. m : ~IsOpen(operations[i])
  <2>1. Opens(operations, m) = 0
    BY DEF Parsing
  <2> QED BY <1>1, <2>1, NoOpens
<1>6. CASE /\ Viable(input)
           /\ Frame(input, Len(input), operations, primaries, ~WantsOperand, 0)
  <2>1. FullFrame(input, L, operations, primaries, 0) /\ L <= Len(input)
    <3>1. FullFrame(input, Len(input), operations, primaries, 0)
      BY <1>6 DEF FullFrame
    <3> QED BY <1>2, <3>1
  <2>2. \A i \in m - m + 1 .. m : ~IsOpen(operations[i]) /\ Priority(operations[i]) <= 12
    <3>1. \A i \in 1 .. m : ~IsOpen(operations[i]) /\ Priority(operations[i]) <= 12
      BY <1>4, <1>5, EntryPriority
    <3> QED BY <1>3, <3>1
  <2>3. after.ok /\ \E b \in 0 .. 12 : FullFrame(input, L, after.operations, after.primaries, b)
    BY <1>1, <1>3, <2>1, <2>2, RunToOpenWorks
  <2> HIDE DEF m, after
  <2>4. PICK b \in 0 .. 12 : Frame(input, L, after.operations, after.primaries, TRUE, b)
    BY <2>3 DEF FullFrame
  <2>5. Len(after.operations) = 0
    BY <1>4, <2>3
  <2>6. Binaries(after.operations, 0) = 0 /\ Opens(after.operations, 0) = 0
    BY Kinds
  <2>7. Len(after.primaries) = 1
    BY <2>4, <2>5, <2>6 DEF Frame
  <2>8. Filling(input, L, after.operations, b, 0)
        /\ after.primaries[1] = Tree(input, From(after.operations, 0), To(after.operations, L, 0))
    <3>1. \A k \in 0 .. Len(after.operations) : Gap(input, L, after.operations, after.primaries, TRUE, b, k)
      BY <2>4 DEF Frame
    <3>2. 0 \in 0 .. Len(after.operations)
      BY <2>5
    <3>3. Gap(input, L, after.operations, after.primaries, TRUE, b, 0)
      BY <3>1, <3>2
    <3> QED BY <2>5, <2>6, <3>3 DEF Gap, Filled
  <2>9. From(after.operations, 0) = 1 /\ To(after.operations, L, 0) = L
    BY <2>5 DEF From, To
  <2>10. 1 <= L /\ Depth(input, L) = 0
    BY <2>6, <2>8, <2>9 DEF Filling
  <2>11. Sentence(input)
    <3>1. input # <<>>
      BY <1>2, <2>10, EmptySeq
    <3>2. Operand(input, Len(input))
      BY <3>1 DEF Parsing
    <3> QED BY <1>2, <1>6, <2>10, <3>1, <3>2 DEF Sentence
  <2>12. after.primaries[1] = TableTree(input)
    <3>1. TableTree(input) = Tree(input, 1, Len(input))
      BY TableTreeIs
    <3> QED BY <1>2, <2>8, <2>9, <3>1
  <2> QED BY <2>3, <2>7, <2>11, <2>12 DEF after, m
<1>7. CASE ~Viable(input) /\ Doomed
  <2>1. m # 0
    BY <1>1, <1>7, EmptySeq DEF Doomed
  <2>2. 1 \in 1 .. m
    BY <1>1, <2>1
  <2>3. ~after.ok
    BY <1>4, <1>7, <2>2 DEF Doomed
  <2> QED BY <1>7, <2>3
<1> QED BY <1>6, <1>7 DEF Parsing

LEMMA Returns ==
  ASSUME WellTyped, Parsing, outcome = "parsing", Len(input) <= MaxTokens, NEW token \in Tokens,
         Len(input) = MaxTokens => token = "end", ~GoesOn(token), Return(token)
  PROVE  ParserInv'
<1> DEFINE r == Append(input, token)
           m == Len(operations)
           after == Process(m)
<1>1. ~WantsOperand /\ level = 0 /\ token \notin Operations
  BY DEF GoesOn
<1>2. input \in Seq(Tokens) /\ Len(input) \in Nat /\ r \in Seq(Tokens) /\ Len(r) = Len(input) + 1
  BY AppendProperties, LenProperties DEF WellTyped
<1>3. Reading(token)
  BY TokenNext
<1>4. IF after.ok /\ Len(after.primaries) = 1
      THEN /\ primaries' = after.primaries /\ operations' = after.operations /\ outcome' = "accepted"
           /\ input' = r /\ level' = level /\ state' = state
      ELSE Fail(token)
  BY DEF Return
<1>5. Ordinary(input) =>
        \/ /\ after.ok /\ Len(after.primaries) = 1
           /\ Sentence(input) /\ after.primaries[1] = TableTree(input)
        \/ ~after.ok /\ ~Viable(input)
  BY <1>1, LastOnes
<1>6. after.ok => Len(after.operations) = 0 /\ after.operations \in Seq(Entries) /\ Sequence(after.primaries)
  <2>1. m \in Nat
    BY LenProperties DEF WellTyped
  <2>2. m \in 0 .. m /\ m - m = 0
    BY <2>1
  <2> QED BY <2>2, RunLeaves
<1>7. Front(r) = input
  BY <1>2, StopsBehind
<1> HIDE DEF after, r
<1>8. CASE after.ok /\ Len(after.primaries) = 1
  <2>1. /\ primaries' = after.primaries /\ operations' = after.operations /\ outcome' = "accepted"
        /\ input' = r /\ level' = level /\ state' = state
    BY <1>4, <1>8
  <2>2. WellTyped'
    <3>1. input' \in Seq(Tokens) /\ Len(input') <= MaxTokens + 1
      BY <1>2, <2>1, ExprParserAssumption
    <3>2. operations' \in Seq(Entries) /\ Len(operations') = 0 /\ Sequence(primaries')
      BY <1>6, <1>8, <2>1
    <3>3. \A k \in 1 .. Len(operations') : operations'[k].pos <= Len(input')
      BY <3>2
    <3> QED BY <2>1, <3>1, <3>2, <3>3 DEF WellTyped
  <2>3. TreesFollowTable'
    <3> SUFFICES ASSUME Ordinary(Front(input'))
                 PROVE  Sentence(Front(input')) /\ primaries'[1] = TableTree(Front(input'))
      BY DEF TreesFollowTable, Parsed
    <3>1. Front(input') = input
      BY <1>7, <2>1
    <3>2. Ordinary(input)
      BY <3>1
    <3>3. Sentence(input) /\ after.primaries[1] = TableTree(input)
      BY <1>5, <1>8, <3>2
    <3> QED BY <2>1, <3>1, <3>3
  <2>4. RejectsOnlyErrors' /\ outcome' # "parsing"
    BY <2>1 DEF RejectsOnlyErrors
  <2> QED BY <2>2, <2>3, <2>4 DEF ParserInv
<1>9. CASE ~(after.ok /\ Len(after.primaries) = 1)
  <2>1. Fail(token)
    BY <1>4, <1>9
  <2>2. ASSUME Ordinary(r)
        PROVE  ~Viable(r) /\ ~Sentence(input)
    <3>1. Ordinary(input)
      BY <1>2, <2>2, LongerInputs DEF r
    <3>2. ~Viable(input)
      BY <1>5, <1>9, <3>1
    <3> QED BY <1>3, <3>2 DEF Reading, r, Sentence
  <2>3. Ordinary(Append(input, token)) =>
          /\ ~Viable(Append(input, token))
          /\ Sentence(input) => token \in Operations
    BY <2>2 DEF r
  <2> QED BY <2>1, <2>3, Fails
<1> QED BY <1>8, <1>9

LEMMA ParserInit == Init => ParserInv
<1> SUFFICES ASSUME Init PROVE ParserInv
  OBVIOUS
<1>1. /\ input = <<>> /\ primaries = <<>> /\ operations = <<>> /\ level = 0 /\ state = "start"
      /\ outcome = "parsing"
  BY DEF Init
<1>2. MaxTokens \in Nat
  BY ExprParserAssumption
<1>3. Len(operations) = 0 /\ Len(primaries) = 0 /\ Len(input) = 0 /\ WantsOperand
  BY <1>1 DEF WantsOperand
<1>4. operations \in Seq(Entries) /\ input \in Seq(Tokens) /\ Sequence(primaries)
  BY <1>1, EmptySeq DEF Sequence
<1>5. Opens(operations, 0) = 0 /\ Binaries(operations, 0) = 0
  BY Kinds
<1>6. WellTyped
  BY <1>1, <1>2, <1>3, <1>4 DEF WellTyped
<1>7. Parsing
  <2>1. Viable(input)
    BY <1>3 DEF Viable
  <2>2. Frame(input, Len(input), operations, primaries, ~WantsOperand, 0)
    <3>1. \A k \in 0 .. Len(operations) : k = 0
      BY <1>3
    <3>2. Gap(input, 0, operations, primaries, FALSE, 0, 0)
      <4>1. From(operations, 0) = 1 /\ To(operations, 0, 0) = 0
        BY <1>3 DEF From, To
      <4>2. ~Filled(operations, FALSE, 0)
        BY <1>3 DEF Filled
      <4>3. From(operations, 0) = To(operations, 0, 0) + 1
        BY <4>1
      <4> QED BY <4>2, <4>3 DEF Gap
    <3>3. Frame(input, 0, operations, primaries, FALSE, 0)
      <4>1. 1 .. Len(operations) = {} /\ 2 .. Len(operations) = {}
        BY <1>3
      <4>2. Len(primaries) = Binaries(operations, Len(operations)) + 0
        BY <1>3, <1>5
      <4>3. \A k \in 0 .. Len(operations) : Gap(input, 0, operations, primaries, FALSE, 0, k)
        BY <3>1, <3>2
      <4> QED BY <1>4, <4>1, <4>2, <4>3 DEF Frame
    <3> QED BY <1>3, <3>3
  <2> QED BY <1>1, <1>3, <1>5, <2>1, <2>2 DEF Parsing
<1>8. TreesFollowTable /\ RejectsOnlyErrors
  BY <1>1 DEF TreesFollowTable, RejectsOnlyErrors
<1> QED BY <1>6, <1>7, <1>8 DEF ParserInv

LEMMA ParserStep == ParserInv /\ [Next]_vars => ParserInv'
<1> SUFFICES ASSUME ParserInv, [Next]_vars PROVE ParserInv'
  OBVIOUS
<1>1. CASE Next
  <2>1. outcome = "parsing" /\ Len(input) <= MaxTokens
    BY <1>1 DEF Next
  <2>2. WellTyped /\ Parsing
    BY <2>1 DEF ParserInv
  <2>3. PICK token \in Tokens : (Len(input) = MaxTokens => token = "end") /\ Step(token)
    BY <1>1 DEF Next
  <2>4. CASE ~GoesOn(token)
    <3>1. Return(token)
      BY <2>3, <2>4 DEF Step
    <3> QED BY <2>1, <2>2, <2>3, <2>4, <3>1, Returns
  <2>5. CASE GoesOn(token)
    <3>1. CASE OpenParenthesis(token)
      BY <2>1, <2>2, <2>3, <2>5, <3>1, OpensParenthesis
    <3>2. CASE CloseParenthesis(token)
      BY <2>1, <2>2, <2>3, <2>5, <3>2, ClosesParenthesis
    <3>3. CASE Operation(token)
      BY <2>1, <2>2, <2>3, <2>5, <3>3, ReadsOperation
    <3>4. CASE Primary(token)
      BY <2>1, <2>2, <2>3, <2>5, <3>4, ReadsPrimary
    <3> QED BY <2>3, <2>5, <3>1, <3>2, <3>3, <3>4 DEF Step
  <2> QED BY <2>4, <2>5
<1>2. CASE UNCHANGED vars
  <2>1. UNCHANGED <<input, primaries, operations, level, state, outcome>>
    BY <1>2 DEF vars
  <2>2. WellTyped' = WellTyped
    BY <2>1 DEF WellTyped, Sequence
  <2>3. Parsing' = Parsing
    BY <2>1 DEF Parsing, WantsOperand, Doomed, BeginsBinary
  <2>4. TreesFollowTable' = TreesFollowTable /\ RejectsOnlyErrors' = RejectsOnlyErrors
    BY <2>1 DEF TreesFollowTable, RejectsOnlyErrors, Parsed
  <2> QED BY <2>1, <2>2, <2>3, <2>4 DEF ParserInv
<1> QED BY <1>1, <1>2

(***************************************************************************)
(* The theorems.                                                           *)
(***************************************************************************)
(* In every state: until it answers, the stacks are those of a partial     *)
(* tree of what was read, and its answer agrees with the documented        *)
(* grammar, whatever the operators and the length of the expression.       *)
THEOREM ParserInvariant == Spec => []ParserInv
<1>1. Init => ParserInv
  BY ParserInit
<1>2. ParserInv /\ [Next]_vars => ParserInv'
  BY ParserStep
<1> QED BY <1>1, <1>2, PTL DEF Spec

(* The values of a call of syntax_process_expression are of their types,   *)
(* and every entry of its stack of operations is a token it has read.      *)
THEOREM ParserTypeCorrect == Spec => []TypeOK
<1>1. ParserInv => TypeOK
  <2> SUFFICES ASSUME WellTyped PROVE TypeOK
    BY DEF ParserInv
  <2>1. PICK L \in Nat : L = Len(input)
    BY LenProperties DEF WellTyped
  <2>2. ASSUME NEW i \in 1 .. Len(operations)
        PROVE  operations[i] \in [type : Operations \cup {"("}, unary : BOOLEAN, pos : 1 .. Len(input)]
    <3>1. operations[i] \in Entries
      BY ElementOfSeq DEF WellTyped
    <3>2. operations[i].pos \in Nat \ {0} /\ operations[i].pos <= L
      BY <2>1, <3>1 DEF Entries, WellTyped
    <3>3. operations[i].pos \in 1 .. Len(input)
      BY <2>1, <3>2
    <3> QED BY <3>1, <3>3 DEF Entries
  <2> QED BY <2>2 DEF WellTyped, TypeOK
<1> QED BY <1>1, ParserInvariant, PTL

(* Every ordinary expression that process_operation builds a tree for gets *)
(* the one of the documented table of precedences, with left-associative   *)
(* operators, and nothing that is not an expression gets one.              *)
THEOREM ParserTreesFollowTable == Spec => []TreesFollowTable
<1>1. ParserInv => TreesFollowTable
  BY DEF ParserInv
<1> QED BY <1>1, ParserInvariant, PTL

(* syntax_process_expression reports an error only when the tokens up to   *)
(* it begin no expression and those before it are none, and at the first   *)
(* such token, unless the first token of all was an operator that is not   *)
(* unary: that one it notices later.                                       *)
THEOREM ParserRejectsOnlyErrors == Spec => []RejectsOnlyErrors
<1>1. ParserInv => RejectsOnlyErrors
  BY DEF ParserInv
<1> QED BY <1>1, ParserInvariant, PTL
===============================================================================
