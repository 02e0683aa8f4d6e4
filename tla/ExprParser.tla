------------------------------ MODULE ExprParser ------------------------------
(***************************************************************************)
(* One call of syntax_process_expression of compiler/src/syntax.c: it      *)
(* reads an expression from the token stream with a stack of primaries and *)
(* a stack of operations. A primary (literal, identifier, call, index,     *)
(* block ...) is one token here: syntax_process_primary reads it with the  *)
(* suffixes it has, and calls this function again, with stacks of its own, *)
(* for what is nested in it. "end" stands for every token that neither     *)
(* continues an expression nor starts a primary. A tree is the sequence of *)
(* the position of its token and of its operands, if any.                  *)
(***************************************************************************)
EXTENDS Naturals, SequencesExt

CONSTANTS
  Operations,  (* the operators the input is built from                    *)
  MaxTokens    (* bound on the tokens of an expression                     *)

UnaryOperators == {"-", "~", "not"}
BinaryOperators ==
  {"*", "/", "%", "+", "-", "<<", ">>", "<", ">", "<=", ">=", "=", "<>", "&", "^", "|",
   "and", "or"}

(* operation_priority of an operator between two operands.                 *)
BinaryPriority ==
  [op \in BinaryOperators \cup {"("} |->
     CASE op \in {"*", "/", "%"} -> 3        [] op \in {"+", "-"} -> 4
       [] op \in {"<<", ">>"} -> 5           [] op \in {"<", ">", "<=", ">="} -> 6
       [] op \in {"=", "<>"} -> 7            [] op = "&" -> 8
       [] op = "^" -> 9                      [] op = "|" -> 10
       [] op = "and" -> 11                   [] op = "or" -> 12
       [] op = "(" -> 13]

ASSUME ExprParserAssumption ==
  /\ Operations \subseteq UnaryOperators \cup BinaryOperators
  /\ MaxTokens \in Nat \ {0}

Tokens == Operations \cup {"(", ")", "primary", "end"}

VARIABLES
  input,       (* the tokens read, with the one the call stopped at        *)
  primaries,   (* stack of trees                                           *)
  operations,  (* stack of operators and open parentheses                  *)
  level,       (* ParenthesisLevel                                         *)
  state,       (* CurrentState, "start" before the first token             *)
  outcome      (* whether the call goes on, returned or reported an error  *)

vars == <<input, primaries, operations, level, state, outcome>>

Init ==
  /\ input = <<>>
  /\ primaries = <<>>
  /\ operations = <<>>
  /\ level = 0
  /\ state = "start"
  /\ outcome = "parsing"

(* The states in which an operand has to follow.                           *)
WantsOperand == state \in {"start", "unary", "binary", "open"}

(* The priority of an entry of operations, 0 where operation_priority      *)
(* reports an error: a unary plus, a `not` between operands.               *)
Priority(entry) ==
  IF entry.unary
  THEN IF entry.type \in UnaryOperators THEN 2 ELSE 0
  ELSE IF entry.type \in DOMAIN BinaryPriority
       THEN BinaryPriority[entry.type] ELSE 0

(* process_operation on the two stacks: the operation at the back of one   *)
(* takes its operands from the back of the other.                          *)
ProcessOperation(stacks) ==
  LET op == Last(stacks.operations)
      size == Len(stacks.primaries)
      arity == IF op.unary THEN 1 ELSE 2
  IN  IF size < arity \/ (op.unary /\ op.type \notin UnaryOperators)
      THEN [stacks EXCEPT !.ok = FALSE]
      ELSE [ok |-> stacks.ok,
            operations |-> Front(stacks.operations),
            primaries |->
              Append(SubSeq(stacks.primaries, 1, size - arity),
                     <<op.pos>> \o SubSeq(stacks.primaries, size - arity + 1, size))]

(* The stacks after process_operation ran n times.                         *)
Process(n) ==
  LET run[k \in 0 .. n] ==
        IF k = 0
        THEN [ok |-> TRUE, operations |-> operations, primaries |-> primaries]
        ELSE ProcessOperation(run[k - 1])
  IN  run[n]

(* How many operations a loop takes from the back: those behind the last   *)
(* of the places it stops at.                                              *)
RunAtBack(stops) == Len(operations) - Max(stops \cup {0})

(* A slip: the priorities are compared with < instead of <=.               *)
GivesWayStrictly(entry, new) == Priority(entry) \in 1 .. Priority(new) - 1

(* An operation gives way to a new one that does not bind tighter.         *)
GivesWay(entry, new) == Priority(entry) \in 1 .. Priority(new)

IsOpen(entry) == entry.type = "("

(***************************************************************************)
(* The steps of the loop, by the next token.                               *)
(***************************************************************************)
Fail(token) ==
  /\ outcome' = "rejected"
  /\ input' = Append(input, token)
  /\ UNCHANGED <<primaries, operations, level, state>>

Reads(token) ==
  /\ input' = Append(input, token)
  /\ UNCHANGED outcome

(* The loop goes on: an operand is due, a parenthesis is open or the next  *)
(* token is an operator.                                                   *)
GoesOn(token) == WantsOperand \/ level # 0 \/ token \in Operations

OpenParenthesis(token) ==
  /\ token = "("
  /\ IF WantsOperand
     THEN /\ operations' =
               Append(operations, [type |-> token, unary |-> FALSE, pos |-> Len(input) + 1])
          /\ level' = level + 1
          /\ state' = "open"
          /\ Reads(token)
          /\ UNCHANGED primaries
     ELSE Fail(token)

(* A slip: a parenthesis is not closed after another one.                  *)
CloseParenthesisOnce(token) ==
  LET n == RunAtBack({i \in DOMAIN operations : IsOpen(operations[i])})
      after == Process(n)
  IN  /\ token = ")"
      /\ IF state = "identifier" /\ after.ok /\ after.operations # <<>>
         THEN /\ primaries' = after.primaries
              /\ operations' = Front(after.operations)
              /\ level' = level - 1
              /\ state' = "close"
              /\ Reads(token)
         ELSE Fail(token)

(* A slip: ParenthesisLevel is lowered in the loop that empties the stack. *)
CloseParenthesisInLoop(token) ==
  LET n == RunAtBack({i \in DOMAIN operations : IsOpen(operations[i])})
      after == Process(n)
  IN  /\ token = ")"
      /\ IF state \in {"identifier", "close"} /\ after.ok /\ after.operations # <<>>
         THEN /\ primaries' = after.primaries
              /\ operations' = Front(after.operations)
              /\ level' = level - 1 - n
              /\ state' = "close"
              /\ Reads(token)
         ELSE Fail(token)

CloseParenthesis(token) ==
  LET n == RunAtBack({i \in DOMAIN operations : IsOpen(operations[i])})
      after == Process(n)
  IN  /\ token = ")"
      /\ IF state \in {"identifier", "close"} /\ after.ok /\ after.operations # <<>>
         THEN /\ primaries' = after.primaries
              /\ operations' = Front(after.operations)
              /\ level' = level - 1
              /\ state' = "close"
              /\ Reads(token)
         ELSE Fail(token)

Operation(token) ==
  LET new == [type |-> token, unary |-> WantsOperand, pos |-> Len(input) + 1]
      n == RunAtBack({i \in DOMAIN operations : ~GivesWay(operations[i], new)})
      after == Process(n)
      orders == operations = <<>> \/
                /\ Priority(new) # 0
                /\ after.ok
                /\ after.operations # <<>> => Priority(Last(after.operations)) # 0
  IN  /\ token \in Operations
      /\ IF orders
         THEN /\ primaries' = after.primaries
              /\ operations' = Append(after.operations, new)
              /\ state' = IF WantsOperand THEN "unary" ELSE "binary"
              /\ Reads(token)
              /\ UNCHANGED level
         ELSE Fail(token)

(* syntax_process_primary, which reports an error for any other token.     *)
Primary(token) ==
  /\ token \in {"primary", "end"}
  /\ IF WantsOperand /\ token = "primary"
     THEN /\ primaries' = Append(primaries, <<Len(input) + 1>>)
          /\ state' = "identifier"
          /\ Reads(token)
          /\ UNCHANGED <<operations, level>>
     ELSE Fail(token)

(* The end of the loop: what is left of operations is processed.           *)
Return(token) ==
  LET after == Process(Len(operations))
  IN  IF after.ok /\ Len(after.primaries) = 1
      THEN /\ primaries' = after.primaries
           /\ operations' = after.operations
           /\ outcome' = "accepted"
           /\ input' = Append(input, token)
           /\ UNCHANGED <<level, state>>
      ELSE Fail(token)

(* A first token `)` is given to syntax_process_primary. A parenthesis     *)
(* after an identifier is read as the suffix of a primary: a call.         *)
Step(token) ==
  /\ token = "(" => state # "identifier"
  /\ IF ~GoesOn(token) THEN Return(token)
     ELSE \/ OpenParenthesis(token)
          \/ CloseParenthesis(token)
          \/ Operation(token)
          \/ Primary(token)

Next ==
  /\ outcome = "parsing"
  /\ Len(input) <= MaxTokens
  /\ \E token \in Tokens : (Len(input) = MaxTokens => token = "end") /\ Step(token)

Spec == Init /\ [][Next]_vars

(***************************************************************************)
(* The language of test/unit/operators.al and arithmetic.al: the table of  *)
(* precedences, every operator left-associative, parentheses.              *)
(***************************************************************************)
Operand(s, i) == s[i] \in {"primary", ")"}

Unary(s, i) == s[i] \in Operations /\ (i = 1 \/ ~Operand(s, i - 1))

Depth(s, i) ==
  Cardinality({k \in 1 .. i : s[k] = "("}) - Cardinality({k \in 1 .. i : s[k] = ")"})

(* Some expression begins with the tokens of s.                            *)
Viable(s) ==
  \A i \in 1 .. Len(s) :
    /\ s[i] # "end"
    /\ Depth(s, i) >= 0
    /\ IF s[i] \in Operations
       THEN s[i] \in IF Unary(s, i) THEN UnaryOperators ELSE BinaryOperators
       ELSE (s[i] = ")") <=> (i > 1 /\ Operand(s, i - 1))

Sentence(s) ==
  s # <<>> /\ Viable(s) /\ Operand(s, Len(s)) /\ Depth(s, Len(s)) = 0

(* The operators between operands of a span, outside every parenthesis in  *)
(* it; and the one of them that binds weakest, the last of its kind.       *)
Outermost(s, i, j) ==
  {k \in i .. j : s[k] \in Operations /\ ~Unary(s, k) /\ Depth(s, k) = Depth(s, i - 1)}
Weakest(s, i, j) ==
  Max({k \in Outermost(s, i, j) :
         \A l \in Outermost(s, i, j) : BinaryPriority[s[l]] <= BinaryPriority[s[k]]})

(* The tree of a sentence: the weakest operator is applied last.           *)
TableTree(s) ==
  LET tree[span \in (1 .. Len(s) + 1) \X (0 .. Len(s))] ==
        LET i == span[1]
            j == span[2]
            k == Weakest(s, i, j)
        IN  IF i > j THEN <<>>
            ELSE IF Outermost(s, i, j) # {} THEN <<k, tree[<<i, k - 1>>], tree[<<k + 1, j>>]>>
            ELSE IF s[i] \in Operations THEN <<i, tree[<<i + 1, j>>]>>
            ELSE IF s[i] = "(" THEN tree[<<i + 1, j - 1>>]
            ELSE <<i>>
  IN  tree[<<1, Len(s)>>]

(* What the call parsed: all it read but the token it stopped at.          *)
Parsed == Front(input)

(* Inputs apart from two the code is known to read otherwise: a unary      *)
(* operator right after another, and `not` or `~` between two operands.    *)
Ordinary(s) ==
  \A i \in 1 .. Len(s) : s[i] \in Operations =>
    IF Unary(s, i) THEN i > 1 /\ s[i - 1] \in Operations => ~Unary(s, i - 1)
    ELSE s[i] \in BinaryOperators

(***************************************************************************)
(* Properties.                                                             *)
(***************************************************************************)
TypeOK ==
  /\ input \in Seq(Tokens)
  /\ \A i \in 1 .. Len(operations) :
       operations[i] \in [type : Operations \cup {"("}, unary : BOOLEAN,
                          pos : 1 .. Len(input)]
  /\ level \in 0 .. MaxTokens
  /\ state \in {"start", "unary", "binary", "open", "close", "identifier"}
  /\ outcome \in {"parsing", "accepted", "rejected"}

(* Every ordinary expression gets the tree of the documented table, and    *)
(* nothing that is not an expression gets one.                             *)
TreesFollowTable ==
  outcome = "accepted" /\ Ordinary(Parsed) =>
    Sentence(Parsed) /\ primaries[1] = TableTree(Parsed)

(* The first token is an operator that is never unary. The stack is empty, *)
(* and the code puts it there without a look at its priority.              *)
BeginsBinary(s) == s # <<>> /\ s[1] \in Operations \ UnaryOperators

(* An error is reported only where the tokens up to it begin no expression *)
(* and those before it are none, and it is the first such token: but for a *)
(* first token that is an operator but not unary, which is not noticed     *)
(* until later.                                                            *)
RejectsOnlyErrors ==
  outcome = "rejected" /\ Ordinary(input) =>
    /\ ~Viable(input)
    /\ ~Sentence(Parsed)
    /\ Viable(Parsed) \/ BeginsBinary(Parsed)
==============================================================================
