------------------------------- MODULE IrBuild --------------------------------
(***************************************************************************)
(* The body of one function in compiler/src/ir_build.c, which turns the    *)
(* tree into basic blocks in static single assignment form in one walk.    *)
(* Each block has a list of variables, the values they have at the place   *)
(* that is being built; where blocks meet, ir_create_block_transitions     *)
(* makes the list of the new block from those of its predecessors, with a  *)
(* phi where they differ.                                                  *)
(*                                                                         *)
(* The walk is the state: a frame for each construct being built, and the  *)
(* program is chosen as the walk goes. Of the instructions other than phi  *)
(* only their uses of values are kept, which is what registers are given   *)
(* out by. Variables are of simple types; addressed ones live in memory.   *)
(***************************************************************************)
EXTENDS Integers, SequencesExt

CONSTANTS
  Names,       (* variables of the program                                 *)
  Addressed,   (* those whose address is taken                             *)
  Parameter,   (* the function's parameter                                 *)
  Kinds,       (* the statements and expressions of the program            *)
  Shadowing,   (* whether a block may define a name that is visible        *)
  MaxNest,     (* bound on the depth of the walk                           *)
  MaxSize,     (* bound on the statements and expressions of the program   *)
  MaxWrites    (* bound on the definitions and assignments among them      *)

ASSUME IrBuildAssumption ==
  /\ Addressed \subseteq Names
  /\ Parameter \in Names \ Addressed
  /\ Kinds \subseteq {"block", "if", "while", "read", "compute", "define", 
                    "assign", "return", "break", "continue", "nested"}
  /\ Shadowing \in BOOLEAN
  /\ {MaxNest, MaxSize, MaxWrites} \subseteq Nat

VARIABLES
  blocks,   (* the blocks of the function                                  *)
  values,   (* the values: phis, and others, which have no operands        *)
  current,  (* current_block                                               *)
  frames,   (* the constructs being built, the innermost last              *)
  value,    (* what ir_build just returned                                 *)
  scope,    (* the definitions visible in the program                      *)
  size,     (* statements and expressions so far                           *)
  writes,   (* definitions and assignments so far                          *)
  wild      (* a phi was dropped and not all that it meant went with it    *)

vars == <<blocks, values, current, frames, value, scope, size, writes, wild>>

Pending == -1   (* an expression or a statement is to be built             *)
Void == 0       (* ir_build returned NULL                                  *)

(* idx is the place of the block in the function. to and exit are those of *)
(* the jump that ends the block: where it goes and what the variables are  *)
(* then; entry is what those in scope are when it begins.                  *)
NotBegun == -1
NewBlock == [idx |-> NotBegun, preds |-> <<>>, vars |-> <<>>, entry |-> {},
             headers |-> <<>>, to |-> {}, exit |-> <<>>]

(* A constant, or the address of a variable: no block computes it. Uses are *)
(* those the value knows of; right and degree are right_bound, loop_degree. *)
Leaf == [at |-> 0, right |-> 0, degree |-> 0, uses |-> <<>>,
         args |-> <<>>, gone |-> 0, grown |-> FALSE]

Variable(name, id, val) == [name |-> name, id |-> id, value |-> val]

Init ==
  LET first == <<Variable(Parameter, 1, 1)>>
  IN  /\ blocks = <<[NewBlock EXCEPT !.idx = 0, !.vars = first, !.entry = Range(first)]>>
      /\ values = <<[Leaf EXCEPT !.at = 1]>>
      /\ current = 1
      /\ frames = <<>>
      /\ value = Pending
      /\ scope = <<[name |-> Parameter, id |-> 1]>>
      /\ size = 0
      /\ writes = 0
      /\ wild = FALSE

(***************************************************************************)
(* The graph, g = [blocks, values, degree]: degree is loop_degree, the     *)
(* number of loops around what is built.                                   *)
(***************************************************************************)
Top == Last(frames)

Graph == [blocks |-> blocks, values |-> values,
          degree |-> Cardinality({i \in DOMAIN frames : frames[i].kind = "while"})]

WithBlocks(n) ==
  [Graph EXCEPT !.blocks = [b \in 1 .. Len(blocks) + n |->
                              IF b \in DOMAIN blocks THEN blocks[b] ELSE NewBlock]]

(* ir_assign_free_block: the block comes behind those that have begun.     *)
Placed(g, b) ==
  [g EXCEPT !.blocks[b].idx = Cardinality({c \in DOMAIN g.blocks : g.blocks[c].idx # NotBegun})]

(* ir_create_edge.                                                         *)
Edge(g, from, to) ==
  IF from \in Range(g.blocks[to].preds) THEN g
  ELSE [g EXCEPT !.blocks[to].preds = Append(@, from)]

(* A br or condbr at the end of a block. Behind another one it is never    *)
(* reached.                                                                *)
Jumping(g, from, targets) ==
  IF g.blocks[from].to # {} THEN g
  ELSE [g EXCEPT !.blocks[from].to = targets, !.blocks[from].exit = g.blocks[from].vars]

(* A br and its edge, which is made in any case.                           *)
Branch(g, from, to) == Edge(Jumping(g, from, {to}), from, to)

(* ir_add_node_arg: an instruction in block b uses the value.              *)
Used(g, b, val, phi) ==
  [g EXCEPT !.values[val].uses = Append(@, [at |-> b, degree |-> g.degree, phi |-> phi])]

(* ir_create_node.                                                         *)
WithValue(g, b, args) ==
  [g EXCEPT !.values = Append(@, [Leaf EXCEPT !.at = b, !.args = args, !.degree = g.degree,
                                              !.right = g.blocks[b].idx])]

(* ir_build_phi: the operands it is built with are known to the values     *)
(* they use, with the place they are at; those pushed later are not.       *)
Operand(val, from, known) == [value |-> val, from |-> from, known |-> known]

WithPhi(g, b, args) ==
  LET after[j \in 0 .. Len(args)] ==
        IF j = 0 THEN WithValue(g, b, args) ELSE Used(after[j - 1], b, args[j].value, TRUE)
  IN  after[Len(args)]

(* The value of an instruction in the current block that uses that value.  *)
Computed(g, val) == Used(WithValue(g, current, <<>>), current, val, FALSE)

ValueOf(list, name) ==
  LET places == {k \in DOMAIN list : list[k].name = name}
  IN  IF places = {} THEN Void ELSE list[Max(places)].value

(* Slips: whether a phi is needed is decided by the last predecessor alone; *)
(* a predecessor without the variable is not noticed.                      *)
TransitionByLast(b, g, variable) ==
  LET preds == g.blocks[b].preds
      args == [j \in DOMAIN preds |->
                 Operand(ValueOf(g.blocks[preds[j]].vars, variable.name), preds[j], TRUE)]
      differ == Last(args).value # variable.value
      h == IF differ THEN WithPhi(g, b, args) ELSE g
  IN  IF variable.name \in Addressed
      THEN [g EXCEPT !.blocks[b].vars = Append(@, variable)]
      ELSE IF \E j \in DOMAIN args : args[j].value = Void THEN g
      ELSE [h EXCEPT !.blocks[b].vars =
              Append(@, [variable EXCEPT !.value = IF differ THEN Len(h.values) ELSE @])]

TransitionOfFirst(b, g, variable) ==
  [g EXCEPT !.blocks[b].vars =
     Append(@, [variable EXCEPT
       !.value = ValueOf(g.blocks[Last(g.blocks[b].preds)].vars, variable.name)])]

(* ir_create_block_transitions.                                            *)
Transition(b, g, variable) ==
  LET preds == g.blocks[b].preds
      args == [j \in DOMAIN preds |->
                 Operand(IF j = 1 THEN variable.value
                         ELSE ValueOf(g.blocks[preds[j]].vars, variable.name),
                         preds[j], TRUE)]
      differ == \E j \in DOMAIN args : args[j].value # variable.value
      h == IF differ THEN WithPhi(g, b, args) ELSE g
  IN  IF variable.name \in Addressed
      THEN [g EXCEPT !.blocks[b].vars = Append(@, variable)]
      ELSE IF \E j \in DOMAIN args : args[j].value = Void THEN g
      ELSE [h EXCEPT !.blocks[b].vars =
              Append(@, [variable EXCEPT !.value = IF differ THEN Len(h.values) ELSE @])]

(* The variables that the program can see, when the block begins.          *)
Entered(g, b, seen) ==
  [g EXCEPT !.blocks[b].entry =
     {v \in Range(g.blocks[b].vars) : \E k \in DOMAIN seen : seen[k].id = v.id}]

Transitions(g, b) ==
  LET list == g.blocks[Head(g.blocks[b].preds)].vars
      after[k \in 0 .. Len(list)] ==
        IF k = 0 THEN g ELSE Transition(b, after[k - 1], list[k])
  IN  Entered(after[Len(list)], b, Top.scope)

Becomes(g) == blocks' = g.blocks /\ values' = g.values

(***************************************************************************)
(* The walk.                                                               *)
(***************************************************************************)
Frame(kind, phase) ==
  [kind |-> kind, phase |-> phase, name |-> Parameter, target |-> 0, ends |-> <<>>,
   results |-> <<>>, old |-> 0, scope |-> scope, arms |-> TRUE]

In(kind, phase) ==
  frames # <<>> /\ Top.kind = kind /\ Top.phase = phase

Becoming(frame) == frames' = ReplaceAt(frames, Len(frames), frame)

Open(frame) ==
  /\ frame.kind \in Kinds
  /\ Len(frames) < MaxNest
  /\ size < MaxSize
  /\ frames' = Append(frames, frame)
  /\ size' = size + 1

Close(val) == frames' = Front(frames) /\ value' = val

(* The statement in a block, or the expression of the frame, to be built.  *)
StatementNext ==
  In("block", "statements") /\ value = Pending /\ blocks[current].to = {}
ExpressionNext(kind) ==
  /\ value = Pending
  /\ IF frames = <<>> THEN kind = "block" /\ size = 0
     ELSE CASE Top.phase = "body" -> kind = "block"
            [] Top.phase = "statements" -> kind \in {"block", "if", "while"} /\ StatementNext
            [] Top.phase \in {"then", "else"} -> kind = "block" \/ "nested" \in Kinds
            [] Top.phase = "condition" -> kind = "compute" \/ "nested" \in Kinds
            [] Top.kind \in {"return", "break"} ->
                 kind \in {"simple", "read"} \/ "nested" \in Kinds
            [] Top.phase = "operand" -> TRUE
            [] OTHER -> FALSE
Built(kind, phase) == In(kind, phase) /\ value # Pending

(* A constant.                                                             *)
Simple ==
  /\ ExpressionNext("simple")
  /\ values' = Append(values, Leaf)
  /\ value' = Len(values) + 1
  /\ UNCHANGED <<blocks, current, frames, scope, size, writes, wild>>

Visible(name) == \E k \in DOMAIN scope : scope[k].name = name

(* ir_build_identifier; an addressed variable is loaded from memory.       *)
Loaded(name) ==
  IF name \in Addressed
  THEN Computed(Graph, ValueOf(blocks[current].vars, name)) ELSE Graph
ValueRead(name) ==
  IF name \in Addressed THEN Len(values) + 1 ELSE ValueOf(blocks[current].vars, name)

Read(name) ==
  /\ "read" \in Kinds /\ ExpressionNext("read") /\ Visible(name)
  /\ Becomes(Loaded(name))
  /\ value' = ValueRead(name)
  /\ UNCHANGED <<current, frames, scope, size, writes, wild>>

(* ir_build_binary_operator, with a variable and a constant.               *)
Compute(name) ==
  /\ "compute" \in Kinds /\ ExpressionNext("compute")
  /\ Visible(name) /\ name \notin Addressed
  /\ Becomes(Computed(Graph, ValueRead(name)))
  /\ value' = Len(values) + 1
  /\ UNCHANGED <<current, frames, scope, size, writes, wild>>

(***************************************************************************)
(* Blocks.                                                                 *)
(***************************************************************************)
BlockBegin ==
  LET g == WithBlocks(1)
  IN  /\ ExpressionNext("block")
      /\ Open([Frame("block", "statements") EXCEPT
                 !.ends = <<Len(g.blocks)>>, !.old = Len(blocks[current].vars)])
      /\ Becomes(g)
      /\ UNCHANGED <<current, value, scope, writes, wild>>

(* A slip: one variable too many.                                          *)
PoppedOneMore(list, old) == SubSeq(list, 1, old - 1)

(* The loop pops as long as its counter is below the shrinking surplus.    *)
Popped(list, old) == SubSeq(list, 1, Len(list) - (Len(list) - old + 1) \div 2)

(* A block that has a value has a phi for it, of the values returned to it.*)
BlockEnd ==
  LET end == Head(Top.ends)
      jumped == Placed(Branch(Graph, current, end), end)
      typed == Top.results # <<>>
      g == Transitions(IF typed THEN WithPhi(jumped, end, Top.results) ELSE jumped, end)
  IN  /\ In("block", "statements") /\ value = Pending
      /\ Len(g.blocks[end].vars) >= Top.old
      /\ Becomes([g EXCEPT !.blocks[end].vars = Popped(@, Top.old)])
      /\ current' = end
      /\ Close(IF typed THEN Len(jumped.values) + 1 ELSE Void)
      /\ scope' = Top.scope
      /\ UNCHANGED <<size, writes, wild>>

(***************************************************************************)
(* Branches.                                                               *)
(***************************************************************************)
IfBegin ==
  LET g == WithBlocks(3)
      n == Len(blocks)
  IN  /\ ExpressionNext("if")
      /\ Open([Frame("if", "condition") EXCEPT !.ends = <<n + 1, n + 2, n + 3>>])
      /\ Becomes(Edge(Edge(g, current, n + 2), current, n + 3))
      /\ UNCHANGED <<current, value, scope, writes, wild>>

(* The edges to the two blocks were made before the condition was built.   *)
IfCondition ==
  LET then == Top.ends[2]
      else == Top.ends[3]
      g == [Used(Graph, current, value, FALSE) EXCEPT
              !.blocks[current].to = {then, else},
              !.blocks[current].exit = blocks[current].vars]
  IN  /\ Built("if", "condition") /\ value # Void
      /\ Becomes(Transitions(Placed(g, then), then))
      /\ current' = then
      /\ Becoming([Top EXCEPT !.phase = "then"])
      /\ value' = Pending
      /\ UNCHANGED <<scope, size, writes, wild>>

IfThen ==
  LET else == Top.ends[3]
      g == Branch(Graph, current, Head(Top.ends))
  IN  /\ Built("if", "then")
      /\ Becomes(Transitions(Placed(g, else), else))
      /\ current' = else
      /\ Becoming([Top EXCEPT !.phase = "more", !.arms = @ /\ value # Void,
                     !.results = Append(@, Operand(value, current, TRUE))])
      /\ value' = Pending
      /\ UNCHANGED <<scope, size, writes, wild>>

(* Another condition.                                                      *)
IfAgain ==
  LET g == WithBlocks(2)
      n == Len(blocks)
  IN  /\ In("if", "more") /\ size < MaxSize
      /\ Becomes(Edge(Edge(g, current, n + 1), current, n + 2))
      /\ Becoming([Top EXCEPT !.phase = "condition", !.ends = <<Head(@), n + 1, n + 2>>])
      /\ size' = size + 1
      /\ UNCHANGED <<current, value, scope, writes, wild>>

IfElse ==
  /\ In("if", "more")
  /\ Becoming([Top EXCEPT !.phase = "else"])
  /\ UNCHANGED <<blocks, values, current, value, scope, size, writes, wild>>

(* The value of the if is a phi when each of its branches has one.         *)
IfEnds(typed, results) ==
  LET end == Head(Top.ends)
      g == Transitions(Placed(Branch(Graph, current, end), end), end)
  IN  /\ Becomes(IF typed THEN WithPhi(g, end, results) ELSE g)
      /\ current' = end
      /\ Close(IF typed THEN Len(g.values) + 1 ELSE Void)
      /\ UNCHANGED <<scope, size, writes, wild>>

IfWithoutElse == In("if", "more") /\ IfEnds(FALSE, <<>>)

IfEnd ==
  /\ Built("if", "else")
  /\ IfEnds(Top.arms /\ value # Void,
            Append(Top.results, Operand(value, current, TRUE)))

(***************************************************************************)
(* Loops: ends = <<end, cond, then, else, prev>>.                          *)
(***************************************************************************)

(* Each variable of the condition's block gets a phi; its operand for the  *)
(* way back is added when that is built.                                   *)
WithHeader(b, prev, g, i) ==
  LET variable == g.blocks[b].vars[i]
      h == WithPhi(g, b, <<Operand(variable.value, prev, TRUE)>>)
      phi == Len(h.values)
  IN  IF variable.name \in Addressed THEN g
      ELSE [h EXCEPT !.blocks[b].vars[i].value = phi, !.blocks[b].headers = Append(@, phi)]

WithHeaders(g, b, prev) ==
  LET after[i \in 0 .. Len(g.blocks[b].vars)] ==
        IF i = 0 THEN g ELSE WithHeader(b, prev, after[i - 1], i)
  IN  Entered(after[Len(g.blocks[b].vars)], b, scope)

(* The phi of the i-th variable of a loop that begins with block b.        *)
HeaderOf(b, i) ==
  b.headers[Cardinality({j \in 1 .. i : b.vars[j].name \notin Addressed})]

WhileBegin ==
  LET n == Len(blocks)
      h == Branch([WithBlocks(4) EXCEPT !.degree = @ + 1], current, n + 2)
      g == Transitions(Placed(h, n + 2), n + 2)
  IN  /\ ExpressionNext("while")
      /\ Open([Frame("while", "condition") EXCEPT
                 !.ends = <<n + 1, n + 2, n + 3, n + 4, current>>])
      /\ Becomes(WithHeaders(g, n + 2, current))
      /\ current' = n + 2
      /\ UNCHANGED <<value, scope, writes, wild>>

WhileCondition ==
  LET then == Top.ends[3]
      else == Top.ends[4]
      jump == Jumping(Used(Graph, current, value, FALSE), current, {then, else})
      g == Edge(Edge(jump, current, then), current, else)
  IN  /\ Built("while", "condition") /\ value # Void
      /\ Becomes(Transitions(Placed(g, then), then))
      /\ current' = then
      /\ Becoming([Top EXCEPT !.phase = "body"])
      /\ value' = Pending
      /\ UNCHANGED <<scope, size, writes, wild>>

(* The uses of phi that it knows of are of val now, which is kept as long  *)
(* as the loop, and the header phi loses its last operand: a use is written *)
(* where it was when its phi was built, which is not where it is when its  *)
(* vector has grown since.                                                 *)
Dropped(vs, phi, header, val, end) ==
  LET use(v, i) == IF vs[v].args[i].known /\ vs[v].args[i].value = phi /\ ~vs[v].grown
                   THEN [vs[v].args[i] EXCEPT !.value = val] ELSE vs[v].args[i]
      kept(v) == IF v = header THEN Len(vs[v].args) - 1 ELSE Len(vs[v].args)
  IN  [v \in DOMAIN vs |->
        [vs[v] EXCEPT !.gone = IF v = header THEN val ELSE @,
                      !.args = [i \in 1 .. kept(v) |-> use(v, i)],
                      !.uses = IF v = val THEN @ \o vs[phi].uses ELSE @,
                      !.right = IF v = val THEN end ELSE @]]

(* A use is replaced where a vector no longer is.                          *)
Misses(vs, phi) ==
  \E v \in DOMAIN vs : vs[v].grown /\
    \E i \in DOMAIN vs[v].args : vs[v].args[i].known /\ vs[v].args[i].value = phi

(* What a value stands for: a phi that was dropped, the value it was       *)
(* dropped for.                                                            *)
Meaning(vs) ==
  LET meaning[v \in DOMAIN vs] == IF vs[v].gone = 0 THEN v ELSE meaning[vs[v].gone]
  IN  meaning

(* A continue brought the phi another value than its own, which goes.      *)
Overlooks(vs, header) ==
  \E i \in 2 .. Len(vs[header].args) : Meaning(vs)[vs[header].args[i].value] # header

Pushed(vs, phi, val, from) ==
  [v \in DOMAIN vs |->
    IF v = phi THEN [vs[v] EXCEPT !.args = Append(@, Operand(val, from, FALSE)), !.grown = TRUE]
    ELSE vs[v]]

(* The i-th variable of the loop, when its body is built: a phi the body   *)
(* does not change is dropped in favour of the value it was made of, any   *)
(* other gets the operand for the way back.                                *)
CloseHeader(h, i) ==
  LET prev == Top.ends[5]
      cond == Top.ends[2]
      original == h.blocks[prev].vars[i].value
      before == h.blocks[cond].vars[i]
      phi == before.value
      after == h.blocks[current].vars[i].value
      header == HeaderOf(h.blocks[cond], i)
  IN  IF before.name \in Addressed THEN h
      ELSE IF phi = after
      THEN [blocks |-> [h.blocks EXCEPT ![cond].vars[i].value = original,
                                        ![current].vars[i].value = original],
            values |-> Dropped(h.values, phi, header, original, h.blocks[current].idx),
            wild |-> h.wild \/ Misses(h.values, phi) \/ Overlooks(h.values, header)]
      ELSE [h EXCEPT !.values = Pushed(@, header, after, current)]

(* As many variables as there were when the loop began.                    *)
Closed(g) ==
  LET sz_var == Len(g.blocks[Top.ends[5]].vars)
      after[i \in 0 .. sz_var] ==
        IF i = 0 THEN [blocks |-> g.blocks, values |-> g.values, wild |-> wild]
        ELSE CloseHeader(after[i - 1], i)
  IN  after[sz_var]

WhileBody ==
  LET cond == Top.ends[2]
      else == Top.ends[4]
      g == Branch(Graph, current, cond)
      h == Closed(g)
      closed == [g EXCEPT !.blocks = h.blocks, !.values = h.values]
  IN  /\ Built("while", "body")
      /\ Becomes(Transitions(Placed(closed, else), else))
      /\ wild' = h.wild
      /\ current' = else
      /\ Becoming([Top EXCEPT !.phase = "more"])
      /\ value' = Pending
      /\ UNCHANGED <<scope, size, writes>>

WhileElse ==
  /\ In("while", "more")
  /\ Becoming([Top EXCEPT !.phase = "else"])
  /\ UNCHANGED <<blocks, values, current, value, scope, size, writes, wild>>

(* The value of the loop is a phi of what was broken out with and of the   *)
(* else expression, in the block that was begun for it. A loop that has a  *)
(* value on one side only makes the builder use a null pointer.            *)
WhileEnds(result) ==
  LET end == Head(Top.ends)
      jumped == Placed(Branch(Graph, current, end), end)
      typed == result # Void
      args == Append(Top.results, Operand(result, Top.ends[4], TRUE))
      g == Transitions(IF typed THEN WithPhi(jumped, end, args) ELSE jumped, end)
  IN  /\ typed <=> Top.results # <<>>
      /\ Becomes(g)
      /\ current' = end
      /\ Close(IF typed THEN Len(jumped.values) + 1 ELSE Void)
      /\ UNCHANGED <<scope, size, writes, wild>>

WhileWithoutElse == In("while", "more") /\ WhileEnds(Void)

WhileEnd == Built("while", "else") /\ WhileEnds(value)

(***************************************************************************)
(* Statements: the operand is built first.                                 *)
(***************************************************************************)
Statement(frame) ==
  /\ StatementNext
  /\ Open(frame)
  /\ IF frame.kind \in {"define", "assign"}
     THEN writes < MaxWrites /\ writes' = writes + 1 ELSE UNCHANGED writes
  /\ UNCHANGED <<blocks, values, current, value, scope, wild>>

DefineBegin(name) ==
  /\ Visible(name) => Shadowing
  /\ Statement([Frame("define", "operand") EXCEPT !.name = name])

AssignBegin(name) ==
  /\ Visible(name)
  /\ Statement([Frame("assign", "operand") EXCEPT !.name = name])

(* A label can be any of the open blocks or loops.                         *)
ReturnBegin(i) ==
  /\ i \in DOMAIN frames /\ frames[i].kind = "block"
  /\ Statement([Frame("return", "operand") EXCEPT !.target = i])

BreakBegin(i) ==
  /\ i \in DOMAIN frames /\ frames[i].kind = "while" /\ frames[i].phase = "body"
  /\ Statement([Frame("break", "operand") EXCEPT !.target = i])

(* The store to an addressed variable uses the value.                      *)
Stored(name) == IF name \in Addressed THEN Used(Graph, current, value, FALSE) ELSE Graph

(* ir_build_definition: an addressed variable is an alloca, a new value.   *)
Define ==
  LET id == Len(values) + 1
      new == Variable(Top.name, id, IF Top.name \in Addressed THEN id ELSE value)
  IN  /\ Built("define", "operand") /\ value # Void
      /\ Becomes([Stored(Top.name) EXCEPT !.blocks[current].vars = Append(@, new),
                                          !.values = Append(@, Leaf)])
      /\ scope' = Append(scope, [name |-> Top.name, id |-> id])
      /\ Close(Pending)
      /\ UNCHANGED <<current, size, writes, wild>>

(* ir_build_assignment; to an addressed variable it is a store.            *)
Assign ==
  LET list == blocks[current].vars
      k == Max({j \in DOMAIN list : list[j].name = Top.name})
  IN  /\ Built("assign", "operand") /\ value # Void
      /\ Becomes(IF Top.name \in Addressed THEN Stored(Top.name)
                 ELSE [Graph EXCEPT !.blocks[current].vars[k].value = value])
      /\ Close(Pending)
      /\ UNCHANGED <<current, scope, size, writes, wild>>

(* The value of an expression that is a statement is not used.             *)
Eval ==
  /\ Built("block", "statements")
  /\ value' = Pending
  /\ UNCHANGED <<blocks, values, current, frames, scope, size, writes, wild>>

(* The value, if any, goes to the phi of the block or loop, the variables  *)
(* with the edge.                                                          *)
Jump ==
  LET i == Top.target
      frame == frames[i]
  IN  /\ Built("return", "operand") \/ Built("break", "operand")
      /\ Becomes(Branch(Graph, current, Head(frame.ends)))
      /\ frames' = Front([frames EXCEPT ![i].results =
                            IF value = Void THEN @
                            ELSE Append(@, Operand(value, current, TRUE))])
      /\ value' = Pending
      /\ UNCHANGED <<current, scope, size, writes, wild>>

(* The variables of the condition's block get an operand for this way; the *)
(* code asserts that they have the same places in the list here.           *)
Continue(i) ==
  LET cond == frames[i].ends[2]
      g == Branch(Graph, current, cond)
      list == blocks[current].vars
      plain == {k \in DOMAIN blocks[cond].vars : blocks[cond].vars[k].name \notin Addressed}
      of(v) == {k \in plain : HeaderOf(blocks[cond], k) = v}
      more(v) == [values[v] EXCEPT
        !.args = Append(@, Operand(list[CHOOSE k \in of(v) : TRUE].value, current, FALSE)),
        !.grown = TRUE]
  IN  /\ "continue" \in Kinds /\ StatementNext /\ size < MaxSize
      /\ i \in DOMAIN frames /\ frames[i].kind = "while" /\ frames[i].phase = "body"
      /\ \A k \in plain : k \in DOMAIN list /\ list[k].name = blocks[cond].vars[k].name
      /\ blocks' = g.blocks
      /\ values' = [v \in DOMAIN values |-> IF of(v) = {} THEN values[v] ELSE more(v)]
      /\ size' = size + 1
      /\ UNCHANGED <<current, frames, value, scope, writes, wild>>

Next ==
  \/ Simple \/ (\E n \in Names : Read(n) \/ Compute(n))
  \/ BlockBegin \/ BlockEnd
  \/ IfBegin \/ IfCondition \/ IfThen \/ IfAgain \/ IfElse \/ IfWithoutElse \/ IfEnd
  \/ WhileBegin \/ WhileCondition \/ WhileBody \/ WhileElse \/ WhileWithoutElse \/ WhileEnd
  \/ (\E n \in Names : DefineBegin(n) \/ AssignBegin(n))
  \/ Define \/ Assign \/ Eval \/ Jump
  \/ (\E i \in DOMAIN frames : ReturnBegin(i) \/ BreakBegin(i) \/ Continue(i))

Spec == Init /\ [][Next]_vars

(***************************************************************************)
(* Properties.                                                             *)
(***************************************************************************)
TypeOK ==
  /\ current \in DOMAIN blocks
  /\ value \in Pending .. Len(values)
  /\ \A b \in DOMAIN blocks :
       /\ Range(blocks[b].preds) \subseteq DOMAIN blocks
       /\ \A k \in DOMAIN blocks[b].vars :
            blocks[b].vars[k].name \in Names /\ blocks[b].vars[k].value \in DOMAIN values
  /\ \A v \in DOMAIN values :
       \A i \in DOMAIN values[v].args : values[v].args[i].from \in DOMAIN blocks
  /\ wild \in BOOLEAN

Done == frames = <<>> /\ value # Pending

(* A name means the innermost definition of it that the program can see.   *)
LookupsAreLexical ==
  LET list == blocks[current].vars
      last(s, name) == s[Max({k \in DOMAIN s : s[k].name = name})].id
  IN  StatementNext =>
        \A name \in {scope[k].name : k \in DOMAIN scope} :
          /\ \E k \in DOMAIN list : list[k].name = name
          /\ last(list, name) = last(scope, name)

(* On every way through the finished function each variable that is known  *)
(* on both sides of a jump keeps its value: the value it has in the target *)
(* is the one it had at the jump, or a phi of the target whose operand for *)
(* this way is that one. This holds where dropping a phi went well.        *)
VariablesFlow ==
  LET meaning == Meaning(values)
  IN  Done /\ ~wild =>
    \A p \in DOMAIN blocks : \A b \in blocks[p].to :
      \A j \in DOMAIN blocks[p].exit : \A entered \in blocks[b].entry :
        LET left == blocks[p].exit[j]
            phi == values[meaning[entered.value]]
            way == {i \in DOMAIN phi.args : phi.args[i].from = p}
        IN  left.id = entered.id =>
              IF phi.at = b
              THEN way # {} /\ \A i \in way : meaning[phi.args[i].value] = meaning[left.value]
              ELSE meaning[entered.value] = meaning[left.value]
==============================================================================
