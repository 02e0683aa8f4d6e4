---------------------------- MODULE CompileScopes -----------------------------
(***************************************************************************)
(* Control flow and the stack frame in the compiler's default backend:     *)
(* compile_function_signature, compile_block, compile_if, compile_while,   *)
(* compile_return, compile_break, compile_continue, compile_definition and *)
(* the expressions that keep an intermediate value on the stack, all of    *)
(* compiler/src/compile.c. The compiler walks the program once and emits   *)
(* code as it goes; sf_pos is where it believes the stack pointer to be    *)
(* relative to the frame pointer, and every jump out of a construct is     *)
(* preceded by the shift that takes the stack pointer where the target     *)
(* expects it.                                                             *)
(*                                                                         *)
(* The walk is the state: a frame for each construct being compiled, and   *)
(* the program is chosen as the walk goes. at follows the stack pointer    *)
(* along the emitted code. A type is its size in words, 0 for void; an     *)
(* expression leaves its value just below the stack pointer.               *)
(***************************************************************************)
EXTENDS Integers, Sequences, SequencesExt

CONSTANTS
  Names,          (* labels in the program                                 *)
  NoName,         (* no label given                                        *)
  MaxWidth,       (* the largest value, in words                           *)
  Families        (* the families of programs, each a record of            *)
                  (*   kinds       the kinds of construct in a program     *)
                  (*   parameters  of a function at most, one word each    *)
                  (*   nest        bound on the depth of the walk          *)
                  (*   words       bound on the stack frame                *)
                  (*   constructs  bound on functions, blocks and loops    *)
                  (*   dead        may statements follow a jump in their   *)
                  (*               block?                                  *)
                  (*   onesided    may a loop's value come from break      *)
                  (*               alone or from else alone?               *)

ASSUME CompileScopesAssumption ==
  /\ NoName \notin Names
  /\ MaxWidth \in Nat \ {0}
  /\ \A f \in Families :
       /\ {f.parameters, f.words, f.nest, f.constructs} \subseteq Nat
       /\ f.kinds \subseteq {"function", "lambda", "block", "if", "while",
                           "operator", "call", "aggregate"}
       /\ {f.dead, f.onesided} \subseteq BOOLEAN

Types == 0 .. MaxWidth
Void == 0
None == -1      (* no value, or the type of a label nothing was sent to    *)
Dead == 1       (* at, where no path leads to the code that is emitted     *)

VARIABLES
  family,         (* the family of the program being compiled              *)
  status,         (* "running", or "rejected" by a semantic error          *)
  frames,         (* the constructs being compiled, the innermost last     *)
  value,          (* the type of the expression just compiled              *)
  variables,      (* context->variables: [phase, size], in words           *)
  block_labels,   (* context->block_labels: [name, id, sf, type]           *)
  loop_labels,    (* context->loop_labels                                  *)
  sf_pos,         (* context->sf_pos, in words                             *)
  branch,         (* context->branch_index: the next construct's id        *)
  at,             (* the stack pointer's real position, or Dead            *)
  jumps           (* jumps emitted to constructs still being compiled      *)

vars == <<family, status, frames, value, variables, block_labels, loop_labels,
          sf_pos, branch, at, jumps>>

Init ==
  /\ family \in Families
  /\ status = "running"
  /\ frames = <<>>
  /\ value = None
  /\ variables = <<>>
  /\ block_labels = <<>>
  /\ loop_labels = <<>>
  /\ sf_pos = 0
  /\ branch = 0
  /\ at = Dead
  /\ jumps = {}

Top == Last(frames)
In(kind, phase) ==
  /\ status = "running"
  /\ frames /= <<>>
  /\ Top.kind = kind /\ Top.phase = phase

(* stack_shift(x): add rsp, x.                                             *)
Shift(x) == IF at = Dead THEN Dead ELSE at + x

(* The function whose code is being emitted.                               *)
FunctionIndex == SelectLastInSeq(frames, LAMBDA f : f.kind = "function")
Function == frames[FunctionIndex].id

Frame(kind, phase, name) ==
  [kind |-> kind, phase |-> phase, name |-> name, id |-> branch, sf |-> sf_pos,
   at |-> Dead, vars |-> <<>>, words |-> 0, type |-> None]

Open(frame) ==
  /\ frame.kind \in family.kinds
  /\ Len(frames) < family.nest
  /\ branch < family.constructs
  /\ frames' = Append(frames, frame)
  /\ branch' = branch + 1

(* The operands of an operator and the arguments of a call need no label.  *)
OpenPlain(frame) ==
  /\ frame.kind \in family.kinds
  /\ Len(frames) < family.nest
  /\ frames' = Append(frames, [frame EXCEPT !.id = None])
  /\ UNCHANGED branch

Becomes(frame) == frames' = ReplaceAt(frames, Len(frames), frame)

(* The walk is about to compile an expression, or another statement. In a *)
(* dead family, also behind the jump that ends a block.                    *)
Reached == family.dead \/ at /= Dead \/ Top.kind /= "block"
ExpressionNext == status = "running" /\ frames /= <<>> /\ value = None /\ Reached

(***************************************************************************)
(* Functions.                                                              *)
(***************************************************************************)
FunctionBegin(n) ==
  /\ status = "running" /\ value = None
  /\ frames = <<>> \/ "lambda" \in family.kinds
  /\ n <= family.words
  /\ Open([Frame("function", "body", NoName) EXCEPT !.at = at, !.vars = variables])
  /\ variables' = [i \in 1 .. n |-> [phase |-> -i, size |-> 1]]
  /\ sf_pos' = -n
  /\ at' = -n
  /\ UNCHANGED <<family, status, value, block_labels, loop_labels, jumps>>

(* The frame is unwound; a lambda's value is its label.                    *)
FunctionEnd ==
  /\ In("function", "body") /\ value /= None
  /\ frames' = Front(frames)
  /\ variables' = Top.vars
  /\ sf_pos' = Top.sf
  /\ at' = Top.at
  /\ value' = IF Len(frames) = 1 THEN None ELSE 1
  /\ UNCHANGED <<family, status, block_labels, loop_labels, branch, jumps>>

(***************************************************************************)
(* Labels. A name is looked up from the innermost label outwards; no name  *)
(* is the last label.                                                      *)
(***************************************************************************)
Label(name) == [name |-> name, id |-> branch, sf |-> sf_pos, type |-> None]

FindOutermost(labels, name) ==         \* a slip: searched from the outside
  SelectInSeq(labels, LAMBDA l : name = NoName \/ l.name = name)
Find(labels, name) ==
  SelectLastInSeq(labels, LAMBDA l : name = NoName \/ l.name = name)

(* Code after a label: reached from above, or by the jumps to it.          *)
Landing(id, above) ==
  LET here == {j \in jumps : j.to = id /\ j.place = "end"}
  IN  IF above /= Dead THEN above
      ELSE IF here = {} THEN Dead ELSE (CHOOSE j \in here : TRUE).depth

Landed(id) == {j \in jumps : j.to /= id}

(* x86_64_compile_memcpy: words are copied one by one, upwards. The words  *)
(* of the value are numbered from 1.                                       *)
Copy(dst, src, n) ==
  LET Words   == -2 * family.words - MaxWidth .. family.words
      before  == [w \in Words |-> IF w \in src .. src + n - 1 THEN w - src + 1 ELSE 0]
      after[k \in 0 .. n] ==
        IF k = 0 THEN before
        ELSE [after[k - 1] EXCEPT ![dst + k - 1] = after[k - 1][src + k - 1]]
  IN  [i \in 1 .. n |-> after[n][dst + i - 1]]

(* The jump to a label of a value of the given size, after the copy and    *)
(* the shift. Code no path leads to jumps nowhere.                         *)
JumpNoShift(label, place, size) ==     \* a slip: rsp is left as it is
  jumps' = IF at = Dead THEN jumps
           ELSE jumps \cup
             {[to |-> label.id, place |-> place, from |-> Function,
               depth |-> at,
               words |-> Copy(label.sf - size, sf_pos - size, size)]}
Jump(label, place, size) ==
  jumps' = IF at = Dead THEN jumps
           ELSE jumps \cup
             {[to |-> label.id, place |-> place, from |-> Function,
               depth |-> Shift(label.sf - sf_pos),
               words |-> Copy(label.sf - size, sf_pos - size, size)]}

(* The jump from the end of an if's or a while's block.                    *)
JumpPlain(place) == Jump([id |-> Top.id, sf |-> sf_pos], place, 0)

(* Value of type t sent to the label at i: the first value sends its type. *)
Agrees(labels, i, t) == labels[i].type \in {None, t}
Typed(labels, i, t) == ReplaceAt(labels, i, [labels[i] EXCEPT !.type = t])

(***************************************************************************)
(* Blocks.                                                                 *)
(***************************************************************************)
BlockBegin(name) ==
  /\ ExpressionNext
  /\ Open([Frame("block", "statements", name) EXCEPT !.vars = variables])
  /\ block_labels' = Append(block_labels, Label(name))
  /\ UNCHANGED <<family, status, value, variables, loop_labels, sf_pos, at, jumps>>

BlockEndKeepsVariables ==              \* a slip: the variables stay visible
  /\ In("block", "statements") /\ value = None
  /\ at' = Landing(Top.id, Shift(Top.sf - sf_pos))
  /\ sf_pos' = Top.sf
  /\ value' = IF Last(block_labels).type = None THEN Void ELSE Last(block_labels).type
  /\ block_labels' = Front(block_labels)
  /\ jumps' = Landed(Top.id)
  /\ frames' = Front(frames)
  /\ UNCHANGED <<family, status, variables, loop_labels, branch>>
BlockEndNoShift ==                     \* a slip: the stack pointer stays
  /\ In("block", "statements") /\ value = None
  /\ at' = Landing(Top.id, at)
  /\ sf_pos' = Top.sf
  /\ variables' = SubSeq(variables, 1, Len(Top.vars))
  /\ value' = IF Last(block_labels).type = None THEN Void ELSE Last(block_labels).type
  /\ block_labels' = Front(block_labels)
  /\ jumps' = Landed(Top.id)
  /\ frames' = Front(frames)
  /\ UNCHANGED <<family, status, loop_labels, branch>>
BlockEnd ==
  /\ In("block", "statements") /\ value = None
  /\ at' = Landing(Top.id, Shift(Top.sf - sf_pos))
  /\ sf_pos' = Top.sf
  /\ variables' = SubSeq(variables, 1, Len(Top.vars))
  /\ value' = IF Last(block_labels).type = None THEN Void ELSE Last(block_labels).type
  /\ block_labels' = Front(block_labels)
  /\ jumps' = Landed(Top.id)
  /\ frames' = Front(frames)
  /\ UNCHANGED <<family, status, loop_labels, branch>>

(* error_semantic: the compiler stops.                                     *)
Reject ==
  /\ status' = "rejected"
  /\ UNCHANGED <<family, frames, value, variables, block_labels, loop_labels,
                 sf_pos,
                 branch, at, jumps>>

Return(name) ==
  /\ In("block", "statements") /\ value /= None
  /\ LET i == Find(block_labels, name)
     IN  IF i = 0 \/ ~Agrees(block_labels, i, value)
         THEN Reject
         ELSE /\ block_labels' = Typed(block_labels, i, value)
              /\ Jump(block_labels[i], "end", value)
              /\ at' = Dead
              /\ value' = None
              /\ UNCHANGED <<family, status, frames, variables, loop_labels,
                             sf_pos, branch>>

(***************************************************************************)
(* Definitions, and statements that drop the value of an expression. (A    *)
(* definition of void takes no place and is left out.)                     *)
(***************************************************************************)
DefineUpwards(t) ==                    \* a slip: the frame grows down
  /\ In("block", "statements") /\ value \in {None, t} /\ (value = None => Reached)
  /\ sf_pos - t >= -family.words
  /\ variables' = Append(variables, [phase |-> sf_pos, size |-> t])
  /\ sf_pos' = sf_pos + t
  /\ at' = Shift(-t)
  /\ value' = None
  /\ UNCHANGED <<family, status, frames, block_labels, loop_labels, branch, jumps>>
Define(t) ==
  /\ In("block", "statements") /\ value \in {None, t} /\ (value = None => Reached)
  /\ sf_pos - t >= -family.words
  /\ variables' = Append(variables, [phase |-> sf_pos - t, size |-> t])
  /\ sf_pos' = sf_pos - t
  /\ at' = Shift(-t)
  /\ value' = None
  /\ UNCHANGED <<family, status, frames, block_labels, loop_labels, branch, jumps>>

Discard ==
  /\ In("block", "statements") /\ value /= None
  /\ value' = None
  /\ UNCHANGED <<family, status, frames, variables, block_labels, loop_labels,
                 sf_pos,
                 branch, at, jumps>>

(* An identifier, a constant or anything else compiled in place.           *)
Simple(t) ==
  /\ ExpressionNext
  /\ value' = t
  /\ UNCHANGED <<family, status, frames, variables, block_labels, loop_labels,
                 sf_pos,
                 branch, at, jumps>>

(***************************************************************************)
(* if: each block jumps behind the whole, the next condition or the else   *)
(* follows the condition that failed.                                      *)
(***************************************************************************)
IfBegin ==
  /\ ExpressionNext
  /\ Open(Frame("if", "condition", NoName))
  /\ UNCHANGED <<family, status, value, variables, block_labels, loop_labels,
                 sf_pos, at, jumps>>

IfCondition ==
  /\ In("if", "condition") /\ value /= None
  /\ Becomes([Top EXCEPT !.phase = "block", !.at = at])
  /\ value' = None
  /\ UNCHANGED <<family, status, variables, block_labels, loop_labels, sf_pos,
                 branch, at, jumps>>

(* The last label of an if, where its blocks meet.                         *)
Close(above, type) ==
  /\ frames' = Front(frames)
  /\ at' = Landing(Top.id, above)
  /\ jumps' = Landed(Top.id)
  /\ value' = type

IfBlock ==                             \* another condition or the else follows
  /\ In("if", "block") /\ value /= None
  /\ IF Top.type \notin {None, value} THEN Reject
     ELSE /\ \E phase \in {"condition", "else"} :
               Becomes([Top EXCEPT !.phase = phase, !.type = value])
          /\ JumpPlain("end")
          /\ at' = Top.at
          /\ value' = None
          /\ UNCHANGED <<family, status, variables, block_labels, loop_labels,
                         sf_pos, branch>>

IfLastBlock ==
  /\ In("if", "block") /\ value /= None
  /\ IF Top.type \notin {None, value} \/ value /= Void THEN Reject
     ELSE /\ Close(IF Top.at = Dead THEN at ELSE Top.at, Void)
          /\ UNCHANGED <<family, status, variables, block_labels, loop_labels,
                         sf_pos, branch>>

IfElse ==
  /\ In("if", "else") /\ value /= None
  /\ IF Top.type /= value THEN Reject
     ELSE /\ Close(at, value)
          /\ UNCHANGED <<family, status, variables, block_labels, loop_labels,
                         sf_pos, branch>>

(***************************************************************************)
(* while. The label stays behind when the loop takes its value from break  *)
(* alone or from else alone: compile_while returns before its vpop.        *)
(***************************************************************************)
WhileBegin(name) ==
  /\ ExpressionNext
  /\ Open(Frame("while", "condition", name))
  /\ loop_labels' = Append(loop_labels, Label(name))
  /\ UNCHANGED <<family, status, value, variables, block_labels, sf_pos, at, jumps>>

WhileCondition ==
  /\ In("while", "condition") /\ value /= None
  /\ Becomes([Top EXCEPT !.phase = "block", !.at = at])
  /\ value' = None
  /\ UNCHANGED <<family, status, variables, block_labels, loop_labels, sf_pos,
                 branch, at, jumps>>

OwnLabel == SelectLastInSeq(loop_labels, LAMBDA l : l.id = Top.id)

WhileEnd(above, type_else) ==
  LET type == loop_labels[OwnLabel].type
      void == {None, Void}
  IN  /\ UNCHANGED <<family, variables, block_labels, sf_pos, branch>>
      /\ \/ /\ type \in void /\ type_else \in void
            /\ Close(above, Void)
            /\ loop_labels' = Front(loop_labels)
            /\ UNCHANGED status
         \/ /\ type \notin void /\ type = type_else
            /\ Close(above, type)
            /\ loop_labels' = Front(loop_labels)
            /\ UNCHANGED status
         \/ /\ family.onesided
            /\ \/ type \notin void /\ type_else = None
               \/ type = None /\ type_else \notin void
            /\ Close(above, IF type = None THEN type_else ELSE type)
            /\ UNCHANGED <<status, loop_labels>>
         \/ /\ None \notin {type, type_else} /\ type /= type_else
            /\ Reject

WhileBlock ==                          \* the else follows
  /\ In("while", "block") /\ value /= None
  /\ Becomes([Top EXCEPT !.phase = "else"])
  /\ JumpPlain("begin")
  /\ at' = Top.at
  /\ value' = None
  /\ UNCHANGED <<family, status, variables, block_labels, loop_labels, sf_pos,
                 branch>>

WhileWithoutElse == In("while", "block") /\ value /= None /\ WhileEnd(Top.at, None)
WhileElse == In("while", "else") /\ value /= None /\ WhileEnd(at, value)

Break(name) ==
  /\ In("block", "statements") /\ value /= None
  /\ LET i == Find(loop_labels, name)
     IN  IF i = 0 \/ ~Agrees(loop_labels, i, value)
         THEN Reject
         ELSE /\ loop_labels' = Typed(loop_labels, i, value)
              /\ Jump(loop_labels[i], "end", value)
              /\ at' = Dead
              /\ value' = None
              /\ UNCHANGED <<family, status, frames, variables, block_labels,
                             sf_pos, branch>>

Continue(name) ==
  /\ In("block", "statements") /\ value = None /\ Reached
  /\ LET i == Find(loop_labels, name)
     IN  IF i = 0
         THEN Reject
         ELSE /\ Jump(loop_labels[i], "begin", 0)
              /\ at' = Dead
              /\ UNCHANGED <<family, status, frames, value, variables, block_labels,
                             loop_labels, sf_pos, branch>>

(***************************************************************************)
(* Intermediate values: the stack pointer is moved over a value that has   *)
(* to outlive the next expression, and moved back when all are there.      *)
(***************************************************************************)
Keep(phase, n) ==
  /\ sf_pos - n >= -family.words
  /\ Becomes([Top EXCEPT !.phase = phase, !.words = @ + n])
  /\ sf_pos' = sf_pos - n
  /\ at' = Shift(-n)
  /\ value' = None
  /\ UNCHANGED <<family, status, variables, block_labels, loop_labels, branch,
                 jumps>>

Collect(n, result) ==
  /\ frames' = Front(frames)
  /\ sf_pos' = sf_pos + n
  /\ at' = Shift(n)
  /\ value' = result
  /\ UNCHANGED <<family, status, variables, block_labels, loop_labels, branch,
                 jumps>>

Begin(kind, phase) ==
  /\ ExpressionNext
  /\ OpenPlain(Frame(kind, phase, NoName))
  /\ UNCHANGED <<family, status, value, variables, block_labels, loop_labels,
                 sf_pos, at, jumps>>

(* Arithmetic with two operands, an index, a movement through a pointer.   *)
OperatorBegin == Begin("operator", "left")
OperatorLeft == In("operator", "left") /\ value = 1 /\ Keep("right", 1)
OperatorRight == In("operator", "right") /\ value /= None /\ Collect(1, 1)

(* A call keeps the function and each argument, one word each; a method    *)
(* call leaves the function's place free until it knows the caller's type. *)
CallBegin == Begin("call", "function")
MethodBegin == In("call", "function") /\ value = None /\ Top.words = 0 /\ Keep("function", 1)
CallKeep == In("call", "function") /\ value = 1 /\ Keep("arguments", 1)
CallArgument == In("call", "arguments") /\ value = 1 /\ Keep("arguments", 1)
CallEnd ==
  /\ In("call", "arguments") /\ value = None
  /\ Collect(Top.words, 1)

(* An array or a structure keeps its elements and then packs them.         *)
AggregateBegin == Begin("aggregate", "elements")
AggregateElement ==
  /\ In("aggregate", "elements") /\ value /= None
  /\ Keep("elements", value)
AggregateEnd ==
  /\ In("aggregate", "elements") /\ value = None /\ Top.words > 0
  /\ \E result \in 1 .. MaxWidth : result <= Top.words /\ Collect(Top.words, result)

Next ==
  \/ \E n \in 0 .. family.parameters : FunctionBegin(n)
  \/ FunctionEnd
  \/ \E t \in Types : Simple(t)
  \/ \E t \in 1 .. MaxWidth : Define(t)
  \/ \E name \in Names \cup {NoName} :
       \/ BlockBegin(name) \/ Return(name)
       \/ WhileBegin(name) \/ Break(name) \/ Continue(name)
  \/ BlockEnd \/ Discard
  \/ IfBegin \/ IfCondition \/ IfBlock \/ IfLastBlock \/ IfElse
  \/ WhileCondition \/ WhileBlock \/ WhileWithoutElse \/ WhileElse
  \/ OperatorBegin \/ OperatorLeft \/ OperatorRight
  \/ CallBegin \/ MethodBegin \/ CallKeep \/ CallArgument \/ CallEnd
  \/ AggregateBegin \/ AggregateElement \/ AggregateEnd

Spec == Init /\ [][Next]_vars

-------------------------------------------------------------------------------
Ids == 0 .. family.constructs - 1
Positions == -family.words .. 0
Labels == Seq([name : Names \cup {NoName}, id : Ids, sf : Positions, type : Types \cup {None}])
Variables == Seq([phase : Positions, size : Types])

(* The state is well formed; the stack never rises above the frame.        *)
TypeOK ==
  /\ status \in {"running", "rejected"}
  /\ \A i \in DOMAIN frames :
       /\ frames[i].kind \in family.kinds
       /\ frames[i].id \in Ids \cup {None}
       /\ frames[i].sf \in Positions
       /\ frames[i].at \in Positions \cup {Dead}
       /\ frames[i].words \in 0 .. family.words
  /\ Len(frames) <= family.nest
  /\ value \in Types \cup {None}
  /\ variables \in Variables
  /\ block_labels \in Labels /\ loop_labels \in Labels
  /\ sf_pos \in Positions
  /\ branch \in 0 .. family.constructs
  /\ at \in Positions \cup {Dead}

(* Wherever execution can reach the code being emitted, by any path        *)
(* through blocks, loops, jumps and calls, the stack pointer is where      *)
(* sf_pos says it is: every access through [rsp - 8] meets the value the   *)
(* compiler put there.                                                     *)
Balanced == at /= Dead => at = sf_pos

(* The words of the current function's frame that hold something: its      *)
(* visible variables and the values kept for operators and calls.          *)
VariableSlots(i) == variables[i].phase .. variables[i].phase + variables[i].size - 1
KeptSlots(i) == frames[i].sf - frames[i].words .. frames[i].sf - 1
Kept == {i \in FunctionIndex + 1 .. Len(frames) : frames[i].words > 0}

(* No two live words share a place and none lies below the stack pointer,  *)
(* where the next expression is built: an inner scope, left by whichever   *)
(* path, gives back exactly its own words.                                 *)
LiveSlots ==
  /\ \A i \in DOMAIN variables : VariableSlots(i) \subseteq sf_pos .. -1
  /\ \A i \in Kept : KeptSlots(i) \subseteq sf_pos .. -1
  /\ \A i, j \in DOMAIN variables : i /= j => VariableSlots(i) \cap VariableSlots(j) = {}
  /\ \A i, j \in Kept : i /= j => KeptSlots(i) \cap KeptSlots(j) = {}
  /\ \A i \in DOMAIN variables, j \in Kept : VariableSlots(i) \cap KeptSlots(j) = {}

(* Every jump still waiting for its label goes to a construct that is      *)
(* open in the function that jumps, and arrives with the stack pointer     *)
(* where that construct began, however deep it left from.                  *)
Plain == "lambda" \notin family.kinds /\ ~family.onesided
JumpsBalanced ==
  Plain => \A j \in jumps :
    \E i \in DOMAIN frames :
      /\ frames[i].kind \in {"block", "if", "while"} /\ frames[i].id = j.to
      /\ frames[SelectLastInSubSeq(frames, 1, i, LAMBDA f : f.kind = "function")].id = j.from
      /\ j.depth = frames[i].sf

(* What a label resolves to is the innermost construct of that name around *)
(* the jump, in the function that contains it: "We can use `break` and     *)
(* `continue` not only to nearest loop, but also to given labeled loop"    *)
(* (test/unit/while.al). It relates the label stacks, which are vectors    *)
(* pushed and popped by hand, to the nesting of the program.               *)
Innermost(kind, name) ==
  SelectLastInSubSeq(frames, FunctionIndex, Len(frames),
                     LAMBDA f : f.kind = kind /\ (name = NoName \/ f.name = name))
Lexical(labels, kind, name) ==
  LET found == Find(labels, name)
      wanted == Innermost(kind, name)
  IN  IF wanted = 0 THEN found = 0
      ELSE found /= 0 /\ labels[found].id = frames[wanted].id
LabelsAreLexical ==
  Plain /\ frames /= <<>> /\ Top.kind = "block" =>
    \A name \in Names \cup {NoName} :
      Lexical(block_labels, "block", name) /\ Lexical(loop_labels, "while", name)

(* A value sent out of a block or a loop arrives whole: word i of what the *)
(* target finds is word i of what was sent.                                *)
ReturnedIntact == \A j \in jumps : \A i \in DOMAIN j.words : j.words[i] = i

==============================================================================
