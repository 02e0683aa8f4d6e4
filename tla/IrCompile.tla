------------------------------ MODULE IrCompile -------------------------------
(***************************************************************************)
(* What compiler/src/ir_compile_x86_64.c writes for a function with one    *)
(* instruction, and what the processor does with it. The function has two  *)
(* arguments x and y, two variables in memory a and b, the constant c, and *)
(* the function f, and it computes v. x, y and v live in registers or on   *)
(* the stack, wherever find_register left them.                            *)
(*                                                                         *)
(* An instruction is compiled by a few moves to and from the scratch       *)
(* registers: held is node->reg, the register each node is in while the    *)
(* text of the instruction is written. Values are words; text is a         *)
(* sequence of the machine's instructions.                                 *)
(***************************************************************************)
EXTENDS Machine

CONSTANTS
  Homes,   (* registers a value may live in                                *)
  Data,    (* values of x, y and c, as triples                             *)
  Kinds,   (* the instructions of the intermediate representation          *)
  Beyond   (* what is chosen although it is known to go wrong: "negative"  *)
           (* quotients and shifts, "shift" by a value, "scale" of         *)
           (* sixteen, "wide" stores to where a register points            *)

ASSUME IrCompileAssumption ==
  /\ Homes \subseteq {Given[i] : i \in DOMAIN Given}
  /\ Data \subseteq Words \X Words \X Words
  /\ Beyond \subseteq {"negative", "shift", "scale", "wide"}

VARIABLES
  home,      (* where x, y and v live: a register, or the stack            *)
  number,    (* the constant                                               *)
  kind,      (* the instruction                                            *)
  left,      (* and what it is computed from                               *)
  right,
  machine,   (* the processor and its memory                               *)
  code,      (* what is still to be executed                               *)
  phase,     (* "prologue", "body", "epilogue"                             *)
  before     (* the machine before the instruction                         *)

vars == <<home, number, kind, left, right, machine, code, phase, before>>

Arguments == <<"x", "y">>
Values == {"x", "y", "v"}
Allocas == {"a", "b"}
Nodes == Values \cup Allocas \cup {"c", "f"}

(***************************************************************************)
(* The stack frame.                                                        *)
(***************************************************************************)
Saved == <<"r12", "r13", "r14", "r15">>
CallRegs == <<"rdi", "rsi", "rdx", "rcx">>
AllocaSize == 16

(* A variable in memory has its bytes and, below them, a word with their   *)
(* address, a value on the stack has a word.                               *)
DataPhase(n) == IF n = "a" THEN -32 - AllocaSize ELSE -32 - (2 * AllocaSize) - 8
Spilled(n) == n \in Allocas \/ (n \in Values /\ home[n] = NoName)

Room(n) == IF Spilled(n) THEN 8 ELSE 0
PhaseAfter(n) ==
  CASE n \in Allocas -> DataPhase(n) - 8
    [] n = "x" -> DataPhase("b") - 8 - Room("x")
    [] n = "y" -> DataPhase("b") - 8 - Room("x") - Room("y")
    [] n = "v" -> DataPhase("b") - 8 - Room("x") - Room("y") - Room("v")
Unset == 0   (* the stack_phase of a node that is in a register            *)

StackPhase(n) == IF Spilled(n) THEN PhaseAfter(n) ELSE Unset

FrameSize == PhaseAfter("v")

Push(r) == Instruction("push", Reg(r), Nothing)
Pop(r) == Instruction("pop", Reg(r), Nothing)
Move(to, of) == Instruction("mov", to, of)

AllocaText(n) ==
  <<Instruction("lea", Reg("rax"), At("rbp", DataPhase(n))),
    Move(At("rbp", StackPhase(n)), Reg("rax"))>>

ArgumentText(i) ==
  LET n == Arguments[i]
  IN  Move(IF Spilled(n) THEN At("rbp", StackPhase(n)) ELSE Reg(home[n]), Reg(CallRegs[i]))

Prologue ==
  <<Push("rbp"), Move(Reg("rbp"), Reg("rsp"))>>
    \o [i \in DOMAIN Saved |-> Push(Saved[i])]
    \o AllocaText("a") \o AllocaText("b")
    \o [i \in DOMAIN Arguments |-> ArgumentText(i)]
    \o <<Instruction("add", Reg("rsp"), Number(FrameSize))>>

(***************************************************************************)
(* Steps of writing an instruction.                                        *)
(***************************************************************************)
Step(do, n, r, i) == [do |-> do, node |-> n, name |-> r, text |-> i]
None == Instruction("none", Nothing, Nothing)

ToReg(n, r) == Step("to_reg", n, r, None)
OccupyReg(n, r) == Step("occupy_reg", n, r, None)
FromReg(n) == Step("from_reg", n, NoName, None)
FreeReg(n) == Step("free_reg", n, NoName, None)
Write(op, to, of) == Step("write", "v", NoName, Instruction(op, to, of))
WriteOne(op, to) == Write(op, to, Nothing)
LoadRax(n) == Step("load_rax", n, NoName, None)

(* An operand that is printed as the node; registers of operands may be    *)
(* named by the node that is in them.                                      *)
V(n) == [in |-> "node", name |-> n, index |-> NoName, scale |-> 1, at |-> 0]

(* ir_print_value.                                                         *)
Printed(held, n) ==
  CASE held[n] # NoName -> Reg(held[n])
    [] held[n] = NoName /\ n = "c" -> Number(number)
    [] held[n] = NoName /\ n = "f" -> Number(Function)
    [] OTHER -> At("rbp", StackPhase(n))

Named(held, name) == IF name \in Nodes THEN held[name] ELSE name
Resolved(held, operand) ==
  IF operand.in = "node" THEN Printed(held, operand.name)
  ELSE [operand EXCEPT !.name = Named(held, @), !.index = Named(held, @)]

Loose(n) == Spilled(n) \/ n \in {"c", "f"}
Stored(n) == Printed([m \in Nodes |-> NoName], n)

(* to_reg, occupy_reg, from_reg and free_reg; e = [text, held] is what is  *)
(* written so far. A value in a register of its own stays there.           *)
Take(e, s) ==
  LET n == s.node
      text == Instruction(s.text.op, Resolved(e.held, s.text.to), Resolved(e.held, s.text.of))
      holding(r) == IF Loose(n) THEN [e EXCEPT !.held[n] = r] ELSE e
      writing(f, i) == [f EXCEPT !.text = Append(@, i)]
  IN  CASE s.do = "to_reg" ->
             IF Loose(n) THEN writing(holding(s.name), Move(Reg(s.name), Stored(n))) ELSE e
        [] s.do = "occupy_reg" -> IF Spilled(n) THEN holding(s.name) ELSE e
        [] s.do = "from_reg" ->
             IF Spilled(n) THEN writing(holding(NoName), Move(Stored(n), Reg(e.held[n])))
             ELSE holding(NoName)
        [] s.do = "free_reg" -> holding(NoName)
        [] s.do = "load_rax" ->
             IF e.held[n] # "rax" THEN writing(e, Move(Reg("rax"), Printed(e.held, n))) ELSE e
        [] s.do = "write" -> writing(e, text)

Blank == [text |-> <<>>, held |-> [n \in Nodes |-> IF n \in Values THEN home[n] ELSE NoName]]

Writing(steps) ==
  LET after[k \in 0 .. Len(steps)] == IF k = 0 THEN Blank ELSE Take(after[k - 1], steps[k])
  IN  after

Text(steps) == Writing(steps)[Len(steps)].text

(***************************************************************************)
(* ir_compile_value: the steps for each kind of instruction.               *)
(***************************************************************************)
GepSizes == [GEP8 |-> 8, GEP16 |-> 16, GEP24 |-> 24]

Gep(size, base, index) ==
  <<OccupyReg("v", "rdx"), ToReg(base, "rcx"), ToReg(index, "rax")>>
    \o (IF size \in {1, 2, 4, 8, 16}
        THEN <<Write("lea", V("v"), Indexed(base, index, size, 0))>>
        ELSE <<Write("mov", Reg("rax"), Reg(index)), Write("mov", Reg("rdi"), Number(size)),
               WriteOne("mul", Reg("rdi")), Write("lea", V("v"), Indexed(base, "rax", 1, 0))>>)
    \o <<FromReg("v"), FreeReg(base), FreeReg(index)>>

FieldPhase == 8

Sgep(instance) ==
  <<OccupyReg("v", "rax"), ToReg(instance, "rdx"),
    Write("lea", V("v"), At(instance, FieldPhase)), FromReg("v"), FreeReg(instance)>>

Load(src) ==
  <<OccupyReg("v", "rcx"), ToReg(src, "rdx"), Write("mov", Reg("rax"), At(src, 0)),
    Write("mov", Reg("v"), Reg("rax")), FromReg("v"), FreeReg(src)>>

Store(dst, src) ==
  <<ToReg(dst, "rax"), ToReg(src, "rdx"), Write("mov", At(dst, 0), Reg(src)),
    FreeReg(dst), FreeReg(src)>>

StoreWide(dst, src) ==
  <<Write("mov", Reg("rdi"), At("rbp", StackPhase(dst))),
    Write("mov", Reg("rsi"), At("rbp", StackPhase(src))),
    Write("mov", Reg("rcx"), Number(AllocaSize)),
    WriteOne("repe_movsb", Nothing)>>

(* What a call of some number of arguments is given, in their order.       *)
Passed == [Call2 |-> <<"y", "x">>, Call4 |-> <<"c", "x", "y", "x">>]
Kept == <<"r8", "r9", "r10", "r11">>

(* A slip: what is in the registers that a function may use for itself is  *)
(* not put aside.                                                          *)
CallKeepsNothing(function, arguments) ==
  [i \in DOMAIN arguments |-> Write("mov", Reg(CallRegs[i]), V(arguments[i]))]
    \o <<WriteOne("call", V(function)), Write("mov", V("v"), Reg("rax"))>>

Call(function, arguments) ==
  [i \in DOMAIN arguments |-> Write("mov", Reg(CallRegs[i]), V(arguments[i]))]
    \o [i \in DOMAIN Kept |-> WriteOne("push", Reg(Kept[i]))]
    \o <<WriteOne("call", V(function))>>
    \o [i \in DOMAIN Kept |-> WriteOne("pop", Reg(Kept[Len(Kept) + 1 - i]))]
    \o <<Write("mov", V("v"), Reg("rax"))>>

(* A br to a block where v is a phi of src.                                *)
Br(src) ==
  (IF Spilled("v") /\ Spilled(src)
   THEN <<OccupyReg("v", "rax"), Write("mov", V("v"), At("rbp", StackPhase(src))), FromReg("v")>>
   ELSE <<Write("mov", V("v"), V(src))>>)
    \o <<WriteOne("jmp_then", Nothing)>>

CondBr(condition) ==
  IF condition = "c"
  THEN <<WriteOne(IF number = 0 THEN "jmp_else" ELSE "jmp_then", Nothing)>>
  ELSE <<Write("cmp", V(condition), Number(0)), WriteOne("jne_then", Nothing),
         WriteOne("jmp_else", Nothing)>>

(* A slip: popped in the order of pushing.                                 *)
RetInOrder(n) ==
  <<Write("mov", Reg("rax"), V(n)), Write("sub", Reg("rsp"), Number(FrameSize))>>
    \o [i \in DOMAIN Saved |-> WriteOne("pop", Reg(Saved[i]))]
    \o <<WriteOne("pop", Reg("rbp")), WriteOne("ret", Nothing)>>

Ret(n) ==
  <<Write("mov", Reg("rax"), V(n)), Write("sub", Reg("rsp"), Number(FrameSize))>>
    \o [i \in DOMAIN Saved |-> WriteOne("pop", Reg(Saved[Len(Saved) + 1 - i]))]
    \o <<WriteOne("pop", Reg("rbp")), WriteOne("ret", Nothing)>>

Logical(op, l, r) ==
  <<OccupyReg("v", "rax"), ToReg(l, "rcx"), ToReg(r, "rdx"),
    Write("xor", Reg("rdi"), Reg("rdi")), Write("xor", Reg("rsi"), Reg("rsi")),
    Write("cmp", V(l), Number(0)), WriteOne("setne", Reg("rdi")),
    Write("cmp", V(r), Number(0)), WriteOne("setne", Reg("rsi")),
    Write(op, Reg("rdi"), Reg("rsi")), Write("mov", V("v"), Reg("rdi")),
    FromReg("v"), FreeReg(l), FreeReg(r)>>

Not(r) ==
  <<OccupyReg("v", "rax"), ToReg(r, "rdx"), Write("xor", Reg("rsi"), Reg("rsi")),
    Write("cmp", V(r), Number(0)), WriteOne("sete", Reg("rsi")),
    Write("mov", V("v"), Reg("rsi")), FromReg("v"), FreeReg(r)>>

Binary(op, l, r) ==
  <<OccupyReg("v", "rax"), Write("mov", V("v"), V(l)), Write(op, V("v"), V(r)), FromReg("v")>>

Unary(op, r) ==
  <<OccupyReg("v", "rax"), Write("mov", V("v"), V(r)), WriteOne(op, V("v")), FromReg("v")>>

Multiplication(l, r) ==
  <<OccupyReg("v", "rcx"), ToReg(l, "rax"), ToReg(r, "rdx"), LoadRax(l),
    WriteOne("mul", V(r)), Write("mov", V("v"), Reg("rax")),
    FromReg("v"), FreeReg(l), FreeReg(r)>>

(* A slip: rdx, which the dividend goes on in, is not cleared.             *)
QuotientKeepsRdx(result, l, r) ==
  <<OccupyReg("v", "rcx"), ToReg(l, "rax"), ToReg(r, "rdi"), LoadRax(l),
    WriteOne("div", Reg(r)), Write("mov", Reg("v"), Reg(result)),
    FromReg("v"), FreeReg(l), FreeReg(r)>>

Quotient(result, l, r) ==
  <<OccupyReg("v", "rcx"), ToReg(l, "rax"), ToReg(r, "rdi"), LoadRax(l),
    Write("xor", Reg("rdx"), Reg("rdx")), WriteOne("div", Reg(r)),
    Write("mov", Reg("v"), Reg(result)), FromReg("v"), FreeReg(l), FreeReg(r)>>

(* A slip: the left operand is compared where it is.                       *)
ComparisonInPlace(set, l, r) ==
  <<Write("xor", Reg("rax"), Reg("rax")), Write("cmp", V(l), V(r)),
    WriteOne(set, Reg("rax")), Write("mov", V("v"), Reg("rax"))>>

Comparison(set, l, r) ==
  <<Write("xor", Reg("rax"), Reg("rax")), ToReg(l, "rcx"), Write("cmp", V(l), V(r)),
    FreeReg(l), WriteOne(set, Reg("rax")), Write("mov", V("v"), Reg("rax"))>>

BinaryOps == [BitwiseAnd |-> "and", BitwiseOr |-> "or", BitwiseXor |-> "xor",
              Addition |-> "add", Subtraction |-> "sub",
              ShiftLeft |-> "shl", ShiftRight |-> "shr"]
UnaryOps == [BitwiseNot |-> "not", Minus |-> "neg"]
SetOps == [Less |-> "setl", Greater |-> "setg", Equal |-> "sete", LessEqual |-> "setle",
           GreaterEqual |-> "setge", NotEqual |-> "setne"]

ValueSteps(k, l, r) ==
  CASE k \in DOMAIN GepSizes -> Gep(GepSizes[k], l, r)
    [] k = "SGEP" -> Sgep(l)
    [] k = "Load" -> Load(l)
    [] k = "Store" -> Store(l, r)
    [] k = "StoreWide" -> StoreWide(l, r)
    [] k \in DOMAIN Passed -> Call(l, Passed[k])
    [] k = "Br" -> Br(l)
    [] k = "CondBr" -> CondBr(l)
    [] k = "And" -> Logical("and", l, r)
    [] k = "Or" -> Logical("or", l, r)
    [] k = "Not" -> Not(r)
    [] k \in DOMAIN BinaryOps -> Binary(BinaryOps[k], l, r)
    [] k \in DOMAIN UnaryOps -> Unary(UnaryOps[k], r)
    [] k = "Multiplication" -> Multiplication(l, r)
    [] k = "Division" -> Quotient("rax", l, r)
    [] k = "Modulo" -> Quotient("rdx", l, r)
    [] k \in DOMAIN SetOps -> Comparison(SetOps[k], l, r)

Operators == {"And", "Or", "Not", "Multiplication", "Division", "Modulo"}
               \cup DOMAIN BinaryOps \cup DOMAIN UnaryOps \cup DOMAIN SetOps
AllKinds == Operators \cup DOMAIN GepSizes \cup DOMAIN Passed
              \cup {"SGEP", "Load", "Store", "StoreWide", "Br", "CondBr"}

ASSUME KindsAssumption == Kinds \subseteq AllKinds

(***************************************************************************)
(* The function is entered, computes v, and returns it.                    *)
(***************************************************************************)
Stack == 2048                          (* the caller's                     *)
CallerCell == Stack + 32               (* a variable of the caller         *)
Cells == {a \in 1824 .. 2088 : a % 8 = 0}

(* Before the function, each register and cell has a content of its own.   *)
Caller(x, y) ==
  [reg |-> [r \in RegisterNames |->
              CASE r = "rdi" -> x [] r = "rsi" -> y [] r = "rsp" -> Stack
                [] r \in Scratch \cup {"rbp"} -> 1001
                [] OTHER -> 1001 + CHOOSE i \in DOMAIN Given : Given[i] = r],
   mem |-> [a \in Cells |-> a + 1], compared |-> <<0, 0>>, went |-> "ahead"]

Init ==
  /\ home \in {h \in [Values -> Homes \cup {NoName}] :
                \A m, n \in Values : m # n /\ h[m] = h[n] => h[m] = NoName}
  /\ \E data \in Data : number = data[3] /\ machine = Caller(data[1], data[2])
  /\ kind = "none" /\ left = "c" /\ right = "c"
  /\ code = Prologue
  /\ phase = "prologue"
  /\ before = machine

Execute ==
  /\ code # <<>>
  /\ machine' = Executed(machine, Head(code))
  /\ code' = Tail(code)
  /\ UNCHANGED <<home, number, kind, left, right, phase, before>>

ContentOf(m, n) ==
  Content(m, Printed([i \in Nodes |-> IF i \in Values THEN home[i] ELSE NoName], n))

(* The instructions that ir_build makes, on values they have a meaning for.*)
Operands(m, k, l, r) ==
  LET is(n) == ContentOf(m, n)
      positive(n) == Signed(is(n)) >= 0 \/ "negative" \in Beyond
  IN  CASE k \in DOMAIN GepSizes ->
             l \in {"x", "a"} /\ r \in {"y", "c"} /\ (k = "GEP16" => "scale" \in Beyond)
        [] k = "SGEP" -> l \in {"x", "a"} /\ r = "c"
        [] k = "Load" -> (l = "a" \/ (l = "x" /\ is("x") = CallerCell)) /\ r = "c"
        [] k = "Store" ->
             (l = "a" \/ (l = "x" /\ is("x") = CallerCell)) /\ r \in {"x", "y", "c"}
        [] k = "StoreWide" ->
             /\ l = "a" \/ (l = "x" /\ is("x") = CallerCell)
             /\ l = "x" => Spilled("x") \/ "wide" \in Beyond
             /\ r = "b"
        [] k \in DOMAIN Passed -> (l = "f" \/ (l = "y" /\ is("y") = Function)) /\ r = "c"
        [] k \in {"Br", "CondBr"} -> l \in {"x", "y", "c"} /\ r = "c"
        [] k \in {"Not"} \cup DOMAIN UnaryOps -> l = "c" /\ r \in {"x", "y", "c"}
        [] OTHER ->
             /\ {l, r} \subseteq {"x", "y", "c"}
             /\ k \in {"ShiftLeft", "ShiftRight"} =>
                  is(r) < Width /\ (r = "c" \/ "shift" \in Beyond)
             /\ k \in {"Division", "Modulo"} => is(r) # 0 /\ positive(r)
             /\ k \in {"Division", "Modulo", "ShiftRight"} => positive(l)

Compile(k, l, r) ==
  /\ phase = "prologue" /\ code = <<>>
  /\ Operands(machine, k, l, r)
  /\ kind' = k /\ left' = l /\ right' = r
  /\ code' = Text(ValueSteps(k, l, r))
  /\ phase' = "body"
  /\ before' = machine
  /\ UNCHANGED <<home, number, machine>>

HasValue(k) == k \notin {"Store", "StoreWide", "CondBr"}

Result(k) == IF HasValue(k) THEN "v" ELSE "x"

Return ==
  /\ phase = "body" /\ code = <<>>
  /\ code' = Text(Ret(Result(kind)))
  /\ phase' = "epilogue"
  /\ before' = machine
  /\ UNCHANGED <<home, number, kind, left, right, machine>>

Next ==
  \/ Execute
  \/ \E k \in Kinds : \E l, r \in Nodes \ {"v"} : Compile(k, l, r)
  \/ Return

Spec == Init /\ [][Next]_vars

(***************************************************************************)
(* The default backend computes the same operators on the two words below  *)
(* the top of its stack (compiler/src/codegen_x86_64.c).                   *)
(***************************************************************************)
First == At("rsp", -8)
Second == At("rsp", -16)
Rax == Reg("rax")
Rdx == Reg("rdx")

LegacyCompared(set) ==
  <<Instruction("xor", Rax, Rax), Move(Rdx, First), Instruction("sub", Rdx, Second),
    Instruction(set, Rax, Nothing)>>

LegacyLogical(op) ==
  <<Instruction("xor", Rax, Rax), Instruction("sub", First, Nothing),
    Instruction("setne", Rax, Nothing), Instruction("xor", Rdx, Rdx),
    Instruction("sub", Second, Nothing), Instruction("setne", Rdx, Nothing),
    Instruction(op, Rax, Rdx)>>

LegacyQuotient ==
  <<Move(Rax, First), Move(Rdx, Nothing), Instruction("div", Second, Nothing)>>

(* x86_64_codegen_arithmetic.                                              *)
LegacyText(k) ==
  CASE k \in {"ShiftLeft", "ShiftRight"} ->
         <<Move(Rax, First), Move(Reg("rcx"), Second),
           Instruction(BinaryOps[k], Rax, Reg("rcx"))>>
    [] k \in DOMAIN BinaryOps \ {"ShiftLeft", "ShiftRight"} ->
         <<Move(Rax, First), Instruction(BinaryOps[k], Rax, Second)>>
    [] k = "Minus" -> <<Move(Rax, Nothing), Instruction("sub", Rax, Second)>>
    [] k = "BitwiseNot" -> <<Move(Rax, Second), Instruction("not", Rax, Nothing)>>
    [] k = "Multiplication" ->
         <<Move(Rax, First), Move(Rdx, Second), Instruction("mul", Rdx, Nothing)>>
    [] k = "Division" -> LegacyQuotient
    [] k = "Modulo" -> LegacyQuotient \o <<Move(Rax, Rdx)>>
    [] k = "And" -> LegacyLogical("and")
    [] k = "Or" -> LegacyLogical("or")
    [] k = "Not" ->
         <<Instruction("xor", Rax, Rax), Instruction("sub", Second, Nothing),
           Instruction("sete", Rax, Nothing)>>
    [] k \in DOMAIN SetOps -> LegacyCompared(SetOps[k])

LegacyResult(m, k, l, r) ==
  LET start == [m EXCEPT !.mem[m.reg["rsp"] - 8] = l, !.mem[m.reg["rsp"] - 16] = r]
  IN  Run(start, LegacyText(k)).reg["rax"]

(***************************************************************************)
(* Properties.                                                             *)
(***************************************************************************)
Computed == phase = "body" /\ code = <<>>
Ended == phase = "epilogue" /\ code = <<>>

TypeOK ==
  /\ machine.reg \in [RegisterNames -> Words]
  /\ machine.mem \in [Cells -> Words]
  /\ kind \in Kinds \cup {"none"} /\ {left, right} \subseteq Nodes
  /\ phase \in {"prologue", "body", "epilogue"}

Magnitude(n) == IF n < 0 THEN -n ELSE n

(* What instruction k says its value is, of operands l and r.              *)
Meant(m, k, l, r) ==
  LET truncated == (IF Signed(l) < 0 THEN -1 ELSE 1) * (IF Signed(r) < 0 THEN -1 ELSE 1)
                     * (Magnitude(Signed(l)) \div Magnitude(Signed(r)))
  IN  CASE k = "Addition" -> Cut(l + r)
        [] k = "Subtraction" -> Cut(l - r)
        [] k = "Minus" -> Cut(-r)
        [] k = "Multiplication" -> Cut(l * r)
        [] k = "Division" -> Cut(truncated)
        [] k = "Modulo" -> Cut(Signed(l) - (truncated * Signed(r)))
        [] k = "And" -> Truth(l # 0 /\ r # 0)
        [] k = "Or" -> Truth(l # 0 \/ r # 0)
        [] k = "Not" -> Truth(r = 0)
        [] k = "BitwiseNot" -> Word - 1 - r
        [] k \in DOMAIN SetOps -> Truth(Holds(Conditions[SetOps[k]], l, r))
        [] k = "ShiftLeft" -> Cut(l * Power[r])
        [] k = "ShiftRight" -> l \div Power[r]
        [] k \in DOMAIN GepSizes -> Cut(l + (r * GepSizes[k]))
        [] k = "SGEP" -> Cut(l + FieldPhase)
        [] k = "Load" -> m.mem[l]
        [] k = "Br" -> l
        [] k \in {"BitwiseAnd", "BitwiseOr", "BitwiseXor"} -> Alu(BinaryOps[k], l, r)

Sent(m, k, i) ==
  IF i \in DOMAIN Passed[k] THEN ContentOf(m, Passed[k][i]) ELSE m.reg[CallRegs[i]]

(* Instruction k on l and r, begun in m, is to end in n.                   *)
Computes(m, n, k, l, r) ==
  CASE k = "Store" -> n.mem[l] = r
    [] k = "StoreWide" -> \A i \in {0, 8} : n.mem[l + i] = m.mem[r + i]
    [] k = "CondBr" -> n.went = IF l # 0 THEN "then" ELSE "else"
    [] k \in DOMAIN Passed ->
         /\ n.went = "called"
         /\ ContentOf(n, "v") =
              Cut(Sent(m, k, 1) + (2 * Sent(m, k, 2)) + (4 * Sent(m, k, 3))
                    + (8 * Sent(m, k, 4)) + 1)
    [] OTHER -> ContentOf(n, "v") = Meant(m, k, l, r)

(* Wherever the operands and the value live, be it in registers or on the  *)
(* stack and be the operands the same, the value is the one meant; a jump  *)
(* goes where it should, a call reaches its function with its arguments;   *)
(* and the first backend's text computes the same from the same operands.  *)
ValueArrives ==
  LET l == ContentOf(before, left)
      r == ContentOf(before, right)
  IN  Computed =>
        /\ Computes(before, machine, kind, l, r)
        /\ kind \in Operators => LegacyResult(before, kind, l, r) = Meant(before, kind, l, r)

(* The cells instruction k is to write, begun in m.                        *)
Target(m, k, l) ==
  CASE k = "Store" -> {ContentOf(m, l)}
    [] k = "StoreWide" -> {ContentOf(m, l) + i : i \in {0, 8}}
    [] HasValue(k) /\ Spilled("v") -> {m.reg["rbp"] + StackPhase("v")}
    [] OTHER -> {}

(* The registers it may write, and what it may write of memory: what is    *)
(* below the stack is nobody's.                                            *)
Usable(k) == IF HasValue(k) THEN Scratch \cup {home["v"]} ELSE Scratch
Open(m, k, l) == Target(m, k, l) \cup {a \in Cells : a < m.reg["rsp"]}

(* n is m but for these registers and cells.                               *)
Spares(m, n, registers, cells) ==
  /\ \A r \in RegisterNames \ registers : n.reg[r] = m.reg[r]
  /\ \A a \in Cells \ cells : n.mem[a] = m.mem[a]

(* Nothing else changes: the scratch registers an instruction uses, and    *)
(* what a call pushes, are never where another value lives.                *)
OthersUntouched ==
  Computed => Spares(before, machine, Usable(kind), Open(before, kind, left))

(* The caller gets the value, and everything else as it was: the registers *)
(* it may rely on, the stack pointer and its part of the stack, but for    *)
(* the cells written.                                                      *)
GivesBack(m, n, result, cells) ==
  /\ n.went = "returned"
  /\ n.reg["rax"] = ContentOf(m, result)
  /\ n.reg["rsp"] = Stack
  /\ \A r \in {"rbp", "r12", "r13", "r14", "r15"} : n.reg[r] = Caller(0, 0).reg[r]
  /\ \A a \in Cells \ cells : a >= Stack => n.mem[a] = a + 1

CallerKeeps ==
  Ended => GivesBack(before, machine, Result(kind), Target(before, kind, left))

(* The assembler takes every instruction that is written.                  *)
TextIsEncodable == \A i \in DOMAIN code : Encodable(code[i])
==============================================================================
