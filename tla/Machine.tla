------------------------------- MODULE Machine --------------------------------
(***************************************************************************)
(* The part of an x86-64 that the compiled programs of this project use:   *)
(* registers, memory and the instructions compiler/src/ir_compile_x86_64.c *)
(* and compiler/src/codegen_x86_64.c write. A word is Width bits, not 64,  *)
(* and memory is cut into words of eight addresses. Not part of the        *)
(* repository: what an instruction does is the processor's.                *)
(***************************************************************************)
EXTENDS Integers, Sequences

CONSTANT Width   (* bits of a word: enough for the addresses there are     *)

ASSUME MachineAssumption == Width \in 12 .. 64

(* The powers of two.                                                      *)
Power[n \in 0 .. 64] == IF n = 0 THEN 1 ELSE 2 * Power[n - 1]

Word == Power[Width]
Words == 0 .. Word - 1
Cut(n) == n % Word
Signed(n) == IF n < Word \div 2 THEN n ELSE n - Word

Scratch == {"rax", "rcx", "rdx", "rdi", "rsi"}   (* no value lives in them *)
Given == <<"r8", "r9", "r10", "r11", "r12", "r13", "r14", "r15">>
Frame == {"rsp", "rbp"}
RegisterNames == Scratch \cup {Given[i] : i \in DOMAIN Given} \cup Frame
NoName == "none"

(* Operands.                                                               *)
Reg(name) == [in |-> "register", name |-> name, index |-> NoName, scale |-> 1, at |-> 0]
Number(n) == [in |-> "number", name |-> NoName, index |-> NoName, scale |-> 1, at |-> Cut(n)]
Indexed(base, index, scale, at) ==
  [in |-> "memory", name |-> base, index |-> index, scale |-> scale, at |-> at]
At(base, at) == Indexed(base, NoName, 1, at)
Nothing == Number(0)

Instruction(op, to, of) == [op |-> op, to |-> to, of |-> of]

Address(m, operand) ==
  Cut(m.reg[operand.name] + operand.at +
      (IF operand.index = NoName THEN 0 ELSE m.reg[operand.index] * operand.scale))

Content(m, operand) ==
  CASE operand.in = "register" -> m.reg[operand.name]
    [] operand.in = "number" -> operand.at
    [] operand.in = "memory" -> m.mem[Address(m, operand)]

(* A slip: a word keeps bits it does not have.                             *)
WrittenUncut(m, operand, n) ==
  IF operand.in = "register" THEN [m EXCEPT !.reg[operand.name] = n]
  ELSE [m EXCEPT !.mem[Address(m, operand)] = n]

Written(m, operand, n) ==
  IF operand.in = "register" THEN [m EXCEPT !.reg[operand.name] = Cut(n)]
  ELSE [m EXCEPT !.mem[Address(m, operand)] = Cut(n)]

Truth(b) == IF b THEN 1 ELSE 0

(* What the conditions say of the two numbers compared last.               *)
Holds(condition, left, right) ==
  CASE condition = "e" -> left = right
    [] condition = "ne" -> left # right
    [] condition = "l" -> Signed(left) < Signed(right)
    [] condition = "g" -> Signed(left) > Signed(right)
    [] condition = "le" -> Signed(left) <= Signed(right)
    [] condition = "ge" -> Signed(left) >= Signed(right)

Conditions == [sete |-> "e", setne |-> "ne", setl |-> "l", setg |-> "g", setle |-> "le",
               setge |-> "ge"]
SetNames == DOMAIN Conditions

(* and, or and xor go bit by bit.                                          *)
Bit(n, k) == (n \div Power[k]) % 2

Joined(op, p, q) ==
  CASE op = "and" -> p * q
    [] op = "or" -> p + q - (p * q)
    [] op = "xor" -> p + q - (2 * p * q)

LowBits(op, left, right) ==
  LET low[k \in 0 .. Width] ==
        IF k = 0 THEN 0
        ELSE low[k - 1] + (Power[k - 1] * Joined(op, Bit(left, k - 1), Bit(right, k - 1)))
  IN  low

(* Only the lower bits of a number of places count.                        *)
Places(n) == n % 64

Alu(op, left, right) ==
  CASE op = "add" -> left + right
    [] op = "sub" -> left - right
    [] op \in {"and", "or", "xor"} -> LowBits(op, left, right)[Width]
    [] op = "shl" -> IF Places(right) < Width THEN left * Power[Places(right)] ELSE 0
    [] op = "shr" -> IF Places(right) < Width THEN left \div Power[Places(right)] ELSE 0

(* A function of the program or another one: it may change all registers   *)
(* but those that ir_compile_function saves. Function is where functions   *)
(* are, and what they return is to be recognised.                          *)
Function == 64
Returned(m) == m.reg["rdi"] + 2 * m.reg["rsi"] + 4 * m.reg["rdx"] + 8 * m.reg["rcx"] + 1
Called(m, target) ==
  [m EXCEPT !.reg = [r \in RegisterNames |->
     CASE r = "rax" -> Cut(Returned(m))
       [] r \in {"rcx", "rdx", "rdi", "rsi", "r8", "r9", "r10", "r11"} -> 7
       [] OTHER -> m.reg[r]],
            !.went = IF target = Function THEN "called" ELSE "astray"]

(* What the instructions do that write more than one place.                *)
Subtracted(m, to, left, right) ==
  [Written(m, to, left - right) EXCEPT !.compared = <<left, right>>]

Compared(m, left, right) == [m EXCEPT !.compared = <<left, right>>]

Multiplied(m, n) ==
  [m EXCEPT !.reg["rax"] = Cut(@ * n), !.reg["rdx"] = (m.reg["rax"] * n) \div Word]

Divided(m, n) ==
  LET dividend == (m.reg["rdx"] * Word) + m.reg["rax"]
  IN  [m EXCEPT !.reg["rax"] = Cut(dividend \div n), !.reg["rdx"] = dividend % n]

ByteSet(m, old, condition) ==
  (old - (old % 256)) + Truth(Holds(condition, m.compared[1], m.compared[2]))

Pushed(m, n) ==
  LET rsp == Cut(m.reg["rsp"] - 8)
  IN  [m EXCEPT !.reg["rsp"] = rsp, !.mem[rsp] = n]

Popped(m, to) == [Written(m, to, m.mem[m.reg["rsp"]]) EXCEPT !.reg["rsp"] = Cut(@ + 8)]

Copied(m) ==
  [m EXCEPT !.mem = [a \in DOMAIN m.mem |->
     LET k == a - m.reg["rdi"]
     IN  IF k \in 0 .. m.reg["rcx"] - 1 THEN m.mem[m.reg["rsi"] + k] ELSE m.mem[a]],
            !.reg["rdi"] = Cut(@ + m.reg["rcx"]),
            !.reg["rsi"] = Cut(@ + m.reg["rcx"]), !.reg["rcx"] = 0]

Jumped(m, where) == [m EXCEPT !.went = where]

(* What one instruction does to the machine. went is where jumps led.      *)
Executed(m, i) ==
  LET left == Content(m, i.to)
      right == Content(m, i.of)
  IN  CASE i.op = "mov" -> Written(m, i.to, right)
        [] i.op = "lea" -> Written(m, i.to, Address(m, i.of))
        [] i.op \in {"add", "and", "or", "xor", "shl", "shr"} ->
             Written(m, i.to, Alu(i.op, left, right))
        [] i.op = "sub" -> Subtracted(m, i.to, left, right)
        [] i.op = "not" -> Written(m, i.to, -left - 1)
        [] i.op = "neg" -> Written(m, i.to, -left)
        [] i.op = "mul" -> Multiplied(m, left)
        [] i.op = "div" -> Divided(m, left)
        [] i.op = "cmp" -> Compared(m, left, right)
        [] i.op \in SetNames -> Written(m, i.to, ByteSet(m, left, Conditions[i.op]))
        [] i.op = "push" -> Pushed(m, left)
        [] i.op = "pop" -> Popped(m, i.to)
        [] i.op = "call" -> Called(m, left)
        [] i.op = "repe_movsb" -> Copied(m)
        [] i.op = "jmp_then" -> Jumped(m, "then")
        [] i.op = "jmp_else" -> Jumped(m, IF m.went = "then" THEN m.went ELSE "else")
        [] i.op = "jne_then" ->
             Jumped(m, IF m.compared[1] # m.compared[2] THEN "then" ELSE m.went)
        [] i.op = "ret" -> Jumped(m, "returned")

(* The machine as a text is executed from its beginning, up to each place, *)
(* and at its end.                                                         *)
Executing(m, text) ==
  LET after[k \in 0 .. Len(text)] == IF k = 0 THEN m ELSE Executed(after[k - 1], text[k])
  IN  after

Run(m, text) == Executing(m, text)[Len(text)]

(* The operands the processor has an encoding for.                         *)
IsMemory(operand) == operand.in = "memory" /\ operand.scale \in {1, 2, 4, 8}
IsRegister(operand) == operand.in = "register" /\ operand.name \in RegisterNames

Encodable(i) ==
  CASE i.op \in {"mov", "add", "sub", "and", "or", "xor", "cmp"} ->
         \/ IsRegister(i.to) /\ (IsRegister(i.of) \/ IsMemory(i.of) \/ i.of.in = "number")
         \/ IsMemory(i.to) /\ (IsRegister(i.of) \/ i.of.in = "number")
    [] i.op = "lea" -> IsRegister(i.to) /\ IsMemory(i.of)
    [] i.op \in {"shl", "shr"} ->
         (IsRegister(i.to) \/ IsMemory(i.to)) /\ (i.of.in = "number" \/ i.of = Reg("rcx"))
    [] i.op \in {"not", "neg", "mul", "div", "pop"} -> IsRegister(i.to) \/ IsMemory(i.to)
    [] i.op \in {"push", "call"} -> IsRegister(i.to) \/ IsMemory(i.to) \/ i.to.in = "number"
    [] OTHER -> TRUE
==============================================================================
