----------------------------- MODULE IrRegisters ------------------------------
(***************************************************************************)
(* How compiler/src/ir_compile_x86_64.c gives the values of a function that *)
(* IrBuild has finished a register each, or a word of the stack. In the    *)
(* order of their priorities the values take the lowest register that is   *)
(* not taken in any block from the first to the last one that concerns     *)
(* them, in the order of the text. At the end of each block the phis of    *)
(* the next one are moved to where they live.                              *)
(***************************************************************************)
EXTENDS IrBuild

CONSTANT Registers   (* how many there are to give out: R8 to R15 are 8    *)

ASSUME IrRegistersAssumption == Registers \in Nat

(* The function's ret uses the value of its body.                          *)
Finished == IF value = Void THEN Graph ELSE Used(Graph, current, value, FALSE)

Computes(g) == {v \in DOMAIN g.values : g.values[v].at # 0}

IsPhi(g, v) == g.values[v].args # <<>> \/ g.values[v].gone # 0

Place(g, v) == g.blocks[g.values[v].at].idx

(* calculate_priority.                                                     *)
Priority(g, v) ==
  LET val == g.values[v]
  IN  IF IsPhi(g, v) /\ val.args = <<>> THEN 0
      ELSE FoldLeft(LAMBDA sum, use : sum + 10 ^ use.degree, 10 ^ val.degree, val.uses)

(* The values in the order of ir_compile_function: of the same priority,   *)
(* the one written first is the first.                                     *)
Listing(g) ==
  LET before(u, v) ==
        \/ Priority(g, u) > Priority(g, v)
        \/ /\ Priority(g, u) = Priority(g, v)
           /\ Place(g, u) < Place(g, v) \/ (Place(g, u) = Place(g, v) /\ u < v)
  IN  SortSeq(SelectSeq([v \in DOMAIN g.values |-> v], LAMBDA v : g.values[v].at # 0), before)


(* The blocks find_register looks at.                                      *)
Interval(g, v) ==
  LET preds == IF IsPhi(g, v) THEN Range(g.blocks[g.values[v].at].preds) ELSE {}
      places == {g.blocks[b].idx :
                  b \in preds \cup {use.at : use \in Range(g.values[v].uses)}}
  IN  Min(places \cup {Place(g, v)}) .. Max(places \cup {g.values[v].right})

(* find_register: taken are the blocks of each register; no register is a  *)
(* word of the stack, which is the value's own.                            *)
NoRegister == 0

Give(g, given, v) ==
  LET free == {r \in 1 .. Registers : given.taken[r] \cap Interval(g, v) = {}}
  IN  IF free = {} THEN given
      ELSE [taken |-> [given.taken EXCEPT ![Min(free)] = @ \cup Interval(g, v)],
            register |-> [given.register EXCEPT ![v] = Min(free)]]

RegistersOf(g) ==
  FoldLeft(LAMBDA given, v : Give(g, given, v),
           [taken |-> [r \in 1 .. Registers |-> {}],
            register |-> [v \in Computes(g) |-> NoRegister]],
           Listing(g)).register

(* ir_compile_phi: the moves at the end of block p before a jump to b, in  *)
(* the order of the phis.                                                  *)
Moves(g, p, b) ==
  LET phis == SelectSeq([v \in DOMAIN g.values |-> v],
                        LAMBDA v : g.values[v].at = b /\ IsPhi(g, v))
      moves(v) == SelectSeq([i \in DOMAIN g.values[v].args |->
                               [to |-> v, of |-> g.values[v].args[i].value,
                                from |-> g.values[v].args[i].from]],
                            LAMBDA move : move.from = p /\ move.of # v)
  IN  FoldLeft(LAMBDA list, v : list \o moves(v), <<>>, phis)

(***************************************************************************)
(* Properties.                                                             *)
(***************************************************************************)

(* Where a value is looked at: by an instruction of the block, or by a     *)
(* move at its end. Operands that were pushed after the phi was built are  *)
(* left out, for the value does not know of them.                          *)
Looks(g, v) ==
  {use.at : use \in {use \in Range(g.values[v].uses) : ~use.phi /\ g.values[v].gone = 0}}
    \cup {p \in DOMAIN g.blocks : \E phi \in Computes(g) :
            /\ g.values[phi].at \in g.blocks[p].to
            /\ \E arg \in Range(g.values[phi].args) :
                 arg.value = v /\ arg.from = p /\ arg.known}

Writes(g, v) ==
  IF IsPhi(g, v)
  THEN {p \in DOMAIN g.blocks : g.values[v].at \in g.blocks[p].to /\
          \E arg \in Range(g.values[v].args) : arg.from = p}
  ELSE {g.values[v].at}

(* The blocks that lie on a way from where the value is made to where it   *)
(* is looked at.                                                           *)
Live(g, v) ==
  LET at == g.values[v].at
      back(S) == S \cup {p \in DOMAIN g.blocks : g.blocks[p].to \cap (S \ {at}) # {}}
  IN  FoldLeft(LAMBDA S, b : back(S), Looks(g, v), g.blocks)


(* Each operand that a jump can bring to a phi which an instruction uses   *)
(* is a value that something writes: a variable that is returned or broken *)
(* out of a loop has its value.                                            *)
OperandsAreWritten ==
  Done /\ ~wild =>
    LET g == Finished
        written(v) == v \in Computes(g) /\ IsPhi(g, v) => g.values[v].args # <<>>
    IN  \A p \in DOMAIN g.blocks : \A b \in g.blocks[p].to :
          \A move \in Range(Moves(g, p, b)) :
            (\E use \in Range(g.values[move.to].uses) : ~use.phi) => written(move.of)

(* The moves at the end of a block, one after the other, do what they      *)
(* would do at once: none overwrites what a later one is to copy.          *)
MovesAreParallel ==
  Done /\ ~wild =>
    LET g == Finished
        register == RegistersOf(g)
    IN  \A p \in DOMAIN g.blocks : \A b \in g.blocks[p].to :
          LET moves == Moves(g, p, b)
          IN  \A i, j \in DOMAIN moves :
                i < j /\ moves[j].of \in Computes(g) =>
                  /\ moves[i].to # moves[j].of
                  /\ register[moves[i].to] = NoRegister
                       \/ register[moves[i].to] # register[moves[j].of]
==============================================================================
