--------------------------- MODULE MCCompileScopes ---------------------------
(* CompileScopes on programs with one label name: deep nests of blocks,    *)
(* loops and branches whose values all have a source; and small programs   *)
(* with every construct, code behind jumps and loops of any shape.         *)
EXTENDS CompileScopes
CONSTANT a
MCNames == {a}
Nests == [kinds |-> {"function", "block", "while", "if"}, parameters |-> 0,
          nest |-> 5, constructs |-> 5, words |-> 1, dead |-> FALSE, onesided |-> FALSE]
Values == [kinds |-> {"function", "lambda", "block", "if", "while", "operator", "call",
                      "aggregate"}, parameters |-> 1,
           nest |-> 4, constructs |-> 3, words |-> 2, dead |-> TRUE, onesided |-> TRUE]
Returns == [kinds |-> {"function", "block", "while"}, parameters |-> 0,
            nest |-> 5, constructs |-> 5, words |-> 3, dead |-> TRUE, onesided |-> FALSE]
MCFamilies == {Nests, Values}
MCReturns == {Returns}
==============================================================================
