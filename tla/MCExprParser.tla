----------------------------- MODULE MCExprParser -----------------------------
(* Operators of each kind: both unary and binary, binary only of two       *)
(* priorities and unary only.                                              *)
EXTENDS ExprParser
==============================================================================
