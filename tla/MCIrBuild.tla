------------------------------ MODULE MCIrBuild -------------------------------
(* IrBuild on functions with the parameter x and two more variables: y, and *)
(* z, whose address is taken.                                              *)
EXTENDS IrRegisters
CONSTANTS x, y, z
MCNames == {x, y, z}
MCAddressed == {z}
==============================================================================
