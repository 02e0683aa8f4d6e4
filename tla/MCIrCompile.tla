----------------------------- MODULE MCIrCompile ------------------------------
(* IrCompile with a register that a call keeps, r12, one that it does not, *)
(* r8, and the stack; words of 12 bits. x, y and c are small numbers, -2,  *)
(* a function or an address of the caller's.                               *)
EXTENDS IrCompile
MCData == {<<3, 3, 0>>, <<4094, 3, 2>>, <<CallerCell, Function, 3>>, <<3, 0, 4094>>,
           <<CallerCell, 4094, 1>>}
MCKinds == Operators \cup DOMAIN GepSizes \cup DOMAIN Passed
             \cup {"SGEP", "Load", "Store", "StoreWide", "Br", "CondBr"}
==============================================================================
