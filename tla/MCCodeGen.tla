------------------------------ MODULE MCCodeGen ------------------------------
(***************************************************************************)
(* A small instance of CodeGen: the program                                *)
(*     int32 g;  fn int32 f() { int32 l; ... }  fn void p(char c) { ... }  *)
(* with symbols 1 g, 2 f, 3 l, 4 p, 5 c at the offsets that the symbol     *)
(* table gives them.  The freed symbol of l may hold another symbol.       *)
(***************************************************************************)
EXTENDS CodeGen

MCOwner == <<0, 0, 2, 0, 0>>
MCOffsets == <<{16}, {0}, {24, 16}, {0}, {24}>>
MCTypesOf == <<{"int32"}, {"int32"}, {"int32", "char"}, {"void"}, {"char"}>>
=============================================================================
