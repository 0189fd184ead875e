---------------------------- MODULE MCToolchainFns ----------------------------
(***************************************************************************)
(* Small instances of Toolchain with functions: the program                *)
(*     fn int32 f() { int32 l; ... }   fn void g() { ... }                 *)
(*     int32 x; ...                    int32 y; ...                        *)
(* with symbols 1 f, 2 l, 3 g, 4 x, 5 y.  The symbol table gives x the     *)
(* storage of l; the freed symbol of l may hold any of the others' offset. *)
(***************************************************************************)
EXTENDS Toolchain

MCOwner == <<0, 1, 0, 0, 0>>
MCOffsets == <<{0}, {4, 6}, {0}, {4}, {6}>>
MCTypesOf == <<{"int32"}, {"int32"}, {"void"}, {"int32"}, {"int32"}>>
MCHeapContents == {[b \in HeapBytes |-> 1]}
MCInputs == {<<>>}
=============================================================================
