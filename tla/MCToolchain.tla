------------------------------ MODULE MCToolchain ------------------------------
(***************************************************************************)
(* Small instances of Toolchain: int32 variables of two bytes, words of    *)
(* four, a header of four bytes.  The variables lie two bytes apart, as    *)
(* the symbol table places them, so a store to one reaches into the next.  *)
(***************************************************************************)
EXTENDS Toolchain

MCOwner == [s \in Symbols |-> 0]
MCOffsets == [s \in Symbols |-> IF s \in Fns THEN {0} ELSE {2 + 2 * s}]
MCTypesOf == [s \in Symbols |-> {"int32"}]
MCHeapContents == {[b \in HeapBytes |-> v] : v \in 0 .. Base - 1}
MCInputs == {<<>>}
=============================================================================
