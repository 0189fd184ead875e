---------------------------- MODULE MCHeapAllocator ----------------------------
(* A pool of 144 bytes with the header and the units of the code.  The     *)
(* sizes are on both sides of a header's difference; one limit allows some *)
(* requests, one none.                                                     *)
EXTENDS HeapAllocator

MCLimits == {0, 100, 96 * 1024}
================================================================================
