------------------------------- MODULE AreaPool -------------------------------
(***************************************************************************)
(* What an allocator promises: an area it hands out has no byte in common  *)
(* with any area that is still in use.                                     *)
(***************************************************************************)
EXTENDS Integers

CONSTANTS PoolSize,  \* bytes of the pool
          Sizes      \* the sizes that may be asked for

VARIABLES areas,     \* the areas in use, each with its address and size
          inUse      \* how many they are

Areas == [at : 0 .. PoolSize, size : Sizes]

\* Two areas have no byte in common.
Apart(a, b) == a.at + a.size <= b.at \/ b.at + b.size <= a.at

PoolInit == areas = {} /\ inUse = 0

HandOut == \E a \in Areas :
    /\ a.at + a.size <= PoolSize
    /\ \A b \in areas : Apart(a, b)
    /\ areas' = areas \union {a}
    /\ inUse' = inUse + 1

TakeBack == \E a \in areas :
    /\ areas' = areas \ {a}
    /\ inUse' = inUse - 1

Promise == PoolInit /\ [][HandOut \/ TakeBack]_<<areas, inUse>>
===============================================================================
