----------------------------- MODULE HeapAllocator -----------------------------
(***************************************************************************)
(* The block allocator of the VM's heap (src/src/vm/heap.cpp): a pool cut  *)
(* into blocks, each a header and the bytes behind it, linked into a list. *)
(* heap_alloc takes the first block that is big enough for the area and    *)
(* the header of what is left, and splits it; heap_free relinks the block  *)
(* and merges neighbours.  Both loops take one step per iteration.         *)
(*                                                                         *)
(* Nothing under src/ calls the three functions, so requests come in any   *)
(* order.  Addresses are offsets from heap_base.  What clients write into  *)
(* their areas is left out: a block that is handed out stays on the list   *)
(* and may be cut again, and the properties below speak of clients that    *)
(* do not write over a header that then lies in their area.  So is address *)
(* arithmetic that wraps: a size and a header stay below 2^64.             *)
(***************************************************************************)
EXTENDS Integers

CONSTANTS PoolSize,    \* heapsize_tot
          HeaderSize,  \* sizeof(HeapBlockHdr)
          KB,          \* 1024
          Limits,      \* values of heapsize_limit_kb, 0 for none
          Sizes        \* the sizes that clients ask for

Null == -1

ASSUME AllocatorAssumption ==
    /\ HeaderSize \in Nat \ {0}
    /\ PoolSize \in Nat /\ PoolSize >= HeaderSize
    /\ KB \in Nat
    /\ Limits \subseteq Nat
    /\ Sizes \subseteq Nat

VARIABLES
    headers,            \* address of each header written -> its size and next
    heap_freelist,      \* the first block of the list
    heapsize_current,   \* the counter that the limit is compared with
    heapsize_limit_kb,  \* the limit, as given when the machine is started
    op,                 \* "idle", or the loop that runs: "search", "merge"
    current,            \* the block that the loop is at, or Null
    wanted,             \* the size that the search is for
    outcome,            \* of the last request: "none", "granted", "insufficient"
    areas,              \* history: the areas in use
    inUse               \* history: how many they are

vars == <<headers, heap_freelist, heapsize_current, heapsize_limit_kb,
          op, current, wanted, outcome, areas, inUse>>

TypeOK ==
    /\ DOMAIN headers \subseteq 0 .. PoolSize - HeaderSize
    /\ headers \in [DOMAIN headers -> [size : Nat, next : DOMAIN headers \union {Null}]]
    /\ heap_freelist \in DOMAIN headers
    /\ heapsize_current \in Nat
    /\ heapsize_limit_kb \in Limits
    /\ op \in {"idle", "search", "merge"}
    /\ current \in DOMAIN headers \union {Null}
    /\ wanted \in IF op = "search" THEN Sizes ELSE {0}
    /\ outcome \in {"none", "granted", "insufficient"}
    /\ areas \subseteq [at : 0 .. PoolSize, size : Sizes]
    /\ inUse \in Int

\* The address behind a block.
EndOf(b) == b + HeaderSize + headers[b].size

Init ==
    /\ headers = [b \in {0} |-> [size |-> PoolSize - HeaderSize, next |-> Null]]
    /\ heap_freelist = 0
    /\ heapsize_current = HeaderSize
    /\ heapsize_limit_kb \in Limits
    /\ op = "idle"
    /\ current = Null
    /\ wanted = 0
    /\ outcome = "none"
    /\ areas = {}
    /\ inUse = 0

(***************************************************************************)
(* heap_alloc                                                              *)
(***************************************************************************)
\* The check of the limit: its left side is in bytes times KB.
OverLimit(size) ==
    /\ heapsize_limit_kb # 0
    /\ (heapsize_current + size + HeaderSize) * KB > heapsize_limit_kb

Refuse(size) ==
    /\ op = "idle"
    /\ OverLimit(size)
    /\ outcome' = "insufficient"
    /\ UNCHANGED <<headers, heap_freelist, heapsize_current, heapsize_limit_kb,
                   op, current, wanted, areas, inUse>>

\* Mutant: the search begins behind the first block.
BeginBehindFirst(size) ==
    /\ op = "idle"
    /\ ~OverLimit(size)
    /\ op' = "search"
    /\ current' = headers[heap_freelist].next
    /\ wanted' = size
    /\ outcome' = "none"
    /\ UNCHANGED <<headers, heap_freelist, heapsize_current, heapsize_limit_kb,
                   areas, inUse>>

BeginSearch(size) ==
    /\ op = "idle"
    /\ ~OverLimit(size)
    /\ op' = "search"
    /\ current' = heap_freelist
    /\ wanted' = size
    /\ outcome' = "none"
    /\ UNCHANGED <<headers, heap_freelist, heapsize_current, heapsize_limit_kb,
                   areas, inUse>>

\* Mutant: the header of what is left is forgotten.
BigEnoughForArea(b) == headers[b].size >= wanted

\* The block holds the area and the header of what is left of it.
IsBigEnough(b) == headers[b].size >= wanted + HeaderSize

\* Mutant: what is left has no successor.
CutOffRest(b) ==
    LET rest == b + HeaderSize + wanted
        left == headers[b].size - wanted - HeaderSize
    IN  [h \in DOMAIN headers \union {rest} |->
            CASE h = b    -> [size |-> wanted, next |-> rest]
              [] h = rest -> [size |-> left, next |-> Null]
              [] OTHER    -> headers[h]]

\* Mutant: the block keeps its size.
CutKeepingSize(b) ==
    LET rest == b + HeaderSize + wanted
        left == headers[b].size - wanted - HeaderSize
    IN  [h \in DOMAIN headers \union {rest} |->
            CASE h = b    -> [headers[b] EXCEPT !.next = rest]
              [] h = rest -> [size |-> left, next |-> headers[b].next]
              [] OTHER    -> headers[h]]

\* The block is cut: it keeps the size asked for, stays in the list, and the
\* rest becomes its successor.
Cut(b) ==
    LET rest == b + HeaderSize + wanted
        left == headers[b].size - wanted - HeaderSize
    IN  [h \in DOMAIN headers \union {rest} |->
            CASE h = b    -> [size |-> wanted, next |-> rest]
              [] h = rest -> [size |-> left, next |-> headers[b].next]
              [] OTHER    -> headers[h]]

Grant ==
    /\ op = "search"
    /\ current # Null
    /\ IsBigEnough(current)
    /\ headers' = Cut(current)
    /\ heapsize_current' =
           heapsize_current + (headers[current].size - wanted - HeaderSize)
    /\ areas' = areas \union {[at |-> current + HeaderSize, size |-> wanted]}
    /\ inUse' = inUse + 1
    /\ op' = "idle"
    /\ outcome' = "granted"
    /\ current' = Null
    /\ wanted' = 0
    /\ UNCHANGED <<heap_freelist, heapsize_limit_kb>>

\* Mutant: the loop looks at the first block for ever.
SearchStay ==
    /\ op = "search"
    /\ current # Null
    /\ ~IsBigEnough(current)
    /\ current' = heap_freelist
    /\ UNCHANGED <<headers, heap_freelist, heapsize_current, heapsize_limit_kb,
                   op, wanted, outcome, areas, inUse>>

SearchOn ==
    /\ op = "search"
    /\ current # Null
    /\ ~IsBigEnough(current)
    /\ current' = headers[current].next
    /\ UNCHANGED <<headers, heap_freelist, heapsize_current, heapsize_limit_kb,
                   op, wanted, outcome, areas, inUse>>

Exhaust ==
    /\ op = "search"
    /\ current = Null
    /\ op' = "idle"
    /\ outcome' = "insufficient"
    /\ wanted' = 0
    /\ UNCHANGED <<headers, heap_freelist, heapsize_current, heapsize_limit_kb,
                   current, areas, inUse>>

(***************************************************************************)
(* heap_free and heap_mergeFree                                            *)
(***************************************************************************)
\* The block is linked in front of the list, but the list is then set to the
\* block's successor, which is where it was.  Freeing nullptr does nothing.
Free(a) ==
    LET target == a.at - HeaderSize IN
    /\ op = "idle"
    /\ headers' = [headers EXCEPT ![target].next = heap_freelist]
    /\ heap_freelist' = headers'[target].next
    /\ areas' = areas \ {a}
    /\ inUse' = inUse - 1
    /\ op' = "merge"
    /\ current' = heap_freelist'
    /\ outcome' = "none"
    /\ UNCHANGED <<heapsize_current, heapsize_limit_kb, wanted>>

\* Mutant: the loop takes in any block that is not behind the one it is at.
MergeStepAnywhere ==
    LET next == headers[current].next IN
    /\ op = "merge"
    /\ IF current = Null \/ next = Null
       THEN op' = "idle" /\ current' = Null /\ UNCHANGED headers
       ELSE /\ headers' = [headers EXCEPT ![current] =
                   [size |-> @.size + HeaderSize + headers[next].size,
                    next |-> headers[next].next]]
            /\ UNCHANGED <<op, current>>
    /\ UNCHANGED <<heap_freelist, heapsize_current, heapsize_limit_kb,
                   wanted, outcome, areas, inUse>>

\* One iteration of heap_mergeFree's loop: a block that its successor follows
\* in memory takes it in; another is passed by; the last one ends the loop.
MergeStep ==
    LET next == headers[current].next IN
    /\ op = "merge"
    /\ IF current = Null \/ next = Null
       THEN op' = "idle" /\ current' = Null /\ UNCHANGED headers
       ELSE /\ UNCHANGED op
            /\ IF EndOf(current) = next
               THEN /\ headers' = [headers EXCEPT ![current] =
                           [size |-> @.size + HeaderSize + headers[next].size,
                            next |-> headers[next].next]]
                    /\ UNCHANGED current
               ELSE current' = next /\ UNCHANGED headers
    /\ UNCHANGED <<heap_freelist, heapsize_current, heapsize_limit_kb,
                   wanted, outcome, areas, inUse>>

Next ==
    \/ \E size \in Sizes : Refuse(size) \/ BeginSearch(size)
    \/ Grant \/ SearchOn \/ Exhaust
    \/ \E a \in areas : Free(a)
    \/ MergeStep

\* A loop that has begun goes on; nobody has to ask for anything.
Spec == Init /\ [][Next]_vars
             /\ WF_vars(Grant \/ SearchOn \/ Exhaust) /\ WF_vars(MergeStep)

(***************************************************************************)
(* Properties                                                              *)
(***************************************************************************)
Pool == INSTANCE AreaPool

\* Until something is freed, the list is the whole pool in the order of the
\* addresses: every block ends where its successor begins, the last one at
\* the pool's end, and no header lies inside another block.  heap_alloc's
\* split keeps it so, wherever in the list and however often it cuts.
Tiled ==
    op # "merge" =>
        \A b \in DOMAIN headers :
            /\ headers[b].next = IF EndOf(b) = PoolSize THEN Null ELSE EndOf(b)
            /\ \A c \in DOMAIN headers : c > b => c >= EndOf(b)

\* No block ever reaches beyond the pool, merged blocks included.
WithinPool == \A b \in DOMAIN headers : EndOf(b) <= PoolSize

Close(s, t) == s < t + HeaderSize /\ t < s + HeaderSize

\* An area that is handed out has no byte in common with one in use, the same
\* one included, if their sizes differ by less than a header.  More cannot be
\* said of heap_alloc: a block that was handed out stays in the list, and a
\* request that is smaller by a header or more finds it big enough and gets
\* its memory a second time.
GrantsApart ==
    [][op = "search" /\ outcome' = "granted"
           => \A a \in areas :
                  Close(a.size, wanted)
                      => Pool!Apart(a, [at |-> current + HeaderSize, size |-> wanted])]_vars

\* A search that fails has found no block that is big enough, the ones behind
\* the blocks in use included.
FailsOnlyWhenFull ==
    [][op = "search" /\ outcome' = "insufficient"
           => \A b \in DOMAIN headers : ~IsBigEnough(b)]_vars

\* A free comes to an end: heap_free gives the area back and heap_mergeFree
\* merges what there is to merge, as their descriptions say
\* (VirtualMachine.hpp:60, 66).  It does not hold of the code, which has made
\* the list a cycle by then.
MergeEnds == op = "merge" ~> op = "idle"

\* What heap_alloc hands out is an area of the pool that nobody has
\* (VirtualMachine.hpp:52), for requests of any sizes: AreaPool's promise.  It
\* holds of sizes that are close and of no others.
KeepsPromise == Pool!Promise

\* heap_alloc returns or throws.
SearchEnds == op = "search" ~> op = "idle"
===============================================================================
