-------------------------- MODULE HeapAllocatorProofs --------------------------
(***************************************************************************)
(* Theorems about the block allocator.  The invariant behind them says how *)
(* the list lies in the pool, what a search has already seen, what has     *)
(* become of the block of an area in use, and that a merge goes in a       *)
(* circle.                                                                 *)
(***************************************************************************)
EXTENDS HeapAllocator, TLAPS

\* The list begins at the pool's first block for ever.
HeadIsFirst == heap_freelist = 0

\* The search has found no block behind it big enough, and has no outcome yet.
Searched ==
    op = "search" =>
        /\ outcome = "none"
        /\ \A b \in DOMAIN headers :
               current = Null \/ b < current => ~IsBigEnough(b)

\* An area in use has its header, and no block that begins inside the area
\* ends outside it.
AreasKeepEnds ==
    op # "merge" =>
        \A a \in areas :
            /\ a.at - HeaderSize \in DOMAIN headers
            /\ \A b \in DOMAIN headers :
                   b + HeaderSize >= a.at /\ b < a.at + a.size
                       => EndOf(b) <= a.at + a.size

\* A merge never leaves the blocks up to the freed one, whose successor is the
\* first block.
InCircle ==
    op = "merge" =>
        \E t \in DOMAIN headers :
            /\ current \in DOMAIN headers
            /\ current <= t
            /\ \A b \in DOMAIN headers :
                   b <= t => headers[b].next # Null /\ headers[b].next <= t

Inv == /\ TypeOK /\ Tiled /\ WithinPool
       /\ HeadIsFirst /\ Searched /\ AreasKeepEnds /\ InCircle

\* What is known of a block: its address, size and successor.
LEMMA BlockType ==
    ASSUME TypeOK, NEW b \in DOMAIN headers
    PROVE  /\ b \in Nat /\ b <= PoolSize - HeaderSize
           /\ headers[b].size \in Nat
           /\ headers[b].next \in DOMAIN headers \union {Null}
           /\ EndOf(b) \in Nat
  BY AllocatorAssumption DEF TypeOK, EndOf

\* Cutting a block changes it and its rest, and no other.
LEMMA CutFacts ==
    ASSUME TypeOK, NEW b \in DOMAIN headers, wanted \in Nat,
           NEW rest, rest = b + HeaderSize + wanted
    PROVE  /\ rest \in Nat /\ b < rest
           /\ DOMAIN Cut(b) = DOMAIN headers \union {rest}
           /\ Cut(b)[b] = [size |-> wanted, next |-> rest]
           /\ Cut(b)[rest] = [size |-> headers[b].size - wanted - HeaderSize,
                              next |-> headers[b].next]
           /\ \A h \in DOMAIN headers \ {b, rest} : Cut(b)[h] = headers[h]
<1>1. b \in Nat /\ HeaderSize \in Nat \ {0}
  BY BlockType, AllocatorAssumption
<1>2. rest \in Nat /\ b < rest
  BY <1>1
<1> QED
  BY <1>1, <1>2 DEF Cut

LEMMA InitInv == Init => Inv
  BY AllocatorAssumption
  DEF Init, Inv, TypeOK, Tiled, WithinPool, HeadIsFirst, Searched,
      AreasKeepEnds, InCircle, EndOf, Null

\* Handing out an area: the block is cut inside its old bounds, so that the
\* tiling and the ends of the areas in use stay.
LEMMA GrantInv == Inv /\ Grant => Inv'
<1> SUFFICES ASSUME Inv, Grant PROVE Inv'
  OBVIOUS
<1> USE AllocatorAssumption
<1>0. PICK c, w : c = current /\ w = wanted
  OBVIOUS
<1> DEFINE rest == c + HeaderSize + w
           left == headers[c].size - w - HeaderSize
           area == [at |-> c + HeaderSize, size |-> w]
<1>1. /\ c \in DOMAIN headers /\ w \in Sizes /\ w \in Nat
      /\ headers[c].size >= w + HeaderSize
      /\ op = "search"
  BY <1>0 DEF Inv, TypeOK, Grant, IsBigEnough
<1>2. /\ c \in Nat /\ headers[c].size \in Nat
      /\ headers[c].next \in DOMAIN headers \union {Null}
  BY <1>1, BlockType DEF Inv
<1>3. /\ rest \in Nat /\ c < rest
      /\ DOMAIN headers' = DOMAIN headers \union {rest}
      /\ headers'[c] = [size |-> w, next |-> rest]
      /\ headers'[rest] = [size |-> left, next |-> headers[c].next]
      /\ \A h \in DOMAIN headers \ {c, rest} : headers'[h] = headers[h]
  <2>1. headers' = Cut(c) /\ rest = c + HeaderSize + wanted /\ wanted \in Nat
    BY <1>0, <1>1 DEF Grant
  <2>2. TypeOK
    BY DEF Inv
  <2> HIDE DEF rest, left
  <2>3. left = headers[c].size - wanted - HeaderSize
    BY <1>0 DEF left
  <2> QED
    BY <1>0, <1>1, <2>1, <2>2, <2>3, CutFacts
<1>4. left \in Nat /\ rest + HeaderSize + left = EndOf(c)
  BY <1>1, <1>2 DEF EndOf
<1>5. EndOf(c) <= PoolSize
  BY <1>1 DEF Inv, WithinPool
<1>6. rest <= PoolSize - HeaderSize
  BY <1>1, <1>2, <1>3, <1>4, <1>5 DEF EndOf
<1>7. \A h \in DOMAIN headers : h # c /\ h # rest => EndOf(h)' = EndOf(h)
  BY <1>3 DEF EndOf
<1>8. EndOf(c)' = rest /\ EndOf(rest)' = EndOf(c)
  BY <1>2, <1>3, <1>4 DEF EndOf
<1>9. rest \notin DOMAIN headers
  BY <1>1, <1>2, <1>3, <1>4 DEF Inv, Tiled, EndOf
<1>10. area \in [at : 0 .. PoolSize, size : Sizes]
  BY <1>1, <1>2, <1>3, <1>6
<1>11. /\ areas' = areas \union {area}
       /\ op' = "idle" /\ current' = Null /\ wanted' = 0
       /\ heap_freelist' = heap_freelist /\ heapsize_limit_kb' = heapsize_limit_kb
       /\ heapsize_current' = heapsize_current + left
       /\ inUse' = inUse + 1 /\ outcome' = "granted"
  BY <1>0 DEF Grant
<1>12. TypeOK'
  <2>1. headers' \in [DOMAIN headers' -> [size : Nat, next : DOMAIN headers' \union {Null}]]
    <3>1. \A h \in DOMAIN headers \ {c} : headers[h] \in [size : Nat, next : DOMAIN headers' \union {Null}]
      BY <1>3 DEF Inv, TypeOK
    <3>2. /\ headers'[c] \in [size : Nat, next : DOMAIN headers' \union {Null}]
          /\ headers'[rest] \in [size : Nat, next : DOMAIN headers' \union {Null}]
      BY <1>1, <1>2, <1>3, <1>4
    <3>3. headers' = [h \in DOMAIN headers' |-> headers'[h]]
      BY DEF Grant, Cut
    <3> QED
      BY <1>3, <3>1, <3>2, <3>3
  <2>2. DOMAIN headers' \subseteq 0 .. PoolSize - HeaderSize
    BY <1>3, <1>6 DEF Inv, TypeOK
  <2>3. areas' \subseteq [at : 0 .. PoolSize, size : Sizes]
    BY <1>10, <1>11 DEF Inv, TypeOK
  <2> QED
    BY <1>3, <1>4, <1>11, <2>1, <2>2, <2>3 DEF Inv, TypeOK
<1>13. Tiled'
  <2> SUFFICES ASSUME NEW b \in DOMAIN headers'
               PROVE  /\ headers'[b].next = IF EndOf(b)' = PoolSize THEN Null ELSE EndOf(b)'
                      /\ \A d \in DOMAIN headers' : d > b => d >= EndOf(b)'
    BY DEF Tiled
  <2>1. \A h \in DOMAIN headers :
            /\ h \in Nat
            /\ headers[h].next = IF EndOf(h) = PoolSize THEN Null ELSE EndOf(h)
            /\ \A d \in DOMAIN headers : d > h => d >= EndOf(h)
    BY <1>1, BlockType DEF Inv, Tiled
  <2>2. CASE b = c
    BY <2>1, <2>2, <1>1, <1>2, <1>3, <1>4, <1>6, <1>8 DEF EndOf
  <2>3. CASE b = rest
    BY <2>1, <2>3, <1>1, <1>2, <1>3, <1>4, <1>8 DEF EndOf
  <2>4. CASE b # c /\ b # rest
    <3>1. b \in DOMAIN headers /\ headers'[b] = headers[b] /\ EndOf(b)' = EndOf(b)
      BY <2>4, <1>3, <1>7
    <3>2. rest > b => rest >= EndOf(b)
      <4>1. CASE c < b
        BY <4>1, <3>1, <2>1, <1>1, <1>2, <1>3, <1>4
      <4>2. CASE b < c
        BY <4>2, <3>1, <2>1, <1>1, <1>2, <1>3, BlockType DEF Inv
      <4> QED
        BY <4>1, <4>2, <2>1, <2>4, <3>1, <1>2
    <3> QED
      BY <3>1, <3>2, <2>1, <1>3
  <2> QED
    BY <2>2, <2>3, <2>4
<1>14. WithinPool'
  <2> SUFFICES ASSUME NEW b \in DOMAIN headers' PROVE EndOf(b)' <= PoolSize
    BY DEF WithinPool
  <2> QED
    BY <1>1, <1>3, <1>5, <1>6, <1>7, <1>8 DEF Inv, WithinPool
<1>15. AreasKeepEnds'
  <2> SUFFICES ASSUME NEW a \in areas'
               PROVE  /\ a.at - HeaderSize \in DOMAIN headers'
                      /\ \A b \in DOMAIN headers' :
                             b + HeaderSize >= a.at /\ b < a.at + a.size
                                 => EndOf(b)' <= a.at + a.size
    BY DEF AreasKeepEnds
  <2>1. CASE a \in areas
    <3>1. /\ a.at - HeaderSize \in DOMAIN headers /\ a.at \in Nat /\ a.size \in Nat
          /\ \A b \in DOMAIN headers :
                 b + HeaderSize >= a.at /\ b < a.at + a.size
                     => EndOf(b) <= a.at + a.size
      BY <2>1, <1>1 DEF Inv, AreasKeepEnds, TypeOK
    <3>2. ASSUME rest + HeaderSize >= a.at, rest < a.at + a.size
          PROVE  EndOf(rest)' <= a.at + a.size
      <4>1. CASE c + HeaderSize >= a.at
        BY <4>1, <3>1, <3>2, <1>1, <1>2, <1>3, <1>8
      <4>2. CASE c + HeaderSize < a.at
        <5>1. a.at - HeaderSize > c /\ a.at - HeaderSize >= EndOf(c)
          BY <4>2, <3>1, <1>1, <1>2 DEF Inv, Tiled
        <5> QED
          BY <5>1, <3>1, <3>2, <1>2, <1>3, <1>4
      <4> QED
        BY <4>1, <4>2, <3>1, <1>2
    <3>3. ASSUME c + HeaderSize >= a.at, c < a.at + a.size
          PROVE  EndOf(c)' <= a.at + a.size
      BY <3>1, <3>3, <1>1, <1>2, <1>3, <1>4, <1>8
    <3> QED
      BY <3>1, <3>2, <3>3, <1>3, <1>7
  <2>2. CASE a = area
    <3>1. ASSUME NEW b \in DOMAIN headers', b + HeaderSize >= a.at, b < a.at + a.size
          PROVE  b = c
      <4>1. a.at = c + HeaderSize /\ a.size = w
        BY <2>2
      <4>2. CASE b \in DOMAIN headers
        <5>1. b \in Nat /\ (b > c => b >= EndOf(c))
          BY <4>2, <1>1, BlockType DEF Inv, Tiled
        <5> QED
          BY <5>1, <4>1, <3>1, <1>1, <1>2, <1>4
      <4>3. CASE b = rest
        BY <4>3, <4>1, <3>1, <1>1, <1>2
      <4> QED
        BY <4>2, <4>3, <1>3
    <3> QED
      BY <3>1, <2>2, <1>1, <1>2, <1>3, <1>8
  <2> QED
    BY <2>1, <2>2, <1>11
<1>16. HeadIsFirst' /\ Searched' /\ InCircle'
  BY <1>11 DEF Inv, HeadIsFirst, Searched, InCircle
<1> QED
  BY <1>12, <1>13, <1>14, <1>15, <1>16 DEF Inv

\* A search goes on from a block that is too small.
LEMMA SearchOnInv == Inv /\ SearchOn => Inv'
<1> SUFFICES ASSUME Inv, SearchOn PROVE Inv'
  OBVIOUS
<1> USE AllocatorAssumption
<1>1. PICK c : c = current /\ c \in DOMAIN headers
  BY DEF Inv, TypeOK, SearchOn
<1>2. /\ current' = headers[c].next /\ op' = op /\ op = "search" /\ ~IsBigEnough(c)
      /\ UNCHANGED <<headers, heap_freelist, heapsize_current, heapsize_limit_kb,
                     wanted, outcome, areas, inUse>>
  BY <1>1 DEF SearchOn
<1>3. TypeOK'
  BY <1>1, <1>2 DEF Inv, TypeOK
<1>4. Searched'
  <2> SUFFICES ASSUME NEW b \in DOMAIN headers, headers[c].next = Null \/ b < headers[c].next
               PROVE  ~IsBigEnough(b)
    BY <1>2 DEF Inv, Searched, IsBigEnough
  <2>1. /\ b \in Nat /\ b <= PoolSize - HeaderSize /\ c \in Nat /\ EndOf(c) \in Nat
        /\ headers[c].next = IF EndOf(c) = PoolSize THEN Null ELSE EndOf(c)
        /\ b > c => b >= EndOf(c)
    BY <1>1, <1>2, BlockType DEF Inv, Tiled
  <2>2. b <= c
    BY <2>1 DEF Null
  <2> QED
    BY <1>1, <1>2, <2>1, <2>2 DEF Inv, Searched
<1>5. (Tiled /\ WithinPool /\ HeadIsFirst /\ AreasKeepEnds /\ InCircle)'
  BY <1>2 DEF Inv, Tiled, WithinPool, HeadIsFirst, AreasKeepEnds, InCircle, EndOf
<1> QED
  BY <1>3, <1>4, <1>5 DEF Inv

\* Freeing: every block up to the freed one now leads to a block up to it.
LEMMA FreeInv == ASSUME Inv, NEW a \in areas, Free(a) PROVE Inv'
<1> USE AllocatorAssumption
<1> DEFINE target == a.at - HeaderSize
<1>1. /\ op = "idle" /\ op' = "merge" /\ current' = heap_freelist'
      /\ headers' = [headers EXCEPT ![target].next = 0]
      /\ heap_freelist' = headers'[target].next
      /\ areas' = areas \ {a} /\ inUse' = inUse - 1 /\ outcome' = "none"
      /\ UNCHANGED <<heapsize_current, heapsize_limit_kb, wanted>>
  BY DEF Free, Inv, HeadIsFirst
<1>2. target \in DOMAIN headers
  BY <1>1 DEF Inv, AreasKeepEnds
<1>3. 0 \in DOMAIN headers
  BY DEF Inv, TypeOK, HeadIsFirst
<1>4. DOMAIN headers' = DOMAIN headers
  BY <1>1
<1>5. \A b \in DOMAIN headers :
          /\ headers'[b].size = headers[b].size
          /\ headers'[b].next = IF b = target THEN 0 ELSE headers[b].next
          /\ headers'[b] \in [size : Nat, next : DOMAIN headers \union {Null}]
  BY <1>1, <1>3 DEF Inv, TypeOK
<1>6. heap_freelist' = 0 /\ current' = 0
  BY <1>1, <1>2, <1>5
<1>7. TypeOK'
  <2>1. headers' = [b \in DOMAIN headers |-> headers'[b]]
    BY <1>1
  <2>2. headers' \in [DOMAIN headers' -> [size : Nat, next : DOMAIN headers' \union {Null}]]
    BY <1>4, <1>5, <2>1
  <2>3. heap_freelist' \in DOMAIN headers' /\ current' \in DOMAIN headers'
    BY <1>3, <1>4, <1>6
  <2>4. areas' \subseteq [at : 0 .. PoolSize, size : Sizes] /\ inUse' \in Int
    BY <1>1 DEF Inv, TypeOK
  <2> QED
    BY <1>1, <1>4, <2>2, <2>3, <2>4 DEF Inv, TypeOK
<1>8. WithinPool'
  BY <1>4, <1>5 DEF Inv, WithinPool, EndOf
<1>9. InCircle'
  <2> SUFFICES ASSUME NEW b \in DOMAIN headers, b <= target
               PROVE  headers'[b].next # Null /\ headers'[b].next <= target
    <3>1. target \in DOMAIN headers' /\ current' \in DOMAIN headers' /\ current' <= target
      BY <1>2, <1>3, <1>4, <1>6, BlockType DEF Inv
    <3>2. \A b \in DOMAIN headers' :
              b <= target => headers'[b].next # Null /\ headers'[b].next <= target
      BY <1>4
    <3> HIDE DEF target
    <3> QED
      BY <3>1, <3>2 DEF InCircle
  <2>1. target \in Nat /\ target <= PoolSize - HeaderSize /\ b \in Nat /\ EndOf(b) \in Nat
    BY <1>2, BlockType DEF Inv
  <2>2. CASE b = target
    BY <2>1, <2>2, <1>5 DEF Null
  <2>3. CASE b # target
    <3>1. target >= EndOf(b)
      BY <2>1, <2>3, <1>1, <1>2 DEF Inv, Tiled
    <3>2. headers'[b].next = IF EndOf(b) = PoolSize THEN Null ELSE EndOf(b)
      BY <2>3, <1>1, <1>5 DEF Inv, Tiled
    <3> QED
      BY <2>1, <3>1, <3>2 DEF Null
  <2> QED
    BY <2>2, <2>3
<1>10. Tiled' /\ HeadIsFirst' /\ Searched' /\ AreasKeepEnds'
  BY <1>1, <1>6 DEF Tiled, HeadIsFirst, Searched, AreasKeepEnds
<1> QED
  BY <1>7, <1>8, <1>9, <1>10 DEF Inv

\* A step of the merge stays in the circle, whether it takes a block in or
\* passes by.
LEMMA MergeInv == Inv /\ MergeStep => Inv'
<1> SUFFICES ASSUME Inv, MergeStep PROVE Inv'
  OBVIOUS
<1> USE AllocatorAssumption
<1>1. PICK t \in DOMAIN headers :
          /\ current \in DOMAIN headers /\ current <= t
          /\ \A b \in DOMAIN headers :
                 b <= t => headers[b].next # Null /\ headers[b].next <= t
  BY DEF Inv, InCircle, MergeStep
<1>2. PICK c, n : c = current /\ n = headers[c].next
  OBVIOUS
<1>3. /\ c \in DOMAIN headers /\ n \in DOMAIN headers /\ n # Null /\ n <= t
      /\ c \in Nat /\ n \in Nat /\ headers[c].size \in Nat /\ headers[n].size \in Nat
      /\ headers[n].next \in DOMAIN headers /\ headers[n].next # Null
      /\ headers[n].next <= t
  BY <1>1, <1>2, BlockType DEF Inv
<1>4. /\ op = "merge" /\ op' = "merge"
      /\ UNCHANGED <<heap_freelist, heapsize_current, heapsize_limit_kb,
                     wanted, outcome, areas, inUse>>
      /\ IF EndOf(c) = n
         THEN /\ headers' = [headers EXCEPT ![c] =
                     [size |-> headers[c].size + HeaderSize + headers[n].size,
                      next |-> headers[n].next]]
              /\ current' = c
         ELSE current' = n /\ headers' = headers
  BY <1>2, <1>3 DEF MergeStep, Null
<1>5. Tiled' /\ HeadIsFirst' /\ Searched' /\ AreasKeepEnds'
  BY <1>4 DEF Inv, Tiled, HeadIsFirst, Searched, AreasKeepEnds
<1>6. TypeOK' /\ WithinPool' /\ InCircle'
  <2>1. CASE EndOf(c) = n
    <3>1. /\ DOMAIN headers' = DOMAIN headers
          /\ headers'[c] = [size |-> headers[c].size + HeaderSize + headers[n].size,
                            next |-> headers[n].next]
          /\ \A b \in DOMAIN headers \ {c} : headers'[b] = headers[b]
          /\ headers' = [b \in DOMAIN headers |-> headers'[b]]
      BY <2>1, <1>3, <1>4
    <3>2. headers' \in [DOMAIN headers -> [size : Nat, next : DOMAIN headers \union {Null}]]
      BY <3>1, <1>3 DEF Inv, TypeOK
    <3>3. TypeOK'
      <4>1. current' \in DOMAIN headers' /\ heap_freelist' \in DOMAIN headers'
        BY <3>1, <2>1, <1>3, <1>4 DEF Inv, TypeOK
      <4>2. headers' \in [DOMAIN headers' -> [size : Nat, next : DOMAIN headers' \union {Null}]]
        BY <3>1, <3>2
      <4> QED
        BY <3>1, <4>1, <4>2, <1>4 DEF Inv, TypeOK
    <3>4. EndOf(c)' = EndOf(n)
      <4>1. headers'[c].size = headers[c].size + HeaderSize + headers[n].size
        BY <3>1
      <4> QED
        BY <2>1, <4>1, <1>3 DEF EndOf
    <3>5. WithinPool'
      BY <3>1, <3>4, <1>3 DEF Inv, WithinPool, EndOf
    <3>6. InCircle'
      <4>1. t \in DOMAIN headers' /\ current' \in DOMAIN headers' /\ current' <= t
        BY <3>1, <2>1, <1>1, <1>2, <1>3, <1>4
      <4>2. ASSUME NEW b \in DOMAIN headers', b <= t
            PROVE  headers'[b].next # Null /\ headers'[b].next <= t
        BY <4>2, <3>1, <1>1, <1>3
      <4> QED
        BY <4>1, <4>2 DEF InCircle
    <3> QED
      BY <3>3, <3>5, <3>6
  <2>2. CASE EndOf(c) # n
    BY <2>2, <1>1, <1>3, <1>4 DEF Inv, TypeOK, WithinPool, InCircle, EndOf
  <2> QED
    BY <2>1, <2>2
<1> QED
  BY <1>4, <1>5, <1>6 DEF Inv

\* Every step keeps the invariant.
LEMMA NextInv == Inv /\ [Next]_vars => Inv'
<1> SUFFICES ASSUME Inv, [Next]_vars PROVE Inv'
  OBVIOUS
<1> USE AllocatorAssumption
<1>1. CASE Grant
  BY <1>1, GrantInv
<1>2. CASE SearchOn
  BY <1>2, SearchOnInv
<1>3. CASE MergeStep
  BY <1>3, MergeInv
<1>4. CASE \E a \in areas : Free(a)
  BY <1>4, FreeInv
<1>5. CASE Exhaust
  BY <1>5 DEF Exhaust, Inv, TypeOK, Tiled, WithinPool, HeadIsFirst, Searched,
              AreasKeepEnds, InCircle, EndOf
<1>6. ASSUME NEW size \in Sizes, Refuse(size) PROVE Inv'
  BY <1>6 DEF Refuse, Inv, TypeOK, Tiled, WithinPool, HeadIsFirst, Searched,
              AreasKeepEnds, InCircle, EndOf
<1>7. ASSUME NEW size \in Sizes, BeginSearch(size) PROVE Inv'
  <2>1. \A b \in DOMAIN headers : ~(0 = Null \/ b < 0)
    BY BlockType DEF Inv, Null
  <2> QED
    BY <1>7, <2>1 DEF BeginSearch, Inv, TypeOK, Tiled, WithinPool, HeadIsFirst,
              Searched, AreasKeepEnds, InCircle, EndOf
<1>8. CASE UNCHANGED vars
  BY <1>8 DEF vars, Inv, TypeOK, Tiled, WithinPool, HeadIsFirst, Searched,
              AreasKeepEnds, InCircle, EndOf, IsBigEnough
<1> QED
  BY <1>1, <1>2, <1>3, <1>4, <1>5, <1>6, <1>7, <1>8 DEF Next

LEMMA Invariance == Spec => []Inv
  BY InitInv, NextInv, PTL DEF Spec

\* The state always has its type: in particular a header is never written
\* where it would not fit into the pool.
THEOREM TypeCorrect == Spec => []TypeOK
  BY Invariance, PTL DEF Inv

\* Until something is freed the list is the pool, cut into blocks without gap
\* and overlap, for every pool, header and choice of sizes.
THEOREM PoolIsTiled == Spec => []Tiled
  BY Invariance, PTL DEF Inv

\* heap_free's merge never takes in memory that is not the pool's.
THEOREM StaysWithinPool == Spec => []WithinPool
  BY Invariance, PTL DEF Inv

\* heap_alloc gives no memory twice to requests that differ by less than a
\* header.
LEMMA GrantedApart ==
    ASSUME Inv, Grant, NEW a \in areas, Close(a.size, wanted)
    PROVE  Pool!Apart(a, [at |-> current + HeaderSize, size |-> wanted])
<1> USE AllocatorAssumption
<1>1. /\ current \in DOMAIN headers /\ current \in Nat /\ wanted \in Nat
      /\ headers[current].size \in Nat
      /\ headers[current].size >= wanted + HeaderSize
      /\ a.at \in Nat /\ a.size \in Nat
  BY BlockType DEF Inv, TypeOK, Grant, IsBigEnough
<1>2. /\ a.at - HeaderSize \in DOMAIN headers
      /\ current + HeaderSize >= a.at /\ current < a.at + a.size
             => EndOf(current) <= a.at + a.size
      /\ a.at - HeaderSize > current => a.at - HeaderSize >= EndOf(current)
  BY <1>1 DEF Inv, AreasKeepEnds, Tiled, Grant
<1> QED
  BY <1>1, <1>2 DEF Close, Pool!Apart, EndOf

THEOREM AreasAreGrantedApart == Spec => GrantsApart
<1>1. Inv /\ [Next]_vars
          => [op = "search" /\ outcome' = "granted"
                 => \A a \in areas : Close(a.size, wanted)
                        => Pool!Apart(a, [at |-> current + HeaderSize, size |-> wanted])]_vars
  <2> SUFFICES ASSUME Inv, Next, op = "search", outcome' = "granted",
                      NEW a \in areas, Close(a.size, wanted)
               PROVE  Pool!Apart(a, [at |-> current + HeaderSize, size |-> wanted])
    BY DEF vars
  <2>1. CASE Grant
    BY <2>1, GrantedApart
  <2>2. CASE SearchOn
    BY <2>2 DEF SearchOn, Inv, Searched
  <2> QED
    BY <2>1, <2>2 DEF Next, Refuse, BeginSearch, Exhaust, Free, MergeStep
<1> QED
  BY <1>1, Invariance, PTL DEF Spec, GrantsApart

\* A search that fails has seen every block.
THEOREM SearchesFailWhenFull == Spec => FailsOnlyWhenFull
<1>1. Inv /\ [Next]_vars
          => [op = "search" /\ outcome' = "insufficient"
                 => \A b \in DOMAIN headers : ~IsBigEnough(b)]_vars
  <2> SUFFICES ASSUME Inv, Next, op = "search", outcome' = "insufficient"
               PROVE  \A b \in DOMAIN headers : ~IsBigEnough(b)
    BY DEF vars
  <2>1. CASE Exhaust
    BY <2>1 DEF Exhaust, Inv, Searched
  <2>2. CASE SearchOn
    BY <2>2 DEF SearchOn, Inv, Searched
  <2>3. CASE Grant
    BY <2>3 DEF Grant
  <2> QED
    BY <2>1, <2>2, <2>3 DEF Next, Refuse, BeginSearch, Free, MergeStep
<1> QED
  BY <1>1, Invariance, PTL DEF Spec, FailsOnlyWhenFull

\* When no two requests differ by a header or more, the allocator keeps the
\* promise of AreaPool.
THEOREM ImplementsAreaPool ==
    ASSUME \A s, t \in Sizes : Close(s, t)
    PROVE  Spec => KeepsPromise
<1> USE AllocatorAssumption
<1>1. Init => Pool!PoolInit
  BY DEF Init, Pool!PoolInit
<1>2. Inv /\ [Next]_vars => [Pool!HandOut \/ Pool!TakeBack]_<<areas, inUse>>
  <2> SUFFICES ASSUME Inv, [Next]_vars
               PROVE  [Pool!HandOut \/ Pool!TakeBack]_<<areas, inUse>>
    OBVIOUS
  <2>1. CASE Grant
    <3> DEFINE area == [at |-> current + HeaderSize, size |-> wanted]
    <3>1. /\ current \in DOMAIN headers /\ wanted \in Sizes /\ wanted \in Nat
          /\ current \in Nat /\ headers[current].size \in Nat
          /\ headers[current].size >= wanted + HeaderSize
          /\ EndOf(current) <= PoolSize
      BY <2>1, BlockType DEF Inv, TypeOK, WithinPool, Grant, IsBigEnough
    <3>2. area \in Pool!Areas /\ area.at + area.size <= PoolSize
      BY <3>1 DEF Pool!Areas, EndOf
    <3>3. \A a \in areas : Pool!Apart(area, a)
      <4> SUFFICES ASSUME NEW a \in areas PROVE Pool!Apart(area, a)
        OBVIOUS
      <4>1. Close(a.size, wanted)
        BY <3>1 DEF Inv, TypeOK
      <4>2. Pool!Apart(a, area)
        BY <4>1, <2>1, GrantedApart
      <4> QED
        BY <4>2 DEF Pool!Apart
    <3> QED
      BY <3>2, <3>3, <2>1 DEF Pool!HandOut, Grant
  <2>2. CASE \E a \in areas : Free(a)
    BY <2>2 DEF Free, Pool!TakeBack
  <2> QED
    BY <2>1, <2>2 DEF Next, vars, Refuse, BeginSearch, SearchOn, Exhaust, MergeStep
<1> QED
  BY <1>1, <1>2, Invariance, PTL DEF Spec, KeepsPromise, Pool!Promise
================================================================================
