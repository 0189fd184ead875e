------------------------------- MODULE VMProofs -------------------------------
(***************************************************************************)
(* What the machine keeps, for every program of instructions, every width  *)
(* of bytes, words and data, every size of the heap and the stack, and     *)
(* whatever malloc left in them: the widths of its memories, and the       *)
(* header of its heap.  The lemmas about words come first: a word that is  *)
(* written is read back, and its low bytes are its remainder.              *)
(***************************************************************************)
EXTENDS VM, SequenceTheorems, WellFoundedInduction, TLAPS

-----------------------------------------------------------------------------
(***************************************************************************)
(* Numbers.  Induction over the first numbers is induction over a set of   *)
(* them, so that it needs no operator as a parameter.                      *)
(***************************************************************************)
LessThan == {ss \in Nat \X Nat : ss[1] < ss[2]}

LEMMA UpTo ==
    ASSUME NEW n \in Nat, NEW S, 0 \in S, \A i \in 0 .. n - 1 : i \in S => i + 1 \in S
    PROVE  \A i \in 0 .. n : i \in S
<1> DEFINE T == {i \in 0 .. n : i \notin S}
<1> SUFFICES ASSUME T # {} PROVE FALSE
  OBVIOUS
<1>1. T \subseteq Nat
  OBVIOUS
<1>2. IsWellFoundedOn(LessThan, Nat)
  BY NatLessThanWellFounded DEF OpToRel, LessThan
<1> HIDE DEF T
<1>3. PICK m \in T : \A k \in T : ~(<<k, m>> \in LessThan)
  BY <1>1, <1>2, WFMin
<1>4. m \in Nat /\ m <= n /\ m \notin S /\ m # 0
  BY DEF T
<1>5. m - 1 \in 0 .. n - 1 /\ (m - 1) + 1 = m
  BY <1>4
<1>6. m - 1 \notin T
  <2>1. <<m - 1, m>> \in LessThan
    BY <1>4 DEF LessThan
  <2> QED
    BY <1>3, <2>1
<1> QED
  BY <1>4, <1>5, <1>6 DEF T

\* Division by a positive number.
LEMMA Division ==
    ASSUME NEW x \in Int, NEW m \in Nat, m > 0
    PROVE  /\ x \div m \in Int /\ x % m \in 0 .. m - 1
           /\ x = m * (x \div m) + (x % m)
OBVIOUS

LEMMA DivisionIs ==
    ASSUME NEW m \in Nat, m > 0, NEW q \in Int, NEW r \in 0 .. m - 1
    PROVE  (m * q + r) \div m = q /\ (m * q + r) % m = r
OBVIOUS

\* Numbers that differ by a multiple of m have the same remainder.
LEMMA SameRemainder ==
    ASSUME NEW m \in Nat, m > 0, NEW x \in Int, NEW a \in Int
    PROVE  (x + m * a) % m = x % m
<1>1. /\ x \div m \in Int /\ x % m \in 0 .. m - 1
      /\ x = m * (x \div m) + (x % m)
  BY Division
<1>2. PICK q \in Int, r \in 0 .. m - 1 : x = m * q + r /\ r = x % m
  BY <1>1
<1>3. x + m * a = m * (q + a) + r /\ q + a \in Int
  BY <1>2
<1>4. (m * (q + a) + r) % m = r
  BY <1>3, DivisionIs
<1> QED
  BY <1>2, <1>3, <1>4

-----------------------------------------------------------------------------
(***************************************************************************)
(* Words: what is written is read back, and the low bytes of a word are    *)
(* its remainder.                                                          *)
(***************************************************************************)
Power(i) == Base ^ i

LEMMA Powers ==
    /\ Power(0) = 1 /\ Power(WordBytes) = Word /\ Power(ImmBytes) = Immediate
    /\ \A i \in 0 .. WordBytes : Power(i) \in Nat /\ Power(i) > 0
    /\ \A i \in 0 .. WordBytes - 1 : Power(i + 1) = Base * Power(i)
<1>1. /\ Power(0) = 1 /\ Power(WordBytes) = Word /\ Power(ImmBytes) = Immediate
      /\ \A i \in 0 .. WordBytes - 1 : Power(i + 1) = Base * Power(i)
  BY PowerAssumption DEF Power, Word, Immediate
<1> DEFINE S == {i \in 0 .. WordBytes : Power(i) \in Nat /\ Power(i) > 0}
<1>2. 0 \in S
  BY <1>1, VMAssumption
<1>3. ASSUME NEW i \in 0 .. WordBytes - 1, i \in S PROVE i + 1 \in S
  <2>1. Power(i) \in Nat /\ Power(i) > 0 /\ i + 1 \in 0 .. WordBytes
    BY <1>3, VMAssumption
  <2>2. Base * Power(i) \in Nat /\ Base * Power(i) > 0
    BY <2>1, VMAssumption
  <2> QED
    BY <1>1, <2>1, <2>2
<1>4. \A i \in 0 .. WordBytes : i \in S
  <2> HIDE DEF S
  <2> QED
    BY <1>2, <1>3, VMAssumption, UpTo
<1> QED
  BY <1>1, <1>4

\* A power divides the higher ones.
LEMMA PowerDivides ==
    ASSUME NEW k \in 0 .. WordBytes
    PROVE  \A j \in k .. WordBytes : \E q \in Nat : q > 0 /\ Power(j) = Power(k) * q
<1> DEFINE n == WordBytes - k
           S == {i \in 0 .. n : \E q \in Nat : q > 0 /\ Power(k + i) = Power(k) * q}
<1>1. n \in Nat /\ WordBytes \in Nat /\ k \in Nat
  BY VMAssumption
<1>2. 0 \in S
  <2>1. k + 0 = k /\ Power(k) = Power(k) * 1
    BY <1>1, Powers
  <2> QED
    BY <1>1, <2>1
<1>3. ASSUME NEW i \in 0 .. n - 1, i \in S PROVE i + 1 \in S
  <2>1. PICK q \in Nat : q > 0 /\ Power(k + i) = Power(k) * q
    BY <1>3
  <2>2. k + i \in 0 .. WordBytes - 1 /\ k + (i + 1) = (k + i) + 1 /\ i + 1 \in 0 .. n
    BY <1>1
  <2>3. Power(k + (i + 1)) = Base * (Power(k) * q)
    BY <2>1, <2>2, Powers
  <2>4. PICK P \in Nat : P = Power(k)
    BY Powers
  <2>5. Base * (P * q) = P * (Base * q) /\ Base * q \in Nat /\ Base * q > 0
    BY <2>1, VMAssumption
  <2> QED
    BY <2>2, <2>3, <2>4, <2>5
<1>4. \A i \in 0 .. n : i \in S
  <2> HIDE DEF S
  <2> QED
    BY <1>1, <1>2, <1>3, UpTo
<1>5. \A j \in k .. WordBytes : j - k \in 0 .. n /\ k + (j - k) = j
  BY <1>1
<1> QED
  BY <1>4, <1>5

\* The sums by which WordAt reads a word.
Sums(memory, a, f) ==
    f = [i \in 0 .. WordBytes |->
            IF i = 0 THEN 0 ELSE f[i - 1] + memory[a + i - 1] * Base ^ (i - 1)]

LEMMA WordSums ==
    ASSUME NEW memory, NEW a
    PROVE  \E f : /\ WordAt(memory, a) = f[WordBytes] /\ f[0] = 0
                  /\ \A i \in 0 .. WordBytes - 1 :
                        f[i + 1] = f[i] + memory[a + (i + 1) - 1] * Power(i)
<1> DEFINE Part(f, n) ==
               f = [i \in 0 .. n |->
                      IF i = 0 THEN 0 ELSE f[i - 1] + memory[a + i - 1] * Base ^ (i - 1)]
           S == {n \in 0 .. WordBytes : \E f : Part(f, n)}
<1>1. 0 \in S
  <2>1. Part([i \in 0 .. 0 |-> 0], 0)
    OBVIOUS
  <2>2. 0 \in 0 .. WordBytes
    BY VMAssumption
  <2> HIDE DEF Part
  <2> QED
    BY <2>1, <2>2
<1>2. ASSUME NEW n \in 0 .. WordBytes - 1, n \in S PROVE n + 1 \in S
  <2>1. PICK f : Part(f, n)
    BY <1>2
  <2> DEFINE v(g, i) == IF i = 0 THEN 0 ELSE g[i - 1] + memory[a + i - 1] * Base ^ (i - 1)
             h == [i \in 0 .. n + 1 |-> IF i = n + 1 THEN v(f, i) ELSE f[i]]
  <2>2. n \in Nat /\ n + 1 \in 0 .. WordBytes
    BY VMAssumption
  <2>3. \A i \in 0 .. n : f[i] = v(f, i)
    BY <2>1
  <2>4. ASSUME NEW i \in 0 .. n + 1 PROVE h[i] = v(h, i)
    <3>1. i # 0 => h[i - 1] = f[i - 1]
      BY <2>2
    <3>2. v(h, i) = v(f, i)
      BY <3>1
    <3>3. CASE i = n + 1
      BY <3>2, <3>3
    <3>4. CASE i # n + 1
      <4>1. i \in 0 .. n
        BY <2>2, <3>4
      <4> HIDE DEF v
      <4>2. h[i] = f[i]
        BY <3>4
      <4> QED
        BY <2>3, <3>2, <4>1, <4>2
    <3> QED
      BY <3>3, <3>4
  <2>5. h = [i \in 0 .. n + 1 |-> v(h, i)]
    <3> DEFINE D == 0 .. n + 1
    <3>1. h = [i \in D |-> h[i]]
      OBVIOUS
    <3> HIDE DEF h, v, D
    <3>2. \A i \in D : h[i] = v(h, i)
      BY <2>4 DEF D
    <3> QED
      BY <3>1, <3>2 DEF D
  <2>6. Part(h, n + 1)
    BY <2>5
  <2> QED
    BY <2>2, <2>6
<1>3. WordBytes \in S
  <2> HIDE DEF S
  <2>1. \A i \in 0 .. WordBytes : i \in S
    BY <1>1, <1>2, VMAssumption, UpTo
  <2> QED
    BY <2>1, VMAssumption
<1>4. \E f : Sums(memory, a, f)
  BY <1>3 DEF Sums
<1> DEFINE f == CHOOSE g : Sums(memory, a, g)
<1>5. Sums(memory, a, f)
  BY <1>4
<1>6. WordAt(memory, a) = f[WordBytes]
  BY DEF WordAt, Sums
<1> HIDE DEF f
<1>7. \A i \in 0 .. WordBytes :
         f[i] = IF i = 0 THEN 0 ELSE f[i - 1] + memory[a + i - 1] * Base ^ (i - 1)
  BY <1>5 DEF Sums
<1>8. 0 \in 0 .. WordBytes
  BY VMAssumption
<1>9. ASSUME NEW i \in 0 .. WordBytes - 1
      PROVE  f[i + 1] = f[i] + memory[a + (i + 1) - 1] * Power(i)
  <2>1. i + 1 \in 0 .. WordBytes /\ i + 1 # 0 /\ (i + 1) - 1 = i
    BY VMAssumption
  <2>2. f[i + 1] = f[(i + 1) - 1] + memory[a + (i + 1) - 1] * Base ^ ((i + 1) - 1)
    BY <1>7, <2>1
  <2> QED
    BY <2>1, <2>2 DEF Power
<1> QED
  BY <1>6, <1>7, <1>8, <1>9

LEMMA WordRange ==
    ASSUME NEW memory, NEW a \in Int,
           \A b \in a .. a + WordBytes - 1 : memory[b] \in 0 .. Base - 1
    PROVE  WordAt(memory, a) \in 0 .. Word - 1
<1>1. PICK f : /\ WordAt(memory, a) = f[WordBytes] /\ f[0] = 0
               /\ \A i \in 0 .. WordBytes - 1 :
                     f[i + 1] = f[i] + memory[a + (i + 1) - 1] * Power(i)
  BY WordSums
<1> DEFINE S == {i \in 0 .. WordBytes : f[i] \in 0 .. Power(i) - 1}
<1>2. 0 \in S
  BY <1>1, Powers, VMAssumption
<1>3. ASSUME NEW i \in 0 .. WordBytes - 1, i \in S PROVE i + 1 \in S
  <2>1. PICK p \in Nat : p = Power(i) /\ p > 0 /\ Power(i + 1) = Base * p
    BY Powers, VMAssumption
  <2>2. PICK m \in 0 .. Base - 1 : m = memory[a + (i + 1) - 1]
    <3>1. a + (i + 1) - 1 \in a .. a + WordBytes - 1
      BY VMAssumption
    <3> QED
      BY <3>1
  <2>3. f[i] \in 0 .. p - 1 /\ f[i + 1] = f[i] + m * p
    BY <1>1, <1>3, <2>1, <2>2
  <2>4. m * p <= (Base - 1) * p /\ m * p \in Nat /\ (Base - 1) * p = Base * p - p
    BY VMAssumption
  <2>5. f[i + 1] \in 0 .. Base * p - 1
    BY <2>3, <2>4, VMAssumption
  <2> QED
    BY <2>1, <2>5, VMAssumption
<1>4. \A i \in 0 .. WordBytes : i \in S
  <2> HIDE DEF S
  <2> QED
    BY <1>2, <1>3, VMAssumption, UpTo
<1> QED
  BY <1>1, <1>4, Powers, VMAssumption

\* The low bytes of a word decide its remainder.
LEMMA LowBytes ==
    ASSUME NEW memory, NEW other, NEW a \in Int, NEW k \in 0 .. WordBytes,
           \A b \in a .. a + WordBytes - 1 :
               memory[b] \in 0 .. Base - 1 /\ other[b] \in 0 .. Base - 1,
           \A b \in a .. a + k - 1 : memory[b] = other[b]
    PROVE  WordAt(memory, a) % Power(k) = WordAt(other, a) % Power(k)
<1>1. PICK f : /\ WordAt(memory, a) = f[WordBytes] /\ f[0] = 0
               /\ \A i \in 0 .. WordBytes - 1 :
                     f[i + 1] = f[i] + memory[a + (i + 1) - 1] * Power(i)
  BY WordSums
<1>2. PICK g : /\ WordAt(other, a) = g[WordBytes] /\ g[0] = 0
               /\ \A i \in 0 .. WordBytes - 1 :
                     g[i + 1] = g[i] + other[a + (i + 1) - 1] * Power(i)
  BY WordSums
<1>3. PICK P \in Nat : P = Power(k) /\ P > 0
  BY Powers
<1> DEFINE S == {i \in 0 .. WordBytes :
                   /\ f[i] \in Int /\ g[i] \in Int /\ f[i] % P = g[i] % P
                   /\ i <= k => f[i] = g[i]}
<1>4. 0 \in S
  BY <1>1, <1>2, VMAssumption
<1>5. ASSUME NEW i \in 0 .. WordBytes - 1, i \in S PROVE i + 1 \in S
  <2>1. i \in Nat /\ i + 1 \in 0 .. WordBytes
    BY VMAssumption
  <2>2. PICK b \in a .. a + WordBytes - 1 : b = a + (i + 1) - 1
    BY VMAssumption
  <2>3. PICK m \in Int, n \in Int : m = memory[b] /\ n = other[b]
    BY VMAssumption
  <2>4. PICK R \in Nat : R = Power(i)
    <3>1. i \in 0 .. WordBytes
      BY VMAssumption
    <3> QED
      BY Powers, <3>1
  <2>5. f[i + 1] = f[i] + m * R /\ g[i + 1] = g[i] + n * R /\ f[i] \in Int /\ g[i] \in Int
    BY <1>1, <1>2, <1>5, <2>2, <2>3, <2>4
  <2>6. f[i + 1] \in Int /\ g[i + 1] \in Int
    BY <2>5
  <2>7. CASE i < k
    <3>1. b \in a .. a + k - 1
      BY <2>1, <2>2, <2>7
    <3>2. f[i + 1] = g[i + 1]
      BY <1>5, <2>3, <2>5, <2>7, <3>1
    <3> QED
      BY <2>1, <2>6, <3>2
  <2>8. CASE i >= k
    <3>1. PICK q \in Nat : R = P * q
      <4>1. i \in k .. WordBytes
        BY <2>1, <2>8, VMAssumption
      <4> QED
        BY <1>3, <2>4, <4>1, PowerDivides
    <3>2. m * R = P * (m * q) /\ n * R = P * (n * q) /\ m * q \in Int /\ n * q \in Int
      BY <3>1
    <3>3. f[i + 1] % P = f[i] % P /\ g[i + 1] % P = g[i] % P
      <4>1. f[i + 1] = f[i] + P * (m * q) /\ g[i + 1] = g[i] + P * (n * q)
        BY <2>5, <3>2
      <4>2. (f[i] + P * (m * q)) % P = f[i] % P
        BY <1>3, <2>5, <3>2, SameRemainder
      <4>3. (g[i] + P * (n * q)) % P = g[i] % P
        BY <1>3, <2>5, <3>2, SameRemainder
      <4> QED
        BY <4>1, <4>2, <4>3
    <3>4. ~(i + 1 <= k)
      BY <2>1, <2>8
    <3> QED
      BY <1>5, <2>1, <2>6, <3>3, <3>4
  <2> QED
    BY <2>1, <2>7, <2>8
<1>6. \A i \in 0 .. WordBytes : i \in S
  <2> HIDE DEF S
  <2> QED
    BY <1>4, <1>5, VMAssumption, UpTo
<1> QED
  BY <1>1, <1>2, <1>3, <1>6, VMAssumption

\* A number's remainder gains a digit.
LEMMA NextDigit ==
    ASSUME NEW v \in Int, NEW B \in Nat, B > 0, NEW P \in Nat, P > 0
    PROVE  v % (B * P) = (v % P) + ((v \div P) % B) * P
<1>1. PICK q \in Int, r \in 0 .. P - 1 : v = P * q + r /\ q = v \div P /\ r = v % P
  BY Division
<1>2. PICK h \in Int, d \in 0 .. B - 1 : q = B * h + d /\ d = q % B
  BY <1>1, Division
<1>3. P * (B * h) = (B * P) * h /\ P * q = P * (B * h) + d * P
  BY <1>1, <1>2
<1>4. v = (B * P) * h + (d * P + r)
  BY <1>1, <1>3
<1>5. d * P + r \in 0 .. B * P - 1
  <2>1. d * P <= (B - 1) * P /\ d * P >= 0 /\ (B - 1) * P = B * P - P
    BY <1>2
  <2> QED
    BY <1>1, <1>2, <2>1
<1>6. B * P \in Nat /\ B * P > 0
  OBVIOUS
<1>7. v % (B * P) = d * P + r
  BY <1>2, <1>4, <1>5, <1>6, DivisionIs
<1> QED
  BY <1>1, <1>2, <1>7

LEMMA ByteRange ==
    ASSUME NEW v \in Int, NEW i \in 0 .. WordBytes
    PROVE  ByteOf(v, i) \in 0 .. Base - 1
<1>1. PICK P \in Nat : P = Power(i) /\ P > 0
  BY Powers
<1>2. v \div P \in Int
  BY <1>1, Division
<1>3. (v \div P) % Base \in 0 .. Base - 1
  BY <1>2, Division, VMAssumption
<1> QED
  BY <1>1, <1>3 DEF ByteOf, Power

\* A word that has been written is read back.
LEMMA WordReadBack ==
    ASSUME NEW memory, NEW a \in Int, NEW v \in 0 .. Word - 1,
           a .. a + WordBytes - 1 \subseteq DOMAIN memory
    PROVE  WordAt(WithWord(memory, a, v), a) = v
<1> DEFINE after == WithWord(memory, a, v)
<1>1. PICK f : /\ WordAt(after, a) = f[WordBytes] /\ f[0] = 0
               /\ \A i \in 0 .. WordBytes - 1 :
                     f[i + 1] = f[i] + after[a + (i + 1) - 1] * Power(i)
  <2> HIDE DEF after
  <2> QED
    BY WordSums
<1>2. Word \in Nat /\ Word > 0 /\ v \in Int
  BY Powers, VMAssumption
<1> DEFINE S == {i \in 0 .. WordBytes : f[i] = v % Power(i)}
<1>3. 0 \in S
  <2>1. v % 1 = 0
    BY <1>2
  <2> QED
    BY <1>1, <2>1, Powers, VMAssumption
<1>4. ASSUME NEW i \in 0 .. WordBytes - 1, i \in S PROVE i + 1 \in S
  <2>1. i \in Nat /\ i + 1 \in 0 .. WordBytes /\ i \in 0 .. WordBytes
    BY VMAssumption
  <2>2. PICK b \in a .. a + WordBytes - 1 : b = a + (i + 1) - 1 /\ b - a = i
    BY VMAssumption
  <2>3. after[b] = ByteOf(v, i)
    BY <2>2 DEF WithWord
  <2>4. PICK P \in Nat : P = Power(i) /\ P > 0
    BY <2>1, Powers
  <2>5. after[b] = (v \div P) % Base
    BY <2>3, <2>4 DEF ByteOf, Power
  <2>6. f[i + 1] = (v % P) + ((v \div P) % Base) * P
    BY <1>1, <1>4, <2>2, <2>4, <2>5
  <2>7. Base \in Nat /\ Base > 0
    BY VMAssumption
  <2>8. v % (Base * P) = (v % P) + ((v \div P) % Base) * P
    BY <1>2, <2>4, <2>7, NextDigit
  <2>9. Power(i + 1) = Base * P
    BY <2>4, Powers
  <2> QED
    BY <2>1, <2>6, <2>8, <2>9
<1>5. \A i \in 0 .. WordBytes : i \in S
  <2> HIDE DEF S
  <2> QED
    BY <1>3, <1>4, VMAssumption, UpTo
<1>6. f[WordBytes] = v % Word
  BY <1>5, Powers, VMAssumption
<1>7. v % Word = v
  BY <1>2
<1> QED
  BY <1>1, <1>6, <1>7

-----------------------------------------------------------------------------
(***************************************************************************)
(* Types.  A program is executable if its operands name registers that     *)
(* exist: readOpCast and writeOpCast index the register file with them.    *)
(***************************************************************************)
Executable(p) ==
    /\ p \in Seq(Instruction)
    /\ \A k \in DOMAIN p : \A op \in {p[k].a, p[k].b} : IsReg(op) => op.data < REG_COUNT

Registers == [0 .. REG_COUNT - 1 -> 0 .. Word - 1]

LEMMA WordNumbers ==
    /\ Word \in Nat /\ Word > 0 /\ Word >= Base
    /\ Immediate \in Nat /\ Immediate > 0 /\ Word >= Immediate
<1>1. /\ Word \in Nat /\ Word > 0 /\ Immediate \in Nat /\ Immediate > 0
      /\ 0 \in 0 .. WordBytes - 1 /\ 1 \in 0 .. WordBytes
  BY Powers, VMAssumption
<1>2. Power(1) = Base /\ Base \in Nat
  <2>1. Power(0 + 1) = Base * Power(0)
    BY <1>1, Powers
  <2> QED
    BY <2>1, Powers, VMAssumption
<1>3. ASSUME NEW k \in 1 .. WordBytes PROVE Power(k) <= Word
  <2>1. PICK P \in Nat : P = Power(k) /\ P > 0
    BY Powers
  <2>2. k \in 0 .. WordBytes /\ WordBytes \in k .. WordBytes
    BY VMAssumption
  <2>3. PICK q \in Nat : q > 0 /\ Word = P * q
    BY <2>1, <2>2, Powers, PowerDivides
  <2>4. P <= P * q
    BY <2>1, <2>3
  <2> QED
    BY <2>1, <2>3, <2>4
<1>4. 1 \in 1 .. WordBytes /\ ImmBytes \in 1 .. WordBytes
  BY VMAssumption
<1>5. Power(1) <= Word /\ Power(ImmBytes) <= Word
  BY <1>3, <1>4
<1> QED
  BY <1>1, <1>2, <1>5, Powers

LEMMA HeapWordsRange ==
    ASSUME VMTypeOK, NEW a \in Nat, NEW val \in HeapWords(a)
    PROVE  val \in 0 .. Word - 1
<1> DEFINE beyond == {b \in a .. a + WordBytes - 1 : b >= HeapSize}
<1>1. PICK past \in [beyond -> 0 .. Base - 1] :
         val = WordAt([b \in a .. a + WordBytes - 1 |->
                          IF b \in beyond THEN past[b] ELSE heap[b]], a)
  BY DEF HeapWords
<1> DEFINE memory == [b \in a .. a + WordBytes - 1 |->
                         IF b \in beyond THEN past[b] ELSE heap[b]]
<1>2. ASSUME NEW b \in a .. a + WordBytes - 1 PROVE memory[b] \in 0 .. Base - 1
  <2>1. CASE b \in beyond
    BY <1>1, <2>1
  <2>2. CASE b \notin beyond
    <3>1. b \in HeapBytes
      BY <2>2, VMAssumption DEF HeapBytes
    <3> QED
      BY <2>2, <3>1 DEF VMTypeOK
  <2> QED
    BY <2>1, <2>2
<1> HIDE DEF memory
<1>3. WordAt(memory, a) \in 0 .. Word - 1
  BY <1>2, WordRange
<1> QED
  BY <1>1, <1>3 DEF memory

LEMMA ReadRange ==
    ASSUME VMTypeOK, NEW op \in Operand, IsReg(op) => op.data < REG_COUNT,
           NEW val \in ReadValues(op)
    PROVE  val \in 0 .. Word - 1
<1>1. op.data \in Nat /\ op.type \in OperandTypes
  BY DEF Operand
<1>2. CASE op.type \in {"OP_IMMEDIATE", "OP_CONSTANT"}
  <2>1. val = op.data % Immediate
    BY <1>2 DEF ReadValues
  <2>2. op.data % Immediate \in 0 .. Immediate - 1
    BY <1>1, WordNumbers, Division
  <2> QED
    BY <2>1, <2>2, WordNumbers
<1>3. CASE op.type = "OP_REGISTER"
  <2>1. val = regs[op.data]
    BY <1>3 DEF ReadValues
  <2>2. op.data \in 0 .. REG_COUNT - 1
    BY <1>1, <1>3 DEF IsReg, REG_COUNT
  <2> QED
    BY <2>1, <2>2 DEF VMTypeOK
<1>4. CASE op.type = "OP_REFERENCE"
  <2>1. val \in HeapWords(op.data)
    BY <1>4 DEF ReadValues
  <2> QED
    BY <1>1, <2>1, HeapWordsRange
<1>5. CASE op.type = "OP_NULL"
  <2>1. val = 0
    BY <1>5 DEF ReadValues
  <2> QED
    BY <2>1, WordNumbers
<1> QED
  BY <1>1, <1>2, <1>3, <1>4, <1>5 DEF OperandTypes

LEMMA FileKept ==
    ASSUME NEW file \in Registers, NEW op \in Operand, IsReg(op) => op.data < REG_COUNT,
           NEW val \in 0 .. Word - 1
    PROVE  RegsWith(file, op, val) \in Registers
BY DEF RegsWith, Registers, IsReg, Operand

LEMMA HeapWritten ==
    ASSUME VMTypeOK, NEW op \in Operand, NEW val \in 0 .. Word - 1
    PROVE  HeapWith(op, val) \in [HeapBytes -> 0 .. Base - 1]
<1>1. val \in Int
  BY WordNumbers
<1>2. ASSUME NEW a \in Nat PROVE WithWord(heap, a, val) \in [HeapBytes -> 0 .. Base - 1]
  <2>1. ASSUME NEW b \in HeapBytes, b \in a .. a + WordBytes - 1
        PROVE  ByteOf(val, b - a) \in 0 .. Base - 1
    <3>1. b - a \in 0 .. WordBytes
      BY <2>1, VMAssumption DEF HeapBytes
    <3> QED
      BY <1>1, <3>1, ByteRange
  <2> QED
    BY <2>1 DEF WithWord, VMTypeOK
<1>3. op.data \in Nat
  BY DEF Operand
<1> QED
  BY <1>2, <1>3 DEF HeapWith, VMTypeOK

LEMMA AdvancedRange ==
    ASSUME NEW file \in Registers, Advance(file)
    PROVE  regs' \in Registers
<1>1. R_PC \in 0 .. REG_COUNT - 1
  BY DEF R_PC, REG_COUNT
<1>2. file[R_PC] + 1 \in Int
  BY <1>1, WordNumbers DEF Registers
<1>3. (file[R_PC] + 1) % Word \in 0 .. Word - 1
  BY <1>2, WordNumbers, Division
<1> QED
  BY <1>1, <1>3 DEF Advance, Registers

LEMMA ExecutedOperands ==
    ASSUME Executable(program), VMTypeOK, NEW opcodes, At(opcodes)
    PROVE  /\ opA \in Operand /\ (IsReg(opA) => opA.data < REG_COUNT)
           /\ opB \in Operand /\ (IsReg(opB) => opB.data < REG_COUNT)
<1>1. pc \in Nat
  BY WordNumbers DEF VMTypeOK, pc, R_PC, REG_COUNT
<1>2. pc + 1 \in DOMAIN program /\ program[pc + 1] \in Instruction
  BY <1>1 DEF Executable, At
<1> QED
  BY <1>2 DEF Executable, opA, opB, Instruction

LEMMA Computed ==
    ASSUME NEW x \in 0 .. Word - 1, NEW y \in 0 .. Word - 1,
           NEW opcode \in {"ADD", "SUB", "MUL"}
    PROVE  Compute(opcode, x, y) \in 0 .. Word - 1
<1>1. x + y \in Int /\ x - y \in Int /\ x * y \in Int
  BY WordNumbers
<1>2. /\ (x + y) % Word \in 0 .. Word - 1
      /\ (x - y) % Word \in 0 .. Word - 1
      /\ (x * y) % Word \in 0 .. Word - 1
  BY <1>1, WordNumbers, Division
<1> QED
  BY <1>2 DEF Compute

LEMMA AssignKeepsTypes ==
    ASSUME VMTypeOK, NEW op \in Operand, IsReg(op) => op.data < REG_COUNT,
           NEW val \in 0 .. Word - 1, Assign(op, val)
    PROVE  regs' \in Registers /\ heap' \in [HeapBytes -> 0 .. Base - 1]
<1>1. RegsWith(regs, op, val) \in Registers
  BY FileKept DEF VMTypeOK, Registers
<1>2. regs' \in Registers
  BY <1>1, AdvancedRange DEF Assign
<1> QED
  BY <1>2, HeapWritten DEF Assign

LEMMA StepKeepsTypes ==
    ASSUME Executable(program), VMTypeOK, [VMNext]_vmVars
    PROVE  VMTypeOK'
<1> DEFINE Bytes == 0 .. Base - 1
<1> USE DEF Registers
<1>0. Base \in Nat /\ Base > 1
  BY VMAssumption
<1>1. CASE UNCHANGED <<regs, heap, stack>> /\ stdin' \in Seq(Bytes) /\ stdout' = stdout
           /\ status' \in {"running", "finished", "threw", "killed"}
  BY <1>1 DEF VMTypeOK
<1>2. CASE NoOperation
  <2>1. regs' \in Registers
    BY <1>2, AdvancedRange DEF NoOperation, VMTypeOK
  <2> QED
    BY <1>2, <2>1 DEF NoOperation, VMTypeOK
<1>3. CASE ADD_SUB_MUL
  <2>1. /\ opA \in Operand /\ (IsReg(opA) => opA.data < REG_COUNT)
        /\ opB \in Operand /\ (IsReg(opB) => opB.data < REG_COUNT)
    BY <1>3, ExecutedOperands DEF ADD_SUB_MUL
  <2>2. PICK x \in ReadValues(opA), y \in ReadValues(opB) :
           Assign(opA, Compute(program[pc + 1].opcode, x, y))
    BY <1>3 DEF ADD_SUB_MUL
  <2>3. x \in 0 .. Word - 1 /\ y \in 0 .. Word - 1
    BY <2>1, ReadRange
  <2>4. Compute(program[pc + 1].opcode, x, y) \in 0 .. Word - 1
    BY <1>3, <2>3, Computed DEF ADD_SUB_MUL, At
  <2>5. regs' \in Registers /\ heap' \in [HeapBytes -> Bytes]
    BY <2>1, <2>2, <2>4, AssignKeepsTypes
  <2> QED
    BY <1>3, <2>5 DEF ADD_SUB_MUL, VMTypeOK
<1>4. CASE DIV
  <2>1. /\ opA \in Operand /\ (IsReg(opA) => opA.data < REG_COUNT)
        /\ opB \in Operand /\ (IsReg(opB) => opB.data < REG_COUNT)
    BY <1>4, ExecutedOperands DEF DIV
  <2>2. PICK x \in ReadValues(opA), y \in ReadValues(opB) \ {0} :
           /\ Advance([RegsWith(regs, opA, x \div y) EXCEPT ![R_TMP0] = x % y])
           /\ heap' = HeapWith(opA, x \div y)
    BY <1>4 DEF DIV
  <2>3. x \in 0 .. Word - 1 /\ y \in 1 .. Word - 1
    <3>1. x \in 0 .. Word - 1 /\ y \in 0 .. Word - 1
      BY <2>1, ReadRange
    <3> QED
      BY <2>2, <3>1
  <2>4. x \div y \in 0 .. Word - 1 /\ x % y \in 0 .. Word - 1
    <3>1. Word \in Nat /\ x \in Nat /\ y \in Nat /\ y > 0 /\ x < Word /\ y < Word
      BY <2>3, WordNumbers
    <3>2. x \div y \in Int /\ x % y \in 0 .. y - 1 /\ x = y * (x \div y) + (x % y)
      BY <3>1, Division
    <3>3. PICK q \in Int, r \in 0 .. y - 1 : q = x \div y /\ r = x % y /\ x = y * q + r
      BY <3>2
    <3>4. q >= 0 /\ q <= x
      <4>1. q < 0 => y * q <= -y
        BY <3>1, <3>3
      <4>2. q >= 0
        BY <3>1, <3>3, <4>1
      <4>3. y * q >= q
        BY <3>1, <4>2
      <4> QED
        BY <3>1, <3>3, <4>2, <4>3
    <3> QED
      BY <3>1, <3>3, <3>4
  <2>5. RegsWith(regs, opA, x \div y) \in Registers
    BY <2>1, <2>4, FileKept DEF VMTypeOK
  <2>6. [RegsWith(regs, opA, x \div y) EXCEPT ![R_TMP0] = x % y] \in Registers
    BY <2>4, <2>5
  <2>7. regs' \in Registers
    BY <2>2, <2>6, AdvancedRange
  <2>8. heap' \in [HeapBytes -> Bytes]
    BY <2>1, <2>2, <2>4, HeapWritten
  <2> QED
    BY <1>4, <2>7, <2>8 DEF DIV, VMTypeOK
<1>5. CASE MOV
  <2>1. /\ opA \in Operand /\ (IsReg(opA) => opA.data < REG_COUNT)
        /\ opB \in Operand /\ (IsReg(opB) => opB.data < REG_COUNT)
    BY <1>5, ExecutedOperands DEF MOV
  <2>2. PICK val \in ReadValues(opB) : Advance(RegsWith(regs, opA, val))
    BY <1>5 DEF MOV
  <2>3. RegsWith(regs, opA, val) \in Registers
    BY <2>1, ReadRange, FileKept DEF VMTypeOK
  <2>4. regs' \in Registers
    BY <2>2, <2>3, AdvancedRange
  <2> QED
    BY <1>5, <2>4 DEF MOV, VMTypeOK
<1>6. CASE ST \/ LD
  <2>1. /\ opA \in Operand /\ (IsReg(opA) => opA.data < REG_COUNT)
        /\ opB \in Operand /\ (IsReg(opB) => opB.data < REG_COUNT)
    BY <1>6, ExecutedOperands DEF ST, LD
  <2>2. PICK val \in ReadValues(opB) : Assign(opA, val)
    BY <1>6 DEF ST, LD
  <2>3. val \in 0 .. Word - 1
    BY <2>1, ReadRange
  <2>4. regs' \in Registers /\ heap' \in [HeapBytes -> Bytes]
    BY <2>1, <2>2, <2>3, AssignKeepsTypes
  <2> QED
    BY <1>6, <2>4 DEF ST, LD, VMTypeOK
<1>7. CASE PUSH
  <2>1. /\ opA \in Operand /\ (IsReg(opA) => opA.data < REG_COUNT)
    BY <1>7, ExecutedOperands DEF PUSH
  <2>2. CASE Kill
    BY <1>1, <2>2 DEF Kill, VMTypeOK
  <2> DEFINE top == (sp - WordBytes) % Word
  <2>3. CASE /\ stack' = IF StackHolds(top) THEN WithWord(stack, top, Pushed(opA)) ELSE stack
             /\ Advance([regs EXCEPT ![R_SP] = top])
             /\ UNCHANGED <<program, heap, stdin, stdout, status>>
    <3>1. sp \in Int
      BY WordNumbers DEF VMTypeOK, sp, R_SP, REG_COUNT
    <3>2. top \in 0 .. Word - 1
      <4>1. sp - WordBytes \in Int
        BY <3>1, VMAssumption
      <4> QED
        BY <4>1, WordNumbers, Division
    <3> HIDE DEF top
    <3>3. regs' \in Registers
      BY <2>3, <3>2, AdvancedRange DEF VMTypeOK
    <3>4. Pushed(opA) \in 0 .. Word - 1
      <4>1. opA.data \in Nat
        BY <2>1 DEF Operand
      <4>2. opA.data % Immediate \in 0 .. Immediate - 1
        BY <4>1, WordNumbers, Division
      <4>3. IsReg(opA) => regs[opA.data] \in 0 .. Word - 1
        <5>1. IsReg(opA) => opA.data \in 0 .. REG_COUNT - 1
          BY <2>1, <4>1 DEF REG_COUNT
        <5> QED
          BY <5>1 DEF VMTypeOK
      <4> QED
        BY <4>2, <4>3, WordNumbers DEF Pushed
    <3>5. stack' \in [StackBytes -> Bytes]
      <4>1. ASSUME NEW b \in StackBytes, b \in top .. top + WordBytes - 1
            PROVE  ByteOf(Pushed(opA), b - top) \in Bytes
        <5>1. b - top \in 0 .. WordBytes
          BY <3>2, <4>1, VMAssumption, WordNumbers DEF StackBytes
        <5>2. Pushed(opA) \in Int
          BY <3>4, WordNumbers
        <5> QED
          BY <5>1, <5>2, ByteRange
      <4> QED
        BY <2>3, <4>1 DEF WithWord, VMTypeOK
    <3> QED
      BY <2>3, <3>3, <3>5 DEF VMTypeOK
  <2> QED
    BY <1>7, <2>2, <2>3 DEF PUSH
<1>8. CASE POP
  <2>1. /\ opA \in Operand /\ (IsReg(opA) => opA.data < REG_COUNT)
    BY <1>8, ExecutedOperands DEF POP
  <2>2. CASE Kill
    BY <1>1, <2>2 DEF Kill, VMTypeOK
  <2>3. CASE /\ \E val \in IF StackHolds(sp) THEN {WordAt(stack, sp)} ELSE 0 .. Word - 1 :
                   Advance(RegsWith([regs EXCEPT ![R_SP] = (@ + WordBytes) % Word], opA, val))
             /\ UNCHANGED <<program, heap, stack, stdin, stdout, status>>
    <3>1. sp \in Nat /\ sp = regs[R_SP] /\ R_SP \in 0 .. REG_COUNT - 1
      BY WordNumbers DEF VMTypeOK, sp, R_SP, REG_COUNT
    <3> DEFINE moved == [regs EXCEPT ![R_SP] = (@ + WordBytes) % Word]
    <3>2. PICK val \in IF StackHolds(sp) THEN {WordAt(stack, sp)} ELSE 0 .. Word - 1 :
             Advance(RegsWith(moved, opA, val))
      BY <2>3
    <3>3. val \in 0 .. Word - 1
      <4>1. CASE StackHolds(sp)
        <5>1. \A b \in sp .. sp + WordBytes - 1 : stack[b] \in 0 .. Base - 1
          <6>1. \A b \in sp .. sp + WordBytes - 1 : b \in StackBytes
            BY <3>1, <4>1, VMAssumption DEF StackHolds, StackBytes
          <6> QED
            BY <6>1 DEF VMTypeOK
        <5> QED
          BY <3>1, <3>2, <4>1, <5>1, WordRange
      <4> QED
        BY <3>2, <4>1
    <3>4. (sp + WordBytes) % Word \in 0 .. Word - 1
      <4>1. sp + WordBytes \in Int
        BY <3>1, VMAssumption
      <4> QED
        BY <4>1, WordNumbers, Division
    <3>5. moved \in Registers
      BY <3>1, <3>4 DEF VMTypeOK
    <3> HIDE DEF moved
    <3>6. RegsWith(moved, opA, val) \in Registers
      BY <2>1, <3>3, <3>5, FileKept
    <3>7. regs' \in Registers
      BY <3>2, <3>6, AdvancedRange
    <3> QED
      BY <2>3, <3>7 DEF VMTypeOK
  <2> QED
    BY <1>8, <2>2, <2>3 DEF POP
<1>9. CASE PUTC
  <2>1. /\ opA \in Operand /\ (IsReg(opA) => opA.data < REG_COUNT)
    BY <1>9, ExecutedOperands DEF PUTC
  <2>2. PICK val \in ReadValues(opA) : stdout' = Append(stdout, val % Base)
    BY <1>9 DEF PUTC
  <2>3. val % Base \in Bytes
    <3>1. val \in Int
      BY <2>1, ReadRange, WordNumbers
    <3> QED
      BY <1>0, <3>1, Division
  <2>4. regs' \in Registers
    BY <1>9, AdvancedRange DEF PUTC, VMTypeOK
  <2>5. stdout' \in Seq(Bytes)
    BY <2>2, <2>3 DEF VMTypeOK
  <2> QED
    BY <1>9, <2>4, <2>5 DEF PUTC, VMTypeOK
<1>10. Char \in 0 .. Word - 1 /\ Rest \in Seq(Bytes)
  <2>1. CASE stdin = <<>>
    BY <2>1, WordNumbers DEF Char, Rest
  <2>2. CASE stdin # <<>>
    <3>1. Head(stdin) \in Bytes /\ Tail(stdin) \in Seq(Bytes)
      BY <2>2, HeadTailProperties DEF VMTypeOK
    <3> QED
      BY <1>0, <2>2, <3>1, WordNumbers DEF Char, Rest
  <2> QED
    BY <2>1, <2>2
<1>11. CASE GETC
  <2>1. /\ opA \in Operand /\ (IsReg(opA) => opA.data < REG_COUNT)
    BY <1>11, ExecutedOperands DEF GETC
  <2>2. regs' \in Registers /\ heap' \in [HeapBytes -> Bytes]
    BY <1>10, <1>11, <2>1, AssignKeepsTypes DEF GETC
  <2> QED
    BY <1>10, <1>11, <2>2 DEF GETC, VMTypeOK
<1>12. CASE ArithmeticThrows \/ MoveThrows \/ CharThrows \/ Exit
  BY <1>1, <1>10, <1>12 DEF ArithmeticThrows, MoveThrows, CharThrows, Exit, Throw, VMTypeOK
<1>13. CASE UNCHANGED vmVars
  BY <1>13 DEF vmVars, VMTypeOK
<1> QED
  BY <1>2, <1>3, <1>4, <1>5, <1>6, <1>7, <1>8, <1>9, <1>11, <1>12, <1>13 DEF VMNext

\* The machine starts with bytes in its memory and words in its registers.
LEMMA BootIsTyped ==
    ASSUME HeapContents \subseteq [HeapBytes -> 0 .. Base - 1],
           Inputs \subseteq Seq(0 .. Base - 1),
           Boot
    PROVE  VMTypeOK
<1>1. PICK contents \in HeapContents :
         /\ heap = InitialHeap(contents)
         /\ stack = [b \in StackBytes |-> contents[b % HeapSize]]
  BY DEF Boot
<1>2. contents \in [HeapBytes -> 0 .. Base - 1]
  OBVIOUS
<1>3. 0 \in 0 .. Base - 1 /\ 0 \in 0 .. Word - 1
  BY VMAssumption, WordNumbers
<1>4. ASSUME NEW b \in HeapBytes, b < WordBytes
      PROVE  ByteOf(HeapSize - HeaderSize, b) \in 0 .. Base - 1
  <2>1. b \in 0 .. WordBytes /\ HeapSize - HeaderSize \in Int
    BY <1>4, VMAssumption DEF HeapBytes
  <2> QED
    BY <2>1, ByteRange
<1>5. heap \in [HeapBytes -> 0 .. Base - 1]
  BY <1>1, <1>2, <1>3, <1>4 DEF InitialHeap
<1>6. ASSUME NEW b \in StackBytes PROVE b % HeapSize \in HeapBytes
  <2>1. b \in Int /\ HeapSize \in Nat /\ HeapSize > 0
    BY VMAssumption DEF StackBytes
  <2> QED
    BY <2>1, Division DEF HeapBytes
<1>7. stack \in [StackBytes -> 0 .. Base - 1]
  BY <1>1, <1>2, <1>6
<1>8. StackAddress + StackSize \in 0 .. Word - 1
  BY VMAssumption, WordNumbers
<1>9. regs \in Registers
  BY <1>3, <1>8 DEF Boot, Registers
<1> QED
  BY <1>5, <1>7, <1>9 DEF Boot, VMTypeOK, Registers

LEMMA ProgramIsFixed == [VMNext]_vmVars => program' = program
BY DEF VMNext, vmVars, NoOperation, ADD_SUB_MUL, DIV, ArithmeticThrows, MOV, ST, LD,
       MoveThrows, PUSH, POP, PUTC, GETC, CharThrows, Exit, Throw, Kill

(***************************************************************************)
(* Registers, heap and stack keep their widths whatever an executable      *)
(* program computes, pushes, pops or reads past the end of the heap.       *)
(***************************************************************************)
THEOREM MachineIsTyped ==
    ASSUME \A p \in Programs : Executable(p),
           HeapContents \subseteq [HeapBytes -> 0 .. Base - 1],
           Inputs \subseteq Seq(0 .. Base - 1)
    PROVE  VMSpec => []VMTypeOK
<1> DEFINE TypedInv == VMTypeOK /\ program \in Programs
<1>1. VMInit => TypedInv
  BY BootIsTyped DEF VMInit
<1>2. TypedInv /\ [VMNext]_vmVars => TypedInv'
  BY StepKeepsTypes, ProgramIsFixed
<1>3. TypedInv => VMTypeOK
  OBVIOUS
<1> QED
  BY <1>1, <1>2, <1>3, PTL DEF VMSpec

-----------------------------------------------------------------------------
(* The header of the heap is out of a program's reach. *)

(***************************************************************************)
(* Register 14 is no destination, and references are offsets that the      *)
(* symbol table gave to a variable, which lie behind the header            *)
(* (StorageIsDisjoint).  So are the compiler's programs, but for those     *)
(* that assign to a function's name: its offset is 0.                      *)
(***************************************************************************)
Behaved(p) ==
    /\ p \in Seq(Instruction)
    /\ \A k \in DOMAIN p :
        /\ R_PC \notin RegsWritten(p[k])
        /\ IsRef(p[k].a) => p[k].a.data >= HeaderSize

\* A word that is written behind the header does not reach down into it,
\* whatever the memory holds and wherever it ends.
LEMMA WordBehindHeader ==
    ASSUME NEW memory, NEW a \in Nat, a >= HeaderSize, NEW val,
           NEW b \in DOMAIN memory, b \in 0 .. HeaderSize - 1
    PROVE  WithWord(memory, a, val)[b] = memory[b]
<1>1. b \notin a .. a + WordBytes - 1
  BY VMAssumption
<1> QED
  BY <1>1 DEF WithWord

(***************************************************************************)
(* The invariant: register 14 is a position, so that the instruction that  *)
(* is executed is one of the program's.                                    *)
(***************************************************************************)
MachineInv ==
    /\ program \in Programs
    /\ DOMAIN heap = HeapBytes
    /\ DOMAIN regs = 0 .. REG_COUNT - 1
    /\ pc \in Nat
    /\ HeaderIntact

\* The registers after a step.
NextRegs ==
    /\ DOMAIN regs' = DOMAIN regs
    /\ pc' \in Nat

LEMMA Advanced ==
    ASSUME MachineInv, NEW file, DOMAIN file = DOMAIN regs, file[R_PC] = pc, Advance(file)
    PROVE  NextRegs
<1>1. R_PC \in DOMAIN file
  BY DEF MachineInv, R_PC, REG_COUNT
<1>2. regs'[R_PC] = (pc + 1) % Word
  BY <1>1 DEF Advance
<1>3. Word \in Nat /\ Word > 0
  BY WordNumbers
<1>4. (pc + 1) % Word \in Nat
  BY <1>3 DEF MachineInv
<1> QED
  BY <1>2, <1>4 DEF Advance, NextRegs, pc

\* The destination of an instruction is another register, or memory.
LEMMA Written ==
    ASSUME NEW file, NEW op, IsReg(op) => op.data # R_PC, NEW val
    PROVE  /\ DOMAIN RegsWith(file, op, val) = DOMAIN file
           /\ RegsWith(file, op, val)[R_PC] = file[R_PC]
BY DEF RegsWith

LEMMA HeaderKept ==
    ASSUME MachineInv, NEW op, IsRef(op) => op.data \in Nat /\ op.data >= HeaderSize,
           NEW val, heap' = HeapWith(op, val)
    PROVE  DOMAIN heap' = HeapBytes /\ HeaderIntact'
<1>1. CASE ~IsRef(op)
  BY <1>1 DEF HeapWith, MachineInv, HeaderIntact
<1>2. CASE IsRef(op)
  <2>1. heap' = WithWord(heap, op.data, val)
    BY <1>2 DEF HeapWith
  <2>2. DOMAIN heap' = HeapBytes
    BY <2>1 DEF WithWord, MachineInv
  <2>3. \A b \in 0 .. HeaderSize - 1 : b \in DOMAIN heap
    BY VMAssumption DEF MachineInv, HeapBytes
  <2>4. \A b \in 0 .. HeaderSize - 1 : heap'[b] = heap[b]
    BY <1>2, <2>1, <2>3, WordBehindHeader
  <2> QED
    BY <2>2, <2>4 DEF MachineInv, HeaderIntact
<1> QED
  BY <1>1, <1>2

\* The instruction that is executed.
LEMMA Executed ==
    ASSUME \A p \in Programs : Behaved(p), MachineInv, NEW opcodes, At(opcodes)
    PROVE  /\ program[pc + 1] \in Instruction
           /\ program[pc + 1].opcode \in opcodes
           /\ R_PC \notin RegsWritten(program[pc + 1])
           /\ IsRef(opA) => opA.data \in Nat /\ opA.data >= HeaderSize
<1>1. program \in Seq(Instruction)
  BY DEF MachineInv, Behaved
<1>2. pc + 1 \in DOMAIN program
  BY <1>1 DEF MachineInv, At
<1>3. program[pc + 1] \in Instruction
  BY <1>1, <1>2
<1>4. opA.data \in Nat
  BY <1>3 DEF opA, Instruction, Operand
<1> QED
  BY <1>2, <1>3, <1>4 DEF At, MachineInv, Behaved, opA

LEMMA StepKeepsMachine ==
    ASSUME \A p \in Programs : Behaved(p), MachineInv, [VMNext]_vmVars
    PROVE  MachineInv'
<1> DEFINE Instr0 == program[pc + 1]
<1> SUFFICES /\ program' = program
             /\ NextRegs
             /\ DOMAIN heap' = HeapBytes
             /\ HeaderIntact'
  BY DEF MachineInv, NextRegs, pc
<1>1. UNCHANGED <<program, regs, heap>> =>
        /\ program' = program /\ NextRegs
        /\ DOMAIN heap' = HeapBytes /\ HeaderIntact'
  BY DEF MachineInv, HeaderIntact, NextRegs, pc
<1>2. UNCHANGED heap => DOMAIN heap' = HeapBytes /\ HeaderIntact'
  BY DEF MachineInv, HeaderIntact
<1>3. ASSUME NEW op, IsReg(op) => op.data # R_PC,
             IsRef(op) => op.data \in Nat /\ op.data >= HeaderSize,
             NEW val, Assign(op, val)
      PROVE  NextRegs /\ DOMAIN heap' = HeapBytes /\ HeaderIntact'
  <2>1. NextRegs
    BY <1>3, Written, Advanced DEF Assign, pc
  <2>2. DOMAIN heap' = HeapBytes /\ HeaderIntact'
    BY <1>3, HeaderKept DEF Assign
  <2> QED
    BY <2>1, <2>2
<1>4. CASE NoOperation
  <2>1. NextRegs
    BY <1>4, Advanced DEF NoOperation, pc
  <2> QED
    BY <1>2, <1>4, <2>1 DEF NoOperation
<1>5. CASE ADD_SUB_MUL
  <2>1. IsReg(opA) => opA.data # R_PC
    BY <1>5, Executed DEF ADD_SUB_MUL, RegsWritten, Arithmetic, opA
  <2>2. IsRef(opA) => opA.data \in Nat /\ opA.data >= HeaderSize
    BY <1>5, Executed DEF ADD_SUB_MUL
  <2>3. \E val : Assign(opA, val) /\ program' = program
    BY <1>5 DEF ADD_SUB_MUL
  <2> QED
    BY <1>3, <2>1, <2>2, <2>3
<1>6. CASE DIV
  <2>1. IsReg(opA) => opA.data # R_PC
    BY <1>6, Executed DEF DIV, RegsWritten, Arithmetic, opA
  <2>2. IsRef(opA) => opA.data \in Nat /\ opA.data >= HeaderSize
    BY <1>6, Executed DEF DIV
  <2>3. PICK x, y : /\ Advance([RegsWith(regs, opA, x \div y) EXCEPT ![R_TMP0] = x % y])
                    /\ heap' = HeapWith(opA, x \div y)
    BY <1>6 DEF DIV
  <2> DEFINE file == [RegsWith(regs, opA, x \div y) EXCEPT ![R_TMP0] = x % y]
  <2>4. DOMAIN file = DOMAIN regs /\ file[R_PC] = pc
    BY <2>1, Written DEF R_PC, R_TMP0, pc
  <2>5. NextRegs
    <3> HIDE DEF file
    <3>1. Advance(file)
      BY <2>3 DEF file
    <3> QED
      BY <2>4, <3>1, Advanced
  <2> QED
    BY <1>6, <2>2, <2>3, <2>5, HeaderKept DEF DIV
<1>7. CASE MOV
  <2>1. IsReg(opA) => opA.data # R_PC
    BY <1>7, Executed DEF MOV, RegsWritten, opA
  <2>2. PICK val : Advance(RegsWith(regs, opA, val))
    BY <1>7 DEF MOV
  <2>3. NextRegs
    BY <2>1, <2>2, Written, Advanced DEF pc
  <2> QED
    BY <1>2, <1>7, <2>3 DEF MOV
<1>8. CASE ST
  <2>1. ~IsReg(opA)
    BY <1>8 DEF ST, IsRef, IsReg
  <2>2. IsRef(opA) => opA.data \in Nat /\ opA.data >= HeaderSize
    BY <1>8, Executed DEF ST
  <2>3. \E val : Assign(opA, val) /\ program' = program
    BY <1>8 DEF ST
  <2> QED
    BY <1>3, <2>1, <2>2, <2>3
<1>9. CASE LD
  <2>1. IsReg(opA) => opA.data # R_PC
    BY <1>9, Executed DEF LD, RegsWritten, opA
  <2>2. IsRef(opA) => opA.data \in Nat /\ opA.data >= HeaderSize
    BY <1>9, Executed DEF LD
  <2>3. \E val : Assign(opA, val) /\ program' = program
    BY <1>9 DEF LD
  <2> QED
    BY <1>3, <2>1, <2>2, <2>3
<1>10. CASE PUSH
  <2>1. CASE UNCHANGED <<program, heap>> /\
             \E top : Advance([regs EXCEPT ![R_SP] = top])
    <3>1. PICK top : Advance([regs EXCEPT ![R_SP] = top])
      BY <2>1
    <3>2. DOMAIN [regs EXCEPT ![R_SP] = top] = DOMAIN regs
          /\ [regs EXCEPT ![R_SP] = top][R_PC] = pc
      BY DEF R_SP, R_PC, pc
    <3> QED
      BY <1>2, <2>1, <3>1, <3>2, Advanced
  <2>2. CASE Kill
    BY <1>1, <2>2 DEF Kill
  <2> QED
    BY <1>10, <2>1, <2>2 DEF PUSH
<1>11. CASE POP
  <2>1. IsReg(opA) => opA.data # R_PC
    BY <1>11, Executed DEF POP, RegsWritten, opA
  <2>2. CASE UNCHANGED <<program, heap>> /\
             \E val, top : Advance(RegsWith([regs EXCEPT ![R_SP] = top], opA, val))
    <3>1. PICK val, top : Advance(RegsWith([regs EXCEPT ![R_SP] = top], opA, val))
      BY <2>2
    <3> DEFINE moved == [regs EXCEPT ![R_SP] = top]
    <3>2. DOMAIN moved = DOMAIN regs /\ moved[R_PC] = pc
      BY DEF R_SP, R_PC, pc
    <3> HIDE DEF moved
    <3>3. DOMAIN RegsWith(moved, opA, val) = DOMAIN regs
          /\ RegsWith(moved, opA, val)[R_PC] = pc
      BY <2>1, <3>2, Written
    <3>4. Advance(RegsWith(moved, opA, val))
      BY <3>1 DEF moved
    <3> QED
      BY <1>2, <2>2, <3>3, <3>4, Advanced
  <2>3. CASE Kill
    BY <1>1, <2>3 DEF Kill
  <2> QED
    BY <1>11, <2>2, <2>3 DEF POP
<1>12. CASE PUTC
  <2>1. NextRegs
    BY <1>12, Advanced DEF PUTC, pc
  <2> QED
    BY <1>2, <1>12, <2>1 DEF PUTC
<1>13. CASE GETC
  <2>1. IsReg(opA) => opA.data # R_PC
    BY <1>13, Executed DEF GETC, RegsWritten, opA
  <2>2. IsRef(opA) => opA.data \in Nat /\ opA.data >= HeaderSize
    BY <1>13, Executed DEF GETC
  <2> QED
    BY <1>3, <1>13, <2>1, <2>2 DEF GETC
<1>14. CASE ArithmeticThrows \/ MoveThrows \/ CharThrows \/ Exit
  BY <1>1, <1>14 DEF ArithmeticThrows, MoveThrows, CharThrows, Exit, Throw
<1>15. CASE UNCHANGED vmVars
  BY <1>1, <1>15 DEF vmVars
<1> QED
  BY <1>4, <1>5, <1>6, <1>7, <1>8, <1>9, <1>10, <1>11, <1>12, <1>13, <1>14, <1>15
  DEF VMNext

\* A program whose references lie behind the block header never overwrites
\* what heap_init wrote there, however wide its stores are and however it ends.
THEOREM HeaderStaysIntact ==
    ASSUME \A p \in Programs : Behaved(p)
    PROVE  VMSpec => []HeaderIntact
<1>1. VMInit => MachineInv
  <2> SUFFICES ASSUME VMInit PROVE MachineInv
    OBVIOUS
  <2>1. PICK contents : heap = InitialHeap(contents)
    BY DEF VMInit, Boot
  <2>2. DOMAIN heap = HeapBytes /\ HeaderIntact
    BY <2>1, VMAssumption DEF InitialHeap, HeapBytes, HeaderIntact
  <2>3. DOMAIN regs = 0 .. REG_COUNT - 1 /\ pc = 0
    BY DEF VMInit, Boot, pc, R_PC, R_SP, REG_COUNT
  <2> QED
    BY <2>2, <2>3 DEF VMInit, MachineInv
<1>2. MachineInv /\ [VMNext]_vmVars => MachineInv'
  BY StepKeepsMachine
<1>3. MachineInv => HeaderIntact
  BY DEF MachineInv
<1> QED
  BY <1>1, <1>2, <1>3, PTL DEF VMSpec
===============================================================================
