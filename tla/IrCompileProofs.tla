--------------------------- MODULE IrCompileProofs ----------------------------
(***************************************************************************)
(* Machine-checked proofs about IrCompile and Machine, for words of any    *)
(* width and values that live anywhere.                                    *)
(***************************************************************************)
EXTENDS IrCompile, SequenceTheorems, WellFoundedInduction, TLAPS

(***************************************************************************)
(* Powers of two and words.                                                *)
(***************************************************************************)
(* Numbers that are reached one after the other.                           *)
LEMMA OneByOne ==
  ASSUME NEW n \in Nat, NEW S, 0 \in S, \A k \in 0 .. n - 1 : k \in S => k + 1 \in S
  PROVE  0 .. n \subseteq S
<1> DEFINE T == {k \in 0 .. n : k \notin S}
<1> SUFFICES ASSUME T # {} PROVE FALSE
  OBVIOUS
<1>1. PICK m \in T : \A k \in T : ~(k < m)
  <2> DEFINE R == OpToRel(<, Nat)
  <2>1. IsWellFoundedOn(R, Nat)
    BY NatLessThanWellFounded
  <2>2. T \subseteq Nat
    OBVIOUS
  <2>3. \A x, y \in Nat : x < y => <<x, y>> \in R
    BY DEF OpToRel
  <2> HIDE DEF R, T
  <2>4. PICK m \in T : \A k \in T : ~(<<k, m>> \in R)
    BY <2>1, <2>2, WFMin
  <2> QED BY <2>2, <2>3, <2>4
<1>2. m # 0 /\ m - 1 \in 0 .. n - 1 /\ m - 1 < m
  BY <1>1
<1>3. m - 1 \in S
  BY <1>1, <1>2
<1>4. (m - 1) + 1 \in S
  BY <1>2, <1>3
<1> QED BY <1>1, <1>2, <1>4

(* The powers double.                                                      *)
LEMMA PowerSteps ==
  ASSUME TRUE
  PROVE  /\ Power[0] = 1
         /\ \A j \in 1 .. 64 : Power[j] = 2 * Power[j - 1]
<1> DEFINE N == 64
           S == {k \in 0 .. N : \E f : f[0] = 1 /\ \A j \in 1 .. k : f[j] = 2 * f[j - 1]}
           F(f) == [j \in 0 .. N |-> IF j = 0 THEN 1 ELSE 2 * f[j - 1]]
           after == CHOOSE f : f = F(f)
<1> N \in Nat
  BY SMT
<1> HIDE DEF N
<1>1. 0 \in S
  <2>1. \A j \in 1 .. 0 : FALSE
    OBVIOUS
  <2>2. [j \in {0} |-> 1][0] = 1
    OBVIOUS
  <2>3. \E f : f[0] = 1 /\ \A j \in 1 .. 0 : f[j] = 2 * f[j - 1]
    <3> HIDE DEF N
    <3> QED BY ONLY <2>1, <2>2
  <2> QED BY <2>3
<1>2. ASSUME NEW k \in 0 .. N - 1, k \in S
      PROVE  k + 1 \in S
  <2>1. PICK f : f[0] = 1 /\ \A j \in 1 .. k : f[j] = 2 * f[j - 1]
    BY <1>2
  <2> DEFINE new == 2 * f[k]
             h == [j \in 0 .. k + 1 |-> IF j = k + 1 THEN new ELSE f[j]]
  <2>2. new = 2 * f[(k + 1) - 1]
    <3>1. (k + 1) - 1 = k
      OBVIOUS
    <3> QED BY <3>1
  <2> HIDE DEF new
  <2>3. /\ h[0] = f[0] /\ h[k + 1] = new
        /\ \A j \in 1 .. k : h[j] = f[j] /\ h[j - 1] = f[j - 1]
        /\ h[(k + 1) - 1] = f[(k + 1) - 1]
    OBVIOUS
  <2> HIDE DEF h
  <2>4. ASSUME NEW j \in 1 .. k + 1
        PROVE  h[j] = 2 * h[j - 1]
    <3>1. CASE j \in 1 .. k
      BY <2>1, <2>3, <3>1
    <3>2. CASE j = k + 1
      BY <2>2, <2>3, <3>2
    <3> QED BY <3>1, <3>2
  <2>5. \E g : g[0] = 1 /\ \A j \in 1 .. k + 1 : g[j] = 2 * g[j - 1]
    BY <2>1, <2>3, <2>4
  <2> QED BY <2>5
<1>3. N \in S
  <2> HIDE DEF S
  <2>1. 0 .. N \subseteq S
    BY <1>1, <1>2, OneByOne
  <2> QED BY <2>1
<1>4. PICK f : f[0] = 1 /\ \A j \in 1 .. N : f[j] = 2 * f[j - 1]
  BY <1>3
<1> DEFINE h == [j \in 0 .. N |-> f[j]]
<1>5. h = F(h)
  <2>1. ASSUME NEW j \in 0 .. N
        PROVE  h[j] = IF j = 0 THEN 1 ELSE 2 * h[j - 1]
    <3>1. j # 0 => j \in 1 .. N /\ j - 1 \in 0 .. N
      OBVIOUS
    <3>2. CASE j = 0
      BY <1>4, <3>2
    <3>3. CASE j # 0
      <4>1. h[j] = f[j] /\ h[j - 1] = f[j - 1]
        BY <3>1, <3>3
      <4> HIDE DEF h
      <4> QED BY <1>4, <3>1, <3>3, <4>1
    <3> QED BY <3>2, <3>3
  <2>2. h = [j \in 0 .. N |-> h[j]]
    OBVIOUS
  <2> HIDE DEF h
  <2> QED BY <2>1, <2>2
<1>6. after = F(after)
  <2> HIDE DEF F, h
  <2> QED BY <1>5
<1>7. Power = after
  BY DEF Power, N
<1> HIDE DEF after
<1>8. after[0] = 1 /\ \A j \in 1 .. N : after[j] = 2 * after[j - 1]
  <2>1. 0 \in 0 .. N /\ \A j \in 1 .. N : j \in 0 .. N /\ j # 0
    OBVIOUS
  <2> QED BY <1>6, <2>1
<1> QED BY <1>7, <1>8 DEF N

LEMMA PowersArePositive ==
  \A n \in 0 .. 64 : Power[n] \in Nat /\ Power[n] >= 1 /\ (n >= 12 => Power[n] >= 4096)
<1> DEFINE S == {k \in 0 .. 64 : Power[k] \in Nat /\ Power[k] >= 1}
           T == {k \in 0 .. 64 : k >= 12 => Power[k] >= 4096}
<1>1. Power[0] = 1 /\ \A j \in 1 .. 64 : Power[j] = 2 * Power[j - 1]
  BY PowerSteps
<1>2. \A k \in 0 .. 63 : Power[k + 1] = 2 * Power[k]
  <2> SUFFICES ASSUME NEW k \in 0 .. 63 PROVE Power[k + 1] = 2 * Power[k]
    OBVIOUS
  <2>1. k + 1 \in 1 .. 64 /\ (k + 1) - 1 = k
    OBVIOUS
  <2> QED BY <1>1, <2>1
<1>3. 0 \in S /\ 0 \in T
  BY <1>1
<1>4. ASSUME NEW k \in 0 .. 64 - 1, k \in S
      PROVE  k + 1 \in S
  BY <1>2, <1>4
<1>5. 0 .. 64 \subseteq S
  <2> HIDE DEF S
  <2> QED BY <1>3, <1>4, OneByOne
<1>6. Power[12] = 4096
  <2>1. Power[0 + 1] = 2 * Power[0] /\ Power[1 + 1] = 2 * Power[1] /\ Power[2 + 1] = 2 * Power[2]
    BY <1>2
  <2>2. Power[3 + 1] = 2 * Power[3] /\ Power[4 + 1] = 2 * Power[4] /\ Power[5 + 1] = 2 * Power[5]
    BY <1>2
  <2>3. Power[6 + 1] = 2 * Power[6] /\ Power[7 + 1] = 2 * Power[7] /\ Power[8 + 1] = 2 * Power[8]
    BY <1>2
  <2>4. Power[9 + 1] = 2 * Power[9] /\ Power[10 + 1] = 2 * Power[10] /\ Power[11 + 1] = 2 * Power[11]
    BY <1>2
  <2>5. Power[3] = 8
    BY <1>1, <2>1
  <2>6. Power[6] = 64
    BY <2>2, <2>5
  <2>7. Power[9] = 512
    BY <2>3, <2>6
  <2> QED BY <2>4, <2>7
<1>7. ASSUME NEW k \in 0 .. 64 - 1, k \in T
      PROVE  k + 1 \in T
  <2>1. Power[k + 1] = 2 * Power[k] /\ Power[k] \in Nat /\ k + 1 \in 0 .. 64
    BY <1>2, <1>5
  <2>2. CASE k + 1 < 12
    BY <2>1, <2>2
  <2>3. CASE k + 1 = 12
    BY <1>6, <2>3
  <2>4. CASE k >= 12
    BY <1>7, <2>1, <2>4
  <2> QED BY <2>2, <2>3, <2>4
<1>8. 0 .. 64 \subseteq T
  <2> HIDE DEF T
  <2> QED BY <1>3, <1>7, OneByOne
<1> QED BY <1>5, <1>8

LEMMA WordIs ==
  /\ Word \in Nat /\ Word >= 4096 /\ Words = 0 .. Word - 1
  /\ Width \in 12 .. 64 /\ Word = Power[Width]
<1>1. Width \in 12 .. 64 /\ Width \in 0 .. 64 /\ Width >= 12
  BY MachineAssumption
<1> QED BY <1>1, PowersArePositive DEF Word, Words

(* What is cut off is a number of words.                                   *)
LEMMA SameRest ==
  ASSUME NEW w \in Nat, w > 0, NEW p \in Int, NEW q \in Int, NEW s \in 0 .. w - 1, NEW t \in 0 .. w - 1,
         w * p + s = w * q + t
  PROVE  s = t
<1>1. w * (p - q) = t - s
  <2>1. w * (p - q) = w * p - w * q
    OBVIOUS
  <2> QED BY <2>1
<1>2. CASE p - q >= 1
  <2>1. w * (p - q) >= w
    BY <1>2
  <2> QED BY <1>1, <2>1
<1>3. CASE p - q <= -1
  <2>1. w * (p - q) <= -w
    BY <1>3
  <2> QED BY <1>1, <2>1
<1>4. CASE p = q
  <2>1. w * (p - q) = 0
    BY <1>4
  <2> QED BY <1>1, <2>1
<1> QED BY <1>2, <1>3, <1>4

LEMMA Rest ==
  ASSUME NEW n \in Int, NEW w \in Nat, w > 0
  PROVE  /\ n \div w \in Int /\ n % w \in 0 .. w - 1 /\ n = (w * (n \div w)) + (n % w)
OBVIOUS

CutFacts ==
  /\ \A n \in Int : Cut(n) \in Words /\ Cut(n) \in Int
  /\ \A n \in Words : Cut(n) = n
  /\ \A n \in Int, q \in Int : Cut(n + Word * q) = Cut(n)

LEMMA CutIs == CutFacts
<1>1. Word \in Nat /\ Word > 0 /\ Words = 0 .. Word - 1
  BY WordIs
<1> HIDE DEF Word, Words
<1>2. \A n \in Int : /\ n \div Word \in Int /\ Cut(n) \in 0 .. Word - 1
                     /\ n = (Word * (n \div Word)) + Cut(n)
  BY <1>1, Rest DEF Cut
<1>3. ASSUME NEW n \in Int, NEW q \in Int, NEW s \in 0 .. Word - 1, n = Word * q + s
      PROVE  Cut(n) = s
  <2> DEFINE p == n \div Word
             t == Cut(n)
  <2>1. p \in Int /\ t \in 0 .. Word - 1 /\ n = (Word * p) + t
    BY <1>2
  <2> HIDE DEF p, t
  <2>2. t = s
    BY <1>1, <1>3, <2>1, SameRest
  <2> QED BY <2>2 DEF t
<1>4. ASSUME NEW n \in Words
      PROVE  Cut(n) = n
  <2>1. n \in Int /\ n = Word * 0 + n /\ n \in 0 .. Word - 1
    BY <1>1
  <2> QED BY <1>3, <2>1
<1>5. ASSUME NEW n \in Int, NEW q \in Int
      PROVE  Cut(n + Word * q) = Cut(n)
  <2> DEFINE p == n \div Word
  <2>1. p \in Int /\ n = Word * p + Cut(n) /\ Cut(n) \in 0 .. Word - 1
    BY <1>2
  <2> HIDE DEF p
  <2>2. Word * (p + q) = Word * p + Word * q /\ p + q \in Int /\ Word * q \in Int /\ Word * p \in Int
    BY <1>1, <2>1
  <2>3. n + Word * q = Word * (p + q) + Cut(n) /\ n + Word * q \in Int
    BY <2>1, <2>2
  <2> QED BY <1>3, <2>1, <2>2, <2>3
<1>6. Words \subseteq Int
  BY <1>1
<1>7. \A n \in Int : Cut(n) \in Words /\ Cut(n) \in Int
  BY <1>1, <1>2, <1>6
<1>8. \A n \in Words : Cut(n) = n
  BY <1>4
<1>9. \A n \in Int, q \in Int : Cut(n + Word * q) = Cut(n)
  BY <1>5
<1> QED BY <1>7, <1>8, <1>9 DEF CutFacts

LEMMA CutIsWord == \A n \in Int : Cut(n) \in Words /\ Cut(n) \in Int
BY CutIs DEF CutFacts

LEMMA CutOfWord == \A n \in Words : Cut(n) = n
BY CutIs DEF CutFacts

LEMMA CutAgain == \A n \in Int, q \in Int : Cut(n + Word * q) = Cut(n)
BY CutIs DEF CutFacts

LEMMA SmallWords ==
  \A n \in Nat : n < 4096 => n \in Words /\ Cut(n) = n
<1>1. ASSUME NEW n \in Nat, n < 4096
      PROVE  n \in Words
  BY <1>1, WordIs
<1> QED BY <1>1, CutOfWord

LEMMA CutWithin ==
  /\ \A a \in Int, b \in Int : Cut(a + Cut(b)) = Cut(a + b) /\ Cut(a - Cut(b)) = Cut(a - b)
  /\ \A n \in Words : Cut(-n - 1) = Word - 1 - n
<1>1. ASSUME NEW a \in Int, NEW b \in Int
      PROVE  Cut(a + Cut(b)) = Cut(a + b) /\ Cut(a - Cut(b)) = Cut(a - b)
  <2> DEFINE q == b \div Word
             c == Cut(b)
  <2>1. q \in Int /\ b = (Word * q) + c /\ c \in Int /\ Word \in Nat
    <3>1. Word \in Nat /\ Word > 0
      BY WordIs
    <3>2. c \in Int
      BY CutIsWord
    <3>3. q \in Int /\ b = (Word * q) + (b % Word)
      BY <3>1, Rest
    <3> QED BY <3>1, <3>2, <3>3 DEF Cut
  <2> HIDE DEF q, c
  <2>2. /\ a + c \in Int /\ (a + c) + Word * q = a + b
        /\ a - c \in Int /\ Word * (-q) = -(Word * q) /\ -q \in Int /\ (a - c) + Word * (-q) = a - b
    BY <2>1
  <2>3. Cut((a + c) + Word * q) = Cut(a + c) /\ Cut((a - c) + Word * (-q)) = Cut(a - c)
    BY <2>1, <2>2, CutAgain
  <2> QED BY <2>2, <2>3 DEF c
<1>2. ASSUME NEW n \in Words
      PROVE  Cut(-n - 1) = Word - 1 - n
  <2>1. /\ -n - 1 \in Int /\ Word - 1 - n \in Words /\ (-n - 1) + Word * 1 = Word - 1 - n
    BY WordIs
  <2>2. Cut((-n - 1) + Word * 1) = Cut(-n - 1)
    BY <2>1, CutAgain
  <2> QED BY <2>1, <2>2, CutOfWord
<1> QED BY <1>1, <1>2

(* The upper word of a product.                                            *)
LEMMA ProductOfWords ==
  ASSUME NEW a \in Words, NEW b \in Words
  PROVE  (a * b) \div Word \in Words /\ a * b \in Nat
<1>1. /\ Word \in Nat /\ Word > 0 /\ Words = 0 .. Word - 1
      /\ a \in Nat /\ b \in Nat /\ a < Word /\ b < Word
  BY WordIs
<1>2. a * b \in Nat /\ a * b < Word * Word
  <2>1. a * b <= a * Word
    BY <1>1
  <2>2. a * Word < Word * Word
    BY <1>1
  <2>3. a * b \in Nat /\ a * Word \in Nat /\ Word * Word \in Nat
    BY <1>1
  <2> QED BY <2>1, <2>2, <2>3
<1> DEFINE p == a * b
           q == p \div Word
<1>3. q \in Int /\ p = (Word * q) + (p % Word) /\ p % Word \in 0 .. Word - 1 /\ p \in Nat /\ p < Word * Word
  BY <1>1, <1>2, Rest
<1> HIDE DEF p, q
<1>4. q >= 0
  <2> SUFFICES ASSUME q <= -1 PROVE FALSE
    BY <1>3
  <2>1. Word * q <= -Word
    BY <1>1, <1>3
  <2> QED BY <1>1, <1>3, <2>1
<1>5. q < Word
  <2> SUFFICES ASSUME q >= Word PROVE FALSE
    BY <1>1, <1>3
  <2>1. Word * q >= Word * Word
    BY <1>1, <1>3
  <2> QED BY <1>1, <1>3, <2>1
<1> QED BY <1>1, <1>2, <1>3, <1>4, <1>5 DEF p, q

(* Division of words.                                                      *)
LEMMA QuotientOfWords ==
  ASSUME NEW a \in Words, NEW b \in Words, b # 0
  PROVE  /\ a \div b \in Words /\ a % b \in Words /\ a - ((a \div b) * b) = a % b
<1>1. /\ Word \in Nat /\ Word > 0 /\ Words = 0 .. Word - 1
      /\ a \in Nat /\ b \in Nat /\ a < Word /\ b < Word /\ b > 0
  BY WordIs
<1> DEFINE q == a \div b
           s == a % b
<1>2. q \in Int /\ a = (b * q) + s /\ s \in 0 .. b - 1
  BY <1>1, Rest
<1> HIDE DEF q, s
<1>3. q >= 0
  <2> SUFFICES ASSUME q <= -1 PROVE FALSE
    BY <1>2
  <2>1. b * q <= -b
    BY <1>1, <1>2
  <2> QED BY <1>1, <1>2, <2>1
<1>4. q <= b * q
  BY <1>1, <1>2, <1>3
<1>5. q \in Words /\ s \in Words
  BY <1>1, <1>2, <1>3, <1>4
<1>6. a - (q * b) = s
  BY <1>1, <1>2
<1> QED BY <1>5, <1>6 DEF q, s

LEMMA NotNegative ==
  ASSUME NEW n \in Words, Signed(n) >= 0
  PROVE  Signed(n) = n
BY WordIs DEF Signed

(* and, or and xor, bit by bit.                                            *)
LEMMA LowBitsSteps ==
  ASSUME NEW op, NEW word, NEW other
  PROVE  /\ LowBits(op, word, other)[0] = 0
         /\ \A j \in 1 .. Width : LowBits(op, word, other)[j] = LowBits(op, word, other)[j - 1] + (Power[j - 1] * Joined(op, Bit(word, j - 1), Bit(other, j - 1)))
<1> DEFINE N == Width
           S == {k \in 0 .. N : \E f : f[0] = 0 /\ \A j \in 1 .. k : f[j] = f[j - 1] + (Power[j - 1] * Joined(op, Bit(word, j - 1), Bit(other, j - 1)))}
           F(f) == [j \in 0 .. N |-> IF j = 0 THEN 0 ELSE f[j - 1] + (Power[j - 1] * Joined(op, Bit(word, j - 1), Bit(other, j - 1)))]
           after == CHOOSE f : f = F(f)
<1> N \in Nat
  BY WordIs
<1> HIDE DEF N
<1>1. 0 \in S
  <2>1. \A j \in 1 .. 0 : FALSE
    OBVIOUS
  <2>2. [j \in {0} |-> 0][0] = 0
    OBVIOUS
  <2>3. \E f : f[0] = 0 /\ \A j \in 1 .. 0 : f[j] = f[j - 1] + (Power[j - 1] * Joined(op, Bit(word, j - 1), Bit(other, j - 1)))
    <3> HIDE DEF N
    <3> QED BY ONLY <2>1, <2>2
  <2> QED BY <2>3
<1>2. ASSUME NEW k \in 0 .. N - 1, k \in S
      PROVE  k + 1 \in S
  <2>1. PICK f : f[0] = 0 /\ \A j \in 1 .. k : f[j] = f[j - 1] + (Power[j - 1] * Joined(op, Bit(word, j - 1), Bit(other, j - 1)))
    BY <1>2
  <2> DEFINE new == f[k] + (Power[(k + 1) - 1] * Joined(op, Bit(word, (k + 1) - 1), Bit(other, (k + 1) - 1)))
             h == [j \in 0 .. k + 1 |-> IF j = k + 1 THEN new ELSE f[j]]
  <2>2. new = f[(k + 1) - 1] + (Power[(k + 1) - 1] * Joined(op, Bit(word, (k + 1) - 1), Bit(other, (k + 1) - 1)))
    <3>1. (k + 1) - 1 = k
      OBVIOUS
    <3> QED BY <3>1
  <2> HIDE DEF new
  <2>3. /\ h[0] = f[0] /\ h[k + 1] = new
        /\ \A j \in 1 .. k : h[j] = f[j] /\ h[j - 1] = f[j - 1]
        /\ h[(k + 1) - 1] = f[(k + 1) - 1]
    OBVIOUS
  <2> HIDE DEF h
  <2>4. ASSUME NEW j \in 1 .. k + 1
        PROVE  h[j] = h[j - 1] + (Power[j - 1] * Joined(op, Bit(word, j - 1), Bit(other, j - 1)))
    <3>1. CASE j \in 1 .. k
      BY <2>1, <2>3, <3>1
    <3>2. CASE j = k + 1
      BY <2>2, <2>3, <3>2
    <3> QED BY <3>1, <3>2
  <2>5. \E g : g[0] = 0 /\ \A j \in 1 .. k + 1 : g[j] = g[j - 1] + (Power[j - 1] * Joined(op, Bit(word, j - 1), Bit(other, j - 1)))
    BY <2>1, <2>3, <2>4
  <2> QED BY <2>5
<1>3. N \in S
  <2> HIDE DEF S
  <2>1. 0 .. N \subseteq S
    BY <1>1, <1>2, OneByOne
  <2> QED BY <2>1
<1>4. PICK f : f[0] = 0 /\ \A j \in 1 .. N : f[j] = f[j - 1] + (Power[j - 1] * Joined(op, Bit(word, j - 1), Bit(other, j - 1)))
  BY <1>3
<1> DEFINE h == [j \in 0 .. N |-> f[j]]
<1>5. h = F(h)
  <2>1. ASSUME NEW j \in 0 .. N
        PROVE  h[j] = IF j = 0 THEN 0 ELSE h[j - 1] + (Power[j - 1] * Joined(op, Bit(word, j - 1), Bit(other, j - 1)))
    <3>1. j # 0 => j \in 1 .. N /\ j - 1 \in 0 .. N
      OBVIOUS
    <3>2. CASE j = 0
      BY <1>4, <3>2
    <3>3. CASE j # 0
      <4>1. h[j] = f[j] /\ h[j - 1] = f[j - 1]
        BY <3>1, <3>3
      <4> HIDE DEF h
      <4> QED BY <1>4, <3>1, <3>3, <4>1
    <3> QED BY <3>2, <3>3
  <2>2. h = [j \in 0 .. N |-> h[j]]
    OBVIOUS
  <2> HIDE DEF h
  <2> QED BY <2>1, <2>2
<1>6. after = F(after)
  <2> HIDE DEF F, h
  <2> QED BY <1>5
<1>7. LowBits(op, word, other) = after
  BY DEF LowBits, N
<1> HIDE DEF after
<1>8. after[0] = 0 /\ \A j \in 1 .. N : after[j] = after[j - 1] + (Power[j - 1] * Joined(op, Bit(word, j - 1), Bit(other, j - 1)))
  <2>1. 0 \in 0 .. N /\ \A j \in 1 .. N : j \in 0 .. N /\ j # 0
    OBVIOUS
  <2> QED BY <1>6, <2>1
<1> QED BY <1>7, <1>8 DEF N

LEMMA BitIs ==
  ASSUME NEW n \in Int, NEW k \in 0 .. 64
  PROVE  Bit(n, k) \in {0, 1}
<1>1. Power[k] \in Nat /\ Power[k] > 0
  BY PowersArePositive
<1>2. n \div Power[k] \in Int
  BY <1>1, Rest
<1> QED BY <1>2 DEF Bit

LEMMA BitsAreWords ==
  ASSUME NEW op \in {"and", "or", "xor"}, NEW word \in Int, NEW other \in Int
  PROVE  LowBits(op, word, other)[Width] \in Words
<1> DEFINE low == LowBits(op, word, other)
           S == {k \in 0 .. Width : low[k] \in Nat /\ low[k] < Power[k]}
<1>1. Width \in 12 .. 64 /\ Word = Power[Width] /\ Words = 0 .. Word - 1 /\ Word \in Nat
  BY WordIs
<1>2. low[0] = 0 /\ \A j \in 1 .. Width : low[j] = low[j - 1] + (Power[j - 1] * Joined(op, Bit(word, j - 1), Bit(other, j - 1)))
  BY LowBitsSteps
<1> HIDE DEF low
<1>3. Power[0] = 1 /\ \A j \in 1 .. 64 : Power[j] = 2 * Power[j - 1]
  BY PowerSteps
<1>4. 0 \in S
  <2>1. low[0] = 0 /\ Power[0] = 1 /\ 0 \in 0 .. Width
    BY <1>1, <1>2, <1>3
  <2> QED BY ONLY <2>1
<1>5. ASSUME NEW k \in 0 .. Width - 1, k \in S
      PROVE  k + 1 \in S
  <2>1. k \in 0 .. 64 /\ k + 1 \in 1 .. 64 /\ k + 1 \in 1 .. Width /\ (k + 1) - 1 = k /\ k + 1 \in 0 .. Width
    BY <1>1
  <2> DEFINE j == Joined(op, Bit(word, k), Bit(other, k))
  <2>2. j \in {0, 1}
    <3>1. Bit(word, k) \in {0, 1} /\ Bit(other, k) \in {0, 1}
      BY <2>1, BitIs
    <3> QED BY <3>1 DEF Joined
  <2>3. low[k + 1] = low[k] + (Power[k] * j) /\ Power[k + 1] = 2 * Power[k]
    BY <1>2, <1>3, <2>1
  <2> HIDE DEF j
  <2>4. Power[k] \in Nat /\ low[k] \in Nat /\ low[k] < Power[k]
    BY <1>5, <2>1, PowersArePositive
  <2>5. Power[k] * j \in Nat /\ Power[k] * j <= Power[k]
    BY <2>2, <2>4
  <2>6. low[k + 1] \in Nat /\ low[k + 1] < Power[k + 1]
    BY <2>3, <2>4, <2>5
  <2> QED BY <2>1, <2>6
<1>6. 0 .. Width \subseteq S
  <2> HIDE DEF S
  <2>1. Width \in Nat
    BY <1>1
  <2> QED BY <1>4, <1>5, <2>1, OneByOne
<1>7. Width \in S
  BY <1>1, <1>6
<1> HIDE DEF S
<1>8. low[Width] \in Nat /\ low[Width] < Power[Width]
  BY <1>7 DEF S
<1> QED BY <1>1, <1>8 DEF low

LEMMA XorWithItself ==
  ASSUME NEW n \in Int
  PROVE  LowBits("xor", n, n)[Width] = 0
<1> DEFINE low == LowBits("xor", n, n)
           S == {k \in 0 .. Width : low[k] = 0}
<1>1. Width \in 12 .. 64
  BY WordIs
<1>2. low[0] = 0 /\ \A j \in 1 .. Width : low[j] = low[j - 1] + (Power[j - 1] * Joined("xor", Bit(n, j - 1), Bit(n, j - 1)))
  BY LowBitsSteps
<1> HIDE DEF low
<1>3. 0 \in S
  BY <1>1, <1>2
<1>4. ASSUME NEW k \in 0 .. Width - 1, k \in S
      PROVE  k + 1 \in S
  <2>1. k \in 0 .. 64 /\ k + 1 \in 1 .. Width /\ (k + 1) - 1 = k /\ k + 1 \in 0 .. Width
    BY <1>1
  <2>2. Joined("xor", Bit(n, k), Bit(n, k)) = 0
    <3>1. Bit(n, k) \in {0, 1}
      BY <2>1, BitIs
    <3> QED BY <3>1 DEF Joined
  <2>3. Power[k] \in Nat /\ low[k] = 0
    BY <1>4, <2>1, PowersArePositive
  <2>4. low[k + 1] = low[k] + (Power[k] * Joined("xor", Bit(n, k), Bit(n, k)))
    BY <1>2, <2>1
  <2>5. low[k + 1] = 0
    BY <2>2, <2>3, <2>4
  <2> QED BY <2>1, <2>5
<1>5. 0 .. Width \subseteq S
  <2> HIDE DEF S
  <2> QED BY <1>1, <1>3, <1>4, OneByOne
<1>6. Width \in S
  BY <1>1, <1>5
<1> QED BY <1>6 DEF low

(* and and or of truth values.                                             *)
LEMMA TruthsJoined ==
  ASSUME NEW op \in {"and", "or"}, NEW p \in {0, 1}, NEW q \in {0, 1}
  PROVE  LowBits(op, p, q)[Width] = Joined(op, p, q)
<1> DEFINE low == LowBits(op, p, q)
           S == {k \in 0 .. Width : k >= 1 => low[k] = Joined(op, p, q)}
<1>1. Width \in 12 .. 64
  BY WordIs
<1>2. low[0] = 0 /\ \A j \in 1 .. Width : low[j] = low[j - 1] + (Power[j - 1] * Joined(op, Bit(p, j - 1), Bit(q, j - 1)))
  BY LowBitsSteps
<1> HIDE DEF low
<1>3. Power[0] = 1 /\ \A j \in 1 .. 64 : Power[j] = 2 * Power[j - 1]
  BY PowerSteps
<1>4. 0 \in S
  BY <1>1
<1>5. ASSUME NEW k \in 0 .. Width - 1, k \in S
      PROVE  k + 1 \in S
  <2>1. k \in 0 .. 64 /\ k + 1 \in 1 .. Width /\ (k + 1) - 1 = k /\ k + 1 \in 0 .. Width
    BY <1>1
  <2>2. low[k + 1] = low[k] + (Power[k] * Joined(op, Bit(p, k), Bit(q, k)))
    BY <1>2, <2>1
  <2>3. Joined(op, p, q) \in {0, 1} /\ Joined(op, 0, 0) = 0
    BY DEF Joined
  <2>4. CASE k = 0
    <3>1. \A n \in {0, 1} : (n \div 1) % 2 = n
      OBVIOUS
    <3>2. Bit(p, 0) = p /\ Bit(q, 0) = q
      BY <1>3, <3>1 DEF Bit
    <3>3. low[k + 1] = 0 + (1 * Joined(op, p, q))
      BY <1>2, <1>3, <2>2, <2>4, <3>2
    <3> HIDE DEF S
    <3>4. low[k + 1] = Joined(op, p, q)
      BY <2>3, <3>3
    <3> QED BY <2>1, <3>4 DEF S
  <2>5. CASE k # 0
    <3>1. k \in 1 .. 64 /\ k - 1 \in 0 .. 64
      BY <2>1, <2>5
    <3>2. Power[k - 1] \in Nat /\ Power[k - 1] >= 1 /\ Power[k] = 2 * Power[k - 1]
      <4>1. Power[k - 1] \in Nat /\ Power[k - 1] >= 1
        BY <3>1, PowersArePositive
      <4>2. Power[k] = 2 * Power[k - 1]
        BY <1>3, <3>1
      <4> QED BY <4>1, <4>2
    <3>3. Power[k] \in Nat /\ Power[k] >= 2
      BY <3>2
    <3>4. ASSUME NEW n \in {0, 1}
          PROVE  Bit(n, k) = 0
      <4> DEFINE w == Power[k]
      <4>1. /\ n \div w \in Int /\ n % w \in 0 .. w - 1 /\ n = (w * (n \div w)) + (n % w)
            /\ w \in Nat /\ w >= 2
        <5>1. n \in Int /\ w \in Nat /\ w >= 2 /\ w > 0
          BY <3>3
        <5> HIDE DEF w
        <5> QED BY <5>1, Rest
      <4> HIDE DEF w
      <4>2. n \in 0 .. w - 1 /\ n = w * 0 + n
        BY <4>1
      <4>3. n % w = n
        BY <4>1, <4>2, SameRest
      <4>4. w * (n \div w) = 0
        BY <4>1, <4>3
      <4>5. n \div w = 0
        BY <4>1, <4>4
      <4> QED BY <4>5 DEF Bit, w
    <3>5. Joined(op, Bit(p, k), Bit(q, k)) = 0
      BY <2>3, <3>4
    <3>6. low[k] = Joined(op, p, q)
      BY <1>5, <3>1
    <3>7. low[k + 1] = Joined(op, p, q)
      BY <2>2, <2>3, <3>3, <3>5, <3>6
    <3> QED BY <2>1, <3>7
  <2> QED BY <2>4, <2>5
<1>6. 0 .. Width \subseteq S
  <2> HIDE DEF S
  <2> QED BY <1>1, <1>4, <1>5, OneByOne
<1>7. Width \in S /\ Width >= 1
  BY <1>1, <1>6
<1> QED BY <1>7 DEF low

(***************************************************************************)
(* Texts, and the machine along them.                                      *)
(***************************************************************************)
IsText(t) == \E S : t \in Seq(S)

LEMMA TextLength ==
  ASSUME NEW t, IsText(t)
  PROVE  Len(t) \in Nat /\ DOMAIN t = 1 .. Len(t)
<1>1. PICK S : t \in Seq(S)
  BY DEF IsText
<1> QED BY <1>1, LenProperties

LEMMA TextAppended ==
  ASSUME NEW t, IsText(t), NEW i
  PROVE  LET f == Append(t, i)
         IN  /\ IsText(f) /\ Len(t) \in Nat /\ Len(f) = Len(t) + 1
             /\ f[Len(t) + 1] = i /\ \A k \in 1 .. Len(t) : f[k] = t[k]
<1> DEFINE f == Append(t, i)
<1>1. PICK S : t \in Seq(S)
  BY DEF IsText
<1> DEFINE T == S \cup {i}
<1>2. t \in Seq(T) /\ i \in T
  BY <1>1
<1> HIDE DEF T
<1>3. /\ f \in Seq(T) /\ Len(f) = Len(t) + 1 /\ f[Len(t) + 1] = i
      /\ \A k \in 1 .. Len(t) : f[k] = t[k]
  BY <1>2, AppendProperties
<1> QED BY <1>3, TextLength DEF IsText

LEMMA TextWithoutHead ==
  ASSUME NEW t, IsText(t), t # <<>>
  PROVE  LET f == Tail(t)
         IN  /\ IsText(f) /\ Len(t) \in Nat /\ Len(t) >= 1 /\ Len(f) = Len(t) - 1
             /\ Head(t) = t[1] /\ \A k \in 1 .. Len(t) - 1 : f[k] = t[k + 1]
<1> DEFINE f == Tail(t)
<1>1. PICK S : t \in Seq(S)
  BY DEF IsText
<1>2. /\ f \in Seq(S) /\ Len(f) = Len(t) - 1 /\ Head(t) = t[1]
      /\ \A k \in 1 .. Len(f) : f[k] = t[k + 1]
  BY <1>1, HeadTailProperties
<1>3. Len(t) \in Nat /\ Len(t) >= 1
  BY <1>1, <1>2, EmptySeq, LenProperties
<1> QED BY <1>2, <1>3 DEF IsText

(* The machine along a text.                                               *)
LEMMA ExecutingSteps ==
  ASSUME NEW m, NEW text, Len(text) \in Nat
  PROVE  /\ Executing(m, text)[0] = m
         /\ \A j \in 1 .. Len(text) : Executing(m, text)[j] = Executed(Executing(m, text)[j - 1], text[j])
<1> DEFINE N == Len(text)
           S == {k \in 0 .. N : \E f : f[0] = m /\ \A j \in 1 .. k : f[j] = Executed(f[j - 1], text[j])}
           F(f) == [j \in 0 .. N |-> IF j = 0 THEN m ELSE Executed(f[j - 1], text[j])]
           after == CHOOSE f : f = F(f)
<1> N \in Nat
  OBVIOUS
<1> HIDE DEF N
<1>1. 0 \in S
  <2>1. \A j \in 1 .. 0 : FALSE
    OBVIOUS
  <2>2. [j \in {0} |-> m][0] = m
    OBVIOUS
  <2>3. \E f : f[0] = m /\ \A j \in 1 .. 0 : f[j] = Executed(f[j - 1], text[j])
    <3> HIDE DEF N
    <3> QED BY ONLY <2>1, <2>2
  <2> QED BY <2>3
<1>2. ASSUME NEW k \in 0 .. N - 1, k \in S
      PROVE  k + 1 \in S
  <2>1. PICK f : f[0] = m /\ \A j \in 1 .. k : f[j] = Executed(f[j - 1], text[j])
    BY <1>2
  <2> DEFINE new == Executed(f[k], text[(k + 1)])
             h == [j \in 0 .. k + 1 |-> IF j = k + 1 THEN new ELSE f[j]]
  <2>2. new = Executed(f[(k + 1) - 1], text[(k + 1)])
    <3>1. (k + 1) - 1 = k
      OBVIOUS
    <3> QED BY <3>1
  <2> HIDE DEF new
  <2>3. /\ h[0] = f[0] /\ h[k + 1] = new
        /\ \A j \in 1 .. k : h[j] = f[j] /\ h[j - 1] = f[j - 1]
        /\ h[(k + 1) - 1] = f[(k + 1) - 1]
    OBVIOUS
  <2> HIDE DEF h
  <2>4. ASSUME NEW j \in 1 .. k + 1
        PROVE  h[j] = Executed(h[j - 1], text[j])
    <3>1. CASE j \in 1 .. k
      BY <2>1, <2>3, <3>1
    <3>2. CASE j = k + 1
      BY <2>2, <2>3, <3>2
    <3> QED BY <3>1, <3>2
  <2>5. \E g : g[0] = m /\ \A j \in 1 .. k + 1 : g[j] = Executed(g[j - 1], text[j])
    BY <2>1, <2>3, <2>4
  <2> QED BY <2>5
<1>3. N \in S
  <2> HIDE DEF S
  <2>1. 0 .. N \subseteq S
    BY <1>1, <1>2, OneByOne
  <2> QED BY <2>1
<1>4. PICK f : f[0] = m /\ \A j \in 1 .. N : f[j] = Executed(f[j - 1], text[j])
  BY <1>3
<1> DEFINE h == [j \in 0 .. N |-> f[j]]
<1>5. h = F(h)
  <2>1. ASSUME NEW j \in 0 .. N
        PROVE  h[j] = IF j = 0 THEN m ELSE Executed(h[j - 1], text[j])
    <3>1. j # 0 => j \in 1 .. N /\ j - 1 \in 0 .. N
      OBVIOUS
    <3>2. CASE j = 0
      BY <1>4, <3>2
    <3>3. CASE j # 0
      <4>1. h[j] = f[j] /\ h[j - 1] = f[j - 1]
        BY <3>1, <3>3
      <4> HIDE DEF h
      <4> QED BY <1>4, <3>1, <3>3, <4>1
    <3> QED BY <3>2, <3>3
  <2>2. h = [j \in 0 .. N |-> h[j]]
    OBVIOUS
  <2> HIDE DEF h
  <2> QED BY <2>1, <2>2
<1>6. after = F(after)
  <2> HIDE DEF F, h
  <2> QED BY <1>5
<1>7. Executing(m, text) = after
  BY DEF Executing, N
<1> HIDE DEF after
<1>8. after[0] = m /\ \A j \in 1 .. N : after[j] = Executed(after[j - 1], text[j])
  <2>1. 0 \in 0 .. N /\ \A j \in 1 .. N : j \in 0 .. N /\ j # 0
    OBVIOUS
  <2> QED BY <1>6, <2>1
<1> QED BY <1>7, <1>8 DEF N

Ways == {"ahead", "then", "else", "called", "astray", "returned"}
Machines ==
  [reg : [RegisterNames -> Words], mem : [Cells -> Words], compared : Words \X Words, went : Ways]

(* An assembler takes the text, and all along the machine is one.          *)
Legal(m, text) ==
  /\ IsText(text)
  /\ \A k \in 1 .. Len(text) : Encodable(text[k])
  /\ \A k \in 0 .. Len(text) : Executing(m, text)[k] \in Machines

LEMMA LegalNothing ==
  ASSUME NEW m \in Machines
  PROVE  Legal(m, <<>>) /\ Run(m, <<>>) = m
<1>1. IsText(<<>>) /\ Len(<<>>) = 0
  <2>1. <<>> \in Seq({})
    OBVIOUS
  <2> QED BY <2>1 DEF IsText
<1>2. Executing(m, <<>>)[0] = m
  BY <1>1, ExecutingSteps
<1> QED BY <1>1, <1>2 DEF Legal, Run

LEMMA LegalOneMore ==
  ASSUME NEW m, NEW t, Legal(m, t), NEW i, Encodable(i), Executed(Run(m, t), i) \in Machines
  PROVE  Legal(m, Append(t, i)) /\ Run(m, Append(t, i)) = Executed(Run(m, t), i)
<1> DEFINE f == Append(t, i)
           a == Executing(m, t)
           b == Executing(m, f)
           n == Len(t)
           S == {k \in 0 .. n : b[k] = a[k]}
<1>1. /\ IsText(f) /\ n \in Nat /\ Len(f) = n + 1 /\ f[n + 1] = i /\ \A k \in 1 .. n : f[k] = t[k]
  BY TextAppended DEF Legal
<1> HIDE DEF f
<1>2. a[0] = m /\ \A j \in 1 .. n : a[j] = Executed(a[j - 1], t[j])
  BY <1>1, ExecutingSteps
<1>3. b[0] = m /\ \A j \in 1 .. n + 1 : b[j] = Executed(b[j - 1], f[j])
  <2>1. Len(f) \in Nat
    BY <1>1
  <2> QED BY <1>1, <2>1, ExecutingSteps
<1>4. Run(m, t) = a[n] /\ Run(m, f) = b[n + 1]
  BY <1>1 DEF Run
<1>5. /\ \A k \in 0 .. n : a[k] \in Machines
      /\ \A k \in 1 .. n : Encodable(t[k])
  BY DEF Legal
<1> HIDE DEF a, b, n
<1>6. 0 \in S
  BY <1>1, <1>2, <1>3
<1>7. ASSUME NEW k \in 0 .. n - 1, k \in S
      PROVE  k + 1 \in S
  <2>1. k + 1 \in 1 .. n /\ k + 1 \in 1 .. n + 1 /\ (k + 1) - 1 = k /\ k + 1 \in 0 .. n /\ b[k] = a[k]
    BY <1>1, <1>7
  <2>2. a[k + 1] = Executed(a[k], t[k + 1]) /\ b[k + 1] = Executed(b[k], f[k + 1]) /\ f[k + 1] = t[k + 1]
    BY <1>1, <1>2, <1>3, <2>1
  <2> QED BY <2>1, <2>2
<1>8. 0 .. n \subseteq S
  <2> HIDE DEF S
  <2> QED BY <1>1, <1>6, <1>7, OneByOne
<1>9. \A k \in 0 .. n : b[k] = a[k]
  BY <1>8
<1>10. b[n + 1] = Executed(a[n], i)
  <2>1. n + 1 \in 1 .. n + 1 /\ (n + 1) - 1 = n /\ n \in 0 .. n
    BY <1>1
  <2> QED BY <1>1, <1>3, <1>9, <2>1
<1>11. \A k \in 0 .. n + 1 : b[k] \in Machines
  <2>1. \A k \in 0 .. n + 1 : k \in 0 .. n \/ k = n + 1
    BY <1>1
  <2> QED BY <1>4, <1>5, <1>9, <1>10, <2>1
<1>12. \A k \in 1 .. n + 1 : Encodable(f[k])
  <2>1. \A k \in 1 .. n + 1 : k \in 1 .. n \/ k = n + 1
    BY <1>1
  <2> QED BY <1>1, <1>5, <2>1
<1> QED BY <1>1, <1>4, <1>10, <1>11, <1>12 DEF Legal, f, b

LEMMA LegalFromSecond ==
  ASSUME NEW m, NEW t, Legal(m, t), t # <<>>
  PROVE  /\ Legal(Executed(m, Head(t)), Tail(t))
         /\ Run(Executed(m, Head(t)), Tail(t)) = Run(m, t)
<1> DEFINE f == Tail(t)
           o == Executed(m, Head(t))
           a == Executing(m, t)
           b == Executing(o, f)
           n == Len(t)
           S == {k \in 0 .. n - 1 : b[k] = a[k + 1]}
<1>1. /\ IsText(f) /\ n \in Nat /\ n >= 1 /\ Len(f) = n - 1 /\ Head(t) = t[1]
      /\ \A k \in 1 .. n - 1 : f[k] = t[k + 1]
  BY TextWithoutHead DEF Legal
<1>2. a[0] = m /\ \A j \in 1 .. n : a[j] = Executed(a[j - 1], t[j])
  BY <1>1, ExecutingSteps
<1> HIDE DEF f, o
<1>3. b[0] = o /\ \A j \in 1 .. n - 1 : b[j] = Executed(b[j - 1], f[j])
  <2>1. Len(f) \in Nat
    BY <1>1
  <2> QED BY <1>1, <2>1, ExecutingSteps
<1>4. Run(m, t) = a[n] /\ Run(o, f) = b[n - 1]
  BY <1>1 DEF Run
<1>5. /\ \A k \in 0 .. n : a[k] \in Machines
      /\ \A k \in 1 .. n : Encodable(t[k])
  BY DEF Legal
<1> HIDE DEF a, b, n
<1>6. 0 \in S
  <2>1. 1 \in 1 .. n /\ 1 - 1 = 0 /\ 0 \in 0 .. n - 1 /\ 0 + 1 = 1
    BY <1>1
  <2>2. a[1] = Executed(a[0], t[1])
    BY <1>2, <2>1
  <2>3. b[0] = a[0 + 1]
    BY <1>1, <1>2, <1>3, <2>1, <2>2 DEF o
  <2> QED BY <2>1, <2>3
<1>7. ASSUME NEW k \in 0 .. (n - 1) - 1, k \in S
      PROVE  k + 1 \in S
  <2>1. /\ k + 1 \in 1 .. n - 1 /\ (k + 1) + 1 \in 1 .. n /\ (k + 1) - 1 = k /\ k + 1 \in 0 .. n - 1
        /\ ((k + 1) + 1) - 1 = k + 1 /\ b[k] = a[k + 1]
    BY <1>1, <1>7
  <2>2. a[(k + 1) + 1] = Executed(a[k + 1], t[(k + 1) + 1])
    BY <1>2, <2>1
  <2>3. b[k + 1] = Executed(b[k], f[k + 1]) /\ f[k + 1] = t[(k + 1) + 1]
    BY <1>1, <1>3, <2>1
  <2> QED BY <2>1, <2>2, <2>3
<1>8. 0 .. n - 1 \subseteq S
  <2> HIDE DEF S
  <2>1. n - 1 \in Nat
    BY <1>1
  <2> QED BY <1>6, <1>7, <2>1, OneByOne
<1>9. \A k \in 0 .. n - 1 : b[k] = a[k + 1]
  BY <1>8
<1>10. \A k \in 0 .. n - 1 : b[k] \in Machines
  <2>1. \A k \in 0 .. n - 1 : k + 1 \in 0 .. n
    BY <1>1
  <2> QED BY <1>5, <1>9, <2>1
<1>11. \A k \in 1 .. n - 1 : Encodable(f[k])
  <2>1. \A k \in 1 .. n - 1 : k + 1 \in 1 .. n
    BY <1>1
  <2> QED BY <1>1, <1>5, <2>1
<1>12. b[n - 1] = a[n]
  <2>1. n - 1 \in 0 .. n - 1 /\ (n - 1) + 1 = n
    BY <1>1
  <2> QED BY <1>9, <2>1
<1> QED BY <1>1, <1>4, <1>10, <1>11, <1>12 DEF Legal, f, o, b

(***************************************************************************)
(* Registers, cells and operands.                                          *)
(***************************************************************************)
Givens == {"r8", "r9", "r10", "r11", "r12", "r13", "r14", "r15"}

LEMMA GivenIs == {Given[i] : i \in DOMAIN Given} = Givens
<1>1. DOMAIN Given = 1 .. 8
  BY DEF Given
<1>2. /\ Given[1] = "r8" /\ Given[2] = "r9" /\ Given[3] = "r10" /\ Given[4] = "r11"
      /\ Given[5] = "r12" /\ Given[6] = "r13" /\ Given[7] = "r14" /\ Given[8] = "r15"
  BY DEF Given
<1>3. \A i \in 1 .. 8 : i = 1 \/ i = 2 \/ i = 3 \/ i = 4 \/ i = 5 \/ i = 6 \/ i = 7 \/ i = 8
  OBVIOUS
<1>4. \A i \in 1 .. 8 : Given[i] \in Givens
  BY <1>2, <1>3 DEF Givens
<1>5. /\ 1 \in 1 .. 8 /\ 2 \in 1 .. 8 /\ 3 \in 1 .. 8 /\ 4 \in 1 .. 8
      /\ 5 \in 1 .. 8 /\ 6 \in 1 .. 8 /\ 7 \in 1 .. 8 /\ 8 \in 1 .. 8
  OBVIOUS
<1>6. \A r \in Givens : \E i \in 1 .. 8 : Given[i] = r
  BY <1>2, <1>5 DEF Givens
<1> QED BY <1>1, <1>4, <1>6

LEMMA NamesAre ==
  /\ RegisterNames = Scratch \cup Givens \cup Frame
  /\ Scratch = {"rax", "rcx", "rdx", "rdi", "rsi"} /\ Frame = {"rsp", "rbp"}
  /\ NoName = "none"
BY GivenIs DEF RegisterNames, Scratch, Frame, NoName

(* o is m with a register or a cell set.                                   *)
SetsRegister(m, o, q, n) ==
  /\ o \in Machines /\ o.reg[q] = n /\ \A p \in RegisterNames \ {q} : o.reg[p] = m.reg[p]
  /\ o.mem = m.mem /\ o.went = m.went

SetsCell(m, o, a, n) ==
  /\ o \in Machines /\ o.mem[a] = n /\ \A c \in Cells \ {a} : o.mem[c] = m.mem[c]
  /\ o.reg = m.reg /\ o.went = m.went

LEMMA MachineParts ==
  ASSUME NEW m \in Machines
  PROVE  /\ m.reg \in [RegisterNames -> Words] /\ m.mem \in [Cells -> Words]
         /\ m.compared \in Words \X Words /\ m.went \in Ways
         /\ m = [reg |-> m.reg, mem |-> m.mem, compared |-> m.compared, went |-> m.went]
BY DEF Machines

LEMMA RegisterWritten ==
  ASSUME NEW m \in Machines, NEW q \in RegisterNames, NEW n \in Words
  PROVE  SetsRegister(m, [m EXCEPT !.reg[q] = n], q, n)
BY MachineParts DEF Machines, SetsRegister

LEMMA CellWritten ==
  ASSUME NEW m \in Machines, NEW a \in Cells, NEW n \in Words
  PROVE  SetsCell(m, [m EXCEPT !.mem[a] = n], a, n)
BY MachineParts DEF Machines, SetsCell

LEMMA OperandParts ==
  /\ \A q : Reg(q).in = "register" /\ Reg(q).name = q
  /\ \A n \in Int : Number(n).in = "number" /\ Number(n).at = Cut(n)
  /\ \A q, i, s, n : /\ Indexed(q, i, s, n).in = "memory" /\ Indexed(q, i, s, n).name = q
                     /\ Indexed(q, i, s, n).index = i /\ Indexed(q, i, s, n).scale = s
                     /\ Indexed(q, i, s, n).at = n
  /\ \A q, n : /\ At(q, n).in = "memory" /\ At(q, n).name = q /\ At(q, n).index = NoName
               /\ At(q, n).scale = 1 /\ At(q, n).at = n
BY DEF Reg, Number, Indexed, At

LEMMA ContentIs ==
  ASSUME NEW m
  PROVE  /\ \A q : Content(m, Reg(q)) = m.reg[q]
         /\ \A n \in Int : Content(m, Number(n)) = Cut(n)
         /\ \A q, n : Content(m, At(q, n)) = m.mem[Cut(m.reg[q] + n + 0)]
         /\ \A q, n : Address(m, At(q, n)) = Cut(m.reg[q] + n + 0)
         /\ \A q, i, s, n : i # NoName => Address(m, Indexed(q, i, s, n)) = Cut(m.reg[q] + n + (m.reg[i] * s))
<1>1. \A q : Content(m, Reg(q)) = m.reg[q]
  BY OperandParts DEF Content
<1>2. \A n \in Int : Content(m, Number(n)) = Cut(n)
  BY OperandParts DEF Content
<1>3. \A q, n : Address(m, At(q, n)) = Cut(m.reg[q] + n + 0)
  BY OperandParts DEF Address
<1>4. \A q, n : Content(m, At(q, n)) = m.mem[Cut(m.reg[q] + n + 0)]
  BY <1>3, OperandParts DEF Content
<1>5. \A q, i, s, n : i # NoName => Address(m, Indexed(q, i, s, n)) = Cut(m.reg[q] + n + (m.reg[i] * s))
  BY OperandParts DEF Address
<1> QED BY <1>1, <1>2, <1>3, <1>4, <1>5

LEMMA InstructionParts ==
  \A op, to, of : /\ Instruction(op, to, of).op = op /\ Instruction(op, to, of).to = to
                  /\ Instruction(op, to, of).of = of
BY DEF Instruction

LEMMA WrittenIs ==
  ASSUME NEW m, NEW n
  PROVE  /\ \A q : Written(m, Reg(q), n) = [m EXCEPT !.reg[q] = Cut(n)]
         /\ \A q, k : Written(m, At(q, k), n) = [m EXCEPT !.mem[Address(m, At(q, k))] = Cut(n)]
BY OperandParts DEF Written

LEMMA SetNamesAre == SetNames = {"sete", "setne", "setl", "setg", "setle", "setge"}
BY DEF SetNames, Conditions

(* What the instructions do, one by one.                                   *)
LEMMA ExecutedIs ==
  ASSUME NEW m, NEW i
  PROVE  /\ i.op = "mov" => Executed(m, i) = Written(m, i.to, Content(m, i.of))
         /\ i.op = "lea" => Executed(m, i) = Written(m, i.to, Address(m, i.of))
         /\ i.op = "sub" => Executed(m, i) = Subtracted(m, i.to, Content(m, i.to), Content(m, i.of))
         /\ i.op = "not" => Executed(m, i) = Written(m, i.to, -Content(m, i.to) - 1)
         /\ i.op = "neg" => Executed(m, i) = Written(m, i.to, -Content(m, i.to))
         /\ i.op = "mul" => Executed(m, i) = Multiplied(m, Content(m, i.to))
         /\ i.op = "div" => Executed(m, i) = Divided(m, Content(m, i.to))
         /\ i.op = "cmp" => Executed(m, i) = Compared(m, Content(m, i.to), Content(m, i.of))
         /\ i.op = "push" => Executed(m, i) = Pushed(m, Content(m, i.to))
         /\ i.op = "pop" => Executed(m, i) = Popped(m, i.to)
         /\ i.op = "call" => Executed(m, i) = Called(m, Content(m, i.to))
         /\ i.op = "repe_movsb" => Executed(m, i) = Copied(m)
         /\ i.op = "jmp_then" => Executed(m, i) = Jumped(m, "then")
         /\ i.op = "jmp_else" => Executed(m, i) = Jumped(m, IF m.went = "then" THEN m.went ELSE "else")
         /\ i.op = "jne_then" => Executed(m, i) = Jumped(m, IF m.compared[1] # m.compared[2] THEN "then" ELSE m.went)
         /\ i.op = "ret" => Executed(m, i) = Jumped(m, "returned")
         /\ i.op \in {"add", "and", "or", "xor", "shl", "shr"} =>
              Executed(m, i) = Written(m, i.to, Alu(i.op, Content(m, i.to), Content(m, i.of)))
         /\ i.op \in SetNames =>
              Executed(m, i) = Written(m, i.to, ByteSet(m, Content(m, i.to), Conditions[i.op]))
<1>1. ASSUME i.op = "mov"
      PROVE  Executed(m, i) = Written(m, i.to, Content(m, i.of))
  BY <1>1, SetNamesAre DEF Executed
<1>2. ASSUME i.op = "lea"
      PROVE  Executed(m, i) = Written(m, i.to, Address(m, i.of))
  BY <1>2, SetNamesAre DEF Executed
<1>3. ASSUME i.op = "sub"
      PROVE  Executed(m, i) = Subtracted(m, i.to, Content(m, i.to), Content(m, i.of))
  BY <1>3, SetNamesAre DEF Executed
<1>4. ASSUME i.op = "not"
      PROVE  Executed(m, i) = Written(m, i.to, -Content(m, i.to) - 1)
  BY <1>4, SetNamesAre DEF Executed
<1>5. ASSUME i.op = "neg"
      PROVE  Executed(m, i) = Written(m, i.to, -Content(m, i.to))
  BY <1>5, SetNamesAre DEF Executed
<1>6. ASSUME i.op = "mul"
      PROVE  Executed(m, i) = Multiplied(m, Content(m, i.to))
  BY <1>6, SetNamesAre DEF Executed
<1>7. ASSUME i.op = "div"
      PROVE  Executed(m, i) = Divided(m, Content(m, i.to))
  BY <1>7, SetNamesAre DEF Executed
<1>8. ASSUME i.op = "cmp"
      PROVE  Executed(m, i) = Compared(m, Content(m, i.to), Content(m, i.of))
  BY <1>8, SetNamesAre DEF Executed
<1>9. ASSUME i.op = "push"
      PROVE  Executed(m, i) = Pushed(m, Content(m, i.to))
  BY <1>9, SetNamesAre DEF Executed
<1>10. ASSUME i.op = "pop"
      PROVE  Executed(m, i) = Popped(m, i.to)
  BY <1>10, SetNamesAre DEF Executed
<1>11. ASSUME i.op = "call"
      PROVE  Executed(m, i) = Called(m, Content(m, i.to))
  BY <1>11, SetNamesAre DEF Executed
<1>12. ASSUME i.op = "repe_movsb"
      PROVE  Executed(m, i) = Copied(m)
  BY <1>12, SetNamesAre DEF Executed
<1>13. ASSUME i.op = "jmp_then"
      PROVE  Executed(m, i) = Jumped(m, "then")
  BY <1>13, SetNamesAre DEF Executed
<1>14. ASSUME i.op = "jmp_else"
      PROVE  Executed(m, i) = Jumped(m, IF m.went = "then" THEN m.went ELSE "else")
  BY <1>14, SetNamesAre DEF Executed
<1>15. ASSUME i.op = "jne_then"
      PROVE  Executed(m, i) = Jumped(m, IF m.compared[1] # m.compared[2] THEN "then" ELSE m.went)
  BY <1>15, SetNamesAre DEF Executed
<1>16. ASSUME i.op = "ret"
      PROVE  Executed(m, i) = Jumped(m, "returned")
  BY <1>16, SetNamesAre DEF Executed
<1>17. ASSUME i.op \in {"add", "and", "or", "xor", "shl", "shr"}
      PROVE  Executed(m, i) = Written(m, i.to, Alu(i.op, Content(m, i.to), Content(m, i.of)))
  BY <1>17, SetNamesAre DEF Executed
<1>18. ASSUME i.op \in SetNames
      PROVE  Executed(m, i) = Written(m, i.to, ByteSet(m, Content(m, i.to), Conditions[i.op]))
  BY <1>18, SetNamesAre DEF Executed
<1> QED BY <1>1, <1>2, <1>3, <1>4, <1>5, <1>6, <1>7, <1>8, <1>9, <1>10, <1>11, <1>12, <1>13, <1>14, <1>15, <1>16, <1>17, <1>18

LEMMA InstructionExecuted ==
  ASSUME NEW m, NEW to, NEW of
  PROVE  /\ Executed(m, Instruction("mov", to, of)) = Written(m, to, Content(m, of))
         /\ Executed(m, Instruction("lea", to, of)) = Written(m, to, Address(m, of))
         /\ Executed(m, Instruction("sub", to, of)) = Subtracted(m, to, Content(m, to), Content(m, of))
         /\ Executed(m, Instruction("not", to, of)) = Written(m, to, -Content(m, to) - 1)
         /\ Executed(m, Instruction("neg", to, of)) = Written(m, to, -Content(m, to))
         /\ Executed(m, Instruction("mul", to, of)) = Multiplied(m, Content(m, to))
         /\ Executed(m, Instruction("div", to, of)) = Divided(m, Content(m, to))
         /\ Executed(m, Instruction("cmp", to, of)) = Compared(m, Content(m, to), Content(m, of))
         /\ Executed(m, Instruction("push", to, of)) = Pushed(m, Content(m, to))
         /\ Executed(m, Instruction("pop", to, of)) = Popped(m, to)
         /\ Executed(m, Instruction("call", to, of)) = Called(m, Content(m, to))
         /\ Executed(m, Instruction("repe_movsb", to, of)) = Copied(m)
         /\ Executed(m, Instruction("jmp_then", to, of)) = Jumped(m, "then")
         /\ Executed(m, Instruction("jmp_else", to, of)) = Jumped(m, IF m.went = "then" THEN m.went ELSE "else")
         /\ Executed(m, Instruction("jne_then", to, of)) = Jumped(m, IF m.compared[1] # m.compared[2] THEN "then" ELSE m.went)
         /\ Executed(m, Instruction("ret", to, of)) = Jumped(m, "returned")
         /\ \A op \in {"add", "and", "or", "xor", "shl", "shr"} :
              Executed(m, Instruction(op, to, of)) = Written(m, to, Alu(op, Content(m, to), Content(m, of)))
         /\ \A op \in SetNames :
              Executed(m, Instruction(op, to, of)) = Written(m, to, ByteSet(m, Content(m, to), Conditions[op]))
<1>1. Executed(m, Instruction("mov", to, of)) = Written(m, to, Content(m, of))
  BY InstructionParts, ExecutedIs
<1>2. Executed(m, Instruction("lea", to, of)) = Written(m, to, Address(m, of))
  BY InstructionParts, ExecutedIs
<1>3. Executed(m, Instruction("sub", to, of)) = Subtracted(m, to, Content(m, to), Content(m, of))
  BY InstructionParts, ExecutedIs
<1>4. Executed(m, Instruction("not", to, of)) = Written(m, to, -Content(m, to) - 1)
  BY InstructionParts, ExecutedIs
<1>5. Executed(m, Instruction("neg", to, of)) = Written(m, to, -Content(m, to))
  BY InstructionParts, ExecutedIs
<1>6. Executed(m, Instruction("mul", to, of)) = Multiplied(m, Content(m, to))
  BY InstructionParts, ExecutedIs
<1>7. Executed(m, Instruction("div", to, of)) = Divided(m, Content(m, to))
  BY InstructionParts, ExecutedIs
<1>8. Executed(m, Instruction("cmp", to, of)) = Compared(m, Content(m, to), Content(m, of))
  BY InstructionParts, ExecutedIs
<1>9. Executed(m, Instruction("push", to, of)) = Pushed(m, Content(m, to))
  BY InstructionParts, ExecutedIs
<1>10. Executed(m, Instruction("pop", to, of)) = Popped(m, to)
  BY InstructionParts, ExecutedIs
<1>11. Executed(m, Instruction("call", to, of)) = Called(m, Content(m, to))
  BY InstructionParts, ExecutedIs
<1>12. Executed(m, Instruction("repe_movsb", to, of)) = Copied(m)
  BY InstructionParts, ExecutedIs
<1>13. Executed(m, Instruction("jmp_then", to, of)) = Jumped(m, "then")
  BY InstructionParts, ExecutedIs
<1>14. Executed(m, Instruction("jmp_else", to, of)) = Jumped(m, IF m.went = "then" THEN m.went ELSE "else")
  BY InstructionParts, ExecutedIs
<1>15. Executed(m, Instruction("jne_then", to, of)) = Jumped(m, IF m.compared[1] # m.compared[2] THEN "then" ELSE m.went)
  BY InstructionParts, ExecutedIs
<1>16. Executed(m, Instruction("ret", to, of)) = Jumped(m, "returned")
  BY InstructionParts, ExecutedIs
<1>17. \A op \in {"add", "and", "or", "xor", "shl", "shr"} :
              Executed(m, Instruction(op, to, of)) = Written(m, to, Alu(op, Content(m, to), Content(m, of)))
  BY InstructionParts, ExecutedIs
<1>18. \A op \in SetNames :
              Executed(m, Instruction(op, to, of)) = Written(m, to, ByteSet(m, Content(m, to), Conditions[op]))
  BY InstructionParts, ExecutedIs
<1> QED BY <1>1, <1>2, <1>3, <1>4, <1>5, <1>6, <1>7, <1>8, <1>9, <1>10, <1>11, <1>12, <1>13, <1>14, <1>15, <1>16, <1>17, <1>18

(***************************************************************************)
(* The frame. Where values live is a register or a cell of their own.      *)
(***************************************************************************)
Housed ==
  /\ home \in [Values -> Givens \cup {NoName}]
  /\ \A m, n \in Values : m # n /\ home[m] = home[n] => home[m] = NoName
  /\ number \in Words

Cell(n) == Stack - 8 + PhaseAfter(n)

(* What is where the frame is. cells are those an instruction was to write.*)
Framed(m, cells) ==
  /\ m \in Machines
  /\ m.reg["rbp"] = Stack - 8 /\ m.reg["rsp"] = Stack - 40 + FrameSize
  /\ m.mem[Cell("a")] = Cell("a") + 8 /\ m.mem[Cell("b")] = Cell("b") + 8
  /\ m.mem[2040] = Caller(0, 0).reg["rbp"] /\ m.mem[2032] = Caller(0, 0).reg["r12"]
  /\ m.mem[2024] = Caller(0, 0).reg["r13"] /\ m.mem[2016] = Caller(0, 0).reg["r14"]
  /\ m.mem[2008] = Caller(0, 0).reg["r15"]
  /\ \A a \in Cells \ cells : a >= Stack => m.mem[a] = a + 1

LEMMA NamesDiffer ==
  /\ Values = {"x", "y", "v"} /\ Allocas = {"a", "b"} /\ Nodes = {"x", "y", "v", "a", "b", "c", "f"}
  /\ Nodes \cap (RegisterNames \cup {NoName}) = {} /\ NoName \notin RegisterNames
  /\ Givens \cap (Scratch \cup Frame) = {} /\ Scratch \cap Frame = {}
  /\ Givens = {"r8", "r9", "r10", "r11", "r12", "r13", "r14", "r15"}
BY NamesAre DEF Values, Allocas, Nodes, Givens

LEMMA Rooms ==
  ASSUME Housed
  PROVE  /\ \A n \in Values : /\ Spilled(n) <=> home[n] = NoName
                              /\ Room(n) = IF Spilled(n) THEN 8 ELSE 0
                              /\ ~Spilled(n) => home[n] \in Givens
         /\ Spilled("a") /\ Spilled("b") /\ ~Spilled("c") /\ ~Spilled("f")
         /\ \A n \in Nodes : Loose(n) <=> ~(n \in Values /\ home[n] # NoName)
BY NamesDiffer DEF Housed, Spilled, Room, Loose

LEMMA CellsAre ==
  /\ Cell("a") = 1984 /\ Cell("b") = 1960 /\ Cell("x") = 1960 - Room("x")
  /\ Cell("y") = 1960 - Room("x") - Room("y")
  /\ Cell("v") = 1960 - Room("x") - Room("y") - Room("v")
  /\ FrameSize = Cell("v") - 2040
BY NamesDiffer DEF Cell, PhaseAfter, DataPhase, AllocaSize, Stack, FrameSize, Room

LEMMA InCells ==
  /\ \A a \in Cells : a \in Words /\ a \in 1824 .. 2088 /\ Cut(a) = a
  /\ \A k \in 0 .. 33 : 1824 + (8 * k) \in Cells
<1>1. ASSUME NEW a \in Cells
      PROVE  a \in Words /\ a \in 1824 .. 2088 /\ Cut(a) = a
  BY SmallWords DEF Cells
<1>2. ASSUME NEW k \in 0 .. 33
      PROVE  1824 + (8 * k) \in Cells
  <2>1. 1824 + (8 * k) \in 1824 .. 2088 /\ (1824 + (8 * k)) % 8 = 0
    OBVIOUS
  <2> QED BY <2>1 DEF Cells
<1> QED BY <1>1, <1>2

LEMMA NamedCells ==
  /\ {1880, 1888, 1896, 1904, 1912, 1920, 1928, 1936, 1944, 1952, 1960, 1968, 1976, 1984, 1992, 2000} \subseteq Cells
  /\ {2008, 2016, 2024, 2032, 2040, 2048, 2056, 2064, 2072, 2080, 2088} \subseteq Cells
  /\ {1872, 1864} \subseteq Cells
<1>1. \A a \in {1864, 1872, 1880, 1888, 1896, 1904, 1912, 1920, 1928, 1936, 1944, 1952, 1960, 1968, 1976, 1984,
                1992, 2000, 2008, 2016, 2024, 2032, 2040, 2048, 2056, 2064, 2072, 2080, 2088} :
        a \in 1824 .. 2088 /\ a % 8 = 0
  OBVIOUS
<1> QED BY <1>1 DEF Cells

(* The cells of values on the stack are the frame's, one for each.         *)
LEMMA FrameCells ==
  ASSUME Housed
  PROVE  /\ \A n \in Nodes : Spilled(n) =>
              /\ Cell(n) \in Cells /\ Cell(n) \in 1936 .. 1984 /\ n \in Values \cup Allocas
              /\ StackPhase(n) = Cell(n) - 2040
         /\ \A m, n \in Nodes : Spilled(m) /\ Spilled(n) /\ m # n => Cell(m) # Cell(n)
         /\ FrameSize \in -104 .. -80
         /\ \A n \in Nodes : Spilled(n) => Cell(n) > Stack - 40 + FrameSize
         /\ Stack - 40 + FrameSize \in Cells /\ Stack - 40 + FrameSize \in 1904 .. 1928
<1>1. /\ Room("x") = (IF Spilled("x") THEN 8 ELSE 0) /\ Room("y") = (IF Spilled("y") THEN 8 ELSE 0)
      /\ Room("v") = (IF Spilled("v") THEN 8 ELSE 0)
      /\ Spilled("a") /\ Spilled("b") /\ ~Spilled("c") /\ ~Spilled("f")
  BY Rooms, NamesDiffer
<1>2. /\ Cell("a") = 1984 /\ Cell("b") = 1960 /\ Cell("x") = 1960 - Room("x")
      /\ Cell("y") = 1960 - Room("x") - Room("y")
      /\ Cell("v") = 1960 - Room("x") - Room("y") - Room("v")
      /\ FrameSize = Cell("v") - 2040
  BY CellsAre
<1>3. Nodes = {"x", "y", "v", "a", "b", "c", "f"} /\ Values \cup Allocas = {"x", "y", "v", "a", "b"}
  BY NamesDiffer
<1>4. \A n \in Nodes : Spilled(n) => StackPhase(n) = Cell(n) - 2040
  <2>1. \A n \in {"x", "y", "v", "a", "b"} : PhaseAfter(n) \in Int
    BY <1>1 DEF PhaseAfter, DataPhase, AllocaSize, Allocas
  <2> QED BY <1>1, <1>3, <2>1 DEF StackPhase, Cell, Stack
<1>5. \A n \in Nodes : Spilled(n) => Cell(n) \in {1936, 1944, 1952, 1960, 1984} /\ n \in Values \cup Allocas
  BY <1>1, <1>2, <1>3
<1>6. \A m, n \in Nodes : Spilled(m) /\ Spilled(n) /\ m # n => Cell(m) # Cell(n)
  BY <1>1, <1>2, <1>3
<1>7. /\ FrameSize \in {-104, -96, -88, -80}
      /\ \A n \in Nodes : Spilled(n) => Cell(n) > Stack - 40 + FrameSize
  BY <1>1, <1>2, <1>3 DEF Stack
<1>8. Stack - 40 + FrameSize \in {1904, 1912, 1920, 1928}
  BY <1>7 DEF Stack
<1> QED BY <1>4, <1>5, <1>6, <1>7, <1>8, NamedCells

(* The steps of writing an instruction, one by one.                       *)
LEMMA WritingSteps ==
  ASSUME NEW steps, Len(steps) \in Nat
  PROVE  /\ Writing(steps)[0] = Blank
         /\ \A j \in 1 .. Len(steps) : Writing(steps)[j] = Take(Writing(steps)[j - 1], steps[j])
<1> DEFINE N == Len(steps)
           S == {k \in 0 .. N : \E f : f[0] = Blank /\ \A j \in 1 .. k : f[j] = Take(f[j - 1], steps[j])}
           F(f) == [j \in 0 .. N |-> IF j = 0 THEN Blank ELSE Take(f[j - 1], steps[j])]
           after == CHOOSE f : f = F(f)
<1> N \in Nat
  OBVIOUS
<1> HIDE DEF N
<1>1. 0 \in S
  <2>1. \A j \in 1 .. 0 : FALSE
    OBVIOUS
  <2>2. [j \in {0} |-> Blank][0] = Blank
    OBVIOUS
  <2>3. \E f : f[0] = Blank /\ \A j \in 1 .. 0 : f[j] = Take(f[j - 1], steps[j])
    <3> HIDE DEF N
    <3> QED BY ONLY <2>1, <2>2
  <2> QED BY <2>3
<1>2. ASSUME NEW k \in 0 .. N - 1, k \in S
      PROVE  k + 1 \in S
  <2>1. PICK f : f[0] = Blank /\ \A j \in 1 .. k : f[j] = Take(f[j - 1], steps[j])
    BY <1>2
  <2> DEFINE new == Take(f[k], steps[(k + 1)])
             h == [j \in 0 .. k + 1 |-> IF j = k + 1 THEN new ELSE f[j]]
  <2>2. new = Take(f[(k + 1) - 1], steps[(k + 1)])
    <3>1. (k + 1) - 1 = k
      OBVIOUS
    <3> QED BY <3>1
  <2> HIDE DEF new
  <2>3. /\ h[0] = f[0] /\ h[k + 1] = new
        /\ \A j \in 1 .. k : h[j] = f[j] /\ h[j - 1] = f[j - 1]
        /\ h[(k + 1) - 1] = f[(k + 1) - 1]
    OBVIOUS
  <2> HIDE DEF h
  <2>4. ASSUME NEW j \in 1 .. k + 1
        PROVE  h[j] = Take(h[j - 1], steps[j])
    <3>1. CASE j \in 1 .. k
      BY <2>1, <2>3, <3>1
    <3>2. CASE j = k + 1
      BY <2>2, <2>3, <3>2
    <3> QED BY <3>1, <3>2
  <2>5. \E g : g[0] = Blank /\ \A j \in 1 .. k + 1 : g[j] = Take(g[j - 1], steps[j])
    BY <2>1, <2>3, <2>4
  <2> QED BY <2>5
<1>3. N \in S
  <2> HIDE DEF S
  <2>1. 0 .. N \subseteq S
    BY <1>1, <1>2, OneByOne
  <2> QED BY <2>1
<1>4. PICK f : f[0] = Blank /\ \A j \in 1 .. N : f[j] = Take(f[j - 1], steps[j])
  BY <1>3
<1> DEFINE h == [j \in 0 .. N |-> f[j]]
<1>5. h = F(h)
  <2>1. ASSUME NEW j \in 0 .. N
        PROVE  h[j] = IF j = 0 THEN Blank ELSE Take(h[j - 1], steps[j])
    <3>1. j # 0 => j \in 1 .. N /\ j - 1 \in 0 .. N
      OBVIOUS
    <3>2. CASE j = 0
      BY <1>4, <3>2
    <3>3. CASE j # 0
      <4>1. h[j] = f[j] /\ h[j - 1] = f[j - 1]
        BY <3>1, <3>3
      <4> HIDE DEF h
      <4> QED BY <1>4, <3>1, <3>3, <4>1
    <3> QED BY <3>2, <3>3
  <2>2. h = [j \in 0 .. N |-> h[j]]
    OBVIOUS
  <2> HIDE DEF h
  <2> QED BY <2>1, <2>2
<1>6. after = F(after)
  <2> HIDE DEF F, h
  <2> QED BY <1>5
<1>7. Writing(steps) = after
  BY DEF Writing, N
<1> HIDE DEF after
<1>8. after[0] = Blank /\ \A j \in 1 .. N : after[j] = Take(after[j - 1], steps[j])
  <2>1. 0 \in 0 .. N /\ \A j \in 1 .. N : j \in 0 .. N /\ j # 0
    OBVIOUS
  <2> QED BY <1>6, <2>1
<1> QED BY <1>7, <1>8 DEF N

(***************************************************************************)
(* What the nodes are while an instruction is written and executed.        *)
(***************************************************************************)
LEMMA PrintedIs ==
  ASSUME Housed, NEW h, NEW n \in Nodes
  PROVE  /\ h[n] # NoName => Printed(h, n) = Reg(h[n])
         /\ h[n] = NoName /\ n = "c" => Printed(h, n) = Number(number)
         /\ h[n] = NoName /\ n = "f" => Printed(h, n) = Number(Function)
         /\ h[n] = NoName /\ Spilled(n) => Printed(h, n) = At("rbp", Cell(n) - 2040)
<1>1. "c" # "f" /\ ~Spilled("c") /\ ~Spilled("f")
  BY Rooms
<1>2. Spilled(n) => StackPhase(n) = Cell(n) - 2040
  BY FrameCells
<1>3. h[n] # NoName => Printed(h, n) = Reg(h[n])
  BY DEF Printed
<1>4. h[n] = NoName /\ n = "c" => Printed(h, n) = Number(number)
  BY DEF Printed
<1>5. h[n] = NoName /\ n = "f" => Printed(h, n) = Number(Function)
  BY <1>1 DEF Printed
<1>6. h[n] = NoName /\ Spilled(n) => Printed(h, n) = At("rbp", Cell(n) - 2040)
  BY <1>1, <1>2 DEF Printed
<1> QED BY <1>3, <1>4, <1>5, <1>6

(* What is printed for a node where it is stored.                          *)
LEMMA StoredIs ==
  ASSUME Housed, NEW n \in Nodes, Loose(n)
  PROVE  /\ n = "c" => Stored(n) = Number(number)
         /\ n = "f" => Stored(n) = Number(Function)
         /\ Spilled(n) => Stored(n) = At("rbp", Cell(n) - 2040)
         /\ n = "c" \/ n = "f" \/ Spilled(n)
<1> DEFINE h == [m \in Nodes |-> NoName]
<1>1. h[n] = NoName /\ Stored(n) = Printed(h, n)
  BY DEF Stored
<1> HIDE DEF h
<1>2. n = "c" \/ n = "f" \/ Spilled(n)
  BY DEF Loose
<1> QED BY <1>1, <1>2, PrintedIs

LEMMA InFrame ==
  ASSUME Housed, NEW m \in Machines, m.reg["rbp"] = 2040, NEW n \in Nodes, Spilled(n)
  PROVE  /\ Content(m, At("rbp", Cell(n) - 2040)) = m.mem[Cell(n)]
         /\ Address(m, At("rbp", Cell(n) - 2040)) = Cell(n)
         /\ m.mem[Cell(n)] \in Words
<1>1. Cell(n) \in Cells /\ Cell(n) \in 1936 .. 1984
  BY FrameCells
<1>2. 2040 + (Cell(n) - 2040) + 0 = Cell(n) /\ Cut(Cell(n)) = Cell(n)
  BY <1>1, InCells
<1>3. m.mem[Cell(n)] \in Words
  BY <1>1, MachineParts
<1> QED BY <1>2, <1>3, ContentIs

LEMMA ContentOfIs ==
  ASSUME Housed, NEW m \in Machines, m.reg["rbp"] = 2040, NEW n \in Nodes
  PROVE  /\ n \in Values /\ home[n] # NoName => ContentOf(m, n) = m.reg[home[n]]
         /\ Spilled(n) => ContentOf(m, n) = m.mem[Cell(n)]
         /\ n = "c" => ContentOf(m, n) = number
         /\ n = "f" => ContentOf(m, n) = Function
         /\ ContentOf(m, n) \in Words
<1> DEFINE h == [i \in Nodes |-> IF i \in Values THEN home[i] ELSE NoName]
<1>1. ContentOf(m, n) = Content(m, Printed(h, n))
  BY DEF ContentOf
<1>2. /\ n \in Values => h[n] = home[n]
      /\ n \notin Values => h[n] = NoName
  OBVIOUS
<1> HIDE DEF h
<1>3. /\ Spilled(n) => h[n] = NoName
      /\ n \in Values /\ home[n] # NoName => home[n] \in Givens /\ home[n] \in RegisterNames /\ ~Spilled(n)
      /\ n \in {"c", "f"} => n \notin Values /\ ~Spilled(n)
      /\ n \notin Values => n \in {"c", "f"} \/ Spilled(n)
      /\ n \in Values => home[n] # NoName \/ Spilled(n)
  BY <1>2, Rooms, NamesDiffer, NamesAre DEF Spilled
<1>4. number \in Words /\ Cut(number) = number /\ Cut(Function) = Function /\ Function \in Words
      /\ number \in Int /\ Function \in Int
  BY SmallWords, CutOfWord, WordIs DEF Housed, Function
<1>5. CASE n \in Values /\ home[n] # NoName
  <2>1. ContentOf(m, n) = m.reg[home[n]]
    BY <1>1, <1>2, <1>5, PrintedIs, ContentIs
  <2>2. m.reg[home[n]] \in Words
    BY <1>3, <1>5, MachineParts
  <2> QED BY <1>3, <1>5, <2>1, <2>2
<1>6. CASE Spilled(n)
  <2>1. ContentOf(m, n) = m.mem[Cell(n)]
    BY <1>1, <1>3, <1>6, PrintedIs, InFrame
  <2> QED BY <1>3, <1>6, <2>1, InFrame
<1>7. CASE n = "c"
  BY <1>1, <1>2, <1>3, <1>4, <1>7, PrintedIs, ContentIs
<1>8. CASE n = "f"
  BY <1>1, <1>2, <1>3, <1>4, <1>8, PrintedIs, ContentIs
<1> QED BY <1>3, <1>5, <1>6, <1>7, <1>8

(* Nothing but v is in what an instruction may write.                      *)
Fit(b, U, D) ==
  /\ b \in Machines /\ b.reg["rbp"] = 2040
  /\ Scratch \subseteq U /\ U \cap Frame = {}
  /\ \A n \in {"x", "y"} : ~Spilled(n) => home[n] \notin U
  /\ \A n \in Nodes \ {"v"} : Spilled(n) => Cell(n) \notin D

LEMMA LeftAlone ==
  ASSUME Housed, NEW b, NEW U, NEW D, Fit(b, U, D), NEW m \in Machines, Spares(b, m, U, D)
  PROVE  /\ m.reg["rbp"] = 2040 /\ m.reg["rsp"] = b.reg["rsp"]
         /\ \A n \in Nodes \ {"v"} : ContentOf(m, n) = ContentOf(b, n)
<1>1. m.reg["rbp"] = 2040 /\ b.reg["rbp"] = 2040 /\ m.reg["rsp"] = b.reg["rsp"] /\ b \in Machines
  BY NamesAre DEF Fit, Spares, Frame
<1>2. ASSUME NEW n \in Nodes \ {"v"}
      PROVE  ContentOf(m, n) = ContentOf(b, n)
  <2>1. CASE n \in Values /\ home[n] # NoName
    <3>1. n \in {"x", "y"} /\ home[n] \in Givens /\ home[n] \in RegisterNames /\ ~Spilled(n)
      BY <1>2, <2>1, Rooms, NamesDiffer, NamesAre
    <3>2. m.reg[home[n]] = b.reg[home[n]]
      BY <3>1 DEF Fit, Spares
    <3> QED BY <1>1, <1>2, <2>1, <3>2, ContentOfIs
  <2>2. CASE Spilled(n)
    <3>1. m.mem[Cell(n)] = b.mem[Cell(n)]
      BY <1>2, <2>2, FrameCells DEF Fit, Spares
    <3> QED BY <1>1, <1>2, <2>2, <3>1, ContentOfIs
  <2>3. n \in {"c", "f"} \/ Spilled(n) \/ (n \in Values /\ home[n] # NoName)
    BY <1>2, NamesDiffer DEF Spilled
  <2> QED BY <1>1, <1>2, <2>1, <2>2, <2>3, ContentOfIs
<1> QED BY <1>1, <1>2

(***************************************************************************)
(* An instruction while it is written: e is written so far, and has        *)
(* brought b to m; registers are written among U, cells among D.           *)
(***************************************************************************)
Holding(h) ==
  /\ h \in [Nodes -> RegisterNames \cup {NoName}]
  /\ \A n \in Nodes : IF Loose(n) THEN h[n] \in Scratch \cup {NoName} ELSE h[n] = home[n]

Doing(b, e, m, U, D) ==
  /\ e = [text |-> e.text, held |-> e.held] /\ Holding(e.held)
  /\ Legal(b, e.text) /\ m = Run(b, e.text) /\ m \in Machines
  /\ Spares(b, m, U, D)

LEMMA Begun ==
  ASSUME Housed, NEW b \in Machines, NEW U, NEW D
  PROVE  Doing(b, Blank, b, U, D) /\ \A n \in Nodes : Loose(n) => Blank.held[n] = NoName
<1> DEFINE h == [n \in Nodes |-> IF n \in Values THEN home[n] ELSE NoName]
<1>1. Blank = [text |-> <<>>, held |-> h]
  BY DEF Blank
<1>2. \A n \in Nodes : h[n] = IF n \in Values THEN home[n] ELSE NoName
  OBVIOUS
<1>3. h = [n \in Nodes |-> h[n]]
  OBVIOUS
<1> HIDE DEF h
<1>4. \A n \in Nodes : (Loose(n) => h[n] = NoName) /\ (~Loose(n) => h[n] = home[n] /\ h[n] \in Givens)
  BY <1>2, Rooms, NamesDiffer
<1>5. Holding(h)
  <2>1. \A n \in Nodes : h[n] \in RegisterNames \cup {NoName}
    BY <1>4, NamesAre
  <2> QED BY <1>3, <1>4, <2>1 DEF Holding
<1>6. Spares(b, b, U, D)
  BY DEF Spares
<1> QED BY <1>1, <1>4, <1>5, <1>6, LegalNothing DEF Doing

LEMMA SparesOn ==
  ASSUME NEW b, NEW m, NEW p, NEW U, NEW D, Spares(b, m, U, D), Spares(m, p, U, D)
  PROVE  Spares(b, p, U, D)
BY DEF Spares

LEMMA RegisterSpares ==
  ASSUME NEW m, NEW p, NEW q, NEW n, NEW U, NEW D, SetsRegister(m, p, q, n), q \in U
  PROVE  Spares(m, p, U, D)
BY DEF Spares, SetsRegister

LEMMA CellSpares ==
  ASSUME NEW m, NEW p, NEW a, NEW n, NEW U, NEW D, SetsCell(m, p, a, n), a \in D
  PROVE  Spares(m, p, U, D)
BY DEF Spares, SetsCell

LEMMA GoesOn ==
  ASSUME NEW b, NEW e, NEW m, NEW U, NEW D, Doing(b, e, m, U, D),
         NEW i, Encodable(i), NEW h, Holding(h), NEW p \in Machines, p = Executed(m, i), Spares(m, p, U, D)
  PROVE  Doing(b, [text |-> Append(e.text, i), held |-> h], p, U, D)
<1> DEFINE f == [text |-> Append(e.text, i), held |-> h]
<1>1. f.text = Append(e.text, i) /\ f.held = h /\ f = [text |-> f.text, held |-> f.held]
  OBVIOUS
<1>2. Legal(b, f.text) /\ p = Run(b, f.text)
  BY <1>1, LegalOneMore DEF Doing
<1>3. Spares(b, p, U, D)
  BY SparesOn DEF Doing
<1> HIDE DEF f
<1>4. Doing(b, f, p, U, D)
  BY <1>1, <1>2, <1>3 DEF Doing
<1> QED BY <1>4 DEF f

LEMMA HoldingSet ==
  ASSUME Housed, NEW h, Holding(h), NEW n \in Nodes, Loose(n), NEW r \in Scratch \cup {NoName}
  PROVE  LET g == [h EXCEPT ![n] = r]
         IN  Holding(g) /\ g[n] = r /\ \A k \in Nodes \ {n} : g[k] = h[k]
<1> DEFINE g == [h EXCEPT ![n] = r]
<1>1. h \in [Nodes -> RegisterNames \cup {NoName}] /\ r \in RegisterNames \cup {NoName}
  BY NamesAre DEF Holding
<1>2. g \in [Nodes -> RegisterNames \cup {NoName}] /\ g[n] = r /\ \A k \in Nodes \ {n} : g[k] = h[k]
  BY <1>1
<1> HIDE DEF g
<1>3. \A k \in Nodes : IF Loose(k) THEN g[k] \in Scratch \cup {NoName} ELSE g[k] = home[k]
  BY <1>2 DEF Holding
<1> QED BY <1>2, <1>3 DEF Holding, g

LEMMA HeldIs ==
  ASSUME Housed, NEW h, Holding(h), NEW n \in Nodes
  PROVE  /\ ~Loose(n) => h[n] = home[n] /\ h[n] \in Givens /\ n \in Values
         /\ Loose(n) => h[n] \in Scratch \cup {NoName}
         /\ h[n] \in RegisterNames \cup {NoName}
BY Rooms DEF Holding

(* The parts of a step.                                                    *)
LEMMA StepParts ==
  \A do, n, r, i : /\ Step(do, n, r, i).do = do /\ Step(do, n, r, i).node = n
                   /\ Step(do, n, r, i).name = r /\ Step(do, n, r, i).text = i
BY DEF Step

LEMMA EncodableMove ==
  ASSUME NEW to, NEW of,
         \/ IsRegister(to) /\ (IsRegister(of) \/ IsMemory(of) \/ of.in = "number")
         \/ IsMemory(to) /\ (IsRegister(of) \/ of.in = "number")
  PROVE  \A op \in {"mov", "add", "sub", "and", "or", "xor", "cmp"} : Encodable(Instruction(op, to, of))
BY InstructionParts DEF Encodable

LEMMA OperandKinds ==
  /\ \A q \in RegisterNames : IsRegister(Reg(q))
  /\ \A q, n : IsMemory(At(q, n))
  /\ \A q, i, n : \A s \in {1, 2, 4, 8} : IsMemory(Indexed(q, i, s, n))
  /\ \A n \in Int : Number(n).in = "number"
BY OperandParts DEF IsRegister, IsMemory

LEMMA WrittenRegister ==
  ASSUME NEW m \in Machines, NEW q \in RegisterNames, NEW n, Cut(n) \in Words
  PROVE  SetsRegister(m, Written(m, Reg(q), n), q, Cut(n))
<1>1. Written(m, Reg(q), n) = [m EXCEPT !.reg[q] = Cut(n)]
  BY WrittenIs
<1> QED BY <1>1, RegisterWritten

LEMMA WrittenCell ==
  ASSUME NEW m \in Machines, NEW to, IsMemory(to), NEW a \in Cells, Address(m, to) = a,
         NEW n, Cut(n) \in Words
  PROVE  SetsCell(m, Written(m, to, n), a, Cut(n))
<1>1. Written(m, to, n) = [m EXCEPT !.mem[a] = Cut(n)]
  BY DEF Written, IsMemory
<1> QED BY <1>1, CellWritten

LEMMA MovedToRegister ==
  ASSUME NEW m \in Machines, NEW q \in RegisterNames, NEW of, Content(m, of) \in Words
  PROVE  SetsRegister(m, Executed(m, Move(Reg(q), of)), q, Content(m, of))
<1> DEFINE n == Content(m, of)
<1>1. Executed(m, Move(Reg(q), of)) = Written(m, Reg(q), n)
  BY InstructionExecuted DEF Move
<1>2. Cut(n) = n /\ n \in Words
  BY CutOfWord
<1> HIDE DEF n
<1>3. SetsRegister(m, Written(m, Reg(q), n), q, n)
  BY <1>2, WrittenRegister
<1> QED BY <1>1, <1>3 DEF n

LEMMA MovedToCell ==
  ASSUME NEW m \in Machines, NEW to, IsMemory(to), NEW a \in Cells, Address(m, to) = a,
         NEW of, Content(m, of) \in Words
  PROVE  SetsCell(m, Executed(m, Move(to, of)), a, Content(m, of))
<1> DEFINE n == Content(m, of)
<1>1. Executed(m, Move(to, of)) = Written(m, to, n)
  BY InstructionExecuted DEF Move
<1>2. Cut(n) = n /\ n \in Words
  BY CutOfWord
<1> HIDE DEF n
<1>3. SetsCell(m, Written(m, to, n), a, n)
  BY <1>2, WrittenCell
<1> QED BY <1>1, <1>3 DEF n

(* What the steps write, and what they hold then.                          *)
Set(h, n, r) == [h EXCEPT ![n] = r]

LEMMA ToRegIs ==
  ASSUME NEW e, e = [text |-> e.text, held |-> e.held], NEW n, NEW r
  PROVE  /\ Loose(n) => Take(e, ToReg(n, r)) =
              [text |-> Append(e.text, Move(Reg(r), Stored(n))), held |-> Set(e.held, n, r)]
         /\ ~Loose(n) => Take(e, ToReg(n, r)) = e
<1> DEFINE t == e.text
           h == e.held
           s == ToReg(n, r)
<1>1. s.do = "to_reg" /\ s.node = n /\ s.name = r
  BY StepParts DEF ToReg
<1>2. e = [text |-> t, held |-> h]
  OBVIOUS
<1> HIDE DEF t, h, s
<1>3. ASSUME Loose(n)
      PROVE  Take(e, s) = [text |-> Append(t, Move(Reg(r), Stored(n))), held |-> Set(h, n, r)]
  BY <1>1, <1>2, <1>3 DEF Take, Set, Loose
<1>4. ASSUME ~Loose(n)
      PROVE  Take(e, s) = e
  BY <1>1, <1>2, <1>4 DEF Take, Set, Loose
<1> QED BY <1>3, <1>4 DEF t, h, s

LEMMA OccupyRegIs ==
  ASSUME NEW e, e = [text |-> e.text, held |-> e.held], NEW n, NEW r
  PROVE  /\ Spilled(n) => Take(e, OccupyReg(n, r)) =
              [text |-> e.text, held |-> Set(e.held, n, r)]
         /\ ~Spilled(n) => Take(e, OccupyReg(n, r)) = e
<1> DEFINE t == e.text
           h == e.held
           s == OccupyReg(n, r)
<1>1. s.do = "occupy_reg" /\ s.node = n /\ s.name = r
  BY StepParts DEF OccupyReg
<1>2. e = [text |-> t, held |-> h]
  OBVIOUS
<1> HIDE DEF t, h, s
<1>3. ASSUME Spilled(n)
      PROVE  Take(e, s) = [text |-> t, held |-> Set(h, n, r)]
  BY <1>1, <1>2, <1>3 DEF Take, Set, Loose
<1>4. ASSUME ~Spilled(n)
      PROVE  Take(e, s) = e
  BY <1>1, <1>2, <1>4 DEF Take, Set, Loose
<1> QED BY <1>3, <1>4 DEF t, h, s

LEMMA FromRegIs ==
  ASSUME NEW e, e = [text |-> e.text, held |-> e.held], NEW n
  PROVE  /\ Spilled(n) => Take(e, FromReg(n)) =
              [text |-> Append(e.text, Move(Stored(n), Reg(e.held[n]))), held |-> Set(e.held, n, NoName)]
         /\ ~Loose(n) => Take(e, FromReg(n)) = e
<1> DEFINE t == e.text
           h == e.held
           s == FromReg(n)
<1>1. s.do = "from_reg" /\ s.node = n
  BY StepParts DEF FromReg
<1>2. e = [text |-> t, held |-> h]
  OBVIOUS
<1> HIDE DEF t, h, s
<1>3. ASSUME Spilled(n)
      PROVE  Take(e, s) = [text |-> Append(t, Move(Stored(n), Reg(h[n]))), held |-> Set(h, n, NoName)]
  BY <1>1, <1>2, <1>3 DEF Take, Set, Loose
<1>4. ASSUME ~Loose(n)
      PROVE  Take(e, s) = e
  BY <1>1, <1>2, <1>4 DEF Take, Set, Loose
<1> QED BY <1>3, <1>4 DEF t, h, s

LEMMA FreeRegIs ==
  ASSUME NEW e, e = [text |-> e.text, held |-> e.held], NEW n
  PROVE  /\ Loose(n) => Take(e, FreeReg(n)) =
              [text |-> e.text, held |-> Set(e.held, n, NoName)]
         /\ ~Loose(n) => Take(e, FreeReg(n)) = e
<1> DEFINE t == e.text
           h == e.held
           s == FreeReg(n)
<1>1. s.do = "free_reg" /\ s.node = n
  BY StepParts DEF FreeReg
<1>2. e = [text |-> t, held |-> h]
  OBVIOUS
<1> HIDE DEF t, h, s
<1>3. ASSUME Loose(n)
      PROVE  Take(e, s) = [text |-> t, held |-> Set(h, n, NoName)]
  BY <1>1, <1>2, <1>3 DEF Take, Set, Loose
<1>4. ASSUME ~Loose(n)
      PROVE  Take(e, s) = e
  BY <1>1, <1>2, <1>4 DEF Take, Set, Loose
<1> QED BY <1>3, <1>4 DEF t, h, s

LEMMA LoadRaxIs ==
  ASSUME NEW e, e = [text |-> e.text, held |-> e.held], NEW n
  PROVE  /\ e.held[n] # "rax" => Take(e, LoadRax(n)) =
              [text |-> Append(e.text, Move(Reg("rax"), Printed(e.held, n))), held |-> e.held]
         /\ e.held[n] = "rax" => Take(e, LoadRax(n)) = e
<1> DEFINE t == e.text
           h == e.held
           s == LoadRax(n)
<1>1. s.do = "load_rax" /\ s.node = n
  BY StepParts DEF LoadRax
<1>2. e = [text |-> t, held |-> h]
  OBVIOUS
<1> HIDE DEF t, h, s
<1>3. ASSUME h[n] # "rax"
      PROVE  Take(e, s) = [text |-> Append(t, Move(Reg("rax"), Printed(h, n))), held |-> h]
  BY <1>1, <1>2, <1>3 DEF Take, Set, Loose
<1>4. ASSUME h[n] = "rax"
      PROVE  Take(e, s) = e
  BY <1>1, <1>2, <1>4 DEF Take, Set, Loose
<1> QED BY <1>3, <1>4 DEF t, h, s

LEMMA WriteIs ==
  ASSUME NEW e, e = [text |-> e.text, held |-> e.held], NEW op, NEW to, NEW of
  PROVE  Take(e, Write(op, to, of)) =
           [text |-> Append(e.text, Instruction(op, Resolved(e.held, to), Resolved(e.held, of))),
            held |-> e.held]
<1> DEFINE t == e.text
           h == e.held
           s == Write(op, to, of)
<1>1. s.do = "write" /\ s.text.op = op /\ s.text.to = to /\ s.text.of = of
  BY StepParts, InstructionParts DEF Write
<1>2. e = [text |-> t, held |-> h]
  OBVIOUS
<1> HIDE DEF t, h, s
<1>3. Take(e, s) = [text |-> Append(t, Instruction(op, Resolved(h, to), Resolved(h, of))), held |-> h]
  BY <1>1, <1>2 DEF Take
<1> QED BY <1>3 DEF t, h, s

LEMMA ToRegTaken ==
  ASSUME Housed, NEW b, NEW e, NEW m, NEW U, NEW D, Fit(b, U, D), Doing(b, e, m, U, D),
         NEW n \in Nodes \ {"v"}, NEW r \in Scratch
  PROVE  LET f == Take(e, ToReg(n, r))
             p == Run(b, f.text)
         IN  /\ Doing(b, f, p, U, D)
             /\ f.held[n] = (IF Loose(n) THEN r ELSE home[n])
             /\ \A k \in Nodes \ {n} : f.held[k] = e.held[k]
             /\ p.reg[f.held[n]] = ContentOf(b, n)
             /\ \A q \in RegisterNames \ {r} : p.reg[q] = m.reg[q]
             /\ p.mem = m.mem /\ p.went = m.went
<1> DEFINE f == Take(e, ToReg(n, r))
           p == Run(b, f.text)
<1>1. /\ e = [text |-> e.text, held |-> e.held] /\ Holding(e.held) /\ m \in Machines
      /\ m = Run(b, e.text) /\ Spares(b, m, U, D)
  BY DEF Doing
<1>2. m.reg["rbp"] = 2040 /\ ContentOf(m, n) = ContentOf(b, n)
  BY <1>1, LeftAlone
<1>3. CASE ~Loose(n)
  <2>1. f = e
    BY <1>1, <1>3, ToRegIs
  <2>2. p = m
    BY <1>1, <2>1
  <2>3. e.held[n] = home[n] /\ home[n] \in Givens /\ n \in Values
    BY <1>1, <1>3, HeldIs
  <2>4. m.reg[home[n]] = ContentOf(b, n)
    BY <1>1, <1>2, <2>3, ContentOfIs, NamesDiffer, NamesAre
  <2> HIDE DEF f, p
  <2> QED BY <1>3, <2>1, <2>2, <2>3, <2>4 DEF f, p
<1>4. CASE Loose(n)
  <2> DEFINE i == Move(Reg(r), Stored(n))
             h == Set(e.held, n, r)
             o == Executed(m, i)
  <2>1. f = [text |-> Append(e.text, i), held |-> h]
    BY <1>1, <1>4, ToRegIs
  <2>2. Holding(h) /\ h[n] = r /\ \A k \in Nodes \ {n} : h[k] = e.held[k]
    BY <1>1, <1>4, HoldingSet DEF Set
  <2>3. r \in RegisterNames /\ r \in U
    BY NamesAre DEF Fit
  <2>4. /\ Content(m, Stored(n)) = ContentOf(m, n)
        /\ Stored(n).in = "number" \/ IsMemory(Stored(n))
    <3>1. number \in Words /\ Cut(number) = number /\ Cut(Function) = Function
          /\ number \in Int /\ Function \in Int
      BY SmallWords, CutOfWord, WordIs DEF Housed, Function
    <3>2. CASE n = "c"
      BY <1>1, <1>2, <1>4, <3>1, <3>2, StoredIs, ContentIs, ContentOfIs, OperandKinds
    <3>3. CASE n = "f"
      BY <1>1, <1>2, <1>4, <3>1, <3>3, StoredIs, ContentIs, ContentOfIs, OperandKinds
    <3>4. CASE Spilled(n)
      BY <1>1, <1>2, <1>4, <3>4, StoredIs, InFrame, ContentOfIs, OperandKinds
    <3> QED BY <1>4, <3>2, <3>3, <3>4, StoredIs
  <2>5. ContentOf(m, n) \in Words
    BY <1>1, <1>2, ContentOfIs
  <2>6. SetsRegister(m, o, r, ContentOf(b, n))
    BY <1>1, <1>2, <2>3, <2>4, <2>5, MovedToRegister
  <2>7. Encodable(i)
    BY <2>3, <2>4, OperandKinds, EncodableMove DEF Move
  <2> HIDE DEF i, h, o
  <2>8. o \in Machines /\ Spares(m, o, U, D)
    BY <2>3, <2>6, RegisterSpares DEF SetsRegister
  <2>9. Doing(b, f, o, U, D)
    BY <2>1, <2>2, <2>7, <2>8, GoesOn DEF o
  <2>10. f.held = h
    BY <2>1
  <2> HIDE DEF f
  <2>11. p = o
    BY <2>9 DEF Doing
  <2> HIDE DEF p
  <2>12. /\ Doing(b, f, p, U, D) /\ f.held[n] = r /\ \A k \in Nodes \ {n} : f.held[k] = e.held[k]
         /\ p.reg[f.held[n]] = ContentOf(b, n)
         /\ \A q \in RegisterNames \ {r} : p.reg[q] = m.reg[q]
         /\ p.mem = m.mem /\ p.went = m.went
    BY <2>2, <2>6, <2>9, <2>10, <2>11 DEF SetsRegister
  <2> QED BY <1>4, <2>12 DEF f, p
<1> QED BY <1>3, <1>4

(***************************************************************************)
(* The arithmetic of the processor.                                        *)
(***************************************************************************)
LEMMA PartOfWord ==
  ASSUME NEW a \in Words, NEW w \in Nat, w >= 1
  PROVE  a \div w \in Words
<1>1. Word \in Nat /\ Words = 0 .. Word - 1 /\ a \in Nat /\ a < Word
  BY WordIs
<1> DEFINE q == a \div w
           s == a % w
<1>2. q \in Int /\ a = (w * q) + s /\ s \in 0 .. w - 1
  <2>1. w > 0 /\ a \in Int
    BY <1>1
  <2> QED BY <2>1, Rest
<1> HIDE DEF q, s
<1>3. q >= 0
  <2> SUFFICES ASSUME q <= -1 PROVE FALSE
    BY <1>2
  <2>1. w * q <= -w
    BY <1>2
  <2> QED BY <1>1, <1>2, <2>1
<1>4. q <= w * q
  BY <1>2, <1>3
<1>5. q < Word
  BY <1>1, <1>2, <1>4
<1>6. q \in Words
  BY <1>1, <1>2, <1>3, <1>5
<1> QED BY <1>6 DEF q

LEMMA AluIs ==
  ASSUME NEW word \in Words, NEW other \in Words
  PROVE  /\ Alu("add", word, other) = word + other
         /\ Alu("sub", word, other) = word - other
         /\ \A op \in {"and", "or", "xor"} :
              /\ Alu(op, word, other) = LowBits(op, word, other)[Width]
              /\ Alu(op, word, other) \in Words
         /\ other < Width => /\ Alu("shl", word, other) = word * Power[other]
                             /\ Alu("shr", word, other) = word \div Power[other]
                             /\ Alu("shl", word, other) \in Int /\ Alu("shr", word, other) \in Words
<1>1. word \in Nat /\ other \in Nat /\ word < Word /\ Word \in Nat /\ Width \in 12 .. 64 /\ word \in Int /\ other \in Int
      /\ Words = 0 .. Word - 1
  BY WordIs
<1>2. Alu("add", word, other) = word + other /\ Alu("sub", word, other) = word - other
  BY DEF Alu
<1>3. ASSUME NEW op \in {"and", "or", "xor"}
      PROVE  Alu(op, word, other) = LowBits(op, word, other)[Width] /\ Alu(op, word, other) \in Words
  <2>1. Alu(op, word, other) = LowBits(op, word, other)[Width]
    BY DEF Alu
  <2> QED BY <1>1, <2>1, BitsAreWords
<1>4. ASSUME other < Width
      PROVE  /\ Alu("shl", word, other) = word * Power[other]
             /\ Alu("shr", word, other) = word \div Power[other]
             /\ Alu("shl", word, other) \in Int /\ Alu("shr", word, other) \in Words
  <2>1. other \in 0 .. 63
    <3>1. Width \in Nat /\ Width <= 64 /\ other \in Nat
      BY WordIs
    <3> QED BY <1>4, <3>1
  <2>2. other % 64 = other
    BY <2>1
  <2>3. Power[other] \in Nat /\ Power[other] >= 1
    BY <2>1, PowersArePositive
  <2>4. /\ Alu("shl", word, other) = word * Power[other]
        /\ Alu("shr", word, other) = word \div Power[other]
    BY <1>4, <2>2 DEF Alu, Places
  <2> DEFINE w == Power[other]
  <2> HIDE DEF w
  <2>5. w \in Nat /\ w >= 1
    BY <2>3 DEF w
  <2>6. word \div w \in Words
    BY <2>5, PartOfWord
  <2>7. word * w \in Int
    BY <1>1, <2>5
  <2> QED BY <2>4, <2>6, <2>7 DEF w
<1> QED BY <1>2, <1>3, <1>4

LEMMA AluWritten ==
  ASSUME NEW m \in Machines, NEW q \in RegisterNames, NEW of, Content(m, of) \in Words,
         NEW op \in {"add", "and", "or", "xor", "shl", "shr"},
         op \in {"shl", "shr"} => Content(m, of) < Width
  PROVE  SetsRegister(m, Executed(m, Instruction(op, Reg(q), of)), q, Cut(Alu(op, m.reg[q], Content(m, of))))
<1> DEFINE n == Alu(op, m.reg[q], Content(m, of))
<1>1. m.reg[q] \in Words /\ Content(m, Reg(q)) = m.reg[q]
  BY MachineParts, ContentIs
<1>2. Executed(m, Instruction(op, Reg(q), of)) = Written(m, Reg(q), n)
  <2>1. Executed(m, Instruction(op, Reg(q), of)) = Written(m, Reg(q), Alu(op, Content(m, Reg(q)), Content(m, of)))
    BY InstructionExecuted
  <2> QED BY <1>1, <2>1
<1>3. n \in Int
  <2>1. m.reg[q] \in Int /\ Content(m, of) \in Int /\ Words \subseteq Int
    BY <1>1, WordIs
  <2>2. CASE op = "add"
    BY <1>1, <2>1, <2>2, AluIs
  <2>3. CASE op \in {"and", "or", "xor"}
    BY <1>1, <2>1, <2>3, AluIs
  <2>4. CASE op \in {"shl", "shr"}
    BY <1>1, <2>1, <2>4, AluIs
  <2> QED BY <2>2, <2>3, <2>4
<1> HIDE DEF n
<1>4. SetsRegister(m, Written(m, Reg(q), n), q, Cut(n))
  BY <1>3, CutIsWord, WrittenRegister
<1> QED BY <1>2, <1>4 DEF n

(* compared is the pair compared last.                                     *)
ComparesTo(m, p, word, other) ==
  /\ p \in Machines /\ p.reg = m.reg /\ p.mem = m.mem /\ p.went = m.went
  /\ p.compared[1] = word /\ p.compared[2] = other

LEMMA ComparedIs ==
  ASSUME NEW m \in Machines, NEW to, NEW of, Content(m, to) \in Words, Content(m, of) \in Words
  PROVE  ComparesTo(m, Executed(m, Instruction("cmp", to, of)), Content(m, to), Content(m, of))
<1> DEFINE lhs == Content(m, to)
           rhs == Content(m, of)
<1>1. Executed(m, Instruction("cmp", to, of)) = Compared(m, lhs, rhs)
  BY InstructionExecuted
<1> HIDE DEF lhs, rhs
<1>2. ComparesTo(m, Compared(m, lhs, rhs), lhs, rhs)
  BY MachineParts DEF Compared, ComparesTo, Machines, lhs, rhs
<1> QED BY <1>1, <1>2 DEF lhs, rhs

LEMMA SubtractedIs ==
  ASSUME NEW m \in Machines, NEW q \in RegisterNames, NEW of, Content(m, of) \in Words
  PROVE  LET p == Executed(m, Instruction("sub", Reg(q), of))
         IN  /\ SetsRegister(m, p, q, Cut(m.reg[q] - Content(m, of)))
             /\ p.compared[1] = m.reg[q] /\ p.compared[2] = Content(m, of)
<1> DEFINE rhs == Content(m, of)
           lhs == m.reg[q]
           o == Written(m, Reg(q), lhs - rhs)
           p == [o EXCEPT !.compared = <<lhs, rhs>>]
<1>1. Executed(m, Instruction("sub", Reg(q), of)) = p
  <2>1. Executed(m, Instruction("sub", Reg(q), of)) = Subtracted(m, Reg(q), Content(m, Reg(q)), rhs)
    BY InstructionExecuted
  <2>2. Content(m, Reg(q)) = lhs
    BY ContentIs
  <2> QED BY <2>1, <2>2 DEF Subtracted
<1>2. lhs \in Words /\ rhs \in Words
  BY MachineParts
<1>3. SetsRegister(m, o, q, Cut(lhs - rhs))
  <2>1. lhs - rhs \in Int
    BY <1>2, WordIs
  <2> DEFINE n == lhs - rhs
  <2> HIDE DEF n
  <2>2. SetsRegister(m, Written(m, Reg(q), n), q, Cut(n))
    BY <2>1, CutIsWord, WrittenRegister DEF n
  <2> QED BY <2>2 DEF n
<1> HIDE DEF lhs, rhs, o
<1>4. SetsRegister(m, p, q, Cut(lhs - rhs)) /\ p.compared[1] = lhs /\ p.compared[2] = rhs
  BY <1>2, <1>3 DEF SetsRegister, Machines
<1> QED BY <1>1, <1>4 DEF lhs, rhs

LEMMA UnaryIs ==
  ASSUME NEW m \in Machines, NEW q \in RegisterNames, NEW of
  PROVE  /\ SetsRegister(m, Executed(m, Instruction("not", Reg(q), of)), q, Cut(-m.reg[q] - 1))
         /\ SetsRegister(m, Executed(m, Instruction("neg", Reg(q), of)), q, Cut(-m.reg[q]))
<1>1. m.reg[q] \in Int /\ Content(m, Reg(q)) = m.reg[q]
  BY MachineParts, ContentIs, WordIs
<1>2. Executed(m, Instruction("not", Reg(q), of)) = Written(m, Reg(q), -m.reg[q] - 1)
  BY <1>1, InstructionExecuted
<1>3. Executed(m, Instruction("neg", Reg(q), of)) = Written(m, Reg(q), -m.reg[q])
  BY <1>1, InstructionExecuted
<1>4. -m.reg[q] - 1 \in Int /\ -m.reg[q] \in Int
  BY <1>1
<1>5. Cut(-m.reg[q] - 1) \in Words /\ Cut(-m.reg[q]) \in Words
  BY <1>4, CutIsWord
<1> QED BY <1>2, <1>3, <1>5, WrittenRegister

LEMMA LeaIs ==
  ASSUME NEW m \in Machines, NEW q \in RegisterNames, NEW of, Address(m, of) \in Words
  PROVE  SetsRegister(m, Executed(m, Instruction("lea", Reg(q), of)), q, Address(m, of))
<1> DEFINE n == Address(m, of)
<1>1. Executed(m, Instruction("lea", Reg(q), of)) = Written(m, Reg(q), n)
  BY InstructionExecuted
<1>2. Cut(n) = n /\ n \in Words
  BY CutOfWord
<1> HIDE DEF n
<1>3. SetsRegister(m, Written(m, Reg(q), n), q, n)
  BY <1>2, WrittenRegister
<1> QED BY <1>1, <1>3 DEF n

(* A register that is 0 but for a condition.                               *)
LEMMA SetIs ==
  ASSUME NEW m \in Machines, NEW q \in RegisterNames, NEW of, NEW op \in SetNames, m.reg[q] = 0
  PROVE  SetsRegister(m, Executed(m, Instruction(op, Reg(q), of)), q,
                      Truth(Holds(Conditions[op], m.compared[1], m.compared[2])))
<1> DEFINE n == Truth(Holds(Conditions[op], m.compared[1], m.compared[2]))
<1>1. n \in {0, 1}
  BY DEF Truth
<1>2. Content(m, Reg(q)) = 0
  BY ContentIs
<1>3. ByteSet(m, 0, Conditions[op]) = (0 - (0 % 256)) + n
  BY DEF ByteSet
<1> HIDE DEF n
<1>4. ByteSet(m, 0, Conditions[op]) = n
  BY <1>1, <1>3
<1>5. Executed(m, Instruction(op, Reg(q), of)) = Written(m, Reg(q), n)
  BY <1>2, <1>4, InstructionExecuted
<1>6. Cut(n) = n /\ n \in Words
  BY <1>1, SmallWords
<1>7. SetsRegister(m, Written(m, Reg(q), n), q, n)
  BY <1>6, WrittenRegister
<1> QED BY <1>5, <1>7 DEF n

(* o is m with rax and rdx set.                                            *)
SetsBoth(m, o, n, k) ==
  /\ o \in Machines /\ o.reg["rax"] = n /\ o.reg["rdx"] = k
  /\ \A p \in RegisterNames \ {"rax", "rdx"} : o.reg[p] = m.reg[p]
  /\ o.mem = m.mem /\ o.went = m.went

LEMMA BothWritten ==
  ASSUME NEW m \in Machines, NEW n \in Words, NEW k \in Words
  PROVE  SetsBoth(m, [m EXCEPT !.reg["rax"] = n, !.reg["rdx"] = k], n, k)
BY MachineParts, NamesAre DEF Machines, SetsBoth

LEMMA MulIs ==
  ASSUME NEW m \in Machines, NEW q \in RegisterNames, NEW of
  PROVE  SetsBoth(m, Executed(m, Instruction("mul", Reg(q), of)), Cut(m.reg["rax"] * m.reg[q]),
                  (m.reg["rax"] * m.reg[q]) \div Word)
<1> DEFINE n == m.reg["rax"] * m.reg[q]
           k == n \div Word
<1>1. m.reg["rax"] \in Words /\ m.reg[q] \in Words /\ Content(m, Reg(q)) = m.reg[q]
  BY MachineParts, ContentIs, NamesAre
<1>2. n \in Nat /\ k \in Words /\ Cut(n) \in Words
  BY <1>1, ProductOfWords, CutIsWord
<1>3. Executed(m, Instruction("mul", Reg(q), of)) = Multiplied(m, m.reg[q])
  BY <1>1, InstructionExecuted
<1>4. Multiplied(m, m.reg[q]) = [m EXCEPT !.reg["rax"] = Cut(n), !.reg["rdx"] = k]
  BY DEF Multiplied
<1> HIDE DEF n, k
<1>5. SetsBoth(m, [m EXCEPT !.reg["rax"] = Cut(n), !.reg["rdx"] = k], Cut(n), k)
  BY <1>2, BothWritten
<1> QED BY <1>3, <1>4, <1>5 DEF n, k

LEMMA DivIs ==
  ASSUME NEW m \in Machines, NEW to, NEW of, Content(m, to) \in Words, Content(m, to) # 0, m.reg["rdx"] = 0
  PROVE  SetsBoth(m, Executed(m, Instruction("div", to, of)), m.reg["rax"] \div Content(m, to),
                  m.reg["rax"] % Content(m, to))
<1> DEFINE n == m.reg["rax"]
           d == Content(m, to)
<1>1. n \in Words /\ d \in Words /\ d # 0
  BY MachineParts, NamesAre
<1>2. n \div d \in Words /\ (n % d) \in Words /\ Cut(n \div d) = n \div d
  BY <1>1, QuotientOfWords, CutOfWord
<1>3. (m.reg["rdx"] * Word) + m.reg["rax"] = n
  BY <1>1, WordIs
<1>4. Executed(m, Instruction("div", to, of)) = Divided(m, d)
  BY InstructionExecuted
<1> HIDE DEF n, d
<1>5. Divided(m, d) = [m EXCEPT !.reg["rax"] = n \div d, !.reg["rdx"] = n % d]
  BY <1>2, <1>3 DEF Divided
<1>6. SetsBoth(m, [m EXCEPT !.reg["rax"] = n \div d, !.reg["rdx"] = n % d], n \div d, n % d)
  BY <1>2, BothWritten
<1> QED BY <1>4, <1>5, <1>6 DEF n, d

(* p is m with another place to go on at.                                  *)
Jumps(m, p, where) ==
  /\ p \in Machines /\ p.reg = m.reg /\ p.mem = m.mem /\ p.compared = m.compared /\ p.went = where

LEMMA JumpedIs ==
  ASSUME NEW m \in Machines, NEW to, NEW of
  PROVE  /\ Jumps(m, Executed(m, Instruction("jmp_then", to, of)), "then")
         /\ Jumps(m, Executed(m, Instruction("jmp_else", to, of)), IF m.went = "then" THEN m.went ELSE "else")
         /\ Jumps(m, Executed(m, Instruction("jne_then", to, of)),
                  IF m.compared[1] # m.compared[2] THEN "then" ELSE m.went)
         /\ Jumps(m, Executed(m, Instruction("ret", to, of)), "returned")
<1>1. \A w \in Ways : Jumps(m, Jumped(m, w), w)
  BY MachineParts DEF Jumped, Machines, Jumps
<1>2. {"then", "else", "returned", m.went} \subseteq Ways
  BY MachineParts DEF Ways
<1>3. Executed(m, Instruction("jmp_then", to, of)) = Jumped(m, "then")
  BY InstructionExecuted
<1>4. Executed(m, Instruction("jmp_else", to, of)) = Jumped(m, IF m.went = "then" THEN m.went ELSE "else")
  BY InstructionExecuted
<1>5. Executed(m, Instruction("jne_then", to, of)) =
        Jumped(m, IF m.compared[1] # m.compared[2] THEN "then" ELSE m.went)
  BY InstructionExecuted
<1>6. Executed(m, Instruction("ret", to, of)) = Jumped(m, "returned")
  BY InstructionExecuted
<1> QED BY <1>1, <1>2, <1>3, <1>4, <1>5, <1>6

(***************************************************************************)
(* The other steps.                                                        *)
(***************************************************************************)
HeldBut(e, f, n) == \A k \in Nodes \ {n} : f.held[k] = e.held[k]

LEMMA OccupyRegTaken ==
  ASSUME Housed, NEW b, NEW e, NEW m, NEW U, NEW D, Doing(b, e, m, U, D), NEW r \in Scratch
  PROVE  LET f == Take(e, OccupyReg("v", r))
         IN  /\ Doing(b, f, m, U, D) /\ HeldBut(e, f, "v")
             /\ f.held["v"] = (IF Spilled("v") THEN r ELSE home["v"])
<1> DEFINE f == Take(e, OccupyReg("v", r))
           h == Set(e.held, "v", r)
<1>1. e = [text |-> e.text, held |-> e.held] /\ Holding(e.held)
  BY DEF Doing
<1>2. "v" \in Nodes /\ (Loose("v") <=> Spilled("v"))
  BY NamesDiffer DEF Loose
<1>3. CASE Spilled("v")
  <2>1. f = [text |-> e.text, held |-> h]
    BY <1>1, <1>3, OccupyRegIs
  <2>2. Holding(h) /\ h["v"] = r /\ \A k \in Nodes \ {"v"} : h[k] = e.held[k]
    BY <1>1, <1>2, <1>3, HoldingSet DEF Set
  <2> HIDE DEF h
  <2>3. f.text = e.text /\ f.held = h /\ f = [text |-> f.text, held |-> f.held]
    BY <2>1
  <2> HIDE DEF f
  <2>4. Doing(b, f, m, U, D) /\ HeldBut(e, f, "v") /\ f.held["v"] = r
    BY <2>2, <2>3 DEF Doing, HeldBut
  <2> QED BY <1>3, <2>4 DEF f
<1>4. CASE ~Spilled("v")
  <2>1. f = e
    BY <1>1, <1>4, OccupyRegIs
  <2>2. e.held["v"] = home["v"]
    BY <1>1, <1>2, <1>4, HeldIs
  <2> HIDE DEF f
  <2>3. Doing(b, f, m, U, D) /\ HeldBut(e, f, "v") /\ f.held["v"] = home["v"]
    BY <2>1, <2>2 DEF HeldBut
  <2> QED BY <1>4, <2>3 DEF f
<1> QED BY <1>3, <1>4

LEMMA FreeRegTaken ==
  ASSUME Housed, NEW b, NEW e, NEW m, NEW U, NEW D, Doing(b, e, m, U, D), NEW n \in Nodes
  PROVE  LET f == Take(e, FreeReg(n))
         IN  /\ Doing(b, f, m, U, D) /\ HeldBut(e, f, n) /\ f.text = e.text
             /\ Loose(n) => f.held[n] = NoName
<1> DEFINE f == Take(e, FreeReg(n))
           h == Set(e.held, n, NoName)
<1>1. e = [text |-> e.text, held |-> e.held] /\ Holding(e.held)
  BY DEF Doing
<1>2. CASE Loose(n)
  <2>1. f = [text |-> e.text, held |-> h]
    BY <1>1, <1>2, FreeRegIs
  <2>2. Holding(h) /\ h[n] = NoName /\ \A k \in Nodes \ {n} : h[k] = e.held[k]
    BY <1>1, <1>2, HoldingSet DEF Set
  <2> HIDE DEF h
  <2>3. f.text = e.text /\ f.held = h /\ f = [text |-> f.text, held |-> f.held]
    BY <2>1
  <2> HIDE DEF f
  <2>4. Doing(b, f, m, U, D) /\ HeldBut(e, f, n) /\ f.held[n] = NoName
    BY <2>2, <2>3 DEF Doing, HeldBut
  <2> QED BY <2>3, <2>4 DEF f
<1>3. CASE ~Loose(n)
  <2>1. f = e
    BY <1>1, <1>3, FreeRegIs
  <2> HIDE DEF f
  <2>2. Doing(b, f, m, U, D) /\ HeldBut(e, f, n) /\ f.text = e.text
    BY <2>1 DEF HeldBut
  <2> QED BY <1>3, <2>2 DEF f
<1> QED BY <1>2, <1>3

(* Where v is to be found may be written.                                  *)
Taking(U, D) == IF Spilled("v") THEN Cell("v") \in D ELSE home["v"] \in U

(* The value in the register v is held in comes to where v lives.          *)
LEMMA FromRegTaken ==
  ASSUME Housed, NEW b, NEW e, NEW m, NEW U, NEW D, Fit(b, U, D), Taking(U, D), Doing(b, e, m, U, D),
         e.held["v"] \in RegisterNames
  PROVE  LET f == Take(e, FromReg("v"))
             p == Run(b, f.text)
         IN  /\ Doing(b, f, p, U, D) /\ HeldBut(e, f, "v")
             /\ p.reg = m.reg /\ p.went = m.went
             /\ ContentOf(p, "v") = m.reg[e.held["v"]]
<1> DEFINE f == Take(e, FromReg("v"))
           p == Run(b, f.text)
           q == e.held["v"]
<1>1. /\ e = [text |-> e.text, held |-> e.held] /\ Holding(e.held) /\ m \in Machines
      /\ m = Run(b, e.text) /\ Spares(b, m, U, D)
  BY DEF Doing
<1>2. "v" \in Nodes /\ "v" \in Values /\ (Loose("v") <=> Spilled("v"))
  BY NamesDiffer DEF Loose
<1>3. m.reg["rbp"] = 2040
  BY <1>1, LeftAlone
<1>4. CASE ~Spilled("v")
  <2>1. f = e
    BY <1>1, <1>2, <1>4, FromRegIs
  <2>2. q = home["v"] /\ home["v"] # NoName
    BY <1>1, <1>2, <1>4, HeldIs, NamesDiffer, NamesAre
  <2>3. ContentOf(m, "v") = m.reg[q]
    BY <1>1, <1>2, <1>3, <2>2, ContentOfIs
  <2>4. p = m
    BY <1>1, <2>1
  <2> HIDE DEF f, p, q
  <2>5. Doing(b, f, p, U, D) /\ HeldBut(e, f, "v") /\ p.reg = m.reg /\ p.went = m.went
        /\ ContentOf(p, "v") = m.reg[q]
    BY <2>1, <2>3, <2>4 DEF HeldBut
  <2> QED BY <2>5 DEF f, p, q
<1>5. CASE Spilled("v")
  <2> DEFINE i == Move(Stored("v"), Reg(q))
             h == Set(e.held, "v", NoName)
             o == Executed(m, i)
             a == Cell("v")
  <2>1. f = [text |-> Append(e.text, i), held |-> h]
    BY <1>1, <1>5, FromRegIs
  <2>2. Holding(h) /\ \A k \in Nodes \ {"v"} : h[k] = e.held[k]
    BY <1>1, <1>2, <1>5, HoldingSet DEF Set
  <2>3. a \in Cells /\ a \in D
    BY <1>2, <1>5, FrameCells DEF Taking
  <2>4. Stored("v") = At("rbp", a - 2040) /\ Address(m, Stored("v")) = a /\ IsMemory(Stored("v"))
    BY <1>1, <1>2, <1>3, <1>5, StoredIs, InFrame, OperandKinds
  <2>5. Content(m, Reg(q)) = m.reg[q] /\ m.reg[q] \in Words
    BY <1>1, MachineParts, ContentIs
  <2>6. SetsCell(m, o, a, m.reg[q])
    BY <1>1, <2>3, <2>4, <2>5, MovedToCell
  <2>7. Encodable(i)
    BY <2>4, OperandKinds, EncodableMove DEF Move
  <2> HIDE DEF i, h, o
  <2>8. o \in Machines /\ Spares(m, o, U, D)
    BY <2>3, <2>6, CellSpares DEF SetsCell
  <2>9. Doing(b, f, o, U, D)
    BY <2>1, <2>2, <2>7, <2>8, GoesOn DEF o
  <2>10. f.held = h
    BY <2>1
  <2> HIDE DEF f
  <2>11. p = o
    BY <2>9 DEF Doing
  <2> HIDE DEF p, q
  <2>12. o.reg = m.reg /\ o.went = m.went /\ o.mem[a] = m.reg[q]
    BY <2>6 DEF SetsCell
  <2>13. ContentOf(o, "v") = m.reg[q]
    BY <1>2, <1>3, <1>5, <2>8, <2>12, ContentOfIs DEF a
  <2>14. /\ Doing(b, f, p, U, D) /\ HeldBut(e, f, "v") /\ p.reg = m.reg /\ p.went = m.went
         /\ ContentOf(p, "v") = m.reg[q]
    BY <2>2, <2>9, <2>10, <2>11, <2>12, <2>13 DEF HeldBut
  <2> QED BY <2>14 DEF f, p, q
<1> QED BY <1>4, <1>5

LEMMA WriteTaken ==
  ASSUME Housed, NEW b, NEW e, NEW m, NEW U, NEW D, Doing(b, e, m, U, D),
         NEW op, NEW to, NEW of, NEW i, i = Instruction(op, Resolved(e.held, to), Resolved(e.held, of)),
         Encodable(i), Executed(m, i) \in Machines, Spares(m, Executed(m, i), U, D)
  PROVE  LET f == Take(e, Write(op, to, of))
         IN  /\ Doing(b, f, Executed(m, i), U, D) /\ f.held = e.held
             /\ Run(b, f.text) = Executed(m, i)
<1> DEFINE f == Take(e, Write(op, to, of))
           p == Executed(m, i)
<1>1. e = [text |-> e.text, held |-> e.held] /\ Holding(e.held)
  BY DEF Doing
<1>2. f = [text |-> Append(e.text, i), held |-> e.held]
  BY <1>1, WriteIs
<1>3. f.held = e.held
  BY <1>2
<1> HIDE DEF f
<1>4. Doing(b, f, p, U, D)
  BY <1>1, <1>2, GoesOn DEF p
<1>5. Run(b, f.text) = p
  BY <1>4 DEF Doing
<1> QED BY <1>3, <1>4, <1>5 DEF f, p

(* A register is written.                                                  *)
LEMMA RegisterTaken ==
  ASSUME Housed, NEW b, NEW e, NEW m, NEW U, NEW D, Doing(b, e, m, U, D),
         NEW op, NEW to, NEW of, NEW i, i = Instruction(op, Resolved(e.held, to), Resolved(e.held, of)),
         Encodable(i), NEW q \in U, NEW n, SetsRegister(m, Executed(m, i), q, n)
  PROVE  LET f == Take(e, Write(op, to, of))
             p == Run(b, f.text)
         IN  /\ Doing(b, f, p, U, D) /\ f.held = e.held
             /\ SetsRegister(m, p, q, n) /\ p = Executed(m, i)
<1>1. Executed(m, i) \in Machines /\ Spares(m, Executed(m, i), U, D)
  BY RegisterSpares DEF SetsRegister
<1> QED BY <1>1, WriteTaken

LEMMA ResolvedIs ==
  ASSUME NEW h
  PROVE  /\ \A q \in RegisterNames : Resolved(h, Reg(q)) = Reg(q)
         /\ \A n \in Nodes : Resolved(h, Reg(n)) = Reg(h[n])
         /\ \A n \in Nodes : Resolved(h, V(n)) = Printed(h, n)
         /\ \A k : Resolved(h, Number(k)) = Number(k)
         /\ Resolved(h, Nothing) = Nothing
         /\ \A q \in RegisterNames : \A k : Resolved(h, At(q, k)) = At(q, k)
         /\ \A n \in Nodes : \A k : Resolved(h, At(n, k)) = At(h[n], k)
         /\ \A n, j \in Nodes : \A s, k : Resolved(h, Indexed(n, j, s, k)) = Indexed(h[n], h[j], s, k)
         /\ \A n \in Nodes : \A q \in RegisterNames : \A s, k : Resolved(h, Indexed(n, q, s, k)) = Indexed(h[n], q, s, k)
<1>1. /\ \A q \in RegisterNames : Named(h, q) = q
      /\ \A n \in Nodes : Named(h, n) = h[n]
      /\ Named(h, NoName) = NoName
  BY NamesDiffer DEF Named
<1> DEFINE N(x) == Named(h, x)
<1>2. ASSUME NEW o, NEW in, NEW name, NEW index, NEW scale, NEW at, in # "node",
             o = [in |-> in, name |-> name, index |-> index, scale |-> scale, at |-> at]
      PROVE  Resolved(h, o) = [in |-> in, name |-> N(name), index |-> N(index), scale |-> scale, at |-> at]
  <2>1. o.in = in
    BY <1>2
  <2>2. Resolved(h, o) = [o EXCEPT !.name = N(@), !.index = N(@)]
    BY <1>2, <2>1 DEF Resolved
  <2> QED BY <1>2, <2>2
<1>3. /\ \A n : N(n) = Named(h, n)
      /\ N(NoName) = NoName
  BY <1>1
<1> HIDE DEF N
<1>4. \A q \in RegisterNames : Resolved(h, Reg(q)) = Reg(q)
  BY <1>1, <1>2, <1>3 DEF Reg
<1>5. \A n \in Nodes : Resolved(h, Reg(n)) = Reg(h[n])
  BY <1>1, <1>2, <1>3 DEF Reg
<1>6. \A n \in Nodes : Resolved(h, V(n)) = Printed(h, n)
  BY DEF V, Resolved
<1>7. \A k : Resolved(h, Number(k)) = Number(k)
  BY <1>2, <1>3 DEF Number
<1>8. \A q \in RegisterNames : \A k : Resolved(h, At(q, k)) = At(q, k)
  BY <1>1, <1>2, <1>3 DEF At, Indexed
<1>9. \A n \in Nodes : \A k : Resolved(h, At(n, k)) = At(h[n], k)
  BY <1>1, <1>2, <1>3 DEF At, Indexed
<1>10. \A n, j \in Nodes : \A s, k : Resolved(h, Indexed(n, j, s, k)) = Indexed(h[n], h[j], s, k)
  BY <1>1, <1>2, <1>3 DEF Indexed
<1>11. \A n \in Nodes : \A q \in RegisterNames : \A s, k :
         Resolved(h, Indexed(n, q, s, k)) = Indexed(h[n], q, s, k)
  BY <1>1, <1>2, <1>3 DEF Indexed
<1>12. Resolved(h, Nothing) = Nothing
  BY <1>7 DEF Nothing
<1> QED BY <1>4, <1>5, <1>6, <1>7, <1>8, <1>9, <1>10, <1>11, <1>12

(***************************************************************************)
(* The instructions, kind by kind.                                         *)
(***************************************************************************)
LEMMA PrintedAtHome ==
  ASSUME Housed, NEW m \in Machines, m.reg["rbp"] = 2040, NEW h, Holding(h), NEW n \in Nodes,
         Loose(n) => h[n] = NoName
  PROVE  /\ Content(m, Printed(h, n)) = ContentOf(m, n) /\ ContentOf(m, n) \in Words
         /\ \/ IsRegister(Printed(h, n)) /\ Printed(h, n) = Reg(home[n]) /\ ~Loose(n)
            \/ IsMemory(Printed(h, n)) /\ Address(m, Printed(h, n)) = Cell(n) /\ Spilled(n)
            \/ Printed(h, n).in = "number" /\ n \in {"c", "f"}
         /\ n = "c" => Printed(h, n) = Number(number)
<1>1. number \in Words /\ Cut(number) = number /\ Cut(Function) = Function
      /\ number \in Int /\ Function \in Int
  BY SmallWords, CutOfWord, WordIs DEF Housed, Function
<1>2. ContentOf(m, n) \in Words
  BY ContentOfIs
<1>3. CASE ~Loose(n)
  <2>1. h[n] = home[n] /\ home[n] \in RegisterNames /\ home[n] # NoName /\ n \in Values
    BY <1>3, HeldIs, NamesDiffer, NamesAre
  <2>2. Printed(h, n) = Reg(home[n]) /\ ContentOf(m, n) = m.reg[home[n]]
    BY <2>1, PrintedIs, ContentOfIs
  <2>3. n # "c"
    BY <2>1, NamesDiffer
  <2> QED BY <1>2, <1>3, <2>1, <2>2, <2>3, ContentIs, OperandKinds
<1>4. CASE Spilled(n)
  <2>1. h[n] = NoName /\ n # "c"
    BY <1>4, Rooms DEF Loose
  <2>2. Printed(h, n) = At("rbp", Cell(n) - 2040)
    BY <1>4, <2>1, PrintedIs
  <2> QED BY <1>2, <1>4, <2>1, <2>2, InFrame, ContentOfIs, OperandKinds
<1>5. CASE n \in {"c", "f"}
  <2>1. h[n] = NoName
    BY <1>5 DEF Loose
  <2> QED BY <1>1, <1>2, <1>5, <2>1, PrintedIs, ContentIs, ContentOfIs, OperandKinds
<1> QED BY <1>3, <1>4, <1>5 DEF Loose

LEMMA Free ==
  ASSUME Housed, NEW b, NEW U, NEW D, Fit(b, U, D), Taking(U, D), NEW r \in Scratch
  PROVE  LET q == IF Spilled("v") THEN r ELSE home["v"]
         IN  q \in U /\ q \in RegisterNames /\ q # NoName
BY Rooms, NamesDiffer, NamesAre DEF Fit, Taking

(* What a text does: it is legal, and brings b to p.                       *)
Brings(b, t, p, U, D) == Legal(b, t) /\ p = Run(b, t) /\ p \in Machines /\ Spares(b, p, U, D)

LEMMA BinaryRuns ==
  ASSUME Housed, NEW b, NEW U, NEW D, Fit(b, U, D), Taking(U, D),
         NEW op \in {"and", "or", "xor", "add", "sub", "shl", "shr"},
         NEW l \in {"x", "y", "c"}, NEW r \in {"x", "y", "c"},
         op \in {"shl", "shr"} => r = "c" /\ ContentOf(b, r) < Width
  PROVE  \E p : /\ Brings(b, Text(Binary(op, l, r)), p, U, D)
                /\ ContentOf(p, "v") = Cut(Alu(op, ContentOf(b, l), ContentOf(b, r)))
<1> DEFINE s == Binary(op, l, r)
           e(k) == Writing(s)[k]
           m(k) == Run(b, e(k).text)
           q == IF Spilled("v") THEN "rax" ELSE home["v"]
<1>1. Len(s) = 4 /\ s[1] = OccupyReg("v", "rax") /\ s[2] = Write("mov", V("v"), V(l))
      /\ s[3] = Write(op, V("v"), V(r)) /\ s[4] = FromReg("v")
  BY DEF Binary
<1> HIDE DEF s
<1>2. /\ e(0) = Blank /\ e(1) = Take(e(0), OccupyReg("v", "rax"))
      /\ e(2) = Take(e(1), Write("mov", V("v"), V(l)))
      /\ e(3) = Take(e(2), Write(op, V("v"), V(r))) /\ e(4) = Take(e(3), FromReg("v"))
      /\ Text(s) = e(4).text
  BY <1>1, WritingSteps DEF Text
<1> HIDE DEF e
<1>3. b \in Machines /\ q \in U /\ q \in RegisterNames /\ q # NoName
      /\ l \in Nodes \ {"v"} /\ r \in Nodes \ {"v"} /\ "v" \in Nodes
  BY Free, NamesDiffer, NamesAre DEF Fit
<1> HIDE DEF q
<1>4. Doing(b, e(0), b, U, D) /\ \A n \in Nodes : Loose(n) => e(0).held[n] = NoName
  BY <1>2, <1>3, Begun
<1>5. Doing(b, e(1), b, U, D) /\ HeldBut(e(0), e(1), "v") /\ e(1).held["v"] = q
  <2>1. "rax" \in Scratch
    BY NamesAre
  <2> QED BY <1>2, <1>4, <2>1, OccupyRegTaken DEF q
<1>6. Doing(b, e(2), m(2), U, D) /\ e(2).held = e(1).held /\ m(2).reg[q] = ContentOf(b, l)
  <2> DEFINE i == Instruction("mov", Reg(q), Printed(e(1).held, l))
  <2>1. /\ Content(b, Printed(e(1).held, l)) = ContentOf(b, l) /\ ContentOf(b, l) \in Words
        /\ Encodable(i)
    <3>1. Holding(e(1).held) /\ (Loose(l) => e(1).held[l] = NoName) /\ b.reg["rbp"] = 2040
      BY <1>3, <1>4, <1>5 DEF Doing, HeldBut, Fit
    <3> QED BY <1>3, <3>1, PrintedAtHome, OperandKinds, EncodableMove
  <2>2. i = Instruction("mov", Resolved(e(1).held, V("v")), Resolved(e(1).held, V(l)))
    BY <1>3, <1>5, ResolvedIs, PrintedIs
  <2>3. SetsRegister(b, Executed(b, i), q, ContentOf(b, l))
    BY <1>3, <2>1, MovedToRegister DEF Move
  <2> HIDE DEF i
  <2> QED BY <1>2, <1>3, <1>5, <2>1, <2>2, <2>3, RegisterTaken DEF SetsRegister
<1>7. Doing(b, e(3), m(3), U, D) /\ e(3).held = e(2).held
      /\ m(3).reg[q] = Cut(Alu(op, ContentOf(b, l), ContentOf(b, r)))
  <2> DEFINE of == Printed(e(2).held, r)
             i == Instruction(op, Reg(q), of)
  <2>1. m(2) \in Machines /\ m(2).reg["rbp"] = 2040 /\ ContentOf(m(2), r) = ContentOf(b, r)
    BY <1>3, <1>6, LeftAlone DEF Doing
  <2>2. /\ Content(m(2), of) = ContentOf(b, r) /\ ContentOf(b, r) \in Words
        /\ Encodable(i)
    <3>1. Holding(e(2).held) /\ (Loose(r) => e(2).held[r] = NoName)
      BY <1>3, <1>4, <1>5, <1>6 DEF Doing, HeldBut
    <3>2. CASE op \in {"and", "or", "xor", "add", "sub"}
      BY <1>3, <2>1, <3>1, <3>2, PrintedAtHome, OperandKinds, EncodableMove
    <3>3. CASE op \in {"shl", "shr"}
      <4>1. of.in = "number" /\ IsRegister(Reg(q))
        BY <1>3, <2>1, <3>1, <3>3, PrintedAtHome, OperandKinds, OperandParts DEF Housed, Number
      <4>2. i.op = op /\ i.to = Reg(q) /\ i.of = of
        BY InstructionParts
      <4> HIDE DEF i
      <4>3. Encodable(i)
        BY <3>3, <4>1, <4>2 DEF Encodable
      <4> QED BY <1>3, <2>1, <3>1, <4>3, PrintedAtHome DEF i
    <3> QED BY <3>2, <3>3
  <2>3. i = Instruction(op, Resolved(e(2).held, V("v")), Resolved(e(2).held, V(r)))
    BY <1>3, <1>5, <1>6, ResolvedIs, PrintedIs
  <2>4. SetsRegister(m(2), Executed(m(2), i), q, Cut(Alu(op, m(2).reg[q], ContentOf(b, r))))
    <3>1. CASE op = "sub"
      <4>1. Alu("sub", m(2).reg[q], ContentOf(b, r)) = m(2).reg[q] - ContentOf(b, r)
        BY DEF Alu
      <4> HIDE DEF of
      <4> QED BY <1>3, <2>1, <2>2, <3>1, <4>1, SubtractedIs
    <3>2. CASE op \in {"and", "or", "xor", "add", "shl", "shr"}
      <4> HIDE DEF of
      <4> QED BY <1>3, <2>1, <2>2, <3>2, AluWritten
    <3> QED BY <3>1, <3>2
  <2> HIDE DEF i
  <2> QED BY <1>2, <1>3, <1>6, <2>2, <2>3, <2>4, RegisterTaken DEF SetsRegister
<1>8. Doing(b, e(4), m(4), U, D) /\ ContentOf(m(4), "v") = m(3).reg[q]
  BY <1>2, <1>3, <1>5, <1>6, <1>7, FromRegTaken
<1>9. Brings(b, Text(s), m(4), U, D)
  BY <1>2, <1>8 DEF Doing, Brings
<1> QED BY <1>7, <1>8, <1>9 DEF s

(* Moves between registers, to and from nodes.                             *)
LEMMA MovTaken ==
  ASSUME Housed, NEW b, NEW e, NEW m, NEW U, NEW D, Doing(b, e, m, U, D),
         NEW to, NEW of, NEW q \in RegisterNames, q \in U, Resolved(e.held, to) = Reg(q),
         NEW o, Resolved(e.held, of) = o, IsRegister(o) \/ IsMemory(o) \/ o.in = "number",
         NEW n \in Words, Content(m, o) = n
  PROVE  LET f == Take(e, Write("mov", to, of))
             p == Run(b, f.text)
         IN  Doing(b, f, p, U, D) /\ f.held = e.held /\ SetsRegister(m, p, q, n)
<1> DEFINE i == Instruction("mov", Reg(q), o)
<1>1. Encodable(i) /\ m \in Machines
  BY OperandKinds, EncodableMove DEF Doing
<1>2. SetsRegister(m, Executed(m, i), q, n)
  BY <1>1, MovedToRegister DEF Move
<1>3. i = Instruction("mov", Resolved(e.held, to), Resolved(e.held, of))
  OBVIOUS
<1> HIDE DEF i
<1>4. Executed(m, i) \in Machines /\ Spares(m, Executed(m, i), U, D)
  BY <1>2, RegisterSpares DEF SetsRegister
<1> QED BY <1>1, <1>2, <1>3, <1>4, WriteTaken

LEMMA RegMovTaken ==
  ASSUME Housed, NEW b, NEW e, NEW m, NEW U, NEW D, Doing(b, e, m, U, D),
         NEW to, NEW of, NEW q \in RegisterNames, q \in U, Resolved(e.held, to) = Reg(q),
         NEW g \in RegisterNames, Resolved(e.held, of) = Reg(g)
  PROVE  LET f == Take(e, Write("mov", to, of))
             p == Run(b, f.text)
         IN  Doing(b, f, p, U, D) /\ f.held = e.held /\ SetsRegister(m, p, q, m.reg[g])
<1>1. m \in Machines /\ IsRegister(Reg(g))
  BY OperandKinds DEF Doing
<1>2. Content(m, Reg(g)) = m.reg[g] /\ m.reg[g] \in Words
  BY <1>1, MachineParts, ContentIs
<1> QED BY <1>1, <1>2, MovTaken

LEMMA NodeMovTaken ==
  ASSUME Housed, NEW b, NEW e, NEW m, NEW U, NEW D, Fit(b, U, D), Doing(b, e, m, U, D),
         NEW to, NEW n \in Nodes \ {"v"}, Loose(n) => e.held[n] = NoName,
         NEW q \in RegisterNames, q \in U, Resolved(e.held, to) = Reg(q)
  PROVE  LET f == Take(e, Write("mov", to, V(n)))
             p == Run(b, f.text)
         IN  Doing(b, f, p, U, D) /\ f.held = e.held /\ SetsRegister(m, p, q, ContentOf(b, n))
<1> DEFINE o == Printed(e.held, n)
<1>1. m \in Machines /\ m.reg["rbp"] = 2040 /\ ContentOf(m, n) = ContentOf(b, n) /\ Holding(e.held)
  BY LeftAlone DEF Doing
<1>2. /\ Content(m, o) = ContentOf(b, n) /\ ContentOf(b, n) \in Words
      /\ IsRegister(o) \/ IsMemory(o) \/ o.in = "number"
  BY <1>1, PrintedAtHome
<1>3. Resolved(e.held, V(n)) = o
  BY ResolvedIs
<1> HIDE DEF o
<1> QED BY <1>2, <1>3, MovTaken

LEMMA ClearTaken ==
  ASSUME Housed, NEW b, NEW e, NEW m, NEW U, NEW D, Doing(b, e, m, U, D),
         NEW q \in RegisterNames, q \in U
  PROVE  LET f == Take(e, Write("xor", Reg(q), Reg(q)))
             p == Run(b, f.text)
         IN  Doing(b, f, p, U, D) /\ f.held = e.held /\ SetsRegister(m, p, q, 0)
<1> DEFINE i == Instruction("xor", Reg(q), Reg(q))
<1>1. Encodable(i) /\ m \in Machines
  BY OperandKinds, EncodableMove DEF Doing
<1>2. Content(m, Reg(q)) = m.reg[q] /\ m.reg[q] \in Words /\ m.reg[q] \in Int
  BY <1>1, MachineParts, ContentIs, WordIs
<1>3. Alu("xor", m.reg[q], m.reg[q]) = 0 /\ Cut(0) = 0
  <2>1. Cut(0) = 0
    BY SmallWords
  <2>2. Alu("xor", m.reg[q], m.reg[q]) = LowBits("xor", m.reg[q], m.reg[q])[Width]
    BY <1>2, AluIs
  <2> QED BY <1>2, <2>1, <2>2, XorWithItself
<1>4. SetsRegister(m, Executed(m, i), q, 0)
  BY <1>1, <1>2, <1>3, AluWritten
<1>5. i = Instruction("xor", Resolved(e.held, Reg(q)), Resolved(e.held, Reg(q)))
  BY ResolvedIs
<1> HIDE DEF i
<1>6. Executed(m, i) \in Machines /\ Spares(m, Executed(m, i), U, D)
  BY <1>4, RegisterSpares DEF SetsRegister
<1> QED BY <1>1, <1>4, <1>5, <1>6, WriteTaken

LEMMA SetTaken ==
  ASSUME Housed, NEW b, NEW e, NEW m, NEW U, NEW D, Doing(b, e, m, U, D),
         NEW q \in RegisterNames, q \in U, m.reg[q] = 0, NEW op \in SetNames
  PROVE  LET f == Take(e, WriteOne(op, Reg(q)))
             p == Run(b, f.text)
         IN  /\ Doing(b, f, p, U, D) /\ f.held = e.held
             /\ SetsRegister(m, p, q, Truth(Holds(Conditions[op], m.compared[1], m.compared[2])))
<1> DEFINE i == Instruction(op, Reg(q), Nothing)
<1>1. m \in Machines
  BY DEF Doing
<1>2. Encodable(i)
  BY InstructionParts, SetNamesAre DEF Encodable
<1>3. SetsRegister(m, Executed(m, i), q, Truth(Holds(Conditions[op], m.compared[1], m.compared[2])))
  BY <1>1, SetIs
<1>4. i = Instruction(op, Resolved(e.held, Reg(q)), Resolved(e.held, Nothing))
  BY ResolvedIs
<1> HIDE DEF i
<1>5. Executed(m, i) \in Machines /\ Spares(m, Executed(m, i), U, D)
  BY <1>3, RegisterSpares DEF SetsRegister
<1> QED BY <1>2, <1>3, <1>4, <1>5, WriteTaken DEF WriteOne

(* A comparison changes neither registers nor memory.                      *)
LEMMA CmpTaken ==
  ASSUME Housed, NEW b, NEW e, NEW m, NEW U, NEW D, Doing(b, e, m, U, D), NEW to, NEW of,
         NEW g, Resolved(e.held, to) = g, NEW o, Resolved(e.held, of) = o,
         \/ IsRegister(g) /\ (IsRegister(o) \/ IsMemory(o) \/ o.in = "number")
         \/ IsMemory(g) /\ (IsRegister(o) \/ o.in = "number"),
         Content(m, g) \in Words, Content(m, o) \in Words
  PROVE  LET f == Take(e, Write("cmp", to, of))
             p == Run(b, f.text)
         IN  Doing(b, f, p, U, D) /\ f.held = e.held /\ ComparesTo(m, p, Content(m, g), Content(m, o))
<1> DEFINE i == Instruction("cmp", g, o)
<1>1. m \in Machines /\ Encodable(i)
  BY EncodableMove DEF Doing
<1>2. ComparesTo(m, Executed(m, i), Content(m, g), Content(m, o))
  BY <1>1, ComparedIs
<1>3. i = Instruction("cmp", Resolved(e.held, to), Resolved(e.held, of))
  OBVIOUS
<1> HIDE DEF i
<1>4. Executed(m, i) \in Machines /\ Spares(m, Executed(m, i), U, D)
  BY <1>2 DEF ComparesTo, Spares
<1> QED BY <1>1, <1>2, <1>3, <1>4, WriteTaken

LEMMA LoadRaxTaken ==
  ASSUME Housed, NEW b, NEW e, NEW m, NEW U, NEW D, Fit(b, U, D), Doing(b, e, m, U, D),
         NEW n \in Nodes, e.held[n] \in RegisterNames
  PROVE  LET f == Take(e, LoadRax(n))
             p == Run(b, f.text)
         IN  /\ Doing(b, f, p, U, D) /\ f.held = e.held
             /\ p.reg["rax"] = m.reg[e.held[n]]
             /\ \A q \in RegisterNames \ {"rax"} : p.reg[q] = m.reg[q]
             /\ p.mem = m.mem /\ p.went = m.went
<1> DEFINE f == Take(e, LoadRax(n))
           p == Run(b, f.text)
           g == e.held[n]
<1>1. /\ e = [text |-> e.text, held |-> e.held] /\ Holding(e.held) /\ m \in Machines
      /\ m = Run(b, e.text) /\ g # NoName
  BY NamesDiffer DEF Doing
<1>2. CASE g = "rax"
  <2>1. f = e /\ p = m
    BY <1>1, <1>2, LoadRaxIs
  <2> QED BY <1>2, <2>1
<1>3. CASE g # "rax"
  <2> DEFINE i == Move(Reg("rax"), Printed(e.held, n))
             o == Executed(m, i)
  <2>1. f = [text |-> Append(e.text, i), held |-> e.held]
    BY <1>1, <1>3, LoadRaxIs
  <2>2. Printed(e.held, n) = Reg(g) /\ "rax" \in RegisterNames /\ "rax" \in U
    BY <1>1, PrintedIs, NamesAre DEF Fit
  <2>3. Content(m, Reg(g)) = m.reg[g] /\ m.reg[g] \in Words
    BY <1>1, MachineParts, ContentIs
  <2>4. SetsRegister(m, o, "rax", m.reg[g])
    BY <1>1, <2>2, <2>3, MovedToRegister
  <2>5. Encodable(i)
    BY <2>2, OperandKinds, EncodableMove DEF Move
  <2> HIDE DEF i, o
  <2>6. o \in Machines /\ Spares(m, o, U, D)
    BY <2>2, <2>4, RegisterSpares DEF SetsRegister
  <2>7. Doing(b, f, o, U, D)
    BY <1>1, <2>1, <2>5, <2>6, GoesOn DEF o
  <2>8. f.held = e.held
    BY <2>1
  <2> HIDE DEF f, g
  <2>9. p = o
    BY <2>7 DEF Doing
  <2> HIDE DEF p
  <2>10. /\ Doing(b, f, p, U, D) /\ f.held = e.held /\ p.reg["rax"] = m.reg[g]
         /\ \A q \in RegisterNames \ {"rax"} : p.reg[q] = m.reg[q]
         /\ p.mem = m.mem /\ p.went = m.went
    BY <2>4, <2>7, <2>8, <2>9 DEF SetsRegister
  <2> QED BY <2>10 DEF f, p, g
<1> QED BY <1>2, <1>3

(* v, which no register is put in for, is moved to where it lives.         *)
LEMMA ValueMovTaken ==
  ASSUME Housed, NEW b, NEW e, NEW m, NEW U, NEW D, Fit(b, U, D), Taking(U, D), Doing(b, e, m, U, D),
         Loose("v") => e.held["v"] = NoName,
         NEW of, NEW o, Resolved(e.held, of) = o,
         IsRegister(o) \/ o.in = "number" \/ (IsMemory(o) /\ ~Spilled("v")),
         Content(m, o) \in Words
  PROVE  LET f == Take(e, Write("mov", V("v"), of))
             p == Run(b, f.text)
         IN  /\ Doing(b, f, p, U, D) /\ f.held = e.held
             /\ ContentOf(p, "v") = Content(m, o) /\ p.went = m.went
<1> DEFINE to == Printed(e.held, "v")
           i == Instruction("mov", to, o)
           p == Executed(m, i)
<1>1. m \in Machines /\ m.reg["rbp"] = 2040 /\ Holding(e.held)
  BY LeftAlone DEF Doing
<1>2. "v" \in Nodes /\ "v" \in Values /\ (Loose("v") <=> Spilled("v")) /\ "v" \notin {"c", "f"}
  BY NamesDiffer DEF Loose
<1>3. \/ IsRegister(to) /\ to = Reg(home["v"]) /\ ~Loose("v")
      \/ IsMemory(to) /\ Address(m, to) = Cell("v") /\ Spilled("v")
  BY <1>1, <1>2, PrintedAtHome
<1>4. i = Instruction("mov", Resolved(e.held, V("v")), Resolved(e.held, of))
  BY <1>2, ResolvedIs
<1> HIDE DEF to
<1>5. Encodable(i)
  BY <1>2, <1>3, EncodableMove
<1>6. p \in Machines /\ Spares(m, p, U, D) /\ ContentOf(p, "v") = Content(m, o) /\ p.went = m.went
  <2>1. CASE ~Spilled("v")
    <3>1. home["v"] \in RegisterNames /\ home["v"] \in U /\ home["v"] # NoName /\ home["v"] # "rbp"
      BY <1>2, <2>1, Rooms, NamesAre, NamesDiffer DEF Taking
    <3>2. SetsRegister(m, p, home["v"], Content(m, o))
      BY <1>1, <1>2, <1>3, <2>1, <3>1, MovedToRegister DEF Move
    <3> HIDE DEF p
    <3>3. p.reg["rbp"] = 2040 /\ p \in Machines
      BY <1>1, <3>1, <3>2, NamesAre DEF SetsRegister
    <3>4. ContentOf(p, "v") = Content(m, o)
      BY <1>2, <3>1, <3>2, <3>3, ContentOfIs DEF SetsRegister
    <3> QED BY <3>1, <3>2, <3>4, RegisterSpares DEF SetsRegister
  <2>2. CASE Spilled("v")
    <3>1. Cell("v") \in Cells /\ Cell("v") \in D
      BY <1>2, <2>2, FrameCells DEF Taking
    <3>2. SetsCell(m, p, Cell("v"), Content(m, o))
      BY <1>1, <1>2, <1>3, <2>2, <3>1, MovedToCell DEF Move
    <3> HIDE DEF p
    <3>3. p.reg["rbp"] = 2040 /\ p \in Machines
      BY <1>1, <3>2 DEF SetsCell
    <3>4. ContentOf(p, "v") = Content(m, o)
      BY <1>2, <2>2, <3>2, <3>3, ContentOfIs DEF SetsCell
    <3> QED BY <3>1, <3>2, <3>4, CellSpares DEF SetsCell
  <2> QED BY <2>1, <2>2
<1> HIDE DEF i, p
<1> QED BY <1>4, <1>5, <1>6, WriteTaken DEF p

(* Two operands come to registers, be they the same.                       *)
LEMMA TwoTaken ==
  ASSUME Housed, NEW b, NEW e, NEW m, NEW U, NEW D, Fit(b, U, D), Doing(b, e, m, U, D),
         NEW l \in Nodes \ {"v"}, NEW r \in Nodes \ {"v"},
         NEW g \in Scratch, NEW h \in Scratch, g # h,
         NEW k, k = Take(Take(e, ToReg(l, g)), ToReg(r, h))
  PROVE  LET p == Run(b, k.text)
         IN  /\ Doing(b, k, p, U, D) /\ k.held["v"] = e.held["v"]
             /\ p.reg[k.held[l]] = ContentOf(b, l) /\ p.reg[k.held[r]] = ContentOf(b, r)
             /\ k.held[l] \in {g, h} \cup Givens /\ (l # r => k.held[l] \in {g} \cup Givens)
             /\ k.held[r] \in {h} \cup Givens
             /\ \A q \in RegisterNames \ {g, h} : p.reg[q] = m.reg[q]
             /\ p.mem = m.mem /\ p.went = m.went
<1> DEFINE f == Take(e, ToReg(l, g))
           o == Run(b, f.text)
           p == Run(b, k.text)
<1>1. /\ Doing(b, f, o, U, D)
      /\ f.held[l] = (IF Loose(l) THEN g ELSE home[l])
      /\ \A n \in Nodes \ {l} : f.held[n] = e.held[n]
      /\ o.reg[f.held[l]] = ContentOf(b, l)
      /\ \A q \in RegisterNames \ {g} : o.reg[q] = m.reg[q]
      /\ o.mem = m.mem /\ o.went = m.went
  BY ToRegTaken
<1>0. k = Take(f, ToReg(r, h))
  OBVIOUS
<1> HIDE DEF f, o
<1>2. /\ Doing(b, k, p, U, D)
      /\ k.held[r] = (IF Loose(r) THEN h ELSE home[r])
      /\ \A n \in Nodes \ {r} : k.held[n] = f.held[n]
      /\ p.reg[k.held[r]] = ContentOf(b, r)
      /\ \A q \in RegisterNames \ {h} : p.reg[q] = o.reg[q]
      /\ p.mem = o.mem /\ p.went = o.went
  <2>1. Doing(b, f, o, U, D)
    BY <1>1
  <2> QED BY ONLY Housed, Fit(b, U, D), r \in Nodes \ {"v"}, h \in Scratch, <1>0, <2>1, ToRegTaken DEF p
<1> HIDE DEF p
<1>3. /\ ~Loose(l) => home[l] \in Givens /\ l \in Nodes
      /\ ~Loose(r) => home[r] \in Givens
      /\ "v" \in Nodes
  BY Rooms, NamesDiffer
<1>4. /\ f.held[l] \in {g} \cup Givens /\ k.held[r] \in {h} \cup Givens
      /\ f.held[l] \in RegisterNames /\ f.held[l] # h
  BY <1>1, <1>2, <1>3, NamesAre, NamesDiffer
<1>5. k.held["v"] = e.held["v"]
  BY <1>1, <1>2, <1>3
<1>6. /\ p.reg[k.held[l]] = ContentOf(b, l) /\ k.held[l] \in {g, h} \cup Givens
      /\ l # r => k.held[l] \in {g} \cup Givens
  <2>1. CASE l = r
    BY <1>2, <1>4, <2>1
  <2>2. CASE l # r
    <3>1. k.held[l] = f.held[l]
      BY <1>2, <2>2
    <3> QED BY <1>1, <1>2, <1>4, <3>1
  <2> QED BY <2>1, <2>2
<1>7. \A q \in RegisterNames \ {g, h} : p.reg[q] = m.reg[q]
  BY <1>1, <1>2
<1> QED BY <1>1, <1>2, <1>4, <1>5, <1>6, <1>7 DEF p

LEMMA LeaTaken ==
  ASSUME Housed, NEW b, NEW e, NEW m, NEW U, NEW D, Doing(b, e, m, U, D),
         NEW to, NEW of, NEW q \in RegisterNames, q \in U, Resolved(e.held, to) = Reg(q),
         NEW o, Resolved(e.held, of) = o, IsMemory(o), NEW n \in Words, Address(m, o) = n
  PROVE  LET f == Take(e, Write("lea", to, of))
             p == Run(b, f.text)
         IN  Doing(b, f, p, U, D) /\ f.held = e.held /\ SetsRegister(m, p, q, n)
<1> DEFINE i == Instruction("lea", Reg(q), o)
<1>1. Encodable(i) /\ m \in Machines
  <2>1. i.op = "lea" /\ i.to = Reg(q) /\ i.of = o /\ IsRegister(Reg(q))
    BY InstructionParts, OperandKinds
  <2> HIDE DEF i
  <2>2. Encodable(i)
    BY <2>1 DEF Encodable
  <2> QED BY <2>2 DEF Doing
<1>2. SetsRegister(m, Executed(m, i), q, n)
  BY <1>1, LeaIs
<1>3. i = Instruction("lea", Resolved(e.held, to), Resolved(e.held, of))
  OBVIOUS
<1> HIDE DEF i
<1>4. Executed(m, i) \in Machines /\ Spares(m, Executed(m, i), U, D)
  BY <1>2, RegisterSpares DEF SetsRegister
<1> QED BY <1>1, <1>2, <1>3, <1>4, WriteTaken

LEMMA UnaryRuns ==
  ASSUME Housed, NEW b, NEW U, NEW D, Fit(b, U, D), Taking(U, D),
         NEW op \in {"not", "neg"}, NEW r \in {"x", "y", "c"}
  PROVE  \E p : /\ Brings(b, Text(Unary(op, r)), p, U, D)
                /\ ContentOf(p, "v") = Cut(IF op = "not" THEN -ContentOf(b, r) - 1 ELSE -ContentOf(b, r))
<1> DEFINE s == Unary(op, r)
           e(k) == Writing(s)[k]
           m(k) == Run(b, e(k).text)
           q == IF Spilled("v") THEN "rax" ELSE home["v"]
<1>1. /\ Len(s) = 4
      /\ s[1] = OccupyReg("v", "rax")
      /\ s[2] = Write("mov", V("v"), V(r))
      /\ s[3] = WriteOne(op, V("v"))
      /\ s[4] = FromReg("v")
  BY DEF Unary
<1> HIDE DEF s
<1>2. /\ e(0) = Blank
      /\ e(1) = Take(e(0), OccupyReg("v", "rax"))
      /\ e(2) = Take(e(1), Write("mov", V("v"), V(r)))
      /\ e(3) = Take(e(2), WriteOne(op, V("v")))
      /\ e(4) = Take(e(3), FromReg("v"))
      /\ Text(s) = e(4).text
  <2>1. /\ e(0) = Blank
        /\ \A j \in 1 .. 4 : e(j) = Take(e(j - 1), s[j])
    <3>1. Len(s) = 4 /\ Len(s) \in Nat
      BY <1>1
    <3>2. /\ e(0) = Blank
          /\ \A j \in 1 .. Len(s) : e(j) = Take(e(j - 1), s[j])
      BY ONLY <3>1, WritingSteps
    <3> HIDE DEF e
    <3> QED BY <3>1, <3>2
  <2>2. Text(s) = e(4).text
    BY <1>1 DEF Text
  <2> HIDE DEF e
  <2>3. /\ e(1) = Take(e(0), s[1])
        /\ e(2) = Take(e(1), s[2])
        /\ e(3) = Take(e(2), s[3])
        /\ e(4) = Take(e(3), s[4])
    BY <2>1
  <2> QED BY <1>1, <2>1, <2>2, <2>3
<1> HIDE DEF e
<1>3. /\ b \in Machines /\ q \in U /\ q \in RegisterNames /\ q # NoName /\ q \in {"rax"} \cup Givens
      /\ r \in Nodes \ {"v"} /\ "v" \in Nodes
      /\ Scratch \subseteq RegisterNames /\ Scratch \subseteq U /\ "rax" \in Scratch
  <2>1. "rax" \in Scratch
    BY NamesAre
  <2>2. "v" \in Values /\ (~Spilled("v") => home["v"] \in Givens)
    BY Rooms, NamesDiffer
  <2> QED BY <2>1, <2>2, Free, NamesDiffer, NamesAre DEF Fit
<1> HIDE DEF q
<1>4. Doing(b, e(0), b, U, D) /\ \A n \in Nodes : Loose(n) => e(0).held[n] = NoName
  BY <1>2, <1>3, Begun
<1>5. Doing(b, e(1), b, U, D) /\ HeldBut(e(0), e(1), "v") /\ e(1).held["v"] = q
  BY <1>2, <1>3, <1>4, OccupyRegTaken DEF q
<1>6. Doing(b, e(2), m(2), U, D) /\ e(2).held = e(1).held /\ m(2).reg[q] = ContentOf(b, r)
  <2>1. Resolved(e(1).held, V("v")) = Reg(q) /\ (Loose(r) => e(1).held[r] = NoName)
    BY <1>3, <1>4, <1>5, ResolvedIs, PrintedIs DEF HeldBut
  <2> QED BY <1>2, <1>3, <1>5, <2>1, NodeMovTaken DEF SetsRegister
<1>7. /\ Doing(b, e(3), m(3), U, D) /\ e(3).held["v"] = q
      /\ m(3).reg[q] = Cut(IF op = "not" THEN -ContentOf(b, r) - 1 ELSE -ContentOf(b, r))
  <2> DEFINE i == Instruction(op, Reg(q), Nothing)
             n == Cut(IF op = "not" THEN -ContentOf(b, r) - 1 ELSE -ContentOf(b, r))
  <2>1. i = Instruction(op, Resolved(e(2).held, V("v")), Resolved(e(2).held, Nothing))
    BY <1>3, <1>5, <1>6, ResolvedIs, PrintedIs
  <2>2. Encodable(i)
    <3>1. IsRegister(Reg(q)) /\ i.op = op /\ i.to = Reg(q)
      BY <1>3, OperandKinds, InstructionParts
    <3> HIDE DEF i
    <3> QED BY <3>1 DEF Encodable
  <2>3. m(2) \in Machines
    BY <1>6 DEF Doing
  <2>4. SetsRegister(m(2), Executed(m(2), i), q, n)
    BY <1>3, <1>6, <2>3, UnaryIs
  <2> HIDE DEF i, n
  <2>5. Executed(m(2), i) \in Machines /\ Spares(m(2), Executed(m(2), i), U, D)
    BY <1>3, <2>4, RegisterSpares DEF SetsRegister
  <2>6. /\ Doing(b, e(3), Executed(m(2), i), U, D) /\ e(3).held = e(2).held
        /\ m(3) = Executed(m(2), i)
    BY <1>2, <1>6, <2>1, <2>2, <2>5, WriteTaken DEF WriteOne
  <2> QED BY <1>5, <1>6, <2>4, <2>6 DEF SetsRegister, n
<1>8. Doing(b, e(4), m(4), U, D) /\ ContentOf(m(4), "v") = m(3).reg[q]
  BY <1>2, <1>3, <1>7, FromRegTaken
<1>9. Brings(b, Text(s), m(4), U, D)
  BY <1>2, <1>8 DEF Doing, Brings
<1> QED BY <1>7, <1>8, <1>9 DEF s

LEMMA MultiplicationRuns ==
  ASSUME Housed, NEW b, NEW U, NEW D, Fit(b, U, D), Taking(U, D),
         NEW l \in {"x", "y", "c"}, NEW r \in {"x", "y", "c"}
  PROVE  \E p : /\ Brings(b, Text(Multiplication(l, r)), p, U, D)
                /\ ContentOf(p, "v") = Cut(ContentOf(b, l) * ContentOf(b, r))
<1> DEFINE s == Multiplication(l, r)
           e(k) == Writing(s)[k]
           m(k) == Run(b, e(k).text)
           q == IF Spilled("v") THEN "rcx" ELSE home["v"]
<1>1. /\ Len(s) = 9
      /\ s[1] = OccupyReg("v", "rcx")
      /\ s[2] = ToReg(l, "rax")
      /\ s[3] = ToReg(r, "rdx")
      /\ s[4] = LoadRax(l)
      /\ s[5] = WriteOne("mul", V(r))
      /\ s[6] = Write("mov", V("v"), Reg("rax"))
      /\ s[7] = FromReg("v")
      /\ s[8] = FreeReg(l)
      /\ s[9] = FreeReg(r)
  BY DEF Multiplication
<1> HIDE DEF s
<1>2. /\ e(0) = Blank
      /\ e(1) = Take(e(0), OccupyReg("v", "rcx"))
      /\ e(2) = Take(e(1), ToReg(l, "rax"))
      /\ e(3) = Take(e(2), ToReg(r, "rdx"))
      /\ e(4) = Take(e(3), LoadRax(l))
      /\ e(5) = Take(e(4), WriteOne("mul", V(r)))
      /\ e(6) = Take(e(5), Write("mov", V("v"), Reg("rax")))
      /\ e(7) = Take(e(6), FromReg("v"))
      /\ e(8) = Take(e(7), FreeReg(l))
      /\ e(9) = Take(e(8), FreeReg(r))
      /\ Text(s) = e(9).text
  <2>1. /\ e(0) = Blank
        /\ \A j \in 1 .. 9 : e(j) = Take(e(j - 1), s[j])
    <3>1. Len(s) = 9 /\ Len(s) \in Nat
      BY <1>1
    <3>2. /\ e(0) = Blank
          /\ \A j \in 1 .. Len(s) : e(j) = Take(e(j - 1), s[j])
      BY ONLY <3>1, WritingSteps
    <3> HIDE DEF e
    <3> QED BY <3>1, <3>2
  <2>2. Text(s) = e(9).text
    BY <1>1 DEF Text
  <2> HIDE DEF e
  <2>3. /\ e(1) = Take(e(0), s[1])
        /\ e(2) = Take(e(1), s[2])
        /\ e(3) = Take(e(2), s[3])
        /\ e(4) = Take(e(3), s[4])
        /\ e(5) = Take(e(4), s[5])
        /\ e(6) = Take(e(5), s[6])
        /\ e(7) = Take(e(6), s[7])
        /\ e(8) = Take(e(7), s[8])
        /\ e(9) = Take(e(8), s[9])
    BY <2>1
  <2> QED BY <1>1, <2>1, <2>2, <2>3
<1> HIDE DEF e
<1>3. /\ b \in Machines /\ q \in U /\ q \in RegisterNames /\ q # NoName /\ q \in {"rcx"} \cup Givens
      /\ l \in Nodes \ {"v"} /\ r \in Nodes \ {"v"} /\ "v" \in Nodes
      /\ Scratch \subseteq RegisterNames /\ Scratch \subseteq U /\ "rcx" \in Scratch
  <2>1. "rcx" \in Scratch
    BY NamesAre
  <2>2. "v" \in Values /\ (~Spilled("v") => home["v"] \in Givens)
    BY Rooms, NamesDiffer
  <2> QED BY <2>1, <2>2, Free, NamesDiffer, NamesAre DEF Fit
<1> HIDE DEF q
<1>4. Doing(b, e(0), b, U, D) /\ \A n \in Nodes : Loose(n) => e(0).held[n] = NoName
  BY <1>2, <1>3, Begun
<1>5. Doing(b, e(1), b, U, D) /\ HeldBut(e(0), e(1), "v") /\ e(1).held["v"] = q
  BY <1>2, <1>3, <1>4, OccupyRegTaken DEF q
<1>6. /\ Doing(b, e(3), m(3), U, D) /\ e(3).held["v"] = q
      /\ m(3).reg[e(3).held[l]] = ContentOf(b, l) /\ m(3).reg[e(3).held[r]] = ContentOf(b, r)
      /\ e(3).held[l] \in {"rax", "rdx"} \cup Givens /\ e(3).held[r] \in {"rdx"} \cup Givens
      /\ m(3).went = b.went /\ m(3).mem = b.mem
  <2>1. "rax" \in Scratch /\ "rdx" \in Scratch /\ "rax" # "rdx"
    BY NamesAre
  <2>2. Doing(b, e(1), b, U, D)
    BY <1>5
  <2>3. e(3) = Take(Take(e(1), ToReg(l, "rax")), ToReg(r, "rdx"))
    BY <1>2
  <2>4. l \in Nodes \ {"v"} /\ r \in Nodes \ {"v"}
    BY <1>3
  <2>5. /\ Doing(b, e(3), m(3), U, D) /\ e(3).held["v"] = e(1).held["v"]
        /\ m(3).reg[e(3).held[l]] = ContentOf(b, l) /\ m(3).reg[e(3).held[r]] = ContentOf(b, r)
        /\ e(3).held[l] \in {"rax", "rdx"} \cup Givens /\ e(3).held[r] \in {"rdx"} \cup Givens
        /\ m(3).went = b.went /\ m(3).mem = b.mem
    BY ONLY Housed, Fit(b, U, D), <2>1, <2>2, <2>3, <2>4, TwoTaken
  <2> QED BY <1>5, <2>5
<1>7. /\ Doing(b, e(4), m(4), U, D) /\ e(4).held = e(3).held
      /\ m(4).reg["rax"] = ContentOf(b, l) /\ m(4).reg[e(3).held[r]] = ContentOf(b, r)
  <2>1. e(3).held[l] \in RegisterNames /\ e(3).held[r] \in RegisterNames /\ e(3).held[r] # "rax"
    BY <1>6, NamesAre, NamesDiffer
  <2>2. Doing(b, e(3), m(3), U, D) /\ l \in Nodes /\ e(4) = Take(e(3), LoadRax(l))
    BY <1>2, <1>3, <1>6
  <2>3. /\ Doing(b, e(4), m(4), U, D) /\ e(4).held = e(3).held
        /\ m(4).reg["rax"] = m(3).reg[e(3).held[l]]
        /\ \A z \in RegisterNames \ {"rax"} : m(4).reg[z] = m(3).reg[z]
    BY ONLY Housed, Fit(b, U, D), <2>1, <2>2, LoadRaxTaken
  <2> QED BY <1>6, <2>1, <2>3
<1>8. /\ Doing(b, e(5), m(5), U, D) /\ e(5).held = e(4).held
      /\ m(5).reg["rax"] = Cut(ContentOf(b, l) * ContentOf(b, r))
  <2> DEFINE g == e(4).held[r]
             i == Instruction("mul", Reg(g), Nothing)
  <2>1. g \in RegisterNames /\ g # NoName /\ g \notin Frame
    BY <1>6, <1>7, NamesAre, NamesDiffer
  <2>2. i = Instruction("mul", Resolved(e(4).held, V(r)), Resolved(e(4).held, Nothing))
    BY <1>3, <2>1, ResolvedIs, PrintedIs
  <2>3. Encodable(i)
    <3>1. IsRegister(Reg(g)) /\ i.op = "mul" /\ i.to = Reg(g)
      BY <2>1, OperandKinds, InstructionParts
    <3> HIDE DEF i
    <3> QED BY <3>1 DEF Encodable
  <2>4. m(4) \in Machines
    BY <1>7 DEF Doing
  <2>5. SetsBoth(m(4), Executed(m(4), i), Cut(m(4).reg["rax"] * m(4).reg[g]), (m(4).reg["rax"] * m(4).reg[g]) \div Word)
    BY <2>1, <2>4, MulIs
  <2>6. m(4).reg["rax"] = ContentOf(b, l) /\ m(4).reg[g] = ContentOf(b, r)
    BY <1>7
  <2> HIDE DEF i, g
  <2>7. Executed(m(4), i) \in Machines /\ Spares(m(4), Executed(m(4), i), U, D)
    BY <1>3, <2>5, NamesAre DEF SetsBoth, Spares
  <2>8. /\ Doing(b, e(5), Executed(m(4), i), U, D) /\ e(5).held = e(4).held
        /\ m(5) = Executed(m(4), i)
    BY <1>2, <1>7, <2>2, <2>3, <2>7, WriteTaken DEF WriteOne
  <2> QED BY <2>5, <2>6, <2>8 DEF SetsBoth
<1>9. /\ Doing(b, e(6), m(6), U, D) /\ e(6).held["v"] = q
      /\ m(6).reg[q] = Cut(ContentOf(b, l) * ContentOf(b, r))
  <2>1. Resolved(e(5).held, V("v")) = Reg(q) /\ "rax" \in RegisterNames /\ Resolved(e(5).held, Reg("rax")) = Reg("rax")
    BY <1>3, <1>6, <1>7, <1>8, ResolvedIs, PrintedIs, NamesAre
  <2> QED BY <1>2, <1>3, <1>6, <1>7, <1>8, <2>1, RegMovTaken DEF SetsRegister
<1>10. Doing(b, e(7), m(7), U, D) /\ ContentOf(m(7), "v") = m(6).reg[q]
  BY <1>2, <1>3, <1>9, FromRegTaken
<1>11. Doing(b, e(8), m(7), U, D)
  BY <1>2, <1>3, <1>10, FreeRegTaken
<1>12. Doing(b, e(9), m(7), U, D)
  BY <1>2, <1>3, <1>11, FreeRegTaken
<1>13. Brings(b, Text(s), m(7), U, D)
  BY <1>2, <1>12 DEF Doing, Brings
<1> QED BY <1>9, <1>10, <1>13 DEF s

LEMMA QuotientRuns ==
  ASSUME Housed, NEW b, NEW U, NEW D, Fit(b, U, D), Taking(U, D),
         NEW l \in {"x", "y", "c"}, NEW r \in {"x", "y", "c"},
         NEW result \in {"rax", "rdx"}, ContentOf(b, r) # 0
  PROVE  \E p : /\ Brings(b, Text(Quotient(result, l, r)), p, U, D)
                /\ ContentOf(p, "v") = (IF result = "rax" THEN ContentOf(b, l) \div ContentOf(b, r) ELSE ContentOf(b, l) % ContentOf(b, r))
<1> DEFINE s == Quotient(result, l, r)
           e(k) == Writing(s)[k]
           m(k) == Run(b, e(k).text)
           q == IF Spilled("v") THEN "rcx" ELSE home["v"]
<1>1. /\ Len(s) = 10
      /\ s[1] = OccupyReg("v", "rcx")
      /\ s[2] = ToReg(l, "rax")
      /\ s[3] = ToReg(r, "rdi")
      /\ s[4] = LoadRax(l)
      /\ s[5] = Write("xor", Reg("rdx"), Reg("rdx"))
      /\ s[6] = WriteOne("div", Reg(r))
      /\ s[7] = Write("mov", Reg("v"), Reg(result))
      /\ s[8] = FromReg("v")
      /\ s[9] = FreeReg(l)
      /\ s[10] = FreeReg(r)
  BY DEF Quotient
<1> HIDE DEF s
<1>2. /\ e(0) = Blank
      /\ e(1) = Take(e(0), OccupyReg("v", "rcx"))
      /\ e(2) = Take(e(1), ToReg(l, "rax"))
      /\ e(3) = Take(e(2), ToReg(r, "rdi"))
      /\ e(4) = Take(e(3), LoadRax(l))
      /\ e(5) = Take(e(4), Write("xor", Reg("rdx"), Reg("rdx")))
      /\ e(6) = Take(e(5), WriteOne("div", Reg(r)))
      /\ e(7) = Take(e(6), Write("mov", Reg("v"), Reg(result)))
      /\ e(8) = Take(e(7), FromReg("v"))
      /\ e(9) = Take(e(8), FreeReg(l))
      /\ e(10) = Take(e(9), FreeReg(r))
      /\ Text(s) = e(10).text
  <2>1. /\ e(0) = Blank
        /\ \A j \in 1 .. 10 : e(j) = Take(e(j - 1), s[j])
    <3>1. Len(s) = 10 /\ Len(s) \in Nat
      BY <1>1
    <3>2. /\ e(0) = Blank
          /\ \A j \in 1 .. Len(s) : e(j) = Take(e(j - 1), s[j])
      BY ONLY <3>1, WritingSteps
    <3> HIDE DEF e
    <3> QED BY <3>1, <3>2
  <2>2. Text(s) = e(10).text
    BY <1>1 DEF Text
  <2> HIDE DEF e
  <2>3. /\ e(1) = Take(e(0), s[1])
        /\ e(2) = Take(e(1), s[2])
        /\ e(3) = Take(e(2), s[3])
        /\ e(4) = Take(e(3), s[4])
        /\ e(5) = Take(e(4), s[5])
        /\ e(6) = Take(e(5), s[6])
        /\ e(7) = Take(e(6), s[7])
        /\ e(8) = Take(e(7), s[8])
        /\ e(9) = Take(e(8), s[9])
        /\ e(10) = Take(e(9), s[10])
    BY <2>1
  <2> QED BY <1>1, <2>1, <2>2, <2>3
<1> HIDE DEF e
<1>3. /\ b \in Machines /\ q \in U /\ q \in RegisterNames /\ q # NoName /\ q \in {"rcx"} \cup Givens
      /\ l \in Nodes \ {"v"} /\ r \in Nodes \ {"v"} /\ "v" \in Nodes
      /\ Scratch \subseteq RegisterNames /\ Scratch \subseteq U /\ "rcx" \in Scratch
  <2>1. "rcx" \in Scratch
    BY NamesAre
  <2>2. "v" \in Values /\ (~Spilled("v") => home["v"] \in Givens)
    BY Rooms, NamesDiffer
  <2> QED BY <2>1, <2>2, Free, NamesDiffer, NamesAre DEF Fit
<1> HIDE DEF q
<1>4. Doing(b, e(0), b, U, D) /\ \A n \in Nodes : Loose(n) => e(0).held[n] = NoName
  BY <1>2, <1>3, Begun
<1>5. Doing(b, e(1), b, U, D) /\ HeldBut(e(0), e(1), "v") /\ e(1).held["v"] = q
  BY <1>2, <1>3, <1>4, OccupyRegTaken DEF q
<1>6. /\ Doing(b, e(3), m(3), U, D) /\ e(3).held["v"] = q
      /\ m(3).reg[e(3).held[l]] = ContentOf(b, l) /\ m(3).reg[e(3).held[r]] = ContentOf(b, r)
      /\ e(3).held[l] \in {"rax", "rdi"} \cup Givens /\ e(3).held[r] \in {"rdi"} \cup Givens
      /\ m(3).went = b.went /\ m(3).mem = b.mem
  <2>1. "rax" \in Scratch /\ "rdi" \in Scratch /\ "rax" # "rdi"
    BY NamesAre
  <2>2. Doing(b, e(1), b, U, D)
    BY <1>5
  <2>3. e(3) = Take(Take(e(1), ToReg(l, "rax")), ToReg(r, "rdi"))
    BY <1>2
  <2>4. l \in Nodes \ {"v"} /\ r \in Nodes \ {"v"}
    BY <1>3
  <2>5. /\ Doing(b, e(3), m(3), U, D) /\ e(3).held["v"] = e(1).held["v"]
        /\ m(3).reg[e(3).held[l]] = ContentOf(b, l) /\ m(3).reg[e(3).held[r]] = ContentOf(b, r)
        /\ e(3).held[l] \in {"rax", "rdi"} \cup Givens /\ e(3).held[r] \in {"rdi"} \cup Givens
        /\ m(3).went = b.went /\ m(3).mem = b.mem
    BY ONLY Housed, Fit(b, U, D), <2>1, <2>2, <2>3, <2>4, TwoTaken
  <2> QED BY <1>5, <2>5
<1>7. /\ Doing(b, e(4), m(4), U, D) /\ e(4).held = e(3).held
      /\ m(4).reg["rax"] = ContentOf(b, l) /\ m(4).reg[e(3).held[r]] = ContentOf(b, r)
  <2>1. e(3).held[l] \in RegisterNames /\ e(3).held[r] \in RegisterNames /\ e(3).held[r] # "rax"
    BY <1>6, NamesAre, NamesDiffer
  <2>2. Doing(b, e(3), m(3), U, D) /\ l \in Nodes /\ e(4) = Take(e(3), LoadRax(l))
    BY <1>2, <1>3, <1>6
  <2>3. /\ Doing(b, e(4), m(4), U, D) /\ e(4).held = e(3).held
        /\ m(4).reg["rax"] = m(3).reg[e(3).held[l]]
        /\ \A z \in RegisterNames \ {"rax"} : m(4).reg[z] = m(3).reg[z]
    BY ONLY Housed, Fit(b, U, D), <2>1, <2>2, LoadRaxTaken
  <2> QED BY <1>6, <2>1, <2>3
<1>8. /\ Doing(b, e(5), m(5), U, D) /\ e(5).held = e(4).held /\ m(5).reg["rdx"] = 0
      /\ m(5).reg["rax"] = ContentOf(b, l) /\ m(5).reg[e(3).held[r]] = ContentOf(b, r)
  <2>1. "rdx" \in RegisterNames /\ "rdx" \in U /\ "rax" \in RegisterNames
        /\ e(3).held[r] \in RegisterNames /\ e(3).held[r] # "rdx"
    BY <1>3, <1>6, NamesAre, NamesDiffer
  <2>2. Doing(b, e(5), m(5), U, D) /\ e(5).held = e(4).held /\ SetsRegister(m(4), m(5), "rdx", 0)
    BY <1>2, <1>7, <2>1, ClearTaken
  <2> QED BY <1>7, <2>1, <2>2 DEF SetsRegister
<1>9. /\ Doing(b, e(6), m(6), U, D) /\ e(6).held = e(5).held
      /\ m(6).reg["rax"] = ContentOf(b, l) \div ContentOf(b, r)
      /\ m(6).reg["rdx"] = ContentOf(b, l) % ContentOf(b, r)
  <2> DEFINE g == e(5).held[r]
             i == Instruction("div", Reg(g), Nothing)
  <2>1. g \in RegisterNames /\ g = e(3).held[r]
    BY <1>6, <1>7, <1>8, NamesAre, NamesDiffer
  <2>2. i = Instruction("div", Resolved(e(5).held, Reg(r)), Resolved(e(5).held, Nothing))
    BY <1>3, ResolvedIs
  <2>3. Encodable(i)
    <3>1. IsRegister(Reg(g)) /\ i.op = "div" /\ i.to = Reg(g)
      BY <2>1, OperandKinds, InstructionParts
    <3> HIDE DEF i
    <3> QED BY <3>1 DEF Encodable
  <2>4. m(5) \in Machines
    BY <1>8 DEF Doing
  <2>5. Content(m(5), Reg(g)) = ContentOf(b, r) /\ ContentOf(b, r) \in Words
    BY <1>8, <2>1, <2>4, ContentIs, MachineParts
  <2>6. SetsBoth(m(5), Executed(m(5), i), m(5).reg["rax"] \div ContentOf(b, r), m(5).reg["rax"] % ContentOf(b, r))
    BY <1>8, <2>4, <2>5, DivIs
  <2> HIDE DEF i, g
  <2>7. Executed(m(5), i) \in Machines /\ Spares(m(5), Executed(m(5), i), U, D)
    BY <1>3, <2>6, NamesAre DEF SetsBoth, Spares
  <2>8. /\ Doing(b, e(6), Executed(m(5), i), U, D) /\ e(6).held = e(5).held
        /\ m(6) = Executed(m(5), i)
    BY <1>2, <1>8, <2>2, <2>3, <2>7, WriteTaken DEF WriteOne
  <2> QED BY <1>8, <2>6, <2>8 DEF SetsBoth
<1>10. /\ Doing(b, e(7), m(7), U, D) /\ e(7).held["v"] = q
       /\ m(7).reg[q] = (IF result = "rax" THEN ContentOf(b, l) \div ContentOf(b, r) ELSE ContentOf(b, l) % ContentOf(b, r))
  <2>1. Resolved(e(6).held, Reg("v")) = Reg(q) /\ result \in RegisterNames /\ Resolved(e(6).held, Reg(result)) = Reg(result)
    BY <1>3, <1>6, <1>7, <1>8, <1>9, ResolvedIs, NamesAre
  <2> QED BY <1>2, <1>3, <1>6, <1>7, <1>8, <1>9, <2>1, RegMovTaken DEF SetsRegister
<1>11. Doing(b, e(8), m(8), U, D) /\ ContentOf(m(8), "v") = m(7).reg[q]
  BY <1>2, <1>3, <1>10, FromRegTaken
<1>12. Doing(b, e(9), m(8), U, D)
  BY <1>2, <1>3, <1>11, FreeRegTaken
<1>13. Doing(b, e(10), m(8), U, D)
  BY <1>2, <1>3, <1>12, FreeRegTaken
<1>14. Brings(b, Text(s), m(8), U, D)
  BY <1>2, <1>13 DEF Doing, Brings
<1> QED BY <1>10, <1>11, <1>14 DEF s

LEMMA LogicalRuns ==
  ASSUME Housed, NEW b, NEW U, NEW D, Fit(b, U, D), Taking(U, D),
         NEW l \in {"x", "y", "c"}, NEW r \in {"x", "y", "c"},
         NEW op \in {"and", "or"}
  PROVE  \E p : /\ Brings(b, Text(Logical(op, l, r)), p, U, D)
                /\ ContentOf(p, "v") = Truth(IF op = "and" THEN ContentOf(b, l) # 0 /\ ContentOf(b, r) # 0 ELSE ContentOf(b, l) # 0 \/ ContentOf(b, r) # 0)
<1> DEFINE s == Logical(op, l, r)
           e(k) == Writing(s)[k]
           m(k) == Run(b, e(k).text)
           q == IF Spilled("v") THEN "rax" ELSE home["v"]
<1>1. /\ Len(s) = 14
      /\ s[1] = OccupyReg("v", "rax")
      /\ s[2] = ToReg(l, "rcx")
      /\ s[3] = ToReg(r, "rdx")
      /\ s[4] = Write("xor", Reg("rdi"), Reg("rdi"))
      /\ s[5] = Write("xor", Reg("rsi"), Reg("rsi"))
      /\ s[6] = Write("cmp", V(l), Number(0))
      /\ s[7] = WriteOne("setne", Reg("rdi"))
      /\ s[8] = Write("cmp", V(r), Number(0))
      /\ s[9] = WriteOne("setne", Reg("rsi"))
      /\ s[10] = Write(op, Reg("rdi"), Reg("rsi"))
      /\ s[11] = Write("mov", V("v"), Reg("rdi"))
      /\ s[12] = FromReg("v")
      /\ s[13] = FreeReg(l)
      /\ s[14] = FreeReg(r)
  BY DEF Logical
<1> HIDE DEF s
<1>2. /\ e(0) = Blank
      /\ e(1) = Take(e(0), OccupyReg("v", "rax"))
      /\ e(2) = Take(e(1), ToReg(l, "rcx"))
      /\ e(3) = Take(e(2), ToReg(r, "rdx"))
      /\ e(4) = Take(e(3), Write("xor", Reg("rdi"), Reg("rdi")))
      /\ e(5) = Take(e(4), Write("xor", Reg("rsi"), Reg("rsi")))
      /\ e(6) = Take(e(5), Write("cmp", V(l), Number(0)))
      /\ e(7) = Take(e(6), WriteOne("setne", Reg("rdi")))
      /\ e(8) = Take(e(7), Write("cmp", V(r), Number(0)))
      /\ e(9) = Take(e(8), WriteOne("setne", Reg("rsi")))
      /\ e(10) = Take(e(9), Write(op, Reg("rdi"), Reg("rsi")))
      /\ e(11) = Take(e(10), Write("mov", V("v"), Reg("rdi")))
      /\ e(12) = Take(e(11), FromReg("v"))
      /\ e(13) = Take(e(12), FreeReg(l))
      /\ e(14) = Take(e(13), FreeReg(r))
      /\ Text(s) = e(14).text
  <2>1. /\ e(0) = Blank
        /\ \A j \in 1 .. 14 : e(j) = Take(e(j - 1), s[j])
    <3>1. Len(s) = 14 /\ Len(s) \in Nat
      BY <1>1
    <3>2. /\ e(0) = Blank
          /\ \A j \in 1 .. Len(s) : e(j) = Take(e(j - 1), s[j])
      BY ONLY <3>1, WritingSteps
    <3> HIDE DEF e
    <3> QED BY <3>1, <3>2
  <2>2. Text(s) = e(14).text
    BY <1>1 DEF Text
  <2> HIDE DEF e
  <2>3. /\ e(1) = Take(e(0), s[1])
        /\ e(2) = Take(e(1), s[2])
        /\ e(3) = Take(e(2), s[3])
        /\ e(4) = Take(e(3), s[4])
        /\ e(5) = Take(e(4), s[5])
        /\ e(6) = Take(e(5), s[6])
        /\ e(7) = Take(e(6), s[7])
        /\ e(8) = Take(e(7), s[8])
        /\ e(9) = Take(e(8), s[9])
        /\ e(10) = Take(e(9), s[10])
        /\ e(11) = Take(e(10), s[11])
        /\ e(12) = Take(e(11), s[12])
        /\ e(13) = Take(e(12), s[13])
        /\ e(14) = Take(e(13), s[14])
    BY <2>1
  <2> QED BY <1>1, <2>1, <2>2, <2>3
<1> HIDE DEF e
<1>3. /\ b \in Machines /\ q \in U /\ q \in RegisterNames /\ q # NoName /\ q \in {"rax"} \cup Givens
      /\ l \in Nodes \ {"v"} /\ r \in Nodes \ {"v"} /\ "v" \in Nodes
      /\ Scratch \subseteq RegisterNames /\ Scratch \subseteq U /\ "rax" \in Scratch
  <2>1. "rax" \in Scratch
    BY NamesAre
  <2>2. "v" \in Values /\ (~Spilled("v") => home["v"] \in Givens)
    BY Rooms, NamesDiffer
  <2> QED BY <2>1, <2>2, Free, NamesDiffer, NamesAre DEF Fit
<1> HIDE DEF q
<1>4. Doing(b, e(0), b, U, D) /\ \A n \in Nodes : Loose(n) => e(0).held[n] = NoName
  BY <1>2, <1>3, Begun
<1>5. Doing(b, e(1), b, U, D) /\ HeldBut(e(0), e(1), "v") /\ e(1).held["v"] = q
  BY <1>2, <1>3, <1>4, OccupyRegTaken DEF q
<1>6. /\ Doing(b, e(3), m(3), U, D) /\ e(3).held["v"] = q
      /\ m(3).reg[e(3).held[l]] = ContentOf(b, l) /\ m(3).reg[e(3).held[r]] = ContentOf(b, r)
      /\ e(3).held[l] \in {"rcx", "rdx"} \cup Givens /\ e(3).held[r] \in {"rdx"} \cup Givens
      /\ m(3).went = b.went /\ m(3).mem = b.mem
  <2>1. "rcx" \in Scratch /\ "rdx" \in Scratch /\ "rcx" # "rdx"
    BY NamesAre
  <2>2. Doing(b, e(1), b, U, D)
    BY <1>5
  <2>3. e(3) = Take(Take(e(1), ToReg(l, "rcx")), ToReg(r, "rdx"))
    BY <1>2
  <2>4. l \in Nodes \ {"v"} /\ r \in Nodes \ {"v"}
    BY <1>3
  <2>5. /\ Doing(b, e(3), m(3), U, D) /\ e(3).held["v"] = e(1).held["v"]
        /\ m(3).reg[e(3).held[l]] = ContentOf(b, l) /\ m(3).reg[e(3).held[r]] = ContentOf(b, r)
        /\ e(3).held[l] \in {"rcx", "rdx"} \cup Givens /\ e(3).held[r] \in {"rdx"} \cup Givens
        /\ m(3).went = b.went /\ m(3).mem = b.mem
    BY ONLY Housed, Fit(b, U, D), <2>1, <2>2, <2>3, <2>4, TwoTaken
  <2> QED BY <1>5, <2>5
<1>7. /\ Doing(b, e(4), m(4), U, D) /\ e(4).held = e(3).held
      /\ m(4).reg["rdi"] = 0
      /\ m(4).reg[e(3).held[l]] = ContentOf(b, l) /\ m(4).reg[e(3).held[r]] = ContentOf(b, r)
  <2>1. "rdi" \in RegisterNames /\ "rdi" \in U
    BY <1>3, NamesAre
  <2>2. Doing(b, e(4), m(4), U, D) /\ e(4).held = e(3).held /\ SetsRegister(m(3), m(4), "rdi", 0)
    BY <1>2, <1>6, <2>1, ClearTaken
  <2> QED BY <1>6, <2>1, <2>2, NamesAre, NamesDiffer DEF SetsRegister
<1>8. /\ Doing(b, e(5), m(5), U, D) /\ e(5).held = e(4).held
      /\ m(5).reg["rsi"] = 0
      /\ m(5).reg[e(3).held[l]] = ContentOf(b, l) /\ m(5).reg[e(3).held[r]] = ContentOf(b, r) /\ m(5).reg["rdi"] = 0
  <2>1. "rsi" \in RegisterNames /\ "rsi" \in U
    BY <1>3, NamesAre
  <2>2. Doing(b, e(5), m(5), U, D) /\ e(5).held = e(4).held /\ SetsRegister(m(4), m(5), "rsi", 0)
    BY <1>2, <1>6, <1>7, <2>1, ClearTaken
  <2> QED BY <1>6, <1>7, <2>1, <2>2, NamesAre, NamesDiffer DEF SetsRegister
<1>9. /\ Doing(b, e(6), m(6), U, D) /\ e(6).held = e(5).held
      /\ ComparesTo(m(5), m(6), ContentOf(b, l), 0)
  <2> DEFINE g == e(5).held[l]
  <2>1. m(5) \in Machines /\ g \in RegisterNames /\ g # NoName /\ m(5).reg[g] = ContentOf(b, l)
    BY <1>6, <1>7, <1>8, NamesAre, NamesDiffer DEF Doing
  <2>2. Resolved(e(5).held, V(l)) = Reg(g)
    BY <1>3, <2>1, ResolvedIs, PrintedIs
  <2> HIDE DEF g
  <2>3. /\ Content(m(5), Reg(g)) = ContentOf(b, l) /\ m(5).reg[g] \in Words
        /\ Content(m(5), Number(0)) = 0 /\ 0 \in Words
        /\ IsRegister(Reg(g)) /\ Number(0).in = "number"
    BY <2>1, MachineParts, ContentIs, SmallWords, OperandKinds
  <2>4. Resolved(e(5).held, Number(0)) = Number(0)
    BY ResolvedIs
  <2>5. Doing(b, e(5), m(5), U, D) /\ e(6) = Take(e(5), Write("cmp", V(l), Number(0)))
    BY <1>2, <1>6, <1>7, <1>8
  <2> QED BY <2>1, <2>2, <2>3, <2>4, <2>5, CmpTaken
<1>10. /\ Doing(b, e(7), m(7), U, D) /\ e(7).held = e(6).held
      /\ m(7).reg["rdi"] = Truth(Holds("ne", ContentOf(b, l), 0))
      /\ m(7).reg[e(3).held[l]] = ContentOf(b, l) /\ m(7).reg[e(3).held[r]] = ContentOf(b, r) /\ m(7).reg["rsi"] = 0
  <2>1. "rdi" \in RegisterNames /\ "rdi" \in U /\ "setne" \in SetNames
    BY <1>3, NamesAre, SetNamesAre
  <2>2. m(6).reg["rdi"] = 0 /\ m(6).compared[1] = ContentOf(b, l) /\ m(6).compared[2] = 0
    BY <1>6, <1>7, <1>8, <1>9 DEF ComparesTo
  <2>3. /\ Doing(b, e(7), m(7), U, D) /\ e(7).held = e(6).held
        /\ SetsRegister(m(6), m(7), "rdi", Truth(Holds(Conditions["setne"], m(6).compared[1], m(6).compared[2])))
    BY <1>2, <1>9, <2>1, <2>2, SetTaken
  <2>4. Conditions["setne"] = "ne"
    BY DEF Conditions
  <2> QED BY <1>6, <1>7, <1>8, <1>9, <2>1, <2>2, <2>3, <2>4, NamesAre, NamesDiffer DEF SetsRegister, ComparesTo
<1>11. /\ Doing(b, e(8), m(8), U, D) /\ e(8).held = e(7).held
      /\ ComparesTo(m(7), m(8), ContentOf(b, r), 0)
  <2> DEFINE g == e(7).held[r]
  <2>1. m(7) \in Machines /\ g \in RegisterNames /\ g # NoName /\ m(7).reg[g] = ContentOf(b, r)
    BY <1>6, <1>7, <1>8, <1>9, <1>10, NamesAre, NamesDiffer DEF Doing
  <2>2. Resolved(e(7).held, V(r)) = Reg(g)
    BY <1>3, <2>1, ResolvedIs, PrintedIs
  <2> HIDE DEF g
  <2>3. /\ Content(m(7), Reg(g)) = ContentOf(b, r) /\ m(7).reg[g] \in Words
        /\ Content(m(7), Number(0)) = 0 /\ 0 \in Words
        /\ IsRegister(Reg(g)) /\ Number(0).in = "number"
    BY <2>1, MachineParts, ContentIs, SmallWords, OperandKinds
  <2>4. Resolved(e(7).held, Number(0)) = Number(0)
    BY ResolvedIs
  <2>5. Doing(b, e(7), m(7), U, D) /\ e(8) = Take(e(7), Write("cmp", V(r), Number(0)))
    BY <1>2, <1>6, <1>7, <1>8, <1>9, <1>10
  <2> QED BY <2>1, <2>2, <2>3, <2>4, <2>5, CmpTaken
<1>12. /\ Doing(b, e(9), m(9), U, D) /\ e(9).held = e(8).held
      /\ m(9).reg["rsi"] = Truth(Holds("ne", ContentOf(b, r), 0))
      /\ m(9).reg["rdi"] = Truth(Holds("ne", ContentOf(b, l), 0))
  <2>1. "rsi" \in RegisterNames /\ "rsi" \in U /\ "setne" \in SetNames
    BY <1>3, NamesAre, SetNamesAre
  <2>2. m(8).reg["rsi"] = 0 /\ m(8).compared[1] = ContentOf(b, r) /\ m(8).compared[2] = 0
    BY <1>6, <1>7, <1>8, <1>9, <1>10, <1>11 DEF ComparesTo
  <2>3. /\ Doing(b, e(9), m(9), U, D) /\ e(9).held = e(8).held
        /\ SetsRegister(m(8), m(9), "rsi", Truth(Holds(Conditions["setne"], m(8).compared[1], m(8).compared[2])))
    BY <1>2, <1>11, <2>1, <2>2, SetTaken
  <2>4. Conditions["setne"] = "ne"
    BY DEF Conditions
  <2> QED BY <1>6, <1>7, <1>8, <1>9, <1>10, <1>11, <2>1, <2>2, <2>3, <2>4, NamesAre, NamesDiffer DEF SetsRegister, ComparesTo
<1>13. /\ Doing(b, e(10), m(10), U, D) /\ e(10).held = e(9).held
       /\ m(10).reg["rdi"] = Truth(IF op = "and" THEN ContentOf(b, l) # 0 /\ ContentOf(b, r) # 0 ELSE ContentOf(b, l) # 0 \/ ContentOf(b, r) # 0)
  <2> DEFINE i == Instruction(op, Reg("rdi"), Reg("rsi"))
             lhs == m(9).reg["rdi"]
             rhs == m(9).reg["rsi"]
  <2>1. "rdi" \in RegisterNames /\ "rdi" \in U /\ "rsi" \in RegisterNames
    BY <1>3, NamesAre
  <2>2. i = Instruction(op, Resolved(e(9).held, Reg("rdi")), Resolved(e(9).held, Reg("rsi"))) /\ Encodable(i)
    BY <2>1, ResolvedIs, OperandKinds, EncodableMove
  <2>3. m(9) \in Machines /\ Content(m(9), Reg("rsi")) = rhs
    BY <1>12, ContentIs DEF Doing
  <2>4. /\ lhs = (IF ContentOf(b, l) # 0 THEN 1 ELSE 0)
        /\ rhs = (IF ContentOf(b, r) # 0 THEN 1 ELSE 0)
    BY <1>12 DEF Truth, Holds
  <2> HIDE DEF lhs, rhs
  <2>5. lhs \in {0, 1} /\ rhs \in {0, 1} /\ lhs \in Words /\ rhs \in Words
    BY <2>4, SmallWords
  <2>6. Alu(op, lhs, rhs) = Joined(op, lhs, rhs)
    <3>1. op \in {"and", "or"} /\ op \in {"and", "or", "xor"}
      OBVIOUS
    <3>2. Alu(op, lhs, rhs) = LowBits(op, lhs, rhs)[Width]
      BY <2>5, <3>1, AluIs
    <3>3. LowBits(op, lhs, rhs)[Width] = Joined(op, lhs, rhs)
      BY <2>5, <3>1, TruthsJoined
    <3> QED BY <3>2, <3>3
  <2>7. Joined(op, lhs, rhs) = Truth(IF op = "and" THEN ContentOf(b, l) # 0 /\ ContentOf(b, r) # 0 ELSE ContentOf(b, l) # 0 \/ ContentOf(b, r) # 0) /\ Joined(op, lhs, rhs) \in {0, 1}
    <3>1. CASE op = "and"
      BY <2>4, <3>1 DEF Joined, Truth
    <3>2. CASE op = "or"
      BY <2>4, <3>2 DEF Joined, Truth
    <3> QED BY <3>1, <3>2
  <2>8. Cut(Joined(op, lhs, rhs)) = Joined(op, lhs, rhs)
    BY <2>7, SmallWords
  <2>9. SetsRegister(m(9), Executed(m(9), i), "rdi", Truth(IF op = "and" THEN ContentOf(b, l) # 0 /\ ContentOf(b, r) # 0 ELSE ContentOf(b, l) # 0 \/ ContentOf(b, r) # 0))
    <3>1. SetsRegister(m(9), Executed(m(9), i), "rdi", Cut(Alu(op, m(9).reg["rdi"], Content(m(9), Reg("rsi")))))
      <4>1. Content(m(9), Reg("rsi")) \in Words
        BY <2>3, <2>5
      <4> QED BY <2>1, <2>3, <4>1, AluWritten
    <3>2. m(9).reg["rdi"] = lhs
      BY DEF lhs
    <3> QED BY <2>3, <2>6, <2>7, <2>8, <3>1, <3>2
  <2> HIDE DEF i
  <2>10. Executed(m(9), i) \in Machines /\ Spares(m(9), Executed(m(9), i), U, D)
    BY <2>1, <2>9, RegisterSpares DEF SetsRegister
  <2>11. /\ Doing(b, e(10), Executed(m(9), i), U, D) /\ e(10).held = e(9).held
         /\ m(10) = Executed(m(9), i)
    BY <1>2, <1>12, <2>2, <2>10, WriteTaken
  <2> QED BY <2>9, <2>11 DEF SetsRegister
<1>14. /\ Doing(b, e(11), m(11), U, D) /\ e(11).held["v"] = q
       /\ m(11).reg[q] = Truth(IF op = "and" THEN ContentOf(b, l) # 0 /\ ContentOf(b, r) # 0 ELSE ContentOf(b, l) # 0 \/ ContentOf(b, r) # 0)
  <2>1. /\ Resolved(e(10).held, V("v")) = Reg(q) /\ "rdi" \in RegisterNames
        /\ Resolved(e(10).held, Reg("rdi")) = Reg("rdi")
    BY <1>3, <1>6, <1>7, <1>8, <1>9, <1>10, <1>11, <1>12, <1>13, ResolvedIs, PrintedIs, NamesAre
  <2> QED BY <1>2, <1>3, <1>6, <1>7, <1>8, <1>9, <1>10, <1>11, <1>12, <1>13, <2>1, RegMovTaken DEF SetsRegister
<1>15. Doing(b, e(12), m(12), U, D) /\ ContentOf(m(12), "v") = m(11).reg[q]
  BY <1>2, <1>3, <1>14, FromRegTaken
<1>16. Doing(b, e(13), m(12), U, D)
  BY <1>2, <1>3, <1>15, FreeRegTaken
<1>17. Doing(b, e(14), m(12), U, D)
  BY <1>2, <1>3, <1>16, FreeRegTaken
<1>18. Brings(b, Text(s), m(12), U, D)
  BY <1>2, <1>17 DEF Doing, Brings
<1> QED BY <1>14, <1>15, <1>18 DEF s

LEMMA NotRuns ==
  ASSUME Housed, NEW b, NEW U, NEW D, Fit(b, U, D), Taking(U, D),
         NEW r \in {"x", "y", "c"}
  PROVE  \E p : /\ Brings(b, Text(Not(r)), p, U, D)
                /\ ContentOf(p, "v") = Truth(ContentOf(b, r) = 0)
<1> DEFINE s == Not(r)
           e(k) == Writing(s)[k]
           m(k) == Run(b, e(k).text)
           q == IF Spilled("v") THEN "rax" ELSE home["v"]
<1>1. /\ Len(s) = 8
      /\ s[1] = OccupyReg("v", "rax")
      /\ s[2] = ToReg(r, "rdx")
      /\ s[3] = Write("xor", Reg("rsi"), Reg("rsi"))
      /\ s[4] = Write("cmp", V(r), Number(0))
      /\ s[5] = WriteOne("sete", Reg("rsi"))
      /\ s[6] = Write("mov", V("v"), Reg("rsi"))
      /\ s[7] = FromReg("v")
      /\ s[8] = FreeReg(r)
  BY DEF Not
<1> HIDE DEF s
<1>2. /\ e(0) = Blank
      /\ e(1) = Take(e(0), OccupyReg("v", "rax"))
      /\ e(2) = Take(e(1), ToReg(r, "rdx"))
      /\ e(3) = Take(e(2), Write("xor", Reg("rsi"), Reg("rsi")))
      /\ e(4) = Take(e(3), Write("cmp", V(r), Number(0)))
      /\ e(5) = Take(e(4), WriteOne("sete", Reg("rsi")))
      /\ e(6) = Take(e(5), Write("mov", V("v"), Reg("rsi")))
      /\ e(7) = Take(e(6), FromReg("v"))
      /\ e(8) = Take(e(7), FreeReg(r))
      /\ Text(s) = e(8).text
  <2>1. /\ e(0) = Blank
        /\ \A j \in 1 .. 8 : e(j) = Take(e(j - 1), s[j])
    <3>1. Len(s) = 8 /\ Len(s) \in Nat
      BY <1>1
    <3>2. /\ e(0) = Blank
          /\ \A j \in 1 .. Len(s) : e(j) = Take(e(j - 1), s[j])
      BY ONLY <3>1, WritingSteps
    <3> HIDE DEF e
    <3> QED BY <3>1, <3>2
  <2>2. Text(s) = e(8).text
    BY <1>1 DEF Text
  <2> HIDE DEF e
  <2>3. /\ e(1) = Take(e(0), s[1])
        /\ e(2) = Take(e(1), s[2])
        /\ e(3) = Take(e(2), s[3])
        /\ e(4) = Take(e(3), s[4])
        /\ e(5) = Take(e(4), s[5])
        /\ e(6) = Take(e(5), s[6])
        /\ e(7) = Take(e(6), s[7])
        /\ e(8) = Take(e(7), s[8])
    BY <2>1
  <2> QED BY <1>1, <2>1, <2>2, <2>3
<1> HIDE DEF e
<1>3. /\ b \in Machines /\ q \in U /\ q \in RegisterNames /\ q # NoName /\ q \in {"rax"} \cup Givens
      /\ r \in Nodes \ {"v"} /\ "v" \in Nodes
      /\ Scratch \subseteq RegisterNames /\ Scratch \subseteq U /\ "rax" \in Scratch
  <2>1. "rax" \in Scratch
    BY NamesAre
  <2>2. "v" \in Values /\ (~Spilled("v") => home["v"] \in Givens)
    BY Rooms, NamesDiffer
  <2> QED BY <2>1, <2>2, Free, NamesDiffer, NamesAre DEF Fit
<1> HIDE DEF q
<1>4. Doing(b, e(0), b, U, D) /\ \A n \in Nodes : Loose(n) => e(0).held[n] = NoName
  BY <1>2, <1>3, Begun
<1>5. Doing(b, e(1), b, U, D) /\ HeldBut(e(0), e(1), "v") /\ e(1).held["v"] = q
  BY <1>2, <1>3, <1>4, OccupyRegTaken DEF q
<1>6. /\ Doing(b, e(2), m(2), U, D) /\ e(2).held["v"] = q
      /\ e(2).held[r] \in {"rdx"} \cup Givens /\ m(2).reg[e(2).held[r]] = ContentOf(b, r)
      /\ m(2).mem = b.mem
  <2>1. Doing(b, e(1), b, U, D) /\ "rdx" \in Scratch /\ e(2) = Take(e(1), ToReg(r, "rdx"))
    BY <1>2, <1>5, NamesAre
  <2>2. r \in Nodes \ {"v"} /\ "v" \in Nodes /\ (~Loose(r) => home[r] \in Givens)
    BY <1>3, Rooms
  <2>3. /\ Doing(b, e(2), m(2), U, D) /\ e(2).held[r] = (IF Loose(r) THEN "rdx" ELSE home[r])
        /\ \A k \in Nodes \ {r} : e(2).held[k] = e(1).held[k]
        /\ m(2).reg[e(2).held[r]] = ContentOf(b, r) /\ m(2).mem = b.mem
    BY ONLY Housed, Fit(b, U, D), <2>1, <2>2, ToRegTaken
  <2> QED BY <1>5, <2>2, <2>3
<1>7. /\ Doing(b, e(3), m(3), U, D) /\ e(3).held = e(2).held
      /\ m(3).reg["rsi"] = 0
      /\ m(3).reg[e(2).held[r]] = ContentOf(b, r)
  <2>1. "rsi" \in RegisterNames /\ "rsi" \in U
    BY <1>3, NamesAre
  <2>2. Doing(b, e(3), m(3), U, D) /\ e(3).held = e(2).held /\ SetsRegister(m(2), m(3), "rsi", 0)
    BY <1>2, <1>6, <2>1, ClearTaken
  <2> QED BY <1>6, <2>1, <2>2, NamesAre, NamesDiffer DEF SetsRegister
<1>8. /\ Doing(b, e(4), m(4), U, D) /\ e(4).held = e(3).held
      /\ ComparesTo(m(3), m(4), ContentOf(b, r), 0)
  <2> DEFINE g == e(3).held[r]
  <2>1. m(3) \in Machines /\ g \in RegisterNames /\ g # NoName /\ m(3).reg[g] = ContentOf(b, r)
    BY <1>6, <1>7, NamesAre, NamesDiffer DEF Doing
  <2>2. Resolved(e(3).held, V(r)) = Reg(g)
    BY <1>3, <2>1, ResolvedIs, PrintedIs
  <2> HIDE DEF g
  <2>3. /\ Content(m(3), Reg(g)) = ContentOf(b, r) /\ m(3).reg[g] \in Words
        /\ Content(m(3), Number(0)) = 0 /\ 0 \in Words
        /\ IsRegister(Reg(g)) /\ Number(0).in = "number"
    BY <2>1, MachineParts, ContentIs, SmallWords, OperandKinds
  <2>4. Resolved(e(3).held, Number(0)) = Number(0)
    BY ResolvedIs
  <2>5. Doing(b, e(3), m(3), U, D) /\ e(4) = Take(e(3), Write("cmp", V(r), Number(0)))
    BY <1>2, <1>6, <1>7
  <2> QED BY <2>1, <2>2, <2>3, <2>4, <2>5, CmpTaken
<1>9. /\ Doing(b, e(5), m(5), U, D) /\ e(5).held = e(4).held
      /\ m(5).reg["rsi"] = Truth(Holds("e", ContentOf(b, r), 0))
      /\ m(5) \in Machines
  <2>1. "rsi" \in RegisterNames /\ "rsi" \in U /\ "sete" \in SetNames
    BY <1>3, NamesAre, SetNamesAre
  <2>2. m(4).reg["rsi"] = 0 /\ m(4).compared[1] = ContentOf(b, r) /\ m(4).compared[2] = 0
    BY <1>6, <1>7, <1>8 DEF ComparesTo
  <2>3. /\ Doing(b, e(5), m(5), U, D) /\ e(5).held = e(4).held
        /\ SetsRegister(m(4), m(5), "rsi", Truth(Holds(Conditions["sete"], m(4).compared[1], m(4).compared[2])))
    BY <1>2, <1>8, <2>1, <2>2, SetTaken
  <2>4. Conditions["sete"] = "e"
    BY DEF Conditions
  <2> QED BY <2>2, <2>3, <2>4 DEF SetsRegister
<1>10. /\ Doing(b, e(6), m(6), U, D) /\ e(6).held["v"] = q
       /\ m(6).reg[q] = Truth(ContentOf(b, r) = 0)
  <2>1. /\ Resolved(e(5).held, V("v")) = Reg(q) /\ "rsi" \in RegisterNames
        /\ Resolved(e(5).held, Reg("rsi")) = Reg("rsi")
    BY <1>3, <1>6, <1>7, <1>8, <1>9, ResolvedIs, PrintedIs, NamesAre
  <2>2. m(5).reg["rsi"] = Truth(ContentOf(b, r) = 0)
    BY <1>9 DEF Holds
  <2> QED BY <1>2, <1>3, <1>6, <1>7, <1>8, <1>9, <2>1, <2>2, RegMovTaken DEF SetsRegister
<1>11. Doing(b, e(7), m(7), U, D) /\ ContentOf(m(7), "v") = m(6).reg[q]
  BY <1>2, <1>3, <1>10, FromRegTaken
<1>12. Doing(b, e(8), m(7), U, D)
  BY <1>2, <1>3, <1>11, FreeRegTaken
<1>13. Brings(b, Text(s), m(7), U, D)
  BY <1>2, <1>12 DEF Doing, Brings
<1> QED BY <1>10, <1>11, <1>13 DEF s

LEMMA LoadRuns ==
  ASSUME Housed, NEW b, NEW U, NEW D, Fit(b, U, D), Taking(U, D),
         NEW src \in {"x", "a"}, ContentOf(b, src) \in Cells
  PROVE  \E p : /\ Brings(b, Text(Load(src)), p, U, D)
                /\ ContentOf(p, "v") = b.mem[ContentOf(b, src)]
<1> DEFINE s == Load(src)
           e(k) == Writing(s)[k]
           m(k) == Run(b, e(k).text)
           q == IF Spilled("v") THEN "rcx" ELSE home["v"]
<1>1. /\ Len(s) = 6
      /\ s[1] = OccupyReg("v", "rcx")
      /\ s[2] = ToReg(src, "rdx")
      /\ s[3] = Write("mov", Reg("rax"), At(src, 0))
      /\ s[4] = Write("mov", Reg("v"), Reg("rax"))
      /\ s[5] = FromReg("v")
      /\ s[6] = FreeReg(src)
  BY DEF Load
<1> HIDE DEF s
<1>2. /\ e(0) = Blank
      /\ e(1) = Take(e(0), OccupyReg("v", "rcx"))
      /\ e(2) = Take(e(1), ToReg(src, "rdx"))
      /\ e(3) = Take(e(2), Write("mov", Reg("rax"), At(src, 0)))
      /\ e(4) = Take(e(3), Write("mov", Reg("v"), Reg("rax")))
      /\ e(5) = Take(e(4), FromReg("v"))
      /\ e(6) = Take(e(5), FreeReg(src))
      /\ Text(s) = e(6).text
  <2>1. /\ e(0) = Blank
        /\ \A j \in 1 .. 6 : e(j) = Take(e(j - 1), s[j])
    <3>1. Len(s) = 6 /\ Len(s) \in Nat
      BY <1>1
    <3>2. /\ e(0) = Blank
          /\ \A j \in 1 .. Len(s) : e(j) = Take(e(j - 1), s[j])
      BY ONLY <3>1, WritingSteps
    <3> HIDE DEF e
    <3> QED BY <3>1, <3>2
  <2>2. Text(s) = e(6).text
    BY <1>1 DEF Text
  <2> HIDE DEF e
  <2>3. /\ e(1) = Take(e(0), s[1])
        /\ e(2) = Take(e(1), s[2])
        /\ e(3) = Take(e(2), s[3])
        /\ e(4) = Take(e(3), s[4])
        /\ e(5) = Take(e(4), s[5])
        /\ e(6) = Take(e(5), s[6])
    BY <2>1
  <2> QED BY <1>1, <2>1, <2>2, <2>3
<1> HIDE DEF e
<1>3. /\ b \in Machines /\ q \in U /\ q \in RegisterNames /\ q # NoName /\ q \in {"rcx"} \cup Givens
      /\ src \in Nodes \ {"v"} /\ "v" \in Nodes
      /\ Scratch \subseteq RegisterNames /\ Scratch \subseteq U /\ "rcx" \in Scratch
  <2>1. "rcx" \in Scratch
    BY NamesAre
  <2>2. "v" \in Values /\ (~Spilled("v") => home["v"] \in Givens)
    BY Rooms, NamesDiffer
  <2> QED BY <2>1, <2>2, Free, NamesDiffer, NamesAre DEF Fit
<1> HIDE DEF q
<1>4. Doing(b, e(0), b, U, D) /\ \A n \in Nodes : Loose(n) => e(0).held[n] = NoName
  BY <1>2, <1>3, Begun
<1>5. Doing(b, e(1), b, U, D) /\ HeldBut(e(0), e(1), "v") /\ e(1).held["v"] = q
  BY <1>2, <1>3, <1>4, OccupyRegTaken DEF q
<1>6. /\ Doing(b, e(2), m(2), U, D) /\ e(2).held["v"] = q
      /\ e(2).held[src] \in {"rdx"} \cup Givens /\ m(2).reg[e(2).held[src]] = ContentOf(b, src)
      /\ m(2).mem = b.mem
  <2>1. Doing(b, e(1), b, U, D) /\ "rdx" \in Scratch /\ e(2) = Take(e(1), ToReg(src, "rdx"))
    BY <1>2, <1>5, NamesAre
  <2>2. src \in Nodes \ {"v"} /\ "v" \in Nodes /\ (~Loose(src) => home[src] \in Givens)
    BY <1>3, Rooms
  <2>3. /\ Doing(b, e(2), m(2), U, D) /\ e(2).held[src] = (IF Loose(src) THEN "rdx" ELSE home[src])
        /\ \A k \in Nodes \ {src} : e(2).held[k] = e(1).held[k]
        /\ m(2).reg[e(2).held[src]] = ContentOf(b, src) /\ m(2).mem = b.mem
    BY ONLY Housed, Fit(b, U, D), <2>1, <2>2, ToRegTaken
  <2> QED BY <1>5, <2>2, <2>3
<1>7. Doing(b, e(3), m(3), U, D) /\ e(3).held = e(2).held /\ m(3).reg["rax"] = b.mem[ContentOf(b, src)]
  <2> DEFINE g == e(2).held[src]
             a == ContentOf(b, src)
  <2>1. g \in RegisterNames /\ m(2).reg[g] = a /\ "rax" \in RegisterNames /\ "rax" \in U
    BY <1>3, <1>6, NamesAre, NamesDiffer
  <2>2. Resolved(e(2).held, Reg("rax")) = Reg("rax") /\ Resolved(e(2).held, At(src, 0)) = At(g, 0)
    BY <1>3, <2>1, ResolvedIs
  <2> HIDE DEF g, a
  <2>3. a \in Cells /\ a \in Int /\ Cut(a) = a /\ b.mem[a] \in Words
    <3>1. a \in Cells
      BY DEF a
    <3>2. a \in Words /\ Cut(a) = a /\ a \in 1824 .. 2088
      BY <3>1, InCells
    <3>3. b.mem \in [Cells -> Words]
      BY ONLY <1>3, MachineParts
    <3> QED BY <3>1, <3>2, <3>3
  <2>4. a + 0 + 0 = a
    BY <2>3
  <2>5. Content(m(2), At(g, 0)) = b.mem[a] /\ IsMemory(At(g, 0))
    BY <1>6, <2>1, <2>3, <2>4, ContentIs, OperandKinds
  <2>6. Doing(b, e(2), m(2), U, D) /\ e(3) = Take(e(2), Write("mov", Reg("rax"), At(src, 0)))
    BY <1>2, <1>6
  <2> QED BY <2>1, <2>2, <2>3, <2>5, <2>6, MovTaken DEF SetsRegister, a
<1>8. /\ Doing(b, e(4), m(4), U, D) /\ e(4).held["v"] = q
      /\ m(4).reg[q] = b.mem[ContentOf(b, src)]
  <2>1. Resolved(e(3).held, Reg("v")) = Reg(q) /\ "rax" \in RegisterNames /\ Resolved(e(3).held, Reg("rax")) = Reg("rax")
    BY <1>3, <1>6, <1>7, ResolvedIs, NamesAre
  <2> QED BY <1>2, <1>3, <1>6, <1>7, <2>1, RegMovTaken DEF SetsRegister
<1>9. Doing(b, e(5), m(5), U, D) /\ ContentOf(m(5), "v") = m(4).reg[q]
  BY <1>2, <1>3, <1>8, FromRegTaken
<1>10. Doing(b, e(6), m(5), U, D)
  BY <1>2, <1>3, <1>9, FreeRegTaken
<1>11. Brings(b, Text(s), m(5), U, D)
  BY <1>2, <1>10 DEF Doing, Brings
<1> QED BY <1>8, <1>9, <1>11 DEF s

LEMMA SgepRuns ==
  ASSUME Housed, NEW b, NEW U, NEW D, Fit(b, U, D), Taking(U, D),
         NEW instance \in {"x", "a"}
  PROVE  \E p : /\ Brings(b, Text(Sgep(instance)), p, U, D)
                /\ ContentOf(p, "v") = Cut(ContentOf(b, instance) + FieldPhase)
<1> DEFINE s == Sgep(instance)
           e(k) == Writing(s)[k]
           m(k) == Run(b, e(k).text)
           q == IF Spilled("v") THEN "rax" ELSE home["v"]
<1>1. /\ Len(s) = 5
      /\ s[1] = OccupyReg("v", "rax")
      /\ s[2] = ToReg(instance, "rdx")
      /\ s[3] = Write("lea", V("v"), At(instance, FieldPhase))
      /\ s[4] = FromReg("v")
      /\ s[5] = FreeReg(instance)
  BY DEF Sgep
<1> HIDE DEF s
<1>2. /\ e(0) = Blank
      /\ e(1) = Take(e(0), OccupyReg("v", "rax"))
      /\ e(2) = Take(e(1), ToReg(instance, "rdx"))
      /\ e(3) = Take(e(2), Write("lea", V("v"), At(instance, FieldPhase)))
      /\ e(4) = Take(e(3), FromReg("v"))
      /\ e(5) = Take(e(4), FreeReg(instance))
      /\ Text(s) = e(5).text
  <2>1. /\ e(0) = Blank
        /\ \A j \in 1 .. 5 : e(j) = Take(e(j - 1), s[j])
    <3>1. Len(s) = 5 /\ Len(s) \in Nat
      BY <1>1
    <3>2. /\ e(0) = Blank
          /\ \A j \in 1 .. Len(s) : e(j) = Take(e(j - 1), s[j])
      BY ONLY <3>1, WritingSteps
    <3> HIDE DEF e
    <3> QED BY <3>1, <3>2
  <2>2. Text(s) = e(5).text
    BY <1>1 DEF Text
  <2> HIDE DEF e
  <2>3. /\ e(1) = Take(e(0), s[1])
        /\ e(2) = Take(e(1), s[2])
        /\ e(3) = Take(e(2), s[3])
        /\ e(4) = Take(e(3), s[4])
        /\ e(5) = Take(e(4), s[5])
    BY <2>1
  <2> QED BY <1>1, <2>1, <2>2, <2>3
<1> HIDE DEF e
<1>3. /\ b \in Machines /\ q \in U /\ q \in RegisterNames /\ q # NoName /\ q \in {"rax"} \cup Givens
      /\ instance \in Nodes \ {"v"} /\ "v" \in Nodes
      /\ Scratch \subseteq RegisterNames /\ Scratch \subseteq U /\ "rax" \in Scratch
  <2>1. "rax" \in Scratch
    BY NamesAre
  <2>2. "v" \in Values /\ (~Spilled("v") => home["v"] \in Givens)
    BY Rooms, NamesDiffer
  <2> QED BY <2>1, <2>2, Free, NamesDiffer, NamesAre DEF Fit
<1> HIDE DEF q
<1>4. Doing(b, e(0), b, U, D) /\ \A n \in Nodes : Loose(n) => e(0).held[n] = NoName
  BY <1>2, <1>3, Begun
<1>5. Doing(b, e(1), b, U, D) /\ HeldBut(e(0), e(1), "v") /\ e(1).held["v"] = q
  BY <1>2, <1>3, <1>4, OccupyRegTaken DEF q
<1>6. /\ Doing(b, e(2), m(2), U, D) /\ e(2).held["v"] = q
      /\ e(2).held[instance] \in {"rdx"} \cup Givens /\ m(2).reg[e(2).held[instance]] = ContentOf(b, instance)
      /\ m(2).mem = b.mem
  <2>1. Doing(b, e(1), b, U, D) /\ "rdx" \in Scratch /\ e(2) = Take(e(1), ToReg(instance, "rdx"))
    BY <1>2, <1>5, NamesAre
  <2>2. instance \in Nodes \ {"v"} /\ "v" \in Nodes /\ (~Loose(instance) => home[instance] \in Givens)
    BY <1>3, Rooms
  <2>3. /\ Doing(b, e(2), m(2), U, D) /\ e(2).held[instance] = (IF Loose(instance) THEN "rdx" ELSE home[instance])
        /\ \A k \in Nodes \ {instance} : e(2).held[k] = e(1).held[k]
        /\ m(2).reg[e(2).held[instance]] = ContentOf(b, instance) /\ m(2).mem = b.mem
    BY ONLY Housed, Fit(b, U, D), <2>1, <2>2, ToRegTaken
  <2> QED BY <1>5, <2>2, <2>3
<1>7. /\ Doing(b, e(3), m(3), U, D) /\ e(3).held["v"] = q
      /\ m(3).reg[q] = Cut(ContentOf(b, instance) + FieldPhase)
  <2> DEFINE g == e(2).held[instance]
             n == ContentOf(b, instance)
  <2>1. g \in RegisterNames /\ m(2).reg[g] = n /\ m(2) \in Machines
    BY <1>3, <1>6, NamesAre, NamesDiffer DEF Doing
  <2>2. Resolved(e(2).held, V("v")) = Reg(q) /\ Resolved(e(2).held, At(instance, FieldPhase)) = At(g, FieldPhase)
    BY <1>3, <1>6, <2>1, ResolvedIs, PrintedIs
  <2> HIDE DEF g, n
  <2>3. n \in Int
    BY <2>1, MachineParts, WordIs
  <2>4. n + FieldPhase + 0 = n + FieldPhase /\ n + FieldPhase \in Int
    BY <2>3 DEF FieldPhase
  <2>5. /\ Address(m(2), At(g, FieldPhase)) = Cut(n + FieldPhase) /\ Cut(n + FieldPhase) \in Words
        /\ IsMemory(At(g, FieldPhase))
    BY <2>1, <2>4, ContentIs, CutIsWord, OperandKinds
  <2>6. Doing(b, e(2), m(2), U, D) /\ e(3) = Take(e(2), Write("lea", V("v"), At(instance, FieldPhase)))
    BY <1>2, <1>6
  <2>7. Doing(b, e(3), m(3), U, D) /\ e(3).held = e(2).held /\ SetsRegister(m(2), m(3), q, Cut(n + FieldPhase))
    BY <1>3, <2>2, <2>5, <2>6, LeaTaken
  <2> QED BY <1>6, <2>7 DEF SetsRegister, n
<1>8. Doing(b, e(4), m(4), U, D) /\ ContentOf(m(4), "v") = m(3).reg[q]
  BY <1>2, <1>3, <1>7, FromRegTaken
<1>9. Doing(b, e(5), m(4), U, D)
  BY <1>2, <1>3, <1>8, FreeRegTaken
<1>10. Brings(b, Text(s), m(4), U, D)
  BY <1>2, <1>9 DEF Doing, Brings
<1> QED BY <1>7, <1>8, <1>10 DEF s

LEMMA ScaledGepRuns ==
  ASSUME Housed, NEW b, NEW U, NEW D, Fit(b, U, D), Taking(U, D),
         NEW base \in {"x", "a"}, NEW index \in {"y", "c"}
  PROVE  \E p : /\ Brings(b, Text(Gep(8, base, index)), p, U, D)
                /\ ContentOf(p, "v") = Cut(ContentOf(b, base) + (ContentOf(b, index) * 8))
<1> DEFINE s == Gep(8, base, index)
           e(k) == Writing(s)[k]
           m(k) == Run(b, e(k).text)
           q == IF Spilled("v") THEN "rdx" ELSE home["v"]
<1>1. /\ Len(s) = 7
      /\ s[1] = OccupyReg("v", "rdx")
      /\ s[2] = ToReg(base, "rcx")
      /\ s[3] = ToReg(index, "rax")
      /\ s[4] = Write("lea", V("v"), Indexed(base, index, 8, 0))
      /\ s[5] = FromReg("v")
      /\ s[6] = FreeReg(base)
      /\ s[7] = FreeReg(index)
  BY DEF Gep
<1> HIDE DEF s
<1>2. /\ e(0) = Blank
      /\ e(1) = Take(e(0), OccupyReg("v", "rdx"))
      /\ e(2) = Take(e(1), ToReg(base, "rcx"))
      /\ e(3) = Take(e(2), ToReg(index, "rax"))
      /\ e(4) = Take(e(3), Write("lea", V("v"), Indexed(base, index, 8, 0)))
      /\ e(5) = Take(e(4), FromReg("v"))
      /\ e(6) = Take(e(5), FreeReg(base))
      /\ e(7) = Take(e(6), FreeReg(index))
      /\ Text(s) = e(7).text
  <2>1. /\ e(0) = Blank
        /\ \A j \in 1 .. 7 : e(j) = Take(e(j - 1), s[j])
    <3>1. Len(s) = 7 /\ Len(s) \in Nat
      BY <1>1
    <3>2. /\ e(0) = Blank
          /\ \A j \in 1 .. Len(s) : e(j) = Take(e(j - 1), s[j])
      BY ONLY <3>1, WritingSteps
    <3> HIDE DEF e
    <3> QED BY <3>1, <3>2
  <2>2. Text(s) = e(7).text
    BY <1>1 DEF Text
  <2> HIDE DEF e
  <2>3. /\ e(1) = Take(e(0), s[1])
        /\ e(2) = Take(e(1), s[2])
        /\ e(3) = Take(e(2), s[3])
        /\ e(4) = Take(e(3), s[4])
        /\ e(5) = Take(e(4), s[5])
        /\ e(6) = Take(e(5), s[6])
        /\ e(7) = Take(e(6), s[7])
    BY <2>1
  <2> QED BY <1>1, <2>1, <2>2, <2>3
<1> HIDE DEF e
<1>3. /\ b \in Machines /\ q \in U /\ q \in RegisterNames /\ q # NoName /\ q \in {"rdx"} \cup Givens
      /\ base \in Nodes \ {"v"} /\ index \in Nodes \ {"v"} /\ "v" \in Nodes
      /\ Scratch \subseteq RegisterNames /\ Scratch \subseteq U /\ "rdx" \in Scratch
  <2>1. "rdx" \in Scratch
    BY NamesAre
  <2>2. "v" \in Values /\ (~Spilled("v") => home["v"] \in Givens)
    BY Rooms, NamesDiffer
  <2> QED BY <2>1, <2>2, Free, NamesDiffer, NamesAre DEF Fit
<1> HIDE DEF q
<1>4. Doing(b, e(0), b, U, D) /\ \A n \in Nodes : Loose(n) => e(0).held[n] = NoName
  BY <1>2, <1>3, Begun
<1>5. Doing(b, e(1), b, U, D) /\ HeldBut(e(0), e(1), "v") /\ e(1).held["v"] = q
  BY <1>2, <1>3, <1>4, OccupyRegTaken DEF q
<1>6. /\ Doing(b, e(3), m(3), U, D) /\ e(3).held["v"] = q
      /\ m(3).reg[e(3).held[base]] = ContentOf(b, base) /\ m(3).reg[e(3).held[index]] = ContentOf(b, index)
      /\ e(3).held[base] \in {"rcx"} \cup Givens /\ e(3).held[index] \in {"rax"} \cup Givens
      /\ m(3).went = b.went /\ m(3).mem = b.mem
  <2>1. "rcx" \in Scratch /\ "rax" \in Scratch /\ "rcx" # "rax"
    BY NamesAre
  <2>2. Doing(b, e(1), b, U, D)
    BY <1>5
  <2>3. e(3) = Take(Take(e(1), ToReg(base, "rcx")), ToReg(index, "rax"))
    BY <1>2
  <2>4. base \in Nodes \ {"v"} /\ index \in Nodes \ {"v"}
        /\ base # index
    BY <1>3
  <2>5. /\ Doing(b, e(3), m(3), U, D) /\ e(3).held["v"] = e(1).held["v"]
        /\ m(3).reg[e(3).held[base]] = ContentOf(b, base) /\ m(3).reg[e(3).held[index]] = ContentOf(b, index)
        /\ e(3).held[base] \in {"rcx"} \cup Givens /\ e(3).held[index] \in {"rax"} \cup Givens
        /\ m(3).went = b.went /\ m(3).mem = b.mem
    BY ONLY Housed, Fit(b, U, D), <2>1, <2>2, <2>3, <2>4, TwoTaken
  <2> QED BY <1>5, <2>5
<1>7. /\ Doing(b, e(4), m(4), U, D) /\ e(4).held["v"] = q
      /\ m(4).reg[q] = Cut(ContentOf(b, base) + (ContentOf(b, index) * 8))
  <2> DEFINE g == e(3).held[base]
             h == e(3).held[index]
             n == ContentOf(b, base)
             k == ContentOf(b, index)
  <2>1. /\ g \in RegisterNames /\ m(3).reg[g] = n /\ m(3) \in Machines
        /\ h \in RegisterNames /\ m(3).reg[h] = k /\ h # NoName
    BY <1>3, <1>6, NamesAre, NamesDiffer DEF Doing
  <2>2. /\ Resolved(e(3).held, V("v")) = Reg(q)
        /\ Resolved(e(3).held, Indexed(base, index, 8, 0)) = Indexed(g, h, 8, 0)
    BY <1>3, <1>6, <2>1, ResolvedIs, PrintedIs
  <2> HIDE DEF g, h, n, k
  <2>3. n \in Int /\ k \in Int
    BY <2>1, MachineParts, WordIs
  <2>4. n + 0 + (k * 8) = n + (k * 8) /\ n + (k * 8) \in Int
    BY <2>3
  <2>5. /\ Address(m(3), Indexed(g, h, 8, 0)) = Cut(n + (k * 8)) /\ Cut(n + (k * 8)) \in Words
        /\ IsMemory(Indexed(g, h, 8, 0))
    BY <2>1, <2>4, ContentIs, CutIsWord, OperandKinds
  <2>6. Doing(b, e(3), m(3), U, D) /\ e(4) = Take(e(3), Write("lea", V("v"), Indexed(base, index, 8, 0)))
    BY <1>2, <1>6
  <2>7. Doing(b, e(4), m(4), U, D) /\ e(4).held = e(3).held /\ SetsRegister(m(3), m(4), q, Cut(n + (k * 8)))
    BY <1>3, <2>2, <2>5, <2>6, LeaTaken
  <2> QED BY <1>6, <2>7 DEF SetsRegister, n, k
<1>8. Doing(b, e(5), m(5), U, D) /\ ContentOf(m(5), "v") = m(4).reg[q]
  BY <1>2, <1>3, <1>7, FromRegTaken
<1>9. Doing(b, e(6), m(5), U, D)
  BY <1>2, <1>3, <1>8, FreeRegTaken
<1>10. Doing(b, e(7), m(5), U, D)
  BY <1>2, <1>3, <1>9, FreeRegTaken
<1>11. Brings(b, Text(s), m(5), U, D)
  BY <1>2, <1>10 DEF Doing, Brings
<1> QED BY <1>7, <1>8, <1>11 DEF s

LEMMA MultipliedGepRuns ==
  ASSUME Housed, NEW b, NEW U, NEW D, Fit(b, U, D), Taking(U, D),
         NEW base \in {"x", "a"}, NEW index \in {"y", "c"}
  PROVE  \E p : /\ Brings(b, Text(Gep(24, base, index)), p, U, D)
                /\ ContentOf(p, "v") = Cut(ContentOf(b, base) + (ContentOf(b, index) * 24))
<1> DEFINE s == Gep(24, base, index)
           e(k) == Writing(s)[k]
           m(k) == Run(b, e(k).text)
           q == IF Spilled("v") THEN "rdx" ELSE home["v"]
<1>1. /\ Len(s) = 10
      /\ s[1] = OccupyReg("v", "rdx")
      /\ s[2] = ToReg(base, "rcx")
      /\ s[3] = ToReg(index, "rax")
      /\ s[4] = Write("mov", Reg("rax"), Reg(index))
      /\ s[5] = Write("mov", Reg("rdi"), Number(24))
      /\ s[6] = WriteOne("mul", Reg("rdi"))
      /\ s[7] = Write("lea", V("v"), Indexed(base, "rax", 1, 0))
      /\ s[8] = FromReg("v")
      /\ s[9] = FreeReg(base)
      /\ s[10] = FreeReg(index)
  BY DEF Gep
<1> HIDE DEF s
<1>2. /\ e(0) = Blank
      /\ e(1) = Take(e(0), OccupyReg("v", "rdx"))
      /\ e(2) = Take(e(1), ToReg(base, "rcx"))
      /\ e(3) = Take(e(2), ToReg(index, "rax"))
      /\ e(4) = Take(e(3), Write("mov", Reg("rax"), Reg(index)))
      /\ e(5) = Take(e(4), Write("mov", Reg("rdi"), Number(24)))
      /\ e(6) = Take(e(5), WriteOne("mul", Reg("rdi")))
      /\ e(7) = Take(e(6), Write("lea", V("v"), Indexed(base, "rax", 1, 0)))
      /\ e(8) = Take(e(7), FromReg("v"))
      /\ e(9) = Take(e(8), FreeReg(base))
      /\ e(10) = Take(e(9), FreeReg(index))
      /\ Text(s) = e(10).text
  <2>1. /\ e(0) = Blank
        /\ \A j \in 1 .. 10 : e(j) = Take(e(j - 1), s[j])
    <3>1. Len(s) = 10 /\ Len(s) \in Nat
      BY <1>1
    <3>2. /\ e(0) = Blank
          /\ \A j \in 1 .. Len(s) : e(j) = Take(e(j - 1), s[j])
      BY ONLY <3>1, WritingSteps
    <3> HIDE DEF e
    <3> QED BY <3>1, <3>2
  <2>2. Text(s) = e(10).text
    BY <1>1 DEF Text
  <2> HIDE DEF e
  <2>3. /\ e(1) = Take(e(0), s[1])
        /\ e(2) = Take(e(1), s[2])
        /\ e(3) = Take(e(2), s[3])
        /\ e(4) = Take(e(3), s[4])
        /\ e(5) = Take(e(4), s[5])
        /\ e(6) = Take(e(5), s[6])
        /\ e(7) = Take(e(6), s[7])
        /\ e(8) = Take(e(7), s[8])
        /\ e(9) = Take(e(8), s[9])
        /\ e(10) = Take(e(9), s[10])
    BY <2>1
  <2> QED BY <1>1, <2>1, <2>2, <2>3
<1> HIDE DEF e
<1>3. /\ b \in Machines /\ q \in U /\ q \in RegisterNames /\ q # NoName /\ q \in {"rdx"} \cup Givens
      /\ base \in Nodes \ {"v"} /\ index \in Nodes \ {"v"} /\ "v" \in Nodes
      /\ Scratch \subseteq RegisterNames /\ Scratch \subseteq U /\ "rdx" \in Scratch
  <2>1. "rdx" \in Scratch
    BY NamesAre
  <2>2. "v" \in Values /\ (~Spilled("v") => home["v"] \in Givens)
    BY Rooms, NamesDiffer
  <2> QED BY <2>1, <2>2, Free, NamesDiffer, NamesAre DEF Fit
<1> HIDE DEF q
<1>4. Doing(b, e(0), b, U, D) /\ \A n \in Nodes : Loose(n) => e(0).held[n] = NoName
  BY <1>2, <1>3, Begun
<1>5. Doing(b, e(1), b, U, D) /\ HeldBut(e(0), e(1), "v") /\ e(1).held["v"] = q
  BY <1>2, <1>3, <1>4, OccupyRegTaken DEF q
<1>6. /\ Doing(b, e(3), m(3), U, D) /\ e(3).held["v"] = q
      /\ m(3).reg[e(3).held[base]] = ContentOf(b, base) /\ m(3).reg[e(3).held[index]] = ContentOf(b, index)
      /\ e(3).held[base] \in {"rcx"} \cup Givens /\ e(3).held[index] \in {"rax"} \cup Givens
      /\ m(3).went = b.went /\ m(3).mem = b.mem
  <2>1. "rcx" \in Scratch /\ "rax" \in Scratch /\ "rcx" # "rax"
    BY NamesAre
  <2>2. Doing(b, e(1), b, U, D)
    BY <1>5
  <2>3. e(3) = Take(Take(e(1), ToReg(base, "rcx")), ToReg(index, "rax"))
    BY <1>2
  <2>4. base \in Nodes \ {"v"} /\ index \in Nodes \ {"v"}
        /\ base # index
    BY <1>3
  <2>5. /\ Doing(b, e(3), m(3), U, D) /\ e(3).held["v"] = e(1).held["v"]
        /\ m(3).reg[e(3).held[base]] = ContentOf(b, base) /\ m(3).reg[e(3).held[index]] = ContentOf(b, index)
        /\ e(3).held[base] \in {"rcx"} \cup Givens /\ e(3).held[index] \in {"rax"} \cup Givens
        /\ m(3).went = b.went /\ m(3).mem = b.mem
    BY ONLY Housed, Fit(b, U, D), <2>1, <2>2, <2>3, <2>4, TwoTaken
  <2> QED BY <1>5, <2>5
<1>7. /\ Doing(b, e(4), m(4), U, D) /\ e(4).held = e(3).held
      /\ m(4).reg["rax"] = ContentOf(b, index) /\ m(4).reg[e(3).held[base]] = ContentOf(b, base)
  <2> DEFINE h == e(3).held[index]
  <2>1. /\ "rax" \in RegisterNames /\ "rax" \in U /\ h \in RegisterNames
        /\ e(3).held[base] \in RegisterNames /\ e(3).held[base] # "rax"
    BY <1>3, <1>6, NamesAre, NamesDiffer
  <2>2. Resolved(e(3).held, Reg("rax")) = Reg("rax") /\ Resolved(e(3).held, Reg(index)) = Reg(h)
    BY <1>3, <2>1, ResolvedIs
  <2>3. Doing(b, e(3), m(3), U, D) /\ e(4) = Take(e(3), Write("mov", Reg("rax"), Reg(index)))
    BY <1>2, <1>6
  <2>4. Doing(b, e(4), m(4), U, D) /\ e(4).held = e(3).held /\ SetsRegister(m(3), m(4), "rax", m(3).reg[h])
    BY <2>1, <2>2, <2>3, RegMovTaken
  <2> QED BY <1>6, <2>1, <2>4 DEF SetsRegister
<1>8. /\ Doing(b, e(5), m(5), U, D) /\ e(5).held = e(3).held /\ m(5).reg["rdi"] = 24
      /\ m(5).reg["rax"] = ContentOf(b, index) /\ m(5).reg[e(3).held[base]] = ContentOf(b, base)
  <2>1. /\ "rdi" \in RegisterNames /\ "rdi" \in U /\ "rax" \in RegisterNames
        /\ e(3).held[base] \in RegisterNames /\ e(3).held[base] # "rdi"
    BY <1>3, <1>6, NamesAre, NamesDiffer
  <2>2. Resolved(e(4).held, Reg("rdi")) = Reg("rdi") /\ Resolved(e(4).held, Number(24)) = Number(24)
    BY <2>1, ResolvedIs
  <2>3. Doing(b, e(4), m(4), U, D) /\ e(5) = Take(e(4), Write("mov", Reg("rdi"), Number(24)))
    BY <1>2, <1>7
  <2>4. Content(m(4), Number(24)) = 24 /\ 24 \in Words /\ Number(24).in = "number"
    <3>1. Cut(24) = 24 /\ 24 \in Words /\ 24 \in Int
      BY SmallWords
    <3> QED BY <3>1, ContentIs, OperandKinds
  <2>5. Doing(b, e(5), m(5), U, D) /\ e(5).held = e(4).held /\ SetsRegister(m(4), m(5), "rdi", 24)
    BY <2>1, <2>2, <2>3, <2>4, MovTaken
  <2> QED BY <1>7, <2>1, <2>5 DEF SetsRegister
<1>9. /\ Doing(b, e(6), m(6), U, D) /\ e(6).held = e(3).held
      /\ m(6).reg["rax"] = Cut(ContentOf(b, index) * 24) /\ m(6).reg[e(3).held[base]] = ContentOf(b, base)
  <2> DEFINE i == Instruction("mul", Reg("rdi"), Nothing)
  <2>1. /\ "rdi" \in RegisterNames /\ "rax" \in U /\ "rdx" \in U
        /\ e(3).held[base] \in RegisterNames /\ e(3).held[base] \notin {"rax", "rdx"}
    BY <1>3, <1>6, NamesAre, NamesDiffer
  <2>2. i = Instruction("mul", Resolved(e(5).held, Reg("rdi")), Resolved(e(5).held, Nothing))
    BY <2>1, ResolvedIs
  <2>3. Encodable(i)
    <3>1. IsRegister(Reg("rdi")) /\ i.op = "mul" /\ i.to = Reg("rdi")
      BY <2>1, OperandKinds, InstructionParts
    <3> HIDE DEF i
    <3> QED BY <3>1 DEF Encodable
  <2>4. m(5) \in Machines
    BY <1>8 DEF Doing
  <2>5. SetsBoth(m(5), Executed(m(5), i), Cut(m(5).reg["rax"] * m(5).reg["rdi"]), (m(5).reg["rax"] * m(5).reg["rdi"]) \div Word)
    BY <2>1, <2>4, MulIs
  <2> HIDE DEF i
  <2>6. Executed(m(5), i) \in Machines /\ Spares(m(5), Executed(m(5), i), U, D)
    BY <2>1, <2>5 DEF SetsBoth, Spares
  <2>7. /\ Doing(b, e(6), Executed(m(5), i), U, D) /\ e(6).held = e(5).held
        /\ m(6) = Executed(m(5), i)
    BY <1>2, <1>8, <2>2, <2>3, <2>6, WriteTaken DEF WriteOne
  <2> QED BY <1>8, <2>1, <2>5, <2>7 DEF SetsBoth
<1>10. /\ Doing(b, e(7), m(7), U, D) /\ e(7).held["v"] = q
       /\ m(7).reg[q] = Cut(ContentOf(b, base) + (ContentOf(b, index) * 24))
  <2> DEFINE g == e(6).held[base]
             n == ContentOf(b, base)
             k == ContentOf(b, index)
  <2>1. /\ g \in RegisterNames /\ m(6).reg[g] = n /\ m(6) \in Machines /\ k \in Words
        /\ "rax" \in RegisterNames /\ m(6).reg["rax"] = Cut(k * 24) /\ "rax" # NoName
    BY <1>3, <1>6, <1>9, NamesAre, NamesDiffer, ContentOfIs DEF Doing, Fit
  <2>2. /\ Resolved(e(6).held, V("v")) = Reg(q)
        /\ Resolved(e(6).held, Indexed(base, "rax", 1, 0)) = Indexed(g, "rax", 1, 0)
    BY <1>3, <1>6, <1>9, <2>1, ResolvedIs, PrintedIs
  <2> HIDE DEF g, n, k
  <2>3. n \in Int /\ k * 24 \in Int
    BY <2>1, MachineParts, WordIs
  <2>4. Cut(k * 24) \in Int /\ Cut(n + (k * 24)) \in Words /\ Cut(n + Cut(k * 24)) = Cut(n + (k * 24))
    <3> DEFINE j == k * 24
    <3>1. j \in Int
      BY <2>3
    <3> HIDE DEF j
    <3>2. Cut(j) \in Words /\ Cut(n + j) \in Words
      BY <2>3, <3>1, CutIsWord
    <3>3. Cut(j) \in Int
      BY <3>2, WordIs
    <3>4. Cut(n + Cut(j)) = Cut(n + j)
      BY <2>3, <3>1, CutWithin
    <3> QED BY <3>2, <3>3, <3>4 DEF j
  <2>5. n + 0 + (Cut(k * 24) * 1) = n + Cut(k * 24)
    BY <2>3, <2>4
  <2>6. /\ Address(m(6), Indexed(g, "rax", 1, 0)) = Cut(n + (k * 24))
        /\ IsMemory(Indexed(g, "rax", 1, 0))
    BY <2>1, <2>4, <2>5, ContentIs, OperandKinds
  <2>7. Doing(b, e(6), m(6), U, D) /\ e(7) = Take(e(6), Write("lea", V("v"), Indexed(base, "rax", 1, 0)))
    BY <1>2, <1>9
  <2>8. Doing(b, e(7), m(7), U, D) /\ e(7).held = e(6).held /\ SetsRegister(m(6), m(7), q, Cut(n + (k * 24)))
    BY <1>3, <2>2, <2>4, <2>6, <2>7, LeaTaken
  <2> QED BY <1>6, <1>9, <2>8 DEF SetsRegister, n, k
<1>11. Doing(b, e(8), m(8), U, D) /\ ContentOf(m(8), "v") = m(7).reg[q]
  BY <1>2, <1>3, <1>10, FromRegTaken
<1>12. Doing(b, e(9), m(8), U, D)
  BY <1>2, <1>3, <1>11, FreeRegTaken
<1>13. Doing(b, e(10), m(8), U, D)
  BY <1>2, <1>3, <1>12, FreeRegTaken
<1>14. Brings(b, Text(s), m(8), U, D)
  BY <1>2, <1>13 DEF Doing, Brings
<1> QED BY <1>10, <1>11, <1>14 DEF s

LEMMA ComparisonRuns ==
  ASSUME Housed, NEW b, NEW U, NEW D, Fit(b, U, D), Taking(U, D),
         NEW set \in SetNames, NEW l \in {"x", "y", "c"}, NEW r \in {"x", "y", "c"}
  PROVE  \E p : /\ Brings(b, Text(Comparison(set, l, r)), p, U, D)
                /\ ContentOf(p, "v") = Truth(Holds(Conditions[set], ContentOf(b, l), ContentOf(b, r)))
<1> DEFINE s == Comparison(set, l, r)
           e(k) == Writing(s)[k]
           m(k) == Run(b, e(k).text)
<1>1. /\ Len(s) = 6
      /\ s[1] = Write("xor", Reg("rax"), Reg("rax"))
      /\ s[2] = ToReg(l, "rcx")
      /\ s[3] = Write("cmp", V(l), V(r))
      /\ s[4] = FreeReg(l)
      /\ s[5] = WriteOne(set, Reg("rax"))
      /\ s[6] = Write("mov", V("v"), Reg("rax"))
  BY DEF Comparison
<1> HIDE DEF s
<1>2. /\ e(0) = Blank
      /\ e(1) = Take(e(0), Write("xor", Reg("rax"), Reg("rax")))
      /\ e(2) = Take(e(1), ToReg(l, "rcx"))
      /\ e(3) = Take(e(2), Write("cmp", V(l), V(r)))
      /\ e(4) = Take(e(3), FreeReg(l))
      /\ e(5) = Take(e(4), WriteOne(set, Reg("rax")))
      /\ e(6) = Take(e(5), Write("mov", V("v"), Reg("rax")))
      /\ Text(s) = e(6).text
  <2>1. /\ e(0) = Blank
        /\ \A j \in 1 .. 6 : e(j) = Take(e(j - 1), s[j])
    <3>1. Len(s) = 6 /\ Len(s) \in Nat
      BY <1>1
    <3>2. /\ e(0) = Blank
          /\ \A j \in 1 .. Len(s) : e(j) = Take(e(j - 1), s[j])
      BY ONLY <3>1, WritingSteps
    <3> HIDE DEF e
    <3> QED BY <3>1, <3>2
  <2>2. Text(s) = e(6).text
    BY <1>1 DEF Text
  <2> HIDE DEF e
  <2>3. /\ e(1) = Take(e(0), s[1])
        /\ e(2) = Take(e(1), s[2])
        /\ e(3) = Take(e(2), s[3])
        /\ e(4) = Take(e(3), s[4])
        /\ e(5) = Take(e(4), s[5])
        /\ e(6) = Take(e(5), s[6])
    BY <2>1
  <2> QED BY <1>1, <2>1, <2>2, <2>3
<1> HIDE DEF e
<1>3. /\ b \in Machines /\ l \in Nodes \ {"v"} /\ r \in Nodes \ {"v"} /\ "v" \in Nodes
      /\ {"rax", "rcx"} \subseteq RegisterNames /\ {"rax", "rcx"} \subseteq U /\ {"rax", "rcx"} \subseteq Scratch
      /\ l \notin {"f", "a", "b"} /\ r \notin {"f", "a", "b"} /\ "rax" # "rcx"
  BY NamesDiffer, NamesAre DEF Fit
<1>4. Doing(b, e(0), b, U, D) /\ \A n \in Nodes : Loose(n) => e(0).held[n] = NoName
  BY <1>2, <1>3, Begun
<1>5. Doing(b, e(1), m(1), U, D) /\ e(1).held = e(0).held /\ m(1).reg["rax"] = 0
  BY <1>2, <1>3, <1>4, ClearTaken DEF SetsRegister
<1>6. /\ Doing(b, e(2), m(2), U, D)
      /\ e(2).held[l] \in {"rcx"} \cup Givens
      /\ \A n \in Nodes \ {l} : Loose(n) => e(2).held[n] = NoName
      /\ m(2).reg[e(2).held[l]] = ContentOf(b, l) /\ m(2).reg["rax"] = 0
  <2>1. /\ Doing(b, e(2), m(2), U, D)
        /\ e(2).held[l] = (IF Loose(l) THEN "rcx" ELSE home[l])
        /\ \A k \in Nodes \ {l} : e(2).held[k] = e(1).held[k]
        /\ m(2).reg[e(2).held[l]] = ContentOf(b, l)
        /\ \A z \in RegisterNames \ {"rcx"} : m(2).reg[z] = m(1).reg[z]
    BY <1>2, <1>3, <1>5, ToRegTaken
  <2>2. ~Loose(l) => home[l] \in Givens
    BY <1>3, Rooms
  <2> QED BY <1>3, <1>4, <1>5, <2>1, <2>2
<1>7. /\ Doing(b, e(3), m(3), U, D) /\ e(3).held = e(2).held
      /\ ComparesTo(m(2), m(3), ContentOf(b, l), ContentOf(b, r))
  <2> DEFINE g == Reg(e(2).held[l])
             o == Printed(e(2).held, r)
  <2>1. /\ m(2) \in Machines /\ m(2).reg["rbp"] = 2040 /\ ContentOf(m(2), r) = ContentOf(b, r)
        /\ Holding(e(2).held)
    BY <1>3, <1>6, LeftAlone DEF Doing
  <2>2. e(2).held[l] \in RegisterNames /\ e(2).held[l] # NoName
    BY <1>3, <1>6, NamesAre, NamesDiffer
  <2>3. /\ Resolved(e(2).held, V(l)) = g /\ Resolved(e(2).held, V(r)) = o
    BY <1>3, <2>2, ResolvedIs, PrintedIs
  <2>4. IsRegister(g) /\ Content(m(2), g) = ContentOf(b, l) /\ Content(m(2), g) \in Words
    BY <1>6, <2>1, <2>2, ContentIs, OperandKinds, MachineParts
  <2>5. /\ Content(m(2), o) = ContentOf(b, r) /\ Content(m(2), o) \in Words
        /\ IsRegister(o) \/ IsMemory(o) \/ o.in = "number"
    <3>1. CASE l = r
      <4>1. o = g
        BY <1>3, <2>2, <3>1, PrintedIs
      <4> QED BY <2>4, <3>1, <4>1
    <3>2. CASE l # r
      <4>1. Loose(r) => e(2).held[r] = NoName
        BY <1>3, <1>6, <3>2
      <4> QED BY <1>3, <2>1, <4>1, PrintedAtHome
    <3> QED BY <3>1, <3>2
  <2> HIDE DEF g, o
  <2>6. Doing(b, e(2), m(2), U, D) /\ e(3) = Take(e(2), Write("cmp", V(l), V(r)))
    BY <1>2, <1>6
  <2> QED BY <2>3, <2>4, <2>5, <2>6, CmpTaken
<1>8. /\ Doing(b, e(4), m(3), U, D) /\ e(4).text = e(3).text
      /\ Loose("v") => e(4).held["v"] = NoName
  <2>1. Doing(b, e(4), m(3), U, D) /\ HeldBut(e(3), e(4), l) /\ e(4).text = e(3).text
    BY <1>2, <1>3, <1>7, FreeRegTaken
  <2>2. "v" \in Nodes \ {l} /\ e(3).held["v"] = e(2).held["v"]
    BY <1>3, <1>7
  <2> QED BY <1>6, <2>1, <2>2 DEF HeldBut
<1>9. /\ Doing(b, e(5), m(5), U, D) /\ e(5).held = e(4).held
      /\ m(5).reg["rax"] = Truth(Holds(Conditions[set], ContentOf(b, l), ContentOf(b, r)))
  <2>1. /\ m(3).reg["rax"] = 0
        /\ m(3).compared[1] = ContentOf(b, l) /\ m(3).compared[2] = ContentOf(b, r)
    BY <1>6, <1>7 DEF ComparesTo
  <2>2. e(5) = Take(e(4), WriteOne(set, Reg("rax"))) /\ "rax" \in RegisterNames /\ "rax" \in U /\ set \in SetNames
    BY <1>2, <1>3
  <2>3. /\ Doing(b, e(5), m(5), U, D) /\ e(5).held = e(4).held
        /\ SetsRegister(m(3), m(5), "rax", Truth(Holds(Conditions[set], m(3).compared[1], m(3).compared[2])))
    BY <1>8, <2>1, <2>2, SetTaken
  <2> QED BY <2>1, <2>3 DEF SetsRegister
<1>10. Doing(b, e(6), m(6), U, D) /\ ContentOf(m(6), "v") = m(5).reg["rax"]
  <2> DEFINE o == Reg("rax")
  <2>1. Resolved(e(5).held, Reg("rax")) = o /\ IsRegister(o)
    BY <1>3, ResolvedIs, OperandKinds
  <2>2. m(5) \in Machines /\ Content(m(5), o) = m(5).reg["rax"] /\ Content(m(5), o) \in Words
    BY <1>3, <1>9, ContentIs, MachineParts DEF Doing
  <2>3. e(6) = Take(e(5), Write("mov", V("v"), Reg("rax"))) /\ (Loose("v") => e(5).held["v"] = NoName)
    BY <1>2, <1>8, <1>9
  <2> HIDE DEF o
  <2> QED BY <1>9, <2>1, <2>2, <2>3, ValueMovTaken
<1>11. Brings(b, Text(s), m(6), U, D)
  BY <1>2, <1>10 DEF Doing, Brings
<1> QED BY <1>9, <1>10, <1>11 DEF s

(* A jump changes neither registers nor memory.                            *)
LEMMA JumpTaken ==
  ASSUME Housed, NEW b, NEW e, NEW m, NEW U, NEW D, Doing(b, e, m, U, D),
         NEW op, op \in {"jmp_then", "jmp_else", "jne_then", "ret"},
         NEW w, Jumps(m, Executed(m, Instruction(op, Nothing, Nothing)), w)
  PROVE  LET f == Take(e, WriteOne(op, Nothing))
             p == Run(b, f.text)
         IN  Doing(b, f, p, U, D) /\ f.held = e.held /\ Jumps(m, p, w)
<1> DEFINE i == Instruction(op, Nothing, Nothing)
<1>1. Encodable(i)
  <2>1. i.op = op
    BY InstructionParts
  <2> HIDE DEF i
  <2> QED BY <2>1 DEF Encodable
<1>2. i = Instruction(op, Resolved(e.held, Nothing), Resolved(e.held, Nothing))
  BY ResolvedIs
<1> HIDE DEF i
<1>3. Executed(m, i) \in Machines /\ Spares(m, Executed(m, i), U, D) /\ Jumps(m, Executed(m, i), w)
  BY DEF Spares, Jumps, i
<1> QED BY <1>1, <1>2, <1>3, WriteTaken DEF WriteOne

(* What a node is depends on registers and memory only.                    *)
LEMMA SameContent ==
  ASSUME Housed, NEW m \in Machines, NEW p \in Machines, m.reg["rbp"] = 2040,
         p.reg = m.reg, p.mem = m.mem, NEW n \in Nodes
  PROVE  ContentOf(p, n) = ContentOf(m, n)
<1>1. (n \in Values /\ home[n] # NoName) \/ Spilled(n) \/ n \in {"c", "f"}
  BY NamesDiffer DEF Spilled
<1> QED BY <1>1, ContentOfIs

LEMMA BrSpilledRuns ==
  ASSUME Housed, NEW b, NEW U, NEW D, Fit(b, U, D), Taking(U, D),
         NEW src \in {"x", "y", "c"},
         Spilled("v") /\ Spilled(src)
  PROVE  \E p : /\ Brings(b, Text(Br(src)), p, U, D)
                /\ ContentOf(p, "v") = ContentOf(b, src)
<1> DEFINE s == Br(src)
           e(k) == Writing(s)[k]
           m(k) == Run(b, e(k).text)
<1>1. /\ Len(s) = 4
      /\ s[1] = OccupyReg("v", "rax")
      /\ s[2] = Write("mov", V("v"), At("rbp", StackPhase(src)))
      /\ s[3] = FromReg("v")
      /\ s[4] = WriteOne("jmp_then", Nothing)
  BY DEF Br
<1> HIDE DEF s
<1>2. /\ e(0) = Blank
      /\ e(1) = Take(e(0), OccupyReg("v", "rax"))
      /\ e(2) = Take(e(1), Write("mov", V("v"), At("rbp", StackPhase(src))))
      /\ e(3) = Take(e(2), FromReg("v"))
      /\ e(4) = Take(e(3), WriteOne("jmp_then", Nothing))
      /\ Text(s) = e(4).text
  <2>1. /\ e(0) = Blank
        /\ \A j \in 1 .. 4 : e(j) = Take(e(j - 1), s[j])
    <3>1. Len(s) = 4 /\ Len(s) \in Nat
      BY <1>1
    <3>2. /\ e(0) = Blank
          /\ \A j \in 1 .. Len(s) : e(j) = Take(e(j - 1), s[j])
      BY ONLY <3>1, WritingSteps
    <3> HIDE DEF e
    <3> QED BY <3>1, <3>2
  <2>2. Text(s) = e(4).text
    BY <1>1 DEF Text
  <2> HIDE DEF e
  <2>3. /\ e(1) = Take(e(0), s[1])
        /\ e(2) = Take(e(1), s[2])
        /\ e(3) = Take(e(2), s[3])
        /\ e(4) = Take(e(3), s[4])
    BY <2>1
  <2> QED BY <1>1, <2>1, <2>2, <2>3
<1> HIDE DEF e
<1>3. /\ b \in Machines /\ src \in Nodes \ {"v"} /\ "v" \in Nodes
      /\ "rax" \in RegisterNames /\ "rax" \in U /\ "rax" \in Scratch /\ "rax" # NoName
  BY NamesDiffer, NamesAre DEF Fit
<1>4. Doing(b, e(0), b, U, D) /\ \A n \in Nodes : Loose(n) => e(0).held[n] = NoName
  BY <1>2, <1>3, Begun
<1>5. Doing(b, e(1), b, U, D) /\ e(1).held["v"] = "rax"
  BY <1>2, <1>3, <1>4, OccupyRegTaken
<1>6. /\ Doing(b, e(2), m(2), U, D) /\ e(2).held["v"] = "rax"
      /\ m(2).reg["rax"] = ContentOf(b, src)
  <2> DEFINE o == At("rbp", StackPhase(src))
  <2>1. Resolved(e(1).held, V("v")) = Reg("rax") /\ Resolved(e(1).held, At("rbp", StackPhase(src))) = o
    BY <1>3, <1>5, ResolvedIs, PrintedIs, NamesAre
  <2>2. IsMemory(o) /\ Content(b, o) = ContentOf(b, src) /\ ContentOf(b, src) \in Words
    <3>1. StackPhase(src) = Cell(src) - 2040
      BY <1>3, FrameCells
    <3> QED BY <1>3, <3>1, InFrame, ContentOfIs, OperandKinds DEF Fit
  <2> HIDE DEF o
  <2>3. e(2) = Take(e(1), Write("mov", V("v"), At("rbp", StackPhase(src)))) /\ Doing(b, e(1), b, U, D)
    BY <1>2, <1>5
  <2> QED BY <1>3, <1>5, <2>1, <2>2, <2>3, MovTaken DEF SetsRegister
<1>7. Doing(b, e(3), m(3), U, D) /\ ContentOf(m(3), "v") = ContentOf(b, src)
  BY <1>2, <1>3, <1>6, FromRegTaken
<1>8. Brings(b, Text(s), m(4), U, D) /\ ContentOf(m(4), "v") = ContentOf(m(3), "v")
  <2>1. /\ Doing(b, e(3), m(3), U, D) /\ m(3) \in Machines
        /\ e(4) = Take(e(3), WriteOne("jmp_then", Nothing))
    BY <1>2, <1>7 DEF Doing
  <2>0. Jumps(m(3), Executed(m(3), Instruction("jmp_then", Nothing, Nothing)), "then")
    BY <2>1, JumpedIs
  <2>2. /\ Doing(b, e(4), m(4), U, D) /\ m(4).reg = m(3).reg /\ m(4).mem = m(3).mem
    BY <2>1, <2>0, JumpTaken DEF Jumps
  <2>3. "v" \in Nodes /\ m(3).reg["rbp"] = 2040 /\ m(4).reg["rbp"] = 2040 /\ m(4) \in Machines
    BY <1>3, <2>1, <2>2, LeftAlone DEF Doing
  <2>4. ContentOf(m(4), "v") = ContentOf(m(3), "v")
    BY <2>1, <2>2, <2>3, SameContent
  <2> QED BY <1>2, <2>2, <2>4 DEF Doing, Brings
<1> QED BY <1>7, <1>8 DEF s

LEMMA BrMovedRuns ==
  ASSUME Housed, NEW b, NEW U, NEW D, Fit(b, U, D), Taking(U, D),
         NEW src \in {"x", "y", "c"},
         ~(Spilled("v") /\ Spilled(src))
  PROVE  \E p : /\ Brings(b, Text(Br(src)), p, U, D)
                /\ ContentOf(p, "v") = ContentOf(b, src)
<1> DEFINE s == Br(src)
           e(k) == Writing(s)[k]
           m(k) == Run(b, e(k).text)
<1>1. /\ Len(s) = 2
      /\ s[1] = Write("mov", V("v"), V(src))
      /\ s[2] = WriteOne("jmp_then", Nothing)
  BY DEF Br
<1> HIDE DEF s
<1>2. /\ e(0) = Blank
      /\ e(1) = Take(e(0), Write("mov", V("v"), V(src)))
      /\ e(2) = Take(e(1), WriteOne("jmp_then", Nothing))
      /\ Text(s) = e(2).text
  <2>1. /\ e(0) = Blank
        /\ \A j \in 1 .. 2 : e(j) = Take(e(j - 1), s[j])
    <3>1. Len(s) = 2 /\ Len(s) \in Nat
      BY <1>1
    <3>2. /\ e(0) = Blank
          /\ \A j \in 1 .. Len(s) : e(j) = Take(e(j - 1), s[j])
      BY ONLY <3>1, WritingSteps
    <3> HIDE DEF e
    <3> QED BY <3>1, <3>2
  <2>2. Text(s) = e(2).text
    BY <1>1 DEF Text
  <2> HIDE DEF e
  <2>3. /\ e(1) = Take(e(0), s[1])
        /\ e(2) = Take(e(1), s[2])
    BY <2>1
  <2> QED BY <1>1, <2>1, <2>2, <2>3
<1> HIDE DEF e
<1>3. /\ b \in Machines /\ src \in Nodes \ {"v"} /\ "v" \in Nodes
  BY NamesDiffer DEF Fit
<1>4. Doing(b, e(0), b, U, D) /\ \A n \in Nodes : Loose(n) => e(0).held[n] = NoName
  BY <1>2, <1>3, Begun
<1>5. /\ Doing(b, e(1), m(1), U, D) /\ ContentOf(m(1), "v") = ContentOf(b, src)
  <2> DEFINE o == Printed(e(0).held, src)
  <2>1. Resolved(e(0).held, V(src)) = o
    BY <1>3, ResolvedIs
  <2>2. /\ Content(b, o) = ContentOf(b, src) /\ ContentOf(b, src) \in Words
        /\ IsRegister(o) \/ (IsMemory(o) /\ Spilled(src)) \/ o.in = "number"
    <3>1. Holding(e(0).held) /\ (Loose(src) => e(0).held[src] = NoName) /\ b.reg["rbp"] = 2040
      BY <1>3, <1>4 DEF Doing, Fit
    <3> QED BY <1>3, <3>1, PrintedAtHome
  <2>3. e(1) = Take(e(0), Write("mov", V("v"), V(src))) /\ Doing(b, e(0), b, U, D)
        /\ (Loose("v") => e(0).held["v"] = NoName)
    BY <1>2, <1>3, <1>4
  <2> HIDE DEF o
  <2> QED BY <2>1, <2>2, <2>3, ValueMovTaken
<1>6. Brings(b, Text(s), m(2), U, D) /\ ContentOf(m(2), "v") = ContentOf(m(1), "v")
  <2>1. /\ Doing(b, e(1), m(1), U, D) /\ m(1) \in Machines
        /\ e(2) = Take(e(1), WriteOne("jmp_then", Nothing))
    BY <1>2, <1>5 DEF Doing
  <2>0. Jumps(m(1), Executed(m(1), Instruction("jmp_then", Nothing, Nothing)), "then")
    BY <2>1, JumpedIs
  <2>2. /\ Doing(b, e(2), m(2), U, D) /\ m(2).reg = m(1).reg /\ m(2).mem = m(1).mem
    BY <2>1, <2>0, JumpTaken DEF Jumps
  <2>3. "v" \in Nodes /\ m(1).reg["rbp"] = 2040 /\ m(2).reg["rbp"] = 2040 /\ m(2) \in Machines
    BY <1>3, <2>1, <2>2, LeftAlone DEF Doing
  <2>4. ContentOf(m(2), "v") = ContentOf(m(1), "v")
    BY <2>1, <2>2, <2>3, SameContent
  <2> QED BY <1>2, <2>2, <2>4 DEF Doing, Brings
<1> QED BY <1>5, <1>6 DEF s

LEMMA CondBrNumberRuns ==
  ASSUME Housed, NEW b, NEW U, NEW D, Fit(b, U, D), b.went = "ahead"
  PROVE  \E p : /\ Brings(b, Text(CondBr("c")), p, U, D)
                /\ p.went = IF ContentOf(b, "c") # 0 THEN "then" ELSE "else"
<1> DEFINE s == CondBr("c")
           e(k) == Writing(s)[k]
           m(k) == Run(b, e(k).text)
<1>1. /\ Len(s) = 1
      /\ s[1] = WriteOne(IF number = 0 THEN "jmp_else" ELSE "jmp_then", Nothing)
  BY DEF CondBr
<1> HIDE DEF s
<1>2. /\ e(0) = Blank
      /\ e(1) = Take(e(0), WriteOne(IF number = 0 THEN "jmp_else" ELSE "jmp_then", Nothing))
      /\ Text(s) = e(1).text
  <2>1. /\ e(0) = Blank
        /\ \A j \in 1 .. 1 : e(j) = Take(e(j - 1), s[j])
    <3>1. Len(s) = 1 /\ Len(s) \in Nat
      BY <1>1
    <3>2. /\ e(0) = Blank
          /\ \A j \in 1 .. Len(s) : e(j) = Take(e(j - 1), s[j])
      BY ONLY <3>1, WritingSteps
    <3> HIDE DEF e
    <3> QED BY <3>1, <3>2
  <2>2. Text(s) = e(1).text
    BY <1>1 DEF Text
  <2> HIDE DEF e
  <2>3. /\ e(1) = Take(e(0), s[1])
    BY <2>1
  <2> QED BY <1>1, <2>1, <2>2, <2>3
<1> HIDE DEF e
<1>3. b \in Machines /\ "c" \in Nodes
  BY NamesDiffer DEF Fit
<1>4. Doing(b, e(0), b, U, D)
  BY <1>2, <1>3, Begun
<1>5. Doing(b, e(1), m(1), U, D) /\ m(1).went = IF number = 0 THEN "else" ELSE "then"
  <2>1. b.went # "then"
    OBVIOUS
  <2>2. CASE number = 0
    <3>1. Jumps(b, Executed(b, Instruction("jmp_else", Nothing, Nothing)), "else")
      BY <1>3, <2>1, JumpedIs
    <3>2. e(1) = Take(e(0), WriteOne("jmp_else", Nothing)) /\ Doing(b, e(0), b, U, D)
      BY <1>2, <1>4, <2>2
    <3> QED BY <2>2, <3>1, <3>2, JumpTaken DEF Jumps
  <2>3. CASE number # 0
    <3>1. Jumps(b, Executed(b, Instruction("jmp_then", Nothing, Nothing)), "then")
      BY <1>3, JumpedIs
    <3>2. e(1) = Take(e(0), WriteOne("jmp_then", Nothing)) /\ Doing(b, e(0), b, U, D)
      BY <1>2, <1>4, <2>3
    <3> QED BY <2>3, <3>1, <3>2, JumpTaken DEF Jumps
  <2> QED BY <2>2, <2>3
<1>6. Brings(b, Text(s), m(1), U, D)
  BY <1>2, <1>5 DEF Doing, Brings
<1>7. ContentOf(b, "c") = number
  BY <1>3, ContentOfIs DEF Fit
<1> QED BY <1>5, <1>6, <1>7 DEF s

LEMMA CondBrRuns ==
  ASSUME Housed, NEW b, NEW U, NEW D, Fit(b, U, D), b.went = "ahead", NEW condition \in {"x", "y"}
  PROVE  \E p : /\ Brings(b, Text(CondBr(condition)), p, U, D)
                /\ p.went = IF ContentOf(b, condition) # 0 THEN "then" ELSE "else"
<1> DEFINE s == CondBr(condition)
           e(k) == Writing(s)[k]
           m(k) == Run(b, e(k).text)
<1>1. /\ Len(s) = 3
      /\ s[1] = Write("cmp", V(condition), Number(0))
      /\ s[2] = WriteOne("jne_then", Nothing)
      /\ s[3] = WriteOne("jmp_else", Nothing)
  BY DEF CondBr
<1> HIDE DEF s
<1>2. /\ e(0) = Blank
      /\ e(1) = Take(e(0), Write("cmp", V(condition), Number(0)))
      /\ e(2) = Take(e(1), WriteOne("jne_then", Nothing))
      /\ e(3) = Take(e(2), WriteOne("jmp_else", Nothing))
      /\ Text(s) = e(3).text
  <2>1. /\ e(0) = Blank
        /\ \A j \in 1 .. 3 : e(j) = Take(e(j - 1), s[j])
    <3>1. Len(s) = 3 /\ Len(s) \in Nat
      BY <1>1
    <3>2. /\ e(0) = Blank
          /\ \A j \in 1 .. Len(s) : e(j) = Take(e(j - 1), s[j])
      BY ONLY <3>1, WritingSteps
    <3> HIDE DEF e
    <3> QED BY <3>1, <3>2
  <2>2. Text(s) = e(3).text
    BY <1>1 DEF Text
  <2> HIDE DEF e
  <2>3. /\ e(1) = Take(e(0), s[1])
        /\ e(2) = Take(e(1), s[2])
        /\ e(3) = Take(e(2), s[3])
    BY <2>1
  <2> QED BY <1>1, <2>1, <2>2, <2>3
<1> HIDE DEF e
<1>3. b \in Machines /\ condition \in Nodes \ {"v"} /\ condition \in Nodes /\ condition \notin {"c", "f"}
  BY NamesDiffer DEF Fit
<1>4. Doing(b, e(0), b, U, D) /\ \A n \in Nodes : Loose(n) => e(0).held[n] = NoName
  BY <1>2, <1>3, Begun
<1>5. Doing(b, e(1), m(1), U, D) /\ ComparesTo(b, m(1), ContentOf(b, condition), 0)
  <2> DEFINE o == Printed(e(0).held, condition)
             z == Number(0)
  <2>1. Resolved(e(0).held, V(condition)) = o /\ Resolved(e(0).held, Number(0)) = z
    BY <1>3, ResolvedIs
  <2>2. /\ Content(b, o) = ContentOf(b, condition) /\ ContentOf(b, condition) \in Words
        /\ IsRegister(o) \/ IsMemory(o)
    <3>1. Holding(e(0).held) /\ (Loose(condition) => e(0).held[condition] = NoName) /\ b.reg["rbp"] = 2040
      BY <1>3, <1>4 DEF Doing, Fit
    <3> QED BY <1>3, <3>1, PrintedAtHome
  <2>3. e(1) = Take(e(0), Write("cmp", V(condition), Number(0))) /\ Doing(b, e(0), b, U, D)
    BY <1>2, <1>4
  <2>4. z.in = "number" /\ Content(b, z) = 0 /\ 0 \in Words
    <3>1. Cut(0) = 0 /\ 0 \in Words
      BY SmallWords
    <3> QED BY <3>1, ContentIs, OperandKinds
  <2> HIDE DEF o, z
  <2> QED BY <2>1, <2>2, <2>3, <2>4, CmpTaken
<1>6. /\ Doing(b, e(2), m(2), U, D)
      /\ m(2).went = IF ContentOf(b, condition) # 0 THEN "then" ELSE "ahead"
  <2>1. /\ m(1).went = "ahead" /\ m(1).compared[1] = ContentOf(b, condition) /\ m(1).compared[2] = 0
        /\ m(1) \in Machines
    BY <1>5 DEF ComparesTo
  <2> DEFINE w == IF ContentOf(b, condition) # 0 THEN "then" ELSE "ahead"
  <2>2. Jumps(m(1), Executed(m(1), Instruction("jne_then", Nothing, Nothing)), w)
    BY <2>1, JumpedIs
  <2> HIDE DEF w
  <2>3. e(2) = Take(e(1), WriteOne("jne_then", Nothing)) /\ Doing(b, e(1), m(1), U, D)
    BY <1>2, <1>5
  <2>4. Doing(b, e(2), m(2), U, D) /\ Jumps(m(1), m(2), w)
    BY <2>2, <2>3, JumpTaken
  <2> QED BY <2>4 DEF Jumps, w
<1>7. /\ Doing(b, e(3), m(3), U, D)
      /\ m(3).went = IF ContentOf(b, condition) # 0 THEN "then" ELSE "else"
  <2> DEFINE w == IF m(2).went = "then" THEN m(2).went ELSE "else"
  <2>1. e(3) = Take(e(2), WriteOne("jmp_else", Nothing)) /\ Doing(b, e(2), m(2), U, D) /\ m(2) \in Machines
    BY <1>2, <1>6 DEF Doing
  <2>2. Jumps(m(2), Executed(m(2), Instruction("jmp_else", Nothing, Nothing)), w)
    BY <2>1, JumpedIs
  <2>3. w = IF ContentOf(b, condition) # 0 THEN "then" ELSE "else"
    BY <1>6
  <2> HIDE DEF w
  <2>4. Doing(b, e(3), m(3), U, D) /\ Jumps(m(2), m(3), w)
    BY <2>1, <2>2, JumpTaken
  <2> QED BY <2>3, <2>4 DEF Jumps
<1>8. Brings(b, Text(s), m(3), U, D)
  BY <1>2, <1>7 DEF Doing, Brings
<1> QED BY <1>7, <1>8 DEF s

LEMMA StoreRuns ==
  ASSUME Housed, NEW b, NEW U, NEW D, Fit(b, U, D),
         NEW dst \in {"x", "a"}, NEW src \in {"x", "y", "c"}, ContentOf(b, dst) \in Cells \cap D
  PROVE  \E p : /\ Brings(b, Text(Store(dst, src)), p, U, D)
                /\ p.mem[ContentOf(b, dst)] = ContentOf(b, src)
<1> DEFINE s == Store(dst, src)
           e(k) == Writing(s)[k]
           m(k) == Run(b, e(k).text)
<1>1. /\ Len(s) = 5
      /\ s[1] = ToReg(dst, "rax")
      /\ s[2] = ToReg(src, "rdx")
      /\ s[3] = Write("mov", At(dst, 0), Reg(src))
      /\ s[4] = FreeReg(dst)
      /\ s[5] = FreeReg(src)
  BY DEF Store
<1> HIDE DEF s
<1>2. /\ e(0) = Blank
      /\ e(1) = Take(e(0), ToReg(dst, "rax"))
      /\ e(2) = Take(e(1), ToReg(src, "rdx"))
      /\ e(3) = Take(e(2), Write("mov", At(dst, 0), Reg(src)))
      /\ e(4) = Take(e(3), FreeReg(dst))
      /\ e(5) = Take(e(4), FreeReg(src))
      /\ Text(s) = e(5).text
  <2>1. /\ e(0) = Blank
        /\ \A j \in 1 .. 5 : e(j) = Take(e(j - 1), s[j])
    <3>1. Len(s) = 5 /\ Len(s) \in Nat
      BY <1>1
    <3>2. /\ e(0) = Blank
          /\ \A j \in 1 .. Len(s) : e(j) = Take(e(j - 1), s[j])
      BY ONLY <3>1, WritingSteps
    <3> HIDE DEF e
    <3> QED BY <3>1, <3>2
  <2>2. Text(s) = e(5).text
    BY <1>1 DEF Text
  <2> HIDE DEF e
  <2>3. /\ e(1) = Take(e(0), s[1])
        /\ e(2) = Take(e(1), s[2])
        /\ e(3) = Take(e(2), s[3])
        /\ e(4) = Take(e(3), s[4])
        /\ e(5) = Take(e(4), s[5])
    BY <2>1
  <2> QED BY <1>1, <2>1, <2>2, <2>3
<1> HIDE DEF e
<1>3. /\ b \in Machines /\ dst \in Nodes \ {"v"} /\ src \in Nodes \ {"v"}
      /\ {"rax", "rdx"} \subseteq RegisterNames /\ {"rax", "rdx"} \subseteq Scratch /\ "rax" # "rdx"
  BY NamesDiffer, NamesAre DEF Fit
<1>4. Doing(b, e(0), b, U, D)
  BY <1>2, <1>3, Begun
<1>5. /\ Doing(b, e(2), m(2), U, D)
      /\ m(2).reg[e(2).held[dst]] = ContentOf(b, dst) /\ m(2).reg[e(2).held[src]] = ContentOf(b, src)
      /\ e(2).held[dst] \in {"rax", "rdx"} \cup Givens /\ e(2).held[src] \in {"rdx"} \cup Givens
      /\ m(2).mem = b.mem
  <2>1. e(2) = Take(Take(e(0), ToReg(dst, "rax")), ToReg(src, "rdx"))
    BY <1>2
  <2> QED BY ONLY Housed, Fit(b, U, D), <1>3, <1>4, <2>1, TwoTaken
<1>6. Doing(b, e(3), m(3), U, D) /\ m(3).mem[ContentOf(b, dst)] = ContentOf(b, src)
  <2> DEFINE g == e(2).held[dst]
             h == e(2).held[src]
             a == ContentOf(b, dst)
             n == ContentOf(b, src)
             i == Instruction("mov", At(g, 0), Reg(h))
  <2>1. /\ g \in RegisterNames /\ m(2).reg[g] = a /\ m(2) \in Machines
        /\ h \in RegisterNames /\ m(2).reg[h] = n
    BY <1>5, NamesAre DEF Doing
  <2>2. i = Instruction("mov", Resolved(e(2).held, At(dst, 0)), Resolved(e(2).held, Reg(src)))
    BY <1>3, ResolvedIs
  <2> HIDE DEF g, h, a, n
  <2>3. a \in Cells /\ a \in D
    BY DEF a
  <2>4. a + 0 + 0 = a /\ Cut(a) = a
    BY <2>3, InCells
  <2>5. IsMemory(At(g, 0)) /\ IsRegister(Reg(h)) /\ Address(m(2), At(g, 0)) = a
    BY <2>1, <2>4, ContentIs, OperandKinds
  <2>6. Content(m(2), Reg(h)) = n /\ n \in Words
    BY <2>1, ContentIs, MachineParts
  <2>7. SetsCell(m(2), Executed(m(2), i), a, n)
    BY <2>1, <2>3, <2>5, <2>6, MovedToCell DEF Move
  <2>8. Encodable(i)
    BY <2>5, EncodableMove
  <2> HIDE DEF i
  <2>9. Executed(m(2), i) \in Machines /\ Spares(m(2), Executed(m(2), i), U, D)
    BY <2>3, <2>7, CellSpares DEF SetsCell
  <2>10. Doing(b, e(3), Executed(m(2), i), U, D) /\ m(3) = Executed(m(2), i)
    BY <1>2, <1>5, <2>2, <2>8, <2>9, WriteTaken
  <2> QED BY <2>7, <2>10 DEF SetsCell, a, n
<1>7. Doing(b, e(4), m(3), U, D)
  BY <1>2, <1>3, <1>6, FreeRegTaken
<1>8. Doing(b, e(5), m(3), U, D)
  BY <1>2, <1>3, <1>7, FreeRegTaken
<1>9. Brings(b, Text(s), m(3), U, D)
  BY <1>2, <1>8 DEF Doing, Brings
<1> QED BY <1>6, <1>9 DEF s

(***************************************************************************)
(* Copying, the stack and calls.                                           *)
(***************************************************************************)
LEMMA CellDistance ==
  ASSUME NEW a \in Cells, NEW d \in Cells, a - d \in 0 .. 15
  PROVE  a = d \/ a = d + 8
<1>1. a \in Int /\ d \in Int /\ a % 8 = 0 /\ d % 8 = 0
  BY InCells DEF Cells
<1> QED BY <1>1

(* o is m with two neighbouring cells copied.                              *)
CopiesPair(m, o, to, of) ==
  /\ o \in Machines /\ o.mem[to] = m.mem[of] /\ o.mem[to + 8] = m.mem[of + 8]
  /\ \A a \in Cells \ {to, to + 8} : o.mem[a] = m.mem[a]
  /\ \A r \in RegisterNames \ {"rdi", "rsi", "rcx"} : o.reg[r] = m.reg[r]
  /\ o.went = m.went

LEMMA CopiedIs ==
  ASSUME NEW m \in Machines, m.reg["rcx"] = 16, NEW to \in Cells, m.reg["rdi"] = to, to + 8 \in Cells,
         NEW of \in Cells, m.reg["rsi"] = of, of + 8 \in Cells, NEW x, NEW y
  PROVE  CopiesPair(m, Executed(m, Instruction("repe_movsb", x, y)), to, of)
<1> DEFINE mem == [a \in DOMAIN m.mem |->
                     LET k == a - to IN IF k \in 0 .. 16 - 1 THEN m.mem[of + k] ELSE m.mem[a]]
           p == Copied(m)
<1>1. /\ m.reg \in [RegisterNames -> Words] /\ m.mem \in [Cells -> Words] /\ DOMAIN m.mem = Cells
      /\ {"rdi", "rsi", "rcx"} \subseteq RegisterNames
      /\ m = [reg |-> m.reg, mem |-> m.mem, compared |-> m.compared, went |-> m.went]
      /\ m.compared \in Words \X Words /\ m.went \in Ways
  BY MachineParts, NamesAre
<1>2. to \in Int /\ of \in Int /\ Cells \subseteq Int /\ to + 8 # to
  <2>1. Cells \subseteq Int
    BY DEF Cells
  <2> QED BY <2>1
<1>3. ASSUME NEW a \in Cells
      PROVE  mem[a] = IF a = to THEN m.mem[of] ELSE IF a = to + 8 THEN m.mem[of + 8] ELSE m.mem[a]
  <2>1. mem[a] = IF a - to \in 0 .. 15 THEN m.mem[of + (a - to)] ELSE m.mem[a]
    BY <1>1, <1>2
  <2> HIDE DEF mem
  <2>2. CASE a = to
    <3>1. a - to \in 0 .. 15 /\ of + (a - to) = of
      BY <1>2, <2>2
    <3> QED BY <2>1, <2>2, <3>1
  <2>3. CASE a = to + 8
    <3>1. a - to \in 0 .. 15 /\ of + (a - to) = of + 8 /\ a # to
      BY <1>2, <2>3
    <3> QED BY <2>1, <2>3, <3>1
  <2>4. CASE a # to /\ a # to + 8
    <3>1. a - to \notin 0 .. 15
      BY <2>4, CellDistance
    <3> QED BY <2>1, <2>4, <3>1
  <2> QED BY <2>2, <2>3, <2>4
<1>4. mem \in [Cells -> Words]
  <2>1. \A a \in Cells : mem[a] \in Words
    BY <1>1, <1>3
  <2>2. mem = [a \in Cells |-> mem[a]]
    BY <1>1
  <2> HIDE DEF mem
  <2> QED BY <2>1, <2>2
<1> DEFINE rdi == Cut(m.reg["rdi"] + 16)
           rsi == Cut(m.reg["rsi"] + 16)
           reg == [m.reg EXCEPT !["rdi"] = rdi, !["rsi"] = rsi, !["rcx"] = 0]
<1>5. p = [m EXCEPT !.mem = mem, !.reg = reg]
  <2>1. mem = [a \in DOMAIN m.mem |-> LET k == a - m.reg["rdi"]
                                      IN  IF k \in 0 .. m.reg["rcx"] - 1 THEN m.mem[m.reg["rsi"] + k] ELSE m.mem[a]]
    OBVIOUS
  <2> HIDE DEF mem
  <2>2. p = [m EXCEPT !.mem = mem, !.reg["rdi"] = Cut(@ + 16), !.reg["rsi"] = Cut(@ + 16), !.reg["rcx"] = 0]
    BY <2>1 DEF Copied
  <2> HIDE DEF p
  <2> QED BY <1>1, <2>2
<1> HIDE DEF mem, p
<1>9. p.mem = mem /\ p.went = m.went /\ p.compared = m.compared /\ p.reg = reg
      /\ p = [reg |-> p.reg, mem |-> p.mem, compared |-> p.compared, went |-> p.went]
  <2> HIDE DEF reg
  <2> QED BY <1>1, <1>5
<1>10. reg \in [RegisterNames -> Words] /\ \A r \in RegisterNames \ {"rdi", "rsi", "rcx"} : reg[r] = m.reg[r]
  <2>1. rdi \in Words /\ rsi \in Words /\ 0 \in Words
    <3>1. m.reg["rdi"] + 16 \in Int /\ m.reg["rsi"] + 16 \in Int
      BY <1>2
    <3> QED BY <3>1, CutIsWord, SmallWords
  <2> HIDE DEF rdi, rsi
  <2> QED BY <1>1, <2>1
<1> HIDE DEF reg
<1>6. p \in Machines
  BY <1>1, <1>4, <1>9, <1>10 DEF Machines
<1>7. CopiesPair(m, p, to, of)
  <2>1. \A r \in RegisterNames \ {"rdi", "rsi", "rcx"} : p.reg[r] = m.reg[r]
    BY <1>9, <1>10
  <2>2. p.mem[to] = m.mem[of] /\ p.mem[to + 8] = m.mem[of + 8] /\ \A a \in Cells \ {to, to + 8} : p.mem[a] = m.mem[a]
    BY <1>2, <1>3, <1>9
  <2> QED BY <1>6, <1>9, <2>1, <2>2 DEF CopiesPair
<1>8. Executed(m, Instruction("repe_movsb", x, y)) = p
  BY InstructionExecuted DEF p
<1> QED BY <1>7, <1>8

(* o is m with n pushed to a.                                              *)
Pushes(m, o, a, n) ==
  /\ o \in Machines /\ o.reg["rsp"] = a /\ \A r \in RegisterNames \ {"rsp"} : o.reg[r] = m.reg[r]
  /\ o.mem[a] = n /\ \A c \in Cells \ {a} : o.mem[c] = m.mem[c]
  /\ o.went = m.went

LEMMA PushedIs ==
  ASSUME NEW m \in Machines, NEW a \in Cells, m.reg["rsp"] = a + 8, NEW q \in RegisterNames, NEW of
  PROVE  Pushes(m, Executed(m, Instruction("push", Reg(q), of)), a, m.reg[q])
<1> DEFINE n == m.reg[q]
           p == [m EXCEPT !.reg["rsp"] = a, !.mem[a] = n]
<1>1. a \in Words /\ n \in Words /\ Content(m, Reg(q)) = n /\ "rsp" \in RegisterNames
  BY InCells, MachineParts, ContentIs, NamesAre
<1>2. Cut(m.reg["rsp"] - 8) = a
  <2>1. Cut(a) = a /\ (a + 8) - 8 = a
    BY InCells
  <2> QED BY <2>1
<1>3. Executed(m, Instruction("push", Reg(q), of)) = Pushed(m, n)
  BY <1>1, InstructionExecuted
<1> HIDE DEF n
<1>4. Pushed(m, n) = p
  BY <1>2 DEF Pushed
<1>5. Pushes(m, p, a, n)
  BY <1>1, MachineParts DEF Machines, Pushes
<1> QED BY <1>3, <1>4, <1>5 DEF n

(* o is m with q popped from a.                                            *)
Pops(m, o, q, a) ==
  /\ o \in Machines /\ o.reg[q] = m.mem[a] /\ o.reg["rsp"] = a + 8
  /\ \A r \in RegisterNames \ {"rsp", q} : o.reg[r] = m.reg[r]
  /\ o.mem = m.mem /\ o.went = m.went

LEMMA PoppedIs ==
  ASSUME NEW m \in Machines, NEW a \in Cells, m.reg["rsp"] = a,
         NEW q \in RegisterNames \ {"rsp"}, NEW of
  PROVE  Pops(m, Executed(m, Instruction("pop", Reg(q), of)), q, a)
<1> DEFINE n == m.mem[a]
           o == Written(m, Reg(q), n)
           p == [o EXCEPT !.reg["rsp"] = Cut(@ + 8)]
<1>1. n \in Words /\ Cut(n) = n /\ "rsp" \in RegisterNames /\ q \in RegisterNames
  BY MachineParts, CutOfWord, NamesAre
<1>2. Executed(m, Instruction("pop", Reg(q), of)) = p
  <2>1. Executed(m, Instruction("pop", Reg(q), of)) = Popped(m, Reg(q))
    BY InstructionExecuted
  <2> QED BY <2>1 DEF Popped
<1>3. SetsRegister(m, o, q, n) /\ o.compared = m.compared
  <2> HIDE DEF n
  <2>1. Written(m, Reg(q), n) = [m EXCEPT !.reg[q] = Cut(n)]
    BY WrittenIs
  <2> QED BY <1>1, <2>1, WrittenRegister
<1> HIDE DEF o
<1>4. o \in Machines /\ o.reg["rsp"] = a /\ Cut(a + 8) \in Words /\ Cut(a + 8) = a + 8
  <2>1. a \in 1824 .. 2088
    BY InCells
  <2> DEFINE k == a + 8
  <2>2. k \in Nat /\ k < 4096
    BY <2>1
  <2> HIDE DEF k
  <2>3. k \in Words /\ Cut(k) = k
    BY <2>2, SmallWords
  <2> QED BY <1>1, <1>3, <2>3 DEF SetsRegister, k
<1>5. SetsRegister(o, p, "rsp", a + 8)
  <2>1. p = [o EXCEPT !.reg["rsp"] = a + 8]
    BY <1>4, MachineParts
  <2> HIDE DEF p
  <2>2. a + 8 \in Words
    BY <1>4
  <2> QED BY <1>1, <1>4, <2>1, <2>2, RegisterWritten
<1> HIDE DEF p, n
<1> QED BY <1>2, <1>3, <1>5 DEF SetsRegister, Pops, n

(* o is what a function leaves of m.                                       *)
CallsTo(m, o) ==
  /\ o \in Machines /\ o.reg["rax"] = Cut(Returned(m))
  /\ \A r \in Frame \cup {"r12", "r13", "r14", "r15"} : o.reg[r] = m.reg[r]
  /\ o.mem = m.mem /\ o.went = "called"

LEMMA CalledIs ==
  ASSUME NEW m \in Machines, NEW to, Content(m, to) = Function, NEW of
  PROVE  CallsTo(m, Executed(m, Instruction("call", to, of)))
<1> DEFINE n == Cut(Returned(m))
           p == Called(m, Function)
<1>1. /\ m.mem \in [Cells -> Words] /\ m.compared \in Words \X Words
      /\ m.reg \in [RegisterNames -> Words]
      /\ m = [reg |-> m.reg, mem |-> m.mem, compared |-> m.compared, went |-> m.went]
  BY MachineParts
<1>2. n \in Words /\ 7 \in Words /\ "called" \in Ways
  <2>1. Returned(m) \in Int
    <3>1. m.reg["rdi"] \in Int /\ m.reg["rsi"] \in Int /\ m.reg["rdx"] \in Int /\ m.reg["rcx"] \in Int
      BY <1>1, NamesAre, WordIs
    <3> QED BY <3>1 DEF Returned
  <2> QED BY <2>1, CutIsWord, SmallWords DEF Ways
<1> DEFINE reg == [r \in RegisterNames |->
                     CASE r = "rax" -> n
                       [] r \in {"rcx", "rdx", "rdi", "rsi", "r8", "r9", "r10", "r11"} -> 7
                       [] OTHER -> m.reg[r]]
<1>3. p = [m EXCEPT !.reg = reg, !.went = "called"]
  BY DEF Called
<1> HIDE DEF n
<1>4. ASSUME NEW r \in RegisterNames
      PROVE  /\ reg[r] \in Words /\ (r = "rax" => reg[r] = n)
             /\ r \in Frame \cup {"r12", "r13", "r14", "r15"} => reg[r] = m.reg[r]
  BY <1>1, <1>2, NamesAre
<1>5. reg \in [RegisterNames -> Words]
  BY <1>4
<1> HIDE DEF p, reg
<1>6. p.reg = reg /\ p.mem = m.mem /\ p.went = "called" /\ p \in Machines
  BY <1>1, <1>2, <1>3, <1>5 DEF Machines
<1>7. CallsTo(m, p)
  <2>1. p.reg["rax"] = n
    BY <1>4, <1>6, NamesAre
  <2>2. \A r \in Frame \cup {"r12", "r13", "r14", "r15"} : p.reg[r] = m.reg[r]
    BY <1>4, <1>6, NamesAre, NamesDiffer
  <2> QED BY <1>6, <2>1, <2>2 DEF CallsTo, n
<1>8. Executed(m, Instruction("call", to, of)) = p
  BY InstructionExecuted DEF p
<1> QED BY <1>7, <1>8

LEMMA StoreWideRuns ==
  ASSUME Housed, NEW b, NEW U, NEW D, Fit(b, U, D),
         NEW dst \in {"x", "a"}, Spilled(dst), ContentOf(b, dst) \in Cells \cap D, ContentOf(b, dst) + 8 \in Cells \cap D,
         ContentOf(b, "b") \in Cells, ContentOf(b, "b") + 8 \in Cells
  PROVE  \E p : /\ Brings(b, Text(StoreWide(dst, "b")), p, U, D)
                /\ p.mem[ContentOf(b, dst)] = b.mem[ContentOf(b, "b")]
                /\ p.mem[ContentOf(b, dst) + 8] = b.mem[ContentOf(b, "b") + 8]
<1> DEFINE s == StoreWide(dst, "b")
           e(k) == Writing(s)[k]
           m(k) == Run(b, e(k).text)
<1>1. /\ Len(s) = 4
      /\ s[1] = Write("mov", Reg("rdi"), At("rbp", StackPhase(dst)))
      /\ s[2] = Write("mov", Reg("rsi"), At("rbp", StackPhase("b")))
      /\ s[3] = Write("mov", Reg("rcx"), Number(AllocaSize))
      /\ s[4] = WriteOne("repe_movsb", Nothing)
  BY DEF StoreWide
<1> HIDE DEF s
<1>2. /\ e(0) = Blank
      /\ e(1) = Take(e(0), Write("mov", Reg("rdi"), At("rbp", StackPhase(dst))))
      /\ e(2) = Take(e(1), Write("mov", Reg("rsi"), At("rbp", StackPhase("b"))))
      /\ e(3) = Take(e(2), Write("mov", Reg("rcx"), Number(AllocaSize)))
      /\ e(4) = Take(e(3), WriteOne("repe_movsb", Nothing))
      /\ Text(s) = e(4).text
  <2>1. /\ e(0) = Blank
        /\ \A j \in 1 .. 4 : e(j) = Take(e(j - 1), s[j])
    <3>1. Len(s) = 4 /\ Len(s) \in Nat
      BY <1>1
    <3>2. /\ e(0) = Blank
          /\ \A j \in 1 .. Len(s) : e(j) = Take(e(j - 1), s[j])
      BY ONLY <3>1, WritingSteps
    <3> HIDE DEF e
    <3> QED BY <3>1, <3>2
  <2>2. Text(s) = e(4).text
    BY <1>1 DEF Text
  <2> HIDE DEF e
  <2>3. /\ e(1) = Take(e(0), s[1])
        /\ e(2) = Take(e(1), s[2])
        /\ e(3) = Take(e(2), s[3])
        /\ e(4) = Take(e(3), s[4])
    BY <2>1
  <2> QED BY <1>1, <2>1, <2>2, <2>3
<1> HIDE DEF e
<1>3. /\ b \in Machines /\ dst \in Nodes \ {"v"} /\ "b" \in Nodes \ {"v"} /\ Spilled("b")
      /\ {"rdi", "rsi", "rcx"} \subseteq RegisterNames /\ {"rdi", "rsi", "rcx"} \subseteq U
  BY Rooms, NamesDiffer, NamesAre DEF Fit
<1>4. Doing(b, e(0), m(0), U, D) /\ m(0) = b
  <2>1. Doing(b, e(0), b, U, D)
    BY <1>2, <1>3, Begun
  <2> QED BY <2>1 DEF Doing
<1>5. Doing(b, e(1), m(1), U, D) /\ SetsRegister(m(0), m(1), "rdi", ContentOf(b, dst))
  <2> DEFINE o == At("rbp", StackPhase(dst))
  <2>1. Resolved(e(0).held, At("rbp", StackPhase(dst))) = o /\ Resolved(e(0).held, Reg("rdi")) = Reg("rdi")
    <3>1. "rbp" \in RegisterNames /\ "rdi" \in RegisterNames
      BY NamesAre
    <3> QED BY <3>1, ResolvedIs
  <2>2. m(0) \in Machines /\ m(0).reg["rbp"] = 2040 /\ ContentOf(m(0), dst) = ContentOf(b, dst)
    BY <1>3, <1>4, LeftAlone DEF Doing
  <2>3. IsMemory(o) /\ Content(m(0), o) = ContentOf(b, dst) /\ ContentOf(b, dst) \in Words
    <3>1. StackPhase(dst) = Cell(dst) - 2040
      BY <1>3, FrameCells
    <3> QED BY <1>3, <2>2, <3>1, InFrame, ContentOfIs, OperandKinds
  <2> HIDE DEF o
  <2>4. e(1) = Take(e(0), Write("mov", Reg("rdi"), At("rbp", StackPhase(dst)))) /\ Doing(b, e(0), m(0), U, D)
    BY <1>2, <1>4
  <2> QED BY <1>3, <2>1, <2>3, <2>4, MovTaken
<1>6. Doing(b, e(2), m(2), U, D) /\ SetsRegister(m(1), m(2), "rsi", ContentOf(b, "b"))
  <2> DEFINE o == At("rbp", StackPhase("b"))
  <2>1. Resolved(e(1).held, At("rbp", StackPhase("b"))) = o /\ Resolved(e(1).held, Reg("rsi")) = Reg("rsi")
    <3>1. "rbp" \in RegisterNames /\ "rsi" \in RegisterNames
      BY NamesAre
    <3> QED BY <3>1, ResolvedIs
  <2>2. m(1) \in Machines /\ m(1).reg["rbp"] = 2040 /\ ContentOf(m(1), "b") = ContentOf(b, "b")
    BY <1>3, <1>5, LeftAlone DEF Doing
  <2>3. IsMemory(o) /\ Content(m(1), o) = ContentOf(b, "b") /\ ContentOf(b, "b") \in Words
    <3>1. StackPhase("b") = Cell("b") - 2040
      BY <1>3, FrameCells
    <3> QED BY <1>3, <2>2, <3>1, InFrame, ContentOfIs, OperandKinds
  <2> HIDE DEF o
  <2>4. e(2) = Take(e(1), Write("mov", Reg("rsi"), At("rbp", StackPhase("b")))) /\ Doing(b, e(1), m(1), U, D)
    BY <1>2, <1>5
  <2> QED BY <1>3, <2>1, <2>3, <2>4, MovTaken
<1>7. Doing(b, e(3), m(3), U, D) /\ SetsRegister(m(2), m(3), "rcx", 16)
  <2> DEFINE o == Number(16)
  <2>1. Resolved(e(2).held, Number(AllocaSize)) = o /\ Resolved(e(2).held, Reg("rcx")) = Reg("rcx")
    BY <1>3, ResolvedIs DEF AllocaSize
  <2>2. Content(m(2), o) = 16 /\ o.in = "number" /\ 16 \in Words
    <3>1. Cut(16) = 16 /\ 16 \in Words /\ 16 \in Int
      BY SmallWords
    <3> QED BY <3>1, ContentIs, OperandKinds
  <2> HIDE DEF o
  <2>3. e(3) = Take(e(2), Write("mov", Reg("rcx"), Number(AllocaSize))) /\ Doing(b, e(2), m(2), U, D)
    BY <1>2, <1>6
  <2> QED BY <1>3, <2>1, <2>2, <2>3, MovTaken
<1>8. Doing(b, e(4), m(4), U, D) /\ CopiesPair(m(3), m(4), ContentOf(b, dst), ContentOf(b, "b")) /\ m(3).mem = b.mem
  <2> DEFINE i == Instruction("repe_movsb", Nothing, Nothing)
             to == ContentOf(b, dst)
             of == ContentOf(b, "b")
  <2>1. /\ m(3).reg["rdi"] = to /\ m(3).reg["rsi"] = of /\ m(3).reg["rcx"] = 16 /\ m(3) \in Machines
        /\ m(3).mem = b.mem
    BY <1>3, <1>4, <1>5, <1>6, <1>7 DEF SetsRegister, Doing
  <2>2. Encodable(i)
    <3>1. i.op = "repe_movsb"
      BY InstructionParts
    <3> HIDE DEF i
    <3> QED BY <3>1 DEF Encodable
  <2>3. i = Instruction("repe_movsb", Resolved(e(3).held, Nothing), Resolved(e(3).held, Nothing))
    BY ResolvedIs
  <2>4. to \in Cells /\ to + 8 \in Cells /\ of \in Cells /\ of + 8 \in Cells /\ {to, to + 8} \subseteq D
    OBVIOUS
  <2> HIDE DEF to, of
  <2>5. CopiesPair(m(3), Executed(m(3), i), to, of)
    BY <2>1, <2>4, CopiedIs
  <2> HIDE DEF i
  <2>6. Executed(m(3), i) \in Machines /\ Spares(m(3), Executed(m(3), i), U, D)
    BY <1>3, <2>4, <2>5 DEF CopiesPair, Spares
  <2>7. Doing(b, e(4), Executed(m(3), i), U, D) /\ m(4) = Executed(m(3), i)
    BY <1>2, <1>7, <2>2, <2>3, <2>6, WriteTaken DEF WriteOne
  <2> QED BY <2>1, <2>5, <2>7 DEF to, of
<1>9. Brings(b, Text(s), m(4), U, D)
  BY <1>2, <1>8 DEF Doing, Brings
<1> QED BY <1>8, <1>9 DEF s, CopiesPair

(* While the stack is used, a text is only followed.                       *)
Following(b, e, m) == Doing(b, e, m, RegisterNames, Cells)

LEMMA FollowedIs ==
  ASSUME NEW b, NEW e, NEW m, NEW U, NEW D
  PROVE  /\ Doing(b, e, m, U, D) => Following(b, e, m)
         /\ Following(b, e, m) /\ Spares(b, m, U, D) => Doing(b, e, m, U, D)
BY DEF Following, Doing, Spares

LEMMA PushTaken ==
  ASSUME Housed, NEW b, NEW e, NEW m, Following(b, e, m), NEW q \in RegisterNames,
         NEW a \in Cells, m.reg["rsp"] = a + 8
  PROVE  LET f == Take(e, WriteOne("push", Reg(q)))
             p == Run(b, f.text)
         IN  Following(b, f, p) /\ f.held = e.held /\ Pushes(m, p, a, m.reg[q])
<1> DEFINE i == Instruction("push", Reg(q), Nothing)
<1>1. m \in Machines /\ Doing(b, e, m, RegisterNames, Cells)
  BY DEF Following, Doing
<1>2. Encodable(i)
  <2>1. i.op = "push" /\ i.to = Reg(q) /\ IsRegister(Reg(q))
    BY InstructionParts, OperandKinds
  <2> HIDE DEF i
  <2> QED BY <2>1 DEF Encodable
<1>3. i = Instruction("push", Resolved(e.held, Reg(q)), Resolved(e.held, Nothing))
  BY ResolvedIs
<1>4. Pushes(m, Executed(m, i), a, m.reg[q])
  BY <1>1, PushedIs
<1> HIDE DEF i
<1>5. Executed(m, i) \in Machines /\ Spares(m, Executed(m, i), RegisterNames, Cells)
  BY <1>4 DEF Pushes, Spares
<1> QED BY <1>1, <1>2, <1>3, <1>4, <1>5, WriteTaken DEF WriteOne, Following

LEMMA PopTaken ==
  ASSUME Housed, NEW b, NEW e, NEW m, Following(b, e, m), NEW q \in RegisterNames \ {"rsp"},
         NEW a \in Cells, m.reg["rsp"] = a
  PROVE  LET f == Take(e, WriteOne("pop", Reg(q)))
             p == Run(b, f.text)
         IN  Following(b, f, p) /\ f.held = e.held /\ Pops(m, p, q, a)
<1> DEFINE i == Instruction("pop", Reg(q), Nothing)
<1>1. m \in Machines /\ Doing(b, e, m, RegisterNames, Cells)
  BY DEF Following, Doing
<1>2. Encodable(i)
  <2>1. i.op = "pop" /\ i.to = Reg(q) /\ IsRegister(Reg(q))
    BY InstructionParts, OperandKinds
  <2> HIDE DEF i
  <2> QED BY <2>1 DEF Encodable
<1>3. i = Instruction("pop", Resolved(e.held, Reg(q)), Resolved(e.held, Nothing))
  BY ResolvedIs
<1>4. Pops(m, Executed(m, i), q, a)
  BY <1>1, PoppedIs
<1> HIDE DEF i
<1>5. Executed(m, i) \in Machines /\ Spares(m, Executed(m, i), RegisterNames, Cells)
  BY <1>4 DEF Pops, Spares
<1> QED BY <1>1, <1>2, <1>3, <1>4, <1>5, WriteTaken DEF WriteOne, Following

LEMMA CalledTaken ==
  ASSUME Housed, NEW b, NEW e, NEW m, Following(b, e, m), NEW n \in Nodes, m.reg["rbp"] = 2040,
         Loose(n) => e.held[n] = NoName, ContentOf(m, n) = Function
  PROVE  LET f == Take(e, WriteOne("call", V(n)))
             p == Run(b, f.text)
         IN  Following(b, f, p) /\ f.held = e.held /\ CallsTo(m, p)
<1> DEFINE o == Printed(e.held, n)
           i == Instruction("call", o, Nothing)
<1>1. m \in Machines /\ Doing(b, e, m, RegisterNames, Cells) /\ Holding(e.held)
  BY DEF Following, Doing
<1>2. Content(m, o) = Function /\ (IsRegister(o) \/ IsMemory(o) \/ o.in = "number")
  BY <1>1, PrintedAtHome
<1>3. i = Instruction("call", Resolved(e.held, V(n)), Resolved(e.held, Nothing))
  BY ResolvedIs
<1> HIDE DEF o
<1>4. Encodable(i)
  <2>1. i.op = "call" /\ i.to = o
    BY InstructionParts
  <2> HIDE DEF i
  <2> QED BY <1>2, <2>1 DEF Encodable
<1>5. CallsTo(m, Executed(m, i))
  BY <1>1, <1>2, CalledIs
<1> HIDE DEF i
<1>6. Executed(m, i) \in Machines /\ Spares(m, Executed(m, i), RegisterNames, Cells)
  BY <1>5 DEF CallsTo, Spares
<1> QED BY <1>1, <1>3, <1>4, <1>5, <1>6, WriteTaken DEF WriteOne, Following

(* A node is what it was when where it is was not written.                 *)
LEMMA StaysPut ==
  ASSUME Housed, NEW m \in Machines, NEW p \in Machines, m.reg["rbp"] = 2040, p.reg["rbp"] = 2040,
         NEW n \in Nodes, n \in Values /\ home[n] # NoName => p.reg[home[n]] = m.reg[home[n]],
         Spilled(n) => p.mem[Cell(n)] = m.mem[Cell(n)]
  PROVE  ContentOf(p, n) = ContentOf(m, n)
<1>1. (n \in Values /\ home[n] # NoName) \/ Spilled(n) \/ n \in {"c", "f"}
  BY NamesDiffer DEF Spilled
<1> QED BY <1>1, ContentOfIs

(* A call, from where its arguments are to where its value is.             *)
LEMMA CallTaken ==
  ASSUME Housed, NEW b, NEW U, NEW D, Fit(b, U, D), Taking(U, D),
         NEW e0, NEW m, Doing(b, e0, m, U, D), \A n \in Nodes : Loose(n) => e0.held[n] = NoName,
         NEW n \in {"f", "y"}, ContentOf(b, n) = Function,
         NEW a, m.reg["rsp"] = a + 32, {a, a + 8, a + 16, a + 24} \subseteq Cells \cap D,
         NEW e1, e1 = Take(e0, WriteOne("push", Reg("r8"))),
         NEW e2, e2 = Take(e1, WriteOne("push", Reg("r9"))),
         NEW e3, e3 = Take(e2, WriteOne("push", Reg("r10"))),
         NEW e4, e4 = Take(e3, WriteOne("push", Reg("r11"))),
         NEW e5, e5 = Take(e4, WriteOne("call", V(n))),
         NEW e6, e6 = Take(e5, WriteOne("pop", Reg("r11"))),
         NEW e7, e7 = Take(e6, WriteOne("pop", Reg("r10"))),
         NEW e8, e8 = Take(e7, WriteOne("pop", Reg("r9"))),
         NEW e9, e9 = Take(e8, WriteOne("pop", Reg("r8"))),
         NEW e10, e10 = Take(e9, Write("mov", V("v"), Reg("rax")))
  PROVE  LET p == Run(b, e10.text)
         IN  /\ Doing(b, e10, p, U, D) /\ p.went = "called"
             /\ ContentOf(p, "v") = Cut(Returned(m))
<1>1. /\ m \in Machines /\ b \in Machines /\ n \in Nodes /\ n \in Nodes \ {"v"} /\ "v" \in Nodes
      /\ {"r8", "r9", "r10", "r11"} \subseteq RegisterNames \ {"rsp"} /\ "rax" \in RegisterNames
      /\ {"rsp", "rbp", "rdi", "rsi", "rdx", "rcx"} \subseteq RegisterNames
  BY NamesDiffer, NamesAre DEF Doing, Fit
<1>2. /\ a \in Cells /\ a + 8 \in Cells /\ a + 16 \in Cells /\ a + 24 \in Cells
      /\ (a + 24) + 8 = a + 32 /\ (a + 16) + 8 = a + 24 /\ (a + 8) + 8 = a + 16 /\ a \in Int
  <2>1. a \in Cells
    OBVIOUS
  <2>2. a \in Int
    BY <2>1, InCells
  <2> QED BY <2>2
<1>3. m.reg["rbp"] = 2040 /\ ContentOf(m, n) = Function
  BY <1>1, LeftAlone DEF Doing
<1>4. Following(b, e0, m)
  BY FollowedIs
<1> DEFINE m1 == Run(b, e1.text)
<1>5. Following(b, e1, m1) /\ e1.held = e0.held /\ Pushes(m, m1, a + 24, m.reg["r8"])
  BY <1>1, <1>2, <1>4, PushTaken
<1> HIDE DEF m1
<1> DEFINE m2 == Run(b, e2.text)
<1>6. Following(b, e2, m2) /\ e2.held = e1.held /\ Pushes(m1, m2, a + 16, m1.reg["r9"])
  BY <1>1, <1>2, <1>5, PushTaken DEF Pushes
<1> HIDE DEF m2
<1> DEFINE m3 == Run(b, e3.text)
<1>7. Following(b, e3, m3) /\ e3.held = e2.held /\ Pushes(m2, m3, a + 8, m2.reg["r10"])
  BY <1>1, <1>2, <1>6, PushTaken DEF Pushes
<1> HIDE DEF m3
<1> DEFINE m4 == Run(b, e4.text)
<1>8. Following(b, e4, m4) /\ e4.held = e3.held /\ Pushes(m3, m4, a, m3.reg["r11"])
  BY <1>1, <1>2, <1>7, PushTaken DEF Pushes
<1> HIDE DEF m4
<1>9. /\ \A r \in RegisterNames \ {"rsp"} : m4.reg[r] = m.reg[r]
      /\ m4.reg["rsp"] = a /\ m4 \in Machines
  BY <1>5, <1>6, <1>7, <1>8 DEF Pushes
<1>10. /\ m4.mem[a] = m.reg["r11"] /\ m4.mem[a + 8] = m.reg["r10"]
       /\ m4.mem[a + 16] = m.reg["r9"] /\ m4.mem[a + 24] = m.reg["r8"]
       /\ \A c \in Cells \ {a, a + 8, a + 16, a + 24} : m4.mem[c] = m.mem[c]
  BY <1>1, <1>2, <1>5, <1>6, <1>7, <1>8 DEF Pushes
<1>11. m4.reg["rbp"] = 2040 /\ ContentOf(m4, n) = Function
  <2>1. m4.reg["rbp"] = 2040 /\ (n \in Values /\ home[n] # NoName => m4.reg[home[n]] = m.reg[home[n]])
    BY <1>1, <1>3, <1>9, Rooms, NamesAre, NamesDiffer
  <2>2. Spilled(n) => m4.mem[Cell(n)] = m.mem[Cell(n)]
    <3>1. Spilled(n) => Cell(n) \in Cells /\ Cell(n) \notin D
      BY <1>1, FrameCells DEF Fit
    <3>2. {a, a + 8, a + 16, a + 24} \subseteq D
      OBVIOUS
    <3> QED BY <1>10, <3>1, <3>2
  <2> QED BY <1>1, <1>3, <1>9, <2>1, <2>2, StaysPut
<1> DEFINE m5 == Run(b, e5.text)
<1>12. Following(b, e5, m5) /\ e5.held = e4.held /\ CallsTo(m4, m5)
  <2>1. Loose(n) => e4.held[n] = NoName
    BY <1>1, <1>5, <1>6, <1>7, <1>8
  <2> QED BY <1>1, <1>8, <1>11, <2>1, CalledTaken
<1> HIDE DEF m5
<1> DEFINE m6 == Run(b, e6.text)
<1>13. Following(b, e6, m6) /\ e6.held = e5.held /\ Pops(m5, m6, "r11", a)
  <2>1. m5.reg["rsp"] = a
    BY <1>9, <1>12, NamesAre DEF CallsTo
  <2> QED BY <1>1, <1>2, <1>12, <2>1, PopTaken
<1> HIDE DEF m6
<1> DEFINE m7 == Run(b, e7.text)
<1>14. Following(b, e7, m7) /\ e7.held = e6.held /\ Pops(m6, m7, "r10", a + 8)
  BY <1>1, <1>2, <1>13, PopTaken DEF Pops
<1> HIDE DEF m7
<1> DEFINE m8 == Run(b, e8.text)
<1>15. Following(b, e8, m8) /\ e8.held = e7.held /\ Pops(m7, m8, "r9", a + 16)
  BY <1>1, <1>2, <1>14, PopTaken DEF Pops
<1> HIDE DEF m8
<1> DEFINE m9 == Run(b, e9.text)
<1>16. Following(b, e9, m9) /\ e9.held = e8.held /\ Pops(m8, m9, "r8", a + 24)
  BY <1>1, <1>2, <1>15, PopTaken DEF Pops
<1> HIDE DEF m9
<1>17. /\ m9.reg["rax"] = Cut(Returned(m)) /\ m9.went = "called" /\ m9 \in Machines
       /\ m9.mem = m4.mem /\ m9.reg["rsp"] = a + 32
       /\ \A r \in {"rbp", "r12", "r13", "r14", "r15"} : m9.reg[r] = m4.reg[r]
       /\ m9.reg["r8"] = m4.mem[a + 24] /\ m9.reg["r9"] = m4.mem[a + 16]
       /\ m9.reg["r10"] = m4.mem[a + 8] /\ m9.reg["r11"] = m4.mem[a]
  <2>1. Returned(m4) = Returned(m)
    BY <1>1, <1>9 DEF Returned
  <2>2. /\ m5.mem = m4.mem /\ m6.mem = m4.mem /\ m7.mem = m4.mem /\ m8.mem = m4.mem /\ m9.mem = m4.mem
        /\ m9.went = "called" /\ m9 \in Machines /\ m9.reg["rsp"] = a + 32
    BY <1>2, <1>12, <1>13, <1>14, <1>15, <1>16 DEF CallsTo, Pops
  <2>3. \A r \in RegisterNames \ {"rsp", "r8", "r9", "r10", "r11"} : m9.reg[r] = m5.reg[r]
    BY <1>13, <1>14, <1>15, <1>16 DEF Pops
  <2>4. /\ m9.reg["r8"] = m4.mem[a + 24] /\ m9.reg["r9"] = m4.mem[a + 16]
        /\ m9.reg["r10"] = m4.mem[a + 8] /\ m9.reg["r11"] = m4.mem[a]
    BY <1>1, <2>2, <1>13, <1>14, <1>15, <1>16 DEF Pops
  <2>5. m9.reg["rax"] = Cut(Returned(m))
    BY <1>1, <1>12, <2>1, <2>3 DEF CallsTo
  <2>6. \A r \in {"rbp", "r12", "r13", "r14", "r15"} : m9.reg[r] = m4.reg[r]
    BY <1>12, <2>3, NamesAre, NamesDiffer DEF CallsTo
  <2> QED BY <2>2, <2>4, <2>5, <2>6
<1>18. Spares(b, m9, U, D)
  <2>1. \A r \in RegisterNames \ Scratch : m9.reg[r] = m.reg[r]
    BY <1>1, <1>9, <1>10, <1>17, NamesAre, NamesDiffer
  <2>2. \A c \in Cells \ D : m9.mem[c] = m.mem[c]
    BY <1>10, <1>17
  <2>3. Spares(m, m9, U, D)
    BY <2>1, <2>2 DEF Spares, Fit
  <2> QED BY <2>3, SparesOn DEF Doing
<1>19. Doing(b, e9, m9, U, D)
  BY <1>16, <1>18, FollowedIs
<1> DEFINE p == Run(b, e10.text)
<1>20. Doing(b, e10, p, U, D) /\ ContentOf(p, "v") = m9.reg["rax"] /\ p.went = m9.went
  <2> DEFINE o == Reg("rax")
  <2>1. Resolved(e9.held, Reg("rax")) = o /\ IsRegister(o)
    BY <1>1, ResolvedIs, OperandKinds
  <2>2. Content(m9, o) = m9.reg["rax"] /\ Content(m9, o) \in Words
    BY <1>1, <1>17, ContentIs, MachineParts
  <2>3. Loose("v") => e9.held["v"] = NoName
    BY <1>1, <1>5, <1>6, <1>7, <1>8, <1>12, <1>13, <1>14, <1>15, <1>16
  <2> HIDE DEF o
  <2> QED BY ONLY Housed, Fit(b, U, D), Taking(U, D), e10 = Take(e9, Write("mov", V("v"), Reg("rax"))), <1>19, <2>1, <2>2, <2>3, ValueMovTaken
<1> QED BY <1>17, <1>20

(* The elements of the text of a call.                                       *)
LEMMA Parts2 ==
  ASSUME NEW m1, NEW m2, NEW p1, NEW p2, NEW p3, NEW p4, NEW c, NEW q1, NEW q2, NEW q3, NEW q4, NEW v, NEW s,
         s = <<m1, m2>> \o <<p1, p2, p3, p4>> \o <<c>> \o <<q1, q2, q3, q4>> \o <<v>>
  PROVE  /\ Len(s) = 12
         /\ s[1] = m1
         /\ s[2] = m2
         /\ s[3] = p1
         /\ s[4] = p2
         /\ s[5] = p3
         /\ s[6] = p4
         /\ s[7] = c
         /\ s[8] = q1
         /\ s[9] = q2
         /\ s[10] = q3
         /\ s[11] = q4
         /\ s[12] = v
OBVIOUS

LEMMA Parts4 ==
  ASSUME NEW m1, NEW m2, NEW m3, NEW m4, NEW p1, NEW p2, NEW p3, NEW p4, NEW c, NEW q1, NEW q2, NEW q3, NEW q4, NEW v, NEW s,
         s = <<m1, m2, m3, m4>> \o <<p1, p2, p3, p4>> \o <<c>> \o <<q1, q2, q3, q4>> \o <<v>>
  PROVE  /\ Len(s) = 14
         /\ s[1] = m1
         /\ s[2] = m2
         /\ s[3] = m3
         /\ s[4] = m4
         /\ s[5] = p1
         /\ s[6] = p2
         /\ s[7] = p3
         /\ s[8] = p4
         /\ s[9] = c
         /\ s[10] = q1
         /\ s[11] = q2
         /\ s[12] = q3
         /\ s[13] = q4
         /\ s[14] = v
OBVIOUS

LEMMA Call2Runs ==
  ASSUME Housed, NEW b, NEW U, NEW D, Fit(b, U, D), Taking(U, D),
         NEW function \in {"f", "y"}, ContentOf(b, function) = Function,
         NEW a, b.reg["rsp"] = a + 32, {a, a + 8, a + 16, a + 24} \subseteq Cells \cap D
  PROVE  \E p : /\ Brings(b, Text(Call(function, <<"y", "x">>)), p, U, D) /\ p.went = "called"
                /\ ContentOf(p, "v") =
                     Cut(ContentOf(b, "y") + (2 * ContentOf(b, "x")) + (4 * b.reg["rdx"])
                           + (8 * b.reg["rcx"]) + 1)
<1> DEFINE s == Call(function, <<"y", "x">>)
           e(k) == Writing(s)[k]
           m(k) == Run(b, e(k).text)
<1>1. /\ Len(s) = 12
      /\ s[1] = Write("mov", Reg("rdi"), V("y"))
      /\ s[2] = Write("mov", Reg("rsi"), V("x"))
      /\ s[3] = WriteOne("push", Reg("r8"))
      /\ s[4] = WriteOne("push", Reg("r9"))
      /\ s[5] = WriteOne("push", Reg("r10"))
      /\ s[6] = WriteOne("push", Reg("r11"))
      /\ s[7] = WriteOne("call", V(function))
      /\ s[8] = WriteOne("pop", Reg("r11"))
      /\ s[9] = WriteOne("pop", Reg("r10"))
      /\ s[10] = WriteOne("pop", Reg("r9"))
      /\ s[11] = WriteOne("pop", Reg("r8"))
      /\ s[12] = Write("mov", V("v"), Reg("rax"))
  <2> DEFINE m1 == Write("mov", Reg("rdi"), V("y"))
             m2 == Write("mov", Reg("rsi"), V("x"))
             p1 == WriteOne("push", Reg("r8"))
             p2 == WriteOne("push", Reg("r9"))
             p3 == WriteOne("push", Reg("r10"))
             p4 == WriteOne("push", Reg("r11"))
             c == WriteOne("call", V(function))
             q1 == WriteOne("pop", Reg("r11"))
             q2 == WriteOne("pop", Reg("r10"))
             q3 == WriteOne("pop", Reg("r9"))
             q4 == WriteOne("pop", Reg("r8"))
             v == Write("mov", V("v"), Reg("rax"))
  <2>1. [i \in DOMAIN <<"y", "x">> |-> Write("mov", Reg(CallRegs[i]), V(<<"y", "x">>[i]))] = <<m1, m2>>
    BY DEF CallRegs
  <2>2. [i \in DOMAIN Kept |-> WriteOne("push", Reg(Kept[i]))] = <<p1, p2, p3, p4>>
    BY DEF Kept
  <2>3. [i \in DOMAIN Kept |-> WriteOne("pop", Reg(Kept[Len(Kept) + 1 - i]))] = <<q1, q2, q3, q4>>
    BY DEF Kept
  <2>4. s = [i \in DOMAIN <<"y", "x">> |-> Write("mov", Reg(CallRegs[i]), V(<<"y", "x">>[i]))]
              \o [i \in DOMAIN Kept |-> WriteOne("push", Reg(Kept[i]))] \o <<c>>
              \o [i \in DOMAIN Kept |-> WriteOne("pop", Reg(Kept[Len(Kept) + 1 - i]))] \o <<v>>
    BY DEF Call
  <2> HIDE DEF s, m1, m2, p1, p2, p3, p4, c, q1, q2, q3, q4, v
  <2>5. s = <<m1, m2>> \o <<p1, p2, p3, p4>> \o <<c>> \o <<q1, q2, q3, q4>> \o <<v>>
    BY ONLY <2>1, <2>2, <2>3, <2>4
  <2>6. Len(s) = 12 /\ s[1] = m1 /\ s[2] = m2 /\ s[3] = p1 /\ s[4] = p2 /\ s[5] = p3 /\ s[6] = p4 /\ s[7] = c /\ s[8] = q1 /\ s[9] = q2 /\ s[10] = q3 /\ s[11] = q4 /\ s[12] = v
    BY ONLY <2>5, Parts2
  <2> QED BY <2>6 DEF m1, m2, p1, p2, p3, p4, c, q1, q2, q3, q4, v
<1> HIDE DEF s
<1>2. /\ e(0) = Blank
      /\ e(1) = Take(e(0), Write("mov", Reg("rdi"), V("y")))
      /\ e(2) = Take(e(1), Write("mov", Reg("rsi"), V("x")))
      /\ e(3) = Take(e(2), WriteOne("push", Reg("r8")))
      /\ e(4) = Take(e(3), WriteOne("push", Reg("r9")))
      /\ e(5) = Take(e(4), WriteOne("push", Reg("r10")))
      /\ e(6) = Take(e(5), WriteOne("push", Reg("r11")))
      /\ e(7) = Take(e(6), WriteOne("call", V(function)))
      /\ e(8) = Take(e(7), WriteOne("pop", Reg("r11")))
      /\ e(9) = Take(e(8), WriteOne("pop", Reg("r10")))
      /\ e(10) = Take(e(9), WriteOne("pop", Reg("r9")))
      /\ e(11) = Take(e(10), WriteOne("pop", Reg("r8")))
      /\ e(12) = Take(e(11), Write("mov", V("v"), Reg("rax")))
      /\ Text(s) = e(12).text
  <2>1. /\ e(0) = Blank
        /\ \A j \in 1 .. 12 : e(j) = Take(e(j - 1), s[j])
    <3>1. Len(s) = 12 /\ Len(s) \in Nat
      BY <1>1
    <3>2. /\ e(0) = Blank
          /\ \A j \in 1 .. Len(s) : e(j) = Take(e(j - 1), s[j])
      BY ONLY <3>1, WritingSteps
    <3> HIDE DEF e
    <3> QED BY <3>1, <3>2
  <2>2. Text(s) = e(12).text
    BY <1>1 DEF Text
  <2> HIDE DEF e
  <2>3. /\ e(1) = Take(e(0), s[1])
        /\ e(2) = Take(e(1), s[2])
        /\ e(3) = Take(e(2), s[3])
        /\ e(4) = Take(e(3), s[4])
        /\ e(5) = Take(e(4), s[5])
        /\ e(6) = Take(e(5), s[6])
        /\ e(7) = Take(e(6), s[7])
        /\ e(8) = Take(e(7), s[8])
        /\ e(9) = Take(e(8), s[9])
        /\ e(10) = Take(e(9), s[10])
        /\ e(11) = Take(e(10), s[11])
        /\ e(12) = Take(e(11), s[12])
    BY <2>1
  <2> QED BY <1>1, <2>1, <2>2, <2>3
<1> HIDE DEF e
<1>3. /\ b \in Machines /\ {"x", "y", "c"} \subseteq Nodes \ {"v"}
      /\ {"rdi", "rsi", "rdx", "rcx"} \subseteq RegisterNames /\ {"rdi", "rsi", "rdx", "rcx"} \subseteq U
      /\ "rsp" \in RegisterNames
  BY NamesDiffer, NamesAre DEF Fit
<1>4. /\ Doing(b, e(0), m(0), U, D) /\ m(0) = b /\ \A n \in Nodes : Loose(n) => e(0).held[n] = NoName
  <2>1. Doing(b, e(0), b, U, D) /\ \A n \in Nodes : Loose(n) => e(0).held[n] = NoName
    BY <1>2, <1>3, Begun
  <2> QED BY <2>1 DEF Doing
<1>5. /\ Doing(b, e(1), m(1), U, D) /\ e(1).held = e(0).held
      /\ SetsRegister(m(0), m(1), "rdi", ContentOf(b, "y"))
  <2>1. e(1) = Take(e(0), Write("mov", Reg("rdi"), V("y"))) /\ Doing(b, e(0), m(0), U, D)
        /\ (Loose("y") => e(0).held["y"] = NoName)
    BY <1>2, <1>3, <1>4
  <2>2. Resolved(e(0).held, Reg("rdi")) = Reg("rdi")
    BY <1>3, ResolvedIs
  <2> QED BY <1>3, <2>1, <2>2, NodeMovTaken
<1>6. /\ Doing(b, e(2), m(2), U, D) /\ e(2).held = e(1).held
      /\ SetsRegister(m(1), m(2), "rsi", ContentOf(b, "x"))
  <2>1. e(2) = Take(e(1), Write("mov", Reg("rsi"), V("x"))) /\ Doing(b, e(1), m(1), U, D)
        /\ (Loose("x") => e(1).held["x"] = NoName)
    BY <1>2, <1>3, <1>4, <1>5
  <2>2. Resolved(e(1).held, Reg("rsi")) = Reg("rsi")
    BY <1>3, ResolvedIs
  <2> QED BY <1>3, <2>1, <2>2, NodeMovTaken
<1>7. /\ Doing(b, e(2), m(2), U, D) /\ \A n \in Nodes : Loose(n) => e(2).held[n] = NoName
      /\ m(2).reg["rsp"] = a + 32
      /\ Returned(m(2)) = ContentOf(b, "y") + 2 * ContentOf(b, "x") + 4 * b.reg["rdx"] + 8 * b.reg["rcx"] + 1
  <2>1. /\ m(2).reg["rdi"] = ContentOf(b, "y") /\ m(2).reg["rsi"] = ContentOf(b, "x")
        /\ m(2).reg["rdx"] = b.reg["rdx"] /\ m(2).reg["rcx"] = b.reg["rcx"]
        /\ m(2).reg["rsp"] = b.reg["rsp"]
    BY <1>3, <1>4, <1>5, <1>6 DEF SetsRegister
  <2> QED BY <1>4, <1>5, <1>6, <2>1 DEF Returned
<1>8. /\ Doing(b, e(12), m(12), U, D) /\ m(12).went = "called"
      /\ ContentOf(m(12), "v") = Cut(Returned(m(2)))
  <2>1. {a, a + 8, a + 16, a + 24} \subseteq Cells \cap D
    OBVIOUS
  <2> QED BY ONLY Housed, Fit(b, U, D), Taking(U, D), function \in {"f", "y"}, ContentOf(b, function) = Function,
                  <1>2, <1>7, <2>1, CallTaken
<1>9. Brings(b, Text(s), m(12), U, D)
  BY <1>2, <1>8 DEF Doing, Brings
<1> QED BY <1>7, <1>8, <1>9 DEF s

LEMMA Call4Runs ==
  ASSUME Housed, NEW b, NEW U, NEW D, Fit(b, U, D), Taking(U, D),
         NEW function \in {"f", "y"}, ContentOf(b, function) = Function,
         NEW a, b.reg["rsp"] = a + 32, {a, a + 8, a + 16, a + 24} \subseteq Cells \cap D
  PROVE  \E p : /\ Brings(b, Text(Call(function, <<"c", "x", "y", "x">>)), p, U, D) /\ p.went = "called"
                /\ ContentOf(p, "v") =
                     Cut(ContentOf(b, "c") + (2 * ContentOf(b, "x")) + (4 * ContentOf(b, "y"))
                           + (8 * ContentOf(b, "x")) + 1)
<1> DEFINE s == Call(function, <<"c", "x", "y", "x">>)
           e(k) == Writing(s)[k]
           m(k) == Run(b, e(k).text)
<1>1. /\ Len(s) = 14
      /\ s[1] = Write("mov", Reg("rdi"), V("c"))
      /\ s[2] = Write("mov", Reg("rsi"), V("x"))
      /\ s[3] = Write("mov", Reg("rdx"), V("y"))
      /\ s[4] = Write("mov", Reg("rcx"), V("x"))
      /\ s[5] = WriteOne("push", Reg("r8"))
      /\ s[6] = WriteOne("push", Reg("r9"))
      /\ s[7] = WriteOne("push", Reg("r10"))
      /\ s[8] = WriteOne("push", Reg("r11"))
      /\ s[9] = WriteOne("call", V(function))
      /\ s[10] = WriteOne("pop", Reg("r11"))
      /\ s[11] = WriteOne("pop", Reg("r10"))
      /\ s[12] = WriteOne("pop", Reg("r9"))
      /\ s[13] = WriteOne("pop", Reg("r8"))
      /\ s[14] = Write("mov", V("v"), Reg("rax"))
  <2> DEFINE m1 == Write("mov", Reg("rdi"), V("c"))
             m2 == Write("mov", Reg("rsi"), V("x"))
             m3 == Write("mov", Reg("rdx"), V("y"))
             m4 == Write("mov", Reg("rcx"), V("x"))
             p1 == WriteOne("push", Reg("r8"))
             p2 == WriteOne("push", Reg("r9"))
             p3 == WriteOne("push", Reg("r10"))
             p4 == WriteOne("push", Reg("r11"))
             c == WriteOne("call", V(function))
             q1 == WriteOne("pop", Reg("r11"))
             q2 == WriteOne("pop", Reg("r10"))
             q3 == WriteOne("pop", Reg("r9"))
             q4 == WriteOne("pop", Reg("r8"))
             v == Write("mov", V("v"), Reg("rax"))
  <2>1. [i \in DOMAIN <<"c", "x", "y", "x">> |-> Write("mov", Reg(CallRegs[i]), V(<<"c", "x", "y", "x">>[i]))] = <<m1, m2, m3, m4>>
    BY DEF CallRegs
  <2>2. [i \in DOMAIN Kept |-> WriteOne("push", Reg(Kept[i]))] = <<p1, p2, p3, p4>>
    BY DEF Kept
  <2>3. [i \in DOMAIN Kept |-> WriteOne("pop", Reg(Kept[Len(Kept) + 1 - i]))] = <<q1, q2, q3, q4>>
    BY DEF Kept
  <2>4. s = [i \in DOMAIN <<"c", "x", "y", "x">> |-> Write("mov", Reg(CallRegs[i]), V(<<"c", "x", "y", "x">>[i]))]
              \o [i \in DOMAIN Kept |-> WriteOne("push", Reg(Kept[i]))] \o <<c>>
              \o [i \in DOMAIN Kept |-> WriteOne("pop", Reg(Kept[Len(Kept) + 1 - i]))] \o <<v>>
    BY DEF Call
  <2> HIDE DEF s, m1, m2, m3, m4, p1, p2, p3, p4, c, q1, q2, q3, q4, v
  <2>5. s = <<m1, m2, m3, m4>> \o <<p1, p2, p3, p4>> \o <<c>> \o <<q1, q2, q3, q4>> \o <<v>>
    BY ONLY <2>1, <2>2, <2>3, <2>4
  <2>6. Len(s) = 14 /\ s[1] = m1 /\ s[2] = m2 /\ s[3] = m3 /\ s[4] = m4 /\ s[5] = p1 /\ s[6] = p2 /\ s[7] = p3 /\ s[8] = p4 /\ s[9] = c /\ s[10] = q1 /\ s[11] = q2 /\ s[12] = q3 /\ s[13] = q4 /\ s[14] = v
    BY ONLY <2>5, Parts4
  <2> QED BY <2>6 DEF m1, m2, m3, m4, p1, p2, p3, p4, c, q1, q2, q3, q4, v
<1> HIDE DEF s
<1>2. /\ e(0) = Blank
      /\ e(1) = Take(e(0), Write("mov", Reg("rdi"), V("c")))
      /\ e(2) = Take(e(1), Write("mov", Reg("rsi"), V("x")))
      /\ e(3) = Take(e(2), Write("mov", Reg("rdx"), V("y")))
      /\ e(4) = Take(e(3), Write("mov", Reg("rcx"), V("x")))
      /\ e(5) = Take(e(4), WriteOne("push", Reg("r8")))
      /\ e(6) = Take(e(5), WriteOne("push", Reg("r9")))
      /\ e(7) = Take(e(6), WriteOne("push", Reg("r10")))
      /\ e(8) = Take(e(7), WriteOne("push", Reg("r11")))
      /\ e(9) = Take(e(8), WriteOne("call", V(function)))
      /\ e(10) = Take(e(9), WriteOne("pop", Reg("r11")))
      /\ e(11) = Take(e(10), WriteOne("pop", Reg("r10")))
      /\ e(12) = Take(e(11), WriteOne("pop", Reg("r9")))
      /\ e(13) = Take(e(12), WriteOne("pop", Reg("r8")))
      /\ e(14) = Take(e(13), Write("mov", V("v"), Reg("rax")))
      /\ Text(s) = e(14).text
  <2>1. /\ e(0) = Blank
        /\ \A j \in 1 .. 14 : e(j) = Take(e(j - 1), s[j])
    <3>1. Len(s) = 14 /\ Len(s) \in Nat
      BY <1>1
    <3>2. /\ e(0) = Blank
          /\ \A j \in 1 .. Len(s) : e(j) = Take(e(j - 1), s[j])
      BY ONLY <3>1, WritingSteps
    <3> HIDE DEF e
    <3> QED BY <3>1, <3>2
  <2>2. Text(s) = e(14).text
    BY <1>1 DEF Text
  <2> HIDE DEF e
  <2>3. /\ e(1) = Take(e(0), s[1])
        /\ e(2) = Take(e(1), s[2])
        /\ e(3) = Take(e(2), s[3])
        /\ e(4) = Take(e(3), s[4])
        /\ e(5) = Take(e(4), s[5])
        /\ e(6) = Take(e(5), s[6])
        /\ e(7) = Take(e(6), s[7])
        /\ e(8) = Take(e(7), s[8])
        /\ e(9) = Take(e(8), s[9])
        /\ e(10) = Take(e(9), s[10])
        /\ e(11) = Take(e(10), s[11])
        /\ e(12) = Take(e(11), s[12])
        /\ e(13) = Take(e(12), s[13])
        /\ e(14) = Take(e(13), s[14])
    BY <2>1
  <2> QED BY <1>1, <2>1, <2>2, <2>3
<1> HIDE DEF e
<1>3. /\ b \in Machines /\ {"x", "y", "c"} \subseteq Nodes \ {"v"}
      /\ {"rdi", "rsi", "rdx", "rcx"} \subseteq RegisterNames /\ {"rdi", "rsi", "rdx", "rcx"} \subseteq U
      /\ "rsp" \in RegisterNames
  BY NamesDiffer, NamesAre DEF Fit
<1>4. /\ Doing(b, e(0), m(0), U, D) /\ m(0) = b /\ \A n \in Nodes : Loose(n) => e(0).held[n] = NoName
  <2>1. Doing(b, e(0), b, U, D) /\ \A n \in Nodes : Loose(n) => e(0).held[n] = NoName
    BY <1>2, <1>3, Begun
  <2> QED BY <2>1 DEF Doing
<1>5. /\ Doing(b, e(1), m(1), U, D) /\ e(1).held = e(0).held
      /\ SetsRegister(m(0), m(1), "rdi", ContentOf(b, "c"))
  <2>1. e(1) = Take(e(0), Write("mov", Reg("rdi"), V("c"))) /\ Doing(b, e(0), m(0), U, D)
        /\ (Loose("c") => e(0).held["c"] = NoName)
    BY <1>2, <1>3, <1>4
  <2>2. Resolved(e(0).held, Reg("rdi")) = Reg("rdi")
    BY <1>3, ResolvedIs
  <2> QED BY <1>3, <2>1, <2>2, NodeMovTaken
<1>6. /\ Doing(b, e(2), m(2), U, D) /\ e(2).held = e(1).held
      /\ SetsRegister(m(1), m(2), "rsi", ContentOf(b, "x"))
  <2>1. e(2) = Take(e(1), Write("mov", Reg("rsi"), V("x"))) /\ Doing(b, e(1), m(1), U, D)
        /\ (Loose("x") => e(1).held["x"] = NoName)
    BY <1>2, <1>3, <1>4, <1>5
  <2>2. Resolved(e(1).held, Reg("rsi")) = Reg("rsi")
    BY <1>3, ResolvedIs
  <2> QED BY <1>3, <2>1, <2>2, NodeMovTaken
<1>7. /\ Doing(b, e(3), m(3), U, D) /\ e(3).held = e(2).held
      /\ SetsRegister(m(2), m(3), "rdx", ContentOf(b, "y"))
  <2>1. e(3) = Take(e(2), Write("mov", Reg("rdx"), V("y"))) /\ Doing(b, e(2), m(2), U, D)
        /\ (Loose("y") => e(2).held["y"] = NoName)
    BY <1>2, <1>3, <1>4, <1>5, <1>6
  <2>2. Resolved(e(2).held, Reg("rdx")) = Reg("rdx")
    BY <1>3, ResolvedIs
  <2> QED BY <1>3, <2>1, <2>2, NodeMovTaken
<1>8. /\ Doing(b, e(4), m(4), U, D) /\ e(4).held = e(3).held
      /\ SetsRegister(m(3), m(4), "rcx", ContentOf(b, "x"))
  <2>1. e(4) = Take(e(3), Write("mov", Reg("rcx"), V("x"))) /\ Doing(b, e(3), m(3), U, D)
        /\ (Loose("x") => e(3).held["x"] = NoName)
    BY <1>2, <1>3, <1>4, <1>5, <1>6, <1>7
  <2>2. Resolved(e(3).held, Reg("rcx")) = Reg("rcx")
    BY <1>3, ResolvedIs
  <2> QED BY <1>3, <2>1, <2>2, NodeMovTaken
<1>9. /\ Doing(b, e(4), m(4), U, D) /\ \A n \in Nodes : Loose(n) => e(4).held[n] = NoName
      /\ m(4).reg["rsp"] = a + 32
      /\ Returned(m(4)) = ContentOf(b, "c") + 2 * ContentOf(b, "x") + 4 * ContentOf(b, "y") + 8 * ContentOf(b, "x") + 1
  <2>1. /\ m(4).reg["rdi"] = ContentOf(b, "c") /\ m(4).reg["rsi"] = ContentOf(b, "x")
        /\ m(4).reg["rdx"] = ContentOf(b, "y") /\ m(4).reg["rcx"] = ContentOf(b, "x")
        /\ m(4).reg["rsp"] = b.reg["rsp"]
    BY <1>3, <1>4, <1>5, <1>6, <1>7, <1>8 DEF SetsRegister
  <2> QED BY <1>4, <1>5, <1>6, <1>7, <1>8, <2>1 DEF Returned
<1>10. /\ Doing(b, e(14), m(14), U, D) /\ m(14).went = "called"
      /\ ContentOf(m(14), "v") = Cut(Returned(m(4)))
  <2>1. {a, a + 8, a + 16, a + 24} \subseteq Cells \cap D
    OBVIOUS
  <2> QED BY ONLY Housed, Fit(b, U, D), Taking(U, D), function \in {"f", "y"}, ContentOf(b, function) = Function,
                  <1>2, <1>9, <2>1, CallTaken
<1>11. Brings(b, Text(s), m(14), U, D)
  BY <1>2, <1>10 DEF Doing, Brings
<1> QED BY <1>9, <1>10, <1>11 DEF s

(***************************************************************************)
(* The end of the function, and its beginning.                             *)
(***************************************************************************)
LEMMA PartsOfRet ==
  ASSUME NEW m1, NEW m2, NEW q1, NEW q2, NEW q3, NEW q4, NEW v1, NEW v2, NEW s,
         s = <<m1, m2>> \o <<q1, q2, q3, q4>> \o <<v1, v2>>
  PROVE  /\ Len(s) = 8
         /\ s[1] = m1
         /\ s[2] = m2
         /\ s[3] = q1
         /\ s[4] = q2
         /\ s[5] = q3
         /\ s[6] = q4
         /\ s[7] = v1
         /\ s[8] = v2
OBVIOUS

LEMMA RetRuns ==
  ASSUME Housed, NEW cells, NEW b, Framed(b, cells), NEW n \in {"x", "v"}
  PROVE  \E p : /\ Legal(b, Text(Ret(n))) /\ p = Run(b, Text(Ret(n))) /\ p \in Machines
                /\ GivesBack(b, p, n, cells)
<1> DEFINE s == Ret(n)
           e(k) == Writing(s)[k]
           m(k) == Run(b, e(k).text)
<1>1. /\ Len(s) = 8
      /\ s[1] = Write("mov", Reg("rax"), V(n))
      /\ s[2] = Write("sub", Reg("rsp"), Number(FrameSize))
      /\ s[3] = WriteOne("pop", Reg("r15"))
      /\ s[4] = WriteOne("pop", Reg("r14"))
      /\ s[5] = WriteOne("pop", Reg("r13"))
      /\ s[6] = WriteOne("pop", Reg("r12"))
      /\ s[7] = WriteOne("pop", Reg("rbp"))
      /\ s[8] = WriteOne("ret", Nothing)
  <2> DEFINE m1 == Write("mov", Reg("rax"), V(n))
             m2 == Write("sub", Reg("rsp"), Number(FrameSize))
             q1 == WriteOne("pop", Reg("r15"))
             q2 == WriteOne("pop", Reg("r14"))
             q3 == WriteOne("pop", Reg("r13"))
             q4 == WriteOne("pop", Reg("r12"))
             v1 == WriteOne("pop", Reg("rbp"))
             v2 == WriteOne("ret", Nothing)
  <2>1. [i \in DOMAIN Saved |-> WriteOne("pop", Reg(Saved[Len(Saved) + 1 - i]))] = <<q1, q2, q3, q4>>
    BY DEF Saved
  <2>2. s = <<m1, m2>> \o [i \in DOMAIN Saved |-> WriteOne("pop", Reg(Saved[Len(Saved) + 1 - i]))] \o <<v1, v2>>
    BY DEF Ret
  <2> HIDE DEF s, m1, m2, q1, q2, q3, q4, v1, v2
  <2>3. s = <<m1, m2>> \o <<q1, q2, q3, q4>> \o <<v1, v2>>
    BY ONLY <2>1, <2>2
  <2>4. Len(s) = 8 /\ s[1] = m1 /\ s[2] = m2 /\ s[3] = q1 /\ s[4] = q2 /\ s[5] = q3 /\ s[6] = q4 /\ s[7] = v1 /\ s[8] = v2
    BY ONLY <2>3, PartsOfRet
  <2> QED BY <2>4 DEF m1, m2, q1, q2, q3, q4, v1, v2
<1> HIDE DEF s
<1>2. /\ e(0) = Blank
      /\ e(1) = Take(e(0), Write("mov", Reg("rax"), V(n)))
      /\ e(2) = Take(e(1), Write("sub", Reg("rsp"), Number(FrameSize)))
      /\ e(3) = Take(e(2), WriteOne("pop", Reg("r15")))
      /\ e(4) = Take(e(3), WriteOne("pop", Reg("r14")))
      /\ e(5) = Take(e(4), WriteOne("pop", Reg("r13")))
      /\ e(6) = Take(e(5), WriteOne("pop", Reg("r12")))
      /\ e(7) = Take(e(6), WriteOne("pop", Reg("rbp")))
      /\ e(8) = Take(e(7), WriteOne("ret", Nothing))
      /\ Text(s) = e(8).text
  <2>1. /\ e(0) = Blank
        /\ \A j \in 1 .. 8 : e(j) = Take(e(j - 1), s[j])
    <3>1. Len(s) = 8 /\ Len(s) \in Nat
      BY <1>1
    <3>2. /\ e(0) = Blank
          /\ \A j \in 1 .. Len(s) : e(j) = Take(e(j - 1), s[j])
      BY ONLY <3>1, WritingSteps
    <3> HIDE DEF e
    <3> QED BY <3>1, <3>2
  <2>2. Text(s) = e(8).text
    BY <1>1 DEF Text
  <2> HIDE DEF e
  <2>3. /\ e(1) = Take(e(0), s[1])
        /\ e(2) = Take(e(1), s[2])
        /\ e(3) = Take(e(2), s[3])
        /\ e(4) = Take(e(3), s[4])
        /\ e(5) = Take(e(4), s[5])
        /\ e(6) = Take(e(5), s[6])
        /\ e(7) = Take(e(6), s[7])
        /\ e(8) = Take(e(7), s[8])
    BY <2>1
  <2> QED BY <1>1, <2>1, <2>2, <2>3
<1> HIDE DEF e
<1>3. /\ b \in Machines /\ n \in Nodes /\ {"rax", "rsp", "rbp", "r12", "r13", "r14", "r15"} \subseteq RegisterNames
      /\ {"rbp", "r12", "r13", "r14", "r15"} \subseteq RegisterNames \ {"rsp"}
      /\ b.reg["rbp"] = 2040 /\ {2008, 2016, 2024, 2032, 2040} \subseteq Cells
  BY NamesDiffer, NamesAre, NamedCells DEF Framed, Stack
<1>4. Following(b, e(0), b) /\ \A k \in Nodes : Loose(k) => e(0).held[k] = NoName
  BY <1>2, <1>3, Begun, FollowedIs
<1>5. Following(b, e(1), m(1)) /\ e(1).held = e(0).held /\ SetsRegister(b, m(1), "rax", ContentOf(b, n))
  <2> DEFINE o == Printed(e(0).held, n)
  <2>1. Holding(e(0).held) /\ (Loose(n) => e(0).held[n] = NoName)
    BY <1>3, <1>4 DEF Following, Doing
  <2>2. /\ Content(b, o) = ContentOf(b, n) /\ ContentOf(b, n) \in Words
        /\ IsRegister(o) \/ IsMemory(o) \/ o.in = "number"
    BY <1>3, <2>1, PrintedAtHome
  <2>3. Resolved(e(0).held, V(n)) = o /\ Resolved(e(0).held, Reg("rax")) = Reg("rax")
    BY <1>3, ResolvedIs
  <2> HIDE DEF o
  <2>4. e(1) = Take(e(0), Write("mov", Reg("rax"), V(n))) /\ Doing(b, e(0), b, RegisterNames, Cells)
    BY <1>2, <1>4 DEF Following
  <2> QED BY <1>3, <2>2, <2>3, <2>4, MovTaken DEF Following
<1>6. Following(b, e(2), m(2)) /\ SetsRegister(m(1), m(2), "rsp", 2008)
  <2> DEFINE o == Number(FrameSize)
             i == Instruction("sub", Reg("rsp"), o)
  <2>1. FrameSize \in Int /\ m(1).reg["rsp"] = 2008 + FrameSize /\ m(1) \in Machines
    <3>1. FrameSize \in Int
      BY FrameCells
    <3>2. Stack - 40 + FrameSize = 2008 + FrameSize
      BY <3>1 DEF Stack
    <3> QED BY <1>3, <1>5, <3>1, <3>2 DEF SetsRegister, Framed
  <2>2. Content(m(1), o) = Cut(FrameSize) /\ Cut(FrameSize) \in Words /\ o.in = "number"
    BY <2>1, ContentIs, CutIsWord, OperandKinds
  <2>3. Encodable(i)
    BY <1>3, <2>2, OperandKinds, EncodableMove
  <2>4. Cut(m(1).reg["rsp"] - Cut(FrameSize)) = 2008
    <3> DEFINE k == m(1).reg["rsp"]
               f == FrameSize
    <3>1. k \in Int /\ f \in Int /\ k - f = 2008
      BY <2>1
    <3>2. Cut(2008) = 2008
      BY SmallWords
    <3> HIDE DEF k, f
    <3>3. Cut(k - Cut(f)) = Cut(k - f)
      BY <3>1, CutWithin
    <3>4. Cut(k - Cut(f)) = 2008
      BY <3>1, <3>2, <3>3
    <3> QED BY <3>4 DEF k, f
  <2> HIDE DEF o
  <2>5. SetsRegister(m(1), Executed(m(1), i), "rsp", 2008)
    BY <1>3, <2>1, <2>2, <2>4, SubtractedIs
  <2>6. i = Instruction("sub", Resolved(e(1).held, Reg("rsp")), Resolved(e(1).held, Number(FrameSize)))
    BY <1>3, ResolvedIs DEF o
  <2> HIDE DEF i
  <2>7. Executed(m(1), i) \in Machines /\ Spares(m(1), Executed(m(1), i), RegisterNames, Cells)
    BY <2>5 DEF SetsRegister, Spares
  <2>8. e(2) = Take(e(1), Write("sub", Reg("rsp"), Number(FrameSize))) /\ Doing(b, e(1), m(1), RegisterNames, Cells)
    BY <1>2, <1>5 DEF Following
  <2>9. Doing(b, e(2), Executed(m(1), i), RegisterNames, Cells) /\ m(2) = Executed(m(1), i)
    BY <2>3, <2>6, <2>7, <2>8, WriteTaken
  <2> QED BY <2>5, <2>9 DEF Following
<1>7. Following(b, e(3), m(3)) /\ Pops(m(2), m(3), "r15", 2008)
  <2>1. m(2).reg["rsp"] = 2008
    BY <1>3, <1>6 DEF SetsRegister
  <2>2. e(3) = Take(e(2), WriteOne("pop", Reg("r15"))) /\ Following(b, e(2), m(2))
    BY <1>2, <1>6
  <2> QED BY <1>3, <2>1, <2>2, PopTaken
<1>8. Following(b, e(4), m(4)) /\ Pops(m(3), m(4), "r14", 2016)
  <2>1. m(3).reg["rsp"] = 2016
    BY <1>3, <1>7 DEF Pops
  <2>2. e(4) = Take(e(3), WriteOne("pop", Reg("r14"))) /\ Following(b, e(3), m(3))
    BY <1>2, <1>7
  <2> QED BY <1>3, <2>1, <2>2, PopTaken
<1>9. Following(b, e(5), m(5)) /\ Pops(m(4), m(5), "r13", 2024)
  <2>1. m(4).reg["rsp"] = 2024
    BY <1>3, <1>8 DEF Pops
  <2>2. e(5) = Take(e(4), WriteOne("pop", Reg("r13"))) /\ Following(b, e(4), m(4))
    BY <1>2, <1>8
  <2> QED BY <1>3, <2>1, <2>2, PopTaken
<1>10. Following(b, e(6), m(6)) /\ Pops(m(5), m(6), "r12", 2032)
  <2>1. m(5).reg["rsp"] = 2032
    BY <1>3, <1>9 DEF Pops
  <2>2. e(6) = Take(e(5), WriteOne("pop", Reg("r12"))) /\ Following(b, e(5), m(5))
    BY <1>2, <1>9
  <2> QED BY <1>3, <2>1, <2>2, PopTaken
<1>11. Following(b, e(7), m(7)) /\ Pops(m(6), m(7), "rbp", 2040)
  <2>1. m(6).reg["rsp"] = 2040
    BY <1>3, <1>10 DEF Pops
  <2>2. e(7) = Take(e(6), WriteOne("pop", Reg("rbp"))) /\ Following(b, e(6), m(6))
    BY <1>2, <1>10
  <2> QED BY <1>3, <2>1, <2>2, PopTaken
<1>12. Following(b, e(8), m(8)) /\ Jumps(m(7), m(8), "returned")
  <2>1. e(8) = Take(e(7), WriteOne("ret", Nothing)) /\ Doing(b, e(7), m(7), RegisterNames, Cells) /\ m(7) \in Machines
    BY <1>2, <1>11 DEF Following, Pops
  <2>2. Jumps(m(7), Executed(m(7), Instruction("ret", Nothing, Nothing)), "returned")
    BY <2>1, JumpedIs
  <2> QED BY <2>1, <2>2, JumpTaken DEF Following
<1>13. Legal(b, Text(s)) /\ m(8) = Run(b, Text(s)) /\ m(8) \in Machines
  BY <1>2, <1>12 DEF Following, Doing
<1>14. /\ m(7).mem = b.mem /\ m(6).mem = b.mem /\ m(5).mem = b.mem /\ m(4).mem = b.mem /\ m(3).mem = b.mem
       /\ m(2).mem = b.mem /\ m(7).reg["rsp"] = 2048
  BY <1>5, <1>6, <1>7, <1>8, <1>9, <1>10, <1>11 DEF Pops, SetsRegister
<1>15. /\ m(7).reg["rax"] = ContentOf(b, n) /\ m(7).reg["rbp"] = b.mem[2040] /\ m(7).reg["r12"] = b.mem[2032]
       /\ m(7).reg["r13"] = b.mem[2024] /\ m(7).reg["r14"] = b.mem[2016] /\ m(7).reg["r15"] = b.mem[2008]
  BY <1>3, <1>5, <1>6, <1>7, <1>8, <1>9, <1>10, <1>11, <1>14 DEF Pops, SetsRegister
<1>16. GivesBack(b, m(8), n, cells)
  <2>1. m(8).reg = m(7).reg /\ m(8).mem = m(7).mem /\ m(8).went = "returned"
    BY <1>12 DEF Jumps
  <2>2. m(8).reg["rsp"] = Stack
    BY <1>14, <2>1 DEF Stack
  <2>3. \A r \in {"rbp", "r12", "r13", "r14", "r15"} : m(8).reg[r] = Caller(0, 0).reg[r]
    BY <1>15, <2>1 DEF Framed
  <2>4. \A a \in Cells \ cells : a >= Stack => m(8).mem[a] = a + 1
    BY <1>14, <2>1 DEF Framed
  <2> QED BY <1>15, <2>1, <2>2, <2>3, <2>4 DEF GivesBack
<1> QED BY <1>13, <1>16 DEF s

(* A text followed to its k-th instruction.                                *)
Along(b, t, k, m) ==
  /\ IsText(t) /\ Len(t) \in Nat /\ k \in 0 .. Len(t)
  /\ \A j \in 0 .. k : Executing(b, t)[j] \in Machines
  /\ \A j \in 1 .. k : Encodable(t[j])
  /\ m = Executing(b, t)[k] /\ m \in Machines

LEMMA AlongNothing ==
  ASSUME NEW b \in Machines, NEW t, IsText(t)
  PROVE  Along(b, t, 0, b)
<1>1. Len(t) \in Nat
  BY TextLength
<1>2. Executing(b, t)[0] = b
  BY <1>1, ExecutingSteps
<1>3. \A j \in 0 .. 0 : j = 0
  OBVIOUS
<1>4. \A j \in 1 .. 0 : FALSE
  OBVIOUS
<1> QED BY <1>1, <1>2, <1>3, <1>4 DEF Along

LEMMA AlongOne ==
  ASSUME NEW b, NEW t, NEW k, NEW m, Along(b, t, k, m), NEW j, j = k + 1, j \in 1 .. Len(t),
         NEW i, t[j] = i, Encodable(i), NEW o, Executed(m, i) = o, o \in Machines
  PROVE  Along(b, t, j, o)
<1> DEFINE n == Len(t)
           x == Executing(b, t)
<1>1. n \in Nat /\ k \in 0 .. n /\ j \in 1 .. n /\ j \in 0 .. n /\ j - 1 = k
  BY DEF Along
<1>2. x[j] = Executed(x[j - 1], t[j])
  BY <1>1, ExecutingSteps
<1>3. x[j] = o
  BY <1>1, <1>2 DEF Along
<1>4. /\ \A h \in 0 .. k : x[h] \in Machines
      /\ \A h \in 1 .. k : Encodable(t[h])
  BY DEF Along
<1> HIDE DEF n, x
<1>5. \A h \in 0 .. j : h \in 0 .. k \/ h = j
  BY <1>1
<1>6. \A h \in 1 .. j : h \in 1 .. k \/ h = j
  BY <1>1
<1>7. /\ \A h \in 0 .. j : x[h] \in Machines
      /\ \A h \in 1 .. j : Encodable(t[h])
  BY <1>3, <1>4, <1>5, <1>6
<1>8. IsText(t)
  BY DEF Along
<1> QED BY <1>1, <1>3, <1>7, <1>8 DEF Along, n, x

LEMMA AlongAll ==
  ASSUME NEW b, NEW t, NEW m, Along(b, t, Len(t), m)
  PROVE  Legal(b, t) /\ Run(b, t) = m
BY DEF Along, Legal, Run

(* The machine the function is entered with.                               *)
LEMMA CallerIs ==
  ASSUME NEW x \in Words, NEW y \in Words
  PROVE  LET c == Caller(x, y)
         IN  /\ c \in Machines /\ c.went = "ahead" /\ c.reg["rsp"] = 2048
             /\ \A a \in Cells : c.mem[a] = a + 1
             /\ \A r \in {"rbp", "r12", "r13", "r14", "r15"} : c.reg[r] = Caller(0, 0).reg[r]
<1> DEFINE R(u, w) == [r \in RegisterNames |->
              CASE r = "rdi" -> u [] r = "rsi" -> w [] r = "rsp" -> Stack
                [] r \in Scratch \cup {"rbp"} -> 1001
                [] OTHER -> 1001 + CHOOSE i \in DOMAIN Given : Given[i] = r]
           M == [a \in Cells |-> a + 1]
           c == Caller(x, y)
<1>1. \A u, w : Caller(u, w) = [reg |-> R(u, w), mem |-> M, compared |-> <<0, 0>>, went |-> "ahead"]
  BY DEF Caller
<1>2. 0 \in Words /\ 1001 \in Words /\ Stack \in Words /\ Stack = 2048
  BY SmallWords DEF Stack
<1>3. \A r \in RegisterNames \ ({"rsp", "rbp"} \cup Scratch) :
        1001 + (CHOOSE i \in DOMAIN Given : Given[i] = r) \in Words
  <2> SUFFICES ASSUME NEW r \in RegisterNames \ ({"rsp", "rbp"} \cup Scratch)
               PROVE  1001 + (CHOOSE i \in DOMAIN Given : Given[i] = r) \in Words
    OBVIOUS
  <2> DEFINE d == CHOOSE i \in DOMAIN Given : Given[i] = r
  <2>1. r \in {Given[i] : i \in DOMAIN Given}
    BY DEF RegisterNames, Frame
  <2>2. d \in DOMAIN Given
    BY <2>1
  <2>3. DOMAIN Given = 1 .. 8
    BY DEF Given
  <2> HIDE DEF d
  <2>4. 1001 + d \in Nat /\ 1001 + d < 4096
    BY <2>2, <2>3
  <2>5. 1001 + d \in Words
    BY <2>4, SmallWords
  <2> QED BY <2>5 DEF d
<1>4. R(x, y) \in [RegisterNames -> Words]
  BY <1>2, <1>3
<1>5. M \in [Cells -> Words]
  <2> SUFFICES ASSUME NEW a \in Cells PROVE a + 1 \in Words
    OBVIOUS
  <2>1. a \in 1824 .. 2088
    BY InCells
  <2>2. a + 1 \in Nat /\ a + 1 < 4096
    BY <2>1
  <2> DEFINE n == a + 1
  <2> HIDE DEF n
  <2>3. n \in Nat /\ n < 4096 => n \in Words
    BY SmallWords
  <2> QED BY <2>2, <2>3 DEF n
<1>6. R(x, y)["rsp"] = Stack
  BY NamesAre
<1>7. \A r \in {"rbp", "r12", "r13", "r14", "r15"} : R(x, y)[r] = R(0, 0)[r]
  BY NamesAre
<1>8. \A a \in Cells : M[a] = a + 1
  OBVIOUS
<1> HIDE DEF R, M
<1>9. /\ c.reg = R(x, y) /\ c.mem = M /\ c.went = "ahead" /\ Caller(0, 0).reg = R(0, 0)
      /\ c = [reg |-> R(x, y), mem |-> M, compared |-> <<0, 0>>, went |-> "ahead"]
  BY <1>1
<1>10. c \in Machines
  BY <1>2, <1>4, <1>5, <1>9 DEF Machines, Ways
<1> QED BY <1>2, <1>6, <1>7, <1>8, <1>9, <1>10

(* An argument comes to where it lives, and nothing else changes that the  *)
(* frame is.                                                               *)
KeepsFrame(m, o) ==
  /\ o \in Machines /\ o.went = m.went
  /\ \A r \in Frame : o.reg[r] = m.reg[r]
  /\ \A a \in Cells : a >= 2000 \/ a \in {1984, 1960} => o.mem[a] = m.mem[a]

LEMMA ArgumentMoved ==
  ASSUME Housed, NEW m \in Machines, m.reg["rbp"] = 2040, NEW i \in {1, 2}
  PROVE  Encodable(ArgumentText(i)) /\ KeepsFrame(m, Executed(m, ArgumentText(i)))
<1> DEFINE n == IF i = 1 THEN "x" ELSE "y"
           r == IF i = 1 THEN "rdi" ELSE "rsi"
<1>1. /\ r \in RegisterNames /\ n \in Values /\ n \in Nodes /\ n \notin {"a", "b"}
      /\ "a" \in Nodes /\ "b" \in Nodes
  BY NamesAre, NamesDiffer
<1>2. Arguments[i] = n /\ CallRegs[i] = r
  BY DEF Arguments, CallRegs
<1> HIDE DEF n, r
<1>3. m.reg[r] \in Words /\ Content(m, Reg(r)) = m.reg[r] /\ IsRegister(Reg(r))
  BY <1>1, MachineParts, ContentIs, OperandKinds
<1>4. CASE Spilled(n)
  <2> DEFINE to == At("rbp", Cell(n) - 2040)
             o == Executed(m, Move(to, Reg(r)))
  <2>1. /\ Address(m, to) = Cell(n) /\ Cell(n) \in Cells /\ IsMemory(to) /\ Cell(n) \in 1936 .. 1984
        /\ StackPhase(n) = Cell(n) - 2040 /\ Cell(n) # 1984 /\ Cell(n) # 1960
    <3>1. Spilled("a") /\ Spilled("b") /\ Cell("a") = 1984 /\ Cell("b") = 1960
      BY Rooms, CellsAre
    <3> QED BY <1>1, <1>4, <3>1, InFrame, FrameCells, OperandKinds
  <2>2. ArgumentText(i) = Move(to, Reg(r))
    BY <1>2, <1>4, <2>1 DEF ArgumentText
  <2> HIDE DEF to
  <2>3. SetsCell(m, o, Cell(n), m.reg[r])
    BY <1>3, <2>1, MovedToCell
  <2>4. Encodable(Move(to, Reg(r)))
    BY <1>3, <2>1, EncodableMove DEF Move
  <2> HIDE DEF o
  <2>5. \A a \in Cells : a >= 2000 \/ a \in {1984, 1960} => a # Cell(n)
    BY <2>1
  <2>6. KeepsFrame(m, o)
    BY <2>3, <2>5 DEF SetsCell, KeepsFrame
  <2> QED BY <2>2, <2>4, <2>6 DEF o
<1>5. CASE ~Spilled(n)
  <2> DEFINE to == Reg(home[n])
             o == Executed(m, Move(to, Reg(r)))
  <2>1. home[n] \in Givens /\ home[n] \in RegisterNames /\ home[n] \notin Frame
    BY <1>1, <1>5, Rooms, NamesAre, NamesDiffer
  <2>2. ArgumentText(i) = Move(to, Reg(r))
    BY <1>2, <1>5 DEF ArgumentText
  <2>3. SetsRegister(m, o, home[n], m.reg[r])
    BY <1>3, <2>1, MovedToRegister
  <2>4. Encodable(Move(to, Reg(r)))
    BY <1>3, <2>1, OperandKinds, EncodableMove DEF Move
  <2> HIDE DEF o, to
  <2>5. Frame \subseteq RegisterNames \ {home[n]}
    BY <2>1, NamesAre
  <2>6. KeepsFrame(m, o)
    BY <2>3, <2>5 DEF SetsRegister, KeepsFrame
  <2> QED BY <2>2, <2>4, <2>6 DEF o
<1> QED BY <1>4, <1>5

(* The prologue makes the frame.                                           *)
LEMMA PrologueRuns ==
  ASSUME Housed, NEW x \in Words, NEW y \in Words
  PROVE  LET p == Run(Caller(x, y), Prologue)
         IN  Legal(Caller(x, y), Prologue) /\ p \in Machines /\ Framed(p, {}) /\ p.went = "ahead"
<1> DEFINE s == Prologue
           c == Caller(x, y)
           m(k) == Executing(c, s)[k]
<1>1. /\ IsText(s) /\ Len(s) = 13
      /\ s[1] = Push("rbp")
      /\ s[2] = Move(Reg("rbp"), Reg("rsp"))
      /\ s[3] = Push("r12")
      /\ s[4] = Push("r13")
      /\ s[5] = Push("r14")
      /\ s[6] = Push("r15")
      /\ s[7] = Instruction("lea", Reg("rax"), At("rbp", DataPhase("a")))
      /\ s[8] = Move(At("rbp", StackPhase("a")), Reg("rax"))
      /\ s[9] = Instruction("lea", Reg("rax"), At("rbp", DataPhase("b")))
      /\ s[10] = Move(At("rbp", StackPhase("b")), Reg("rax"))
      /\ s[11] = ArgumentText(1)
      /\ s[12] = ArgumentText(2)
      /\ s[13] = Instruction("add", Reg("rsp"), Number(FrameSize))
  <2> DEFINE a1 == Push("rbp")
             a2 == Move(Reg("rbp"), Reg("rsp"))
             a3 == Push("r12")
             a4 == Push("r13")
             a5 == Push("r14")
             a6 == Push("r15")
             a7 == Instruction("lea", Reg("rax"), At("rbp", DataPhase("a")))
             a8 == Move(At("rbp", StackPhase("a")), Reg("rax"))
             a9 == Instruction("lea", Reg("rax"), At("rbp", DataPhase("b")))
             a10 == Move(At("rbp", StackPhase("b")), Reg("rax"))
             a11 == ArgumentText(1)
             a12 == ArgumentText(2)
             a13 == Instruction("add", Reg("rsp"), Number(FrameSize))
  <2>1. [i \in DOMAIN Saved |-> Push(Saved[i])] = <<a3, a4, a5, a6>>
    BY DEF Saved
  <2>2. [i \in DOMAIN Arguments |-> ArgumentText(i)] = <<a11, a12>>
    BY DEF Arguments
  <2>3. AllocaText("a") = <<a7, a8>> /\ AllocaText("b") = <<a9, a10>>
    BY DEF AllocaText
  <2>4. s = <<a1, a2>> \o [i \in DOMAIN Saved |-> Push(Saved[i])] \o AllocaText("a") \o AllocaText("b")
              \o [i \in DOMAIN Arguments |-> ArgumentText(i)] \o <<a13>>
    BY DEF Prologue
  <2> HIDE DEF s, a1, a2, a3, a4, a5, a6, a7, a8, a9, a10, a11, a12, a13
  <2>5. s = <<a1, a2>> \o <<a3, a4, a5, a6>> \o <<a7, a8>> \o <<a9, a10>> \o <<a11, a12>> \o <<a13>>
    BY ONLY <2>1, <2>2, <2>3, <2>4
  <2>6. Len(s) = 13 /\ s[1] = a1 /\ s[2] = a2 /\ s[3] = a3 /\ s[4] = a4 /\ s[5] = a5 /\ s[6] = a6 /\ s[7] = a7 /\ s[8] = a8 /\ s[9] = a9 /\ s[10] = a10 /\ s[11] = a11 /\ s[12] = a12 /\ s[13] = a13
    BY ONLY <2>5
  <2>7. IsText(s)
    <3> DEFINE S == {a1, a2, a3, a4, a5, a6, a7, a8, a9, a10, a11, a12, a13}
               t1 == <<a1, a2>>
               t2 == <<a3, a4, a5, a6>>
               t3 == <<a7, a8>>
               t4 == <<a9, a10>>
               t5 == <<a11, a12>>
               t6 == <<a13>>
    <3>1. /\ t1 \in Seq(S) /\ t2 \in Seq(S) /\ t3 \in Seq(S) /\ t4 \in Seq(S) /\ t5 \in Seq(S)
          /\ t6 \in Seq(S)
      BY ONLY TRUE
    <3>2. s = t1 \o t2 \o t3 \o t4 \o t5 \o t6
      BY ONLY <2>5
    <3> HIDE DEF S, t1, t2, t3, t4, t5, t6
    <3>3. t1 \o t2 \in Seq(S)
      BY ONLY <3>1, ConcatProperties
    <3>4. t1 \o t2 \o t3 \in Seq(S)
      BY ONLY <3>1, <3>3, ConcatProperties
    <3>5. t1 \o t2 \o t3 \o t4 \in Seq(S)
      BY ONLY <3>1, <3>4, ConcatProperties
    <3>6. t1 \o t2 \o t3 \o t4 \o t5 \in Seq(S)
      BY ONLY <3>1, <3>5, ConcatProperties
    <3>7. t1 \o t2 \o t3 \o t4 \o t5 \o t6 \in Seq(S)
      BY ONLY <3>1, <3>6, ConcatProperties
    <3> QED BY <3>2, <3>7 DEF IsText
  <2> QED BY <2>6, <2>7 DEF a1, a2, a3, a4, a5, a6, a7, a8, a9, a10, a11, a12, a13
<1> HIDE DEF s
<1>2. /\ c \in Machines /\ c.went = "ahead" /\ c.reg["rsp"] = 2048
      /\ \A a \in Cells : c.mem[a] = a + 1
      /\ \A r \in {"rbp", "r12", "r13", "r14", "r15"} : c.reg[r] = Caller(0, 0).reg[r]
  BY CallerIs
<1> HIDE DEF c
<1>3. /\ {"rax", "rsp", "rbp", "r12", "r13", "r14", "r15"} \subseteq RegisterNames
      /\ Frame = {"rsp", "rbp"}
      /\ {1960, 1984, 2000, 2008, 2016, 2024, 2032, 2040} \subseteq Cells
  <2>1. /\ {"rax", "rsp", "rbp", "r12", "r13", "r14", "r15"} \subseteq RegisterNames
        /\ Frame = {"rsp", "rbp"}
    BY NamesAre, NamesDiffer
  <2>2. {1960, 1984, 2000, 2008, 2016, 2024, 2032, 2040} \subseteq Cells
    BY NamedCells
  <2> QED BY <2>1, <2>2
<1>4. Along(c, s, 0, c)
  BY <1>1, <1>2, AlongNothing
<1>5. Along(c, s, 1, m(1)) /\ Pushes(c, m(1), 2040, c.reg["rbp"])
  <2> DEFINE o == Executed(c, Push("rbp"))
  <2>1. c \in Machines /\ c.reg["rsp"] = 2048 /\ 2040 \in Cells /\ "rbp" \in RegisterNames
    BY <1>2, <1>3, <1>4 DEF Pushes, SetsRegister
  <2>2. Pushes(c, o, 2040, c.reg["rbp"])
    BY <2>1, PushedIs DEF Push
  <2>3. Encodable(Push("rbp"))
    BY <2>1, OperandKinds, InstructionParts DEF Push, Encodable
  <2>4. Along(c, s, 1, o)
    BY <1>1, <1>4, <2>2, <2>3, AlongOne DEF Pushes
  <2>5. o = m(1)
    BY <2>4 DEF Along
  <2> QED BY <2>2, <2>4, <2>5
<1>6. Along(c, s, 2, m(2)) /\ SetsRegister(m(1), m(2), "rbp", 2040)
  <2> DEFINE i == Move(Reg("rbp"), Reg("rsp"))
             o == Executed(m(1), i)
  <2>1. m(1) \in Machines /\ Content(m(1), Reg("rsp")) = 2040 /\ 2040 \in Words
    BY <1>3, <1>5, ContentIs, InCells DEF Pushes
  <2>2. SetsRegister(m(1), o, "rbp", 2040)
    BY <1>3, <2>1, MovedToRegister
  <2>3. Encodable(i)
    BY <1>3, OperandKinds, EncodableMove DEF Move
  <2> HIDE DEF i
  <2>4. Along(c, s, 2, o)
    BY <1>1, <1>5, <2>2, <2>3, AlongOne DEF SetsRegister, i
  <2>5. o = m(2)
    BY <2>4 DEF Along
  <2> QED BY <2>2, <2>4, <2>5
<1>7. Along(c, s, 3, m(3)) /\ Pushes(m(2), m(3), 2032, m(2).reg["r12"])
  <2> DEFINE o == Executed(m(2), Push("r12"))
  <2>1. m(2) \in Machines /\ m(2).reg["rsp"] = 2040 /\ 2032 \in Cells /\ "r12" \in RegisterNames
    BY <1>3, <1>5, <1>6 DEF Pushes, SetsRegister
  <2>2. Pushes(m(2), o, 2032, m(2).reg["r12"])
    BY <2>1, PushedIs DEF Push
  <2>3. Encodable(Push("r12"))
    BY <2>1, OperandKinds, InstructionParts DEF Push, Encodable
  <2>4. Along(c, s, 3, o)
    BY <1>1, <1>6, <2>2, <2>3, AlongOne DEF Pushes
  <2>5. o = m(3)
    BY <2>4 DEF Along
  <2> QED BY <2>2, <2>4, <2>5
<1>8. Along(c, s, 4, m(4)) /\ Pushes(m(3), m(4), 2024, m(3).reg["r13"])
  <2> DEFINE o == Executed(m(3), Push("r13"))
  <2>1. m(3) \in Machines /\ m(3).reg["rsp"] = 2032 /\ 2024 \in Cells /\ "r13" \in RegisterNames
    BY <1>2, <1>3, <1>7 DEF Pushes, SetsRegister
  <2>2. Pushes(m(3), o, 2024, m(3).reg["r13"])
    BY <2>1, PushedIs DEF Push
  <2>3. Encodable(Push("r13"))
    BY <2>1, OperandKinds, InstructionParts DEF Push, Encodable
  <2>4. Along(c, s, 4, o)
    BY <1>1, <1>7, <2>2, <2>3, AlongOne DEF Pushes
  <2>5. o = m(4)
    BY <2>4 DEF Along
  <2> QED BY <2>2, <2>4, <2>5
<1>9. Along(c, s, 5, m(5)) /\ Pushes(m(4), m(5), 2016, m(4).reg["r14"])
  <2> DEFINE o == Executed(m(4), Push("r14"))
  <2>1. m(4) \in Machines /\ m(4).reg["rsp"] = 2024 /\ 2016 \in Cells /\ "r14" \in RegisterNames
    BY <1>2, <1>3, <1>8 DEF Pushes, SetsRegister
  <2>2. Pushes(m(4), o, 2016, m(4).reg["r14"])
    BY <2>1, PushedIs DEF Push
  <2>3. Encodable(Push("r14"))
    BY <2>1, OperandKinds, InstructionParts DEF Push, Encodable
  <2>4. Along(c, s, 5, o)
    BY <1>1, <1>8, <2>2, <2>3, AlongOne DEF Pushes
  <2>5. o = m(5)
    BY <2>4 DEF Along
  <2> QED BY <2>2, <2>4, <2>5
<1>10. Along(c, s, 6, m(6)) /\ Pushes(m(5), m(6), 2008, m(5).reg["r15"])
  <2> DEFINE o == Executed(m(5), Push("r15"))
  <2>1. m(5) \in Machines /\ m(5).reg["rsp"] = 2016 /\ 2008 \in Cells /\ "r15" \in RegisterNames
    BY <1>2, <1>3, <1>9 DEF Pushes, SetsRegister
  <2>2. Pushes(m(5), o, 2008, m(5).reg["r15"])
    BY <2>1, PushedIs DEF Push
  <2>3. Encodable(Push("r15"))
    BY <2>1, OperandKinds, InstructionParts DEF Push, Encodable
  <2>4. Along(c, s, 6, o)
    BY <1>1, <1>9, <2>2, <2>3, AlongOne DEF Pushes
  <2>5. o = m(6)
    BY <2>4 DEF Along
  <2> QED BY <2>2, <2>4, <2>5
<1>11. /\ m(6).reg["rbp"] = 2040 /\ m(6).reg["rsp"] = 2008 /\ m(6) \in Machines /\ m(6).went = "ahead"
       /\ m(6).mem[2040] = c.reg["rbp"] /\ m(6).mem[2032] = c.reg["r12"] /\ m(6).mem[2024] = c.reg["r13"]
       /\ m(6).mem[2016] = c.reg["r14"] /\ m(6).mem[2008] = c.reg["r15"]
       /\ \A a \in Cells : a >= 2048 => m(6).mem[a] = a + 1
  <2>1. /\ m(3).reg["rbp"] = 2040 /\ m(4).reg["rbp"] = 2040 /\ m(5).reg["rbp"] = 2040 /\ m(6).reg["rbp"] = 2040
    BY <1>3, <1>6, <1>7, <1>8, <1>9, <1>10 DEF Pushes, SetsRegister
  <2>2. /\ m(1).mem[2040] = c.reg["rbp"] /\ m(2).mem[2040] = c.reg["rbp"] /\ m(3).mem[2040] = c.reg["rbp"]
        /\ m(4).mem[2040] = c.reg["rbp"] /\ m(5).mem[2040] = c.reg["rbp"] /\ m(6).mem[2040] = c.reg["rbp"]
    BY <1>3, <1>5, <1>6, <1>7, <1>8, <1>9, <1>10 DEF Pushes, SetsRegister
  <2>3. /\ m(1).reg["r12"] = c.reg["r12"] /\ m(2).reg["r12"] = c.reg["r12"]
        /\ m(3).mem[2032] = c.reg["r12"]
        /\ m(4).mem[2032] = c.reg["r12"] /\ m(5).mem[2032] = c.reg["r12"] /\ m(6).mem[2032] = c.reg["r12"]
    BY <1>3, <1>5, <1>6, <1>7, <1>8, <1>9, <1>10 DEF Pushes, SetsRegister
  <2>4. /\ m(1).reg["r13"] = c.reg["r13"] /\ m(2).reg["r13"] = c.reg["r13"] /\ m(3).reg["r13"] = c.reg["r13"]
        /\ m(4).mem[2024] = c.reg["r13"] /\ m(5).mem[2024] = c.reg["r13"] /\ m(6).mem[2024] = c.reg["r13"]
    BY <1>3, <1>5, <1>6, <1>7, <1>8, <1>9, <1>10 DEF Pushes, SetsRegister
  <2>5. /\ m(1).reg["r14"] = c.reg["r14"] /\ m(2).reg["r14"] = c.reg["r14"] /\ m(3).reg["r14"] = c.reg["r14"]
        /\ m(4).reg["r14"] = c.reg["r14"] /\ m(5).mem[2016] = c.reg["r14"] /\ m(6).mem[2016] = c.reg["r14"]
    BY <1>3, <1>5, <1>6, <1>7, <1>8, <1>9, <1>10 DEF Pushes, SetsRegister
  <2>6. /\ m(1).reg["r15"] = c.reg["r15"] /\ m(2).reg["r15"] = c.reg["r15"] /\ m(3).reg["r15"] = c.reg["r15"]
        /\ m(4).reg["r15"] = c.reg["r15"] /\ m(5).reg["r15"] = c.reg["r15"] /\ m(6).mem[2008] = c.reg["r15"]
    BY <1>3, <1>5, <1>6, <1>7, <1>8, <1>9, <1>10 DEF Pushes, SetsRegister
  <2>7. m(6).went = "ahead" /\ m(6).reg["rsp"] = 2008 /\ m(6) \in Machines
    BY <1>2, <1>5, <1>6, <1>7, <1>8, <1>9, <1>10 DEF Pushes, SetsRegister
  <2>8. \A a \in Cells : a >= 2048 => m(6).mem[a] = a + 1
    <3> SUFFICES ASSUME NEW a \in Cells, a >= 2048 PROVE m(6).mem[a] = a + 1
      OBVIOUS
    <3>1. a \notin {2040, 2032, 2024, 2016, 2008}
      OBVIOUS
    <3>2. m(1).mem[a] = a + 1 /\ m(2).mem[a] = a + 1 /\ m(3).mem[a] = a + 1
      BY <1>2, <1>5, <1>6, <1>7, <3>1 DEF Pushes, SetsRegister
    <3>3. m(4).mem[a] = a + 1 /\ m(5).mem[a] = a + 1 /\ m(6).mem[a] = a + 1
      BY <1>8, <1>9, <1>10, <3>1, <3>2 DEF Pushes, SetsRegister
    <3> QED BY <3>3
  <2> QED BY <2>1, <2>2, <2>3, <2>4, <2>5, <2>6, <2>7, <2>8
<1>12. /\ DataPhase("a") = -48 /\ DataPhase("b") = -72 /\ Cell("a") = 1984 /\ Cell("b") = 1960
       /\ StackPhase("a") = Cell("a") - 2040 /\ StackPhase("b") = Cell("b") - 2040
       /\ Spilled("a") /\ Spilled("b") /\ {"a", "b"} \subseteq Nodes
  <2>1. DataPhase("a") = -48 /\ DataPhase("b") = -72
    BY DEF DataPhase, AllocaSize
  <2>2. Cell("a") = 1984 /\ Cell("b") = 1960 /\ Spilled("a") /\ Spilled("b") /\ {"a", "b"} \subseteq Nodes
    BY CellsAre, Rooms, NamesDiffer
  <2> QED BY <2>1, <2>2, FrameCells
<1>13. Along(c, s, 7, m(7)) /\ SetsRegister(m(6), m(7), "rax", 1992)
  <2> DEFINE of == At("rbp", DataPhase("a"))
             i == Instruction("lea", Reg("rax"), of)
             o == Executed(m(6), i)
  <2>1. m(6) \in Machines /\ m(6).reg["rbp"] = 2040
    BY <1>3, <1>11 DEF SetsCell
  <2>2. Address(m(6), of) = Cut(1992)
    <3>1. Address(m(6), At("rbp", -48)) = Cut(2040 + (-48) + 0)
      BY <2>1, ContentIs
    <3>2. 2040 + (-48) + 0 = 1992
      OBVIOUS
    <3> QED BY <1>12, <3>1, <3>2
  <2>3. 1992 \in Words /\ Cut(1992) = 1992
    BY SmallWords
  <2>4. Encodable(i)
    <3>1. IsRegister(Reg("rax")) /\ IsMemory(of)
      BY <1>3, OperandKinds
    <3> HIDE DEF of
    <3> QED BY <3>1, InstructionParts DEF Encodable
  <2> HIDE DEF of
  <2>5. SetsRegister(m(6), o, "rax", 1992)
    BY <1>3, <2>1, <2>2, <2>3, LeaIs
  <2>6. s[7] = i
    BY <1>1 DEF of
  <2> HIDE DEF i
  <2>7. Along(c, s, 7, o)
    BY <1>1, <1>10, <2>4, <2>5, <2>6, AlongOne DEF SetsRegister
  <2>8. o = m(7)
    BY <2>7 DEF Along
  <2> QED BY <2>5, <2>7, <2>8
<1>14. Along(c, s, 8, m(8)) /\ SetsCell(m(7), m(8), 1984, 1992) /\ m(8).reg["rbp"] = 2040
  <2> DEFINE to == At("rbp", StackPhase("a"))
             i == Move(to, Reg("rax"))
             o == Executed(m(7), i)
  <2>1. m(7) \in Machines /\ m(7).reg["rbp"] = 2040 /\ Content(m(7), Reg("rax")) = 1992 /\ 1992 \in Words
    BY <1>3, <1>11, <1>13, ContentIs, SmallWords DEF SetsRegister, SetsCell
  <2>2. Address(m(7), to) = 1984 /\ IsMemory(to) /\ 1984 \in Cells
    BY <1>3, <1>12, <2>1, InFrame, OperandKinds
  <2>3. Encodable(i)
    BY <1>3, <2>2, OperandKinds, EncodableMove DEF Move
  <2> HIDE DEF to
  <2>4. SetsCell(m(7), o, 1984, 1992)
    BY <2>1, <2>2, MovedToCell
  <2>5. s[8] = i
    BY <1>1 DEF to
  <2> HIDE DEF i
  <2>6. Along(c, s, 8, o)
    <3>1. 8 = 7 + 1 /\ 8 \in 1 .. Len(s) /\ o \in Machines
      BY <1>1, <2>4 DEF SetsCell
    <3> QED BY ONLY <1>13, <2>3, <2>5, <3>1, AlongOne
  <2>7. o = m(8)
    BY <2>6 DEF Along
  <2> QED BY <2>1, <2>4, <2>6, <2>7 DEF SetsCell
<1>15. Along(c, s, 9, m(9)) /\ SetsRegister(m(8), m(9), "rax", 1968)
  <2> DEFINE of == At("rbp", DataPhase("b"))
             i == Instruction("lea", Reg("rax"), of)
             o == Executed(m(8), i)
  <2>1. m(8) \in Machines /\ m(8).reg["rbp"] = 2040
    BY <1>3, <1>14 DEF SetsCell
  <2>2. Address(m(8), of) = Cut(1968)
    <3>1. Address(m(8), At("rbp", -72)) = Cut(2040 + (-72) + 0)
      BY <2>1, ContentIs
    <3>2. 2040 + (-72) + 0 = 1968
      OBVIOUS
    <3> QED BY <1>12, <3>1, <3>2
  <2>3. 1968 \in Words /\ Cut(1968) = 1968
    BY SmallWords
  <2>4. Encodable(i)
    <3>1. IsRegister(Reg("rax")) /\ IsMemory(of)
      BY <1>3, OperandKinds
    <3> HIDE DEF of
    <3> QED BY <3>1, InstructionParts DEF Encodable
  <2> HIDE DEF of
  <2>5. SetsRegister(m(8), o, "rax", 1968)
    BY <1>3, <2>1, <2>2, <2>3, LeaIs
  <2>6. s[9] = i
    BY <1>1 DEF of
  <2> HIDE DEF i
  <2>7. Along(c, s, 9, o)
    BY <1>1, <1>14, <2>4, <2>5, <2>6, AlongOne DEF SetsRegister
  <2>8. o = m(9)
    BY <2>7 DEF Along
  <2> QED BY <2>5, <2>7, <2>8
<1>16. Along(c, s, 10, m(10)) /\ SetsCell(m(9), m(10), 1960, 1968) /\ m(10).reg["rbp"] = 2040
  <2> DEFINE to == At("rbp", StackPhase("b"))
             i == Move(to, Reg("rax"))
             o == Executed(m(9), i)
  <2>1. m(9) \in Machines /\ m(9).reg["rbp"] = 2040 /\ Content(m(9), Reg("rax")) = 1968 /\ 1968 \in Words
    BY <1>3, <1>14, <1>15, ContentIs, SmallWords DEF SetsRegister, SetsCell
  <2>2. Address(m(9), to) = 1960 /\ IsMemory(to) /\ 1960 \in Cells
    BY <1>3, <1>12, <2>1, InFrame, OperandKinds
  <2>3. Encodable(i)
    BY <1>3, <2>2, OperandKinds, EncodableMove DEF Move
  <2> HIDE DEF to
  <2>4. SetsCell(m(9), o, 1960, 1968)
    BY <2>1, <2>2, MovedToCell
  <2>5. s[10] = i
    BY <1>1 DEF to
  <2> HIDE DEF i
  <2>6. Along(c, s, 10, o)
    <3>1. 10 = 9 + 1 /\ 10 \in 1 .. Len(s) /\ o \in Machines
      BY <1>1, <2>4 DEF SetsCell
    <3> QED BY ONLY <1>15, <2>3, <2>5, <3>1, AlongOne
  <2>7. o = m(10)
    BY <2>6 DEF Along
  <2> QED BY <2>1, <2>4, <2>6, <2>7 DEF SetsCell
<1>17. Along(c, s, 11, m(11)) /\ KeepsFrame(m(10), m(11)) /\ m(11).reg["rbp"] = 2040
  <2> DEFINE o == Executed(m(10), ArgumentText(1))
  <2>1. m(10) \in Machines /\ m(10).reg["rbp"] = 2040
    BY <1>16 DEF SetsCell, KeepsFrame
  <2>2. Encodable(ArgumentText(1)) /\ KeepsFrame(m(10), o)
    BY <2>1, ArgumentMoved
  <2>3. Along(c, s, 11, o)
    BY <1>1, <1>16, <2>2, AlongOne DEF KeepsFrame
  <2>4. o = m(11)
    BY <2>3 DEF Along
  <2> QED BY <1>3, <2>1, <2>2, <2>3, <2>4 DEF KeepsFrame
<1>18. Along(c, s, 12, m(12)) /\ KeepsFrame(m(11), m(12)) /\ m(12).reg["rbp"] = 2040
  <2> DEFINE o == Executed(m(11), ArgumentText(2))
  <2>1. m(11) \in Machines /\ m(11).reg["rbp"] = 2040
    BY <1>17 DEF SetsCell, KeepsFrame
  <2>2. Encodable(ArgumentText(2)) /\ KeepsFrame(m(11), o)
    BY <2>1, ArgumentMoved
  <2>3. Along(c, s, 12, o)
    BY <1>1, <1>17, <2>2, AlongOne DEF KeepsFrame
  <2>4. o = m(12)
    BY <2>3 DEF Along
  <2> QED BY <1>3, <2>1, <2>2, <2>3, <2>4 DEF KeepsFrame
<1>19. m(12).reg["rsp"] = 2008 /\ m(12) \in Machines
  BY <1>3, <1>11, <1>13, <1>14, <1>15, <1>16, <1>17, <1>18 DEF SetsRegister, SetsCell, KeepsFrame
<1>20. Along(c, s, 13, m(13)) /\ SetsRegister(m(12), m(13), "rsp", Stack - 40 + FrameSize)
  <2> DEFINE of == Number(FrameSize)
             i == Instruction("add", Reg("rsp"), of)
             o == Executed(m(12), i)
             f == FrameSize
  <2>1. f \in Int /\ Stack - 40 + FrameSize = 2008 + f /\ 2008 + f \in Words
    <3>1. FrameSize \in Int /\ Stack - 40 + FrameSize \in Cells
      BY FrameCells
    <3> QED BY <3>1, InCells DEF Stack
  <2>2. Content(m(12), of) = Cut(f) /\ Cut(f) \in Words /\ of.in = "number"
    <3>1. of.in = "number"
      BY <2>1, OperandKinds
    <3>2. Content(m(12), of) = Cut(f)
      <4> HIDE DEF m
      <4>1. \A n \in Int : Content(m(12), Number(n)) = Cut(n)
        BY ContentIs
      <4> QED BY <2>1, <4>1
    <3> HIDE DEF of, f
    <3> QED BY <2>1, <3>1, <3>2, CutIsWord
  <2>3. Encodable(i)
    BY <1>3, <2>2, OperandKinds, EncodableMove
  <2> HIDE DEF of, f
  <2>4. Cut(Alu("add", 2008, Cut(f))) = 2008 + f
    <3>1. 2008 \in Words
      BY SmallWords
    <3>2. Alu("add", 2008, Cut(f)) = 2008 + Cut(f)
      BY <2>2, <3>1, AluIs
    <3>3. Cut(2008 + Cut(f)) = Cut(2008 + f)
      BY <2>1, CutWithin
    <3> QED BY <2>1, <3>2, <3>3, CutOfWord
  <2>5. SetsRegister(m(12), o, "rsp", 2008 + f)
    <3>1. SetsRegister(m(12), Executed(m(12), Instruction("add", Reg("rsp"), of)), "rsp",
                       Cut(Alu("add", m(12).reg["rsp"], Content(m(12), of))))
      BY <1>3, <1>19, <2>2, AluWritten
    <3> QED BY <1>19, <2>2, <2>4, <3>1
  <2>6. s[13] = i
    BY <1>1 DEF of
  <2> HIDE DEF i
  <2>7. Along(c, s, 13, o)
    <3>1. 13 = 12 + 1 /\ 13 \in 1 .. Len(s) /\ o \in Machines
      BY <1>1, <2>5 DEF SetsRegister
    <3> QED BY ONLY <1>18, <2>3, <2>6, <3>1, AlongOne
  <2>8. o = m(13)
    BY <2>7 DEF Along
  <2> QED BY <2>1, <2>5, <2>7, <2>8
<1>21. Legal(c, s) /\ Run(c, s) = m(13)
  <2>1. Len(s) = 13
    BY <1>1
  <2> QED BY ONLY <1>20, <2>1, AlongAll
<1>22. /\ m(13) \in Machines /\ m(13).went = "ahead" /\ m(13).reg["rbp"] = 2040
       /\ m(13).reg["rsp"] = Stack - 40 + FrameSize
  BY <1>3, <1>11, <1>13, <1>14, <1>15, <1>16, <1>17, <1>18, <1>20 DEF SetsRegister, SetsCell, KeepsFrame
<1>23. \A a \in Cells : a >= 2000 => m(13).mem[a] = m(6).mem[a]
  <2> SUFFICES ASSUME NEW a \in Cells, a >= 2000 PROVE m(13).mem[a] = m(6).mem[a]
    OBVIOUS
  <2>1. a # 1984 /\ a # 1960
    OBVIOUS
  <2>2. m(10).mem[a] = m(6).mem[a]
    BY <1>13, <1>14, <1>15, <1>16, <2>1 DEF SetsRegister, SetsCell
  <2>3. m(13).mem[a] = m(10).mem[a]
    BY <1>17, <1>18, <1>20 DEF SetsRegister, KeepsFrame
  <2> QED BY <2>2, <2>3
<1>24. m(13).mem[1984] = 1992 /\ m(13).mem[1960] = 1968
  <2>1. m(8).mem[1984] = 1992 /\ m(10).mem[1984] = 1992 /\ m(10).mem[1960] = 1968
    BY <1>3, <1>14, <1>15, <1>16 DEF SetsRegister, SetsCell
  <2>2. m(13).mem[1984] = m(10).mem[1984] /\ m(13).mem[1960] = m(10).mem[1960]
    BY <1>3, <1>17, <1>18, <1>20 DEF SetsRegister, KeepsFrame
  <2> QED BY <2>1, <2>2
<1>25. Framed(m(13), {})
  <2>1. m(13).mem[Cell("a")] = Cell("a") + 8 /\ m(13).mem[Cell("b")] = Cell("b") + 8
    BY <1>12, <1>24
  <2>2. /\ m(13).mem[2040] = c.reg["rbp"] /\ m(13).mem[2032] = c.reg["r12"] /\ m(13).mem[2024] = c.reg["r13"]
        /\ m(13).mem[2016] = c.reg["r14"] /\ m(13).mem[2008] = c.reg["r15"]
    BY <1>3, <1>11, <1>23
  <2>3. /\ c.reg["rbp"] = Caller(0, 0).reg["rbp"] /\ c.reg["r12"] = Caller(0, 0).reg["r12"]
        /\ c.reg["r13"] = Caller(0, 0).reg["r13"] /\ c.reg["r14"] = Caller(0, 0).reg["r14"]
        /\ c.reg["r15"] = Caller(0, 0).reg["r15"]
    BY <1>2
  <2>4. \A a \in Cells : a >= 2048 => m(13).mem[a] = a + 1
    <3> SUFFICES ASSUME NEW a \in Cells, a >= 2048 PROVE m(13).mem[a] = a + 1
      OBVIOUS
    <3> HIDE DEF m
    <3>1. a >= 2000
      BY InCells
    <3> QED BY <1>11, <1>23, <3>1
  <2> HIDE DEF m
  <2>5. Stack - 8 = 2040 /\ Stack = 2048
    BY DEF Stack
  <2> QED BY <1>22, <2>1, <2>2, <2>3, <2>4, <2>5 DEF Framed
<1> QED BY <1>21, <1>22, <1>25 DEF s, c

(* What a machine is, one instruction of a text after the other.           *)
InTurn(m, text, f) ==
  f[0] = m /\ \A j \in 1 .. Len(text) : f[j] = Executed(f[j - 1], text[j])

LEMMA ExecutedInTurn ==
  ASSUME NEW m, NEW text, Len(text) \in Nat
  PROVE  InTurn(m, text, Executing(m, text))
BY ExecutingSteps DEF InTurn

(***************************************************************************)
(* The texts of the default backend.                                       *)
(***************************************************************************)
LEMMA ClearedIs ==
  ASSUME NEW m \in Machines, NEW q \in RegisterNames
  PROVE  SetsRegister(m, Executed(m, Instruction("xor", Reg(q), Reg(q))), q, 0)
<1> DEFINE n == m.reg[q]
<1>1. n \in Words /\ n \in Int /\ Content(m, Reg(q)) = n /\ 0 \in Words
  BY MachineParts, ContentIs, WordIs
<1>2. SetsRegister(m, Executed(m, Instruction("xor", Reg(q), Reg(q))), q, Cut(Alu("xor", n, n)))
  <2>1. Content(m, Reg(q)) \in Words
    BY <1>1
  <2>2. SetsRegister(m, Executed(m, Instruction("xor", Reg(q), Reg(q))), q, Cut(Alu("xor", m.reg[q], Content(m, Reg(q)))))
    BY <2>1, AluWritten
  <2> QED BY <1>1, <2>2
<1> HIDE DEF n
<1>3. Alu("xor", n, n) = 0
  BY <1>1, AluIs, XorWithItself
<1>4. Cut(Alu("xor", n, n)) = 0
  BY <1>1, <1>3, CutOfWord
<1> QED BY <1>2, <1>4

(* A cell tested for 0 by taking nothing from it.                          *)
LEMMA TestedIs ==
  ASSUME NEW m \in Machines, NEW to, IsMemory(to), NEW a \in Cells, Address(m, to) = a
  PROVE  ComparesTo(m, Executed(m, Instruction("sub", to, Nothing)), m.mem[a], 0)
<1> DEFINE n == m.mem[a]
           o == Written(m, to, n - 0)
           p == [o EXCEPT !.compared = <<n, 0>>]
<1>1. n \in Words /\ n \in Int /\ 0 \in Words /\ Content(m, to) = n
  BY MachineParts, WordIs DEF Content, IsMemory
<1>2. Content(m, Nothing) = 0
  <2>1. \A k \in Int : Content(m, Number(k)) = Cut(k)
    BY ContentIs
  <2> QED BY <1>1, <2>1, CutOfWord DEF Nothing
<1>3. Executed(m, Instruction("sub", to, Nothing)) = p
  BY <1>1, <1>2, InstructionExecuted DEF Subtracted
<1>4. o = [m EXCEPT !.mem[a] = n]
  <2>1. Cut(n - 0) = n
    BY <1>1, CutOfWord
  <2> HIDE DEF n
  <2> QED BY <2>1 DEF Written, IsMemory
<1>5. o = m
  BY <1>4, MachineParts
<1> HIDE DEF n, o
<1>6. ComparesTo(m, p, n, 0)
  BY <1>1, <1>5 DEF ComparesTo, Machines
<1> QED BY <1>3, <1>6 DEF n

(* Two words are below the top of the stack.                               *)
Topped(m, a, l, r) ==
  /\ m \in Machines /\ m.reg["rsp"] = a + 16 /\ a \in Cells /\ a + 8 \in Cells
  /\ m.mem[a + 8] = l /\ m.mem[a] = r

LEMMA TopIs ==
  ASSUME NEW m, NEW a, NEW l, NEW r, Topped(m, a, l, r)
  PROVE  /\ IsMemory(First) /\ Address(m, First) = a + 8 /\ Content(m, First) = l /\ l \in Words
         /\ IsMemory(Second) /\ Address(m, Second) = a /\ Content(m, Second) = r /\ r \in Words
<1>1. /\ a \in 1824 .. 2088 /\ Cut(a) = a /\ Cut(a + 8) = a + 8
      /\ l \in Words /\ r \in Words /\ m \in Machines
  BY InCells, MachineParts DEF Topped
<1>2. /\ Content(m, At("rsp", -8)) = m.mem[Cut(m.reg["rsp"] + (-8) + 0)]
      /\ Content(m, At("rsp", -16)) = m.mem[Cut(m.reg["rsp"] + (-16) + 0)]
      /\ Address(m, At("rsp", -8)) = Cut(m.reg["rsp"] + (-8) + 0)
      /\ Address(m, At("rsp", -16)) = Cut(m.reg["rsp"] + (-16) + 0)
  <2>1. \A k : /\ Content(m, At("rsp", k)) = m.mem[Cut(m.reg["rsp"] + k + 0)]
               /\ Address(m, At("rsp", k)) = Cut(m.reg["rsp"] + k + 0)
    BY ContentIs
  <2> QED BY <2>1
<1>3. m.reg["rsp"] + (-8) + 0 = a + 8 /\ m.reg["rsp"] + (-16) + 0 = a
  BY <1>1 DEF Topped
<1>4. IsMemory(First) /\ IsMemory(Second)
  BY OperandKinds DEF First, Second
<1> QED BY <1>1, <1>2, <1>3, <1>4 DEF Topped, First, Second

LEMMA TopStays ==
  ASSUME NEW m, NEW a, NEW l, NEW r, Topped(m, a, l, r), NEW o
  PROVE  /\ \A q \in RegisterNames \ {"rsp"} : \A n : SetsRegister(m, o, q, n) => Topped(o, a, l, r)
         /\ \A u, w : ComparesTo(m, o, u, w) => Topped(o, a, l, r)
<1>1. "rsp" \in RegisterNames
  BY NamesAre
<1> QED BY <1>1 DEF Topped, SetsRegister, ComparesTo

LEMMA NumberMoved ==
  ASSUME NEW m \in Machines, NEW q \in RegisterNames
  PROVE  SetsRegister(m, Executed(m, Move(Reg(q), Nothing)), q, 0)
<1>1. 0 \in Words /\ Cut(0) = 0
  BY WordIs, CutOfWord
<1>2. \A k \in Int : Content(m, Number(k)) = Cut(k)
  BY ContentIs
<1>3. Content(m, Nothing) = 0
  BY <1>1, <1>2 DEF Nothing
<1> QED BY <1>1, <1>3, MovedToRegister

LEMMA LegacyBinary ==
  ASSUME NEW t, NEW a, NEW l, NEW r, Topped(t, a, l, r), NEW op \in {"and", "or", "xor", "add", "sub"}
  PROVE  Run(t, <<Move(Rax, First), Instruction(op, Rax, Second)>>).reg["rax"] = Cut(Alu(op, l, r))
<1> DEFINE s == <<Move(Rax, First), Instruction(op, Rax, Second)>>
           x(k) == Executing(t, s)[k]
<1>1. /\ Len(s) = 2
      /\ s[1] = Move(Reg("rax"), First)
      /\ s[2] = Instruction(op, Reg("rax"), Second)
  BY DEF Rax, Rdx
<1> HIDE DEF s
<1>2. /\ x(0) = t
      /\ x(1) = Executed(x(0), Move(Reg("rax"), First))
      /\ x(2) = Executed(x(1), Instruction(op, Reg("rax"), Second))
      /\ Run(t, s) = x(2)
  <2>1. x(0) = t /\ \A j \in 1 .. 2 : x(j) = Executed(x(j - 1), s[j])
    <3>1. Len(s) = 2 /\ Len(s) \in Nat
      BY <1>1
    <3>2. InTurn(t, s, Executing(t, s))
      BY <3>1, ExecutedInTurn
    <3> QED BY <3>1, <3>2 DEF InTurn
  <2>2. Run(t, s) = x(2)
    BY <1>1 DEF Run
  <2> HIDE DEF x
  <2>3. /\ x(1) = Executed(x(0), s[1])
        /\ x(2) = Executed(x(1), s[2])
    BY <2>1
  <2> QED BY <1>1, <2>1, <2>2, <2>3
<1> HIDE DEF x
<1>3. /\ {"rax", "rcx", "rdx", "rsp"} \subseteq RegisterNames /\ 0 \in Words
      /\ {"rax", "rcx", "rdx"} \subseteq RegisterNames \ {"rsp"}
  BY NamesAre, WordIs
<1>4. Topped(x(0), a, l, r)
  BY <1>2
<1>5. SetsRegister(x(0), x(1), "rax", l) /\ Topped(x(1), a, l, r)
  <2>1. x(0) \in Machines
    BY <1>4 DEF Topped
  <2>2. SetsRegister(x(0), x(1), "rax", l)
    BY <1>2, <1>3, <1>4, <2>1, TopIs, MovedToRegister
  <2> QED BY <1>3, <1>4, <2>2, TopStays
<1>6. SetsRegister(x(1), x(2), "rax", Cut(Alu(op, l, r)))
  <2>1. x(1) \in Machines /\ x(1).reg["rax"] = l /\ Content(x(1), Second) = r /\ r \in Words /\ l \in Words
    BY <1>5, TopIs DEF SetsRegister
  <2>2. x(2) = Executed(x(1), Instruction(op, Reg("rax"), Second))
    BY <1>2
  <2> DEFINE of == Second
             y == x(1)
             z == x(2)
  <2> HIDE DEF of, y, z
  <2>3. y \in Machines /\ y.reg["rax"] = l /\ Content(y, of) = r /\ r \in Words /\ l \in Words
    BY <2>1 DEF y, of
  <2>4. z = Executed(y, Instruction(op, Reg("rax"), of))
    BY <2>2 DEF y, z, of
  <2>5. CASE op = "sub"
    <3>1. SetsRegister(y, z, "rax", Cut(y.reg["rax"] - Content(y, of)))
      BY <1>3, <2>3, <2>4, <2>5, SubtractedIs
    <3>2. Alu(op, l, r) = l - r
      BY <2>3, <2>5, AluIs
    <3> QED BY <2>3, <3>1, <3>2 DEF y, z
  <2>6. CASE op # "sub"
    <3>1. SetsRegister(y, z, "rax", Cut(Alu(op, y.reg["rax"], Content(y, of))))
      BY <1>3, <2>3, <2>4, <2>6, AluWritten
    <3> QED BY <2>3, <3>1 DEF y, z
  <2> QED BY <2>5, <2>6
<1> QED BY <1>2, <1>6 DEF SetsRegister, s

LEMMA LegacyShift ==
  ASSUME NEW t, NEW a, NEW l, NEW r, Topped(t, a, l, r), NEW op \in {"shl", "shr"}, r < Width
  PROVE  Run(t, <<Move(Rax, First), Move(Reg("rcx"), Second), Instruction(op, Rax, Reg("rcx"))>>).reg["rax"] = Cut(Alu(op, l, r))
<1> DEFINE s == <<Move(Rax, First), Move(Reg("rcx"), Second), Instruction(op, Rax, Reg("rcx"))>>
           x(k) == Executing(t, s)[k]
<1>1. /\ Len(s) = 3
      /\ s[1] = Move(Reg("rax"), First)
      /\ s[2] = Move(Reg("rcx"), Second)
      /\ s[3] = Instruction(op, Reg("rax"), Reg("rcx"))
  BY DEF Rax, Rdx
<1> HIDE DEF s
<1>2. /\ x(0) = t
      /\ x(1) = Executed(x(0), Move(Reg("rax"), First))
      /\ x(2) = Executed(x(1), Move(Reg("rcx"), Second))
      /\ x(3) = Executed(x(2), Instruction(op, Reg("rax"), Reg("rcx")))
      /\ Run(t, s) = x(3)
  <2>1. x(0) = t /\ \A j \in 1 .. 3 : x(j) = Executed(x(j - 1), s[j])
    <3>1. Len(s) = 3 /\ Len(s) \in Nat
      BY <1>1
    <3>2. InTurn(t, s, Executing(t, s))
      BY <3>1, ExecutedInTurn
    <3> QED BY <3>1, <3>2 DEF InTurn
  <2>2. Run(t, s) = x(3)
    BY <1>1 DEF Run
  <2> HIDE DEF x
  <2>3. /\ x(1) = Executed(x(0), s[1])
        /\ x(2) = Executed(x(1), s[2])
        /\ x(3) = Executed(x(2), s[3])
    BY <2>1
  <2> QED BY <1>1, <2>1, <2>2, <2>3
<1> HIDE DEF x
<1>3. /\ {"rax", "rcx", "rdx", "rsp"} \subseteq RegisterNames /\ 0 \in Words
      /\ {"rax", "rcx", "rdx"} \subseteq RegisterNames \ {"rsp"}
  BY NamesAre, WordIs
<1>4. Topped(x(0), a, l, r)
  BY <1>2
<1>5. SetsRegister(x(0), x(1), "rax", l) /\ Topped(x(1), a, l, r)
  <2>1. x(0) \in Machines
    BY <1>4 DEF Topped
  <2>2. SetsRegister(x(0), x(1), "rax", l)
    BY <1>2, <1>3, <1>4, <2>1, TopIs, MovedToRegister
  <2> QED BY <1>3, <1>4, <2>2, TopStays
<1>6. SetsRegister(x(1), x(2), "rcx", r) /\ Topped(x(2), a, l, r)
  <2>1. x(1) \in Machines
    BY <1>5 DEF Topped
  <2>2. SetsRegister(x(1), x(2), "rcx", r)
    BY <1>2, <1>3, <1>5, <2>1, TopIs, MovedToRegister
  <2> QED BY <1>3, <1>5, <2>2, TopStays
<1>7. SetsRegister(x(2), x(3), "rax", Cut(Alu(op, l, r)))
  <2> DEFINE of == Reg("rcx")
             y == x(2)
             z == x(3)
  <2>1. y \in Machines /\ y.reg["rax"] = l /\ Content(y, of) = r /\ r \in Words /\ l \in Words
    BY <1>3, <1>5, <1>6, TopIs, ContentIs DEF SetsRegister
  <2>2. z = Executed(y, Instruction(op, Reg("rax"), of))
    BY <1>2
  <2> HIDE DEF of, y, z
  <2>3. SetsRegister(y, z, "rax", Cut(Alu(op, y.reg["rax"], Content(y, of))))
    BY <1>3, <2>1, <2>2, AluWritten
  <2> QED BY <2>1, <2>3 DEF y, z
<1> QED BY <1>2, <1>7 DEF SetsRegister, s

LEMMA LegacyMinus ==
  ASSUME NEW t, NEW a, NEW l, NEW r, Topped(t, a, l, r)
  PROVE  Run(t, <<Move(Rax, Nothing), Instruction("sub", Rax, Second)>>).reg["rax"] = Cut(-r)
<1> DEFINE s == <<Move(Rax, Nothing), Instruction("sub", Rax, Second)>>
           x(k) == Executing(t, s)[k]
<1>1. /\ Len(s) = 2
      /\ s[1] = Move(Reg("rax"), Nothing)
      /\ s[2] = Instruction("sub", Reg("rax"), Second)
  BY DEF Rax, Rdx
<1> HIDE DEF s
<1>2. /\ x(0) = t
      /\ x(1) = Executed(x(0), Move(Reg("rax"), Nothing))
      /\ x(2) = Executed(x(1), Instruction("sub", Reg("rax"), Second))
      /\ Run(t, s) = x(2)
  <2>1. x(0) = t /\ \A j \in 1 .. 2 : x(j) = Executed(x(j - 1), s[j])
    <3>1. Len(s) = 2 /\ Len(s) \in Nat
      BY <1>1
    <3>2. InTurn(t, s, Executing(t, s))
      BY <3>1, ExecutedInTurn
    <3> QED BY <3>1, <3>2 DEF InTurn
  <2>2. Run(t, s) = x(2)
    BY <1>1 DEF Run
  <2> HIDE DEF x
  <2>3. /\ x(1) = Executed(x(0), s[1])
        /\ x(2) = Executed(x(1), s[2])
    BY <2>1
  <2> QED BY <1>1, <2>1, <2>2, <2>3
<1> HIDE DEF x
<1>3. /\ {"rax", "rcx", "rdx", "rsp"} \subseteq RegisterNames /\ 0 \in Words
      /\ {"rax", "rcx", "rdx"} \subseteq RegisterNames \ {"rsp"}
  BY NamesAre, WordIs
<1>4. Topped(x(0), a, l, r)
  BY <1>2
<1>5. SetsRegister(x(0), x(1), "rax", 0) /\ Topped(x(1), a, l, r)
  <2>1. x(0) \in Machines
    BY <1>4 DEF Topped
  <2>2. SetsRegister(x(0), x(1), "rax", 0)
    BY <1>2, <1>3, <1>4, <2>1, NumberMoved
  <2> QED BY <1>3, <1>4, <2>2, TopStays
<1>6. SetsRegister(x(1), x(2), "rax", Cut(-r))
  <2> DEFINE of == Second
             y == x(1)
             z == x(2)
  <2>1. y \in Machines /\ y.reg["rax"] = 0 /\ Content(y, of) = r /\ r \in Words /\ r \in Int
    BY <1>5, TopIs, WordIs DEF SetsRegister
  <2>2. z = Executed(y, Instruction("sub", Reg("rax"), of))
    BY <1>2
  <2> HIDE DEF of, y, z
  <2>3. SetsRegister(y, z, "rax", Cut(y.reg["rax"] - Content(y, of)))
    BY <1>3, <2>1, <2>2, SubtractedIs
  <2>4. y.reg["rax"] - Content(y, of) = -r
    BY <2>1
  <2> QED BY <2>3, <2>4 DEF y, z
<1> QED BY <1>2, <1>6 DEF SetsRegister, s

LEMMA LegacyBitwiseNot ==
  ASSUME NEW t, NEW a, NEW l, NEW r, Topped(t, a, l, r)
  PROVE  Run(t, <<Move(Rax, Second), Instruction("not", Rax, Nothing)>>).reg["rax"] = Cut(-r - 1)
<1> DEFINE s == <<Move(Rax, Second), Instruction("not", Rax, Nothing)>>
           x(k) == Executing(t, s)[k]
<1>1. /\ Len(s) = 2
      /\ s[1] = Move(Reg("rax"), Second)
      /\ s[2] = Instruction("not", Reg("rax"), Nothing)
  BY DEF Rax, Rdx
<1> HIDE DEF s
<1>2. /\ x(0) = t
      /\ x(1) = Executed(x(0), Move(Reg("rax"), Second))
      /\ x(2) = Executed(x(1), Instruction("not", Reg("rax"), Nothing))
      /\ Run(t, s) = x(2)
  <2>1. x(0) = t /\ \A j \in 1 .. 2 : x(j) = Executed(x(j - 1), s[j])
    <3>1. Len(s) = 2 /\ Len(s) \in Nat
      BY <1>1
    <3>2. InTurn(t, s, Executing(t, s))
      BY <3>1, ExecutedInTurn
    <3> QED BY <3>1, <3>2 DEF InTurn
  <2>2. Run(t, s) = x(2)
    BY <1>1 DEF Run
  <2> HIDE DEF x
  <2>3. /\ x(1) = Executed(x(0), s[1])
        /\ x(2) = Executed(x(1), s[2])
    BY <2>1
  <2> QED BY <1>1, <2>1, <2>2, <2>3
<1> HIDE DEF x
<1>3. /\ {"rax", "rcx", "rdx", "rsp"} \subseteq RegisterNames /\ 0 \in Words
      /\ {"rax", "rcx", "rdx"} \subseteq RegisterNames \ {"rsp"}
  BY NamesAre, WordIs
<1>4. Topped(x(0), a, l, r)
  BY <1>2
<1>5. SetsRegister(x(0), x(1), "rax", r) /\ Topped(x(1), a, l, r)
  <2>1. x(0) \in Machines
    BY <1>4 DEF Topped
  <2>2. SetsRegister(x(0), x(1), "rax", r)
    BY <1>2, <1>3, <1>4, <2>1, TopIs, MovedToRegister
  <2> QED BY <1>3, <1>4, <2>2, TopStays
<1>6. SetsRegister(x(1), x(2), "rax", Cut(-r - 1))
  <2> DEFINE y == x(1)
  <2>1. y \in Machines /\ y.reg["rax"] = r
    BY <1>5 DEF SetsRegister
  <2> HIDE DEF y
  <2>2. SetsRegister(y, Executed(y, Instruction("not", Reg("rax"), Nothing)), "rax", Cut(-y.reg["rax"] - 1))
    BY <1>3, <2>1, UnaryIs
  <2> QED BY <1>2, <2>1, <2>2 DEF y
<1> QED BY <1>2, <1>6 DEF SetsRegister, s

LEMMA LegacyMultiplication ==
  ASSUME NEW t, NEW a, NEW l, NEW r, Topped(t, a, l, r)
  PROVE  Run(t, <<Move(Rax, First), Move(Rdx, Second), Instruction("mul", Rdx, Nothing)>>).reg["rax"] = Cut(l * r)
<1> DEFINE s == <<Move(Rax, First), Move(Rdx, Second), Instruction("mul", Rdx, Nothing)>>
           x(k) == Executing(t, s)[k]
<1>1. /\ Len(s) = 3
      /\ s[1] = Move(Reg("rax"), First)
      /\ s[2] = Move(Reg("rdx"), Second)
      /\ s[3] = Instruction("mul", Reg("rdx"), Nothing)
  BY DEF Rax, Rdx
<1> HIDE DEF s
<1>2. /\ x(0) = t
      /\ x(1) = Executed(x(0), Move(Reg("rax"), First))
      /\ x(2) = Executed(x(1), Move(Reg("rdx"), Second))
      /\ x(3) = Executed(x(2), Instruction("mul", Reg("rdx"), Nothing))
      /\ Run(t, s) = x(3)
  <2>1. x(0) = t /\ \A j \in 1 .. 3 : x(j) = Executed(x(j - 1), s[j])
    <3>1. Len(s) = 3 /\ Len(s) \in Nat
      BY <1>1
    <3>2. InTurn(t, s, Executing(t, s))
      BY <3>1, ExecutedInTurn
    <3> QED BY <3>1, <3>2 DEF InTurn
  <2>2. Run(t, s) = x(3)
    BY <1>1 DEF Run
  <2> HIDE DEF x
  <2>3. /\ x(1) = Executed(x(0), s[1])
        /\ x(2) = Executed(x(1), s[2])
        /\ x(3) = Executed(x(2), s[3])
    BY <2>1
  <2> QED BY <1>1, <2>1, <2>2, <2>3
<1> HIDE DEF x
<1>3. /\ {"rax", "rcx", "rdx", "rsp"} \subseteq RegisterNames /\ 0 \in Words
      /\ {"rax", "rcx", "rdx"} \subseteq RegisterNames \ {"rsp"}
  BY NamesAre, WordIs
<1>4. Topped(x(0), a, l, r)
  BY <1>2
<1>5. SetsRegister(x(0), x(1), "rax", l) /\ Topped(x(1), a, l, r)
  <2>1. x(0) \in Machines
    BY <1>4 DEF Topped
  <2>2. SetsRegister(x(0), x(1), "rax", l)
    BY <1>2, <1>3, <1>4, <2>1, TopIs, MovedToRegister
  <2> QED BY <1>3, <1>4, <2>2, TopStays
<1>6. SetsRegister(x(1), x(2), "rdx", r) /\ Topped(x(2), a, l, r)
  <2>1. x(1) \in Machines
    BY <1>5 DEF Topped
  <2>2. SetsRegister(x(1), x(2), "rdx", r)
    BY <1>2, <1>3, <1>5, <2>1, TopIs, MovedToRegister
  <2> QED BY <1>3, <1>5, <2>2, TopStays
<1>7. SetsBoth(x(2), x(3), Cut(l * r), (l * r) \div Word)
  <2> DEFINE y == x(2)
  <2>1. y \in Machines /\ y.reg["rax"] = l /\ y.reg["rdx"] = r
    BY <1>3, <1>5, <1>6 DEF SetsRegister
  <2> HIDE DEF y
  <2>2. SetsBoth(y, Executed(y, Instruction("mul", Reg("rdx"), Nothing)), Cut(y.reg["rax"] * y.reg["rdx"]),
                 (y.reg["rax"] * y.reg["rdx"]) \div Word)
    BY <1>3, <2>1, MulIs
  <2> QED BY <1>2, <2>1, <2>2 DEF y
<1> QED BY <1>2, <1>7 DEF SetsBoth, s

LEMMA LegacyDivision ==
  ASSUME NEW t, NEW a, NEW l, NEW r, Topped(t, a, l, r), r # 0
  PROVE  Run(t, LegacyQuotient).reg["rax"] = l \div r
<1> DEFINE s == LegacyQuotient
           x(k) == Executing(t, s)[k]
<1>1. /\ Len(s) = 3
      /\ s[1] = Move(Reg("rax"), First)
      /\ s[2] = Move(Reg("rdx"), Nothing)
      /\ s[3] = Instruction("div", Second, Nothing)
  BY DEF LegacyQuotient, Rax, Rdx
<1> HIDE DEF s
<1>2. /\ x(0) = t
      /\ x(1) = Executed(x(0), Move(Reg("rax"), First))
      /\ x(2) = Executed(x(1), Move(Reg("rdx"), Nothing))
      /\ x(3) = Executed(x(2), Instruction("div", Second, Nothing))
      /\ Run(t, s) = x(3)
  <2>1. x(0) = t /\ \A j \in 1 .. 3 : x(j) = Executed(x(j - 1), s[j])
    <3>1. Len(s) = 3 /\ Len(s) \in Nat
      BY <1>1
    <3>2. InTurn(t, s, Executing(t, s))
      BY <3>1, ExecutedInTurn
    <3> QED BY <3>1, <3>2 DEF InTurn
  <2>2. Run(t, s) = x(3)
    BY <1>1 DEF Run
  <2> HIDE DEF x
  <2>3. /\ x(1) = Executed(x(0), s[1])
        /\ x(2) = Executed(x(1), s[2])
        /\ x(3) = Executed(x(2), s[3])
    BY <2>1
  <2> QED BY <1>1, <2>1, <2>2, <2>3
<1> HIDE DEF x
<1>3. /\ {"rax", "rcx", "rdx", "rsp"} \subseteq RegisterNames /\ 0 \in Words
      /\ {"rax", "rcx", "rdx"} \subseteq RegisterNames \ {"rsp"}
  BY NamesAre, WordIs
<1>4. Topped(x(0), a, l, r)
  BY <1>2
<1>5. SetsRegister(x(0), x(1), "rax", l) /\ Topped(x(1), a, l, r)
  <2>1. x(0) \in Machines
    BY <1>4 DEF Topped
  <2>2. SetsRegister(x(0), x(1), "rax", l)
    BY <1>2, <1>3, <1>4, <2>1, TopIs, MovedToRegister
  <2> QED BY <1>3, <1>4, <2>2, TopStays
<1>6. SetsRegister(x(1), x(2), "rdx", 0) /\ Topped(x(2), a, l, r)
  <2>1. x(1) \in Machines
    BY <1>5 DEF Topped
  <2>2. SetsRegister(x(1), x(2), "rdx", 0)
    BY <1>2, <1>3, <1>5, <2>1, NumberMoved
  <2> QED BY <1>3, <1>5, <2>2, TopStays
<1>7. SetsBoth(x(2), x(3), l \div r, l % r)
  <2> DEFINE y == x(2)
             of == Second
  <2>1. y \in Machines /\ y.reg["rax"] = l /\ y.reg["rdx"] = 0 /\ Content(y, of) = r /\ r \in Words
    BY <1>3, <1>5, <1>6, TopIs DEF SetsRegister
  <2>2. x(3) = Executed(y, Instruction("div", of, Nothing))
    BY <1>2
  <2> HIDE DEF y, of
  <2>3. SetsBoth(y, x(3), y.reg["rax"] \div Content(y, of), y.reg["rax"] % Content(y, of))
    BY <2>1, <2>2, DivIs
  <2> QED BY <2>1, <2>3 DEF y
<1> QED BY <1>2, <1>7 DEF SetsBoth, s

LEMMA LegacyModulo ==
  ASSUME NEW t, NEW a, NEW l, NEW r, Topped(t, a, l, r), r # 0
  PROVE  Run(t, LegacyQuotient \o <<Move(Rax, Rdx)>>).reg["rax"] = l % r
<1> DEFINE s == LegacyQuotient \o <<Move(Rax, Rdx)>>
           x(k) == Executing(t, s)[k]
<1>1. /\ Len(s) = 4
      /\ s[1] = Move(Reg("rax"), First)
      /\ s[2] = Move(Reg("rdx"), Nothing)
      /\ s[3] = Instruction("div", Second, Nothing)
      /\ s[4] = Move(Reg("rax"), Reg("rdx"))
  <2> DEFINE i1 == Move(Reg("rax"), First)
             i2 == Move(Reg("rdx"), Nothing)
             i3 == Instruction("div", Second, Nothing)
             i4 == Move(Reg("rax"), Reg("rdx"))
  <2>1. s = <<i1, i2, i3>> \o <<i4>>
    BY DEF LegacyQuotient, Rax, Rdx
  <2> HIDE DEF s, i1, i2, i3, i4
  <2>2. Len(s) = 4 /\ s[1] = i1 /\ s[2] = i2 /\ s[3] = i3 /\ s[4] = i4
    BY ONLY <2>1
  <2> QED BY <2>2 DEF i1, i2, i3, i4
<1> HIDE DEF s
<1>2. /\ x(0) = t
      /\ x(1) = Executed(x(0), Move(Reg("rax"), First))
      /\ x(2) = Executed(x(1), Move(Reg("rdx"), Nothing))
      /\ x(3) = Executed(x(2), Instruction("div", Second, Nothing))
      /\ x(4) = Executed(x(3), Move(Reg("rax"), Reg("rdx")))
      /\ Run(t, s) = x(4)
  <2>1. x(0) = t /\ \A j \in 1 .. 4 : x(j) = Executed(x(j - 1), s[j])
    <3>1. Len(s) = 4 /\ Len(s) \in Nat
      BY <1>1
    <3>2. InTurn(t, s, Executing(t, s))
      BY <3>1, ExecutedInTurn
    <3> QED BY <3>1, <3>2 DEF InTurn
  <2>2. Run(t, s) = x(4)
    BY <1>1 DEF Run
  <2> HIDE DEF x
  <2>3. /\ x(1) = Executed(x(0), s[1])
        /\ x(2) = Executed(x(1), s[2])
        /\ x(3) = Executed(x(2), s[3])
        /\ x(4) = Executed(x(3), s[4])
    BY <2>1
  <2> QED BY <1>1, <2>1, <2>2, <2>3
<1> HIDE DEF x
<1>3. /\ {"rax", "rcx", "rdx", "rsp"} \subseteq RegisterNames /\ 0 \in Words
      /\ {"rax", "rcx", "rdx"} \subseteq RegisterNames \ {"rsp"}
  BY NamesAre, WordIs
<1>4. Topped(x(0), a, l, r)
  BY <1>2
<1>5. SetsRegister(x(0), x(1), "rax", l) /\ Topped(x(1), a, l, r)
  <2>1. x(0) \in Machines
    BY <1>4 DEF Topped
  <2>2. SetsRegister(x(0), x(1), "rax", l)
    BY <1>2, <1>3, <1>4, <2>1, TopIs, MovedToRegister
  <2> QED BY <1>3, <1>4, <2>2, TopStays
<1>6. SetsRegister(x(1), x(2), "rdx", 0) /\ Topped(x(2), a, l, r)
  <2>1. x(1) \in Machines
    BY <1>5 DEF Topped
  <2>2. SetsRegister(x(1), x(2), "rdx", 0)
    BY <1>2, <1>3, <1>5, <2>1, NumberMoved
  <2> QED BY <1>3, <1>5, <2>2, TopStays
<1>7. SetsBoth(x(2), x(3), l \div r, l % r)
  <2> DEFINE y == x(2)
             of == Second
  <2>1. y \in Machines /\ y.reg["rax"] = l /\ y.reg["rdx"] = 0 /\ Content(y, of) = r /\ r \in Words
    BY <1>3, <1>5, <1>6, TopIs DEF SetsRegister
  <2>2. x(3) = Executed(y, Instruction("div", of, Nothing))
    BY <1>2
  <2> HIDE DEF y, of
  <2>3. SetsBoth(y, x(3), y.reg["rax"] \div Content(y, of), y.reg["rax"] % Content(y, of))
    BY <2>1, <2>2, DivIs
  <2> QED BY <2>1, <2>3 DEF y
<1>8. SetsRegister(x(3), x(4), "rax", l % r)
  <2> DEFINE n == l % r
  <2> HIDE DEF n
  <2>1. x(3) \in Machines /\ x(3).reg["rdx"] = n
    BY <1>7 DEF SetsBoth, n
  <2>2. Content(x(3), Reg("rdx")) = n /\ n \in Words
    BY <1>3, <2>1, ContentIs, MachineParts
  <2>3. SetsRegister(x(3), x(4), "rax", n)
    BY <1>2, <1>3, <2>1, <2>2, MovedToRegister
  <2> QED BY <2>3 DEF n
<1> QED BY <1>2, <1>8 DEF SetsRegister, s

LEMMA LegacyLogicalRuns ==
  ASSUME NEW t, NEW a, NEW l, NEW r, Topped(t, a, l, r), NEW op \in {"and", "or"}
  PROVE  Run(t, LegacyLogical(op)).reg["rax"] = Cut(Alu(op, Truth(l # 0), Truth(r # 0)))
<1> DEFINE s == LegacyLogical(op)
           x(k) == Executing(t, s)[k]
<1>1. /\ Len(s) = 7
      /\ s[1] = Instruction("xor", Reg("rax"), Reg("rax"))
      /\ s[2] = Instruction("sub", First, Nothing)
      /\ s[3] = Instruction("setne", Reg("rax"), Nothing)
      /\ s[4] = Instruction("xor", Reg("rdx"), Reg("rdx"))
      /\ s[5] = Instruction("sub", Second, Nothing)
      /\ s[6] = Instruction("setne", Reg("rdx"), Nothing)
      /\ s[7] = Instruction(op, Reg("rax"), Reg("rdx"))
  BY DEF LegacyLogical, Rax, Rdx
<1> HIDE DEF s
<1>2. /\ x(0) = t
      /\ x(1) = Executed(x(0), Instruction("xor", Reg("rax"), Reg("rax")))
      /\ x(2) = Executed(x(1), Instruction("sub", First, Nothing))
      /\ x(3) = Executed(x(2), Instruction("setne", Reg("rax"), Nothing))
      /\ x(4) = Executed(x(3), Instruction("xor", Reg("rdx"), Reg("rdx")))
      /\ x(5) = Executed(x(4), Instruction("sub", Second, Nothing))
      /\ x(6) = Executed(x(5), Instruction("setne", Reg("rdx"), Nothing))
      /\ x(7) = Executed(x(6), Instruction(op, Reg("rax"), Reg("rdx")))
      /\ Run(t, s) = x(7)
  <2>1. x(0) = t /\ \A j \in 1 .. 7 : x(j) = Executed(x(j - 1), s[j])
    <3>1. Len(s) = 7 /\ Len(s) \in Nat
      BY <1>1
    <3>2. InTurn(t, s, Executing(t, s))
      BY <3>1, ExecutedInTurn
    <3> QED BY <3>1, <3>2 DEF InTurn
  <2>2. Run(t, s) = x(7)
    BY <1>1 DEF Run
  <2> HIDE DEF x
  <2>3. /\ x(1) = Executed(x(0), s[1])
        /\ x(2) = Executed(x(1), s[2])
        /\ x(3) = Executed(x(2), s[3])
        /\ x(4) = Executed(x(3), s[4])
        /\ x(5) = Executed(x(4), s[5])
        /\ x(6) = Executed(x(5), s[6])
        /\ x(7) = Executed(x(6), s[7])
    BY <2>1
  <2> QED BY <1>1, <2>1, <2>2, <2>3
<1> HIDE DEF x
<1>3. /\ {"rax", "rcx", "rdx", "rsp"} \subseteq RegisterNames /\ 0 \in Words
      /\ {"rax", "rcx", "rdx"} \subseteq RegisterNames \ {"rsp"}
  BY NamesAre, WordIs
<1>4. Topped(x(0), a, l, r)
  BY <1>2
<1>5. SetsRegister(x(0), x(1), "rax", 0) /\ Topped(x(1), a, l, r)
  <2>1. x(0) \in Machines
    BY <1>4 DEF Topped
  <2>2. SetsRegister(x(0), x(1), "rax", 0)
    BY <1>2, <1>3, <1>4, <2>1, ClearedIs
  <2> QED BY <1>3, <1>4, <2>2, TopStays
<1>6. ComparesTo(x(1), x(2), l, 0) /\ Topped(x(2), a, l, r)
  <2>1. /\ x(1) \in Machines /\ IsMemory(First) /\ Address(x(1), First) \in Cells
        /\ x(1).mem[Address(x(1), First)] = l
    <3>1. x(1) \in Machines /\ a \in Cells /\ a + 8 \in Cells /\ x(1).mem[a + 8] = l /\ x(1).mem[a] = r
      BY <1>5 DEF Topped
    <3> QED BY <1>5, <3>1, TopIs
  <2>2. ComparesTo(x(1), x(2), l, 0)
    BY <1>2, <2>1, TestedIs
  <2> QED BY <1>5, <2>2, TopStays
<1>7. SetsRegister(x(2), x(3), "rax", Truth(Holds(Conditions["setne"], l, 0))) /\ Topped(x(3), a, l, r)
  <2> DEFINE y == x(2)
  <2>1. y \in Machines /\ y.reg["rax"] = 0 /\ y.compared[1] = l /\ y.compared[2] = 0
    BY <1>3, <1>5, <1>6 DEF SetsRegister, ComparesTo
  <2>2. x(3) = Executed(y, Instruction("setne", Reg("rax"), Nothing)) /\ "setne" \in SetNames
    BY <1>2, SetNamesAre
  <2> HIDE DEF y
  <2>3. SetsRegister(y, x(3), "rax", Truth(Holds(Conditions["setne"], y.compared[1], y.compared[2])))
    BY <1>3, <2>1, <2>2, SetIs
  <2>4. SetsRegister(x(2), x(3), "rax", Truth(Holds(Conditions["setne"], l, 0)))
    BY <2>1, <2>3 DEF y
  <2> QED BY <1>3, <1>6, <2>4, TopStays
<1>8. SetsRegister(x(3), x(4), "rdx", 0) /\ Topped(x(4), a, l, r)
  <2>1. x(3) \in Machines
    BY <1>7 DEF Topped
  <2>2. SetsRegister(x(3), x(4), "rdx", 0)
    BY <1>2, <1>3, <1>7, <2>1, ClearedIs
  <2> QED BY <1>3, <1>7, <2>2, TopStays
<1>9. ComparesTo(x(4), x(5), r, 0) /\ Topped(x(5), a, l, r)
  <2>1. /\ x(4) \in Machines /\ IsMemory(Second) /\ Address(x(4), Second) \in Cells
        /\ x(4).mem[Address(x(4), Second)] = r
    <3>1. x(4) \in Machines /\ a \in Cells /\ a + 8 \in Cells /\ x(4).mem[a + 8] = l /\ x(4).mem[a] = r
      BY <1>8 DEF Topped
    <3> QED BY <1>8, <3>1, TopIs
  <2>2. ComparesTo(x(4), x(5), r, 0)
    BY <1>2, <2>1, TestedIs
  <2> QED BY <1>8, <2>2, TopStays
<1>10. SetsRegister(x(5), x(6), "rdx", Truth(Holds(Conditions["setne"], r, 0))) /\ Topped(x(6), a, l, r)
  <2> DEFINE y == x(5)
  <2>1. y \in Machines /\ y.reg["rdx"] = 0 /\ y.compared[1] = r /\ y.compared[2] = 0
    BY <1>3, <1>8, <1>9 DEF SetsRegister, ComparesTo
  <2>2. x(6) = Executed(y, Instruction("setne", Reg("rdx"), Nothing)) /\ "setne" \in SetNames
    BY <1>2, SetNamesAre
  <2> HIDE DEF y
  <2>3. SetsRegister(y, x(6), "rdx", Truth(Holds(Conditions["setne"], y.compared[1], y.compared[2])))
    BY <1>3, <2>1, <2>2, SetIs
  <2>4. SetsRegister(x(5), x(6), "rdx", Truth(Holds(Conditions["setne"], r, 0)))
    BY <2>1, <2>3 DEF y
  <2> QED BY <1>3, <1>9, <2>4, TopStays
<1>11. SetsRegister(x(6), x(7), "rax", Cut(Alu(op, Truth(l # 0), Truth(r # 0))))
  <2> DEFINE y == x(6)
             u == Truth(l # 0)
             w == Truth(r # 0)
             of == Reg("rdx")
  <2>1. \A n \in Words : Holds(Conditions["setne"], n, 0) <=> n # 0
    BY DEF Holds, Conditions
  <2>2. Truth(Holds(Conditions["setne"], l, 0)) = u /\ Truth(Holds(Conditions["setne"], r, 0)) = w
    BY <1>4, <2>1, TopIs DEF Truth
  <2>3. y \in Machines /\ y.reg["rax"] = u /\ Content(y, of) = w
    <3>1. y.reg["rax"] = Truth(Holds(Conditions["setne"], l, 0)) /\ y.reg["rdx"] = Truth(Holds(Conditions["setne"], r, 0))
      BY <1>3, <1>7, <1>8, <1>9, <1>10 DEF SetsRegister, ComparesTo
    <3>2. y \in Machines
      BY <1>10 DEF Topped
    <3> QED BY <2>2, <3>1, <3>2, ContentIs
  <2>4. w \in Words
    BY <1>3, SmallWords DEF Truth
  <2>5. x(7) = Executed(y, Instruction(op, Reg("rax"), of))
    BY <1>2
  <2> HIDE DEF y, of, u, w
  <2>6. SetsRegister(y, x(7), "rax", Cut(Alu(op, y.reg["rax"], Content(y, of))))
    BY <1>3, <2>3, <2>4, <2>5, AluWritten
  <2>7. SetsRegister(y, x(7), "rax", Cut(Alu(op, u, w)))
    BY <2>3, <2>6
  <2> QED BY <2>7 DEF y, u, w
<1> QED BY <1>2, <1>11 DEF SetsRegister, s

LEMMA LegacyNot ==
  ASSUME NEW t, NEW a, NEW l, NEW r, Topped(t, a, l, r)
  PROVE  Run(t, <<Instruction("xor", Rax, Rax), Instruction("sub", Second, Nothing), Instruction("sete", Rax, Nothing)>>).reg["rax"] = Truth(r = 0)
<1> DEFINE s == <<Instruction("xor", Rax, Rax), Instruction("sub", Second, Nothing), Instruction("sete", Rax, Nothing)>>
           x(k) == Executing(t, s)[k]
<1>1. /\ Len(s) = 3
      /\ s[1] = Instruction("xor", Reg("rax"), Reg("rax"))
      /\ s[2] = Instruction("sub", Second, Nothing)
      /\ s[3] = Instruction("sete", Reg("rax"), Nothing)
  BY DEF Rax, Rdx
<1> HIDE DEF s
<1>2. /\ x(0) = t
      /\ x(1) = Executed(x(0), Instruction("xor", Reg("rax"), Reg("rax")))
      /\ x(2) = Executed(x(1), Instruction("sub", Second, Nothing))
      /\ x(3) = Executed(x(2), Instruction("sete", Reg("rax"), Nothing))
      /\ Run(t, s) = x(3)
  <2>1. x(0) = t /\ \A j \in 1 .. 3 : x(j) = Executed(x(j - 1), s[j])
    <3>1. Len(s) = 3 /\ Len(s) \in Nat
      BY <1>1
    <3>2. InTurn(t, s, Executing(t, s))
      BY <3>1, ExecutedInTurn
    <3> QED BY <3>1, <3>2 DEF InTurn
  <2>2. Run(t, s) = x(3)
    BY <1>1 DEF Run
  <2> HIDE DEF x
  <2>3. /\ x(1) = Executed(x(0), s[1])
        /\ x(2) = Executed(x(1), s[2])
        /\ x(3) = Executed(x(2), s[3])
    BY <2>1
  <2> QED BY <1>1, <2>1, <2>2, <2>3
<1> HIDE DEF x
<1>3. /\ {"rax", "rcx", "rdx", "rsp"} \subseteq RegisterNames /\ 0 \in Words
      /\ {"rax", "rcx", "rdx"} \subseteq RegisterNames \ {"rsp"}
  BY NamesAre, WordIs
<1>4. Topped(x(0), a, l, r)
  BY <1>2
<1>5. SetsRegister(x(0), x(1), "rax", 0) /\ Topped(x(1), a, l, r)
  <2>1. x(0) \in Machines
    BY <1>4 DEF Topped
  <2>2. SetsRegister(x(0), x(1), "rax", 0)
    BY <1>2, <1>3, <1>4, <2>1, ClearedIs
  <2> QED BY <1>3, <1>4, <2>2, TopStays
<1>6. ComparesTo(x(1), x(2), r, 0) /\ Topped(x(2), a, l, r)
  <2>1. /\ x(1) \in Machines /\ IsMemory(Second) /\ Address(x(1), Second) \in Cells
        /\ x(1).mem[Address(x(1), Second)] = r
    <3>1. x(1) \in Machines /\ a \in Cells /\ a + 8 \in Cells /\ x(1).mem[a + 8] = l /\ x(1).mem[a] = r
      BY <1>5 DEF Topped
    <3> QED BY <1>5, <3>1, TopIs
  <2>2. ComparesTo(x(1), x(2), r, 0)
    BY <1>2, <2>1, TestedIs
  <2> QED BY <1>5, <2>2, TopStays
<1>7. SetsRegister(x(2), x(3), "rax", Truth(Holds(Conditions["sete"], r, 0))) /\ Topped(x(3), a, l, r)
  <2> DEFINE y == x(2)
  <2>1. y \in Machines /\ y.reg["rax"] = 0 /\ y.compared[1] = r /\ y.compared[2] = 0
    BY <1>3, <1>5, <1>6 DEF SetsRegister, ComparesTo
  <2>2. x(3) = Executed(y, Instruction("sete", Reg("rax"), Nothing)) /\ "sete" \in SetNames
    BY <1>2, SetNamesAre
  <2> HIDE DEF y
  <2>3. SetsRegister(y, x(3), "rax", Truth(Holds(Conditions["sete"], y.compared[1], y.compared[2])))
    BY <1>3, <2>1, <2>2, SetIs
  <2>4. SetsRegister(x(2), x(3), "rax", Truth(Holds(Conditions["sete"], r, 0)))
    BY <2>1, <2>3 DEF y
  <2> QED BY <1>3, <1>6, <2>4, TopStays
<1>8. Holds(Conditions["sete"], r, 0) <=> r = 0
  BY DEF Holds, Conditions
<1>9. Truth(Holds(Conditions["sete"], r, 0)) = Truth(r = 0)
  BY <1>8 DEF Truth
<1> QED BY <1>2, <1>7, <1>9 DEF SetsRegister, s

LEMMA LegacyComparedRuns ==
  ASSUME NEW t, NEW a, NEW l, NEW r, Topped(t, a, l, r), NEW set \in SetNames
  PROVE  Run(t, LegacyCompared(set)).reg["rax"] = Truth(Holds(Conditions[set], l, r))
<1> DEFINE s == LegacyCompared(set)
           x(k) == Executing(t, s)[k]
<1>1. /\ Len(s) = 4
      /\ s[1] = Instruction("xor", Reg("rax"), Reg("rax"))
      /\ s[2] = Move(Reg("rdx"), First)
      /\ s[3] = Instruction("sub", Reg("rdx"), Second)
      /\ s[4] = Instruction(set, Reg("rax"), Nothing)
  BY DEF LegacyCompared, Rax, Rdx
<1> HIDE DEF s
<1>2. /\ x(0) = t
      /\ x(1) = Executed(x(0), Instruction("xor", Reg("rax"), Reg("rax")))
      /\ x(2) = Executed(x(1), Move(Reg("rdx"), First))
      /\ x(3) = Executed(x(2), Instruction("sub", Reg("rdx"), Second))
      /\ x(4) = Executed(x(3), Instruction(set, Reg("rax"), Nothing))
      /\ Run(t, s) = x(4)
  <2>1. x(0) = t /\ \A j \in 1 .. 4 : x(j) = Executed(x(j - 1), s[j])
    <3>1. Len(s) = 4 /\ Len(s) \in Nat
      BY <1>1
    <3>2. InTurn(t, s, Executing(t, s))
      BY <3>1, ExecutedInTurn
    <3> QED BY <3>1, <3>2 DEF InTurn
  <2>2. Run(t, s) = x(4)
    BY <1>1 DEF Run
  <2> HIDE DEF x
  <2>3. /\ x(1) = Executed(x(0), s[1])
        /\ x(2) = Executed(x(1), s[2])
        /\ x(3) = Executed(x(2), s[3])
        /\ x(4) = Executed(x(3), s[4])
    BY <2>1
  <2> QED BY <1>1, <2>1, <2>2, <2>3
<1> HIDE DEF x
<1>3. /\ {"rax", "rcx", "rdx", "rsp"} \subseteq RegisterNames /\ 0 \in Words
      /\ {"rax", "rcx", "rdx"} \subseteq RegisterNames \ {"rsp"}
  BY NamesAre, WordIs
<1>4. Topped(x(0), a, l, r)
  BY <1>2
<1>5. SetsRegister(x(0), x(1), "rax", 0) /\ Topped(x(1), a, l, r)
  <2>1. x(0) \in Machines
    BY <1>4 DEF Topped
  <2>2. SetsRegister(x(0), x(1), "rax", 0)
    BY <1>2, <1>3, <1>4, <2>1, ClearedIs
  <2> QED BY <1>3, <1>4, <2>2, TopStays
<1>6. SetsRegister(x(1), x(2), "rdx", l) /\ Topped(x(2), a, l, r)
  <2>1. x(1) \in Machines
    BY <1>5 DEF Topped
  <2>2. SetsRegister(x(1), x(2), "rdx", l)
    BY <1>2, <1>3, <1>5, <2>1, TopIs, MovedToRegister
  <2> QED BY <1>3, <1>5, <2>2, TopStays
<1>7. /\ SetsRegister(x(2), x(3), "rdx", Cut(l - r)) /\ Topped(x(3), a, l, r)
      /\ x(3).compared[1] = l /\ x(3).compared[2] = r
  <2> DEFINE of == Second
             y == x(2)
             z == x(3)
  <2>1. y \in Machines /\ y.reg["rdx"] = l /\ Content(y, of) = r /\ r \in Words
    BY <1>6, TopIs DEF SetsRegister
  <2>2. z = Executed(y, Instruction("sub", Reg("rdx"), of))
    BY <1>2
  <2> HIDE DEF of, y, z
  <2>3. SetsRegister(y, z, "rdx", Cut(y.reg["rdx"] - Content(y, of))) /\ z.compared[1] = y.reg["rdx"] /\ z.compared[2] = Content(y, of)
    BY <1>3, <2>1, <2>2, SubtractedIs
  <2>4. SetsRegister(x(2), x(3), "rdx", Cut(l - r)) /\ x(3).compared[1] = l /\ x(3).compared[2] = r
    BY <2>1, <2>3 DEF y, z
  <2> QED BY <1>3, <1>6, <2>4, TopStays
<1>8. SetsRegister(x(3), x(4), "rax", Truth(Holds(Conditions[set], l, r))) /\ Topped(x(4), a, l, r)
  <2> DEFINE y == x(3)
  <2>1. y \in Machines /\ y.reg["rax"] = 0 /\ y.compared[1] = l /\ y.compared[2] = r
    BY <1>3, <1>5, <1>6, <1>7 DEF SetsRegister, ComparesTo
  <2>2. x(4) = Executed(y, Instruction(set, Reg("rax"), Nothing)) /\ set \in SetNames
    BY <1>2, SetNamesAre
  <2> HIDE DEF y
  <2>3. SetsRegister(y, x(4), "rax", Truth(Holds(Conditions[set], y.compared[1], y.compared[2])))
    BY <1>3, <2>1, <2>2, SetIs
  <2>4. SetsRegister(x(3), x(4), "rax", Truth(Holds(Conditions[set], l, r)))
    BY <2>1, <2>3 DEF y
  <2> QED BY <1>3, <1>7, <2>4, TopStays
<1> QED BY <1>2, <1>8 DEF SetsRegister, s

(***************************************************************************)
(* What the instructions mean.                                             *)
(***************************************************************************)
LEMMA KindsAre ==
  /\ DOMAIN BinaryOps = {"BitwiseAnd", "BitwiseOr", "BitwiseXor", "Addition", "Subtraction", "ShiftLeft", "ShiftRight"}
  /\ DOMAIN UnaryOps = {"BitwiseNot", "Minus"}
  /\ DOMAIN SetOps = {"Less", "Greater", "Equal", "LessEqual", "GreaterEqual", "NotEqual"}
  /\ DOMAIN GepSizes = {"GEP8", "GEP16", "GEP24"} /\ DOMAIN Passed = {"Call2", "Call4"}
  /\ BinaryOps["BitwiseAnd"] = "and" /\ BinaryOps["BitwiseOr"] = "or" /\ BinaryOps["BitwiseXor"] = "xor"
  /\ BinaryOps["Addition"] = "add" /\ BinaryOps["Subtraction"] = "sub"
  /\ BinaryOps["ShiftLeft"] = "shl" /\ BinaryOps["ShiftRight"] = "shr"
  /\ UnaryOps["BitwiseNot"] = "not" /\ UnaryOps["Minus"] = "neg"
  /\ \A k \in DOMAIN SetOps : SetOps[k] \in SetNames
<1>1. /\ DOMAIN BinaryOps = {"BitwiseAnd", "BitwiseOr", "BitwiseXor", "Addition", "Subtraction", "ShiftLeft", "ShiftRight"}
      /\ BinaryOps["BitwiseAnd"] = "and" /\ BinaryOps["BitwiseOr"] = "or" /\ BinaryOps["BitwiseXor"] = "xor"
      /\ BinaryOps["Addition"] = "add" /\ BinaryOps["Subtraction"] = "sub"
      /\ BinaryOps["ShiftLeft"] = "shl" /\ BinaryOps["ShiftRight"] = "shr"
  BY DEF BinaryOps
<1>2. /\ DOMAIN UnaryOps = {"BitwiseNot", "Minus"}
      /\ UnaryOps["BitwiseNot"] = "not" /\ UnaryOps["Minus"] = "neg"
  BY DEF UnaryOps
<1>3. DOMAIN SetOps = {"Less", "Greater", "Equal", "LessEqual", "GreaterEqual", "NotEqual"}
  BY DEF SetOps
<1>4. \A k \in DOMAIN SetOps : SetOps[k] \in SetNames
  BY SetNamesAre DEF SetOps
<1>5. DOMAIN GepSizes = {"GEP8", "GEP16", "GEP24"} /\ DOMAIN Passed = {"Call2", "Call4"}
  BY DEF GepSizes, Passed
<1> QED BY <1>1, <1>2, <1>3, <1>4, <1>5

(* What operands have to be for instruction k to have a meaning.           *)
Sound(k, l, r) ==
  /\ k \in {"ShiftLeft", "ShiftRight"} => r < Width
  /\ k \in {"Division", "Modulo"} => r # 0 /\ Signed(l) >= 0 /\ Signed(r) >= 0

LEMMA MeantBinary ==
  ASSUME NEW m, NEW l \in Words, NEW r \in Words, NEW k \in DOMAIN BinaryOps, Sound(k, l, r)
  PROVE  Meant(m, k, l, r) = Cut(Alu(BinaryOps[k], l, r))
<1>1. l \in Int /\ r \in Int
  BY WordIs
<1>2. CASE k \in {"BitwiseAnd", "BitwiseOr", "BitwiseXor"}
  <2>1. Alu(BinaryOps[k], l, r) \in Words
    BY <1>2, KindsAre, AluIs
  <2>2. Meant(m, k, l, r) = Alu(BinaryOps[k], l, r)
    <3>1. CASE k = "BitwiseAnd"
      BY <3>1, KindsAre DEF Meant
    <3>2. CASE k = "BitwiseOr"
      BY <3>2, KindsAre DEF Meant
    <3>3. CASE k = "BitwiseXor"
      BY <3>3, KindsAre DEF Meant
    <3> QED BY <1>2, <3>1, <3>2, <3>3
  <2> QED BY <2>1, <2>2, CutOfWord
<1>3. CASE k = "Addition"
  BY <1>3, KindsAre, AluIs DEF Meant
<1>4. CASE k = "Subtraction"
  BY <1>4, KindsAre, AluIs DEF Meant
<1>5. CASE k = "ShiftLeft"
  <2>1. r < Width
    BY <1>5 DEF Sound
  <2>2. Alu("shl", l, r) = l * Power[r] /\ BinaryOps[k] = "shl"
    BY <1>5, <2>1, KindsAre, AluIs
  <2>3. Meant(m, k, l, r) = Cut(l * Power[r])
    BY <1>5, KindsAre DEF Meant
  <2> QED BY <2>2, <2>3
<1>6. CASE k = "ShiftRight"
  <2>1. r < Width
    BY <1>6 DEF Sound
  <2>2. Alu("shr", l, r) = l \div Power[r] /\ BinaryOps[k] = "shr" /\ Alu("shr", l, r) \in Words
    BY <1>6, <2>1, KindsAre, AluIs
  <2>3. Meant(m, k, l, r) = l \div Power[r]
    BY <1>6, KindsAre DEF Meant
  <2> QED BY <2>2, <2>3, CutOfWord
<1> QED BY <1>2, <1>3, <1>4, <1>5, <1>6, KindsAre

(* What instruction k means, in other words.                               *)
Means(m, k, l, r) ==
  /\ k = "Minus" => Meant(m, k, l, r) = Cut(-r)
  /\ k = "BitwiseNot" => Meant(m, k, l, r) = Cut(-r - 1)
  /\ k = "Multiplication" => Meant(m, k, l, r) = Cut(l * r)
  /\ k = "Division" => Meant(m, k, l, r) = l \div r
  /\ k = "Modulo" => Meant(m, k, l, r) = l % r
  /\ k = "And" => Meant(m, k, l, r) = Truth(l # 0 /\ r # 0)
  /\ k = "Or" => Meant(m, k, l, r) = Truth(l # 0 \/ r # 0)
  /\ k = "Not" => Meant(m, k, l, r) = Truth(r = 0)
  /\ k \in DOMAIN SetOps => Meant(m, k, l, r) = Truth(Holds(Conditions[SetOps[k]], l, r))
  /\ k \in DOMAIN GepSizes => Meant(m, k, l, r) = Cut(l + (r * GepSizes[k]))
  /\ k = "SGEP" => Meant(m, k, l, r) = Cut(l + FieldPhase)
  /\ k = "Load" => Meant(m, k, l, r) = m.mem[l]
  /\ k = "Br" => Meant(m, k, l, r) = l

LEMMA MeantOthers ==
  ASSUME NEW m, NEW l \in Words, NEW r \in Words, NEW k \in AllKinds, Sound(k, l, r)
  PROVE  Means(m, k, l, r)
<1> DEFINE truncated == (IF Signed(l) < 0 THEN -1 ELSE 1) * (IF Signed(r) < 0 THEN -1 ELSE 1)
                         * (Magnitude(Signed(l)) \div Magnitude(Signed(r)))
<1>1. ASSUME k \in {"Division", "Modulo"}
      PROVE  /\ truncated = l \div r /\ Signed(l) = l /\ Signed(r) = r /\ l \in Int /\ r \in Int
             /\ l \div r \in Words /\ l % r \in Words /\ l - ((l \div r) * r) = l % r
  <2>1. Signed(l) = l /\ Signed(r) = r /\ l \in Int /\ r \in Int /\ l >= 0 /\ r >= 0
    BY <1>1, NotNegative, WordIs DEF Sound
  <2>2. Magnitude(l) = l /\ Magnitude(r) = r
    BY <2>1 DEF Magnitude
  <2>3. l \div r \in Words /\ l % r \in Words /\ l - ((l \div r) * r) = l % r
    BY <1>1, QuotientOfWords DEF Sound
  <2> DEFINE q == l \div r
  <2>4. truncated = 1 * 1 * q
    <3>1. (IF Signed(l) < 0 THEN -1 ELSE 1) = 1 /\ (IF Signed(r) < 0 THEN -1 ELSE 1) = 1
      BY <2>1
    <3>2. Magnitude(Signed(l)) \div Magnitude(Signed(r)) = q
      BY <2>1, <2>2
    <3> QED BY <3>1, <3>2
  <2>5. q \in Int
    BY <2>3, WordIs
  <2> HIDE DEF q
  <2>6. 1 * 1 * q = q
    BY <2>5
  <2> QED BY <2>1, <2>3, <2>4, <2>6 DEF q
<1>2. k = "Minus" => Meant(m, k, l, r) = Cut(-r)
  BY KindsAre DEF Meant
<1>3. k = "BitwiseNot" => Meant(m, k, l, r) = Cut(-r - 1)
  <2>1. Cut(-r - 1) = Word - 1 - r
    BY CutWithin
  <2> QED BY <2>1, KindsAre DEF Meant
<1>4. k = "Multiplication" => Meant(m, k, l, r) = Cut(l * r)
  BY KindsAre DEF Meant
<1>5. k = "Division" => Meant(m, k, l, r) = l \div r
  <2> SUFFICES ASSUME k = "Division" PROVE Meant(m, k, l, r) = l \div r
    OBVIOUS
  <2>1. Meant(m, k, l, r) = Cut(truncated)
    BY KindsAre DEF Meant
  <2> HIDE DEF truncated
  <2> QED BY <1>1, <2>1, CutOfWord
<1>6. k = "Modulo" => Meant(m, k, l, r) = l % r
  <2> SUFFICES ASSUME k = "Modulo" PROVE Meant(m, k, l, r) = l % r
    OBVIOUS
  <2>1. Meant(m, k, l, r) = Cut(Signed(l) - (truncated * Signed(r)))
    BY KindsAre DEF Meant
  <2> HIDE DEF truncated
  <2>2. Signed(l) - (truncated * Signed(r)) = l % r
    BY <1>1
  <2> QED BY <1>1, <2>1, <2>2, CutOfWord
<1>7. k = "And" => Meant(m, k, l, r) = Truth(l # 0 /\ r # 0)
  BY KindsAre DEF Meant
<1>8. k = "Or" => Meant(m, k, l, r) = Truth(l # 0 \/ r # 0)
  BY KindsAre DEF Meant
<1>9. k = "Not" => Meant(m, k, l, r) = Truth(r = 0)
  BY KindsAre DEF Meant
<1>10. k \in DOMAIN SetOps => Meant(m, k, l, r) = Truth(Holds(Conditions[SetOps[k]], l, r))
  BY KindsAre DEF Meant
<1>11. k \in DOMAIN GepSizes => Meant(m, k, l, r) = Cut(l + (r * GepSizes[k]))
  BY KindsAre DEF Meant
<1>12. k = "SGEP" => Meant(m, k, l, r) = Cut(l + FieldPhase)
  BY KindsAre DEF Meant
<1>13. k = "Load" => Meant(m, k, l, r) = m.mem[l]
  BY KindsAre DEF Meant
<1>14. k = "Br" => Meant(m, k, l, r) = l
  BY KindsAre DEF Meant
<1> HIDE DEF truncated
<1> QED BY <1>2, <1>3, <1>4, <1>5, <1>6, <1>7, <1>8, <1>9, <1>10, <1>11, <1>12, <1>13, <1>14 DEF Means

LEMMA TruthsOfBoth ==
  ASSUME NEW l, NEW r
  PROVE  /\ Cut(Alu("and", Truth(l # 0), Truth(r # 0))) = Truth(l # 0 /\ r # 0)
         /\ Cut(Alu("or", Truth(l # 0), Truth(r # 0))) = Truth(l # 0 \/ r # 0)
<1> DEFINE p == Truth(l # 0)
           q == Truth(r # 0)
<1>1. p \in {0, 1} /\ q \in {0, 1} /\ (p = 1 <=> l # 0) /\ (q = 1 <=> r # 0)
  BY DEF Truth
<1>2. \A n \in {0, 1} : n \in Words /\ Cut(n) = n
  BY SmallWords
<1>3. Truth(l # 0 /\ r # 0) = (IF p = 1 /\ q = 1 THEN 1 ELSE 0)
  BY <1>1 DEF Truth
<1>4. Truth(l # 0 \/ r # 0) = (IF p = 1 \/ q = 1 THEN 1 ELSE 0)
  BY <1>1 DEF Truth
<1> HIDE DEF p, q
<1>5. \A op \in {"and", "or"} : Alu(op, p, q) = Joined(op, p, q)
  BY <1>1, <1>2, AluIs, TruthsJoined
<1>6. Joined("and", p, q) = (IF p = 1 /\ q = 1 THEN 1 ELSE 0)
  BY <1>1 DEF Joined
<1>7. Joined("or", p, q) = (IF p = 1 \/ q = 1 THEN 1 ELSE 0)
  BY <1>1 DEF Joined
<1>8. Cut(Alu("and", p, q)) = (IF p = 1 /\ q = 1 THEN 1 ELSE 0)
  BY <1>2, <1>5, <1>6
<1>9. Cut(Alu("or", p, q)) = (IF p = 1 \/ q = 1 THEN 1 ELSE 0)
  BY <1>2, <1>5, <1>7
<1> QED BY <1>3, <1>4, <1>8, <1>9 DEF p, q

(* The default backend computes what is meant.                             *)
LEMMA LegacyRuns ==
  ASSUME NEW t, NEW a, NEW l, NEW r, Topped(t, a, l, r), NEW m,
         NEW k \in Operators, Sound(k, l, r)
  PROVE  Run(t, LegacyText(k)).reg["rax"] = Meant(m, k, l, r)
<1>1. l \in Words /\ r \in Words
  BY TopIs
<1>2. CASE k \in DOMAIN BinaryOps
  <2>1. Meant(m, k, l, r) = Cut(Alu(BinaryOps[k], l, r))
    BY <1>1, <1>2, MeantBinary
  <2>2. CASE k \in {"ShiftLeft", "ShiftRight"}
    <3>1. LegacyText(k) = <<Move(Rax, First), Move(Reg("rcx"), Second), Instruction(BinaryOps[k], Rax, Reg("rcx"))>>
      BY <2>2, KindsAre DEF LegacyText
    <3>2. BinaryOps[k] \in {"shl", "shr"} /\ r < Width
      BY <2>2, KindsAre DEF Sound
    <3> DEFINE op == BinaryOps[k]
    <3> HIDE DEF op
    <3>3. Run(t, <<Move(Rax, First), Move(Reg("rcx"), Second), Instruction(op, Rax, Reg("rcx"))>>).reg["rax"] = Cut(Alu(op, l, r))
      BY <3>2, LegacyShift DEF op
    <3> QED BY <2>1, <3>1, <3>3 DEF op
  <2>3. CASE k \notin {"ShiftLeft", "ShiftRight"}
    <3>1. LegacyText(k) = <<Move(Rax, First), Instruction(BinaryOps[k], Rax, Second)>>
      BY <1>2, <2>3, KindsAre DEF LegacyText
    <3>2. BinaryOps[k] \in {"and", "or", "xor", "add", "sub"}
      BY <1>2, <2>3, KindsAre
    <3> DEFINE op == BinaryOps[k]
    <3> HIDE DEF op
    <3>3. Run(t, <<Move(Rax, First), Instruction(op, Rax, Second)>>).reg["rax"] = Cut(Alu(op, l, r))
      BY <3>2, LegacyBinary DEF op
    <3> QED BY <2>1, <3>1, <3>3 DEF op
  <2> QED BY <2>2, <2>3
<1>3. Means(m, k, l, r)
  <2>1. k \in AllKinds
    BY DEF AllKinds
  <2> QED BY <1>1, <2>1, MeantOthers
<1>4. CASE k = "Minus"
  <2>1. LegacyText(k) = <<Move(Rax, Nothing), Instruction("sub", Rax, Second)>>
    BY <1>4, KindsAre DEF LegacyText
  <2> QED BY <1>3, <1>4, <2>1, LegacyMinus DEF Means
<1>5. CASE k = "BitwiseNot"
  <2>1. LegacyText(k) = <<Move(Rax, Second), Instruction("not", Rax, Nothing)>>
    BY <1>5, KindsAre DEF LegacyText
  <2> QED BY <1>3, <1>5, <2>1, LegacyBitwiseNot DEF Means
<1>6. CASE k = "Multiplication"
  <2>1. LegacyText(k) = <<Move(Rax, First), Move(Rdx, Second), Instruction("mul", Rdx, Nothing)>>
    BY <1>6, KindsAre DEF LegacyText
  <2> QED BY <1>3, <1>6, <2>1, LegacyMultiplication DEF Means
<1>7. CASE k = "Division"
  <2>1. LegacyText(k) = LegacyQuotient
    BY <1>7, KindsAre DEF LegacyText
  <2>2. r # 0
    BY <1>7 DEF Sound
  <2> QED BY <1>3, <1>7, <2>1, <2>2, LegacyDivision DEF Means
<1>8. CASE k = "Modulo"
  <2>1. LegacyText(k) = LegacyQuotient \o <<Move(Rax, Rdx)>>
    BY <1>8, KindsAre DEF LegacyText
  <2>2. r # 0
    BY <1>8 DEF Sound
  <2>3. Run(t, LegacyQuotient \o <<Move(Rax, Rdx)>>).reg["rax"] = l % r
    BY <2>2, LegacyModulo
  <2>4. Meant(m, k, l, r) = l % r
    BY <1>3, <1>8 DEF Means
  <2> QED BY <2>1, <2>3, <2>4
<1>9. CASE k = "And"
  <2>1. LegacyText(k) = LegacyLogical("and")
    BY <1>9, KindsAre DEF LegacyText
  <2>2. Meant(m, k, l, r) = Truth(l # 0 /\ r # 0)
    BY <1>3, <1>9 DEF Means
  <2>3. Run(t, LegacyLogical("and")).reg["rax"] = Cut(Alu("and", Truth(l # 0), Truth(r # 0)))
    BY LegacyLogicalRuns
  <2> QED BY <2>1, <2>2, <2>3, TruthsOfBoth
<1>10. CASE k = "Or"
  <2>1. LegacyText(k) = LegacyLogical("or")
    BY <1>10, KindsAre DEF LegacyText
  <2>2. Meant(m, k, l, r) = Truth(l # 0 \/ r # 0)
    BY <1>3, <1>10 DEF Means
  <2>3. Run(t, LegacyLogical("or")).reg["rax"] = Cut(Alu("or", Truth(l # 0), Truth(r # 0)))
    BY LegacyLogicalRuns
  <2> QED BY <2>1, <2>2, <2>3, TruthsOfBoth
<1>11. CASE k = "Not"
  <2>1. LegacyText(k) = <<Instruction("xor", Rax, Rax), Instruction("sub", Second, Nothing), Instruction("sete", Rax, Nothing)>>
    BY <1>11, KindsAre DEF LegacyText
  <2> QED BY <1>3, <1>11, <2>1, LegacyNot DEF Means
<1>12. CASE k \in DOMAIN SetOps
  <2>1. LegacyText(k) = LegacyCompared(SetOps[k])
    BY <1>12, KindsAre DEF LegacyText
  <2>2. Meant(m, k, l, r) = Truth(Holds(Conditions[SetOps[k]], l, r))
    BY <1>3, <1>12 DEF Means
  <2>3. SetOps[k] \in SetNames
    BY <1>12, KindsAre
  <2> DEFINE set == SetOps[k]
  <2> HIDE DEF set
  <2>4. Run(t, LegacyCompared(set)).reg["rax"] = Truth(Holds(Conditions[set], l, r))
    BY <2>3, LegacyComparedRuns DEF set
  <2> QED BY <2>1, <2>2, <2>4 DEF set
<1> QED BY <1>2, <1>4, <1>5, <1>6, <1>7, <1>8, <1>9, <1>10, <1>11, <1>12, KindsAre DEF Operators

(***************************************************************************)
(* The instructions in the frame.                                          *)
(***************************************************************************)
LEMMA FrameContents ==
  ASSUME Housed, NEW cells, NEW b, Framed(b, cells)
  PROVE  /\ b \in Machines /\ b.reg["rbp"] = 2040 /\ b.reg["rsp"] = Stack - 40 + FrameSize
         /\ b.reg["rsp"] \in {1904, 1912, 1920, 1928} /\ b.reg["rsp"] \in Cells
         /\ ContentOf(b, "a") = 1992 /\ ContentOf(b, "b") = 1968
         /\ ContentOf(b, "c") = number /\ ContentOf(b, "f") = Function
         /\ \A n \in Nodes : ContentOf(b, n) \in Words
<1>1. b \in Machines /\ b.reg["rbp"] = 2040 /\ b.reg["rsp"] = Stack - 40 + FrameSize
  BY DEF Framed, Stack
<1>2. b.reg["rsp"] \in Cells /\ b.reg["rsp"] \in 1904 .. 1928
  BY <1>1, FrameCells
<1>3. b.reg["rsp"] \in {1904, 1912, 1920, 1928}
  <2> DEFINE n == b.reg["rsp"]
  <2>1. n \in 1904 .. 1928 /\ n % 8 = 0
    BY <1>2 DEF Cells
  <2> HIDE DEF n
  <2>2. n \in {1904, 1912, 1920, 1928}
    BY <2>1
  <2> QED BY <2>2 DEF n
<1>4. /\ "a" \in Nodes /\ "b" \in Nodes /\ "c" \in Nodes /\ "f" \in Nodes
      /\ Spilled("a") /\ Spilled("b") /\ Cell("a") = 1984 /\ Cell("b") = 1960
  BY NamesDiffer, Rooms, CellsAre
<1>5. \A n \in Nodes : /\ Spilled(n) => ContentOf(b, n) = b.mem[Cell(n)]
                       /\ n = "c" => ContentOf(b, n) = number
                       /\ n = "f" => ContentOf(b, n) = Function
                       /\ ContentOf(b, n) \in Words
  BY <1>1, ContentOfIs
<1>6. b.mem[1984] = 1992 /\ b.mem[1960] = 1968
  BY <1>4 DEF Framed
<1> QED BY <1>1, <1>2, <1>3, <1>4, <1>5, <1>6

(* What Operands says of each kind.                                        *)
Suitable(b, k, l, r) ==
  /\ k \in DOMAIN GepSizes => l \in {"x", "a"} /\ r \in {"y", "c"} /\ k # "GEP16"
  /\ k = "SGEP" => l \in {"x", "a"}
  /\ k \in {"Load", "Store", "StoreWide"} => l \in {"x", "a"} /\ ContentOf(b, l) \in {1992, 2080}
  /\ k = "Store" => r \in {"x", "y", "c"}
  /\ k = "StoreWide" => Spilled(l) /\ r = "b"
  /\ k \in DOMAIN Passed => l \in {"f", "y"} /\ ContentOf(b, l) = Function
  /\ k \in {"Br", "CondBr"} => l \in {"x", "y", "c"}
  /\ k \in {"Not"} \cup DOMAIN UnaryOps => r \in {"x", "y", "c"}
  /\ k \in {"And", "Or", "Multiplication", "Division", "Modulo"} \cup DOMAIN BinaryOps \cup DOMAIN SetOps =>
       l \in {"x", "y", "c"} /\ r \in {"x", "y", "c"}
  /\ k \in {"ShiftLeft", "ShiftRight"} => r = "c"
  /\ Sound(k, ContentOf(b, l), ContentOf(b, r))

LEMMA OperandsAre ==
  ASSUME Housed, Beyond = {}, NEW cells, NEW b, Framed(b, cells), NEW k \in AllKinds,
         NEW l \in Nodes \ {"v"}, NEW r \in Nodes \ {"v"}, Operands(b, k, l, r)
  PROVE  Suitable(b, k, l, r)
<1>1. ContentOf(b, "a") = 1992 /\ ContentOf(b, "f") = Function /\ CallerCell = 2080
  BY FrameContents DEF CallerCell, Stack
<1>2. Spilled("a")
  BY Rooms
<1>3. k \in DOMAIN GepSizes => l \in {"x", "a"} /\ r \in {"y", "c"} /\ k # "GEP16"
  BY KindsAre DEF Operands
<1>4. k = "SGEP" => l \in {"x", "a"}
  BY KindsAre DEF Operands
<1>5. k = "Load" => l \in {"x", "a"} /\ ContentOf(b, l) \in {1992, 2080}
  BY <1>1, KindsAre DEF Operands
<1>6. k = "Store" => l \in {"x", "a"} /\ ContentOf(b, l) \in {1992, 2080} /\ r \in {"x", "y", "c"}
  BY <1>1, KindsAre DEF Operands
<1>7. k = "StoreWide" => l \in {"x", "a"} /\ ContentOf(b, l) \in {1992, 2080} /\ Spilled(l) /\ r = "b"
  BY <1>1, <1>2, KindsAre DEF Operands
<1>8. k \in DOMAIN Passed => l \in {"f", "y"} /\ ContentOf(b, l) = Function
  BY <1>1, KindsAre DEF Operands
<1>9. k \in {"Br", "CondBr"} => l \in {"x", "y", "c"}
  BY KindsAre DEF Operands
<1>10. k \in {"Not"} \cup DOMAIN UnaryOps => r \in {"x", "y", "c"}
  BY KindsAre DEF Operands
<1>11. k \in {"And", "Or", "Multiplication", "Division", "Modulo"} \cup DOMAIN BinaryOps \cup DOMAIN SetOps =>
         l \in {"x", "y", "c"} /\ r \in {"x", "y", "c"}
  BY KindsAre DEF Operands
<1>12. k \in {"ShiftLeft", "ShiftRight"} => r = "c" /\ ContentOf(b, r) < Width
  BY KindsAre DEF Operands
<1>13. k \in {"Division", "Modulo"} =>
         ContentOf(b, r) # 0 /\ Signed(ContentOf(b, l)) >= 0 /\ Signed(ContentOf(b, r)) >= 0
  BY KindsAre DEF Operands
<1> QED BY <1>3, <1>4, <1>5, <1>6, <1>7, <1>8, <1>9, <1>10, <1>11, <1>12, <1>13 DEF Suitable, Sound

(* What an instruction may write is no cell of the frame but the value's.  *)
LEMMA TargetIs ==
  ASSUME Housed, NEW cells, NEW b, Framed(b, cells), NEW k \in AllKinds, NEW l, NEW r, Suitable(b, k, l, r)
  PROVE  /\ \A a \in Target(b, k, l) : a \in {1992, 2000, 2080, 2088} \/ (Spilled("v") /\ a = Cell("v"))
         /\ k = "Store" => ContentOf(b, l) \in Target(b, k, l)
         /\ k = "StoreWide" => ContentOf(b, l) \in Target(b, k, l) /\ ContentOf(b, l) + 8 \in Target(b, k, l)
         /\ HasValue(k) /\ Spilled("v") => Cell("v") \in Target(b, k, l)
<1>1. CASE k = "Store"
  <2>1. Target(b, k, l) = {ContentOf(b, l)} /\ ContentOf(b, l) \in {1992, 2080} /\ ~HasValue(k)
    BY <1>1 DEF Target, Suitable, HasValue
  <2> QED BY <1>1, <2>1
<1>2. CASE k = "StoreWide"
  <2>1. /\ Target(b, k, l) = {ContentOf(b, l) + i : i \in {0, 8}} /\ ContentOf(b, l) \in {1992, 2080}
        /\ ~HasValue(k)
    BY <1>2 DEF Target, Suitable, HasValue
  <2> DEFINE n == ContentOf(b, l)
  <2> HIDE DEF n
  <2>2. n \in {1992, 2080} /\ Target(b, k, l) = {n + i : i \in {0, 8}}
    BY <2>1 DEF n
  <2>3. {n + i : i \in {0, 8}} = {n, n + 8}
    BY <2>2
  <2>4. \A a \in {n, n + 8} : a \in {1992, 2000, 2080, 2088}
    BY <2>2
  <2> QED BY <1>2, <2>1, <2>2, <2>3, <2>4 DEF n
<1>3. CASE k \notin {"Store", "StoreWide"} /\ HasValue(k) /\ Spilled("v")
  <2>1. Target(b, k, l) = {b.reg["rbp"] + StackPhase("v")}
    BY <1>3 DEF Target
  <2>2. b.reg["rbp"] = 2040 /\ StackPhase("v") = Cell("v") - 2040 /\ Cell("v") \in 1936 .. 1984
    BY <1>3, FrameContents, FrameCells, NamesDiffer
  <2>3. b.reg["rbp"] + StackPhase("v") = Cell("v")
    BY <2>2
  <2> QED BY <1>3, <2>1, <2>3
<1>4. CASE k \notin {"Store", "StoreWide"} /\ ~(HasValue(k) /\ Spilled("v"))
  <2>1. Target(b, k, l) = {}
    BY <1>4 DEF Target
  <2> QED BY <1>4, <2>1
<1> QED BY <1>1, <1>2, <1>3, <1>4

LEMMA Fits ==
  ASSUME Housed, NEW cells, NEW b, Framed(b, cells), NEW k \in AllKinds, NEW l, NEW r, Suitable(b, k, l, r)
  PROVE  Fit(b, Usable(k), Open(b, k, l)) /\ (HasValue(k) => Taking(Usable(k), Open(b, k, l)))
<1> DEFINE T == Target(b, k, l)
           D == Open(b, k, l)
           U == Usable(k)
<1>1. /\ \A a \in T : a \in {1992, 2000, 2080, 2088} \/ (Spilled("v") /\ a = Cell("v"))
      /\ HasValue(k) /\ Spilled("v") => Cell("v") \in T
  BY TargetIs
<1>2. D = T \cup {a \in Cells : a < b.reg["rsp"]}
  BY DEF Open
<1>3. b \in Machines /\ b.reg["rbp"] = 2040 /\ b.reg["rsp"] = Stack - 40 + FrameSize
  BY FrameContents
<1>4. U = Scratch \/ U = Scratch \cup {home["v"]}
  BY DEF Usable
<1>5. /\ {"x", "y", "v"} = Values /\ "v" \in Nodes /\ Givens \cap (Scratch \cup Frame) = {}
      /\ Scratch \cap Frame = {} /\ NoName \notin Scratch /\ NoName \notin Frame /\ NoName \notin RegisterNames
      /\ Scratch \subseteq RegisterNames /\ Frame \subseteq RegisterNames
  BY NamesDiffer, NamesAre
<1>6. Scratch \subseteq U /\ U \cap Frame = {}
  <2>1. home["v"] \in Givens \cup {NoName}
    BY <1>5 DEF Housed
  <2> QED BY <1>4, <1>5, <2>1
<1>7. ASSUME NEW n \in {"x", "y"}, ~Spilled(n)
      PROVE  home[n] \notin U
  <2>1. home[n] \in Givens /\ home[n] # NoName
    BY <1>5, <1>7, Rooms
  <2>2. home[n] # home["v"]
    BY <1>5, <2>1 DEF Housed
  <2> QED BY <1>4, <1>5, <2>1, <2>2
<1>8. ASSUME NEW n \in Nodes \ {"v"}, Spilled(n)
      PROVE  Cell(n) \notin D
  <2>1. Cell(n) \in 1936 .. 1984 /\ Cell(n) > b.reg["rsp"] /\ b.reg["rsp"] \in Int
    BY <1>3, <1>8, FrameCells, FrameContents
  <2>2. Spilled("v") => Cell(n) # Cell("v")
    BY <1>5, <1>8, FrameCells
  <2>3. Cell(n) \notin T
    BY <1>1, <2>1, <2>2
  <2>4. ~(Cell(n) < b.reg["rsp"])
    BY <2>1
  <2> QED BY <1>2, <2>3, <2>4
<1>9. HasValue(k) => Taking(U, D)
  <2>1. HasValue(k) => home["v"] \in U
    BY DEF Usable
  <2> QED BY <1>1, <1>2, <2>1 DEF Taking
<1> HIDE DEF T, D, U
<1>10. Fit(b, U, D)
  BY <1>3, <1>6, <1>7, <1>8 DEF Fit
<1> QED BY <1>9, <1>10 DEF D, U

(* The frame is still there after an instruction.                          *)
LEMMA FrameStays ==
  ASSUME Housed, NEW b, Framed(b, {}), NEW k \in AllKinds, NEW l \in Nodes \ {"v"}, NEW r,
         Suitable(b, k, l, r), NEW p \in Machines, Spares(b, p, Usable(k), Open(b, k, l))
  PROVE  Framed(p, Target(p, k, l)) /\ Target(p, k, l) = Target(b, k, l)
<1> DEFINE T == Target(b, k, l)
           D == Open(b, k, l)
           U == Usable(k)
<1>1. \A a \in T : a \in {1992, 2000, 2080, 2088} \/ (Spilled("v") /\ a = Cell("v"))
  BY TargetIs
<1>2. D = T \cup {a \in Cells : a < b.reg["rsp"]}
  BY DEF Open
<1>3. Fit(b, U, D)
  BY Fits
<1>4. /\ b \in Machines /\ b.reg["rbp"] = 2040 /\ b.reg["rsp"] = Stack - 40 + FrameSize
      /\ b.reg["rsp"] \in {1904, 1912, 1920, 1928}
  BY FrameContents
<1>5. /\ p.reg["rbp"] = 2040 /\ p.reg["rsp"] = b.reg["rsp"]
      /\ \A n \in Nodes \ {"v"} : ContentOf(p, n) = ContentOf(b, n)
  BY <1>3, LeftAlone
<1>6. Target(p, k, l) = T
  BY <1>4, <1>5 DEF Target
<1>7. \A a \in Cells \ D : p.mem[a] = b.mem[a]
  BY DEF Spares
<1>8. /\ {2040, 2032, 2024, 2016, 2008} \subseteq Cells /\ Cell("a") = 1984 /\ Cell("b") = 1960
      /\ {1984, 1960} \subseteq Cells
  BY NamedCells, CellsAre
<1>9. Spilled("v") => Cell("v") \in 1936 .. 1984 /\ Cell("v") # 1984 /\ Cell("v") # 1960
  <2>1. {"a", "b", "v"} \subseteq Nodes /\ Spilled("a") /\ Spilled("b")
    BY NamesDiffer, Rooms
  <2> QED BY <1>8, <2>1, FrameCells
<1> HIDE DEF T, D, U
<1>10. \A a \in {2040, 2032, 2024, 2016, 2008, 1984, 1960} : a \in Cells \ D
  BY <1>1, <1>2, <1>4, <1>8, <1>9
<1>11. \A a \in Cells \ T : a >= 2048 => a \in Cells \ D
  <2> SUFFICES ASSUME NEW a \in Cells \ T, a >= 2048 PROVE ~(a < b.reg["rsp"])
    BY <1>2
  <2>1. a \in Int
    BY InCells
  <2> QED BY <1>4, <2>1
<1>12. Stack = 2048 /\ Stack - 8 = 2040
  BY DEF Stack
<1>13. /\ b.mem[Cell("a")] = Cell("a") + 8 /\ b.mem[Cell("b")] = Cell("b") + 8
       /\ b.mem[2040] = Caller(0, 0).reg["rbp"] /\ b.mem[2032] = Caller(0, 0).reg["r12"]
       /\ b.mem[2024] = Caller(0, 0).reg["r13"] /\ b.mem[2016] = Caller(0, 0).reg["r14"]
       /\ b.mem[2008] = Caller(0, 0).reg["r15"]
       /\ \A a \in Cells : a >= 2048 => b.mem[a] = a + 1
  BY <1>12 DEF Framed
<1>14. \A a \in Cells \ T : a >= Stack => p.mem[a] = a + 1
  BY <1>7, <1>11, <1>12, <1>13
<1>15. /\ p.mem[Cell("a")] = Cell("a") + 8 /\ p.mem[Cell("b")] = Cell("b") + 8
       /\ p.mem[2040] = Caller(0, 0).reg["rbp"] /\ p.mem[2032] = Caller(0, 0).reg["r12"]
       /\ p.mem[2024] = Caller(0, 0).reg["r13"] /\ p.mem[2016] = Caller(0, 0).reg["r14"]
       /\ p.mem[2008] = Caller(0, 0).reg["r15"]
  BY <1>7, <1>8, <1>10, <1>13
<1>16. p.reg["rbp"] = Stack - 8 /\ p.reg["rsp"] = Stack - 40 + FrameSize
  BY <1>4, <1>5, <1>12
<1>17. Framed(p, T)
  BY <1>14, <1>15, <1>16 DEF Framed
<1> QED BY <1>6, <1>17 DEF T

(***************************************************************************)
(* Each instruction does what it is to do.                                 *)
(***************************************************************************)
Does(b, k, l, r, U, D) ==
  \E p : /\ Brings(b, Text(ValueSteps(k, l, r)), p, U, D)
         /\ Computes(b, p, k, ContentOf(b, l), ContentOf(b, r))

ComputesAs(b, p, k, l, r) ==
  /\ k \notin {"Store", "StoreWide", "CondBr"} \cup DOMAIN Passed =>
       (Computes(b, p, k, l, r) <=> ContentOf(p, "v") = Meant(b, k, l, r))
  /\ k = "Store" => (Computes(b, p, k, l, r) <=> p.mem[l] = r)
  /\ k = "StoreWide" => (Computes(b, p, k, l, r) <=> \A i \in {0, 8} : p.mem[l + i] = b.mem[r + i])
  /\ k = "CondBr" => (Computes(b, p, k, l, r) <=> p.went = IF l # 0 THEN "then" ELSE "else")

LEMMA ComputesIs ==
  ASSUME NEW b, NEW p, NEW k \in AllKinds, NEW l, NEW r
  PROVE  ComputesAs(b, p, k, l, r)
<1>1. k \notin {"Store", "StoreWide", "CondBr"} \cup DOMAIN Passed =>
        (Computes(b, p, k, l, r) <=> ContentOf(p, "v") = Meant(b, k, l, r))
  BY KindsAre DEF Computes
<1>2. k = "Store" => (Computes(b, p, k, l, r) <=> p.mem[l] = r)
  BY KindsAre DEF Computes
<1>3. k = "StoreWide" => (Computes(b, p, k, l, r) <=> \A i \in {0, 8} : p.mem[l + i] = b.mem[r + i])
  BY KindsAre DEF Computes
<1>4. k = "CondBr" => (Computes(b, p, k, l, r) <=> p.went = IF l # 0 THEN "then" ELSE "else")
  BY KindsAre DEF Computes
<1> QED BY <1>1, <1>2, <1>3, <1>4 DEF ComputesAs

LEMMA DoesBinary ==
  ASSUME Housed, NEW b, NEW k \in AllKinds, NEW l \in Nodes \ {"v"}, NEW r \in Nodes \ {"v"},
         Suitable(b, k, l, r), NEW U, NEW D, Fit(b, U, D), Taking(U, D), k \in DOMAIN BinaryOps
  PROVE  Does(b, k, l, r, U, D)
<1>1. ContentOf(b, l) \in Words /\ ContentOf(b, r) \in Words /\ b \in Machines /\ b.reg["rbp"] = 2040
  <2>1. b \in Machines /\ b.reg["rbp"] = 2040
    BY DEF Fit
  <2> QED BY <2>1, ContentOfIs
<1> DEFINE op == BinaryOps[k]
<1>2. ValueSteps(k, l, r) = Binary(op, l, r)
  BY KindsAre DEF ValueSteps
<1>3. /\ l \in {"x", "y", "c"} /\ r \in {"x", "y", "c"}
      /\ op \in {"and", "or", "xor", "add", "sub", "shl", "shr"}
      /\ op \in {"shl", "shr"} => r = "c" /\ ContentOf(b, r) < Width
  BY KindsAre DEF Suitable, Sound
<1>4. Meant(b, k, ContentOf(b, l), ContentOf(b, r)) = Cut(Alu(op, ContentOf(b, l), ContentOf(b, r)))
  BY <1>1, MeantBinary DEF Suitable
<1> HIDE DEF op
<1>5. PICK p : /\ Brings(b, Text(Binary(op, l, r)), p, U, D)
               /\ ContentOf(p, "v") = Cut(Alu(op, ContentOf(b, l), ContentOf(b, r)))
  BY <1>3, BinaryRuns
<1>6. k \notin {"Store", "StoreWide", "CondBr"} \cup DOMAIN Passed
  BY KindsAre
<1>7. Computes(b, p, k, ContentOf(b, l), ContentOf(b, r))
  <2>1. ComputesAs(b, p, k, ContentOf(b, l), ContentOf(b, r))
    BY ComputesIs
  <2> QED BY <2>1, <1>4, <1>5, <1>6 DEF ComputesAs
<1> QED BY <1>2, <1>5, <1>7 DEF Does

LEMMA DoesBitwiseNot ==
  ASSUME Housed, NEW b, NEW k \in AllKinds, NEW l \in Nodes \ {"v"}, NEW r \in Nodes \ {"v"},
         Suitable(b, k, l, r), NEW U, NEW D, Fit(b, U, D), Taking(U, D), k = "BitwiseNot"
  PROVE  Does(b, k, l, r, U, D)
<1>1. ContentOf(b, l) \in Words /\ ContentOf(b, r) \in Words /\ b \in Machines /\ b.reg["rbp"] = 2040
  <2>1. b \in Machines /\ b.reg["rbp"] = 2040
    BY DEF Fit
  <2> QED BY <2>1, ContentOfIs
<1>2. ValueSteps(k, l, r) = Unary("not", r)
  BY KindsAre DEF ValueSteps
<1>3. r \in {"x", "y", "c"}
  BY KindsAre DEF Suitable
<1>4. PICK p : Brings(b, Text(Unary("not", r)), p, U, D) /\ ContentOf(p, "v") = Cut(-ContentOf(b, r) - 1)
  BY <1>3, UnaryRuns
<1>5. Meant(b, k, ContentOf(b, l), ContentOf(b, r)) = Cut(-ContentOf(b, r) - 1)
  <2>1. Means(b, k, ContentOf(b, l), ContentOf(b, r))
    BY <1>1, MeantOthers DEF Suitable
  <2> QED BY <2>1, KindsAre DEF Means
<1>6. k \notin {"Store", "StoreWide", "CondBr"} \cup DOMAIN Passed
  BY KindsAre
<1>7. Computes(b, p, k, ContentOf(b, l), ContentOf(b, r))
  <2>1. ComputesAs(b, p, k, ContentOf(b, l), ContentOf(b, r))
    BY ComputesIs
  <2> QED BY <2>1, <1>4, <1>5, <1>6 DEF ComputesAs
<1> QED BY <1>2, <1>4, <1>7 DEF Does

LEMMA DoesMinus ==
  ASSUME Housed, NEW b, NEW k \in AllKinds, NEW l \in Nodes \ {"v"}, NEW r \in Nodes \ {"v"},
         Suitable(b, k, l, r), NEW U, NEW D, Fit(b, U, D), Taking(U, D), k = "Minus"
  PROVE  Does(b, k, l, r, U, D)
<1>1. ContentOf(b, l) \in Words /\ ContentOf(b, r) \in Words /\ b \in Machines /\ b.reg["rbp"] = 2040
  <2>1. b \in Machines /\ b.reg["rbp"] = 2040
    BY DEF Fit
  <2> QED BY <2>1, ContentOfIs
<1>2. ValueSteps(k, l, r) = Unary("neg", r)
  BY KindsAre DEF ValueSteps
<1>3. r \in {"x", "y", "c"}
  BY KindsAre DEF Suitable
<1>4. PICK p : Brings(b, Text(Unary("neg", r)), p, U, D) /\ ContentOf(p, "v") = Cut(-ContentOf(b, r))
  BY <1>3, UnaryRuns
<1>5. Meant(b, k, ContentOf(b, l), ContentOf(b, r)) = Cut(-ContentOf(b, r))
  <2>1. Means(b, k, ContentOf(b, l), ContentOf(b, r))
    BY <1>1, MeantOthers DEF Suitable
  <2> QED BY <2>1, KindsAre DEF Means
<1>6. k \notin {"Store", "StoreWide", "CondBr"} \cup DOMAIN Passed
  BY KindsAre
<1>7. Computes(b, p, k, ContentOf(b, l), ContentOf(b, r))
  <2>1. ComputesAs(b, p, k, ContentOf(b, l), ContentOf(b, r))
    BY ComputesIs
  <2> QED BY <2>1, <1>4, <1>5, <1>6 DEF ComputesAs
<1> QED BY <1>2, <1>4, <1>7 DEF Does

LEMMA DoesMultiplication ==
  ASSUME Housed, NEW b, NEW k \in AllKinds, NEW l \in Nodes \ {"v"}, NEW r \in Nodes \ {"v"},
         Suitable(b, k, l, r), NEW U, NEW D, Fit(b, U, D), Taking(U, D), k = "Multiplication"
  PROVE  Does(b, k, l, r, U, D)
<1>1. ContentOf(b, l) \in Words /\ ContentOf(b, r) \in Words /\ b \in Machines /\ b.reg["rbp"] = 2040
  <2>1. b \in Machines /\ b.reg["rbp"] = 2040
    BY DEF Fit
  <2> QED BY <2>1, ContentOfIs
<1>2. ValueSteps(k, l, r) = Multiplication(l, r)
  BY KindsAre DEF ValueSteps
<1>3. l \in {"x", "y", "c"} /\ r \in {"x", "y", "c"}
  BY KindsAre DEF Suitable
<1>4. PICK p : Brings(b, Text(Multiplication(l, r)), p, U, D) /\ ContentOf(p, "v") = Cut(ContentOf(b, l) * ContentOf(b, r))
  BY <1>3, MultiplicationRuns
<1>5. Meant(b, k, ContentOf(b, l), ContentOf(b, r)) = Cut(ContentOf(b, l) * ContentOf(b, r))
  <2>1. Means(b, k, ContentOf(b, l), ContentOf(b, r))
    BY <1>1, MeantOthers DEF Suitable
  <2> QED BY <2>1, KindsAre DEF Means
<1>6. k \notin {"Store", "StoreWide", "CondBr"} \cup DOMAIN Passed
  BY KindsAre
<1>7. Computes(b, p, k, ContentOf(b, l), ContentOf(b, r))
  <2>1. ComputesAs(b, p, k, ContentOf(b, l), ContentOf(b, r))
    BY ComputesIs
  <2> QED BY <2>1, <1>4, <1>5, <1>6 DEF ComputesAs
<1> QED BY <1>2, <1>4, <1>7 DEF Does

LEMMA DoesDivision ==
  ASSUME Housed, NEW b, NEW k \in AllKinds, NEW l \in Nodes \ {"v"}, NEW r \in Nodes \ {"v"},
         Suitable(b, k, l, r), NEW U, NEW D, Fit(b, U, D), Taking(U, D), k = "Division"
  PROVE  Does(b, k, l, r, U, D)
<1>1. ContentOf(b, l) \in Words /\ ContentOf(b, r) \in Words /\ b \in Machines /\ b.reg["rbp"] = 2040
  <2>1. b \in Machines /\ b.reg["rbp"] = 2040
    BY DEF Fit
  <2> QED BY <2>1, ContentOfIs
<1>2. ValueSteps(k, l, r) = Quotient("rax", l, r)
  BY KindsAre DEF ValueSteps
<1>3. l \in {"x", "y", "c"} /\ r \in {"x", "y", "c"}
  BY KindsAre DEF Suitable
<1>4. PICK p : Brings(b, Text(Quotient("rax", l, r)), p, U, D) /\ ContentOf(p, "v") = ContentOf(b, l) \div ContentOf(b, r)
  BY <1>3, QuotientRuns DEF Suitable, Sound
<1>5. Meant(b, k, ContentOf(b, l), ContentOf(b, r)) = ContentOf(b, l) \div ContentOf(b, r)
  <2>1. Means(b, k, ContentOf(b, l), ContentOf(b, r))
    BY <1>1, MeantOthers DEF Suitable
  <2> QED BY <2>1, KindsAre DEF Means
<1>6. k \notin {"Store", "StoreWide", "CondBr"} \cup DOMAIN Passed
  BY KindsAre
<1>7. Computes(b, p, k, ContentOf(b, l), ContentOf(b, r))
  <2>1. ComputesAs(b, p, k, ContentOf(b, l), ContentOf(b, r))
    BY ComputesIs
  <2> QED BY <2>1, <1>4, <1>5, <1>6 DEF ComputesAs
<1> QED BY <1>2, <1>4, <1>7 DEF Does

LEMMA DoesModulo ==
  ASSUME Housed, NEW b, NEW k \in AllKinds, NEW l \in Nodes \ {"v"}, NEW r \in Nodes \ {"v"},
         Suitable(b, k, l, r), NEW U, NEW D, Fit(b, U, D), Taking(U, D), k = "Modulo"
  PROVE  Does(b, k, l, r, U, D)
<1>1. ContentOf(b, l) \in Words /\ ContentOf(b, r) \in Words /\ b \in Machines /\ b.reg["rbp"] = 2040
  <2>1. b \in Machines /\ b.reg["rbp"] = 2040
    BY DEF Fit
  <2> QED BY <2>1, ContentOfIs
<1>2. ValueSteps(k, l, r) = Quotient("rdx", l, r)
  BY KindsAre DEF ValueSteps
<1>3. l \in {"x", "y", "c"} /\ r \in {"x", "y", "c"}
  BY KindsAre DEF Suitable
<1>4. PICK p : Brings(b, Text(Quotient("rdx", l, r)), p, U, D) /\ ContentOf(p, "v") = ContentOf(b, l) % ContentOf(b, r)
  BY <1>3, QuotientRuns DEF Suitable, Sound
<1>5. Meant(b, k, ContentOf(b, l), ContentOf(b, r)) = ContentOf(b, l) % ContentOf(b, r)
  <2>1. Means(b, k, ContentOf(b, l), ContentOf(b, r))
    BY <1>1, MeantOthers DEF Suitable
  <2> QED BY <2>1, KindsAre DEF Means
<1>6. k \notin {"Store", "StoreWide", "CondBr"} \cup DOMAIN Passed
  BY KindsAre
<1>7. Computes(b, p, k, ContentOf(b, l), ContentOf(b, r))
  <2>1. ComputesAs(b, p, k, ContentOf(b, l), ContentOf(b, r))
    BY ComputesIs
  <2> QED BY <2>1, <1>4, <1>5, <1>6 DEF ComputesAs
<1> QED BY <1>2, <1>4, <1>7 DEF Does

LEMMA DoesAnd ==
  ASSUME Housed, NEW b, NEW k \in AllKinds, NEW l \in Nodes \ {"v"}, NEW r \in Nodes \ {"v"},
         Suitable(b, k, l, r), NEW U, NEW D, Fit(b, U, D), Taking(U, D), k = "And"
  PROVE  Does(b, k, l, r, U, D)
<1>1. ContentOf(b, l) \in Words /\ ContentOf(b, r) \in Words /\ b \in Machines /\ b.reg["rbp"] = 2040
  <2>1. b \in Machines /\ b.reg["rbp"] = 2040
    BY DEF Fit
  <2> QED BY <2>1, ContentOfIs
<1>2. ValueSteps(k, l, r) = Logical("and", l, r)
  BY KindsAre DEF ValueSteps
<1>3. l \in {"x", "y", "c"} /\ r \in {"x", "y", "c"}
  BY KindsAre DEF Suitable
<1>4. PICK p : Brings(b, Text(Logical("and", l, r)), p, U, D) /\ ContentOf(p, "v") = Truth(ContentOf(b, l) # 0 /\ ContentOf(b, r) # 0)
  BY <1>3, LogicalRuns
<1>5. Meant(b, k, ContentOf(b, l), ContentOf(b, r)) = Truth(ContentOf(b, l) # 0 /\ ContentOf(b, r) # 0)
  <2>1. Means(b, k, ContentOf(b, l), ContentOf(b, r))
    BY <1>1, MeantOthers DEF Suitable
  <2> QED BY <2>1, KindsAre DEF Means
<1>6. k \notin {"Store", "StoreWide", "CondBr"} \cup DOMAIN Passed
  BY KindsAre
<1>7. Computes(b, p, k, ContentOf(b, l), ContentOf(b, r))
  <2>1. ComputesAs(b, p, k, ContentOf(b, l), ContentOf(b, r))
    BY ComputesIs
  <2> QED BY <2>1, <1>4, <1>5, <1>6 DEF ComputesAs
<1> QED BY <1>2, <1>4, <1>7 DEF Does

LEMMA DoesOr ==
  ASSUME Housed, NEW b, NEW k \in AllKinds, NEW l \in Nodes \ {"v"}, NEW r \in Nodes \ {"v"},
         Suitable(b, k, l, r), NEW U, NEW D, Fit(b, U, D), Taking(U, D), k = "Or"
  PROVE  Does(b, k, l, r, U, D)
<1>1. ContentOf(b, l) \in Words /\ ContentOf(b, r) \in Words /\ b \in Machines /\ b.reg["rbp"] = 2040
  <2>1. b \in Machines /\ b.reg["rbp"] = 2040
    BY DEF Fit
  <2> QED BY <2>1, ContentOfIs
<1>2. ValueSteps(k, l, r) = Logical("or", l, r)
  BY KindsAre DEF ValueSteps
<1>3. l \in {"x", "y", "c"} /\ r \in {"x", "y", "c"}
  BY KindsAre DEF Suitable
<1>4. PICK p : Brings(b, Text(Logical("or", l, r)), p, U, D) /\ ContentOf(p, "v") = Truth(ContentOf(b, l) # 0 \/ ContentOf(b, r) # 0)
  BY <1>3, LogicalRuns
<1>5. Meant(b, k, ContentOf(b, l), ContentOf(b, r)) = Truth(ContentOf(b, l) # 0 \/ ContentOf(b, r) # 0)
  <2>1. Means(b, k, ContentOf(b, l), ContentOf(b, r))
    BY <1>1, MeantOthers DEF Suitable
  <2> QED BY <2>1, KindsAre DEF Means
<1>6. k \notin {"Store", "StoreWide", "CondBr"} \cup DOMAIN Passed
  BY KindsAre
<1>7. Computes(b, p, k, ContentOf(b, l), ContentOf(b, r))
  <2>1. ComputesAs(b, p, k, ContentOf(b, l), ContentOf(b, r))
    BY ComputesIs
  <2> QED BY <2>1, <1>4, <1>5, <1>6 DEF ComputesAs
<1> QED BY <1>2, <1>4, <1>7 DEF Does

LEMMA DoesNot ==
  ASSUME Housed, NEW b, NEW k \in AllKinds, NEW l \in Nodes \ {"v"}, NEW r \in Nodes \ {"v"},
         Suitable(b, k, l, r), NEW U, NEW D, Fit(b, U, D), Taking(U, D), k = "Not"
  PROVE  Does(b, k, l, r, U, D)
<1>1. ContentOf(b, l) \in Words /\ ContentOf(b, r) \in Words /\ b \in Machines /\ b.reg["rbp"] = 2040
  <2>1. b \in Machines /\ b.reg["rbp"] = 2040
    BY DEF Fit
  <2> QED BY <2>1, ContentOfIs
<1>2. ValueSteps(k, l, r) = Not(r)
  BY KindsAre DEF ValueSteps
<1>3. r \in {"x", "y", "c"}
  BY KindsAre DEF Suitable
<1>4. PICK p : Brings(b, Text(Not(r)), p, U, D) /\ ContentOf(p, "v") = Truth(ContentOf(b, r) = 0)
  BY <1>3, NotRuns
<1>5. Meant(b, k, ContentOf(b, l), ContentOf(b, r)) = Truth(ContentOf(b, r) = 0)
  <2>1. Means(b, k, ContentOf(b, l), ContentOf(b, r))
    BY <1>1, MeantOthers DEF Suitable
  <2> QED BY <2>1, KindsAre DEF Means
<1>6. k \notin {"Store", "StoreWide", "CondBr"} \cup DOMAIN Passed
  BY KindsAre
<1>7. Computes(b, p, k, ContentOf(b, l), ContentOf(b, r))
  <2>1. ComputesAs(b, p, k, ContentOf(b, l), ContentOf(b, r))
    BY ComputesIs
  <2> QED BY <2>1, <1>4, <1>5, <1>6 DEF ComputesAs
<1> QED BY <1>2, <1>4, <1>7 DEF Does

LEMMA DoesSgep ==
  ASSUME Housed, NEW b, NEW k \in AllKinds, NEW l \in Nodes \ {"v"}, NEW r \in Nodes \ {"v"},
         Suitable(b, k, l, r), NEW U, NEW D, Fit(b, U, D), Taking(U, D), k = "SGEP"
  PROVE  Does(b, k, l, r, U, D)
<1>1. ContentOf(b, l) \in Words /\ ContentOf(b, r) \in Words /\ b \in Machines /\ b.reg["rbp"] = 2040
  <2>1. b \in Machines /\ b.reg["rbp"] = 2040
    BY DEF Fit
  <2> QED BY <2>1, ContentOfIs
<1>2. ValueSteps(k, l, r) = Sgep(l)
  BY KindsAre DEF ValueSteps
<1>3. l \in {"x", "a"}
  BY KindsAre DEF Suitable
<1>4. PICK p : Brings(b, Text(Sgep(l)), p, U, D) /\ ContentOf(p, "v") = Cut(ContentOf(b, l) + FieldPhase)
  BY <1>3, SgepRuns
<1>5. Meant(b, k, ContentOf(b, l), ContentOf(b, r)) = Cut(ContentOf(b, l) + FieldPhase)
  <2>1. Means(b, k, ContentOf(b, l), ContentOf(b, r))
    BY <1>1, MeantOthers DEF Suitable
  <2> QED BY <2>1, KindsAre DEF Means
<1>6. k \notin {"Store", "StoreWide", "CondBr"} \cup DOMAIN Passed
  BY KindsAre
<1>7. Computes(b, p, k, ContentOf(b, l), ContentOf(b, r))
  <2>1. ComputesAs(b, p, k, ContentOf(b, l), ContentOf(b, r))
    BY ComputesIs
  <2> QED BY <2>1, <1>4, <1>5, <1>6 DEF ComputesAs
<1> QED BY <1>2, <1>4, <1>7 DEF Does

LEMMA DoesGep8 ==
  ASSUME Housed, NEW b, NEW k \in AllKinds, NEW l \in Nodes \ {"v"}, NEW r \in Nodes \ {"v"},
         Suitable(b, k, l, r), NEW U, NEW D, Fit(b, U, D), Taking(U, D), k = "GEP8"
  PROVE  Does(b, k, l, r, U, D)
<1>1. ContentOf(b, l) \in Words /\ ContentOf(b, r) \in Words /\ b \in Machines /\ b.reg["rbp"] = 2040
  <2>1. b \in Machines /\ b.reg["rbp"] = 2040
    BY DEF Fit
  <2> QED BY <2>1, ContentOfIs
<1>2. ValueSteps(k, l, r) = Gep(8, l, r)
  BY KindsAre DEF ValueSteps, GepSizes
<1>3. l \in {"x", "a"} /\ r \in {"y", "c"}
  BY KindsAre DEF Suitable
<1>4. PICK p : Brings(b, Text(Gep(8, l, r)), p, U, D) /\ ContentOf(p, "v") = Cut(ContentOf(b, l) + (ContentOf(b, r) * 8))
  BY <1>3, ScaledGepRuns
<1>5. Meant(b, k, ContentOf(b, l), ContentOf(b, r)) = Cut(ContentOf(b, l) + (ContentOf(b, r) * 8))
  <2>1. Means(b, k, ContentOf(b, l), ContentOf(b, r))
    BY <1>1, MeantOthers DEF Suitable
  <2> QED BY <2>1, KindsAre DEF Means, GepSizes
<1>6. k \notin {"Store", "StoreWide", "CondBr"} \cup DOMAIN Passed
  BY KindsAre
<1>7. Computes(b, p, k, ContentOf(b, l), ContentOf(b, r))
  <2>1. ComputesAs(b, p, k, ContentOf(b, l), ContentOf(b, r))
    BY ComputesIs
  <2> QED BY <2>1, <1>4, <1>5, <1>6 DEF ComputesAs
<1> QED BY <1>2, <1>4, <1>7 DEF Does

LEMMA DoesGep24 ==
  ASSUME Housed, NEW b, NEW k \in AllKinds, NEW l \in Nodes \ {"v"}, NEW r \in Nodes \ {"v"},
         Suitable(b, k, l, r), NEW U, NEW D, Fit(b, U, D), Taking(U, D), k = "GEP24"
  PROVE  Does(b, k, l, r, U, D)
<1>1. ContentOf(b, l) \in Words /\ ContentOf(b, r) \in Words /\ b \in Machines /\ b.reg["rbp"] = 2040
  <2>1. b \in Machines /\ b.reg["rbp"] = 2040
    BY DEF Fit
  <2> QED BY <2>1, ContentOfIs
<1>2. ValueSteps(k, l, r) = Gep(24, l, r)
  BY KindsAre DEF ValueSteps, GepSizes
<1>3. l \in {"x", "a"} /\ r \in {"y", "c"}
  BY KindsAre DEF Suitable
<1>4. PICK p : Brings(b, Text(Gep(24, l, r)), p, U, D) /\ ContentOf(p, "v") = Cut(ContentOf(b, l) + (ContentOf(b, r) * 24))
  BY <1>3, MultipliedGepRuns
<1>5. Meant(b, k, ContentOf(b, l), ContentOf(b, r)) = Cut(ContentOf(b, l) + (ContentOf(b, r) * 24))
  <2>1. Means(b, k, ContentOf(b, l), ContentOf(b, r))
    BY <1>1, MeantOthers DEF Suitable
  <2> QED BY <2>1, KindsAre DEF Means, GepSizes
<1>6. k \notin {"Store", "StoreWide", "CondBr"} \cup DOMAIN Passed
  BY KindsAre
<1>7. Computes(b, p, k, ContentOf(b, l), ContentOf(b, r))
  <2>1. ComputesAs(b, p, k, ContentOf(b, l), ContentOf(b, r))
    BY ComputesIs
  <2> QED BY <2>1, <1>4, <1>5, <1>6 DEF ComputesAs
<1> QED BY <1>2, <1>4, <1>7 DEF Does

LEMMA DoesLoad ==
  ASSUME Housed, NEW b, NEW k \in AllKinds, NEW l \in Nodes \ {"v"}, NEW r \in Nodes \ {"v"},
         Suitable(b, k, l, r), NEW U, NEW D, Fit(b, U, D), Taking(U, D), k = "Load"
  PROVE  Does(b, k, l, r, U, D)
<1>1. ContentOf(b, l) \in Words /\ ContentOf(b, r) \in Words /\ b \in Machines /\ b.reg["rbp"] = 2040
  <2>1. b \in Machines /\ b.reg["rbp"] = 2040
    BY DEF Fit
  <2> QED BY <2>1, ContentOfIs
<1>2. ValueSteps(k, l, r) = Load(l)
  BY KindsAre DEF ValueSteps
<1>3. l \in {"x", "a"}
  BY KindsAre DEF Suitable
<1>8. ContentOf(b, l) \in Cells
  BY NamedCells DEF Suitable
<1>4. PICK p : Brings(b, Text(Load(l)), p, U, D) /\ ContentOf(p, "v") = b.mem[ContentOf(b, l)]
  BY <1>3, <1>8, LoadRuns
<1>5. Meant(b, k, ContentOf(b, l), ContentOf(b, r)) = b.mem[ContentOf(b, l)]
  <2>1. Means(b, k, ContentOf(b, l), ContentOf(b, r))
    BY <1>1, MeantOthers DEF Suitable
  <2> QED BY <2>1, KindsAre DEF Means
<1>6. k \notin {"Store", "StoreWide", "CondBr"} \cup DOMAIN Passed
  BY KindsAre
<1>7. Computes(b, p, k, ContentOf(b, l), ContentOf(b, r))
  <2>1. ComputesAs(b, p, k, ContentOf(b, l), ContentOf(b, r))
    BY ComputesIs
  <2> QED BY <2>1, <1>4, <1>5, <1>6 DEF ComputesAs
<1> QED BY <1>2, <1>4, <1>7 DEF Does

LEMMA DoesComparison ==
  ASSUME Housed, NEW b, NEW k \in AllKinds, NEW l \in Nodes \ {"v"}, NEW r \in Nodes \ {"v"},
         Suitable(b, k, l, r), NEW U, NEW D, Fit(b, U, D), Taking(U, D), k \in DOMAIN SetOps
  PROVE  Does(b, k, l, r, U, D)
<1>1. ContentOf(b, l) \in Words /\ ContentOf(b, r) \in Words /\ b \in Machines /\ b.reg["rbp"] = 2040
  <2>1. b \in Machines /\ b.reg["rbp"] = 2040
    BY DEF Fit
  <2> QED BY <2>1, ContentOfIs
<1> DEFINE set == SetOps[k]
<1>2. ValueSteps(k, l, r) = Comparison(set, l, r)
  BY KindsAre DEF ValueSteps
<1>3. l \in {"x", "y", "c"} /\ r \in {"x", "y", "c"} /\ set \in SetNames
  BY KindsAre DEF Suitable
<1>4. Meant(b, k, ContentOf(b, l), ContentOf(b, r)) = Truth(Holds(Conditions[set], ContentOf(b, l), ContentOf(b, r)))
  <2>1. Means(b, k, ContentOf(b, l), ContentOf(b, r))
    BY <1>1, MeantOthers DEF Suitable
  <2> QED BY <2>1 DEF Means
<1> HIDE DEF set
<1>5. PICK p : /\ Brings(b, Text(Comparison(set, l, r)), p, U, D)
               /\ ContentOf(p, "v") = Truth(Holds(Conditions[set], ContentOf(b, l), ContentOf(b, r)))
  BY <1>3, ComparisonRuns
<1>6. k \notin {"Store", "StoreWide", "CondBr"} \cup DOMAIN Passed
  BY KindsAre
<1>7. Computes(b, p, k, ContentOf(b, l), ContentOf(b, r))
  <2>1. ComputesAs(b, p, k, ContentOf(b, l), ContentOf(b, r))
    BY ComputesIs
  <2> QED BY <2>1, <1>4, <1>5, <1>6 DEF ComputesAs
<1> QED BY <1>2, <1>5, <1>7 DEF Does

LEMMA DoesBr ==
  ASSUME Housed, NEW b, NEW k \in AllKinds, NEW l \in Nodes \ {"v"}, NEW r \in Nodes \ {"v"},
         Suitable(b, k, l, r), NEW U, NEW D, Fit(b, U, D), Taking(U, D), k = "Br"
  PROVE  Does(b, k, l, r, U, D)
<1>1. ContentOf(b, l) \in Words /\ ContentOf(b, r) \in Words /\ b \in Machines /\ b.reg["rbp"] = 2040
  <2>1. b \in Machines /\ b.reg["rbp"] = 2040
    BY DEF Fit
  <2> QED BY <2>1, ContentOfIs
<1>2. ValueSteps(k, l, r) = Br(l)
  BY KindsAre DEF ValueSteps
<1>3. l \in {"x", "y", "c"}
  BY DEF Suitable
<1>4. PICK p : Brings(b, Text(Br(l)), p, U, D) /\ ContentOf(p, "v") = ContentOf(b, l)
  <2>1. CASE Spilled("v") /\ Spilled(l)
    BY <1>3, <2>1, BrSpilledRuns
  <2>2. CASE ~(Spilled("v") /\ Spilled(l))
    BY <1>3, <2>2, BrMovedRuns
  <2> QED BY <2>1, <2>2
<1>5. Meant(b, k, ContentOf(b, l), ContentOf(b, r)) = ContentOf(b, l)
  <2>1. Means(b, k, ContentOf(b, l), ContentOf(b, r))
    BY <1>1, MeantOthers DEF Suitable
  <2> QED BY <2>1 DEF Means
<1>6. k \notin {"Store", "StoreWide", "CondBr"} \cup DOMAIN Passed
  BY KindsAre
<1>7. Computes(b, p, k, ContentOf(b, l), ContentOf(b, r))
  <2>1. ComputesAs(b, p, k, ContentOf(b, l), ContentOf(b, r))
    BY ComputesIs
  <2> QED BY <2>1, <1>4, <1>5, <1>6 DEF ComputesAs
<1> QED BY <1>2, <1>4, <1>7 DEF Does

LEMMA DoesCondBr ==
  ASSUME Housed, NEW b, NEW k \in AllKinds, NEW l \in Nodes \ {"v"}, NEW r \in Nodes \ {"v"},
         Suitable(b, k, l, r), NEW U, NEW D, Fit(b, U, D), b.went = "ahead", k = "CondBr"
  PROVE  Does(b, k, l, r, U, D)
<1>1. ContentOf(b, l) \in Words /\ ContentOf(b, r) \in Words /\ b \in Machines /\ b.reg["rbp"] = 2040
  <2>1. b \in Machines /\ b.reg["rbp"] = 2040
    BY DEF Fit
  <2> QED BY <2>1, ContentOfIs
<1>2. ValueSteps(k, l, r) = CondBr(l)
  BY KindsAre DEF ValueSteps
<1>3. l \in {"x", "y", "c"}
  BY DEF Suitable
<1>4. PICK p : /\ Brings(b, Text(CondBr(l)), p, U, D)
               /\ p.went = IF ContentOf(b, l) # 0 THEN "then" ELSE "else"
  <2>1. CASE l = "c"
    BY <2>1, CondBrNumberRuns
  <2>2. CASE l \in {"x", "y"}
    BY <2>2, CondBrRuns
  <2> QED BY <1>3, <2>1, <2>2
<1>5. Computes(b, p, k, ContentOf(b, l), ContentOf(b, r))
  <2>1. ComputesAs(b, p, k, ContentOf(b, l), ContentOf(b, r))
    BY ComputesIs
  <2> QED BY <2>1, <1>4 DEF ComputesAs
<1> QED BY <1>2, <1>4, <1>5 DEF Does

LEMMA DoesStore ==
  ASSUME Housed, NEW b, NEW k \in AllKinds, NEW l \in Nodes \ {"v"}, NEW r \in Nodes \ {"v"},
         Suitable(b, k, l, r), NEW U, NEW D, Fit(b, U, D), k = "Store", ContentOf(b, l) \in D
  PROVE  Does(b, k, l, r, U, D)
<1>1. ContentOf(b, l) \in Words /\ ContentOf(b, r) \in Words /\ b \in Machines /\ b.reg["rbp"] = 2040
  <2>1. b \in Machines /\ b.reg["rbp"] = 2040
    BY DEF Fit
  <2> QED BY <2>1, ContentOfIs
<1>2. ValueSteps(k, l, r) = Store(l, r)
  BY KindsAre DEF ValueSteps
<1>3. l \in {"x", "a"} /\ r \in {"x", "y", "c"} /\ ContentOf(b, l) \in Cells \cap D
  BY NamedCells DEF Suitable
<1>4. PICK p : Brings(b, Text(Store(l, r)), p, U, D) /\ p.mem[ContentOf(b, l)] = ContentOf(b, r)
  BY <1>3, StoreRuns
<1>5. Computes(b, p, k, ContentOf(b, l), ContentOf(b, r))
  <2>1. ComputesAs(b, p, k, ContentOf(b, l), ContentOf(b, r))
    BY ComputesIs
  <2> QED BY <2>1, <1>4 DEF ComputesAs
<1> QED BY <1>2, <1>4, <1>5 DEF Does

LEMMA DoesStoreWide ==
  ASSUME Housed, NEW b, NEW k \in AllKinds, NEW l \in Nodes \ {"v"}, NEW r \in Nodes \ {"v"},
         Suitable(b, k, l, r), NEW U, NEW D, Fit(b, U, D), k = "StoreWide",
         ContentOf(b, l) \in D, ContentOf(b, l) + 8 \in D, ContentOf(b, "b") = 1968
  PROVE  Does(b, k, l, r, U, D)
<1>1. ContentOf(b, l) \in Words /\ ContentOf(b, r) \in Words /\ b \in Machines /\ b.reg["rbp"] = 2040
  <2>1. b \in Machines /\ b.reg["rbp"] = 2040
    BY DEF Fit
  <2> QED BY <2>1, ContentOfIs
<1>2. ValueSteps(k, l, r) = StoreWide(l, "b") /\ r = "b"
  BY KindsAre DEF ValueSteps, Suitable
<1>3. l \in {"x", "a"} /\ Spilled(l) /\ ContentOf(b, l) \in {1992, 2080}
  BY DEF Suitable
<1>4. ContentOf(b, l) \in Cells \cap D /\ ContentOf(b, l) + 8 \in Cells \cap D
  <2>1. 1992 \in Cells /\ 2080 \in Cells /\ 1992 + 8 \in Cells /\ 2080 + 8 \in Cells
    BY NamedCells
  <2> QED BY <1>3, <2>1
<1>5. ContentOf(b, "b") \in Cells /\ ContentOf(b, "b") + 8 \in Cells
  <2>1. 1968 \in Cells /\ 1968 + 8 \in Cells
    BY NamedCells
  <2> QED BY <2>1
<1>6. PICK p : /\ Brings(b, Text(StoreWide(l, "b")), p, U, D)
               /\ p.mem[ContentOf(b, l)] = b.mem[ContentOf(b, "b")]
               /\ p.mem[ContentOf(b, l) + 8] = b.mem[ContentOf(b, "b") + 8]
  BY <1>3, <1>4, <1>5, StoreWideRuns
<1>7. Computes(b, p, k, ContentOf(b, l), ContentOf(b, r))
  <2>1. \A i \in {0, 8} : p.mem[ContentOf(b, l) + i] = b.mem[ContentOf(b, r) + i]
    <3> DEFINE n == ContentOf(b, l)
               o == ContentOf(b, "b")
    <3>1. n \in Int /\ o \in Int /\ p.mem[n] = b.mem[o] /\ p.mem[n + 8] = b.mem[o + 8]
      BY <1>3, <1>6
    <3> HIDE DEF n, o
    <3>2. n + 0 = n /\ o + 0 = o
      BY <3>1
    <3>3. \A i \in {0, 8} : p.mem[n + i] = b.mem[o + i]
      BY <3>1, <3>2
    <3> QED BY <1>2, <3>3 DEF n, o
  <2>2. ComputesAs(b, p, k, ContentOf(b, l), ContentOf(b, r))
    BY ComputesIs
  <2> QED BY <2>1, <2>2 DEF ComputesAs
<1> QED BY <1>2, <1>6, <1>7 DEF Does

LEMMA DoesCall2 ==
  ASSUME Housed, NEW b, NEW k \in AllKinds, NEW l \in Nodes \ {"v"}, NEW r \in Nodes \ {"v"},
         Suitable(b, k, l, r), NEW U, NEW D, Fit(b, U, D), Taking(U, D), k = "Call2",
         b.reg["rsp"] \in {1904, 1912, 1920, 1928}, \A a \in Cells : a < b.reg["rsp"] => a \in D
  PROVE  Does(b, k, l, r, U, D)
<1>1. ContentOf(b, l) \in Words /\ ContentOf(b, r) \in Words /\ b \in Machines /\ b.reg["rbp"] = 2040
  <2>1. b \in Machines /\ b.reg["rbp"] = 2040
    BY DEF Fit
  <2> QED BY <2>1, ContentOfIs
<1>2. ValueSteps(k, l, r) = Call(l, Passed[k]) /\ Passed[k] = <<"y", "x">>
  BY KindsAre DEF ValueSteps, Passed
<1>3. l \in {"f", "y"} /\ ContentOf(b, l) = Function
  BY KindsAre DEF Suitable
<1> DEFINE a == b.reg["rsp"] - 32
<1>4. b.reg["rsp"] = a + 32 /\ {a, a + 8, a + 16, a + 24} \subseteq Cells \cap D
  <2>1. a \in {1872, 1880, 1888, 1896} /\ b.reg["rsp"] = a + 32
    OBVIOUS
  <2> HIDE DEF a
  <2>2. \A n \in {a, a + 8, a + 16, a + 24} : n < b.reg["rsp"] /\ n \in Cells
    <3>1. \A n \in {a, a + 8, a + 16, a + 24} :
             n \in {1872, 1880, 1888, 1896, 1904, 1912, 1920} /\ n < b.reg["rsp"]
      BY <2>1
    <3>2. \A n \in {1872, 1880, 1888, 1896, 1904, 1912, 1920} : n \in Cells
      BY NamedCells
    <3> QED BY <3>1, <3>2
  <2> QED BY <2>1, <2>2
<1> HIDE DEF a
<1> DEFINE sent == Cut(ContentOf(b, "y") + (2 * ContentOf(b, "x")) + (4 * b.reg["rdx"]) + (8 * b.reg["rcx"]) + 1)
<1>5. PICK p : /\ Brings(b, Text(Call(l, <<"y", "x">>)), p, U, D) /\ p.went = "called"
               /\ ContentOf(p, "v") = sent
  BY <1>3, <1>4, Call2Runs
<1>6. Computes(b, p, k, ContentOf(b, l), ContentOf(b, r))
  <2>1. Computes(b, p, k, ContentOf(b, l), ContentOf(b, r)) <=>
          /\ p.went = "called"
          /\ ContentOf(p, "v") = Cut(Sent(b, k, 1) + (2 * Sent(b, k, 2)) + (4 * Sent(b, k, 3))
                                       + (8 * Sent(b, k, 4)) + 1)
    BY KindsAre DEF Computes
  <2>2. /\ Sent(b, k, 1) = ContentOf(b, "y") /\ Sent(b, k, 2) = ContentOf(b, "x")
        /\ Sent(b, k, 3) = b.reg["rdx"] /\ Sent(b, k, 4) = b.reg["rcx"]
    <3>1. DOMAIN Passed[k] = {1, 2} /\ Passed[k][1] = "y" /\ Passed[k][2] = "x"
      BY <1>2
    <3>2. CallRegs[3] = "rdx" /\ CallRegs[4] = "rcx"
      BY DEF CallRegs
    <3> QED BY <3>1, <3>2 DEF Sent
  <2>3. Cut(Sent(b, k, 1) + (2 * Sent(b, k, 2)) + (4 * Sent(b, k, 3)) + (8 * Sent(b, k, 4)) + 1) = sent
    BY <2>2
  <2> HIDE DEF sent
  <2> QED BY <1>5, <2>1, <2>3
<1> QED BY <1>2, <1>5, <1>6 DEF Does

LEMMA DoesCall4 ==
  ASSUME Housed, NEW b, NEW k \in AllKinds, NEW l \in Nodes \ {"v"}, NEW r \in Nodes \ {"v"},
         Suitable(b, k, l, r), NEW U, NEW D, Fit(b, U, D), Taking(U, D), k = "Call4",
         b.reg["rsp"] \in {1904, 1912, 1920, 1928}, \A a \in Cells : a < b.reg["rsp"] => a \in D
  PROVE  Does(b, k, l, r, U, D)
<1>1. ContentOf(b, l) \in Words /\ ContentOf(b, r) \in Words /\ b \in Machines /\ b.reg["rbp"] = 2040
  <2>1. b \in Machines /\ b.reg["rbp"] = 2040
    BY DEF Fit
  <2> QED BY <2>1, ContentOfIs
<1>2. ValueSteps(k, l, r) = Call(l, Passed[k]) /\ Passed[k] = <<"c", "x", "y", "x">>
  BY KindsAre DEF ValueSteps, Passed
<1>3. l \in {"f", "y"} /\ ContentOf(b, l) = Function
  BY KindsAre DEF Suitable
<1> DEFINE a == b.reg["rsp"] - 32
<1>4. b.reg["rsp"] = a + 32 /\ {a, a + 8, a + 16, a + 24} \subseteq Cells \cap D
  <2>1. a \in {1872, 1880, 1888, 1896} /\ b.reg["rsp"] = a + 32
    OBVIOUS
  <2> HIDE DEF a
  <2>2. \A n \in {a, a + 8, a + 16, a + 24} : n < b.reg["rsp"] /\ n \in Cells
    <3>1. \A n \in {a, a + 8, a + 16, a + 24} :
             n \in {1872, 1880, 1888, 1896, 1904, 1912, 1920} /\ n < b.reg["rsp"]
      BY <2>1
    <3>2. \A n \in {1872, 1880, 1888, 1896, 1904, 1912, 1920} : n \in Cells
      BY NamedCells
    <3> QED BY <3>1, <3>2
  <2> QED BY <2>1, <2>2
<1> HIDE DEF a
<1> DEFINE sent == Cut(ContentOf(b, "c") + (2 * ContentOf(b, "x")) + (4 * ContentOf(b, "y")) + (8 * ContentOf(b, "x")) + 1)
<1>5. PICK p : /\ Brings(b, Text(Call(l, <<"c", "x", "y", "x">>)), p, U, D) /\ p.went = "called"
               /\ ContentOf(p, "v") = sent
  BY <1>3, <1>4, Call4Runs
<1>6. Computes(b, p, k, ContentOf(b, l), ContentOf(b, r))
  <2>1. Computes(b, p, k, ContentOf(b, l), ContentOf(b, r)) <=>
          /\ p.went = "called"
          /\ ContentOf(p, "v") = Cut(Sent(b, k, 1) + (2 * Sent(b, k, 2)) + (4 * Sent(b, k, 3))
                                       + (8 * Sent(b, k, 4)) + 1)
    BY KindsAre DEF Computes
  <2>2. /\ Sent(b, k, 1) = ContentOf(b, "c") /\ Sent(b, k, 2) = ContentOf(b, "x")
        /\ Sent(b, k, 3) = ContentOf(b, "y") /\ Sent(b, k, 4) = ContentOf(b, "x")
    <3>1. /\ DOMAIN Passed[k] = {1, 2, 3, 4} /\ Passed[k][1] = "c" /\ Passed[k][2] = "x"
          /\ Passed[k][3] = "y" /\ Passed[k][4] = "x"
      BY <1>2
    <3> QED BY <3>1 DEF Sent
  <2>3. Cut(Sent(b, k, 1) + (2 * Sent(b, k, 2)) + (4 * Sent(b, k, 3)) + (8 * Sent(b, k, 4)) + 1) = sent
    BY <2>2
  <2> HIDE DEF sent
  <2> QED BY <1>5, <2>1, <2>3
<1> QED BY <1>2, <1>5, <1>6 DEF Does

LEMMA BodyRuns ==
  ASSUME Housed, NEW b, Framed(b, {}), b.went = "ahead", NEW k \in AllKinds,
         NEW l \in Nodes \ {"v"}, NEW r \in Nodes \ {"v"}, Suitable(b, k, l, r)
  PROVE  Does(b, k, l, r, Usable(k), Open(b, k, l))
<1> DEFINE U == Usable(k)
           D == Open(b, k, l)
<1>1. Fit(b, U, D) /\ (HasValue(k) => Taking(U, D))
  BY Fits
<1>2. /\ k = "Store" => ContentOf(b, l) \in D
      /\ k = "StoreWide" => ContentOf(b, l) \in D /\ ContentOf(b, l) + 8 \in D
      /\ \A a \in Cells : a < b.reg["rsp"] => a \in D
  BY TargetIs DEF Open
<1>3. b.reg["rsp"] \in {1904, 1912, 1920, 1928} /\ ContentOf(b, "b") = 1968
  BY FrameContents
<1> HIDE DEF U, D
<1>4. CASE k = "Store"
  BY <1>1, <1>2, <1>4, DoesStore DEF U, D
<1>5. CASE k = "StoreWide"
  BY <1>1, <1>2, <1>3, <1>5, DoesStoreWide DEF U, D
<1>6. CASE k = "CondBr"
  BY <1>1, <1>6, DoesCondBr DEF U, D
<1>7. CASE k \notin {"Store", "StoreWide", "CondBr"}
  <2>1. Taking(U, D)
    BY <1>1, <1>7 DEF HasValue
  <2>2. CASE k \in DOMAIN BinaryOps
    BY <1>1, <2>1, <2>2, DoesBinary DEF U, D
  <2>3. CASE k = "BitwiseNot"
    BY <1>1, <2>1, <2>3, DoesBitwiseNot DEF U, D
  <2>4. CASE k = "Minus"
    BY <1>1, <2>1, <2>4, DoesMinus DEF U, D
  <2>5. CASE k = "Multiplication"
    BY <1>1, <2>1, <2>5, DoesMultiplication DEF U, D
  <2>6. CASE k = "Division"
    BY <1>1, <2>1, <2>6, DoesDivision DEF U, D
  <2>7. CASE k = "Modulo"
    BY <1>1, <2>1, <2>7, DoesModulo DEF U, D
  <2>8. CASE k = "And"
    BY <1>1, <2>1, <2>8, DoesAnd DEF U, D
  <2>9. CASE k = "Or"
    BY <1>1, <2>1, <2>9, DoesOr DEF U, D
  <2>10. CASE k = "Not"
    BY <1>1, <2>1, <2>10, DoesNot DEF U, D
  <2>11. CASE k = "SGEP"
    BY <1>1, <2>1, <2>11, DoesSgep DEF U, D
  <2>12. CASE k = "GEP8"
    BY <1>1, <2>1, <2>12, DoesGep8 DEF U, D
  <2>13. CASE k = "GEP24"
    BY <1>1, <2>1, <2>13, DoesGep24 DEF U, D
  <2>14. CASE k = "Load"
    BY <1>1, <2>1, <2>14, DoesLoad DEF U, D
  <2>15. CASE k = "Br"
    BY <1>1, <2>1, <2>15, DoesBr DEF U, D
  <2>16. CASE k \in DOMAIN SetOps
    BY <1>1, <2>1, <2>16, DoesComparison DEF U, D
  <2>17. CASE k = "Call2"
    BY <1>1, <1>2, <1>3, <2>1, <2>17, DoesCall2 DEF U, D
  <2>18. CASE k = "Call4"
    BY <1>1, <1>2, <1>3, <2>1, <2>18, DoesCall4 DEF U, D
  <2>19. CASE k = "GEP16"
    BY <2>19, KindsAre DEF Suitable
  <2> QED BY <1>7, <2>2, <2>3, <2>4, <2>5, <2>6, <2>7, <2>8, <2>9, <2>10, <2>11, <2>12, <2>13, <2>14, <2>15, <2>16, <2>17, <2>18, <2>19, KindsAre DEF AllKinds, Operators
<1> QED BY <1>4, <1>5, <1>6, <1>7

(***************************************************************************)
(* The operands below the top of the stack.                                *)
(***************************************************************************)
LEMMA LegacyAgrees ==
  ASSUME Housed, NEW cells, NEW b, Framed(b, cells), NEW k \in Operators, NEW l \in Words, NEW r \in Words,
         Sound(k, l, r)
  PROVE  LegacyResult(b, k, l, r) = Meant(b, k, l, r)
<1> DEFINE a == b.reg["rsp"] - 16
           m == [b EXCEPT !.mem[a + 8] = l]
           t == [m EXCEPT !.mem[a] = r]
<1>1. b \in Machines /\ a \in {1888, 1896, 1904, 1912} /\ b.reg["rsp"] = a + 16
  BY FrameContents
<1>2. b.reg["rsp"] - 8 = a + 8 /\ b.reg["rsp"] - 16 = a
  BY <1>1
<1>3. [b EXCEPT !.mem[b.reg["rsp"] - 8] = l, !.mem[b.reg["rsp"] - 16] = r] = t
  <2> DEFINE c == b.reg["rsp"] - 8
             d == b.reg["rsp"] - 16
  <2>1. c = a + 8 /\ d = a
    BY <1>2
  <2> HIDE DEF a, c, d
  <2>2. t = [b EXCEPT !.mem[c] = l, !.mem[d] = r]
    BY <2>1
  <2> QED BY <2>2 DEF c, d
<1> HIDE DEF a
<1>4. a \in Cells /\ a + 8 \in Cells /\ a # a + 8
  <2>1. /\ 1888 \in Cells /\ 1896 \in Cells /\ 1904 \in Cells /\ 1912 \in Cells /\ 1920 \in Cells
        /\ 1888 + 8 = 1896 /\ 1896 + 8 = 1904 /\ 1904 + 8 = 1912 /\ 1912 + 8 = 1920
    BY NamedCells
  <2> QED BY <1>1, <2>1
<1>5. SetsCell(b, m, a + 8, l)
  BY <1>1, <1>4, CellWritten
<1>6. m \in Machines
  BY <1>5 DEF SetsCell
<1> HIDE DEF m
<1>7. SetsCell(m, t, a, r)
  BY <1>4, <1>6, CellWritten
<1>8. LegacyResult(b, k, l, r) = Run(t, LegacyText(k)).reg["rax"]
  BY <1>3 DEF LegacyResult
<1> HIDE DEF t
<1>9. Topped(t, a, l, r)
  BY <1>1, <1>4, <1>5, <1>7 DEF SetsCell, Topped
<1> QED BY <1>8, <1>9, LegacyRuns

(***************************************************************************)
(* The invariant: at every step the rest of the text leads the machine to  *)
(* where the phase is to end.                                              *)
(***************************************************************************)
Entering(p) == kind = "none" /\ Framed(p, {}) /\ p.went = "ahead"

Computing(p) ==
  /\ kind \in Kinds /\ left \in Nodes \ {"v"} /\ right \in Nodes \ {"v"}
  /\ Framed(before, {}) /\ before.went = "ahead" /\ Suitable(before, kind, left, right)
  /\ Computes(before, p, kind, ContentOf(before, left), ContentOf(before, right))
  /\ Spares(before, p, Usable(kind), Open(before, kind, left))

Returning(p) == GivesBack(before, p, Result(kind), Target(before, kind, left))

IInv ==
  /\ Housed
  /\ kind \in Kinds \cup {"none"} /\ {left, right} \subseteq Nodes
  /\ phase \in {"prologue", "body", "epilogue"}
  /\ Legal(machine, code)
  /\ phase = "prologue" => Entering(Run(machine, code))
  /\ phase = "body" => Computing(Run(machine, code))
  /\ phase = "epilogue" => Returning(Run(machine, code))

LEMMA LegalBegins ==
  ASSUME NEW m, NEW t, Legal(m, t)
  PROVE  m \in Machines /\ Run(m, t) \in Machines /\ (t = <<>> => Run(m, t) = m)
<1>1. Len(t) \in Nat /\ 0 \in 0 .. Len(t) /\ Len(t) \in 0 .. Len(t)
  BY TextLength DEF Legal
<1>2. Executing(m, t)[0] = m
  BY <1>1, ExecutingSteps
<1>3. m \in Machines /\ Run(m, t) \in Machines
  BY <1>1, <1>2 DEF Legal, Run
<1> QED BY <1>3, LegalNothing

(* Where values live and the constant stay, and what is said of them.      *)
Still == home' = home /\ number' = number

LEMMA StillFrame ==
  ASSUME Still
  PROVE  /\ Housed' = Housed
         /\ \A n : Spilled(n)' = Spilled(n)
         /\ \A n : StackPhase(n)' = StackPhase(n)
         /\ \A m, n : ContentOf(m, n)' = ContentOf(m, n)
         /\ \A m, cells : Framed(m, cells)' = Framed(m, cells)
<1>1. Housed' = Housed
  BY DEF Still, Housed
<1>2. \A n : Spilled(n)' = Spilled(n)
  BY DEF Still, Spilled
<1>3. \A n : StackPhase(n)' = StackPhase(n)
  BY DEF Still, StackPhase, PhaseAfter, Room, Spilled
<1>4. \A m, n : ContentOf(m, n)' = ContentOf(m, n)
  BY DEF Still, ContentOf, Printed, StackPhase, PhaseAfter, Room, Spilled
<1>5. \A m, cells : Framed(m, cells)' = Framed(m, cells)
  BY DEF Still, Framed, Cell, FrameSize, PhaseAfter, Room, Spilled
<1> QED BY <1>1, <1>2, <1>3, <1>4, <1>5

LEMMA StillPromised ==
  ASSUME Still
  PROVE  /\ \A k : Usable(k)' = Usable(k)
         /\ \A m, k, l : Target(m, k, l)' = Target(m, k, l)
         /\ \A m, k, l : Open(m, k, l)' = Open(m, k, l)
         /\ \A m, k, l, r : Suitable(m, k, l, r)' = Suitable(m, k, l, r)
         /\ \A m, n, k, l, r : Computes(m, n, k, l, r)' = Computes(m, n, k, l, r)
         /\ \A m, n, o, cells : GivesBack(m, n, o, cells)' = GivesBack(m, n, o, cells)
<1>1. /\ \A n : Spilled(n)' = Spilled(n)
      /\ \A n : StackPhase(n)' = StackPhase(n)
      /\ \A m, n : ContentOf(m, n)' = ContentOf(m, n)
  BY StillFrame
<1>2. \A k : Usable(k)' = Usable(k)
  BY DEF Still, Usable
<1>3. \A m, k, l : Target(m, k, l)' = Target(m, k, l)
  BY <1>1 DEF Target
<1>4. \A m, k, l : Open(m, k, l)' = Open(m, k, l)
  BY <1>3 DEF Open
<1>5. \A m, k, l, r : Suitable(m, k, l, r)' = Suitable(m, k, l, r)
  BY <1>1 DEF Suitable
<1>6. \A m, k, i : Sent(m, k, i)' = Sent(m, k, i)
  BY <1>1 DEF Sent
<1>7. \A m, n, k, l, r : Computes(m, n, k, l, r)' = Computes(m, n, k, l, r)
  <2> TAKE m, n, k, l, r
  <2>1. CASE k \in DOMAIN Passed
    <3>1. \A i : Sent(m, k, i)' = Sent(m, k, i)
      BY <1>6
    <3>2. ContentOf(n, "v")' = ContentOf(n, "v")
      BY <1>1
    <3> QED BY <2>1, <3>1, <3>2 DEF Computes
  <2>2. CASE k \notin DOMAIN Passed
    BY <1>1, <2>2 DEF Computes
  <2> QED BY <2>1, <2>2
<1>8. \A m, n, o, cells : GivesBack(m, n, o, cells)' = GivesBack(m, n, o, cells)
  BY <1>1 DEF GivesBack
<1> QED BY <1>2, <1>3, <1>4, <1>5, <1>7, <1>8

LEMMA StillPhases ==
  ASSUME Still, kind' = kind, left' = left, right' = right, before' = before
  PROVE  \A p : /\ Entering(p)' = Entering(p)
                /\ Computing(p)' = Computing(p)
                /\ Returning(p)' = Returning(p)
<1>1. \A p : Entering(p)' = Entering(p)
  BY StillFrame DEF Entering
<1>2. \A p : Computing(p)' = Computing(p)
  BY StillFrame, StillPromised DEF Computing
<1>3. \A p : Returning(p)' = Returning(p)
  BY StillPromised DEF Returning
<1> QED BY <1>1, <1>2, <1>3

LEMMA InvInit ==
  ASSUME Init
  PROVE  IInv
<1>1. PICK data \in Data : number = data[3] /\ machine = Caller(data[1], data[2])
  BY DEF Init
<1>2. data[1] \in Words /\ data[2] \in Words /\ data[3] \in Words
  BY <1>1, IrCompileAssumption
<1>3. Housed
  BY <1>1, <1>2, IrCompileAssumption, GivenIs DEF Init, Housed
<1> DEFINE x == data[1]
           y == data[2]
<1> HIDE DEF x, y
<1>4. LET p == Run(Caller(x, y), Prologue)
      IN  Legal(Caller(x, y), Prologue) /\ p \in Machines /\ Framed(p, {}) /\ p.went = "ahead"
  BY <1>2, <1>3, PrologueRuns DEF x, y
<1>5. machine = Caller(x, y) /\ code = Prologue
  BY <1>1 DEF Init, x, y
<1>6. kind = "none" /\ left = "c" /\ right = "c" /\ phase = "prologue"
  BY DEF Init
<1> QED BY <1>3, <1>4, <1>5, <1>6, NamesDiffer DEF IInv, Entering

LEMMA InvExecute ==
  ASSUME IInv, Execute
  PROVE  IInv'
<1>1. /\ machine' = Executed(machine, Head(code)) /\ code' = Tail(code) /\ code # <<>>
      /\ home' = home /\ number' = number /\ kind' = kind /\ left' = left /\ right' = right
      /\ phase' = phase /\ before' = before
  BY DEF Execute
<1>2. Legal(machine', code') /\ Run(machine', code') = Run(machine, code)
  BY <1>1, LegalFromSecond DEF IInv
<1>3. Housed'
  BY <1>1, StillFrame DEF IInv, Still
<1>4. \A p : /\ Entering(p)' = Entering(p)
             /\ Computing(p)' = Computing(p)
             /\ Returning(p)' = Returning(p)
  BY <1>1, StillPhases DEF Still
<1> QED BY <1>1, <1>2, <1>3, <1>4 DEF IInv

LEMMA InvCompile ==
  ASSUME Beyond = {}, IInv, NEW k \in Kinds, NEW l \in Nodes \ {"v"}, NEW r \in Nodes \ {"v"}, Compile(k, l, r)
  PROVE  IInv'
<1>1. /\ phase = "prologue" /\ code = <<>> /\ Operands(machine, k, l, r)
      /\ kind' = k /\ left' = l /\ right' = r /\ code' = Text(ValueSteps(k, l, r))
      /\ phase' = "body" /\ before' = machine
      /\ home' = home /\ number' = number /\ machine' = machine
  BY DEF Compile
<1>2. Housed /\ Framed(machine, {}) /\ machine.went = "ahead"
  BY <1>1, LegalBegins DEF IInv, Entering
<1>3. k \in AllKinds
  BY KindsAssumption
<1>4. Suitable(machine, k, l, r)
  BY <1>1, <1>2, <1>3, OperandsAre
<1>5. Does(machine, k, l, r, Usable(k), Open(machine, k, l))
  BY <1>2, <1>3, <1>4, BodyRuns
<1>6. PICK p : /\ Brings(machine, Text(ValueSteps(k, l, r)), p, Usable(k), Open(machine, k, l))
               /\ Computes(machine, p, k, ContentOf(machine, l), ContentOf(machine, r))
  BY <1>5 DEF Does
<1>7. /\ Legal(machine', code') /\ p = Run(machine', code')
      /\ Spares(machine, p, Usable(k), Open(machine, k, l))
  BY <1>1, <1>6 DEF Brings
<1>8. Still
  BY <1>1 DEF Still
<1>9. Housed' /\ Framed(before, {})' /\ Suitable(before, kind, left, right)'
  BY <1>1, <1>2, <1>4, <1>8, StillFrame, StillPromised
<1>10. /\ Computes(before, p, kind, ContentOf(before, left), ContentOf(before, right))'
       /\ Spares(before', p, Usable(kind)', Open(before, kind, left)')
  BY <1>1, <1>6, <1>7, <1>8, StillFrame, StillPromised
<1>11. Computing(p)'
  BY <1>1, <1>2, <1>9, <1>10 DEF Computing
<1> QED BY <1>1, <1>7, <1>9, <1>11 DEF IInv

LEMMA InvReturn ==
  ASSUME IInv, Return
  PROVE  IInv'
<1>1. /\ phase = "body" /\ code = <<>> /\ code' = Text(Ret(Result(kind)))
      /\ phase' = "epilogue" /\ before' = machine
      /\ home' = home /\ number' = number /\ kind' = kind /\ left' = left /\ right' = right
      /\ machine' = machine
  BY DEF Return
<1>2. Housed /\ machine \in Machines /\ Computing(machine)
  BY <1>1, LegalBegins DEF IInv
<1>3. kind \in AllKinds
  BY <1>2, KindsAssumption DEF Computing
<1> DEFINE T == Target(machine, kind, left)
<1>4. Framed(machine, T)
  BY <1>2, <1>3, FrameStays DEF Computing
<1>5. Result(kind) \in {"x", "v"}
  BY DEF Result
<1> HIDE DEF T
<1>6. PICK p : /\ Legal(machine, Text(Ret(Result(kind)))) /\ p = Run(machine, Text(Ret(Result(kind))))
               /\ GivesBack(machine, p, Result(kind), T)
  BY <1>2, <1>4, <1>5, RetRuns
<1>7. Legal(machine', code') /\ p = Run(machine', code')
  BY <1>1, <1>6
<1>8. Still
  BY <1>1 DEF Still
<1>9. Returning(p)'
  BY <1>1, <1>6, <1>8, StillPromised DEF Returning, T
<1>10. Housed'
  BY <1>2, <1>8, StillFrame
<1> QED BY <1>1, <1>7, <1>9, <1>10 DEF IInv

LEMMA InvKept ==
  ASSUME Beyond = {}, IInv, [Next]_vars
  PROVE  IInv'
<1>1. CASE Execute
  BY <1>1, InvExecute
<1>2. CASE \E k \in Kinds : \E l, r \in Nodes \ {"v"} : Compile(k, l, r)
  BY <1>2, InvCompile
<1>3. CASE Return
  BY <1>3, InvReturn
<1>4. CASE UNCHANGED vars
  <2>1. /\ machine' = machine /\ code' = code /\ phase' = phase /\ kind' = kind /\ left' = left
        /\ right' = right /\ before' = before /\ Still
    BY <1>4 DEF vars, Still
  <2>2. Housed'
    BY <2>1, StillFrame DEF IInv
  <2>3. \A p : /\ Entering(p)' = Entering(p)
               /\ Computing(p)' = Computing(p)
               /\ Returning(p)' = Returning(p)
    BY <2>1, StillPhases
  <2> QED BY <2>1, <2>2, <2>3 DEF IInv
<1> QED BY <1>1, <1>2, <1>3, <1>4 DEF Next

(* The invariant holds: at every moment the rest of the text that is       *)
(* executed is legal for the machine, and leads it to what the prologue,   *)
(* the instruction or the epilogue is to bring about.                      *)
THEOREM Invariant ==
  ASSUME Beyond = {}
  PROVE  Spec => []IInv
<1>1. Init => IInv
  BY InvInit
<1>2. IInv /\ [Next]_vars => IInv'
  BY InvKept
<1> QED BY <1>1, <1>2, PTL DEF Spec

(***************************************************************************)
(* What it implies.                                                        *)
(***************************************************************************)
(* Registers and cells hold words, whatever is executed.                   *)
THEOREM TypesKept ==
  ASSUME Beyond = {}
  PROVE  Spec => []TypeOK
<1>1. IInv => TypeOK
  <2> SUFFICES ASSUME IInv PROVE TypeOK
    OBVIOUS
  <2>1. machine \in Machines
    BY LegalBegins DEF IInv
  <2> QED BY <2>1, MachineParts DEF IInv, TypeOK
<1> QED BY <1>1, Invariant, PTL

(* Whatever instruction is compiled, and wherever its operands and its     *)
(* value live, what ir_compile_value wrote computes the value meant, for   *)
(* words of every width and all contents; and so does the text of the      *)
(* default backend.                                                        *)
THEOREM ValuesArrive ==
  ASSUME Beyond = {}
  PROVE  Spec => []ValueArrives
<1>1. IInv => ValueArrives
  <2> DEFINE l == ContentOf(before, left)
             r == ContentOf(before, right)
  <2> SUFFICES ASSUME IInv, Computed
               PROVE  /\ Computes(before, machine, kind, l, r)
                      /\ kind \in Operators => LegacyResult(before, kind, l, r) = Meant(before, kind, l, r)
    BY DEF ValueArrives
  <2>1. Housed /\ Computing(machine)
    BY LegalBegins DEF IInv, Computed
  <2>2. Computes(before, machine, kind, l, r)
    BY <2>1 DEF Computing
  <2>3. Framed(before, {}) /\ Sound(kind, l, r)
    BY <2>1 DEF Computing, Suitable
  <2>4. l \in Words /\ r \in Words
    BY <2>1, <2>3, FrameContents DEF Computing
  <2> HIDE DEF l, r
  <2>5. kind \in Operators => LegacyResult(before, kind, l, r) = Meant(before, kind, l, r)
    BY <2>1, <2>3, <2>4, LegacyAgrees
  <2> QED BY <2>2, <2>5
<1> QED BY <1>1, Invariant, PTL

(* An instruction changes nothing but scratch registers, its value, the    *)
(* cells it stores to, and what is below the stack.                        *)
THEOREM OthersStay ==
  ASSUME Beyond = {}
  PROVE  Spec => []OthersUntouched
<1>1. IInv => OthersUntouched
  BY LegalBegins DEF IInv, Computing, OthersUntouched, Computed
<1> QED BY <1>1, Invariant, PTL

(* A function returns with its value in rax, its caller's registers and    *)
(* stack pointer as they were, and the caller's memory but for the cells   *)
(* the instruction stored to.                                              *)
THEOREM CallerServed ==
  ASSUME Beyond = {}
  PROVE  Spec => []CallerKeeps
<1>1. IInv => CallerKeeps
  BY LegalBegins DEF IInv, Returning, CallerKeeps, Ended
<1> QED BY <1>1, Invariant, PTL

(* Nothing is written that the processor has no encoding for.              *)
THEOREM TextEncodable ==
  ASSUME Beyond = {}
  PROVE  Spec => []TextIsEncodable
<1>1. IInv => TextIsEncodable
  BY TextLength DEF IInv, Legal, TextIsEncodable
<1> QED BY <1>1, Invariant, PTL

===============================================================================
