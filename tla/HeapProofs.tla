----------------------------- MODULE HeapProofs ------------------------------
(***************************************************************************)
(* Machine-checked proofs about Heap, for every heap size, tag size, index *)
(* capacity and client: its invariant, and what it promises its clients.   *)
(***************************************************************************)
EXTENDS Heap, SequenceTheorems, WellFoundedInduction, TLAPS

(* What the concatenation of two sequences is, as one formula.             *)
LEMMA Concatenation ==
  ASSUME NEW S
  PROVE  \A s, t \in Seq(S) :
           /\ s \o t \in Seq(S)
           /\ Len(s \o t) = Len(s) + Len(t)
           /\ \A i \in 1 .. Len(s) + Len(t) :
                (s \o t)[i] = IF i <= Len(s) THEN s[i] ELSE t[i - Len(s)]
BY ConcatProperties

(* An injective sequence without one of its elements.                      *)
LEMMA RemoveAtFacts ==
  ASSUME NEW S, NEW s \in Seq(S), NEW i \in 1 .. Len(s),
         \A j, k \in 1 .. Len(s) : s[j] = s[k] => j = k
  PROVE  /\ RemoveAt(s, i) \in Seq(S)
         /\ Len(RemoveAt(s, i)) = Len(s) - 1
         /\ Range(RemoveAt(s, i)) = Range(s) \ {s[i]}
         /\ \A j, k \in 1 .. Len(RemoveAt(s, i)) :
              RemoveAt(s, i)[j] = RemoveAt(s, i)[k] => j = k
<1> DEFINE r == RemoveAt(s, i)
<1>1. /\ r \in Seq(S)
      /\ Len(r) = Len(s) - 1
      /\ \A j \in 1 .. Len(r) : r[j] = IF j < i THEN s[j] ELSE s[j + 1]
  <2>1. /\ SubSeq(s, 1, i - 1) \in Seq(S)
        /\ Len(SubSeq(s, 1, i - 1)) = i - 1
        /\ \A j \in 1 .. i - 1 : SubSeq(s, 1, i - 1)[j] = s[j]
    BY SubSeqProperties
  <2>2. /\ SubSeq(s, i + 1, Len(s)) \in Seq(S)
        /\ Len(SubSeq(s, i + 1, Len(s))) = Len(s) - i
        /\ \A j \in 1 .. Len(s) - i : SubSeq(s, i + 1, Len(s))[j] = s[i + j]
    BY SubSeqProperties
  <2> DEFINE u == SubSeq(s, 1, i - 1)
             v == SubSeq(s, i + 1, Len(s))
  <2>3. r = u \o v
    BY DEF RemoveAt
  <2> HIDE DEF r, u, v
  <2>4. u \in Seq(S) /\ Len(u) = i - 1 /\ v \in Seq(S) /\ Len(v) = Len(s) - i
    BY <2>1, <2>2 DEF u, v
  <2>5. /\ u \o v \in Seq(S)
        /\ Len(u \o v) = Len(u) + Len(v)
        /\ \A j \in 1 .. Len(u) + Len(v) :
             (u \o v)[j] = IF j <= Len(u) THEN u[j] ELSE v[j - Len(u)]
    <3>1. u \in Seq(S) /\ v \in Seq(S)
      BY <2>4
    <3> QED BY <3>1, Concatenation, Zenon
  <2>6. ASSUME NEW j \in 1 .. Len(s) - 1
        PROVE  (u \o v)[j] = IF j < i THEN s[j] ELSE s[j + 1]
    <3>1. CASE j < i
      BY <2>1, <2>4, <2>5, <3>1 DEF u
    <3>2. CASE j >= i
      <4>1. j - (i - 1) \in 1 .. Len(s) - i /\ i + (j - (i - 1)) = j + 1
        BY <3>2
      <4>2. v[j - (i - 1)] = s[i + (j - (i - 1))]
        BY <2>2, <4>1 DEF v
      <4> QED BY <2>4, <2>5, <3>2, <4>1, <4>2
    <3>3. j < i \/ j >= i
      OBVIOUS
    <3> QED BY <3>1, <3>2, <3>3, Zenon
  <2>7. Len(u) + Len(v) = Len(s) - 1
    BY <2>4
  <2> QED BY <2>3, <2>5, <2>6, <2>7
<1>2. DOMAIN r = 1 .. Len(s) - 1 /\ DOMAIN s = 1 .. Len(s)
  BY <1>1
<1>3. \A j, k \in 1 .. Len(r) : r[j] = r[k] => j = k
  BY <1>1
<1> HIDE DEF r
<1>4. ASSUME NEW x \in Range(r) PROVE x \in Range(s) \ {s[i]}
  <2>1. PICK j \in 1 .. Len(s) - 1 : x = r[j]
    BY <1>2 DEF Range
  <2>2. CASE j < i
    BY <1>1, <1>2, <2>1, <2>2 DEF Range
  <2>3. CASE j >= i
    <3>1. x = s[j + 1] /\ j + 1 \in 1 .. Len(s) /\ j + 1 /= i
      BY <1>1, <2>1, <2>3
    <3> QED BY <3>1, <1>2 DEF Range
  <2> QED BY <2>2, <2>3
<1>5. ASSUME NEW x \in Range(s) \ {s[i]} PROVE x \in Range(r)
  <2>1. PICK j \in 1 .. Len(s) : x = s[j] /\ j /= i
    BY <1>2 DEF Range
  <2>2. CASE j < i
    <3>1. j \in 1 .. Len(r) /\ r[j] = x
      BY <1>1, <2>1, <2>2
    <3> QED BY <3>1, <1>1, <1>2 DEF Range
  <2>3. CASE j > i
    <3>1. j - 1 \in 1 .. Len(r) /\ r[j - 1] = x
      BY <1>1, <2>1, <2>3
    <3> QED BY <3>1, <1>1, <1>2 DEF Range
  <2> QED BY <2>1, <2>2, <2>3
<1>6. Range(r) = Range(s) \ {s[i]}
  BY <1>4, <1>5
<1> QED BY <1>1, <1>3, <1>6 DEF r

(* An injective sequence with a new element put in.                        *)
LEMMA InsertAtFacts ==
  ASSUME NEW S, NEW s \in Seq(S), NEW k \in 1 .. Len(s) + 1, NEW x \in S,
         x \notin Range(s),
         \A j, l \in 1 .. Len(s) : s[j] = s[l] => j = l
  PROVE  /\ InsertAt(s, k, x) \in Seq(S)
         /\ Len(InsertAt(s, k, x)) = Len(s) + 1
         /\ Range(InsertAt(s, k, x)) = Range(s) \cup {x}
         /\ \A j, l \in 1 .. Len(InsertAt(s, k, x)) :
              InsertAt(s, k, x)[j] = InsertAt(s, k, x)[l] => j = l
<1> DEFINE r == InsertAt(s, k, x)
<1>1. /\ r \in Seq(S)
      /\ Len(r) = Len(s) + 1
      /\ \A j \in 1 .. Len(r) :
           r[j] = IF j < k THEN s[j] ELSE IF j = k THEN x ELSE s[j - 1]
  <2>1. /\ SubSeq(s, 1, k - 1) \in Seq(S)
        /\ Len(SubSeq(s, 1, k - 1)) = k - 1
        /\ \A j \in 1 .. k - 1 : SubSeq(s, 1, k - 1)[j] = s[j]
    BY SubSeqProperties
  <2>2. /\ SubSeq(s, k, Len(s)) \in Seq(S)
        /\ Len(SubSeq(s, k, Len(s))) = Len(s) - k + 1
        /\ \A j \in 1 .. Len(s) - k + 1 : SubSeq(s, k, Len(s))[j] = s[k + j - 1]
    BY SubSeqProperties
  <2>3. <<x>> \in Seq(S) /\ Len(<<x>>) = 1 /\ <<x>>[1] = x
    OBVIOUS
  <2> DEFINE u == SubSeq(s, 1, k - 1)
             v == SubSeq(s, k, Len(s))
             w == <<x>>
  <2>4. r = (u \o w) \o v
    BY DEF InsertAt
  <2> HIDE DEF r, u, v, w
  <2>5. /\ u \o w \in Seq(S)
        /\ Len(u \o w) = k
        /\ \A j \in 1 .. k : (u \o w)[j] = IF j < k THEN s[j] ELSE x
    <3>1. /\ u \in Seq(S) /\ Len(u) = k - 1
          /\ w \in Seq(S) /\ Len(w) = 1 /\ w[1] = x
          /\ \A j \in 1 .. k - 1 : u[j] = s[j]
      BY <2>1, <2>3 DEF u, w
    <3>2. /\ u \o w \in Seq(S)
          /\ Len(u \o w) = Len(u) + Len(w)
          /\ \A j \in 1 .. Len(u) + Len(w) :
               (u \o w)[j] = IF j <= Len(u) THEN u[j] ELSE w[j - Len(u)]
      BY <3>1, Concatenation, Zenon
    <3> QED BY <3>1, <3>2
  <2> DEFINE z == u \o w
  <2>6. z \in Seq(S) /\ Len(z) = k /\ v \in Seq(S) /\ Len(v) = Len(s) - k + 1
    BY <2>2, <2>5 DEF v
  <2> HIDE DEF z
  <2>7. /\ z \o v \in Seq(S)
        /\ Len(z \o v) = Len(s) + 1
        /\ \A j \in 1 .. Len(s) + 1 :
             (z \o v)[j] = IF j <= k THEN z[j] ELSE v[j - k]
    <3>1. /\ z \o v \in Seq(S)
          /\ Len(z \o v) = Len(z) + Len(v)
          /\ \A j \in 1 .. Len(z) + Len(v) :
               (z \o v)[j] = IF j <= Len(z) THEN z[j] ELSE v[j - Len(z)]
      <4>1. z \in Seq(S) /\ v \in Seq(S)
        BY <2>6
      <4> QED BY <4>1, Concatenation, Zenon
    <3>2. Len(z) + Len(v) = Len(s) + 1
      BY <2>6
    <3> QED BY <2>6, <3>1, <3>2
  <2>8. ASSUME NEW j \in 1 .. Len(s) + 1
        PROVE  (z \o v)[j] = IF j < k THEN s[j] ELSE IF j = k THEN x ELSE s[j - 1]
    <3>1. CASE j <= k
      BY <2>5, <2>7, <3>1 DEF z
    <3>2. CASE j > k
      <4>1. j - k \in 1 .. Len(s) - k + 1 /\ k + (j - k) - 1 = j - 1
        BY <3>2
      <4>2. v[j - k] = s[k + (j - k) - 1]
        BY <2>2, <4>1 DEF v
      <4> QED BY <2>7, <3>2, <4>1, <4>2
    <3>3. j <= k \/ j > k
      OBVIOUS
    <3> QED BY <3>1, <3>2, <3>3, Zenon
  <2> QED BY <2>4, <2>7, <2>8 DEF z
<1>2. DOMAIN r = 1 .. Len(s) + 1 /\ DOMAIN s = 1 .. Len(s)
  BY <1>1
<1> HIDE DEF r
<1>3. \A j \in 1 .. Len(s) : s[j] /= x
  BY <1>2 DEF Range
<1>4. \A j, l \in 1 .. Len(r) : r[j] = r[l] => j = l
  <2> SUFFICES ASSUME NEW j \in 1 .. Len(r), NEW l \in 1 .. Len(r), r[j] = r[l]
               PROVE  j = l
    OBVIOUS
  <2> DEFINE at(m) == IF m < k THEN m ELSE m - 1
  <2>a. \A m \in 1 .. Len(r) : m /= k => at(m) \in 1 .. Len(s) /\ r[m] = s[at(m)]
    BY <1>1
  <2>b. r[k] = x /\ k \in 1 .. Len(r)
    BY <1>1
  <2> HIDE DEF at
  <2>1. CASE j = k \/ l = k
    BY <1>3, <2>a, <2>b, <2>1
  <2>2. CASE j /= k /\ l /= k
    <3>1. at(j) = at(l)
      BY <2>a, <2>2
    <3>2. Len(r) \in Nat
      BY <1>1
    <3> QED BY <2>2, <3>1, <3>2 DEF at
  <2> QED BY <2>1, <2>2
<1>5. ASSUME NEW y \in Range(r) PROVE y \in Range(s) \cup {x}
  <2>1. PICK j \in 1 .. Len(s) + 1 : y = r[j]
    BY <1>2 DEF Range
  <2>2. CASE j < k
    <3>1. y = s[j] /\ j \in 1 .. Len(s)
      BY <1>1, <2>1, <2>2
    <3> QED BY <3>1, <1>2 DEF Range
  <2>3. CASE j = k
    BY <1>1, <2>1, <2>3
  <2>4. CASE j > k
    <3>1. y = s[j - 1] /\ j - 1 \in 1 .. Len(s)
      BY <1>1, <2>1, <2>4
    <3> QED BY <3>1, <1>2 DEF Range
  <2> QED BY <2>2, <2>3, <2>4
<1>6. ASSUME NEW y \in Range(s) PROVE y \in Range(r)
  <2>1. PICK j \in 1 .. Len(s) : y = s[j]
    BY <1>2 DEF Range
  <2>2. CASE j < k
    <3>1. j \in 1 .. Len(r) /\ r[j] = y
      BY <1>1, <2>1, <2>2
    <3> QED BY <3>1, <1>1, <1>2 DEF Range
  <2>3. CASE j >= k
    <3>1. j + 1 \in 1 .. Len(r) /\ r[j + 1] = y
      BY <1>1, <2>1, <2>3
    <3> QED BY <3>1, <1>1, <1>2 DEF Range
  <2> QED BY <2>2, <2>3
<1>7. x \in Range(r)
  <2>1. k \in 1 .. Len(r) /\ r[k] = x
    BY <1>1
  <2> QED BY <2>1, <1>1, <1>2 DEF Range
<1> QED BY <1>1, <1>4, <1>5, <1>6, <1>7 DEF r

(***************************************************************************)
(* Tilings. B is the set of the blocks' first addresses, sz[b] the size of *)
(* block b.                                                                *)
(***************************************************************************)
Tiles(B, sz) ==
  /\ B \subseteq Nat
  /\ 0 \in B
  /\ \A b \in B : sz[b] \in Nat \ {0}
  /\ \A b \in B : b + sz[b] \in B \cup {HeapSize}
  /\ \A b \in B \ {0} : \E c \in B : c + sz[c] = b
  /\ \A b, c \in B : b < c => b + sz[b] <= c

(* The blocks of a tiling have positive sizes.                             *)
LEMMA TileSizes ==
  ASSUME NEW B, NEW sz, Tiles(B, sz)
  PROVE  /\ B \subseteq Nat
         /\ 0 \in B
         /\ \A c \in B : c \in Nat /\ sz[c] \in Nat /\ sz[c] > 0
BY DEF Tiles

(* An address lies in one block at most.                                   *)
LEMMA OneBlock ==
  ASSUME NEW B, NEW sz, Tiles(B, sz), NEW b \in B, NEW c \in B, NEW x \in Int,
         b <= x, x < b + sz[b], c <= x, x < c + sz[c]
  PROVE  b = c
<1>1. /\ b \in Nat /\ c \in Nat /\ sz[b] \in Nat /\ sz[c] \in Nat
      /\ b < c => b + sz[b] <= c
      /\ c < b => c + sz[c] <= b
  BY DEF Tiles
<1> QED BY <1>1

(* Splitting a block in two keeps a tiling.                                *)
LEMMA SplitTiles ==
  ASSUME NEW B, NEW sz, NEW tz, Tiles(B, sz),
         NEW b \in B, NEW n \in Nat, 0 < n, n < sz[b],
         tz[b] = n, tz[b + n] = sz[b] - n,
         \A c \in B \ {b} : tz[c] = sz[c]
  PROVE  Tiles(B \cup {b + n}, tz)
<1> DEFINE r == b + n
           C == B \cup {r}
<1>1. /\ B \subseteq Nat /\ 0 \in B /\ b \in Nat
      /\ \A c \in B : c \in Nat /\ sz[c] \in Nat /\ sz[c] > 0
  BY DEF Tiles
<1>2. \A c \in B : c /= r
  <2> SUFFICES ASSUME r \in B PROVE FALSE
    OBVIOUS
  <2>2. r = b
    <3>1. b <= r /\ r < b + sz[b] /\ r <= r /\ r < r + sz[r]
      BY <1>1
    <3> QED BY <3>1, <1>1, OneBlock
  <2> QED BY <2>2, <1>1
<1>3. C \subseteq Nat /\ 0 \in C /\ \A c \in C : tz[c] \in Nat \ {0}
  BY <1>1
<1>4. ASSUME NEW c \in C PROVE c + tz[c] \in C \cup {HeapSize}
  <2>1. CASE c = b
    BY <2>1
  <2>2. CASE c = r
    <3>1. c + tz[c] = b + sz[b]
      BY <2>2, <1>1
    <3> QED BY <3>1 DEF Tiles
  <2>3. CASE c /= b /\ c /= r
    BY <2>3 DEF Tiles
  <2> QED BY <2>1, <2>2, <2>3
<1>5. ASSUME NEW c \in C \ {0} PROVE \E d \in C : d + tz[d] = c
  <2>1. CASE c = r
    BY <2>1
  <2>2. CASE c \in B
    <3>1. PICK d \in B : d + sz[d] = c
      BY <2>2 DEF Tiles
    <3>2. CASE d = b
      <4>1. r + tz[r] = c
        BY <3>1, <3>2, <1>1
      <4> QED BY <4>1
    <3>3. CASE d /= b
      BY <3>1, <3>3
    <3> QED BY <3>2, <3>3
  <2> QED BY <2>1, <2>2
<1>6. ASSUME NEW c \in C, NEW d \in C, c < d PROVE c + tz[c] <= d
  <2>1. \A x, y \in B : x < y => x + sz[x] <= y
    BY DEF Tiles
  <2>2. CASE c = r /\ d \in B
    <3>1. b < d
      BY <2>2, <1>1, <1>6
    <3>2. b + sz[b] <= d
      BY <3>1, <2>1, <2>2
    <3> QED BY <3>2, <2>2, <1>1
  <2>3. CASE c \in B /\ d = r
    <3>1. CASE c = b
      BY <3>1, <2>3, <1>1
    <3>2. CASE c < b
      <4>1. c + sz[c] <= b
        BY <3>2, <2>1, <2>3
      <4> QED BY <4>1, <3>2, <2>3, <1>1
    <3>3. CASE c > b
      <4>1. b + sz[b] <= c
        BY <3>3, <2>1, <2>3
      <4> QED BY <4>1, <2>3, <1>1, <1>6
    <3> QED BY <3>1, <3>2, <3>3, <1>1, <2>3
  <2>4. CASE c \in B /\ d \in B
    <3>1. c + sz[c] <= d
      BY <2>1, <2>4, <1>6
    <3> QED BY <3>1, <2>4, <1>1
  <2>5. CASE c = r /\ d = r
    BY <2>5, <1>1, <1>6
  <2> QED BY <2>2, <2>3, <2>4, <2>5
<1> QED BY <1>3, <1>4, <1>5, <1>6 DEF Tiles

(* The sizes tz make one block of b and r, neighbours under sz.            *)
Merges(B, sz, tz, b, r) ==
  /\ b \in B /\ r \in B /\ r = b + sz[b]
  /\ tz[b] = sz[b] + sz[r]
  /\ \A c \in B \ {b, r} : tz[c] = sz[c]

(* Merging a block with the one after it keeps a tiling.                   *)
LEMMA MergeTiles ==
  ASSUME NEW B, NEW sz, NEW tz, NEW b, NEW r,
         Tiles(B, sz), Merges(B, sz, tz, b, r)
  PROVE  Tiles(B \ {r}, tz)
<1> USE DEF Merges
<1> DEFINE C == B \ {r}
<1>1. /\ B \subseteq Nat /\ 0 \in B /\ b \in Nat /\ r \in Nat
      /\ \A c \in B : c \in Nat /\ sz[c] \in Nat /\ sz[c] > 0
  BY TileSizes, Zenon
<1>2. b < r /\ r /= 0 /\ b \in C
  BY <1>1
<1>3. C \subseteq Nat /\ 0 \in C /\ \A c \in C : tz[c] \in Nat \ {0}
  <2>1. tz[b] \in Nat \ {0}
    BY <1>1
  <2>2. ASSUME NEW c \in C, c /= b PROVE tz[c] \in Nat \ {0}
    <3>1. tz[c] = sz[c] /\ sz[c] \in Nat /\ sz[c] > 0
      BY <1>1, <2>2
    <3> QED BY <3>1
  <2> QED BY <1>1, <1>2, <2>1, <2>2
<1>4. ASSUME NEW c \in C PROVE c + tz[c] \in C \cup {HeapSize}
  <2>1. CASE c = b
    <3>1. c + tz[c] = r + sz[r] /\ r + sz[r] /= r
      BY <2>1, <1>1
    <3> QED BY <3>1 DEF Tiles
  <2>2. CASE c /= b
    <3>1. c + tz[c] = c + sz[c] /\ c + sz[c] \in B \cup {HeapSize}
      BY <2>2 DEF Tiles
    <3>2. CASE c + sz[c] = r
      <4>1. c <= r - 1 /\ r - 1 < c + sz[c] /\ b <= r - 1 /\ r - 1 < b + sz[b]
            /\ r - 1 \in Int
        BY <3>2, <1>1, <1>2
      <4>2. c = b
        BY <4>1, OneBlock
      <4> QED BY <4>2, <2>2
    <3>3. CASE c + sz[c] /= r
      BY <3>1, <3>3
    <3> QED BY <3>2, <3>3
  <2> QED BY <2>1, <2>2
<1>5. ASSUME NEW c \in C \ {0} PROVE \E d \in C : d + tz[d] = c
  <2>1. PICK d \in B : d + sz[d] = c
    BY DEF Tiles
  <2>2. CASE d = r
    <3>1. b + tz[b] = c
      BY <2>1, <2>2, <1>1
    <3> QED BY <3>1, <1>2
  <2>3. CASE d /= r
    <3>1. d /= b
      BY <2>1
    <3> QED BY <2>1, <2>3, <3>1
  <2> QED BY <2>2, <2>3
<1>6. ASSUME NEW c \in C, NEW d \in C, c < d PROVE c + tz[c] <= d
  <2>1. \A x, y \in B : x < y => x + sz[x] <= y
    BY DEF Tiles
  <2>2. CASE c = b
    <3>1. r <= d /\ d /= r
      BY <2>1, <2>2, <1>6
    <3>2. r < d
      BY <3>1, <1>1
    <3>3. r + sz[r] <= d
      BY <3>2, <2>1
    <3> QED BY <3>3, <2>2, <1>1
  <2>3. CASE c /= b
    <3>1. c + sz[c] <= d
      BY <2>1, <1>6
    <3> QED BY <3>1, <2>3
  <2> QED BY <2>2, <2>3
<1> QED BY <1>3, <1>4, <1>5, <1>6 DEF Tiles

(***************************************************************************)
(* The inductive invariant: the safety properties of Heap hold together.   *)
(***************************************************************************)
HeapInv ==
  /\ TypeOK
  /\ TagsIntact
  /\ FootersIntact
  /\ Tiling
  /\ NoAdjacentHoles

SizeOf == [b \in Addr |-> Size(b)]

(* The tags memory holds are told apart by their kind.                     *)
LEMMA CellFields ==
  /\ \A h, s : /\ HeaderCell(h, s).kind = "header"
               /\ HeaderCell(h, s).hole = h
               /\ HeaderCell(h, s).size = s
  /\ \A b : FooterCell(b).kind = "footer" /\ FooterCell(b).header = b
  /\ Blank.kind = "blank"
  /\ \A h \in BOOLEAN, s \in 0 .. HeapSize : HeaderCell(h, s) \in Cells
  /\ \A b \in Addr : FooterCell(b) \in Cells
  /\ Blank \in Cells
BY DEF HeaderCell, FooterCell, Blank, Cells, Headers, Footers

(* What the header that malloc_heap and free_heap write holds.             *)
LEMMA HeaderFields ==
  ASSUME NEW c, NEW h, NEW s, c = HeaderCell(h, s)
  PROVE  c.kind = "header" /\ c.hole = h /\ c.size = s
BY CellFields, Zenon

(* The assumption on the constants, in the form the steps need.            *)
LEMMA Constants ==
  /\ HSize \in Nat /\ HSize > 0
  /\ FSize \in Nat /\ FSize > 0
  /\ HeapSize \in Nat
  /\ Overhead = HSize + FSize
  /\ Overhead \in Nat
  /\ Overhead <= HeapSize
  /\ MaxHoles \in Nat /\ MaxHoles > 0
  /\ Sizes \subseteq Nat
  /\ Words \subseteq Cells
  /\ Addr = 0 .. HeapSize - 1
BY HeapAssumption DEF Overhead, Addr

(* What the invariant says of each block.                                  *)
LEMMA BlockFacts ==
  ASSUME HeapInv
  PROVE  /\ Blocks \subseteq Addr
         /\ Holes \subseteq Addr
         /\ \A b \in Blocks :
              /\ mem[b].kind = "header"
              /\ mem[b].hole = (b \in Holes)
              /\ Size(b) \in Nat
              /\ Overhead <= Size(b)
              /\ b + Size(b) <= HeapSize
              /\ SizeOf[b] = Size(b)
              /\ b \in Nat
<1>1. Holes \subseteq Addr
  BY DEF HeapInv, TypeOK, Holes, Range
<1>2. Blocks \subseteq Addr
  BY <1>1 DEF HeapInv, TypeOK, Blocks
<1>3. ASSUME NEW b \in Blocks
      PROVE  /\ mem[b].kind = "header"
             /\ mem[b].hole = (b \in Holes)
             /\ Overhead <= Size(b)
             /\ b + Size(b) <= HeapSize
  <2>1. /\ mem[b] = HeaderCell(b \in Holes, Size(b))
        /\ Overhead <= Size(b)
        /\ b + Size(b) <= HeapSize
    BY DEF HeapInv, TagsIntact
  <2>2. mem[b].kind = "header" /\ mem[b].hole = (b \in Holes)
    BY <2>1, HeaderFields, Zenon
  <2> QED BY <2>1, <2>2, Zenon
<1>4. ASSUME NEW b \in Blocks PROVE Size(b) \in Nat
  <2>1. mem[b] \in Cells /\ mem[b].kind = "header"
    BY <1>2, <1>3 DEF HeapInv, TypeOK
  <2>2. mem[b] \in Headers
    BY <2>1 DEF Cells, Blank, Footers
  <2> QED BY <2>2, Constants DEF Headers, Size
<1>5. ASSUME NEW b \in Blocks PROVE SizeOf[b] = Size(b) /\ b \in Nat
  BY <1>2, Constants DEF SizeOf
<1> QED BY <1>1, <1>2, <1>3, <1>4, <1>5

(* The invariant makes the blocks a tiling in the sense of the lemmas      *)
(* above.                                                                  *)
LEMMA InvTiles == HeapInv => Tiles(Blocks, SizeOf)
<1> SUFFICES ASSUME HeapInv PROVE Tiles(Blocks, SizeOf)
  OBVIOUS
<1>1. /\ Blocks \subseteq Nat
      /\ \A b \in Blocks : SizeOf[b] \in Nat \ {0}
  BY BlockFacts, Constants
<1>2. \A b \in Blocks : SizeOf[b] = Size(b)
  BY BlockFacts
<1>3. /\ 0 \in Blocks
      /\ \A b \in Blocks : b + Size(b) \in Blocks \cup {HeapSize}
      /\ \A b \in Blocks \ {0} : \E c \in Blocks : c + Size(c) = b
      /\ \A b, c \in Blocks : b < c => b + Size(b) <= c
  BY DEF HeapInv, Tiling
<1> HIDE DEF Size
<1> QED BY <1>1, <1>2, <1>3 DEF Tiles

(* Blocks that share an address are the same block.                        *)
LEMMA SameBlock ==
  ASSUME HeapInv, NEW b \in Blocks, NEW c \in Blocks, NEW x \in Int,
         b <= x, x < b + Size(b), c <= x, x < c + Size(c)
  PROVE  b = c
BY InvTiles, BlockFacts, OneBlock

(* A step that leaves index and live alone and writes no block's header or *)
(* footer preserves the invariant.                                         *)
LEMMA TagsKept ==
  ASSUME HeapInv, UNCHANGED <<index, live>>,
         mem' \in [Addr -> Cells],
         status' \in {"running", "aborted", "faulted"},
         \A b \in Blocks :
           mem'[b] = mem[b] /\ mem'[b + Size(b) - FSize] = mem[b + Size(b) - FSize]
  PROVE  HeapInv'
<1>1. Holes' = Holes /\ LiveBlocks' = LiveBlocks /\ Blocks' = Blocks
  BY DEF Holes, LiveBlocks, Blocks, Header
<1>2. \A b \in Blocks : Size(b)' = Size(b)
  BY DEF Size
<1>3. TypeOK'
  BY <1>1 DEF HeapInv, TypeOK
<1>4. TagsIntact'
  <2>1. \A p \in DOMAIN live : Header(p) \in Blocks
    BY DEF Blocks, LiveBlocks
  <2>2. ASSUME NEW b \in Blocks'
        PROVE  /\ mem'[b] = HeaderCell(b \in Holes', Size(b)')
               /\ Overhead <= Size(b)'
               /\ b + Size(b)' <= HeapSize
    <3>1. b \in Blocks
      BY <1>1
    <3>2. /\ mem[b] = HeaderCell(b \in Holes, Size(b))
          /\ Overhead <= Size(b)
          /\ b + Size(b) <= HeapSize
      BY <3>1 DEF HeapInv, TagsIntact
    <3>3. mem'[b] = mem[b] /\ Size(b)' = Size(b)
      BY <3>1, <1>2
    <3> QED BY <3>2, <3>3, <1>1, Zenon
  <2>3. ASSUME NEW p \in DOMAIN live'
        PROVE  live'[p] + Overhead <= Size(Header(p))'
    <3>1. live[p] + Overhead <= Size(Header(p)) /\ Header(p) \in Blocks
      BY <2>1 DEF HeapInv, TagsIntact
    <3>2. Size(Header(p))' = Size(Header(p))
      BY <3>1 DEF Size, Header
    <3> QED BY <3>1, <3>2
  <2> QED BY <2>2, <2>3 DEF TagsIntact
<1>5. FootersIntact'
  BY <1>1, <1>2 DEF HeapInv, FootersIntact, Size
<1>6. Tiling'
  BY <1>1, <1>2 DEF HeapInv, Tiling, Size
<1>7. NoAdjacentHoles'
  BY <1>1, <1>2 DEF HeapInv, NoAdjacentHoles, Size, Blocks
<1> QED BY <1>3, <1>4, <1>5, <1>6, <1>7 DEF HeapInv

(* A client that writes its payload reaches no tag of any block.           *)
LEMMA StoreStep ==
  ASSUME HeapInv, NEW p \in DOMAIN live, NEW w \in Words, Store(p, w)
  PROVE  HeapInv'
<1> DEFINE h == Header(p)
<1>1. mem' \in [Addr -> Cells]
  BY Constants DEF Store, HeapInv, TypeOK
<1>2. h \in Blocks /\ live[p] \in Nat /\ live[p] + Overhead <= Size(h) /\ p = h + HSize
  BY Constants DEF HeapInv, TypeOK, TagsIntact, Blocks, LiveBlocks, Header
<1>3. ASSUME NEW b \in Blocks, NEW x \in Int, b <= x, x < b + Size(b),
             x < b + HSize \/ x >= b + Size(b) - FSize
      PROVE  x \notin Payload(p)
  <2> SUFFICES ASSUME x \in Payload(p) PROVE FALSE
    OBVIOUS
  <2>1. h \in Nat /\ Size(h) \in Nat /\ b \in Nat /\ Size(b) \in Nat
    BY <1>2, BlockFacts
  <2>2. p <= x /\ x < p + live[p]
    BY <2>1, <1>2, Constants DEF Payload
  <2>3. h <= x /\ x < h + Size(h)
    BY <2>1, <2>2, <1>2, Constants
  <2>4. b = h
    BY <2>3, <1>2, <1>3, SameBlock
  <2> QED BY <2>1, <2>2, <2>4, <1>2, <1>3, Constants
<1>4. ASSUME NEW b \in Blocks
      PROVE  /\ mem'[b] = mem[b]
             /\ mem'[b + Size(b) - FSize] = mem[b + Size(b) - FSize]
  <2>1. b \in Addr /\ b \in Nat /\ Size(b) \in Nat /\ Overhead <= Size(b)
        /\ b + Size(b) <= HeapSize
    BY BlockFacts
  <2>2. b \notin Payload(p)
    BY <2>1, <1>3, Constants
  <2>3. b + Size(b) - FSize \notin Payload(p) /\ b + Size(b) - FSize \in Addr
    BY <2>1, <1>3, Constants
  <2> QED BY <2>1, <2>2, <2>3 DEF Store
<1>5. UNCHANGED <<index, live>> /\ status' \in {"running", "aborted", "faulted"}
  BY DEF Store, HeapInv, TypeOK
<1> QED BY <1>1, <1>4, <1>5, TagsKept

(* The invariant of the next state, from what a step makes of the tiling,  *)
(* the headers, the footers and the index.                                 *)
LEMMA BuildInv ==
  ASSUME mem' \in [Addr -> Cells],
         status' \in {"running", "aborted", "faulted"},
         index' \in Seq(Addr), Len(index') <= MaxHoles,
         \A i, j \in 1 .. Len(index') : index'[i] = index'[j] => i = j,
         DOMAIN live' \subseteq Addr, live' \in [DOMAIN live' -> Sizes],
         LiveBlocks' \subseteq Addr,
         Holes' \cap LiveBlocks' = {},
         Tiles(Blocks', SizeOf'),
         \A b \in Blocks' : /\ mem'[b] = HeaderCell(b \in Holes', SizeOf'[b])
                            /\ Overhead <= SizeOf'[b],
         \A p \in DOMAIN live' : live'[p] + Overhead <= SizeOf'[Header(p)],
         \A b \in Blocks' :
           b + SizeOf'[b] < HeapSize \/ b \in LiveBlocks'
             => mem'[b + SizeOf'[b] - FSize] = FooterCell(b),
         \A b \in Holes' : b + SizeOf'[b] \notin Holes'
  PROVE  HeapInv'
<1>1. Holes' \subseteq Addr
  BY DEF Holes, Range
<1>2. Blocks' \subseteq Addr /\ Holes' \subseteq Blocks' /\ Blocks' = Holes' \cup LiveBlocks'
  BY <1>1 DEF Blocks
<1>3. \A b \in Addr : Size(b)' = SizeOf'[b]
  BY DEF SizeOf
<1>4. \A b \in Blocks' : Size(b)' = SizeOf'[b]
  BY <1>2, <1>3
<1>5. \A p \in DOMAIN live' : Header(p) \in LiveBlocks'
  BY DEF LiveBlocks, Header
<1>6. TypeOK'
  BY DEF TypeOK
<1>7. TagsIntact'
  <2>1. ASSUME NEW b \in Blocks'
        PROVE  /\ mem'[b] = HeaderCell(b \in Holes', Size(b)')
               /\ Overhead <= Size(b)'
               /\ b + Size(b)' <= HeapSize
    <3>1. /\ mem'[b] = HeaderCell(b \in Holes', SizeOf'[b])
          /\ Overhead <= SizeOf'[b]
          /\ Size(b)' = SizeOf'[b]
      BY <1>4
    <3>2. b + SizeOf'[b] \in Blocks' \cup {HeapSize}
      BY DEF Tiles
    <3>3. b + SizeOf'[b] <= HeapSize
      BY <3>2, <1>2, Constants
    <3> QED BY <3>1, <3>3, Zenon
  <2>2. ASSUME NEW p \in DOMAIN live'
        PROVE  live'[p] + Overhead <= Size(Header(p))'
    <3>1. Size(Header(p))' = SizeOf'[Header(p)]
      BY <1>3, <1>5 DEF Header
    <3> QED BY <3>1
  <2> QED BY <2>1, <2>2 DEF TagsIntact
<1>8. FootersIntact'
  BY <1>4 DEF FootersIntact
<1>9. Tiling'
  <2>1. /\ 0 \in Blocks'
        /\ \A b \in Blocks' : b + SizeOf'[b] \in Blocks' \cup {HeapSize}
        /\ \A b \in Blocks' \ {0} : \E c \in Blocks' : c + SizeOf'[c] = b
        /\ \A b, c \in Blocks' : b < c => b + SizeOf'[b] <= c
    BY DEF Tiles
  <2> HIDE DEF Size, SizeOf
  <2> QED BY <1>4, <2>1 DEF Tiling
<1>10. NoAdjacentHoles'
  <2>1. \A b \in Holes' : Size(b)' = SizeOf'[b]
    BY <1>2, <1>4
  <2> QED BY <2>1 DEF NoAdjacentHoles
<1> QED BY <1>6, <1>7, <1>8, <1>9, <1>10 DEF HeapInv

(* create_heap establishes the invariant: one hole of the full size.       *)
THEOREM InitInv == Init => HeapInv
<1> SUFFICES ASSUME Init PROVE HeapInv
  OBVIOUS
<1>1. Holes = {0} /\ LiveBlocks = {} /\ Blocks = {0}
  BY DEF Init, Holes, LiveBlocks, Blocks, Range
<1>2. 0 \in Addr /\ mem[0] = HeaderCell(TRUE, HeapSize) /\ Size(0) = HeapSize
  <2>1. 0 \in Addr
    BY Constants
  <2>2. mem[0] = HeaderCell(TRUE, HeapSize)
    BY <2>1 DEF Init
  <2>3. mem[0].size = HeapSize
    BY <2>2, HeaderFields, Zenon
  <2> QED BY <2>1, <2>2, <2>3 DEF Size
<1>3. TypeOK
  <2>1. mem \in [Addr -> Cells]
    <3>1. HeaderCell(TRUE, HeapSize) \in Cells /\ Blank \in Cells
      <4>1. TRUE \in BOOLEAN /\ HeapSize \in 0 .. HeapSize
        BY Constants
      <4> QED BY <4>1, CellFields, Zenon
    <3> QED BY <3>1 DEF Init
  <2>2. index \in Seq(Addr) /\ Len(index) <= MaxHoles
    BY <1>2, Constants DEF Init
  <2>3. DOMAIN live = {} /\ live \in [DOMAIN live -> Sizes]
    BY DEF Init
  <2> QED BY <1>1, <2>1, <2>2, <2>3 DEF TypeOK, Init
<1>4. TagsIntact
  <2>1. DOMAIN live = {}
    BY DEF Init
  <2>2. mem[0] = HeaderCell(0 \in Holes, Size(0))
    <3>1. (0 \in Holes) = TRUE
      BY <1>1
    <3> QED BY <1>2, <3>1, Zenon
  <2> QED BY <1>1, <1>2, <2>1, <2>2, Constants DEF TagsIntact
<1>5. FootersIntact
  BY <1>1, <1>2, Constants DEF FootersIntact
<1>6. Tiling
  BY <1>1, <1>2, Constants DEF Tiling, Init
<1>7. NoAdjacentHoles
  BY <1>1, <1>2, Constants DEF NoAdjacentHoles
<1> QED BY <1>3, <1>4, <1>5, <1>6, <1>7 DEF HeapInv

(* The index without its entry at i.                                       *)
LEMMA RemovedIndex ==
  ASSUME HeapInv, NEW i \in 1 .. Len(index)
  PROVE  /\ RemoveAt(index, i) \in Seq(Addr)
         /\ Len(RemoveAt(index, i)) = Len(index) - 1
         /\ Range(RemoveAt(index, i)) = Holes \ {index[i]}
         /\ \A j, k \in 1 .. Len(RemoveAt(index, i)) :
              RemoveAt(index, i)[j] = RemoveAt(index, i)[k] => j = k
         /\ index[i] \in Holes
         /\ Len(index) \in Nat
<1>1. /\ index \in Seq(Addr)
      /\ \A j, k \in 1 .. Len(index) : index[j] = index[k] => j = k
  BY DEF HeapInv, TypeOK, Tiling
<1>2. DOMAIN index = 1 .. Len(index) /\ Len(index) \in Nat
  BY <1>1
<1>3. index[i] \in Holes
  BY <1>2 DEF Holes, Range
<1> QED BY <1>1, <1>2, <1>3, RemoveAtFacts DEF Holes

(* A hole entered into a valid index idx.                                  *)
LEMMA InsertedIndex ==
  ASSUME NEW idx \in Seq(Addr), NEW item \in Addr, NEW m,
         item \notin Range(idx),
         \A j, k \in 1 .. Len(idx) : idx[j] = idx[k] => j = k,
         Insert(item, idx, m)
  PROVE  /\ index' \in Seq(Addr)
         /\ Len(index') = Len(idx) + 1
         /\ Holes' = Range(idx) \cup {item}
         /\ \A j, k \in 1 .. Len(index') : index'[j] = index'[k] => j = k
<1>1. PICK k \in 1 .. Len(idx) + 1 : index' = InsertAt(idx, k, item)
  BY DEF Insert
<1>2. /\ InsertAt(idx, k, item) \in Seq(Addr)
      /\ Len(InsertAt(idx, k, item)) = Len(idx) + 1
      /\ Range(InsertAt(idx, k, item)) = Range(idx) \cup {item}
      /\ \A j, l \in 1 .. Len(InsertAt(idx, k, item)) :
           InsertAt(idx, k, item)[j] = InsertAt(idx, k, item)[l] => j = l
  BY InsertAtFacts
<1> QED BY <1>1, <1>2 DEF Holes

(* The clients of the next state when a pointer to block b is handed out.  *)
LEMMA NewPointer ==
  ASSUME HeapInv, NEW n \in Sizes, NEW b \in Holes, b + HSize \in Addr,
         live' = [p \in DOMAIN live \cup {b + HSize} |->
                    IF p = b + HSize THEN n ELSE live[p]]
  PROVE  /\ DOMAIN live' \subseteq Addr
         /\ live' \in [DOMAIN live' -> Sizes]
         /\ LiveBlocks' = LiveBlocks \cup {b}
         /\ \A p \in DOMAIN live' :
              \/ Header(p) = b /\ live'[p] = n
              \/ p \in DOMAIN live /\ Header(p) \in LiveBlocks /\ live'[p] = live[p]
<1>1. /\ DOMAIN live \subseteq Addr
      /\ live \in [DOMAIN live -> Sizes]
      /\ b \in Int
  BY BlockFacts, Constants DEF HeapInv, TypeOK
<1>2. DOMAIN live' = DOMAIN live \cup {b + HSize}
  OBVIOUS
<1>3. Header(b + HSize) = b
  BY <1>1, Constants DEF Header
<1>4. LiveBlocks' = LiveBlocks \cup {b}
  BY <1>2, <1>3 DEF LiveBlocks, Header
<1>5. \A p \in DOMAIN live : Header(p) \in LiveBlocks
  BY DEF LiveBlocks
<1>6. \A p \in DOMAIN live' :
        \/ p = b + HSize /\ live'[p] = n
        \/ p \in DOMAIN live /\ live'[p] = live[p]
  OBVIOUS
<1> QED BY <1>1, <1>2, <1>3, <1>4, <1>5, <1>6

(* malloc_heap that leaves a new hole behind the block preserves the       *)
(* invariant.                                                              *)
LEMMA SplitStep ==
  ASSUME HeapInv, NEW n \in Sizes, NEW i \in 1 .. Len(index),
         FirstFit(i, n + Overhead), MallocSplit(n, i), UNCHANGED status,
         live' = [p \in DOMAIN live \cup {index[i] + HSize} |->
                    IF p = index[i] + HSize THEN n ELSE live[p]]
  PROVE  HeapInv'
<1> DEFINE b    == index[i]
           w    == n + Overhead
           rest == b + w
           left == Left(n, i)
           foot == rest + left - FSize
           cut  == rest - FSize
<1>1. b \in Holes /\ b \in Blocks /\ b \in Addr
  BY RemovedIndex, BlockFacts DEF Blocks
<1>2. /\ n \in Nat /\ w \in Nat /\ w >= Overhead
      /\ Size(b) \in Nat /\ b \in Nat /\ b + Size(b) <= HeapSize
      /\ left \in Nat /\ left >= Overhead /\ Size(b) = w + left
  <2>1. /\ n \in Nat /\ Size(b) \in Nat /\ b \in Nat /\ b + Size(b) <= HeapSize
    BY <1>1, BlockFacts, Constants
  <2>2. Size(b) >= w
    BY DEF FirstFit
  <2>3. ~(left < Overhead) /\ left = Size(b) - w
    BY DEF MallocSplit, TakesWhole, Left
  <2> QED BY <2>1, <2>2, <2>3, Constants
<1> HIDE DEF b, w, left
<1>3. /\ rest \in Addr /\ foot \in Addr /\ cut \in Addr
      /\ b < cut /\ cut < rest /\ rest < foot /\ foot < b + Size(b)
      /\ b + HSize \in Addr
  BY <1>2, Constants
<1>a. rest = b + n + Overhead
  BY <1>2, Constants DEF w
<1>4. mem' = [mem EXCEPT ![b] = HeaderCell(FALSE, w), ![cut] = FooterCell(b),
                         ![rest] = HeaderCell(TRUE, left), ![foot] = FooterCell(rest)]
  <2>1. mem' = MemAfterSplit(n, i)
    BY DEF MallocSplit
  <2> HIDE DEF rest
  <2> QED BY <2>1, <1>a DEF MemAfterSplit, b, w, left
<1> HIDE DEF rest, foot, cut
<1>5. /\ HeaderCell(FALSE, w) \in Cells /\ HeaderCell(TRUE, left) \in Cells
      /\ FooterCell(b) \in Cells /\ FooterCell(rest) \in Cells
  <2>1. /\ FALSE \in BOOLEAN /\ TRUE \in BOOLEAN
        /\ w \in 0 .. HeapSize /\ left \in 0 .. HeapSize
    BY <1>2, Constants
  <2> QED BY <2>1, <1>1, <1>3, CellFields, Zenon
<1>6. /\ mem' \in [Addr -> Cells]
      /\ mem'[b] = HeaderCell(FALSE, w)
      /\ mem'[cut] = FooterCell(b)
      /\ mem'[rest] = HeaderCell(TRUE, left)
      /\ mem'[foot] = FooterCell(rest)
      /\ \A a \in Addr \ {b, cut, rest, foot} : mem'[a] = mem[a]
  <2>1. mem \in [Addr -> Cells]
    BY DEF HeapInv, TypeOK
  <2>2. b /= cut /\ b /= rest /\ b /= foot /\ cut /= rest /\ cut /= foot /\ rest /= foot
    BY <1>2, <1>3, Constants
  <2> QED BY <2>1, <2>2, <1>1, <1>3, <1>4, <1>5
<1>7. ASSUME NEW c \in Blocks \ {b}, NEW x \in Int, c <= x, x < c + Size(c)
      PROVE  x \notin {b, cut, rest, foot}
  <2>1. ~(b <= x /\ x < b + Size(b))
    BY <1>1, <1>7, SameBlock
  <2> QED BY <2>1, <1>2, <1>3, Constants
<1>8. ASSUME NEW c \in Blocks \ {b}
      PROVE  /\ c \in Addr /\ c \in Nat /\ Size(c) \in Nat /\ Overhead <= Size(c)
             /\ c /= rest
             /\ mem'[c] = mem[c]
             /\ c + Size(c) - FSize \in Addr
             /\ mem'[c + Size(c) - FSize] = mem[c + Size(c) - FSize]
  <2>1. /\ c \in Addr /\ c \in Nat /\ Size(c) \in Nat /\ Overhead <= Size(c)
        /\ c + Size(c) <= HeapSize
    BY BlockFacts
  <2>2. c \notin {b, cut, rest, foot} /\ c + Size(c) - FSize \notin {b, cut, rest, foot}
    BY <2>1, <1>7, Constants
  <2>3. c + Size(c) - FSize \in Addr
    BY <2>1, Constants
  <2> QED BY <2>1, <2>2, <2>3, <1>6
<1>9. rest \notin Blocks
  BY <1>2, <1>3, <1>8, Constants
<1>10. /\ index' \in Seq(Addr)
       /\ Len(index') = Len(index)
       /\ Holes' = (Holes \ {b}) \cup {rest}
       /\ \A j, k \in 1 .. Len(index') : index'[j] = index'[k] => j = k
  <2>1. rest \notin Range(RemoveAt(index, i))
    <3>1. Range(RemoveAt(index, i)) = Holes \ {index[i]}
      BY RemovedIndex
    <3> QED BY <3>1, <1>9 DEF Blocks
  <2>2. Insert(rest, RemoveAt(index, i), MemAfterSplit(n, i))
    BY <1>a DEF MallocSplit, b
  <2>3. /\ index' \in Seq(Addr)
        /\ Len(index') = Len(RemoveAt(index, i)) + 1
        /\ Holes' = Range(RemoveAt(index, i)) \cup {rest}
        /\ \A j, k \in 1 .. Len(index') : index'[j] = index'[k] => j = k
    BY <2>1, <2>2, <1>3, RemovedIndex, InsertedIndex
  <2>4. /\ Len(RemoveAt(index, i)) = Len(index) - 1 /\ Len(index) \in Nat
        /\ Range(RemoveAt(index, i)) = Holes \ {b}
    BY RemovedIndex DEF b
  <2> QED BY <2>3, <2>4
<1>11. /\ DOMAIN live' \subseteq Addr
       /\ live' \in [DOMAIN live' -> Sizes]
       /\ LiveBlocks' = LiveBlocks \cup {b}
       /\ \A p \in DOMAIN live' :
            \/ Header(p) = b /\ live'[p] = n
            \/ p \in DOMAIN live /\ Header(p) \in LiveBlocks /\ live'[p] = live[p]
  <2>1. live' = [p \in DOMAIN live \cup {b + HSize} |->
                   IF p = b + HSize THEN n ELSE live[p]]
    BY DEF b
  <2> QED BY <2>1, <1>1, <1>3, NewPointer
<1>12. /\ Holes \cap LiveBlocks = {} /\ Blocks = Holes \cup LiveBlocks
       /\ LiveBlocks \subseteq Addr
  BY DEF HeapInv, TypeOK, Tiling, Blocks
<1>13. /\ Blocks' = Blocks \cup {rest}
       /\ Holes' \cap LiveBlocks' = {}
       /\ LiveBlocks' \subseteq Addr
       /\ b /= rest
  BY <1>1, <1>3, <1>9, <1>10, <1>11, <1>12 DEF Blocks
<1>14. /\ SizeOf'[b] = w
       /\ SizeOf'[rest] = left
       /\ \A c \in Blocks \ {b} : SizeOf'[c] = Size(c)
  <2>1. \A a \in Addr : SizeOf'[a] = mem'[a].size
    BY DEF SizeOf, Size
  <2>2. mem'[b].size = w /\ mem'[rest].size = left
    <3>1. mem'[b] = HeaderCell(FALSE, w) /\ mem'[rest] = HeaderCell(TRUE, left)
      BY <1>6
    <3>2. HeaderCell(FALSE, w).size = w /\ HeaderCell(TRUE, left).size = left
      BY CellFields, Zenon
    <3> QED BY <3>1, <3>2, Zenon
  <2>3. \A c \in Blocks \ {b} : mem'[c].size = Size(c)
    BY <1>8 DEF Size
  <2> QED BY <2>1, <2>2, <2>3, <1>1, <1>3, <1>8
<1>15. Tiles(Blocks', SizeOf')
  <2>1. \A c \in Blocks : SizeOf[c] = Size(c)
    BY BlockFacts
  <2>2. Tiles(Blocks \cup {b + w}, SizeOf')
    <3>1. 0 < w /\ w < SizeOf[b] /\ SizeOf'[b + w] = SizeOf[b] - w
      BY <2>1, <1>1, <1>2, <1>14, Constants DEF rest
    <3>2. \A c \in Blocks \ {b} : SizeOf'[c] = SizeOf[c]
      BY <2>1, <1>14
    <3> QED BY <3>1, <3>2, <1>1, <1>2, <1>14, InvTiles, SplitTiles
  <2> QED BY <2>2, <1>13 DEF rest
<1>16. ASSUME NEW c \in Blocks'
       PROVE  mem'[c] = HeaderCell(c \in Holes', SizeOf'[c]) /\ Overhead <= SizeOf'[c]
  <2>1. CASE c = b
    <3>1. (b \in Holes') = FALSE
      BY <1>10, <1>13
    <3> QED BY <2>1, <3>1, <1>2, <1>6, <1>14, Zenon
  <2>2. CASE c = rest
    <3>1. (rest \in Holes') = TRUE
      BY <1>10
    <3> QED BY <2>2, <3>1, <1>2, <1>6, <1>14, Zenon
  <2>3. CASE c \in Blocks \ {b}
    <3>1. (c \in Holes') = (c \in Holes)
      BY <2>3, <1>8, <1>10
    <3>2. mem[c] = HeaderCell(c \in Holes, Size(c))
      BY <2>3 DEF HeapInv, TagsIntact
    <3>3. mem'[c] = mem[c] /\ SizeOf'[c] = Size(c) /\ Overhead <= Size(c)
      BY <2>3, <1>8, <1>14
    <3> QED BY <3>1, <3>2, <3>3, Zenon
  <2> QED BY <2>1, <2>2, <2>3, <1>13
<1>17. ASSUME NEW p \in DOMAIN live' PROVE live'[p] + Overhead <= SizeOf'[Header(p)]
  <2>1. CASE Header(p) = b /\ live'[p] = n
    BY <2>1, <1>2, <1>14 DEF w
  <2>2. CASE p \in DOMAIN live /\ Header(p) \in LiveBlocks /\ live'[p] = live[p]
    <3>1. Header(p) \in Blocks \ {b}
      BY <2>2, <1>1, <1>12
    <3>2. live[p] + Overhead <= Size(Header(p))
      BY <2>2 DEF HeapInv, TagsIntact
    <3> QED BY <2>2, <3>1, <3>2, <1>14
  <2> QED BY <2>1, <2>2, <1>11
<1>18. ASSUME NEW c \in Blocks', c + SizeOf'[c] < HeapSize \/ c \in LiveBlocks'
       PROVE  mem'[c + SizeOf'[c] - FSize] = FooterCell(c)
  <2>1. CASE c = b
    <3>1. c + SizeOf'[c] - FSize = cut
      BY <2>1, <1>2, <1>14, Constants DEF cut, rest
    <3> QED BY <2>1, <3>1, <1>6
  <2>2. CASE c = rest
    <3>1. c + SizeOf'[c] - FSize = foot
      BY <2>2, <1>2, <1>14, Constants DEF foot
    <3> QED BY <2>2, <3>1, <1>6
  <2>3. CASE c \in Blocks \ {b}
    <3>1. SizeOf'[c] = Size(c) /\ (c \in LiveBlocks' => c \in LiveBlocks)
      BY <2>3, <1>11, <1>14
    <3>2. mem[c + Size(c) - FSize] = FooterCell(c)
      BY <2>3, <3>1, <1>18 DEF HeapInv, FootersIntact
    <3> QED BY <2>3, <3>1, <3>2, <1>8
  <2> QED BY <2>1, <2>2, <2>3, <1>13
<1>19. ASSUME NEW c \in Holes' PROVE c + SizeOf'[c] \notin Holes'
  <2>1. CASE c = rest
    <3>1. c + SizeOf'[c] = b + Size(b)
      BY <2>1, <1>2, <1>14 DEF rest
    <3>2. b + Size(b) \notin Holes
      BY <1>1 DEF HeapInv, NoAdjacentHoles
    <3>3. b + Size(b) /= rest
      BY <1>2, <1>3, Constants
    <3> QED BY <3>1, <3>2, <3>3, <1>10
  <2>2. CASE c \in Holes \ {b}
    <3>1. c \in Blocks \ {b} /\ c + SizeOf'[c] = c + Size(c)
      BY <2>2, <1>12, <1>14
    <3>2. c + Size(c) \notin Holes
      BY <2>2 DEF HeapInv, NoAdjacentHoles
    <3>3. c + Size(c) /= rest
      BY <3>1, <1>9, <1>3, <1>2, Constants DEF HeapInv, Tiling
    <3> QED BY <3>1, <3>2, <3>3, <1>10
  <2> QED BY <2>1, <2>2, <1>10
<1>20. /\ status' \in {"running", "aborted", "faulted"}
       /\ Len(index') <= MaxHoles
  BY <1>10 DEF HeapInv, TypeOK
<1> QED BY <1>6, <1>10, <1>11, <1>13, <1>15, <1>16, <1>17, <1>18, <1>19, <1>20, BuildInv

(* malloc_heap that hands out a whole hole preserves the invariant.        *)
LEMMA WholeStep ==
  ASSUME HeapInv, NEW n \in Sizes, NEW i \in 1 .. Len(index),
         FirstFit(i, n + Overhead), MallocWhole(n, i), UNCHANGED status,
         live' = [p \in DOMAIN live \cup {index[i] + HSize} |->
                    IF p = index[i] + HSize THEN n ELSE live[p]]
  PROVE  HeapInv'
<1> DEFINE b    == index[i]
           foot == b + Size(b) - FSize
<1>1. b \in Holes /\ b \in Blocks /\ b \in Addr
  BY RemovedIndex, BlockFacts DEF Blocks
<1>2. /\ n \in Nat /\ Size(b) \in Nat /\ b \in Nat /\ b + Size(b) <= HeapSize
      /\ Size(b) >= n + Overhead
  BY <1>1, BlockFacts, Constants DEF FirstFit
<1>3. mem' = [mem EXCEPT ![b] = HeaderCell(FALSE, Size(b)), ![foot] = FooterCell(b)]
  BY DEF MallocWhole
<1> HIDE DEF b
<1>4. foot \in Addr /\ b < foot /\ foot < b + Size(b) /\ b + HSize \in Addr
  BY <1>2, Constants
<1> HIDE DEF foot
<1>5. HeaderCell(FALSE, Size(b)) \in Cells /\ FooterCell(b) \in Cells
  <2>1. FALSE \in BOOLEAN /\ Size(b) \in 0 .. HeapSize
    BY <1>2, Constants
  <2> QED BY <2>1, <1>1, CellFields, Zenon
<1>6. /\ mem' \in [Addr -> Cells]
      /\ mem'[b] = HeaderCell(FALSE, Size(b))
      /\ mem'[foot] = FooterCell(b)
      /\ \A a \in Addr \ {b, foot} : mem'[a] = mem[a]
  <2>1. mem \in [Addr -> Cells]
    BY DEF HeapInv, TypeOK
  <2>2. b /= foot
    BY <1>2, <1>4, Constants
  <2> QED BY <2>1, <2>2, <1>1, <1>3, <1>4, <1>5
<1>7. ASSUME NEW c \in Blocks \ {b}, NEW x \in Int, c <= x, x < c + Size(c)
      PROVE  x \notin {b, foot}
  <2>1. ~(b <= x /\ x < b + Size(b))
    BY <1>1, <1>7, SameBlock
  <2> QED BY <2>1, <1>2, <1>4, Constants
<1>8. ASSUME NEW c \in Blocks \ {b}
      PROVE  /\ c \in Addr /\ Overhead <= Size(c)
             /\ mem'[c] = mem[c]
             /\ mem'[c + Size(c) - FSize] = mem[c + Size(c) - FSize]
  <2>1. /\ c \in Addr /\ c \in Nat /\ Size(c) \in Nat /\ Overhead <= Size(c)
        /\ c + Size(c) <= HeapSize
    BY BlockFacts
  <2>2. c \notin {b, foot} /\ c + Size(c) - FSize \notin {b, foot}
    BY <2>1, <1>7, Constants
  <2>3. c + Size(c) - FSize \in Addr
    BY <2>1, Constants
  <2> QED BY <2>1, <2>2, <2>3, <1>6
<1>9. /\ index' \in Seq(Addr)
      /\ Len(index') = Len(index) - 1
      /\ Holes' = Holes \ {b}
      /\ \A j, k \in 1 .. Len(index') : index'[j] = index'[k] => j = k
      /\ Len(index) \in Nat
  BY RemovedIndex DEF MallocWhole, Holes, b
<1>10. /\ DOMAIN live' \subseteq Addr
       /\ live' \in [DOMAIN live' -> Sizes]
       /\ LiveBlocks' = LiveBlocks \cup {b}
       /\ \A p \in DOMAIN live' :
            \/ Header(p) = b /\ live'[p] = n
            \/ p \in DOMAIN live /\ Header(p) \in LiveBlocks /\ live'[p] = live[p]
  <2>1. live' = [p \in DOMAIN live \cup {b + HSize} |->
                   IF p = b + HSize THEN n ELSE live[p]]
    BY DEF b
  <2> QED BY <2>1, <1>1, <1>4, NewPointer
<1>11. /\ Holes \cap LiveBlocks = {} /\ Blocks = Holes \cup LiveBlocks
       /\ LiveBlocks \subseteq Addr
  BY DEF HeapInv, TypeOK, Tiling, Blocks
<1>12. /\ Blocks' = Blocks
       /\ Holes' \cap LiveBlocks' = {}
       /\ LiveBlocks' \subseteq Addr
  BY <1>1, <1>9, <1>10, <1>11 DEF Blocks
<1>13. \A c \in Blocks : SizeOf'[c] = Size(c) /\ SizeOf[c] = Size(c)
  <2>1. \A a \in Addr : SizeOf'[a] = mem'[a].size
    BY DEF SizeOf, Size
  <2>2. mem'[b].size = Size(b)
    <3>1. HeaderCell(FALSE, Size(b)).size = Size(b)
      BY CellFields, Zenon
    <3> QED BY <3>1, <1>6, Zenon
  <2>3. \A c \in Blocks \ {b} : mem'[c].size = Size(c)
    BY <1>8 DEF Size
  <2> QED BY <2>1, <2>2, <2>3, <1>1, <1>8, BlockFacts
<1>14. Tiles(Blocks', SizeOf')
  <2>1. Tiles(Blocks, SizeOf)
    BY InvTiles
  <2> QED BY <2>1, <1>12, <1>13 DEF Tiles
<1>15. ASSUME NEW c \in Blocks'
       PROVE  mem'[c] = HeaderCell(c \in Holes', SizeOf'[c]) /\ Overhead <= SizeOf'[c]
  <2>1. CASE c = b
    <3>1. (b \in Holes') = FALSE
      BY <1>9
    <3>2. Overhead <= Size(b)
      BY <1>1, BlockFacts
    <3> QED BY <2>1, <3>1, <3>2, <1>1, <1>6, <1>13, Zenon
  <2>2. CASE c \in Blocks \ {b}
    <3>1. (c \in Holes') = (c \in Holes)
      BY <2>2, <1>9
    <3>2. mem[c] = HeaderCell(c \in Holes, Size(c))
      BY <2>2 DEF HeapInv, TagsIntact
    <3>3. mem'[c] = mem[c] /\ SizeOf'[c] = Size(c) /\ Overhead <= Size(c)
      BY <2>2, <1>8, <1>13
    <3> QED BY <3>1, <3>2, <3>3, Zenon
  <2> QED BY <2>1, <2>2, <1>12
<1>16. ASSUME NEW p \in DOMAIN live' PROVE live'[p] + Overhead <= SizeOf'[Header(p)]
  <2>1. CASE Header(p) = b /\ live'[p] = n
    BY <2>1, <1>1, <1>2, <1>13
  <2>2. CASE p \in DOMAIN live /\ Header(p) \in LiveBlocks /\ live'[p] = live[p]
    <3>1. Header(p) \in Blocks
      BY <2>2, <1>11
    <3>2. live[p] + Overhead <= Size(Header(p))
      BY <2>2 DEF HeapInv, TagsIntact
    <3> QED BY <2>2, <3>1, <3>2, <1>13
  <2> QED BY <2>1, <2>2, <1>10
<1>17. ASSUME NEW c \in Blocks', c + SizeOf'[c] < HeapSize \/ c \in LiveBlocks'
       PROVE  mem'[c + SizeOf'[c] - FSize] = FooterCell(c)
  <2>1. CASE c = b
    BY <2>1, <1>1, <1>6, <1>13 DEF foot
  <2>2. CASE c \in Blocks \ {b}
    <3>1. SizeOf'[c] = Size(c) /\ (c \in LiveBlocks' => c \in LiveBlocks)
      BY <2>2, <1>10, <1>13
    <3>2. mem[c + Size(c) - FSize] = FooterCell(c)
      BY <2>2, <3>1, <1>17 DEF HeapInv, FootersIntact
    <3> QED BY <2>2, <3>1, <3>2, <1>8
  <2> QED BY <2>1, <2>2, <1>12
<1>18. ASSUME NEW c \in Holes' PROVE c + SizeOf'[c] \notin Holes'
  <2>1. c \in Holes /\ SizeOf'[c] = Size(c)
    BY <1>9, <1>11, <1>13
  <2>2. c + Size(c) \notin Holes
    BY <2>1 DEF HeapInv, NoAdjacentHoles
  <2> QED BY <2>1, <2>2, <1>9
<1>19. /\ status' \in {"running", "aborted", "faulted"}
       /\ Len(index') <= MaxHoles
  BY <1>9, Constants DEF HeapInv, TypeOK
<1> QED BY <1>6, <1>9, <1>10, <1>12, <1>14, <1>15, <1>16, <1>17, <1>18, <1>19, BuildInv

(* What free_heap reads of a block's two neighbours is true of them.       *)
LEMMA Neighbours ==
  ASSUME HeapInv, NEW p \in DOMAIN live
  PROVE  /\ Header(p) \in LiveBlocks /\ Header(p) \in Blocks /\ Header(p) \notin Holes
         /\ Right(p) = Header(p) + Size(Header(p))
         /\ Right(p) \in Blocks \cup {HeapSize}
         /\ RightIsHole(p) <=> Right(p) \in Holes
         /\ LeftIsHole(p) => /\ Base(p) \in Holes
                            /\ Base(p) + Size(Base(p)) = Header(p)
         /\ ~LeftIsHole(p) => \A c \in Holes : c + Size(c) /= Header(p)
<1> DEFINE h == Header(p)
           r == Right(p)
<1>1. h \in LiveBlocks /\ h \in Blocks /\ h \notin Holes
  BY DEF LiveBlocks, Blocks, HeapInv, Tiling
<1>2. h \in Nat /\ Size(h) \in Nat /\ Overhead <= Size(h) /\ h \in Addr
  BY <1>1, BlockFacts
<1>3. r = h + Size(h)
  <2>1. r = (h + (Size(h) - FSize)) + FSize
    BY DEF Right, Footer
  <2> HIDE DEF r, h
  <2> QED BY <2>1, <1>2, Constants
<1>4. r \in Blocks \cup {HeapSize}
  BY <1>1, <1>3 DEF HeapInv, Tiling
<1>5. RightIsHole(p) <=> r \in Holes
  <2>1. CASE r \in Blocks
    <3>1. /\ mem[r].kind = "header"
          /\ mem[r].hole = (r \in Holes)
          /\ r \in Addr
      BY <2>1, BlockFacts
    <3>2. Magic(r) /\ r < HeapSize
      BY <3>1, Constants DEF Magic
    <3> QED BY <3>1, <3>2 DEF RightIsHole
  <2>2. CASE r = HeapSize
    <3>1. r \notin Holes /\ ~(r < HeapSize)
      BY <2>2, BlockFacts, Constants
    <3> QED BY <3>1 DEF RightIsHole
  <2> QED BY <2>1, <2>2, <1>4
<1>6. CASE h = 0
  <2>1. ~LeftIsHole(p)
    BY <1>6, Constants DEF LeftIsHole
  <2>2. ASSUME NEW c \in Holes PROVE c + Size(c) /= h
    <3>1. c \in Nat /\ Size(c) \in Nat /\ Overhead <= Size(c)
      BY BlockFacts DEF Blocks
    <3> QED BY <3>1, <1>6, Constants
  <2> QED BY <1>1, <1>3, <1>4, <1>5, <2>1, <2>2
<1>7. CASE h /= 0
  <2>1. PICK c \in Blocks : c + Size(c) = h
    BY <1>1, <1>7 DEF HeapInv, Tiling
  <2>2. c \in Nat /\ Size(c) \in Nat /\ Overhead <= Size(c) /\ mem[c].hole = (c \in Holes)
    BY BlockFacts
  <2>3. mem[h - FSize] = FooterCell(c)
    <3>1. c + Size(c) < HeapSize
      BY <2>1, <1>2, Constants
    <3>2. mem[c + Size(c) - FSize] = FooterCell(c)
      BY <3>1 DEF HeapInv, FootersIntact
    <3> HIDE DEF h
    <3>3. c + Size(c) - FSize = h - FSize
      BY <2>1, <2>2, <1>2, Constants
    <3> QED BY <3>2, <3>3, Zenon
  <2>4. mem[h - FSize].header = c /\ mem[h - FSize].kind = "footer"
    <3>1. FooterCell(c).header = c /\ FooterCell(c).kind = "footer"
      BY CellFields, Zenon
    <3> QED BY <3>1, <2>3, Zenon
  <2>5. h - FSize >= 0 /\ Magic(h - FSize)
    BY <2>1, <2>2, <2>4, Constants DEF Magic
  <2>6. LeftIsHole(p) <=> c \in Holes
    <3>1. LeftIsHole(p) <=> mem[mem[h - FSize].header].hole
      BY <2>5 DEF LeftIsHole
    <3> QED BY <3>1, <2>2, <2>4, Zenon
  <2>7. LeftIsHole(p) => Base(p) = c
    BY <2>4 DEF Base
  <2>8. ASSUME ~LeftIsHole(p), NEW d \in Holes PROVE d + Size(d) /= h
    <3> SUFFICES ASSUME d + Size(d) = h PROVE FALSE
      OBVIOUS
    <3>1. d \in Blocks /\ d \in Nat /\ Size(d) \in Nat /\ Overhead <= Size(d)
      BY BlockFacts DEF Blocks
    <3>2. /\ h - 1 \in Int
          /\ d <= h - 1 /\ h - 1 < d + Size(d)
          /\ c <= h - 1 /\ h - 1 < c + Size(c)
      BY <3>1, <2>1, <2>2, <1>2, Constants
    <3>3. d = c
      BY <3>1, <3>2, SameBlock
    <3> QED BY <3>3, <2>6, <2>8
  <2> HIDE DEF h, r
  <2> QED BY <1>1, <1>3, <1>4, <1>5, <2>1, <2>6, <2>7, <2>8 DEF h, r
<1> QED BY <1>6, <1>7

(* The block that results: from Base(p) to End(p).                         *)
LEMMA MergedBlock ==
  ASSUME HeapInv, NEW p \in DOMAIN live
  PROVE  /\ Base(p) \in Blocks
         /\ Base(p) = Header(p) \/ Base(p) \in Holes
         /\ MergedSize(p) \in Nat
         /\ Overhead <= MergedSize(p)
         /\ End(p) = Base(p) + MergedSize(p)
         /\ End(p) <= HeapSize
         /\ Base(p) <= Header(p)
         /\ Header(p) + Size(Header(p)) <= End(p)
         /\ End(p) \notin Holes
<1> DEFINE h == Header(p)
           r == Right(p)
           b == Base(p)
<1>1. /\ h \in Blocks /\ h \in Nat /\ Size(h) \in Nat /\ Overhead <= Size(h)
      /\ h + Size(h) <= HeapSize /\ r = h + Size(h)
  BY Neighbours, BlockFacts
<1>2. /\ b \in Blocks /\ b \in Nat /\ b <= h /\ (b = h \/ b \in Holes)
      /\ h - b \in Nat
      /\ (IF LeftIsHole(p) THEN Size(b) ELSE 0) = h - b
  <2>1. CASE LeftIsHole(p)
    <3>1. b \in Holes /\ b + Size(b) = h
      BY <2>1, Neighbours
    <3>2. b \in Blocks /\ b \in Nat /\ Size(b) \in Nat
      BY <3>1, BlockFacts DEF Blocks
    <3> HIDE DEF b, h
    <3> QED BY <2>1, <3>1, <3>2, <1>1
  <2>2. CASE ~LeftIsHole(p)
    <3>1. b = h
      BY <2>2 DEF Base
    <3> HIDE DEF b, h
    <3> QED BY <2>2, <3>1, <1>1
  <2> QED BY <2>1, <2>2
<1>3. /\ End(p) \in Nat /\ h + Size(h) <= End(p) /\ End(p) <= HeapSize
      /\ End(p) \notin Holes
      /\ (IF RightIsHole(p) THEN Size(r) ELSE 0) = End(p) - (h + Size(h))
  <2>1. CASE RightIsHole(p)
    <3>1. r \in Holes /\ r \in Blocks
      BY <2>1, Neighbours DEF Blocks
    <3>2. r \in Nat /\ Size(r) \in Nat /\ r + Size(r) <= HeapSize
      BY <3>1, BlockFacts
    <3>3. r + Size(r) \notin Holes
      BY <3>1 DEF HeapInv, NoAdjacentHoles
    <3>4. End(p) = r + Size(r)
      BY <2>1 DEF End
    <3> HIDE DEF r, h
    <3> QED BY <2>1, <3>2, <3>3, <3>4, <1>1
  <2>2. CASE ~RightIsHole(p)
    <3>1. End(p) = r /\ r \notin Holes
      BY <2>2, Neighbours DEF End
    <3> HIDE DEF r, h
    <3> QED BY <2>2, <3>1, <1>1
  <2> QED BY <2>1, <2>2
<1>4. MergedSize(p) = (h - b) + Size(h) + (End(p) - (h + Size(h)))
  <2> DEFINE x == IF LeftIsHole(p) THEN Size(b) ELSE 0
             y == IF RightIsHole(p) THEN Size(r) ELSE 0
  <2>1. MergedSize(p) = x + Size(h) + y
    BY DEF MergedSize
  <2>2. x = h - b /\ y = End(p) - (h + Size(h))
    BY <1>2, <1>3, Zenon
  <2> HIDE DEF x, y, h, b, r
  <2> QED BY <2>1, <2>2, Zenon
<1> HIDE DEF h, r, b
<1>5. /\ MergedSize(p) \in Nat /\ End(p) = b + MergedSize(p)
      /\ Overhead <= MergedSize(p)
  <2>1. /\ b \in Nat /\ h \in Nat /\ Size(h) \in Nat /\ End(p) \in Nat /\ b <= h
        /\ h + Size(h) <= End(p) /\ Overhead <= Size(h) /\ Overhead \in Nat
    BY <1>1, <1>2, <1>3, Constants
  <2> QED BY <2>1, <1>4
<1> QED BY <1>1, <1>2, <1>3, <1>5 DEF h, r, b

(* The blocks free_heap merges away.                                       *)
Gone(p) ==
  (IF LeftIsHole(p) THEN {Header(p)} ELSE {})
    \cup (IF RightIsHole(p) THEN {Right(p)} ELSE {})

(* The index after free_heap lists the merged block and, of the other      *)
(* holes, all but the one on the right.                                    *)
LEMMA FreedIndex ==
  ASSUME HeapInv, NEW p \in DOMAIN live, Free(p)
  PROVE  /\ index' \in Seq(Addr)
         /\ Len(index') <= MaxHoles
         /\ Holes' = (Holes \ Gone(p)) \cup {Base(p)}
         /\ \A j, k \in 1 .. Len(index') : index'[j] = index'[k] => j = k
<1> DEFINE h == Header(p)
           r == Right(p)
           b == Base(p)
<1>1. /\ h \in Blocks /\ h \notin Holes /\ h \in Addr
      /\ (RightIsHole(p) <=> r \in Holes)
      /\ LeftIsHole(p) => b \in Holes /\ b + Size(b) = h
      /\ ~LeftIsHole(p) => b = h
  BY Neighbours, BlockFacts DEF Base
<1>2. LeftIsHole(p) => b /= r
  <2> SUFFICES ASSUME LeftIsHole(p), b = r PROVE FALSE
    OBVIOUS
  <2>1. r = h + Size(h) /\ h \in Nat /\ Size(h) \in Nat
    BY Neighbours, BlockFacts
  <2>2. b \in Nat /\ b <= h
    BY MergedBlock, BlockFacts
  <2>3. Overhead <= Size(h)
    BY <1>1, BlockFacts
  <2> HIDE DEF h, r, b
  <2> QED BY <2>1, <2>2, <2>3, Constants
<1>3. \E idx \in Seq(Addr) :
        /\ Len(idx) \in Nat /\ Len(idx) <= Len(index)
        /\ Range(idx) = Holes \ (IF RightIsHole(p) THEN {r} ELSE {})
        /\ \A j, k \in 1 .. Len(idx) : idx[j] = idx[k] => j = k
        /\ AddHole(p, idx)
  <2>1. CASE RightIsHole(p)
    <3>1. PICK i \in 1 .. Len(index) : index[i] = r /\ AddHole(p, RemoveAt(index, i))
      BY <2>1 DEF Free, FirstAt
    <3>2. /\ RemoveAt(index, i) \in Seq(Addr)
          /\ Len(RemoveAt(index, i)) \in Nat
          /\ Len(RemoveAt(index, i)) <= Len(index)
          /\ Range(RemoveAt(index, i)) = Holes \ {index[i]}
          /\ \A j, k \in 1 .. Len(RemoveAt(index, i)) :
               RemoveAt(index, i)[j] = RemoveAt(index, i)[k] => j = k
      BY RemovedIndex
    <3> HIDE DEF r
    <3> QED BY <2>1, <3>1, <3>2
  <2>2. CASE ~RightIsHole(p)
    <3>1. AddHole(p, index)
      BY <2>2 DEF Free
    <3>2. /\ index \in Seq(Addr)
          /\ \A j, k \in 1 .. Len(index) : index[j] = index[k] => j = k
      BY DEF HeapInv, TypeOK, Tiling
    <3>3. Len(index) \in Nat /\ Len(index) <= Len(index)
      BY <3>2
    <3>4. Range(index) = Holes \ {}
      BY DEF Holes
    <3> QED BY <2>2, <3>1, <3>2, <3>3, <3>4
  <2> QED BY <2>1, <2>2
<1>4. PICK idx \in Seq(Addr) :
        /\ Len(idx) \in Nat /\ Len(idx) <= Len(index)
        /\ Range(idx) = Holes \ (IF RightIsHole(p) THEN {r} ELSE {})
        /\ \A j, k \in 1 .. Len(idx) : idx[j] = idx[k] => j = k
        /\ AddHole(p, idx)
  BY <1>3, Zenon
<1>5. Len(index) <= MaxHoles /\ Len(index) \in Nat
  BY DEF HeapInv, TypeOK
<1>6. CASE LeftIsHole(p)
  <2>1. index' = idx
    BY <1>4, <1>6 DEF AddHole
  <2>2. Len(index') <= MaxHoles
    BY <2>1, <1>4, <1>5, Constants
  <2>3. b \in Range(idx)
    BY <1>1, <1>2, <1>4, <1>6
  <2>4. Range(idx) = Holes \ Gone(p)
    BY <1>1, <1>4, <1>6 DEF Gone
  <2> QED BY <2>1, <2>2, <2>3, <2>4, <1>4 DEF Holes
<1>7. CASE ~LeftIsHole(p)
  <2>1. Len(idx) < MaxHoles /\ Insert(h, idx, MemAfterFree(p))
    BY <1>4, <1>7 DEF AddHole
  <2>2. h \notin Range(idx)
    BY <1>1, <1>4
  <2>3. /\ index' \in Seq(Addr)
        /\ Len(index') = Len(idx) + 1
        /\ Holes' = Range(idx) \cup {h}
        /\ \A j, k \in 1 .. Len(index') : index'[j] = index'[k] => j = k
    BY <2>1, <2>2, <1>1, <1>4, InsertedIndex
  <2>4. Len(index') <= MaxHoles
    BY <2>1, <2>3, <1>4, Constants
  <2>5. Range(idx) = Holes \ Gone(p) /\ b = h
    BY <1>1, <1>4, <1>7 DEF Gone
  <2> QED BY <2>3, <2>4, <2>5
<1> QED BY <1>6, <1>7

(* The clients of the next state when p is freed.                          *)
LEMMA LostPointer ==
  ASSUME HeapInv, NEW p \in DOMAIN live, Free(p)
  PROVE  /\ DOMAIN live' \subseteq Addr
         /\ live' \in [DOMAIN live' -> Sizes]
         /\ LiveBlocks' = LiveBlocks \ {Header(p)}
         /\ \A q \in DOMAIN live' :
              q \in DOMAIN live /\ live'[q] = live[q] /\ Header(q) \in LiveBlocks'
<1>1. /\ DOMAIN live \subseteq Addr
      /\ live \in [DOMAIN live -> Sizes]
  BY DEF HeapInv, TypeOK
<1>2. live' = [q \in DOMAIN live \ {p} |-> live[q]]
  BY DEF Free
<1>3. \A q \in DOMAIN live : Header(q) = Header(p) => q = p
  BY <1>1, Constants DEF Header
<1>4. LiveBlocks' = {Header(q) : q \in DOMAIN live \ {p}}
  BY <1>2 DEF LiveBlocks, Header
<1>5. LiveBlocks' = LiveBlocks \ {Header(p)}
  BY <1>3, <1>4 DEF LiveBlocks
<1>6. DOMAIN live' = DOMAIN live \ {p} /\ \A q \in DOMAIN live' : live'[q] = live[q]
  BY <1>2
<1>7. live' \in [DOMAIN live' -> Sizes]
  BY <1>1, <1>2, <1>6
<1> QED BY <1>1, <1>4, <1>5, <1>6, <1>7

(* What free_heap leaves in memory, inside the merged block and outside.   *)
LEMMA FreedMemory ==
  ASSUME HeapInv, NEW p \in DOMAIN live, Free(p)
  PROVE  /\ mem' \in [Addr -> Cells]
         /\ mem'[Base(p)] = HeaderCell(TRUE, MergedSize(p))
         /\ mem'[End(p) - FSize] = FooterCell(Base(p))
         /\ \A a \in Addr : ~(Base(p) <= a /\ a < End(p)) => mem'[a] = mem[a]
<1> DEFINE h == Header(p)
           b == Base(p)
           e == End(p)
           f == Footer(p)
           t == MergedSize(p)
<1>1. mem' = [mem EXCEPT ![h] = HeaderCell(TRUE, Size(h)), ![b] = HeaderCell(TRUE, t),
                         ![f] = FooterCell(b), ![e - FSize] = FooterCell(b)]
  BY DEF Free, MemAfterFree
<1>2. /\ h \in Addr /\ h \in Nat /\ Size(h) \in Nat /\ Overhead <= Size(h)
      /\ b \in Addr /\ b \in Nat
  BY Neighbours, MergedBlock, BlockFacts
<1>3. /\ t \in Nat /\ Overhead <= t /\ e = b + t /\ e <= HeapSize
      /\ b <= h /\ h + Size(h) <= e
  BY MergedBlock
<1>4. f = h + (Size(h) - FSize)
  BY DEF Footer
<1> HIDE DEF h, b, e, f, t
<1>5. /\ f \in Addr /\ e - FSize \in Addr
      /\ b < f /\ b < e - FSize /\ f < e /\ h < e /\ e - FSize < e
      /\ Size(h) \in 0 .. HeapSize /\ t \in 0 .. HeapSize
  BY <1>2, <1>3, <1>4, Constants
<1>6. /\ HeaderCell(TRUE, Size(h)) \in Cells
      /\ HeaderCell(TRUE, t) \in Cells
      /\ FooterCell(b) \in Cells
  <2>1. TRUE \in BOOLEAN
    OBVIOUS
  <2> QED BY <2>1, <1>2, <1>5, CellFields, Zenon
<1>7. mem \in [Addr -> Cells]
  BY DEF HeapInv, TypeOK
<1>8. mem' \in [Addr -> Cells]
  BY <1>1, <1>6, <1>7
<1>9. b /= f /\ b /= e - FSize
  BY <1>2, <1>5, Constants
<1>10. mem'[b] = HeaderCell(TRUE, t) /\ mem'[e - FSize] = FooterCell(b)
  BY <1>1, <1>2, <1>5, <1>7, <1>9
<1>11. ASSUME NEW a \in Addr, ~(b <= a /\ a < e) PROVE mem'[a] = mem[a]
  <2>1. a /= h /\ a /= b /\ a /= f /\ a /= e - FSize
    BY <1>2, <1>3, <1>5, <1>11, Constants
  <2> QED BY <2>1, <1>1, <1>7
<1> QED BY <1>8, <1>10, <1>11 DEF h, b, e, f, t

(* The tiling after free_heap: one merge, two, or none.                    *)
LEMMA FreedTiles ==
  ASSUME HeapInv, NEW p \in DOMAIN live, NEW tz,
         tz[Base(p)] = MergedSize(p),
         \A c \in Blocks \ (Gone(p) \cup {Base(p)}) : tz[c] = Size(c)
  PROVE  Tiles(Blocks \ Gone(p), tz)
<1> DEFINE h == Header(p)
           r == Right(p)
           b == Base(p)
<1>1. /\ Tiles(Blocks, SizeOf)
      /\ \A c \in Blocks : SizeOf[c] = Size(c) /\ c \in Nat /\ Size(c) \in Nat /\ Size(c) > 0
  BY InvTiles, BlockFacts, Constants
<1>2. /\ h \in Blocks /\ r = h + Size(h)
      /\ (RightIsHole(p) => r \in Holes /\ r \in Blocks)
      /\ (LeftIsHole(p) => b \in Blocks /\ b + Size(b) = h)
      /\ (~LeftIsHole(p) => b = h)
  BY Neighbours DEF Base, Blocks
<1>3. MergedSize(p) =
        (IF LeftIsHole(p) THEN Size(b) ELSE 0) + Size(h)
          + (IF RightIsHole(p) THEN Size(r) ELSE 0)
  BY DEF MergedSize
<1>4. Gone(p) = (IF LeftIsHole(p) THEN {h} ELSE {}) \cup (IF RightIsHole(p) THEN {r} ELSE {})
  BY DEF Gone
<1> HIDE DEF h, r, b
<1>5. \A c \in Blocks \ (Gone(p) \cup {b}) : tz[c] = SizeOf[c]
  BY <1>1 DEF b
<1>6. tz[b] = MergedSize(p)
  BY DEF b
<1>7. CASE ~LeftIsHole(p) /\ ~RightIsHole(p)
  <2>1. Gone(p) = {} /\ tz[b] = Size(h) /\ b = h
    BY <1>1, <1>2, <1>3, <1>4, <1>6, <1>7
  <2>2. \A c \in Blocks : tz[c] = SizeOf[c]
    BY <2>1, <1>1, <1>2, <1>5
  <2>3. Tiles(Blocks, tz)
    BY <2>2, <1>1 DEF Tiles
  <2> QED BY <2>1, <2>3
<1>8. CASE ~LeftIsHole(p) /\ RightIsHole(p)
  <2>1. Gone(p) = {r} /\ b = h /\ r \in Blocks
    BY <1>2, <1>4, <1>8
  <2>2. tz[h] = SizeOf[h] + SizeOf[r]
    BY <2>1, <1>1, <1>2, <1>3, <1>6, <1>8
  <2>3. r = h + SizeOf[h] /\ \A c \in Blocks \ {h, r} : tz[c] = SizeOf[c]
    BY <2>1, <1>1, <1>2, <1>5
  <2>4. Merges(Blocks, SizeOf, tz, h, r)
    BY <2>1, <2>2, <2>3, <1>2 DEF Merges
  <2>5. Tiles(Blocks \ {r}, tz)
    BY <2>4, <1>1, MergeTiles, Zenon
  <2> QED BY <2>1, <2>5, Zenon
<1>9. CASE LeftIsHole(p) /\ ~RightIsHole(p)
  <2>1. Gone(p) = {h} /\ b \in Blocks
    BY <1>2, <1>4, <1>9
  <2>2. tz[b] = SizeOf[b] + SizeOf[h]
    BY <2>1, <1>1, <1>2, <1>3, <1>6, <1>9
  <2>3. h = b + SizeOf[b] /\ \A c \in Blocks \ {b, h} : tz[c] = SizeOf[c]
    BY <2>1, <1>1, <1>2, <1>5, <1>9
  <2>4. Merges(Blocks, SizeOf, tz, b, h)
    BY <2>1, <2>2, <2>3, <1>2 DEF Merges
  <2>5. Tiles(Blocks \ {h}, tz)
    BY <2>4, <1>1, MergeTiles, Zenon
  <2> QED BY <2>1, <2>5, Zenon
<1>10. CASE LeftIsHole(p) /\ RightIsHole(p)
  <2> DEFINE mz == [c \in Blocks |-> IF c = h THEN Size(h) + Size(r) ELSE Size(c)]
             C  == Blocks \ {r}
  <2>1. Gone(p) = {h, r} /\ b \in Blocks /\ r \in Blocks
    BY <1>2, <1>4, <1>10
  <2>2. h /= r /\ b /= h /\ b /= r
    BY <2>1, <1>1, <1>2, <1>10
  <2>3. mz[h] = SizeOf[h] + SizeOf[r] /\ \A c \in Blocks \ {h, r} : mz[c] = SizeOf[c]
    BY <2>1, <2>2, <1>1, <1>2
  <2> HIDE DEF mz
  <2>4. r = h + SizeOf[h]
    BY <1>1, <1>2
  <2>5. Tiles(C, mz)
    <3>1. Merges(Blocks, SizeOf, mz, h, r)
      BY <2>1, <2>3, <2>4, <1>2 DEF Merges
    <3> QED BY <3>1, <1>1, MergeTiles, Zenon
  <2> HIDE DEF C
  <2>6. b \in C /\ h \in C /\ Blocks \ Gone(p) = C \ {h} /\ C \subseteq Blocks /\ r \notin C
    BY <2>1, <2>2, <1>2 DEF C
  <2>7. h = b + mz[b] /\ mz[b] = Size(b) /\ mz[h] = Size(h) + Size(r)
    BY <2>1, <2>2, <2>3, <1>1, <1>2, <1>10
  <2>8. tz[b] = mz[b] + mz[h]
    <3>1. MergedSize(p) = Size(b) + Size(h) + Size(r)
      BY <1>3, <1>10
    <3> QED BY <3>1, <2>1, <2>7, <1>1, <1>2, <1>6
  <2>9. \A c \in C \ {b, h} : tz[c] = mz[c]
    BY <2>1, <2>3, <2>6, <1>5
  <2>10. Tiles(C \ {h}, tz)
    <3>1. Merges(C, mz, tz, b, h)
      BY <2>6, <2>7, <2>8, <2>9 DEF Merges
    <3> QED BY <3>1, <2>5, MergeTiles, Zenon
  <2> QED BY <2>6, <2>10
<1> QED BY <1>7, <1>8, <1>9, <1>10

(* free_heap, merging on either side, both or none, preserves the          *)
(* invariant.                                                              *)
LEMMA FreeStep ==
  ASSUME HeapInv, NEW p \in DOMAIN live, Free(p)
  PROVE  HeapInv'
<1> DEFINE h == Header(p)
           r == Right(p)
           b == Base(p)
           e == End(p)
           t == MergedSize(p)
           G == Gone(p)
<1>1. /\ h \in LiveBlocks /\ h \in Blocks /\ h \in Nat /\ Size(h) \in Nat
      /\ (RightIsHole(p) => r \in Holes)
      /\ r = h + Size(h)
      /\ (LeftIsHole(p) => b \in Holes)
      /\ (~LeftIsHole(p) => b = h /\ \A c \in Holes : c + Size(c) /= h)
  BY Neighbours, BlockFacts DEF Base
<1>2. /\ b \in Blocks /\ b \in Addr /\ b \in Nat /\ (b = h \/ b \in Holes)
      /\ t \in Nat /\ Overhead <= t /\ e = b + t /\ e <= HeapSize
      /\ b <= h /\ h + Size(h) <= e /\ e \notin Holes
  BY MergedBlock, BlockFacts
<1>3. /\ G \subseteq {h, r}
      /\ (r \in G => RightIsHole(p) \/ r = h)
      /\ (h \in G <=> LeftIsHole(p) \/ (RightIsHole(p) /\ r = h))
  BY DEF Gone
<1>4. r /= h
  BY <1>1, BlockFacts, Constants
<1>5. /\ index' \in Seq(Addr) /\ Len(index') <= MaxHoles
      /\ Holes' = (Holes \ G) \cup {b}
      /\ \A j, k \in 1 .. Len(index') : index'[j] = index'[k] => j = k
  BY FreedIndex
<1>6. /\ DOMAIN live' \subseteq Addr
      /\ live' \in [DOMAIN live' -> Sizes]
      /\ LiveBlocks' = LiveBlocks \ {h}
      /\ \A q \in DOMAIN live' :
           q \in DOMAIN live /\ live'[q] = live[q] /\ Header(q) \in LiveBlocks'
  BY LostPointer
<1>7. /\ mem' \in [Addr -> Cells]
      /\ mem'[b] = HeaderCell(TRUE, t)
      /\ mem'[e - FSize] = FooterCell(b)
      /\ \A a \in Addr : ~(b <= a /\ a < e) => mem'[a] = mem[a]
  BY FreedMemory
<1>8. b \notin G
  <2>1. CASE LeftIsHole(p)
    <3>1. b \in Holes /\ b + Size(b) = h /\ b \in Nat /\ Size(b) \in Nat /\ Overhead <= Size(b)
      BY <2>1, Neighbours, BlockFacts DEF Blocks
    <3> HIDE DEF b, h, r, G
    <3> QED BY <3>1, <1>1, <1>3, Constants
  <2>2. CASE ~LeftIsHole(p)
    BY <2>2, <1>1, <1>3, <1>4
  <2> QED BY <2>1, <2>2
<1>9. RightIsHole(p) => r \in G
  BY DEF Gone
<1>10. e = h + Size(h) \/ (RightIsHole(p) /\ e = r + Size(r))
  BY <1>1 DEF End
<1> HIDE DEF h, r, b, e, t, G
<1>11. /\ Holes \cap LiveBlocks = {} /\ Blocks = Holes \cup LiveBlocks
       /\ LiveBlocks \subseteq Addr
  BY DEF HeapInv, TypeOK, Tiling, Blocks
<1>12. /\ Blocks' = Blocks \ G
       /\ Holes' \cap LiveBlocks' = {}
       /\ LiveBlocks' \subseteq Addr
  <2>1. Blocks' = Holes' \cup LiveBlocks'
    BY DEF Blocks
  <2>2. h \in G <=> LeftIsHole(p)
    BY <1>3, <1>4
  <2>3. r \in G => r \in Holes
    BY <1>1, <1>3, <1>4
  <2>4. b = h \/ (h \in G /\ b \in Holes)
    BY <2>2, <1>1
  <2> QED BY <2>1, <2>2, <2>3, <2>4, <1>1, <1>2, <1>3, <1>5, <1>6, <1>8, <1>11
<1>13. SizeOf'[b] = t
  <2>1. SizeOf'[b] = mem'[b].size
    BY <1>2 DEF SizeOf, Size
  <2>2. HeaderCell(TRUE, t).size = t
    BY CellFields, Zenon
  <2> QED BY <2>1, <2>2, <1>7, Zenon
<1>14. ASSUME NEW c \in Blocks \ (G \cup {b})
       PROVE  /\ c \in Addr /\ c \in Nat /\ Size(c) \in Nat /\ Overhead <= Size(c)
              /\ c + Size(c) <= HeapSize
              /\ c + Size(c) <= b \/ e <= c
  <2>1. /\ c \in Addr /\ c \in Nat /\ Size(c) \in Nat /\ Overhead <= Size(c)
        /\ c + Size(c) <= HeapSize
    BY <1>14, BlockFacts
  <2>2. \A x, y \in Blocks : x < y => x + Size(x) <= y
    BY DEF HeapInv, Tiling
  <2>3. CASE c < b
    BY <2>1, <2>2, <2>3, <1>2
  <2>4. CASE b < c
    <3>1. c /= h
      <4>1. b = h \/ h \in G
        BY <1>1, <1>3
      <4> QED BY <4>1, <1>14
    <3>2. c > h
      <4>1. b = h \/ (b \in Holes /\ b + Size(b) = h)
        BY Neighbours, <1>1 DEF b, h
      <4>2. b + Size(b) <= c
        BY <2>2, <2>4, <1>2
      <4>3. c \in Nat /\ h \in Nat
        BY <2>1, <1>1
      <4>4. h <= c
        BY <2>4, <4>1, <4>2, <4>3
      <4> QED BY <4>3, <4>4, <3>1
    <3>3. h + Size(h) <= c
      BY <2>2, <3>2, <1>1
    <3>4. CASE e = h + Size(h)
      BY <2>1, <3>3, <3>4
    <3>5. CASE RightIsHole(p) /\ e = r + Size(r)
      <4>1. r <= c /\ c /= r /\ r \in Blocks /\ r \in Nat
        BY <3>3, <3>5, <1>1, <1>9, <1>11, <1>14, BlockFacts
      <4>2. r < c
        BY <4>1, <2>1
      <4> QED BY <4>1, <4>2, <3>5, <2>1, <2>2
    <3> QED BY <3>4, <3>5, <1>10
  <2> QED BY <2>1, <2>3, <2>4, <1>2, <1>14
<1>15. ASSUME NEW c \in Blocks \ (G \cup {b})
       PROVE  /\ mem'[c] = mem[c]
              /\ mem'[c + Size(c) - FSize] = mem[c + Size(c) - FSize]
              /\ SizeOf'[c] = Size(c)
  <2>1. c \in Addr /\ c + Size(c) - FSize \in Addr
    BY <1>14, Constants
  <2>2. ~(b <= c /\ c < e) /\ ~(b <= c + Size(c) - FSize /\ c + Size(c) - FSize < e)
    BY <1>2, <1>14, Constants
  <2>3. mem'[c] = mem[c]
    BY <2>1, <2>2, <1>7
  <2>4. SizeOf'[c] = Size(c)
    BY <2>1, <2>3 DEF SizeOf, Size
  <2> QED BY <2>1, <2>2, <2>3, <2>4, <1>7
<1>16. Tiles(Blocks', SizeOf')
  BY <1>12, <1>13, <1>15, FreedTiles DEF b, t, G
<1>17. ASSUME NEW c \in Blocks'
       PROVE  mem'[c] = HeaderCell(c \in Holes', SizeOf'[c]) /\ Overhead <= SizeOf'[c]
  <2>1. CASE c = b
    <3>1. (b \in Holes') = TRUE
      BY <1>5
    <3> QED BY <2>1, <3>1, <1>2, <1>7, <1>13, Zenon
  <2>2. CASE c /= b
    <3>1. c \in Blocks \ (G \cup {b})
      BY <2>2, <1>12
    <3>2. (c \in Holes') = (c \in Holes)
      BY <3>1, <1>5
    <3>3. mem[c] = HeaderCell(c \in Holes, Size(c))
      BY <3>1 DEF HeapInv, TagsIntact
    <3>4. mem'[c] = mem[c] /\ SizeOf'[c] = Size(c) /\ Overhead <= Size(c)
      BY <3>1, <1>14, <1>15
    <3> QED BY <3>2, <3>3, <3>4, Zenon
  <2> QED BY <2>1, <2>2
<1>18. ASSUME NEW q \in DOMAIN live' PROVE live'[q] + Overhead <= SizeOf'[Header(q)]
  <2>1. q \in DOMAIN live /\ live'[q] = live[q] /\ Header(q) \in LiveBlocks \ {h}
    BY <1>6
  <2>2. Header(q) \in Blocks \ (G \cup {b})
    BY <2>1, <1>1, <1>2, <1>3, <1>4, <1>11
  <2>3. live[q] + Overhead <= Size(Header(q))
    BY <2>1 DEF HeapInv, TagsIntact
  <2> QED BY <2>1, <2>2, <2>3, <1>15
<1>19. ASSUME NEW c \in Blocks', c + SizeOf'[c] < HeapSize \/ c \in LiveBlocks'
       PROVE  mem'[c + SizeOf'[c] - FSize] = FooterCell(c)
  <2>1. CASE c = b
    <3>1. c + SizeOf'[c] - FSize = e - FSize
      BY <2>1, <1>2, <1>13, Constants
    <3> QED BY <2>1, <3>1, <1>7
  <2>2. CASE c /= b
    <3>1. c \in Blocks \ (G \cup {b})
      BY <2>2, <1>12
    <3>2. SizeOf'[c] = Size(c) /\ (c \in LiveBlocks' => c \in LiveBlocks)
      BY <3>1, <1>6, <1>15
    <3>3. mem[c + Size(c) - FSize] = FooterCell(c)
      BY <3>1, <3>2, <1>19 DEF HeapInv, FootersIntact
    <3> QED BY <3>1, <3>2, <3>3, <1>15
  <2> QED BY <2>1, <2>2
<1>20. ASSUME NEW c \in Holes' PROVE c + SizeOf'[c] \notin Holes'
  <2>1. CASE c = b
    <3>1. c + SizeOf'[c] = e /\ e /= b
      BY <2>1, <1>2, <1>13, Constants
    <3> QED BY <3>1, <1>2, <1>5
  <2>2. CASE c /= b
    <3>1. c \in Holes \ G /\ c \in Blocks \ (G \cup {b})
      BY <2>2, <1>5, <1>11
    <3>2. c + SizeOf'[c] = c + Size(c) /\ c + Size(c) \notin Holes
      BY <3>1, <1>15 DEF HeapInv, NoAdjacentHoles
    <3>3. c + Size(c) /= b
      <4>1. CASE b \in Holes
        BY <3>2, <4>1
      <4>2. CASE b \notin Holes
        BY <3>1, <4>2, <1>1
      <4> QED BY <4>1, <4>2
    <3> QED BY <3>2, <3>3, <1>5
  <2> QED BY <2>1, <2>2
<1>21. status' \in {"running", "aborted", "faulted"}
  BY DEF Free, HeapInv, TypeOK
<1> QED BY <1>5, <1>6, <1>7, <1>12, <1>16, <1>17, <1>18, <1>19, <1>20, <1>21, BuildInv

(* A process that ends in the allocator leaves it as it was.               *)
LEMMA HaltStep ==
  ASSUME HeapInv, AssertFails \/ RemovalFaults
  PROVE  HeapInv'
<1>1. /\ UNCHANGED <<mem, index, live>>
      /\ status' \in {"running", "aborted", "faulted"}
  BY DEF AssertFails, RemovalFaults
<1>2. mem' \in [Addr -> Cells]
  BY <1>1 DEF HeapInv, TypeOK
<1> QED BY <1>1, <1>2, TagsKept

(* Every operation of the allocator and every client store preserves the   *)
(* invariant.                                                              *)
THEOREM StepInv == HeapInv /\ [Next]_vars => HeapInv'
<1> SUFFICES ASSUME HeapInv, [Next]_vars PROVE HeapInv'
  OBVIOUS
<1>1. ASSUME NEW n \in Sizes, Malloc(n) PROVE HeapInv'
  <2>1. PICK i \in 1 .. Len(index) :
          /\ FirstFit(i, n + Overhead)
          /\ MallocWhole(n, i) \/ MallocSplit(n, i)
          /\ live' = [p \in DOMAIN live \cup {index[i] + HSize} |->
                        IF p = index[i] + HSize THEN n ELSE live[p]]
    BY <1>1 DEF Malloc
  <2>2. UNCHANGED status
    BY <1>1 DEF Malloc
  <2>3. CASE MallocWhole(n, i)
    BY <2>1, <2>2, <2>3, WholeStep
  <2>4. CASE MallocSplit(n, i)
    BY <2>1, <2>2, <2>4, SplitStep
  <2> QED BY <2>1, <2>3, <2>4
<1>2. ASSUME UNCHANGED vars PROVE HeapInv'
  <2>1. UNCHANGED <<index, live>> /\ mem' = mem /\ status' = status
    BY <1>2 DEF vars
  <2>2. mem' \in [Addr -> Cells] /\ status' \in {"running", "aborted", "faulted"}
    BY <2>1 DEF HeapInv, TypeOK
  <2> QED BY <2>1, <2>2, TagsKept
<1>3. ASSUME NEW n \in Sizes, MallocFails(n) PROVE HeapInv'
  BY <1>2, <1>3 DEF MallocFails
<1>4. ASSUME NEW p \in DOMAIN live, Free(p) PROVE HeapInv'
  BY <1>4, FreeStep
<1>5. ASSUME NEW p \in DOMAIN live, NEW w \in Words, Store(p, w) PROVE HeapInv'
  BY <1>5, StoreStep
<1>6. CASE AssertFails \/ RemovalFaults
  BY <1>6, HaltStep
<1> QED BY <1>1, <1>2, <1>3, <1>4, <1>5, <1>6 DEF Next

(* The allocator's invariant holds in every reachable state.               *)
THEOREM Invariance == Spec => []HeapInv
<1>1. Init => HeapInv
  BY InitInv
<1>2. HeapInv /\ [Next]_vars => HeapInv'
  BY StepInv
<1> QED BY <1>1, <1>2, PTL DEF Spec

(* Memory, index and clients stay well typed.                              *)
THEOREM TypeCorrect == Spec => []TypeOK
<1>1. HeapInv => TypeOK
  BY DEF HeapInv
<1> QED BY <1>1, Invariance, PTL

(* No client store and no merge damages a block's header.                  *)
THEOREM TagsStayIntact == Spec => []TagsIntact
<1>1. HeapInv => TagsIntact
  BY DEF HeapInv
<1> QED BY <1>1, Invariance, PTL

(* The footer below a block's header leads to its left neighbour.          *)
THEOREM FootersStayIntact == Spec => []FootersIntact
<1>1. HeapInv => FootersIntact
  BY DEF HeapInv
<1> QED BY <1>1, Invariance, PTL

(* The blocks tile the heap: nothing overlaps and nothing is lost.         *)
THEOREM BlocksTileHeap == Spec => []Tiling
<1>1. HeapInv => Tiling
  BY DEF HeapInv
<1> QED BY <1>1, Invariance, PTL

(* free_heap leaves no two holes side by side.                             *)
THEOREM HolesAreMaximal == Spec => []NoAdjacentHoles
<1>1. HeapInv => NoAdjacentHoles
  BY DEF HeapInv
<1> QED BY <1>1, Invariance, PTL

(***************************************************************************)
(* What the heap promises: no memory is lost, no request is refused that a *)
(* run of free bytes could serve, and Heap implements Allocator.           *)
(***************************************************************************)
(* A set of naturals has a least element.                                  *)
LEMMA LeastNatural ==
  ASSUME NEW T, T \subseteq Nat, T /= {}
  PROVE  \E x \in T : \A y \in T : x <= y
<1> DEFINE R == OpToRel(<, Nat)
<1>1. IsWellFoundedOn(R, Nat)
  BY NatLessThanWellFounded
<1>2. \A x, y \in Nat : x < y => <<x, y>> \in R
  BY DEF OpToRel
<1> HIDE DEF R
<1>3. PICK x \in T : \A y \in T : ~(<<y, x>> \in R)
  BY <1>1, WFMin
<1>4. \A y \in T : ~(y < x)
  BY <1>2, <1>3
<1> QED BY <1>3, <1>4

(* The blocks cover the heap: every address lies in one.                   *)
LEMMA Covered ==
  ASSUME HeapInv, NEW a \in Addr
  PROVE  \E b \in Blocks : b <= a /\ a < b + Size(b)
<1> DEFINE T == {x \in Addr : ~\E b \in Blocks : b <= x /\ x < b + Size(b)}
<1> SUFFICES ASSUME T /= {} PROVE FALSE
  OBVIOUS
<1>1. T \subseteq Nat
  BY Constants
<1>2. PICK x \in T : \A y \in T : x <= y
  BY <1>1, LeastNatural
<1>3. x \in Addr /\ x \in Nat
  BY <1>2, Constants
<1>4. \A b \in Blocks : /\ b \in Nat /\ Size(b) \in Nat /\ Overhead <= Size(b)
                        /\ ~(b <= x /\ x < b + Size(b))
  BY <1>2, BlockFacts
<1>5. x \notin Blocks
  BY <1>3, <1>4, Constants
<1>6. x /= 0
  BY <1>5 DEF HeapInv, Tiling
<1>7. x - 1 \in Addr /\ x - 1 \notin T
  BY <1>2, <1>3, <1>6, Constants
<1>8. PICK b \in Blocks : b <= x - 1 /\ x - 1 < b + Size(b)
  BY <1>7
<1>9. b + Size(b) = x
  BY <1>3, <1>4, <1>8
<1>10. b + Size(b) \in Blocks \cup {HeapSize}
  BY DEF HeapInv, Tiling
<1> QED BY <1>3, <1>5, <1>9, <1>10, Constants

(* malloc_heap refuses no request that a run of free bytes could serve.    *)
THEOREM NoFalseRefusal == Spec => []FreeRunsAreHoles
<1>1. HeapInv => FreeRunsAreHoles
  <2> SUFFICES ASSUME HeapInv, NEW a \in Addr, NEW c \in Addr, a <= c,
                      \A b \in LiveBlocks : c < b \/ b + Size(b) <= a
               PROVE  \E h \in Holes : h <= a /\ c < h + Size(h)
    BY DEF FreeRunsAreHoles
  <2>1. PICK h \in Blocks : h <= a /\ a < h + Size(h)
    BY Covered
  <2>2. /\ h \in Nat /\ Size(h) \in Nat /\ a \in Nat /\ c \in Nat /\ c < HeapSize
        /\ Blocks = Holes \cup LiveBlocks
    BY BlockFacts, Constants DEF Blocks
  <2>3. h \in Holes
    BY <2>1, <2>2
  <2>4. c < h + Size(h)
    <3> DEFINE r == h + Size(h)
    <3> SUFFICES ASSUME r <= c PROVE FALSE
      BY <2>2
    <3>1. r \in Blocks
      <4>1. r \in Blocks \cup {HeapSize}
        BY DEF HeapInv, Tiling
      <4> QED BY <4>1, <2>2, Constants
    <3>2. r \notin Holes
      BY <2>3 DEF HeapInv, NoAdjacentHoles
    <3>3. r \in LiveBlocks /\ Size(r) \in Nat /\ Overhead <= Size(r) /\ r \in Nat
      BY <3>1, <3>2, <2>2, BlockFacts
    <3> QED BY <3>3, <2>1, <2>2, Constants
  <2> QED BY <2>1, <2>3, <2>4
<1> QED BY <1>1, Invariance, PTL

(* When the clients have freed everything, one hole is left: no sequence   *)
(* of operations loses memory to fragmentation for good.                   *)
THEOREM NothingIsLost == Spec => []AllFreedIsOneHole
<1>1. HeapInv => AllFreedIsOneHole
  <2> SUFFICES ASSUME HeapInv, DOMAIN live = {}
               PROVE  index = <<0>> /\ Size(0) = HeapSize
    BY DEF AllFreedIsOneHole
  <2>1. Blocks = Holes
    BY DEF Blocks, LiveBlocks
  <2>2. /\ 0 \in Holes /\ 0 + Size(0) \in Holes \cup {HeapSize}
        /\ \A b, c \in Holes : b < c => b + Size(b) <= c
    BY <2>1 DEF HeapInv, Tiling
  <2>3. 0 + Size(0) \notin Holes /\ Size(0) \in Nat
    BY <2>1, <2>2, BlockFacts DEF HeapInv, NoAdjacentHoles
  <2>4. Size(0) = HeapSize
    BY <2>2, <2>3, Constants
  <2>5. ASSUME NEW b \in Holes PROVE b = 0
    <3>1. b \in Nat /\ b < HeapSize
      BY BlockFacts, Constants
    <3> QED BY <3>1, <2>2, <2>4, Constants
  <2>6. /\ index \in Seq(Addr) /\ Len(index) \in Nat /\ DOMAIN index = 1 .. Len(index)
        /\ \A i, j \in 1 .. Len(index) : index[i] = index[j] => i = j
    BY DEF HeapInv, TypeOK, Tiling
  <2>7. \A i \in 1 .. Len(index) : index[i] = 0
    BY <2>5, <2>6 DEF Holes, Range
  <2>8. Len(index) /= 0
    BY <2>2, <2>6 DEF Holes, Range
  <2>9. Len(index) = 1
    <3> SUFFICES ASSUME Len(index) > 1 PROVE FALSE
      BY <2>6, <2>8
    <3>1. 1 \in 1 .. Len(index) /\ 2 \in 1 .. Len(index)
      BY <2>6
    <3>2. index[1] = index[2]
      BY <2>7, <3>1
    <3> QED BY <2>6, <3>1, <3>2
  <2>10. index = <<0>>
    BY <2>6, <2>7, <2>9
  <2> QED BY <2>4, <2>10
<1> QED BY <1>1, Invariance, PTL

(* The only _assert of the allocator that can fail is the one on a full    *)
(* index; tags are never found damaged, nor a hole missing from the index. *)
THEOREM OnlyFullIndexAborts == Spec => []AbortsOnlyWhenIndexFull
<1>1. Init => AbortsOnlyWhenIndexFull
  BY DEF Init, AbortsOnlyWhenIndexFull
<1>2. HeapInv /\ AbortsOnlyWhenIndexFull /\ [Next]_vars => AbortsOnlyWhenIndexFull'
  <2> SUFFICES ASSUME HeapInv, AbortsOnlyWhenIndexFull, [Next]_vars
               PROVE  AbortsOnlyWhenIndexFull'
    OBVIOUS
  <2>1. ASSUME AssertFails PROVE Len(index) = MaxHoles
    <3>1. ASSUME NEW p \in DOMAIN live PROVE Magic(Header(p)) /\ Magic(Footer(p))
      <4>1. /\ Header(p) \in Blocks /\ Header(p) \in LiveBlocks
            /\ mem[Header(p)].kind = "header"
        BY Neighbours, BlockFacts
      <4>2. mem[Footer(p)] = FooterCell(Header(p))
        BY <4>1 DEF HeapInv, FootersIntact, Footer
      <4>3. FooterCell(Header(p)).kind = "footer"
        BY CellFields, Zenon
      <4>4. mem[Footer(p)].kind = "footer"
        BY <4>2, <4>3, Zenon
      <4> QED BY <4>1, <4>4 DEF Magic
    <3>2. ASSUME NEW p \in DOMAIN live, ~FreeAsserts(p) PROVE Len(index) = MaxHoles
      <4>1. RightIsHole(p) => \E i \in 1 .. Len(index) : index[i] = Right(p)
        <5>1. index \in Seq(Addr)
          BY DEF HeapInv, TypeOK
        <5> QED BY <5>1, Neighbours DEF Holes, Range
      <4>2. ~(Len(index) < MaxHoles)
        BY <3>1, <3>2, <4>1 DEF FreeAsserts
      <4> QED BY <4>2, Constants DEF HeapInv, TypeOK
    <3>3. ASSUME NEW n \in Sizes, NEW i \in 1 .. Len(index) PROVE MallocAsserts(n, i)
      <4>1. index[i] \in Blocks
        BY RemovedIndex DEF Blocks
      <4>2. /\ index[i] \in Nat /\ Size(index[i]) \in Nat
            /\ index[i] + Size(index[i]) <= HeapSize
        BY <4>1, BlockFacts
      <4>3. index[i] + Size(index[i]) - FSize < HeapSize
        BY <4>2, Constants
      <4> QED BY <4>3 DEF MallocAsserts
    <3> QED BY <2>1, <3>2, <3>3 DEF AssertFails
  <2>2. CASE AssertFails
    BY <2>1, <2>2 DEF AssertFails, AbortsOnlyWhenIndexFull
  <2>3. CASE RemovalFaults
    BY <2>3 DEF RemovalFaults, AbortsOnlyWhenIndexFull
  <2>4. CASE UNCHANGED vars
    BY <2>4 DEF vars, AbortsOnlyWhenIndexFull
  <2>5. ASSUME NEW n \in Sizes, Malloc(n) \/ MallocFails(n) PROVE AbortsOnlyWhenIndexFull'
    BY <2>5 DEF Malloc, MallocFails, vars, AbortsOnlyWhenIndexFull
  <2>6. ASSUME NEW p \in DOMAIN live, Free(p) PROVE AbortsOnlyWhenIndexFull'
    BY <2>6 DEF Free, AbortsOnlyWhenIndexFull
  <2>7. ASSUME NEW p \in DOMAIN live, NEW w \in Words, Store(p, w)
        PROVE  AbortsOnlyWhenIndexFull'
    BY <2>7 DEF Store, AbortsOnlyWhenIndexFull
  <2> QED BY <2>2, <2>3, <2>4, <2>5, <2>6, <2>7 DEF Next
<1> QED BY <1>1, <1>2, Invariance, PTL DEF Spec

(***************************************************************************)
(* Heap implements Allocator.                                              *)
(***************************************************************************)
(* A client's payload lies inside its block.                               *)
LEMMA PayloadInBlock ==
  ASSUME HeapInv, NEW p \in DOMAIN live
  PROVE  /\ p \in Nat /\ live[p] \in Nat /\ Header(p) \in Blocks
         /\ \A a \in Payload(p) : /\ a \in Addr /\ a \in Int
                                  /\ Header(p) <= a
                                  /\ a < Header(p) + Size(Header(p))
<1> DEFINE h == Header(p)
<1>1. p \in Nat /\ live[p] \in Nat
  BY Constants DEF HeapInv, TypeOK
<1>2. /\ h \in Blocks /\ h \in Nat /\ Size(h) \in Nat /\ h + Size(h) <= HeapSize
      /\ live[p] + Overhead <= Size(h)
  BY Neighbours, BlockFacts DEF HeapInv, TagsIntact
<1>3. h = p - HSize
  BY DEF Header
<1> HIDE DEF h
<1>4. ASSUME NEW a \in Payload(p)
      PROVE  a \in Addr /\ a \in Int /\ h <= a /\ a < h + Size(h)
  <2>1. a \in Int /\ p <= a /\ a <= p + live[p] - 1
    BY <1>1, <1>4 DEF Payload
  <2> QED BY <2>1, <1>1, <1>2, <1>3, Constants
<1> QED BY <1>1, <1>2, <1>4 DEF h

(* An address of a client's payload is in no block but the client's.       *)
LEMMA PayloadApart ==
  ASSUME HeapInv, NEW p \in DOMAIN live, NEW a \in Payload(p), NEW b \in Blocks,
         b <= a, a < b + Size(b)
  PROVE  b = Header(p)
BY PayloadInBlock, SameBlock

(* So the payloads of two pointers have no address in common.              *)
LEMMA PayloadsDisjoint ==
  ASSUME HeapInv, NEW p \in DOMAIN live, NEW q \in DOMAIN live,
         NEW a \in Payload(p), a \in Payload(q)
  PROVE  p = q
<1>1. Header(q) \in Blocks /\ Header(q) <= a /\ a < Header(q) + Size(Header(q))
  BY PayloadInBlock
<1>2. Header(q) = Header(p)
  BY <1>1, PayloadApart
<1>3. p \in Nat /\ q \in Nat
  BY PayloadInBlock
<1> QED BY <1>2, <1>3, Constants DEF Header

(* malloc_heap writes inside the hole it takes and nowhere else, and the   *)
(* payload it hands out lies in that hole.                                 *)
LEMMA MallocMemory ==
  ASSUME HeapInv, NEW n \in Sizes, NEW i \in 1 .. Len(index),
         FirstFit(i, n + Overhead), MallocWhole(n, i) \/ MallocSplit(n, i)
  PROVE  /\ \A a \in Addr : ~(index[i] <= a /\ a < index[i] + Size(index[i]))
                              => mem'[a] = mem[a]
         /\ \A a \in index[i] + HSize .. index[i] + HSize + n - 1 :
              a \in Addr /\ index[i] <= a /\ a < index[i] + Size(index[i])
         /\ index[i] + HSize \in Addr /\ n \in Nat
<1> DEFINE b == index[i]
           s == Size(b)
           left == Left(n, i)
<1>1. /\ b \in Blocks /\ b \in Holes /\ b \in Nat /\ s \in Nat /\ b + s <= HeapSize
      /\ Overhead <= s
  BY RemovedIndex, BlockFacts DEF Blocks
<1>2. n \in Nat /\ n + Overhead <= s
  BY <1>1, Constants DEF FirstFit
<1>3. left = s - (n + Overhead)
  BY DEF Left
<1>4. mem \in [Addr -> Cells]
  BY DEF HeapInv, TypeOK
<1>5. CASE MallocWhole(n, i)
  <2>1. mem' = [mem EXCEPT ![b] = HeaderCell(FALSE, s), ![b + s - FSize] = FooterCell(b)]
    BY <1>5 DEF MallocWhole
  <2> HIDE DEF b, s, left
  <2>2. ASSUME NEW a \in Addr, ~(b <= a /\ a < b + s) PROVE mem'[a] = mem[a]
    <3>1. a /= b /\ a /= b + s - FSize
      BY <1>1, <1>2, <2>2, Constants
    <3> QED BY <2>1, <3>1, <1>4
  <2>3. ASSUME NEW a \in b + HSize .. b + HSize + n - 1
        PROVE  a \in Addr /\ b <= a /\ a < b + s
    BY <1>1, <1>2, Constants
  <2>4. b + HSize \in Addr
    BY <1>1, <1>2, Constants
  <2> QED BY <1>2, <2>2, <2>3, <2>4 DEF b, s
<1>6. CASE MallocSplit(n, i)
  <2> DEFINE rest == b + n + Overhead
             cut  == rest - FSize
             foot == rest + left - FSize
  <2>1. mem' = [mem EXCEPT ![b] = HeaderCell(FALSE, n + Overhead),
                           ![cut] = FooterCell(b),
                           ![rest] = HeaderCell(TRUE, left),
                           ![foot] = FooterCell(rest)]
    BY <1>6 DEF MallocSplit, MemAfterSplit
  <2>2. ~(left < Overhead)
    BY <1>6 DEF MallocSplit, TakesWhole
  <2> HIDE DEF b, s, left
  <2>3. /\ left \in Nat /\ left >= Overhead
        /\ b <= cut /\ cut < b + s /\ b <= rest /\ rest < b + s
        /\ b <= foot /\ foot < b + s
    BY <1>1, <1>2, <1>3, <2>2, Constants
  <2> HIDE DEF rest, cut, foot
  <2>4. ASSUME NEW a \in Addr, ~(b <= a /\ a < b + s) PROVE mem'[a] = mem[a]
    <3>1. a /= b /\ a /= cut /\ a /= rest /\ a /= foot
      BY <1>1, <1>2, <2>3, <2>4, Constants
    <3> QED BY <2>1, <3>1, <1>4
  <2>5. ASSUME NEW a \in b + HSize .. b + HSize + n - 1
        PROVE  a \in Addr /\ b <= a /\ a < b + s
    BY <1>1, <1>2, Constants
  <2>6. b + HSize \in Addr
    BY <1>1, <1>2, Constants
  <2> QED BY <1>2, <2>4, <2>5, <2>6 DEF b, s
<1> QED BY <1>5, <1>6

(* The state of Allocator that a state of Heap stands for.                 *)
Owned == UNION {Payload(p) : p \in DOMAIN live}
Own == [p \in DOMAIN live |-> Payload(p)]
Data == [a \in Owned |-> mem[a]]

LEMMA OwnFacts ==
  /\ DOMAIN Own = DOMAIN live
  /\ \A p \in DOMAIN live : Own[p] = Payload(p)
  /\ DOMAIN Data = Owned
  /\ \A a \in Owned : Data[a] = mem[a]
  /\ A!OwnedAddrs = Owned
BY DEF Own, Data, Owned, A!OwnedAddrs

LEMMA OwnFactsNext ==
  /\ DOMAIN Own' = DOMAIN live'
  /\ \A p \in DOMAIN live' : Own'[p] = Payload(p)'
  /\ DOMAIN Data' = Owned'
  /\ \A a \in Owned' : Data'[a] = mem'[a]
BY DEF Own, Data, Owned, Payload

(* A successful malloc_heap is an Alloc.                                   *)
LEMMA MallocAllocates ==
  ASSUME HeapInv, NEW n \in Sizes, Malloc(n)
  PROVE  A!Alloc
<1>1. PICK i \in 1 .. Len(index) :
        /\ FirstFit(i, n + Overhead)
        /\ MallocWhole(n, i) \/ MallocSplit(n, i)
        /\ live' = [p \in DOMAIN live \cup {index[i] + HSize} |->
                      IF p = index[i] + HSize THEN n ELSE live[p]]
  BY DEF Malloc
<1> DEFINE b == index[i]
<1>2. /\ b \in Blocks /\ b \in Holes /\ b \in Nat
      /\ \A p \in DOMAIN live : Header(p) \notin Holes
  BY RemovedIndex, BlockFacts, Neighbours DEF Blocks
<1>3. PICK new : new = b + HSize
  OBVIOUS
<1>4. /\ new \in Addr /\ n \in Nat
      /\ \A a \in new .. new + n - 1 : a \in Addr /\ b <= a /\ a < b + Size(b)
      /\ \A a \in Addr : ~(b <= a /\ a < b + Size(b)) => mem'[a] = mem[a]
  BY <1>1, <1>3, MallocMemory
<1>5. new \notin DOMAIN live
  <2>1. Header(new) = b
    BY <1>2, <1>3, Constants DEF Header
  <2> QED BY <2>1, <1>2
<1>6. ASSUME NEW p \in DOMAIN live, NEW a \in Payload(p)
      PROVE  ~(b <= a /\ a < b + Size(b)) /\ a \in Addr
  BY <1>2, PayloadApart, PayloadInBlock
<1>7. live' = [p \in DOMAIN live \cup {new} |-> IF p = new THEN n ELSE live[p]]
  BY <1>1, <1>3
<1> HIDE DEF b
<1>8. /\ DOMAIN live' = DOMAIN live \cup {new}
      /\ live'[new] = n
      /\ \A p \in DOMAIN live : live'[p] = live[p]
  BY <1>5, <1>7
<1>9. /\ Payload(new)' = new .. new + n - 1
      /\ \A p \in DOMAIN live : Payload(p)' = Payload(p)
  BY <1>8 DEF Payload
<1>10. Payload(new)' \subseteq Addr \ Owned
  BY <1>4, <1>6, <1>9 DEF Owned
<1>11. Owned' = Owned \cup Payload(new)'
  BY <1>8, <1>9 DEF Owned
<1>12. \A a \in Owned : mem'[a] = mem[a]
  BY <1>4, <1>6 DEF Owned
<1>13. /\ new \in Addr \ DOMAIN Own
       /\ DOMAIN Own' = DOMAIN Own \cup {new}
       /\ \A q \in DOMAIN Own : Own'[q] = Own[q]
       /\ Own'[new] \subseteq Addr \ A!OwnedAddrs
       /\ DOMAIN Data' = DOMAIN Data \cup Own'[new]
       /\ \A a \in DOMAIN Data : Data'[a] = Data[a]
  BY <1>4, <1>5, <1>8, <1>9, <1>10, <1>11, <1>12, OwnFacts, OwnFactsNext
<1> QED BY <1>13, Zenon DEF A!Alloc, Own, Data, Owned

(* What free_heap writes is in the freed block or in holes.                *)
LEMMA FreeWrites ==
  ASSUME HeapInv, NEW p \in DOMAIN live, NEW q \in DOMAIN live, q /= p,
         NEW a \in Payload(q), Free(p)
  PROVE  mem'[a] = mem[a]
<1>1. a \in Addr /\ a \in Int
  BY PayloadInBlock
<1>2. /\ Header(q) \notin Holes /\ Header(p) \in Blocks
      /\ Right(p) = Header(p) + Size(Header(p))
      /\ RightIsHole(p) <=> Right(p) \in Holes
      /\ LeftIsHole(p) => Base(p) \in Holes /\ Base(p) + Size(Base(p)) = Header(p)
  BY Neighbours
<1>3. Header(q) /= Header(p)
  BY PayloadInBlock, Constants DEF Header
<1>4. \A c \in Blocks : c <= a /\ a < c + Size(c) => c = Header(q)
  BY PayloadApart
<1>5. SUFFICES ASSUME Base(p) <= a, a < End(p) PROVE FALSE
  BY <1>1, FreedMemory
<1>6. ~(Header(p) <= a /\ a < Header(p) + Size(Header(p)))
  BY <1>2, <1>3, <1>4
<1>7. Header(p) \in Nat /\ Size(Header(p)) \in Nat
  BY <1>2, BlockFacts
<1>8. CASE a < Header(p)
  <2>1. LeftIsHole(p)
    BY <1>1, <1>5, <1>7, <1>8 DEF Base
  <2>2. Base(p) \in Holes /\ Base(p) \in Blocks /\ a < Base(p) + Size(Base(p))
    BY <2>1, <1>2, <1>8 DEF Blocks
  <2> QED BY <2>2, <1>2, <1>4, <1>5
<1>9. CASE ~(a < Header(p))
  <2>1. Right(p) <= a
    BY <1>1, <1>2, <1>6, <1>7, <1>9
  <2>2. RightIsHole(p) /\ a < Right(p) + Size(Right(p))
    BY <1>1, <1>2, <1>5, <1>7, <2>1 DEF End
  <2>3. Right(p) \in Holes /\ Right(p) \in Blocks
    BY <2>2, <1>2 DEF Blocks
  <2> QED BY <2>1, <2>2, <2>3, <1>2, <1>4
<1> QED BY <1>8, <1>9

(* free_heap is a Release.                                                 *)
LEMMA FreeReleases ==
  ASSUME HeapInv, NEW p \in DOMAIN live, Free(p)
  PROVE  A!Release
<1>1. live' = [q \in DOMAIN live \ {p} |-> live[q]]
  BY DEF Free
<1>2. DOMAIN live' = DOMAIN live \ {p} /\ \A q \in DOMAIN live \ {p} : live'[q] = live[q]
  BY <1>1
<1>3. \A q \in DOMAIN live \ {p} : Payload(q)' = Payload(q)
  BY <1>2 DEF Payload
<1>4. \A q \in DOMAIN live \ {p} : Payload(q) \cap Payload(p) = {}
  BY PayloadsDisjoint
<1>5. Owned' = Owned \ Payload(p)
  BY <1>2, <1>3, <1>4 DEF Owned
<1>6. \A a \in Owned \ Payload(p) : mem'[a] = mem[a]
  BY FreeWrites DEF Owned
<1> QED BY <1>2, <1>3, <1>5, <1>6 DEF A!Release, Owned

(* A client's store is a Store.                                            *)
LEMMA StoreStores ==
  ASSUME HeapInv, NEW p \in DOMAIN live, NEW w \in Words, Store(p, w)
  PROVE  A!Store
<1>1. /\ live' = live
      /\ mem' = [a \in Addr |-> IF a \in Payload(p) THEN w ELSE mem[a]]
  BY DEF Store
<1>2. Owned \subseteq Addr
  BY PayloadInBlock DEF Owned
<1>3. /\ \A q \in DOMAIN live : Payload(q)' = Payload(q)
      /\ Owned' = Owned
  BY <1>1 DEF Payload, Owned
<1>4. \A a \in Owned : mem'[a] = IF a \in Payload(p) THEN w ELSE mem[a]
  BY <1>1, <1>2
<1>5. Own' = Own
  BY <1>1, <1>3 DEF Own
<1>6. Data' = [a \in DOMAIN Data |-> IF a \in Own[p] THEN w ELSE Data[a]]
  <2>1. Data' = [a \in Owned |-> mem'[a]]
    BY <1>3 DEF Data
  <2>2. \A a \in Owned : mem'[a] = IF a \in Own[p] THEN w ELSE Data[a]
    BY <1>4, OwnFacts
  <2> QED BY <2>1, <2>2, OwnFacts
<1>7. p \in DOMAIN Own
  BY OwnFacts
<1> QED BY <1>5, <1>6, <1>7, Zenon DEF A!Store, Own, Data, Owned

(* A step that leaves the memory and the clients alone changes nothing a   *)
(* client can see.                                                         *)
LEMMA Unseen ==
  ASSUME UNCHANGED <<mem, live>>
  PROVE  UNCHANGED A!vars
BY DEF A!vars, Payload

(* Heap implements Allocator: what a client stored in memory it was handed *)
(* out stays there until it frees it, whatever splitting and merging goes  *)
(* on around it, and no two clients are handed the same address.           *)
THEOREM HeapIsAllocator == Spec => ImplementsAllocator
<1>1. Init => A!Init
  BY DEF Init, A!Init, Payload
<1>2. HeapInv /\ [Next]_vars => [A!Next]_(A!vars)
  <2> SUFFICES ASSUME HeapInv, [Next]_vars PROVE A!Next \/ UNCHANGED A!vars
    OBVIOUS
  <2>1. ASSUME NEW n \in Sizes, Malloc(n) PROVE A!Next
    BY <2>1, MallocAllocates DEF A!Next
  <2>2. ASSUME NEW n \in Sizes, MallocFails(n) PROVE UNCHANGED A!vars
    BY <2>2, Unseen DEF MallocFails, vars
  <2>3. ASSUME NEW p \in DOMAIN live, Free(p) PROVE A!Next
    BY <2>3, FreeReleases DEF A!Next
  <2>4. ASSUME NEW p \in DOMAIN live, NEW w \in Words, Store(p, w) PROVE A!Next
    BY <2>4, StoreStores DEF A!Next
  <2>5. CASE AssertFails \/ RemovalFaults
    BY <2>5, Unseen DEF AssertFails, RemovalFaults
  <2>6. CASE UNCHANGED vars
    BY <2>6, Unseen DEF vars
  <2> QED BY <2>1, <2>2, <2>3, <2>4, <2>5, <2>6 DEF Next
<1> QED BY <1>1, <1>2, Invariance, PTL DEF Spec, A!Spec, ImplementsAllocator

==============================================================================
