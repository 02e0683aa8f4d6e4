------------------------------ MODULE LexerProofs ------------------------------
(***************************************************************************)
(* The theorems of Lexer, for texts of any length over any characters, any *)
(* letters and any keywords.                                               *)
(***************************************************************************)
EXTENDS Lexer, FiniteSetTheorems, SequenceTheorems, WellFoundedInduction, TLAPS

(***************************************************************************)
(* lexer_process on its own: any text without a NUL.                       *)
(***************************************************************************)
Characters == STRING \ {Nul}

LexerSpec == text \in Seq(Characters) /\ LexerStart /\ [][Lex]_lexer

Kinds == {"integer", "identifier", "operator", "keyword", "char", "string", "eof"}
Places == Nat \X Nat
Tokens == [kind : Kinds, from : Nat, to : Nat, begin : Places, end : Places]

(* Where the loop is, and how far it can have counted: the last step may   *)
(* count two columns that are not there.                                   *)
Counted ==
  /\ text \in Seq(Characters)
  /\ lexed \in {"no", "yes", "error"}
  /\ i \in 0 .. N
  /\ line \in 0 .. i
  /\ position \in Nat /\ position <= i + 2 /\ (i < N => position <= i)

(* Tokens lie behind each other, each with a character of its own.         *)
Cut ==
  /\ stream \in Seq(Tokens)
  /\ Len(stream) <= IF lexed = "yes" THEN i + 1 ELSE i
  /\ \A k \in 1 .. Len(stream) : stream[k].from <= stream[k].to /\ stream[k].to <= i

(* The loop knows its place, but for comments of several lines, and for a  *)
(* comment that the text ends in.                                          *)
InPlace == ~CommentOfLines /\ i < N => <<line, position>> = Place(i)

LexerInv == Counted /\ Cut /\ InPlace /\ TokensInPlace

(***************************************************************************)
(* Sets of places.                                                         *)
(***************************************************************************)
(* A set of naturals has a least element.                                  *)
LEMMA LeastNatural ==
  ASSUME NEW S, S \subseteq Nat, S # {}
  PROVE  \E x \in S : \A y \in S : x <= y
<1> DEFINE R == OpToRel(<, Nat)
<1>1. IsWellFoundedOn(R, Nat)
  BY NatLessThanWellFounded
<1>2. \A x, y \in Nat : x < y => <<x, y>> \in R
  BY DEF OpToRel
<1> HIDE DEF R
<1>3. PICK x \in S : \A y \in S : ~(<<y, x>> \in R)
  BY <1>1, WFMin
<1>4. \A y \in S : ~(y < x)
  BY <1>2, <1>3
<1> QED BY <1>3, <1>4

(* Min of places is the first of them.                                     *)
LEMMA First ==
  ASSUME NEW S, S \subseteq Nat, S # {}
  PROVE  Min(S) \in S /\ \A y \in S : Min(S) <= y
BY LeastNatural DEF Min

(* Max of places of the text is the last of them.                          *)
LEMMA LastPlace ==
  ASSUME NEW n \in Nat, NEW S, S \subseteq 0 .. n, S # {}
  PROVE  Max(S) \in S /\ \A y \in S : Max(S) >= y
<1> DEFINE T == {n - x : x \in S}
<1>1. T \subseteq Nat /\ T # {}
  <2>1. \A x \in S : n - x \in Nat
    OBVIOUS
  <2> QED BY <2>1
<1> HIDE DEF T
<1>2. PICK m \in T : \A y \in T : m <= y
  BY <1>1, LeastNatural
<1>3. PICK x \in S : m = n - x
  BY <1>2 DEF T
<1>4. ASSUME NEW y \in S
      PROVE  x >= y
  <2>1. n - y \in T
    BY DEF T
  <2>2. n - x <= n - y
    BY <1>2, <1>3, <2>1
  <2> QED BY <2>2
<1> QED BY <1>4 DEF Max

(* Two sets of places, one behind the other.                               *)
LEMMA TogetherCounted ==
  ASSUME NEW n \in Nat, NEW S, S \subseteq 0 .. n, NEW T, T \subseteq 0 .. n, S \cap T = {}
  PROVE  /\ Cardinality(S \cup T) = Cardinality(S) + Cardinality(T)
         /\ Cardinality(S) \in Nat /\ Cardinality(T) \in Nat
<1>1. IsFiniteSet(0 .. n)
  BY FS_Interval
<1>2. IsFiniteSet(S) /\ IsFiniteSet(T)
  BY <1>1, FS_Subset
<1>3. Cardinality(S \cap T) = 0
  BY FS_EmptySet
<1>4. Cardinality(S) \in Nat /\ Cardinality(T) \in Nat
  BY <1>2, FS_CardinalityType
<1>5. Cardinality(S \cup T) = Cardinality(S) + Cardinality(T) - Cardinality(S \cap T)
  BY <1>2, FS_Union
<1> QED BY <1>3, <1>4, <1>5

(* Places from one to before another are at most as many as lie between.   *)
LEMMA BetweenCounted ==
  ASSUME NEW a \in Nat, NEW b \in Nat, a <= b, NEW S, S \subseteq a .. b - 1
  PROVE  Cardinality(S) \in 0 .. b - a
<1>1. IsFiniteSet(a .. b - 1) /\ Cardinality(a .. b - 1) = b - a
  <2>1. b - 1 \in Int
    OBVIOUS
  <2>2. /\ IsFiniteSet(a .. b - 1)
        /\ Cardinality(a .. b - 1) = IF a > b - 1 THEN 0 ELSE (b - 1) - a + 1
    BY <2>1, FS_Interval
  <2> QED BY <2>2
<1>2. IsFiniteSet(S) /\ Cardinality(S) <= b - a
  BY <1>1, FS_Subset
<1> QED BY <1>2, FS_CardinalityType

(***************************************************************************)
(* Characters and places.                                                  *)
(***************************************************************************)
(* The characters of the text, and the NUL behind them.                    *)
LEMMA Text ==
  ASSUME text \in Seq(Characters)
  PROVE  /\ N \in Nat
         /\ \A k \in 0 .. N - 1 : At(k) \in Characters /\ At(k) # Nul
         /\ \A k \in Int : k >= N => At(k) = Nul
<1>1. N \in Nat /\ \A k \in 1 .. N : text[k] \in Characters
  BY LenProperties, ElementOfSeq DEF N
<1> QED BY <1>1 DEF At, Characters

(* A line break is no part of a sign, a number, a name or a keyword, nor   *)
(* is the NUL.                                                             *)
LEMMA Separate ==
  /\ {"\n", Nul} \cap (Digits \cup Alnum \cup {"_"}) = {}
  /\ {"\n", Nul} \cap Singles = {} /\ {"\n", Nul} \cap Blanks = {}
  /\ Nul # "\n"
<1>1. {"\n", Nul} \cap Letters = {}
  BY LexerAssumption
<1>2. {"\n", Nul} \cap Digits = {} /\ {"\n", Nul} \cap {"_"} = {}
  BY DEF Digits, Nul
<1>3. {"\n", Nul} \cap Singles = {}
  BY Zenon DEF Singles, Nul
<1>4. {"\n", Nul} \cap Blanks = {}
  BY Zenon DEF Blanks, Nul
<1>5. Nul # "\n"
  BY DEF Nul
<1> QED BY <1>1, <1>2, <1>3, <1>4, <1>5 DEF Alnum

Breaks(a, b) == {k \in a .. b - 1 : At(k) = "\n"}

(* A place counted by the line breaks before it.                           *)
LEMMA PlaceOfBreaks ==
  ASSUME NEW k \in Int
  PROVE  Place(k) = <<Cardinality(Breaks(0, k)),
                      IF Breaks(0, k) = {} THEN k ELSE k - Max(Breaks(0, k)) - 1>>
BY DEF Place, Breaks

(* The place after characters of one line.                                 *)
LEMMA Along ==
  ASSUME NEW a \in Nat, NEW b \in Nat, a <= b, Breaks(a, b) = {},
         NEW l, NEW c \in Int, <<l, c>> = Place(a)
  PROVE  <<l, c + (b - a)>> = Place(b)
<1>1. Breaks(0, b) = Breaks(0, a)
  <2>1. \A k \in a .. b - 1 : At(k) # "\n"
    BY DEF Breaks
  <2>2. \A k \in 0 .. b - 1 : At(k) = "\n" => k \in 0 .. a - 1
    BY <2>1
  <2>3. 0 .. a - 1 \subseteq 0 .. b - 1
    OBVIOUS
  <2> QED BY <2>2, <2>3 DEF Breaks
<1> DEFINE S == Breaks(0, a)
<1>2. l = Cardinality(S) /\ c = IF S = {} THEN a ELSE a - Max(S) - 1
  BY PlaceOfBreaks
<1>3. Place(b) = <<Cardinality(S), IF S = {} THEN b ELSE b - Max(S) - 1>>
  BY <1>1, PlaceOfBreaks
<1>4. S # {} => Max(S) \in Int
  <2>1. S \subseteq 0 .. a
    BY DEF Breaks
  <2> QED BY <2>1, LastPlace
<1> HIDE DEF S
<1> QED BY <1>2, <1>3, <1>4

(* The place after characters of several lines.                            *)
LEMMA Across ==
  ASSUME NEW a \in Nat, NEW b \in Nat, a <= b, Breaks(a, b) # {},
         NEW l, NEW c, <<l, c>> = Place(a)
  PROVE  <<l + Cardinality(Breaks(a, b)), b - Max(Breaks(a, b)) - 1>> = Place(b)
<1> DEFINE S == Breaks(0, a)
           T == Breaks(a, b)
           U == Breaks(0, b)
<1>1. U = S \cup T /\ S \cap T = {} /\ S \subseteq 0 .. b /\ T \subseteq 0 .. b
  <2>1. (0 .. b - 1) = (0 .. a - 1) \cup (a .. b - 1)
    OBVIOUS
  <2>2. (0 .. a - 1) \cap (a .. b - 1) = {} /\ 0 .. b - 1 \subseteq 0 .. b
    OBVIOUS
  <2> QED BY <2>1, <2>2 DEF Breaks
<1>2. \A x \in S, y \in T : x < y
  BY DEF Breaks
<1>3. l = Cardinality(S)
  BY PlaceOfBreaks
<1> HIDE DEF S, T, U
<1>4. Cardinality(U) = Cardinality(S) + Cardinality(T)
  BY <1>1, TogetherCounted
<1>5. Max(U) = Max(T)
  <2>1. Max(T) \in T /\ \A y \in T : Max(T) >= y
    BY <1>1, LastPlace DEF T
  <2>2. Max(U) \in U /\ \A y \in U : Max(U) >= y
    BY <1>1, LastPlace DEF T
  <2>3. PICK m : m = Max(T)
    OBVIOUS
  <2>4. PICK u : u = Max(U)
    OBVIOUS
  <2>5. m \in T /\ u \in S \cup T /\ u >= m
    BY <1>1, <2>1, <2>2, <2>3, <2>4
  <2>6. m \in Int /\ u \in Int
    BY <1>1, <2>5
  <2>7. u \in T
    BY <1>2, <2>5, <2>6
  <2>8. m >= u
    BY <2>1, <2>3, <2>7
  <2> QED BY <2>3, <2>4, <2>5, <2>6, <2>8
<1>6. Place(b) = <<Cardinality(U), b - Max(U) - 1>>
  BY <1>1, PlaceOfBreaks DEF U, T
<1> QED BY <1>3, <1>4, <1>5, <1>6 DEF T

(* Characters read as one of those a run is made of are on one line.       *)
LEMMA RunEnds ==
  ASSUME text \in Seq(Characters), NEW from \in Nat, from <= N,
         NEW chars, {"\n", Nul} \cap chars = {}
  PROVE  /\ RunEnd(from, chars) \in from .. N
         /\ \A k \in from .. RunEnd(from, chars) - 1 : At(k) \in chars
<1> DEFINE S == {k \in from .. N : At(k) \notin chars}
<1>1. N \in Nat /\ At(N) = Nul
  BY Text
<1>2. N \in S /\ S \subseteq Nat
  BY <1>1
<1>3. Min(S) \in S /\ \A y \in S : Min(S) <= y
  BY <1>2, First
<1>4. RunEnd(from, chars) = Min(S)
  BY DEF RunEnd
<1>5. ASSUME NEW k \in from .. Min(S) - 1
      PROVE  At(k) \in chars
  <2>1. Min(S) \in from .. N
    BY <1>3
  <2>2. k \in from .. N /\ ~(Min(S) <= k)
    BY <1>1, <2>1
  <2> QED BY <1>3, <2>2
<1> QED BY <1>3, <1>4, <1>5

(***************************************************************************)
(* What every step keeps.                                                  *)
(***************************************************************************)
(* A comment of several lines is not forgotten.                            *)
LEMMA CommentsStay ==
  ASSUME text' = text, i \in Int, i' \in Int, i <= i', CommentOfLines
  PROVE  CommentOfLines'
<1>1. PICK j \in 0 .. i, k \in 0 .. i :
        j < k /\ Slice(j, j + 2) = <<"/", "*">> /\ At(k) = "\n"
  BY DEF CommentOfLines
<1>2. j \in 0 .. i' /\ k \in 0 .. i'
  OBVIOUS
<1>3. Slice(j, j + 2)' = Slice(j, j + 2) /\ At(k)' = At(k)
  BY DEF Slice, At, N
<1> QED BY <1>1, <1>2, <1>3 DEF CommentOfLines

(* The text and its places stay.                                           *)
LEMMA TextStays ==
  ASSUME text' = text
  PROVE  N' = N /\ \A k \in Int : Place(k)' = Place(k)
BY DEF N, Place, At

(* Blanks and comments add no token, and the last one ends before them.    *)
LEMMA Skipped ==
  ASSUME LexerInv, Reading, UNCHANGED <<text, stream, lexed>>,
         i' \in i + 1 .. N, line' \in 0 .. i',
         position' \in Nat, position' <= i' + 2, i' < N => position' <= i',
         ~CommentOfLines' /\ i' < N => <<line', position'>> = Place(i')
  PROVE  LexerInv'
<1>1. N' = N /\ N \in Nat /\ i \in Nat /\ i' \in Nat /\ i < i' /\ i' <= N
  BY TextStays, Text DEF LexerInv, Counted
<1>2. Counted'
  <2>1. text' \in Seq(Characters) /\ lexed' \in {"no", "yes", "error"}
    BY DEF LexerInv, Counted
  <2>2. i' \in 0 .. N'
    BY ONLY <1>1
  <2>3. i' < N' => position' <= i'
    BY <1>1
  <2> QED BY <2>1, <2>2, <2>3 DEF Counted
<1>3. Cut'
  <2>1. Len(stream) \in Nat /\ \A k \in 1 .. Len(stream) : stream[k] \in Tokens
    BY LenProperties, ElementOfSeq DEF LexerInv, Cut
  <2>2. Len(stream) <= i /\ lexed = "no"
    BY DEF LexerInv, Cut, Reading
  <2>3. \A k \in 1 .. Len(stream) : stream[k].to \in Nat /\ stream[k].to <= i
    BY <2>1 DEF LexerInv, Cut, Tokens
  <2> QED BY <1>1, <2>1, <2>2, <2>3 DEF LexerInv, Cut
<1>4. InPlace'
  BY <1>1, TextStays DEF InPlace
<1>5. TokensInPlace'
  <2>1. SUFFICES ASSUME stream # <<>>, Newest.to = i'
                 PROVE  FALSE
    BY DEF TokensInPlace, JustRead, Newest
  <2>2. Len(stream) \in 1 .. Len(stream)
    BY EmptySeq, <2>1 DEF LexerInv, Cut
  <2>3. Newest \in Tokens
    BY <2>2, ElementOfSeq DEF LexerInv, Cut, Newest
  <2>4. Newest.to <= i /\ Newest.to \in Nat
    BY <2>2, <2>3 DEF LexerInv, Cut, Newest, Tokens
  <2> QED BY <1>1, <2>1, <2>4
<1> QED BY <1>2, <1>3, <1>4, <1>5 DEF LexerInv

(* A token that is read begins where the loop believes it to be. It is in  *)
(* place when the end it is given is, and the loop when it moves along.    *)
LEMMA Read ==
  ASSUME LexerInv, Reading, UNCHANGED <<text, lexed>>,
         i' \in i + 1 .. N, line' \in 0 .. i', position' \in 0 .. i',
         NEW t \in Tokens, stream' = Append(stream, t),
         t.from = i, t.to = i', t.begin = <<line, position>>,
         <<line, position>> = Place(i) =>
           /\ <<line', position'>> = Place(i')
           /\ t.kind \notin {"operator", "keyword"} => t.end = Place(i' - 1)
  PROVE  LexerInv'
<1>1. N' = N /\ N \in Nat /\ i \in Nat /\ i' \in Nat /\ i < i' /\ i < N
  BY TextStays, Text DEF LexerInv, Counted, Reading
<1>2. Counted'
  BY <1>1 DEF LexerInv, Counted
<1>3. /\ Append(stream, t) \in Seq(Tokens)
      /\ Len(stream) \in Nat /\ Len(Append(stream, t)) = Len(stream) + 1
      /\ \A k \in 1 .. Len(stream) : Append(stream, t)[k] = stream[k]
      /\ Append(stream, t)[Len(stream) + 1] = t
  BY AppendProperties, LenProperties DEF LexerInv, Cut
<1>4. Cut'
  <2>1. Len(stream) <= i /\ lexed = "no"
    BY DEF LexerInv, Cut, Reading
  <2>2. \A k \in 1 .. Len(stream) :
          stream[k].to \in Nat /\ stream[k].to <= i /\ stream[k].from <= stream[k].to
    <3>1. \A k \in 1 .. Len(stream) : stream[k] \in Tokens
      BY ElementOfSeq DEF LexerInv, Cut
    <3> QED BY <3>1 DEF LexerInv, Cut, Tokens
  <2>3. \A k \in 1 .. Len(stream) + 1 : k \in 1 .. Len(stream) \/ k = Len(stream) + 1
    BY <1>3
  <2>4. \A k \in 1 .. Len(stream) + 1 : stream'[k].from <= stream'[k].to /\ stream'[k].to <= i'
    <3>1. ASSUME NEW k \in 1 .. Len(stream)
          PROVE  stream'[k].from <= stream'[k].to /\ stream'[k].to <= i'
      BY <1>1, <1>3, <2>2
    <3>2. t.from <= t.to /\ t.to <= i'
      BY <1>1
    <3> QED BY <1>3, <2>3, <3>1, <3>2
  <2>5. Len(stream') <= i' /\ lexed' = "no" /\ Len(stream') = Len(stream) + 1
    BY <1>1, <1>3, <2>1
  <2> QED BY <1>3, <2>4, <2>5 DEF Cut
<1>5. ~CommentOfLines' => <<line, position>> = Place(i)
  BY <1>1, CommentsStay DEF LexerInv, InPlace
<1>6. InPlace'
  BY <1>1, <1>5, TextStays DEF InPlace
<1>7. TokensInPlace'
  <2>1. Newest' = t
    BY <1>3 DEF Newest
  <2>2. i' - 1 \in Int /\ i \in Int
    BY <1>1
  <2>3. Place(t.from)' = Place(i) /\ Place(t.to - 1)' = Place(i' - 1)
    BY <2>2, TextStays DEF Place, At, N
  <2> QED BY <1>5, <2>1, <2>3 DEF TokensInPlace
<1> QED BY <1>2, <1>4, <1>6, <1>7 DEF LexerInv

(***************************************************************************)
(* Tokens.                                                                 *)
(***************************************************************************)
(* What a turn of the loop that reads on starts from.                      *)
LEMMA ReadingFacts ==
  ASSUME LexerInv, Reading
  PROVE  /\ N \in Nat /\ i \in Nat /\ i < N /\ text \in Seq(Characters)
         /\ line \in Nat /\ line <= i /\ position \in Nat /\ position <= i
         /\ lexed = "no"
<1>1. text \in Seq(Characters)
  BY DEF LexerInv, Counted
<1> QED BY <1>1, Text DEF LexerInv, Counted, Reading

(* A token of characters of one line.                                      *)
LEMMA OneLine ==
  ASSUME LexerInv, Reading, NEW kind \in Kinds, NEW to \in i + 1 .. N, NEW pe \in Nat,
         OnOneLine(kind, to, pe), Breaks(i, to) = {},
         kind \notin {"operator", "keyword"} => pe = position + (to - 1 - i)
  PROVE  LexerInv'
<1> DEFINE t == [kind |-> kind, from |-> i, to |-> to,
                 begin |-> <<line, position>>, end |-> <<line, pe>>]
<1>1. /\ N \in Nat /\ i \in Nat /\ i < N /\ text \in Seq(Characters)
      /\ line \in Nat /\ line <= i /\ position \in Nat /\ position <= i
  BY ReadingFacts
<1>2. /\ UNCHANGED <<text, lexed, line>> /\ i' = to /\ position' = position + (to - i)
      /\ stream' = Append(stream, t)
  BY DEF OnOneLine, Push
<1>3. t \in Tokens
  BY <1>1 DEF Tokens, Places
<1>4. i' \in i + 1 .. N /\ line' \in 0 .. i' /\ position' \in 0 .. i'
  BY <1>1, <1>2
<1>5. ASSUME <<line, position>> = Place(i)
      PROVE  /\ <<line', position'>> = Place(i')
             /\ kind \notin {"operator", "keyword"} => <<line, pe>> = Place(i' - 1)
  <2>1. <<line, position + (to - i)>> = Place(to)
    BY <1>1, <1>5, Along
  <2>2. PICK last \in Nat : last = to - 1 /\ i <= last
    BY <1>1
  <2>3. Breaks(i, last) = {}
    <3>1. \A k \in i .. last - 1 : k \in i .. to - 1
      BY <1>1, <2>2
    <3> QED BY <3>1 DEF Breaks
  <2>4. <<line, position + (last - i)>> = Place(last)
    BY ONLY <1>1, <1>5, <2>2, <2>3, Along
  <2> QED BY <1>2, <2>1, <2>2, <2>4
<1>6. /\ t.from = i /\ t.to = i' /\ t.begin = <<line, position>>
      /\ t.end = <<line, pe>> /\ t.kind = kind
  BY <1>2
<1> HIDE DEF t
<1> QED BY <1>2, <1>3, <1>4, <1>5, <1>6, Read

(* A character or string, perhaps of several lines.                        *)
LEMMA Quoting ==
  ASSUME LexerInv, Reading, NEW kind \in {"char", "string"}, NEW end \in i + 1 .. N - 1,
         At(i) # "\n", At(end) # "\n", Quoted(kind, end)
  PROVE  LexerInv'
<1> DEFINE B == {k \in i + 1 .. end - 1 : At(k) = "\n"}
           le == line + Cardinality(B)
           pe == IF B = {} THEN position + (end - i) ELSE end - Max(B) - 1
           t == [kind |-> kind, from |-> i, to |-> end + 1,
                 begin |-> <<line, position>>, end |-> <<le, pe>>]
<1>1. /\ N \in Nat /\ i \in Nat /\ i < N /\ text \in Seq(Characters)
      /\ line \in Nat /\ line <= i /\ position \in Nat /\ position <= i
      /\ end \in Nat /\ i < end /\ i <= end /\ end < N
  BY ReadingFacts
<1> DEFINE next == end + 1
<1>11. next \in Nat /\ i <= next
  BY <1>1
<1>12. next = end + 1
  OBVIOUS
<1>2. /\ UNCHANGED <<text, lexed>> /\ i' = end + 1 /\ line' = le /\ position' = pe + 1
      /\ stream' = Append(stream, t)
  BY DEF Quoted, Push
<1>3. B = Breaks(i, end) /\ B = Breaks(i, next)
  <2>1. \A k \in i .. end + 1 - 1 : k = i \/ k = end \/ k \in i + 1 .. end - 1
    BY <1>1
  <2>2. \A k \in i + 1 .. end - 1 : k \in i .. end - 1 /\ k \in i .. end + 1 - 1
    BY <1>1
  <2>3. \A k \in i .. end - 1 : k \in i .. end + 1 - 1
    BY <1>1
  <2> QED BY <2>1, <2>2, <2>3 DEF Breaks
<1> HIDE DEF next
<1>4. Cardinality(B) \in 0 .. end - i
  <2>1. B \subseteq i .. end - 1
    BY <1>3 DEF Breaks
  <2> HIDE DEF B
  <2> QED BY <1>1, <2>1, BetweenCounted
<1>5. B # {} => Max(B) \in i + 1 .. end - 1
  <2>1. B \subseteq 0 .. end /\ B \subseteq i + 1 .. end - 1
    BY <1>1
  <2> HIDE DEF B
  <2>2. B # {} => Max(B) \in B
    BY <1>1, <2>1, LastPlace
  <2> QED BY <2>1, <2>2
<1> HIDE DEF B
<1>6. pe \in Nat /\ pe + 1 <= end + 1 /\ le \in Nat /\ le <= end
  <2>1. le \in Nat /\ le <= end
    BY <1>1, <1>4
  <2>2. CASE B = {}
    BY <1>1, <2>1, <2>2
  <2>3. CASE B # {}
    <3>1. PICK m \in i + 1 .. end - 1 : m = Max(B)
      BY <1>5, <2>3
    <3>2. pe = end - m - 1
      BY <2>3, <3>1
    <3> HIDE DEF pe
    <3> QED BY <1>1, <2>1, <3>1, <3>2
  <2> QED BY <2>2, <2>3
<1>7. ASSUME <<line, position>> = Place(i)
      PROVE  <<le, pe + 1>> = Place(next) /\ <<le, pe>> = Place(end)
  <2>1. CASE B = {}
    <3>5. Breaks(i, end) = {} /\ Breaks(i, next) = {}
      BY <1>3, <2>1
    <3>1. le = line /\ pe = position + (end - i)
      <4>1. Cardinality(B) = 0
        BY <2>1, FS_EmptySet
      <4> QED BY <1>1, <2>1, <4>1
    <3>2. <<line, position + (end - i)>> = Place(end)
      BY ONLY <1>1, <1>7, <3>5, Along
    <3>3. <<line, position + (next - i)>> = Place(next)
      BY ONLY <1>1, <1>11, <1>7, <3>5, Along
    <3>4. position + (next - i) = position + (end - i) + 1
      BY <1>1, <1>12
    <3> QED BY <3>1, <3>2, <3>3, <3>4
  <2>2. CASE B # {}
    <3>4. Breaks(i, end) # {} /\ Breaks(i, next) # {}
      BY <1>3, <2>2
    <3>1. <<line + Cardinality(Breaks(i, end)), end - Max(Breaks(i, end)) - 1>> = Place(end)
      BY ONLY <1>1, <1>7, <3>4, Across
    <3>2. <<line + Cardinality(Breaks(i, next)), next - Max(Breaks(i, next)) - 1>> = Place(next)
      BY ONLY <1>1, <1>11, <1>7, <3>4, Across
    <3>3. pe + 1 = next - Max(B) - 1
      BY <1>1, <1>12, <1>5, <2>2
    <3> QED BY <1>3, <2>2, <3>1, <3>2, <3>3
  <2> QED BY <2>1, <2>2
<1> HIDE DEF pe, le
<1>8. t \in Tokens
  BY <1>1, <1>6 DEF Tokens, Places, Kinds
<1>9. /\ t.from = i /\ t.to = i' /\ t.begin = <<line, position>>
      /\ t.end = <<le, pe>> /\ i' - 1 = end
  BY <1>1, <1>2
<1>10. i' \in i + 1 .. N /\ line' \in 0 .. i' /\ position' \in 0 .. i'
  BY <1>1, <1>2, <1>6
<1> HIDE DEF t
<1> QED BY <1>2, <1>7, <1>8, <1>9, <1>10, <1>12, Read

(***************************************************************************)
(* The end of a string. Its definition by recursion defines something: a   *)
(* function on the places from any one to the end of the text, since it    *)
(* only looks behind the place it is at.                                   *)
(***************************************************************************)
Closing(f, k) == IF k = N \/ At(k) = "\"" THEN k ELSE f[k + (IF Escape(k) THEN 2 ELSE 1)]
Closes(m) == \E f : f = [k \in m .. N |-> Closing(f, k)]

(* A place of a string, and one behind an escape, stays in the text.       *)
LEMMA StaysInside ==
  ASSUME text \in Seq(Characters), NEW k \in 0 .. N, k # N
  PROVE  k + (IF Escape(k) THEN 2 ELSE 1) \in k + 1 .. N
<1>1. N \in Nat
  BY Text
<1>2. CASE Escape(k)
  <2>1. k + 1 < N
    BY <1>2 DEF Escape
  <2> QED BY <1>1, <1>2, <2>1
<1>3. CASE ~Escape(k)
  BY <1>1, <1>3
<1> QED BY <1>2, <1>3

(* The recursion that looks for a string's end defines a function.         *)
LEMMA ClosesEverywhere ==
  ASSUME text \in Seq(Characters), NEW m \in 0 .. N
  PROVE  Closes(m)
<1> DEFINE S == {n \in 0 .. N : ~Closes(n)}
<1> SUFFICES ASSUME S # {} PROVE FALSE
  OBVIOUS
<1>1. N \in Nat
  BY Text
<1>2. PICK n \in S : \A y \in S : n >= y
  <2>1. Max(S) \in S /\ \A y \in S : Max(S) >= y
    BY <1>1, LastPlace
  <2> QED BY <2>1
<1>3. n \in 0 .. N /\ ~Closes(n)
  BY <1>2
<1>4. CASE n = N
  <2> DEFINE f == [k \in n .. N |-> N]
  <2>1. \A k \in n .. N : Closing(f, k) = N
    BY <1>1, <1>4 DEF Closing
  <2>2. f = [k \in n .. N |-> Closing(f, k)]
    BY <2>1
  <2> QED BY <1>3, <2>2 DEF Closes
<1>5. CASE n < N
  <2>1. n + 1 \in 0 .. N /\ n + 1 \notin S
    BY <1>1, <1>2, <1>3, <1>5
  <2>2. PICK f : f = [k \in n + 1 .. N |-> Closing(f, k)]
    BY <2>1 DEF Closes
  <2> DEFINE g == [k \in n .. N |-> IF k = n THEN Closing(f, n) ELSE f[k]]
  <2>3. ASSUME NEW k \in n .. N
        PROVE  Closing(g, k) = Closing(f, k)
    <3>1. CASE k = N \/ At(k) = "\""
      BY <3>1 DEF Closing
    <3>2. CASE k # N /\ At(k) # "\""
      <4>1. k + (IF Escape(k) THEN 2 ELSE 1) \in n + 1 .. N
        <5>1. k \in 0 .. N
          BY <1>1, <1>3
        <5>2. k + (IF Escape(k) THEN 2 ELSE 1) \in k + 1 .. N
          BY <3>2, <5>1, StaysInside
        <5> QED BY <1>1, <1>3, <5>2
      <4>2. g[k + (IF Escape(k) THEN 2 ELSE 1)] = f[k + (IF Escape(k) THEN 2 ELSE 1)]
        BY <1>1, <1>3, <4>1
      <4> QED BY <3>2, <4>2 DEF Closing
    <3> QED BY <3>1, <3>2
  <2>4. \A k \in n .. N : g[k] = Closing(f, k)
    <3>1. g[n] = Closing(f, n)
      BY <1>1, <1>3
    <3>2. ASSUME NEW k \in n + 1 .. N
          PROVE  g[k] = Closing(f, k)
      <4>1. g[k] = f[k]
        BY <1>1, <1>3
      <4>2. f[k] = Closing(f, k)
        BY <2>2
      <4> QED BY <4>1, <4>2
    <3>3. \A k \in n .. N : k = n \/ k \in n + 1 .. N
      BY <1>1, <1>3
    <3> QED BY <3>1, <3>2, <3>3
  <2>5. g = [k \in n .. N |-> Closing(g, k)]
    <3>1. g = [k \in n .. N |-> g[k]]
      OBVIOUS
    <3> HIDE DEF g
    <3>2. \A k \in n .. N : g[k] = Closing(g, k)
      BY <2>3, <2>4
    <3> QED BY <3>1, <3>2
  <2> QED BY <1>3, <2>5 DEF Closes
<1> QED BY <1>1, <1>3, <1>4, <1>5

(* A string ends at a quote, or is not closed.                             *)
LEMMA StringEnds ==
  ASSUME text \in Seq(Characters), i \in Nat, i < N
  PROVE  /\ StringEnd \in i + 1 .. N
         /\ StringEnd < N => At(StringEnd) = "\""
<1> DEFINE end == CHOOSE f : f = [k \in i + 1 .. N |-> Closing(f, k)]
<1>1. N \in Nat /\ i + 1 \in 0 .. N /\ i \in Nat
  BY Text
<1>2. end = [k \in i + 1 .. N |-> Closing(end, k)]
  BY <1>1, ClosesEverywhere DEF Closes
<1>3. StringEnd = end[i + 1]
  BY DEF StringEnd, Closing
<1> HIDE DEF end
<1> DEFINE Good(k) == end[k] \in k .. N /\ (end[k] < N => At(end[k]) = "\"")
           S == {k \in i + 1 .. N : ~Good(k)}
<1> HIDE DEF Good
<1>4. S = {}
  <2> SUFFICES ASSUME S # {} PROVE FALSE
    OBVIOUS
  <2>1. PICK n \in S : \A y \in S : n >= y
    <3>1. S \subseteq 0 .. N
      BY <1>1
    <3> HIDE DEF S
    <3>2. Max(S) \in S /\ \A y \in S : Max(S) >= y
      BY <1>1, <3>1, LastPlace
    <3> QED BY <3>2
  <2>2. n \in i + 1 .. N /\ n \in Nat /\ n \in 0 .. N /\ end[n] = Closing(end, n)
    BY <1>1, <1>2, <2>1
  <2>3. CASE n = N \/ At(n) = "\""
    <3>1. end[n] = n
      BY <2>2, <2>3 DEF Closing
    <3>2. end[n] \in n .. N
      BY <1>1, <2>2, <3>1
    <3>3. end[n] < N => At(end[n]) = "\""
      <4> SUFFICES ASSUME end[n] < N PROVE At(end[n]) = "\""
        OBVIOUS
      <4>1. n # N
        BY ONLY <1>1, <3>1, end[n] < N
      <4> QED BY <2>3, <3>1, <4>1
    <3> QED BY <2>1, <3>2, <3>3 DEF Good
  <2>4. CASE n # N /\ At(n) # "\""
    <3>1. PICK m : m = n + (IF Escape(n) THEN 2 ELSE 1)
      OBVIOUS
    <3>2. m \in n + 1 .. N /\ m \in i + 1 .. N
      <4>1. m \in n + 1 .. N
        BY <2>2, <2>4, <3>1, StaysInside
      <4> QED BY <1>1, <2>2, <4>1
    <3>3. m \notin S
      BY <2>1, <2>2, <3>2
    <3>4. end[n] = end[m]
      BY <2>2, <2>4, <3>1 DEF Closing
    <3>5. end[m] \in m .. N /\ (end[m] < N => At(end[m]) = "\"")
      BY <3>2, <3>3 DEF Good
    <3>6. end[n] \in n .. N
      <4>1. end[m] \in m .. N
        BY <3>5
      <4> QED BY <1>1, <2>2, <3>2, <3>4, <4>1
    <3> QED BY <2>1, <3>4, <3>5, <3>6 DEF Good
  <2> QED BY <2>3, <2>4
<1>5. i + 1 \in i + 1 .. N /\ i + 1 \notin S
  BY <1>1, <1>4
<1> QED BY <1>3, <1>5 DEF Good

(***************************************************************************)
(* Comments and blanks.                                                    *)
(***************************************************************************)
(* A line break ends a line.                                               *)
LEMMA LineEnds ==
  ASSUME NEW a \in Nat, NEW e \in Nat, a <= e, At(e) = "\n", Breaks(a, e) = {},
         NEW l \in Nat, NEW c, <<l, c>> = Place(a)
  PROVE  <<l + 1, 0>> = Place(e + 1)
<1> DEFINE next == e + 1
<1>1. next \in Nat /\ a <= next /\ e \in 0 .. e
  OBVIOUS
<1>2. Breaks(a, next) = {e}
  <2>1. \A k \in Int : k \in a .. next - 1 <=> k \in a .. e - 1 \/ k = e
    OBVIOUS
  <2>2. \A k \in a .. e - 1 : At(k) # "\n"
    BY DEF Breaks
  <2>3. \A k \in a .. next - 1 : At(k) = "\n" <=> k = e
    BY <2>1, <2>2
  <2>4. e \in a .. next - 1
    OBVIOUS
  <2> QED BY <2>3, <2>4 DEF Breaks
<1>3. Cardinality({e}) = 1
  BY FS_Singleton
<1>4. Max({e}) = e
  <2>1. Max({e}) \in {e}
    BY <1>1, LastPlace
  <2> QED BY <2>1
<1>5. next - e - 1 = 0 /\ next = e + 1
  OBVIOUS
<1> HIDE DEF next
<1>6. <<l + Cardinality(Breaks(a, next)), next - Max(Breaks(a, next)) - 1>> = Place(next)
  <2>1. Breaks(a, next) # {}
    BY <1>2
  <2> QED BY ONLY <1>1, <2>1, <<l, c>> = Place(a), Across
<1> QED BY <1>2, <1>3, <1>4, <1>5, <1>6

(* A line comment ends a line, or the text.                                *)
LEMMA LineComments ==
  ASSUME LexerInv, LineComment
  PROVE  LexerInv'
<1> DEFINE S == {k \in i + 1 .. N : At(k) = "\n" \/ k = N}
           e == Min(S)
           T == {N, e + 1}
<1>1. /\ N \in Nat /\ i \in Nat /\ i < N /\ text \in Seq(Characters)
      /\ line \in Nat /\ line <= i /\ position \in Nat /\ position <= i
  BY ReadingFacts DEF LineComment
<1>2. /\ Reading /\ At(i) = "/" /\ UNCHANGED <<text, stream, lexed>>
      /\ i' = Min(T) /\ position' = 0 /\ line' = line + 1
  BY DEF LineComment
<1>3. e \in S /\ \A y \in S : e <= y
  <2>1. N \in S
    BY <1>1
  <2>2. S \subseteq Nat
    BY <1>1
  <2> HIDE DEF S
  <2> QED BY <2>1, <2>2, First
<1>4. e \in i + 1 .. N /\ e \in Nat /\ i <= e
  BY <1>1, <1>3
<1>5. e # N => At(e) = "\n"
  BY <1>3
<1>6. Breaks(i, e) = {}
  <2> SUFFICES ASSUME NEW k \in i .. e - 1 PROVE At(k) # "\n"
    BY DEF Breaks
  <2>1. CASE k = i
    BY <1>2, <2>1
  <2>2. CASE k # i
    <3>1. k \in i + 1 .. N /\ ~(e <= k)
      BY <1>1, <1>4, <2>2
    <3> QED BY <1>3, <3>1
  <2> QED BY <2>1, <2>2
<1> HIDE DEF S, e
<1>7. i' \in T /\ i' <= N /\ i' <= e + 1
  <2>1. T \subseteq Nat
    BY <1>1, <1>4
  <2>2. Min(T) \in T /\ \A y \in T : Min(T) <= y
    BY <2>1, First
  <2> QED BY <1>2, <2>2
<1>8. i' \in i + 1 .. N /\ line' \in 0 .. i'
  BY <1>1, <1>2, <1>4, <1>7
<1>9. ASSUME ~CommentOfLines', i' < N
      PROVE  <<line', position'>> = Place(i')
  <2>1. <<line, position>> = Place(i)
    BY <1>1, <1>8, <1>9, <1>2, CommentsStay DEF LexerInv, InPlace
  <2>2. i' = e + 1 /\ e # N
    BY <1>1, <1>4, <1>7, <1>9
  <2>3. <<line + 1, 0>> = Place(e + 1)
    BY ONLY <1>1, <1>4, <1>5, <1>6, <2>1, <2>2, LineEnds
  <2> QED BY <1>2, <2>2, <2>3
<1>10. position' \in Nat /\ position' <= i' + 2 /\ (i' < N => position' <= i')
  BY <1>1, <1>2, <1>8
<1> QED BY <1>2, <1>8, <1>9, <1>10, Skipped

(* A blank takes a column.                                                 *)
LEMMA Blanks1 ==
  ASSUME LexerInv, Blank
  PROVE  LexerInv'
<1>1. /\ N \in Nat /\ i \in Nat /\ i < N /\ text \in Seq(Characters)
      /\ line \in Nat /\ line <= i /\ position \in Nat /\ position <= i
  BY ReadingFacts DEF Blank
<1>2. /\ Reading /\ At(i) \in Blanks /\ UNCHANGED <<text, stream, lexed>>
      /\ i' = i + 1 /\ position' = position + 1 /\ line' = line
  BY DEF Blank
<1>3. Breaks(i, i') = {}
  <2>1. \A k \in i .. i' - 1 : k = i
    BY <1>1, <1>2
  <2> QED BY <1>2, <2>1, Separate DEF Breaks
<1>4. i' \in i + 1 .. N /\ i' \in Nat /\ i <= i' /\ line' \in 0 .. i' /\ i' - i = 1
  BY <1>1, <1>2
<1>5. ASSUME ~CommentOfLines', i' < N
      PROVE  <<line', position'>> = Place(i')
  <2>1. <<line, position>> = Place(i)
    BY <1>1, <1>4, <1>5, <1>2, CommentsStay DEF LexerInv, InPlace
  <2>2. <<line, position + (i' - i)>> = Place(i')
    BY ONLY <1>1, <1>3, <1>4, <2>1, Along
  <2> QED BY <1>2, <1>4, <2>2
<1>6. position' \in Nat /\ position' <= i' + 2 /\ (i' < N => position' <= i')
  BY <1>1, <1>2
<1> QED BY <1>2, <1>4, <1>5, <1>6, Skipped

(* A line break starts the next line.                                      *)
LEMMA NewLines ==
  ASSUME LexerInv, NewLine
  PROVE  LexerInv'
<1>1. /\ N \in Nat /\ i \in Nat /\ i < N /\ text \in Seq(Characters)
      /\ line \in Nat /\ line <= i /\ position \in Nat /\ position <= i
  BY ReadingFacts DEF NewLine
<1>2. /\ Reading /\ At(i) = "\n" /\ UNCHANGED <<text, stream, lexed>>
      /\ i' = i + 1 /\ position' = 0 /\ line' = line + 1
  BY DEF NewLine
<1>3. Breaks(i, i) = {} /\ i <= i
  <2>1. i .. i - 1 = {}
    BY <1>1
  <2> QED BY <1>1, <2>1 DEF Breaks
<1>4. i' \in i + 1 .. N /\ line' \in 0 .. i'
  BY <1>1, <1>2
<1>5. ASSUME ~CommentOfLines', i' < N
      PROVE  <<line', position'>> = Place(i')
  <2>1. <<line, position>> = Place(i)
    BY <1>1, <1>4, <1>5, <1>2, CommentsStay DEF LexerInv, InPlace
  <2>2. <<line + 1, 0>> = Place(i + 1)
    BY ONLY <1>1, <1>2, <1>3, <2>1, LineEnds
  <2> QED BY <1>2, <2>2
<1>6. position' \in Nat /\ position' <= i' + 2 /\ (i' < N => position' <= i')
  BY <1>1, <1>2
<1> QED BY <1>2, <1>4, <1>5, <1>6, Skipped

(* Two characters.                                                         *)
LEMMA Pair ==
  ASSUME text \in Seq(Characters), NEW a \in Nat, a + 1 < N
  PROVE  Slice(a, a + 2) = <<At(a), At(a + 1)>>
<1>1. N \in Nat /\ \A k \in 1 .. N : text[k] \in Characters
  BY Text, ElementOfSeq DEF N
<1>2. Slice(a, a + 2) = SubSeq(text, a + 1, a + 2)
  BY <1>1 DEF Slice
<1>3. /\ SubSeq(text, a + 1, a + 2) \in Seq(Characters)
      /\ Len(SubSeq(text, a + 1, a + 2)) = 2
      /\ SubSeq(text, a + 1, a + 2)[1] = text[a + 1]
      /\ SubSeq(text, a + 1, a + 2)[2] = text[a + 2]
  <2>1. \A k \in a + 1 .. a + 2 : text[k] \in Characters
    BY <1>1
  <2>2. /\ SubSeq(text, a + 1, a + 2) \in Seq(Characters)
        /\ Len(SubSeq(text, a + 1, a + 2)) =
             IF a + 1 <= a + 2 THEN a + 2 - (a + 1) + 1 ELSE 0
        /\ \A k \in 1 .. a + 2 - (a + 1) + 1 :
             SubSeq(text, a + 1, a + 2)[k] = text[a + 1 + k - 1]
    <3>1. a + 1 \in Int /\ a + 2 \in Int
      OBVIOUS
    <3> QED BY <2>1, <3>1, SubSeqProperties
  <2> QED BY <2>2
<1>4. At(a) = text[a + 1] /\ At(a + 1) = text[a + 2]
  BY <1>1 DEF At
<1> DEFINE s == SubSeq(text, a + 1, a + 2)
<1> HIDE DEF s
<1>5. s = <<s[1], s[2]>>
  <2>1. s \in Seq(Characters) /\ Len(s) = 2
    BY <1>3 DEF s
  <2> QED BY <2>1
<1> QED BY <1>2, <1>3, <1>4, <1>5 DEF s

(* A block comment on one line keeps the place; one of several lines is    *)
(* remembered by the text that has been read.                              *)
LEMMA BlockComments ==
  ASSUME LexerInv, BlockComment
  PROVE  LexerInv'
<1> DEFINE from == i + 2
           E == {k \in from .. from + N : k + 2 > N \/ Slice(k, k + 2) = <<"*", "/">>}
           end == Min(E)
           B == {k \in from + 1 .. end : At(k) = "\n"}
           T == {end + 2, N}
           w == 2 + (IF B = {} THEN position + 2 + (end - from) ELSE end - Max(B))
<1>1. /\ N \in Nat /\ i \in Nat /\ i < N /\ text \in Seq(Characters)
      /\ line \in Nat /\ line <= i /\ position \in Nat /\ position <= i
  BY ReadingFacts DEF BlockComment
<1>2. /\ Reading /\ At(i) = "/" /\ At(i + 1) = "*" /\ UNCHANGED <<text, stream, lexed>>
      /\ i' = Min(T) /\ position' = w /\ line' = line + Cardinality(B)
  BY DEF BlockComment
<1>3. i + 1 < N
  <2>1. At(i + 1) # Nul
    BY <1>2 DEF Nul
  <2> QED BY <1>1, <2>1, Text
<1>4. from \in Nat /\ from = i + 2
  BY <1>1
<1> HIDE DEF from
<1>5. end \in E /\ \A y \in E : end <= y
  <2>1. from + N \in E
    BY <1>1, <1>4
  <2>2. E \subseteq Nat
    BY <1>1, <1>4
  <2> HIDE DEF E
  <2> QED BY <2>1, <2>2, First
<1>6. end \in Nat /\ from <= end /\ end <= N
  <2>1. end \in from .. from + N
    BY <1>5
  <2>2. CASE N = from
    <3>1. from \in E
      BY <1>1, <1>4, <2>2
    <3> QED BY <1>1, <1>4, <1>5, <2>1, <2>2, <3>1
  <2>3. CASE N # from
    <3>1. N - 1 \in E
      BY <1>1, <1>3, <1>4, <2>3
    <3>2. end <= N - 1
      BY <1>5, <3>1
    <3> QED BY <1>1, <1>4, <2>1, <3>2
  <2> QED BY <2>2, <2>3
<1> HIDE DEF E, end
<1>7. i' \in T /\ i' <= N /\ i' <= end + 2
  <2>1. T \subseteq Nat
    BY <1>1, <1>6
  <2>2. Min(T) \in T /\ \A y \in T : Min(T) <= y
    BY <2>1, First
  <2> QED BY <1>2, <2>2
<1>8. i' \in i + 1 .. N /\ i' \in Nat /\ i <= i'
  BY <1>1, <1>3, <1>4, <1>6, <1>7
<1>9. Cardinality(B) \in 0 .. end - from
  <2>1. B \subseteq from + 1 .. (end + 1) - 1
    BY <1>4, <1>6
  <2>2. from + 1 \in Nat /\ end + 1 \in Nat /\ from + 1 <= end + 1
    BY <1>4, <1>6
  <2> HIDE DEF B
  <2>3. Cardinality(B) \in 0 .. (end + 1) - (from + 1)
    BY <2>1, <2>2, BetweenCounted
  <2> QED BY <1>4, <1>6, <2>3
<1>10. B # {} => Max(B) \in from + 1 .. end
  <2>1. B \subseteq 0 .. end /\ B \subseteq from + 1 .. end
    BY <1>4, <1>6
  <2> HIDE DEF B
  <2>2. B # {} => Max(B) \in B
    BY <1>6, <2>1, LastPlace
  <2> QED BY <2>1, <2>2
<1>11. w \in Nat /\ w <= end + 2
  <2>1. CASE B = {}
    BY <1>1, <1>4, <1>6, <2>1
  <2>2. CASE B # {}
    <3>1. PICK m \in from + 1 .. end : m = Max(B)
      BY <1>10, <2>2
    <3>2. w = 2 + (end - m)
      BY <2>2, <3>1
    <3> HIDE DEF w
    <3> QED BY <1>1, <1>4, <1>6, <3>1, <3>2
  <2> QED BY <2>1, <2>2
<1>12. line' \in 0 .. i'
  <2>1. line' <= end - 2 /\ line' \in Nat
    BY <1>1, <1>2, <1>4, <1>6, <1>9
  <2> QED BY <1>6, <1>7, <1>8, <2>1
<1>13. position' \in Nat /\ position' <= i' + 2 /\ (i' < N => position' <= i')
  <2> HIDE DEF w
  <2>1. position' \in Nat /\ position' <= end + 2
    BY <1>2, <1>11
  <2>2. CASE i' = end + 2
    BY ONLY <1>1, <1>6, <2>1, <2>2
  <2>3. CASE i' = N
    BY ONLY <1>1, <1>6, <2>1, <2>3
  <2> QED BY <1>7, <2>2, <2>3
<1>14. ASSUME ~CommentOfLines', i' < N
       PROVE  <<line', position'>> = Place(i')
  <2>1. <<line, position>> = Place(i)
    BY <1>1, <1>2, <1>8, <1>14, CommentsStay DEF LexerInv, InPlace
  <2>2. i' = end + 2
    BY <1>1, <1>7, <1>14
  <2>3. ASSUME NEW k \in i + 1 .. i'
        PROVE  At(k) # "\n"
    <3>1. Slice(i, i + 2) = <<"/", "*">>
      BY <1>1, <1>2, <1>3, Pair
    <3>2. Slice(i, i + 2)' = Slice(i, i + 2)' /\ At(k)' = At(k)
      BY <1>2 DEF At, N
    <3>3. \A j \in 0 .. i' : Slice(j, j + 2)' = Slice(j, j + 2)
      BY <1>2 DEF Slice, N
    <3>4. i \in 0 .. i' /\ k \in 0 .. i' /\ i < k
      BY <1>1, <1>8
    <3>5. \A j \in 0 .. i' : ~(j < k /\ Slice(j, j + 2)' = <<"/", "*">> /\ At(k)' = "\n")
      BY <1>14, <3>4 DEF CommentOfLines
    <3> QED BY <3>1, <3>2, <3>3, <3>4, <3>5
  <2>4. Breaks(i, i') = {}
    <3>4. PICK next \in Nat : next = i'
      BY <1>8
    <3>1. \A k \in i .. i' - 1 : k = i \/ k \in i + 1 .. i'
      <4>1. \A k \in i .. next - 1 : k = i \/ k \in i + 1 .. next
        BY <1>1
      <4> QED BY <3>4, <4>1
    <3>2. At(i) # "\n"
      BY <1>2
    <3> QED BY <2>3, <3>1, <3>2 DEF Breaks
  <2>5. B = {}
    <3>1. \A k \in from + 1 .. end : k \in i + 1 .. i'
      BY <1>1, <1>4, <1>6, <2>2
    <3> QED BY <2>3, <3>1
  <2>6. <<line, position + (i' - i)>> = Place(i')
    BY ONLY <1>1, <1>8, <2>1, <2>4, Along
  <2>7. line' = line /\ position' = position + (i' - i)
    <3>1. Cardinality(B) = 0
      BY <2>5, FS_EmptySet
    <3>2. w = 2 + (position + 2 + (end - from))
      BY <2>5
    <3> HIDE DEF w, B
    <3> QED BY <1>1, <1>2, <1>4, <1>6, <2>2, <3>1, <3>2
  <2> QED BY <2>6, <2>7
<1> QED BY <1>2, <1>8, <1>12, <1>13, <1>14, Skipped

(***************************************************************************)
(* The steps that read a token, and the last one.                          *)
(***************************************************************************)
(* No sign of two characters ends with a line break or the NUL.            *)
LEMMA Signs ==
  \A x, y : <<x, y>> \in Doubles => y \notin {"\n", Nul}
<1> SUFFICES ASSUME NEW x, NEW y, <<x, y>> \in Doubles PROVE y \notin {"\n", Nul}
  OBVIOUS
<1>1. y \in {"=", "-", "<", ">"}
  BY DEF Doubles
<1> QED BY <1>1 DEF Nul

(* An operator is one or two characters of a line.                         *)
LEMMA Operators ==
  ASSUME LexerInv, Operator
  PROVE  LexerInv'
<1> DEFINE double == <<At(i), At(i + 1)>> \in Doubles
           to == IF double THEN i + 2 ELSE i + 1
<1>1. /\ N \in Nat /\ i \in Nat /\ i < N /\ text \in Seq(Characters)
      /\ line \in Nat /\ line <= i /\ position \in Nat /\ position <= i
  BY ReadingFacts DEF Operator
<1>2. Reading /\ At(i) \in Singles /\ OnOneLine("operator", to, position + (to - i) + 1)
  BY DEF Operator
<1>3. double => At(i + 1) \notin {"\n", Nul}
  BY Signs
<1> HIDE DEF double
<1>4. to \in i + 1 .. N
  <2>1. double => i + 1 < N
    BY <1>1, <1>3, Text
  <2> QED BY <1>1, <2>1
<1>5. Breaks(i, to) = {}
  <2> SUFFICES ASSUME NEW k \in i .. to - 1 PROVE At(k) # "\n"
    BY DEF Breaks
  <2>1. CASE k = i
    BY <1>2, <2>1, Separate
  <2>2. CASE k # i
    <3>1. double /\ k = i + 1
      BY <1>1, <2>2
    <3> QED BY <1>3, <3>1
  <2> QED BY <2>1, <2>2
<1> HIDE DEF to
<1>6. position + (to - i) + 1 \in Nat
  BY <1>1, <1>4
<1>7. "operator" \in Kinds
  BY DEF Kinds
<1> QED BY <1>2, <1>4, <1>5, <1>6, <1>7, OneLine

(* A number or a name: one character and a run.                            *)
LEMMA Runs ==
  ASSUME LexerInv, Reading, NEW chars, {"\n", Nul} \cap chars = {}, At(i) # "\n",
         NEW kind \in {"integer", "identifier"},
         OnOneLine(kind, RunEnd(i + 1, chars), position + (RunEnd(i + 1, chars) - 1 - i))
  PROVE  LexerInv'
<1> DEFINE to == RunEnd(i + 1, chars)
<1>1. /\ N \in Nat /\ i \in Nat /\ i < N /\ text \in Seq(Characters)
      /\ line \in Nat /\ line <= i /\ position \in Nat /\ position <= i
      /\ i + 1 \in Nat /\ i + 1 <= N
  BY ReadingFacts
<1>2. to \in i + 1 .. N /\ \A k \in i + 1 .. to - 1 : At(k) \in chars
  BY <1>1, RunEnds
<1> HIDE DEF to
<1>3. Breaks(i, to) = {}
  <2> SUFFICES ASSUME NEW k \in i .. to - 1 PROVE At(k) # "\n"
    BY DEF Breaks
  <2>1. k = i \/ k \in i + 1 .. to - 1
    BY <1>1, <1>2
  <2> QED BY <1>2, <2>1
<1>4. position + (to - 1 - i) \in Nat
  BY <1>1, <1>2
<1>5. kind \in Kinds
  BY DEF Kinds
<1>6. OnOneLine(kind, to, position + (to - 1 - i))
  BY DEF to
<1> QED BY <1>2, <1>3, <1>4, <1>5, <1>6, OneLine

(* A number is a digit or a minus, and a run of digits.                    *)
LEMMA Numbers ==
  ASSUME LexerInv, Number
  PROVE  LexerInv'
<1> DEFINE to == RunEnd(i + 1, Digits)
<1>1. Reading /\ OnOneLine("integer", to, position + (to - 1 - i))
  BY DEF Number
<1>2. At(i) \in Digits \/ At(i) = "-"
  BY DEF Number, Negative
<1>3. {"\n", Nul} \cap Digits = {} /\ At(i) # "\n"
  BY <1>2, Separate
<1> QED BY <1>1, <1>3, Runs

(* A name is a letter and a run of letters, digits and underlines.         *)
LEMMA Identifiers ==
  ASSUME LexerInv, Identifier
  PROVE  LexerInv'
<1> DEFINE chars == Alnum \cup {"_"}
           to == RunEnd(i + 1, chars)
<1>1. Reading /\ OnOneLine("identifier", to, position + (to - 1 - i)) /\ At(i) \in chars
  BY DEF Identifier, Alnum
<1>2. {"\n", Nul} \cap chars = {} /\ At(i) # "\n"
  BY <1>1, Separate
<1> HIDE DEF chars
<1> QED BY <1>1, <1>2, Runs

(* A keyword is letters of a line.                                         *)
LEMMA Keywording ==
  ASSUME LexerInv, Keyword
  PROVE  LexerInv'
<1>1. /\ N \in Nat /\ i \in Nat /\ i < N /\ text \in Seq(Characters)
      /\ line \in Nat /\ line <= i /\ position \in Nat /\ position <= i
  BY ReadingFacts DEF Keyword
<1>2. PICK w \in Keywords :
        KeywordAt(w) /\ OnOneLine("keyword", i + Len(w), position + Len(w) + 1)
  BY DEF Keyword
<1>3. w \in Seq(Letters) /\ Len(w) \in Nat \ {0} /\ \A k \in 1 .. Len(w) : w[k] \in Letters
  <2>1. w \in Seq(Letters) /\ w # <<>>
    BY <1>2, LexerAssumption
  <2> QED BY <2>1, EmptySeq, ElementOfSeq
<1> DEFINE to == i + Len(w)
<1>4. to \in Nat /\ i < to /\ to < N
  <2>1. i + Len(w) + 1 <= N
    BY <1>2 DEF KeywordAt
  <2> QED BY <1>1, <1>3, <2>1
<1>5. w = SubSeq(text, i + 1, to)
  BY <1>1, <1>2, <1>4 DEF KeywordAt, Slice
<1> HIDE DEF to
<1>6. ASSUME NEW k \in i .. to - 1
      PROVE  At(k) \in Letters
  <2>1. \A m \in i + 1 .. to : text[m] \in Characters
    BY <1>1, <1>4, ElementOfSeq DEF N
  <2>2. \A m \in 1 .. to - (i + 1) + 1 : w[m] = text[(i + 1) + m - 1]
    <3>1. i + 1 \in Int /\ to \in Int
      BY <1>1, <1>4
    <3> QED BY <1>5, <2>1, <3>1, SubSeqProperties
  <2>3. k - i + 1 \in 1 .. to - (i + 1) + 1 /\ (i + 1) + (k - i + 1) - 1 = k + 1
    BY <1>1, <1>4
  <2>4. w[k - i + 1] = text[k + 1]
    BY <2>2, <2>3
  <2>5. k - i + 1 \in 1 .. Len(w)
    BY <1>1, <1>3, <1>4 DEF to
  <2>6. At(k) = text[k + 1]
    BY <1>1, <1>4 DEF At
  <2> QED BY <1>3, <2>4, <2>5, <2>6
<1>7. Breaks(i, to) = {}
  <2>1. "\n" \notin Letters
    BY LexerAssumption
  <2> QED BY <1>6, <2>1 DEF Breaks
<1>8. to \in i + 1 .. N /\ position + Len(w) + 1 \in Nat /\ "keyword" \in Kinds
  BY <1>1, <1>3, <1>4 DEF Kinds
<1>9. Reading /\ OnOneLine("keyword", to, position + Len(w) + 1)
  BY <1>2 DEF to, Keyword
<1> QED BY <1>7, <1>8, <1>9, OneLine

(* An error ends the loop where it is.                                     *)
LEMMA Failing ==
  ASSUME LexerInv, Reading, Fails
  PROVE  LexerInv'
<1>1. UNCHANGED <<text, i, line, position, stream>> /\ lexed = "no" /\ lexed' = "error"
  BY DEF Fails, Reading
<1>2. N' = N /\ CommentOfLines' = CommentOfLines /\ Place(i)' = Place(i)
  BY <1>1 DEF N, CommentOfLines, Slice, At, Place
<1>3. Counted' /\ Cut'
  BY <1>1, <1>2 DEF LexerInv, Counted, Cut
<1>4. InPlace'
  BY <1>1, <1>2 DEF LexerInv, InPlace
<1>5. TokensInPlace'
  <2>1. Newest' = Newest /\ JustRead' = JustRead
    BY <1>1 DEF Newest, JustRead
  <2>2. Place(Newest.from)' = Place(Newest.from) /\ Place(Newest.to - 1)' = Place(Newest.to - 1)
    BY <1>1 DEF Place, At, N, Newest
  <2> QED BY <1>2, <2>1, <2>2 DEF LexerInv, TokensInPlace
<1> QED BY <1>3, <1>4, <1>5 DEF LexerInv

(* A character stays in place even when it is a line break.                *)
LEMMA CharLiterals ==
  ASSUME LexerInv, CharLiteral
  PROVE  LexerInv'
<1>1. Reading /\ At(i) = "'"
  BY DEF CharLiteral
<1>2. CASE At(CharEnd) = "'"
  <2>1. /\ N \in Nat /\ i \in Nat /\ i < N /\ text \in Seq(Characters)
    BY <1>1, ReadingFacts
  <2>2. Quoted("char", CharEnd)
    BY <1>2 DEF CharLiteral
  <2>3. At(CharEnd) # Nul /\ CharEnd \in {i + 2, i + 3}
    BY <1>2 DEF Nul, CharEnd
  <2>4. CharEnd < N
    BY <2>1, <2>3, Text
  <2>5. CharEnd \in i + 1 .. N - 1
    BY <2>1, <2>3, <2>4
  <2>6. At(i) # "\n" /\ At(CharEnd) # "\n"
    BY <1>1, <1>2
  <2> QED BY <1>1, <2>2, <2>5, <2>6, Quoting
<1>3. CASE At(CharEnd) # "'"
  BY <1>1, <1>3, Failing DEF CharLiteral
<1> QED BY <1>2, <1>3

(* A string stays in place over the line breaks inside it.                 *)
LEMMA StringLiterals ==
  ASSUME LexerInv, StringLiteral
  PROVE  LexerInv'
<1>1. Reading /\ At(i) = "\""
  BY DEF StringLiteral
<1>2. CASE StringEnd < N
  <2>1. /\ N \in Nat /\ i \in Nat /\ i < N /\ text \in Seq(Characters)
    BY <1>1, ReadingFacts
  <2>2. Quoted("string", StringEnd)
    BY <1>2 DEF StringLiteral
  <2>3. StringEnd \in i + 1 .. N /\ At(StringEnd) = "\""
    BY <1>2, <2>1, StringEnds
  <2>4. StringEnd \in i + 1 .. N
    BY <2>3
  <2>5. StringEnd \in i + 1 .. N - 1
    BY ONLY <1>2, <2>1, <2>4
  <2>6. At(i) # "\n" /\ At(StringEnd) # "\n"
    BY <1>1, <2>3
  <2> QED BY <1>1, <2>2, <2>5, <2>6, Quoting
<1>3. CASE ~(StringEnd < N)
  BY <1>1, <1>3, Failing DEF StringLiteral
<1> QED BY <1>2, <1>3

(* The end of the text is a token of its own.                              *)
LEMMA TextEnds ==
  ASSUME LexerInv, EndOfText
  PROVE  LexerInv'
<1> DEFINE t == [kind |-> "eof", from |-> i, to |-> i,
                 begin |-> <<line, position>>, end |-> <<line, position>>]
<1>1. /\ UNCHANGED <<text, i, line, position>> /\ lexed = "no" /\ lexed' = "yes"
      /\ stream' = Append(stream, t)
  BY DEF EndOfText, Push
<1>2. N \in Nat /\ i \in Nat /\ line \in Nat /\ position \in Nat
  BY Text DEF LexerInv, Counted
<1>3. t \in Tokens /\ t.from = i /\ t.to = i /\ t.kind = "eof"
  BY <1>2 DEF Tokens, Places, Kinds
<1> HIDE DEF t
<1>4. N' = N /\ CommentOfLines' = CommentOfLines /\ Place(i)' = Place(i)
  BY <1>1 DEF N, CommentOfLines, Slice, At, Place
<1>5. Counted'
  BY <1>1, <1>4 DEF LexerInv, Counted
<1>6. /\ Append(stream, t) \in Seq(Tokens)
      /\ Len(stream) \in Nat /\ Len(Append(stream, t)) = Len(stream) + 1
      /\ \A k \in 1 .. Len(stream) : Append(stream, t)[k] = stream[k]
      /\ Append(stream, t)[Len(stream) + 1] = t
  BY <1>3, AppendProperties, LenProperties DEF LexerInv, Cut
<1>7. Cut'
  <2>1. Len(stream) <= i
    BY <1>1 DEF LexerInv, Cut
  <2>2. Len(stream') <= i' + 1
    BY <1>1, <1>2, <1>6, <2>1
  <2>3. ASSUME NEW k \in 1 .. Len(stream')
        PROVE  stream'[k].from <= stream'[k].to /\ stream'[k].to <= i'
    <3>1. CASE k \in 1 .. Len(stream)
      BY <1>1, <1>6, <3>1 DEF LexerInv, Cut
    <3>2. CASE k = Len(stream) + 1
      BY <1>1, <1>2, <1>3, <1>6, <3>2
    <3> QED BY <1>1, <1>6, <3>1, <3>2
  <2> QED BY <1>1, <1>6, <2>2, <2>3 DEF Cut
<1>8. InPlace'
  BY <1>1, <1>4 DEF LexerInv, InPlace
<1>9. TokensInPlace'
  <2>1. Newest' = t
    BY <1>1, <1>6 DEF Newest
  <2> QED BY <1>3, <2>1 DEF TokensInPlace
<1> QED BY <1>5, <1>7, <1>8, <1>9 DEF LexerInv

(* Nothing the invariant speaks of changes without a step.                 *)
LEMMA Stutter ==
  ASSUME LexerInv, UNCHANGED lexer
  PROVE  LexerInv'
BY DEF LexerInv, Counted, Cut, InPlace, TokensInPlace, JustRead, Newest, CommentOfLines, Place,
       Slice, At, N, lexer

(***************************************************************************)
(* The theorems.                                                           *)
(***************************************************************************)
(* The loop starts in place, with nothing read.                            *)
LEMMA LexerInit == text \in Seq(Characters) /\ LexerStart => LexerInv
<1> SUFFICES ASSUME text \in Seq(Characters), LexerStart PROVE LexerInv
  OBVIOUS
<1>1. N \in Nat
  BY Text
<1>2. Counted /\ Cut
  <2>1. <<>> \in Seq(Tokens) /\ Len(<<>>) = 0
    BY EmptySeq
  <2> QED BY <1>1, <2>1 DEF Counted, Cut, LexerStart
<1>3. Place(0) = <<0, 0>>
  <2>1. Breaks(0, 0) = {}
    <3>1. 0 .. 0 - 1 = {}
      OBVIOUS
    <3> QED BY <3>1 DEF Breaks
  <2>2. Place(0) = <<Cardinality({}), 0>>
    <3>1. 0 \in Int
      OBVIOUS
    <3>2. Place(0) = <<Cardinality(Breaks(0, 0)),
                       IF Breaks(0, 0) = {} THEN 0 ELSE 0 - Max(Breaks(0, 0)) - 1>>
      BY ONLY <3>1, PlaceOfBreaks
    <3> QED BY <2>1, <3>2
  <2> QED BY <2>2, FS_EmptySet
<1>4. InPlace
  BY <1>3 DEF InPlace, LexerStart
<1>5. TokensInPlace
  BY DEF TokensInPlace, JustRead, LexerStart
<1> QED BY <1>2, <1>4, <1>5 DEF LexerInv

(* Each turn of the loop keeps the invariant.                              *)
LEMMA LexerStep == LexerInv /\ [Lex]_lexer => LexerInv'
<1> SUFFICES ASSUME LexerInv, [Lex]_lexer PROVE LexerInv'
  OBVIOUS
<1>1. CASE LineComment
  BY <1>1, LineComments
<1>2. CASE BlockComment
  BY <1>2, BlockComments
<1>3. CASE Blank
  BY <1>3, Blanks1
<1>4. CASE NewLine
  BY <1>4, NewLines
<1>5. CASE Operator
  BY <1>5, Operators
<1>6. CASE Number
  BY <1>6, Numbers
<1>7. CASE CharLiteral
  BY <1>7, CharLiterals
<1>8. CASE StringLiteral
  BY <1>8, StringLiterals
<1>9. CASE Keyword
  BY <1>9, Keywording
<1>10. CASE Identifier
  BY <1>10, Identifiers
<1>11. CASE Unexpected
  BY <1>11, Failing DEF Unexpected
<1>12. CASE EndOfText
  BY <1>12, TextEnds
<1>13. CASE UNCHANGED lexer
  BY <1>13, Stutter
<1> QED BY <1>1, <1>2, <1>3, <1>4, <1>5, <1>6, <1>7, <1>8, <1>9, <1>10, <1>11, <1>12, <1>13 DEF Lex

(* However a text is made up, lexer_process knows its place: what it       *)
(* counts as line and column is where it is in the text, until it has read *)
(* a block comment of several lines, and the tokens it has pushed lie      *)
(* behind each other before it.                                            *)
THEOREM LexerInvariant == LexerSpec => []LexerInv
BY LexerInit, LexerStep, PTL DEF LexerSpec

(* lexer_process stays in the text: i never passes its end, no token       *)
(* reaches over it, and lines, columns and tokens are at most as many as   *)
(* there are characters, but for the end.                                  *)
THEOREM LexerTypeCorrect == LexerSpec => []LexerTypeOK
<1>1. LexerInv => LexerTypeOK
  <2> SUFFICES ASSUME LexerInv PROVE LexerTypeOK
    OBVIOUS
  <2>1. N \in Nat /\ i \in Nat /\ i <= N
    BY Text DEF LexerInv, Counted
  <2>2. /\ lexed \in {"no", "yes", "error"}
        /\ i \in 0 .. N /\ line \in 0 .. N + 1 /\ position \in 0 .. N + 2
    BY <2>1 DEF LexerInv, Counted
  <2>3. Len(stream) <= N + 1
    <3>1. Len(stream) \in Nat
      BY LenProperties DEF LexerInv, Cut
    <3> QED BY <2>1, <3>1 DEF LexerInv, Cut
  <2>4. ASSUME NEW k \in 1 .. Len(stream)
        PROVE  0 <= stream[k].from /\ stream[k].from <= stream[k].to /\ stream[k].to <= N
    <3>1. stream[k] \in Tokens
      BY ElementOfSeq DEF LexerInv, Cut
    <3>2. stream[k].from \in Nat /\ stream[k].to \in Nat
      BY <3>1 DEF Tokens
    <3>3. stream[k].from <= stream[k].to /\ stream[k].to <= i
      BY DEF LexerInv, Cut
    <3> QED BY <2>1, <3>2, <3>3
  <2> QED BY <2>2, <2>3, <2>4 DEF LexerTypeOK
<1> QED BY <1>1, LexerInvariant, PTL

(* Each token that lexer_process pushes begins at the line and column its  *)
(* first character has in the text, and a literal, number or name ends at  *)
(* those of its last one, for every text without a block comment of        *)
(* several lines before it.                                                *)
THEOREM LexerTokensInPlace == LexerSpec => []TokensInPlace
<1>1. LexerInv => TokensInPlace
  BY DEF LexerInv
<1> QED BY <1>1, LexerInvariant, PTL

(***************************************************************************)
(* The text is cut as a reader would: LongestTokens.                       *)
(***************************************************************************)

(* Behind the last token the loop has passed blanks and comments only.     *)
Behind == IF stream = <<>> THEN 0 ELSE Newest.to
Gaps == lexed # "yes" => Empty(Behind, i)

WordsInv == LexerInv /\ Gaps /\ LongestTokens

(***************************************************************************)
(* Blanks and comments. What Empty finds by recursion is a path from blank *)
(* to comment to blank.                                                    *)
(***************************************************************************)
Chunk(k, e) ==
  \/ At(k) \in Blanks \cup {"\n"} /\ e = k + 1
  \/ Slice(k, k + 2) = <<"/", "/">> /\ e >= k + 2 /\ (e = N \/ At(e - 1) = "\n")
  \/ /\ Slice(k, k + 2) = <<"/", "*">> /\ e >= k + 2
     /\ e = N \/ (e >= k + 4 /\ Slice(e - 2, e) = <<"*", "/">>)

Path(P, to) == \A k \in P : k = to \/ \E e \in P : Chunk(k, e)
Clear(from, to) == \E P \in SUBSET (from .. to) : from \in P /\ Path(P, to)

(* A path goes on where its first chunk ends.                              *)
LEMMA ClearSteps ==
  ASSUME NEW to \in Nat, NEW k \in 0 .. to
  PROVE  Clear(k, to) <=> k = to \/ \E e \in k + 1 .. to : Chunk(k, e) /\ Clear(e, to)
<1>1. ASSUME Clear(k, to), k # to
      PROVE  \E e \in k + 1 .. to : Chunk(k, e) /\ Clear(e, to)
  <2>1. PICK P \in SUBSET (k .. to) : k \in P /\ Path(P, to)
    BY <1>1 DEF Clear
  <2>2. PICK e \in P : Chunk(k, e)
    BY <1>1, <2>1 DEF Path
  <2>3. e \in k + 1 .. to
    <3>1. e \in k .. to
      BY <2>1
    <3>2. e # k
      BY <2>2, <3>1 DEF Chunk
    <3> QED BY <3>1, <3>2
  <2> DEFINE Q == P \cap (e .. to)
  <2>4. Q \in SUBSET (e .. to) /\ e \in Q
    BY <2>3
  <2>5. ASSUME NEW p \in Q, p # to
        PROVE  \E q \in Q : Chunk(p, q)
    <3>1. p \in P /\ p \in e .. to
      BY <2>5
    <3>2. PICK q \in P : Chunk(p, q)
      BY <2>1, <2>5, <3>1 DEF Path
    <3>3. q \in k .. to
      BY <2>1
    <3>4. q >= p
      BY <3>1, <3>2, <3>3 DEF Chunk
    <3>5. q \in e .. to
      BY <2>3, <3>1, <3>3, <3>4
    <3> QED BY <3>2, <3>5
  <2> HIDE DEF Q
  <2>6. Path(Q, to)
    BY <2>5 DEF Path
  <2>7. Clear(e, to)
    BY <2>4, <2>6 DEF Clear
  <2> QED BY <2>2, <2>3, <2>7
<1>2. ASSUME k = to
      PROVE  Clear(k, to)
  <2>1. {k} \in SUBSET (k .. to) /\ Path({k}, to)
    BY <1>2 DEF Path
  <2> QED BY <2>1 DEF Clear
<1>3. ASSUME NEW e \in k + 1 .. to, Chunk(k, e), Clear(e, to)
      PROVE  Clear(k, to)
  <2>1. PICK P \in SUBSET (e .. to) : e \in P /\ Path(P, to)
    BY <1>3 DEF Clear
  <2>2. P \cup {k} \in SUBSET (k .. to)
    <3>1. \A p \in e .. to : p \in k .. to
      BY <1>3
    <3>2. k \in k .. to
      OBVIOUS
    <3> QED BY <3>1, <3>2, <2>1
  <2>3. Path(P \cup {k}, to)
    BY <1>3, <2>1 DEF Path
  <2> QED BY <2>2, <2>3 DEF Clear
<1> QED BY <1>1, <1>2, <1>3

Emptying(f, k, to) ==
  \/ k = to
  \/ At(k) \in Blanks \cup {"\n"} /\ f[k + 1]
  \/ /\ Slice(k, k + 2) = <<"/", "/">>
     /\ \E e \in k + 2 .. to : (e = N \/ At(e - 1) = "\n") /\ f[e]
  \/ /\ Slice(k, k + 2) = <<"/", "*">>
     /\ \E e \in k + 2 .. to : (e = N \/ (e >= k + 4 /\ Slice(e - 2, e) = <<"*", "/">>)) /\ f[e]

(* One step of the recursion is one chunk.                                 *)
LEMMA EmptySteps ==
  ASSUME NEW to \in Nat, NEW k \in 0 .. to, NEW f
  PROVE  Emptying(f, k, to) <=> k = to \/ \E e \in k + 1 .. to : Chunk(k, e) /\ f[e]
<1>1. CASE k = to
  BY <1>1 DEF Emptying
<1>2. CASE k # to
  <2>1. k + 1 \in k + 1 .. to /\ \A e \in k + 2 .. to : e \in k + 1 .. to
    BY <1>2
  <2>2. \A e \in k + 1 .. to : e >= k + 2 => e \in k + 2 .. to
    BY <1>2
  <2>3. ASSUME Emptying(f, k, to)
        PROVE  \E e \in k + 1 .. to : Chunk(k, e) /\ f[e]
    <3>1. CASE At(k) \in Blanks \cup {"\n"} /\ f[k + 1]
      BY <3>1, <2>1 DEF Chunk
    <3>2. ASSUME NEW e \in k + 2 .. to, Slice(k, k + 2) = <<"/", "/">>, e = N \/ At(e - 1) = "\n", f[e]
          PROVE  \E q \in k + 1 .. to : Chunk(k, q) /\ f[q]
      BY <3>2, <2>1 DEF Chunk
    <3>3. ASSUME NEW e \in k + 2 .. to, Slice(k, k + 2) = <<"/", "*">>,
                 e = N \/ (e >= k + 4 /\ Slice(e - 2, e) = <<"*", "/">>), f[e]
          PROVE  \E q \in k + 1 .. to : Chunk(k, q) /\ f[q]
      BY <3>3, <2>1 DEF Chunk
    <3> QED BY <1>2, <2>3, <3>1, <3>2, <3>3 DEF Emptying
  <2>4. ASSUME NEW e \in k + 1 .. to, Chunk(k, e), f[e]
        PROVE  Emptying(f, k, to)
    <3>1. CASE At(k) \in Blanks \cup {"\n"} /\ e = k + 1
      BY <2>4, <3>1 DEF Emptying
    <3>2. CASE Slice(k, k + 2) = <<"/", "/">> /\ e >= k + 2 /\ (e = N \/ At(e - 1) = "\n")
      BY <2>2, <2>4, <3>2 DEF Emptying
    <3>3. CASE /\ Slice(k, k + 2) = <<"/", "*">> /\ e >= k + 2
               /\ e = N \/ (e >= k + 4 /\ Slice(e - 2, e) = <<"*", "/">>)
      BY <2>2, <2>4, <3>3 DEF Emptying
    <3> QED BY <2>4, <3>1, <3>2, <3>3 DEF Chunk
  <2> QED BY <1>2, <2>3, <2>4
<1> QED BY <1>1, <1>2

(* The recursion finds the paths.                                          *)
LEMMA EmptyIsClear ==
  ASSUME N \in Nat, NEW to \in 0 .. N, NEW from \in 0 .. to
  PROVE  Empty(from, to) <=> Clear(from, to)
<1> DEFINE empty == CHOOSE f : f = [k \in from .. to |-> Emptying(f, k, to)]
           g == [k \in from .. to |-> Clear(k, to)]
<1>1. to \in Nat /\ from \in Nat /\ from <= to /\ \A k \in from .. to : k \in 0 .. to
  OBVIOUS
<1>2. empty = [k \in from .. to |-> Emptying(empty, k, to)]
  <2>1. ASSUME NEW k \in from .. to
        PROVE  g[k] = Emptying(g, k, to)
    <3>1. Emptying(g, k, to) <=> k = to \/ \E e \in k + 1 .. to : Chunk(k, e) /\ g[e]
      BY <1>1, EmptySteps
    <3>2. Clear(k, to) <=> k = to \/ \E e \in k + 1 .. to : Chunk(k, e) /\ Clear(e, to)
      BY <1>1, ClearSteps
    <3>3. \A e \in k + 1 .. to : g[e] = Clear(e, to)
      BY <1>1
    <3>4. Emptying(g, k, to) <=> Clear(k, to)
      BY <3>1, <3>2, <3>3
    <3>5. Emptying(g, k, to) \in BOOLEAN /\ Clear(k, to) \in BOOLEAN
      BY DEF Emptying, Clear
    <3> QED BY <3>4, <3>5
  <2>2. g = [k \in from .. to |-> Emptying(g, k, to)]
    BY <2>1
  <2> HIDE DEF g
  <2> QED BY <2>2
<1>3. Empty(from, to) = empty[from]
  BY DEF Empty, Emptying
<1> HIDE DEF empty
<1> DEFINE S == {k \in from .. to : ~(empty[k] <=> Clear(k, to))}
<1>4. S = {}
  <2> SUFFICES ASSUME S # {} PROVE FALSE
    OBVIOUS
  <2>1. PICK n \in S : \A y \in S : n >= y
    <3>1. S \subseteq 0 .. N
      BY <1>1
    <3> HIDE DEF S
    <3>2. Max(S) \in S /\ \A y \in S : Max(S) >= y
      BY <3>1, LastPlace
    <3> QED BY <3>2
  <2>2. n \in from .. to /\ n \in 0 .. to /\ empty[n] = Emptying(empty, n, to)
    BY <1>1, <1>2, <2>1
  <2>3. \A e \in n + 1 .. to : empty[e] <=> Clear(e, to)
    <3> SUFFICES ASSUME NEW e \in n + 1 .. to, e \in S PROVE FALSE
      BY <1>1, <2>2
    <3>1. e \in Int /\ e > n
      BY <2>2
    <3>2. n >= e
      BY <2>1
    <3> QED BY <2>2, <3>1, <3>2
  <2>4. Emptying(empty, n, to) <=> n = to \/ \E e \in n + 1 .. to : Chunk(n, e) /\ empty[e]
    BY <1>1, <2>2, EmptySteps
  <2>5. Clear(n, to) <=> n = to \/ \E e \in n + 1 .. to : Chunk(n, e) /\ Clear(e, to)
    BY <1>1, <2>2, ClearSteps
  <2>6. empty[n] <=> Clear(n, to)
    BY <2>2, <2>3, <2>4, <2>5
  <2> QED BY <2>1, <2>6
<1>5. from \in from .. to
  BY <1>1
<1>6. empty[from] <=> Clear(from, to)
  BY <1>4, <1>5
<1> QED BY <1>3, <1>6

(* The text stays, and with it what is empty.                              *)
LEMMA EmptyStays ==
  ASSUME text' = text, NEW to, NEW from
  PROVE  Empty(from, to)' = Empty(from, to)
BY DEF Empty, At, Slice, N

(* A path with another chunk at its end.                                   *)
LEMMA Onwards ==
  ASSUME N \in Nat, NEW from \in Nat, NEW k \in Nat, from <= k, NEW e \in k + 1 .. N,
         Empty(from, k), Chunk(k, e)
  PROVE  Empty(from, e)
<1>1. k \in 0 .. N /\ from \in 0 .. k /\ e \in 0 .. N /\ from \in 0 .. e
  OBVIOUS
<1>2. PICK P \in SUBSET (from .. k) : from \in P /\ Path(P, k)
  BY <1>1, EmptyIsClear DEF Clear
<1>3. P \cup {e} \in SUBSET (from .. e)
  <2>1. \A p \in from .. k : p \in from .. e
    OBVIOUS
  <2>2. e \in from .. e
    OBVIOUS
  <2> QED BY <1>2, <2>1, <2>2
<1>4. Path(P \cup {e}, e)
  BY <1>2 DEF Path
<1>5. Clear(from, e)
  BY <1>2, <1>3, <1>4 DEF Clear
<1> QED BY <1>1, <1>5, EmptyIsClear

(* Nothing is empty.                                                       *)
LEMMA Nothing ==
  ASSUME N \in Nat, NEW k \in 0 .. N
  PROVE  Empty(k, k)
<1>1. k \in Nat /\ k \in 0 .. k
  OBVIOUS
<1>2. Clear(k, k)
  BY <1>1, ClearSteps
<1> QED BY <1>1, <1>2, EmptyIsClear

(* A slice of the text has the characters between its ends.                *)
LEMMA Slices ==
  ASSUME text \in Seq(Characters), NEW from \in Nat, NEW to \in Nat, from <= to, to <= N
  PROVE  /\ Slice(from, to) \in Seq(Characters)
         /\ Len(Slice(from, to)) = to - from
         /\ \A k \in 1 .. to - from : Slice(from, to)[k] = At(from + k - 1)
<1>1. N \in Nat /\ N = Len(text)
  BY Text DEF N
<1>2. Slice(from, to) = SubSeq(text, from + 1, to)
  BY <1>1 DEF Slice
<1>3. /\ SubSeq(text, from + 1, to) \in Seq(Characters)
      /\ Len(SubSeq(text, from + 1, to)) = to - from
      /\ \A k \in 1 .. to - from : SubSeq(text, from + 1, to)[k] = text[from + k]
  <2>1. \A k \in 1 .. to - from : (from + 1) + k - 1 = from + k
    OBVIOUS
  <2> QED BY <1>1, <2>1, SubSeqProperties
<1>4. \A k \in 1 .. to - from : At(from + k - 1) = text[from + k]
  BY <1>1 DEF At
<1> QED BY <1>2, <1>3, <1>4

(***************************************************************************)
(* Blanks and comments add to the gap.                                     *)
(***************************************************************************)
(* The last token ends where the loop has been.                            *)
LEMMA BehindFacts ==
  ASSUME LexerInv
  PROVE  /\ N \in Nat /\ i \in 0 .. N /\ Behind \in 0 .. i /\ text \in Seq(Characters)
         /\ Len(stream) \in Nat /\ (stream # <<>> => Len(stream) \in 1 .. Len(stream))
<1>1. N \in Nat /\ i \in 0 .. N /\ text \in Seq(Characters)
  BY Text DEF LexerInv, Counted
<1>2. Len(stream) \in Nat /\ (stream # <<>> => Len(stream) \in 1 .. Len(stream))
  BY EmptySeq, LenProperties DEF LexerInv, Cut
<1>3. stream # <<>> => Newest.to \in Nat /\ Newest.to <= i
  <2> SUFFICES ASSUME stream # <<>> PROVE Newest.to \in Nat /\ Newest.to <= i
    OBVIOUS
  <2>1. Newest \in Tokens
    BY <1>2, ElementOfSeq DEF LexerInv, Cut, Newest
  <2> QED BY <1>2, <2>1 DEF LexerInv, Cut, Newest, Tokens
<1> QED BY <1>1, <1>2, <1>3 DEF Behind

(* A chunk that is passed makes the gap longer; what was said of the last  *)
(* token has been said.                                                    *)
LEMMA Passed ==
  ASSUME LexerInv, Gaps, Reading, UNCHANGED <<text, stream, lexed>>,
         i' \in i + 1 .. N, Chunk(i, i')
  PROVE  Gaps' /\ LongestTokens'
<1>1. N \in Nat /\ i \in 0 .. N /\ i \in Nat /\ Behind \in 0 .. i /\ Behind \in Nat /\ Behind <= i
  BY BehindFacts
<1>2. Empty(Behind, i)
  BY DEF Gaps, Reading
<1>3. PICK next \in i + 1 .. N : next = i'
  OBVIOUS
<1>4. Empty(Behind, next)
  BY ONLY <1>1, <1>2, <1>3, Chunk(i, i'), Onwards
<1>5. Behind' = Behind /\ Newest' = Newest
  BY DEF Behind, Newest
<1>6. Empty(Behind, next)' = Empty(Behind, next)
  BY <1>3, <1>5 DEF Empty, At, Slice, N
<1>7. Gaps'
  BY <1>3, <1>4, <1>5, <1>6 DEF Gaps
<1>8. ~JustRead'
  BY <1>1, <1>5 DEF JustRead, Behind
<1> QED BY <1>7, <1>8 DEF LongestTokens

(* A line comment reaches to the next line.                                *)
LEMMA LineCommentPassed ==
  ASSUME LexerInv, LineComment
  PROVE  i' \in i + 1 .. N /\ Chunk(i, i')
<1> DEFINE S == {k \in i + 1 .. N : At(k) = "\n" \/ k = N}
           e == Min(S)
           T == {N, e + 1}
<1>1. /\ N \in Nat /\ i \in Nat /\ i < N /\ text \in Seq(Characters)
  BY ReadingFacts DEF LineComment
<1>2. At(i) = "/" /\ At(i + 1) = "/" /\ i' = Min(T)
  BY DEF LineComment
<1>3. i + 1 < N
  <2>1. At(i + 1) # Nul
    BY <1>2 DEF Nul
  <2> QED BY <1>1, <2>1, Text
<1>4. e \in S
  <2>1. N \in S
    BY <1>1
  <2>2. S \subseteq Nat
    BY <1>1
  <2> HIDE DEF S
  <2> QED BY <2>1, <2>2, First
<1>5. e \in i + 1 .. N /\ e \in Nat /\ (e # N => At(e) = "\n")
  BY <1>1, <1>4
<1>6. e >= i + 2
  <2>1. e # i + 1
    BY <1>1, <1>2, <1>3, <1>5
  <2> QED BY <1>1, <1>5, <2>1
<1> HIDE DEF e
<1>7. i' \in T /\ i' <= N
  <2>1. T \subseteq Nat
    BY <1>1, <1>5
  <2>2. Min(T) \in T /\ \A y \in T : Min(T) <= y
    BY <2>1, First
  <2> QED BY <1>2, <2>2
<1>8. i' = N \/ (i' = e + 1 /\ e # N)
  BY <1>1, <1>5, <1>7
<1>9. i' \in i + 1 .. N /\ i' >= i + 2
  BY <1>1, <1>3, <1>5, <1>6, <1>7, <1>8
<1>10. i' = N \/ At(i' - 1) = "\n"
  <2>1. (e + 1) - 1 = e
    BY <1>5
  <2> QED BY <1>5, <1>8, <2>1
<1>11. Slice(i, i + 2) = <<"/", "/">>
  BY <1>1, <1>2, <1>3, Pair
<1> QED BY <1>9, <1>10, <1>11 DEF Chunk

(* A block comment reaches to its end, or to that of the text.             *)
LEMMA BlockCommentPassed ==
  ASSUME LexerInv, BlockComment
  PROVE  i' \in i + 1 .. N /\ Chunk(i, i')
<1> DEFINE from == i + 2
           E == {k \in from .. from + N : k + 2 > N \/ Slice(k, k + 2) = <<"*", "/">>}
           end == Min(E)
           T == {end + 2, N}
<1>1. N \in Nat /\ i \in Nat /\ i < N /\ text \in Seq(Characters)
  BY ReadingFacts DEF BlockComment
<1>2. At(i) = "/" /\ At(i + 1) = "*" /\ i' = Min(T)
  BY DEF BlockComment
<1>3. i + 1 < N
  <2>1. At(i + 1) # Nul
    BY <1>2 DEF Nul
  <2> QED BY <1>1, <2>1, Text
<1>4. end \in E
  <2>1. from + N \in E
    BY <1>1
  <2>2. E \subseteq Nat
    BY <1>1
  <2> HIDE DEF E
  <2> QED BY <2>1, <2>2, First
<1>5. end \in Nat /\ i + 2 <= end /\ (end + 2 > N \/ Slice(end, end + 2) = <<"*", "/">>)
  BY <1>1, <1>4
<1> HIDE DEF end
<1>6. i' \in T /\ i' <= N /\ i' <= end + 2
  <2>1. T \subseteq Nat
    BY <1>1, <1>5
  <2>2. Min(T) \in T /\ \A y \in T : Min(T) <= y
    BY <2>1, First
  <2> QED BY <1>2, <2>2
<1>7. i' \in i + 1 .. N /\ i' >= i + 2
  BY <1>1, <1>3, <1>5, <1>6
<1>8. i' = N \/ (i' >= i + 4 /\ Slice(i' - 2, i') = <<"*", "/">>)
  <2> SUFFICES ASSUME i' # N PROVE i' >= i + 4 /\ Slice(i' - 2, i') = <<"*", "/">>
    OBVIOUS
  <2>1. i' = end + 2 /\ end + 2 <= N /\ (end + 2) - 2 = end
    BY <1>1, <1>5, <1>6
  <2> QED BY <1>1, <1>5, <2>1
<1>9. Slice(i, i + 2) = <<"/", "*">>
  BY <1>1, <1>2, <1>3, Pair
<1> QED BY <1>7, <1>8, <1>9 DEF Chunk

(* Blanks and line breaks are one character each.                          *)
LEMMA BlankPassed ==
  ASSUME LexerInv, Blank \/ NewLine
  PROVE  i' \in i + 1 .. N /\ Chunk(i, i')
<1>1. Reading /\ At(i) \in Blanks \cup {"\n"} /\ i' = i + 1
  BY DEF Blank, NewLine
<1>2. N \in Nat /\ i \in Nat /\ i < N
  BY <1>1, ReadingFacts
<1> QED BY <1>1, <1>2 DEF Chunk

(***************************************************************************)
(* What is read is a lexeme, and the longest.                              *)
(***************************************************************************)
(* What LongestTokens asks of a token: what its characters are, and that   *)
(* with more of them there would be none.                                  *)
Spelled(kind, from, to) ==
  CASE kind \in {"char", "string"} -> Literal(Slice(from, to))
    [] kind = "integer" -> Numeral(Slice(from, to))
    [] kind = "operator" -> IsSign(Slice(from, to))
    [] kind = "keyword" -> Slice(from, to) \in Keywords
    [] kind = "identifier" -> /\ IsName(Slice(from, to))
                              /\ Slice(from, to) \in Keywords => to = N
    [] kind = "eof" -> from = N

Longest(kind, from, to, alone) ==
  kind \in {"integer", "operator", "keyword", "identifier"} =>
    \A longer \in to + 1 .. N : Lexeme(Slice(from, longer)) => alone

(* A token behind a gap, spelled as it should be.                          *)
LEMMA Pushed ==
  ASSUME LexerInv, Gaps, lexed = "no", text' = text, i' \in i .. N,
         i' > i => lexed' = "no", i' = i => lexed' = "yes",
         NEW t \in Tokens, stream' = Append(stream, t), t.from = i, t.to = i',
         Spelled(t.kind, i, i'),
         Longest(t.kind, i, i', Slice(i, i') = <<"-">> /\ AfterValue)
  PROVE  Gaps' /\ LongestTokens'
<1>1. /\ N \in Nat /\ i \in 0 .. N /\ i \in Nat /\ Behind \in 0 .. i
      /\ Len(stream) \in Nat /\ (stream # <<>> => Len(stream) \in 1 .. Len(stream))
  BY BehindFacts
<1>2. Empty(Behind, i)
  BY DEF Gaps
<1>3. PICK next \in i .. N : next = i'
  OBVIOUS
<1>4. /\ Append(stream, t) \in Seq(Tokens)
      /\ Len(Append(stream, t)) = Len(stream) + 1
      /\ \A k \in 1 .. Len(stream) : Append(stream, t)[k] = stream[k]
      /\ Append(stream, t)[Len(stream) + 1] = t
  BY AppendProperties DEF LexerInv, Cut
<1>5. Newest' = t /\ stream' # <<>> /\ Len(stream') = Len(stream) + 1
  BY <1>1, <1>4, EmptySeq DEF Newest
<1>6. Gaps'
  <2> SUFFICES ASSUME lexed' # "yes" PROVE Empty(Behind, i)'
    BY DEF Gaps
  <2>1. Behind' = next
    BY <1>3, <1>5 DEF Behind
  <2>2. Empty(next, next)
    BY <1>1, <1>3, Nothing
  <2>3. Empty(next, next)' = Empty(next, next)
    BY <1>3 DEF Empty, At, Slice, N
  <2> QED BY <1>3, <2>1, <2>2, <2>3
<1>7. PICK b \in Nat : b = Behind
  BY <1>1
<1>8. PICK a \in Nat : a = i
  BY <1>1
<1>9. /\ Empty(b, a)' = Empty(b, a) /\ Slice(a, next)' = Slice(a, next)
      /\ N' = N /\ \A longer : Slice(a, longer)' = Slice(a, longer)
  BY DEF Empty, At, Slice, N
<1>10. b = IF Len(stream') = 1 THEN 0 ELSE stream'[Len(stream') - 1].to
  <2>1. CASE stream = <<>>
    BY <1>5, <1>7, <2>1, EmptySeq DEF Behind
  <2>2. CASE stream # <<>>
    <3>1. Len(stream') # 1 /\ Len(stream') - 1 = Len(stream)
      BY <1>1, <1>5, <2>2
    <3>2. stream'[Len(stream)] = stream[Len(stream)]
      BY <1>1, <1>4, <2>2
    <3> QED BY <1>7, <2>2, <3>1, <3>2 DEF Behind, Newest
  <2> QED BY <2>1, <2>2
<1>11. AfterValue => Len(stream') > 1 /\ stream'[Len(stream') - 1].kind \in {"integer", "identifier"}
  <2> SUFFICES ASSUME AfterValue
               PROVE  Len(stream') > 1 /\ stream'[Len(stream') - 1].kind \in {"integer", "identifier"}
    OBVIOUS
  <2>1. stream # <<>> /\ stream[Len(stream)].kind \in {"integer", "identifier"}
    BY DEF AfterValue
  <2>2. Len(stream') > 1 /\ Len(stream') - 1 = Len(stream)
    BY <1>1, <1>5, <2>1
  <2>3. stream'[Len(stream)] = stream[Len(stream)]
    BY <1>1, <1>4, <2>1
  <2> QED BY <2>1, <2>2, <2>3
<1>12. Empty(b, a) /\ Spelled(t.kind, a, next) /\ Longest(t.kind, a, next, Slice(a, next) = <<"-">> /\ AfterValue)
  BY <1>2, <1>3, <1>7, <1>8
<1>13. t.from = a /\ t.to = next
  BY <1>3, <1>8
<1>14. ASSUME NEW longer \in next + 1 .. N, Lexeme(Slice(a, longer)),
              t.kind \in {"integer", "operator", "keyword", "identifier"}
       PROVE  /\ Slice(a, next) = <<"-">> /\ Len(stream') > 1
              /\ stream'[Len(stream') - 1].kind \in {"integer", "identifier"}
  BY <1>11, <1>12, <1>14 DEF Longest
<1> QED BY <1>5, <1>6, <1>10, <1>9, <1>12, <1>13, <1>14 DEF LongestTokens, Spelled

(* Signs are no letters, digits or underlines; letters are no digits.      *)
LEMMA Classes ==
  /\ Singles \cap (Alnum \cup {"_"}) = {} /\ "-" \in Singles
  /\ Digits \cap (Letters \cup {"_", "-"}) = {}
  /\ \A x, y : <<x, y>> \in Doubles => x \in Singles /\ y \notin Digits
<1>1. Letters \cap Singles = {} /\ Digits \cap Letters = {}
  BY LexerAssumption
<1>2. Singles \cap Digits = {} /\ Singles \cap {"_"} = {} /\ "-" \in Singles
  BY Zenon DEF Singles, Digits
<1>3. Digits \cap {"_", "-"} = {}
  BY DEF Digits
<1>4. \A x, y : <<x, y>> \in Doubles => x \in Singles /\ y \notin Digits
  <2> SUFFICES ASSUME NEW x, NEW y, <<x, y>> \in Doubles
               PROVE  x \in Singles /\ y \notin Digits
    OBVIOUS
  <2>1. x \in {":", "<", ">", "-"} /\ y \in {"=", "-", "<", ">"}
    BY DEF Doubles
  <2>2. y \notin Digits
    BY <2>1 DEF Digits
  <2>3. {":", "<", ">", "-"} \subseteq Singles
    BY Zenon DEF Singles
  <2> QED BY <2>1, <2>2, <2>3
<1> QED BY <1>1, <1>2, <1>3, <1>4 DEF Alnum

(* A numeral is digits, behind a minus or not.                             *)
LEMMA NumeralFacts ==
  ASSUME NEW s \in Seq(Characters), s # <<>>
  PROVE  Numeral(s) <=> IF s[1] = "-" THEN Len(s) >= 2 /\ \A k \in 2 .. Len(s) : s[k] \in Digits
                                      ELSE \A k \in 1 .. Len(s) : s[k] \in Digits
<1>1. Len(s) \in Nat \ {0} /\ DOMAIN s = 1 .. Len(s)
  BY EmptySeq, LenProperties
<1>2. CASE s[1] = "-"
  <2> DEFINE d == Tail(s)
  <2>1. /\ d \in Seq(Characters) /\ Len(d) = Len(s) - 1
        /\ \A k \in 1 .. Len(s) - 1 : d[k] = s[k + 1]
    BY HeadTailProperties
  <2>2. Numeral(s) <=> d # <<>> /\ \A k \in DOMAIN d : d[k] \in Digits
    BY <1>2 DEF Numeral
  <2> HIDE DEF d
  <2>3. (d # <<>> <=> Len(s) >= 2) /\ DOMAIN d = 1 .. Len(s) - 1
    BY <1>1, <2>1, EmptySeq, LenProperties
  <2>4. \A k \in 2 .. Len(s) : k - 1 \in 1 .. Len(s) - 1 /\ s[k] = d[k - 1]
    <3> SUFFICES ASSUME NEW k \in 2 .. Len(s)
                 PROVE  k - 1 \in 1 .. Len(s) - 1 /\ s[k] = d[k - 1]
      OBVIOUS
    <3>1. k - 1 \in 1 .. Len(s) - 1 /\ (k - 1) + 1 = k
      BY <1>1
    <3> QED BY <2>1, <3>1
  <2>5. \A k \in 1 .. Len(s) - 1 : k + 1 \in 2 .. Len(s) /\ d[k] = s[k + 1]
    BY <1>1, <2>1
  <2>6. (\A k \in DOMAIN d : d[k] \in Digits) <=> \A k \in 2 .. Len(s) : s[k] \in Digits
    BY <2>3, <2>4, <2>5
  <2> QED BY <1>2, <2>2, <2>3, <2>6
<1>3. CASE s[1] # "-"
  BY <1>1, <1>3 DEF Numeral
<1> QED BY <1>2, <1>3

(* What comes first in a longer slice.                                     *)
LEMMA Longer ==
  ASSUME text \in Seq(Characters), NEW from \in Nat, NEW to \in Nat, from < to,
         NEW longer \in to + 1 .. N
  PROVE  /\ Slice(from, longer) \in Seq(Characters)
         /\ Len(Slice(from, longer)) = longer - from
         /\ Len(Slice(from, longer)) >= 2 /\ Slice(from, longer) # <<>>
         /\ Slice(from, longer)[1] = At(from) /\ Slice(from, longer)[2] = At(from + 1)
         /\ to - from + 1 \in 2 .. Len(Slice(from, longer))
         /\ Slice(from, longer)[to - from + 1] = At(to)
         /\ DOMAIN Slice(from, longer) = 1 .. Len(Slice(from, longer))
         /\ Len(Slice(from, longer)) \in Nat
<1> DEFINE s == Slice(from, longer)
<1>1. N \in Nat
  BY Text
<1>2. longer \in Nat /\ from <= longer /\ longer <= N
  BY <1>1
<1>3. /\ s \in Seq(Characters) /\ Len(s) = longer - from
      /\ \A k \in 1 .. longer - from : s[k] = At(from + k - 1)
  BY <1>2, Slices
<1> HIDE DEF s
<1>4. Len(s) >= 2 /\ s # <<>> /\ to - from + 1 \in 2 .. Len(s)
  BY <1>1, <1>3, EmptySeq
<1>5. DOMAIN s = 1 .. Len(s) /\ Len(s) \in Nat
  BY <1>3, LenProperties
<1>6. s[1] = At(from + 1 - 1) /\ s[2] = At(from + 2 - 1)
      /\ s[to - from + 1] = At(from + (to - from + 1) - 1)
  BY <1>3, <1>4
<1>7. from + 1 - 1 = from /\ from + 2 - 1 = from + 1 /\ from + (to - from + 1) - 1 = to
  OBVIOUS
<1> QED BY <1>3, <1>4, <1>5, <1>6, <1>7 DEF s

(* Two characters that are no sign begin none.                             *)
LEMMA NoSign ==
  ASSUME NEW s, Len(s) \in Nat, Len(s) >= 2, <<s[1], s[2]>> \notin Doubles
  PROVE  ~IsSign(s)
<1>1. s \notin Doubles
  <2> SUFFICES ASSUME s \in Doubles PROVE <<s[1], s[2]>> \in Doubles
    OBVIOUS
  <2>1. s = <<s[1], s[2]>>
    BY ONLY s \in Doubles DEF Doubles
  <2> QED BY <2>1
<1>2. PICK n \in Nat : n = Len(s)
  OBVIOUS
<1>3. n >= 2
  BY <1>2
<1>4. Len(s) # 1
  BY ONLY n \in Nat, <1>2, <1>3
<1> QED BY <1>1, <1>4 DEF IsSign

(* A name ends before what cannot belong to it, keyword or not.            *)
LEMMA LongestName ==
  ASSUME text \in Seq(Characters), NEW from \in Nat, NEW to \in Nat, from < to,
         At(from) \in Letters \cup {"_"}, At(to) \notin Alnum \cup {"_"},
         NEW kind, NEW alone
  PROVE  Longest(kind, from, to, alone)
<1> SUFFICES ASSUME NEW longer \in to + 1 .. N, Lexeme(Slice(from, longer)) PROVE FALSE
  BY DEF Longest
<1> DEFINE s == Slice(from, longer)
<1>1. /\ s \in Seq(Characters) /\ Len(s) = longer - from /\ Len(s) >= 2 /\ s # <<>>
      /\ s[1] = At(from) /\ s[2] = At(from + 1)
      /\ to - from + 1 \in 2 .. Len(s) /\ s[to - from + 1] = At(to) /\ Len(s) \in Nat
  BY Longer
<1>2. Lexeme(s)
  OBVIOUS
<1> HIDE DEF s
<1>3. s \in Seq(Characters) /\ s # <<>>
  BY <1>1
<1>4. Len(s) \in Nat /\ Len(s) >= 2
  BY <1>1
<1>5. to - from + 1 \in DOMAIN s
  <2>1. to - from + 1 \in 2 .. Len(s)
    BY <1>1
  <2>2. to - from + 1 \in 1 .. Len(s)
    BY ONLY <1>4, <2>1
  <2> QED BY <1>3, <2>2, LenProperties
<1>6. ~IsName(s)
  BY <1>1, <1>5 DEF IsName
<1>7. s[1] \notin Digits /\ s[1] # "-" /\ s[1] \notin Singles
  BY <1>1, Classes DEF Alnum
<1>8. ~Numeral(s)
  <2>1. 1 \in 1 .. Len(s)
    BY ONLY <1>4
  <2>2. ~(\A k \in 1 .. Len(s) : s[k] \in Digits)
    BY <1>7, <2>1
  <2> QED BY <1>7, <1>3, <2>2, NumeralFacts
<1>9. ~IsSign(s)
  BY <1>7, <1>3, <1>4, Classes, NoSign
<1> QED BY <1>2, <1>6, <1>8, <1>9 DEF Lexeme

(* A number ends before what is no digit.                                  *)
LEMMA LongestNumber ==
  ASSUME text \in Seq(Characters), NEW from \in Nat, NEW to \in Nat, from < to,
         At(from) \in Digits \/ (At(from) = "-" /\ At(from + 1) \in Digits), At(to) \notin Digits,
         NEW kind, NEW alone
  PROVE  Longest(kind, from, to, alone)
<1> SUFFICES ASSUME NEW longer \in to + 1 .. N, Lexeme(Slice(from, longer)) PROVE FALSE
  BY DEF Longest
<1> DEFINE s == Slice(from, longer)
           x == to - from + 1
<1>1. /\ s \in Seq(Characters) /\ s # <<>> /\ s[1] = At(from) /\ s[2] = At(from + 1)
      /\ x \in 2 .. Len(s) /\ s[x] = At(to)
  BY Longer
<1>2. Len(s) \in Nat /\ Len(s) >= 2
  BY Longer
<1>3. Lexeme(s)
  OBVIOUS
<1> HIDE DEF s, x
<1>4. 1 \in 1 .. Len(s) /\ x \in 1 .. Len(s)
  <2>1. x \in 2 .. Len(s)
    BY <1>1
  <2> QED BY ONLY <1>2, <2>1
<1>5. ~IsName(s)
  <2>1. s[1] \in Digits \/ s[1] \in Singles
    BY <1>1, Classes
  <2>2. 1 \in DOMAIN s
    BY <1>1, <1>4, LenProperties
  <2> QED BY <2>1, <2>2, Classes DEF IsName
<1>6. ~Numeral(s)
  BY <1>1, <1>4, NumeralFacts
<1>7. ~IsSign(s)
  <2>1. s[1] \notin Singles \/ s[2] \in Digits
    BY <1>1, Classes DEF Alnum
  <2> QED BY <1>2, <2>1, Classes, NoSign
<1> QED BY <1>3, <1>5, <1>6, <1>7 DEF Lexeme

(* A sign of two characters is no part of a lexeme.                        *)
LEMMA LongestDouble ==
  ASSUME text \in Seq(Characters), NEW from \in Nat, <<At(from), At(from + 1)>> \in Doubles,
         NEW kind, NEW alone
  PROVE  Longest(kind, from, from + 2, alone)
<1> SUFFICES ASSUME NEW longer \in from + 2 + 1 .. N, Lexeme(Slice(from, longer)) PROVE FALSE
  BY DEF Longest
<1> DEFINE s == Slice(from, longer)
<1>1. /\ s \in Seq(Characters) /\ s # <<>> /\ s[1] = At(from) /\ s[2] = At(from + 1)
      /\ Len(s) \in Nat /\ Len(s) = longer - from
  <2>1. from + 2 \in Nat /\ from < from + 2
    OBVIOUS
  <2> QED BY <2>1, Longer
<1>2. Len(s) \in Nat /\ Len(s) >= 3
  BY <1>1
<1>3. Lexeme(s)
  OBVIOUS
<1>4. s[1] \in Singles /\ s[2] \notin Digits
  BY <1>1, Classes
<1> HIDE DEF s
<1>5. 1 \in 1 .. Len(s) /\ 2 \in 2 .. Len(s)
  BY ONLY <1>2
<1>6. ~IsName(s)
  <2>1. 1 \in DOMAIN s
    BY <1>1, <1>5, LenProperties
  <2> QED BY <1>4, <2>1, Classes DEF IsName
<1>7. ~Numeral(s)
  <2>1. s[1] \notin Digits
    BY <1>4, Classes DEF Alnum
  <2> QED BY <1>1, <1>4, <1>5, <2>1, NumeralFacts
<1>8. ~IsSign(s)
  <2>1. \A d \in Doubles : Len(d) = 2
    <3> SUFFICES ASSUME NEW d \in Doubles PROVE Len(d) = 2
      OBVIOUS
    <3>1. d = <<d[1], d[2]>>
      BY DEF Doubles
    <3> QED BY <3>1
  <2>2. PICK n \in Nat : n = Len(s) /\ n >= 3
    BY <1>2
  <2>3. Len(s) # 2 /\ Len(s) # 1
    BY ONLY n \in Nat, <2>2
  <2> QED BY <2>1, <2>3 DEF IsSign
<1> QED BY <1>3, <1>6, <1>7, <1>8 DEF Lexeme

(* A sign of one character is part of none but a number, if it is a minus. *)
LEMMA LongestSingle ==
  ASSUME text \in Seq(Characters), NEW from \in Nat, At(from) \in Singles,
         <<At(from), At(from + 1)>> \notin Doubles,
         NEW kind, NEW alone, At(from) = "-" /\ At(from + 1) \in Digits => alone
  PROVE  Longest(kind, from, from + 1, alone)
<1> SUFFICES ASSUME NEW longer \in from + 1 + 1 .. N, Lexeme(Slice(from, longer)) PROVE alone
  BY DEF Longest
<1> DEFINE s == Slice(from, longer)
<1>1. /\ s \in Seq(Characters) /\ s # <<>> /\ s[1] = At(from) /\ s[2] = At(from + 1)
      /\ Len(s) \in Nat /\ Len(s) >= 2
  <2>1. from + 1 \in Nat /\ from < from + 1
    OBVIOUS
  <2> QED BY <2>1, Longer
<1>2. Len(s) \in Nat /\ Len(s) >= 2
  BY <1>1
<1>3. Lexeme(s)
  OBVIOUS
<1> HIDE DEF s
<1>4. 1 \in 1 .. Len(s) /\ 2 \in 2 .. Len(s)
  BY ONLY <1>2
<1>5. ~IsName(s)
  <2>1. 1 \in DOMAIN s
    BY <1>1, <1>4, LenProperties
  <2> QED BY <1>1, <2>1, Classes DEF IsName
<1>6. ~IsSign(s)
  BY <1>1, <1>2, NoSign
<1>7. Numeral(s) => At(from) = "-" /\ At(from + 1) \in Digits
  <2>1. s[1] \notin Digits
    BY <1>1, Classes DEF Alnum
  <2> QED BY <1>1, <1>4, <2>1, NumeralFacts
<1> QED BY <1>3, <1>5, <1>6, <1>7 DEF Lexeme

(***************************************************************************)
(* The steps that read.                                                    *)
(***************************************************************************)
(* A run ends before a character that is not of its kind.                  *)
LEMMA RunStops ==
  ASSUME text \in Seq(Characters), NEW from \in Nat, from <= N,
         NEW chars, {"\n", Nul} \cap chars = {}
  PROVE  /\ RunEnd(from, chars) \in from .. N /\ At(RunEnd(from, chars)) \notin chars
         /\ \A k \in from .. RunEnd(from, chars) - 1 : At(k) \in chars
<1> DEFINE S == {k \in from .. N : At(k) \notin chars}
<1>1. N \in Nat /\ At(N) = Nul
  BY Text
<1>2. N \in S /\ S \subseteq Nat
  BY <1>1
<1>3. Min(S) \in S
  BY <1>2, First
<1> QED BY <1>3, RunEnds DEF RunEnd

(* A token on one line, spelled as it should be.                           *)
LEMMA PushedOnOneLine ==
  ASSUME LexerInv, Gaps, Reading, NEW kind \in Kinds \ {"eof"},
         NEW to \in i + 1 .. N, NEW pe \in Nat,
         OnOneLine(kind, to, pe), Spelled(kind, i, to),
         Longest(kind, i, to, Slice(i, to) = <<"-">> /\ AfterValue)
  PROVE  Gaps' /\ LongestTokens'
<1> DEFINE t == [kind |-> kind, from |-> i, to |-> to,
                 begin |-> <<line, position>>, end |-> <<line, pe>>]
<1>1. /\ N \in Nat /\ i \in Nat /\ i < N
      /\ line \in Nat /\ position \in Nat /\ lexed = "no"
  BY ReadingFacts
<1>2. text' = text /\ lexed' = lexed /\ i' = to /\ stream' = Append(stream, t)
  BY DEF OnOneLine, Push
<1>3. t \in Tokens
  BY <1>1 DEF Tokens, Places
<1>4. t.from = i /\ t.to = i' /\ t.kind = kind /\ i' \in i .. N /\ i' > i /\ lexed' = "no"
  BY <1>1, <1>2
<1> HIDE DEF t
<1> QED BY <1>1, <1>2, <1>3, <1>4, Pushed

Quotes == {"'", "\""}

(* A literal that ends at the quote it begins with.                        *)
LEMMA PushedQuoted ==
  ASSUME LexerInv, Gaps, Reading, NEW kind \in {"char", "string"}, NEW end \in i + 1 .. N - 1,
         Quoted(kind, end), At(i) \in Quotes, At(end) = At(i)
  PROVE  Gaps' /\ LongestTokens'
<1> DEFINE B == {k \in i + 1 .. end - 1 : At(k) = "\n"}
           le == line + Cardinality(B)
           pe == IF B = {} THEN position + (end - i) ELSE end - Max(B) - 1
           t == [kind |-> kind, from |-> i, to |-> end + 1,
                 begin |-> <<line, position>>, end |-> <<le, pe>>]
<1>1. N \in Nat /\ i \in Nat /\ i < N /\ text \in Seq(Characters) /\ lexed = "no"
  BY ReadingFacts
<1>2. text' = text /\ lexed' = lexed /\ i' = end + 1 /\ stream' = Append(stream, t)
  BY DEF Quoted, Push
<1>3. t \in Tokens
  <2>1. LexerInv'
    <3>1. At(i) # "\n" /\ At(end) # "\n"
      BY Zenon DEF Quotes
    <3> QED BY <3>1, Quoting
  <2>2. stream' \in Seq(Tokens) /\ stream \in Seq(Tokens)
    BY <2>1 DEF LexerInv, Cut
  <2> HIDE DEF t
  <2>3. Len(stream) \in Nat /\ Len(stream') = Len(stream) + 1 /\ stream'[Len(stream) + 1] = t
    BY <1>2, <2>2
  <2>4. stream'[Len(stream')] \in Tokens
    BY <2>2, <2>3, ElementOfSeq
  <2> QED BY <2>3, <2>4
<1>4. t.from = i /\ t.to = i' /\ t.kind = kind /\ i' \in i .. N /\ i' > i /\ lexed' = "no"
  BY <1>1, <1>2
<1> HIDE DEF t
<1>5. PICK to \in Nat : to = i' /\ to = end + 1 /\ i + 2 <= to /\ to <= N
  BY <1>1, <1>2
<1>6. Literal(Slice(i, to))
  <2>1. Len(Slice(i, to)) = to - i /\ \A k \in 1 .. to - i : Slice(i, to)[k] = At(i + k - 1)
    <3>1. i <= to
      BY <1>1, <1>5
    <3> QED BY <1>1, <1>5, <3>1, Slices
  <2>2. Slice(i, to)[1] = At(i) /\ Slice(i, to)[to - i] = At(end)
    <3>1. 1 \in 1 .. to - i /\ to - i \in 1 .. to - i /\ i + 1 - 1 = i /\ i + (to - i) - 1 = end
      BY <1>1, <1>5
    <3> QED BY <2>1, <3>1
  <2>3. to - i >= 2
    BY <1>1, <1>5
  <2>4. Len(Slice(i, to)) >= 2 /\ Slice(i, to)[1] = Slice(i, to)[Len(Slice(i, to))]
    BY <2>1, <2>2, <2>3
  <2>5. Slice(i, to)[1] \in Quotes
    BY <2>2
  <2> QED BY <2>4, <2>5, Zenon DEF Literal, Quotes
<1>7. Spelled(t.kind, i, i') /\ Longest(t.kind, i, i', Slice(i, i') = <<"-">> /\ AfterValue)
  BY <1>4, <1>5, <1>6 DEF Spelled, Longest
<1> QED BY <1>1, <1>2, <1>3, <1>4, <1>7, Pushed

(* Signs: two characters if they are one, else one.                        *)
LEMMA OperatorRead ==
  ASSUME LexerInv, Gaps, Operator
  PROVE  Gaps' /\ LongestTokens'
<1> DEFINE double == <<At(i), At(i + 1)>> \in Doubles
           to == IF double THEN i + 2 ELSE i + 1
<1>1. N \in Nat /\ i \in Nat /\ i < N /\ text \in Seq(Characters) /\ position \in Nat
  BY ReadingFacts DEF Operator
<1>2. /\ Reading /\ At(i) \in Singles /\ (double \/ ~Negative)
      /\ OnOneLine("operator", to, position + (to - i) + 1)
  BY DEF Operator
<1>3. to \in i + 1 .. N
  <2>1. CASE double
    <3>1. At(i + 1) # Nul
      BY <2>1, Signs
    <3>2. i + 1 < N
      BY <1>1, <3>1, Text
    <3> QED BY <1>1, <2>1, <3>2
  <2>2. CASE ~double
    BY <1>1, <2>2
  <2> QED BY <2>1, <2>2
<1>4. position + (to - i) + 1 \in Nat
  BY <1>1, <1>3
<1>5. "operator" \in Kinds \ {"eof"}
  BY DEF Kinds
<1>6. /\ IsSign(Slice(i, to))
      /\ Longest("operator", i, to, Slice(i, to) = <<"-">> /\ AfterValue)
  <2>1. CASE double
    <3>1. to = i + 2 /\ i + 1 < N
      BY <1>1, <1>3, <2>1
    <3>2. Slice(i, to) \in Doubles
      BY <1>1, <2>1, <3>1, Pair
    <3>3. Longest("operator", i, i + 2, Slice(i, to) = <<"-">> /\ AfterValue)
      BY <1>1, <2>1, LongestDouble
    <3> QED BY <3>1, <3>2, <3>3 DEF IsSign
  <2>2. CASE ~double
    <3>1. to = i + 1
      BY <2>2
    <3>2. Slice(i, i + 1) = <<At(i)>>
      <4>1. i + 1 \in Nat /\ i <= i + 1 /\ i + 1 <= N /\ (i + 1) - i = 1 /\ i + 1 - 1 = i /\ 1 \in 1 .. 1
        BY <1>1
      <4>2. /\ Slice(i, i + 1) \in Seq(Characters) /\ Len(Slice(i, i + 1)) = (i + 1) - i
            /\ \A k \in 1 .. (i + 1) - i : Slice(i, i + 1)[k] = At(i + k - 1)
        BY <1>1, <4>1, Slices
      <4>3. Len(Slice(i, i + 1)) = 1 /\ Slice(i, i + 1)[1] = At(i)
        BY <4>1, <4>2
      <4> DEFINE s == Slice(i, i + 1)
      <4>4. s \in Seq(Characters) /\ Len(s) = 1 /\ s[1] = At(i)
        BY <4>2, <4>3
      <4> HIDE DEF s
      <4>5. s = <<At(i)>>
        BY <4>4
      <4> QED BY <4>5 DEF s
    <3>3. IsSign(Slice(i, i + 1))
      <4>1. Len(<<At(i)>>) = 1 /\ <<At(i)>>[1] = At(i)
        OBVIOUS
      <4> QED BY <1>2, <3>2, <4>1 DEF IsSign
    <3>4. ASSUME At(i) = "-", At(i + 1) \in Digits
          PROVE  Slice(i, to) = <<"-">> /\ AfterValue
      BY <1>2, <2>2, <3>1, <3>2, <3>4 DEF Negative
    <3>5. Longest("operator", i, i + 1, Slice(i, to) = <<"-">> /\ AfterValue)
      BY <1>1, <1>2, <2>2, <3>4, LongestSingle
    <3> QED BY <3>1, <3>3, <3>5
  <2> QED BY <2>1, <2>2
<1> HIDE DEF to
<1>7. Spelled("operator", i, to)
  BY <1>6 DEF Spelled
<1> QED BY <1>2, <1>3, <1>4, <1>5, <1>6, <1>7, PushedOnOneLine

(* A number: a digit, or a minus and digits, as many as there are.         *)
LEMMA NumberRead ==
  ASSUME LexerInv, Gaps, Number
  PROVE  Gaps' /\ LongestTokens'
<1> DEFINE to == RunEnd(i + 1, Digits)
<1>1. N \in Nat /\ i \in Nat /\ i < N /\ text \in Seq(Characters) /\ position \in Nat
  BY ReadingFacts DEF Number
<1>2. /\ Reading /\ OnOneLine("integer", to, position + (to - 1 - i))
      /\ At(i) \in Digits \/ (At(i) = "-" /\ At(i + 1) \in Digits)
  BY DEF Number, Negative
<1>3. /\ to \in i + 1 .. N /\ At(to) \notin Digits
      /\ \A k \in i + 1 .. to - 1 : At(k) \in Digits
  <2>1. {"\n", Nul} \cap Digits = {}
    BY ONLY Separate
  <2>2. i + 1 \in Nat /\ i + 1 <= N
    BY <1>1
  <2> QED BY <1>1, <2>1, <2>2, RunStops
<1> HIDE DEF to
<1>4. position + (to - 1 - i) \in Nat /\ to \in Nat /\ i < to /\ i <= to /\ to <= N
  BY <1>1, <1>3
<1>5. "integer" \in Kinds \ {"eof"}
  BY DEF Kinds
<1>6. Longest("integer", i, to, Slice(i, to) = <<"-">> /\ AfterValue)
  BY <1>1, <1>2, <1>3, <1>4, LongestNumber
<1>7. Numeral(Slice(i, to))
  <2> DEFINE s == Slice(i, to)
  <2>1. /\ s \in Seq(Characters) /\ Len(s) = to - i
        /\ \A k \in 1 .. to - i : s[k] = At(i + k - 1)
    BY <1>1, <1>4, Slices
  <2> HIDE DEF s
  <2>2. Len(s) \in Nat /\ Len(s) >= 1
    BY <1>1, <1>4, <2>1
  <2>3. s # <<>>
    BY <2>2, EmptySeq
  <2>4. s[1] = At(i)
    <3>1. 1 \in 1 .. to - i /\ i + 1 - 1 = i
      BY <1>1, <1>4
    <3> QED BY <2>1, <3>1
  <2>5. \A k \in 2 .. Len(s) : s[k] \in Digits
    <3> SUFFICES ASSUME NEW k \in 2 .. Len(s) PROVE s[k] \in Digits
      OBVIOUS
    <3>1. k \in 1 .. to - i /\ i + k - 1 \in i + 1 .. to - 1
      BY <1>1, <1>4, <2>1
    <3> QED BY <1>3, <2>1, <3>1
  <2>6. CASE At(i) \in Digits
    <3>1. s[1] # "-"
      BY <2>4, <2>6, Classes
    <3>2. \A k \in 1 .. Len(s) : k = 1 \/ k \in 2 .. Len(s)
      BY <2>2
    <3> QED BY <2>1, <2>3, <2>4, <2>5, <2>6, <3>1, <3>2, NumeralFacts DEF s
  <2>7. CASE At(i) = "-" /\ At(i + 1) \in Digits
    <3>1. to # i + 1
      BY <1>3, <2>7
    <3>2. Len(s) >= 2
      BY <1>1, <1>4, <2>1, <3>1
    <3> QED BY <2>1, <2>3, <2>4, <2>5, <2>7, <3>2, NumeralFacts DEF s
  <2> QED BY <1>2, <2>6, <2>7
<1>8. Spelled("integer", i, to)
  BY <1>7 DEF Spelled
<1> QED BY <1>2, <1>3, <1>4, <1>5, <1>6, <1>8, PushedOnOneLine

(* A name: as far as letters, digits and underlines go, and no keyword,    *)
(* but for one that the text ends with.                                    *)
LEMMA IdentifierRead ==
  ASSUME LexerInv, Gaps, Identifier
  PROVE  Gaps' /\ LongestTokens'
<1> DEFINE chars == Alnum \cup {"_"}
           to == RunEnd(i + 1, chars)
<1>1. N \in Nat /\ i \in Nat /\ i < N /\ text \in Seq(Characters) /\ position \in Nat
  BY ReadingFacts DEF Identifier
<1>2. /\ Reading /\ OnOneLine("identifier", to, position + (to - 1 - i))
      /\ At(i) \in Letters \cup {"_"} /\ \A w \in Keywords : ~KeywordAt(w)
  BY DEF Identifier
<1>3. /\ to \in i + 1 .. N /\ At(to) \notin chars
      /\ \A k \in i + 1 .. to - 1 : At(k) \in chars
  <2>1. {"\n", Nul} \cap chars = {}
    BY ONLY Separate
  <2>2. i + 1 \in Nat /\ i + 1 <= N
    BY <1>1
  <2> HIDE DEF chars
  <2> QED BY <1>1, <2>1, <2>2, RunStops
<1> HIDE DEF to
<1>4. position + (to - 1 - i) \in Nat /\ to \in Nat /\ i < to /\ i <= to /\ to <= N
  <2>1. to \in i + 1 .. N
    BY <1>3
  <2> QED BY <1>1, <2>1
<1>5. "identifier" \in Kinds \ {"eof"}
  BY DEF Kinds
<1>6. Longest("identifier", i, to, Slice(i, to) = <<"-">> /\ AfterValue)
  BY <1>1, <1>2, <1>3, <1>4, LongestName
<1> DEFINE s == Slice(i, to)
<1>7. /\ s \in Seq(Characters) /\ Len(s) = to - i
      /\ \A k \in 1 .. to - i : s[k] = At(i + k - 1)
  BY <1>1, <1>4, Slices
<1> HIDE DEF s
<1>8. Len(s) \in Nat /\ Len(s) >= 1 /\ s # <<>>
  BY <1>1, <1>4, <1>7, EmptySeq
<1>9. IsName(s)
  <2>1. s[1] = At(i)
    <3>1. 1 \in 1 .. to - i /\ i + 1 - 1 = i
      BY <1>1, <1>4
    <3> QED BY <1>7, <3>1
  <2>2. s[1] \notin Digits
    BY <1>2, <2>1, Classes
  <2>3. ASSUME NEW k \in 1 .. to - i
        PROVE  s[k] \in chars
    <3>1. i + k - 1 = i \/ i + k - 1 \in i + 1 .. to - 1
      BY <1>1, <1>4
    <3>2. At(i) \in chars
      BY <1>2 DEF Alnum
    <3> QED BY <1>3, <1>7, <3>1, <3>2
  <2>4. DOMAIN s = 1 .. to - i
    BY <1>7, LenProperties
  <2> QED BY <1>8, <2>2, <2>3, <2>4 DEF IsName
<1>10. ASSUME s \in Keywords
       PROVE  to = N
  <2>1. i + Len(s) = to
    BY <1>1, <1>4, <1>7
  <2>2. ~(to + 1 <= N)
    BY <1>2, <1>3, <1>10, <2>1 DEF KeywordAt, s
  <2> QED BY <1>1, <1>4, <2>2
<1>11. Spelled("identifier", i, to)
  BY <1>9, <1>10 DEF Spelled, s
<1> QED BY <1>2, <1>3, <1>4, <1>5, <1>6, <1>11, PushedOnOneLine

(* A keyword: its letters, and none behind them.                           *)
LEMMA KeywordRead ==
  ASSUME LexerInv, Gaps, Keyword
  PROVE  Gaps' /\ LongestTokens'
<1>1. N \in Nat /\ i \in Nat /\ i < N /\ text \in Seq(Characters) /\ position \in Nat
  BY ReadingFacts DEF Keyword
<1>2. PICK w \in Keywords :
        KeywordAt(w) /\ OnOneLine("keyword", i + Len(w), position + Len(w) + 1)
  BY DEF Keyword
<1>3. Len(w) \in Nat \ {0} /\ w[1] \in Letters
  <2>1. w \in Seq(Letters) /\ w # <<>>
    BY <1>2, LexerAssumption
  <2>2. Len(w) \in Nat \ {0}
    BY <2>1, EmptySeq
  <2>3. 1 \in 1 .. Len(w)
    BY <2>2
  <2> QED BY <2>1, <2>2, <2>3, ElementOfSeq
<1> DEFINE to == i + Len(w)
<1>4. to \in Nat /\ i < to /\ i <= to /\ to + 1 <= N /\ to <= N /\ to \in i + 1 .. N
  <2>1. i + Len(w) + 1 <= N
    BY <1>2 DEF KeywordAt
  <2> QED BY <1>1, <1>3, <2>1
<1>5. Slice(i, to) = w /\ At(to) \notin Alnum \cup {"_"}
  BY <1>2 DEF KeywordAt
<1>6. position + Len(w) + 1 \in Nat
  BY <1>1, <1>3
<1> HIDE DEF to
<1>7. At(i) \in Letters \cup {"_"}
  <2>1. \A k \in 1 .. to - i : Slice(i, to)[k] = At(i + k - 1)
    BY <1>1, <1>4, Slices
  <2>2. 1 \in 1 .. to - i /\ i + 1 - 1 = i
    BY <1>1, <1>4
  <2> QED BY <1>3, <1>5, <2>1, <2>2
<1>8. Longest("keyword", i, to, Slice(i, to) = <<"-">> /\ AfterValue)
  BY <1>1, <1>4, <1>5, <1>7, LongestName
<1>9. Spelled("keyword", i, to)
  BY <1>2, <1>5 DEF Spelled
<1>10. "keyword" \in Kinds \ {"eof"} /\ Reading /\ OnOneLine("keyword", to, position + Len(w) + 1)
  BY <1>2 DEF Kinds, Keyword, to
<1> QED BY <1>4, <1>6, <1>8, <1>9, <1>10, PushedOnOneLine

(* What was said of the last token still holds when nothing is read.       *)
LEMMA NothingRead ==
  ASSUME Gaps, LongestTokens, UNCHANGED <<text, i, stream>>, lexed' # "yes" => lexed # "yes"
  PROVE  Gaps' /\ LongestTokens'
<1>1. /\ N' = N /\ Newest' = Newest /\ Behind' = Behind /\ JustRead' = JustRead
      /\ \A x, y : Slice(x, y)' = Slice(x, y)
      /\ \A x, y : Empty(x, y)' = Empty(x, y)
  BY DEF Newest, Behind, JustRead, Empty, Slice, At, N
<1>2. Gaps'
  <2> SUFFICES ASSUME lexed' # "yes" PROVE Empty(Behind, i)'
    BY DEF Gaps
  <2>1. PICK b : b = Behind
    OBVIOUS
  <2>2. PICK a : a = i
    OBVIOUS
  <2>3. Empty(b, a)
    BY <2>1, <2>2 DEF Gaps
  <2>4. Empty(b, a)' = Empty(b, a)
    BY <1>1
  <2> QED BY <1>1, <2>1, <2>2, <2>3, <2>4
<1>3. LongestTokens'
  BY <1>1 DEF LongestTokens
<1> QED BY <1>2, <1>3

(* An error ends the loop where it is.                                     *)
LEMMA Failed ==
  ASSUME Gaps, LongestTokens, lexed = "no", Fails
  PROVE  Gaps' /\ LongestTokens'
<1>1. UNCHANGED <<text, i, stream>> /\ (lexed' # "yes" => lexed # "yes")
  BY DEF Fails
<1> QED BY <1>1, NothingRead

(* Characters and strings end at a quote, or are an error.                 *)
LEMMA LiteralRead ==
  ASSUME LexerInv, Gaps, LongestTokens, CharLiteral \/ StringLiteral
  PROVE  Gaps' /\ LongestTokens'
<1>1. Reading
  BY DEF CharLiteral, StringLiteral
<1>2. N \in Nat /\ i \in Nat /\ i < N /\ text \in Seq(Characters) /\ lexed = "no"
  BY <1>1, ReadingFacts
<1>3. ASSUME Fails
      PROVE  Gaps' /\ LongestTokens'
  BY <1>2, <1>3, Failed
<1>4. ASSUME CharLiteral, At(CharEnd) = "'"
      PROVE  Gaps' /\ LongestTokens'
  <2>1. Quoted("char", CharEnd) /\ At(i) = "'"
    BY <1>4 DEF CharLiteral
  <2>2. At(CharEnd) # Nul /\ CharEnd \in {i + 2, i + 3}
    BY <1>4 DEF Nul, CharEnd
  <2>3. CharEnd < N
    BY <1>2, <2>2, Text
  <2>4. CharEnd \in i + 1 .. N - 1
    BY <1>2, <2>2, <2>3
  <2>5. At(i) \in Quotes /\ At(CharEnd) = At(i)
    BY <1>4, <2>1, Zenon DEF Quotes
  <2> QED BY <1>1, <2>1, <2>4, <2>5, PushedQuoted
<1>5. ASSUME StringLiteral, StringEnd < N
      PROVE  Gaps' /\ LongestTokens'
  <2>1. Quoted("string", StringEnd) /\ At(i) = "\""
    BY <1>5, Zenon DEF StringLiteral
  <2>2. StringEnd \in i + 1 .. N /\ At(StringEnd) = "\""
    BY <1>2, <1>5, StringEnds
  <2>3. StringEnd \in i + 1 .. N
    BY <2>2
  <2>4. StringEnd \in i + 1 .. N - 1
    BY ONLY <1>2, <1>5, <2>3
  <2>5. At(i) \in Quotes /\ At(StringEnd) = At(i)
    BY <2>1, <2>2, Zenon DEF Quotes
  <2> QED BY <1>1, <2>1, <2>4, <2>5, PushedQuoted
<1>6. CASE CharLiteral
  BY <1>3, <1>4, <1>6 DEF CharLiteral
<1>7. CASE StringLiteral
  BY <1>3, <1>5, <1>7 DEF StringLiteral
<1> QED BY <1>6, <1>7

(* The end of the text is where the text ends.                             *)
LEMMA EndRead ==
  ASSUME LexerInv, Gaps, EndOfText
  PROVE  Gaps' /\ LongestTokens'
<1> DEFINE t == [kind |-> "eof", from |-> i, to |-> i,
                 begin |-> <<line, position>>, end |-> <<line, position>>]
<1>1. /\ UNCHANGED <<text, i>> /\ lexed = "no" /\ lexed' = "yes" /\ i >= N
      /\ stream' = Append(stream, t)
  BY DEF EndOfText, Push
<1>2. N \in Nat /\ i \in Nat /\ i \in 0 .. N /\ line \in Nat /\ position \in Nat
  BY Text DEF LexerInv, Counted
<1>3. i' = i /\ i' = N /\ i' \in i .. N /\ ~(i' > i)
  BY <1>1, <1>2
<1>4. t \in Tokens /\ t.from = i /\ t.to = i' /\ t.kind = "eof"
  BY <1>2, <1>3 DEF Tokens, Places, Kinds
<1> HIDE DEF t
<1>5. Spelled(t.kind, i, i') /\ Longest(t.kind, i, i', Slice(i, i') = <<"-">> /\ AfterValue)
  <2>1. Spelled("eof", i, i')
    BY <1>1, <1>2 DEF Spelled
  <2>2. Longest("eof", i, i', Slice(i, i') = <<"-">> /\ AfterValue)
    BY DEF Longest
  <2> QED BY <1>4, <2>1, <2>2
<1> QED BY <1>1, <1>3, <1>4, <1>5, Pushed

(***************************************************************************)
(* The theorems.                                                           *)
(***************************************************************************)
(* Nothing is read at first.                                               *)
LEMMA WordsInit == text \in Seq(Characters) /\ LexerStart => WordsInv
<1> SUFFICES ASSUME text \in Seq(Characters), LexerStart PROVE WordsInv
  OBVIOUS
<1>1. LexerInv
  BY LexerInit
<1>2. Behind = 0 /\ i = 0 /\ 0 \in 0 .. N /\ N \in Nat /\ ~JustRead
  BY Text DEF LexerStart, Behind, JustRead
<1>3. Empty(0, 0)
  BY <1>2, Nothing
<1> QED BY <1>1, <1>2, <1>3 DEF WordsInv, Gaps, LongestTokens

(* Each turn of the loop keeps gaps empty and tokens whole.                *)
LEMMA WordsStep == WordsInv /\ [Lex]_lexer => WordsInv'
<1> SUFFICES ASSUME LexerInv, Gaps, LongestTokens, [Lex]_lexer PROVE WordsInv'
  BY DEF WordsInv
<1>1. LexerInv'
  BY LexerStep
<1> SUFFICES Gaps' /\ LongestTokens'
  BY <1>1 DEF WordsInv
<1>2. CASE LineComment
  BY <1>2, LineCommentPassed, Passed DEF LineComment
<1>3. CASE BlockComment
  BY <1>3, BlockCommentPassed, Passed DEF BlockComment
<1>4. CASE Blank \/ NewLine
  BY <1>4, BlankPassed, Passed DEF Blank, NewLine
<1>5. CASE Operator
  BY <1>5, OperatorRead
<1>6. CASE Number
  BY <1>6, NumberRead
<1>7. CASE CharLiteral \/ StringLiteral
  BY <1>7, LiteralRead
<1>8. CASE Keyword
  BY <1>8, KeywordRead
<1>9. CASE Identifier
  BY <1>9, IdentifierRead
<1>10. CASE Unexpected
  BY <1>10, Failed DEF Unexpected, Reading
<1>11. CASE EndOfText
  BY <1>11, EndRead
<1>12. CASE UNCHANGED lexer
  BY <1>12, NothingRead DEF lexer
<1> QED BY <1>2, <1>3, <1>4, <1>5, <1>6, <1>7, <1>8, <1>9, <1>10, <1>11, <1>12 DEF Lex

(* However a text is made up: behind the last token there are blanks and   *)
(* comments only, up to where lexer_process is.                            *)
THEOREM LexerPassesBlanksOnly == LexerSpec => []WordsInv
BY WordsInit, WordsStep, PTL DEF LexerSpec

(* The tokens lexer_process cuts any text into are those a reader would    *)
(* find: nothing but blanks and comments is left out between them, a name, *)
(* number or sign is spelled as the language says and is as long as it can *)
(* be, but for a minus behind a number or a name, and a name is a keyword  *)
(* exactly when it is one, but for one at the very end of the text.        *)
THEOREM LexerLongestTokens == LexerSpec => []LongestTokens
<1>1. WordsInv => LongestTokens
  BY DEF WordsInv
<1> QED BY <1>1, LexerPassesBlanksOnly, PTL
===============================================================================
