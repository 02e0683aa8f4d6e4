------------------------- MODULE CompileScopesProofs --------------------------
(***************************************************************************)
(* The inductive invariant of CompileScopes, machine-checked proofs that   *)
(* every step preserves it, and the safety properties that follow from it. *)
(*                                                                         *)
(* The properties speak of the place the compiler is at; the invariant     *)
(* has to speak of every construct that is open around it, because the     *)
(* compiler comes back to each of them with the state that construct left  *)
(* aside. Its parts take the frames, the variables and the stack pointer   *)
(* as arguments, so that the lemmas below are about sequences alone and    *)
(* serve the state before a step and the state after it. A lemma for each  *)
(* thing that can happen to the walk's frames (one is pushed, popped,      *)
(* changed at the top, or none) does the work once; the lemmas for the     *)
(* actions show which of them they are.                                    *)
(***************************************************************************)
EXTENDS CompileScopes, SequenceTheorems, WellFoundedInduction, TLAPS

Kinds == {"function", "lambda", "block", "if", "while", "operator", "call", "aggregate"}
Phases == {"body", "statements", "condition", "block", "else", "left", "right",
           "function", "arguments", "elements"}
FrameRecords ==
  [kind : Kinds, phase : Phases, name : Names \cup {NoName}, id : Ids \cup {None},
   sf : Positions, at : Positions \cup {Dead}, vars : Variables,
   words : 0 .. family.words, type : Types \cup {None}]

(* Every component has its type; TypeOK leaves out fields no property      *)
(* needs.                                                                  *)
WellTyped ==
  /\ family \in Families
  /\ status \in {"running", "rejected"}
  /\ frames \in Seq(FrameRecords)
  /\ Len(frames) <= family.nest
  /\ \A i \in 1 .. Len(frames) : frames[i].kind \in family.kinds
  /\ value \in Types \cup {None}
  /\ variables \in Variables
  /\ block_labels \in Labels
  /\ loop_labels \in Labels
  /\ sf_pos \in Positions
  /\ branch \in 0 .. family.constructs
  /\ at \in Positions \cup {Dead}

(* What a frame says by itself: constructs that are jumped to keep nothing *)
(* on the stack and have a number; an operator keeps its left value from   *)
(* its second phase on; code resumes where the frame began.                *)
Sound(f) ==
  /\ f.kind \in {"function", "block", "if", "while"} => f.words = 0 /\ f.id /= None
  /\ f.kind = "operator" => f.words = IF f.phase = "right" THEN 1 ELSE 0
  /\ f.at \in {Dead, f.sf}

(* The frames fs, while the stack pointer is at pos and br is the next     *)
(* number: they start with a function; a frame whose construct keeps       *)
(* values begins the next one below them; numbers grow inwards.            *)
Nested(fs, pos, br) ==
  /\ fs /= <<>> => fs[1].kind = "function"
  /\ \A i \in 1 .. Len(fs) : Sound(fs[i]) /\ fs[i].id < br
  /\ \A i \in 1 .. Len(fs) - 1 :
       fs[i].kind \notin {"function", "block"} => fs[i + 1].sf = fs[i].sf - fs[i].words
  /\ fs /= <<>> /\ fs[Len(fs)].kind \notin {"function", "block"} =>
       pos = fs[Len(fs)].sf - fs[Len(fs)].words
  /\ \A i, j \in 1 .. Len(fs) :
       i < j /\ fs[i].id /= None /\ fs[j].id /= None => fs[i].id < fs[j].id

(* The construct j is compiled inside i and belongs to the same function   *)
(* (j may be one past the last frame: the code that is emitted now).       *)
Inside(fs, i, j) == i < j /\ \A k \in i .. j - 1 : fs[k].kind /= "function"

(* A construct begins below what the constructs around it keep.            *)
Descending(fs) ==
  \A j \in 1 .. Len(fs) : \A i \in 1 .. j - 1 :
    Inside(fs, i, j) => fs[i].sf - fs[i].words >= fs[j].sf

(* The variables vs lie below each other between the stack pointer and the *)
(* frame pointer.                                                          *)
Packed(vs, pos) ==
  /\ \A k \in 1 .. Len(vs) :
       vs[k].size > 0 /\ pos <= vs[k].phase /\ vs[k].phase + vs[k].size <= 0
  /\ \A k, l \in 1 .. Len(vs) : k < l => vs[l].phase + vs[l].size <= vs[k].phase

(* The variables ws are the variables vs and perhaps some more.            *)
Beginning(vs, ws) ==
  Len(vs) <= Len(ws) /\ \A k \in 1 .. Len(vs) : ws[k] = vs[k]

(* The frame f and the variables vs, with the stack pointer at pos: what f *)
(* keeps is above pos, every variable lies above f or below what f keeps,  *)
(* and a block still has the variables it began with.                      *)
Fits(f, vs, pos) ==
  /\ f.sf - f.words >= pos
  /\ \A k \in 1 .. Len(vs) :
       vs[k].phase >= f.sf \/ vs[k].phase + vs[k].size <= f.sf - f.words
  /\ f.kind = "block" => Beginning(f.vars, vs)

(* The variables vs and the position pos suit every frame the construct j  *)
(* is inside of.                                                           *)
Moment(fs, vs, pos, j) ==
  /\ Packed(vs, pos)
  /\ \A i \in 1 .. j - 1 : Inside(fs, i, j) => Fits(fs[i], vs, pos)

(* The stack suits the code that is emitted now; and the variables and the *)
(* position each function and block has put aside suit the place it        *)
(* returns to.                                                             *)
Layout(fs, vs, pos) ==
  /\ Descending(fs)
  /\ Moment(fs, vs, pos, Len(fs) + 1)
  /\ \A j \in 1 .. Len(fs) :
       fs[j].kind \in {"function", "block"} => Moment(fs, fs[j].vars, fs[j].sf, j)

(* The labels of a kind of construct: numbers grow inwards, every open     *)
(* construct of that kind has its label, and a label with the number of an *)
(* open construct is that construct's.                                     *)
LabelsMatch(labels, kind, fs, br) ==
  /\ \A k \in 1 .. Len(labels) : 0 <= labels[k].id /\ labels[k].id < br
  /\ \A k, l \in 1 .. Len(labels) : k < l => labels[k].id < labels[l].id
  /\ \A i \in 1 .. Len(fs) : fs[i].kind = kind =>
       \E k \in 1 .. Len(labels) : labels[k].id = fs[i].id
  /\ \A k \in 1 .. Len(labels), i \in 1 .. Len(fs) :
       labels[k].id = fs[i].id =>
         fs[i].kind = kind /\ fs[i].sf = labels[k].sf /\ fs[i].name = labels[k].name

(* No label stays behind its construct.                                    *)
Fresh(labels, fs) ==
  \A k \in 1 .. Len(labels) : \E i \in 1 .. Len(fs) : labels[k].id = fs[i].id

(* A jump that waits for its label was emitted at the depth of the         *)
(* construct it goes to, which is open, in the one function, when no       *)
(* lambda and no one-sided loop is in the program.                         *)
JumpMatches(j, fs, br) ==
  /\ j.depth \in Positions /\ j.to \in 0 .. br - 1
  /\ \A i \in 1 .. Len(fs) : fs[i].id = j.to => j.depth = fs[i].sf
  /\ Plain => /\ \E i \in 1 .. Len(fs) :
                   fs[i].id = j.to /\ fs[i].kind \in {"block", "if", "while"}
              /\ j.from = fs[1].id

(* Without lambdas a function is only at the bottom.                       *)
OneFunction(fs) == \A i \in 1 .. Len(fs) : fs[i].kind = "function" => i = 1

(* The inductive invariant.                                                *)
ScopesInv ==
  /\ WellTyped
  /\ Nested(frames, sf_pos, branch)
  /\ "lambda" \notin family.kinds => OneFunction(frames)
  /\ Layout(frames, variables, sf_pos)
  /\ LabelsMatch(block_labels, "block", frames, branch)
  /\ Fresh(block_labels, frames)
  /\ LabelsMatch(loop_labels, "while", frames, branch)
  /\ ~family.onesided => Fresh(loop_labels, frames)
  /\ \A j \in jumps : JumpMatches(j, frames, branch)
  /\ Balanced

(* The types with the bounds of the family left out: enough for the lemmas *)
(* on sequences.                                                           *)
AnyVariable == [phase : Int, size : Int]
AnyFrame ==
  [kind : Kinds, phase : Phases, name : Names \cup {NoName}, id : Int, sf : Int, at : Int,
   vars : Seq(AnyVariable), words : Int, type : Int]

(* The fields of a frame that the arithmetic below needs.                  *)
LEMMA FrameFields ==
  ASSUME NEW fs \in Seq(AnyFrame), NEW i \in 1 .. Len(fs)
  PROVE  fs[i].sf \in Int /\ fs[i].words \in Int /\ fs[i].vars \in Seq(AnyVariable)
<1>1. fs[i] \in AnyFrame
  BY ElementOfSeq
<1> QED BY <1>1 DEF AnyFrame

(* A sequence of variables has a length, and its elements have integer     *)
(* fields.                                                                 *)
LEMMA VariableFields ==
  ASSUME NEW vs \in Seq(AnyVariable)
  PROVE  /\ Len(vs) \in Nat
         /\ \A k \in 1 .. Len(vs) : vs[k].phase \in Int /\ vs[k].size \in Int
<1>1. \A k \in 1 .. Len(vs) : vs[k] \in AnyVariable
  BY ElementOfSeq
<1> QED BY <1>1, LenProperties DEF AnyVariable

(* Frames that agree up to n have the same constructs inside each other    *)
(* there.                                                                  *)
LEMMA InsideBelow ==
  ASSUME NEW fs, NEW gs, NEW n \in Int, NEW i \in 1 .. n, NEW j \in 1 .. n + 1,
         \A k \in 1 .. n : gs[k] = fs[k], Inside(gs, i, j)
  PROVE  Inside(fs, i, j)
BY DEF Inside

(* Only the frames around j matter to what j puts aside.                   *)
LEMMA MomentBelow ==
  ASSUME NEW fs, NEW gs, NEW vs, NEW pos, NEW j \in Int,
         \A i \in 1 .. j - 1 : gs[i] = fs[i],
         Moment(fs, vs, pos, j)
  PROVE  Moment(gs, vs, pos, j)
<1>1. ASSUME NEW i \in 1 .. j - 1, Inside(gs, i, j)
      PROVE  Fits(gs[i], vs, pos)
  <2>1. Inside(fs, i, j)
    BY <1>1 DEF Inside
  <2>2. Fits(fs[i], vs, pos)
    BY <2>1 DEF Moment
  <2> QED BY <2>2 DEF Fits
<1> QED BY <1>1 DEF Moment

(* A construct that begins where the stack pointer is, and keeps nothing   *)
(* yet, suits the variables it begins with.                                *)
LEMMA MomentOpens ==
  ASSUME NEW fs \in Seq(AnyFrame), NEW vs \in Seq(AnyVariable), NEW pos \in Int,
         NEW j \in 1 .. Len(fs),
         fs[j].sf = pos, fs[j].words = 0, fs[j].kind = "block" => fs[j].vars = vs,
         Moment(fs, vs, pos, j)
  PROVE  Moment(fs, vs, pos, j + 1)
<1> Len(fs) \in Nat /\ fs[j].sf \in Int
  BY LenProperties, FrameFields
<1>1. ASSUME NEW i \in 1 .. j, Inside(fs, i, j + 1)
      PROVE  Fits(fs[i], vs, pos)
  <2>1. CASE i = j
    BY <2>1, VariableFields DEF Moment, Packed, Fits, Beginning
  <2>2. CASE i < j
    <3>1. Inside(fs, i, j)
      BY <1>1, <2>2 DEF Inside
    <3> QED BY <3>1, <2>2 DEF Moment
  <2> QED BY <2>1, <2>2
<1> QED BY <1>1 DEF Moment

(* A new function sees none of the frames around it.                       *)
LEMMA MomentEnters ==
  ASSUME NEW fs \in Seq(AnyFrame), NEW vs \in Seq(AnyVariable), NEW pos \in Int,
         NEW j \in 1 .. Len(fs), fs[j].kind = "function", Packed(vs, pos)
  PROVE  Moment(fs, vs, pos, j + 1)
BY DEF Moment, Inside

(* When a construct other than a function or a block ends, and gives back  *)
(* what it kept, the variables suit what is around it.                     *)
LEMMA MomentCloses ==
  ASSUME NEW fs \in Seq(AnyFrame), NEW vs \in Seq(AnyVariable), NEW pos \in Int,
         NEW j \in 1 .. Len(fs),
         fs[j].kind \notin {"function", "block"}, pos = fs[j].sf - fs[j].words,
         fs[j].words >= 0,
         Descending(fs), Moment(fs, vs, pos, j + 1)
  PROVE  Moment(fs, vs, fs[j].sf, j)
<1> Len(fs) \in Nat
  BY LenProperties
<1>1. Fits(fs[j], vs, pos)
  BY DEF Moment, Inside
<1>2. Packed(vs, fs[j].sf)
  BY <1>1, FrameFields, VariableFields DEF Fits, Moment, Packed
<1>3. ASSUME NEW i \in 1 .. j - 1, Inside(fs, i, j)
      PROVE  Fits(fs[i], vs, fs[j].sf)
  <2>1. Inside(fs, i, j + 1)
    BY <1>3 DEF Inside
  <2>2. Fits(fs[i], vs, pos)
    BY <2>1 DEF Moment
  <2>3. fs[i].sf - fs[i].words >= fs[j].sf
    BY <1>3 DEF Descending
  <2> QED BY <2>2, <2>3 DEF Fits
<1> QED BY <1>2, <1>3 DEF Moment

(* A construct that keeps n more words moves the stack pointer under them; *)
(* the variables are all above it.                                         *)
LEMMA MomentKeeps ==
  ASSUME NEW fs \in Seq(AnyFrame), NEW gs, NEW vs \in Seq(AnyVariable), NEW pos \in Int,
         NEW j \in 1 .. Len(fs), NEW n \in Nat,
         fs[j].kind \notin {"function", "block"}, pos = fs[j].sf - fs[j].words,
         \A i \in 1 .. j - 1 : gs[i] = fs[i],
         gs[j].kind = fs[j].kind, gs[j].sf = fs[j].sf, gs[j].words = fs[j].words + n,
         Moment(fs, vs, pos, j + 1)
  PROVE  Moment(gs, vs, pos - n, j + 1)
<1> Len(fs) \in Nat
  BY LenProperties
<1>1. Fits(fs[j], vs, pos)
  BY DEF Moment, Inside
<1>2. Packed(vs, pos - n)
  BY VariableFields DEF Moment, Packed
<1>3. Fits(gs[j], vs, pos - n)
  <2>1. fs[j].sf \in Int /\ fs[j].words \in Int
    BY FrameFields
  <2>2. \A k \in 1 .. Len(vs) : /\ vs[k].phase \in Int /\ vs[k].size \in Int
                                /\ vs[k].size > 0 /\ pos <= vs[k].phase
    BY VariableFields DEF Moment, Packed
  <2>3. \A k \in 1 .. Len(vs) : vs[k].phase >= fs[j].sf
    <3> SUFFICES ASSUME NEW k \in 1 .. Len(vs) PROVE vs[k].phase >= fs[j].sf
      OBVIOUS
    <3>1. vs[k].phase >= fs[j].sf \/ vs[k].phase + vs[k].size <= fs[j].sf - fs[j].words
      BY <1>1 DEF Fits
    <3> QED BY <3>1, <2>1, <2>2
  <2> QED BY <2>1, <2>3 DEF Fits
<1>4. ASSUME NEW i \in 1 .. j - 1, Inside(gs, i, j + 1)
      PROVE  Fits(gs[i], vs, pos - n)
  <2>1. Inside(fs, i, j + 1)
    BY <1>4 DEF Inside
  <2>2. Fits(fs[i], vs, pos)
    BY <2>1 DEF Moment
  <2>3. fs[i].sf \in Int /\ fs[i].words \in Int /\ gs[i] = fs[i]
    BY FrameFields
  <2> QED BY <2>2, <2>3 DEF Fits
<1> QED BY <1>2, <1>3, <1>4 DEF Moment

(* A new variable of t words goes under everything that is there.          *)
LEMMA MomentDefines ==
  ASSUME NEW fs \in Seq(AnyFrame), NEW vs \in Seq(AnyVariable), NEW pos \in Int,
         NEW j \in 1 .. Len(fs) + 1, NEW t \in Nat, t > 0, pos <= 0,
         Moment(fs, vs, pos, j)
  PROVE  Moment(fs, Append(vs, [phase |-> pos - t, size |-> t]), pos - t, j)
<1> DEFINE ws == Append(vs, [phase |-> pos - t, size |-> t])
<1>1. /\ Len(ws) = Len(vs) + 1
      /\ \A k \in 1 .. Len(vs) : ws[k] = vs[k]
      /\ ws[Len(vs) + 1].phase = pos - t /\ ws[Len(vs) + 1].size = t
  BY AppendProperties DEF AnyVariable
<1>2. \A k \in 1 .. Len(vs) : vs[k].phase \in Int /\ vs[k].size \in Int
  BY VariableFields
<1> HIDE DEF ws
<1>3. Packed(ws, pos - t)
  <2>1. Packed(vs, pos) /\ Len(vs) \in Nat
    BY VariableFields DEF Moment
  <2>2. ASSUME NEW k \in 1 .. Len(ws)
        PROVE  ws[k].size > 0 /\ pos - t <= ws[k].phase /\ ws[k].phase + ws[k].size <= 0
    <3>1. CASE k = Len(vs) + 1
      BY <1>1, <3>1
    <3>2. CASE k <= Len(vs)
      <4>1. vs[k].size > 0 /\ pos <= vs[k].phase /\ vs[k].phase + vs[k].size <= 0
        BY <2>1, <3>2 DEF Packed
      <4> QED BY <1>1, <1>2, <2>1, <3>2, <4>1
    <3> QED BY <1>1, <2>1, <3>1, <3>2
  <2>3. ASSUME NEW k \in 1 .. Len(ws), NEW l \in 1 .. Len(ws), k < l
        PROVE  ws[l].phase + ws[l].size <= ws[k].phase
    <3>1. k <= Len(vs) /\ pos <= ws[k].phase /\ ws[k].phase \in Int
      BY <1>1, <1>2, <2>1, <2>3 DEF Packed
    <3>2. CASE l <= Len(vs)
      BY <1>1, <1>2, <2>1, <2>3, <3>2 DEF Packed
    <3>3. CASE l = Len(vs) + 1
      BY <1>1, <3>1, <3>3
    <3> QED BY <1>1, <2>1, <3>2, <3>3
  <2> QED BY <2>2, <2>3 DEF Packed
<1>4. ASSUME NEW i \in 1 .. j - 1, Inside(fs, i, j)
      PROVE  Fits(fs[i], ws, pos - t)
  <2>1. Fits(fs[i], vs, pos)
    BY <1>4 DEF Moment
  <2>2. fs[i].sf \in Int /\ fs[i].words \in Int /\ fs[i].vars \in Seq(AnyVariable)
    BY FrameFields
  <2>3. Len(vs) \in Nat /\ Len(fs[i].vars) \in Nat
    BY <2>2, VariableFields
  <2>4. ASSUME NEW k \in 1 .. Len(ws)
        PROVE  ws[k].phase >= fs[i].sf \/ ws[k].phase + ws[k].size <= fs[i].sf - fs[i].words
    <3>1. CASE k = Len(vs) + 1
      BY <1>1, <2>1, <2>2, <3>1 DEF Fits
    <3>2. CASE k <= Len(vs)
      BY <1>1, <2>1, <2>3, <3>2 DEF Fits
    <3> QED BY <1>1, <2>3, <3>1, <3>2
  <2>5. fs[i].kind = "block" => Beginning(fs[i].vars, ws)
    BY <1>1, <2>1, <2>3 DEF Fits, Beginning
  <2> QED BY <2>1, <2>2, <2>4, <2>5 DEF Fits
<1> QED BY <1>3, <1>4 DEF Moment, ws

(***************************************************************************)
(* A frame is pushed, replaced at the top, or popped.                      *)
(***************************************************************************)
(* Append: the elements of the sequence that results.                      *)
LEMMA Pushing ==
  ASSUME NEW S, NEW s \in Seq(S), NEW e \in S
  PROVE  /\ Append(s, e) \in Seq(S)
         /\ Len(s) \in Nat /\ Len(Append(s, e)) = Len(s) + 1
         /\ \A i \in 1 .. Len(s) : Append(s, e)[i] = s[i]
         /\ Append(s, e)[Len(s) + 1] = e
BY AppendProperties, LenProperties

(* Front and Last of a sequence that is not empty.                         *)
LEMMA Popping ==
  ASSUME NEW S, NEW s \in Seq(S), s /= <<>>
  PROVE  /\ Front(s) \in Seq(S)
         /\ Len(s) \in Nat \ {0} /\ Len(Front(s)) = Len(s) - 1
         /\ \A i \in 1 .. Len(s) - 1 : Front(s)[i] = s[i]
         /\ Last(s) = s[Len(s)] /\ Last(s) \in S
<1>1. Len(s) \in Nat \ {0}
  BY EmptySeq
<1>2. \A i \in 1 .. Len(s) : s[i] \in S
  BY ElementOfSeq
<1> DEFINE n == Len(s) - 1
<1>3. n \in Int /\ n >= 0 /\ Len(s) = n + 1
  BY <1>1
<1>4. \A i \in 1 .. n : s[i] \in S
  BY <1>1, <1>2
<1> HIDE DEF n
<1>5. /\ SubSeq(s, 1, n) \in Seq(S)
      /\ Len(SubSeq(s, 1, n)) = IF 1 <= n THEN n - 1 + 1 ELSE 0
      /\ \A i \in 1 .. n - 1 + 1 : SubSeq(s, 1, n)[i] = s[1 + i - 1]
  BY <1>3, <1>4, SubSeqProperties
<1>6. Len(SubSeq(s, 1, n)) = n /\ \A i \in 1 .. n : SubSeq(s, 1, n)[i] = s[i]
  BY <1>3, <1>5
<1> QED BY <1>1, <1>2, <1>5, <1>6 DEF Front, Last, n

(* ReplaceAt of the last element.                                          *)
LEMMA Replacing ==
  ASSUME NEW S, NEW s \in Seq(S), s /= <<>>, NEW e \in S
  PROVE  LET t == ReplaceAt(s, Len(s), e)
         IN  /\ t \in Seq(S)
             /\ Len(s) \in Nat \ {0} /\ Len(t) = Len(s)
             /\ \A i \in 1 .. Len(s) - 1 : t[i] = s[i]
             /\ t[Len(s)] = e
<1>1. Len(s) \in Nat \ {0}
  BY EmptySeq
<1>2. Len(s) \in 1 .. Len(s)
  BY <1>1
<1>3. [s EXCEPT ![Len(s)] = e] \in Seq(S) /\ Len([s EXCEPT ![Len(s)] = e]) = Len(s)
  BY <1>2
<1>4. \A j \in 1 .. Len(s) : [s EXCEPT ![Len(s)] = e][j] = IF j = Len(s) THEN e ELSE s[j]
  BY <1>2, LenProperties
<1> DEFINE t == [s EXCEPT ![Len(s)] = e]
<1>5. ReplaceAt(s, Len(s), e) = t
  BY DEF ReplaceAt
<1> HIDE DEF t
<1>6. t \in Seq(S) /\ Len(t) = Len(s) /\ \A j \in 1 .. Len(s) : t[j] = IF j = Len(s) THEN e ELSE s[j]
  BY <1>3, <1>4 DEF t
<1>7. t[Len(s)] = e /\ \A i \in 1 .. Len(s) - 1 : t[i] = s[i]
  BY <1>1, <1>2, <1>6
<1> QED BY <1>1, <1>5, <1>6, <1>7

(* A new innermost construct leaves the frames nested.                     *)
LEMMA NestedPush ==
  ASSUME NEW fs \in Seq(AnyFrame), NEW f \in AnyFrame, NEW pos \in Int, NEW pos2 \in Int,
         NEW br \in Nat, NEW br2 \in {br, br + 1},
         Nested(fs, pos, br), Sound(f), f.sf = pos, f.id \in {None, br}, f.id < br2,
         fs = <<>> => f.kind = "function",
         f.kind \notin {"function", "block"} => pos2 = pos - f.words
  PROVE  Nested(Append(fs, f), pos2, br2)
<1> DEFINE gs == Append(fs, f)
<1>1. /\ Len(fs) \in Nat /\ Len(gs) = Len(fs) + 1
      /\ \A i \in 1 .. Len(fs) : gs[i] = fs[i]
      /\ gs[Len(fs) + 1] = f
  BY Pushing
<1>2. \A i \in 1 .. Len(fs) : fs[i].id \in Int
  <2>1. \A i \in 1 .. Len(fs) : fs[i] \in AnyFrame
    BY ElementOfSeq
  <2> QED BY <2>1 DEF AnyFrame
<1> HIDE DEF gs
<1>3. gs /= <<>> => gs[1].kind = "function"
  BY <1>1, EmptySeq DEF Nested
<1>4. \A i \in 1 .. Len(gs) : Sound(gs[i]) /\ gs[i].id < br2
  BY <1>1, <1>2 DEF Nested
<1>5. ASSUME NEW i \in 1 .. Len(gs) - 1, gs[i].kind \notin {"function", "block"}
      PROVE  gs[i + 1].sf = gs[i].sf - gs[i].words
  <2>1. CASE i = Len(fs)
    BY <1>1, <1>5, <2>1, EmptySeq DEF Nested
  <2>2. CASE i < Len(fs)
    BY <1>1, <1>5, <2>2 DEF Nested
  <2> QED BY <1>1, <2>1, <2>2
<1>6. gs[Len(gs)].kind \notin {"function", "block"} => pos2 = gs[Len(gs)].sf - gs[Len(gs)].words
  BY <1>1
<1>7. ASSUME NEW i \in 1 .. Len(gs), NEW j \in 1 .. Len(gs),
             i < j, gs[i].id /= None, gs[j].id /= None
      PROVE  gs[i].id < gs[j].id
  <2>1. CASE j = Len(fs) + 1
    <3>1. gs[i] = fs[i] /\ fs[i].id < br2 /\ fs[i].id < br
      BY <1>1, <1>7, <2>1, <1>4 DEF Nested
    <3> QED BY <1>1, <1>2, <1>7, <2>1, <3>1 DEF None
  <2>2. CASE j <= Len(fs)
    BY <1>1, <1>7, <2>2 DEF Nested
  <2> QED BY <1>1, <2>1, <2>2
<1> QED BY <1>3, <1>4, <1>5, <1>6, <1>7 DEF Nested, gs

(* The innermost construct ends, and the stack pointer goes back to where  *)
(* it began.                                                               *)
LEMMA NestedPop ==
  ASSUME NEW fs \in Seq(AnyFrame), fs /= <<>>, NEW pos, NEW br, Nested(fs, pos, br)
  PROVE  Nested(Front(fs), Last(fs).sf, br)
<1>1. /\ Len(fs) \in Nat \ {0} /\ Len(Front(fs)) = Len(fs) - 1
      /\ \A i \in 1 .. Len(fs) - 1 : Front(fs)[i] = fs[i]
      /\ Last(fs) = fs[Len(fs)] /\ Front(fs) \in Seq(AnyFrame)
  BY Popping
<1>2. Front(fs) /= <<>> => Len(fs) > 1
  BY <1>1, EmptySeq
<1> QED BY <1>1, <1>2 DEF Nested

(* The innermost construct goes on to another phase.                       *)
LEMMA NestedTop ==
  ASSUME NEW fs \in Seq(AnyFrame), fs /= <<>>, NEW f \in AnyFrame, NEW pos, NEW pos2, NEW br,
         Nested(fs, pos, br), Sound(f),
         f.kind = Last(fs).kind, f.id = Last(fs).id, f.sf = Last(fs).sf,
         f.kind \notin {"function", "block"} => pos2 = f.sf - f.words
  PROVE  Nested(ReplaceAt(fs, Len(fs), f), pos2, br)
<1> DEFINE gs == ReplaceAt(fs, Len(fs), f)
<1>1. Len(fs) \in Nat \ {0}
  BY EmptySeq
<1>2. /\ gs \in Seq(AnyFrame) /\ Len(gs) = Len(fs)
      /\ \A i \in 1 .. Len(fs) - 1 : gs[i] = fs[i]
      /\ gs[Len(fs)] = f /\ Last(fs) = fs[Len(fs)]
  BY Replacing DEF Last
<1>3. \A i \in 1 .. Len(fs) : gs[i].kind = fs[i].kind /\ gs[i].id = fs[i].id /\ gs[i].sf = fs[i].sf
  BY <1>1, <1>2
<1> HIDE DEF gs
<1>4. \A i \in 1 .. Len(gs) : Sound(gs[i]) /\ gs[i].id < br
  BY <1>1, <1>2, <1>3 DEF Nested
<1>5. gs /= <<>> => gs[1].kind = "function"
  <2>1. 1 \in 1 .. Len(fs)
    BY <1>1
  <2> QED BY <1>3, <2>1 DEF Nested
<1>6. ASSUME NEW i \in 1 .. Len(gs) - 1, gs[i].kind \notin {"function", "block"}
      PROVE  gs[i + 1].sf = gs[i].sf - gs[i].words
  <2>1. gs[i] = fs[i] /\ i + 1 \in 1 .. Len(fs)
    BY <1>1, <1>2
  <2>2. gs[i + 1].sf = fs[i + 1].sf
    BY <1>3, <2>1
  <2> QED BY <1>2, <1>6, <2>1, <2>2 DEF Nested
<1>7. gs[Len(gs)].kind \notin {"function", "block"} => pos2 = gs[Len(gs)].sf - gs[Len(gs)].words
  BY <1>2
<1>8. ASSUME NEW i \in 1 .. Len(gs), NEW j \in 1 .. Len(gs),
             i < j, gs[i].id /= None, gs[j].id /= None
      PROVE  gs[i].id < gs[j].id
  BY <1>2, <1>3, <1>8 DEF Nested
<1> QED BY <1>4, <1>5, <1>6, <1>7, <1>8 DEF Nested, gs

(* A new innermost construct: a block or a function puts the variables and *)
(* the position aside.                                                     *)
LEMMA LayoutPush ==
  ASSUME NEW fs \in Seq(AnyFrame), NEW f \in AnyFrame,
         NEW vs \in Seq(AnyVariable), NEW vs2 \in Seq(AnyVariable),
         NEW pos \in Int, NEW pos2 \in Int,
         Layout(fs, vs, pos), f.sf = pos, f.words = 0,
         f.kind \in {"function", "block"} => f.vars = vs,
         IF f.kind = "function" THEN Packed(vs2, pos2) ELSE vs2 = vs /\ pos2 = pos
  PROVE  Layout(Append(fs, f), vs2, pos2)
<1> DEFINE gs == Append(fs, f)
<1>1. /\ Len(fs) \in Nat /\ Len(gs) = Len(fs) + 1 /\ gs \in Seq(AnyFrame)
      /\ \A i \in 1 .. Len(fs) : gs[i] = fs[i]
      /\ gs[Len(fs) + 1] = f
  BY Pushing
<1> HIDE DEF gs
<1>2. ASSUME NEW j \in 1 .. Len(fs) + 1, NEW ws, NEW p, Moment(fs, ws, p, j)
      PROVE  Moment(gs, ws, p, j)
  <2>1. j \in Int /\ \A i \in 1 .. j - 1 : gs[i] = fs[i]
    BY <1>1
  <2> QED BY <1>2, <2>1, MomentBelow
<1>3. Descending(gs)
  <2> SUFFICES ASSUME NEW j \in 1 .. Len(gs), NEW i \in 1 .. j - 1, Inside(gs, i, j)
               PROVE  gs[i].sf - gs[i].words >= gs[j].sf
    BY DEF Descending
  <2>1. Inside(fs, i, j)
    <3>1. /\ Len(fs) \in Int /\ i \in 1 .. Len(fs) /\ j \in 1 .. Len(fs) + 1
          /\ \A k \in 1 .. Len(fs) : gs[k] = fs[k]
      BY <1>1
    <3> QED BY <3>1, InsideBelow
  <2>2. CASE j = Len(fs) + 1
    <3>1. Fits(fs[i], vs, pos)
      BY <1>1, <2>1, <2>2 DEF Layout, Moment
    <3> QED BY <1>1, <2>2, <3>1 DEF Fits
  <2>3. CASE j <= Len(fs)
    <3>1. j \in 1 .. Len(fs) /\ gs[j] = fs[j] /\ i \in 1 .. Len(fs) /\ gs[i] = fs[i]
      BY <1>1, <2>3
    <3>2. fs[i].sf - fs[i].words >= fs[j].sf
      BY <2>1, <3>1 DEF Layout, Descending
    <3> QED BY <3>1, <3>2
  <2>4. j = Len(fs) + 1 \/ j <= Len(fs)
    <3>1. Len(fs) \in Nat /\ Len(gs) = Len(fs) + 1
      BY <1>1
    <3> QED BY <3>1
  <2> QED BY <2>2, <2>3, <2>4
<1>4. Moment(gs, vs2, pos2, Len(gs) + 1)
  <2>1. CASE f.kind = "function"
    <3>1. Len(gs) \in 1 .. Len(gs)
      BY <1>1
    <3> QED BY <1>1, <2>1, <3>1, MomentEnters
  <2>2. CASE f.kind /= "function"
    <3>1. Moment(gs, vs, pos, Len(fs) + 1)
      BY <1>1, <1>2 DEF Layout
    <3> QED BY <1>1, <2>2, <3>1, MomentOpens
  <2> QED BY <2>1, <2>2
<1>5. ASSUME NEW j \in 1 .. Len(gs), gs[j].kind \in {"function", "block"}
      PROVE  Moment(gs, gs[j].vars, gs[j].sf, j)
  <2>1. CASE j = Len(fs) + 1
    BY <1>1, <1>2, <1>5, <2>1 DEF Layout
  <2>2. CASE j <= Len(fs)
    <3>1. j \in 1 .. Len(fs) /\ j \in 1 .. Len(fs) + 1 /\ gs[j] = fs[j]
      BY <1>1, <2>2
    <3>2. Moment(fs, fs[j].vars, fs[j].sf, j)
      BY <1>5, <3>1 DEF Layout
    <3> QED BY <1>2, <3>1, <3>2
  <2> QED BY <1>1, <2>1, <2>2
<1> QED BY <1>3, <1>4, <1>5 DEF Layout, gs

(* The innermost construct ends: the stack is again as it was put aside,   *)
(* or as it was when the construct began.                                  *)
LEMMA LayoutPop ==
  ASSUME NEW fs \in Seq(AnyFrame), fs /= <<>>,
         NEW vs \in Seq(AnyVariable), NEW pos \in Int, NEW br,
         Nested(fs, pos, br), Layout(fs, vs, pos), Last(fs).words >= 0
  PROVE  Layout(Front(fs), IF Last(fs).kind \in {"function", "block"} THEN Last(fs).vars ELSE vs,
                Last(fs).sf)
<1> DEFINE gs == Front(fs)
           n == Len(fs)
           ws == IF fs[n].kind \in {"function", "block"} THEN fs[n].vars ELSE vs
<1>1. /\ n \in Nat \ {0} /\ Len(gs) = n - 1 /\ gs \in Seq(AnyFrame)
      /\ \A i \in 1 .. n - 1 : gs[i] = fs[i]
      /\ Last(fs) = fs[n]
  BY Popping
<1> HIDE DEF gs, n
<1>2. ASSUME NEW j \in 1 .. n, NEW us, NEW p, Moment(fs, us, p, j)
      PROVE  Moment(gs, us, p, j)
  BY <1>1, <1>2, MomentBelow
<1>3. Descending(gs)
  <2> SUFFICES ASSUME NEW j \in 1 .. Len(gs), NEW i \in 1 .. j - 1, Inside(gs, i, j)
               PROVE  gs[i].sf - gs[i].words >= gs[j].sf
    BY DEF Descending
  <2>1. gs[i] = fs[i] /\ gs[j] = fs[j] /\ j \in 1 .. Len(fs)
    BY <1>1 DEF n
  <2>2. Inside(fs, i, j)
    <3>1. /\ n - 1 \in Int /\ i \in 1 .. n - 1 /\ j \in 1 .. n - 1 + 1
          /\ \A k \in 1 .. n - 1 : gs[k] = fs[k]
      BY <1>1
    <3> QED BY <3>1, InsideBelow
  <2> QED BY <2>1, <2>2 DEF Layout, Descending
<1>4. Moment(fs, ws, fs[n].sf, n)
  <2>1. CASE fs[n].kind \in {"function", "block"}
    BY <1>1, <2>1 DEF Layout, n
  <2>2. CASE fs[n].kind \notin {"function", "block"}
    <3>1. pos = fs[n].sf - fs[n].words /\ fs[n].words >= 0
      BY <1>1, <2>2 DEF Nested, n
    <3>2. n \in 1 .. Len(fs) /\ Descending(fs) /\ Moment(fs, vs, pos, n + 1)
      BY <1>1 DEF Layout, n
    <3>3. Moment(fs, vs, fs[n].sf, n)
      BY <2>2, <3>1, <3>2, MomentCloses
    <3> QED BY <2>2, <3>3
  <2> QED BY <2>1, <2>2
<1>5. Moment(gs, ws, fs[n].sf, Len(gs) + 1)
  BY <1>1, <1>2, <1>4
<1>6. ASSUME NEW j \in 1 .. Len(gs), gs[j].kind \in {"function", "block"}
      PROVE  Moment(gs, gs[j].vars, gs[j].sf, j)
  <2>1. j \in 1 .. Len(fs) /\ j \in 1 .. n /\ gs[j] = fs[j]
    BY <1>1 DEF n
  <2>2. Moment(fs, fs[j].vars, fs[j].sf, j)
    BY <1>6, <2>1 DEF Layout
  <2> QED BY <1>2, <2>1, <2>2
<1> QED BY <1>1, <1>3, <1>5, <1>6 DEF Layout, gs

(* The innermost construct keeps n more words.                             *)
LEMMA LayoutTop ==
  ASSUME NEW fs \in Seq(AnyFrame), fs /= <<>>, NEW f \in AnyFrame,
         NEW vs \in Seq(AnyVariable), NEW pos \in Int, NEW br, NEW n \in Nat,
         Nested(fs, pos, br), Layout(fs, vs, pos),
         f.kind = Last(fs).kind, f.sf = Last(fs).sf, f.vars = Last(fs).vars,
         f.words = Last(fs).words + n, f.kind \notin {"function", "block"}
  PROVE  Layout(ReplaceAt(fs, Len(fs), f), vs, pos - n)
<1> DEFINE gs == ReplaceAt(fs, Len(fs), f)
           l == Len(fs)
<1>1. /\ l \in Nat \ {0} /\ Len(gs) = l /\ gs \in Seq(AnyFrame)
      /\ \A i \in 1 .. l - 1 : gs[i] = fs[i]
      /\ gs[l] = f /\ Last(fs) = fs[l]
  BY Replacing DEF Last
<1> HIDE DEF gs, l
<1>2. ASSUME NEW j \in 1 .. l, NEW us, NEW p, Moment(fs, us, p, j)
      PROVE  Moment(gs, us, p, j)
  BY <1>1, <1>2, MomentBelow
<1>3. Descending(gs)
  <2> SUFFICES ASSUME NEW j \in 1 .. Len(gs), NEW i \in 1 .. j - 1, Inside(gs, i, j)
               PROVE  gs[i].sf - gs[i].words >= gs[j].sf
    BY DEF Descending
  <2>1. j \in 1 .. l /\ i \in 1 .. l - 1 /\ gs[i] = fs[i]
    BY <1>1
  <2>2. gs[j].sf = fs[j].sf
    <3>1. CASE j = l
      BY <1>1, <3>1
    <3>2. CASE j \in 1 .. l - 1
      BY <1>1, <3>2
    <3>3. l \in Int
      BY <1>1
    <3> QED BY <2>1, <3>1, <3>2, <3>3
  <2>3. Inside(fs, i, j)
    <3>1. /\ l - 1 \in Int /\ i \in 1 .. l - 1 /\ j \in 1 .. l - 1 + 1
          /\ \A k \in 1 .. l - 1 : gs[k] = fs[k]
      BY <1>1, <2>1
    <3> QED BY <3>1, InsideBelow
  <2>4. j \in 1 .. Len(fs)
    BY <2>1 DEF l
  <2> QED BY <2>1, <2>2, <2>3, <2>4 DEF Layout, Descending
<1>4. pos = fs[l].sf - fs[l].words
  BY <1>1 DEF Nested, l
<1>5. Moment(fs, vs, pos, l + 1)
  BY DEF Layout, l
<1>6. Moment(gs, vs, pos - n, Len(gs) + 1)
  <2>1. l \in 1 .. Len(fs)
    BY <1>1 DEF l
  <2> QED BY <1>1, <1>4, <1>5, <2>1, MomentKeeps
<1>7. ASSUME NEW j \in 1 .. Len(gs), gs[j].kind \in {"function", "block"}
      PROVE  Moment(gs, gs[j].vars, gs[j].sf, j)
  BY <1>1, <1>2, <1>7 DEF Layout, l
<1> QED BY <1>3, <1>6, <1>7 DEF Layout, gs

(* A definition in the innermost block.                                    *)
LEMMA LayoutDefines ==
  ASSUME NEW fs \in Seq(AnyFrame), NEW vs \in Seq(AnyVariable), NEW pos \in Int,
         NEW t \in Nat, t > 0, pos <= 0, Layout(fs, vs, pos)
  PROVE  Layout(fs, Append(vs, [phase |-> pos - t, size |-> t]), pos - t)
<1>1. Len(fs) + 1 \in 1 .. Len(fs) + 1
  BY LenProperties
<1> QED BY <1>1, MomentDefines DEF Layout

AnyLabel == [name : Names \cup {NoName}, id : Int, sf : Int, type : Int]

(* A construct of the labels' kind begins and its label is pushed.         *)
LEMMA LabelsPush ==
  ASSUME NEW labels \in Seq(AnyLabel), NEW l \in AnyLabel, NEW kind,
         NEW fs \in Seq(AnyFrame), NEW f \in AnyFrame, NEW br \in Nat,
         LabelsMatch(labels, kind, fs, br), \A i \in 1 .. Len(fs) : fs[i].id < br,
         f.kind = kind, f.id = br, l.id = br, l.sf = f.sf, l.name = f.name
  PROVE  /\ LabelsMatch(Append(labels, l), kind, Append(fs, f), br + 1)
         /\ Fresh(labels, fs) => Fresh(Append(labels, l), Append(fs, f))
<1> DEFINE ms == Append(labels, l)
           gs == Append(fs, f)
<1>1. /\ Len(fs) \in Nat /\ Len(gs) = Len(fs) + 1 /\ gs \in Seq(AnyFrame)
      /\ \A i \in 1 .. Len(fs) : gs[i] = fs[i]
      /\ gs[Len(fs) + 1] = f
  BY Pushing
<1>2. /\ Len(labels) \in Nat /\ Len(ms) = Len(labels) + 1 /\ ms \in Seq(AnyLabel)
      /\ \A i \in 1 .. Len(labels) : ms[i] = labels[i]
      /\ ms[Len(labels) + 1] = l
  BY Pushing
<1> HIDE DEF ms, gs
<1>3. \A k \in 1 .. Len(labels) : 0 <= labels[k].id /\ labels[k].id < br /\ labels[k].id \in Int
  <2>1. \A k \in 1 .. Len(labels) : labels[k] \in AnyLabel
    BY ElementOfSeq
  <2> QED BY <2>1 DEF LabelsMatch, AnyLabel
<1>4. ASSUME NEW k \in 1 .. Len(ms)
      PROVE  0 <= ms[k].id /\ ms[k].id < br + 1
  <2>1. CASE k = Len(labels) + 1
    BY <1>2, <2>1
  <2>2. CASE k <= Len(labels)
    BY <1>2, <1>3, <2>2
  <2> QED BY <1>2, <2>1, <2>2
<1>5. ASSUME NEW k \in 1 .. Len(ms), NEW m \in 1 .. Len(ms), k < m
      PROVE  ms[k].id < ms[m].id
  <2>1. k \in 1 .. Len(labels) /\ ms[k] = labels[k]
    BY <1>2, <1>5
  <2>2. CASE m = Len(labels) + 1
    BY <1>2, <1>3, <2>1, <2>2
  <2>3. CASE m <= Len(labels)
    BY <1>2, <1>5, <2>1, <2>3 DEF LabelsMatch
  <2> QED BY <1>2, <2>2, <2>3
<1>6. ASSUME NEW i \in 1 .. Len(gs), gs[i].kind = kind
      PROVE  \E k \in 1 .. Len(ms) : ms[k].id = gs[i].id
  <2>1. CASE i = Len(fs) + 1
    BY <1>1, <1>2, <2>1
  <2>2. CASE i <= Len(fs)
    <3>1. i \in 1 .. Len(fs) /\ gs[i] = fs[i]
      BY <1>1, <2>2
    <3>2. PICK k \in 1 .. Len(labels) : labels[k].id = fs[i].id
      BY <1>6, <3>1 DEF LabelsMatch
    <3>3. k \in 1 .. Len(ms) /\ ms[k] = labels[k]
      BY <1>2
    <3> QED BY <3>1, <3>2, <3>3
  <2> QED BY <1>1, <2>1, <2>2
<1>7. ASSUME NEW k \in 1 .. Len(ms), NEW i \in 1 .. Len(gs), ms[k].id = gs[i].id
      PROVE  gs[i].kind = kind /\ gs[i].sf = ms[k].sf /\ gs[i].name = ms[k].name
  <2>1. CASE k = Len(labels) + 1 /\ i = Len(fs) + 1
    BY <1>1, <1>2, <2>1
  <2>2. CASE k <= Len(labels) /\ i <= Len(fs)
    <3>1. /\ k \in 1 .. Len(labels) /\ ms[k] = labels[k]
          /\ i \in 1 .. Len(fs) /\ gs[i] = fs[i]
      BY <1>1, <1>2, <2>2
    <3> QED BY <1>7, <3>1 DEF LabelsMatch
  <2>3. CASE k = Len(labels) + 1 /\ i <= Len(fs)
    <3>1. i \in 1 .. Len(fs) /\ gs[i] = fs[i] /\ ms[k] = l
      BY <1>1, <1>2, <2>3
    <3>2. fs[i].id \in Int /\ fs[i].id < br
      <4>1. fs[i] \in AnyFrame
        BY <3>1, ElementOfSeq
      <4> QED BY <3>1, <4>1 DEF AnyFrame
    <3> QED BY <1>7, <3>1, <3>2
  <2>4. CASE k <= Len(labels) /\ i = Len(fs) + 1
    <3>1. k \in 1 .. Len(labels) /\ ms[k] = labels[k] /\ gs[i] = f
      BY <1>1, <1>2, <2>4
    <3>2. labels[k].id < br /\ labels[k].id \in Int
      BY <1>3, <3>1
    <3> QED BY <1>7, <3>1, <3>2
  <2> QED BY <1>1, <1>2, <2>1, <2>2, <2>3, <2>4
<1>8. ASSUME Fresh(labels, fs), NEW k \in 1 .. Len(ms)
      PROVE  \E i \in 1 .. Len(gs) : ms[k].id = gs[i].id
  <2>1. CASE k = Len(labels) + 1
    BY <1>1, <1>2, <2>1
  <2>2. CASE k <= Len(labels)
    <3>1. PICK i \in 1 .. Len(fs) : labels[k].id = fs[i].id
      BY <1>2, <1>8, <2>2 DEF Fresh
    <3> QED BY <1>1, <1>2, <2>2, <3>1
  <2> QED BY <1>2, <2>1, <2>2
<1> QED BY <1>4, <1>5, <1>6, <1>7, <1>8 DEF LabelsMatch, Fresh, ms, gs

(* A construct of another kind begins.                                     *)
LEMMA LabelsPushOther ==
  ASSUME NEW labels \in Seq(AnyLabel), NEW kind,
         NEW fs \in Seq(AnyFrame), NEW f \in AnyFrame, NEW br \in Nat, NEW br2 \in {br, br + 1},
         LabelsMatch(labels, kind, fs, br), f.kind /= kind, f.id \in {None, br}
  PROVE  /\ LabelsMatch(labels, kind, Append(fs, f), br2)
         /\ Fresh(labels, fs) => Fresh(labels, Append(fs, f))
<1> DEFINE gs == Append(fs, f)
<1>1. /\ Len(fs) \in Nat /\ Len(gs) = Len(fs) + 1 /\ gs \in Seq(AnyFrame)
      /\ \A i \in 1 .. Len(fs) : gs[i] = fs[i]
      /\ gs[Len(fs) + 1] = f
  BY Pushing
<1> HIDE DEF gs
<1>2. \A k \in 1 .. Len(labels) : 0 <= labels[k].id /\ labels[k].id < br /\ labels[k].id \in Int
  <2>1. \A k \in 1 .. Len(labels) : labels[k] \in AnyLabel
    BY ElementOfSeq
  <2> QED BY <2>1 DEF LabelsMatch, AnyLabel
<1>3. \A k \in 1 .. Len(labels) : 0 <= labels[k].id /\ labels[k].id < br2
  BY <1>2
<1>4. ASSUME NEW i \in 1 .. Len(gs), gs[i].kind = kind
      PROVE  \E k \in 1 .. Len(labels) : labels[k].id = gs[i].id
  BY <1>1, <1>4 DEF LabelsMatch
<1>5. ASSUME NEW k \in 1 .. Len(labels), NEW i \in 1 .. Len(gs), labels[k].id = gs[i].id
      PROVE  gs[i].kind = kind /\ gs[i].sf = labels[k].sf /\ gs[i].name = labels[k].name
  <2>1. i /= Len(fs) + 1
    BY <1>1, <1>2, <1>5 DEF None
  <2>2. i \in 1 .. Len(fs) /\ gs[i] = fs[i]
    BY <1>1, <2>1
  <2> QED BY <1>5, <2>2 DEF LabelsMatch
<1>6. Fresh(labels, fs) => Fresh(labels, gs)
  BY <1>1 DEF Fresh
<1> QED BY <1>3, <1>4, <1>5, <1>6 DEF LabelsMatch, gs

(* A construct ends and the labels stay; no label is left behind when the  *)
(* construct is of another kind.                                           *)
LEMMA LabelsPop ==
  ASSUME NEW labels \in Seq(AnyLabel), NEW kind, NEW fs \in Seq(AnyFrame), fs /= <<>>, NEW br,
         LabelsMatch(labels, kind, fs, br)
  PROVE  /\ LabelsMatch(labels, kind, Front(fs), br)
         /\ Last(fs).kind /= kind /\ Fresh(labels, fs) => Fresh(labels, Front(fs))
<1> DEFINE gs == Front(fs)
<1>1. /\ Len(fs) \in Nat \ {0} /\ Len(gs) = Len(fs) - 1
      /\ \A i \in 1 .. Len(fs) - 1 : gs[i] = fs[i]
      /\ Last(fs) = fs[Len(fs)]
  BY Popping
<1> HIDE DEF gs
<1>2. LabelsMatch(labels, kind, gs, br)
  BY <1>1 DEF LabelsMatch
<1>3. ASSUME Last(fs).kind /= kind, Fresh(labels, fs), NEW k \in 1 .. Len(labels)
      PROVE  \E i \in 1 .. Len(gs) : labels[k].id = gs[i].id
  <2>1. PICK i \in 1 .. Len(fs) : labels[k].id = fs[i].id
    BY <1>3 DEF Fresh
  <2>2. i /= Len(fs)
    BY <1>1, <1>3, <2>1 DEF LabelsMatch
  <2> QED BY <1>1, <2>1, <2>2
<1> QED BY <1>2, <1>3 DEF Fresh, gs

(* A construct of the labels' kind ends and the last label is dropped. The *)
(* label dropped is the construct's own when no label was left behind;     *)
(* numbers grow, so it never is one of a construct that stays open.        *)
LEMMA LabelsPopBoth ==
  ASSUME NEW labels \in Seq(AnyLabel), NEW kind \in {"block", "while"},
         NEW fs \in Seq(AnyFrame), fs /= <<>>, NEW pos, NEW br,
         LabelsMatch(labels, kind, fs, br), Nested(fs, pos, br), Last(fs).kind = kind
  PROVE  /\ labels /= <<>>
         /\ LabelsMatch(Front(labels), kind, Front(fs), br)
         /\ Fresh(labels, fs) =>
              Fresh(Front(labels), Front(fs)) /\ Last(labels).id = Last(fs).id
<1> DEFINE gs == Front(fs)
           ms == Front(labels)
<1>1. /\ Len(fs) \in Nat \ {0} /\ Len(gs) = Len(fs) - 1
      /\ \A i \in 1 .. Len(fs) - 1 : gs[i] = fs[i]
      /\ Last(fs) = fs[Len(fs)]
  BY Popping
<1>2. PICK top \in 1 .. Len(labels) : labels[top].id = fs[Len(fs)].id
  BY <1>1 DEF LabelsMatch
<1>3. labels /= <<>>
  BY <1>2, EmptySeq
<1>4. /\ Len(labels) \in Nat \ {0} /\ Len(ms) = Len(labels) - 1
      /\ \A i \in 1 .. Len(labels) - 1 : ms[i] = labels[i]
      /\ Last(labels) = labels[Len(labels)]
  BY <1>3, Popping
<1> HIDE DEF gs, ms
<1>5. \A k \in 1 .. Len(labels) : labels[k].id \in Int
  <2>1. \A k \in 1 .. Len(labels) : labels[k] \in AnyLabel
    BY ElementOfSeq
  <2> QED BY <2>1 DEF AnyLabel
<1>6. \A k, m \in 1 .. Len(labels) : k < m => labels[k].id < labels[m].id
  BY DEF LabelsMatch
<1>7. ASSUME NEW i \in 1 .. Len(fs) - 1, fs[i].kind = kind
      PROVE  \E k \in 1 .. Len(labels) - 1 : labels[k].id = fs[i].id
  <2>1. PICK k \in 1 .. Len(labels) : labels[k].id = fs[i].id
    BY <1>1, <1>7 DEF LabelsMatch
  <2>2. i \in 1 .. Len(fs) /\ Len(fs) \in 1 .. Len(fs) /\ i < Len(fs)
    BY <1>1
  <2>3. fs[i].id < fs[Len(fs)].id
    <3>1. Sound(fs[i]) /\ Sound(fs[Len(fs)]) /\ fs[Len(fs)].kind = kind
      BY <1>1, <2>2 DEF Nested
    <3>2. fs[i].id /= None /\ fs[Len(fs)].id /= None
      BY <1>7, <3>1 DEF Sound
    <3> QED BY <2>2, <3>2 DEF Nested
  <2>4. labels[k].id < labels[top].id
    BY <1>2, <2>1, <2>3
  <2>5. k < top
    BY <1>4, <1>5, <1>6, <2>4
  <2> QED BY <1>4, <2>1, <2>5
<1>8. LabelsMatch(ms, kind, gs, br)
  <2>1. \A k \in 1 .. Len(ms) : 0 <= ms[k].id /\ ms[k].id < br
    BY <1>4 DEF LabelsMatch
  <2>2. ASSUME NEW k \in 1 .. Len(ms), NEW m \in 1 .. Len(ms), k < m
        PROVE  ms[k].id < ms[m].id
    <3>1. /\ k \in 1 .. Len(labels) /\ ms[k] = labels[k]
          /\ m \in 1 .. Len(labels) /\ ms[m] = labels[m]
      BY <1>4
    <3> QED BY <1>6, <2>2, <3>1
  <2>3. ASSUME NEW i \in 1 .. Len(gs), gs[i].kind = kind
        PROVE  \E k \in 1 .. Len(ms) : ms[k].id = gs[i].id
    <3>1. PICK k \in 1 .. Len(labels) - 1 : labels[k].id = fs[i].id
      BY <1>1, <1>7, <2>3
    <3>2. k \in 1 .. Len(ms) /\ ms[k] = labels[k] /\ gs[i] = fs[i]
      BY <1>1, <1>4
    <3> QED BY <3>1, <3>2
  <2>4. ASSUME NEW k \in 1 .. Len(ms), NEW i \in 1 .. Len(gs), ms[k].id = gs[i].id
        PROVE  gs[i].kind = kind /\ gs[i].sf = ms[k].sf /\ gs[i].name = ms[k].name
    <3>1. k \in 1 .. Len(labels) /\ i \in 1 .. Len(fs) /\ ms[k] = labels[k] /\ gs[i] = fs[i]
      BY <1>1, <1>4
    <3> QED BY <2>4, <3>1 DEF LabelsMatch
  <2> QED BY <2>1, <2>2, <2>3, <2>4 DEF LabelsMatch
<1>9. ASSUME Fresh(labels, fs), NEW k \in 1 .. Len(labels)
      PROVE  \/ k < top /\ \E i \in 1 .. Len(gs) : labels[k].id = gs[i].id
             \/ k = top
  <2>1. PICK i \in 1 .. Len(fs) : labels[k].id = fs[i].id
    BY <1>9 DEF Fresh
  <2>2. CASE i = Len(fs)
    BY <1>2, <1>4, <1>5, <1>6, <2>1, <2>2
  <2>3. CASE i < Len(fs)
    <3>1. i \in 1 .. Len(gs) /\ gs[i] = fs[i] /\ Len(fs) \in 1 .. Len(fs)
      BY <1>1, <2>3
    <3>2. Sound(fs[i]) /\ Sound(fs[Len(fs)]) /\ fs[i].kind = kind /\ fs[Len(fs)].kind = kind
      BY <1>1, <2>1, <3>1 DEF Nested, LabelsMatch
    <3>3. fs[i].id /= None /\ fs[Len(fs)].id /= None
      BY <3>2 DEF Sound
    <3>4. fs[i].id < fs[Len(fs)].id
      BY <2>3, <3>1, <3>3 DEF Nested
    <3>5. k < top
      BY <1>2, <1>4, <1>5, <1>6, <2>1, <3>4
    <3> QED BY <2>1, <3>1, <3>5
  <2> QED BY <1>1, <2>2, <2>3
<1>10. ASSUME Fresh(labels, fs)
       PROVE  Fresh(ms, gs) /\ Last(labels).id = Last(fs).id
  <2>1. top = Len(labels)
    BY <1>4, <1>9, <1>10
  <2>2. ASSUME NEW k \in 1 .. Len(ms)
        PROVE  \E i \in 1 .. Len(gs) : ms[k].id = gs[i].id
    <3>1. k \in 1 .. Len(labels) /\ k /= top /\ ms[k] = labels[k]
      BY <1>4, <2>1
    <3> QED BY <1>9, <1>10, <3>1
  <2> QED BY <1>1, <1>2, <1>4, <2>1, <2>2 DEF Fresh
<1> QED BY <1>3, <1>8, <1>10 DEF gs, ms

(* The labels look at fields that a change of phase leaves alone.          *)
LEMMA LabelsTop ==
  ASSUME NEW labels, NEW kind, NEW fs, NEW gs, NEW br,
         LabelsMatch(labels, kind, fs, br), Len(gs) = Len(fs),
         \A i \in 1 .. Len(fs) : /\ gs[i].kind = fs[i].kind /\ gs[i].id = fs[i].id
                                /\ gs[i].sf = fs[i].sf /\ gs[i].name = fs[i].name
  PROVE  LabelsMatch(labels, kind, gs, br) /\ (Fresh(labels, fs) => Fresh(labels, gs))
BY DEF LabelsMatch, Fresh

(* The type a label learns does not matter.                                *)
LEMMA LabelsTyped ==
  ASSUME NEW labels, NEW ms, NEW kind, NEW fs, NEW br,
         LabelsMatch(labels, kind, fs, br), Len(ms) = Len(labels),
         \A k \in 1 .. Len(labels) : /\ ms[k].id = labels[k].id /\ ms[k].sf = labels[k].sf
                                    /\ ms[k].name = labels[k].name
  PROVE  LabelsMatch(ms, kind, fs, br) /\ (Fresh(labels, fs) => Fresh(ms, fs))
BY DEF LabelsMatch, Fresh

(* Jumps that wait for their labels, when a construct begins,              *)
LEMMA JumpsPush ==
  ASSUME NEW j, NEW fs \in Seq(AnyFrame), NEW f \in AnyFrame,
         NEW br \in Nat, NEW br2 \in {br, br + 1},
         JumpMatches(j, fs, br), f.id \in {None, br}
  PROVE  JumpMatches(j, Append(fs, f), br2)
<1> DEFINE gs == Append(fs, f)
<1>1. /\ Len(fs) \in Nat /\ Len(gs) = Len(fs) + 1
      /\ \A i \in 1 .. Len(fs) : gs[i] = fs[i]
      /\ gs[Len(fs) + 1] = f
  BY Pushing
<1> HIDE DEF gs
<1>2. j.depth \in Positions /\ j.to \in 0 .. br - 1 /\ j.to \in 0 .. br2 - 1
  BY DEF JumpMatches
<1>3. ASSUME NEW i \in 1 .. Len(gs), gs[i].id = j.to
      PROVE  j.depth = gs[i].sf
  <2>1. i /= Len(fs) + 1
    BY <1>1, <1>2, <1>3 DEF None
  <2>2. i \in 1 .. Len(fs) /\ gs[i] = fs[i]
    BY <1>1, <2>1
  <2> QED BY <1>3, <2>2 DEF JumpMatches
<1>4. ASSUME Plain
      PROVE  /\ \E i \in 1 .. Len(gs) : gs[i].id = j.to /\ gs[i].kind \in {"block", "if", "while"}
             /\ j.from = gs[1].id
  <2>1. PICK i \in 1 .. Len(fs) : fs[i].id = j.to /\ fs[i].kind \in {"block", "if", "while"}
    BY <1>4 DEF JumpMatches
  <2>2. i \in 1 .. Len(gs) /\ gs[i] = fs[i] /\ gs[1] = fs[1]
    BY <1>1
  <2> QED BY <1>4, <2>1, <2>2 DEF JumpMatches
<1> QED BY <1>2, <1>3, <1>4 DEF JumpMatches, gs

(* when the innermost construct ends and the jumps to it have landed,      *)
LEMMA JumpsPop ==
  ASSUME NEW j, NEW fs \in Seq(AnyFrame), fs /= <<>>, NEW br,
         JumpMatches(j, fs, br),
         j.to /= Last(fs).id \/ Last(fs).kind \notin {"block", "if", "while"}
  PROVE  JumpMatches(j, Front(fs), br)
<1> DEFINE gs == Front(fs)
<1>1. /\ Len(fs) \in Nat \ {0} /\ Len(gs) = Len(fs) - 1
      /\ \A i \in 1 .. Len(fs) - 1 : gs[i] = fs[i]
      /\ Last(fs) = fs[Len(fs)]
  BY Popping
<1> HIDE DEF gs
<1>2. ASSUME NEW i \in 1 .. Len(gs), gs[i].id = j.to
      PROVE  j.depth = gs[i].sf
  <2>1. i \in 1 .. Len(fs) /\ gs[i] = fs[i]
    BY <1>1
  <2> QED BY <1>2, <2>1 DEF JumpMatches
<1>3. ASSUME Plain
      PROVE  /\ \E i \in 1 .. Len(gs) : gs[i].id = j.to /\ gs[i].kind \in {"block", "if", "while"}
             /\ j.from = gs[1].id
  <2>1. PICK i \in 1 .. Len(fs) : fs[i].id = j.to /\ fs[i].kind \in {"block", "if", "while"}
    BY <1>3 DEF JumpMatches
  <2>2. i /= Len(fs)
    BY <1>1, <2>1
  <2>3. i \in 1 .. Len(gs) /\ gs[i] = fs[i] /\ gs[1] = fs[1]
    BY <1>1, <2>2
  <2> QED BY <1>3, <2>1, <2>3 DEF JumpMatches
<1> QED BY <1>2, <1>3 DEF JumpMatches, gs

(* and when it goes on to another phase.                                   *)
LEMMA JumpsTop ==
  ASSUME NEW j, NEW fs, NEW gs, NEW br, JumpMatches(j, fs, br), Len(gs) = Len(fs),
         Len(fs) \in Nat,
         \A i \in 1 .. Len(fs) :
            gs[i].kind = fs[i].kind /\ gs[i].id = fs[i].id /\ gs[i].sf = fs[i].sf
  PROVE  JumpMatches(j, gs, br)
<1>1. ASSUME Plain
      PROVE  /\ \E i \in 1 .. Len(gs) : gs[i].id = j.to /\ gs[i].kind \in {"block", "if", "while"}
             /\ j.from = gs[1].id
  <2>1. PICK i \in 1 .. Len(fs) : fs[i].id = j.to /\ fs[i].kind \in {"block", "if", "while"}
    BY <1>1 DEF JumpMatches
  <2>2. 1 \in 1 .. Len(fs)
    BY <2>1
  <2>3. gs[1].id = fs[1].id
    BY <2>2
  <2> QED BY <1>1, <2>1, <2>3 DEF JumpMatches
<1> QED BY <1>1 DEF JumpMatches

(* Only the first frame may be a function: when a construct begins,        *)
LEMMA OneFunctionPush ==
  ASSUME NEW fs \in Seq(AnyFrame), NEW f \in AnyFrame, OneFunction(fs),
         f.kind /= "function" \/ fs = <<>>
  PROVE  OneFunction(Append(fs, f))
<1> DEFINE gs == Append(fs, f)
<1>1. /\ Len(fs) \in Nat /\ Len(gs) = Len(fs) + 1
      /\ \A i \in 1 .. Len(fs) : gs[i] = fs[i]
      /\ gs[Len(fs) + 1] = f
  BY Pushing
<1>2. fs = <<>> => Len(fs) = 0
  BY EmptySeq
<1> HIDE DEF gs
<1>3. ASSUME NEW i \in 1 .. Len(gs), gs[i].kind = "function"
      PROVE  i = 1
  <2>1. CASE i = Len(fs) + 1
    BY <1>1, <1>2, <1>3, <2>1
  <2>2. CASE i \in 1 .. Len(fs)
    BY <1>1, <1>3, <2>2 DEF OneFunction
  <2> QED BY <1>1, <2>1, <2>2
<1> QED BY <1>3 DEF OneFunction, gs

(* and when one ends.                                                      *)
LEMMA OneFunctionPop ==
  ASSUME NEW fs \in Seq(AnyFrame), fs /= <<>>, OneFunction(fs)
  PROVE  OneFunction(Front(fs))
<1> DEFINE gs == Front(fs)
<1>1. /\ Len(fs) \in Nat \ {0} /\ Len(gs) = Len(fs) - 1
      /\ \A i \in 1 .. Len(fs) - 1 : gs[i] = fs[i]
  BY Popping
<1> HIDE DEF gs
<1>2. ASSUME NEW i \in 1 .. Len(gs), gs[i].kind = "function"
      PROVE  i = 1
  <2>1. i \in 1 .. Len(fs) /\ gs[i] = fs[i]
    BY <1>1
  <2> QED BY <1>2, <2>1 DEF OneFunction
<1> QED BY <1>2 DEF OneFunction, gs

(* A set of indices has a greatest element, and Max is that element.       *)
LEMMA MaxOf ==
  ASSUME NEW n \in Nat, NEW S, S \subseteq 1 .. n, S /= {}
  PROVE  Max(S) \in S /\ \A y \in S : Max(S) >= y
<1> DEFINE R == OpToRel(<, Nat)
           T == {n - x : x \in S}
<1>1. IsWellFoundedOn(R, Nat)
  BY NatLessThanWellFounded
<1>2. \A x, y \in Nat : x < y => <<x, y>> \in R
  BY DEF OpToRel
<1>3. T \subseteq Nat /\ T /= {}
  <2>1. \A x \in S : n - x \in Nat
    OBVIOUS
  <2> QED BY <2>1
<1> HIDE DEF R, T
<1>4. PICK m \in T : \A y \in T : ~(<<y, m>> \in R)
  BY <1>1, <1>3, WFMin
<1>5. \A y \in T : m <= y
  <2>1. \A y \in T : ~(y < m)
    BY <1>2, <1>3, <1>4
  <2> QED BY <1>3, <2>1
<1>6. PICK x \in S : m = n - x
  BY <1>4 DEF T
<1>7. ASSUME NEW y \in S
      PROVE  x >= y
  <2>1. n - y \in T
    BY DEF T
  <2>2. n - x <= n - y
    BY <1>5, <1>6, <2>1
  <2>3. x \in Int /\ y \in Int
    OBVIOUS
  <2> QED BY <2>2, <2>3
<1>8. \E z \in S : \A y \in S : z >= y
  BY <1>7
<1> QED BY <1>8 DEF Max

(***************************************************************************)
(* What the type invariant gives.                                          *)
(***************************************************************************)
(* The assumption on the constants, for the family at hand.                *)
LEMMA Bounds ==
  ASSUME family \in Families
  PROVE  /\ MaxWidth \in Nat \ {0}
         /\ family.parameters \in Nat /\ family.words \in Nat
         /\ family.nest \in Nat /\ family.constructs \in Nat
         /\ family.kinds \subseteq Kinds
BY CompileScopesAssumption DEF Kinds

(* The sets the family bounds are the same after a step.                   *)
LEMMA SetsStay ==
  ASSUME UNCHANGED family
  PROVE  /\ FrameRecords' = FrameRecords /\ Labels' = Labels /\ Variables' = Variables
         /\ Positions' = Positions /\ Ids' = Ids /\ Plain' = Plain
BY DEF FrameRecords, Labels, Variables, Positions, Ids, Plain

(* The types of the state lie in the looser ones.                          *)
LEMMA Loosely ==
  ASSUME family \in Families
  PROVE  /\ Positions \subseteq Int /\ Variables \subseteq Seq(AnyVariable)
         /\ FrameRecords \subseteq AnyFrame
         /\ Seq(FrameRecords) \subseteq Seq(AnyFrame)
         /\ Labels \subseteq Seq(AnyLabel)
<1>1. Positions \subseteq Int /\ Types \subseteq Int /\ Ids \subseteq Int /\ None \in Int /\ Dead \in Int
      /\ 0 .. family.words \subseteq Int
  BY Bounds DEF Positions, Types, Ids, None, Dead
<1>2. [phase : Positions, size : Types] \subseteq AnyVariable
  BY <1>1 DEF AnyVariable
<1>3. \A S, T : S \subseteq T => Seq(S) \subseteq Seq(T)
  OBVIOUS
<1>4. Variables \subseteq Seq(AnyVariable)
  BY <1>2, <1>3 DEF Variables
<1>5. FrameRecords \subseteq AnyFrame
  BY <1>1, <1>4 DEF FrameRecords, AnyFrame
<1>6. [name : Names \cup {NoName}, id : Ids, sf : Positions, type : Types \cup {None}] \subseteq AnyLabel
  BY <1>1 DEF AnyLabel
<1>7. Labels \subseteq Seq(AnyLabel)
  BY <1>3, <1>6 DEF Labels
<1> QED BY <1>1, <1>3, <1>4, <1>5, <1>7

(***************************************************************************)
(* The steps of the walk.                                                  *)
(***************************************************************************)
(* The state's types, as the lemmas on sequences take them.                *)
LEMMA ScopesFacts ==
  ASSUME ScopesInv
  PROVE  /\ frames \in Seq(AnyFrame) /\ frames \in Seq(FrameRecords)
         /\ variables \in Seq(AnyVariable) /\ variables \in Variables
         /\ block_labels \in Seq(AnyLabel) /\ loop_labels \in Seq(AnyLabel)
         /\ sf_pos \in Int /\ sf_pos \in Positions /\ branch \in Nat
         /\ Len(frames) \in Nat
         /\ \A i \in 1 .. Len(frames) : frames[i].id \in Int /\ frames[i].id < branch
<1>1. family \in Families /\ frames \in Seq(FrameRecords) /\ variables \in Variables
      /\ block_labels \in Labels /\ loop_labels \in Labels /\ sf_pos \in Positions
      /\ branch \in 0 .. family.constructs
  BY DEF ScopesInv, WellTyped
<1>2. frames \in Seq(AnyFrame) /\ variables \in Seq(AnyVariable) /\ sf_pos \in Int
      /\ block_labels \in Seq(AnyLabel) /\ loop_labels \in Seq(AnyLabel)
  BY <1>1, Loosely
<1>3. branch \in Nat
  BY <1>1, Bounds
<1>4. \A i \in 1 .. Len(frames) : frames[i] \in AnyFrame /\ frames[i].id < branch
  BY <1>2, ElementOfSeq DEF ScopesInv, Nested
<1> QED BY <1>1, <1>2, <1>3, <1>4, LenProperties DEF AnyFrame

(* The invariant of the next state, part by part.                          *)
LEMMA Restored ==
  ASSUME ScopesInv, UNCHANGED family,
         status' \in {"running", "rejected"},
         frames' \in Seq(FrameRecords), Len(frames') <= family.nest,
         \A i \in 1 .. Len(frames') : frames'[i].kind \in family.kinds,
         value' \in Types \cup {None}, variables' \in Variables,
         block_labels' \in Labels, loop_labels' \in Labels, sf_pos' \in Positions,
         branch' \in 0 .. family.constructs, at' \in {Dead, sf_pos'},
         Nested(frames', sf_pos', branch'),
         "lambda" \notin family.kinds => OneFunction(frames'),
         Layout(frames', variables', sf_pos'),
         LabelsMatch(block_labels', "block", frames', branch'), Fresh(block_labels', frames'),
         LabelsMatch(loop_labels', "while", frames', branch'),
         ~family.onesided => Fresh(loop_labels', frames'),
         \A j \in jumps' : JumpMatches(j, frames', branch')
  PROVE  ScopesInv'
<1>1. WellTyped'
  BY SetsStay DEF ScopesInv, WellTyped
<1>2. \A j \in jumps' : JumpMatches(j, frames, branch)'
  BY SetsStay DEF JumpMatches
<1>3. Balanced'
  BY DEF Balanced
<1> QED BY <1>1, <1>2, <1>3 DEF ScopesInv

(* A construct begins: the frame f is pushed, with a label when it is a    *)
(* block or a loop.                                                        *)
LEMMA PushKeeps ==
  ASSUME ScopesInv, UNCHANGED <<family, status, value, jumps>>,
         NEW f \in FrameRecords, f.kind \in family.kinds, Sound(f), f.words = 0,
         f.sf = sf_pos, f.id \in {None, branch}, f.id < branch',
         f.kind \in {"function", "block"} => f.vars = variables,
         frames = <<>> => f.kind = "function",
         f.kind = "function" => frames = <<>> \/ "lambda" \in family.kinds,
         Len(frames) < family.nest, frames' = Append(frames, f),
         branch' \in {branch, branch + 1}, branch' \in 0 .. family.constructs,
         variables' \in Variables, sf_pos' \in Positions, at' \in {Dead, sf_pos'},
         IF f.kind = "function" THEN Packed(variables', sf_pos')
         ELSE UNCHANGED <<variables, sf_pos>>,
         \/ f.kind /= "block" /\ UNCHANGED block_labels
         \/ /\ f.kind = "block" /\ f.id = branch /\ branch' = branch + 1
            /\ block_labels' = Append(block_labels, Label(f.name)),
         \/ f.kind /= "while" /\ UNCHANGED loop_labels
         \/ /\ f.kind = "while" /\ f.id = branch /\ branch' = branch + 1
            /\ loop_labels' = Append(loop_labels, Label(f.name))
  PROVE  ScopesInv'
<1> USE ScopesFacts
<1>1. family \in Families /\ Nested(frames, sf_pos, branch) /\ Layout(frames, variables, sf_pos)
      /\ LabelsMatch(block_labels, "block", frames, branch) /\ Fresh(block_labels, frames)
      /\ LabelsMatch(loop_labels, "while", frames, branch)
      /\ branch \in 0 .. family.constructs
  BY DEF ScopesInv, WellTyped
<1>2. f \in AnyFrame /\ variables' \in Seq(AnyVariable) /\ sf_pos' \in Int
  BY <1>1, Loosely
<1>3. /\ frames' \in Seq(FrameRecords) /\ Len(frames') <= family.nest
      /\ \A i \in 1 .. Len(frames') : frames'[i].kind \in family.kinds
  <2>1. /\ frames' \in Seq(FrameRecords) /\ Len(frames') = Len(frames) + 1
        /\ \A i \in 1 .. Len(frames) : frames'[i] = frames[i]
        /\ frames'[Len(frames) + 1] = f
    BY Pushing
  <2>2. \A i \in 1 .. Len(frames) : frames[i].kind \in family.kinds
    BY DEF ScopesInv, WellTyped
  <2>3. Len(frames') <= family.nest
    BY <1>1, <2>1, Bounds
  <2>4. ASSUME NEW i \in 1 .. Len(frames')
        PROVE  frames'[i].kind \in family.kinds
    <3>1. i \in 1 .. Len(frames) \/ i = Len(frames) + 1
      BY <2>1
    <3> QED BY <2>1, <2>2, <3>1
  <2> QED BY <2>1, <2>3, <2>4
<1>4. Nested(frames', sf_pos', branch')
  <2>1. f.kind \notin {"function", "block"} => sf_pos' = sf_pos - f.words
    OBVIOUS
  <2>2. frames \in Seq(AnyFrame) /\ sf_pos \in Int /\ branch \in Nat
    OBVIOUS
  <2>3. Nested(Append(frames, f), sf_pos', branch')
    BY ONLY <1>1, <1>2, <2>1, <2>2, Sound(f), f.sf = sf_pos, f.id \in {None, branch}, f.id < branch',
            branch' \in {branch, branch + 1}, frames = <<>> => f.kind = "function", NestedPush
  <2> QED BY <2>3
<1>5. Layout(frames', variables', sf_pos')
  BY <1>1, <1>2, LayoutPush
<1>6. ASSUME "lambda" \notin family.kinds
      PROVE  OneFunction(frames')
  <2>1. OneFunction(frames)
    BY <1>6 DEF ScopesInv
  <2> QED BY <1>2, <1>6, <2>1, OneFunctionPush
<1>7. Label(f.name) \in AnyLabel /\ (f.id = branch /\ branch' = branch + 1 =>
        Label(f.name) \in [name : Names \cup {NoName}, id : Ids, sf : Positions, type : Types \cup {None}])
  <2>1. f.name \in Names \cup {NoName} /\ None \in Int /\ Positions \subseteq Int
    BY <1>1, Loosely DEF FrameRecords, None
  <2>2. branch' = branch + 1 => branch \in Ids
    BY <1>1, Bounds DEF Ids
  <2> QED BY <2>1, <2>2 DEF Label, AnyLabel
<1>8. /\ block_labels' \in Labels
      /\ LabelsMatch(block_labels', "block", frames', branch') /\ Fresh(block_labels', frames')
  <2>1. CASE UNCHANGED block_labels /\ f.kind /= "block"
    <3>1. block_labels' \in Labels
      BY <2>1 DEF ScopesInv, WellTyped
    <3> QED BY <1>1, <1>2, <2>1, <3>1, LabelsPushOther
  <2>2. CASE /\ f.kind = "block" /\ f.id = branch /\ branch' = branch + 1
             /\ block_labels' = Append(block_labels, Label(f.name))
    <3>1. block_labels \in Labels
      BY DEF ScopesInv, WellTyped
    <3>2. block_labels' \in Labels
      BY <1>7, <2>2, <3>1, AppendProperties DEF Labels
    <3>3. /\ Label(f.name).id = branch /\ Label(f.name).sf = f.sf
          /\ Label(f.name).name = f.name
      BY DEF Label
    <3>4. block_labels \in Seq(AnyLabel) /\ frames \in Seq(AnyFrame) /\ branch \in Nat
          /\ \A i \in 1 .. Len(frames) : frames[i].id < branch
      OBVIOUS
    <3>5. LabelsMatch(Append(block_labels, Label(f.name)), "block", Append(frames, f), branch + 1)
          /\ Fresh(Append(block_labels, Label(f.name)), Append(frames, f))
      BY ONLY <1>1, <1>2, <1>7, <2>2, <3>3, <3>4, LabelsPush
    <3> QED BY <2>2, <3>2, <3>5
  <2> QED BY <2>1, <2>2
<1>9. /\ loop_labels' \in Labels
      /\ LabelsMatch(loop_labels', "while", frames', branch')
      /\ ~family.onesided => Fresh(loop_labels', frames')
  <2>1. CASE UNCHANGED loop_labels /\ f.kind /= "while"
    <3>1. loop_labels' \in Labels /\ (~family.onesided => Fresh(loop_labels, frames))
      BY <2>1 DEF ScopesInv, WellTyped
    <3> QED BY <1>1, <1>2, <2>1, <3>1, LabelsPushOther
  <2>2. CASE /\ f.kind = "while" /\ f.id = branch /\ branch' = branch + 1
             /\ loop_labels' = Append(loop_labels, Label(f.name))
    <3>1. loop_labels \in Labels /\ (~family.onesided => Fresh(loop_labels, frames))
      BY DEF ScopesInv, WellTyped
    <3>2. loop_labels' \in Labels
      BY <1>7, <2>2, <3>1, AppendProperties DEF Labels
    <3>3. /\ Label(f.name).id = branch /\ Label(f.name).sf = f.sf
          /\ Label(f.name).name = f.name
      BY DEF Label
    <3>4. loop_labels \in Seq(AnyLabel) /\ frames \in Seq(AnyFrame) /\ branch \in Nat
          /\ \A i \in 1 .. Len(frames) : frames[i].id < branch
      OBVIOUS
    <3>5. LabelsMatch(Append(loop_labels, Label(f.name)), "while", Append(frames, f), branch + 1)
          /\ (Fresh(loop_labels, frames) =>
                Fresh(Append(loop_labels, Label(f.name)), Append(frames, f)))
      BY ONLY <1>1, <1>2, <1>7, <2>2, <3>3, <3>4, LabelsPush
    <3> QED BY <2>2, <3>1, <3>2, <3>5
  <2> QED BY <2>1, <2>2
<1>10. \A j \in jumps' : JumpMatches(j, frames', branch')
  <2>1. \A j \in jumps : JumpMatches(j, frames, branch)
    BY DEF ScopesInv
  <2> QED BY <1>1, <1>2, <2>1, JumpsPush
<1>11. status' \in {"running", "rejected"} /\ value' \in Types \cup {None}
  BY DEF ScopesInv, WellTyped
<1> QED BY <1>1, <1>3, <1>4, <1>5, <1>6, <1>8, <1>9, <1>10, <1>11, Restored

(* What the invariant says of the innermost construct.                     *)
LEMMA TopFacts ==
  ASSUME ScopesInv, frames /= <<>>
  PROVE  /\ Top \in FrameRecords /\ Top = frames[Len(frames)] /\ Len(frames) \in 1 .. Len(frames)
         /\ Top.kind \in family.kinds /\ Top.phase \in Phases
         /\ Top.name \in Names \cup {NoName} /\ Top.sf \in Positions
         /\ Top.vars \in Variables /\ Top.words \in 0 .. family.words
         /\ Top.at \in {Dead, Top.sf} /\ Top.type \in Types \cup {None} /\ Sound(Top)
         /\ Top.id \in Ids \cup {None} /\ Top.id < branch
         /\ Top.kind \notin {"function", "block"} => sf_pos = Top.sf - Top.words
<1>1. /\ frames \in Seq(FrameRecords) /\ Nested(frames, sf_pos, branch)
      /\ \A i \in 1 .. Len(frames) : frames[i].kind \in family.kinds
  BY DEF ScopesInv, WellTyped
<1>2. /\ Top \in FrameRecords /\ Top = frames[Len(frames)]
      /\ Len(frames) \in Nat \ {0}
  BY <1>1, Popping DEF Top
<1>3. Len(frames) \in 1 .. Len(frames)
  BY <1>2
<1>4. Sound(Top) /\ Top.id < branch /\ Top.kind \in family.kinds
  BY <1>1, <1>2, <1>3 DEF Nested
<1>5. Top.kind \notin {"function", "block"} => sf_pos = Top.sf - Top.words
  BY <1>1, <1>2 DEF Nested
<1>6. /\ Top.phase \in Phases
      /\ Top.name \in Names \cup {NoName} /\ Top.sf \in Positions
      /\ Top.vars \in Variables /\ Top.words \in 0 .. family.words
      /\ Top.type \in Types \cup {None} /\ Top.id \in Ids \cup {None}
  BY <1>2 DEF FrameRecords
<1>7. Top.at \in {Dead, Top.sf}
  BY <1>4 DEF Sound
<1> QED BY <1>2, <1>3, <1>4, <1>5, <1>6, <1>7

(* The innermost construct ends, and the jumps to it have landed. A one-   *)
(* sided loop may leave its label behind.                                  *)
LEMMA PopKeeps ==
  ASSUME ScopesInv, frames /= <<>>, UNCHANGED <<family, status, branch>>,
         frames' = Front(frames), sf_pos' = Top.sf,
         variables' = IF Top.kind \in {"function", "block"} THEN Top.vars ELSE variables,
         at' \in {Dead, sf_pos'}, value' \in Types \cup {None},
         jumps' \subseteq jumps,
         Top.kind \in {"block", "if", "while"} => \A j \in jumps' : j.to /= Top.id,
         block_labels' = IF Top.kind = "block" THEN Front(block_labels) ELSE block_labels,
         \/ loop_labels' = IF Top.kind = "while" THEN Front(loop_labels) ELSE loop_labels
         \/ family.onesided /\ UNCHANGED loop_labels
  PROVE  ScopesInv'
<1> USE ScopesFacts
<1>1. Nested(frames, sf_pos, branch) /\ Layout(frames, variables, sf_pos)
      /\ LabelsMatch(block_labels, "block", frames, branch) /\ Fresh(block_labels, frames)
      /\ LabelsMatch(loop_labels, "while", frames, branch)
      /\ family \in Families /\ branch \in 0 .. family.constructs
  BY DEF ScopesInv, WellTyped
<1>2. Top = Last(frames) /\ Top.words >= 0 /\ Top.sf \in Positions /\ Top.vars \in Variables
  BY TopFacts, <1>1, Bounds DEF Top
<1>3. /\ frames' \in Seq(FrameRecords) /\ Len(frames') <= family.nest
      /\ \A i \in 1 .. Len(frames') : frames'[i].kind \in family.kinds
  <2>1. /\ frames' \in Seq(FrameRecords)
        /\ Len(frames) \in Nat \ {0} /\ Len(frames') = Len(frames) - 1
        /\ \A i \in 1 .. Len(frames) - 1 : frames'[i] = frames[i]
    BY Popping
  <2>2. /\ \A i \in 1 .. Len(frames) : frames[i].kind \in family.kinds
        /\ Len(frames) <= family.nest
    BY DEF ScopesInv, WellTyped
  <2> QED BY <1>1, <2>1, <2>2, Bounds
<1>4. Nested(frames', sf_pos', branch')
  BY <1>1, <1>2, NestedPop
<1>5. Layout(frames', variables', sf_pos') /\ variables' \in Variables
  BY <1>1, <1>2, LayoutPop
<1>6. ASSUME "lambda" \notin family.kinds
      PROVE  OneFunction(frames')
  <2>1. OneFunction(frames)
    BY <1>6 DEF ScopesInv
  <2> QED BY <2>1, OneFunctionPop
<1>7. /\ block_labels' \in Labels
      /\ LabelsMatch(block_labels', "block", frames', branch') /\ Fresh(block_labels', frames')
  <2>1. block_labels \in Labels
    BY DEF ScopesInv, WellTyped
  <2>2. CASE Top.kind /= "block"
    BY <1>1, <1>2, <2>1, <2>2, LabelsPop
  <2>3. CASE Top.kind = "block"
    <3>1. /\ block_labels /= <<>>
          /\ LabelsMatch(Front(block_labels), "block", Front(frames), branch)
          /\ Fresh(Front(block_labels), Front(frames))
      BY <1>1, <1>2, <2>3, LabelsPopBoth
    <3>2. Front(block_labels) \in Labels
      BY <2>1, <3>1, Popping DEF Labels
    <3> QED BY <2>3, <3>1, <3>2
  <2> QED BY <2>2, <2>3
<1>8. /\ loop_labels' \in Labels
      /\ LabelsMatch(loop_labels', "while", frames', branch')
      /\ ~family.onesided => Fresh(loop_labels', frames')
  <2>1. loop_labels \in Labels /\ (~family.onesided => Fresh(loop_labels, frames))
    BY DEF ScopesInv, WellTyped
  <2>2. CASE UNCHANGED loop_labels /\ (Top.kind /= "while" \/ family.onesided)
    BY <1>1, <1>2, <2>1, <2>2, LabelsPop
  <2>3. CASE Top.kind = "while" /\ loop_labels' = Front(loop_labels)
    <3>1. /\ loop_labels /= <<>>
          /\ LabelsMatch(Front(loop_labels), "while", Front(frames), branch)
          /\ Fresh(loop_labels, frames) => Fresh(Front(loop_labels), Front(frames))
      BY <1>1, <1>2, <2>3, LabelsPopBoth
    <3>2. Front(loop_labels) \in Labels
      BY <2>1, <3>1, Popping DEF Labels
    <3> QED BY <2>1, <2>3, <3>1, <3>2
  <2> QED BY <2>2, <2>3
<1>9. \A j \in jumps' : JumpMatches(j, frames', branch')
  <2>1. \A j \in jumps' : JumpMatches(j, frames, branch)
    BY DEF ScopesInv
  <2>2. \A j \in jumps' : j.to /= Last(frames).id \/ Last(frames).kind \notin {"block", "if", "while"}
    BY <1>2
  <2> QED BY <2>1, <2>2, JumpsPop
<1>10. status' \in {"running", "rejected"}
  BY DEF ScopesInv, WellTyped
<1> QED BY <1>1, <1>2, <1>3, <1>4, <1>5, <1>6, <1>7, <1>8, <1>9, <1>10, Restored

(* The innermost construct goes on, and keeps n more words.                *)
LEMMA TopKeeps ==
  ASSUME ScopesInv, frames /= <<>>,
         UNCHANGED <<family, status, branch, variables, block_labels, loop_labels>>,
         NEW f \in FrameRecords, NEW n \in Nat, Sound(f),
         f.kind = Top.kind, f.id = Top.id, f.sf = Top.sf, f.name = Top.name, f.vars = Top.vars,
         f.words = Top.words + n, f.kind \notin {"function", "block"},
         frames' = ReplaceAt(frames, Len(frames), f),
         sf_pos' = sf_pos - n, sf_pos' \in Positions, at' \in {Dead, sf_pos'},
         value' \in Types \cup {None}, \A j \in jumps' : JumpMatches(j, frames, branch)
  PROVE  ScopesInv'
<1>0. /\ frames \in Seq(AnyFrame) /\ variables \in Seq(AnyVariable) /\ sf_pos \in Int
      /\ Len(frames) \in Nat /\ variables \in Variables
  BY ScopesFacts
<1>1. Nested(frames, sf_pos, branch) /\ Layout(frames, variables, sf_pos)
      /\ LabelsMatch(block_labels, "block", frames, branch) /\ Fresh(block_labels, frames)
      /\ LabelsMatch(loop_labels, "while", frames, branch)
      /\ family \in Families /\ branch \in 0 .. family.constructs
      /\ block_labels \in Labels /\ loop_labels \in Labels /\ status \in {"running", "rejected"}
      /\ (~family.onesided => Fresh(loop_labels, frames))
  BY DEF ScopesInv, WellTyped
<1>2. f \in AnyFrame /\ Top = Last(frames)
      /\ Top.sf \in Int /\ Top.words \in Int /\ sf_pos = Top.sf - Top.words
  <2>1. f \in AnyFrame /\ Positions \subseteq Int
    BY <1>1, Loosely
  <2>2. Top.words \in 0 .. family.words /\ Top.sf \in Positions /\ sf_pos = Top.sf - Top.words
    BY TopFacts
  <2>3. Top.words \in Int
    BY <1>1, <2>2, Bounds
  <2> QED BY <2>1, <2>2, <2>3 DEF Top
<1>3. /\ frames' \in Seq(FrameRecords)
      /\ Len(frames) \in Nat \ {0} /\ Len(frames') = Len(frames)
      /\ \A i \in 1 .. Len(frames) - 1 : frames'[i] = frames[i]
      /\ frames'[Len(frames)] = f
  <2>1. frames \in Seq(FrameRecords)
    BY ScopesFacts
  <2> DEFINE gs == ReplaceAt(frames, Len(frames), f)
  <2>2. /\ gs \in Seq(FrameRecords)
        /\ Len(frames) \in Nat \ {0} /\ Len(gs) = Len(frames)
        /\ \A i \in 1 .. Len(frames) - 1 : gs[i] = frames[i]
        /\ gs[Len(frames)] = f
    BY ONLY frames /= <<>>, f \in FrameRecords, <2>1, Replacing
  <2> QED BY <2>2
<1>4. ASSUME NEW i \in 1 .. Len(frames)
      PROVE  /\ frames'[i].kind = frames[i].kind /\ frames'[i].id = frames[i].id
             /\ frames'[i].sf = frames[i].sf /\ frames'[i].name = frames[i].name
  <2>1. CASE i = Len(frames)
    BY <1>3, <2>1, TopFacts
  <2>2. CASE i /= Len(frames)
    <3>1. i \in 1 .. Len(frames) - 1
      BY <1>3, <2>2
    <3> QED BY <1>3, <3>1
  <2> QED BY <2>1, <2>2
<1>5. /\ Len(frames') <= family.nest
      /\ \A i \in 1 .. Len(frames') : frames'[i].kind \in family.kinds
  BY <1>3, <1>4 DEF ScopesInv, WellTyped
<1>6. Nested(frames', sf_pos', branch')
  <2>1. sf_pos' = f.sf - f.words
    BY <1>2
  <2>2. f.kind = Last(frames).kind /\ f.id = Last(frames).id /\ f.sf = Last(frames).sf
    BY <1>2
  <2>3. Nested(ReplaceAt(frames, Len(frames), f), sf_pos', branch)
    BY <1>0, <1>1, <1>2, <2>1, <2>2, NestedTop
  <2> QED BY <2>3
<1>7. Layout(frames', variables', sf_pos')
  <2>1. /\ f.kind = Last(frames).kind /\ f.sf = Last(frames).sf
        /\ f.vars = Last(frames).vars /\ f.words = Last(frames).words + n
    BY <1>2
  <2>2. Layout(ReplaceAt(frames, Len(frames), f), variables, sf_pos - n)
    BY <1>0, <1>1, <1>2, <2>1, LayoutTop
  <2> QED BY <2>2
<1>8. "lambda" \notin family.kinds => OneFunction(frames')
  BY <1>3, <1>4 DEF ScopesInv, OneFunction
<1>9. /\ LabelsMatch(block_labels', "block", frames', branch') /\ Fresh(block_labels', frames')
      /\ LabelsMatch(loop_labels', "while", frames', branch')
      /\ ~family.onesided => Fresh(loop_labels', frames')
  <2>1. /\ LabelsMatch(block_labels, "block", frames', branch) /\ Fresh(block_labels, frames')
        /\ LabelsMatch(loop_labels, "while", frames', branch)
        /\ Fresh(loop_labels, frames) => Fresh(loop_labels, frames')
    BY <1>1, <1>3, <1>4, LabelsTop
  <2> QED BY <1>1, <2>1
<1>10. \A j \in jumps' : JumpMatches(j, frames', branch')
  <2>1. \A j \in jumps' : JumpMatches(j, frames', branch)
    BY <1>0, <1>3, <1>4, JumpsTop
  <2> QED BY <2>1
<1>11. branch' \in 0 .. family.constructs /\ variables' \in Variables
      /\ block_labels' \in Labels /\ loop_labels' \in Labels /\ status' \in {"running", "rejected"}
  BY <1>0, <1>1
<1> QED BY <1>11, <1>3, <1>5, <1>6, <1>7, <1>8, <1>9, <1>10, Restored

(* Without lambdas the function that is emitted is the first frame.        *)
LEMMA OnlyFunction ==
  ASSUME ScopesInv, Plain, frames /= <<>>
  PROVE  FunctionIndex = 1
<1>1. OneFunction(frames) /\ frames[1].kind = "function" /\ 1 \in 1 .. Len(frames)
  BY ScopesFacts, EmptySeq DEF ScopesInv, Plain, Nested
<1>2. {i \in 1 .. Len(frames) : frames[i].kind = "function"} = {1}
  BY <1>1 DEF OneFunction
<1>3. FunctionIndex = Max({1})
  BY <1>2 DEF FunctionIndex, SelectLastInSeq
<1>4. Max({1}) = 1
  BY DEF Max
<1> QED BY <1>3, <1>4

(* A jump emitted to an open construct, after the shift from where the     *)
(* stack pointer is to where the construct began.                          *)
LEMMA JumpMade ==
  ASSUME ScopesInv, frames /= <<>>, NEW label, NEW place, NEW size,
         label.sf \in Positions, label.id \in 0 .. branch - 1,
         \A i \in 1 .. Len(frames) : frames[i].id = label.id => frames[i].sf = label.sf,
         Plain => \E i \in 1 .. Len(frames) :
                    frames[i].id = label.id /\ frames[i].kind \in {"block", "if", "while"},
         Jump(label, place, size)
  PROVE  \A j \in jumps' : JumpMatches(j, frames, branch)
<1> DEFINE copied == Copy(label.sf - size, sf_pos - size, size)
           made == [to |-> label.id, place |-> place, from |-> Function,
                    depth |-> Shift(label.sf - sf_pos), words |-> copied]
<1>1. \A j \in jumps : JumpMatches(j, frames, branch)
  BY DEF ScopesInv
<1>2. CASE at = Dead
  BY <1>1, <1>2 DEF Jump
<1>3. CASE at /= Dead
  <2> HIDE DEF copied
  <2>1. jumps' = jumps \cup {made}
    BY <1>3 DEF Jump, copied
  <2>2. made.depth = label.sf
    <3>1. at = sf_pos /\ sf_pos \in Int /\ label.sf \in Int
      BY <1>3, ScopesFacts, Loosely DEF ScopesInv, Balanced, WellTyped
    <3> QED BY <1>3, <3>1 DEF Shift
  <2>3. Plain => made.from = frames[1].id
    BY OnlyFunction DEF Function
  <2>4. made.to = label.id
    OBVIOUS
  <2> HIDE DEF made
  <2>5. JumpMatches(made, frames, branch)
    BY <2>2, <2>3, <2>4 DEF JumpMatches
  <2> QED BY <1>1, <2>1, <2>5
<1> QED BY <1>2, <1>3

(* A lookup finds the last label that fits, or none does.                  *)
LEMMA FindLast ==
  ASSUME NEW labels, Len(labels) \in Nat, NEW name
  PROVE  LET i == Find(labels, name)
             Fit(k) == name = NoName \/ labels[k].name = name
         IN  /\ i \in 0 .. Len(labels)
             /\ i = 0 => \A k \in 1 .. Len(labels) : ~Fit(k)
             /\ i /= 0 => Fit(i) /\ \A k \in 1 .. Len(labels) : Fit(k) => k <= i
<1> DEFINE S == {k \in 1 .. Len(labels) : name = NoName \/ labels[k].name = name}
<1>1. Find(labels, name) = IF S /= {} THEN Max(S) ELSE 0
  BY DEF Find, SelectLastInSeq
<1>2. CASE S = {}
  BY <1>1, <1>2
<1>3. CASE S /= {}
  <2>1. S \subseteq 1 .. Len(labels)
    OBVIOUS
  <2>2. Max(S) \in S /\ \A y \in S : Max(S) >= y
    BY ONLY Len(labels) \in Nat, <1>3, <2>1, MaxOf
  <2>3. Max(S) \in 1 .. Len(labels) /\ \A y \in S : y <= Max(S)
    BY <2>1, <2>2
  <2> QED BY <1>1, <1>3, <2>2, <2>3
<1> QED BY <1>2, <1>3

(* Typed changes the type of a label and nothing else.                     *)
LEMMA TypedLabels ==
  ASSUME family \in Families, NEW labels \in Labels, NEW i \in 1 .. Len(labels), NEW t \in Types
  PROVE  /\ Typed(labels, i, t) \in Labels
         /\ Len(Typed(labels, i, t)) = Len(labels)
         /\ \A k \in 1 .. Len(labels) :
              /\ Typed(labels, i, t)[k].id = labels[k].id
              /\ Typed(labels, i, t)[k].sf = labels[k].sf
              /\ Typed(labels, i, t)[k].name = labels[k].name
<1> DEFINE L == [name : Names \cup {NoName}, id : Ids, sf : Positions, type : Types \cup {None}]
           l == [labels[i] EXCEPT !.type = t]
<1>1. labels \in Seq(L) /\ labels[i] \in L
  BY ElementOfSeq DEF Labels
<1>2. l \in L /\ l.id = labels[i].id /\ l.sf = labels[i].sf /\ l.name = labels[i].name
  BY <1>1
<1> HIDE DEF L, l
<1>3. Typed(labels, i, t) = [labels EXCEPT ![i] = l]
  BY DEF Typed, ReplaceAt, l
<1>4. /\ [labels EXCEPT ![i] = l] \in Seq(L)
      /\ Len([labels EXCEPT ![i] = l]) = Len(labels)
      /\ \A k \in 1 .. Len(labels) :
           [labels EXCEPT ![i] = l][k] = IF k = i THEN l ELSE labels[k]
  BY <1>1, <1>2
<1>5. Labels = Seq(L)
  BY DEF Labels, L
<1> QED BY <1>2, <1>3, <1>4, <1>5

(* Behind a construct's last label the stack pointer is where it began,    *)
(* whichever path leads there.                                             *)
LEMMA Lands ==
  ASSUME ScopesInv, frames /= <<>>, NEW above \in {Dead, Top.sf}
  PROVE  Landing(Top.id, above) \in {Dead, Top.sf}
<1> DEFINE here == {j \in jumps : j.to = Top.id /\ j.place = "end"}
<1>1. \A j \in here : j.depth = Top.sf
  BY TopFacts DEF ScopesInv, JumpMatches
<1>2. CASE above /= Dead \/ here = {}
  BY <1>2 DEF Landing
<1>3. CASE above = Dead /\ here /= {}
  <2>1. (CHOOSE j \in here : TRUE) \in here
    BY <1>3
  <2>2. Landing(Top.id, above) = (CHOOSE j \in here : TRUE).depth
    BY <1>3 DEF Landing
  <2> QED BY <1>1, <2>1, <2>2
<1> QED BY <1>2, <1>3

(* The jumps that still wait go elsewhere.                                 *)
LEMMA LandedElsewhere ==
  ASSUME NEW id
  PROVE  Landed(id) \subseteq jumps /\ \A j \in Landed(id) : j.to /= id
BY DEF Landed

(* The frame of a construct that begins here.                              *)
LEMMA NewFrame ==
  ASSUME ScopesInv, NEW kind \in Kinds, NEW phase \in Phases, NEW name \in Names \cup {NoName},
         NEW id \in Ids \cup {None}, NEW a \in {Dead, sf_pos}, NEW vs \in Variables,
         kind \in {"function", "block", "if", "while"} => id /= None, phase /= "right"
  PROVE  LET f == [kind |-> kind, phase |-> phase, name |-> name, id |-> id, sf |-> sf_pos,
                   at |-> a, vars |-> vs, words |-> 0, type |-> None]
         IN  f \in FrameRecords /\ Sound(f)
<1>1. /\ sf_pos \in Positions /\ a \in Positions \cup {Dead} /\ None \in Types \cup {None}
      /\ 0 \in 0 .. family.words
  BY Bounds DEF ScopesInv, WellTyped
<1> QED BY <1>1 DEF FrameRecords, Sound

(* The frames of constructs that put no variables aside.                   *)
LEMMA NoVariables == <<>> \in Variables
BY DEF Variables

(* The next number, while there may be another construct.                  *)
LEMMA NextId ==
  ASSUME ScopesInv, branch < family.constructs
  PROVE  /\ branch \in Ids /\ branch /= None /\ branch + 1 \in 0 .. family.constructs
         /\ branch < branch + 1
<1>1. branch \in 0 .. family.constructs /\ family.constructs \in Nat
  BY Bounds DEF ScopesInv, WellTyped
<1> QED BY <1>1 DEF Ids, None

(* The arguments of a function lie directly under its frame pointer.       *)
LEMMA Arguments ==
  ASSUME ScopesInv, NEW n \in Nat, n <= family.words
  PROVE  LET vs == [i \in 1 .. n |-> [phase |-> -i, size |-> 1]]
         IN  vs \in Variables /\ Packed(vs, -n) /\ -n \in Positions
<1> DEFINE vs == [i \in 1 .. n |-> [phase |-> -i, size |-> 1]]
<1>1. family.words \in Nat /\ MaxWidth \in Nat \ {0}
  BY Bounds DEF ScopesInv, WellTyped
<1>2. \A i \in 1 .. n : [phase |-> -i, size |-> 1] \in [phase : Positions, size : Types]
  BY <1>1 DEF Positions, Types
<1>3. vs \in Seq([phase : Positions, size : Types]) /\ Len(vs) = n
  BY <1>2
<1>4. \A i \in 1 .. n : vs[i].phase = -i /\ vs[i].size = 1
  OBVIOUS
<1> HIDE DEF vs
<1>5. Packed(vs, -n)
  BY <1>3, <1>4 DEF Packed
<1>6. -n \in Positions
  BY <1>1 DEF Positions
<1> QED BY <1>3, <1>5, <1>6 DEF Variables, vs

(* compile_function_signature puts variables and stack position aside.     *)
LEMMA FunctionBegins ==
  ASSUME ScopesInv, NEW n \in 0 .. family.parameters, FunctionBegin(n)
  PROVE  ScopesInv'
<1> DEFINE f == [Frame("function", "body", NoName) EXCEPT !.at = at, !.vars = variables]
<1>1. at \in {Dead, sf_pos} /\ variables \in Variables /\ n \in Nat
  BY Bounds DEF ScopesInv, WellTyped, Balanced
<1>2. /\ f.kind = "function" /\ f.sf = sf_pos /\ f.id = branch /\ f.vars = variables
      /\ f.words = 0
  BY DEF Frame
<1>3. f = [kind |-> "function", phase |-> "body", name |-> NoName, id |-> branch, sf |-> sf_pos,
           at |-> at, vars |-> variables, words |-> 0, type |-> None]
  <2> DEFINE g == [kind |-> "function", phase |-> "body", name |-> NoName, id |-> branch,
                   sf |-> sf_pos, at |-> at, vars |-> <<>>, words |-> 0, type |-> None]
  <2>1. f = [g EXCEPT !.vars = variables]
    <3>1. [Frame("function", "body", NoName) EXCEPT !.at = at] = g
      BY DEF Frame
    <3>2. f = [[Frame("function", "body", NoName) EXCEPT !.at = at] EXCEPT !.vars = variables]
      BY DEF Frame
    <3> HIDE DEF f, g
    <3> QED BY <3>1, <3>2
  <2>2. [g EXCEPT !.vars = variables] =
          [kind |-> "function", phase |-> "body", name |-> NoName, id |-> branch, sf |-> sf_pos,
           at |-> at, vars |-> variables, words |-> 0, type |-> None]
    OBVIOUS
  <2> HIDE DEF f, g
  <2> QED BY <2>1, <2>2
<1> HIDE DEF f
<1>4. Open(f) /\ n <= family.words /\ (frames = <<>> \/ "lambda" \in family.kinds)
  BY DEF FunctionBegin, f
<1>5. /\ branch \in Ids /\ branch /= None /\ branch + 1 \in 0 .. family.constructs
      /\ branch < branch + 1
  BY <1>4, NextId DEF Open
<1>6. f \in FrameRecords /\ Sound(f)
  BY <1>1, <1>3, <1>5, NewFrame DEF Kinds, Phases
<1>7. /\ variables' \in Variables /\ Packed(variables', sf_pos') /\ sf_pos' \in Positions
      /\ at' = sf_pos'
  BY <1>1, <1>4, Arguments, SetsStay DEF FunctionBegin
<1>8. UNCHANGED <<family, status, value, jumps, block_labels, loop_labels>>
  BY DEF FunctionBegin
<1> QED BY <1>2, <1>4, <1>5, <1>6, <1>7, <1>8, PushKeeps DEF Open

(* compile_block pushes a label and remembers how many variables there     *)
(* are.                                                                    *)
LEMMA BlockBegins ==
  ASSUME ScopesInv, NEW name \in Names \cup {NoName}, BlockBegin(name)
  PROVE  ScopesInv'
<1> DEFINE f == [Frame("block", "statements", name) EXCEPT !.vars = variables]
<1>1. at \in {Dead, sf_pos} /\ variables \in Variables /\ sf_pos \in Positions
  BY Bounds DEF ScopesInv, WellTyped, Balanced
<1>2. /\ f.kind = "block" /\ f.sf = sf_pos /\ f.id = branch /\ f.vars = variables
      /\ f.words = 0 /\ f.name = name
  BY DEF Frame
<1>3. f = [kind |-> "block", phase |-> "statements", name |-> name, id |-> branch, sf |-> sf_pos,
           at |-> Dead, vars |-> variables, words |-> 0, type |-> None]
  BY DEF Frame
<1> HIDE DEF f
<1>4. Open(f) /\ frames /= <<>>
  BY DEF BlockBegin, ExpressionNext, f
<1>5. /\ branch \in Ids /\ branch /= None /\ branch + 1 \in 0 .. family.constructs
      /\ branch < branch + 1
  BY <1>4, NextId DEF Open
<1>6. f \in FrameRecords /\ Sound(f)
  BY <1>1, <1>3, <1>5, NewFrame DEF Kinds, Phases
<1>7. /\ UNCHANGED <<family, status, value, jumps, loop_labels, variables, sf_pos, at>>
      /\ block_labels' = Append(block_labels, Label(f.name))
  BY <1>2 DEF BlockBegin
<1> QED BY <1>1, <1>2, <1>4, <1>5, <1>6, <1>7, PushKeeps DEF Open

(* compile_if.                                                             *)
LEMMA IfBegins ==
  ASSUME ScopesInv, IfBegin
  PROVE  ScopesInv'
<1> DEFINE f == Frame("if", "condition", NoName)
<1>1. at \in {Dead, sf_pos} /\ variables \in Variables /\ sf_pos \in Positions
  BY Bounds DEF ScopesInv, WellTyped, Balanced
<1>2. f = [kind |-> "if", phase |-> "condition", name |-> NoName, id |-> branch, sf |-> sf_pos,
           at |-> Dead, vars |-> <<>>, words |-> 0, type |-> None]
  BY DEF Frame
<1> HIDE DEF f
<1>3. Open(f) /\ frames /= <<>>
  BY DEF IfBegin, ExpressionNext, f
<1>4. /\ branch \in Ids /\ branch /= None /\ branch + 1 \in 0 .. family.constructs
      /\ branch < branch + 1
  BY <1>3, NextId DEF Open
<1>5. f \in FrameRecords /\ Sound(f)
  BY <1>2, <1>4, NewFrame, NoVariables DEF Kinds, Phases
<1>6. UNCHANGED <<family, status, value, jumps, block_labels, loop_labels, variables, sf_pos, at>>
  BY DEF IfBegin
<1>7. f.kind = "if" /\ f.sf = sf_pos /\ f.id = branch /\ f.words = 0
  BY <1>2
<1> QED BY <1>1, <1>3, <1>4, <1>5, <1>6, <1>7, PushKeeps DEF Open

(* compile_while pushes a label.                                           *)
LEMMA WhileBegins ==
  ASSUME ScopesInv, NEW name \in Names \cup {NoName}, WhileBegin(name)
  PROVE  ScopesInv'
<1> DEFINE f == Frame("while", "condition", name)
<1>1. at \in {Dead, sf_pos} /\ variables \in Variables /\ sf_pos \in Positions
  BY Bounds DEF ScopesInv, WellTyped, Balanced
<1>2. f = [kind |-> "while", phase |-> "condition", name |-> name, id |-> branch, sf |-> sf_pos,
           at |-> Dead, vars |-> <<>>, words |-> 0, type |-> None]
  BY DEF Frame
<1> HIDE DEF f
<1>3. Open(f) /\ frames /= <<>>
  BY DEF WhileBegin, ExpressionNext, f
<1>4. /\ branch \in Ids /\ branch /= None /\ branch + 1 \in 0 .. family.constructs
      /\ branch < branch + 1
  BY <1>3, NextId DEF Open
<1>5. f \in FrameRecords /\ Sound(f)
  BY <1>2, <1>4, NewFrame, NoVariables DEF Kinds, Phases
<1>6. f.kind = "while" /\ f.sf = sf_pos /\ f.id = branch /\ f.words = 0 /\ f.name = name
  BY <1>2
<1>7. /\ UNCHANGED <<family, status, value, jumps, block_labels, variables, sf_pos, at>>
      /\ loop_labels' = Append(loop_labels, Label(f.name))
  BY <1>6 DEF WhileBegin
<1> QED BY <1>1, <1>3, <1>4, <1>5, <1>6, <1>7, PushKeeps DEF Open

(* Operators, calls and aggregates begin without a number.                 *)
LEMMA Begins ==
  ASSUME ScopesInv, NEW kind \in {"operator", "call", "aggregate"}, NEW phase \in Phases \ {"right"},
         Begin(kind, phase)
  PROVE  ScopesInv'
<1> DEFINE f == [Frame(kind, phase, NoName) EXCEPT !.id = None]
<1>1. at \in {Dead, sf_pos} /\ variables \in Variables /\ sf_pos \in Positions
      /\ branch \in 0 .. family.constructs /\ None < branch
  BY Bounds DEF ScopesInv, WellTyped, Balanced, None
<1>2. f = [kind |-> kind, phase |-> phase, name |-> NoName, id |-> None, sf |-> sf_pos,
           at |-> Dead, vars |-> <<>>, words |-> 0, type |-> None]
  BY DEF Frame
<1> HIDE DEF f
<1>3. /\ f.kind \in family.kinds /\ Len(frames) < family.nest /\ frames' = Append(frames, f)
      /\ UNCHANGED branch /\ frames /= <<>>
  BY <1>2 DEF Begin, OpenPlain, ExpressionNext, f
<1>4. f \in FrameRecords /\ Sound(f)
  BY <1>2, NewFrame, NoVariables DEF Kinds
<1>5. f.kind = kind /\ f.sf = sf_pos /\ f.id = None /\ f.words = 0
  BY <1>2
<1>6. UNCHANGED <<family, status, value, jumps, block_labels, loop_labels, variables, sf_pos, at>>
  BY DEF Begin
<1> QED BY <1>1, <1>3, <1>4, <1>5, <1>6, PushKeeps

(* The components of the state that are not sequences of frames.           *)
LEMMA StateFacts ==
  ASSUME ScopesInv
  PROVE  /\ family \in Families /\ status \in {"running", "rejected"} /\ value \in Types \cup {None}
         /\ block_labels \in Labels /\ loop_labels \in Labels
         /\ branch \in 0 .. family.constructs /\ at \in {Dead, sf_pos}
         /\ Void \in Types /\ 1 \in Types
BY Bounds DEF ScopesInv, WellTyped, Balanced, Types, Void

(* A step that leaves the frames alone.                                    *)
LEMMA StayKeeps ==
  ASSUME ScopesInv, UNCHANGED <<family, frames, branch>>,
         status' \in {"running", "rejected"}, value' \in Types \cup {None},
         variables' \in Variables, sf_pos' \in Positions, at' \in {Dead, sf_pos'},
         Nested(frames, sf_pos', branch), Layout(frames, variables', sf_pos'),
         block_labels' \in Labels, loop_labels' \in Labels,
         LabelsMatch(block_labels', "block", frames, branch), Fresh(block_labels', frames),
         LabelsMatch(loop_labels', "while", frames, branch),
         ~family.onesided => Fresh(loop_labels', frames),
         \A j \in jumps' : JumpMatches(j, frames, branch)
  PROVE  ScopesInv'
<1>1. /\ frames' \in Seq(FrameRecords) /\ Len(frames') <= family.nest
      /\ \A i \in 1 .. Len(frames') : frames'[i].kind \in family.kinds
      /\ "lambda" \notin family.kinds => OneFunction(frames')
      /\ branch' \in 0 .. family.constructs
  BY DEF ScopesInv, WellTyped
<1> QED BY <1>1, Restored

(* A rejected program is left as it was.                                   *)
LEMMA RejectKeeps ==
  ASSUME ScopesInv, Reject
  PROVE  ScopesInv'
<1>1. /\ UNCHANGED <<family, frames, value, variables, block_labels, loop_labels, sf_pos, branch,
                     at, jumps>>
      /\ status' \in {"running", "rejected"}
  BY DEF Reject
<1>2. /\ Nested(frames, sf_pos, branch) /\ Layout(frames, variables, sf_pos)
      /\ LabelsMatch(block_labels, "block", frames, branch) /\ Fresh(block_labels, frames)
      /\ LabelsMatch(loop_labels, "while", frames, branch)
      /\ ~family.onesided => Fresh(loop_labels, frames)
      /\ \A j \in jumps : JumpMatches(j, frames, branch)
  BY DEF ScopesInv
<1> QED BY <1>1, <1>2, StateFacts, ScopesFacts, StayKeeps

(* A step that only has another value.                                     *)
LEMMA ValueKeeps ==
  ASSUME ScopesInv, value' \in Types \cup {None},
         UNCHANGED <<family, status, frames, variables, block_labels, loop_labels, sf_pos, branch,
                     at, jumps>>
  PROVE  ScopesInv'
<1>1. /\ Nested(frames, sf_pos, branch) /\ Layout(frames, variables, sf_pos)
      /\ LabelsMatch(block_labels, "block", frames, branch) /\ Fresh(block_labels, frames)
      /\ LabelsMatch(loop_labels, "while", frames, branch)
      /\ ~family.onesided => Fresh(loop_labels, frames)
      /\ \A j \in jumps : JumpMatches(j, frames, branch)
  BY DEF ScopesInv
<1> QED BY <1>1, StateFacts, ScopesFacts, StayKeeps

(* The end of a function brings back what it put aside.                    *)
LEMMA FunctionEnds ==
  ASSUME ScopesInv, FunctionEnd
  PROVE  ScopesInv'
<1>1. frames /= <<>> /\ Top.kind = "function"
  BY DEF FunctionEnd, In
<1>2. Top.at \in {Dead, Top.sf}
  BY <1>1, TopFacts
<1>3. value' \in Types \cup {None}
  BY StateFacts DEF FunctionEnd
<1> QED BY <1>1, <1>2, <1>3, PopKeeps DEF FunctionEnd

(* What the block compiled behind the variables it began with is cut off,  *)
(* and what is left are those variables.                                   *)
LEMMA Reopened ==
  ASSUME ScopesInv, frames /= <<>>, Top.kind = "block"
  PROVE  SubSeq(variables, 1, Len(Top.vars)) = Top.vars
<1>1. /\ Top = frames[Len(frames)] /\ Len(frames) \in Nat \ {0}
      /\ variables \in Seq(AnyVariable) /\ Top.vars \in Seq(AnyVariable)
  BY TopFacts, StateFacts, Loosely, ScopesFacts
<1>2. Inside(frames, Len(frames), Len(frames) + 1)
  BY <1>1 DEF Inside
<1>3. Len(frames) \in 1 .. Len(frames) + 1 - 1
  BY <1>1
<1>4. Moment(frames, variables, sf_pos, Len(frames) + 1)
  BY DEF ScopesInv, Layout
<1>5. Beginning(Top.vars, variables)
  BY <1>1, <1>2, <1>3, <1>4 DEF Moment, Fits
<1> DEFINE n == Len(Top.vars)
<1>6. n \in Nat /\ Len(variables) \in Nat /\ n <= Len(variables)
      /\ \A k \in 1 .. n : variables[k] = Top.vars[k]
  BY <1>1, <1>5, LenProperties DEF Beginning
<1>7. \A k \in 1 .. n : variables[k] \in AnyVariable
  BY <1>1, <1>6, ElementOfSeq
<1> HIDE DEF n
<1>8. /\ SubSeq(variables, 1, n) \in Seq(AnyVariable)
      /\ Len(SubSeq(variables, 1, n)) = IF 1 <= n THEN n - 1 + 1 ELSE 0
      /\ \A i \in 1 .. n - 1 + 1 : SubSeq(variables, 1, n)[i] = variables[1 + i - 1]
  BY <1>1, <1>6, <1>7, SubSeqProperties
<1>9. /\ Len(SubSeq(variables, 1, n)) = n
      /\ \A i \in 1 .. n : SubSeq(variables, 1, n)[i] = Top.vars[i]
  BY <1>6, <1>8
<1>10. Len(Top.vars) = n
  BY DEF n
<1> QED BY <1>1, <1>8, <1>9, <1>10, SeqEqual DEF n

(* The end of a block: its label, its variables and its words are gone.    *)
LEMMA BlockEnds ==
  ASSUME ScopesInv, BlockEnd
  PROVE  ScopesInv'
<1>1. frames /= <<>> /\ Top.kind = "block"
  BY DEF BlockEnd, In
<1>2. variables' = Top.vars
  BY <1>1, Reopened DEF BlockEnd
<1>3. Shift(Top.sf - sf_pos) \in {Dead, Top.sf}
  <2>1. at \in {Dead, sf_pos} /\ sf_pos \in Int /\ Top.sf \in Int
    BY <1>1, StateFacts, TopFacts, ScopesFacts, Loosely
  <2> QED BY <2>1 DEF Shift
<1>4. at' \in {Dead, Top.sf}
  BY <1>1, <1>3, Lands DEF BlockEnd
<1>5. Last(block_labels).type \in Types \cup {None}
  <2>1. /\ block_labels \in Seq(AnyLabel) /\ frames \in Seq(AnyFrame)
        /\ LabelsMatch(block_labels, "block", frames, branch)
        /\ Nested(frames, sf_pos, branch) /\ Last(frames).kind = "block"
    BY <1>1, ScopesFacts DEF ScopesInv, Top
  <2>2. block_labels /= <<>>
    BY <1>1, <2>1, LabelsPopBoth
  <2>3. Last(block_labels) \in [name : Names \cup {NoName}, id : Ids, sf : Positions,
                                type : Types \cup {None}]
    BY <2>2, StateFacts, Popping DEF Labels
  <2> QED BY <2>3
<1>6. value' \in Types \cup {None}
  BY <1>5, StateFacts DEF BlockEnd
<1>7. jumps' \subseteq jumps /\ \A j \in jumps' : j.to /= Top.id
  BY LandedElsewhere DEF BlockEnd
<1>8. /\ UNCHANGED <<family, status, loop_labels, branch>> /\ frames' = Front(frames)
      /\ sf_pos' = Top.sf /\ block_labels' = Front(block_labels)
  BY DEF BlockEnd
<1> QED BY <1>1, <1>2, <1>4, <1>6, <1>7, <1>8, PopKeeps

(* No two open constructs share a number.                                  *)
LEMMA OwnId ==
  ASSUME ScopesInv, frames /= <<>>, Top.id /= None, NEW i \in 1 .. Len(frames),
         frames[i].id = Top.id
  PROVE  i = Len(frames)
<1>1. /\ Top = frames[Len(frames)] /\ Len(frames) \in 1 .. Len(frames) /\ Len(frames) \in Nat
      /\ frames[i].id \in Int
  BY TopFacts, ScopesFacts
<1>2. i < Len(frames) => frames[i].id < Top.id
  BY <1>1 DEF ScopesInv, Nested
<1> QED BY <1>1, <1>2

(* The jump from the end of a branch or of a loop's body.                  *)
LEMMA PlainJumpMade ==
  ASSUME ScopesInv, frames /= <<>>, Top.kind \in {"if", "while"}, NEW place, JumpPlain(place)
  PROVE  \A j \in jumps' : JumpMatches(j, frames, branch)
<1> DEFINE label == [id |-> Top.id, sf |-> sf_pos]
<1>1. /\ Sound(Top) /\ Top = frames[Len(frames)] /\ Len(frames) \in 1 .. Len(frames)
      /\ Top.id \in Ids \cup {None} /\ Top.id < branch
      /\ Top.kind \notin {"function", "block"} => sf_pos = Top.sf - Top.words
  BY TopFacts
<1>2. Top.id /= None /\ sf_pos = Top.sf
  <2>1. Top.id /= None /\ Top.words = 0
    BY <1>1 DEF Sound
  <2>2. Top.sf \in Int
    BY TopFacts, StateFacts, Loosely
  <2> QED BY <1>1, <2>1, <2>2
<1>3. Top.id \in 0 .. branch - 1
  BY <1>1, <1>2, StateFacts, Bounds DEF Ids
<1>4. \A i \in 1 .. Len(frames) : frames[i].id = Top.id => frames[i].sf = sf_pos
  BY <1>1, <1>2, OwnId
<1>5. \E i \in 1 .. Len(frames) : frames[i].id = Top.id /\ frames[i].kind \in {"block", "if", "while"}
  BY <1>1
<1>6. Jump(label, place, 0)
  BY DEF JumpPlain
<1>7. label.id = Top.id /\ label.sf = sf_pos
  OBVIOUS
<1> HIDE DEF label
<1> QED BY <1>3, <1>4, <1>5, <1>6, <1>7, ScopesFacts, JumpMade

(* An if or a while goes on to its next phase.                             *)
LEMMA NextPhase ==
  ASSUME ScopesInv, frames /= <<>>, Top.kind \in {"if", "while"},
         UNCHANGED <<family, status, branch, variables, block_labels, loop_labels, sf_pos>>,
         NEW f \in FrameRecords, f.kind = Top.kind, f.id = Top.id, f.sf = Top.sf,
         f.name = Top.name, f.vars = Top.vars, f.words = Top.words, f.at \in {Dead, Top.sf},
         Becomes(f), at' \in {Dead, sf_pos}, value' = None,
         \A j \in jumps' : JumpMatches(j, frames, branch)
  PROVE  ScopesInv'
<1>1. Sound(f) /\ 0 \in Nat
  BY TopFacts DEF Sound
<1>2. f.words = Top.words + 0 /\ sf_pos' = sf_pos - 0 /\ sf_pos' \in Positions
  BY <1>1, ScopesFacts DEF Sound
<1>3. frames' = ReplaceAt(frames, Len(frames), f)
  BY DEF Becomes
<1> QED BY <1>1, <1>2, <1>3, TopKeeps

(* In an if or a while the stack pointer is where the construct began.     *)
LEMMA Level ==
  ASSUME ScopesInv, frames /= <<>>, Top.kind \in {"if", "while"}
  PROVE  sf_pos = Top.sf /\ at \in {Dead, Top.sf} /\ Top.at \in {Dead, Top.sf}
<1>1. Top.words = 0 /\ Top.sf \in Int
  BY TopFacts, StateFacts, Loosely DEF Sound
<1> QED BY <1>1, TopFacts, StateFacts

(* The condition of an if or a while has been compiled.                    *)
LEMMA Conditions ==
  ASSUME ScopesInv, NEW kind \in {"if", "while"}, In(kind, "condition"),
         Becomes([Top EXCEPT !.phase = "block", !.at = at]), value' = None,
         UNCHANGED <<family, status, variables, block_labels, loop_labels, sf_pos, branch, at, jumps>>
  PROVE  ScopesInv'
<1> DEFINE f == [Top EXCEPT !.phase = "block", !.at = at]
<1>1. frames /= <<>> /\ Top.kind = kind
  BY DEF In
<1>2. Top \in FrameRecords /\ at \in {Dead, Top.sf} /\ at \in Positions \cup {Dead}
  BY <1>1, TopFacts, Level
<1>3. f \in FrameRecords
  BY <1>2 DEF FrameRecords, Phases
<1>4. /\ f.kind = Top.kind /\ f.id = Top.id /\ f.sf = Top.sf /\ f.name = Top.name
      /\ f.vars = Top.vars /\ f.words = Top.words /\ f.at = at
  BY <1>2 DEF FrameRecords
<1>5. Becomes(f)
  OBVIOUS
<1> HIDE DEF f
<1>6. \A j \in jumps' : JumpMatches(j, frames, branch)
  BY DEF ScopesInv
<1>7. at' \in {Dead, sf_pos}
  BY StateFacts
<1> QED BY <1>1, <1>2, <1>3, <1>4, <1>5, <1>6, <1>7, NextPhase

(* A branch of an if has been compiled, and another follows.               *)
LEMMA IfBlocks ==
  ASSUME ScopesInv, IfBlock
  PROVE  ScopesInv'
<1>1. frames /= <<>> /\ Top.kind = "if" /\ value /= None
  BY DEF IfBlock, In
<1>2. CASE Reject
  BY <1>2, RejectKeeps
<1>3. CASE ~Reject
  <2>1. PICK phase \in {"condition", "else"} : Becomes([Top EXCEPT !.phase = phase, !.type = value])
    BY <1>3 DEF IfBlock
  <2> DEFINE f == [Top EXCEPT !.phase = phase, !.type = value]
  <2>2. Top \in FrameRecords /\ value \in Types \cup {None}
    BY <1>1, TopFacts, StateFacts
  <2>3. f \in FrameRecords
    BY <2>2 DEF FrameRecords, Phases
  <2>4. /\ f.kind = Top.kind /\ f.id = Top.id /\ f.sf = Top.sf /\ f.name = Top.name
        /\ f.vars = Top.vars /\ f.words = Top.words /\ f.at = Top.at
    BY <2>2 DEF FrameRecords
  <2>5. Becomes(f)
    BY <2>1
  <2> HIDE DEF f
  <2>6. /\ JumpPlain("end") /\ at' = Top.at /\ value' = None
        /\ UNCHANGED <<family, status, variables, block_labels, loop_labels, sf_pos, branch>>
    BY <1>3 DEF IfBlock
  <2>7. \A j \in jumps' : JumpMatches(j, frames, branch)
    BY <1>1, <2>6, PlainJumpMade
  <2>8. at' \in {Dead, sf_pos} /\ f.at \in {Dead, Top.sf}
    BY <1>1, <2>4, <2>6, Level
  <2> QED BY <1>1, <2>3, <2>4, <2>5, <2>6, <2>7, <2>8, NextPhase
<1> QED BY <1>2, <1>3

(* The body of a while has been compiled, and its else follows.            *)
LEMMA WhileBlocks ==
  ASSUME ScopesInv, WhileBlock
  PROVE  ScopesInv'
<1>1. frames /= <<>> /\ Top.kind = "while"
  BY DEF WhileBlock, In
<1> DEFINE f == [Top EXCEPT !.phase = "else"]
<1>2. Top \in FrameRecords
  BY <1>1, TopFacts
<1>3. f \in FrameRecords
  BY <1>2 DEF FrameRecords, Phases
<1>4. /\ f.kind = Top.kind /\ f.id = Top.id /\ f.sf = Top.sf /\ f.name = Top.name
      /\ f.vars = Top.vars /\ f.words = Top.words /\ f.at = Top.at
  BY <1>2 DEF FrameRecords
<1>5. Becomes(f)
  BY DEF WhileBlock
<1> HIDE DEF f
<1>6. /\ JumpPlain("begin") /\ at' = Top.at /\ value' = None
      /\ UNCHANGED <<family, status, variables, block_labels, loop_labels, sf_pos, branch>>
  BY DEF WhileBlock
<1>7. \A j \in jumps' : JumpMatches(j, frames, branch)
  BY <1>1, <1>6, PlainJumpMade
<1>8. at' \in {Dead, sf_pos} /\ f.at \in {Dead, Top.sf}
  BY <1>1, <1>4, <1>6, Level
<1> QED BY <1>1, <1>3, <1>4, <1>5, <1>6, <1>7, <1>8, NextPhase

(* An if or a while ends.                                                  *)
LEMMA CloseKeeps ==
  ASSUME ScopesInv, frames /= <<>>, Top.kind \in {"if", "while"},
         NEW above \in {Dead, Top.sf}, NEW type \in Types \cup {None}, Close(above, type),
         UNCHANGED <<family, status, variables, block_labels, sf_pos, branch>>,
         \/ loop_labels' = IF Top.kind = "while" THEN Front(loop_labels) ELSE loop_labels
         \/ family.onesided /\ UNCHANGED loop_labels
  PROVE  ScopesInv'
<1>1. at' \in {Dead, Top.sf} /\ sf_pos' = Top.sf
  BY Lands, Level DEF Close
<1>2. jumps' \subseteq jumps /\ \A j \in jumps' : j.to /= Top.id
  BY LandedElsewhere DEF Close
<1>3. frames' = Front(frames) /\ value' \in Types \cup {None}
  BY DEF Close
<1> QED BY <1>1, <1>2, <1>3, PopKeeps

(* The last branch of an if.                                               *)
LEMMA IfEnds ==
  ASSUME ScopesInv, IfLastBlock \/ IfElse
  PROVE  ScopesInv'
<1>1. frames /= <<>> /\ Top.kind = "if"
  BY DEF IfLastBlock, IfElse, In
<1>2. CASE Reject
  BY <1>2, RejectKeeps
<1>3. CASE IfLastBlock /\ ~Reject
  <2> DEFINE above == IF Top.at = Dead THEN at ELSE Top.at
  <2>1. /\ Close(above, Void)
        /\ UNCHANGED <<family, status, variables, block_labels, loop_labels, sf_pos, branch>>
    BY <1>3 DEF IfLastBlock
  <2>2. above \in {Dead, Top.sf}
    BY <1>1, Level
  <2> HIDE DEF above
  <2> QED BY <1>1, <2>1, <2>2, StateFacts, CloseKeeps
<1>4. CASE IfElse /\ ~Reject
  <2>1. /\ Close(at, value)
        /\ UNCHANGED <<family, status, variables, block_labels, loop_labels, sf_pos, branch>>
    BY <1>4 DEF IfElse
  <2> QED BY <1>1, <2>1, Level, StateFacts, CloseKeeps
<1> QED BY <1>2, <1>3, <1>4

(* A loop's own label is there, whatever was left behind it.               *)
LEMMA OwnLabelType ==
  ASSUME ScopesInv, frames /= <<>>, Top.kind = "while"
  PROVE  loop_labels[OwnLabel].type \in Types \cup {None}
<1> DEFINE S == {k \in 1 .. Len(loop_labels) : loop_labels[k].id = Top.id}
<1>1. OwnLabel = IF S /= {} THEN Max(S) ELSE 0
  BY DEF OwnLabel, SelectLastInSeq
<1>2. S /= {} /\ S \subseteq 1 .. Len(loop_labels)
  BY TopFacts DEF ScopesInv, LabelsMatch
<1>3. Len(loop_labels) \in Nat
  BY StateFacts, LenProperties DEF Labels
<1>4. Max(S) \in S
  BY ONLY <1>2, <1>3, MaxOf
<1>5. OwnLabel \in 1 .. Len(loop_labels)
  BY <1>1, <1>2, <1>4
<1>6. loop_labels[OwnLabel] \in
        [name : Names \cup {NoName}, id : Ids, sf : Positions, type : Types \cup {None}]
  BY <1>5, StateFacts, ElementOfSeq DEF Labels
<1> QED BY <1>6

(* The end of a while, with its four outcomes.                             *)
LEMMA WhileEnds ==
  ASSUME ScopesInv, WhileWithoutElse \/ WhileElse
  PROVE  ScopesInv'
<1>1. frames /= <<>> /\ Top.kind = "while"
  BY DEF WhileWithoutElse, WhileElse, In
<1>2. PICK above \in {Dead, Top.sf}, type_else \in Types \cup {None} : WhileEnd(above, type_else)
  BY <1>1, Level, StateFacts DEF WhileWithoutElse, WhileElse
<1> DEFINE type == loop_labels[OwnLabel].type
<1>3. type \in Types \cup {None}
  BY <1>1, OwnLabelType
<1>4. UNCHANGED <<family, variables, block_labels, sf_pos, branch>>
  BY <1>2 DEF WhileEnd
<1>5. CASE Reject
  BY <1>5, RejectKeeps
<1>6. CASE ~Reject
  <2>1. PICK result \in {Void, type, type_else} :
          /\ Close(above, result) /\ UNCHANGED status
          /\ \/ loop_labels' = Front(loop_labels)
             \/ family.onesided /\ UNCHANGED loop_labels
    BY <1>2, <1>6 DEF WhileEnd
  <2>2. result \in Types \cup {None}
    BY <1>3, StateFacts
  <2> QED BY <1>1, <1>4, <2>1, <2>2, CloseKeeps
<1> QED BY <1>5, <1>6

(* A jump to the label at i, of blocks or of loops.                        *)
LEMMA LabelJumpMade ==
  ASSUME ScopesInv, frames /= <<>>, NEW labels \in Labels, NEW kind \in {"block", "while"},
         LabelsMatch(labels, kind, frames, branch), Plain => Fresh(labels, frames),
         NEW i \in 1 .. Len(labels), NEW place, NEW size, Jump(labels[i], place, size)
  PROVE  \A j \in jumps' : JumpMatches(j, frames, branch)
<1>1. labels[i] \in [name : Names \cup {NoName}, id : Ids, sf : Positions, type : Types \cup {None}]
  BY ElementOfSeq DEF Labels
<1>2. labels[i].sf \in Positions /\ labels[i].id \in 0 .. branch - 1
  <2>1. labels[i].id \in Ids /\ labels[i].sf \in Positions
    BY <1>1
  <2>2. 0 <= labels[i].id /\ labels[i].id < branch
    BY DEF LabelsMatch
  <2> QED BY <2>1, <2>2, StateFacts, Bounds DEF Ids
<1>3. \A k \in 1 .. Len(frames) : frames[k].id = labels[i].id => frames[k].sf = labels[i].sf
  BY DEF LabelsMatch
<1>4. Plain => \E k \in 1 .. Len(frames) :
                 frames[k].id = labels[i].id /\ frames[k].kind \in {"block", "if", "while"}
  BY DEF Fresh, LabelsMatch
<1> QED BY <1>2, <1>3, <1>4, JumpMade

(* return sends a value to a block's label.                                *)
LEMMA Returns ==
  ASSUME ScopesInv, NEW name, Return(name)
  PROVE  ScopesInv'
<1> DEFINE i == Find(block_labels, name)
<1>1. frames /= <<>> /\ value \in Types
  BY StateFacts DEF Return, In
<1>2. CASE Reject
  BY <1>2, RejectKeeps
<1>3. CASE ~Reject
  <2>1. /\ i /= 0 /\ block_labels' = Typed(block_labels, i, value)
        /\ Jump(block_labels[i], "end", value) /\ at' = Dead /\ value' = None
        /\ UNCHANGED <<family, status, frames, variables, loop_labels, sf_pos, branch>>
    BY <1>3 DEF Return
  <2>2. i \in 0 .. Len(block_labels)
    BY StateFacts, LenProperties, FindLast DEF Labels
  <2> HIDE DEF i
  <2>3. i \in 1 .. Len(block_labels)
    BY <2>1, <2>2
  <2>4. /\ LabelsMatch(block_labels, "block", frames, branch) /\ Fresh(block_labels, frames)
        /\ LabelsMatch(loop_labels, "while", frames, branch)
        /\ ~family.onesided => Fresh(loop_labels, frames)
        /\ Nested(frames, sf_pos, branch) /\ Layout(frames, variables, sf_pos)
    BY DEF ScopesInv
  <2>5. \A j \in jumps' : JumpMatches(j, frames, branch)
    <3>1. block_labels \in Labels /\ (Plain => Fresh(block_labels, frames))
      BY <2>4, StateFacts
    <3> QED BY <1>1, <2>1, <2>3, <2>4, <3>1, LabelJumpMade
  <2>6. /\ block_labels' \in Labels /\ LabelsMatch(block_labels', "block", frames, branch)
        /\ Fresh(block_labels', frames)
    <3>1. /\ block_labels' \in Labels /\ Len(block_labels') = Len(block_labels)
          /\ \A k \in 1 .. Len(block_labels) :
                /\ block_labels'[k].id = block_labels[k].id
                /\ block_labels'[k].sf = block_labels[k].sf
                /\ block_labels'[k].name = block_labels[k].name
      BY <1>1, <2>1, <2>3, StateFacts, TypedLabels
    <3> QED BY <2>4, <3>1, LabelsTyped
  <2> QED BY <2>1, <2>4, <2>5, <2>6, StateFacts, ScopesFacts, StayKeeps
<1> QED BY <1>2, <1>3

(* break sends a value to a loop's label.                                  *)
LEMMA Breaks ==
  ASSUME ScopesInv, NEW name, Break(name)
  PROVE  ScopesInv'
<1> DEFINE i == Find(loop_labels, name)
<1>1. frames /= <<>> /\ value \in Types
  BY StateFacts DEF Break, In
<1>2. CASE Reject
  BY <1>2, RejectKeeps
<1>3. CASE ~Reject
  <2>1. /\ i /= 0 /\ loop_labels' = Typed(loop_labels, i, value)
        /\ Jump(loop_labels[i], "end", value) /\ at' = Dead /\ value' = None
        /\ UNCHANGED <<family, status, frames, variables, block_labels, sf_pos, branch>>
    BY <1>3 DEF Break
  <2>2. i \in 0 .. Len(loop_labels)
    BY StateFacts, LenProperties, FindLast DEF Labels
  <2> HIDE DEF i
  <2>3. i \in 1 .. Len(loop_labels)
    BY <2>1, <2>2
  <2>4. /\ LabelsMatch(block_labels, "block", frames, branch) /\ Fresh(block_labels, frames)
        /\ LabelsMatch(loop_labels, "while", frames, branch)
        /\ ~family.onesided => Fresh(loop_labels, frames)
        /\ Nested(frames, sf_pos, branch) /\ Layout(frames, variables, sf_pos)
    BY DEF ScopesInv
  <2>5. \A j \in jumps' : JumpMatches(j, frames, branch)
    BY <1>1, <2>1, <2>3, <2>4, StateFacts, LabelJumpMade DEF Plain
  <2>6. /\ loop_labels' \in Labels /\ LabelsMatch(loop_labels', "while", frames, branch)
        /\ ~family.onesided => Fresh(loop_labels', frames)
    BY <1>1, <2>1, <2>3, <2>4, StateFacts, TypedLabels, LabelsTyped
  <2> QED BY <2>1, <2>4, <2>5, <2>6, StateFacts, ScopesFacts, StayKeeps
<1> QED BY <1>2, <1>3

(* continue goes to a loop's beginning.                                    *)
LEMMA Continues ==
  ASSUME ScopesInv, NEW name, Continue(name)
  PROVE  ScopesInv'
<1> DEFINE i == Find(loop_labels, name)
<1>1. frames /= <<>>
  BY DEF Continue, In
<1>2. CASE Reject
  BY <1>2, RejectKeeps
<1>3. CASE ~Reject
  <2>1. /\ i /= 0 /\ Jump(loop_labels[i], "begin", 0) /\ at' = Dead
        /\ UNCHANGED <<family, status, frames, value, variables, block_labels, loop_labels, sf_pos,
                       branch>>
    BY <1>3 DEF Continue
  <2>2. i \in 0 .. Len(loop_labels)
    BY StateFacts, LenProperties, FindLast DEF Labels
  <2> HIDE DEF i
  <2>3. i \in 1 .. Len(loop_labels)
    BY <2>1, <2>2
  <2>4. /\ LabelsMatch(block_labels, "block", frames, branch) /\ Fresh(block_labels, frames)
        /\ LabelsMatch(loop_labels, "while", frames, branch)
        /\ ~family.onesided => Fresh(loop_labels, frames)
        /\ Nested(frames, sf_pos, branch) /\ Layout(frames, variables, sf_pos)
    BY DEF ScopesInv
  <2>5. \A j \in jumps' : JumpMatches(j, frames, branch)
    BY <1>1, <2>1, <2>3, <2>4, StateFacts, LabelJumpMade DEF Plain
  <2> QED BY <2>1, <2>4, <2>5, StateFacts, ScopesFacts, StayKeeps
<1> QED BY <1>2, <1>3

(* A definition pushes a variable and moves the stack pointer under it.    *)
LEMMA Defines ==
  ASSUME ScopesInv, NEW t \in 1 .. MaxWidth, Define(t)
  PROVE  ScopesInv'
<1>1. frames /= <<>> /\ Top.kind = "block" /\ Top = frames[Len(frames)]
  BY TopFacts DEF Define, In
<1>2. /\ t \in Nat /\ t > 0 /\ t \in Types /\ sf_pos \in Int /\ sf_pos <= 0 /\ sf_pos - t \in Positions
  BY StateFacts, Bounds, ScopesFacts DEF Define, Positions, Types
<1>3. /\ variables' = Append(variables, [phase |-> sf_pos - t, size |-> t])
      /\ sf_pos' = sf_pos - t /\ at' = Shift(-t) /\ value' = None
      /\ UNCHANGED <<family, status, frames, block_labels, loop_labels, branch, jumps>>
  BY DEF Define
<1>4. at' \in {Dead, sf_pos'}
  BY <1>2, <1>3, StateFacts DEF Shift
<1>5. variables' \in Variables
  <2>1. [phase |-> sf_pos - t, size |-> t] \in [phase : Positions, size : Types]
    BY <1>2
  <2> QED BY <1>3, <2>1, ScopesFacts, AppendProperties DEF Variables
<1>6. /\ LabelsMatch(block_labels, "block", frames, branch) /\ Fresh(block_labels, frames)
      /\ LabelsMatch(loop_labels, "while", frames, branch)
      /\ ~family.onesided => Fresh(loop_labels, frames)
      /\ Nested(frames, sf_pos, branch) /\ Layout(frames, variables, sf_pos)
      /\ \A j \in jumps : JumpMatches(j, frames, branch)
  BY DEF ScopesInv
<1>7. Nested(frames, sf_pos', branch)
  BY <1>1, <1>6 DEF Nested
<1>8. Layout(frames, variables', sf_pos')
  BY <1>2, <1>3, <1>6, ScopesFacts, LayoutDefines
<1> QED BY <1>2, <1>3, <1>4, <1>5, <1>6, <1>7, <1>8, StateFacts, StayKeeps

(* An intermediate value is kept on the stack.                             *)
LEMMA Keeps ==
  ASSUME ScopesInv, frames /= <<>>, Top.kind \in {"operator", "call", "aggregate"},
         NEW phase \in Phases, NEW n \in Nat, Keep(phase, n),
         Top.kind = "operator" => Top.phase = "left" /\ phase = "right" /\ n = 1
  PROVE  ScopesInv'
<1> DEFINE f == [Top EXCEPT !.phase = phase, !.words = @ + n]
<1>1. /\ Top \in FrameRecords /\ Sound(Top) /\ Top.sf \in Positions /\ Top.words \in 0 .. family.words
      /\ sf_pos = Top.sf - Top.words /\ Top.at \in {Dead, Top.sf}
  BY TopFacts
<1>2. /\ sf_pos - n >= -family.words /\ Becomes(f) /\ sf_pos' = sf_pos - n /\ at' = Shift(-n)
      /\ value' = None
      /\ UNCHANGED <<family, status, variables, block_labels, loop_labels, branch, jumps>>
  BY DEF Keep
<1>3. family.words \in Nat /\ Top.words \in Nat /\ Top.sf \in Int /\ Top.sf <= 0
  BY <1>1, StateFacts, Bounds DEF Positions
<1>4. Top.words + n \in 0 .. family.words /\ sf_pos' \in Positions
  BY <1>1, <1>2, <1>3 DEF Positions
<1>5. f \in FrameRecords
  BY <1>1, <1>4 DEF FrameRecords
<1>6. /\ f.kind = Top.kind /\ f.id = Top.id /\ f.sf = Top.sf /\ f.name = Top.name
      /\ f.vars = Top.vars /\ f.words = Top.words + n /\ f.at = Top.at /\ f.phase = phase
  BY <1>1 DEF FrameRecords
<1>7. frames' = ReplaceAt(frames, Len(frames), f)
  BY <1>2 DEF Becomes
<1> HIDE DEF f
<1>8. Sound(f)
  BY <1>1, <1>6 DEF Sound
<1>9. at' \in {Dead, sf_pos'}
  BY <1>2, ScopesFacts, StateFacts DEF Shift
<1>10. \A j \in jumps' : JumpMatches(j, frames, branch)
  BY <1>2 DEF ScopesInv
<1> QED BY <1>2, <1>4, <1>5, <1>6, <1>7, <1>8, <1>9, <1>10, TopKeeps

(* The kept values are given back, all at once.                            *)
LEMMA Collects ==
  ASSUME ScopesInv, frames /= <<>>, Top.kind \in {"operator", "call", "aggregate"},
         NEW result \in Types, Collect(Top.words, result)
  PROVE  ScopesInv'
<1>1. sf_pos = Top.sf - Top.words /\ Top.sf \in Int /\ Top.words \in Int
  BY TopFacts, StateFacts, Loosely, Bounds
<1>2. sf_pos' = Top.sf /\ at' \in {Dead, sf_pos'}
  BY <1>1, StateFacts DEF Collect, Shift
<1> QED BY <1>2, PopKeeps DEF Collect

(* Every action that keeps a value,                                        *)
LEMMA KeptValues ==
  ASSUME ScopesInv,
         \/ OperatorLeft \/ MethodBegin \/ CallKeep \/ CallArgument \/ AggregateElement
  PROVE  ScopesInv'
<1>1. CASE OperatorLeft
  BY <1>1, Keeps DEF OperatorLeft, In, Phases
<1>2. CASE MethodBegin
  BY <1>2, Keeps DEF MethodBegin, In, Phases
<1>3. CASE CallKeep
  BY <1>3, Keeps DEF CallKeep, In, Phases
<1>4. CASE CallArgument
  BY <1>4, Keeps DEF CallArgument, In, Phases
<1>5. CASE AggregateElement
  <2>1. value \in Nat
    BY <1>5, StateFacts, Bounds DEF AggregateElement, Types
  <2> QED BY <1>5, <2>1, Keeps DEF AggregateElement, In, Phases
<1> QED BY <1>1, <1>2, <1>3, <1>4, <1>5

(* and every action that ends with a result.                               *)
LEMMA Collected ==
  ASSUME ScopesInv, OperatorRight \/ CallEnd \/ AggregateEnd
  PROVE  ScopesInv'
<1>1. CASE OperatorRight
  <2>1. frames /= <<>> /\ Top.kind = "operator" /\ Top.phase = "right" /\ Collect(1, 1)
    BY <1>1 DEF OperatorRight, In
  <2>2. Top.words = 1
    BY <2>1, TopFacts DEF Sound
  <2> QED BY <2>1, <2>2, StateFacts, Collects
<1>2. CASE CallEnd
  BY <1>2, StateFacts, Collects DEF CallEnd, In
<1>3. CASE AggregateEnd
  <2>1. PICK result \in 1 .. MaxWidth : Collect(Top.words, result)
    BY <1>3 DEF AggregateEnd
  <2>2. result \in Types
    BY StateFacts, Bounds DEF Types
  <2> QED BY <1>3, <2>1, <2>2, Collects DEF AggregateEnd, In
<1> QED BY <1>1, <1>2, <1>3

(***************************************************************************)
(* The invariant.                                                          *)
(***************************************************************************)
(* The invariant holds at the start,                                       *)
LEMMA ScopesInit == Init => ScopesInv
<1> SUFFICES ASSUME Init PROVE ScopesInv
  OBVIOUS
<1>1. frames = <<>> /\ variables = <<>> /\ block_labels = <<>> /\ loop_labels = <<>>
      /\ Len(frames) = 0 /\ Len(variables) = 0 /\ Len(block_labels) = 0 /\ Len(loop_labels) = 0
      /\ sf_pos = 0 /\ branch = 0 /\ at = Dead /\ jumps = {} /\ family \in Families
      /\ status = "running" /\ value = None
  BY EmptySeq DEF Init
<1>2. WellTyped
  BY <1>1, Bounds DEF WellTyped, Variables, Labels, Positions
<1>3. Nested(frames, sf_pos, branch) /\ OneFunction(frames)
  BY <1>1 DEF Nested, OneFunction
<1>4. Layout(frames, variables, sf_pos)
  BY <1>1 DEF Layout, Moment, Descending, Packed
<1>5. /\ LabelsMatch(block_labels, "block", frames, branch) /\ Fresh(block_labels, frames)
      /\ LabelsMatch(loop_labels, "while", frames, branch) /\ Fresh(loop_labels, frames)
  BY <1>1 DEF LabelsMatch, Fresh
<1> QED BY <1>1, <1>2, <1>3, <1>4, <1>5 DEF ScopesInv, Balanced

(* and every action preserves it.                                          *)
LEMMA ScopesStep == ScopesInv /\ [Next]_vars => ScopesInv'
<1> SUFFICES ASSUME ScopesInv, [Next]_vars PROVE ScopesInv'
  OBVIOUS
<1>1. CASE UNCHANGED vars
  <2>1. value' \in Types \cup {None}
    BY <1>1, StateFacts DEF vars
  <2> QED BY <1>1, <2>1, ValueKeeps DEF vars
<1>2. ASSUME NEW n \in 0 .. family.parameters, FunctionBegin(n)
      PROVE  ScopesInv'
  BY <1>2, FunctionBegins
<1>3. CASE FunctionEnd
  BY <1>3, FunctionEnds
<1>4. ASSUME NEW t \in Types, Simple(t)
      PROVE  ScopesInv'
  BY <1>4, ValueKeeps DEF Simple
<1>5. ASSUME NEW t \in 1 .. MaxWidth, Define(t)
      PROVE  ScopesInv'
  BY <1>5, Defines
<1>6. ASSUME NEW name \in Names \cup {NoName},
             \/ BlockBegin(name) \/ Return(name)
             \/ WhileBegin(name) \/ Break(name) \/ Continue(name)
      PROVE  ScopesInv'
  BY <1>6, BlockBegins, Returns, WhileBegins, Breaks, Continues
<1>7. CASE BlockEnd
  BY <1>7, BlockEnds
<1>8. CASE Discard
  BY <1>8, ValueKeeps DEF Discard
<1>9. CASE IfBegin
  BY <1>9, IfBegins
<1>10. CASE IfCondition
  BY <1>10, Conditions DEF IfCondition
<1>11. CASE IfBlock
  BY <1>11, IfBlocks
<1>12. CASE IfLastBlock \/ IfElse
  BY <1>12, IfEnds
<1>13. CASE WhileCondition
  BY <1>13, Conditions DEF WhileCondition
<1>14. CASE WhileBlock
  BY <1>14, WhileBlocks
<1>15. CASE WhileWithoutElse \/ WhileElse
  BY <1>15, WhileEnds
<1>16. CASE OperatorBegin \/ CallBegin \/ AggregateBegin
  BY <1>16, Begins DEF OperatorBegin, CallBegin, AggregateBegin, Phases
<1>17. CASE OperatorLeft \/ MethodBegin \/ CallKeep \/ CallArgument \/ AggregateElement
  BY <1>17, KeptValues
<1>18. CASE OperatorRight \/ CallEnd \/ AggregateEnd
  BY <1>18, Collected
<1> QED BY <1>1, <1>2, <1>3, <1>4, <1>5, <1>6, <1>7, <1>8, <1>9, <1>10, <1>11, <1>12, <1>13,
           <1>14, <1>15, <1>16, <1>17, <1>18 DEF Next

(* ScopesInv holds in every reachable state, whatever the program.         *)
THEOREM ScopesInvariant == Spec => []ScopesInv
BY ScopesInit, ScopesStep, PTL DEF Spec

(* The invariant types the state.                                          *)
LEMMA ScopesTypes == ScopesInv => TypeOK
<1> SUFFICES ASSUME ScopesInv PROVE TypeOK
  OBVIOUS
<1>1. DOMAIN frames = 1 .. Len(frames)
  BY ScopesFacts
<1>2. ASSUME NEW i \in DOMAIN frames
      PROVE  /\ frames[i].kind \in family.kinds
             /\ frames[i].id \in Ids \cup {None}
             /\ frames[i].sf \in Positions
             /\ frames[i].at \in Positions \cup {Dead}
             /\ frames[i].words \in 0 .. family.words
  <2>1. frames[i] \in FrameRecords
    BY <1>1, ScopesFacts, ElementOfSeq
  <2> QED BY <1>1, <2>1 DEF FrameRecords, ScopesInv, WellTyped
<1> QED BY <1>2 DEF ScopesInv, WellTyped, TypeOK

(* compile.c: the state of the walk stays well formed; sf_pos, and every   *)
(* position put aside, stays between the frame pointer and the end of the  *)
(* frame, and no construct is left with a number that was never given.     *)
THEOREM ScopesTypeCorrect == Spec => []TypeOK
BY ScopesInvariant, ScopesTypes, PTL

(* Balanced is a part of the invariant.                                    *)
LEMMA ScopesBalance == ScopesInv => Balanced
BY DEF ScopesInv

(* Wherever execution can reach the code that is emitted, the stack        *)
(* pointer is where sf_pos says: for programs of any depth, with any       *)
(* number of labels and values of any size, by every path through blocks,  *)
(* loops, branches, calls, returns, breaks and continues.                  *)
THEOREM ScopesBalanced == Spec => []Balanced
BY ScopesInvariant, ScopesBalance, PTL

(* Above the function that is being emitted no other function begins.      *)
LEMMA AboveFunction ==
  ASSUME ScopesInv
  PROVE  /\ FunctionIndex \in 0 .. Len(frames)
         /\ \A i \in FunctionIndex + 1 .. Len(frames) : frames[i].kind /= "function"
<1> DEFINE S == {i \in 1 .. Len(frames) : frames[i].kind = "function"}
<1>1. FunctionIndex = IF S /= {} THEN Max(S) ELSE 0
  BY DEF FunctionIndex, SelectLastInSeq
<1>2. Len(frames) \in Nat
  BY ScopesFacts
<1>3. S \subseteq 1 .. Len(frames)
  OBVIOUS
<1>4. CASE S = {}
  BY <1>1, <1>2, <1>4
<1>5. CASE S /= {}
  <2>1. Max(S) \in S /\ \A i \in S : Max(S) >= i
    BY ONLY <1>2, <1>3, <1>5, MaxOf
  <2>2. FunctionIndex = Max(S)
    BY <1>1, <1>5
  <2>3. FunctionIndex \in 1 .. Len(frames)
    BY <1>3, <2>1, <2>2
  <2>4. ASSUME NEW i \in FunctionIndex + 1 .. Len(frames), frames[i].kind = "function"
        PROVE  FALSE
    <3>1. i \in S
      BY <1>2, <2>3, <2>4
    <3>2. FunctionIndex >= i
      BY <2>1, <2>2, <3>1
    <3> QED BY <1>2, <2>3, <3>2
  <2> QED BY <1>2, <2>3, <2>4
<1> QED BY <1>4, <1>5

(* The variables and kept values that are visible now are those Moment and *)
(* Descending speak of, one past the last frame.                           *)
LEMMA ScopesSlots == ScopesInv => LiveSlots
<1> SUFFICES ASSUME ScopesInv PROVE LiveSlots
  OBVIOUS
<1>1. /\ DOMAIN variables = 1 .. Len(variables) /\ Len(variables) \in Nat
      /\ Len(frames) \in Nat /\ sf_pos \in Int
  BY ScopesFacts, VariableFields
<1>2. \A k \in DOMAIN variables : variables[k].phase \in Int /\ variables[k].size \in Int
  BY <1>1, ScopesFacts, VariableFields
<1>3. Packed(variables, sf_pos) /\ Descending(frames)
      /\ Moment(frames, variables, sf_pos, Len(frames) + 1)
  BY DEF ScopesInv, Layout, Moment
<1>4. ASSUME NEW i \in Kept
      PROVE  /\ i \in 1 .. Len(frames)
             /\ Inside(frames, i, Len(frames) + 1)
             /\ frames[i].sf \in Int /\ frames[i].words \in Nat /\ frames[i].sf <= 0
  <2>1. /\ FunctionIndex \in 0 .. Len(frames) /\ i \in FunctionIndex + 1 .. Len(frames)
        /\ \A k \in FunctionIndex + 1 .. Len(frames) : frames[k].kind /= "function"
    BY AboveFunction DEF Kept
  <2>2. i \in 1 .. Len(frames)
    BY <1>1, <2>1
  <2>3. Inside(frames, i, Len(frames) + 1)
    BY <1>1, <2>1, <2>2 DEF Inside
  <2>4. frames[i] \in FrameRecords
    BY <2>2, ScopesFacts, ElementOfSeq
  <2>5. frames[i].sf \in Positions /\ frames[i].words \in 0 .. family.words
    BY <2>4 DEF FrameRecords
  <2> QED BY <2>2, <2>3, <2>5, StateFacts, Bounds DEF Positions
<1>5. ASSUME NEW i \in Kept
      PROVE  Fits(frames[i], variables, sf_pos)
  BY <1>1, <1>3, <1>4 DEF Moment
<1>6. \A k \in DOMAIN variables : VariableSlots(k) \subseteq sf_pos .. -1
  BY <1>1, <1>2, <1>3 DEF Packed, VariableSlots
<1>7. \A i \in Kept : KeptSlots(i) \subseteq sf_pos .. -1
  BY <1>1, <1>4, <1>5 DEF Fits, KeptSlots
<1>8. ASSUME NEW k \in DOMAIN variables, NEW l \in DOMAIN variables, k < l
      PROVE  VariableSlots(k) \cap VariableSlots(l) = {}
  <2>1. variables[l].phase + variables[l].size <= variables[k].phase
    BY <1>1, <1>3, <1>8 DEF Packed
  <2> QED BY <1>2, <2>1 DEF VariableSlots
<1>9. ASSUME NEW i \in Kept, NEW j \in Kept, i < j
      PROVE  KeptSlots(i) \cap KeptSlots(j) = {}
  <2>1. /\ i \in 1 .. Len(frames) /\ j \in 1 .. Len(frames)
        /\ frames[i].sf \in Int /\ frames[i].words \in Nat
        /\ frames[j].sf \in Int /\ frames[j].words \in Nat
    BY <1>4
  <2>2. Inside(frames, i, j)
    BY <1>4, <1>9, <2>1 DEF Inside
  <2>3. frames[i].sf - frames[i].words >= frames[j].sf
    BY <1>3, <1>9, <2>1, <2>2 DEF Descending
  <2> QED BY <2>1, <2>3 DEF KeptSlots
<1>10. ASSUME NEW k \in DOMAIN variables, NEW i \in Kept
       PROVE  VariableSlots(k) \cap KeptSlots(i) = {}
  <2>1. /\ frames[i].sf \in Int /\ frames[i].words \in Nat
        /\ variables[k].phase \in Int /\ variables[k].size \in Int
    BY <1>2, <1>4
  <2>2. \/ variables[k].phase >= frames[i].sf
        \/ variables[k].phase + variables[k].size <= frames[i].sf - frames[i].words
    BY <1>1, <1>5 DEF Fits
  <2> QED BY <2>1, <2>2 DEF VariableSlots, KeptSlots
<1>11. \A k, l \in DOMAIN variables : k /= l => VariableSlots(k) \cap VariableSlots(l) = {}
  <2> SUFFICES ASSUME NEW k \in DOMAIN variables, NEW l \in DOMAIN variables, k /= l
               PROVE  VariableSlots(k) \cap VariableSlots(l) = {}
    OBVIOUS
  <2>1. k < l \/ l < k
    BY <1>1
  <2> QED BY <1>8, <2>1
<1>12. \A i, j \in Kept : i /= j => KeptSlots(i) \cap KeptSlots(j) = {}
  <2> SUFFICES ASSUME NEW i \in Kept, NEW j \in Kept, i /= j
               PROVE  KeptSlots(i) \cap KeptSlots(j) = {}
    OBVIOUS
  <2>1. i < j \/ j < i
    BY <1>4
  <2> QED BY <1>9, <2>1
<1> QED BY <1>6, <1>7, <1>10, <1>11, <1>12 DEF LiveSlots

(* compile_definition and the kept values of operators, calls and          *)
(* aggregates: no two live words of a frame share a place and none lies    *)
(* below the stack pointer.                                                *)
THEOREM ScopesLiveSlots == Spec => []LiveSlots
BY ScopesInvariant, ScopesSlots, PTL

(* The jumps that wait go to constructs of the one function.               *)
LEMMA ScopesJumps == ScopesInv => JumpsBalanced
<1> SUFFICES ASSUME ScopesInv, Plain, NEW j \in jumps
             PROVE  \E i \in DOMAIN frames :
                      /\ frames[i].kind \in {"block", "if", "while"} /\ frames[i].id = j.to
                      /\ frames[SelectLastInSubSeq(frames, 1, i, LAMBDA f : f.kind = "function")].id
                           = j.from
                      /\ j.depth = frames[i].sf
  BY DEF JumpsBalanced
<1>1. PICK i \in 1 .. Len(frames) : frames[i].id = j.to /\ frames[i].kind \in {"block", "if", "while"}
  BY DEF ScopesInv, JumpMatches
<1>2. j.from = frames[1].id /\ j.depth = frames[i].sf
  BY <1>1 DEF ScopesInv, JumpMatches
<1>3. i \in DOMAIN frames /\ frames /= <<>> /\ Len(frames) \in Nat /\ 1 \in 1 .. i
  BY <1>1, ScopesFacts, EmptySeq
<1>4. OneFunction(frames) /\ frames[1].kind = "function"
  BY <1>3 DEF ScopesInv, Plain, Nested
<1>5. {k \in 1 .. i : frames[k].kind = "function"} = {1}
  BY <1>1, <1>3, <1>4 DEF OneFunction
<1>6. SelectLastInSubSeq(frames, 1, i, LAMBDA f : f.kind = "function") = Max({1})
  BY <1>5 DEF SelectLastInSubSeq
<1>7. Max({1}) = 1
  BY DEF Max
<1> QED BY <1>1, <1>2, <1>3, <1>6, <1>7

(* compile_return, compile_break and compile_continue: a jump reaches an   *)
(* open construct of its own function with the stack pointer where that    *)
(* construct began, however deep it left from.                             *)
THEOREM ScopesJumpsBalanced == Spec => []JumpsBalanced
BY ScopesInvariant, ScopesJumps, PTL

(* The last label that fits is the label of the innermost construct that   *)
(* fits: both sequences are ordered by the constructs' numbers.            *)
LEMMA LexicalLabels ==
  ASSUME ScopesInv, Plain, frames /= <<>>, NEW labels \in Seq(AnyLabel),
         NEW kind \in {"block", "while"}, NEW name,
         LabelsMatch(labels, kind, frames, branch), Fresh(labels, frames)
  PROVE  Lexical(labels, kind, name)
<1> DEFINE found == Find(labels, name)
           Fit(l) == name = NoName \/ l.name = name
           S == {i \in 1 .. Len(frames) : frames[i].kind = kind /\ Fit(frames[i])}
           wanted == IF S /= {} THEN Max(S) ELSE 0
<1>1. Innermost(kind, name) = wanted
  BY OnlyFunction DEF Innermost, SelectLastInSubSeq
<1>2. Len(labels) \in Nat /\ Len(frames) \in Nat
  BY LenProperties, ScopesFacts
<1>3. /\ found \in 0 .. Len(labels)
      /\ found = 0 => \A k \in 1 .. Len(labels) : ~Fit(labels[k])
      /\ found /= 0 => Fit(labels[found]) /\ \A k \in 1 .. Len(labels) : Fit(labels[k]) => k <= found
  BY <1>2, FindLast
<1>4. S \subseteq 1 .. Len(frames)
  OBVIOUS
<1>5. S /= {} => wanted \in S /\ \A i \in S : wanted >= i
  BY <1>2, <1>4, MaxOf
<1> HIDE DEF found, wanted
(* A construct that fits has a label that fits, and the other way round.   *)
<1>6. ASSUME NEW i \in S
      PROVE  \E k \in 1 .. Len(labels) : labels[k].id = frames[i].id /\ Fit(labels[k])
  BY DEF LabelsMatch
<1>7. ASSUME NEW k \in 1 .. Len(labels), Fit(labels[k])
      PROVE  \E i \in S : labels[k].id = frames[i].id
  BY <1>7 DEF LabelsMatch, Fresh
<1>8. CASE S = {}
  <2>1. found = 0
    BY <1>3, <1>7, <1>8
  <2> QED BY <1>1, <1>8, <2>1 DEF Lexical, found, wanted
<1>9. CASE S /= {}
  <2>1. wanted \in S /\ wanted /= 0 /\ wanted \in 1 .. Len(frames)
    BY <1>5, <1>9
  <2>2. PICK k \in 1 .. Len(labels) : labels[k].id = frames[wanted].id /\ Fit(labels[k])
    BY <1>6, <2>1
  <2>3. found \in 1 .. Len(labels) /\ k <= found /\ Fit(labels[found])
    BY <1>2, <1>3, <2>2
  <2>4. PICK i \in S : labels[found].id = frames[i].id
    BY <1>7, <2>3
  <2>5. i <= wanted /\ i \in 1 .. Len(frames)
    BY <1>5, <1>9, <2>1, <2>4
  <2>6. labels[found].id = frames[wanted].id
    <3>1. CASE k = found
      BY <2>2, <3>1
    <3>2. CASE k < found
      <4>1. labels[k].id < labels[found].id
        BY <2>2, <2>3, <3>2 DEF LabelsMatch
      <4>2. Sound(frames[i]) /\ Sound(frames[wanted]) /\ frames[i].kind = kind
            /\ frames[wanted].kind = kind
        BY <2>1, <2>4, <2>5 DEF ScopesInv, Nested
      <4>3. frames[i].id /= None /\ frames[wanted].id /= None
        BY <4>2 DEF Sound
      <4>4. frames[i].id \in Int /\ frames[wanted].id \in Int
        BY <2>1, <2>5, ScopesFacts
      <4>5. i < wanted => frames[i].id < frames[wanted].id
        BY <2>1, <2>5, <4>3 DEF ScopesInv, Nested
      <4> QED BY <2>2, <2>4, <2>5, <2>1, <4>1, <4>4, <4>5
    <3> QED BY <2>2, <2>3, <3>1, <3>2
  <2> QED BY <1>1, <2>1, <2>3, <2>6 DEF Lexical, found
<1> QED BY <1>8, <1>9

(* The two label stacks.                                                   *)
LEMMA ScopesLexical == ScopesInv => LabelsAreLexical
<1> SUFFICES ASSUME ScopesInv, Plain, frames /= <<>>, NEW name \in Names \cup {NoName}
             PROVE  Lexical(block_labels, "block", name) /\ Lexical(loop_labels, "while", name)
  BY DEF LabelsAreLexical
<1>1. /\ LabelsMatch(block_labels, "block", frames, branch) /\ Fresh(block_labels, frames)
      /\ LabelsMatch(loop_labels, "while", frames, branch) /\ Fresh(loop_labels, frames)
  BY DEF ScopesInv, Plain
<1> QED BY <1>1, ScopesFacts, LexicalLabels

(* What a name in return, break or continue resolves to is the innermost   *)
(* construct of that name around it: the label stacks, pushed and popped   *)
(* by hand, follow the nesting of the program.                             *)
THEOREM ScopesLabelsLexical == Spec => []LabelsAreLexical
BY ScopesInvariant, ScopesLexical, PTL
===============================================================================
