-------------------------- MODULE CheckErrorsProofs ---------------------------
(***************************************************************************)
(* The theorems of CheckErrors, and of the properties of Driver, for any   *)
(* number of compilers, any commands and jobs, a pipe and a block of any   *)
(* size, and any PATH. The invariant says of a compiler, at each step, what *)
(* its temporary file and its output hold, how much it has in its own pipe *)
(* and how much of its diagnostic is left; and of the call, how what was   *)
(* reported is shared between the pipe and what was read.                  *)
(***************************************************************************)
EXTENDS CheckErrors, SequenceTheorems, TLAPS

Commands == CheckCommands \cup UNION {BuildCommands[p] : p \in Compilers}
AllSettings == {BuildSettings(c) : c \in Commands \cup {<<>>}}

Steps ==
  {"idle", "start", "parse", "unlink", "text", "discard", "build", "ir", "clear", "fork",
   "wait", "clean", "report", "exit", "exited"}

Left == [text : Nat, ir : Nat, err : Nat]

Processes ==
  [pc : Steps, settings : AllSettings,
   helper : {"none", "exec", "nasm", "clean", "exited"},
   text : 0 .. Capacity, status : {0, 1, 3}, left : Left]

FileNames == Outputs \cup Compilers

(* What a compiler is told to do, and what it is to leave: its text is     *)
(* that of the backend it is given, its result the text or the object.     *)
Wanted(p) == BuildSettings(command[p])
ItsForm(p) == IF Wanted(p).backend = "x86_64_asm_legacy" THEN "text" ELSE "ir"
ItsText(p) == Pieces(p, ItsForm(p), job[p][ItsForm(p)])
ItsResult(p) ==
  IF Wanted(p).assemble THEN IF Assembles(p) THEN Object(ItsText(p)) ELSE <<>> ELSE ItsText(p)

(***************************************************************************)
(* The invariant of a compiler: of the record r of where it is, and of     *)
(* what its temporary file and its output hold.                            *)
(***************************************************************************)

(* It has read its settings once it is past the start, and goes on only if *)
(* they are not refused.                                                   *)
Configured(p, r) ==
  /\ r.pc \notin {"idle", "start"} => r.settings = Wanted(p)
  /\ r.pc \notin {"idle", "start", "exited"} => ~Refused(Wanted(p))

(* Where it can be with these settings, and the process it forks.          *)
Staged(p, r) ==
  /\ r.pc \in {"discard", "build", "ir"} => UsesIr(Wanted(p))
  /\ r.pc \in {"clear", "fork", "wait", "clean"} => Wanted(p).assemble
  /\ r.helper \in {"exec", "nasm", "clean"} => r.pc = "wait"
  /\ r.pc = "wait" => r.helper # "none"
  /\ r.helper = "nasm" => PathVariable(p) = "tools"
  /\ r.helper = "clean" => PathVariable(p) # "tools"

(* The temporary file has the text from when it is written until it is     *)
(* removed, by this process or the one it forked, and is not there before  *)
(* or after. At "discard" it may have the text of the first backend.       *)
TempHolds(p, r, temp) ==
  /\ r.pc \in {"clear", "fork"} => temp = ItsText(p)
  /\ r.helper \in {"exec", "nasm"} => temp = ItsText(p)
  /\ r.pc \notin {"discard", "clear", "fork", "wait", "clean"} => temp = <<>>
  /\ r.pc = "discard" /\ ~Wanted(p).assemble => temp = <<>>

(* The output is as it was, not there, or the result.                      *)
OutputHolds(p, r, out) ==
  /\ r.pc \in {"idle", "start", "parse", "unlink"} => out = Old
  /\ r.pc \in {"text", "build"} => out = IF Wanted(p).assemble THEN Old ELSE <<>>
  /\ r.pc = "discard" /\ Wanted(p).assemble => out = Old
  /\ r.pc \in {"report", "clear"} => out \in {Old, <<>>}
  /\ r.pc \in {"ir", "fork"} => out = <<>>
  /\ r.pc = "wait" => out = IF r.helper = "exited" THEN ItsResult(p) ELSE <<>>
  /\ r.pc \in {"clean", "exit"} => out = ItsResult(p)
  /\ r.pc = "exited" =>
       IF r.status = 0 THEN out = ItsResult(p) ELSE out \in {Old, <<>>}

(* What it has generated is in its own pipe, and what was is not more than *)
(* the pipe holds.                                                         *)
Generated(p, r) ==
  /\ r.pc \in {"start", "parse", "unlink", "text"} =>
       r.text + r.left.text = job[p].text /\ r.left.ir = job[p].ir
  /\ r.pc \in {"discard", "build", "ir"} => r.text + r.left.ir = job[p].ir
  /\ /\ r.pc \notin {"idle", "start", "parse", "unlink", "text"}
     /\ ~Refused(Wanted(p))
     /\ job[p].fails \notin {"open", "syntax"}
     => job[p].text <= Capacity
  /\ /\ r.pc \in {"clear", "fork", "wait", "clean", "report", "exit", "exited"}
     /\ ~Refused(Wanted(p)) /\ UsesIr(Wanted(p))
     /\ job[p].fails \notin {"open", "syntax", "compile", "build"}
     => job[p].ir <= Capacity

(* A diagnostic is written where the program is rejected, and all of it.   *)
Rejected(p) == ~Refused(Wanted(p)) /\ job[p].fails \in {"syntax", "compile"}

Reported(p, r) ==
  /\ r.left.err <= job[p].err
  /\ r.pc \notin {"idle", "report", "exited"} => r.left.err = job[p].err
  /\ r.pc = "report" => job[p].fails \in {"syntax", "compile"}
  /\ r.pc \in {"unlink", "text"} => job[p].fails # "syntax"
  /\ r.pc \in {"discard", "build", "ir", "clear", "fork", "wait", "clean", "exit"} =>
       job[p].fails \notin {"syntax", "compile"}
  /\ r.pc = "exited" => r.left.err = IF Rejected(p) THEN 0 ELSE job[p].err

Holds(p, r, temp, out) ==
  /\ Configured(p, r) /\ Staged(p, r) /\ TempHolds(p, r, temp)
  /\ Writes(command[p]) => OutputHolds(p, r, out)
  /\ Generated(p, r) /\ Reported(p, r)

Process(p) == Holds(p, proc[p], files[Temp(p)], files[Wanted(p).output])

(***************************************************************************)
(* The invariant of the call. All compilers run in a build; in a check     *)
(* only the one that is Piped does.                                        *)
(***************************************************************************)
Active(p) == pc = "idle" \/ p = Piped

CallTypes ==
  /\ pc \in {"idle", "fork", "wait", "close", "read", "ok", "fail"}
  /\ child \in {"none", "dup", "exec", "read", "compiler"}
  /\ found \in 0 .. PathDirs
  /\ dir \in 1 .. PathDirs + 1
  /\ writers \subseteq {"caller", "child", "stderr"}
  /\ pipe \in 0 .. Capacity
  /\ blocks \in Nat /\ seen \in Nat
  /\ proc \in [Compilers -> Processes]
  /\ files = [f \in FileNames |-> files[f]]

(* The commands and jobs are those that Init chose.                        *)
Given(p) ==
  IF pc = "idle" THEN command[p] \in BuildCommands[p] /\ job[p] \in BuildJobs
  ELSE command[p] \in CheckCommands /\ job[p] \in CheckJobs

(* What the compiler that is checked with has reported.                    *)
Sent == IF At(Piped, "idle") THEN 0 ELSE job[Piped].err - proc[Piped].left.err

(* What it has reported is in the pipe or read. Nothing is read before it  *)
(* has ended, and every block but the last is full.                        *)
Reading ==
  /\ pc \in {"idle", "fork"} => child = "none"
  /\ pc # "idle" =>
       /\ pipe + seen = Sent
       /\ blocks <= seen
       /\ pipe > 0 => seen = blocks * Block
       /\ pc \in {"fork", "wait", "close"} => blocks = 0 /\ seen = 0
       /\ pc \in {"close", "read", "ok", "fail"} => At(Piped, "exited")
       /\ pc \in {"ok", "fail"} => pipe = 0
       /\ child # "compiler" => At(Piped, "idle")
       /\ child = "compiler" => found > 0
       /\ At(Piped, "exited") => job[Piped].err <= Capacity \/ Refused(Wanted(Piped))
  /\ pc = "idle" => blocks = 0 /\ seen = 0

Others == \A p \in Compilers : ~Active(p) => proc[p].pc = "idle" /\ proc[p].helper = "none"

CallInv ==
  /\ CallTypes
  /\ \A p \in Compilers : Given(p)
  /\ \A p \in Compilers : Active(p) => Process(p)
  /\ Others
  /\ Reading

(***************************************************************************)
(* The operators of Driver.                                                *)
(***************************************************************************)

(* "-a" says both.                                                         *)
LEMMA AssembleCompiles ==
  ASSUME NEW argv, BuildSettings(argv).assemble
  PROVE  BuildSettings(argv).compile
BY DEF BuildSettings

(* What is not refused has a file to write where it compiles.              *)
LEMMA NotRefused ==
  ASSUME NEW argv, ~Refused(BuildSettings(argv)), BuildSettings(argv).compile
  PROVE  Writes(argv)
BY DEF Refused, Writes

(* A text written to a file that is empty, or not there, is what it holds. *)
LEMMA OverwritesEmpty ==
  ASSUME NEW p, NEW form, NEW n \in Nat
  PROVE  Overwritten(<<>>, Pieces(p, form, n)) = Pieces(p, form, n)
<1> DEFINE new == Pieces(p, form, n)
           S == {Piece(p, form)}
<1>1. new \in Seq(S)
  BY DEF Pieces
<1>2. Len(new) = n
  BY DEF Pieces
<1>3. SubSeq(<<>>, n + 1, 0) = <<>>
  BY SubSeqEmpty, EmptySeq
<1>4. new \o <<>> = new
  BY <1>1, ConcatEmptySeq
<1> QED
  BY <1>2, <1>3, <1>4 DEF Overwritten

(* An assignment to one file.                                              *)
LEMMA OneFile ==
  ASSUME files = [f \in FileNames |-> files[f]], NEW name \in FileNames, NEW x,
         files' = [files EXCEPT ![name] = x]
  PROVE  /\ files' = [f \in FileNames |-> files'[f]]
         /\ files'[name] = x
         /\ \A f \in FileNames : f # name => files'[f] = files[f]
OBVIOUS

(* What a compiler is told, and what it is to leave, stays.                *)
LEMMA WorkStays ==
  ASSUME NEW p, UNCHANGED <<command, envp, job>>
  PROVE  /\ command'[p] = command[p] /\ job'[p] = job[p] /\ Wanted(p)' = Wanted(p)
         /\ PathVariable(p)' = PathVariable(p)
         /\ ItsText(p)' = ItsText(p) /\ ItsResult(p)' = ItsResult(p)
         /\ Rejected(p)' = Rejected(p)
<1>1. command'[p] = command[p] /\ job'[p] = job[p] /\ Wanted(p)' = Wanted(p)
  BY DEF Wanted
<1>2. PathVariable(p)' = PathVariable(p)
  BY DEF PathVariable
<1>3. ItsText(p)' = ItsText(p)
  BY <1>1 DEF ItsText, ItsForm
<1>4. ItsResult(p)' = ItsResult(p)
  BY <1>1, <1>2, <1>3 DEF ItsResult, Assembles
<1>5. Rejected(p)' = Rejected(p)
  BY <1>1 DEF Rejected
<1> QED
  BY <1>1, <1>2, <1>3, <1>4, <1>5

(* The invariant of a compiler after a step, from what the step leaves.    *)
LEMMA HoldsNext ==
  ASSUME NEW p, UNCHANGED <<command, envp, job>>,
         Holds(p, proc'[p], files'[p], files'[Wanted(p).output])
  PROVE  Process(p)'
<1>1. /\ command'[p] = command[p] /\ job'[p] = job[p] /\ Wanted(p)' = Wanted(p)
      /\ PathVariable(p)' = PathVariable(p)
      /\ ItsText(p)' = ItsText(p) /\ ItsResult(p)' = ItsResult(p)
      /\ Rejected(p)' = Rejected(p)
  BY WorkStays
<1>2. Configured(p, proc[p])'
  BY <1>1 DEF Holds, Configured
<1>3. Staged(p, proc[p])'
  BY <1>1 DEF Holds, Staged
<1>4. TempHolds(p, proc[p], files[p])'
  BY <1>1 DEF Holds, TempHolds
<1>5. Writes(command[p])' => OutputHolds(p, proc[p], files[Wanted(p).output])'
  BY <1>1 DEF Holds, OutputHolds
<1>6. Generated(p, proc[p])'
  BY <1>1 DEF Holds, Generated
<1>7. Reported(p, proc[p])'
  BY <1>1 DEF Holds, Reported
<1> QED
  BY <1>2, <1>3, <1>4, <1>5, <1>6, <1>7 DEF Process, Holds, Temp

(***************************************************************************)
(* A step of a compiler, or of the process it forked. It finds the types,  *)
(* a job, an output that is one of the files, and the invariant.           *)
(***************************************************************************)
Ready(p) ==
  /\ proc \in [Compilers -> Processes]
  /\ files = [f \in FileNames |-> files[f]]
  /\ pipe \in 0 .. Capacity
  /\ job[p].fails \in Stages /\ job[p].text \in Nat /\ job[p].ir \in Nat /\ job[p].err \in Nat
  /\ Wanted(p) \in AllSettings
  /\ Writes(command[p]) => Wanted(p).output \in Outputs
  /\ Process(p)

(* It changes no file but its own temporary one and its own output.        *)
OwnFiles(p) ==
  /\ files' = [f \in FileNames |-> files'[f]]
  /\ \A f \in FileNames :
       f # p /\ (Writes(command[p]) => f # Wanted(p).output) => files'[f] = files[f]

(* It changes its own record and files, and what it takes from its         *)
(* diagnostic it puts into the pipe.                                       *)
Moves(p) ==
  /\ UNCHANGED <<command, envp, job>>
  /\ proc' \in [Compilers -> Processes]
  /\ \A q \in Compilers : q # p => proc'[q] = proc[q]
  /\ OwnFiles(p)
  /\ pipe' \in 0 .. Capacity
  /\ IF p = Piped THEN pipe' + proc'[p].left.err = pipe + proc[p].left.err ELSE pipe' = pipe
  /\ proc[p].pc \notin {"idle", "exited"} /\ proc'[p].pc # "idle"

(* A step that takes nothing from the diagnostic.                          *)
LEMMA Quietly ==
  ASSUME NEW p \in Compilers, Ready(p), NEW r \in Processes,
         proc' = [proc EXCEPT ![p] = r], UNCHANGED <<command, envp, job, pipe>>, OwnFiles(p),
         proc[p].pc \notin {"idle", "exited"}, r.pc # "idle", r.left.err = proc[p].left.err
  PROVE  Moves(p) /\ proc'[p] = r
<1>1. proc'[p] = r /\ proc' \in [Compilers -> Processes]
      /\ \A q \in Compilers : q # p => proc'[q] = proc[q]
  BY DEF Ready
<1>2. proc[p] \in Processes /\ pipe \in Nat
  BY DriverAssumption DEF Ready
<1>3. proc[p].left.err \in Nat
  BY <1>2 DEF Processes, Left
<1> QED
  BY <1>1, <1>2, <1>3 DEF Ready, Moves

(* What a compiler knows of its files while it runs.                       *)
LEMMA WhereItWrites ==
  ASSUME NEW p \in Compilers, Ready(p), proc[p].pc \notin {"idle", "start", "exited"}
  PROVE  /\ Settings(p) = Wanted(p) /\ ~Refused(Wanted(p))
         /\ p \in FileNames /\ p # Absent
         /\ Writes(command[p]) => /\ Wanted(p).output \in FileNames /\ Wanted(p).output # p
                                  /\ Wanted(p).output # Absent /\ Wanted(p).compile
         /\ Wanted(p).assemble => Writes(command[p]) /\ CompileOutput(p) = p
         /\ ~Wanted(p).assemble /\ Writes(command[p]) => CompileOutput(p) = Wanted(p).output
         /\ ~Writes(command[p]) => CompileOutput(p) = Absent /\ ~Wanted(p).compile
<1>1. Settings(p) = Wanted(p) /\ ~Refused(Wanted(p))
  BY DEF Ready, Process, Holds, Configured, Settings
<1>2. p \in FileNames /\ p # Absent /\ p \notin Outputs
  BY OutputsAssumption DEF FileNames
<1>3. Writes(command[p]) => /\ Wanted(p).output \in FileNames /\ Wanted(p).output # p
                            /\ Wanted(p).output # Absent /\ Wanted(p).compile
  BY <1>2 DEF Ready, FileNames, Writes, Wanted
<1>4. Wanted(p).assemble => Wanted(p).compile
  BY AssembleCompiles DEF Wanted
<1>5. Wanted(p).compile <=> Writes(command[p])
  BY <1>1, <1>3, NotRefused DEF Wanted
<1>6. Wanted(p).assemble => Writes(command[p]) /\ CompileOutput(p) = p
  BY <1>1, <1>4, <1>5 DEF CompileOutput, Temp
<1>7. ~Wanted(p).assemble /\ Writes(command[p]) => CompileOutput(p) = Wanted(p).output
  BY <1>1, <1>5 DEF CompileOutput
<1>8. ~Writes(command[p]) => CompileOutput(p) = Absent /\ ~Wanted(p).compile
  BY <1>1, <1>4, <1>5 DEF CompileOutput
<1> QED
  BY <1>1, <1>2, <1>3, <1>6, <1>7, <1>8

(* A step that leaves the files.                                           *)
LEMMA NoFile ==
  ASSUME NEW p, Ready(p), UNCHANGED files
  PROVE  OwnFiles(p)
BY DEF Ready, OwnFiles

(* A step that changes the temporary file.                                 *)
LEMMA TempFile ==
  ASSUME NEW p \in Compilers, Ready(p), proc[p].pc \notin {"idle", "start", "exited"},
         Wanted(p).assemble, NEW x, files' = [files EXCEPT ![CompileOutput(p)] = x]
  PROVE  /\ OwnFiles(p) /\ files'[p] = x
         /\ files'[Wanted(p).output] = files[Wanted(p).output]
<1>1. CompileOutput(p) = p /\ p \in FileNames
      /\ Wanted(p).output \in FileNames /\ Wanted(p).output # p
  BY WhereItWrites
<1>2. /\ files' = [f \in FileNames |-> files'[f]] /\ files'[p] = x
      /\ \A f \in FileNames : f # p => files'[f] = files[f]
  BY <1>1, OneFile DEF Ready
<1> QED
  BY <1>1, <1>2 DEF OwnFiles

(* A step that changes the output.                                         *)
LEMMA OutputFile ==
  ASSUME NEW p \in Compilers, Ready(p), proc[p].pc \notin {"idle", "start", "exited"},
         Writes(command[p]), NEW x, files' = [files EXCEPT ![Wanted(p).output] = x]
  PROVE  OwnFiles(p) /\ files'[p] = files[p] /\ files'[Wanted(p).output] = x
<1>1. p \in FileNames /\ Wanted(p).output \in FileNames /\ Wanted(p).output # p
  BY WhereItWrites
<1>2. /\ files' = [f \in FileNames |-> files'[f]] /\ files'[Wanted(p).output] = x
      /\ \A f \in FileNames : f # Wanted(p).output => files'[f] = files[f]
  BY <1>1, OneFile DEF Ready
<1> QED
  BY <1>1, <1>2 DEF OwnFiles

(* The file the text goes to is removed: the temporary one or the output.  *)
LEMMA Unlinks ==
  ASSUME NEW p \in Compilers, Ready(p), proc[p].pc \notin {"idle", "start", "exited"},
         files' = Unlink(CompileOutput(p))
  PROVE  /\ OwnFiles(p)
         /\ files'[p] = IF Wanted(p).assemble THEN <<>> ELSE files[p]
         /\ Writes(command[p]) =>
              files'[Wanted(p).output] =
                IF Wanted(p).assemble THEN files[Wanted(p).output] ELSE <<>>
<1>1. CASE Wanted(p).assemble
  <2>1. files' = [files EXCEPT ![CompileOutput(p)] = <<>>]
    BY <1>1, WhereItWrites DEF Unlink
  <2> QED
    BY <1>1, <2>1, TempFile
<1>2. CASE ~Wanted(p).assemble /\ Writes(command[p])
  <2>1. files' = [files EXCEPT ![Wanted(p).output] = <<>>]
    BY <1>2, WhereItWrites DEF Unlink
  <2> QED
    BY <1>2, <2>1, OutputFile
<1>3. CASE ~Writes(command[p])
  <2>1. files' = files /\ ~Wanted(p).assemble
    BY <1>3, WhereItWrites DEF Unlink
  <2> QED
    BY <1>3, <2>1, NoFile
<1> QED
  BY <1>1, <1>2, <1>3

(* The text is written to it, where it is empty.                           *)
LEMMA WritesText ==
  ASSUME NEW p \in Compilers, Ready(p), proc[p].pc \notin {"idle", "start", "exited"},
         NEW form, NEW n \in Nat, files' = WriteFile(CompileOutput(p), Pieces(p, form, n)),
         Wanted(p).assemble => files[p] = <<>>,
         ~Wanted(p).assemble /\ Writes(command[p]) => files[Wanted(p).output] = <<>>
  PROVE  /\ OwnFiles(p)
         /\ files'[p] = IF Wanted(p).assemble THEN Pieces(p, form, n) ELSE files[p]
         /\ Writes(command[p]) =>
              files'[Wanted(p).output] =
                IF Wanted(p).assemble THEN files[Wanted(p).output] ELSE Pieces(p, form, n)
<1> DEFINE text == Pieces(p, form, n)
<1>0. Overwritten(<<>>, text) = text
  BY OverwritesEmpty
<1> HIDE DEF text
<1>1. CASE Wanted(p).assemble
  <2>1. CompileOutput(p) = p /\ p \in FileNames /\ p # Absent /\ files[p] = <<>>
    BY <1>1, WhereItWrites
  <2>2. files' = [files EXCEPT ![CompileOutput(p)] = text]
    BY <2>1, <1>0 DEF WriteFile, text
  <2> QED
    BY <1>1, <2>2, TempFile DEF text
<1>2. CASE ~Wanted(p).assemble /\ Writes(command[p])
  <2>1. CompileOutput(p) = Wanted(p).output /\ Wanted(p).output # Absent
        /\ files[Wanted(p).output] = <<>>
    BY <1>2, WhereItWrites
  <2>2. files' = [files EXCEPT ![Wanted(p).output] = text]
    BY <2>1, <1>0 DEF WriteFile, text
  <2> QED
    BY <1>2, <2>2, OutputFile DEF text
<1>3. CASE ~Writes(command[p])
  <2>1. files' = files /\ ~Wanted(p).assemble
    BY <1>3, WhereItWrites DEF WriteFile
  <2> QED
    BY <1>3, <2>1, NoFile
<1> QED
  BY <1>1, <1>2, <1>3

(* What the invariant says of a compiler that is to take a step.           *)
LEMMA Found ==
  ASSUME NEW p \in Compilers, Ready(p)
  PROVE  proc[p] \in Processes /\ Holds(p, proc[p], files[p], files[Wanted(p).output])
BY DEF Ready, Process, Temp

(* A step from the record that is left and from what the files then hold.  *)
LEMMA Leaves ==
  ASSUME NEW p \in Compilers, Ready(p), NEW r \in Processes,
         proc' = [proc EXCEPT ![p] = r], UNCHANGED <<command, envp, job, pipe>>, OwnFiles(p),
         proc[p].pc \notin {"idle", "exited"}, r.pc # "idle", r.left.err = proc[p].left.err,
         Holds(p, r, files'[p], files'[Wanted(p).output])
  PROVE  Moves(p) /\ Process(p)'
<1>1. Moves(p) /\ proc'[p] = r
  BY Quietly
<1> QED
  BY <1>1, HoldsNext

(* The record of a compiler that goes to another place, or ends.           *)
LEMMA GoesTo ==
  ASSUME NEW p \in Compilers, Ready(p), NEW at \in Steps, Goes(p, at)
  PROVE  \E r \in Processes :
           /\ proc' = [proc EXCEPT ![p] = r]
           /\ r.pc = at /\ r.settings = proc[p].settings /\ r.helper = proc[p].helper
           /\ r.text = proc[p].text /\ r.status = proc[p].status /\ r.left = proc[p].left
<1> DEFINE r == [proc[p] EXCEPT !.pc = at]
<1>1. proc' = [proc EXCEPT ![p] = r] /\ proc[p] \in Processes
  BY DEF Goes, Ready
<1>2. r \in Processes /\ r.pc = at /\ r.settings = proc[p].settings
      /\ r.helper = proc[p].helper /\ r.text = proc[p].text /\ r.status = proc[p].status
      /\ r.left = proc[p].left
  BY <1>1 DEF Processes
<1> QED
  BY <1>1, <1>2

(* The record of one that ends.                                            *)
LEMMA ExitsWith ==
  ASSUME NEW p \in Compilers, Ready(p), NEW status \in {0, 1, 3}, Exits(p, status)
  PROVE  \E r \in Processes :
           /\ proc' = [proc EXCEPT ![p] = r]
           /\ r.pc = "exited" /\ r.settings = proc[p].settings /\ r.helper = proc[p].helper
           /\ r.text = proc[p].text /\ r.status = status /\ r.left = proc[p].left
<1> DEFINE r == [[proc[p] EXCEPT !.pc = "exited"] EXCEPT !.status = status]
<1>1. proc' = [proc EXCEPT ![p] = r] /\ proc[p] \in Processes
  BY DEF Exits, Ready
<1>2. r \in Processes /\ r.pc = "exited" /\ r.settings = proc[p].settings
      /\ r.helper = proc[p].helper /\ r.text = proc[p].text /\ r.status = status
      /\ r.left = proc[p].left
  BY <1>1 DEF Processes, Steps
<1> QED
  BY <1>1, <1>2

(* Without arguments nothing is to be written.                             *)
LEMMA NoArguments == ~Writes(<<>>)
<1>1. DOMAIN <<>> = {}
  OBVIOUS
<1>2. ~BuildSettings(<<>>).compile
  BY <1>1 DEF BuildSettings
<1> QED
  BY <1>2 DEF Writes

(* build_settings. The settings are what the arguments say.                *)
LEMMA StartStep ==
  ASSUME NEW p \in Compilers, Ready(p), Start(p)
  PROVE  Moves(p) /\ Process(p)'
<1> DEFINE r0 == proc[p]
           out == files[Wanted(p).output]
<1>1. r0 \in Processes /\ Holds(p, r0, files[p], out) /\ r0.pc = "start"
  BY Found DEF Start, At
<1>2. UNCHANGED <<command, envp, job, files, pipe>> /\ OwnFiles(p)
  BY NoFile DEF Start
<1> DEFINE status == IF Refused(Wanted(p)) /\ command[p] # <<>> THEN 1 ELSE 0
           r1 == [r0 EXCEPT !.settings = Wanted(p)]
           r2 == [r1 EXCEPT !.status = status]
<1>3. r1 \in Processes /\ r1.settings = Wanted(p) /\ r1.helper = r0.helper
      /\ r1.text = r0.text /\ r1.left = r0.left
  BY <1>1 DEF Ready, Processes
<1> HIDE DEF r1
<1>4. r2 \in Processes /\ r2.settings = Wanted(p) /\ r2.helper = r0.helper
      /\ r2.text = r0.text /\ r2.left = r0.left /\ r2.status = status
  BY <1>3 DEF Processes
<1> HIDE DEF r2
<1>5. CASE Refused(Wanted(p))
  <2> DEFINE r == [r2 EXCEPT !.pc = "exited"]
  <2>1. proc' = [proc EXCEPT ![p] = r]
    BY <1>5 DEF Start, Ready, Wanted, r1, r2
  <2>2. r \in Processes /\ r.settings = Wanted(p) /\ r.helper = r0.helper
        /\ r.text = r0.text /\ r.left = r0.left /\ r.status = status /\ r.pc = "exited"
    BY <1>4, <1>5 DEF Processes, Steps
  <2> HIDE DEF r
  <2>3. Writes(command[p]) => r.status = 1
    BY <1>5, <2>2, NoArguments
  <2> HIDE DEF status
  <2>4. Holds(p, r, files[p], out)
    BY <1>1, <1>5, <2>2, <2>3
       DEF Holds, Configured, Staged, TempHolds, OutputHolds, Generated, Reported, Rejected
  <2> QED
    BY <1>1, <1>2, <2>1, <2>2, <2>4, Leaves
<1>6. CASE ~Refused(Wanted(p))
  <2> DEFINE r == [r2 EXCEPT !.pc = "parse"]
  <2>1. proc' = [proc EXCEPT ![p] = r]
    BY <1>6 DEF Start, Ready, Wanted, r1, r2
  <2>2. r \in Processes /\ r.settings = Wanted(p) /\ r.helper = r0.helper
        /\ r.text = r0.text /\ r.left = r0.left /\ r.status = 0 /\ r.pc = "parse"
    BY <1>4, <1>6 DEF Processes, Steps
  <2> HIDE DEF r
  <2>3. Holds(p, r, files[p], out)
    BY <1>1, <1>6, <2>2
       DEF Holds, Configured, Staged, TempHolds, OutputHolds, Generated, Reported, Rejected
  <2> QED
    BY <1>1, <1>2, <2>1, <2>2, <2>3, Leaves
<1> QED
  BY <1>5, <1>6

(* The file is not there, is rejected, or is a program.                    *)
LEMMA ParseStep ==
  ASSUME NEW p \in Compilers, Ready(p), Parse(p)
  PROVE  Moves(p) /\ Process(p)'
<1> DEFINE r0 == proc[p]
           out == files[Wanted(p).output]
<1>1. r0 \in Processes /\ Holds(p, r0, files[p], out) /\ r0.pc = "parse"
  BY Found DEF Parse, At
<1>2. UNCHANGED <<command, envp, job, files, pipe>> /\ OwnFiles(p)
  BY NoFile DEF Parse
<1>3. CASE job[p].fails = "open"
  <2>1. PICK r \in Processes :
         /\ proc' = [proc EXCEPT ![p] = r]
         /\ r.pc = "exited" /\ r.settings = r0.settings /\ r.helper = r0.helper
         /\ r.text = r0.text /\ r.status = 1 /\ r.left = r0.left
    BY <1>1, <1>3, ExitsWith DEF Parse
  <2>2. Holds(p, r, files[p], out)
    BY <1>1, <1>3, <2>1
       DEF Holds, Configured, Staged, TempHolds, OutputHolds, Generated, Reported, Rejected
  <2> QED
    BY <1>1, <1>2, <2>1, <2>2, Leaves
<1>4. CASE job[p].fails = "syntax"
  <2>1. PICK r \in Processes :
         /\ proc' = [proc EXCEPT ![p] = r]
         /\ r.pc = "report" /\ r.settings = r0.settings /\ r.helper = r0.helper
         /\ r.text = r0.text /\ r.status = r0.status /\ r.left = r0.left
    BY <1>1, <1>4, GoesTo DEF Parse, Steps
  <2>2. Holds(p, r, files[p], out)
    BY <1>1, <1>4, <2>1
       DEF Holds, Configured, Staged, TempHolds, OutputHolds, Generated, Reported, Rejected
  <2> QED
    BY <1>1, <1>2, <2>1, <2>2, Leaves
<1>5. CASE job[p].fails \notin {"open", "syntax"}
  <2>1. PICK r \in Processes :
         /\ proc' = [proc EXCEPT ![p] = r]
         /\ r.pc = "unlink" /\ r.settings = r0.settings /\ r.helper = r0.helper
         /\ r.text = r0.text /\ r.status = r0.status /\ r.left = r0.left
    BY <1>1, <1>5, GoesTo DEF Parse, Steps
  <2>2. Holds(p, r, files[p], out)
    BY <1>1, <1>5, <2>1
       DEF Holds, Configured, Staged, TempHolds, OutputHolds, Generated, Reported, Rejected
  <2> QED
    BY <1>1, <1>2, <2>1, <2>2, Leaves
<1> QED
  BY <1>3, <1>4, <1>5

(* What is written over is removed before.                                 *)
LEMMA UnlinkTextStep ==
  ASSUME NEW p \in Compilers, Ready(p), UnlinkText(p)
  PROVE  Moves(p) /\ Process(p)'
<1> DEFINE r0 == proc[p]
           out == files[Wanted(p).output]
<1>1. r0 \in Processes /\ Holds(p, r0, files[p], out) /\ r0.pc = "unlink"
  BY Found DEF UnlinkText, At
<1>2. UNCHANGED <<command, envp, job, pipe>>
  BY DEF UnlinkText
<1>3. /\ OwnFiles(p)
      /\ files'[p] = IF Wanted(p).assemble THEN <<>> ELSE files[p]
      /\ Writes(command[p]) =>
           files'[Wanted(p).output] = IF Wanted(p).assemble THEN out ELSE <<>>
  BY <1>1, Unlinks DEF UnlinkText
<1>4. PICK r \in Processes :
       /\ proc' = [proc EXCEPT ![p] = r]
       /\ r.pc = "text" /\ r.settings = r0.settings /\ r.helper = r0.helper
       /\ r.text = r0.text /\ r.status = r0.status /\ r.left = r0.left
  BY GoesTo DEF UnlinkText, Steps
<1>5. Holds(p, r, files'[p], files'[Wanted(p).output])
  BY <1>1, <1>3, <1>4
     DEF Holds, Configured, Staged, TempHolds, OutputHolds, Generated, Reported, Rejected
<1> QED
  BY <1>1, <1>2, <1>3, <1>4, <1>5, Leaves

(* The text of the first backend is removed.                               *)
LEMMA UnlinkAgainStep ==
  ASSUME NEW p \in Compilers, Ready(p), UnlinkAgain(p)
  PROVE  Moves(p) /\ Process(p)'
<1> DEFINE r0 == proc[p]
           out == files[Wanted(p).output]
<1>1. r0 \in Processes /\ Holds(p, r0, files[p], out) /\ r0.pc = "discard"
  BY Found DEF UnlinkAgain, At
<1>2. UNCHANGED <<command, envp, job, pipe>>
  BY DEF UnlinkAgain
<1>3. /\ OwnFiles(p)
      /\ files'[p] = IF Wanted(p).assemble THEN <<>> ELSE files[p]
      /\ Writes(command[p]) =>
           files'[Wanted(p).output] = IF Wanted(p).assemble THEN out ELSE <<>>
  BY <1>1, Unlinks DEF UnlinkAgain
<1>4. PICK r \in Processes :
       /\ proc' = [proc EXCEPT ![p] = r]
       /\ r.pc = "build" /\ r.settings = r0.settings /\ r.helper = r0.helper
       /\ r.text = r0.text /\ r.status = r0.status /\ r.left = r0.left
  BY GoesTo DEF UnlinkAgain, Steps
<1>5. Holds(p, r, files'[p], files'[Wanted(p).output])
  BY <1>1, <1>3, <1>4
     DEF Holds, Configured, Staged, TempHolds, OutputHolds, Generated, Reported, Rejected
<1> QED
  BY <1>1, <1>2, <1>3, <1>4, <1>5, Leaves

(* A piece of the text of either backend goes to the compiler's own pipe.  *)
LEMMA GenerateStep ==
  ASSUME NEW p \in Compilers, Ready(p), NEW form \in {"text", "ir"}, Generate(p, form)
  PROVE  Moves(p) /\ Process(p)'
<1> DEFINE r0 == proc[p]
           out == files[Wanted(p).output]
<1>1. ASSUME Generate(p, "text")
      PROVE  Moves(p) /\ Process(p)'
  <2>1. r0 \in Processes /\ Holds(p, r0, files[p], out) /\ r0.pc = "text"
    BY <1>1, Found DEF Generate, At
  <2>2. UNCHANGED <<command, envp, job, files, pipe>> /\ OwnFiles(p)
    BY <1>1, NoFile DEF Generate
  <2> DEFINE left == [r0.left EXCEPT !["text"] = @ - 1]
             r1 == [r0 EXCEPT !.text = @ + 1]
             r == [r1 EXCEPT !.left = left]
  <2>3. proc' = [proc EXCEPT ![p] = r]
    BY <1>1, <2>1 DEF Generate, Ready, Processes
  <2>4. r0.left \in Left /\ r0.left.text \in Nat \ {0} /\ r0.text + 1 \in 0 .. Capacity
        /\ r0.text \in Nat
    BY <1>1, <2>1, DriverAssumption DEF Generate, Processes, Left
  <2>5. left \in Left /\ left.text = r0.left.text - 1 /\ left.ir = r0.left.ir
        /\ left.err = r0.left.err
    BY <2>4 DEF Left
  <2> HIDE DEF left
  <2>6. r1 \in Processes /\ r1.pc = r0.pc /\ r1.settings = r0.settings
        /\ r1.helper = r0.helper /\ r1.text = r0.text + 1 /\ r1.status = r0.status
    BY <2>1, <2>4 DEF Processes
  <2> HIDE DEF r1
  <2>7. r \in Processes /\ r.pc = r0.pc /\ r.settings = r0.settings
        /\ r.helper = r0.helper /\ r.text = r0.text + 1 /\ r.status = r0.status
        /\ r.left = left
    BY <2>5, <2>6 DEF Processes
  <2> HIDE DEF r
  <2>8. Configured(p, r) /\ Staged(p, r) /\ TempHolds(p, r, files[p])
        /\ (Writes(command[p]) => OutputHolds(p, r, out))
    BY <2>1, <2>7 DEF Holds, Configured, Staged, TempHolds, OutputHolds
  <2>9. Generated(p, r) /\ Reported(p, r)
    BY <2>1, <2>4, <2>5, <2>7 DEF Holds, Generated, Reported, Ready
  <2>10. Holds(p, r, files[p], out)
    BY <2>8, <2>9 DEF Holds
  <2> QED
    BY <2>1, <2>2, <2>3, <2>5, <2>7, <2>10, Leaves
<1>2. ASSUME Generate(p, "ir")
      PROVE  Moves(p) /\ Process(p)'
  <2>1. r0 \in Processes /\ Holds(p, r0, files[p], out) /\ r0.pc = "ir"
    BY <1>2, Found DEF Generate, At
  <2>2. UNCHANGED <<command, envp, job, files, pipe>> /\ OwnFiles(p)
    BY <1>2, NoFile DEF Generate
  <2> DEFINE left == [r0.left EXCEPT !["ir"] = @ - 1]
             r1 == [r0 EXCEPT !.text = @ + 1]
             r == [r1 EXCEPT !.left = left]
  <2>3. proc' = [proc EXCEPT ![p] = r]
    BY <1>2, <2>1 DEF Generate, Ready, Processes
  <2>4. r0.left \in Left /\ r0.left.ir \in Nat \ {0} /\ r0.text + 1 \in 0 .. Capacity
        /\ r0.text \in Nat
    BY <1>2, <2>1, DriverAssumption DEF Generate, Processes, Left
  <2>5. left \in Left /\ left.ir = r0.left.ir - 1 /\ left.text = r0.left.text
        /\ left.err = r0.left.err
    BY <2>4 DEF Left
  <2> HIDE DEF left
  <2>6. r1 \in Processes /\ r1.pc = r0.pc /\ r1.settings = r0.settings
        /\ r1.helper = r0.helper /\ r1.text = r0.text + 1 /\ r1.status = r0.status
    BY <2>1, <2>4 DEF Processes
  <2> HIDE DEF r1
  <2>7. r \in Processes /\ r.pc = r0.pc /\ r.settings = r0.settings
        /\ r.helper = r0.helper /\ r.text = r0.text + 1 /\ r.status = r0.status
        /\ r.left = left
    BY <2>5, <2>6 DEF Processes
  <2> HIDE DEF r
  <2>8. Configured(p, r) /\ Staged(p, r) /\ TempHolds(p, r, files[p])
        /\ (Writes(command[p]) => OutputHolds(p, r, out))
    BY <2>1, <2>7 DEF Holds, Configured, Staged, TempHolds, OutputHolds
  <2>9. Generated(p, r) /\ Reported(p, r)
    BY <2>1, <2>4, <2>5, <2>7 DEF Holds, Generated, Reported, Ready
  <2>10. Holds(p, r, files[p], out)
    BY <2>8, <2>9 DEF Holds
  <2> QED
    BY <2>1, <2>2, <2>3, <2>5, <2>7, <2>10, Leaves
<1> QED
  BY <1>1, <1>2

(* The text is written, or an error was met on the way.                    *)
LEMMA FlushStep ==
  ASSUME NEW p \in Compilers, Ready(p), Flush(p)
  PROVE  Moves(p) /\ Process(p)'
<1> DEFINE r0 == proc[p]
           out == files[Wanted(p).output]
<1>1. r0 \in Processes /\ Holds(p, r0, files[p], out) /\ r0.pc = "text" /\ r0.left.text = 0
  BY Found DEF Flush, At
<1>2. UNCHANGED <<command, envp, job, pipe>>
  BY DEF Flush
<1>3. Settings(p) = Wanted(p) /\ (Wanted(p).compile <=> Writes(command[p]))
      /\ (Wanted(p).assemble => Wanted(p).compile)
  BY <1>1, WhereItWrites
<1>4. CASE job[p].fails = "compile"
  <2>1. PICK r \in Processes :
         /\ proc' = [proc EXCEPT ![p] = r]
         /\ r.pc = "report" /\ r.settings = r0.settings /\ r.helper = r0.helper
         /\ r.text = r0.text /\ r.status = r0.status /\ r.left = r0.left
    BY <1>4, GoesTo DEF Flush, Steps
  <2>2. UNCHANGED files /\ OwnFiles(p)
    BY <1>4, NoFile DEF Flush
  <2>3. job[p].text <= Capacity
    BY <1>1, DriverAssumption DEF Holds, Generated, Processes, Ready
  <2>4. Holds(p, r, files[p], out)
    BY <1>1, <1>4, <2>1, <2>3
       DEF Holds, Configured, Staged, TempHolds, OutputHolds, Generated, Reported, Rejected
  <2> QED
    BY <1>1, <1>2, <2>1, <2>2, <2>4, Leaves
<1>5. CASE job[p].fails # "compile"
  <2>1. /\ OwnFiles(p)
        /\ files'[p] = IF Wanted(p).assemble THEN Pieces(p, "text", job[p].text) ELSE files[p]
        /\ Writes(command[p]) =>
             files'[Wanted(p).output] =
               IF Wanted(p).assemble THEN out ELSE Pieces(p, "text", job[p].text)
    <3>1. files' = WriteFile(CompileOutput(p), Pieces(p, "text", job[p].text))
      BY <1>5 DEF Flush
    <3>2. (Wanted(p).assemble => files[p] = <<>>)
          /\ (~Wanted(p).assemble /\ Writes(command[p]) => out = <<>>)
      BY <1>1 DEF Holds, TempHolds, OutputHolds
    <3>3. job[p].text \in Nat
      BY DEF Ready
    <3> QED
      BY <1>1, <3>1, <3>2, <3>3, WritesText
  <2>2. job[p].text <= Capacity
    BY <1>1, DriverAssumption DEF Holds, Generated, Processes, Ready
  <2> DEFINE r1 == [r0 EXCEPT !.text = 0]
             to == CASE ~Wanted(p).compile -> "exit"
                     [] Wanted(p).compile /\ Wanted(p).backend # "x86_64_asm_legacy" -> "discard"
                     [] OTHER -> IF Wanted(p).assemble THEN "clear" ELSE "exit"
             r == [r1 EXCEPT !.pc = to]
  <2>3. proc' = [proc EXCEPT ![p] = r]
    BY <1>3, <1>5 DEF Flush, Ready
  <2>4. r1 \in Processes /\ r1.settings = r0.settings /\ r1.helper = r0.helper
        /\ r1.text = 0 /\ r1.status = r0.status /\ r1.left = r0.left
    BY <1>1, DriverAssumption DEF Processes
  <2> HIDE DEF r1
  <2>5. to \in Steps
    BY DEF Steps
  <2>6. to = IF UsesIr(Wanted(p)) THEN "discard"
             ELSE IF Wanted(p).assemble THEN "clear" ELSE "exit"
    BY <1>3 DEF UsesIr
  <2> HIDE DEF to
  <2>7. r \in Processes /\ r.pc = to /\ r.settings = r0.settings /\ r.helper = r0.helper
        /\ r.text = 0 /\ r.status = r0.status /\ r.left = r0.left
    BY <2>4, <2>5 DEF Processes
  <2> HIDE DEF r
  <2>8. Holds(p, r, files'[p], files'[Wanted(p).output])
    <3>1. CASE UsesIr(Wanted(p))
      <4>1. r.pc = "discard" /\ job[p].ir \in Nat
        BY <2>6, <2>7, <3>1 DEF Ready
      <4>2. Configured(p, r) /\ Staged(p, r) /\ Reported(p, r)
        BY <1>1, <1>5, <2>7, <3>1, <4>1 DEF Holds, Configured, Staged, Reported
      <4>3. TempHolds(p, r, files'[p])
        BY <1>1, <2>1, <2>7, <4>1 DEF Holds, Staged, TempHolds
      <4>4. Writes(command[p]) => OutputHolds(p, r, files'[Wanted(p).output])
        BY <1>1, <2>1, <2>7, <4>1 DEF Holds, OutputHolds
      <4>5. Generated(p, r)
        BY <1>1, <2>2, <2>7, <4>1 DEF Holds, Generated
      <4> QED
        BY <4>2, <4>3, <4>4, <4>5 DEF Holds
      <3>2. CASE ~UsesIr(Wanted(p)) /\ Wanted(p).assemble
      <4>1. r.pc = "clear" /\ ItsText(p) = Pieces(p, "text", job[p].text)
        BY <1>3, <2>6, <2>7, <3>2 DEF ItsText, ItsForm, UsesIr
      <4> QED
        BY <1>1, <1>3, <1>5, <2>1, <2>2, <2>7, <3>2, <4>1
         DEF Holds, Configured, Staged, TempHolds, OutputHolds, Generated, Reported, Rejected
    <3>3. CASE ~UsesIr(Wanted(p)) /\ ~Wanted(p).assemble
      <4>1. r.pc = "exit"
        BY <2>6, <2>7, <3>3
      <4>2. Writes(command[p]) => ItsResult(p) = Pieces(p, "text", job[p].text)
        BY <1>3, <3>3 DEF ItsResult, ItsText, ItsForm, UsesIr
      <4> QED
        BY <1>1, <1>3, <1>5, <2>1, <2>2, <2>7, <3>3, <4>1, <4>2
         DEF Holds, Configured, Staged, TempHolds, OutputHolds, Generated, Reported, Rejected
    <3> QED
      BY <3>1, <3>2, <3>3
  <2>9. r.pc # "idle"
    BY <2>6, <2>7
  <2> QED
    BY <1>1, <1>2, <2>1, <2>3, <2>7, <2>8, <2>9, Leaves
<1> QED
  BY <1>4, <1>5

(* ir_build panics, or its backend starts with an output that is not there.*)
LEMMA BuildStep ==
  ASSUME NEW p \in Compilers, Ready(p), Build(p)
  PROVE  Moves(p) /\ Process(p)'
<1> DEFINE r0 == proc[p]
           out == files[Wanted(p).output]
<1>1. r0 \in Processes /\ Holds(p, r0, files[p], out) /\ r0.pc = "build"
  BY Found DEF Build, At
<1>2. UNCHANGED <<command, envp, job, pipe>>
  BY DEF Build
<1>3. CASE job[p].fails = "build"
  <2>1. PICK r \in Processes :
         /\ proc' = [proc EXCEPT ![p] = r]
         /\ r.pc = "exited" /\ r.settings = r0.settings /\ r.helper = r0.helper
         /\ r.text = r0.text /\ r.status = 3 /\ r.left = r0.left
    BY <1>3, ExitsWith DEF Build
  <2>2. UNCHANGED files /\ OwnFiles(p)
    BY <1>3, NoFile DEF Build
  <2>3. Holds(p, r, files[p], out)
    BY <1>1, <1>3, <2>1
       DEF Holds, Configured, Staged, TempHolds, OutputHolds, Generated, Reported, Rejected
  <2> QED
    BY <1>1, <1>2, <2>1, <2>2, <2>3, Leaves
<1>4. CASE job[p].fails # "build"
  <2>1. PICK r \in Processes :
         /\ proc' = [proc EXCEPT ![p] = r]
         /\ r.pc = "ir" /\ r.settings = r0.settings /\ r.helper = r0.helper
         /\ r.text = r0.text /\ r.status = r0.status /\ r.left = r0.left
    BY <1>4, GoesTo DEF Build, Steps
  <2>2. Writes(command[p]) /\ Settings(p) = Wanted(p) /\ Wanted(p).output # Absent
    <3>1. UsesIr(Wanted(p))
      BY <1>1 DEF Holds, Staged
    <3> QED
      BY <1>1, <3>1, WhereItWrites DEF UsesIr
  <2>3. files' = [files EXCEPT ![Wanted(p).output] = <<>>]
    BY <1>4, <2>2 DEF Build, Unlink
  <2>4. OwnFiles(p) /\ files'[p] = files[p] /\ files'[Wanted(p).output] = <<>>
    BY <1>1, <2>2, <2>3, OutputFile
  <2>5. Holds(p, r, files'[p], files'[Wanted(p).output])
    BY <1>1, <1>4, <2>1, <2>4
       DEF Holds, Configured, Staged, TempHolds, OutputHolds, Generated, Reported, Rejected
  <2> QED
    BY <1>1, <1>2, <2>1, <2>4, <2>5, Leaves
<1> QED
  BY <1>3, <1>4

(* What the backend generated is written.                                  *)
LEMMA FlushIrStep ==
  ASSUME NEW p \in Compilers, Ready(p), FlushIr(p)
  PROVE  Moves(p) /\ Process(p)'
<1> DEFINE r0 == proc[p]
           out == files[Wanted(p).output]
<1>1. r0 \in Processes /\ Holds(p, r0, files[p], out) /\ r0.pc = "ir" /\ r0.left.ir = 0
  BY Found DEF FlushIr, At
<1>2. UNCHANGED <<command, envp, job, pipe>>
  BY DEF FlushIr
<1>3. Settings(p) = Wanted(p) /\ UsesIr(Wanted(p)) /\ Writes(command[p])
  <2>1. UsesIr(Wanted(p))
    BY <1>1 DEF Holds, Staged
  <2> QED
    BY <1>1, <2>1, WhereItWrites DEF UsesIr
<1>4. job[p].ir \in Nat /\ job[p].ir <= Capacity
  BY <1>1, DriverAssumption DEF Holds, Generated, Processes, Ready
<1>5. /\ OwnFiles(p)
      /\ files'[p] = IF Wanted(p).assemble THEN Pieces(p, "ir", job[p].ir) ELSE files[p]
      /\ files'[Wanted(p).output] =
           IF Wanted(p).assemble THEN out ELSE Pieces(p, "ir", job[p].ir)
  <2>1. files' = WriteFile(CompileOutput(p), Pieces(p, "ir", job[p].ir))
    BY DEF FlushIr
  <2>2. files[p] = <<>> /\ out = <<>>
    BY <1>1, <1>3 DEF Holds, TempHolds, OutputHolds
  <2> QED
    BY <1>1, <1>3, <1>4, <2>1, <2>2, WritesText
<1>6. ItsText(p) = Pieces(p, "ir", job[p].ir)
  BY <1>3 DEF ItsText, ItsForm, UsesIr
<1>7. ~Wanted(p).assemble => ItsResult(p) = ItsText(p)
  BY DEF ItsResult
<1>8. out = <<>> /\ files[p] = <<>>
  BY <1>1, <1>3 DEF Holds, TempHolds, OutputHolds
<1> DEFINE to == IF Wanted(p).assemble THEN "clear" ELSE "exit"
           r1 == [r0 EXCEPT !.text = 0]
           r == [r1 EXCEPT !.pc = to]
<1>9. proc' = [proc EXCEPT ![p] = r]
  BY <1>3 DEF FlushIr, Ready
<1>10. r1 \in Processes /\ r1.settings = r0.settings /\ r1.helper = r0.helper
       /\ r1.text = 0 /\ r1.status = r0.status /\ r1.left = r0.left
  BY <1>1, DriverAssumption DEF Processes
<1> HIDE DEF r1
<1>11. r \in Processes /\ r.pc = to /\ r.settings = r0.settings /\ r.helper = r0.helper
       /\ r.text = 0 /\ r.status = r0.status /\ r.left = r0.left
  BY <1>10 DEF Processes, Steps
<1> HIDE DEF r
<1>12. Holds(p, r, files'[p], files'[Wanted(p).output])
  <2>1. CASE Wanted(p).assemble
    BY <1>1, <1>4, <1>5, <1>6, <1>8, <1>11, <2>1
       DEF Holds, Configured, Staged, TempHolds, OutputHolds, Generated, Reported, Rejected
  <2>2. CASE ~Wanted(p).assemble
    BY <1>1, <1>4, <1>5, <1>6, <1>7, <1>8, <1>11, <2>2
       DEF Holds, Configured, Staged, TempHolds, OutputHolds, Generated, Reported, Rejected
  <2> QED
    BY <2>1, <2>2
<1> QED
  BY <1>1, <1>2, <1>5, <1>9, <1>11, <1>12, Leaves

(* What the assembler is to write is removed before.                       *)
LEMMA ClearStep ==
  ASSUME NEW p \in Compilers, Ready(p), Clear(p)
  PROVE  Moves(p) /\ Process(p)'
<1> DEFINE r0 == proc[p]
           out == files[Wanted(p).output]
<1>1. r0 \in Processes /\ Holds(p, r0, files[p], out) /\ r0.pc = "clear"
  BY Found DEF Clear, At
<1>2. UNCHANGED <<command, envp, job, pipe>>
  BY DEF Clear
<1>3. Writes(command[p]) /\ Settings(p) = Wanted(p) /\ Wanted(p).output # Absent
  <2>1. Wanted(p).assemble
    BY <1>1 DEF Holds, Staged
  <2> QED
    BY <1>1, <2>1, WhereItWrites
<1>4. files' = [files EXCEPT ![Wanted(p).output] = <<>>]
  BY <1>3 DEF Clear, Unlink
<1>5. OwnFiles(p) /\ files'[p] = files[p] /\ files'[Wanted(p).output] = <<>>
  BY <1>1, <1>3, <1>4, OutputFile
<1>6. PICK r \in Processes :
       /\ proc' = [proc EXCEPT ![p] = r]
       /\ r.pc = "fork" /\ r.settings = r0.settings /\ r.helper = r0.helper
       /\ r.text = r0.text /\ r.status = r0.status /\ r.left = r0.left
  BY GoesTo DEF Clear, Steps
<1>7. Holds(p, r, files'[p], files'[Wanted(p).output])
  BY <1>1, <1>5, <1>6
     DEF Holds, Configured, Staged, TempHolds, OutputHolds, Generated, Reported, Rejected
<1> QED
  BY <1>1, <1>2, <1>5, <1>6, <1>7, Leaves

(* process_assemble forks.                                                 *)
LEMMA ForkStep ==
  ASSUME NEW p \in Compilers, Ready(p), Fork(p)
  PROVE  Moves(p) /\ Process(p)'
<1> DEFINE r0 == proc[p]
           out == files[Wanted(p).output]
<1>1. r0 \in Processes /\ Holds(p, r0, files[p], out) /\ r0.pc = "fork"
  BY Found DEF Fork, At
<1>2. UNCHANGED <<command, envp, job, files, pipe>> /\ OwnFiles(p)
  BY NoFile DEF Fork
<1> DEFINE r1 == [r0 EXCEPT !.pc = "wait"]
           r == [r1 EXCEPT !.helper = "exec"]
<1>3. proc' = [proc EXCEPT ![p] = r]
  BY DEF Fork, Ready
<1>4. r1 \in Processes /\ r1.pc = "wait" /\ r1.settings = r0.settings
      /\ r1.text = r0.text /\ r1.status = r0.status /\ r1.left = r0.left
  BY <1>1 DEF Processes, Steps
<1> HIDE DEF r1
<1>5. r \in Processes /\ r.pc = "wait" /\ r.settings = r0.settings /\ r.helper = "exec"
      /\ r.text = r0.text /\ r.status = r0.status /\ r.left = r0.left
  BY <1>4 DEF Processes
<1> HIDE DEF r
<1>6. Holds(p, r, files[p], out)
  BY <1>1, <1>5
     DEF Holds, Configured, Staged, TempHolds, OutputHolds, Generated, Reported, Rejected
<1> QED
  BY <1>1, <1>2, <1>3, <1>5, <1>6, Leaves

(* It waits for the process it forked.                                     *)
LEMMA JoinStep ==
  ASSUME NEW p \in Compilers, Ready(p), Join(p)
  PROVE  Moves(p) /\ Process(p)'
<1> DEFINE r0 == proc[p]
           out == files[Wanted(p).output]
<1>1. r0 \in Processes /\ Holds(p, r0, files[p], out) /\ r0.pc = "wait"
      /\ r0.helper = "exited"
  BY Found DEF Join, At
<1>2. UNCHANGED <<command, envp, job, files, pipe>> /\ OwnFiles(p)
  BY NoFile DEF Join
<1>3. PICK r \in Processes :
       /\ proc' = [proc EXCEPT ![p] = r]
       /\ r.pc = "clean" /\ r.settings = r0.settings /\ r.helper = r0.helper
       /\ r.text = r0.text /\ r.status = r0.status /\ r.left = r0.left
  BY GoesTo DEF Join, Steps
<1>4. Holds(p, r, files[p], out)
  BY <1>1, <1>3
     DEF Holds, Configured, Staged, TempHolds, OutputHolds, Generated, Reported, Rejected
<1> QED
  BY <1>1, <1>2, <1>3, <1>4, Leaves

(* The temporary file is removed.                                          *)
LEMMA CleanStep ==
  ASSUME NEW p \in Compilers, Ready(p), Clean(p)
  PROVE  Moves(p) /\ Process(p)'
<1> DEFINE r0 == proc[p]
           out == files[Wanted(p).output]
<1>1. r0 \in Processes /\ Holds(p, r0, files[p], out) /\ r0.pc = "clean"
  BY Found DEF Clean, At
<1>2. UNCHANGED <<command, envp, job, pipe>>
  BY DEF Clean
<1>3. /\ OwnFiles(p)
      /\ files'[p] = IF Wanted(p).assemble THEN <<>> ELSE files[p]
      /\ Writes(command[p]) =>
           files'[Wanted(p).output] = IF Wanted(p).assemble THEN out ELSE <<>>
  BY <1>1, Unlinks DEF Clean
<1>4. PICK r \in Processes :
       /\ proc' = [proc EXCEPT ![p] = r]
       /\ r.pc = "exit" /\ r.settings = r0.settings /\ r.helper = r0.helper
       /\ r.text = r0.text /\ r.status = r0.status /\ r.left = r0.left
  BY GoesTo DEF Clean, Steps
<1>5. Holds(p, r, files'[p], files'[Wanted(p).output])
  BY <1>1, <1>3, <1>4
     DEF Holds, Configured, Staged, TempHolds, OutputHolds, Generated, Reported, Rejected
<1> QED
  BY <1>1, <1>2, <1>3, <1>4, <1>5, Leaves

(* A piece of the diagnostic is written to the standard error.             *)
LEMMA ReportStep ==
  ASSUME NEW p \in Compilers, Ready(p), Report(p)
  PROVE  Moves(p) /\ Process(p)'
<1> DEFINE r0 == proc[p]
           out == files[Wanted(p).output]
           left == [r0.left EXCEPT !.err = @ - 1]
           r == [r0 EXCEPT !.left = left]
<1>1. r0 \in Processes /\ Holds(p, r0, files[p], out) /\ r0.pc = "report"
  BY Found DEF Report, At
<1>2. UNCHANGED <<command, envp, job, files>> /\ OwnFiles(p)
  BY NoFile DEF Report
<1>3. proc' = [proc EXCEPT ![p] = r]
  BY <1>1 DEF Report, Ready, Processes
<1>4. r0.left \in Left /\ r0.left.err \in Nat \ {0}
  BY <1>1 DEF Report, Processes, Left
<1>5. left \in Left /\ left.text = r0.left.text /\ left.ir = r0.left.ir
      /\ left.err = r0.left.err - 1
  BY <1>4 DEF Left
<1> HIDE DEF left
<1>6. r \in Processes /\ r.pc = "report" /\ r.settings = r0.settings
      /\ r.helper = r0.helper /\ r.text = r0.text /\ r.status = r0.status /\ r.left = left
  BY <1>1, <1>5 DEF Processes
<1> HIDE DEF r
<1>7. /\ proc'[p] = r /\ proc' \in [Compilers -> Processes]
      /\ \A q \in Compilers : q # p => proc'[q] = proc[q]
  BY <1>3, <1>6 DEF Ready
<1>8. /\ pipe \in 0 .. Capacity /\ pipe' \in 0 .. Capacity
      /\ pipe' = IF p = Piped THEN pipe + 1 ELSE pipe
  BY DriverAssumption DEF Report, Ready
<1>9. p = Piped => pipe' + left.err = pipe + r0.left.err
  BY <1>4, <1>5, <1>8
<1>10. Moves(p)
  BY <1>1, <1>2, <1>6, <1>7, <1>8, <1>9 DEF Moves
<1>11. Configured(p, r) /\ Staged(p, r) /\ TempHolds(p, r, files[p])
       /\ (Writes(command[p]) => OutputHolds(p, r, out))
  BY <1>1, <1>6 DEF Holds, Configured, Staged, TempHolds, OutputHolds
<1>12. Generated(p, r)
  BY <1>1, <1>6 DEF Holds, Generated
<1>13. Reported(p, r)
  BY <1>1, <1>4, <1>5, <1>6 DEF Holds, Reported, Ready
<1> QED
  BY <1>2, <1>7, <1>10, <1>11, <1>12, <1>13, HoldsNext DEF Holds

(* It ends, with the diagnostic written or the result in its place.        *)
LEMMA ExitStep ==
  ASSUME NEW p \in Compilers, Ready(p), Exit(p)
  PROVE  Moves(p) /\ Process(p)'
<1> DEFINE r0 == proc[p]
           out == files[Wanted(p).output]
<1>1. r0 \in Processes /\ Holds(p, r0, files[p], out)
  BY Found
<1>2. UNCHANGED <<command, envp, job, files, pipe>> /\ OwnFiles(p)
  BY NoFile DEF Exit
<1>3. CASE At(p, "report") /\ proc[p].left.err = 0 /\ Exits(p, 1)
  <2>1. PICK r \in Processes :
         /\ proc' = [proc EXCEPT ![p] = r]
         /\ r.pc = "exited" /\ r.settings = r0.settings /\ r.helper = r0.helper
         /\ r.text = r0.text /\ r.status = 1 /\ r.left = r0.left
    BY <1>3, ExitsWith
  <2>2. r0.pc = "report"
    BY <1>3 DEF At
  <2>3. Holds(p, r, files[p], out)
    BY <1>1, <1>3, <2>1, <2>2
       DEF Holds, Configured, Staged, TempHolds, OutputHolds, Generated, Reported, Rejected
  <2> QED
    BY <1>1, <1>2, <2>1, <2>2, <2>3, Leaves
<1>4. CASE At(p, "exit") /\ Exits(p, 0)
  <2>1. PICK r \in Processes :
         /\ proc' = [proc EXCEPT ![p] = r]
         /\ r.pc = "exited" /\ r.settings = r0.settings /\ r.helper = r0.helper
         /\ r.text = r0.text /\ r.status = 0 /\ r.left = r0.left
    BY <1>4, ExitsWith
  <2>2. r0.pc = "exit"
    BY <1>4 DEF At
  <2>3. Holds(p, r, files[p], out)
    BY <1>1, <1>4, <2>1, <2>2
       DEF Holds, Configured, Staged, TempHolds, OutputHolds, Generated, Reported, Rejected
  <2> QED
    BY <1>1, <1>2, <2>1, <2>2, <2>3, Leaves
<1> QED
  BY <1>3, <1>4 DEF Exit

(* The process that was forked becomes nasm, or goes on as the compiler.   *)
LEMMA HelperExecStep ==
  ASSUME NEW p \in Compilers, Ready(p), HelperExec(p)
  PROVE  Moves(p) /\ Process(p)'
<1> DEFINE r0 == proc[p]
           out == files[Wanted(p).output]
<1>1. r0 \in Processes /\ Holds(p, r0, files[p], out) /\ r0.helper = "exec"
      /\ r0.pc = "wait"
  BY Found DEF HelperExec, Holds, Staged
<1>2. UNCHANGED <<command, envp, job, pipe>>
  BY DEF HelperExec
<1>3. UNCHANGED files /\ OwnFiles(p)
  BY NoFile DEF HelperExec
<1> DEFINE r == [r0 EXCEPT !.helper = (IF PathVariable(p) = "tools" THEN "nasm" ELSE "clean")]
<1>4. proc' = [proc EXCEPT ![p] = r]
  BY DEF HelperExec, Ready
<1>5. r \in Processes /\ r.pc = "wait" /\ r.settings = r0.settings
      /\ r.helper = (IF PathVariable(p) = "tools" THEN "nasm" ELSE "clean")
      /\ r.text = r0.text /\ r.status = r0.status /\ r.left = r0.left
  BY <1>1 DEF Processes
<1> HIDE DEF r
<1>6. Holds(p, r, files[p], out)
  BY <1>1, <1>3, <1>5
     DEF Holds, Configured, Staged, TempHolds, OutputHolds, Generated, Reported, Rejected
<1> QED
  BY <1>1, <1>2, <1>3, <1>4, <1>5, <1>6, Leaves

(* nasm takes the text or leaves no file.                                  *)
LEMMA NasmStep ==
  ASSUME NEW p \in Compilers, Ready(p), Nasm(p)
  PROVE  Moves(p) /\ Process(p)'
<1> DEFINE r0 == proc[p]
           out == files[Wanted(p).output]
<1>1. r0 \in Processes /\ Holds(p, r0, files[p], out) /\ r0.helper = "nasm"
      /\ r0.pc = "wait"
  BY Found DEF Nasm, Holds, Staged
<1>2. UNCHANGED <<command, envp, job, pipe>>
  BY DEF Nasm
<1>3. OwnFiles(p) /\ files'[Wanted(p).output] = ItsResult(p) /\ Wanted(p).assemble
  <2>1. Wanted(p).assemble /\ files[p] = ItsText(p) /\ PathVariable(p) = "tools"
    BY <1>1 DEF Holds, Staged, TempHolds
  <2>2. Writes(command[p]) /\ Settings(p) = Wanted(p) /\ CompileOutput(p) = p
    BY <1>1, <2>1, WhereItWrites
  <2>3. CASE job[p].accepted
    <3>1. files' = [files EXCEPT ![Wanted(p).output] = Object(ItsText(p))]
      BY <2>1, <2>2, <2>3 DEF Nasm
    <3>2. ItsResult(p) = Object(ItsText(p))
      BY <2>1, <2>3 DEF ItsResult, Assembles
    <3> QED
      BY <1>1, <2>1, <2>2, <3>1, <3>2, OutputFile
  <2>4. CASE ~job[p].accepted
    <3>1. UNCHANGED files /\ OwnFiles(p)
      BY <2>4, NoFile DEF Nasm
    <3>2. ItsResult(p) = <<>>
      BY <2>1, <2>4 DEF ItsResult, Assembles
    <3>3. out = <<>>
      BY <1>1, <2>2 DEF Holds, OutputHolds
    <3> QED
      BY <2>1, <3>1, <3>2, <3>3
  <2> QED
    BY <2>3, <2>4
<1> DEFINE r == [r0 EXCEPT !.helper = "exited"]
<1>4. proc' = [proc EXCEPT ![p] = r]
  BY DEF Nasm, Ready
<1>5. r \in Processes /\ r.pc = "wait" /\ r.settings = r0.settings
      /\ r.helper = "exited" /\ r.text = r0.text /\ r.status = r0.status /\ r.left = r0.left
  BY <1>1 DEF Processes
<1> HIDE DEF r
<1>6. Holds(p, r, files'[p], files'[Wanted(p).output])
  BY <1>1, <1>3, <1>5
     DEF Holds, Configured, Staged, TempHolds, OutputHolds, Generated, Reported, Rejected
<1> QED
  BY <1>1, <1>2, <1>3, <1>4, <1>5, <1>6, Leaves

(* What was not replaced by nasm removes the temporary file.               *)
LEMMA HelperCleanStep ==
  ASSUME NEW p \in Compilers, Ready(p), HelperClean(p)
  PROVE  Moves(p) /\ Process(p)'
<1> DEFINE r0 == proc[p]
           out == files[Wanted(p).output]
<1>1. r0 \in Processes /\ Holds(p, r0, files[p], out) /\ r0.helper = "clean"
      /\ r0.pc = "wait"
  BY Found DEF HelperClean, Holds, Staged
<1>2. UNCHANGED <<command, envp, job, pipe>>
  BY DEF HelperClean
<1>3. OwnFiles(p) /\ files'[Wanted(p).output] = ItsResult(p) /\ Wanted(p).assemble
  <2>1. Wanted(p).assemble /\ PathVariable(p) # "tools"
    BY <1>1 DEF Holds, Staged
  <2>2. Writes(command[p])
    BY <1>1, <2>1, WhereItWrites
  <2>3. OwnFiles(p) /\ files'[Wanted(p).output] = out
    BY <1>1, <2>1, <2>2, Unlinks DEF HelperClean
  <2>4. out = <<>>
    BY <1>1, <2>2 DEF Holds, OutputHolds
  <2>5. ItsResult(p) = <<>>
    BY <2>1 DEF ItsResult, Assembles
  <2> QED
    BY <2>1, <2>3, <2>4, <2>5
<1> DEFINE r == [r0 EXCEPT !.helper = "exited"]
<1>4. proc' = [proc EXCEPT ![p] = r]
  BY DEF HelperClean, Ready
<1>5. r \in Processes /\ r.pc = "wait" /\ r.settings = r0.settings
      /\ r.helper = "exited" /\ r.text = r0.text /\ r.status = r0.status /\ r.left = r0.left
  BY <1>1 DEF Processes
<1> HIDE DEF r
<1>6. Holds(p, r, files'[p], files'[Wanted(p).output])
  BY <1>1, <1>3, <1>5
     DEF Holds, Configured, Staged, TempHolds, OutputHolds, Generated, Reported, Rejected
<1> QED
  BY <1>1, <1>2, <1>3, <1>4, <1>5, <1>6, Leaves

(* A step of a compiler or of the process it forked.                       *)
LEMMA CompilerStep ==
  ASSUME NEW p \in Compilers, Ready(p), Compiler(p) \/ Helper(p)
  PROVE  Moves(p) /\ Process(p)'
<1>1. CASE Compiler(p)
  BY <1>1, StartStep, ParseStep, UnlinkTextStep, GenerateStep, FlushStep, UnlinkAgainStep,
     BuildStep, FlushIrStep, ClearStep, ForkStep, JoinStep, CleanStep, ReportStep, ExitStep
     DEF Compiler
<1>2. CASE Helper(p)
  BY <1>2, HelperExecStep, NasmStep, HelperCleanStep DEF Helper
<1> QED
  BY <1>1, <1>2

(***************************************************************************)
(* The call.                                                               *)
(***************************************************************************)

(* What a compiler meets in a check.                                       *)
LEMMA CheckJob ==
  ASSUME NEW j \in CheckJobs
  PROVE  /\ j.fails \in Stages /\ j.text \in Nat /\ j.ir \in Nat
         /\ j.err \in Nat /\ j.err <= MaxBytes
         /\ j.fails \notin {"syntax", "compile"} => j.err = 0
<1> DEFINE Jobs == [fails : Stages, text : 0 .. MaxBytes, ir : {1, Capacity + 1},
                    err : 0 .. MaxBytes, accepted : {TRUE}]
<1>1. j \in Jobs /\ (j.err > 0) = (j.fails \in {"syntax", "compile"})
  BY DEF CheckJobs
<1>2. /\ j.fails \in Stages /\ j.text \in 0 .. MaxBytes /\ j.ir \in {1, Capacity + 1}
      /\ j.err \in 0 .. MaxBytes
  BY <1>1
<1>3. j.text \in Nat /\ j.ir \in Nat /\ j.err \in Nat /\ j.err <= MaxBytes
  BY ONLY <1>2, CheckErrorsAssumption, DriverAssumption
<1>4. j.fails \notin {"syntax", "compile"} => j.err = 0
  BY <1>1, <1>3
<1> QED
  BY <1>2, <1>3, <1>4

(* A compiler that runs finds what its steps need.                         *)
LEMMA IsReady ==
  ASSUME CallInv, NEW p \in Compilers, Active(p)
  PROVE  Ready(p)
<1>1. Given(p) /\ Process(p)
  BY DEF CallInv
<1>2. job[p].fails \in Stages /\ job[p].text \in Nat /\ job[p].ir \in Nat /\ job[p].err \in Nat
  <2>1. CASE pc = "idle"
    BY <1>1, <2>1, CheckErrorsAssumption DEF Given
  <2>2. CASE pc # "idle"
    BY <1>1, <2>2, CheckJob DEF Given
  <2> QED
    BY <2>1, <2>2
<1>3. command[p] \in Commands
  BY <1>1 DEF Given, Commands
<1>4. Wanted(p) \in AllSettings
  BY <1>3 DEF Wanted, AllSettings
<1>5. Writes(command[p]) => Wanted(p).output \in Outputs
  BY <1>3, OutputsAssumption DEF Wanted, Commands
<1> QED
  BY <1>1, <1>2, <1>4, <1>5 DEF Ready, CallInv, CallTypes

(* A compiler whose record and files are left alone is as it was.          *)
LEMMA Untouched ==
  ASSUME NEW p, UNCHANGED <<command, envp, job>>, Process(p), proc'[p] = proc[p],
         files'[p] = files[p],
         Writes(command[p]) => files'[Wanted(p).output] = files[Wanted(p).output]
  PROVE  Process(p)'
<1>1. Holds(p, proc'[p], files'[p], files'[Wanted(p).output])
  BY DEF Process, Holds, Temp
<1> QED
  BY <1>1, HoldsNext

(* A step of one compiler leaves the others alone: no other has its        *)
(* temporary file, and no other is to write its output.                    *)
LEMMA OthersUntouched ==
  ASSUME CallInv, NEW p \in Compilers, Active(p), Moves(p), NEW q \in Compilers, q # p, Active(q)
  PROVE  Process(q)'
<1>1. pc = "idle"
  BY DEF Active
<1>2. Given(p) /\ Given(q) /\ Process(q)
  BY DEF CallInv
<1>3. q \in FileNames /\ q \notin Outputs /\ p \notin Outputs
  BY OutputsAssumption DEF FileNames
<1>4. Writes(command[p]) => Wanted(p).output \in Outputs
  BY IsReady DEF Ready
<1>5. Writes(command[q]) => Wanted(q).output \in Outputs
  BY IsReady DEF Ready
<1>6. Writes(command[p]) /\ Writes(command[q]) => Wanted(p).output # Wanted(q).output
  BY <1>1, <1>2, OutputsAssumption DEF Given, Wanted
<1>7. files'[q] = files[q]
  BY <1>3, <1>4 DEF Moves, OwnFiles
<1>8. Writes(command[q]) => files'[Wanted(q).output] = files[Wanted(q).output]
  BY <1>3, <1>5, <1>6 DEF Moves, OwnFiles, FileNames
<1> QED
  BY <1>2, <1>7, <1>8, Untouched DEF Moves

(* What was reported, the pipe and what was read stay in step.             *)
LEMMA ReadingKept ==
  ASSUME CallInv, NEW p \in Compilers, Active(p), Ready(p), Moves(p), Process(p)', UNCHANGED call
  PROVE  Reading'
<1> USE DEF call
<1>1. Reading /\ proc \in [Compilers -> Processes] /\ proc' \in [Compilers -> Processes]
      /\ pipe \in Nat /\ pipe' \in 0 .. Capacity /\ Piped \in Compilers /\ seen \in Nat
  BY DriverAssumption DEF CallInv, CallTypes, Moves
<1>2. CASE pc = "idle"
  BY <1>1, <1>2 DEF Reading
<1>3. CASE pc # "idle"
  <2>1. p = Piped /\ proc[p].pc \notin {"idle", "exited"} /\ proc'[p].pc # "idle"
        /\ job' = job
    BY <1>3 DEF Active, Moves
  <2>2. pc = "wait" /\ child = "compiler" /\ seen = 0 /\ blocks = 0 /\ found > 0
    BY <1>1, <1>3, <2>1 DEF Reading, At, CallInv, CallTypes
  <2>3. proc[p].left.err \in Nat /\ proc'[p].left.err \in Nat /\ job[p].err \in Nat
    BY <1>1 DEF Processes, Left, Ready
  <2>4. pipe + seen = job[p].err - proc[p].left.err
    BY <1>1, <1>3, <2>1 DEF Reading, Sent, At
  <2>5. pipe' + proc'[p].left.err = pipe + proc[p].left.err
    BY <2>1 DEF Moves
  <2>6. Sent' = job[p].err - proc'[p].left.err
    BY <2>1 DEF Sent, At
  <2>7. pipe' + seen' = Sent'
    BY <1>1, <2>2, <2>3, <2>4, <2>5, <2>6
  <2>8. At(Piped, "exited")' => job'[Piped].err <= Capacity \/ Refused(Wanted(Piped))'
    <3>1. SUFFICES ASSUME At(Piped, "exited")', ~Refused(Wanted(Piped))'
                   PROVE  job'[Piped].err <= Capacity
      OBVIOUS
    <3>2. Reported(p, proc[p])'
      BY DEF Process, Holds
    <3>3. CASE Rejected(p)'
      <4>1. proc'[p].left.err = 0
        BY <2>1, <3>1, <3>2, <3>3 DEF Reported, At
      <4>2. job[p].err = pipe'
        BY <1>1, <2>2, <2>3, <2>6, <2>7, <4>1
      <4> QED
        BY <1>1, <2>1, <4>2, DriverAssumption
    <3>4. CASE ~Rejected(p)'
      <4>1. job[p].fails \notin {"syntax", "compile"}
        BY <2>1, <3>1, <3>4 DEF Rejected
      <4>2. job[p] \in CheckJobs
        BY <1>3 DEF CallInv, Given
      <4>3. job[p].err = 0
        BY <4>1, <4>2, CheckJob
      <4> QED
        BY <2>1, <4>3, DriverAssumption
    <3> QED
      BY <3>3, <3>4
  <2> QED
    BY <2>1, <2>2, <2>7, <2>8, CheckErrorsAssumption DEF Reading, At
<1> QED
  BY <1>2, <1>3

(* Only a compiler that was started takes steps.                           *)
LEMMA ActiveMoves ==
  ASSUME CallInv, NEW p \in Compilers, Compiler(p) \/ Helper(p)
  PROVE  Active(p)
<1>1. SUFFICES ASSUME ~Active(p) PROVE FALSE
  OBVIOUS
<1>2. proc[p].pc = "idle" /\ proc[p].helper = "none"
  BY <1>1 DEF CallInv, Others
<1> QED
  BY <1>2 DEF Compiler, Helper, Start, Parse, UnlinkText, Generate, Flush, UnlinkAgain, Build,
              FlushIr, Clear, Fork, Join, Clean, Report, Exit, HelperExec, Nasm, HelperClean, At

(* A step of a compiler or of the process it forked keeps the invariant.   *)
LEMMA CompilerKeeps ==
  ASSUME CallInv, NEW p \in Compilers, Compiler(p) \/ Helper(p), UNCHANGED call
  PROVE  CallInv'
<1>1. Active(p)
  BY ActiveMoves
<1>2. Ready(p)
  BY <1>1, IsReady
<1>3. Moves(p) /\ Process(p)'
  BY <1>2, CompilerStep
<1>4. CallTypes'
  BY <1>3 DEF CallInv, CallTypes, Moves, OwnFiles, call
<1>5. \A q \in Compilers : Given(q)'
  BY <1>3 DEF CallInv, Given, Moves, call
<1>6. \A q \in Compilers : Active(q)' => Process(q)'
  <2>1. \A q \in Compilers : Active(q)' <=> Active(q)
    BY DEF Active, call
  <2> QED
    BY <1>1, <1>3, <2>1, OthersUntouched
<1>7. Others'
  BY <1>1, <1>3 DEF CallInv, Others, Active, Moves, call
<1>8. Reading'
  BY <1>1, <1>2, <1>3, ReadingKept
<1> QED
  BY <1>4, <1>5, <1>6, <1>7, <1>8 DEF CallInv

(***************************************************************************)
(* The invariant holds initially and after every step.                     *)
(***************************************************************************)

(* The record of a compiler that is not started.                           *)
LEMMA IdleRecord ==
  /\ Idle \in Processes /\ Idle.pc = "idle" /\ Idle.helper = "none"
  /\ Idle.text = 0 /\ Idle.status = 0 /\ Idle.left.err = 0
<1>1. NoSettings \in AllSettings
  BY DEF NoSettings, AllSettings
<1> QED
  BY <1>1, DriverAssumption DEF Idle, Processes, Steps, Left

(* That of one that is.                                                    *)
LEMMA StartedRecord ==
  ASSUME NEW p, job[p].text \in Nat, job[p].ir \in Nat, job[p].err \in Nat
  PROVE  /\ Started(p) \in Processes /\ Started(p).pc = "start" /\ Started(p).helper = "none"
         /\ Started(p).text = 0 /\ Started(p).status = 0
         /\ Started(p).left.text = job[p].text /\ Started(p).left.ir = job[p].ir
         /\ Started(p).left.err = job[p].err
<1>1. NoSettings \in AllSettings
  BY DEF NoSettings, AllSettings
<1> QED
  BY <1>1, DriverAssumption DEF Started, Processes, Steps, Left

(* The invariant of a compiler that is not started, or has just been.      *)
LEMMA StartHolds ==
  ASSUME NEW p, NEW r, job[p].text \in Nat, job[p].ir \in Nat, job[p].err \in Nat,
         r.helper = "none",
         \/ r.pc = "idle" /\ r.left.err = 0
         \/ r = Started(p)
  PROVE  Holds(p, r, <<>>, Old)
<1>1. CASE r.pc = "idle" /\ r.left.err = 0
  BY <1>1 DEF Holds, Configured, Staged, TempHolds, OutputHolds, Generated, Reported
<1>2. CASE r = Started(p)
  <2>1. r.pc = "start" /\ r.text = 0 /\ r.left.text = job[p].text /\ r.left.ir = job[p].ir
        /\ r.left.err = job[p].err
    BY <1>2, StartedRecord
  <2>2. Configured(p, r) /\ Staged(p, r) /\ TempHolds(p, r, <<>>) /\ OutputHolds(p, r, Old)
    BY <2>1 DEF Configured, Staged, TempHolds, OutputHolds
  <2>3. Generated(p, r) /\ Reported(p, r)
    BY <2>1 DEF Generated, Reported
  <2> QED
    BY <2>2, <2>3 DEF Holds
<1> QED
  BY <1>1, <1>2

(* What Init chooses: a check, or a build.                                 *)
InitCheck ==
  /\ pc = "fork"
  /\ found \in 0 .. PathDirs
  /\ \E c \in CheckCommands : command = [p \in Compilers |-> c]
  /\ \E j \in CheckJobs : job = [p \in Compilers |-> j]
  /\ proc = [p \in Compilers |-> Idle]
InitBuild ==
  /\ pc = "idle"
  /\ found = 0
  /\ command \in {c \in [Compilers -> UNION {BuildCommands[p] : p \in Compilers}] :
                    \A p \in Compilers : c[p] \in BuildCommands[p]}
  /\ job \in [Compilers -> BuildJobs]
  /\ proc = [p \in Compilers |-> Started(p)]

(* The invariant holds of a check and of a build that begin.               *)
LEMMA CallInit ==
  ASSUME Init
  PROVE  CallInv
<1>1. InitCheck \/ InitBuild
  BY DEF Init, InitCheck, InitBuild
<1>2. \A p \in Compilers : Given(p)
  <2>1. CASE InitCheck
    BY <2>1 DEF InitCheck, Given
  <2>2. CASE InitBuild
    BY <2>2 DEF InitBuild, Given
  <2> QED
    BY <1>1, <2>1, <2>2
<1>3. \A p \in Compilers : job[p].text \in Nat /\ job[p].ir \in Nat /\ job[p].err \in Nat
  BY <1>2, CheckJob, CheckErrorsAssumption DEF Given
<1>4. /\ \A p \in Compilers : proc[p] \in Processes /\ proc[p].helper = "none"
      /\ \A p \in Compilers :
           (proc[p].pc = "idle" /\ proc[p].left.err = 0) \/ proc[p] = Started(p)
      /\ proc \in [Compilers -> Processes]
  <2>1. CASE InitCheck
    BY <2>1, IdleRecord DEF InitCheck
  <2>2. CASE InitBuild
    BY <2>2, <1>3, StartedRecord DEF InitBuild
  <2> QED
    BY <1>1, <2>1, <2>2
<1>5. /\ files = [f \in FileNames |-> files[f]]
      /\ \A p \in Compilers : files[p] = <<>>
      /\ \A f \in Outputs : files[f] = Old
  BY OutputsAssumption DEF Init, Temp, FileNames
<1>6. \A p \in Compilers : Writes(command[p]) => Wanted(p).output \in Outputs
  BY <1>2, OutputsAssumption DEF Given, Wanted
<1>7. \A p \in Compilers : Process(p)
  <2>1. SUFFICES ASSUME NEW p \in Compilers PROVE Process(p)
    OBVIOUS
  <2>2. Holds(p, proc[p], <<>>, Old)
    BY <1>3, <1>4, StartHolds
  <2>3. files[p] = <<>> /\ (Writes(command[p]) => files[Wanted(p).output] = Old)
    BY <1>5, <1>6
  <2> QED
    BY <2>2, <2>3 DEF Process, Holds, Temp
<1>8. CallTypes
  <2>1. pc \in {"idle", "fork"} /\ found \in 0 .. PathDirs
    BY <1>1, CheckErrorsAssumption DEF InitCheck, InitBuild
  <2>2. dir \in 1 .. PathDirs + 1 /\ pipe \in 0 .. Capacity
    BY DriverAssumption, CheckErrorsAssumption DEF Init
  <2> QED
    BY <1>4, <1>5, <2>1, <2>2 DEF CallTypes, Init
<1>9. Others
  BY <1>1, IdleRecord DEF Others, Active, InitCheck, InitBuild
<1>10. Reading
  <2>1. CASE InitCheck
    <3>1. At(Piped, "idle") /\ Sent = 0
      BY <2>1, IdleRecord, DriverAssumption DEF InitCheck, At, Sent
    <3> QED
      BY <2>1, <3>1 DEF Init, InitCheck, Reading, At
  <2>2. CASE InitBuild
    BY <2>2 DEF Init, InitBuild, Reading
  <2> QED
    BY <1>1, <2>1, <2>2
<1> QED
  BY <1>2, <1>7, <1>8, <1>9, <1>10 DEF CallInv

(* A step of the caller or the child that leaves the processes alone.      *)
LEMMA ProcessesStay ==
  ASSUME CallInv, UNCHANGED <<command, envp, job, proc, files>>,
         (pc = "idle") <=> (pc' = "idle")
  PROVE  /\ \A p \in Compilers : Given(p)'
         /\ \A p \in Compilers : Active(p)' => Process(p)'
         /\ Others'
<1>1. \A p \in Compilers : Active(p)' <=> Active(p)
  BY DEF Active
<1>2. \A p \in Compilers : Given(p)'
  BY DEF CallInv, Given
<1>3. \A p \in Compilers : Active(p)' => Process(p)'
  BY <1>1, Untouched DEF CallInv
<1>4. Others'
  BY <1>1 DEF CallInv, Others
<1> QED
  BY <1>2, <1>3, <1>4

(***************************************************************************)
(* The actions of the caller.                                              *)
(***************************************************************************)
(* The child has the write end of the pipe too.                            *)
LEMMA ForkCompilerKeeps ==
  ASSUME CallInv, ForkCompiler
  PROVE  CallInv'
<1>1. /\ \A p \in Compilers : Given(p)'
      /\ \A p \in Compilers : Active(p)' => Process(p)'
      /\ Others'
  BY ProcessesStay DEF ForkCompiler, compilers
<1>2. CallTypes'
  BY DEF ForkCompiler, compilers, CallInv, CallTypes
<1>3. Sent' = Sent
  BY DEF ForkCompiler, compilers, Sent, At
<1>4. Reading'
  BY <1>3 DEF ForkCompiler, compilers, CallInv, Reading, At, Wanted
<1> QED
  BY <1>1, <1>2, <1>4 DEF CallInv

(* The caller goes on when the compiler has ended.                         *)
LEMMA WaitKeeps ==
  ASSUME CallInv, Wait
  PROVE  CallInv'
<1>1. /\ \A p \in Compilers : Given(p)'
      /\ \A p \in Compilers : Active(p)' => Process(p)'
      /\ Others'
  BY ProcessesStay DEF Wait, compilers
<1>2. CallTypes'
  BY DEF Wait, compilers, CallInv, CallTypes
<1>3. Sent' = Sent
  BY DEF Wait, compilers, Sent, At
<1>4. Reading'
  BY <1>3 DEF Wait, compilers, CallInv, Reading, At, Wanted
<1> QED
  BY <1>1, <1>2, <1>4 DEF CallInv

(* It closes its own write end.                                            *)
LEMMA CloseWriteKeeps ==
  ASSUME CallInv, CloseWrite
  PROVE  CallInv'
<1>1. /\ \A p \in Compilers : Given(p)'
      /\ \A p \in Compilers : Active(p)' => Process(p)'
      /\ Others'
  BY ProcessesStay DEF CloseWrite, compilers
<1>2. CallTypes'
  BY DEF CloseWrite, compilers, CallInv, CallTypes
<1>3. Sent' = Sent
  BY DEF CloseWrite, compilers, Sent, At
<1>4. Reading'
  BY <1>3 DEF CloseWrite, compilers, CallInv, Reading, At, Wanted
<1> QED
  BY <1>1, <1>2, <1>4 DEF CallInv

(* Every block but the last is full, because all has been written before.  *)
LEMMA ReadKeeps ==
  ASSUME CallInv, Read
  PROVE  CallInv'
<1>1. /\ \A p \in Compilers : Given(p)'
      /\ \A p \in Compilers : Active(p)' => Process(p)'
      /\ Others'
  BY ProcessesStay DEF Read
<1>2. /\ pipe \in 0 .. Capacity /\ pipe \in Nat /\ blocks \in Nat /\ seen \in Nat
      /\ Block \in Nat \ {0}
  BY DriverAssumption, CheckErrorsAssumption DEF CallInv, CallTypes
<1>3. /\ Count \in Nat /\ Count > 0 /\ Count <= pipe
      /\ pipe - Count > 0 => Count = Block
  BY <1>2 DEF Read, Count
<1>4. seen = blocks * Block
  BY DEF Read, CallInv, Reading
<1>5. pipe' = pipe - Count /\ seen' = seen + Count /\ blocks' = blocks + 1
  BY <1>4 DEF Read
<1>6. (blocks + 1) * Block = blocks * Block + Block
  BY <1>2
<1>7. CallTypes'
  <2>1. pipe' \in 0 .. Capacity /\ blocks' \in Nat /\ seen' \in Nat
    BY ONLY <1>2, <1>3, <1>5, DriverAssumption
  <2> QED
    BY <2>1 DEF Read, CallInv, CallTypes
<1>8. Sent' = Sent
  BY DEF Read, Sent, At
<1>9. pipe' + seen' = pipe + seen /\ (blocks <= seen => blocks' <= seen')
  BY ONLY <1>2, <1>3, <1>5
<1>10. pipe' > 0 => seen' = blocks' * Block
  BY <1>3, <1>4, <1>5, <1>6
<1>11. Reading'
  BY <1>8, <1>9, <1>10 DEF Read, CallInv, Reading, At, Wanted
<1> QED
  BY <1>1, <1>7, <1>11 DEF CallInv

(* The end of the file is met when the pipe is empty.                      *)
LEMMA ReadEndKeeps ==
  ASSUME CallInv, ReadEnd
  PROVE  CallInv'
<1>0. pc' \in {"ok", "fail"}
  BY DEF ReadEnd
<1>1. /\ \A p \in Compilers : Given(p)'
      /\ \A p \in Compilers : Active(p)' => Process(p)'
      /\ Others'
  BY <1>0, ProcessesStay DEF ReadEnd, compilers
<1>2. CallTypes'
  BY <1>0 DEF ReadEnd, compilers, CallInv, CallTypes
<1>3. Sent' = Sent
  BY DEF ReadEnd, compilers, Sent, At
<1>4. Reading'
  BY <1>0, <1>3 DEF ReadEnd, compilers, CallInv, Reading, At, Wanted
<1> QED
  BY <1>1, <1>2, <1>4 DEF CallInv

(***************************************************************************)
(* The actions of the child.                                               *)
(***************************************************************************)
(* The pipe becomes the child's standard error.                            *)
LEMMA DupKeeps ==
  ASSUME CallInv, Dup
  PROVE  CallInv'
<1>1. /\ \A p \in Compilers : Given(p)'
      /\ \A p \in Compilers : Active(p)' => Process(p)'
      /\ Others'
  BY ProcessesStay DEF Dup, compilers
<1>2. CallTypes'
  BY DEF Dup, compilers, CallInv, CallTypes
<1>3. Sent' = Sent
  BY DEF Dup, compilers, Sent, At
<1>4. Reading'
  BY <1>3 DEF Dup, compilers, CallInv, Reading, At, Wanted
<1> QED
  BY <1>1, <1>2, <1>4 DEF CallInv

(* No compiler is found, and none is started.                              *)
LEMMA ExecFailsKeeps ==
  ASSUME CallInv, ExecFails
  PROVE  CallInv'
<1>1. /\ \A p \in Compilers : Given(p)'
      /\ \A p \in Compilers : Active(p)' => Process(p)'
      /\ Others'
  BY ProcessesStay DEF ExecFails, compilers
<1>2. CallTypes'
  BY DEF ExecFails, compilers, CallInv, CallTypes
<1>3. Sent' = Sent
  BY DEF ExecFails, compilers, Sent, At
<1>4. Reading'
  BY <1>3 DEF ExecFails, compilers, CallInv, Reading, At, Wanted
<1> QED
  BY <1>1, <1>2, <1>4 DEF CallInv

(* The compiler is found and started, or the next entry is tried.          *)
LEMMA ExecKeeps ==
  ASSUME CallInv, Exec
  PROVE  CallInv'
<1>0. /\ pc # "idle" /\ pc # "fork" /\ At(Piped, "idle") /\ Piped \in Compilers
      /\ pipe + seen = Sent /\ Sent = 0
  BY DriverAssumption DEF Exec, CallInv, Reading, Sent
<1>1. CASE dir = found
  <2>1. child' = "compiler" /\ dir' = dir /\ proc' = [proc EXCEPT ![Piped] = Started(Piped)]
        /\ UNCHANGED <<command, envp, job, files, pipe, found, pc, writers, blocks, seen>>
    BY <1>1 DEF Exec, TriesNext
  <2>2. job[Piped].text \in Nat /\ job[Piped].ir \in Nat /\ job[Piped].err \in Nat
    BY <1>0, IsReady DEF Active, Ready
  <2>3. Started(Piped) \in Processes
    BY <2>2, StartedRecord
  <2>4. proc' \in [Compilers -> Processes] /\ proc'[Piped] = Started(Piped)
        /\ \A p \in Compilers : p # Piped => proc'[p] = proc[p]
    BY <1>0, <2>1, <2>3 DEF CallInv, CallTypes
  <2>5. Process(Piped)'
    <3>1. Process(Piped)
      BY <1>0 DEF CallInv, Active
    <3>2. files[Piped] = <<>> /\ (Writes(command[Piped]) => files[Wanted(Piped).output] = Old)
      BY <1>0, <3>1 DEF Process, Holds, TempHolds, OutputHolds, At, Temp
    <3>3. Holds(Piped, Started(Piped), <<>>, Old)
      BY <2>2, StartHolds, StartedRecord
    <3>4. Holds(Piped, proc'[Piped], files'[Piped], files'[Wanted(Piped).output])
      BY <2>1, <2>4, <3>2, <3>3 DEF Holds
    <3> QED
      BY <2>1, <3>4, HoldsNext
  <2>6. \A p \in Compilers : Given(p)'
    BY <2>1 DEF CallInv, Given
  <2>7. \A p \in Compilers : Active(p)' => Process(p)'
    BY <1>0, <2>1, <2>5 DEF Active
  <2>8. Others'
    BY <2>1, <2>4 DEF CallInv, Others, Active
  <2>9. CallTypes'
    BY <2>1, <2>4 DEF CallInv, CallTypes
  <2>10. ~At(Piped, "idle")' /\ ~At(Piped, "exited")' /\ Sent' = 0
    BY <2>1, <2>2, <2>4, StartedRecord DEF At, Sent
  <2>11. found > 0
    BY <1>1, CheckErrorsAssumption DEF CallInv, CallTypes
  <2>12. Reading'
    BY <1>0, <2>1, <2>10, <2>11 DEF CallInv, Reading, At
  <2> QED
    BY <2>6, <2>7, <2>8, <2>9, <2>12 DEF CallInv
<1>2. CASE dir # found
  <2>1. dir' = dir + 1
        /\ UNCHANGED <<command, envp, job, proc, files, pipe, found, pc, child, writers, blocks,
                       seen>>
    BY <1>2 DEF Exec, TriesNext
  <2>2. dir' \in 1 .. PathDirs + 1
    BY <2>1, CheckErrorsAssumption DEF Exec, CallInv, CallTypes
  <2>3. /\ \A p \in Compilers : Given(p)'
        /\ \A p \in Compilers : Active(p)' => Process(p)'
        /\ Others'
    BY <2>1, ProcessesStay
  <2>4. CallTypes'
    BY <2>1, <2>2 DEF CallInv, CallTypes
  <2>5. Sent' = Sent
    BY <2>1 DEF Sent, At
  <2>6. Reading'
    BY <2>1, <2>5 DEF CallInv, Reading, At, Wanted
  <2> QED
    BY <2>3, <2>4, <2>6 DEF CallInv
<1> QED
  BY <1>1, <1>2

(* Every step keeps the invariant.                                         *)
LEMMA CallNext ==
  ASSUME CallInv, [Next]_vars
  PROVE  CallInv'
<1>1. CASE Caller
  BY <1>1, ForkCompilerKeeps, WaitKeeps, CloseWriteKeeps, ReadKeeps, ReadEndKeeps DEF Caller
<1>2. CASE Child
  BY <1>2, DupKeeps, ExecKeeps, ExecFailsKeeps DEF Child
<1>3. CASE \E p \in Compilers : (Compiler(p) \/ Helper(p)) /\ UNCHANGED call
  BY <1>3, CompilerKeeps
<1>4. CASE UNCHANGED vars
  <2>1. /\ \A p \in Compilers : Given(p)'
        /\ \A p \in Compilers : Active(p)' => Process(p)'
        /\ Others'
    BY <1>4, ProcessesStay DEF vars, compilers
  <2>2. CallTypes'
    BY <1>4 DEF vars, compilers, CallInv, CallTypes
  <2>3. Sent' = Sent
    BY <1>4 DEF vars, compilers, Sent, At
  <2>4. Reading'
    BY <1>4, <2>3 DEF vars, compilers, CallInv, Reading, At, Wanted
  <2> QED
    BY <2>1, <2>2, <2>4 DEF CallInv
<1> QED
  BY <1>1, <1>2, <1>3, <1>4 DEF Next

(***************************************************************************)
(* The theorems.                                                           *)
(***************************************************************************)

(* The invariant: what each compiler has in its files, its pipe and its    *)
(* diagnostic at each step, and how the call shares the pipe with it.      *)
THEOREM CallInvariant == Spec => []CallInv
BY CallInit, CallNext, PTL DEF Spec

(* Type correctness of check_errors and process. The counters of the       *)
(* reading stay within what a diagnostic has, the pipes within what they   *)
(* hold.                                                                   *)
THEOREM CallTypeCorrect == Spec => []TypeOK
<1>1. ASSUME CallInv PROVE TypeOK
  <2>1. /\ pc \in {"idle", "fork", "wait", "close", "read", "ok", "fail"}
        /\ child \in {"none", "dup", "exec", "read", "compiler"}
        /\ dir \in 1 .. PathDirs + 1
        /\ writers \subseteq {"caller", "child", "stderr"}
        /\ pipe \in 0 .. Capacity
    BY <1>1 DEF CallInv, CallTypes
  <2>2. \A p \in Compilers : proc[p].text \in 0 .. Capacity /\ proc[p].status \in {0, 1, 3}
    BY <1>1 DEF CallInv, CallTypes, Processes
  <2>3. pipe \in Nat /\ blocks \in Nat /\ seen \in Nat /\ Piped \in Compilers
    BY <1>1, DriverAssumption DEF CallInv, CallTypes
  <2>4. blocks <= MaxBytes /\ seen <= MaxBytes
    <3>1. CASE pc = "idle"
      BY <1>1, <3>1, CheckErrorsAssumption DEF CallInv, Reading
    <3>2. CASE pc # "idle"
      <4>1. pipe + seen = Sent /\ blocks <= seen
        BY <1>1, <3>2 DEF CallInv, Reading
      <4>2. job[Piped].err \in Nat /\ job[Piped].err <= MaxBytes
        BY <1>1, <2>3, <3>2, CheckJob DEF CallInv, Given
      <4>3. proc[Piped].left.err \in Nat
        BY <1>1, <2>3 DEF CallInv, CallTypes, Processes, Left
      <4>4. Sent \in Int /\ Sent <= MaxBytes
        BY <4>2, <4>3, CheckErrorsAssumption DEF Sent
      <4> QED
        BY <2>3, <4>1, <4>4, CheckErrorsAssumption
    <3> QED
      BY <3>1, <3>2
  <2> QED
    BY <2>1, <2>2, <2>3, <2>4, CheckErrorsAssumption DEF TypeOK
<1> QED
  BY <1>1, CallInvariant, PTL

(* check_errors has the whole diagnostic when it returns, for a block and  *)
(* a diagnostic of any size.                                               *)
THEOREM CallReadsWhole == Spec => []ReadsWhole
<1>1. ASSUME CallInv, pc \in {"ok", "fail"}
      PROVE  seen = IF Refused(Settings(Piped)) THEN 0 ELSE job[Piped].err
  <2>1. At(Piped, "exited") /\ pipe = 0 /\ pipe + seen = Sent /\ Piped \in Compilers
    BY <1>1, DriverAssumption DEF CallInv, Reading
  <2>2. Process(Piped) /\ job[Piped] \in CheckJobs
    BY <1>1, <2>1 DEF CallInv, Active, Given
  <2>3. Settings(Piped) = Wanted(Piped)
    BY <2>1, <2>2 DEF Process, Holds, Configured, At, Settings
  <2>4. proc[Piped].left.err = IF Rejected(Piped) THEN 0 ELSE job[Piped].err
    BY <2>1, <2>2 DEF Process, Holds, Reported, At
  <2>5. seen = job[Piped].err - proc[Piped].left.err
    BY <1>1, <2>1 DEF Sent, At, CallInv, CallTypes
  <2>6. job[Piped].err \in Nat
        /\ (job[Piped].fails \notin {"syntax", "compile"} => job[Piped].err = 0)
    BY <2>2, CheckJob
  <2> QED
    BY <2>3, <2>4, <2>5, <2>6 DEF Rejected
<1>2. CallInv => ReadsWhole
  BY <1>1 DEF ReadsWhole
<1> QED
  BY <1>2, CallInvariant, PTL

(* A compiler that has ended, however it ended, has left no temporary      *)
(* file.                                                                   *)
THEOREM CallLeavesNoTemp == Spec => []LeavesNoTemp
<1>1. ASSUME CallInv, NEW p \in Compilers, At(p, "exited")
      PROVE  files[Temp(p)] = <<>>
  <2>1. Active(p)
    BY <1>1 DEF CallInv, Others, At
  <2> QED
    BY <1>1, <2>1 DEF CallInv, Process, Holds, TempHolds, At
<1>2. CallInv => LeavesNoTemp
  BY <1>1 DEF LeavesNoTemp
<1> QED
  BY <1>2, CallInvariant, PTL

(* What a compiler leaves in the file it was to write is its own, of the   *)
(* backend it was told, and whole, or there is nothing new in it: for any  *)
(* number of compilers that run at a time, each with an output of its own. *)
THEOREM CallOutputIsOwn == Spec => []OutputIsOwn
<1>1. ASSUME CallInv, NEW p \in Compilers, At(p, "exited"), Settings(p).output # Absent,
             Settings(p).compile
      PROVE  LET st == Settings(p)
                 form == IF st.backend = "x86_64_asm_legacy" THEN "text" ELSE "ir"
                 text == Pieces(p, form, job[p][form])
             IN  CASE proc[p].status # 0 -> files[st.output] \in {Old, <<>>}
                   [] proc[p].status = 0 /\ st.assemble ->
                        files[st.output] = IF Assembles(p) THEN Object(text) ELSE <<>>
                   [] OTHER -> files[st.output] = text
  <2>1. Active(p)
    BY <1>1 DEF CallInv, Others, At
  <2>2. Process(p)
    BY <1>1, <2>1 DEF CallInv
  <2>3. Settings(p) = Wanted(p)
    BY <1>1, <2>2 DEF Process, Holds, Configured, At, Settings
  <2>4. Writes(command[p])
    BY <1>1, <2>3 DEF Writes, Wanted
  <2>5. IF proc[p].status = 0 THEN files[Wanted(p).output] = ItsResult(p)
        ELSE files[Wanted(p).output] \in {Old, <<>>}
    BY <1>1, <2>2, <2>4 DEF Process, Holds, OutputHolds, At
  <2> QED
    BY <2>3, <2>5 DEF ItsResult, ItsText, ItsForm
<1>2. CallInv => OutputIsOwn
  BY <1>1 DEF OutputIsOwn
<1> QED
  BY <1>2, CallInvariant, PTL

(* What the compilers are to do is given once, and so is where they are.   *)
LEMMA WorkGiven ==
  ASSUME CallInv, [Next]_vars
  PROVE  UNCHANGED <<command, job, found>>
<1>1. CASE Caller
  BY <1>1 DEF Caller, ForkCompiler, Wait, CloseWrite, Read, ReadEnd, compilers
<1>2. CASE Child
  BY <1>2 DEF Child, Dup, Exec, ExecFails, compilers
<1>3. ASSUME NEW p \in Compilers, Compiler(p) \/ Helper(p), UNCHANGED call
      PROVE  UNCHANGED <<command, job, found>>
  <2>1. Moves(p)
    BY <1>3, ActiveMoves, IsReady, CompilerStep
  <2> QED
    BY <1>3, <2>1 DEF Moves, call
<1>4. CASE UNCHANGED vars
  BY <1>4 DEF vars, compilers
<1> QED
  BY <1>1, <1>2, <1>3, <1>4 DEF Next

(* check_errors does not return unless the compiler is found, and what is  *)
(* generated and what is reported are not more than a pipe holds: one half *)
(* of ReturnsExactlyWhenItFits, for pipes of any size.                     *)
THEOREM ReturnsOnlyWhenItFits == Spec => [](~Fits => [](pc \notin {"ok", "fail"}))
<1>1. ASSUME CallInv, pc \in {"ok", "fail"}
      PROVE  Fits
  <2>1. At(Piped, "exited") /\ Piped \in Compilers
    BY <1>1, DriverAssumption DEF CallInv, Reading
  <2>2. found > 0 /\ (job[Piped].err <= Capacity \/ Refused(Wanted(Piped)))
    BY <1>1, <2>1 DEF CallInv, CallTypes, Reading, At
  <2>3. Process(Piped)
    BY <1>1, <2>1 DEF CallInv, Active
  <2>4. /\ ~Refused(Wanted(Piped)) /\ job[Piped].fails \notin {"open", "syntax"}
             => job[Piped].text <= Capacity
        /\ /\ ~Refused(Wanted(Piped)) /\ UsesIr(Wanted(Piped))
           /\ job[Piped].fails \notin {"open", "syntax", "compile", "build"}
           => job[Piped].ir <= Capacity
    BY <2>1, <2>3 DEF Process, Holds, Generated, At
  <2> QED
    BY <2>2, <2>4 DEF Fits, Wanted, Stages
<1>2. CallInv /\ ~Fits => pc \notin {"ok", "fail"}
  BY <1>1
<1>3. ASSUME CallInv, [Next]_vars, ~Fits
      PROVE  ~Fits'
  BY <1>3, WorkGiven DEF Fits
<1> QED
  BY <1>2, <1>3, CallInvariant, PTL DEF Spec
==============================================================================
