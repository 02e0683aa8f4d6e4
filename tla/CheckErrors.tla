----------------------------- MODULE CheckErrors -----------------------------
(***************************************************************************)
(* One call of check_errors of compiler/src/languageserver.c: a responder  *)
(* of the language server runs the compiler in a child process and reads   *)
(* what it wrote to its standard error from a pipe. The compiler is Driver *)
(* and collects its own output in a pipe too, written and read by the same *)
(* process. A pipe holds at most Capacity pieces; a write to a full one    *)
(* blocks, a read of an empty one blocks as long as any process has its    *)
(* write end open. Instead of the call there may be compilers that were    *)
(* started from a shell.                                                   *)
(***************************************************************************)
EXTENDS Driver

CONSTANTS
  Block,         (* the size read_file_descriptor reads at a time          *)
  PathDirs,      (* entries of the PATH the server was started with        *)
  MaxBytes,      (* bound on what the compiler writes to either pipe       *)
  CheckCommands, (* the arguments a client may send                        *)
  BuildCommands, (* those a shell may give to each compiler                *)
  Environments,  (* and their environments                                 *)
  BuildJobs      (* and what they meet                                     *)

ASSUME CheckErrorsAssumption ==
  /\ Block \in Nat \ {0}
  /\ PathDirs \in Nat
  /\ MaxBytes \in Nat
  /\ \A j \in BuildJobs : j.fails \in Stages /\ {j.text, j.ir, j.err} \subseteq Nat

(* No file that is to be written has the name of a temporary one, and no   *)
(* two compilers that run at a time are to write the same file.            *)
ASSUME OutputsAssumption ==
  /\ Outputs \cap Compilers = {} /\ Absent \notin Outputs \cup Compilers
  /\ \A c \in CheckCommands \cup UNION {BuildCommands[p] : p \in Compilers} :
       Writes(c) => BuildSettings(c).output \in Outputs
  /\ \A p, q \in Compilers :
       p # q => \A c \in BuildCommands[p], d \in BuildCommands[q] :
                  Writes(c) /\ Writes(d) => BuildSettings(c).output # BuildSettings(d).output

(* What the compiler will meet when it is run for a check. A diagnostic is *)
(* written when the program is rejected and only then.                     *)
CheckJobs ==
  {j \in [fails : Stages, text : 0 .. MaxBytes, ir : {1, Capacity + 1},
          err : 0 .. MaxBytes, accepted : {TRUE}] :
     (j.err > 0) = (j.fails \in {"syntax", "compile"})}

VARIABLES
  found,    (* the entry of PATH that has the compiler, 0: none            *)
  pc,       (* the caller in check_errors                                  *)
  child,    (* the child process                                           *)
  dir,      (* the entry of PATH the child tries                           *)
  writers,  (* the descriptors open on the write end of the error pipe     *)
  blocks,   (* n_blocks of the caller's read_file_descriptor               *)
  seen      (* the length of its contents, up to the first NUL             *)

vars == <<compilers, found, pc, child, dir, writers, blocks, seen>>

Idle ==
  [pc |-> "idle", settings |-> NoSettings, helper |-> "none", text |-> 0, status |-> 0,
   left |-> [text |-> 0, ir |-> 0, err |-> 0]]

(* Either the server checks a program, or a shell builds some.             *)
Init ==
  /\ \/ /\ pc = "fork"
        /\ found \in 0 .. PathDirs
        /\ \E c \in CheckCommands : command = [p \in Compilers |-> c]
        /\ envp = [p \in Compilers |-> <<>>]
        /\ \E j \in CheckJobs : job = [p \in Compilers |-> j]
        /\ proc = [p \in Compilers |-> Idle]
     \/ /\ pc = "idle"
        /\ found = 0
        /\ command \in {c \in [Compilers -> UNION {BuildCommands[p] : p \in Compilers}] :
                          \A p \in Compilers : c[p] \in BuildCommands[p]}
        /\ \E e \in Environments : envp = [p \in Compilers |-> e]
        /\ job \in [Compilers -> BuildJobs]
        /\ proc = [p \in Compilers |-> Started(p)]
  /\ files = [f \in Outputs \cup {Temp(p) : p \in Compilers} |->
                IF f \in Outputs THEN Old ELSE <<>>]
  /\ pipe = 0
  /\ child = "none"
  /\ dir = 1
  /\ writers = {"caller"}
  /\ blocks = 0
  /\ seen = 0

(***************************************************************************)
(* The caller.                                                             *)
(***************************************************************************)
ForkCompiler ==
  /\ pc = "fork"
  /\ pc' = "wait"
  /\ child' = "dup"
  /\ writers' = writers \cup {"child"}
  /\ UNCHANGED <<compilers, found, dir, blocks, seen>>

WaitNot ==                             \* a slip: the read comes first
  /\ pc = "wait"
  /\ pc' = "close"
  /\ UNCHANGED <<compilers, found, child, dir, writers, blocks, seen>>
Wait ==
  /\ pc = "wait"
  /\ At(Piped, "exited")
  /\ pc' = "close"
  /\ UNCHANGED <<compilers, found, child, dir, writers, blocks, seen>>

CloseNothing ==                        \* a slip: the write end stays open
  /\ pc = "close"
  /\ pc' = "read"
  /\ UNCHANGED <<compilers, found, child, dir, writers, blocks, seen>>
CloseWrite ==
  /\ pc = "close"
  /\ pc' = "read"
  /\ writers' = writers \ {"caller"}
  /\ UNCHANGED <<compilers, found, child, dir, blocks, seen>>

(* A turn of read_file_descriptor. Each block is copied as a string to its *)
(* own place: what follows a block that was not full is behind a NUL.      *)
Count == IF pipe < Block THEN pipe ELSE Block

Read ==
  /\ pc = "read"
  /\ pipe > 0
  /\ pipe' = pipe - Count
  /\ blocks' = blocks + 1
  /\ seen' = IF seen = blocks * Block THEN seen + Count ELSE seen
  /\ UNCHANGED <<command, envp, job, proc, files, found, pc, child, dir, writers>>

(* A process that has ended has nothing open.                              *)
Writing == IF At(Piped, "exited") THEN writers \ {"child", "stderr"} ELSE writers

(* End of file. No diagnostic means the program is correct.                *)
ReadEnd ==
  /\ pc = "read"
  /\ pipe = 0 /\ Writing = {}
  /\ pc' = IF seen = 0 THEN "ok" ELSE "fail"
  /\ UNCHANGED <<compilers, found, child, dir, writers, blocks, seen>>

Caller == ForkCompiler \/ Wait \/ CloseWrite \/ Read \/ ReadEnd

(***************************************************************************)
(* The child: fd[1] becomes its standard error, then _execvp tries the     *)
(* entries of PATH. An exec replaces the program and keeps descriptors.    *)
(***************************************************************************)
Dup ==
  /\ child = "dup"
  /\ child' = "exec"
  /\ writers' = writers \cup {"stderr"}
  /\ UNCHANGED <<compilers, found, pc, dir, blocks, seen>>

TriesNext ==
  IF dir = found
  THEN child' = "compiler" /\ proc' = [proc EXCEPT ![Piped] = Started(Piped)] /\ UNCHANGED dir
  ELSE dir' = dir + 1 /\ UNCHANGED <<child, proc>>

ExecPastEnd ==                         \* a slip: the end of PATH is missed
  /\ child = "exec"
  /\ TriesNext
  /\ UNCHANGED <<command, envp, job, files, pipe, found, pc, writers, blocks, seen>>
Exec ==
  /\ child = "exec"
  /\ dir <= PathDirs
  /\ TriesNext
  /\ UNCHANGED <<command, envp, job, files, pipe, found, pc, writers, blocks, seen>>

(* _execvp returns: the child goes on as the caller does. It has no child  *)
(* to wait for, and closes fd[1] but not its standard error, the write end *)
(* of the pipe it then reads.                                              *)
ExecFails ==
  /\ child = "exec"
  /\ dir > PathDirs
  /\ child' = "read"
  /\ writers' = writers \ {"child"}
  /\ UNCHANGED <<compilers, found, pc, dir, blocks, seen>>

Child == Dup \/ Exec \/ ExecFails

call == <<found, pc, child, dir, writers, blocks, seen>>

Next ==
  \/ Caller
  \/ Child
  \/ \E p \in Compilers : (Compiler(p) \/ Helper(p)) /\ UNCHANGED call

(* Each process runs when it can; a blocked one cannot.                    *)
Fairness ==
  /\ WF_vars(Caller) /\ WF_vars(Child)
  /\ WF_vars(Compiler(Piped) /\ UNCHANGED call)
  /\ WF_vars(Helper(Piped) /\ UNCHANGED call)

Spec == Init /\ [][Next]_vars /\ Fairness

(***************************************************************************)
(* Properties.                                                             *)
(***************************************************************************)

(* Type correctness of the call, the pipes and the processes.              *)
TypeOK ==
  /\ pc \in {"idle", "fork", "wait", "close", "read", "ok", "fail"}
  /\ child \in {"none", "dup", "exec", "read", "compiler"}
  /\ dir \in 1 .. PathDirs + 1
  /\ writers \subseteq {"caller", "child", "stderr"}
  /\ pipe \in 0 .. Capacity
  /\ \A p \in Compilers : proc[p].text \in 0 .. Capacity /\ proc[p].status \in {0, 1, 3}
  /\ blocks \in 0 .. MaxBytes /\ seen \in 0 .. MaxBytes

(* check_errors reads the whole diagnostic, although it is read in blocks  *)
(* that are put together as strings: because the compiler has ended before *)
(* the first read, no block but the last one is short.                     *)
ReadsWhole ==
  pc \in {"ok", "fail"} => seen = IF Refused(Settings(Piped)) THEN 0 ELSE job[Piped].err

(* The run the call can see the end of: the compiler is found, and neither *)
(* what it generates, by either backend, nor its diagnostic is larger than *)
(* a pipe.                                                                 *)
UsesIr(st) == st.compile /\ st.backend # "x86_64_asm_legacy"

Fits ==
  LET st == BuildSettings(command[Piped])
      reached(stages) == ~Refused(st) /\ job[Piped].fails \notin stages
  IN  /\ found > 0
      /\ ~Refused(st) => job[Piped].err <= Capacity
      /\ reached({"open", "syntax"}) => job[Piped].text <= Capacity
      /\ reached(Stages \ {"none"}) /\ UsesIr(st) => job[Piped].ir <= Capacity

(* check_errors returns if, and only if, that is so. Otherwise the caller  *)
(* and the child wait for each other for ever.                             *)
ReturnsExactlyWhenItFits ==
  pc = "fork" =>
    /\ Fits => <>(pc \in {"ok", "fail"})
    /\ ~Fits => [](pc \notin {"ok", "fail"})

==============================================================================
