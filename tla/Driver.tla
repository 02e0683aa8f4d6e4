-------------------------------- MODULE Driver --------------------------------
(***************************************************************************)
(* The compiler as a program: main and build_settings of                   *)
(* compiler/src/main.c, process of compiler/src/process.c, and the pipes   *)
(* compile_process and the other backends collect their text in. Several   *)
(* compilers run at a time, on the same files, as make runs them. A file   *)
(* is a sequence of pieces that say who wrote them; one that is not there  *)
(* is empty.                                                               *)
(***************************************************************************)
EXTENDS Naturals, SequencesExt

CONSTANTS
  Compilers,  (* the processes                                             *)
  Piped,      (* the one whose standard error is a pipe                    *)
  Capacity,   (* pieces a pipe holds                                       *)
  Outputs,    (* files that are to be written                              *)
  Old         (* what is in them before                                    *)

ASSUME DriverAssumption == Piped \in Compilers /\ Capacity \in Nat \ {0}

VARIABLES
  command,  (* argv of each compiler                                       *)
  envp,     (* its environment                                             *)
  job,      (* what it will meet                                           *)
  proc,     (* where it is                                                 *)
  files,    (* the directory                                               *)
  pipe      (* pieces in the pipe that is Piped's standard error           *)

compilers == <<command, envp, job, proc, files, pipe>>

(***************************************************************************)
(* build_settings: a flag takes the arguments behind it, and any other     *)
(* argument is the input. Of several, the last counts.                     *)
(***************************************************************************)
Flags == {"-c", "-a", "-t", "-i", "-o", "-b"}
Backends == {"x86_64_asm_legacy", "x86_64_asm", "c"}
Absent == ""

Takes(flag) == CASE flag = "-i" -> 2 [] flag \in {"-o", "-b"} -> 1 [] OTHER -> 0

BuildSettings(argv) ==
  LET isValue[i \in DOMAIN argv] ==
        \E k \in 1 .. 2 : i > k /\ k <= Takes(argv[i - k]) /\ ~isValue[i - k]
      given(flag) == {i \in DOMAIN argv : argv[i] = flag /\ ~isValue[i]}
      inputs == {i \in DOMAIN argv : argv[i] \notin Flags /\ ~isValue[i]}
      valueOf(flag, default) ==
        LET last == Max({0} \cup {i \in given(flag) : i < Len(argv)})
        IN  IF last = 0 THEN default ELSE argv[last + 1]
  IN  [compile |-> given("-c") \cup given("-a") # {},
       assemble |-> given("-a") # {},
       backend |-> valueOf("-b", "x86_64_asm_legacy"),
       output |-> valueOf("-o", Absent),
       input |-> IF inputs = {} THEN Absent ELSE argv[Max(inputs)],
       wrong |-> \/ \E flag \in Flags : \E i \in given(flag) : i + Takes(flag) > Len(argv)
                 \/ \E i \in given("-b") : i < Len(argv) /\ argv[i + 1] \notin Backends]

NoSettings == BuildSettings(<<>>)

Refused(st) ==
  \/ st.wrong \/ st.input = Absent
  \/ st.compile /\ st.output = Absent
  \/ st.assemble /\ st.backend = "c"

(* The compiler is to write a file, and is told which.                     *)
Writes(argv) == BuildSettings(argv).compile /\ BuildSettings(argv).output # Absent

(* The name of a variable is compared with as much of PATH as it has       *)
(* characters, and the last that agrees is taken.                          *)
PathIn(env) ==
  FoldLeft(LAMBDA path, var :
             IF var.name \in {"", "P", "PA", "PAT", "PATH"} THEN var.value ELSE path,
           "", env)
PathVariable(p) == PathIn(envp[p])

(***************************************************************************)
(* Files.                                                                  *)
(***************************************************************************)
Piece(p, form) == [by |-> p, form |-> form]
Pieces(p, form, n) == [i \in 1 .. n |-> Piece(p, form)]

(* A slip: the temporary file has the same name for all.                   *)
TempOfAll(p) == Piped

(* It is named by the process, and the process stands for the name.        *)
Temp(p) == p

Settings(p) == proc[p].settings

CompileOutput(p) ==
  CASE Settings(p).assemble -> Temp(p)
    [] Settings(p).compile /\ ~Settings(p).assemble -> Settings(p).output
    [] OTHER -> Absent

Unlink(name) == IF name = Absent THEN files ELSE [files EXCEPT ![name] = <<>>]

(* write_file: the file is not truncated.                                  *)
Overwritten(old, new) == new \o SubSeq(old, Len(new) + 1, Len(old))
WriteFile(name, text) ==
  IF name = Absent THEN files ELSE [files EXCEPT ![name] = Overwritten(@, text)]

(***************************************************************************)
(* The process. What it meets, job: the stage that fails, the pieces of    *)
(* text of the first backend and of the other one and those of its         *)
(* diagnostic, and whether the assembler takes the text.                   *)
(***************************************************************************)
Stages == {"none", "open", "syntax", "compile", "build"}

Started(p) ==
  [pc |-> "start", settings |-> NoSettings, helper |-> "none", text |-> 0, status |-> 0,
   left |-> [text |-> job[p].text, ir |-> job[p].ir, err |-> job[p].err]]

At(p, pc) == proc[p].pc = pc

Goes(p, pc) == proc' = [proc EXCEPT ![p].pc = pc]

Exits(p, status) == proc' = [proc EXCEPT ![p].pc = "exited", ![p].status = status]

(* Without any argument main prints the help and returns 0.                *)
Start(p) ==
  /\ At(p, "start")
  /\ \E st \in {BuildSettings(command[p])} :
       proc' = [proc EXCEPT ![p].settings = st,
                            ![p].status = IF Refused(st) /\ command[p] # <<>> THEN 1 ELSE 0,
                            ![p].pc = IF Refused(st) THEN "exited" ELSE "parse"]
  /\ UNCHANGED <<command, envp, job, files, pipe>>

(* A file that cannot be opened is reported on standard output.            *)
Parse(p) ==
  /\ At(p, "parse")
  /\ CASE job[p].fails = "open" -> Exits(p, 1)
       [] job[p].fails = "syntax" -> Goes(p, "report")
       [] OTHER -> Goes(p, "unlink")
  /\ UNCHANGED <<command, envp, job, files, pipe>>

UnlinkText(p) ==
  /\ At(p, "unlink")
  /\ files' = Unlink(CompileOutput(p))
  /\ Goes(p, "text")
  /\ UNCHANGED <<command, envp, job, pipe>>

(* compile_node, and the other backends, write to a pipe they read later.  *)
Generate(p, form) ==
  /\ At(p, form)
  /\ proc[p].left[form] > 0 /\ proc[p].text < Capacity
  /\ proc' = [proc EXCEPT ![p].text = @ + 1, ![p].left[form] = @ - 1]
  /\ UNCHANGED <<command, envp, job, files, pipe>>

(* compile_flush_descriptors; or an error that compile_node meets.         *)
Flush(p) ==
  LET st == Settings(p)
  IN  /\ At(p, "text") /\ proc[p].left.text = 0
      /\ IF job[p].fails = "compile" THEN Goes(p, "report") /\ UNCHANGED files
         ELSE /\ files' = WriteFile(CompileOutput(p), Pieces(p, "text", job[p].text))
              /\ proc' = [proc EXCEPT
                   ![p].text = 0,
                   ![p].pc = CASE ~st.compile -> "exit"
                               [] st.compile /\ st.backend # "x86_64_asm_legacy" -> "discard"
                               [] OTHER -> IF st.assemble THEN "clear" ELSE "exit"]
      /\ UNCHANGED <<command, envp, job, pipe>>

(* A slip: the first backend's text stays.                                 *)
UnlinkAgainNot(p) ==
  /\ At(p, "discard")
  /\ Goes(p, "build")
  /\ UNCHANGED <<command, envp, job, files, pipe>>
UnlinkAgain(p) ==
  /\ At(p, "discard")
  /\ files' = Unlink(CompileOutput(p))
  /\ Goes(p, "build")
  /\ UNCHANGED <<command, envp, job, pipe>>

(* ir_build, which has nothing but _panic to report what it cannot do.     *)
Build(p) ==
  /\ At(p, "build")
  /\ IF job[p].fails = "build" THEN Exits(p, 3) /\ UNCHANGED files
     ELSE Goes(p, "ir") /\ files' = Unlink(Settings(p).output)
  /\ UNCHANGED <<command, envp, job, pipe>>

FlushIr(p) ==
  /\ At(p, "ir") /\ proc[p].left.ir = 0
  /\ files' = WriteFile(CompileOutput(p), Pieces(p, "ir", job[p].ir))
  /\ proc' = [proc EXCEPT ![p].text = 0,
                          ![p].pc = IF Settings(p).assemble THEN "clear" ELSE "exit"]
  /\ UNCHANGED <<command, envp, job, pipe>>

Clear(p) ==
  /\ At(p, "clear")
  /\ files' = Unlink(Settings(p).output)
  /\ Goes(p, "fork")
  /\ UNCHANGED <<command, envp, job, pipe>>

(* process_assemble.                                                       *)
Fork(p) ==
  /\ At(p, "fork")
  /\ proc' = [proc EXCEPT ![p].pc = "wait", ![p].helper = "exec"]
  /\ UNCHANGED <<command, envp, job, files, pipe>>

(* The child becomes nasm, or it goes on as the compiler that forked it.   *)
HelperExec(p) ==
  /\ proc[p].helper = "exec"
  /\ proc' = [proc EXCEPT ![p].helper = IF PathVariable(p) = "tools" THEN "nasm" ELSE "clean"]
  /\ UNCHANGED <<command, envp, job, files, pipe>>

Object(text) == [i \in DOMAIN text |-> [text[i] EXCEPT !.form = <<"object", @>>]]

Nasm(p) ==
  /\ proc[p].helper = "nasm"
  /\ files' = IF job[p].accepted
              THEN [files EXCEPT ![Settings(p).output] = Object(files[CompileOutput(p)])]
              ELSE files
  /\ proc' = [proc EXCEPT ![p].helper = "exited"]
  /\ UNCHANGED <<command, envp, job, pipe>>

HelperClean(p) ==
  /\ proc[p].helper = "clean"
  /\ files' = Unlink(CompileOutput(p))
  /\ proc' = [proc EXCEPT ![p].helper = "exited"]
  /\ UNCHANGED <<command, envp, job, pipe>>

Join(p) ==
  /\ At(p, "wait") /\ proc[p].helper = "exited"
  /\ Goes(p, "clean")
  /\ UNCHANGED <<command, envp, job, files, pipe>>

Clean(p) ==
  /\ At(p, "clean")
  /\ files' = Unlink(CompileOutput(p))
  /\ Goes(p, "exit")
  /\ UNCHANGED <<command, envp, job, pipe>>

(* error_syntax, error_semantic.                                           *)
Report(p) ==
  /\ At(p, "report")
  /\ proc[p].left.err > 0
  /\ p = Piped => pipe < Capacity
  /\ pipe' = IF p = Piped THEN pipe + 1 ELSE pipe
  /\ proc' = [proc EXCEPT ![p].left.err = @ - 1]
  /\ UNCHANGED <<command, envp, job, files>>

Exit(p) ==
  /\ \/ At(p, "report") /\ proc[p].left.err = 0 /\ Exits(p, 1)
     \/ At(p, "exit") /\ Exits(p, 0)
  /\ UNCHANGED <<command, envp, job, files, pipe>>

Compiler(p) ==
  \/ Start(p) \/ Parse(p) \/ UnlinkText(p)
  \/ \E form \in {"text", "ir"} : Generate(p, form)
  \/ Flush(p) \/ UnlinkAgain(p) \/ Build(p) \/ FlushIr(p)
  \/ Clear(p) \/ Fork(p) \/ Join(p) \/ Clean(p)
  \/ Report(p) \/ Exit(p)

Helper(p) == HelperExec(p) \/ Nasm(p) \/ HelperClean(p)

(***************************************************************************)
(* Properties.                                                             *)
(***************************************************************************)

(* Whether the assembler turns the text of a compiler into an object.      *)
Assembles(p) == job[p].accepted /\ PathVariable(p) = "tools"

(* When a compiler has ended, the file it was to write is all its own, of  *)
(* the backend that was asked for, and whole; where it or the assembler    *)
(* failed the file is as it was before or it is not there. Nothing is left *)
(* of what was in the file, of the first backend's text, or of another     *)
(* compiler's, and so it is although write_file does not truncate.         *)
OutputIsOwn ==
  \A p \in Compilers :
    LET st == Settings(p)
        form == IF st.backend = "x86_64_asm_legacy" THEN "text" ELSE "ir"
        text == Pieces(p, form, job[p][form])
    IN  At(p, "exited") /\ st.output # Absent /\ st.compile =>
          CASE proc[p].status # 0 -> files[st.output] \in {Old, <<>>}
            [] proc[p].status = 0 /\ st.assemble ->
                 files[st.output] = IF Assembles(p) THEN Object(text) ELSE <<>>
            [] OTHER -> files[st.output] = text

(* A compiler that has ended leaves no temporary file behind, whatever     *)
(* failed on the way.                                                      *)
LeavesNoTemp ==
  \A p \in Compilers : At(p, "exited") => files[Temp(p)] = <<>>
==============================================================================
