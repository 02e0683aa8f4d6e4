---------------------------- MODULE MCCheckErrors -----------------------------
(* CheckErrors with one check, or two compilers of a build, each with an   *)
(* output of its own that is not empty.                                    *)
EXTENDS CheckErrors
CONSTANTS p, q
MCCompilers == {p, q}
MCOutputs == {"p.o", "q.o"}
MCOld == Pieces("before", "old", 3)
MCCheckCommands == {<<"a.al">>, <<"-c", "-b", "c", "-o", "p.o", "a.al">>, <<"-b", "a.al">>}
Built(out) ==
  {<<"-c", "p.al", "-o", out>>, <<"-a", "-i", "n", "-c", "p.al", "-o", out>>,
   <<"-a", "-o", out, "-b", "x86_64_asm", "p.al">>, <<"-t", "-b", "c", "-c", "-o", out, "p.al">>,
   <<"-b", "c", "-a", "-o", out, "p.al">>}
MCBuildCommands == (p :> Built("p.o")) @@ (q :> Built("q.o"))
MCEnvironments ==
  {<<>>, <<[name |-> "PATH", value |-> "tools"], [name |-> "PATHS", value |-> "none"]>>,
   <<[name |-> "PATH", value |-> "tools"], [name |-> "P", value |-> "none"]>>}
MCBuildJobs ==
  {j \in [fails : Stages, text : {2}, ir : {1}, err : 0 .. 1, accepted : BOOLEAN] :
     /\ (j.err > 0) = (j.fails \in {"syntax", "compile"})
     /\ j.fails # "none" => j.accepted}
==============================================================================
