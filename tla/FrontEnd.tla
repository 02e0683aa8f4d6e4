------------------------------- MODULE FrontEnd -------------------------------
(***************************************************************************)
(* From characters to types, and from types to the labels of methods. A    *)
(* program is a typedef of the name T and methods of one name, each on a   *)
(* type of its own; its types are written as text, read by the lexer and   *)
(* by syntax_process_type, and then the definitions are compiled in order  *)
(* (compile_type_definition, compile_function_definition,                  *)
(* compile_prototype). Programs without methods are only read.             *)
(***************************************************************************)
EXTENDS Lexer, Types, SequencesExt

CONSTANTS
  RawTexts,   (* texts that are only read                                  *)
  Programs    (* [named, methods: a sequence of [form, type, first]]: form *)
              (* is "external", "local" or "proto"; first tells whether    *)
              (* the first parameter has the "same" type as the caller, is *)
              (* an integer ("I"), or is not there ("none")                *)

VARIABLES
  program,    (* NoProgram, or the program                                 *)
  types,      (* context.types                                             *)
  functions,  (* context.functions                                         *)
  index,      (* context.function_index                                    *)
  todo,       (* the types not yet compiled, in the order of the text      *)
  outcome     (* "reading", "compiling", "done" or what ended it           *)

vars == <<lexer, program, types, functions, index, todo, outcome>>

NoProgram == [named |-> Atom("V", 0), methods |-> <<>>]
TheName == <<"T">>
Method == <<"m">>

(***************************************************************************)
(* How a type is written.                                                  *)
(***************************************************************************)
Comma(k, n) == IF k < n THEN <<",">> ELSE <<>>
RECURSIVE Written(_)
Written(t) ==
  LET n == Len(t.parts)
      part(k) == Written(t.parts[k])
      join(piece(_), m) == FoldLeft(LAMBDA all, k : all \o piece(k), <<>>, [k \in 1 .. m |-> k])
      field(k) == t.names[k] \o <<":">> \o part(k) \o Comma(k, n)
  IN  <<"#">> \o (IF t.degree = 0 THEN <<>> ELSE Itoa(t.degree))
        \o (CASE t.kind \in {"V", "I", "C"} -> <<t.kind>>
              [] t.kind = "name" -> t.names[1]
              [] t.kind = "A" -> <<"A", "[">> \o Itoa(t.length) \o <<"]">> \o part(1)
              [] t.kind = "S" -> <<"S", "{">> \o join(field, n) \o <<"}">>
              [] t.kind = "F" -> <<"F", "(">> \o join(part, n - 1) \o <<")", "-", ">">> \o part(n))

TypesOf(p) == <<p.named>> \o [k \in 1 .. Len(p.methods) |-> p.methods[k].type]
TextOf(p) == FoldLeft(LAMBDA all, t : all \o Written(t) \o <<"\n">>, <<>>, TypesOf(p))

(***************************************************************************)
(* The parser takes one type behind the other.                             *)
(***************************************************************************)
Tokens == [k \in 1 .. Len(stream) |->
            [kind |-> stream[k].kind, chars |-> Slice(stream[k].from, stream[k].to)]]

RECURSIVE ReadAll(_, _)
ReadAll(ts, p) ==
  IF ts[p].kind = "eof" THEN <<>>
  ELSE LET this == ReadType(ts, p)
       IN  IF this.ok THEN <<this.type>> \o ReadAll(ts, this.next) ELSE <<>>

FrontInit ==
  /\ \/ program = NoProgram /\ text \in RawTexts
     \/ program \in Programs /\ text = TextOf(program)
  /\ LexerStart
  /\ types = <<>> /\ functions = <<>> /\ index = 0 /\ todo = <<>>
  /\ outcome = "reading"

Reads ==
  /\ outcome = "reading"
  /\ Lex
  /\ UNCHANGED <<program, types, functions, index, todo, outcome>>

Parses ==
  /\ outcome = "reading" /\ lexed # "no"
  /\ IF program = NoProgram \/ lexed = "error"
     THEN outcome' = "done" /\ UNCHANGED todo
     ELSE outcome' = "compiling" /\ todo' = ReadAll(Tokens, 1)
  /\ UNCHANGED <<lexer, program, types, functions, index>>

(***************************************************************************)
(* Definitions.                                                            *)
(***************************************************************************)
Done == Len(functions)
Compiling == outcome = "compiling" /\ todo # <<>>

Stops(why) ==
  /\ outcome' = why
  /\ UNCHANGED <<lexer, program, types, functions, index, todo>>

TypeDefinition ==
  LET t == Normalize(Head(todo), types)
  IN  /\ Compiling /\ types = <<>>
      /\ IF Failed(t) THEN Stops(t.kind)
         ELSE /\ types' = Append(types, [name |-> TheName, type |-> t])
              /\ todo' = Tail(todo)
              /\ UNCHANGED <<lexer, program, functions, index, outcome>>

ParametersOf(method) ==
  CASE method.first = "same" -> <<method.type>>
    [] method.first = "I" -> <<Atom("I", 0)>>
    [] method.first = "none" -> <<>>

(* The first parameter has to be of the caller's type; the function is     *)
(* known by then.                                                          *)
Declare(t, front, back) ==
  LET method == program.methods[Done + 1]
      parameters == [k \in 1 .. Len(ParametersOf(method)) |-> Normalize(ParametersOf(method)[k], types)]
  IN  /\ functions' = Append(functions, [front |-> front, back |-> back, caller |-> t])
      /\ todo' = Tail(todo)
      /\ outcome' = IF parameters # <<>> /\ Equal(Head(parameters), t, types)
                    THEN "compiling" ELSE "caller differs"
      /\ UNCHANGED <<lexer, program, types>>

FunctionDefinition ==
  LET method == program.methods[Done + 1]
      t == Normalize(Head(todo), types)
  IN  /\ Compiling /\ types # <<>>
      /\ method.form # "proto"
      /\ IF Failed(t) THEN Stops(t.kind)
         ELSE IF method.form = "external"
         THEN Declare(t, Method, <<"_", "T">> \o Mangle(t, types) \o Method) /\ UNCHANGED index
         ELSE Declare(t, Method, <<"_", "Z">> \o Itoa(index)) /\ index' = index + 1

(* What the program calls the method is its label: front is back.          *)
Prototype ==
  LET t == Normalize(Head(todo), types)
      label == <<"_", "T">> \o Mangle(t, types) \o Method
  IN  /\ Compiling /\ types # <<>>
      /\ program.methods[Done + 1].form = "proto"
      /\ IF Failed(t) THEN Stops(t.kind) ELSE Declare(t, label, label) /\ UNCHANGED index

Finished ==
  /\ outcome = "compiling" /\ todo = <<>>
  /\ Stops("done")

(* context_find_method: the last one of the name whose caller is equal.    *)
Candidates(front, t) ==
  {k \in 1 .. Len(functions) : functions[k].front = front /\ Equal(functions[k].caller, t, types)}
FindMethod(front, t) ==
  IF Candidates(front, t) = {} THEN 0 ELSE Max(Candidates(front, t))

(***************************************************************************)
(* Properties.                                                             *)
(***************************************************************************)
TypeOK ==
  /\ LexerTypeOK
  /\ outcome \in {"reading", "compiling", "done", "panic", "unnamed", "caller differs"}
  /\ Len(types) <= 1 /\ \A k \in 1 .. Len(types) : ~Failed(types[k].type)
  /\ Len(functions) <= Len(program.methods)
  /\ index \in 0 .. Len(functions)
  /\ Len(todo) <= 1 + Len(program.methods)

(* Every type that a program can write is read as that type: lexer and     *)
(* parser agree on where it ends (syntax_process_type).                    *)
TypesReadBack ==
  (program # NoProgram /\ outcome = "compiling" /\ types = <<>>) => todo = TypesOf(program)

(* What a type stands for: the name replaced by what it names, pointers to *)
(* it counted together.                                                    *)
RECURSIVE Meaning(_)
Meaning(t) ==
  IF t.kind = "name"
  THEN LET named == Meaning(program.named) IN [named EXCEPT !.degree = @ + t.degree]
  ELSE [t EXCEPT !.size = 0, !.parts = [k \in 1 .. Len(t.parts) |-> Meaning(t.parts[k])]]

(* The same, without what functions return.                                *)
RECURSIVE Shape(_)
Shape(m) ==
  [m EXCEPT !.parts = [k \in 1 .. Len(m.parts) |->
     IF m.kind = "F" /\ k = Len(m.parts) THEN Atom("V", 0) ELSE Shape(m.parts[k])]]

MeaningOf(k) == Meaning(program.methods[k].type)
FormOf(k) == program.methods[k].form

(* A prototype in one file and a definition in another meet in the linker  *)
(* when, and only when, they are methods of the same type, whatever names  *)
(* the files give it (type_mangle, langref.html:232).                      *)
LabelsByMeaning ==
  \A j, k \in 1 .. Len(functions) :
    FormOf(j) # "local" /\ FormOf(k) # "local"
      => (functions[j].back = functions[k].back <=> MeaningOf(j) = MeaningOf(k))

(* A call on a value of a type reaches the last method defined for what    *)
(* the type means, and none when there is none (context_find_method).      *)
CallsByMeaning ==
  outcome = "done" =>
    \A k \in 1 .. Len(functions) :
      LET defined == {j \in 1 .. Len(functions) :
                       FormOf(j) # "proto" /\ Shape(MeaningOf(j)) = Shape(MeaningOf(k))}
      IN  FindMethod(Method, functions[k].caller) = (IF defined = {} THEN 0 ELSE Max(defined))

(* Methods go by what their types mean.                                    *)
MethodsByMeaning == LabelsByMeaning /\ CallsByMeaning

Next == Reads \/ Parses \/ TypeDefinition \/ FunctionDefinition \/ Prototype \/ Finished
Spec == FrontInit /\ [][Next]_vars
===============================================================================
