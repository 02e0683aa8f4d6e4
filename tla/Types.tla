-------------------------------- MODULE Types ---------------------------------
(***************************************************************************)
(* Types as compiler/src/syntax.c reads them and compiler/src/type.c works *)
(* on them. A type is a record: its kind, its degree (how many times it is *)
(* a pointer), its size (Unknown until type_normalize), for an array its   *)
(* length, for a struct the names of its fields, for a named type the name *)
(* and in parts the types it is made of; the last part of a function is    *)
(* what it returns. Names and numbers are sequences of characters.         *)
(***************************************************************************)
EXTENDS Integers, Sequences

Unknown == -1
Word == 8
Digit == <<"0", "1", "2", "3", "4", "5", "6", "7", "8", "9">>

TypeNode(kind, degree, size, length, names, parts) ==
  [kind |-> kind, degree |-> degree, size |-> size, length |-> length,
   names |-> names, parts |-> parts]

Atom(kind, degree) ==
  TypeNode(kind, degree, CASE kind = "V" -> 0 [] kind = "I" -> Word [] kind = "C" -> 1, 0, <<>>, <<>>)
Named(name, degree) == TypeNode("name", degree, Unknown, 0, <<name>>, <<>>)
Array(part, degree, length) == TypeNode("A", degree, Unknown, length, <<>>, <<part>>)
Struct(names, parts, degree) == TypeNode("S", degree, Unknown, 0, names, parts)
Function(parts, degree) == TypeNode("F", degree, Unknown, 0, <<>>, parts)

RECURSIVE Itoa(_)
Itoa(n) ==
  IF n < 10 THEN <<Digit[n + 1]>> ELSE Itoa(n \div 10) \o <<Digit[(n % 10) + 1]>>

(* A slip: the digits are not weighed.                                     *)
AtoiLastDigit(chars) == CHOOSE d \in 0 .. 9 : Digit[d + 1] = chars[Len(chars)]

RECURSIVE Atoi(_)
Atoi(chars) ==
  IF chars = <<>> THEN 0
  ELSE IF Head(chars) = "-" THEN 0 - Atoi(Tail(chars))
  ELSE LET n == Len(chars)
       IN  10 * Atoi(SubSeq(chars, 1, n - 1))
             + (CHOOSE d \in 0 .. 9 : Digit[d + 1] = chars[n])

(***************************************************************************)
(* syntax_process_type: the type that begins at the token p, and the token *)
(* after it; Refused when the tokens spell none.                           *)
(***************************************************************************)
Refused == [ok |-> FALSE]
Read(type, next) == [ok |-> TRUE, type |-> type, next |-> next]
Sign(ts, p, chars) == ts[p].kind = "operator" /\ ts[p].chars = chars
NameAt(ts, p) == IF ts[p].kind = "identifier" THEN ts[p].chars ELSE <<>>

RECURSIVE ReadType(_, _), ReadFields(_, _, _, _), ReadParameters(_, _, _)
ReadType(ts, p) ==
  LET counted == ts[p + 1].kind = "integer"
      degree == IF counted THEN Atoi(ts[p + 1].chars) ELSE 0
      q == IF counted THEN p + 2 ELSE p + 1
      word == NameAt(ts, q)
  IN  CASE ~Sign(ts, p, <<"#">>) -> Refused
        [] Sign(ts, p, <<"#">>) /\ word = <<>> -> Refused
        [] Sign(ts, p, <<"#">>) /\ word \in {<<"V">>, <<"I">>, <<"C">>} ->
             Read(Atom(word[1], degree), q + 1)
        [] Sign(ts, p, <<"#">>) /\ word = <<"A">> ->
             IF /\ Sign(ts, q + 1, <<"[">>)
                /\ ts[q + 2].kind = "integer"
                /\ Sign(ts, q + 3, <<"]">>)
             THEN LET part == ReadType(ts, q + 4)
                  IN  IF part.ok
                      THEN Read(Array(part.type, degree, Atoi(ts[q + 2].chars)), part.next)
                      ELSE Refused
             ELSE Refused
        [] Sign(ts, p, <<"#">>) /\ word = <<"S">> ->
             IF Sign(ts, q + 1, <<"{">>) THEN ReadFields(ts, q + 2, degree, [names |-> <<>>, parts |-> <<>>])
             ELSE Refused
        [] Sign(ts, p, <<"#">>) /\ word = <<"F">> ->
             IF Sign(ts, q + 1, <<"(">>) THEN ReadParameters(ts, q + 2, [degree |-> degree, parts |-> <<>>])
             ELSE Refused
        [] OTHER -> Read(Named(word, degree), q + 1)

(* name: type, and a comma before the next; one before the brace is taken. *)
ReadFields(ts, p, degree, sofar) ==
  IF Sign(ts, p, <<"}">>) THEN Read(Struct(sofar.names, sofar.parts, degree), p + 1)
  ELSE IF NameAt(ts, p) = <<>> \/ ~Sign(ts, p + 1, <<":">>) THEN Refused
  ELSE LET part == ReadType(ts, p + 2)
           more == [names |-> Append(sofar.names, NameAt(ts, p)),
                    parts |-> Append(sofar.parts, part.type)]
       IN  CASE ~part.ok -> Refused
             [] part.ok /\ Sign(ts, part.next, <<"}">>) -> ReadFields(ts, part.next, degree, more)
             [] part.ok /\ Sign(ts, part.next, <<",">>) -> ReadFields(ts, part.next + 1, degree, more)
             [] OTHER -> Refused

ReadParameters(ts, p, sofar) ==
  IF Sign(ts, p, <<")">>)
  THEN LET part == ReadType(ts, p + 2)
       IN  IF Sign(ts, p + 1, <<"-", ">">>) /\ part.ok
           THEN Read(Function(Append(sofar.parts, part.type), sofar.degree), part.next)
           ELSE Refused
  ELSE LET part == ReadType(ts, p)
       IN  IF part.ok
           THEN ReadParameters(ts, part.next, [sofar EXCEPT !.parts = Append(@, part.type)])
           ELSE Refused

(***************************************************************************)
(* context_find_type: the last definition of the name.                     *)
(***************************************************************************)
Places(types, name) == {k \in 1 .. Len(types) : types[k].name = name}
FindType(types, name) ==
  types[CHOOSE k \in Places(types, name) : \A j \in Places(types, name) : j <= k].type

(***************************************************************************)
(* type_normalize. A named type becomes the type it names; one that is a   *)
(* pointer becomes it with one degree more, however many degrees were      *)
(* written. An array throws away what its element becomes, so an element   *)
(* that is a named type stays one, without a size: "panic". "unnamed" is   *)
(* for a name that was not declared.                                       *)
(***************************************************************************)
SizeOf(t) == IF t.degree > 0 THEN Word ELSE t.size

Failed(t) == t.kind \in {"panic", "unnamed"}
Failure(kind) == TypeNode(kind, 0, Unknown, 0, <<>>, <<>>)
FirstFailure(parts) == parts[CHOOSE k \in 1 .. Len(parts) : Failed(parts[k]) /\ \A j \in 1 .. k - 1 : ~Failed(parts[j])]

RECURSIVE SizesOf(_)
SizesOf(parts) == IF parts = <<>> THEN 0 ELSE SizeOf(Head(parts)) + SizesOf(Tail(parts))

RECURSIVE Normalize(_, _)
Normalize(t, types) ==
  LET parts == [k \in 1 .. Len(t.parts) |-> Normalize(t.parts[k], types)]
  IN  IF \E k \in 1 .. Len(parts) : Failed(parts[k]) THEN FirstFailure(parts)
      ELSE CASE t.kind \in {"V", "I", "C"} -> t
             [] t.kind = "A" ->
                  IF t.parts[1].kind = "name" THEN Failure("panic")
                  ELSE [t EXCEPT !.parts = parts, !.size = SizeOf(parts[1]) * t.length]
             [] t.kind = "S" -> [t EXCEPT !.parts = parts, !.size = SizesOf(parts)]
             [] t.kind = "F" -> [t EXCEPT !.parts = parts, !.size = Word]
             [] t.kind = "name" ->
                  IF Places(types, t.names[1]) = {} THEN Failure("unnamed")
                  ELSE LET named == FindType(types, t.names[1])
                       IN  IF t.degree = 0 THEN named ELSE [named EXCEPT !.degree = @ + 1]

(***************************************************************************)
(* type_equal does not look at what functions return.                      *)
(***************************************************************************)
RECURSIVE Resolve(_, _)
Resolve(t, types) ==
  IF t.kind # "name" THEN t
  ELSE LET named == Resolve(FindType(types, t.names[1]), types)
       IN  [named EXCEPT !.degree = @ + t.degree]

RECURSIVE Equal(_, _, _)
Equal(t1, t2, types) ==
  LET r1 == Resolve(t1, types)
      r2 == Resolve(t2, types)
      looked == IF r1.kind = "F" THEN Len(r1.parts) - 1 ELSE Len(r1.parts)
  IN  /\ r1.kind = r2.kind
      /\ r1.degree = r2.degree
      /\ r1.length = r2.length
      /\ r1.names = r2.names
      /\ Len(r1.parts) = Len(r2.parts)
      /\ \A k \in 1 .. looked : Equal(r1.parts[k], r2.parts[k], types)

(***************************************************************************)
(* type_mangle: degree, letter, for an array its length and for the others *)
(* the number of their parts, and every part behind an underscore.         *)
(***************************************************************************)
RECURSIVE Mangle(_, _), MangleParts(_, _, _)
MangleParts(names, parts, types) ==
  IF parts = <<>> THEN <<>>
  ELSE <<"_">> \o (IF names = <<>> THEN <<>> ELSE Head(names) \o <<"_">>)
         \o Mangle(Head(parts), types)
         \o MangleParts(IF names = <<>> THEN <<>> ELSE Tail(names), Tail(parts), types)

(* A slip: the parts of a struct are not counted.                          *)
CountNoFields(t) == IF t.kind = "S" THEN <<>> ELSE Itoa(Len(t.parts))

Count(t) ==
  CASE t.kind = "A" -> Itoa(t.length)
    [] t.kind = "S" -> Itoa(Len(t.parts))
    [] t.kind = "F" -> Itoa(Len(t.parts) - 1)
    [] OTHER -> <<>>
Mangle(t, types) ==
  LET r == Resolve(t, types)
  IN  Itoa(r.degree) \o <<r.kind>> \o Count(r) \o MangleParts(r.names, r.parts, types)
===============================================================================
