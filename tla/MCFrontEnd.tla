------------------------------ MODULE MCFrontEnd ------------------------------
(***************************************************************************)
(* Texts over small alphabets, each with the characters that one part of   *)
(* the lexer is about, and programs with one or two methods.               *)
(***************************************************************************)
EXTENDS FrontEnd

Strings(chars, n) == UNION {[1 .. m -> chars] : m \in 0 .. n}

MCTexts ==
  Strings({"/", "*", "\n", "a"}, 6)
    \cup Strings({"-", "1", "a", ")", ">", " "}, 4)
    \cup Strings({"\"", "\\", "n", "a", "\n"}, 5)
    \cup Strings({"'", "\\", "n", "a", "\n"}, 5)
    \cup Strings({"i", "f", "a", " ", "_"}, 5)
    \cup Strings({"<", "-", ":", "=", ">"}, 4)
    \cup Strings({"!", "'", "/", "\n"}, 3)

MCLetters == {"a", "b", "f", "i", "m", "n", "s", "A", "C", "F", "I", "S", "T", "V"}
MCKeywords == {<<"i", "f">>, <<"a", "s">>}

Int0 == Atom("I", 0)
T0 == Named(<<"T">>, 0)
FieldA == <<"a">>
FieldB == <<"a", "s", "i">>

Simple == {Int0, Atom("I", 1), Atom("C", 0), Atom("V", 0), T0, Named(<<"T">>, 1)}
Elements == {Int0, Atom("I", 1), T0, Named(<<"T">>, 1)}
Compound ==
  {Array(e, d, n) : e \in Elements, d \in {0, 1}, n \in {1, 11}}
    \cup {Struct(<<FieldA>>, <<e>>, d) : e \in Elements, d \in {0, 1}}
    \cup {Struct(<<FieldA, FieldB>>, <<e, f>>, 0) : e \in Elements, f \in Elements}
    \cup {Function(<<e>>, 0) : e \in Elements}
    \cup {Function(<<e, f>>, 0) : e \in Elements, f \in Elements}
    \cup {Function(<<Int0, Int0>>, 1)}
Nested ==
  LET none == Struct(<<>>, <<>>, 0)
  IN  {none, Struct(<<FieldA>>, <<none>>, 0),
       Struct(<<FieldA, FieldB>>, <<none, Int0>>, 0),
       Struct(<<FieldA>>, <<Struct(<<FieldB>>, <<Int0>>, 0)>>, 0),
       Array(Struct(<<FieldA>>, <<T0>>, 0), 0, 1),
       Function(<<Function(<<Int0, Int0>>, 0), Int0>>, 0),
       Named(<<"b">>, 0)}

Named1 == {Int0, Atom("I", 1), Struct(<<FieldA>>, <<Int0>>, 0)}
Others ==
  Simple \cup Nested
    \cup {Array(Int0, 0, 1), Array(Atom("I", 1), 0, 1),
          Struct(<<FieldA>>, <<T0>>, 0), Function(<<Int0, Int0>>, 0), Function(<<T0, T0>>, 0)}

Defined(form, some) == [form : {form}, type : some, first : {"same"}]
MCPrograms ==
  [named : Named1,
   methods : {<<m, o>> : m \in Defined("external", Simple \cup Compound \cup Nested),
                         o \in Defined("proto", Others) \cup Defined("external", Simple)}]
    \cup [named : Named1,
          methods : {<<m, o>> : m \in Defined("local", Others), o \in Defined("local", Others)}]
    \cup [named : Named1 \cup {T0},
          methods : {<<m>> : m \in [form : {"local", "proto"}, type : Others, first : {"same", "I", "none"}]}]
===============================================================================
