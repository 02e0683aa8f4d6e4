-------------------------------- MODULE Lexer ---------------------------------
(***************************************************************************)
(* lexer_process of compiler/src/lexer.c: one turn of its loop is a step.  *)
(* A text is a sequence of characters, counted from 0 as in the code, and  *)
(* a token is the stretch of the text it was read from with its kind and   *)
(* the place it is reported at. What a token's value is, the colours of    *)
(* lexer_highlight and the growth of the array of tokens are left out.     *)
(***************************************************************************)
EXTENDS Integers, Sequences, FiniteSetsExt

CONSTANTS
  Letters,    (* the characters of names, digits and "_" apart             *)
  Keywords    (* those that the letters can spell                          *)

VARIABLES
  text,
  i,          (* where the loop is                                         *)
  line,       (* the line it believes to be on, from 0                     *)
  position,   (* and the column                                            *)
  stream,     (* token_stream                                              *)
  lexed       (* "no", "yes", or "error"                                   *)

lexer == <<text, i, line, position, stream, lexed>>

Digits == {"0", "1", "2", "3", "4", "5", "6", "7", "8", "9"}
Alnum == Letters \cup Digits
Blanks == {" ", "\t", "\r"}
Formats == {"0", "a", "b", "t", "n", "v", "f", "r", "e", "\"", "'", "?", "\\"}

Doubles == {<<":", "=">>, <<"<", "-">>, <<"<", "<">>, <<"<", "=">>, <<"<", ">">>,
            <<">", ">">>, <<">", "=">>, <<"-", ">">>}
Singles == {"/", ":", "<", ">", ",", ".", ";", "{", "}", "(", ")", "[", "]", "\\", "&",
            "|", "^", "~", "$", "#", "@", "+", "*", "%", "=", "-"}

(* Behind its last character the text has a NUL.                           *)
Nul == ""

(* Letters are letters, and keywords are spelled with them.                *)
ASSUME LexerAssumption ==
  /\ Letters \cap (Digits \cup Singles \cup Blanks \cup {"\n", "'", "\"", "_", Nul}) = {}
  /\ Keywords \subseteq Seq(Letters) \ {<<>>}

N == Len(text)
At(k) == IF k < N THEN text[k + 1] ELSE Nul
Slice(from, to) == SubSeq(text, from + 1, IF to < N THEN to ELSE N)
RunEnd(from, chars) == Min({k \in from .. N : At(k) \notin chars})

LexerStart ==
  /\ i = 0 /\ line = 0 /\ position = 0
  /\ stream = <<>>
  /\ lexed = "no"

Reading == lexed = "no" /\ i < N

(* The token from i up to the character before to, which ends at the place *)
(* given; the loop goes on at next.                                        *)
Push(kind, to, line_end, position_end) ==
  stream' = Append(stream, [kind |-> kind, from |-> i, to |-> to,
                            begin |-> <<line, position>>,
                            end |-> <<line_end, position_end>>])

(* A token that ends on its line: AppendOperator, AppendKeyword and names  *)
(* and numbers differ in what they take for its end.                       *)
OnOneLine(kind, to, position_end) ==
  /\ Push(kind, to, line, position_end)
  /\ i' = to
  /\ position' = position + (to - i)
  /\ UNCHANGED <<text, line, lexed>>

(***************************************************************************)
(* Comments and blanks.                                                    *)
(***************************************************************************)
LineComment ==
  /\ Reading /\ At(i) = "/" /\ At(i + 1) = "/"
  /\ i' = Min({N, Min({k \in i + 1 .. N : At(k) = "\n" \/ k = N}) + 1})
  /\ position' = 0
  /\ line' = line + 1
  /\ UNCHANGED <<text, stream, lexed>>

(* A slip: a comment that is not closed takes the loop behind the text.    *)
BlockCommentRunsOver ==
  /\ Reading /\ Slice(i, i + 2) = <<"/", "*">>
  /\ \A k \in i + 2 .. N : Slice(k, k + 2) # <<"*", "/">>
  /\ i' = N + 1
  /\ UNCHANGED <<text, line, position, stream, lexed>>

(* The loop looks for a line break only behind the character it starts at. *)
BlockComment ==
  LET from == i + 2
      end == Min({k \in from .. from + N : k + 2 > N \/ Slice(k, k + 2) = <<"*", "/">>})
      breaks == {k \in from + 1 .. end : At(k) = "\n"}
  IN  /\ Reading /\ At(i) = "/" /\ At(i + 1) = "*"
      /\ i' = Min({end + 2, N})
      /\ line' = line + Cardinality(breaks)
      /\ position' = 2 + (IF breaks = {} THEN position + 2 + (end - from) ELSE end - Max(breaks))
      /\ UNCHANGED <<text, stream, lexed>>

Blank ==
  /\ Reading /\ At(i) \in Blanks
  /\ i' = i + 1
  /\ position' = position + 1
  /\ UNCHANGED <<text, line, stream, lexed>>

NewLine ==
  /\ Reading /\ At(i) = "\n"
  /\ i' = i + 1
  /\ position' = 0
  /\ line' = line + 1
  /\ UNCHANGED <<text, stream, lexed>>

(***************************************************************************)
(* Operators and numbers. A minus before a digit begins a number, unless   *)
(* the token before it is a number or a name.                              *)
(***************************************************************************)
AfterValue == stream # <<>> /\ stream[Len(stream)].kind \in {"integer", "identifier"}
Negative == At(i) = "-" /\ At(i + 1) \in Digits /\ ~AfterValue

Operator ==
  LET double == <<At(i), At(i + 1)>> \in Doubles
      to == IF double THEN i + 2 ELSE i + 1
  IN  /\ Reading /\ At(i) \in Singles
      /\ ~(At(i) = "/" /\ At(i + 1) \in {"/", "*"})
      /\ double \/ ~Negative
      /\ OnOneLine("operator", to, position + (to - i) + 1)

Number ==
  /\ Reading
  /\ At(i) \in Digits \/ Negative
  /\ LET to == RunEnd(i + 1, Digits) IN OnOneLine("integer", to, position + (to - 1 - i))

(***************************************************************************)
(* Characters and strings.                                                 *)
(***************************************************************************)
Escape(k) == At(k) = "\\" /\ k + 1 < N /\ At(k + 1) \in Formats

(* A slip: the columns go on after a line break in a string.               *)
QuotedOnOneLine(kind, end) ==
  /\ Push(kind, end + 1, line, position + (end - i))
  /\ i' = end + 1
  /\ position' = position + (end - i) + 1
  /\ UNCHANGED <<text, line, lexed>>

(* What a quoted token that ends at the quote at end does to the place:    *)
(* after a line break the columns are counted anew.                        *)
Quoted(kind, end) ==
  LET breaks == {k \in i + 1 .. end - 1 : At(k) = "\n"}
      line_end == line + Cardinality(breaks)
      position_end == IF breaks = {} THEN position + (end - i) ELSE end - Max(breaks) - 1
  IN  /\ Push(kind, end + 1, line_end, position_end)
      /\ i' = end + 1
      /\ line' = line_end
      /\ position' = position_end + 1
      /\ UNCHANGED <<text, lexed>>

Fails ==
  /\ lexed' = "error"
  /\ UNCHANGED <<text, i, line, position, stream>>

CharEnd == IF Escape(i + 1) THEN i + 3 ELSE i + 2
CharLiteral ==
  /\ Reading /\ At(i) = "'"
  /\ IF At(CharEnd) = "'" THEN Quoted("char", CharEnd) ELSE Fails

(* The string goes on from place to place, over an escape at once.         *)
StringEnd ==
  LET end[k \in i + 1 .. N] ==
        IF k = N \/ At(k) = "\"" THEN k ELSE end[k + (IF Escape(k) THEN 2 ELSE 1)]
  IN  end[i + 1]
StringLiteral ==
  /\ Reading /\ At(i) = "\""
  /\ IF StringEnd < N THEN Quoted("string", StringEnd) ELSE Fails

(***************************************************************************)
(* Keywords and names. A keyword needs a character behind it.              *)
(***************************************************************************)
(* A slip: what follows is not looked at.                                  *)
KeywordAtPrefix(w) == Slice(i, i + Len(w)) = w /\ i + Len(w) + 1 <= N

KeywordAt(w) ==
  /\ Slice(i, i + Len(w)) = w
  /\ i + Len(w) + 1 <= N
  /\ At(i + Len(w)) \notin Alnum \cup {"_"}

Keyword ==
  /\ Reading
  /\ \E w \in Keywords :
       /\ KeywordAt(w)
       /\ OnOneLine("keyword", i + Len(w), position + Len(w) + 1)

Identifier ==
  /\ Reading /\ At(i) \in Letters \cup {"_"}
  /\ \A w \in Keywords : ~KeywordAt(w)
  /\ LET to == RunEnd(i + 1, Alnum \cup {"_"})
     IN  OnOneLine("identifier", to, position + (to - 1 - i))

Unexpected ==
  /\ Reading
  /\ At(i) \notin Singles \cup Blanks \cup Alnum \cup {"\n", "'", "\"", "_"}
  /\ Fails

EndOfText ==
  /\ lexed = "no" /\ i >= N
  /\ Push("eof", i, line, position)
  /\ lexed' = "yes"
  /\ UNCHANGED <<text, i, line, position>>

Lex ==
  \/ LineComment \/ BlockComment \/ Blank \/ NewLine
  \/ Operator \/ Number \/ CharLiteral \/ StringLiteral
  \/ Keyword \/ Identifier \/ Unexpected \/ EndOfText

(***************************************************************************)
(* Properties.                                                             *)
(***************************************************************************)
LexerTypeOK ==
  /\ lexed \in {"no", "yes", "error"}
  /\ i \in 0 .. N /\ line \in 0 .. N + 1 /\ position \in 0 .. N + 2
  /\ Len(stream) <= N + 1
  /\ \A k \in 1 .. Len(stream) : 0 <= stream[k].from /\ stream[k].from <= stream[k].to /\ stream[k].to <= N

(* Where a character is, with lines and columns counted from 0.            *)
Place(k) ==
  LET before == {j \in 0 .. k - 1 : At(j) = "\n"}
  IN  <<Cardinality(before), IF before = {} THEN k ELSE k - Max(before) - 1>>

(* What is said of a token is said when it has been read: it stays as it   *)
(* is from then on.                                                        *)
Newest == stream[Len(stream)]
JustRead == stream # <<>> /\ Newest.to = i

(* A line break behind the start of a block comment.                       *)
CommentOfLines ==
  \E j \in 0 .. i, k \in 0 .. i : j < k /\ Slice(j, j + 2) = <<"/", "*">> /\ At(k) = "\n"

(* Errors are shown where they are: a token begins at the line and column  *)
(* its first character has in the text, and a literal, number or name ends *)
(* at those of its last one, whatever strings of several lines and line    *)
(* comments come before it. Block comments of several lines are outside:   *)
(* the columns, and after "/*" at the end of a line the lines, go wrong.   *)
TokensInPlace ==
  JustRead /\ ~CommentOfLines /\ Newest.kind # "eof" =>
    /\ Newest.begin = Place(Newest.from)
    /\ Newest.kind \notin {"operator", "keyword"} => Newest.end = Place(Newest.to - 1)

(* The lexemes, as a language reference would list them.                   *)
IsName(s) == s # <<>> /\ s[1] \notin Digits /\ \A k \in DOMAIN s : s[k] \in Alnum \cup {"_"}
Numeral(s) ==
  LET digits == IF s # <<>> /\ s[1] = "-" THEN Tail(s) ELSE s
  IN  digits # <<>> /\ \A k \in DOMAIN digits : digits[k] \in Digits
IsSign(s) == s \in Doubles \/ (Len(s) = 1 /\ s[1] \in Singles)
Lexeme(s) == IsName(s) \/ Numeral(s) \/ IsSign(s)
Literal(s) == Len(s) >= 2 /\ s[1] = s[Len(s)] /\ s[1] \in {"'", "\""}

(* Blanks, line breaks and comments only.                                  *)
Empty(from, to) ==
  LET empty[k \in from .. to] ==
        \/ k = to
        \/ At(k) \in Blanks \cup {"\n"} /\ empty[k + 1]
        \/ /\ Slice(k, k + 2) = <<"/", "/">>
           /\ \E e \in k + 2 .. to : (e = N \/ At(e - 1) = "\n") /\ empty[e]
        \/ /\ Slice(k, k + 2) = <<"/", "*">>
           /\ \E e \in k + 2 .. to : (e = N \/ (e >= k + 4 /\ Slice(e - 2, e) = <<"*", "/">>)) /\ empty[e]
  IN  empty[from]

(* The text is cut as a reader would: between the tokens there are blanks  *)
(* and comments only; a name, number or sign is as long as it can be, but  *)
(* for a minus behind a number or a name, which stands alone; and a name   *)
(* is a keyword exactly when it is one (at the very end of the text it is  *)
(* not: AppendKeyword wants a character behind it).                        *)
LongestTokens ==
  JustRead =>
    LET k == Len(stream)
        chars == Slice(Newest.from, Newest.to)
        alone == chars = <<"-">> /\ k > 1 /\ stream[k - 1].kind \in {"integer", "identifier"}
    IN  /\ Empty(IF k = 1 THEN 0 ELSE stream[k - 1].to, Newest.from)
        /\ CASE Newest.kind \in {"char", "string"} -> Literal(chars)
             [] Newest.kind = "integer" -> Numeral(chars)
             [] Newest.kind = "operator" -> IsSign(chars)
             [] Newest.kind = "keyword" -> chars \in Keywords
             [] Newest.kind = "identifier" -> IsName(chars) /\ (chars \in Keywords => Newest.to = N)
             [] Newest.kind = "eof" -> Newest.from = N
        /\ Newest.kind \in {"integer", "operator", "keyword", "identifier"} =>
             \A to \in Newest.to + 1 .. N : Lexeme(Slice(Newest.from, to)) => alone
===============================================================================
