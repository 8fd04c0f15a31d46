------------------------------- MODULE Lexer -------------------------------
(***************************************************************************)
(* src/src/frontend/lexer.cpp: from the characters of a file to tokens.    *)
(* Strings are sequences of characters.  A step is one turn of the loop in *)
(* lex_; lines and columns, which only messages use, are left out.         *)
(***************************************************************************)
EXTENDS Integers, Sequences

CONSTANTS Files,    \* records: a text, and the tokens its author means
          Width     \* of an int, in bits

VARIABLES file,     \* the one that is read
          buf,      \* lex->buf.ptr up to the terminator
          pos,      \* lex->buf.pos
          tokens,   \* lex->tokens
          lexed     \* "no", "begun", "all", "error", "aborted"

lexVars == <<file, buf, pos, tokens, lexed>>

Ints == INSTANCE Evaluate

(* Mutant: the shorter operator comes first.                               *)
TokenArrAssignFirst ==
    << "+", "-", "*", "/", "^", "|", "&", "!=", "=", "==", ">", "<", ">=", "<=", "@",
       "while", "if", "else", "defun", "return", "in", "out", "ramset",
       "(", ")", ",", ";", "{", "}" >>

TokenArr ==
    << "+", "-", "*", "/", "^", "|", "&", "!=", "==", ">", "<", ">=", "<=", "=", "@",
       "while", "if", "else", "defun", "return", "in", "out", "ramset",
       "(", ")", ",", ";", "{", "}" >>

Token(str) == <<"table", str, 0>>
Number(num) == <<"number", "", num>>
Identifier(str) == <<"identifier", str, 0>>
Terminator == <<"terminator", "", 0>>

DigitOf == [c \in {"0", "1", "2", "3", "4", "5", "6", "7", "8", "9"} |->
    CASE c = "0" -> 0 [] c = "1" -> 1 [] c = "2" -> 2 [] c = "3" -> 3 [] c = "4" -> 4
      [] c = "5" -> 5 [] c = "6" -> 6 [] c = "7" -> 7 [] c = "8" -> 8 [] c = "9" -> 9]

Letters == {"a", "b", "c", "d", "e", "f", "g", "h", "i", "j", "k", "l", "m", "n",
            "o", "p", "q", "r", "s", "t", "u", "v", "w", "x", "y", "z"}
Digits == DOMAIN DigitOf
Alnum == Letters \cup Digits
Space == {" ", "\n"}

-----------------------------------------------------------------------------
(* The character at p; the terminator is "". *)
CharAt(p) == IF p < Len(buf) THEN SubSeq(buf, p + 1, p + 1) ELSE ""

(* The first position from p on whose character is not in class. *)
EndOf(p, class) ==
    CHOOSE q \in p .. Len(buf) :
        /\ \A r \in p .. q - 1 : CharAt(r) \in class
        /\ CharAt(q) \notin class

(* The position of the next line feed, or the end. *)
EndOfLine(p) ==
    CHOOSE q \in p .. Len(buf) :
        /\ \A r \in p .. q - 1 : CharAt(r) # "\n"
        /\ CharAt(q) \in {"\n", ""}

(* Mutant: the line feed belongs to the comment.                           *)
AfterCommentWhole(p) ==
    IF CharAt(p) = "/" /\ CharAt(p + 1) = "/" /\ CharAt(EndOf(p + 2, Space)) # ""
    THEN EndOfLine(EndOf(p + 2, Space)) + 1
    ELSE p

(* sscanf(BUF_ + POS_, "// %*[^\n]%n"): the space stands for any number of  *)
(* spaces, line feeds among them, and what follows must not be empty.      *)
AfterComment(p) ==
    IF CharAt(p) = "/" /\ CharAt(p + 1) = "/" /\ CharAt(EndOf(p + 2, Space)) # ""
    THEN EndOfLine(EndOf(p + 2, Space))
    ELSE p

Start == AfterComment(pos)

(* The entries of the table that stand at p.                               *)
Fits(p) ==
    {i \in 1..Len(TokenArr) :
        LET q == p + Len(TokenArr[i])
        IN  q <= Len(buf) /\ SubSeq(buf, p + 1, q) = TokenArr[i]}

(* The first of them is taken. *)
First(entries) == CHOOSE i \in entries : \A j \in entries : i <= j

(* The int the digits from p to q add up to.                               *)
Value(p, q) ==
    LET val[r \in p .. q] ==
            IF r = p THEN 0 ELSE Ints!Word(val[r - 1] * 10 + DigitOf[CharAt(r - 1)])
    IN  val[q]

-----------------------------------------------------------------------------
(* lex: the last character of the file becomes the terminator, and an       *)
(* empty file has none.                                                    *)
ReadFile ==
    /\ lexed = "no"
    /\ IF file.text = ""
       THEN lexed' = "aborted" /\ UNCHANGED buf
       ELSE lexed' = "begun" /\ buf' = SubSeq(file.text, 1, Len(file.text) - 1)
    /\ UNCHANGED <<file, pos, tokens>>

Lexing == lexed = "begun" /\ CharAt(pos) # ""

LexTable ==
    /\ Lexing /\ Fits(Start) # {}
    /\ LET str == TokenArr[First(Fits(Start))] IN
        /\ tokens' = Append(tokens, Token(str))
        /\ pos' = Start + Len(str)
    /\ UNCHANGED <<file, buf, lexed>>

(* lex_numeric_.  A minus is in the table and never comes here. *)
LexNumeric ==
    /\ Lexing /\ Fits(Start) = {} /\ CharAt(Start) \in Digits
    /\ pos' = EndOf(Start, Digits)
    /\ tokens' = Append(tokens, Number(Value(Start, pos')))
    /\ UNCHANGED <<file, buf, lexed>>

(* lex_identificator_ *)
LexIdentificator ==
    /\ Lexing /\ Fits(Start) = {} /\ CharAt(Start) \in Letters
    /\ pos' = EndOf(Start, Alnum)
    /\ tokens' = Append(tokens, Identifier(SubSeq(buf, Start + 1, pos')))
    /\ UNCHANGED <<file, buf, lexed>>

(* Mutant: the loop over the spaces does not move.                         *)
AfterSpacesNever(p) == p
AfterSpaces(p) == EndOf(p, Space)

SkipSpaces ==
    /\ Lexing /\ CharAt(Start) \in Space
    /\ pos' = AfterSpaces(Start)
    /\ UNCHANGED <<file, buf, tokens, lexed>>

(* A comment at the end of the file. *)
SkipComment ==
    /\ Lexing /\ CharAt(Start) = ""
    /\ pos' = Start
    /\ UNCHANGED <<file, buf, tokens, lexed>>

LexicalErr ==
    /\ Lexing /\ Fits(Start) = {} /\ CharAt(Start) \notin Alnum \cup Space \cup {""}
    /\ pos' = Start
    /\ lexed' = "error"
    /\ UNCHANGED <<file, buf, tokens>>

Finish ==
    /\ lexed = "begun" /\ CharAt(pos) = ""
    /\ tokens' = Append(tokens, Terminator)
    /\ lexed' = "all"
    /\ UNCHANGED <<file, buf, pos>>

LexInit ==
    /\ file \in Files
    /\ buf = "" /\ pos = 0 /\ tokens = << >> /\ lexed = "no"

LexNext ==
    \/ ReadFile \/ LexTable \/ LexNumeric \/ LexIdentificator
    \/ SkipSpaces \/ SkipComment \/ LexicalErr \/ Finish

LexSpec == LexInit /\ [][LexNext]_lexVars /\ WF_lexVars(LexNext)

-----------------------------------------------------------------------------
(* Properties. *)

(* The position never passes the terminator, and the terminator is last     *)
(* among the tokens and there once.                                        *)
LexerTypeOK ==
    /\ pos \in 0 .. Len(buf)
    /\ \A i \in 1..Len(tokens) : tokens[i] = Terminator <=> lexed = "all" /\ i = Len(tokens)

(* What is written as separate words is read as these words, in a table     *)
(* searched from its beginning: none is split, joined with a neighbour, or *)
(* lost behind a comment.                                                  *)
LexesBack == lexed = "all" => tokens = Append(file.words, Terminator)

(* Every turn of the loop moves on, whatever characters the file has.      *)
LexingEnds == lexed = "begun" ~> lexed \in {"all", "error"}
=============================================================================
