------------------------------ MODULE MCLexer ------------------------------
(***************************************************************************)
(* Texts of up to three words.  Two words have a space, a line feed or a   *)
(* comment between them, or nothing where they can be told apart.  Left    *)
(* out is what the lexer does not read as one word: >=, <=, identifiers    *)
(* that begin like a keyword, and those with an underscore.                *)
(***************************************************************************)
EXTENDS Lexer

Words == {"==", "=", "!=", ">", "-", "/", "(", "while", "in", "x", "xin", "b1", "7", "13"}
(* Between these two words there must be a gap. *)
Apart(a, b) ==
    LET last == SubSeq(a, Len(a), Len(a))
        first == SubSeq(b, 1, 1)
    IN  \/ {last, first} \subseteq Alnum
        \/ a = "=" /\ first = "="
        \/ a = "/" /\ b = "/"

Meant(word) ==
    IF \E i \in 1..Len(TokenArr) : TokenArr[i] = word THEN Token(word)
    ELSE CASE word = "7" -> Number(7)
           [] word = "13" -> Number(Ints!Word(13))
           [] OTHER -> Identifier(word)

UpToThree == UNION {[1..n -> Words] : n \in 1..3}

Written(words, gap, end) ==
    [ text |-> (IF Len(words) = 1 THEN words[1] ELSE
                IF Len(words) = 2 THEN words[1] \o gap \o words[2]
                ELSE words[1] \o gap \o words[2] \o gap \o words[3]) \o end,
      words |-> [i \in 1..Len(words) |-> Meant(words[i])] ]

Lines ==
    { Written(ws, gap, "\n") : ws \in UpToThree, gap \in {"\n ", " //x =\n"} }
      \cup { Written(ws, "", " // 1 \n") :
               ws \in {w \in UpToThree : \A i \in 2..Len(w) : ~Apart(w[i - 1], w[i])} }

(* What is no text of the language: an empty file, and characters that      *)
(* begin no token.                                                         *)
Strange == { [text |-> t, words |-> << >>] : t \in {"", "x.y\n", "1 ! 2\n"} }

MCFiles == Lines \cup Strange
=============================================================================
