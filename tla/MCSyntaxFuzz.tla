---------------------------- MODULE MCSyntaxFuzz ----------------------------
(***************************************************************************)
(* The syntax analyzer on every short text over a few small vocabularies,  *)
(* most of them ill-formed: the inputs nobody writes a test for.           *)
(***************************************************************************)
EXTENDS SyntaxAnalyzer

(* Every text of up to max pieces of the vocabulary between a beginning and *)
(* an ending.                                                              *)
Texts(before, vocabulary, max, endings) ==
    {before \o FlattenSeq(w) \o end \o <<Terminator>> :
        w \in UNION {[1..n -> vocabulary] : n \in 0..max}, end \in endings}

Open == <<"defun", "f", "(", ")", "{">>
Close == <<"}">>
CloseStatement == <<";", "}">>

(* Expressions, calls and assignments inside a function. *)
MaxExpression == 3
ExpressionTexts == Texts(Open,
    {<<"x">>, <<"f", "(">>, <<")">>, <<"(">>, <<"=">>, <<"+">>, <<";">>},
    MaxExpression, {<< >>, CloseStatement})

(* The statements with a keyword. *)
MaxKeyword == 3
KeywordTexts == Texts(Open,
    {<<"in">>, <<"out">>, <<"ramset">>, <<"return">>, <<"if">>, <<"while">>, <<"@">>,
     <<"x">>, <<",">>},
    MaxKeyword, {CloseStatement})

(* Blocks inside blocks. *)
MaxBlock == 4
BlockTexts == Texts(Open,
    {<<"if", "x">>, <<"else">>, <<"while", "x">>, <<"{", "1", ";", "}">>, <<"{">>, <<"}">>},
    MaxBlock, {Close})

(* Declarations, parameters, and calls from one function to another. *)
MaxDeclaration == 4
DeclarationTexts == Texts(<< >>,
    {<<"defun", "f", "(", "x", ")", "{", "1", ";", "}">>,
     <<"defun", "g", "(", ")", "{", "y", "=", "f", "(", "x", ")", ";", "}">>,
     <<"defun", "g", "(">>, <<"g", "(">>, <<"x">>, <<",">>, <<")">>,
     <<"{", "x", "=", "g", "(", "x", ")", ";", "}">>},
    MaxDeclaration, {<< >>})

MCInputs == ExpressionTexts \cup KeywordTexts \cup BlockTexts \cup DeclarationTexts
=============================================================================
