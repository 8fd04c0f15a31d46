---------------------------- MODULE MCTreeFile ----------------------------
(***************************************************************************)
(* The tree file for small programs: functions with up to three            *)
(* parameters, calls, every shape of a node (no child, a left one, a right *)
(* one, both), names that are entered and not used, and a declaration that *)
(* breaks off and leaves its environment.                                  *)
(***************************************************************************)
EXTENDS TreeFile

Heads == { <<"defun", "f", "(">> \o p \o <<")">> :
             p \in {<< >>, <<"x">>, <<"x", ",", "y">>, <<"y", ",", "x", ",", "y">>} }

Bodies ==
    { <<"{", "y", "=", "1", ";", "}">>,
      <<"{", "x", ";", "y", "=", "f", "(", "x", ",", "y", ")", ";", "}">>,
      <<"{", "if", "x", "{", "return", "1", ";", "}", "else", "{", "in", "y", ";", "}", "}">> }

Rest ==
    { << >>,
      <<"defun", "g", "(", "y", ")", "{", "return", "f", "(", "@", "y", ")", ";", "}">>,
      <<"defun", "g", "(">> }

MCInputs == { h \o b \o r \o <<Terminator>> : h \in Heads, b \in Bodies, r \in Rest }
=============================================================================
