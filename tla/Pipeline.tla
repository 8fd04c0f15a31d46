------------------------------ MODULE Pipeline ------------------------------
(***************************************************************************)
(* The three programs one after the other (src/cc.sh and the run targets   *)
(* of the makefiles), and the files they leave in build/ for one another   *)
(* and for the next time.  cc.sh goes on whatever a program's exit status  *)
(* is.                                                                     *)
(*                                                                         *)
(* A program may fail, or die in an assertion, wherever it does not write; *)
(* while it writes, it may die or the disk may be full, which none of them *)
(* notices.  What is read out of a file that is not whole is the subject   *)
(* of TreeFile: it is no tree, and the reading program fails.              *)
(***************************************************************************)
EXTENDS Integers

CONSTANTS Texts,      \* what the user may have the compiler compile
          Accepted,   \* the texts lexer and syntax analyzer accept
          MaxRuns     \* a bound: how often cc.sh is run

VARIABLES text,       \* the program that is compiled
          ast, reduced, asm,   \* build/out.ast, build/out-reduced.ast, build/prog.asm
          stage,      \* of cc.sh
          succeeded,  \* the programs of this run that have reported success
          run,        \* the number of this run
          before      \* history: build/out.ast when this run began

pipelineVars == <<text, ast, reduced, asm, stage, succeeded, run, before>>

(* A file, as the text it comes from and whether all of it is there. *)
File(t, whole) == [of |-> t, whole |-> whole]
Absent == File("", FALSE)

-----------------------------------------------------------------------------
(* frontend_main.  It leaves with a text that is rejected before it opens   *)
(* the file, which empties it; it may die on any text, or find that the     *)
(* file cannot be opened.                                                  *)
FrontFails ==
    /\ stage \in {"front", "front accepted"}
    /\ stage' = "middle"
    /\ UNCHANGED <<text, before, ast, reduced, asm, succeeded, run>>

(* Neither lex nor perform_recursive_descent has answered with an error.   *)
FrontAccepts ==
    /\ stage = "front" /\ text \in Accepted
    /\ stage' = "front accepted"
    /\ UNCHANGED <<text, before, ast, reduced, asm, succeeded, run>>

(* Mutant: the file is opened first, and then the text is looked at.       *)
FrontOpensEarly ==
    /\ stage = "front"
    /\ ast' = File(text, FALSE)
    /\ stage' = IF text \in Accepted THEN "front writes" ELSE "middle"
    /\ UNCHANGED <<text, before, reduced, asm, succeeded, run>>

FrontOpens ==
    /\ stage = "front accepted"
    /\ ast' = File(text, FALSE)
    /\ stage' = "front writes"
    /\ UNCHANGED <<text, before, reduced, asm, succeeded, run>>

(* fwrite_infix, whose result main does not look at: a full disk is a       *)
(* success.                                                                *)
FrontWrites ==
    /\ stage = "front writes"
    /\ \E whole \in BOOLEAN : ast' = [ast EXCEPT !.whole = whole]
    /\ succeeded' = succeeded \cup {"front"}
    /\ stage' = "middle"
    /\ UNCHANGED <<text, before, reduced, asm, run>>

FrontDies ==
    /\ stage = "front writes"
    /\ stage' = "middle"
    /\ UNCHANGED <<text, before, ast, reduced, asm, succeeded, run>>

(* middlend_main: optimize comes before the file is opened. *)
MiddleFails ==
    /\ stage = "middle"
    /\ stage' = "back"
    /\ UNCHANGED <<text, before, ast, reduced, asm, succeeded, run>>

MiddleOpens ==
    /\ stage = "middle" /\ ast.whole
    /\ reduced' = File(ast.of, FALSE)
    /\ stage' = "middle writes"
    /\ UNCHANGED <<text, before, ast, asm, succeeded, run>>

MiddleWrites ==
    /\ stage = "middle writes"
    /\ \E whole \in BOOLEAN : reduced' = [reduced EXCEPT !.whole = whole]
    /\ succeeded' = succeeded \cup {"middle"}
    /\ stage' = "back"
    /\ UNCHANGED <<text, before, ast, asm, run>>

MiddleDies ==
    /\ stage = "middle writes"
    /\ stage' = "back"
    /\ UNCHANGED <<text, before, ast, reduced, asm, succeeded, run>>

(* Mutant: the back end goes on where the middle end has ended.            *)
SourceReduced == reduced

(* Backend.mk: the file the back end reads, if nobody says otherwise.      *)
Source == ast

(* backend_main.  That the assembly cannot be opened is not noticed (the    *)
(* test is of the other file), and the first fprintf ends the process.     *)
BackFails ==
    /\ stage = "back"
    /\ stage' = "end"
    /\ UNCHANGED <<text, before, ast, reduced, asm, succeeded, run>>

BackOpens ==
    /\ stage = "back" /\ Source.whole
    /\ asm' = File(Source.of, FALSE)
    /\ stage' = "back writes"
    /\ UNCHANGED <<text, before, ast, reduced, succeeded, run>>

BackWrites ==
    /\ stage = "back writes"
    /\ \E whole \in BOOLEAN : asm' = [asm EXCEPT !.whole = whole]
    /\ succeeded' = succeeded \cup {"back"}
    /\ stage' = "end"
    /\ UNCHANGED <<text, before, ast, reduced, run>>

BackDies ==
    /\ stage = "back writes"
    /\ stage' = "end"
    /\ UNCHANGED <<text, before, ast, reduced, asm, succeeded, run>>

(* The user changes the text, or the name on the command line. *)
RunAgain ==
    /\ stage = "end" /\ run < MaxRuns
    /\ run' = run + 1
    /\ text' \in Texts
    /\ before' = ast /\ ast' = ast
    /\ succeeded' = {}
    /\ stage' = "front"
    /\ UNCHANGED <<reduced, asm>>

PipelineInit ==
    /\ text \in Texts
    /\ ast = Absent /\ reduced = Absent /\ asm = Absent /\ before = Absent
    /\ stage = "front" /\ succeeded = {} /\ run = 1

PipelineNext ==
    \/ FrontFails \/ FrontAccepts \/ FrontOpens \/ FrontWrites \/ FrontDies
    \/ MiddleFails \/ MiddleOpens \/ MiddleWrites \/ MiddleDies
    \/ BackFails \/ BackOpens \/ BackWrites \/ BackDies
    \/ RunAgain

PipelineSpec == PipelineInit /\ [][PipelineNext]_pipelineVars

-----------------------------------------------------------------------------
(* Properties. *)

(* cc.sh does not stop at a program that fails, so that assembly of an      *)
(* earlier text may be left at its end.  Then the front end or the back    *)
(* end has reported that: what the middle end does, or leaves behind from  *)
(* another time, does not matter.                                          *)
StaleIsReported ==
    stage = "end" /\ asm.whole /\ asm.of # text =>
        ~({"front", "back"} \subseteq succeeded)

(* The tree that was there when a run began is there until the front end   *)
(* has accepted a text, and then only the text of this run takes its place:  *)
(* the run of a rejected text ends with the tree of an earlier one, whole  *)
(* or not, and nothing of a rejected text ever gets into a file, through   *)
(* however many runs and whatever the programs after it do.                *)
RejectedKeepsTree ==
    /\ ast = before \/ (text \in Accepted /\ ast.of = text)
    /\ \A file \in {ast, reduced, asm} : file = Absent \/ file.of \in Accepted
=============================================================================
