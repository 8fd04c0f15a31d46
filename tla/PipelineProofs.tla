--------------------------- MODULE PipelineProofs ---------------------------
(***************************************************************************)
(* However often the compiler is run, on whatever texts, and whatever      *)
(* fails or dies on the way: stale assembly is reported, and a rejected    *)
(* text leaves the tree of an earlier one and gets into no file.           *)
(***************************************************************************)
EXTENDS Pipeline, TLAPS

(* What can be in build/: a file that is of an accepted text, or none.     *)
Files == [of : Accepted, whole : BOOLEAN] \cup {Absent}

FilesOK ==
    /\ text \in Texts
    /\ ast \in Files /\ reduced \in Files /\ asm \in Files

(* A program reports success at its own stage and is not run again: when   *)
(* it opens its file it has not reported anything yet.                     *)
InTheirOrder ==
    /\ "front" \in succeeded => stage \notin {"front", "front accepted", "front writes"}
    /\ "back" \in succeeded => stage = "end"

(* The front end goes on to open its file only with an accepted text, and  *)
(* until it does so the tree is the one that was there when the run began. *)
(* The other two open theirs only for a tree.                              *)
OpensAccepted ==
    /\ stage \in {"front accepted", "front writes"} => text \in Accepted
    /\ stage \in {"front", "front accepted"} => ast = before
    /\ stage = "middle writes" => reduced.of \in Accepted
    /\ stage = "back writes" => asm.of \in Accepted

(* The tree is of this text from when it is opened.                        *)
TreeIsOfText ==
    stage = "front writes" \/ "front" \in succeeded => ast.of = text

(* The assembly is of the tree, whichever text that is of, from when it is *)
(* opened to the end of the run: nobody writes the tree in between.        *)
AssemblyIsOfTree ==
    stage = "back writes" \/ "back" \in succeeded => asm.of = ast.of

PInv ==
    /\ FilesOK /\ InTheirOrder /\ OpensAccepted /\ TreeIsOfText /\ AssemblyIsOfTree
    /\ RejectedKeepsTree

LEMMA PInitially == PipelineInit => PInv
<1> SUFFICES ASSUME PipelineInit
             PROVE  PInv
  OBVIOUS
<1>1. Absent \in Files
  BY DEF Files
<1>2. FilesOK
  BY <1>1 DEF PipelineInit, FilesOK
<1>3. InTheirOrder /\ OpensAccepted /\ TreeIsOfText /\ AssemblyIsOfTree
  <2>1. stage = "front" /\ succeeded = {} /\ ast = before
    BY DEF PipelineInit
  <2> QED
    BY <2>1 DEF InTheirOrder, OpensAccepted, TreeIsOfText, AssemblyIsOfTree
<1>4. RejectedKeepsTree
  BY DEF PipelineInit, RejectedKeepsTree
<1> QED
  BY <1>2, <1>3, <1>4 DEF PInv

(* Opening a file for an accepted text makes it one of that text, and      *)
(* what is whole is of an accepted text.                                   *)
LEMMA Opened ==
    ASSUME NEW t \in Accepted
    PROVE  File(t, FALSE) \in Files /\ File(t, FALSE).of = t
BY DEF File, Files

LEMMA WholeIsAccepted ==
    ASSUME NEW file \in Files, file.whole
    PROVE  file.of \in Accepted
<1>1. Absent.whole = FALSE
  BY DEF Absent, File
<1>2. file # Absent
  BY <1>1
<1> QED
  BY <1>2 DEF Files

(* Writing a file does not change what it is of. *)
LEMMA Written ==
    ASSUME NEW file \in Files, file.of \in Accepted, NEW whole \in BOOLEAN
    PROVE  LET new == [file EXCEPT !.whole = whole]
           IN new \in Files /\ new.of = file.of
<1>1. CASE file \in [of : Accepted, whole : BOOLEAN]
  BY <1>1 DEF Files
<1>2. CASE file = Absent
  BY <1>2 DEF Files, Absent, File
<1> QED
  BY <1>1, <1>2 DEF Files

LEMMA PInductive == PInv /\ [PipelineNext]_pipelineVars => PInv'
<1> SUFFICES ASSUME PInv, [PipelineNext]_pipelineVars
             PROVE  PInv'
  OBVIOUS
<1> USE DEF PInv, FilesOK, InTheirOrder, OpensAccepted, TreeIsOfText, AssemblyIsOfTree,
            RejectedKeepsTree, Files
<1>1. CASE FrontFails \/ FrontAccepts \/ FrontDies
  BY <1>1 DEF FrontFails, FrontAccepts, FrontDies
<1>2. CASE FrontOpens
  <2>1. ast' \in Files /\ ast'.of = text
    BY <1>2, Opened DEF FrontOpens
  <2> QED
    BY <1>2, <2>1 DEF FrontOpens
<1>3. CASE FrontWrites
  <2>1. ast' \in Files /\ ast'.of = ast.of
    BY <1>3, Written DEF FrontWrites
  <2> QED
    BY <1>3, <2>1 DEF FrontWrites
<1>4. CASE MiddleFails \/ MiddleDies
  BY <1>4 DEF MiddleFails, MiddleDies
<1>5. CASE MiddleOpens
  <2>1. reduced' \in Files /\ reduced'.of = ast.of /\ ast.of \in Accepted
    BY <1>5, WholeIsAccepted, Opened DEF MiddleOpens
  <2> QED
    BY <1>5, <2>1 DEF MiddleOpens
<1>6. CASE MiddleWrites
  <2>1. reduced' \in Files /\ reduced'.of = reduced.of
    BY <1>6, Written DEF MiddleWrites
  <2> QED
    BY <1>6, <2>1 DEF MiddleWrites
<1>7. CASE BackFails \/ BackDies
  BY <1>7 DEF BackFails, BackDies
<1>8. CASE BackOpens
  <2>1. asm' \in Files /\ asm'.of = ast.of /\ ast.of \in Accepted
    BY <1>8, WholeIsAccepted, Opened DEF BackOpens, Source
  <2> QED
    BY <1>8, <2>1 DEF BackOpens
<1>9. CASE BackWrites
  <2>1. asm' \in Files /\ asm'.of = asm.of
    BY <1>9, Written DEF BackWrites
  <2> QED
    BY <1>9, <2>1 DEF BackWrites
<1>10. CASE RunAgain
  BY <1>10 DEF RunAgain
<1>11. CASE UNCHANGED pipelineVars
  BY <1>11 DEF pipelineVars
<1> QED
  BY <1>1, <1>2, <1>3, <1>4, <1>5, <1>6, <1>7, <1>8, <1>9, <1>10, <1>11 DEF PipelineNext

(* Whole assembly of another text is never left at the end of a run in     *)
(* which the front end and the back end have reported success: cc.sh does  *)
(* not look at their exit status, but one who does is not misled.          *)
THEOREM PipelineStaleIsReported == PipelineSpec => []StaleIsReported
<1>1. PInv => StaleIsReported
  BY DEF PInv, TreeIsOfText, AssemblyIsOfTree, StaleIsReported
<1> QED
  BY <1>1, PInitially, PInductive, PTL DEF PipelineSpec

(* The order of frontend_main: a text that is rejected, however many of    *)
(* them there are, leaves the tree of an earlier run where it was to the   *)
(* end of cc.sh, and none of the files is ever of such a text.             *)
THEOREM PipelineRejectedKeepsTree == PipelineSpec => []RejectedKeepsTree
<1>1. PInv => RejectedKeepsTree
  BY DEF PInv
<1> QED
  BY <1>1, PInitially, PInductive, PTL DEF PipelineSpec
=============================================================================
