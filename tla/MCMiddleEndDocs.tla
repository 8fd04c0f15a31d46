-------------------------- MODULE MCMiddleEndDocs --------------------------
(***************************************************************************)
(* What src/README.md says and the middle end does not do.  The claim is   *)
(* the property of one run.                                                *)
(***************************************************************************)
EXTENDS MCMiddleEnd

(* README.md:53, the tree is written in the format (parent left right):     *)
(* what the middle end writes is the tree it has, from its root on.        *)
(* fwrite_infix begins below the root, which in the middle end is a node   *)
(* of the program.                                                         *)
ReducedIsTree ==
    reduced # NoFile => reduced = File!NodeText(r_nodes, r_envs)[r_root]

WholeTexts ==
    { Text(<<Double, Main(<<Answer(x)>>)>>),
      Text(<<Routine("main", <<x>>, <<Answer(x)>>)>>) }
=============================================================================
