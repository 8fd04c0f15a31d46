----------------------------- MODULE MiddleEnd -----------------------------
(***************************************************************************)
(* The front end and the middle end (middlend_main.cpp): the tree of an    *)
(* accepted text is written, read, optimized and written again.            *)
(***************************************************************************)
EXTENDS TreeFile

CONSTANTS Value, Width, Typed

VARIABLES parents, todo, treeChanged, phase, frees,
          reduced      \* the file that is written, NoFile before it is opened

NoFile == <<"none">>

Opt == INSTANCE Optimizer WITH nodes <- r_nodes, to_delete <- r_to_delete, root <- r_root

(* A literal is spelt like no other token. *)
ASSUME ValueAssumption == DOMAIN Value \cap Reserved = {}

optimizerVars == <<parents, todo, treeChanged, phase, frees>>
middleVars == <<allVars, optimizerVars, reduced>>

MiddleInit == TreeInit /\ Opt!Init /\ reduced = NoFile

FrontEnd == Analyze /\ UNCHANGED <<optimizerVars, reduced>>

(* The file is whole here; TreeFile is about files that are not. *)
WriteWhole ==
    /\ WriteTree
    /\ file' = File!NodeText(nodes, envs)[nodes[root].left]
    /\ UNCHANGED <<optimizerVars, reduced>>

ReadBack == ReadTree /\ UNCHANGED <<optimizerVars, reduced>>

Optimize ==
    /\ outcome = "read" /\ Opt!Next
    /\ UNCHANGED <<vars, file, buf_pos, calls, outcome, r_freed, r_envs, r_current_env_id, reduced>>

(* fwrite_infix begins below the root ... *)
Outermost(v) == r_nodes[v].left

(* ... and asserts that there is something.  The file has been opened, and *)
(* so emptied, before.                                                     *)
WriteReduced ==
    /\ phase = "optimized"
    /\ IF Outermost(r_root) = NULL
       THEN reduced' = << >> /\ phase' = "aborted"
       ELSE /\ reduced' = File!NodeText(r_nodes, r_envs)[Outermost(r_root)]
            /\ phase' = "written"
    /\ UNCHANGED <<allVars, parents, todo, treeChanged, frees>>

MiddleNext == FrontEnd \/ WriteWhole \/ ReadBack \/ Optimize \/ WriteReduced

MiddleSpec == MiddleInit /\ [][MiddleNext]_middleVars /\ WF_middleVars(MiddleNext)

-----------------------------------------------------------------------------
(* Properties. *)

(* No operator is left that could be folded, and nothing behind a return.  *)
NothingLeftToDo ==
    phase = "optimized" => \A v \in ToSet(Opt!Subtree(r_root)) :
        /\ ~Opt!Foldable(v)
        /\ Opt!Cut(v) => r_nodes[v].right = NULL

(* const_fold_ hangs a literal on the parent of an operator without asking *)
(* whether there is one.  The literals themselves have none, and nothing   *)
(* mends that, so that every operator must keep the one it was read with:  *)
(* in the tree and in what has been taken out of it.                       *)
ParentsLead ==
    phase = "folding" => \A p \in 1..Len(r_nodes) :
        \A v \in {r_nodes[p].left, r_nodes[p].right} \ {NULL} :
            r_nodes[v].tok \in Opt!Operators => parents[v] = p

(* The pointers that lead to a node. *)
Hooks == {p \in (1..Len(r_nodes)) \X File!Sides : r_nodes[p[1]][p[2]] # NULL}

(* ast::dtor frees what it comes to from the root and from the marked      *)
(* nodes.  However the tree is cut and folded, every node but the root     *)
(* hangs on one hook or is marked once, never both, and nothing hangs      *)
(* below itself.                                                           *)
TreeOrMarked ==
    LET hooks == Hooks
        hung == {r_nodes[p[1]][p[2]] : p \in hooks}
        marked == ToSet(r_to_delete)
    IN  outcome = "read" =>
            /\ \A p \in hooks : r_nodes[p[1]][p[2]] > p[1]
            /\ Cardinality(hooks) = Cardinality(hung)
            /\ Cardinality(marked) = Len(r_to_delete)
            /\ hung \cap marked = {}
            /\ hung \cup marked = (1..Len(r_nodes)) \ {r_root}

(* ast::dtor frees the tree and everything that was marked while it was    *)
(* changed: every node once, in whatever order and depth it was marked.    *)
FreedOnce == phase = "done" => \A v \in 1..Len(r_nodes) : frees[v] = 1
=============================================================================
