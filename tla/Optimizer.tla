----------------------------- MODULE Optimizer -----------------------------
(***************************************************************************)
(* optimize (src/src/middlend/optimize.cpp) on the tree fread_infix has    *)
(* made, up to ast::dtor.                                                  *)
(*                                                                         *)
(* eliminate_dead_code_ and const_fold_ are recursive; what their active   *)
(* calls still have to visit is the sequence todo, the next one first.     *)
(* const_fold_ comes to a node twice: on its way down and, when both       *)
(* children are done, to fold it.  A node that is made gets a new number.  *)
(*                                                                         *)
(* eliminate_neutral_ is not here: it returns at once from a node that is  *)
(* no operator, it is called with the root, and the root of a program is a *)
(* function's name or a "{".                                               *)
(***************************************************************************)
EXTENDS Evaluate, Sequences, SequencesExt

CONSTANTS Names,     \* the identifiers
          Value      \* of a numeric literal

VARIABLES nodes, to_delete, root,   \* the tree
          parents,                  \* the nodes' parent pointers
          todo,                     \* what is still to be visited
          treeChanged,
          phase,                    \* of optimize, and of main around it
          frees                     \* how often each node has been freed

NULL == 0
Operators == {"+", "-", "*", "/", "^", "|", "&", "==", "!=", ">", "<", ">=", "<=", "=", "@"}

(* The literals const_ may give a value. *)
LiteralsOf(n) == {t \in DOMAIN Value : Value[t] = n}

Node(tok) == [tok |-> tok, left |-> NULL, right |-> NULL, scope |-> 0, inner |-> 0]

Visit(step, v) == [step |-> step, node |-> v]
Visits(step, v) == IF v = NULL THEN << >> ELSE <<Visit(step, v)>>

At(step) == todo # << >> /\ Head(todo).step = step
V == Head(todo).node
Rest == Tail(todo)

Die == phase' = "aborted" /\ UNCHANGED <<nodes, to_delete, root, parents, todo, treeChanged, frees>>

(* ast_subtree_holds_identifier_; NULL holds none. *)
HoldsIdentifier(v) ==
    LET holds[w \in 0..Len(nodes)] ==
            w # NULL /\ ( \/ nodes[w].tok \in Names
                          \/ holds[nodes[w].left]
                          \/ holds[nodes[w].right] )
    IN  holds[v]

(* What const_fold_ may fold: an operator without an identifier below it.  *)
Foldable(v) ==
    /\ nodes[v].tok \in Operators
    /\ ~HoldsIdentifier(nodes[v].left)
    /\ ~HoldsIdentifier(nodes[v].right)

(* evaluate_: the assertion for a node that is missing, or a trap, or the   *)
(* value.  What is neither operator nor literal counts as 0.               *)
Evaluated(v) ==
    LET value[w \in 0..Len(nodes)] ==
            IF w = NULL THEN <<FALSE, 0>>
            ELSE IF nodes[w].tok \in Operators
            THEN LET a == value[nodes[w].left]
                     b == value[nodes[w].right]
                 IN  IF ~a[1] \/ ~b[1] \/ Traps(nodes[w].tok, a[2], b[2])
                     THEN <<FALSE, 0>>
                     ELSE <<TRUE, Computed(nodes[w].tok, a[2], b[2])>>
            ELSE IF nodes[w].tok \in DOMAIN Value THEN <<TRUE, Value[nodes[w].tok]>>
            ELSE <<TRUE, 0>>
    IN  value[v]
-----------------------------------------------------------------------------
(* Mutant: only a left child learns its parent.                            *)
ParentOfLeft(v) ==
    LET owners == {p \in 1..Len(nodes) : v = nodes[p].left}
    IN  IF owners = {} THEN NULL ELSE CHOOSE p \in owners : TRUE

(* The parent pointers fread_infix sets. *)
ParentOf(v) ==
    LET owners == {p \in 1..Len(nodes) : v \in {nodes[p].left, nodes[p].right}}
    IN  IF owners = {} THEN NULL ELSE CHOOSE p \in owners : TRUE

(* optimize asserts that there is a tree. *)
Begin ==
    /\ phase = "read"
    /\ parents' = [v \in 1..Len(nodes) |-> ParentOf(v)]
    /\ todo' = Visits("dead", root)
    /\ phase' = IF root = NULL THEN "aborted" ELSE "dead code"
    /\ UNCHANGED <<nodes, to_delete, root, treeChanged, frees>>

(* Mutants: an if ends its block as well; what comes after a return stays  *)
(* in the tree although it is marked.                                      *)
CutAfterIf(v) == nodes[v].tok = ";" /\ nodes[nodes[v].left].tok \in {"return", "if"}
PrunedNot(v) == nodes

(* eliminate_dead_code_ at the node v: what follows a return is cut off.   *)
Cut(v) == nodes[v].tok = ";" /\ nodes[nodes[v].left].tok = "return"
Pruned(v) == [nodes EXCEPT ![v].right = NULL]

EliminateDeadCode ==
    /\ phase = "dead code" /\ At("dead")
    /\ \/ nodes[V].tok = ";" /\ nodes[V].left = NULL /\ Die
       \/ /\ nodes[V].tok = ";" => nodes[V].left # NULL
          /\ IF Cut(V)
             THEN /\ to_delete' = IF nodes[V].right = NULL THEN to_delete
                                  ELSE Append(to_delete, nodes[V].right)
                  /\ nodes' = Pruned(V)
                  /\ todo' = Visits("dead", nodes[V].left) \o Visits("dead", nodes'[V].right) \o Rest
             ELSE /\ UNCHANGED <<to_delete, nodes>>
                  /\ todo' = Visits("dead", nodes[V].left) \o Visits("dead", nodes[V].right) \o Rest
          /\ UNCHANGED <<root, parents, treeChanged, phase, frees>>

(* Mutant: a round begins with the flag of the last one.                   *)
TreeChangedKept == treeChanged

TreeChangedAtFirst == FALSE

(* The do-while loop of optimize.  At its end eliminate_neutral_ looks at   *)
(* the root.                                                               *)
BeginRound ==
    /\ todo = << >>
    /\ phase = "dead code" \/ (phase = "folding" /\ treeChanged)
    /\ treeChanged' = TreeChangedAtFirst
    /\ todo' = <<Visit("enter", root)>>
    /\ phase' = "folding"
    /\ UNCHANGED <<nodes, to_delete, root, parents, frees>>

LastRound ==
    /\ todo = << >> /\ phase = "folding" /\ ~treeChanged
    /\ phase' = "optimized"
    /\ UNCHANGED <<nodes, to_delete, root, parents, todo, treeChanged, frees>>

(* const_fold_ before and after its calls for the children. *)
EnterNode ==
    /\ phase = "folding" /\ At("enter")
    /\ todo' = Visits("enter", nodes[V].left) \o Visits("enter", nodes[V].right)
                 \o <<Visit("leave", V)>> \o Rest
    /\ UNCHANGED <<nodes, to_delete, root, parents, treeChanged, phase, frees>>

LeaveNode ==
    /\ phase = "folding" /\ At("leave") /\ ~Foldable(V)
    /\ todo' = Rest
    /\ UNCHANGED <<nodes, to_delete, root, parents, treeChanged, phase, frees>>

(* The literal is hung where the operator v was, below the node p. *)
Hung(new, v, p) ==
    [Append(nodes, new) EXCEPT ![p].left = IF @ = v THEN Len(nodes) + 1 ELSE @,
                               ![p].right = IF @ = v THEN Len(nodes) + 1 ELSE @]

(* Mutant: the operands are marked besides the operator.                   *)
MarkedBelow(v) == to_delete \o <<v, nodes[v].left>>
Marked(v) == Append(to_delete, v)

(* Without a value, or without a parent to ask, the process ends.           *)
FoldNode ==
    /\ phase = "folding" /\ At("leave") /\ Foldable(V)
    /\ LET result == Evaluated(V) IN
        \/ (~result[1] \/ parents[V] = NULL) /\ Die
        \/ /\ result[1] /\ parents[V] # NULL
           /\ \E literal \in LiteralsOf(result[2]) :
                 nodes' = Hung(Node(literal), V, parents[V])
           /\ parents' = Append(parents, NULL)
           /\ to_delete' = Marked(V)
           /\ treeChanged' = TRUE
           /\ todo' = Rest
           /\ UNCHANGED <<root, phase, frees>>

(* free_subtree, as the nodes it frees. *)
Subtree(v) ==
    LET below[w \in 0..Len(nodes)] ==
            IF w = NULL THEN << >>
            ELSE below[nodes[w].left] \o below[nodes[w].right] \o <<w>>
    IN  below[v]

(* ast::dtor, when the tree has been written: the tree, and then what has  *)
(* been marked.                                                            *)
Dtor ==
    /\ phase = "written"
    /\ \E freed \in {Subtree(root) \o FlattenSeq([i \in 1..Len(to_delete) |-> Subtree(to_delete[i])])} :
          frees' = [v \in 1..Len(nodes) |->
                      Cardinality({i \in 1..Len(freed) : freed[i] = v})]
    /\ phase' = "done"
    /\ UNCHANGED <<nodes, to_delete, root, parents, todo, treeChanged>>

Init ==
    /\ parents = << >> /\ todo = << >> /\ frees = << >>
    /\ treeChanged = FALSE
    /\ phase = "read"

Next ==
    \/ Begin \/ EliminateDeadCode \/ BeginRound \/ LastRound
    \/ EnterNode \/ LeaveNode \/ FoldNode \/ Dtor
=============================================================================
