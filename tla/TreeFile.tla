----------------------------- MODULE TreeFile -----------------------------
(***************************************************************************)
(* The front end and the reader in the next program: the syntax analyzer   *)
(* runs, an accepted tree is written (frontend_main.cpp), and whatever has *)
(* become of the file is read (middlend_main.cpp, backend_main.cpp).       *)
(*                                                                         *)
(* The variables of the syntax analyzer are the writer's; those of the     *)
(* reader that have a counterpart there begin with r_.                     *)
(***************************************************************************)
EXTENDS SyntaxAnalyzer

VARIABLES file, buf_pos, calls, outcome,
          r_nodes, r_to_delete, r_freed, r_root, r_envs, r_current_env_id

File == INSTANCE AstFile WITH
            nodes <- r_nodes, to_delete <- r_to_delete, freed <- r_freed,
            root <- r_root, envs <- r_envs, current_env_id <- r_current_env_id

fileVars == <<file, buf_pos, calls, outcome,
              r_nodes, r_to_delete, r_freed, r_root, r_envs, r_current_env_id>>
allVars == <<vars, fileVars>>

TreeInit == Init /\ File!Init

Analyze == Next /\ UNCHANGED fileVars

(* frontend_main: after the analyzer has accepted. *)
WriteTree == status = "accepted" /\ File!Write(nodes, envs, root) /\ UNCHANGED vars

ReadTree == File!Read /\ UNCHANGED vars

TreeNext == Analyze \/ WriteTree \/ ReadTree

TreeSpec == TreeInit /\ [][TreeNext]_allVars /\ WF_allVars(TreeNext)

-----------------------------------------------------------------------------
(* Properties. *)

(* The tree below the node v of ns, and its nodes in prefix order.         *)
Tree(ns, v) ==
    LET tree[w \in 0..Len(ns)] ==
            IF w = NULL THEN << >>
            ELSE <<ns[w].tok, tree[ns[w].left], tree[ns[w].right]>>
    IN  tree[v]

Prefix(ns, v) ==
    LET prefix[w \in 0..Len(ns)] ==
            IF w = NULL THEN << >>
            ELSE <<w>> \o prefix[ns[w].left] \o prefix[ns[w].right]
    IN  prefix[v]

Finished == outcome = "read"
Program == nodes[root].left

(* Every pointer of the reader is into its heap, its stack leads to nodes,  *)
(* and the current environment is the last one.                            *)
FileTypeOK == File!TypeOK

(* Whatever is in the file: at any time the nodes the reader has made are   *)
(* one tree below its root, which ast::dtor frees node by node.            *)
ReadHangsTogether == File!HangsTogether

(* A tree that is read without an error is the tree that was written, also *)
(* when the file is not whole: fwrite_node_ does not look at what fprintf  *)
(* answers, and the reader sees the last parenthesis of a file again and   *)
(* again, but nothing except closing parentheses can be missing then.      *)
ReadIsWritten == Finished => Tree(r_nodes, r_root) = Tree(nodes, Program)

(* The file has no ids; those the reader makes up put every variable in    *)
(* the function it had in the front end and name it there.  The names of   *)
(* functions have no ids after reading and are left out.                   *)
ScopesSurvive ==
    LET written == Prefix(nodes, Program)
        read == Prefix(r_nodes, r_root)
    IN  Finished => \A k \in 1..Len(read) :
            LET v == nodes[written[k]]
                w == r_nodes[read[k]]
                sym == SymbolAt(envs[v.scope + 1], v.inner)
            IN  v.tok \in Names /\ sym.type # "FUNC" =>
                    /\ w.scope = v.scope
                    /\ SymbolAt(r_envs[w.scope + 1], w.inner) = sym

(* The parameters of a function, from the list that nests to the left.     *)
Parameters(d) ==
    LET list[v \in 0..Len(r_nodes)] ==
            IF v = NULL THEN << >>
            ELSE IF r_nodes[v].tok = ","
                 THEN Append(list[r_nodes[v].left], r_nodes[v].right)
                 ELSE <<v>>
    IN  list[r_nodes[d].left]

(* The translator hands arguments over in the cells of the symbols 1, 2,    *)
(* ... of the called function (emit_call_, emit_variable_): its parameters *)
(* must have these ids, in their order, although nothing in the file but   *)
(* the order of the names decides which ids the reader gives them.         *)
ParametersLead ==
    Finished => \A d \in 1..Len(r_nodes) :
        LET parameters == Parameters(d)
            name(k) == r_nodes[parameters[k]].tok
        IN  r_nodes[d].tok \in Names /\ r_nodes[d].right # NULL
              /\ (\A j, k \in 1..Len(parameters) : name(j) = name(k) => j = k)
            => \A k \in 1..Len(parameters) : r_nodes[parameters[k]].inner = k

(* A file that is no tree leaves no node behind, wherever it breaks off.   *)
RejectFreesRead == outcome = "rejected" => r_freed = 1 .. Len(r_nodes)

(* Reading ends on every file, though at its last character the position   *)
(* no longer moves.                                                        *)
ReadingEnds == outcome = "written" ~> outcome # "written"
=============================================================================
