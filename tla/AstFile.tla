------------------------------ MODULE AstFile ------------------------------
(***************************************************************************)
(* The syntax tree on its way from one program to the next through a file: *)
(* fwrite_infix and fread_infix of src/src/common/ast.cpp.                 *)
(*                                                                         *)
(* The file holds the tree in prefix order and, for an identifier, its     *)
(* name and the type of its symbol, but neither the environments nor the   *)
(* ids.  The reader builds both again from the names, in the order of the  *)
(* file.  The variables are the reader's.                                  *)
(*                                                                         *)
(* One chunk of the file is what one fprintf writes.  Nobody looks at what *)
(* fprintf answers: a full disk ends the file anywhere, and the writing    *)
(* program reports success.  The texts of tokens are left out; no two      *)
(* tokens of the table (token.h) have the same internal text, and a name   *)
(* is followed by a colon in the file and is none of them.                 *)
(***************************************************************************)
EXTENDS SymbolTable

CONSTANT Names            \* the identifiers

VARIABLES file,           \* the chunks
          buf_pos,        \* astree->buf.pos, as the number of chunks read
          calls,          \* the activations of fread_node_infix_, the running one last
          nodes,          \* the nodes made so far, in the order of their allocation
          to_delete,      \* astree->to_delete
          freed,          \* the nodes given to free()
          root,           \* astree->root
          envs,           \* astree->envs
          current_env_id, \* astree->current_env_id, NoEnv while current_env is NULL
          outcome         \* what has become of the tree so far

vars == <<file, buf_pos, calls, nodes, to_delete, freed, root, envs, current_env_id, outcome>>

NULL == 0
NoEnv == -1

-----------------------------------------------------------------------------
(* Writing.  NilLeft and NilRight are two chunks: only the second has       *)
(* spaces around it.  Torn stands for a chunk that is cut short.           *)
Open(tok, type) == [kind |-> "open", tok |-> tok, type |-> type]
Mark(kind) == [kind |-> kind, tok |-> "", type |-> "NONE"]
NilLeft == Mark("nil")
NilRight == Mark("nil ")
Shut == Mark(")")
Torn == Mark("torn")

(* fwrite_node_ below every node of ns, whose symbols are in es. *)
NodeText(ns, es) ==
    LET type(node) == IF node.tok \in Names
                      THEN SymbolAt(es[node.scope + 1], node.inner).type
                      ELSE "NONE"
        text[v \in 1..Len(ns)] ==
            <<Open(ns[v].tok, type(ns[v]))>>
              \o (IF ns[v].left # NULL THEN text[ns[v].left] ELSE <<NilLeft>>)
              \o (IF ns[v].right # NULL THEN text[ns[v].right] ELSE <<NilRight>>)
              \o <<Shut>>
    IN  text

(* fwrite_infix: what is below the node v, which is not written itself.    *)
(* The chunks that have a single character cannot be torn.                 *)
Write(ns, es, v) ==
    LET text == NodeText(ns, es)[ns[v].left] IN
    /\ outcome = "none"
    /\ \/ file' = text
       \/ \E n \in 0 .. Len(text) - 1 : file' = SubSeq(text, 1, n)
       \/ \E n \in 0 .. Len(text) - 1 :
             text[n + 1] # Shut /\ file' = Append(SubSeq(text, 1, n), Torn)
    /\ outcome' = "written"
    /\ UNCHANGED <<buf_pos, calls, nodes, to_delete, freed, root, envs, current_env_id>>

-----------------------------------------------------------------------------
(* Reading.  An activation reads the left child of its node, then the      *)
(* right one, then the closing parenthesis; the outermost one, of          *)
(* fread_infix, reads the root.                                            *)
Reads(v, want) == [node |-> v, want |-> want]

Top == calls[Len(calls)]
Callers == SubSeq(calls, 1, Len(calls) - 1)
Reading == outcome = "written"
WantsNode == Reading /\ Top.want \in {"root", "left", "right"}

Served == [Top EXCEPT !.want = CASE @ = "root" -> "done"
                                 [] @ = "left" -> "right"
                                 [] @ = "right" -> "close"]

(* Mutant: what the file does not say is left out of the tree.            *)
AheadTolerant ==
    IF buf_pos < Len(file) THEN file[buf_pos + 1].kind
    ELSE IF Top.want = "close" THEN ")"
    ELSE "nil "

(* The character at pos.  advance_buf_pos_ does not leave the last one of   *)
(* the file: a closing parenthesis there is seen again and again.  "nil"   *)
(* is skipped without it, so that pos may leave the buffer.                *)
Ahead ==
    IF buf_pos < Len(file) THEN file[buf_pos + 1].kind
    ELSE IF file = << >> THEN "outside"
    ELSE CASE file[buf_pos].kind = "nil" -> "outside"
           [] file[buf_pos].kind = ")" -> ")"
           [] file[buf_pos].kind \in {"open", "nil "} -> "space"

(* Mutant: the right child is read into the left one's place.              *)
HungLeft(node) ==
    IF Top.want = "root"
    THEN Append(nodes, node)
    ELSE [Append(nodes, node) EXCEPT ![Top.node].left = Len(nodes) + 1]

(* The node that is made is hung on the one that waits for it. *)
Hung(node) ==
    LET v == Len(nodes) + 1 IN
    IF Top.want = "root"
    THEN Append(nodes, node)
    ELSE [Append(nodes, node) EXCEPT ![Top.node] = [@ EXCEPT ![Top.want] = v]]

(* Mutant: the node does not join to_delete.                               *)
MakeUntracked(chunk, scope, inner) ==
    LET v == Len(nodes) + 1 IN
    /\ nodes' = Hung([tok |-> chunk.tok, left |-> NULL, right |-> NULL,
                      scope |-> scope, inner |-> inner])
    /\ root' = IF Top.want = "root" THEN v ELSE root
    /\ calls' = Callers \o <<Served, Reads(v, "left")>>
    /\ buf_pos' = buf_pos + 1
    /\ UNCHANGED <<file, to_delete, freed, outcome>>

Make(chunk, scope, inner) ==
    LET v == Len(nodes) + 1 IN
    /\ nodes' = Hung([tok |-> chunk.tok, left |-> NULL, right |-> NULL,
                      scope |-> scope, inner |-> inner])
    /\ to_delete' = Append(to_delete, v)
    /\ root' = IF Top.want = "root" THEN v ELSE root
    /\ calls' = Callers \o <<Served, Reads(v, "left")>>
    /\ buf_pos' = buf_pos + 1
    /\ UNCHANGED <<file, freed, outcome>>

(* scan_token_ of a token that is no identifier. *)
OpenPlain ==
    /\ WantsNode /\ Ahead = "open"
    /\ LET chunk == file[buf_pos + 1] IN
        /\ chunk.type = "NONE"
        /\ Make(chunk, 0, 0)
    /\ UNCHANGED <<envs, current_env_id>>

(* Mutants: the function's name is not entered; the id is the new size.    *)
NewEnvBare(tok) == CreateEnv
NewEnvIdPastEnd == Len(envs) + 1

(* The environment of the function that begins, and its id.                *)
NewEnv(tok) == AddSymbol(CreateEnv, Function(tok))
NewEnvId == Len(envs)

(* scan_token_ of a function's name: a new environment begins.  The ids of  *)
(* the token are not set.                                                  *)
OpenFunction ==
    /\ WantsNode /\ Ahead = "open"
    /\ LET chunk == file[buf_pos + 1] IN
        /\ chunk.type = "FUNC"
        /\ Make(chunk, 0, 0)
        /\ envs' = Append(envs, NewEnv(chunk.tok))
        /\ current_env_id' = NewEnvId

(* Mutant: the name belongs to the environment after the current one.      *)
ScopeReadAhead == current_env_id + 1

ScopeRead == current_env_id

(* scan_token_ of a variable or a parameter: it joins the current           *)
(* environment, of which there is one: fwrite_infix writes declarations.   *)
OpenVariable ==
    /\ WantsNode /\ Ahead = "open"
    /\ LET chunk == file[buf_pos + 1]
           sym == [str |-> chunk.tok, type |-> chunk.type]
           env == envs[current_env_id + 1] IN
        /\ chunk.type \in {"VAR", "PAR"}
        /\ Make(chunk, ScopeRead, AddedId(env, sym))
        /\ envs' = [envs EXCEPT ![current_env_id + 1] = AddSymbol(@, sym)]
    /\ UNCHANGED current_env_id

(* "nil": there is no child. *)
Nil ==
    /\ WantsNode /\ Ahead \in {"nil", "nil "}
    /\ calls' = Append(Callers, Served)
    /\ buf_pos' = buf_pos + 1
    /\ UNCHANGED <<file, nodes, to_delete, freed, root, envs, current_env_id, outcome>>

(* The closing parenthesis. *)
Close ==
    /\ Reading /\ Top.want = "close" /\ Ahead = ")"
    /\ calls' = Callers
    /\ buf_pos' = IF buf_pos < Len(file) THEN buf_pos + 1 ELSE buf_pos
    /\ UNCHANGED <<file, nodes, to_delete, freed, root, envs, current_env_id, outcome>>

(* fread_infix, when all is well: the list of the nodes is forgotten. *)
Finish ==
    /\ Reading /\ Top.want = "done"
    /\ to_delete' = << >>
    /\ outcome' = "read"
    /\ UNCHANGED <<file, buf_pos, calls, nodes, freed, root, envs, current_env_id>>

(* Mutant: skip_spaces_ does not stop at the last character of the file.   *)
MisplacedSkipping ==
    \/ Ahead = "torn"
    \/ Ahead = ")" /\ Top.want # "close"
    \/ Ahead \in {"open", "nil", "nil "} /\ Top.want = "close"

(* fread_infix after SYNTAX_ERR: something else stands where a node or a    *)
(* closing parenthesis should.  In a torn chunk it may be either.          *)
Misplaced ==
    \/ Ahead \in {"space", "torn"}
    \/ Ahead = ")" /\ Top.want # "close"
    \/ Ahead \in {"open", "nil", "nil "} /\ Top.want = "close"

Reject ==
    /\ Reading /\ Top.want # "done" /\ Misplaced
    /\ freed' = freed \cup {to_delete[i] : i \in 1..Len(to_delete)}
    /\ to_delete' = << >>
    /\ root' = NULL
    /\ outcome' = "rejected"
    /\ UNCHANGED <<file, buf_pos, calls, nodes, envs, current_env_id>>

(* The buffer has no terminator: looking for one, or at what is behind the *)
(* last character, ends the process.                                       *)
Overrun ==
    /\ Reading /\ Top.want # "done" /\ Ahead \in {"outside", "torn"}
    /\ outcome' = "aborted"
    /\ UNCHANGED <<file, buf_pos, calls, nodes, to_delete, freed, root, envs, current_env_id>>

Init ==
    /\ file = << >> /\ buf_pos = 0
    /\ calls = <<Reads(NULL, "root")>>
    /\ nodes = << >> /\ to_delete = << >> /\ freed = {} /\ root = NULL
    /\ envs = << >> /\ current_env_id = NoEnv
    /\ outcome = "none"

Read ==
    \/ OpenPlain \/ OpenFunction \/ OpenVariable \/ Nil \/ Close
    \/ Finish \/ Reject \/ Overrun

-----------------------------------------------------------------------------
(* Every pointer is into the heap, the stack leads to the node that is      *)
(* being read, and the current environment is the last one.                *)
TypeOK ==
    /\ buf_pos \in 0 .. Len(file)
    /\ outcome \in {"none", "written", "read", "rejected", "aborted"}
    /\ current_env_id = Len(envs) - 1
    /\ freed \subseteq 1 .. Len(nodes) /\ root \in 0 .. Len(nodes)
    /\ \A v \in 1 .. Len(nodes) :
          nodes[v].left \in 0 .. Len(nodes) /\ nodes[v].right \in 0 .. Len(nodes)
    /\ calls # << >>
    /\ \A i \in 2 .. Len(calls) :
          calls[i].node \in 1 .. Len(nodes) /\ calls[i].want \in {"left", "right", "close"}

(* Where a node points to the node v. *)
Sides == {"left", "right"}
Places(v) == {p \in (1 .. Len(nodes)) \X Sides : nodes[p[1]][p[2]] = v}

(* The list of the nodes is forgotten when reading has gone well, and       *)
(* ast::dtor frees what it comes to from the root.  So all nodes must be   *)
(* in the tree, each in one place, and the pointers must not go in circles.*)
HangsTogether ==
    /\ nodes # << >> /\ outcome # "rejected" => root = 1
    /\ \A v \in 1 .. Len(nodes) :
          /\ \A p, q \in Places(v) : p = q
          /\ \A p \in Places(v) : p[1] < v
          /\ v # 1 => Places(v) # {}
=============================================================================
