--------------------------- MODULE TreeFileProofs ---------------------------
(***************************************************************************)
(* What the reader of the tree file keeps, whatever is in the file: the    *)
(* nodes it makes are all in its list and hang together in one tree.       *)
(*                                                                         *)
(* The activations of fread_node_infix_ below the outermost one have nodes *)
(* of their own, whose children they have not read yet have no pointer.    *)
(* So a new node takes a place that was empty.                             *)
(*                                                                         *)
(* The tree that is read is the tree that was written.  Each node that has *)
(* been read is a copy of one that was written, whose chunks stand at a     *)
(* known place of the text, and each activation goes on where the part of   *)
(* the text that its node has left begins.                                 *)
(***************************************************************************)
EXTENDS TreeFile, SyntaxNodesProofs

ReadNode(X) == [tok : X, left : Nat, right : Nat, scope : X, inner : X]
Activation == [node : Nat, want : {"root", "left", "right", "close", "done"}]

HeapTyped == \E X : r_nodes \in Seq(ReadNode(X))

N == Len(r_nodes)
Child(u, side) == r_nodes[u][side]

(* The tree, as facts about children.                                      *)
Forward ==
  \A u \in 1..N : \A side \in File!Sides : Child(u, side) # NULL => Child(u, side) \in u+1 .. N
Once ==
  \A u1, u2 \in 1..N : \A s1, s2 \in File!Sides :
     Child(u1, s1) = Child(u2, s2) /\ Child(u1, s1) # NULL => u1 = u2 /\ s1 = s2
Hanging ==
  \A v \in 2..N : \E u \in 1..N : \E side \in File!Sides : Child(u, side) = v

CallsInv ==
  /\ calls \in Seq(Activation) /\ Len(calls) >= 1
  /\ calls[1].want \in {"root", "done"}
  /\ calls[1].want = "root" => r_nodes = << >> /\ Len(calls) = 1
  /\ \A i \in 2 .. Len(calls) :
        /\ calls[i].node \in 1..N
        /\ calls[i].want \in {"left", "right", "close"}
        /\ calls[i].want = "left" => Child(calls[i].node, "left") = NULL
        /\ calls[i].want # "close" => Child(calls[i].node, "right") = NULL
  /\ \A i, j \in 2 .. Len(calls) : calls[i].node = calls[j].node => i = j

ListInv ==
  outcome \in {"none", "written"} =>
     /\ r_freed = {}
     /\ r_to_delete \in Seq(Nat) /\ Len(r_to_delete) = N
     /\ \A i \in 1..N : r_to_delete[i] = i

ReaderInv ==
  /\ HeapTyped /\ Forward /\ Once /\ Hanging
  /\ CallsInv /\ ListInv
  /\ outcome # "rejected" => r_root = IF r_nodes = << >> THEN NULL ELSE 1
  /\ outcome = "read" => r_to_delete = << >>
  /\ RejectFreesRead

-----------------------------------------------------------------------------
(* What each action does. *)

LEMMA ServedCall ==
  ASSUME CallsInv
  PROVE  /\ File!Top \in Activation /\ File!Callers \in Seq(Activation)
         /\ Len(File!Callers) = Len(calls) - 1
         /\ \A i \in 1 .. Len(calls) - 1 : File!Callers[i] = calls[i]
         /\ File!Top = calls[Len(calls)]
<1>1. calls \in Seq(Activation) /\ Len(calls) \in Nat /\ Len(calls) >= 1
  BY DEF CallsInv
<1>2. /\ SubSeq(calls, 1, Len(calls) - 1) \in Seq(Activation)
      /\ Len(SubSeq(calls, 1, Len(calls) - 1)) = Len(calls) - 1
      /\ \A i \in 1 .. Len(calls) - 1 : SubSeq(calls, 1, Len(calls) - 1)[i] = calls[i]
  BY ONLY <1>1, SMTT(20)
<1>3. calls[Len(calls)] \in Activation
  BY ONLY <1>1
<1> QED  BY ONLY <1>2, <1>3 DEF File!Top, File!Callers

LEMMA WiderSequence ==
  ASSUME NEW S, NEW T, S \subseteq T, NEW s \in Seq(S)
  PROVE  s \in Seq(T)
  OBVIOUS

LEMMA TwoMore ==
  ASSUME NEW S, NEW s \in Seq(S), NEW a \in S, NEW b \in S
  PROVE  /\ s \o <<a, b>> \in Seq(S) /\ Len(s \o <<a, b>>) = Len(s) + 2
         /\ \A i \in 1 .. Len(s) : (s \o <<a, b>>)[i] = s[i]
         /\ (s \o <<a, b>>)[Len(s) + 1] = a /\ (s \o <<a, b>>)[Len(s) + 2] = b
<1> DEFINE two == <<a, b>>
<1>1. two \in Seq(S) /\ Len(two) = 2 /\ two[1] = a /\ two[2] = b
  OBVIOUS
<1>2. Len(s) \in Nat
  OBVIOUS
<1> HIDE DEF two
<1> DEFINE t == s \o two
<1>3. /\ t \in Seq(S) /\ Len(t) = Len(s) + Len(two)
      /\ \A i \in 1 .. Len(s) + Len(two) :
            t[i] = IF i <= Len(s) THEN s[i] ELSE two[i - Len(s)]
  BY <1>1, ConcatProperties
<1> HIDE DEF t
<1>4. \A i \in 1 .. Len(s) : t[i] = s[i]
  BY ONLY <1>1, <1>2, <1>3
<1>5. t[Len(s) + 1] = a /\ t[Len(s) + 2] = b
  BY ONLY <1>1, <1>2, <1>3, SMTT(20)
<1> QED  BY <1>1, <1>3, <1>4, <1>5 DEF t, two

(* A new node without children is hung on the node p.                      *)
Grown(p, side) ==
  /\ Len(r_nodes') = N + 1
  /\ \A u \in 1..N : \A s \in File!Sides :
        r_nodes'[u][s] = IF u = p /\ s = side THEN N + 1 ELSE r_nodes[u][s]
  /\ \A s \in File!Sides : r_nodes'[N + 1][s] = NULL

(* The other fields.                                                       *)
FieldsKept(tok, scope, inner) ==
  /\ \A u \in 1..N : /\ r_nodes'[u].tok = r_nodes[u].tok
                     /\ r_nodes'[u].scope = r_nodes[u].scope
                     /\ r_nodes'[u].inner = r_nodes[u].inner
  /\ r_nodes'[N + 1].tok = tok
  /\ r_nodes'[N + 1].scope = scope /\ r_nodes'[N + 1].inner = inner

LEMMA HungGrows ==
  ASSUME CallsInv, HeapTyped, NEW tok, NEW scope, NEW inner,
         r_nodes' = File!Hung([tok |-> tok, left |-> NULL, right |-> NULL,
                               scope |-> scope, inner |-> inner]),
         File!Top.want \in {"root", "left", "right"}
  PROVE  /\ HeapTyped'
         /\ Grown(File!Top.node, File!Top.want)
         /\ FieldsKept(tok, scope, inner)
<1> DEFINE node == [tok |-> tok, left |-> NULL, right |-> NULL, scope |-> scope, inner |-> inner]
           p == File!Top.node
           side == File!Top.want
<1>1. PICK X : r_nodes \in Seq(ReadNode(X))
  BY DEF HeapTyped
<1> DEFINE Y == X \cup {tok, scope, inner}
           grown == Append(r_nodes, node)
<1>2. node \in ReadNode(Y) /\ r_nodes \in Seq(ReadNode(Y))
  <2>1. ReadNode(X) \subseteq ReadNode(Y)
    BY DEF ReadNode
  <2>2. node \in ReadNode(Y)
    BY DEF ReadNode, NULL
  <2>3. r_nodes \in Seq(ReadNode(Y))
    BY ONLY <1>1, <2>1, WiderSequence
  <2> QED  BY <2>2, <2>3
<1>3. /\ grown \in Seq(ReadNode(Y)) /\ Len(grown) = N + 1 /\ N \in Nat
      /\ grown[N + 1] = node
      /\ \A u \in 1..N : grown[u] = r_nodes[u]
  BY <1>2 DEF N
<1> HIDE DEF Y, grown, node
<1>4. /\ node.left = NULL /\ node.right = NULL
      /\ node.tok = tok /\ node.scope = scope /\ node.inner = inner
  BY DEF node
<1>5. CASE side = "root"
  <2>1. r_nodes' = grown
    BY <1>5 DEF File!Hung, grown, node
  <2> QED  BY <1>3, <1>4, <1>5, <2>1 DEF HeapTyped, Grown, File!Sides, FieldsKept
<1>6. CASE side \in {"left", "right"}
  <2>1. r_nodes' = [grown EXCEPT ![p] = [@ EXCEPT ![side] = N + 1]]
    BY <1>6 DEF File!Hung, grown, node, N
  <2>2. p \in 1..N
    BY <1>6, ServedCall DEF CallsInv
  <2>3. grown[p] \in ReadNode(Y) /\ N + 1 \in Nat
    BY <1>3, <2>2
  <2>4. [grown[p] EXCEPT ![side] = N + 1] \in ReadNode(Y)
    BY <1>6, <2>3 DEF ReadNode
  <2>5. r_nodes' \in Seq(ReadNode(Y)) /\ Len(r_nodes') = N + 1
    BY <1>3, <2>1, <2>2, <2>4
  <2>6. ASSUME NEW u \in 1..N, NEW s \in File!Sides
        PROVE  r_nodes'[u][s] = IF u = p /\ s = side THEN N + 1 ELSE r_nodes[u][s]
    <3>1. CASE u # p
      BY <1>3, <2>1, <2>2, <3>1
    <3>2. CASE u = p
      <4>1. r_nodes'[u] = [grown[p] EXCEPT ![side] = N + 1] /\ grown[p] = r_nodes[p]
        BY <1>3, <2>1, <2>2, <3>2
      <4>2. side \in DOMAIN grown[p] /\ s \in DOMAIN grown[p]
        BY <1>6, <2>3 DEF ReadNode, File!Sides
      <4> QED  BY <3>2, <4>1, <4>2
    <3> QED  BY <3>1, <3>2
  <2>7. r_nodes'[N + 1] = node
    BY <1>3, <2>1, <2>2
  <2>8. ASSUME NEW u \in 1..N
        PROVE  /\ r_nodes'[u].tok = r_nodes[u].tok
               /\ r_nodes'[u].scope = r_nodes[u].scope
               /\ r_nodes'[u].inner = r_nodes[u].inner
    <3>1. CASE u # p
      BY <1>3, <2>1, <2>2, <3>1
    <3>2. CASE u = p
      <4>1. r_nodes'[u] = [grown[p] EXCEPT ![side] = N + 1] /\ grown[p] = r_nodes[p]
        BY <1>3, <2>1, <2>2, <3>2
      <4> QED  BY <1>6, <2>3, <3>2, <4>1 DEF ReadNode
    <3> QED  BY <3>1, <3>2
  <2> QED  BY <1>4, <2>5, <2>6, <2>7, <2>8 DEF HeapTyped, Grown, File!Sides, FieldsKept
<1> QED  BY <1>5, <1>6
(* The calls once the running one has been served; with the activation for *)
(* the new node, if there is one.                                          *)
LEMMA ServedRight ==
  ASSUME CallsInv, File!Top.want \in {"root", "left", "right"}
  PROVE  /\ File!Served \in Activation /\ File!Served.node = File!Top.node
         /\ File!Top.want = "root" => File!Served.want = "done" /\ Len(calls) = 1 /\ r_nodes = << >>
         /\ File!Top.want = "left" => File!Served.want = "right" /\ Len(calls) >= 2
         /\ File!Top.want = "right" => File!Served.want = "close" /\ Len(calls) >= 2
<1>1. Len(calls) \in 1 .. Len(calls) /\ Len(calls) >= 1 /\ Len(calls) \in Nat
  BY DEF CallsInv
<1>2. File!Top \in Activation /\ File!Top = calls[Len(calls)]
  BY ServedCall
<1>3. /\ File!Top.want = "root" => File!Served.want = "done"
      /\ File!Top.want = "left" => File!Served.want = "right"
      /\ File!Top.want = "right" => File!Served.want = "close"
      /\ File!Served.node = File!Top.node /\ File!Served \in Activation
  BY <1>2 DEF File!Served, Activation
<1>4. CASE Len(calls) = 1
  <2>1. File!Top.want \in {"root", "done"}
    BY <1>2, <1>4 DEF CallsInv
  <2> QED  BY <1>2, <1>3, <1>4, <2>1 DEF CallsInv
<1>5. CASE Len(calls) >= 2
  <2>1. File!Top.want # "root"
    BY <1>1, <1>2, <1>5 DEF CallsInv
  <2> QED  BY <1>3, <1>5, <2>1
<1> QED  BY <1>1, <1>4, <1>5, SMTT(20)

TreeInvariant == HeapTyped /\ Forward /\ Once /\ Hanging

(* What hangs in one tree still does when a node has been made: its place  *)
(* was empty.                                                              *)
LEMMA GrownHangsTogether ==
  ASSUME TreeInvariant, CallsInv, HeapTyped', File!Top.want \in {"root", "left", "right"},
         Grown(File!Top.node, File!Top.want)
  PROVE  TreeInvariant'
<1> DEFINE p == File!Top.node
           side == File!Top.want
<1>1. N \in Nat /\ N' = N + 1
  BY DEF HeapTyped, TreeInvariant, Grown, N
<1>2. \A u \in 1..N : \A s \in File!Sides :
         r_nodes'[u][s] = IF u = p /\ s = side THEN N + 1 ELSE r_nodes[u][s]
  BY DEF Grown
<1>3. \A s \in File!Sides : r_nodes'[N + 1][s] = NULL
  BY DEF Grown
<1>4. /\ N # 0 => p \in 1..N /\ side \in File!Sides /\ r_nodes[p][side] = NULL
      /\ N = 0 => side = "root"
  <2>1. CASE side = "root"
    BY <2>1, ServedRight DEF N
  <2>2. CASE side \in {"left", "right"}
    <3>1. Len(calls) \in 2 .. Len(calls) /\ File!Top = calls[Len(calls)]
      BY <2>2, ServedRight, ServedCall DEF CallsInv
    <3>2. p \in 1..N /\ Child(p, side) = NULL
      BY <2>2, <3>1 DEF CallsInv
    <3> QED  BY <1>1, <2>2, <3>2 DEF Child, File!Sides
  <2> QED  BY <2>1, <2>2
<1> HIDE DEF p, side
<1>5. ASSUME NEW u \in 1..N+1, NEW s \in File!Sides, r_nodes'[u][s] # NULL
      PROVE  \/ u \in 1..N /\ u = p /\ s = side /\ r_nodes'[u][s] = N + 1
             \/ u \in 1..N /\ r_nodes'[u][s] = r_nodes[u][s] /\ r_nodes[u][s] \in u+1 .. N
  <2>1. u \in 1..N
    BY <1>1, <1>3, <1>5
  <2> QED  BY <1>2, <1>5, <2>1 DEF TreeInvariant, Forward, Child
<1>6. Forward'
  BY <1>1, <1>5 DEF Forward, Child
<1>7. Once'
  <2> SUFFICES ASSUME NEW u1 \in 1..N+1, NEW u2 \in 1..N+1,
                      NEW s1 \in File!Sides, NEW s2 \in File!Sides,
                      r_nodes'[u1][s1] = r_nodes'[u2][s2], r_nodes'[u1][s1] # NULL
               PROVE  u1 = u2 /\ s1 = s2
    BY <1>1 DEF Once, Child
  <2>1. \/ u1 \in 1..N /\ u1 = p /\ s1 = side /\ r_nodes'[u1][s1] = N + 1
        \/ u1 \in 1..N /\ r_nodes'[u1][s1] = r_nodes[u1][s1] /\ r_nodes[u1][s1] \in u1+1 .. N
    BY <1>5
  <2>2. \/ u2 \in 1..N /\ u2 = p /\ s2 = side /\ r_nodes'[u2][s2] = N + 1
        \/ u2 \in 1..N /\ r_nodes'[u2][s2] = r_nodes[u2][s2] /\ r_nodes[u2][s2] \in u2+1 .. N
    BY <1>5
  <2>3. CASE r_nodes'[u1][s1] = N + 1
    BY <1>1, <2>1, <2>2, <2>3
  <2>4. CASE r_nodes'[u1][s1] # N + 1
    BY <1>1, <2>1, <2>2, <2>4 DEF TreeInvariant, Once, Child
  <2> QED  BY <2>3, <2>4
<1>8. Hanging'
  <2> SUFFICES ASSUME NEW v \in 2..N+1
               PROVE  \E u \in 1..N+1 : \E s \in File!Sides : r_nodes'[u][s] = v
    BY <1>1 DEF Hanging, Child
  <2>1. CASE v = N + 1
    <3>1. p \in 1..N /\ side \in File!Sides /\ r_nodes'[p][side] = N + 1
      BY <1>1, <1>2, <1>4, <2>1
    <3>2. p \in 1..N+1
      BY <1>1, <3>1
    <3> QED  BY <2>1, <3>1, <3>2
  <2>2. CASE v # N + 1
    <3>1. PICK u \in 1..N, s \in File!Sides : r_nodes[u][s] = v
      BY <1>1, <2>2 DEF TreeInvariant, Hanging, Child
    <3>2. ~ (u = p /\ s = side)
      BY <1>1, <1>4, <3>1 DEF NULL
    <3>3. u \in 1..N+1 /\ r_nodes'[u][s] = v
      BY <1>1, <1>2, <3>1, <3>2
    <3> QED  BY <3>3
  <2> QED  BY <2>1, <2>2
<1> QED  BY <1>6, <1>7, <1>8 DEF TreeInvariant
(* The calls that wait after a step are those that waited before, but for  *)
(* the served one and, maybe, the one for the new node.                    *)
LEMMA NilCalls ==
  ASSUME CallsInv, N \in Nat, calls' = Append(File!Callers, File!Served), UNCHANGED r_nodes,
         File!Top.want \in {"root", "left", "right"}
  PROVE  CallsInv'
<1> DEFINE m == Len(calls)
<1>1. m \in Nat /\ m >= 1 /\ N' = N
  BY DEF CallsInv, N
<1>2. /\ calls' \in Seq(Activation) /\ Len(calls') = m
      /\ \A i \in 1 .. m - 1 : calls'[i] = calls[i]
      /\ calls'[m] = File!Served
  BY <1>1, ServedCall, ServedRight
<1>3. File!Top = calls[m] /\ m \in 1 .. m
  BY <1>1, ServedCall
<1> HIDE DEF m
<1>4. CASE File!Top.want = "root"
  <2>1. m = 1 /\ File!Served.want = "done"
    BY <1>4, ServedRight DEF m
  <2> QED  BY <1>2, <2>1 DEF CallsInv
<1>5. CASE File!Top.want \in {"left", "right"}
  <2>1. /\ m >= 2 /\ File!Served.node = calls[m].node
        /\ calls[m].want = "left" => File!Served.want = "right"
        /\ calls[m].want = "right" => File!Served.want = "close"
        /\ calls[m].want \in {"left", "right"}
    BY <1>3, <1>5, ServedRight DEF m
  <2>2. calls'[1].want = "done" /\ calls'[1] = calls[1]
    BY <1>1, <1>2, <2>1 DEF CallsInv, m
  <2>3. \A i \in 2 .. m : /\ calls'[i].node = calls[i].node
                          /\ \/ calls'[i].want = calls[i].want
                             \/ i = m /\ calls[i].want = "left" /\ calls'[i].want = "right"
                             \/ i = m /\ calls[i].want = "right" /\ calls'[i].want = "close"
    BY <1>1, <1>2, <2>1
  <2>4. \A i \in 2 .. m :
           /\ calls[i].node \in 1..N
           /\ calls[i].want \in {"left", "right", "close"}
           /\ calls[i].want = "left" => Child(calls[i].node, "left") = NULL
           /\ calls[i].want # "close" => Child(calls[i].node, "right") = NULL
    BY DEF CallsInv, m
  <2>5. \A i, j \in 2 .. m : calls[i].node = calls[j].node => i = j
    BY DEF CallsInv, m
  <2>6. \A i \in 2 .. m :
           /\ calls'[i].node \in 1..N
           /\ calls'[i].want \in {"left", "right", "close"}
           /\ calls'[i].want = "left" => r_nodes'[calls'[i].node].left = NULL
           /\ calls'[i].want # "close" => r_nodes'[calls'[i].node].right = NULL
    <3>1. r_nodes' = r_nodes
      OBVIOUS
    <3> QED  BY ONLY <2>3, <2>4, <3>1 DEF Child
  <2>7. \A i, j \in 2 .. m : calls'[i].node = calls'[j].node => i = j
    BY ONLY <2>3, <2>5
  <2> QED  BY ONLY <1>1, <1>2, <2>2, <2>6, <2>7 DEF CallsInv, Child
<1> QED  BY <1>4, <1>5

LEMMA MakeCalls ==
  ASSUME CallsInv, TreeInvariant, Grown(File!Top.node, File!Top.want),
         calls' = File!Callers \o <<File!Served, File!Reads(N + 1, "left")>>,
         File!Top.want \in {"root", "left", "right"}
  PROVE  CallsInv'
<1> DEFINE m == Len(calls)
           p == File!Top.node
           side == File!Top.want
           new == File!Reads(N + 1, "left")
<1>1. m \in Nat /\ m >= 1 /\ N \in Nat /\ N' = N + 1
  BY DEF CallsInv, N, TreeInvariant, HeapTyped, Grown
<1>2. new \in Activation /\ new.node = N + 1 /\ new.want = "left"
  BY <1>1 DEF File!Reads, Activation
<1> HIDE DEF new
<1>3. /\ calls' \in Seq(Activation) /\ Len(calls') = m + 1
      /\ \A i \in 1 .. m - 1 : calls'[i] = calls[i]
      /\ calls'[m] = File!Served
      /\ calls'[m + 1] = new
  <2>1. File!Callers \in Seq(Activation) /\ Len(File!Callers) = m - 1 /\ File!Served \in Activation
        /\ \A i \in 1 .. m - 1 : File!Callers[i] = calls[i]
    BY ServedCall, ServedRight
  <2>2. calls' = File!Callers \o <<File!Served, new>>
    BY DEF new
  <2> HIDE DEF m
  <2> DEFINE c == File!Callers
  <2>3. /\ calls' \in Seq(Activation) /\ Len(calls') = Len(c) + 2
        /\ \A i \in 1 .. Len(c) : calls'[i] = c[i]
        /\ calls'[Len(c) + 1] = File!Served /\ calls'[Len(c) + 2] = new
    BY ONLY <1>2, <2>1, <2>2, TwoMore
  <2>4. Len(c) + 1 = m /\ Len(c) + 2 = m + 1
    BY ONLY <1>1, <2>1
  <2> QED  BY ONLY <2>1, <2>3, <2>4
<1>4. File!Top = calls[m] /\ m \in 1 .. m
  BY <1>1, ServedCall
<1>5. /\ \A s \in File!Sides : r_nodes'[N + 1][s] = NULL
      /\ \A u \in 1..N : \A s \in File!Sides :
            u # p \/ s # side => r_nodes'[u][s] = r_nodes[u][s]
  BY DEF Grown
<1>6. "left" \in File!Sides /\ "right" \in File!Sides
  BY DEF File!Sides
<1>7. calls'[m + 1].node \in 1..N+1 /\ calls'[m + 1].want = "left"
      /\ r_nodes'[N + 1].left = NULL /\ r_nodes'[N + 1].right = NULL
      /\ calls'[m + 1].node = N + 1
  BY <1>1, <1>2, <1>3, <1>5, <1>6
<1> HIDE DEF m
<1>8. CASE side = "root"
  <2>1. m = 1 /\ File!Served.want = "done" /\ N = 0
    BY <1>8, ServedRight DEF m, N
  <2>2. \A i \in 2 .. Len(calls') : i = m + 1
    BY <1>3, <2>1
  <2>3. calls'[1].want = "done" /\ Len(calls') = 2
    BY <1>3, <2>1
  <2> HIDE DEF new, p, side
  <2> QED  BY <1>1, <1>3, <1>7, <2>2, <2>3 DEF CallsInv, Child
<1>9. CASE side \in {"left", "right"}
  <2>1. /\ m >= 2 /\ File!Served.node = calls[m].node /\ p = calls[m].node
        /\ side = calls[m].want
        /\ side = "left" => File!Served.want = "right"
        /\ side = "right" => File!Served.want = "close"
    BY <1>4, <1>9, ServedRight DEF m
  <2> HIDE DEF p, side
  <2>2. calls'[1].want = "done" /\ calls'[1] = calls[1]
    <3>1. calls[1].want = "done" /\ 1 \in 1 .. m - 1
      <4>1. calls[1].want \in {"root", "done"} /\ calls[1].want # "root"
        BY <1>1, <2>1 DEF CallsInv, m
      <4> QED  BY ONLY <1>1, <2>1, <4>1
    <3> QED  BY ONLY <1>3, <3>1
  <2>3. \A i \in 2 .. m :
           /\ calls[i].node \in 1..N
           /\ calls[i].want \in {"left", "right", "close"}
           /\ calls[i].want = "left" => r_nodes[calls[i].node].left = NULL
           /\ calls[i].want # "close" => r_nodes[calls[i].node].right = NULL
    BY DEF CallsInv, m, Child
  <2>4. \A i, j \in 2 .. m : calls[i].node = calls[j].node => i = j
    BY DEF CallsInv, m
  <2>5. \A i \in 2 .. m : calls'[i].node = calls[i].node
    BY ONLY <1>1, <1>3, <2>1
  <2>6. ASSUME NEW i \in 2 .. m + 1
        PROVE  /\ calls'[i].node \in 1..N+1
               /\ calls'[i].want \in {"left", "right", "close"}
               /\ calls'[i].want = "left" => r_nodes'[calls'[i].node].left = NULL
               /\ calls'[i].want # "close" => r_nodes'[calls'[i].node].right = NULL
    <3>1. CASE i = m + 1
      BY <1>7, <3>1
    <3>2. CASE i = m
      <4>1. /\ calls'[i].node = p /\ p \in 1..N /\ m \in 2 .. m
            /\ side = "left" => calls'[i].want = "right"
            /\ side = "right" => calls'[i].want = "close"
        BY <1>1, <1>3, <2>1, <2>3, <3>2
      <4>2. side = "left" => r_nodes'[p].right = NULL
        <5>1. side = "left" => r_nodes'[p]["right"] = r_nodes[p]["right"]
          BY <1>5, <1>6, <4>1
        <5> QED  BY <2>1, <2>3, <4>1, <5>1
      <4> QED  BY ONLY <1>1, <1>9, <4>1, <4>2
    <3>3. CASE i \in 2 .. m - 1
      <4>1. i \in 2 .. m /\ calls'[i] = calls[i] /\ m \in 2 .. m /\ i # m
        BY <1>1, <1>3, <3>3, <2>1
      <4>2. calls[i].node # p /\ calls[i].node \in 1..N
        BY <2>1, <2>3, <2>4, <4>1
      <4>3. /\ r_nodes'[calls[i].node]["left"] = r_nodes[calls[i].node]["left"]
            /\ r_nodes'[calls[i].node]["right"] = r_nodes[calls[i].node]["right"]
        BY <1>5, <1>6, <4>2
      <4> QED  BY ONLY <1>1, <2>3, <4>1, <4>2, <4>3
    <3> QED  BY ONLY <1>1, <3>1, <3>2, <3>3
  <2>7. ASSUME NEW i \in 2 .. m + 1, NEW j \in 2 .. m + 1, calls'[i].node = calls'[j].node
        PROVE  i = j
    <3>1. \A k \in 2 .. m + 1 : k = m + 1 \/ (k \in 2 .. m /\ calls'[k].node \in 1..N)
      BY ONLY <1>1, <2>3, <2>5
    <3>2. calls'[m + 1].node \notin 1..N
      BY ONLY <1>1, <1>7
    <3> QED  BY ONLY <1>1, <2>4, <2>5, <2>7, <3>1, <3>2
  <2> QED  BY ONLY <1>1, <1>3, <2>2, <2>6, <2>7 DEF CallsInv, Child
<1> QED  BY <1>8, <1>9
-----------------------------------------------------------------------------
(* The invariant and the theorems. *)

LEMMA MakeKeeps ==
  ASSUME ReaderInv, File!WantsNode, NEW chunk, NEW scope, NEW inner,
         File!Make(chunk, scope, inner)
  PROVE  ReaderInv'
<1>1. /\ File!Top.want \in {"root", "left", "right"} /\ outcome = "written"
      /\ TreeInvariant /\ CallsInv
  BY DEF File!WantsNode, File!Reading, ReaderInv, TreeInvariant
<1>2. /\ r_nodes' = File!Hung([tok |-> chunk.tok, left |-> NULL, right |-> NULL,
                               scope |-> scope, inner |-> inner])
      /\ r_to_delete' = Append(r_to_delete, N + 1)
      /\ r_root' = IF File!Top.want = "root" THEN N + 1 ELSE r_root
      /\ calls' = File!Callers \o <<File!Served, File!Reads(N + 1, "left")>>
      /\ UNCHANGED <<r_freed, outcome>>
  BY DEF File!Make, N, NULL, File!NULL
<1>3. HeapTyped' /\ Grown(File!Top.node, File!Top.want)
  BY <1>1, <1>2, HungGrows DEF TreeInvariant
<1>4. TreeInvariant'
  BY <1>1, <1>3, GrownHangsTogether
<1>5. CallsInv'
  BY <1>1, <1>2, <1>3, MakeCalls
<1>6. N \in Nat /\ N' = N + 1
  BY <1>1, <1>3 DEF TreeInvariant, HeapTyped, Grown, N
<1>7. ListInv'
  <2>1. /\ r_freed = {} /\ r_to_delete \in Seq(Nat) /\ Len(r_to_delete) = N
        /\ \A i \in 1..N : r_to_delete[i] = i
    BY <1>1 DEF ReaderInv, ListInv
  <2>2. /\ r_to_delete' \in Seq(Nat) /\ Len(r_to_delete') = N + 1
        /\ \A i \in 1 .. N + 1 : r_to_delete'[i] = i
    BY ONLY <1>2, <1>6, <2>1
  <2> QED  BY <1>2, <1>6, <2>1, <2>2 DEF ListInv
<1>8. r_root' = 1 /\ r_nodes' # << >>
  <2>3. r_nodes' # << >>
    BY ONLY <1>6 DEF N
  <2>1. CASE File!Top.want = "root"
    <3>1. N = 0
      BY <1>1, <2>1, ServedRight DEF N
    <3> QED  BY ONLY <1>2, <2>3, <2>1, <3>1
  <2>2. CASE File!Top.want # "root"
    <3>1. Len(calls) \in 2 .. Len(calls) /\ File!Top = calls[Len(calls)]
      BY <1>1, <2>2, ServedRight, ServedCall DEF CallsInv
    <3>2. File!Top.node \in 1..N
      BY <1>1, <3>1 DEF CallsInv
    <3>3. r_nodes # << >>
      BY <3>2 DEF N
    <3> QED  BY <1>1, <1>2, <2>2, <2>3, <3>3 DEF ReaderInv
  <2> QED  BY <2>1, <2>2
<1>9. outcome' = "written" /\ RejectFreesRead'
  BY <1>1, <1>2 DEF RejectFreesRead
<1> QED  BY ONLY <1>4, <1>5, <1>7, <1>8, <1>9 DEF ReaderInv, TreeInvariant

(* A step that leaves the nodes and the lists alone. *)
NodesStay ==
  /\ UNCHANGED <<r_nodes, r_to_delete, r_freed, r_root>>
  /\ \/ outcome' = outcome
     \/ outcome = "none" /\ outcome' = "written"
     \/ outcome = "written" /\ outcome' = "aborted"

LEMMA NodesKept ==
  ASSUME ReaderInv, CallsInv', NodesStay
  PROVE  ReaderInv'
  BY DEF NodesStay, ReaderInv, HeapTyped, Forward, Once, Hanging, ListInv, RejectFreesRead, Child, N

LEMMA TreeInitInv == ASSUME TreeInit PROVE ReaderInv
<1>1. /\ calls = <<File!Reads(NULL, "root")>> /\ r_nodes = << >> /\ r_to_delete = << >>
      /\ r_freed = {} /\ outcome = "none" /\ r_root = NULL
  BY DEF TreeInit, File!Init, NULL, File!NULL
<1>2. N = 0 /\ r_nodes \in Seq(ReadNode({}))
  BY <1>1 DEF N
<1>3. Len(calls) = 1 /\ calls \in Seq(Activation) /\ calls[1].want = "root"
  <2>1. File!Reads(NULL, "root") \in Activation /\ File!Reads(NULL, "root").want = "root"
    BY DEF File!Reads, Activation, NULL
  <2> QED  BY <1>1, <2>1
<1>4. CallsInv
  BY <1>1, <1>3 DEF CallsInv
<1>5. HeapTyped /\ Forward /\ Once /\ Hanging
  BY <1>2 DEF HeapTyped, Forward, Once, Hanging
<1>6. ListInv /\ RejectFreesRead
  BY <1>1, <1>2 DEF ListInv, RejectFreesRead
<1> QED  BY <1>1, <1>4, <1>5, <1>6 DEF ReaderInv

LEMMA TreeStep == ASSUME ReaderInv, [TreeNext]_allVars PROVE ReaderInv'
<1>1. CASE UNCHANGED fileVars
  <2>1. CallsInv'
    BY <1>1 DEF ReaderInv, CallsInv, fileVars, Child, N
  <2>2. NodesStay
    BY <1>1 DEF NodesStay, fileVars
  <2> QED  BY <2>1, <2>2, NodesKept
<1>2. CASE WriteTree
  <2>1. /\ outcome = "none" /\ outcome' = "written"
        /\ UNCHANGED <<calls, r_nodes, r_to_delete, r_freed, r_root>>
    BY <1>2 DEF WriteTree, File!Write
  <2>2. CallsInv'
    BY <2>1 DEF ReaderInv, CallsInv, Child, N
  <2>3. NodesStay
    BY <2>1 DEF NodesStay
  <2> QED  BY <2>2, <2>3, NodesKept
<1>3. CASE File!OpenPlain
  BY <1>3, MakeKeeps DEF File!OpenPlain
<1>4. CASE File!OpenFunction
  BY <1>4, MakeKeeps DEF File!OpenFunction
<1>5. CASE File!OpenVariable
  BY <1>5, MakeKeeps DEF File!OpenVariable
<1>6. CASE File!Nil
  <2>1. /\ File!Top.want \in {"root", "left", "right"}
        /\ calls' = Append(File!Callers, File!Served)
        /\ UNCHANGED <<r_nodes, r_to_delete, r_freed, r_root, outcome>>
    BY <1>6 DEF File!Nil, File!WantsNode
  <2>2. CallsInv /\ N \in Nat
    BY DEF ReaderInv, HeapTyped, N
  <2>3. CallsInv'
    BY <2>1, <2>2, NilCalls
  <2>4. NodesStay
    BY <2>1 DEF NodesStay
  <2> QED  BY <2>3, <2>4, NodesKept
<1>7. CASE File!Close
  <2>1. /\ File!Top.want = "close" /\ calls' = File!Callers
        /\ UNCHANGED <<r_nodes, r_to_delete, r_freed, r_root, outcome>>
    BY <1>7 DEF File!Close
  <2>2. CallsInv'
    <3> DEFINE m == Len(calls)
    <3>1. /\ m \in Nat /\ m >= 1 /\ File!Top = calls[m] /\ m \in 1..m
          /\ calls' \in Seq(Activation) /\ Len(calls') = m - 1
          /\ \A i \in 1 .. m - 1 : calls'[i] = calls[i]
      BY <2>1, ServedCall DEF ReaderInv, CallsInv
    <3>2. /\ calls[1].want \in {"root", "done"}
          /\ \A i \in 2 .. m :
                /\ calls[i].node \in 1..N
                /\ calls[i].want \in {"left", "right", "close"}
                /\ calls[i].want = "left" => r_nodes[calls[i].node].left = NULL
                /\ calls[i].want # "close" => r_nodes[calls[i].node].right = NULL
          /\ \A i, j \in 2 .. m : calls[i].node = calls[j].node => i = j
          /\ calls[1].want = "root" => r_nodes = << >> /\ m = 1
      BY DEF ReaderInv, CallsInv, Child
    <3> HIDE DEF m
    <3>3. m >= 2
      BY ONLY <2>1, <3>1, <3>2
    <3>4. r_nodes' = r_nodes /\ N' = N
      BY <2>1 DEF N
    <3>5. 1 \in 1 .. m - 1 /\ calls[1].want # "root"
      BY ONLY <3>1, <3>2, <3>3
    <3>6. calls'[1].want = "done" /\ Len(calls') >= 1
      BY ONLY <3>1, <3>2, <3>3, <3>5
    <3>7. \A i \in 2 .. m - 1 :
             /\ calls'[i] = calls[i] /\ i \in 2 .. m
      BY ONLY <3>1
    <3>8. \A i \in 2 .. m - 1 :
             /\ calls'[i].node \in 1..N
             /\ calls'[i].want \in {"left", "right", "close"}
             /\ calls'[i].want = "left" => r_nodes[calls'[i].node].left = NULL
             /\ calls'[i].want # "close" => r_nodes[calls'[i].node].right = NULL
      BY ONLY <3>2, <3>7
    <3>9. \A i, j \in 2 .. m - 1 : calls'[i].node = calls'[j].node => i = j
      BY ONLY <3>2, <3>7
    <3> QED  BY ONLY <3>1, <3>4, <3>6, <3>8, <3>9 DEF CallsInv, Child
  <2>3. NodesStay
    BY <2>1 DEF NodesStay
  <2> QED  BY <2>2, <2>3, NodesKept
<1>8. CASE File!Finish
  <2>1. /\ outcome' = "read" /\ r_to_delete' = << >>
        /\ UNCHANGED <<calls, r_nodes, r_freed, r_root>> /\ outcome = "written"
    BY <1>8 DEF File!Finish, File!Reading
  <2> QED  BY <2>1 DEF ReaderInv, CallsInv, HeapTyped, Forward, Once, Hanging, ListInv,
                       RejectFreesRead, Child, N
<1>9. CASE File!Reject
  <2>1. /\ outcome' = "rejected" /\ outcome = "written"
        /\ UNCHANGED <<calls, r_nodes>>
        /\ r_freed' = r_freed \cup {r_to_delete[i] : i \in 1..Len(r_to_delete)}
    BY <1>9 DEF File!Reject, File!Reading
  <2>2. r_freed' = 1 .. N
    BY <2>1 DEF ReaderInv, ListInv
  <2>3. CallsInv' /\ HeapTyped' /\ Forward' /\ Once' /\ Hanging'
    BY <2>1 DEF ReaderInv, CallsInv, HeapTyped, Forward, Once, Hanging, Child, N
  <2>4. ListInv' /\ RejectFreesRead'
    BY <2>1, <2>2 DEF ListInv, RejectFreesRead, N
  <2> QED  BY <2>1, <2>3, <2>4 DEF ReaderInv
<1>10. CASE File!Overrun
  <2>1. /\ outcome' = "aborted" /\ outcome = "written"
        /\ UNCHANGED <<calls, r_nodes, r_to_delete, r_freed, r_root>>
    BY <1>10 DEF File!Overrun, File!Reading
  <2>2. CallsInv'
    BY <2>1 DEF ReaderInv, CallsInv, Child, N
  <2>3. NodesStay
    BY <2>1 DEF NodesStay
  <2> QED  BY <2>2, <2>3, NodesKept
<1> QED
  BY <1>1, <1>2, <1>3, <1>4, <1>5, <1>6, <1>7, <1>8, <1>9, <1>10
     DEF TreeNext, Analyze, ReadTree, File!Read, allVars

THEOREM TreeReaderInv == TreeSpec => []ReaderInv
  BY TreeInitInv, TreeStep, PTL DEF TreeSpec

(* A file that is no tree leaves no node behind: whatever the analyzer has  *)
(* written and wherever the file breaks off, every node that was read has  *)
(* been freed when fread_infix gives up.                                   *)
THEOREM TreeRejectFreesRead == TreeSpec => []RejectFreesRead
<1>1. ReaderInv => RejectFreesRead
  BY DEF ReaderInv
<1> QED  BY <1>1, TreeReaderInv, PTL

(* Whatever is in the file, the nodes that fread_node_infix_ has made are   *)
(* at any time one tree below its root: each in one place, behind its      *)
(* parent, so that ast::dtor comes to every node once.                     *)
THEOREM TreeReadHangsTogether == TreeSpec => []ReadHangsTogether
<1>1. ASSUME ReaderInv PROVE ReadHangsTogether
  <2>1. \A v : File!Places(v) =
                 {p \in (1..N) \X File!Sides : Child(p[1], p[2]) = v}
    BY DEF File!Places, Child, N
  <2>2. ASSUME NEW v \in 1..N
        PROVE  /\ \A p, q \in File!Places(v) : p = q
               /\ \A p \in File!Places(v) : p[1] < v
               /\ v # 1 => File!Places(v) # {}
    <3>1. N \in Nat /\ v # NULL
      BY <1>1 DEF ReaderInv, HeapTyped, N, NULL
    <3>2. ASSUME NEW p \in File!Places(v), NEW q \in File!Places(v) PROVE p = q
      <4>1. PICK u1 \in 1..N, s1 \in File!Sides : p = <<u1, s1>> /\ Child(u1, s1) = v
        BY <2>1
      <4>2. PICK u2 \in 1..N, s2 \in File!Sides : q = <<u2, s2>> /\ Child(u2, s2) = v
        BY <2>1
      <4> QED  BY <1>1, <3>1, <4>1, <4>2 DEF ReaderInv, Once
    <3>3. ASSUME NEW p \in File!Places(v) PROVE p[1] < v
      <4>1. PICK u \in 1..N, s \in File!Sides : p = <<u, s>> /\ Child(u, s) = v
        BY <2>1
      <4>2. v \in u+1 .. N
        BY <1>1, <3>1, <4>1 DEF ReaderInv, Forward
      <4> QED  BY <3>1, <4>1, <4>2
    <3>4. ASSUME v # 1 PROVE File!Places(v) # {}
      <4>1. PICK u \in 1..N, s \in File!Sides : Child(u, s) = v
        BY <1>1, <3>1, <3>4 DEF ReaderInv, Hanging
      <4>2. <<u, s>> \in File!Places(v)
        BY <2>1, <4>1
      <4> QED  BY <4>2
    <3> QED  BY <3>2, <3>3, <3>4
  <2> QED  BY <1>1, <2>2 DEF ReadHangsTogether, File!HangsTogether, ReaderInv, N
<1> QED  BY <1>1, TreeReaderInv, PTL
-----------------------------------------------------------------------------
(* What is written. *)

Part(text, child, nil) == IF child # NULL THEN text[child] ELSE <<nil>>

(* The chunks of a node: its own, those of its children, the last one.     *)
Chunks(text, v) ==
  \E type : text[v] = <<File!Open(nodes[v].tok, type)>>
                        \o Part(text, nodes[v].left, File!NilLeft)
                        \o Part(text, nodes[v].right, File!NilRight)
                        \o <<File!Shut>>

TextOf(text) ==
  /\ \E C : text \in [1..Len(nodes) -> Seq(C)]
  /\ \A v \in 1..Len(nodes) : Chunks(text, v)

(* Without circles in the tree, fwrite_node_ comes to an end below every    *)
(* node.                                                                   *)
LEMMA TextExists ==
  ASSUME TypeOK, Trees
  PROVE  TextOf(File!NodeText(nodes, envs))
<1>1. PICK tree, rank0 : \E R \in Nat : Ranked(tree, rank0, R) /\ Rooted(tree)
  BY DEF Trees
<1>2. PICK R \in Nat : Ranked(tree, rank0, R)
  BY <1>1
<1> DEFINE D == 1..Len(nodes)
           type(node) == IF node.tok \in Names
                         THEN File!SymbolAt(envs[node.scope + 1], node.inner).type
                         ELSE "NONE"
           open(v) == File!Open(nodes[v].tok, type(nodes[v]))
           val(v, f) == <<open(v)>>
                          \o (IF nodes[v].left # NULL THEN f[nodes[v].left] ELSE <<File!NilLeft>>)
                          \o (IF nodes[v].right # NULL THEN f[nodes[v].right] ELSE <<File!NilRight>>)
                          \o <<File!Shut>>
           C == {open(v) : v \in D} \cup {File!NilLeft, File!NilRight, File!Shut}
           S == Seq(C)
           step == [p \in D \X [D -> S] |-> val(p[1], p[2])]
<1>3. rank0 \in [D -> 0..R]
  BY <1>2 DEF Ranked
<1>4. \A v \in D : \A c \in {nodes[v].left, nodes[v].right} :
         c # NULL => c \in D /\ rank0[c] < rank0[v]
  <2>1. Len(nodes) \in Nat /\ \A v \in D : nodes[v] \in Nodes(Len(nodes))
    BY ElementOfSeq DEF TypeOK, HeapOK
  <2>2. \A c \in 0..Len(nodes) : c # NULL => c \in D
    BY <2>1 DEF NULL
  <2> QED  BY <1>2, <2>1, <2>2 DEF Nodes, Ranked
<1>5. ASSUME NEW v \in D, NEW f \in [D -> S] PROVE val(v, f) \in S
  <2> DEFINE l == IF nodes[v].left # NULL THEN f[nodes[v].left] ELSE <<File!NilLeft>>
             r == IF nodes[v].right # NULL THEN f[nodes[v].right] ELSE <<File!NilRight>>
  <2>1. <<open(v)>> \in S /\ <<File!Shut>> \in S /\ <<File!NilLeft>> \in S /\ <<File!NilRight>> \in S
    <3>1. open(v) \in C /\ File!Shut \in C /\ File!NilLeft \in C /\ File!NilRight \in C
      OBVIOUS
    <3> HIDE DEF C, open
    <3> QED  BY <3>1
  <2>2. l \in S /\ r \in S
    <3> HIDE DEF S
    <3> QED  BY <1>4, <2>1
  <2> HIDE DEF l, r, C, open
  <2>3. <<open(v)>> \o l \o r \o <<File!Shut>> \in S
    BY <2>1, <2>2
  <2> QED  BY <2>3 DEF l, r
<1>6. ASSUME NEW v \in D, NEW f, NEW g, \A u \in D : rank0[u] < rank0[v] => f[u] = g[u]
      PROVE  val(v, f) = val(v, g)
  <2>1. /\ nodes[v].left # NULL => f[nodes[v].left] = g[nodes[v].left]
        /\ nodes[v].right # NULL => f[nodes[v].right] = g[nodes[v].right]
    BY <1>4, <1>6
  <2> HIDE DEF open
  <2> QED  BY <2>1
<1>7. PICK f \in [D -> S] : \A v \in D : f[v] = val(v, f)
  <2>1. << >> \in S
    OBVIOUS
  <2> HIDE DEF D, S, val
  <2>2. /\ step \in [D \X [D -> S] -> S]
        /\ \A v \in D : \A g \in [D -> S] : step[<<v, g>>] = val(v, g)
    BY <1>5
  <2> HIDE DEF step
  <2>3. RecursionOver(D, S, R, rank0, step)
    BY <1>2, <1>3, <1>6, <2>1, <2>2 DEF RecursionOver
  <2>4. \E g \in [D -> S] : \A v \in D : g[v] = step[<<v, g>>]
    BY <2>3, Recursion
  <2> QED  BY <2>2, <2>4
<1> DEFINE text == CHOOSE h : h = [v \in D |-> val(v, h)]
<1>8. text = [v \in D |-> val(v, text)]
  <2>1. f = [v \in D |-> val(v, f)]
    <3> HIDE DEF val, S, D
    <3> QED  BY <1>7
  <2> HIDE DEF val, D
  <2> QED  BY ONLY <2>1
<1>9. File!NodeText(nodes, envs) = text
  BY DEF File!NodeText, File!NULL, NULL
<1> HIDE DEF text
<1>10. text = f
  <2> DEFINE G == {v \in D : text[v] = f[v]}
  <2>1. \A v \in D : text[v] = val(v, text) /\ f[v] = val(v, f)
    <3> HIDE DEF val, D
    <3> QED  BY <1>7, <1>8
  <2> HIDE DEF val
  <2>2. \A v \in D : (\A u \in D : rank0[u] < rank0[v] => u \in G) => v \in G
    BY <1>6, <2>1
  <2>3. \A v \in D : v \in G
    <3> HIDE DEF G, D
    <3> QED  BY <1>2, <1>3, <2>2, RankInduction
  <2>4. DOMAIN text = D /\ DOMAIN f = D
    <3> HIDE DEF D, S
    <3> QED  BY <1>7, <1>8
  <2> HIDE DEF S, D
  <2> QED  BY <1>7, <1>8, <2>3
<1> QED
  <2>1. \A v \in D : f[v] = val(v, f)
    BY <1>7
  <2>2. \A v \in D : Chunks(f, v)
    <3> HIDE DEF type
    <3> QED  BY <2>1 DEF Chunks, Part
  <2>3. \E K : f \in [1..Len(nodes) -> Seq(K)]
    <3> HIDE DEF C
    <3> QED  BY <1>7
  <2> QED  BY <1>9, <1>10, <2>2, <2>3 DEF TextOf
(* Its own chunk stands before those of its children.                      *)
LEMMA TextLayout ==
  ASSUME NEW text, TextOf(text), NEW v \in 1..Len(nodes),
         nodes[v].left \in 0..Len(nodes), nodes[v].right \in 0..Len(nodes)
  PROVE  LET l == Part(text, nodes[v].left, File!NilLeft)
             r == Part(text, nodes[v].right, File!NilRight) IN
         /\ Len(l) \in Nat /\ Len(r) \in Nat /\ Len(text[v]) = 2 + Len(l) + Len(r)
         /\ text[v][1].kind = "open" /\ text[v][1].tok = nodes[v].tok
         /\ \A j \in 1..Len(l) : text[v][1 + j] = l[j]
         /\ \A j \in 1..Len(r) : text[v][1 + Len(l) + j] = r[j]
<1> DEFINE l == Part(text, nodes[v].left, File!NilLeft)
           r == Part(text, nodes[v].right, File!NilRight)
<1>1. PICK C : text \in [1..Len(nodes) -> Seq(C)]
  BY DEF TextOf
<1>2. PICK type : text[v] = <<File!Open(nodes[v].tok, type)>> \o l \o r \o <<File!Shut>>
  BY DEF TextOf, Chunks
<1> DEFINE open == File!Open(nodes[v].tok, type)
           E == C \cup {open, File!NilLeft, File!NilRight, File!Shut}
<1>3. l \in Seq(E) /\ r \in Seq(E)
  <2>1. \A u \in 1..Len(nodes) : text[u] \in Seq(C)
    BY <1>1
  <2>2. \A u \in 1..Len(nodes) : text[u] \in Seq(E)
    BY <2>1, WiderSequence
  <2>3. <<File!NilLeft>> \in Seq(E) /\ <<File!NilRight>> \in Seq(E)
    <3>1. File!NilLeft \in E /\ File!NilRight \in E
      OBVIOUS
    <3> HIDE DEF E
    <3> QED  BY <3>1
  <2>4. \A c \in 0..Len(nodes) : c # NULL => c \in 1..Len(nodes)
    BY DEF NULL
  <2> QED  BY <2>2, <2>3, <2>4 DEF Part
<1>4. open \in E /\ File!Shut \in E /\ open.kind = "open" /\ open.tok = nodes[v].tok
  BY DEF File!Open
<1> HIDE DEF l, r, open, E
<1> DEFINE Laid(t, a, x, y) ==
             /\ Len(x) \in Nat /\ Len(y) \in Nat /\ Len(t) = 2 + Len(x) + Len(y)
             /\ t[1] = a
             /\ \A j \in 1..Len(x) : t[1 + j] = x[j]
             /\ \A j \in 1..Len(y) : t[1 + Len(x) + j] = y[j]
<1>5. \A a, b \in E : \A x, y \in Seq(E) : Laid(<<a>> \o x \o y \o <<b>>, a, x, y)
  OBVIOUS
<1>6. text[v] = <<open>> \o l \o r \o <<File!Shut>>
  BY <1>2 DEF open
<1>7. Laid(text[v], open, l, r)
  <2> HIDE DEF Laid
  <2> QED  BY ONLY <1>3, <1>4, <1>5, <1>6
<1> QED  BY <1>4, <1>7 DEF l, r

-----------------------------------------------------------------------------
(* The writer. *)

Accepted ==
  status = "accepted" => root \in 1..Len(nodes) /\ Program \in 1..Len(nodes)

WriterInv == IInv /\ Owned /\ Trees /\ Accepted

LEMMA WriterInitially == Init => WriterInv
<1>1. Init => Accepted
  BY DEF Init, Accepted
<1> QED  BY <1>1, Initially, OwnedInitially, TreesInitially DEF WriterInv

(* A tree that has been accepted stays as it is.                           *)
LEMMA WriterStep ==
  ASSUME WriterInv, [Next]_vars
  PROVE  /\ WriterInv'
         /\ status # "running" => status' # "running" /\ UNCHANGED <<nodes, envs, root>>
<1>1. IInv' /\ Owned' /\ Trees'
  BY Inductive, OwnedInductive, TreesInductive DEF WriterInv, Owned
<1>2. CASE Ordinary
  BY <1>1, <1>2 DEF Ordinary, Moved, Accepted, WriterInv
<1>3. CASE Accept
  <2>1. /\ status = "running" /\ root' = Len(nodes) + 1 /\ ret # NULL
        /\ nodes' = Append(nodes, Node("FAKE", ret, NULL))
    BY <1>3 DEF Accept, At, Running
  <2>2. nodes \in Seq(Nodes(Len(nodes))) /\ Len(nodes) \in Nat /\ ret \in 0..Len(nodes)
    BY DEF WriterInv, IInv, TypeOK, HeapOK, StackOK, Refs
  <2>3. Len(nodes') = Len(nodes) + 1 /\ nodes'[Len(nodes) + 1] = Node("FAKE", ret, NULL)
    BY <2>1, <2>2, AppendProperties
  <2>4. Program' = ret /\ ret \in 1..Len(nodes') /\ root' \in 1..Len(nodes')
    BY <2>1, <2>2, <2>3 DEF Program, Node, NULL
  <2> QED  BY <1>1, <2>1, <2>4 DEF Accepted, WriterInv
<1>4. CASE Reject
  BY <1>1, <1>4 DEF Reject, At, Running, Accepted, WriterInv
<1>5. CASE Abort
  BY <1>1, <1>5 DEF Abort, heap, tables, Accepted, WriterInv
<1>6. CASE UNCHANGED vars
  BY <1>1, <1>6 DEF vars, heap, tables, Accepted, WriterInv, Program
<1> QED  BY <1>2, <1>3, <1>4, <1>5, <1>6, Steps DEF WriterInv
-----------------------------------------------------------------------------
(* The file, the position in it, and the environments of the reader.       *)

Kinds == {"open", "nil", "nil ", ")"}

(* What is whole in the file has its place in the text.                    *)
FileFrom(full) ==
  /\ \E C : file \in Seq(C)
  /\ \A i \in 1..Len(file) :
        file[i].kind # "torn" => i \in 1..Len(full) /\ file[i] = full[i]

WrittenBy(text) == TextOf(text) /\ Program \in 1..Len(nodes) /\ FileFrom(text[Program])

PositionInv ==
  /\ buf_pos \in 0 .. Len(file)
  /\ buf_pos # 0 => file[buf_pos].kind \in Kinds

EnvsInv == (\E X : r_envs \in Seq(X)) /\ r_current_env_id = Len(r_envs) - 1

FreedInv ==
  /\ outcome # "rejected" => r_freed = {}
  /\ outcome = "rejected" => r_root = NULL

FileInv ==
  /\ outcome \in {"none", "written", "read", "rejected", "aborted"}
  /\ outcome = "none" => file = << >> /\ buf_pos = 0
  /\ outcome # "none" => status # "running" /\ \E text : WrittenBy(text)
  /\ PositionInv /\ EnvsInv /\ FreedInv

(* Only a chunk that is there and whole is taken for one that begins a node *)
(* or says that there is none.                                             *)
LEMMA AheadChunk ==
  ASSUME PositionInv, NEW C, file \in Seq(C)
  PROVE  /\ File!Ahead \in {"open", "nil", "nil "} => buf_pos < Len(file)
         /\ buf_pos < Len(file) => File!Ahead = file[buf_pos + 1].kind
<1>1. buf_pos \in 0 .. Len(file) /\ Len(file) \in Nat
  BY DEF PositionInv
<1>2. CASE buf_pos < Len(file)
  BY <1>2 DEF File!Ahead
<1>3. CASE file = << >>
  BY <1>1, <1>3 DEF File!Ahead
<1>4. CASE ~(buf_pos < Len(file)) /\ file # << >>
  <2>1. file[buf_pos].kind \in Kinds
    BY <1>1, <1>4 DEF PositionInv
  <2>2. File!Ahead \in {"outside", ")", "space"}
    BY <1>4, <2>1 DEF File!Ahead, Kinds
  <2> QED  BY <1>4, <2>2
<1> QED  BY <1>2, <1>3, <1>4

(* The file that is written, or what a full disk leaves of it.             *)
LEMMA WrittenFile ==
  ASSUME WriterInv, WriteTree
  PROVE  WrittenBy(File!NodeText(nodes, envs))'
<1> DEFINE text == File!NodeText(nodes, envs)
           full == text[Program]
<1>1. TextOf(text) /\ Program \in 1..Len(nodes)
  BY TextExists DEF WriterInv, IInv, WriteTree, Accepted
<1>2. UNCHANGED <<nodes, envs, root>>
  BY DEF WriteTree, vars, heap, tables
<1>3. \/ file' = full
      \/ \E n \in 0 .. Len(full) - 1 : file' = SubSeq(full, 1, n)
      \/ \E n \in 0 .. Len(full) - 1 : file' = Append(SubSeq(full, 1, n), File!Torn)
  BY DEF WriteTree, File!Write, Program
<1> HIDE DEF text
<1>4. PICK C : full \in Seq(C)
  BY <1>1 DEF TextOf
<1> DEFINE E == C \cup {File!Torn}
<1> HIDE DEF full
<1>5. full \in Seq(E) /\ Len(full) \in Nat
  BY <1>4, WiderSequence
<1>6. File!Torn \in E /\ File!Torn.kind = "torn"
  BY DEF File!Torn, File!Mark
<1> HIDE DEF E
<1>7. ASSUME NEW n \in 0 .. Len(full) - 1
      PROVE  /\ SubSeq(full, 1, n) \in Seq(E) /\ Len(SubSeq(full, 1, n)) = n
             /\ \A i \in 1..n : SubSeq(full, 1, n)[i] = full[i] /\ i \in 1..Len(full)
  BY <1>5
<1>8. /\ file' \in Seq(E)
      /\ \A i \in 1..Len(file') :
            file'[i].kind # "torn" => i \in 1..Len(full) /\ file'[i] = full[i]
  <2>1. CASE file' = full
    BY <1>5, <2>1
  <2>2. ASSUME NEW n \in 0 .. Len(full) - 1, file' = SubSeq(full, 1, n)
        PROVE  <1>8!1 /\ <1>8!2
    BY <1>7, <2>2
  <2>3. ASSUME NEW n \in 0 .. Len(full) - 1, file' = Append(SubSeq(full, 1, n), File!Torn)
        PROVE  <1>8!1 /\ <1>8!2
    <3>1. /\ file' \in Seq(E) /\ Len(file') = n + 1 /\ file'[n + 1] = File!Torn
          /\ \A i \in 1..n : file'[i] = SubSeq(full, 1, n)[i]
      BY <1>6, <1>7, <2>3, AppendProperties
    <3>2. \A i \in 1..Len(file') : i \in 1..n \/ i = n + 1
      BY <3>1
    <3> QED  BY <1>6, <1>7, <3>1, <3>2
  <2> QED  BY <1>3, <2>1, <2>2, <2>3
<1>9. TextOf(text)'
  <2>1. PICK t : t = text
    OBVIOUS
  <2>2. TextOf(t)'
    BY <1>1, <1>2, <2>1 DEF TextOf, Chunks
  <2>3. text' = t
    BY <1>2, <2>1 DEF text
  <2> QED  BY <2>2, <2>3
<1> QED
  <2>1. Program' = Program /\ text' = text
    BY <1>2 DEF Program, text
  <2> QED  BY <1>1, <1>2, <1>8, <1>9, <2>1 DEF WrittenBy, FileFrom, full, text
(* A chunk has been read.                                                  *)
LEMMA PositionMoves ==
  ASSUME FileInv, File!Reading, UNCHANGED file, buf_pos' = buf_pos + 1,
         File!Ahead \in Kinds, File!Ahead = ")" => buf_pos < Len(file)
  PROVE  PositionInv'
<1>1. PICK text : FileFrom(text)
  BY DEF FileInv, File!Reading, WrittenBy
<1>2. PICK C : file \in Seq(C)
  BY <1>1 DEF FileFrom
<1>3. buf_pos < Len(file) /\ File!Ahead = file[buf_pos + 1].kind
  BY <1>2, AheadChunk DEF FileInv, Kinds
<1>4. buf_pos' \in 0 .. Len(file') /\ file'[buf_pos'].kind = File!Ahead
  <2>1. buf_pos \in 0 .. Len(file) /\ Len(file) \in Nat
    BY <1>2 DEF FileInv, PositionInv
  <2> QED  BY <1>3, <2>1
<1> QED  BY <1>4 DEF PositionInv

LEMMA FileStep ==
  ASSUME WriterInv, FileInv, [TreeNext]_allVars
  PROVE  FileInv'
<1>1. ASSUME outcome # "none", outcome' # "none", UNCHANGED <<vars, file>>
      PROVE  status' # "running" /\ \E text : WrittenBy(text)'
  <2>1. PICK text : WrittenBy(text)
    BY <1>1 DEF FileInv
  <2>2. WrittenBy(text)'
    BY <1>1, <2>1 DEF WrittenBy, TextOf, Chunks, FileFrom, Program, vars, heap
  <2> QED  BY <1>1, <2>2 DEF FileInv, vars
<1>2. CASE UNCHANGED fileVars /\ [Next]_vars
  <2>1. /\ status # "running" => status' # "running" /\ UNCHANGED <<nodes, envs, root>>
    BY <1>2, WriterStep
  <2>2. ASSUME outcome # "none" PROVE status' # "running" /\ \E text : WrittenBy(text)'
    <3>1. PICK text : WrittenBy(text)
      BY <2>2 DEF FileInv
    <3>2. WrittenBy(text)'
      BY <1>2, <2>1, <2>2, <3>1
         DEF FileInv, WrittenBy, TextOf, Chunks, FileFrom, Program, fileVars
    <3> QED  BY <2>1, <2>2, <3>2 DEF FileInv
  <2> QED  BY <1>2, <2>2 DEF FileInv, PositionInv, EnvsInv, FreedInv, fileVars
<1>3. CASE WriteTree
  <2>1. /\ outcome = "none" /\ outcome' = "written" /\ status' = "accepted"
        /\ UNCHANGED <<buf_pos, r_freed, r_root, r_envs, r_current_env_id>>
    BY <1>3 DEF WriteTree, File!Write, vars
  <2>2. \E text : WrittenBy(text)'
    BY <1>3, WrittenFile
  <2>3. PositionInv'
    <3>1. PICK text : WrittenBy(text)'
      BY <2>2
    <3>2. Len(file') \in Nat
      BY <3>1 DEF WrittenBy, FileFrom
    <3> QED  BY <2>1, <3>2 DEF FileInv, PositionInv
  <2> QED  BY <2>1, <2>2, <2>3 DEF FileInv, EnvsInv, FreedInv
<1>4. ASSUME File!WantsNode, NEW chunk, NEW scope, NEW inner, File!Make(chunk, scope, inner),
             File!Ahead = "open", UNCHANGED vars, EnvsInv'
      PROVE  FileInv'
  <2>1. /\ File!Reading /\ outcome = "written" /\ buf_pos' = buf_pos + 1
        /\ UNCHANGED <<file, r_freed, outcome>>
    BY <1>4 DEF File!WantsNode, File!Reading, File!Make
  <2>2. PositionInv'
    BY <1>4, <2>1, PositionMoves DEF Kinds
  <2> QED  BY <1>1, <1>4, <2>1, <2>2 DEF FileInv, FreedInv
<1>5. CASE File!OpenPlain /\ UNCHANGED vars
  BY <1>4, <1>5 DEF File!OpenPlain, FileInv, EnvsInv
<1>6. PICK X : r_envs \in Seq(X)
  BY DEF FileInv, EnvsInv
<1>7. CASE File!OpenFunction /\ UNCHANGED vars
  <2> DEFINE new == File!NewEnv(file[buf_pos + 1].tok)
             Y == X \cup {new}
  <2>1. r_envs' = Append(r_envs, new) /\ r_current_env_id' = Len(r_envs)
    BY <1>7 DEF File!OpenFunction, File!NewEnvId
  <2>2. new \in Y /\ r_envs \in Seq(Y)
    BY <1>6, WiderSequence
  <2> HIDE DEF new, Y
  <2>3. EnvsInv'
    BY <2>1, <2>2, AppendProperties DEF EnvsInv
  <2> QED  BY <1>4, <1>7, <2>3 DEF File!OpenFunction
<1>8. CASE File!OpenVariable /\ UNCHANGED vars
  <2> DEFINE k == r_current_env_id + 1
             new == File!AddSymbol(r_envs[k], [str |-> file[buf_pos + 1].tok,
                                               type |-> file[buf_pos + 1].type])
             Y == X \cup {new}
  <2>1. r_envs' = [r_envs EXCEPT ![k] = new] /\ UNCHANGED r_current_env_id
    BY <1>8 DEF File!OpenVariable
  <2>2. new \in Y /\ r_envs \in Seq(Y)
    BY <1>6, WiderSequence
  <2> HIDE DEF new, k, Y
  <2>3. r_envs' \in Seq(Y) /\ Len(r_envs') = Len(r_envs)
    <3> DEFINE t == [j \in 1..Len(r_envs) |-> IF j = k THEN new ELSE r_envs[j]]
    <3>1. t \in Seq(Y) /\ Len(t) = Len(r_envs)
      BY <2>2
    <3>2. DOMAIN r_envs = 1..Len(r_envs)
      BY <2>2
    <3>3. r_envs' = t
      BY <2>1, <3>2
    <3> QED  BY <3>1, <3>3
  <2>4. EnvsInv'
    BY <2>1, <2>3 DEF EnvsInv, FileInv
  <2> QED  BY <1>4, <1>8, <2>4 DEF File!OpenVariable
<1>9. CASE File!Nil /\ UNCHANGED vars
  <2>1. /\ File!Reading /\ outcome = "written" /\ buf_pos' = buf_pos + 1
        /\ File!Ahead \in {"nil", "nil "}
        /\ UNCHANGED <<file, r_freed, r_root, r_envs, r_current_env_id, outcome>>
    BY <1>9 DEF File!Nil, File!WantsNode, File!Reading
  <2>2. PositionInv'
    BY <2>1, PositionMoves DEF Kinds
  <2> QED  BY <1>1, <1>9, <2>1, <2>2 DEF FileInv, FreedInv, EnvsInv
<1>10. CASE File!Close /\ UNCHANGED vars
  <2>1. /\ File!Reading /\ outcome = "written" /\ File!Ahead = ")"
        /\ buf_pos' = IF buf_pos < Len(file) THEN buf_pos + 1 ELSE buf_pos
        /\ UNCHANGED <<file, r_freed, r_root, r_envs, r_current_env_id, outcome>>
    BY <1>10 DEF File!Close, File!Reading
  <2>2. PositionInv'
    <3>1. CASE buf_pos < Len(file)
      BY <2>1, <3>1, PositionMoves DEF Kinds
    <3>2. CASE ~(buf_pos < Len(file))
      BY <2>1, <3>2 DEF FileInv, PositionInv
    <3> QED  BY <3>1, <3>2
  <2> QED  BY <1>1, <1>10, <2>1, <2>2 DEF FileInv, FreedInv, EnvsInv
<1>11. CASE (File!Finish \/ File!Reject \/ File!Overrun) /\ UNCHANGED vars
  <2>1. /\ outcome = "written" /\ outcome' \in {"read", "rejected", "aborted"}
        /\ UNCHANGED <<file, buf_pos, r_envs, r_current_env_id>>
        /\ outcome' = "rejected" => r_root' = NULL
        /\ outcome' # "rejected" => UNCHANGED r_freed
    BY <1>11 DEF File!Finish, File!Reject, File!Overrun, File!Reading, File!NULL, NULL
  <2> QED  BY <1>1, <1>11, <2>1 DEF FileInv, FreedInv, EnvsInv, PositionInv
<1> QED
  BY <1>2, <1>3, <1>5, <1>7, <1>8, <1>9, <1>10, <1>11
     DEF TreeNext, Analyze, ReadTree, File!Read, allVars

LEMMA FileInitially == TreeInit => FileInv
<1> SUFFICES ASSUME TreeInit PROVE FileInv
  OBVIOUS
<1>1. /\ file = << >> /\ buf_pos = 0 /\ outcome = "none" /\ r_freed = {}
      /\ r_envs = << >> /\ r_current_env_id = -1
  BY DEF TreeInit, File!Init, File!NoEnv
<1>2. Len(file) = 0 /\ r_envs \in Seq({}) /\ Len(r_envs) = 0
  BY <1>1
<1> QED  BY <1>1, <1>2 DEF FileInv, PositionInv, EnvsInv, FreedInv

LEMMA TreeFileInv == TreeSpec => [](WriterInv /\ ReaderInv /\ FileInv)
<1>1. TreeInit => WriterInv /\ ReaderInv /\ FileInv
  BY WriterInitially, TreeInitInv, FileInitially DEF TreeInit
<1>2. WriterInv /\ ReaderInv /\ FileInv /\ [TreeNext]_allVars
        => (WriterInv /\ ReaderInv /\ FileInv)'
  <2>1. [TreeNext]_allVars => [Next]_vars
    BY DEF TreeNext, Analyze, WriteTree, ReadTree, allVars
  <2> QED  BY <2>1, WriterStep, TreeStep, FileStep
<1> QED  BY <1>1, <1>2, PTL DEF TreeSpec

(* Whatever the analyzer has written and wherever the file breaks off, the  *)
(* reader's position stays within the file, its activations and pointers   *)
(* lead to nodes that it has made, and the environment it puts names into  *)
(* is the last one (ast.cpp, fread_node_infix_ and scan_token_).           *)
THEOREM TreeFileTypeOK == TreeSpec => []FileTypeOK
<1>1. ASSUME ReaderInv, FileInv PROVE FileTypeOK
  <2>1. N \in Nat /\ "left" \in File!Sides /\ "right" \in File!Sides
    BY <1>1 DEF ReaderInv, HeapTyped, N, File!Sides
  <2>2. \A v \in 1..N : r_nodes[v].left \in 0..N /\ r_nodes[v].right \in 0..N
    BY <1>1, <2>1 DEF ReaderInv, Forward, Child, NULL
  <2>3. r_freed \subseteq 1..N /\ r_root \in 0..N
    <3>1. N # 0 => 1 \in 0..N
      BY <2>1
    <3>2. r_nodes # << >> => N # 0
      BY <1>1 DEF ReaderInv, HeapTyped, N
    <3> QED  BY <1>1, <2>1, <3>1, <3>2 DEF ReaderInv, FileInv, FreedInv, RejectFreesRead, NULL, N
  <2>4. calls # << >> /\ \A i \in 2..Len(calls) :
           calls[i].node \in 1..N /\ calls[i].want \in {"left", "right", "close"}
    BY <1>1 DEF ReaderInv, CallsInv
  <2> QED  BY <1>1, <2>2, <2>3, <2>4 DEF FileTypeOK, File!TypeOK, FileInv, PositionInv, EnvsInv, N
<1> QED  BY <1>1, TreeFileInv, PTL
-----------------------------------------------------------------------------
(* What is read: the reader's node i is a copy of the writer's node m[i],   *)
(* whose chunks stand behind the first b[i] ones of the text.              *)

(* The chunks of v before an activation that wants the next part of it.    *)
Skipped(text, v, want) ==
  CASE want = "left" -> 1
    [] want = "right" -> 1 + Len(Part(text, nodes[v].left, File!NilLeft))
    [] want = "close" -> 1 + Len(Part(text, nodes[v].left, File!NilLeft))
                           + Len(Part(text, nodes[v].right, File!NilRight))

(* How much of the text has been read where a call goes on.                *)
Due(text, m, b, c) ==
  IF c.want = "root" THEN 0
  ELSE IF c.want = "done" THEN Len(text[Program])
  ELSE b[c.node] + Skipped(text, m[c.node], c.want)

(* How much of it when the node i has been read.                           *)
End(text, m, b, i) == b[i] + Len(text[m[i]])

Copies(text, m, b) ==
  /\ m \in [1..N -> 1..Len(nodes)] /\ b \in [1..N -> Nat]
  /\ N # 0 => m[1] = Program
  /\ \A i \in 1..N :
        /\ r_nodes[i].tok = nodes[m[i]].tok
        /\ \A j \in 1..Len(text[m[i]]) : text[Program][b[i] + j] = text[m[i]][j]

(* k chunks have been read; the last parenthesis of the file counts as      *)
(* often as it has been seen.                                              *)
Progress(text, m, b, k) ==
  /\ k \in Nat /\ buf_pos <= k /\ (buf_pos < k => buf_pos = Len(file))
  /\ Due(text, m, b, File!Top) = k
  /\ \A j \in 1 .. Len(calls) - 1 :
        Due(text, m, b, calls[j]) = End(text, m, b, calls[j + 1].node)
  /\ calls[1].want = "done" => N # 0

Awaits(c, i, side) ==
  c.node = i /\ (c.want = "left" \/ (c.want = "right" /\ side = "right"))

Matches(m, i, side) ==
  IF Child(i, side) # NULL THEN m[Child(i, side)] = nodes[m[i]][side]
  ELSE nodes[m[i]][side] = NULL

Matched(m) ==
  \A i \in 1..N : \A side \in File!Sides :
     \/ Matches(m, i, side)
     \/ Child(i, side) = NULL /\ \E j \in 2..Len(calls) : Awaits(calls[j], i, side)

CopyInv ==
  /\ outcome = "none" => calls = <<File!Reads(NULL, "root")>> /\ r_nodes = << >>
  /\ outcome = "written" =>
        \E text, m, b, k : WrittenBy(text) /\ Copies(text, m, b) /\ Progress(text, m, b, k)
                           /\ Matched(m)
  /\ outcome = "read" =>
        /\ N # 0
        /\ \E m : /\ m \in [1..N -> 1..Len(nodes)] /\ m[1] = Program
                 /\ \A i \in 1..N : /\ r_nodes[i].tok = nodes[m[i]].tok
                                    /\ \A side \in File!Sides : Matches(m, i, side)

(* What the running activation looks for is what comes next.               *)
Sought(text, m, b, k, w, part) ==
  /\ w \in 0..Len(nodes)
  /\ w = IF File!Top.want = "root" THEN Program ELSE nodes[m[File!Top.node]][File!Top.want]
  /\ w # NULL => part = text[w] /\ part[1].kind = "open" /\ part[1].tok = nodes[w].tok
  /\ w = NULL => part[1].kind \in {"nil", "nil "} /\ Len(part) = 1
  /\ Len(part) \in Nat /\ Len(part) >= 1
  /\ \A j \in 1..Len(part) : text[Program][k + j] = part[j]
  /\ Due(text, m, b, File!Served) = k + Len(part)

LEMMA Seeks ==
  ASSUME TypeOK, CallsInv, NEW text, WrittenBy(text), NEW m, NEW b, Copies(text, m, b),
         NEW k, k \in Nat, Due(text, m, b, File!Top) = k,
         File!Top.want \in {"root", "left", "right"}
  PROVE  \E w, part : Sought(text, m, b, k, w, part)
<1> DEFINE p == File!Top.node
           want == File!Top.want
<1> DEFINE L(v) == Part(text, nodes[v].left, File!NilLeft)
           R(v) == Part(text, nodes[v].right, File!NilRight)
<1>1. /\ Len(nodes) \in Nat /\ TextOf(text) /\ Program \in 1..Len(nodes)
      /\ \A v \in 1..Len(nodes) : nodes[v].left \in 0..Len(nodes) /\ nodes[v].right \in 0..Len(nodes)
  <2>1. \A v \in 1..Len(nodes) : nodes[v] \in Nodes(Len(nodes))
    BY ElementOfSeq DEF TypeOK, HeapOK
  <2>2. Len(nodes) \in Nat
    BY DEF TypeOK, HeapOK
  <2>3. TextOf(text) /\ Program \in 1..Len(nodes)
    BY DEF WrittenBy
  <2>4. \A v \in 1..Len(nodes) : nodes[v].left \in 0..Len(nodes) /\ nodes[v].right \in 0..Len(nodes)
    BY ONLY <2>1 DEF Nodes
  <2> QED  BY ONLY <2>2, <2>3, <2>4
<1>2. \A v \in 1..Len(nodes) :
         /\ Len(L(v)) \in Nat /\ Len(R(v)) \in Nat /\ Len(text[v]) = 2 + Len(L(v)) + Len(R(v))
         /\ text[v][1].kind = "open" /\ text[v][1].tok = nodes[v].tok
         /\ \A j \in 1..Len(L(v)) : text[v][1 + j] = L(v)[j]
         /\ \A j \in 1..Len(R(v)) : text[v][1 + Len(L(v)) + j] = R(v)[j]
  BY <1>1, TextLayout
<1>6. \A v \in 1..Len(nodes) : /\ Len(text[v]) \in Nat /\ Len(text[v]) >= 1
                               /\ text[v][1].kind = "open" /\ text[v][1].tok = nodes[v].tok
  <2> SUFFICES ASSUME NEW v \in 1..Len(nodes) PROVE Len(text[v]) \in Nat /\ Len(text[v]) >= 1
    BY <1>2
  <2>1. PICK x, y, z : x = Len(L(v)) /\ y = Len(R(v)) /\ z = Len(text[v])
    OBVIOUS
  <2> HIDE DEF L, R
  <2>2. x \in Nat /\ y \in Nat /\ z = 2 + x + y
    BY <1>2, <2>1
  <2>3. z \in Nat /\ z >= 1
    BY ONLY <2>2
  <2> QED  BY <2>1, <2>3
<1>3. /\ File!Served.node = p
      /\ want = "root" => File!Served.want = "done"
      /\ want = "left" => File!Served.want = "right"
      /\ want = "right" => File!Served.want = "close"
  BY ServedRight
<1>4. CASE want = "root"
  <2>1. k = 0 /\ Due(text, m, b, File!Served) = Len(text[Program])
    BY <1>3, <1>4 DEF Due
  <2>2. PICK w : w = Program
    OBVIOUS
  <2>3. /\ w \in 0..Len(nodes) /\ w # NULL
        /\ text[w][1].kind = "open" /\ text[w][1].tok = nodes[w].tok
        /\ Len(text[w]) \in Nat /\ Len(text[w]) >= 1
    <3>1. w \in 1..Len(nodes)
      BY <1>1, <2>2
    <3>2. w # NULL /\ w \in 0..Len(nodes)
      BY <3>1 DEF NULL
    <3> QED  BY <1>6, <3>1, <3>2
  <2>4. \A j \in 1..Len(text[w]) : text[w][k + j] = text[w][j]
    <3>1. \A j \in 1..Len(text[w]) : k + j = j
      BY <2>1
    <3> QED  BY <3>1
  <2>5. Sought(text, m, b, k, w, text[w])
    BY <1>4, <2>1, <2>2, <2>3, <2>4 DEF Sought
  <2> QED  BY <2>5
<1>5. CASE want \in {"left", "right"}
  <2>1. p \in 1..N
    BY <1>5, ServedRight, ServedCall DEF CallsInv
  <2>2. PICK v : v = m[p]
    OBVIOUS
  <2>3. PICK w : w = nodes[v][want]
    OBVIOUS
  <2>4. v \in 1..Len(nodes) /\ b[p] \in Nat /\ w \in 0..Len(nodes)
    <3>1. v \in 1..Len(nodes) /\ b[p] \in Nat
      BY <2>1, <2>2 DEF Copies
    <3> QED  BY <1>1, <1>5, <2>3, <3>1
  <2>5. PICK l, r : l = L(v) /\ r = R(v)
    OBVIOUS
  <2>6. /\ want = "left" => k = b[p] + 1 /\ Due(text, m, b, File!Served) = b[p] + (1 + Len(l))
        /\ want = "right" => /\ k = b[p] + (1 + Len(l))
                             /\ Due(text, m, b, File!Served) = b[p] + (1 + Len(l) + Len(r))
    BY <1>3, <2>2, <2>5 DEF Due, Skipped
  <2>7. \A j \in 1..Len(text[v]) : text[Program][b[p] + j] = text[v][j]
    BY <2>1, <2>2 DEF Copies
  <2>8. /\ want = "left" => l = Part(text, w, File!NilLeft)
        /\ want = "right" => r = Part(text, w, File!NilRight)
    BY <2>3, <2>5
  <2> HIDE DEF L, R
  <2>9. /\ Len(l) \in Nat /\ Len(r) \in Nat /\ Len(text[v]) = 2 + Len(l) + Len(r)
        /\ \A j \in 1..Len(l) : text[v][1 + j] = l[j]
        /\ \A j \in 1..Len(r) : text[v][1 + Len(l) + j] = r[j]
    BY <1>2, <2>4, <2>5
  <2>10. PICK part : part = IF want = "left" THEN l ELSE r
    OBVIOUS
  <2>11. /\ w # NULL => part = text[w] /\ w \in 1..Len(nodes)
         /\ w = NULL => Len(part) = 1 /\ part[1].kind \in {"nil", "nil "}
    <3>1. w # NULL => w \in 1..Len(nodes)
      BY <2>4 DEF NULL
    <3>2. CASE w # NULL
      BY <1>5, <2>8, <2>10, <3>1, <3>2 DEF Part
    <3>3. CASE w = NULL
      <4>1. part = <<File!NilLeft>> \/ part = <<File!NilRight>>
        BY <1>5, <2>8, <2>10, <3>3 DEF Part
      <4>2. File!NilLeft.kind \in {"nil", "nil "} /\ File!NilRight.kind \in {"nil", "nil "}
        BY DEF File!NilLeft, File!NilRight, File!Mark
      <4>3. PICK nil : part = <<nil>> /\ nil.kind \in {"nil", "nil "}
        BY <4>1, <4>2
      <4>4. Len(part) = 1 /\ part[1] = nil
        BY ONLY <4>3
      <4> QED  BY <3>3, <4>3, <4>4
    <3> QED  BY <3>2, <3>3
  <2>12. /\ Len(part) \in Nat /\ Due(text, m, b, File!Served) = k + Len(part)
         /\ \A j \in 1..Len(part) : text[Program][k + j] = part[j]
    <3> DEFINE s == text[v]
               t == text[Program]
    <3>. HIDE DEF s, t
    <3>1. \A j \in 1..Len(s) : t[b[p] + j] = s[j]
      BY <2>7 DEF s, t
    <3>2. /\ Len(l) \in Nat /\ Len(r) \in Nat /\ Len(s) = 2 + Len(l) + Len(r)
          /\ \A j \in 1..Len(l) : s[1 + j] = l[j]
          /\ \A j \in 1..Len(r) : s[1 + Len(l) + j] = r[j]
      BY <2>9 DEF s
    <3>3. CASE want = "left"
      <4>1. part = l /\ k = b[p] + 1 /\ Due(text, m, b, File!Served) = b[p] + (1 + Len(l))
        BY <2>6, <2>10, <3>3
      <4>5. PICK x, y, z, q : x = Len(l) /\ y = Len(r) /\ z = Len(s) /\ q = b[p]
        OBVIOUS
      <4>6. x \in Nat /\ y \in Nat /\ z = 2 + x + y /\ q \in Nat /\ k = q + 1
        BY <2>4, <3>2, <4>1, <4>5
      <4>2. \A j \in 1..Len(l) : 1 + j \in 1..Len(s) /\ b[p] + (1 + j) = k + j
        <5>1. \A j \in 1..x : 1 + j \in 1..z /\ q + (1 + j) = k + j
          BY ONLY <4>6
        <5> QED  BY <4>5, <5>1
      <4>3. \A j \in 1..Len(l) : t[k + j] = l[j]
        BY <3>1, <3>2, <4>2
      <4>4. b[p] + (1 + Len(l)) = k + Len(l)
        <5>1. q + (1 + x) = k + x
          BY ONLY <4>6
        <5> QED  BY <4>5, <5>1
      <4> QED  BY <3>2, <4>1, <4>3, <4>4 DEF t
    <3>4. CASE want = "right"
      <4>1. part = r /\ k = b[p] + (1 + Len(l))
            /\ Due(text, m, b, File!Served) = b[p] + (1 + Len(l) + Len(r))
        BY <2>6, <2>10, <3>4
      <4>5. PICK x, y, z, q : x = Len(l) /\ y = Len(r) /\ z = Len(s) /\ q = b[p]
        OBVIOUS
      <4>6. x \in Nat /\ y \in Nat /\ z = 2 + x + y /\ q \in Nat /\ k = q + (1 + x)
        BY <2>4, <3>2, <4>1, <4>5
      <4>2. \A j \in 1..Len(r) :
               1 + Len(l) + j \in 1..Len(s) /\ b[p] + (1 + Len(l) + j) = k + j
        <5>1. \A j \in 1..y : 1 + x + j \in 1..z /\ q + (1 + x + j) = k + j
          BY ONLY <4>6
        <5> QED  BY <4>5, <5>1
      <4>3. \A j \in 1..Len(r) : t[k + j] = r[j]
        BY <3>1, <3>2, <4>2
      <4>4. b[p] + (1 + Len(l) + Len(r)) = k + Len(r)
        <5>1. q + (1 + x + y) = k + y
          BY ONLY <4>6
        <5> QED  BY <4>5, <5>1
      <4> QED  BY <3>2, <4>1, <4>3, <4>4 DEF t
    <3> QED  BY <1>5, <3>3, <3>4
  <2>13. w # NULL => part[1].kind = "open" /\ part[1].tok = nodes[w].tok /\ Len(part) >= 1
    BY <1>6, <2>11
  <2>14. w = nodes[m[p]][want]
    BY <2>2, <2>3
  <2>15. Len(part) >= 1 /\ want # "root"
    <3>1. Len(part) = 1 => Len(part) >= 1
      OBVIOUS
    <3> QED  BY <1>5, <2>11, <2>13, <3>1
  <2> HIDE DEF p, want
  <2>16. Sought(text, m, b, k, w, part)
    BY <2>4, <2>11, <2>12, <2>13, <2>14, <2>15 DEF Sought, p, want
  <2> QED  BY <2>16
<1> QED  BY <1>4, <1>5
(* The facts after a step, while the writer's tree stays as it is.         *)
LEMMA ProgressNext ==
  ASSUME UNCHANGED <<nodes, root>>, NEW text, NEW m, NEW b, NEW k \in Nat,
         buf_pos' <= k, buf_pos' < k => buf_pos' = Len(file'),
         Due(text, m, b, calls'[Len(calls')]) = k,
         \A j \in 1 .. Len(calls') - 1 :
            Due(text, m, b, calls'[j]) = End(text, m, b, calls'[j + 1].node),
         calls'[1].want = "done" => N' # 0
  PROVE  Progress(text, m, b, k)'
<1>1. \A c : Due(text, m, b, c)' = Due(text, m, b, c)
  BY DEF Due, Skipped, Program
<1>2. Due(text, m, b, File!Top)' = Due(text, m, b, calls'[Len(calls')])
  BY DEF Due, Skipped, Program, File!Top
<1>3. \A j : Due(text, m, b, calls[j])' = Due(text, m, b, calls'[j])
  BY DEF Due, Skipped, Program
<1>4. \A j : End(text, m, b, calls[j + 1].node)' = End(text, m, b, calls'[j + 1].node)
  BY DEF End
<1> QED  BY <1>2, <1>3, <1>4 DEF Progress

LEMMA MatchedNext ==
  ASSUME UNCHANGED nodes, NEW m,
         \A i \in 1..N' : \A side \in File!Sides :
            \/ r_nodes'[i][side] # NULL /\ m[r_nodes'[i][side]] = nodes[m[i]][side]
            \/ r_nodes'[i][side] = NULL /\ nodes[m[i]][side] = NULL
            \/ r_nodes'[i][side] = NULL /\ \E j \in 2..Len(calls') : Awaits(calls'[j], i, side)
  PROVE  Matched(m)'
<1> SUFFICES ASSUME NEW i \in 1..N', NEW side \in File!Sides
             PROVE  \/ Matches(m, i, side)'
                    \/ /\ r_nodes'[i][side] = NULL
                       /\ \E j \in 2..Len(calls') : Awaits(calls'[j], i, side)
  BY DEF Matched, Child, Awaits
<1> QED  BY DEF Matches, Child

(* A chunk that begins a node or says that there is none is the next one of *)
(* the text, and the running activation looks for it.                      *)
Found(k, part) ==
  /\ k = buf_pos /\ buf_pos < Len(file) /\ buf_pos \in Nat
  /\ file[buf_pos + 1] = part[1] /\ File!Ahead = part[1].kind

LEMMA FindsNext ==
  ASSUME FileInv, NEW text, WrittenBy(text), NEW m, NEW b, NEW k, Progress(text, m, b, k),
         NEW w, NEW part, Sought(text, m, b, k, w, part),
         File!Ahead \in {"open", "nil", "nil "}
  PROVE  Found(k, part)
<1>1. PICK C : file \in Seq(C)
  BY DEF WrittenBy, FileFrom
<1>2. PositionInv /\ Len(file) \in Nat
  <2>1. PositionInv
    BY DEF FileInv
  <2>2. Len(file) \in Nat
    BY ONLY <1>1
  <2> QED  BY <2>1, <2>2
<1>3. buf_pos < Len(file) /\ File!Ahead = file[buf_pos + 1].kind
  BY <1>1, <1>2, AheadChunk
<1>4. buf_pos \in Nat /\ k = buf_pos /\ buf_pos + 1 \in 1..Len(file)
  <2>1. PICK x, q : x = Len(file) /\ q = buf_pos
    OBVIOUS
  <2>2. x \in Nat /\ q \in 0..x /\ q < x
    BY <1>2, <1>3, <2>1 DEF PositionInv
  <2>3. k \in Nat /\ q <= k /\ (q < k => q = x)
    BY <2>1 DEF Progress
  <2>4. q \in Nat /\ k = q /\ q + 1 \in 1..x
    BY ONLY <2>2, <2>3
  <2> QED  BY <2>1, <2>4
<1>5. file[buf_pos + 1] = text[Program][buf_pos + 1]
  <2>1. file[buf_pos + 1].kind # "torn"
    BY <1>3
  <2> QED  BY <1>4, <2>1 DEF WrittenBy, FileFrom
<1>6. text[Program][k + 1] = part[1]
  <2>1. Len(part) \in Nat /\ Len(part) >= 1
    BY DEF Sought
  <2>2. 1 \in 1..Len(part)
    BY ONLY <2>1
  <2> QED  BY <2>2 DEF Sought
<1> QED  BY <1>3, <1>4, <1>5, <1>6 DEF Found

(* "nil" where the writer has no child.                                    *)
LEMMA CopyNil ==
  ASSUME WriterInv, ReaderInv, FileInv, File!Nil, UNCHANGED vars,
         NEW text, WrittenBy(text), NEW m, NEW b, NEW k,
         Copies(text, m, b), Progress(text, m, b, k), Matched(m)
  PROVE  Copies(text, m, b)' /\ Progress(text, m, b, k + 1)' /\ Matched(m)'
<1> DEFINE p == File!Top.node
           want == File!Top.want
           n == Len(calls)
<1>1. /\ want \in {"root", "left", "right"} /\ File!Ahead \in {"nil", "nil "}
      /\ calls' = Append(File!Callers, File!Served) /\ buf_pos' = buf_pos + 1
      /\ UNCHANGED <<file, r_nodes, nodes, root>>
  BY DEF File!Nil, File!WantsNode, vars, heap
<1>2. TypeOK /\ CallsInv /\ k \in Nat /\ Due(text, m, b, File!Top) = k
  BY DEF WriterInv, IInv, ReaderInv, Progress
<1>3. PICK w, part : Sought(text, m, b, k, w, part)
  BY <1>1, <1>2, Seeks
<1>4. Found(k, part)
  <2>1. File!Ahead \in {"open", "nil", "nil "}
    BY <1>1
  <2> QED  BY <1>3, <2>1, FindsNext
<1>5. w = NULL /\ want \in {"left", "right"}
  <2>1. w = NULL
    BY <1>1, <1>3, <1>4 DEF Sought, Found
  <2>2. Program # NULL
    BY DEF WrittenBy, NULL
  <2> QED  BY <1>1, <1>3, <2>1, <2>2 DEF Sought
<1>6. /\ n \in Nat /\ n >= 2 /\ File!Top = calls[n]
      /\ calls' \in Seq(Activation) /\ Len(calls') = n
      /\ \A i \in 1 .. n - 1 : calls'[i] = calls[i]
      /\ calls'[n] = File!Served
      /\ File!Served.node = p
      /\ want = "left" => File!Served.want = "right"
      /\ want = "right" => File!Served.want = "close"
  <2>1. n \in Nat /\ n >= 2
    BY <1>2, <1>5, ServedRight DEF CallsInv
  <2>2. PICK cs, c : cs = File!Callers /\ c = File!Served
    OBVIOUS
  <2>3. /\ File!Top = calls[n] /\ cs \in Seq(Activation) /\ Len(cs) = n - 1
        /\ \A i \in 1 .. n - 1 : cs[i] = calls[i]
        /\ c \in Activation /\ c.node = p
        /\ want = "left" => c.want = "right"
        /\ want = "right" => c.want = "close"
    BY <1>1, <1>2, <2>2, ServedCall, ServedRight DEF File!Top
  <2>4. calls' = Append(cs, c)
    BY <1>1, <2>2
  <2>5. PICK x : x = n
    OBVIOUS
  <2>6. x \in Nat /\ x >= 2 /\ Len(cs) = x - 1
    BY <2>1, <2>3, <2>5
  <2>7. /\ calls' \in Seq(Activation) /\ Len(calls') = x /\ calls'[x] = c
        /\ \A i \in 1 .. x - 1 : calls'[i] = cs[i]
    BY ONLY <2>3, <2>4, <2>6
  <2> QED  BY <2>1, <2>2, <2>3, <2>5, <2>7
<1>7. Due(text, m, b, File!Served) = k + 1
  BY <1>3, <1>5 DEF Sought
<1>8. Copies(text, m, b)'
  BY <1>1 DEF Copies, N, Program
<1>9. Progress(text, m, b, k + 1)'
  <2>1. \A j \in 1 .. n - 1 : Due(text, m, b, calls'[j]) = End(text, m, b, calls'[j + 1].node)
    <3> SUFFICES ASSUME NEW j \in 1 .. n - 1
                 PROVE  Due(text, m, b, calls'[j]) = End(text, m, b, calls'[j + 1].node)
      OBVIOUS
    <3>1. Due(text, m, b, calls[j]) = End(text, m, b, calls[j + 1].node) /\ calls'[j] = calls[j]
      BY <1>6 DEF Progress
    <3>2. calls'[j + 1].node = calls[j + 1].node
      <4>1. j + 1 \in 1 .. n - 1 \/ j + 1 = n
        BY <1>6
      <4>2. calls'[n].node = calls[n].node
        BY <1>6
      <4> QED  BY <1>6, <4>1, <4>2
    <3> QED  BY <3>1, <3>2
  <2>2. Due(text, m, b, calls'[Len(calls')]) = k + 1
    BY <1>6, <1>7
  <2>3. calls'[1].want = "done" => N' # 0
    <3>1. n \in Nat /\ n >= 2
      BY <1>6
    <3>2. 1 \in 1 .. n - 1
      <4> HIDE DEF n
      <4> QED  BY ONLY <3>1
    <3>3. N' = N
      BY <1>1 DEF N
    <3> QED  BY <1>6, <3>2, <3>3 DEF Progress
  <2>4. k + 1 \in Nat /\ buf_pos' = k + 1
    <3>1. k \in Nat /\ buf_pos' = k + 1
      BY <1>1, <1>2, <1>4 DEF Found
    <3> QED  BY ONLY <3>1
  <2> HIDE DEF n
  <2>5. \A j \in 1 .. Len(calls') - 1 :
           Due(text, m, b, calls'[j]) = End(text, m, b, calls'[j + 1].node)
    BY <1>6, <2>1
  <2>6. buf_pos' <= k + 1 /\ ~(buf_pos' < k + 1)
    BY <2>4
  <2> QED  BY <1>1, <2>2, <2>3, <2>4, <2>5, <2>6, ProgressNext
<1>10. Matched(m)'
  <2>1. nodes[m[p]][want] = NULL
    BY <1>3, <1>5 DEF Sought
  <2> SUFFICES ASSUME NEW i \in 1..N', NEW side \in File!Sides
               PROVE  \/ r_nodes'[i][side] # NULL /\ m[r_nodes'[i][side]] = nodes[m[i]][side]
                      \/ r_nodes'[i][side] = NULL /\ nodes[m[i]][side] = NULL
                      \/ /\ r_nodes'[i][side] = NULL
                         /\ \E j \in 2..Len(calls') : Awaits(calls'[j], i, side)
    BY <1>1, MatchedNext
  <2>2. i \in 1..N /\ r_nodes'[i][side] = Child(i, side)
    BY <1>1 DEF N, Child
  <2>3. CASE Matches(m, i, side)
    BY <2>2, <2>3 DEF Matches
  <2>4. ASSUME Child(i, side) = NULL, NEW j \in 2..n, Awaits(calls[j], i, side)
        PROVE  \/ nodes[m[i]][side] = NULL
               \/ \E j1 \in 2..Len(calls') : Awaits(calls'[j1], i, side)
    <3>1. CASE j # n
      <4>1. j \in 1 .. n - 1 /\ j \in 2..Len(calls')
        BY <1>6, <2>4, <3>1
      <4> QED  BY <1>6, <2>4, <4>1
    <3>2. CASE j = n
      <4>1. p = i /\ (want = "left" \/ (want = "right" /\ side = "right"))
        BY <1>6, <2>4, <3>2 DEF Awaits
      <4>2. CASE side = want
        BY <2>1, <4>1, <4>2
      <4>3. CASE side # want
        <5>1. want = "left" /\ side = "right"
          BY <4>1, <4>3 DEF File!Sides
        <5>2. Awaits(calls'[n], i, side) /\ n \in 2..Len(calls')
          BY <1>6, <4>1, <5>1 DEF Awaits
        <5> QED  BY <5>2
      <4> QED  BY <4>2, <4>3
    <3> QED  BY <3>1, <3>2
  <2> QED  BY <2>2, <2>3, <2>4 DEF Matched
<1> QED  BY <1>8, <1>9, <1>10

(* A closing parenthesis, though it may be the last one once more: a node   *)
(* has been read.                                                          *)
LEMMA CopyClose ==
  ASSUME WriterInv, ReaderInv, FileInv, File!Close, UNCHANGED vars,
         NEW text, WrittenBy(text), NEW m, NEW b, NEW k,
         Copies(text, m, b), Progress(text, m, b, k), Matched(m)
  PROVE  Copies(text, m, b)' /\ Progress(text, m, b, k + 1)' /\ Matched(m)'
<1> DEFINE p == File!Top.node
           n == Len(calls)
<1>1. /\ File!Top.want = "close" /\ calls' = File!Callers
      /\ buf_pos' = IF buf_pos < Len(file) THEN buf_pos + 1 ELSE buf_pos
      /\ UNCHANGED <<file, r_nodes, nodes, root>>
  BY DEF File!Close, vars, heap
<1>2. TypeOK /\ CallsInv /\ k \in Nat /\ Due(text, m, b, File!Top) = k
  BY DEF WriterInv, IInv, ReaderInv, Progress
<1>3. /\ n \in Nat /\ n >= 2 /\ File!Top = calls[n] /\ p \in 1..N
      /\ Len(calls') = n - 1 /\ \A i \in 1 .. n - 1 : calls'[i] = calls[i]
  <2>1. /\ n \in Nat /\ n >= 1 /\ File!Top = calls[n]
        /\ Len(calls') = n - 1 /\ \A i \in 1 .. n - 1 : calls'[i] = calls[i]
    BY <1>1, <1>2, ServedCall DEF CallsInv, File!Top
  <2>2. n # 1
    BY <1>1, <1>2, <2>1 DEF CallsInv
  <2>3. n >= 2 /\ n \in 2..n
    <3> HIDE DEF n
    <3> QED  BY ONLY <2>1, <2>2
  <2>4. p \in 1..N
    BY <1>2, <2>1, <2>3 DEF CallsInv
  <2> QED  BY <2>1, <2>3, <2>4
<1>4. End(text, m, b, p) = k + 1
  <2>1. PICK v, q : v = m[p] /\ q = b[p]
    OBVIOUS
  <2>2. v \in 1..Len(nodes) /\ q \in Nat
    BY <1>3, <2>1 DEF Copies
  <2>3. nodes[v].left \in 0..Len(nodes) /\ nodes[v].right \in 0..Len(nodes)
    <3>1. nodes[v] \in Nodes(Len(nodes))
      BY <1>2, <2>2, ElementOfSeq DEF TypeOK, HeapOK
    <3> QED  BY ONLY <3>1 DEF Nodes
  <2>4. PICK x, y, z : /\ x = Len(Part(text, nodes[v].left, File!NilLeft))
                       /\ y = Len(Part(text, nodes[v].right, File!NilRight))
                       /\ z = Len(text[v])
    OBVIOUS
  <2>5. x \in Nat /\ y \in Nat /\ z = 2 + x + y
    BY <2>2, <2>3, <2>4, TextLayout DEF WrittenBy
  <2>6. k = q + (1 + x + y)
    BY <1>1, <1>2, <2>1, <2>4 DEF Due, Skipped
  <2>7. q + z = k + 1
    BY ONLY <2>2, <2>5, <2>6
  <2> QED  BY <2>1, <2>4, <2>7 DEF End
<1>5. Copies(text, m, b)'
  BY <1>1 DEF Copies, N, Program
<1>6. Progress(text, m, b, k + 1)'
  <2>1. \A j \in 1 .. n - 1 : Due(text, m, b, calls[j]) = End(text, m, b, calls[j + 1].node)
    BY DEF Progress
  <2>2. PICK x : x = n
    OBVIOUS
  <2>3. /\ x \in Nat /\ x >= 2 /\ Len(calls') = x - 1
        /\ \A i \in 1 .. x - 1 : calls'[i] = calls[i]
        /\ \A j \in 1 .. x - 1 : Due(text, m, b, calls[j]) = End(text, m, b, calls[j + 1].node)
        /\ Due(text, m, b, calls[x - 1]) = k + 1
    <3>1. x \in Nat /\ x >= 2
      BY <1>3, <2>2
    <3>2. x - 1 \in 1 .. x - 1 /\ (x - 1) + 1 = x
      BY ONLY <3>1
    <3>3. Due(text, m, b, calls[x - 1]) = End(text, m, b, calls[x].node)
      BY <2>1, <2>2, <3>2
    <3> QED  BY <1>3, <1>4, <2>1, <2>2, <3>1, <3>3
  <2>4. Due(text, m, b, calls'[Len(calls')]) = k + 1
    <3>1. x - 1 \in 1 .. x - 1
      BY ONLY <2>3
    <3> QED  BY <2>3, <3>1
  <2>5. \A j \in 1 .. Len(calls') - 1 :
           Due(text, m, b, calls'[j]) = End(text, m, b, calls'[j + 1].node)
    <3>1. \A j \in 1 .. Len(calls') - 1 : j \in 1 .. x - 1 /\ j + 1 \in 1 .. x - 1
      BY ONLY <2>3
    <3> QED  BY <2>3, <3>1
  <2>6. calls'[1].want = "done" => N' # 0
    <3>1. 1 \in 1 .. x - 1
      BY ONLY <2>3
    <3>2. N' = N
      BY <1>1 DEF N
    <3> QED  BY <2>3, <3>1, <3>2 DEF Progress
  <2>7. k + 1 \in Nat /\ buf_pos' <= k + 1 /\ (buf_pos' < k + 1 => buf_pos' = Len(file'))
    <3>1. PICK y, q : y = Len(file) /\ q = buf_pos
      OBVIOUS
    <3>2. q \in 0..y
      BY <3>1 DEF FileInv, PositionInv
    <3>3. k \in Nat /\ q <= k /\ (q < k => q = y)
      BY <3>1 DEF Progress
    <3>4. y \in Nat
      <4>1. PICK C : file \in Seq(C)
        BY DEF WrittenBy, FileFrom
      <4> QED  BY <3>1, <4>1
    <3>5. buf_pos' = (IF q < y THEN q + 1 ELSE q) /\ Len(file') = y
      BY <1>1, <3>1
    <3> QED  BY ONLY <3>2, <3>3, <3>4, <3>5
  <2> QED  BY <1>1, <2>4, <2>5, <2>6, <2>7, ProgressNext
<1>7. Matched(m)'
  <2> SUFFICES ASSUME NEW i \in 1..N', NEW side \in File!Sides
               PROVE  \/ r_nodes'[i][side] # NULL /\ m[r_nodes'[i][side]] = nodes[m[i]][side]
                      \/ r_nodes'[i][side] = NULL /\ nodes[m[i]][side] = NULL
                      \/ /\ r_nodes'[i][side] = NULL
                         /\ \E j \in 2..Len(calls') : Awaits(calls'[j], i, side)
    BY <1>1, MatchedNext
  <2>2. i \in 1..N /\ r_nodes'[i][side] = Child(i, side)
    BY <1>1 DEF N, Child
  <2>3. CASE Matches(m, i, side)
    BY <2>2, <2>3 DEF Matches
  <2>4. ASSUME Child(i, side) = NULL, NEW j \in 2..n, Awaits(calls[j], i, side)
        PROVE  \E j1 \in 2..Len(calls') : Awaits(calls'[j1], i, side)
    <3>1. j # n
      BY <1>1, <1>3, <2>4 DEF Awaits
    <3>2. j \in 1 .. n - 1 /\ j \in 2..Len(calls')
      <4> HIDE DEF n
      <4> QED  BY ONLY <1>3, <2>4, <3>1
    <3> QED  BY <1>3, <2>4, <3>2
  <2> QED  BY <2>2, <2>3, <2>4 DEF Matched
<1> QED  BY <1>5, <1>6, <1>7

(* A node is made: it is a copy of the child that stands there.             *)
LEMMA CopyOpen ==
  ASSUME WriterInv, ReaderInv, FileInv, UNCHANGED vars,
         File!WantsNode, File!Ahead = "open", NEW scope, NEW inner,
         File!Make(file[buf_pos + 1], scope, inner),
         NEW text, WrittenBy(text), NEW m, NEW b, NEW k,
         Copies(text, m, b), Progress(text, m, b, k), Matched(m)
  PROVE  \E m2, b2 : Copies(text, m2, b2)' /\ Progress(text, m2, b2, k + 1)' /\ Matched(m2)'
<1> DEFINE p == File!Top.node
           want == File!Top.want
<1>1. /\ want \in {"root", "left", "right"}
      /\ r_nodes' = File!Hung([tok |-> file[buf_pos + 1].tok, left |-> NULL, right |-> NULL,
                               scope |-> scope, inner |-> inner])
      /\ calls' = File!Callers \o <<File!Served, File!Reads(N + 1, "left")>>
      /\ buf_pos' = buf_pos + 1 /\ UNCHANGED <<file, nodes, root>>
  BY DEF File!Make, File!WantsNode, vars, heap, N, NULL, File!NULL
<1>2. TypeOK /\ CallsInv /\ HeapTyped /\ Forward /\ k \in Nat /\ Due(text, m, b, File!Top) = k
  BY DEF WriterInv, IInv, ReaderInv, Progress
<1>3. PICK w, part : Sought(text, m, b, k, w, part)
  BY <1>1, <1>2, Seeks
<1>4. Found(k, part)
  <2>1. File!Ahead \in {"open", "nil", "nil "}
    OBVIOUS
  <2> QED  BY <1>3, <2>1, FindsNext
<1>5. /\ w \in 1..Len(nodes) /\ part = text[w] /\ file[buf_pos + 1].tok = nodes[w].tok
      /\ Due(text, m, b, File!Served) = k + Len(text[w])
      /\ \A j \in 1..Len(text[w]) : text[Program][k + j] = text[w][j]
  <2>1. w # NULL
    BY <1>3, <1>4 DEF Sought, Found
  <2>2. w \in 1..Len(nodes)
    <3>1. w \in 0..Len(nodes)
      BY <1>3 DEF Sought
    <3> QED  BY <2>1, <3>1 DEF NULL
  <2> QED  BY <1>3, <1>4, <2>1, <2>2 DEF Sought, Found
<1>6. Grown(p, want) /\ FieldsKept(nodes[w].tok, scope, inner)
  BY <1>1, <1>2, <1>5, HungGrows
<1>7. PICK z, n : z = N /\ n = Len(calls)
  OBVIOUS
<1>8. z \in Nat /\ n \in Nat /\ n >= 1 /\ N' = z + 1
  BY <1>2, <1>6, <1>7 DEF HeapTyped, N, CallsInv, Grown
<1>9. /\ File!Top = calls[n] /\ File!Served.node = p
      /\ want = "root" => File!Served.want = "done" /\ n = 1 /\ z = 0
      /\ want = "left" => File!Served.want = "right" /\ n >= 2
      /\ want = "right" => File!Served.want = "close" /\ n >= 2
  BY <1>1, <1>2, <1>7, ServedCall, ServedRight DEF N
<1>10. PICK new : new = File!Reads(z + 1, "left")
  OBVIOUS
<1>11. new.node = z + 1 /\ new.want = "left" /\ new \in Activation
  BY <1>8, <1>10 DEF File!Reads, Activation
<1>12. /\ Len(calls') = n + 1 /\ calls'[n] = File!Served /\ calls'[n + 1] = new
       /\ \A i \in 1 .. n - 1 : calls'[i] = calls[i]
  <2>1. PICK cs, c : cs = File!Callers /\ c = File!Served
    OBVIOUS
  <2>2. cs \in Seq(Activation) /\ Len(cs) = n - 1 /\ c \in Activation
        /\ \A i \in 1 .. n - 1 : cs[i] = calls[i]
    BY <1>1, <1>2, <1>7, <2>1, ServedCall, ServedRight
  <2>3. calls' = cs \o <<c, new>>
    BY <1>1, <1>7, <1>10, <2>1
  <2>4. /\ Len(calls') = Len(cs) + 2
        /\ \A i \in 1 .. Len(cs) : calls'[i] = cs[i]
        /\ calls'[Len(cs) + 1] = c /\ calls'[Len(cs) + 2] = new
    BY ONLY <1>11, <2>2, <2>3, TwoMore
  <2>5. Len(cs) + 1 = n /\ Len(cs) + 2 = n + 1
    BY ONLY <1>8, <2>2
  <2> QED  BY ONLY <2>1, <2>2, <2>4, <2>5
<1>13. want # "root" => p \in 1..z
  <2>1. SUFFICES ASSUME want # "root" PROVE p \in 1..z
    OBVIOUS
  <2>2. n >= 2
    BY <1>1, <1>9, <2>1
  <2>3. n \in 2..n
    BY ONLY <1>8, <2>2
  <2> QED  BY <1>2, <1>7, <1>9, <2>3 DEF CallsInv
<1>14. m \in [1..z -> 1..Len(nodes)] /\ b \in [1..z -> Nat]
  BY <1>7 DEF Copies
<1> DEFINE m2 == [i \in 1 .. z + 1 |-> IF i = z + 1 THEN w ELSE m[i]]
           b2 == [i \in 1 .. z + 1 |-> IF i = z + 1 THEN k ELSE b[i]]
<1>15. /\ m2 \in [1 .. z + 1 -> 1..Len(nodes)] /\ b2 \in [1 .. z + 1 -> Nat]
       /\ m2[z + 1] = w /\ b2[z + 1] = k
       /\ \A i \in 1..z : m2[i] = m[i] /\ b2[i] = b[i]
  BY <1>2, <1>5, <1>8, <1>14
<1>16. PICK f, g : f = m2 /\ g = b2
  OBVIOUS
<1>17. /\ f \in [1 .. z + 1 -> 1..Len(nodes)] /\ g \in [1 .. z + 1 -> Nat]
       /\ f[z + 1] = w /\ g[z + 1] = k
       /\ \A i \in 1..z : f[i] = m[i] /\ g[i] = b[i]
  BY <1>15, <1>16
<1> HIDE DEF m2, b2
<1>18. \A i \in 1 .. z + 1 : i \in 1..z \/ i = z + 1
  BY <1>8
<1>19. Copies(text, f, g)'
  <2>1. f[1] = Program
    <3>1. CASE want = "root"
      <4>1. w = Program
        BY <1>3, <3>1 DEF Sought
      <4>2. z + 1 = 1
        BY <1>9, <3>1
      <4> QED  BY <1>17, <4>1, <4>2
    <3>2. CASE want # "root"
      <4>1. 1 \in 1..z /\ z # 0
        BY <1>8, <1>13, <3>2
      <4>2. m[1] = Program
        BY <1>7, <4>1 DEF Copies
      <4> QED  BY <1>17, <4>1, <4>2
    <3> QED  BY <3>1, <3>2
  <2>2. \A i \in 1..z : r_nodes'[i].tok = nodes[f[i]].tok
    BY <1>6, <1>7, <1>17 DEF FieldsKept, Copies
  <2>3. r_nodes'[z + 1].tok = nodes[f[z + 1]].tok
    BY <1>6, <1>7, <1>17 DEF FieldsKept
  <2>4. \A i \in 1..z : \A j \in 1..Len(text[f[i]]) : text[Program][g[i] + j] = text[f[i]][j]
    BY <1>7, <1>17 DEF Copies
  <2>5. \A j \in 1..Len(text[f[z + 1]]) : text[Program][g[z + 1] + j] = text[f[z + 1]][j]
    BY <1>5, <1>17
  <2>6. \A i \in 1 .. z + 1 :
           /\ r_nodes'[i].tok = nodes[f[i]].tok
           /\ \A j \in 1..Len(text[f[i]]) : text[Program][g[i] + j] = text[f[i]][j]
    BY <1>18, <2>2, <2>3, <2>4, <2>5
  <2>7. Program' = Program /\ nodes' = nodes
    BY <1>1 DEF Program
  <2> QED  BY <1>8, <1>17, <2>1, <2>6, <2>7 DEF Copies
<1>20. \A c : c.want \in {"root", "done"} \/ c.node \in 1..z
              => Due(text, f, g, c) = Due(text, m, b, c)
  BY <1>17 DEF Due
<1>21. \A i \in 1..z : End(text, f, g, i) = End(text, m, b, i)
  BY <1>17 DEF End
<1>22. \A i \in 1..n : calls[i].want \in {"root", "done"} \/ calls[i].node \in 1..z
  <2>1. \A i \in 1..n : i = 1 \/ i \in 2..n
    BY <1>8
  <2> QED  BY <1>2, <1>7, <2>1 DEF CallsInv
<1>23. Progress(text, f, g, k + 1)'
  <2>1. Due(text, f, g, calls'[Len(calls')]) = k + 1
    <3>1. Due(text, f, g, new) = g[z + 1] + 1
      BY <1>11 DEF Due, Skipped
    <3> QED  BY <1>12, <1>17, <3>1
  <2>2. Due(text, f, g, calls'[n]) = End(text, f, g, calls'[n + 1].node)
    <3>1. Due(text, f, g, File!Served) = Due(text, m, b, File!Served)
      BY <1>1, <1>9, <1>13, <1>20
    <3>2. End(text, f, g, z + 1) = k + Len(text[w])
      BY <1>17 DEF End
    <3> QED  BY <1>5, <1>11, <1>12, <3>1, <3>2
  <2>3. ASSUME NEW j \in 1 .. n - 1
        PROVE  Due(text, f, g, calls'[j]) = End(text, f, g, calls'[j + 1].node)
    <3>1. j \in 1..n /\ j + 1 \in 2..n /\ (j + 1 \in 1 .. n - 1 \/ j + 1 = n)
      BY <1>8
    <3>2. calls[j + 1].node \in 1..z
      BY <1>2, <1>7, <3>1 DEF CallsInv
    <3>3. calls'[j + 1].node = calls[j + 1].node
      BY <1>9, <1>12, <3>1
    <3>4. Due(text, m, b, calls[j]) = End(text, m, b, calls[j + 1].node)
      BY <1>7 DEF Progress
    <3>5. Due(text, f, g, calls[j]) = Due(text, m, b, calls[j])
      BY <1>20, <1>22, <3>1
    <3>6. End(text, f, g, calls[j + 1].node) = End(text, m, b, calls[j + 1].node)
      BY <1>21, <3>2
    <3> QED  BY <1>12, <3>3, <3>4, <3>5, <3>6
  <2>4. \A j \in 1 .. Len(calls') - 1 :
           Due(text, f, g, calls'[j]) = End(text, f, g, calls'[j + 1].node)
    <3>1. \A j \in 1 .. (n + 1) - 1 : j \in 1 .. n - 1 \/ j = n
      BY <1>8
    <3> QED  BY <1>12, <2>2, <2>3, <3>1
  <2>5. k + 1 \in Nat /\ buf_pos' <= k + 1 /\ ~(buf_pos' < k + 1)
    <3>1. k \in Nat /\ buf_pos' = k + 1
      BY <1>1, <1>2, <1>4 DEF Found
    <3> QED  BY ONLY <3>1
  <2>6. N' # 0
    BY <1>8
  <2> QED  BY <1>1, <2>1, <2>4, <2>5, <2>6, ProgressNext
<1>24. Matched(f)'
  <2> SUFFICES ASSUME NEW i \in 1..N', NEW side \in File!Sides
               PROVE  \/ r_nodes'[i][side] # NULL /\ f[r_nodes'[i][side]] = nodes[f[i]][side]
                      \/ r_nodes'[i][side] = NULL /\ nodes[f[i]][side] = NULL
                      \/ /\ r_nodes'[i][side] = NULL
                         /\ \E j \in 2..Len(calls') : Awaits(calls'[j], i, side)
    BY <1>1, MatchedNext
  <2>1. CASE i = z + 1
    <3>1. r_nodes'[i][side] = NULL
      BY <1>6, <1>7, <2>1 DEF Grown
    <3>2. Awaits(calls'[n + 1], i, side) /\ n + 1 \in 2..Len(calls')
      BY <1>8, <1>11, <1>12, <2>1 DEF Awaits
    <3> QED  BY <3>1, <3>2
  <2>2. CASE i \in 1..z /\ i = p /\ side = want
    <3>1. r_nodes'[i][side] = z + 1
      BY <1>6, <1>7, <2>2 DEF Grown
    <3>2. nodes[f[i]][side] = w
      <4>1. want # "root"
        BY <2>2 DEF File!Sides
      <4>2. w = nodes[m[p]][want]
        BY <1>3, <4>1 DEF Sought
      <4> QED  BY <1>17, <2>2, <4>2
    <3>3. z + 1 # NULL
      BY <1>8 DEF NULL
    <3> QED  BY <1>17, <3>1, <3>2, <3>3
  <2>3. CASE i \in 1..z /\ ~(i = p /\ side = want)
    <3>1. r_nodes'[i][side] = Child(i, side) /\ f[i] = m[i]
      BY <1>6, <1>7, <1>17, <2>3 DEF Grown, Child
    <3>2. Child(i, side) # NULL => Child(i, side) \in 1..z
      BY <1>2, <1>7, <1>8, <2>3 DEF Forward
    <3>3. CASE Matches(m, i, side)
      BY <1>17, <3>1, <3>2, <3>3 DEF Matches
    <3>4. ASSUME Child(i, side) = NULL, NEW j \in 2..n, Awaits(calls[j], i, side)
          PROVE  \E j1 \in 2..Len(calls') : Awaits(calls'[j1], i, side)
      <4>1. CASE j # n
        <5>1. j \in 1 .. n - 1 /\ j \in 2 .. n + 1
          BY <1>8, <4>1
        <5> QED  BY <1>12, <3>4, <5>1
      <4>2. CASE j = n
        <5>1. p = i /\ (want = "left" \/ (want = "right" /\ side = "right"))
          BY <1>9, <3>4, <4>2 DEF Awaits
        <5>2. want = "left" /\ side = "right"
          BY <2>3, <5>1 DEF File!Sides
        <5>3. Awaits(calls'[n], i, side) /\ n \in 2 .. n + 1
          BY <1>8, <1>9, <1>12, <5>1, <5>2 DEF Awaits
        <5> QED  BY <1>12, <5>3
      <4> QED  BY <4>1, <4>2
    <3> QED  BY <1>7, <2>3, <3>1, <3>3, <3>4 DEF Matched
  <2> QED  BY <1>8, <1>18, <2>1, <2>2, <2>3
<1> QED  BY <1>19, <1>23, <1>24

LEMMA CopyInitially == TreeInit => CopyInv
  BY DEF TreeInit, File!Init, CopyInv, NULL, File!NULL

(* Nothing of the file has been read when it is written.                   *)
LEMMA CopyBegins ==
  ASSUME WriterInv, FileInv, CopyInv, WriteTree
  PROVE  CopyInv'
<1>1. /\ outcome = "none" /\ outcome' = "written"
      /\ calls' = <<File!Reads(NULL, "root")>> /\ r_nodes' = << >> /\ buf_pos' = 0
  BY DEF WriteTree, File!Write, CopyInv, FileInv
<1>2. PICK text : WrittenBy(text)'
  BY WrittenFile
<1>3. N' = 0 /\ Len(calls') = 1 /\ calls'[1].want = "root" /\ File!Top' = calls'[1]
  <2>1. PICK c : c = File!Reads(NULL, "root")
    OBVIOUS
  <2>2. Len(<<c>>) = 1 /\ <<c>>[1] = c
    OBVIOUS
  <2> QED  BY <1>1, <2>1, <2>2 DEF N, File!Top, File!Reads
<1> DEFINE none == [i \in 1..0 |-> 0]
<1>4. none \in [1..0 -> 1..Len(nodes')] /\ none \in [1..0 -> Nat]
  OBVIOUS
<1>5. PICK m : m = none
  OBVIOUS
<1>6. m \in [1..0 -> 1..Len(nodes')] /\ m \in [1..0 -> Nat]
  BY <1>4, <1>5
<1> HIDE DEF none
<1>7. Copies(text, m, m)'
  BY <1>3, <1>6 DEF Copies
<1>8. Progress(text, m, m, 0)'
  <2>1. \A j \in 1 .. Len(calls') - 1 : FALSE
    BY <1>3
  <2>2. Due(text, m, m, File!Top)' = 0
    BY <1>3 DEF Due
  <2> QED  BY <1>1, <1>3, <2>1, <2>2 DEF Progress
<1>9. Matched(m)'
  BY <1>3 DEF Matched
<1> QED  BY <1>1, <1>2, <1>7, <1>8, <1>9 DEF CopyInv

(* Nobody waits for a child any more when the root has been read.           *)
LEMMA CopyEnds ==
  ASSUME ReaderInv, CopyInv, File!Finish, UNCHANGED vars
  PROVE  CopyInv'
<1>1. /\ outcome = "written" /\ File!Top.want = "done" /\ outcome' = "read"
      /\ UNCHANGED <<calls, r_nodes, nodes, root>>
  BY DEF File!Finish, File!Reading, vars, heap
<1>2. PICK text, m, b, k : WrittenBy(text) /\ Copies(text, m, b) /\ Progress(text, m, b, k)
                           /\ Matched(m)
  BY <1>1 DEF CopyInv
<1>3. Len(calls) = 1
  <2>1. Len(calls) \in Nat /\ Len(calls) >= 1 /\ File!Top = calls[Len(calls)]
    BY ServedCall DEF ReaderInv, CallsInv
  <2>2. Len(calls) \notin 2..Len(calls)
    BY <1>1, <2>1 DEF ReaderInv, CallsInv
  <2> QED  BY ONLY <2>1, <2>2
<1>4. N # 0
  BY <1>1, <1>2, <1>3 DEF Progress, File!Top
<1>5. \A i \in 1..N : \A side \in File!Sides : Matches(m, i, side)
  <2>1. \A j \in 2..Len(calls) : FALSE
    BY <1>3
  <2> QED  BY <1>2, <2>1 DEF Matched
<1>6. /\ m \in [1..N -> 1..Len(nodes)] /\ m[1] = Program
      /\ \A i \in 1..N : r_nodes[i].tok = nodes[m[i]].tok
  BY <1>2, <1>4 DEF Copies
<1>7. N' # 0 /\ m \in [1..N' -> 1..Len(nodes')] /\ m[1] = Program'
  BY <1>1, <1>4, <1>6 DEF N, Program
<1>8. \A i \in 1..N' : /\ r_nodes'[i].tok = nodes'[m[i]].tok
                       /\ \A side \in File!Sides : Matches(m, i, side)'
  BY <1>1, <1>5, <1>6 DEF N, Matches, Child
<1> QED  BY <1>1, <1>7, <1>8 DEF CopyInv

(* A step that reads nothing.                                              *)
LEMMA CopyStays ==
  ASSUME CopyInv, UNCHANGED fileVars, outcome # "none" => UNCHANGED <<nodes, root>>
  PROVE  CopyInv'
<1>1. CASE outcome = "none"
  BY <1>1 DEF CopyInv, fileVars
<1>2. CASE outcome = "written"
  <2>1. PICK text, m, b, k : WrittenBy(text) /\ Copies(text, m, b) /\ Progress(text, m, b, k)
                             /\ Matched(m)
    BY <1>2 DEF CopyInv
  <2>2. UNCHANGED <<file, buf_pos, calls, r_nodes, outcome, nodes, root>>
    BY <1>2 DEF fileVars
  <2>3. WrittenBy(text)'
    BY <2>1, <2>2 DEF WrittenBy, TextOf, Chunks, FileFrom, Program
  <2>4. Copies(text, m, b)'
    BY <2>1, <2>2 DEF Copies, N, Program
  <2>5. Progress(text, m, b, k)'
    <3>1. /\ k \in Nat /\ buf_pos' <= k /\ (buf_pos' < k => buf_pos' = Len(file'))
          /\ Due(text, m, b, calls'[Len(calls')]) = k
          /\ \A j \in 1 .. Len(calls') - 1 :
                Due(text, m, b, calls'[j]) = End(text, m, b, calls'[j + 1].node)
          /\ calls'[1].want = "done" => N' # 0
      BY <2>1, <2>2 DEF Progress, File!Top, N
    <3> QED  BY <2>2, <3>1, ProgressNext
  <2>6. Matched(m)'
    BY <2>1, <2>2 DEF Matched, Matches, Child, Awaits, N
  <2> QED  BY <1>2, <2>2, <2>3, <2>4, <2>5, <2>6 DEF CopyInv
<1>3. CASE outcome = "read"
  <2>1. UNCHANGED <<r_nodes, outcome, nodes, root>>
    BY <1>3 DEF fileVars
  <2> QED  BY <1>3, <2>1 DEF CopyInv, Matches, Child, N, Program
<1>4. CASE outcome \notin {"none", "written", "read"}
  BY <1>4 DEF CopyInv, fileVars
<1> QED  BY <1>1, <1>2, <1>3, <1>4

LEMMA CopyStep ==
  ASSUME WriterInv, ReaderInv, FileInv, CopyInv, [TreeNext]_allVars
  PROVE  CopyInv'
<1>1. ASSUME outcome = "written", UNCHANGED <<vars, file, outcome>>,
             NEW text, WrittenBy(text),
             NEW m, NEW b, NEW k, Copies(text, m, b)', Progress(text, m, b, k)', Matched(m)'
      PROVE  CopyInv'
  <2>1. WrittenBy(text)'
    BY <1>1 DEF WrittenBy, TextOf, Chunks, FileFrom, Program, vars, heap
  <2> QED  BY <1>1, <2>1 DEF CopyInv
<1>2. outcome = "written" =>
         \E text, m, b, k : WrittenBy(text) /\ Copies(text, m, b) /\ Progress(text, m, b, k)
                            /\ Matched(m)
  BY DEF CopyInv
<1>3. CASE UNCHANGED fileVars /\ [Next]_vars
  <2>1. status # "running" => UNCHANGED <<nodes, root>>
    BY <1>3, WriterStep
  <2> QED  BY <1>3, <2>1, CopyStays DEF FileInv
<1>4. CASE WriteTree
  BY <1>4, CopyBegins
<1>5. ASSUME File!WantsNode, File!Ahead = "open", UNCHANGED vars,
             NEW scope, NEW inner, File!Make(file[buf_pos + 1], scope, inner)
      PROVE  CopyInv'
  <2>1. outcome = "written" /\ UNCHANGED <<file, outcome>>
    BY <1>5 DEF File!WantsNode, File!Reading, File!Make
  <2>2. PICK text, m, b, k : WrittenBy(text) /\ Copies(text, m, b) /\ Progress(text, m, b, k)
                             /\ Matched(m)
    BY <1>2, <2>1
  <2>3. PICK m2, b2 : Copies(text, m2, b2)' /\ Progress(text, m2, b2, k + 1)' /\ Matched(m2)'
    BY <1>5, <2>2, CopyOpen
  <2> QED  BY <1>1, <1>5, <2>1, <2>2, <2>3
<1>6. CASE (File!OpenPlain \/ File!OpenFunction) /\ UNCHANGED vars
  BY <1>5, <1>6 DEF File!OpenPlain, File!OpenFunction
<1>7. CASE File!OpenVariable /\ UNCHANGED vars
  <2>1. PICK scope, inner : File!Make(file[buf_pos + 1], scope, inner)
    BY <1>7 DEF File!OpenVariable
  <2> QED  BY <1>5, <1>7, <2>1 DEF File!OpenVariable
<1>8. CASE (File!Nil \/ File!Close) /\ UNCHANGED vars
  <2>1. outcome = "written" /\ UNCHANGED <<file, outcome>>
    BY <1>8 DEF File!Nil, File!Close, File!WantsNode, File!Reading
  <2>2. PICK text, m, b, k : WrittenBy(text) /\ Copies(text, m, b) /\ Progress(text, m, b, k)
                             /\ Matched(m)
    BY <1>2, <2>1
  <2>3. Copies(text, m, b)' /\ Progress(text, m, b, k + 1)' /\ Matched(m)'
    BY <1>8, <2>2, CopyNil, CopyClose
  <2> QED  BY <1>1, <1>8, <2>1, <2>2, <2>3
<1>9. CASE File!Finish /\ UNCHANGED vars
  BY <1>9, CopyEnds
<1>10. CASE (File!Reject \/ File!Overrun) /\ UNCHANGED vars
  <2>1. outcome' \in {"rejected", "aborted"}
    BY <1>10 DEF File!Reject, File!Overrun
  <2> QED  BY <2>1 DEF CopyInv
<1> QED
  BY <1>3, <1>4, <1>6, <1>7, <1>8, <1>9, <1>10
     DEF TreeNext, Analyze, ReadTree, File!Read, allVars

(* Where the pointers do not go in circles, the tree below a node is what   *)
(* its definition says.                                                    *)
Unfolds(ns) ==
  /\ Tree(ns, NULL) = << >>
  /\ \A w \in 1..Len(ns) :
        Tree(ns, w) = <<ns[w].tok, Tree(ns, ns[w].left), Tree(ns, ns[w].right)>>

LEMMA TreeUnfolds ==
  ASSUME NEW ns, NEW n \in Nat, Len(ns) = n, NEW R \in Nat, NEW rank \in [0..n -> 0..R],
         \A w \in 1..n : \A c \in {ns[w].left, ns[w].right} : c \in 0..n /\ rank[c] < rank[w]
  PROVE  Unfolds(ns)
<1> DEFINE val(w, f) == IF w = NULL THEN << >>
                        ELSE <<ns[w].tok, f[ns[w].left], f[ns[w].right]>>
           Lower(r) == {w \in 0..n : rank[w] < r}
           Good(r) == \E f : f = [w \in Lower(r) |-> val(w, f)]
<1>1. Good(0)
  <2> DEFINE f == [w \in Lower(0) |-> 0]
  <2>1. Lower(0) = {}
    OBVIOUS
  <2> HIDE DEF Lower, val
  <2>2. f = [w \in Lower(0) |-> val(w, f)]
    BY <2>1
  <2> QED  BY <2>2
<1>2. ASSUME NEW r \in 0..R, Good(r) PROVE Good(r + 1)
  <2>1. PICK f : f = [w \in Lower(r) |-> val(w, f)]
    BY <1>2
  <2> DEFINE g == [w \in Lower(r + 1) |-> val(w, f)]
  <2>2. ASSUME NEW w \in Lower(r + 1) PROVE val(w, f) = val(w, g)
    <3>1. CASE w = NULL
      BY <3>1
    <3>2. CASE w # NULL
      <4>1. w \in 1..n
        BY <3>2 DEF NULL
      <4>2. \A c \in {ns[w].left, ns[w].right} : c \in Lower(r) /\ c \in Lower(r + 1)
        BY <2>2, <4>1
      <4>3. \A c \in {ns[w].left, ns[w].right} : f[c] = val(c, f) /\ g[c] = val(c, f)
        <5> HIDE DEF Lower, val
        <5> QED  BY <2>1, <4>2
      <4>4. f[ns[w].left] = g[ns[w].left] /\ f[ns[w].right] = g[ns[w].right]
        <5> HIDE DEF val, g
        <5> QED  BY <4>3
      <4> HIDE DEF g
      <4> QED  BY <4>4
    <3> QED  BY <3>1, <3>2
  <2>3. g = [w \in Lower(r + 1) |-> val(w, g)]
    <3>1. \A w \in Lower(r + 1) : val(w, f) = val(w, g)
      BY <2>2
    <3>2. PICK h : h = g
      OBVIOUS
    <3>3. h = [w \in Lower(r + 1) |-> val(w, f)] /\ \A w \in Lower(r + 1) : val(w, f) = val(w, h)
      BY <3>1, <3>2
    <3> HIDE DEF g, val, Lower
    <3>4. h = [w \in Lower(r + 1) |-> val(w, h)]
      BY ONLY <3>3
    <3> QED  BY <3>2, <3>4
  <2> HIDE DEF g, val, Lower
  <2> QED  BY <2>3
<1>3. Good(R + 1)
  <2> DEFINE G == {r \in 1 .. R+1 : Good(r)}
  <2>1. ASSUME NEW r \in 1 .. R+1, 1 .. r-1 \subseteq G PROVE r \in G
    <3>1. r - 1 \in 0..R /\ (r - 1) + 1 = r
      OBVIOUS
    <3>2. r - 1 = 0 \/ r - 1 \in 1 .. r-1
      OBVIOUS
    <3> HIDE DEF Good
    <3>3. Good(r - 1)
      BY <1>1, <2>1, <3>2
    <3> QED  BY <1>2, <3>1, <3>3
  <2>2. R + 1 \in Nat /\ R + 1 \in 1 .. R+1
    OBVIOUS
  <2>3. 1 .. R+1 \subseteq G
    <3> HIDE DEF G
    <3> QED  BY <2>1, <2>2, UpInduction
  <2> HIDE DEF Good
  <2> QED  BY <2>2, <2>3
<1>4. Lower(R + 1) = 0..n
  OBVIOUS
<1> DEFINE T == CHOOSE f : f = [w \in 0..n |-> val(w, f)]
<1>5. T = [w \in 0..n |-> val(w, T)]
  <2> HIDE DEF val, Lower
  <2>1. \E f : f = [w \in 0..n |-> val(w, f)]
    BY <1>3, <1>4
  <2> QED  BY ONLY <2>1
<1>6. \A v : Tree(ns, v) = T[v]
  BY DEF Tree
<1> HIDE DEF T
<1>7. \A w \in 0..n : T[w] = val(w, T)
  <2> HIDE DEF val
  <2> QED  BY <1>5
<1>8. T[NULL] = << >> /\ \A w \in 1..n : T[w] = <<ns[w].tok, T[ns[w].left], T[ns[w].right]>>
  <2>1. NULL \in 0..n /\ \A w \in 1..n : w \in 0..n /\ w # NULL
    BY DEF NULL
  <2> QED  BY <1>7, <2>1
<1> QED  BY <1>6, <1>8 DEF Unfolds

(* The writer's tree has no circle, and neither has the reader's, in which  *)
(* a node is made before its children.                                     *)
LEMMA WriterUnfolds == ASSUME TypeOK, Trees PROVE Unfolds(nodes)
<1>1. PICK tree, rank : \E R \in Nat : Ranked(tree, rank, R) /\ Rooted(tree)
  BY DEF Trees
<1>2. PICK R \in Nat : Ranked(tree, rank, R)
  BY <1>1
<1>3. PICK ns, n : ns = nodes /\ n = Len(nodes)
  OBVIOUS
<1>4. n \in Nat /\ \A v \in 1..n : ns[v] \in Nodes(n)
  BY <1>3, ElementOfSeq DEF TypeOK, HeapOK
<1>5. rank \in [1..n -> 0..R]
  BY <1>2, <1>3 DEF Ranked
<1> DEFINE over == [v \in 0..n |-> IF v = 0 THEN 0 ELSE rank[v] + 1]
<1>6. R + 1 \in Nat /\ over \in [0..n -> 0 .. R+1]
  BY <1>4, <1>5
<1>7. \A w \in 1..n : \A c \in {ns[w].left, ns[w].right} : c \in 0..n /\ over[c] < over[w]
  <2> SUFFICES ASSUME NEW w \in 1..n, NEW c \in {ns[w].left, ns[w].right}
               PROVE  c \in 0..n /\ over[c] < over[w]
    OBVIOUS
  <2>1. c \in 0..n
    <3>1. ns[w] \in Nodes(n)
      BY <1>4
    <3> QED  BY ONLY <3>1, c \in {ns[w].left, ns[w].right} DEF Nodes
  <2>2. over[w] = rank[w] + 1 /\ rank[w] \in 0..R
    BY <1>4, <1>5
  <2>3. CASE c = 0
    BY <1>4, <2>1, <2>2, <2>3
  <2>4. CASE c # 0
    <3>1. rank[c] < rank[w]
      BY <1>2, <1>3, <2>4 DEF Ranked, NULL
    <3>2. c \in 1..n
      BY <1>4, <2>1, <2>4
    <3>3. over[c] = rank[c] + 1 /\ rank[c] \in 0..R
      BY <1>4, <1>5, <3>2
    <3> QED  BY <2>1, <2>2, <3>1, <3>3
  <2> QED  BY <2>3, <2>4
<1> HIDE DEF over
<1>8. Unfolds(ns)
  BY ONLY <1>3, <1>4, <1>6, <1>7, TreeUnfolds
<1> QED  BY <1>3, <1>8

LEMMA ReaderUnfolds == ASSUME HeapTyped, Forward PROVE Unfolds(r_nodes)
<1>1. PICK ns, n : ns = r_nodes /\ n = N
  OBVIOUS
<1>2. n \in Nat /\ Len(ns) = n
  BY <1>1 DEF HeapTyped, N
<1> DEFINE rank == [v \in 0..n |-> IF v = 0 THEN 0 ELSE n + 1 - v]
<1>3. n + 1 \in Nat /\ rank \in [0..n -> 0 .. n+1]
  BY <1>2
<1>4. \A w \in 1..n : \A c \in {ns[w].left, ns[w].right} : c \in 0..n /\ rank[c] < rank[w]
  <2> SUFFICES ASSUME NEW w \in 1..n, NEW side \in File!Sides
               PROVE  ns[w][side] \in 0..n /\ rank[ns[w][side]] < rank[w]
    BY DEF File!Sides
  <2>1. PICK c : c = ns[w][side]
    OBVIOUS
  <2>2. c # NULL => c \in w+1 .. n
    BY <1>1, <2>1 DEF Forward, Child
  <2>3. c = 0 \/ c \in w+1 .. n
    BY <2>2 DEF NULL
  <2>4. c \in 0..n /\ rank[c] < rank[w]
    BY ONLY <1>2, <2>3, w \in 1..n
  <2> QED  BY <2>1, <2>4
<1> HIDE DEF rank
<1>5. Unfolds(ns)
  BY ONLY <1>2, <1>3, <1>4, TreeUnfolds
<1> QED  BY <1>1, <1>5

(* A tree that is read without an error is the tree that was written, also *)
(* when a full disk has cut the file short (ast.cpp, fwrite_node_ and      *)
(* fread_node_infix_).                                                     *)
THEOREM TreeReadIsWritten == TreeSpec => []ReadIsWritten
<1>1. ASSUME WriterInv, ReaderInv, CopyInv PROVE ReadIsWritten
  <2> SUFFICES ASSUME outcome = "read" PROVE Tree(r_nodes, r_root) = Tree(nodes, Program)
    BY DEF ReadIsWritten, Finished
  <2>1. Unfolds(nodes) /\ Unfolds(r_nodes)
    BY <1>1, WriterUnfolds, ReaderUnfolds DEF WriterInv, IInv, ReaderInv
  <2>2. PICK m : /\ m \in [1..N -> 1..Len(nodes)] /\ m[1] = Program
                 /\ \A i \in 1..N : /\ r_nodes[i].tok = nodes[m[i]].tok
                                    /\ \A side \in File!Sides : Matches(m, i, side)
    BY <1>1 DEF CopyInv
  <2>3. N \in Nat /\ N # 0 /\ r_root = 1 /\ 1 \in 1..N
    <3>1. N \in Nat /\ N # 0
      BY <1>1 DEF ReaderInv, HeapTyped, N, CopyInv
    <3>2. r_nodes # << >>
      BY <3>1 DEF N
    <3> QED  BY <1>1, <3>1, <3>2 DEF ReaderInv
  <2> DEFINE G == {i \in 1..N : Tree(r_nodes, i) = Tree(nodes, m[i])}
  <2>4. ASSUME NEW i \in 1..N, i+1 .. N \subseteq G PROVE i \in G
    <3>1. \A side \in File!Sides : Tree(r_nodes, r_nodes[i][side]) = Tree(nodes, nodes[m[i]][side])
      <4> SUFFICES ASSUME NEW side \in File!Sides
                   PROVE  Tree(r_nodes, r_nodes[i][side]) = Tree(nodes, nodes[m[i]][side])
        OBVIOUS
      <4>1. Matches(m, i, side)
        BY <2>2
      <4>2. CASE Child(i, side) = NULL
        BY <2>1, <4>1, <4>2 DEF Matches, Child, Unfolds
      <4>3. CASE Child(i, side) # NULL
        <5>1. Child(i, side) \in G
          BY <1>1, <2>4, <4>3 DEF ReaderInv, Forward
        <5> QED  BY <4>1, <4>3, <5>1 DEF Matches, Child
      <4> QED  BY <4>2, <4>3
    <3>2. Tree(r_nodes, i) = <<r_nodes[i].tok, Tree(r_nodes, r_nodes[i].left),
                               Tree(r_nodes, r_nodes[i].right)>>
      BY <2>1 DEF Unfolds, N
    <3>3. m[i] \in 1..Len(nodes)
      BY <2>2
    <3>4. Tree(nodes, m[i]) = <<nodes[m[i]].tok, Tree(nodes, nodes[m[i]].left),
                                Tree(nodes, nodes[m[i]].right)>>
      BY <2>1, <3>3 DEF Unfolds
    <3>5. /\ Tree(r_nodes, r_nodes[i].left) = Tree(nodes, nodes[m[i]].left)
          /\ Tree(r_nodes, r_nodes[i].right) = Tree(nodes, nodes[m[i]].right)
      BY <3>1 DEF File!Sides
    <3> QED  BY <2>2, <3>2, <3>4, <3>5
  <2>5. 1..N \subseteq G
    <3> HIDE DEF G
    <3> QED  BY <2>3, <2>4, DownInduction
  <2> QED  BY <2>2, <2>3, <2>5
<1>2. TreeInit => WriterInv /\ ReaderInv /\ FileInv /\ CopyInv
  BY WriterInitially, TreeInitInv, FileInitially, CopyInitially DEF TreeInit
<1>3. WriterInv /\ ReaderInv /\ FileInv /\ CopyInv /\ [TreeNext]_allVars
        => (WriterInv /\ ReaderInv /\ FileInv /\ CopyInv)'
  <2>1. [TreeNext]_allVars => [Next]_vars
    BY DEF TreeNext, Analyze, WriteTree, ReadTree, allVars
  <2> QED  BY <2>1, WriterStep, TreeStep, FileStep, CopyStep
<1> QED  BY <1>1, <1>2, <1>3, PTL DEF TreeSpec
=============================================================================
