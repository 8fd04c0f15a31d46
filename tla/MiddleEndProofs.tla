-------------------------- MODULE MiddleEndProofs --------------------------
(***************************************************************************)
(* What optimize keeps, whatever tree was read: every node but the root    *)
(* hangs in one place or is marked once, and an operator's parent pointer  *)
(* leads to the node it hangs on.  So ast::dtor, which frees the tree and   *)
(* what is below the marks, frees nothing twice.  And what optimize gives  *)
(* has nothing left that it would cut or fold.                             *)
(*                                                                         *)
(* The tree is the reader's (TreeFileProofs) when optimize begins.  A cut  *)
(* moves a node from its place to the marks.  Folding hangs a new node in  *)
(* the place of an operator and marks the operator.  For that the operator *)
(* must still hang where its parent pointer says: a node const_fold_ has   *)
(* yet to visit hangs on one that it will leave later, and is there only   *)
(* once.                                                                   *)
(***************************************************************************)
EXTENDS MiddleEnd, TreeFileProofs, FiniteSetTheorems

M == Len(r_to_delete)

(* The nodes but the root, in the tree or marked. *)
MarksInv ==
  /\ r_to_delete \in Seq(Nat)
  /\ \A i \in 1..M : r_to_delete[i] \in 2..N
  /\ \A i, j \in 1..M : r_to_delete[i] = r_to_delete[j] => i = j
  /\ \A i \in 1..M : \A u \in 1..N : \A s \in File!Sides : Child(u, s) # r_to_delete[i]

Hangs(v) == \E u \in 1..N : \E s \in File!Sides : Child(u, s) = v
IsMarked(v) == \E i \in 1..M : r_to_delete[i] = v

KeptInv == \A v \in 2..N : Hangs(v) \/ IsMarked(v)

ParentsInv ==
  /\ parents \in Seq(Nat) /\ Len(parents) = N
  /\ parents[1] = NULL
  /\ \A u \in 1..N : \A s \in File!Sides :
        Child(u, s) # NULL /\ r_nodes[Child(u, s)].tok \in Opt!Operators
        => parents[Child(u, s)] = u

VisitRecord == [step : {"dead", "enter", "leave"}, node : 1..N]

(* What const_fold_ has yet to do: each node hangs on one that is left     *)
(* later.                                                                  *)
Supported(i) ==
  \/ todo[i].node = 1
  \/ \E j \in i+1 .. Len(todo) : \E s \in File!Sides :
        todo[j].step = "leave" /\ Child(todo[j].node, s) = todo[i].node

FoldingInv ==
  /\ \A i, j \in 1..Len(todo) : todo[i].node = todo[j].node => i = j
  /\ \A i \in 1..Len(todo) : Supported(i)

TodoInv ==
  /\ todo \in Seq(VisitRecord)
  /\ phase = "folding" => FoldingInv

ShapeInv ==
  /\ HeapTyped /\ Forward /\ Once /\ MarksInv /\ KeptInv
  /\ r_root = IF r_nodes = << >> THEN NULL ELSE 1

OptInv ==
  /\ outcome = "read" /\ ShapeInv
  /\ r_root = NULL => phase = "aborted"
  /\ r_root # NULL => ParentsInv /\ TodoInv

MiddleInv == IF phase = "read" THEN ReaderInv ELSE OptInv

-----------------------------------------------------------------------------
(* Lemmas. *)

LEMMA HeadAndTail ==
  ASSUME NEW S, NEW s \in Seq(S), s # << >>
  PROVE  /\ Len(s) \in Nat /\ Len(s) >= 1 /\ Head(s) = s[1] /\ Head(s) \in S
         /\ Tail(s) \in Seq(S) /\ Len(Tail(s)) = Len(s) - 1
         /\ \A i \in 1 .. Len(s) - 1 : Tail(s)[i] = s[i + 1]
  OBVIOUS

LEMMA LiteralsOrdinary ==
  ASSUME ValueAssumption, NEW t \in DOMAIN Value
  PROVE  t \notin Opt!Operators /\ t # ";" /\ t # "return"
<1>1. Opt!Operators \cup {";", "return"} \subseteq Reserved
  <2>1. \A k \in 1..7 : Levels[k] \subseteq Reserved
    BY DEF Reserved, BinaryOperators
  <2>2. {1, 2, 3, 4, 5, 6, 7} \subseteq 1..7
    OBVIOUS
  <2>3. {"+", "-", "*", "/", "^", "|", "&", "==", "!=", ">", "<", ">=", "<="} \subseteq Reserved
    BY <2>1, <2>2 DEF Levels
  <2>4. {"=", "@", ";", "return"} \subseteq Reserved
    BY DEF Reserved, Keywords, Separators
  <2> QED  BY <2>3, <2>4 DEF Opt!Operators
<1> QED  BY <1>1 DEF ValueAssumption

LEMMA HeapSizes ==
  ASSUME HeapTyped
  PROVE  /\ N \in Nat
         /\ \A u \in 1..N : \A s \in File!Sides : Child(u, s) \in Nat
<1>1. PICK X : r_nodes \in Seq(ReadNode(X))
  BY DEF HeapTyped
<1>2. \A u \in 1..N : r_nodes[u] \in ReadNode(X)
  BY <1>1 DEF N
<1> QED  BY <1>1, <1>2 DEF N, Child, ReadNode, File!Sides

LEMMA ShapeFacts ==
  ASSUME ShapeInv
  PROVE  /\ N \in Nat /\ M \in Nat
         /\ r_root # NULL <=> N >= 1
         /\ r_root = IF N = 0 THEN NULL ELSE 1
         /\ \A u \in 1..N : \A s \in File!Sides : Child(u, s) \in Nat
<1>1. HeapTyped /\ r_to_delete \in Seq(Nat) /\ r_root = IF r_nodes = << >> THEN NULL ELSE 1
  BY DEF ShapeInv, MarksInv
<1>2. /\ N \in Nat
      /\ \A u \in 1..N : \A s \in File!Sides : Child(u, s) \in Nat
  BY <1>1, HeapSizes
<1>3. r_nodes = << >> <=> N = 0
  BY <1>1 DEF HeapTyped, N
<1> QED  BY <1>1, <1>2, <1>3 DEF M, NULL

(* The tree of the reader. *)
LEMMA ReaderShape ==
  ASSUME ReaderInv, outcome = "read"
  PROVE  ShapeInv
<1>1. /\ HeapTyped /\ Forward /\ Once /\ Hanging /\ r_to_delete = << >>
      /\ r_root = IF r_nodes = << >> THEN NULL ELSE 1
  BY DEF ReaderInv
<1>2. MarksInv
  BY <1>1 DEF MarksInv, M
<1>3. KeptInv
  BY <1>1 DEF KeptInv, Hangs, Hanging
<1> QED  BY <1>1, <1>2, <1>3 DEF ShapeInv

-----------------------------------------------------------------------------
(* The theorems' properties follow from the invariant. *)

LEMMA ShapeTreeOrMarked == ASSUME ShapeInv PROVE TreeOrMarked
<1> DEFINE hooks == Hooks
           hung == {r_nodes[p[1]][p[2]] : p \in hooks}
           marked == ToSet(r_to_delete)
<1>1. N \in Nat /\ M \in Nat /\ r_root = IF N = 0 THEN NULL ELSE 1
  BY ShapeFacts
<1>2. hooks = {p \in (1..N) \X File!Sides : Child(p[1], p[2]) # NULL}
  BY DEF Hooks, N, Child
<1>3. hung = {Child(p[1], p[2]) : p \in hooks}
  BY DEF Child
<1>4. marked = {r_to_delete[i] : i \in 1..M}
  BY DEF ShapeInv, MarksInv, ToSet, M
<1> HIDE DEF hooks, hung, marked
<1>5. \A p \in hooks : Child(p[1], p[2]) \in p[1]+1 .. N
  BY <1>2 DEF ShapeInv, Forward
<1>6. \A p \in hooks : Child(p[1], p[2]) > p[1]
  BY <1>1, <1>2, <1>5
<1>7. Cardinality(hooks) = Cardinality(hung)
  <2>1. IsFiniteSet(hooks)
    <3>1. IsFiniteSet(1..N)
      BY <1>1, FS_Interval
    <3>2. IsFiniteSet({"left"} \cup {"right"})
      BY FS_Singleton, FS_AddElement
    <3>3. File!Sides = {"left"} \cup {"right"}
      BY DEF File!Sides
    <3>4. IsFiniteSet((1..N) \X File!Sides)
      BY <3>1, <3>2, <3>3, FS_Product
    <3>5. hooks \in SUBSET ((1..N) \X File!Sides)
      BY <1>2
    <3> QED  BY <3>4, <3>5, FS_Subset
  <2> DEFINE f == [p \in hooks |-> Child(p[1], p[2])]
  <2>2. f \in Surjection(hooks, hung)
    BY <1>3 DEF Surjection
  <2>3. \A p, q \in hooks : f[p] = f[q] => p = q
    BY <1>2 DEF ShapeInv, Once
  <2>4. f \in Injection(hooks, hung)
    BY <1>3, <2>3 DEF Injection, IsInjective
  <2> HIDE DEF f
  <2> QED  BY <2>1, <2>2, <2>4, FS_Surjection
<1>8. Cardinality(marked) = Len(r_to_delete)
  <2>1. IsFiniteSet(1..M) /\ Cardinality(1..M) = M
    BY <1>1, FS_Interval
  <2> DEFINE f == [i \in 1..M |-> r_to_delete[i]]
  <2>2. f \in Surjection(1..M, marked)
    BY <1>4 DEF Surjection
  <2>3. f \in Injection(1..M, marked)
    BY <1>4 DEF Injection, IsInjective, ShapeInv, MarksInv
  <2> HIDE DEF f
  <2>4. Cardinality(marked) = Cardinality(1..M)
    BY <2>1, <2>2, <2>3, FS_Surjection
  <2> QED  BY <2>1, <2>4 DEF M
<1>9. hung \cap marked = {}
  <2> SUFFICES ASSUME NEW p \in hooks, NEW i \in 1..M, Child(p[1], p[2]) = r_to_delete[i]
               PROVE  FALSE
    BY <1>3, <1>4
  <2> QED  BY <1>2 DEF ShapeInv, MarksInv
<1>10. hung \cup marked = 2..N
  <2>1. hung \subseteq 2..N
    BY <1>1, <1>2, <1>3, <1>5
  <2>2. marked \subseteq 2..N
    BY <1>4 DEF ShapeInv, MarksInv
  <2>3. ASSUME NEW v \in 2..N PROVE v \in hung \cup marked
    <3>1. CASE Hangs(v)
      <4>1. PICK u \in 1..N, s \in File!Sides : Child(u, s) = v
        BY <3>1 DEF Hangs
      <4>2. <<u, s>> \in hooks
        BY <1>1, <1>2, <4>1 DEF NULL
      <4> QED  BY <1>3, <4>1, <4>2
    <3>2. CASE IsMarked(v)
      BY <1>4, <3>2 DEF IsMarked
    <3> QED  BY <3>1, <3>2 DEF ShapeInv, KeptInv
  <2> QED  BY <2>1, <2>2, <2>3
<1>11. 2..N = (1..N) \ {r_root}
  BY <1>1 DEF NULL
<1> QED
  BY <1>6, <1>7, <1>8, <1>9, <1>10, <1>11 DEF TreeOrMarked, Child, N, hooks, hung, marked

LEMMA ParentsOfOperators == ASSUME OptInv, ParentsInv PROVE ParentsLead
  BY DEF ParentsLead, ParentsInv, Child, N, File!Sides

-----------------------------------------------------------------------------
(* The shape of the tree when it is cut and folded. *)

(* A node is marked that hangs no longer. *)
LEMMA OneMoreMark ==
  ASSUME MarksInv, N \in Nat, M \in Nat, N' \in Nat, N' >= N, NEW w \in 2..N,
         r_to_delete' = Append(r_to_delete, w), \A i \in 1..M : r_to_delete[i] # w,
         \A u \in 1..N' : \A s \in File!Sides : Child(u, s)' # w,
         \A u \in 1..N' : \A s \in File!Sides :
            Child(u, s)' # NULL /\ Child(u, s)' \in 1..N
            => u \in 1..N /\ Child(u, s)' = Child(u, s)
  PROVE  MarksInv' /\ \A x : IsMarked(x)' <=> IsMarked(x) \/ x = w
<1>1. /\ r_to_delete' \in Seq(Nat) /\ M' = M + 1 /\ r_to_delete'[M + 1] = w
      /\ \A i \in 1..M : r_to_delete'[i] = r_to_delete[i]
  <2>1. r_to_delete \in Seq(Nat) /\ w \in Nat
    BY DEF MarksInv
  <2>2. r_to_delete' = Append(r_to_delete, w)
    OBVIOUS
  <2> QED  BY ONLY <2>1, <2>2 DEF M
<1>2. /\ \A i \in 1..M : r_to_delete[i] \in 2..N
      /\ \A i, j \in 1..M : r_to_delete[i] = r_to_delete[j] => i = j
      /\ \A i \in 1..M : \A u \in 1..N : \A s \in File!Sides : Child(u, s) # r_to_delete[i]
  BY DEF MarksInv
<1>3. \A i \in 1 .. M+1 : i \in 1..M \/ i = M + 1
  OBVIOUS
<1>4. \A i \in 1 .. M+1 : r_to_delete'[i] \in 2..N'
  BY <1>1, <1>2, <1>3, SMTT(20)
<1>5. \A i, j \in 1 .. M+1 : r_to_delete'[i] = r_to_delete'[j] => i = j
  BY <1>1, <1>2, <1>3, ZenonT(40)
<1>6. ASSUME NEW i \in 1..M, NEW u \in 1..N', NEW s \in File!Sides
      PROVE  Child(u, s)' # r_to_delete'[i]
  <2>1. r_to_delete'[i] \in 2..N /\ r_to_delete'[i] = r_to_delete[i]
    BY <1>1, <1>2
  <2>2. r_to_delete'[i] # NULL /\ r_to_delete'[i] \in 1..N
    BY <2>1 DEF NULL
  <2> QED  BY <1>2, <2>1, <2>2
<1>7. MarksInv'
  BY ONLY <1>1, <1>3, <1>4, <1>5, <1>6,
          \A u \in 1..N' : \A s \in File!Sides : Child(u, s)' # w DEF MarksInv
<1>8. ASSUME NEW x PROVE IsMarked(x)' <=> IsMarked(x) \/ x = w
  <2>1. M + 1 \in 1 .. M+1 /\ \A i \in 1..M : i \in 1 .. M+1
    OBVIOUS
  <2> QED  BY ONLY <1>1, <1>3, <2>1 DEF IsMarked
<1> QED  BY <1>7, <1>8

(* A pointer is taken out of the tree, and the node it led to is marked.   *)
LEMMA CutShape ==
  ASSUME ShapeInv, N >= 1, NEW v \in 1..N,
         r_nodes' = Opt!Pruned(v), UNCHANGED r_root,
         r_to_delete' = IF Child(v, "right") = NULL THEN r_to_delete
                        ELSE Append(r_to_delete, Child(v, "right"))
  PROVE  /\ ShapeInv' /\ N' = N
         /\ \A u \in 1..N : r_nodes'[u].tok = r_nodes[u].tok
         /\ \A u \in 1..N : \A s \in File!Sides :
               Child(u, s)' = IF u = v /\ s = "right" THEN NULL ELSE Child(u, s)
<1> DEFINE w == Child(v, "right")
<1>1. /\ N \in Nat /\ M \in Nat /\ r_root = 1
      /\ \A u \in 1..N : \A s \in File!Sides : Child(u, s) \in Nat
      /\ v \in 1..N /\ "right" \in File!Sides /\ "left" \in File!Sides
  BY ShapeFacts DEF File!Sides
<1>2. PICK X : r_nodes \in Seq(ReadNode(X))
  BY DEF ShapeInv, HeapTyped
<1>3. r_nodes' = [r_nodes EXCEPT ![v] = [@ EXCEPT !.right = NULL]]
  BY DEF Opt!Pruned, Opt!NULL, NULL
<1>4. r_nodes[v] \in ReadNode(X) /\ NULL \in Nat
  BY <1>1, <1>2 DEF N, NULL
<1>5. [r_nodes[v] EXCEPT !.right = NULL] \in ReadNode(X)
  BY ONLY <1>4 DEF ReadNode
<1>6. r_nodes' \in Seq(ReadNode(X)) /\ Len(r_nodes') = N
  BY ONLY <1>1, <1>2, <1>3, <1>5 DEF N
<1>7. HeapTyped' /\ N' = N
  BY ONLY <1>6 DEF HeapTyped, N
<1>8. \A u \in 1..N : r_nodes'[u] = IF u = v THEN [r_nodes[v] EXCEPT !.right = NULL] ELSE r_nodes[u]
  BY ONLY <1>1, <1>2, <1>3 DEF N
<1>9. \A u \in 1..N : r_nodes'[u].tok = r_nodes[u].tok
  BY ONLY <1>4, <1>8 DEF ReadNode
<1>10. \A u \in 1..N : \A s \in File!Sides :
          Child(u, s)' = IF u = v /\ s = "right" THEN NULL ELSE Child(u, s)
  BY ONLY <1>4, <1>8 DEF ReadNode, Child, File!Sides
<1>11. /\ Forward /\ Once /\ MarksInv /\ KeptInv
       /\ w # NULL => w \in 2..N
  BY <1>1 DEF ShapeInv, Forward
<1> HIDE DEF w
<1>12. Forward'
  BY ONLY <1>7, <1>10, <1>11 DEF Forward
<1>13. Once'
  BY ONLY <1>7, <1>10, <1>11 DEF Once
<1>14. CASE w = NULL
  <2>1. r_to_delete' = r_to_delete /\ M' = M
    BY <1>14 DEF w, M
  <2>2. \A u \in 1..N : \A s \in File!Sides : Child(u, s)' = Child(u, s)
    BY <1>10, <1>14 DEF w
  <2>3. MarksInv'
    BY ONLY <1>7, <1>11, <2>1, <2>2 DEF MarksInv
  <2>4. KeptInv'
    BY ONLY <1>7, <1>11, <2>1, <2>2 DEF KeptInv, Hangs, IsMarked
  <2> QED  BY <1>1, <1>7, <1>9, <1>10, <1>12, <1>13, <2>3, <2>4 DEF ShapeInv, N
<1>15. CASE w # NULL
  <2>1. r_to_delete' = Append(r_to_delete, w) /\ w \in 2..N /\ w = Child(v, "right")
    BY <1>11, <1>15 DEF w
  <2>2. \A u \in 1..N : \A s \in File!Sides : Child(u, s)' # w
    BY ONLY <1>1, <1>10, <1>11, <1>15, <2>1 DEF Once
  <2>3. \A i \in 1..M : r_to_delete[i] # w
    BY ONLY <1>1, <1>11, <2>1 DEF MarksInv
  <2>4. \A u \in 1..N : \A s \in File!Sides : Child(u, s)' # NULL => Child(u, s)' = Child(u, s)
    BY ONLY <1>10
  <2>5. MarksInv' /\ \A x : IsMarked(x)' <=> IsMarked(x) \/ x = w
    <3>1. N' \in Nat /\ N' >= N
      BY <1>1, <1>7
    <3>2. /\ \A u \in 1..N' : \A s \in File!Sides : Child(u, s)' # w
          /\ \A u \in 1..N' : \A s \in File!Sides :
                Child(u, s)' # NULL /\ Child(u, s)' \in 1..N
                => u \in 1..N /\ Child(u, s)' = Child(u, s)
      BY ONLY <1>7, <2>2, <2>4
    <3> QED  BY ONLY <1>1, <1>11, <2>1, <2>3, <3>1, <3>2, OneMoreMark
  <2>6. KeptInv'
    <3> SUFFICES ASSUME NEW u \in 2..N, ~ IsMarked(u), u # w PROVE Hangs(u)'
      BY <1>7, <2>5 DEF KeptInv
    <3>1. PICK x \in 1..N, s \in File!Sides : Child(x, s) = u
      BY <1>11 DEF KeptInv, Hangs
    <3>2. Child(x, s)' = u
      BY <1>10, <2>1, <3>1
    <3> QED  BY <1>7, <3>2 DEF Hangs
  <2> QED  BY <1>1, <1>7, <1>9, <1>10, <1>12, <1>13, <2>5, <2>6 DEF ShapeInv, N
<1> QED  BY <1>14, <1>15

(* A literal is hung in the place of an operator, which is marked.         *)
LEMMA FoldShape ==
  ASSUME ShapeInv, N >= 1, NEW v \in 2..N, NEW p \in 1..N, NEW side \in File!Sides,
         Child(p, side) = v, NEW literal, r_nodes' = Opt!Hung(Opt!Node(literal), v, p),
         UNCHANGED r_root, r_to_delete' = Opt!Marked(v)
  PROVE  /\ ShapeInv' /\ Grown(p, side)
         /\ \A u \in 1..N : r_nodes'[u].tok = r_nodes[u].tok
         /\ r_nodes'[N + 1].tok = literal
<1> DEFINE node == Opt!Node(literal)
           grown == Append(r_nodes, node)
<1>1. /\ N \in Nat /\ M \in Nat /\ r_root = 1 /\ v # NULL
      /\ \A u \in 1..N : \A s \in File!Sides : Child(u, s) \in Nat
      /\ "right" \in File!Sides /\ "left" \in File!Sides
  BY ShapeFacts DEF File!Sides, NULL
<1>2. PICK X : r_nodes \in Seq(ReadNode(X))
  BY DEF ShapeInv, HeapTyped
<1> DEFINE Y == X \cup {literal, 0}
<1>3. /\ node \in ReadNode(Y) /\ node.tok = literal /\ node.left = NULL /\ node.right = NULL
  BY DEF Opt!Node, Opt!NULL, NULL, ReadNode
<1>4. r_nodes \in Seq(ReadNode(Y))
  <2>1. ReadNode(X) \subseteq ReadNode(Y)
    BY DEF ReadNode
  <2> QED  BY ONLY <1>2, <2>1, WiderSequence
<1> HIDE DEF node, Y
<1>5. /\ grown \in Seq(ReadNode(Y)) /\ Len(grown) = N + 1 /\ grown[N + 1] = node
      /\ \A u \in 1..N : grown[u] = r_nodes[u]
  BY ONLY <1>3, <1>4 DEF N
<1>6. r_nodes' = [grown EXCEPT ![p].left = IF @ = v THEN N + 1 ELSE @,
                               ![p].right = IF @ = v THEN N + 1 ELSE @]
  BY DEF Opt!Hung, N, grown, node
<1> HIDE DEF grown
<1>7. r_nodes[p] \in ReadNode(Y) /\ grown[p] = r_nodes[p] /\ N + 1 \in Nat
  BY <1>1, <1>4, <1>5 DEF N
<1> DEFINE new == [r_nodes[p] EXCEPT !.left = IF @ = v THEN N + 1 ELSE @,
                                     !.right = IF @ = v THEN N + 1 ELSE @]
<1>8. /\ new \in ReadNode(Y) /\ new.tok = r_nodes[p].tok
      /\ new.left = IF r_nodes[p].left = v THEN N + 1 ELSE r_nodes[p].left
      /\ new.right = IF r_nodes[p].right = v THEN N + 1 ELSE r_nodes[p].right
  BY ONLY <1>7 DEF ReadNode
<1>9. r_nodes' = [grown EXCEPT ![p] = new]
  BY <1>1, <1>5, <1>6, <1>7
<1> HIDE DEF new
<1>10. /\ r_nodes' \in Seq(ReadNode(Y)) /\ Len(r_nodes') = N + 1
       /\ \A u \in 1 .. N+1 : r_nodes'[u] = IF u = p THEN new ELSE grown[u]
  BY ONLY <1>1, <1>5, <1>8, <1>9, p \in 1..N
<1>11. HeapTyped' /\ N' = N + 1
  BY ONLY <1>10 DEF HeapTyped, N
<1>12. p \in 1 .. N+1 /\ N + 1 \in 1 .. N+1 /\ N + 1 # p /\ \A u \in 1..N : u \in 1 .. N+1
  BY <1>1
<1>13. /\ \A u \in 1..N : r_nodes'[u].tok = r_nodes[u].tok
       /\ r_nodes'[N + 1].tok = literal
  BY ONLY <1>3, <1>5, <1>8, <1>10, <1>12
<1>14. Once
  BY DEF ShapeInv
<1>15. Grown(p, side)
  <2>1. ASSUME NEW u \in 1..N, NEW s \in File!Sides
        PROVE  r_nodes'[u][s] = IF u = p /\ s = side THEN N + 1 ELSE r_nodes[u][s]
    <3>1. CASE u # p
      BY <1>5, <1>10, <1>12, <3>1
    <3>2. CASE u = p
      <4>1. r_nodes'[u] = new
        BY <1>10, <1>12, <3>2
      <4>2. \A t \in File!Sides : new[t] = IF r_nodes[p][t] = v THEN N + 1 ELSE r_nodes[p][t]
        BY ONLY <1>8 DEF File!Sides
      <4>3. \A t \in File!Sides : r_nodes[p][t] = v <=> t = side
        <5>1. Child(p, side) = v /\ p \in 1..N /\ side \in File!Sides
          OBVIOUS
        <5> QED  BY ONLY <1>1, <1>14, <5>1 DEF Once, Child
      <4> QED  BY ONLY <3>2, <4>1, <4>2, <4>3
    <3> QED  BY <3>1, <3>2
  <2>2. \A s \in File!Sides : r_nodes'[N + 1][s] = NULL
    BY <1>3, <1>5, <1>10, <1>12 DEF File!Sides
  <2> QED  BY <1>10, <2>1, <2>2 DEF Grown
<1>16. /\ \A u \in 1..N : \A s \in File!Sides :
             Child(u, s)' = IF u = p /\ s = side THEN N + 1 ELSE Child(u, s)
       /\ \A u : u = N + 1 => \A s \in File!Sides : Child(u, s)' = NULL
  BY ONLY <1>15 DEF Grown, Child
<1>17. \A u \in 1 .. N+1 : u \in 1..N \/ u = N + 1
  BY <1>1
<1>18. Forward /\ MarksInv /\ KeptInv
  BY DEF ShapeInv
<1>19. /\ p \in 1..N /\ side \in File!Sides /\ Child(p, side) = v /\ v \in 2..N
       /\ r_to_delete' = Append(r_to_delete, v)
  BY DEF Opt!Marked
<1>20. Forward'
  <2> SUFFICES ASSUME NEW u \in 1 .. N+1, NEW s \in File!Sides, Child(u, s)' # NULL
               PROVE  Child(u, s)' \in u+1 .. N+1
    BY <1>11 DEF Forward
  <2>1. u \in 1..N
    BY <1>16, <1>17
  <2> QED  BY ONLY <1>1, <1>16, <1>18, <2>1, Child(u, s)' # NULL, s \in File!Sides DEF Forward
<1>21. \A u \in 1..N : \A s \in File!Sides : Child(u, s) # NULL => Child(u, s) \in 1..N
  BY ONLY <1>1, <1>18 DEF Forward
<1>22. Once'
  <2> SUFFICES ASSUME NEW u1 \in 1 .. N+1, NEW u2 \in 1 .. N+1,
                      NEW s1 \in File!Sides, NEW s2 \in File!Sides,
                      Child(u1, s1)' = Child(u2, s2)', Child(u1, s1)' # NULL
               PROVE  u1 = u2 /\ s1 = s2
    BY <1>11 DEF Once
  <2>1. u1 \in 1..N /\ u2 \in 1..N
    BY <1>16, <1>17
  <2>2. Child(u1, s1) # N + 1 /\ Child(u2, s2) # N + 1
    <3>1. \A u \in 1..N : \A s \in File!Sides : Child(u, s) # N + 1
      BY ONLY <1>1, <1>21 DEF NULL
    <3> QED  BY <2>1, <3>1
  <2> QED  BY <1>14, <1>16, <2>1, <2>2 DEF Once
<1>23. \A u \in 1 .. N+1 : \A s \in File!Sides : Child(u, s)' # v
  <2>1. N + 1 # v
    BY <1>1, <1>19
  <2>2. \A u \in 1..N : \A s \in File!Sides : Child(u, s) = v => u = p /\ s = side
    BY ONLY <1>1, <1>14, <1>19 DEF Once
  <2> QED  BY ONLY <1>1, <1>16, <1>17, <2>1, <2>2
<1>24. \A i \in 1..M : r_to_delete[i] # v
  BY ONLY <1>18, <1>19 DEF MarksInv
<1>25. \A u \in 1 .. N+1 : \A s \in File!Sides :
          Child(u, s)' # NULL /\ Child(u, s)' \in 1..N
          => u \in 1..N /\ Child(u, s)' = Child(u, s)
  <2>1. N + 1 \notin 1..N
    BY <1>1
  <2> QED  BY ONLY <1>16, <1>17, <2>1
<1>26. MarksInv' /\ \A x : IsMarked(x)' <=> IsMarked(x) \/ x = v
  <2>1. N' \in Nat /\ N' >= N
    BY <1>1, <1>11
  <2> QED  BY ONLY <1>1, <1>11, <1>18, <1>19, <1>23, <1>24, <1>25, <2>1, OneMoreMark
<1>27. KeptInv'
  <2> SUFFICES ASSUME NEW u \in 2 .. N+1, ~ IsMarked(u), u # v PROVE Hangs(u)'
    BY <1>11, <1>26 DEF KeptInv
  <2>1. CASE u = N + 1
    <3>1. Child(p, side)' = u
      BY <1>16, <2>1
    <3> QED  BY <1>11, <1>12, <3>1 DEF Hangs
  <2>2. CASE u # N + 1
    <3>1. u \in 2..N
      BY <1>1, <2>2
    <3>2. PICK x \in 1..N, s \in File!Sides : Child(x, s) = u
      BY <1>18, <3>1 DEF KeptInv, Hangs
    <3>3. Child(x, s)' = u
      BY <1>16, <1>19, <3>2
    <3>4. x \in 1 .. N+1
      BY <1>12
    <3> QED  BY <1>11, <3>3, <3>4 DEF Hangs
  <2> QED  BY <2>1, <2>2
<1>28. r_root' = IF r_nodes' = << >> THEN NULL ELSE 1
  <2>1. r_nodes' # << >>
    BY ONLY <1>1, <1>10
  <2> QED  BY <1>1, <2>1
<1> QED  BY ONLY <1>11, <1>13, <1>15, <1>20, <1>22, <1>26, <1>27, <1>28 DEF ShapeInv

-----------------------------------------------------------------------------
(* The invariant is kept. *)

LEMMA ShapeStays ==
  ASSUME ShapeInv, UNCHANGED <<r_nodes, r_to_delete, r_root>>
  PROVE  ShapeInv' /\ N' = N /\ M' = M /\ \A u, s : Child(u, s)' = Child(u, s)
<1>1. N' = N /\ M' = M /\ \A u, s : Child(u, s)' = Child(u, s)
  BY DEF N, M, Child
<1>2. HeapTyped'
  BY DEF ShapeInv, HeapTyped
<1>3. Forward' /\ Once'
  BY <1>1 DEF ShapeInv, Forward, Once
<1>4. MarksInv'
  BY <1>1 DEF ShapeInv, MarksInv
<1>5. KeptInv'
  BY <1>1 DEF ShapeInv, KeptInv, Hangs, IsMarked
<1> QED  BY <1>1, <1>2, <1>3, <1>4, <1>5 DEF ShapeInv

LEMMA BeginKeeps ==
  ASSUME ReaderInv, outcome = "read", UNCHANGED outcome, Opt!Begin
  PROVE  OptInv' /\ phase' # "read"
<1>1. /\ ShapeInv /\ phase' \in {"aborted", "dead code"}
      /\ UNCHANGED <<r_nodes, r_to_delete, r_root>>
  BY ReaderShape DEF Opt!Begin
<1>2. ShapeInv' /\ N' = N /\ \A u, s : Child(u, s)' = Child(u, s)
  BY <1>1, ShapeStays
<1>3. outcome' = "read"
  OBVIOUS
<1>4. r_root = NULL => phase' = "aborted"
  BY DEF Opt!Begin, Opt!NULL, NULL
<1>5. ASSUME r_root # NULL
      PROVE  ParentsInv' /\ TodoInv'
  <2>1. /\ N \in Nat /\ N >= 1 /\ r_root = 1
        /\ \A u \in 1..N : \A s \in File!Sides : Child(u, s) \in Nat
        /\ Forward /\ Once
    BY <1>1, <1>5, ShapeFacts DEF ShapeInv
  <2>2. parents' = [v \in 1..N |-> Opt!ParentOf(v)]
    BY DEF Opt!Begin, N
  <2> DEFINE Above(v) == {p \in 1..Len(r_nodes) : v \in {r_nodes[p].left, r_nodes[p].right}}
  <2>3. \A v : Opt!ParentOf(v) = IF Above(v) = {} THEN NULL ELSE CHOOSE p \in Above(v) : TRUE
    BY Zenon DEF Opt!ParentOf, Opt!NULL, NULL
  <2>4. \A v, p : p \in Above(v) <=> p \in 1..N /\ \E s \in File!Sides : Child(p, s) = v
    BY DEF N, Child, File!Sides
  <2> HIDE DEF Above
  <2>5. \A v : Opt!ParentOf(v) \in Nat
    BY <2>1, <2>3, <2>4 DEF NULL
  <2>6. parents' \in Seq(Nat) /\ Len(parents') = N
    BY <2>1, <2>2, <2>5
  <2>7. Opt!ParentOf(1) = NULL
    <3>1. Above(1) = {}
      <4> SUFFICES ASSUME NEW p \in 1..N, NEW s \in File!Sides, Child(p, s) = 1 PROVE FALSE
        BY <2>4
      <4>1. Child(p, s) \in p+1 .. N
        BY <2>1 DEF Forward, NULL
      <4> QED  BY <2>1, <4>1
    <3> QED  BY <2>3, <3>1
  <2>8. ASSUME NEW u \in 1..N, NEW s \in File!Sides, Child(u, s) # NULL
        PROVE  parents'[Child(u, s)] = u
    <3>1. Child(u, s) \in 1..N
      BY <2>1, <2>8 DEF Forward
    <3>2. Above(Child(u, s)) = {u}
      BY <2>1, <2>4, <2>8 DEF Once
    <3>3. Opt!ParentOf(Child(u, s)) = u
      BY <2>3, <3>2
    <3> QED  BY <2>2, <3>1, <3>3
  <2>9. ParentsInv'
    <3>1. parents'[1] = NULL
      BY <2>1, <2>2, <2>7
    <3> QED  BY <1>2, <2>6, <2>8, <3>1 DEF ParentsInv
  <2>10. todo' = <<Opt!Visit("dead", 1)>> /\ phase' # "folding"
    <3>1. todo' = Opt!Visits("dead", 1)
      BY <2>1 DEF Opt!Begin
    <3>2. Opt!Visits("dead", 1) = <<Opt!Visit("dead", 1)>>
      BY ONLY DEF Opt!Visits, Opt!NULL
    <3> QED  BY ONLY <1>1, <3>1, <3>2
  <2>11. Opt!Visit("dead", 1) \in VisitRecord'
    BY <1>2, <2>1 DEF Opt!Visit, VisitRecord
  <2>12. TodoInv'
    BY <2>10, <2>11 DEF TodoInv
  <2> QED  BY <2>9, <2>12
<1> QED  BY <1>1, <1>2, <1>3, <1>4, <1>5 DEF OptInv

LEMMA OneVisit ==
  ASSUME NEW step \in {"dead", "enter", "leave"}, NEW v, v = NULL \/ v \in 1..N
  PROVE  /\ Opt!Visits(step, v) \in Seq(VisitRecord)
         /\ v = NULL => Len(Opt!Visits(step, v)) = 0
         /\ v # NULL => /\ Len(Opt!Visits(step, v)) = 1
                        /\ Opt!Visits(step, v)[1] = [step |-> step, node |-> v]
<1>1. Opt!Visits(step, v) = IF v = NULL THEN << >> ELSE <<[step |-> step, node |-> v]>>
  BY DEF Opt!Visits, Opt!Visit, Opt!NULL, NULL
<1>2. v # NULL => [step |-> step, node |-> v] \in VisitRecord
  BY DEF VisitRecord
<1> QED  BY <1>1, <1>2

(* A step that visits a node: it is in the tree. *)
LEMMA Visiting ==
  ASSUME OptInv, phase # "aborted", todo # << >>
  PROVE  /\ ShapeInv /\ ParentsInv /\ TodoInv /\ outcome = "read"
         /\ r_root = 1 /\ N \in Nat /\ N >= 1
         /\ Opt!V = todo[1].node /\ Opt!V \in 1..N /\ Head(todo) = todo[1] /\ Head(todo) \in VisitRecord
         /\ Len(todo) \in Nat /\ Len(todo) >= 1
         /\ Opt!Rest \in Seq(VisitRecord) /\ Len(Opt!Rest) = Len(todo) - 1
         /\ \A i \in 1 .. Len(todo) - 1 : Opt!Rest[i] = todo[i + 1]
         /\ \A s \in File!Sides : Child(Opt!V, s) = NULL \/ Child(Opt!V, s) \in 1..N
<1>1. /\ ShapeInv /\ ParentsInv /\ TodoInv /\ r_root # NULL /\ outcome = "read"
  BY DEF OptInv
<1>2. r_root = 1 /\ N \in Nat /\ N >= 1
  BY <1>1, ShapeFacts
<1>3. todo \in Seq(VisitRecord)
  BY <1>1 DEF TodoInv
<1>4. /\ Len(todo) \in Nat /\ Len(todo) >= 1 /\ Head(todo) = todo[1] /\ Head(todo) \in VisitRecord
      /\ Tail(todo) \in Seq(VisitRecord) /\ Len(Tail(todo)) = Len(todo) - 1
      /\ \A i \in 1 .. Len(todo) - 1 : Tail(todo)[i] = todo[i + 1]
  BY <1>3, HeadAndTail
<1>5. Opt!V = todo[1].node /\ Opt!V \in 1..N
  BY <1>4 DEF Opt!V, VisitRecord
<1>6. \A s \in File!Sides : Child(Opt!V, s) = NULL \/ Child(Opt!V, s) \in 1..N
  BY <1>1, <1>2, <1>5 DEF ShapeInv, Forward
<1> QED  BY <1>1, <1>2, <1>4, <1>5, <1>6 DEF Opt!Rest

LEMMA Stays ==
  ASSUME OptInv, UNCHANGED <<r_nodes, r_to_delete, r_root, parents, outcome>>,
         phase # "aborted", TodoInv'
  PROVE  OptInv'
<1>1. /\ ShapeInv /\ ParentsInv /\ r_root # NULL
      /\ outcome = "read"
  BY DEF OptInv
<1>2. ShapeInv' /\ N' = N /\ \A u, s : Child(u, s)' = Child(u, s)
  BY <1>1, ShapeStays
<1>3. ParentsInv'
  BY <1>1, <1>2 DEF ParentsInv
<1> QED  BY <1>1, <1>2, <1>3 DEF OptInv

LEMMA EliminateKeeps ==
  ASSUME OptInv, UNCHANGED outcome, Opt!EliminateDeadCode
  PROVE  OptInv' /\ phase' # "read"
<1> DEFINE v == Opt!V
           l == Child(v, "left")
           r == Child(v, "right")
<1>1. phase = "dead code" /\ todo # << >>
  BY DEF Opt!EliminateDeadCode, Opt!At
<1>2. /\ ShapeInv /\ ParentsInv /\ TodoInv /\ outcome = "read"
      /\ r_root = 1 /\ N \in Nat /\ N >= 1 /\ v \in 1..N
      /\ Opt!Rest \in Seq(VisitRecord)
      /\ \A s \in File!Sides : Child(v, s) = NULL \/ Child(v, s) \in 1..N
      /\ "left" \in File!Sides /\ "right" \in File!Sides
  BY <1>1, Visiting DEF File!Sides
<1>3. CASE Opt!Die
  <2>1. UNCHANGED <<r_nodes, r_to_delete, r_root, parents, todo>> /\ phase' = "aborted"
    BY <1>3 DEF Opt!Die
  <2>2. TodoInv'
    BY <1>2, <2>1 DEF TodoInv, VisitRecord, N
  <2> QED  BY <1>1, <2>1, <2>2, Stays
<1>4. CASE /\ ~ Opt!Cut(v)
           /\ UNCHANGED <<r_to_delete, r_nodes, r_root, parents, phase>>
           /\ todo' = Opt!Visits("dead", l) \o Opt!Visits("dead", r) \o Opt!Rest
  <2>1. Opt!Visits("dead", l) \in Seq(VisitRecord) /\ Opt!Visits("dead", r) \in Seq(VisitRecord)
    BY <1>2, OneVisit
  <2>2. todo' \in Seq(VisitRecord)
    BY <1>2, <1>4, <2>1, ConcatProperties
  <2>3. TodoInv'
    BY <1>1, <1>4, <2>2 DEF TodoInv, VisitRecord, N
  <2> QED  BY <1>1, <1>4, <2>3, Stays
<1>5. CASE /\ Opt!Cut(v)
           /\ r_to_delete' = IF r = NULL THEN r_to_delete ELSE Append(r_to_delete, r)
           /\ r_nodes' = Opt!Pruned(v)
           /\ UNCHANGED <<r_root, parents, phase>>
           /\ todo' = Opt!Visits("dead", l) \o Opt!Visits("dead", r_nodes'[v].right) \o Opt!Rest
  <2>1. /\ ShapeInv' /\ N' = N
        /\ \A u \in 1..N : r_nodes'[u].tok = r_nodes[u].tok
        /\ \A u \in 1..N : \A s \in File!Sides :
              Child(u, s)' = IF u = v /\ s = "right" THEN NULL ELSE Child(u, s)
    <3> HIDE DEF v
    <3> QED  BY <1>2, <1>5, CutShape
  <2>2. r_nodes'[v].right = NULL
    <3>1. \A u \in 1..N : u = v => Child(u, "right")' = NULL
      BY <1>2, <2>1
    <3> QED  BY <1>2, <3>1 DEF Child
  <2>3. Opt!Visits("dead", l) \in Seq(VisitRecord) /\ Opt!Visits("dead", NULL) \in Seq(VisitRecord)
    BY <1>2, OneVisit
  <2>4. todo' \in Seq(VisitRecord)
    BY <1>2, <1>5, <2>2, <2>3, ConcatProperties
  <2>5. TodoInv'
    BY <1>1, <1>5, <2>1, <2>4 DEF TodoInv, VisitRecord
  <2>6. ParentsInv'
    <3>1. ASSUME NEW u \in 1..N, NEW s \in File!Sides, Child(u, s)' # NULL,
                 r_nodes'[Child(u, s)'].tok \in Opt!Operators
          PROVE  parents'[Child(u, s)'] = u
      <4>1. Child(u, s)' = Child(u, s)
        BY <2>1, <3>1
      <4>2. Child(u, s) \in 1..N
        BY <1>2, <3>1, <4>1 DEF ShapeInv, Forward
      <4>3. r_nodes[Child(u, s)].tok \in Opt!Operators
        BY <2>1, <3>1, <4>1, <4>2
      <4> QED  BY <1>2, <1>5, <3>1, <4>1, <4>3 DEF ParentsInv
    <3> QED  BY <1>2, <1>5, <2>1, <3>1 DEF ParentsInv
  <2> QED  BY <1>1, <1>2, <1>5, <2>1, <2>5, <2>6 DEF OptInv
<1>6. phase' # "read"
  BY <1>1 DEF Opt!EliminateDeadCode, Opt!Die
<1> QED
  BY <1>3, <1>4, <1>5, <1>6 DEF Opt!EliminateDeadCode, Child, NULL, Opt!NULL

(* const_fold_ leaves a node. *)
LEMMA NextVisits ==
  ASSUME FoldingInv, todo \in Seq(VisitRecord), todo # << >>, todo' = Tail(todo)
  PROVE  /\ Len(todo') = Len(todo) - 1 /\ \A i \in 1 .. Len(todo') : todo'[i] = todo[i + 1]
         /\ \A i, j \in 1 .. Len(todo') : todo'[i].node = todo'[j].node => i = j
         /\ \A i \in 1 .. Len(todo') :
               /\ todo'[i].node # todo[1].node
               /\ \/ todo'[i].node = 1
                  \/ \E j \in i+1 .. Len(todo') : \E s \in File!Sides :
                        todo'[j].step = "leave" /\ Child(todo'[j].node, s) = todo'[i].node
<1>1. /\ Len(todo) \in Nat /\ Len(todo) >= 1
      /\ Len(todo') = Len(todo) - 1 /\ \A i \in 1 .. Len(todo') : todo'[i] = todo[i + 1]
  BY HeadAndTail
<1>2. \A i, j \in 1..Len(todo) : todo[i].node = todo[j].node => i = j
  BY DEF FoldingInv
<1>3. \A i, j \in 1 .. Len(todo') : todo'[i].node = todo'[j].node => i = j
  BY ONLY <1>1, <1>2
<1>4. ASSUME NEW i \in 1 .. Len(todo')
      PROVE  /\ todo'[i].node # todo[1].node
             /\ \/ todo'[i].node = 1
                \/ \E j \in i+1 .. Len(todo') : \E s \in File!Sides :
                      todo'[j].step = "leave" /\ Child(todo'[j].node, s) = todo'[i].node
  <2>1. todo'[i] = todo[i + 1] /\ i + 1 \in 1..Len(todo) /\ 1 \in 1..Len(todo) /\ i + 1 # 1
    BY ONLY <1>1, <1>4
  <2>2. todo'[i].node # todo[1].node
    BY ONLY <1>2, <2>1
  <2>3. CASE todo[i + 1].node # 1
    <3>1. PICK j \in i+2 .. Len(todo), s \in File!Sides :
             todo[j].step = "leave" /\ Child(todo[j].node, s) = todo[i + 1].node
      <4>1. Supported(i + 1)
        BY <2>1 DEF FoldingInv
      <4>2. (i + 1) + 1 = i + 2
        OBVIOUS
      <4> QED  BY ONLY <2>3, <4>1, <4>2 DEF Supported
    <3>2. j - 1 \in i+1 .. Len(todo') /\ j - 1 \in 1 .. Len(todo') /\ (j - 1) + 1 = j
      BY ONLY <1>1, <1>4, <3>1
    <3>3. todo'[j - 1] = todo[j]
      BY ONLY <1>1, <3>2
    <3> QED  BY <2>1, <2>2, <3>1, <3>2, <3>3
  <2> QED  BY <2>1, <2>2, <2>3
<1> QED  BY <1>1, <1>3, <1>4

LEMMA LeaveKeeps ==
  ASSUME OptInv, UNCHANGED outcome, Opt!LeaveNode
  PROVE  OptInv' /\ phase' # "read"
<1>1. /\ phase = "folding" /\ todo # << >> /\ todo' = Opt!Rest
      /\ UNCHANGED <<r_nodes, r_to_delete, r_root, parents, phase>>
  BY DEF Opt!LeaveNode, Opt!At
<1>2. FoldingInv /\ todo \in Seq(VisitRecord) /\ Opt!Rest \in Seq(VisitRecord)
  BY <1>1, Visiting DEF TodoInv
<1>3. FoldingInv'
  BY <1>1, <1>2, NextVisits, ZenonT(60) DEF FoldingInv, Supported, Child, Opt!Rest
<1>4. TodoInv'
  BY <1>1, <1>2, <1>3 DEF TodoInv, VisitRecord, N
<1> QED  BY <1>1, <1>4, Stays

(* What is put before a sequence. *)
PutTogether(S, s, a, b, c, r) ==
  /\ s \in Seq(S) /\ Len(s) = (Len(a) + Len(b)) + 1 + Len(r)
  /\ \A i \in 1..Len(a) : s[i] = a[i]
  /\ \A i \in 1..Len(b) : s[Len(a) + i] = b[i]
  /\ s[(Len(a) + Len(b)) + 1] = c
  /\ \A i \in 1..Len(r) : s[(Len(a) + Len(b)) + 1 + i] = r[i]

LEMMA PutBefore ==
  ASSUME NEW S, NEW a \in Seq(S), NEW b \in Seq(S), NEW c \in S, NEW r \in Seq(S)
  PROVE  PutTogether(S, a \o b \o <<c>> \o r, a, b, c, r)
<1> DEFINE s == a \o b \o <<c>> \o r
<1> DEFINE ab == a \o b
           d == Len(a) + Len(b)
           one == <<c>>
           abc == ab \o one
<1>1. Len(a) \in Nat /\ Len(b) \in Nat /\ Len(r) \in Nat /\ d \in Nat
  OBVIOUS
<1>2. /\ ab \in Seq(S) /\ Len(ab) = d
      /\ \A i \in 1..d : ab[i] = IF i <= Len(a) THEN a[i] ELSE b[i - Len(a)]
  BY ConcatProperties
<1>3. one \in Seq(S) /\ Len(one) = 1 /\ one[1] = c
  OBVIOUS
<1> HIDE DEF ab, one
<1>4. s = abc \o r
  BY DEF abc, ab, one
<1> HIDE DEF s
<1> HIDE DEF d
<1>5. /\ abc \in Seq(S) /\ Len(abc) = d + 1
      /\ \A i \in 1 .. d + 1 : abc[i] = IF i <= d THEN ab[i] ELSE one[i - d]
  <2>1. /\ abc \in Seq(S) /\ Len(abc) = Len(ab) + Len(one)
        /\ \A i \in 1 .. Len(ab) + Len(one) :
              abc[i] = IF i <= Len(ab) THEN ab[i] ELSE one[i - Len(ab)]
    BY ONLY <1>2, <1>3, ConcatProperties, ZenonT(60) DEF abc
  <2> QED  BY ONLY <1>2, <1>3, <2>1
<1> HIDE DEF abc
<1>6. /\ s \in Seq(S) /\ Len(s) = d + 1 + Len(r)
      /\ \A i \in 1 .. d + 1 + Len(r) : s[i] = IF i <= d + 1 THEN abc[i] ELSE r[i - (d + 1)]
  <2>1. /\ s \in Seq(S) /\ Len(s) = Len(abc) + Len(r)
        /\ \A i \in 1 .. Len(abc) + Len(r) :
              s[i] = IF i <= Len(abc) THEN abc[i] ELSE r[i - Len(abc)]
    BY ONLY <1>4, <1>5, r \in Seq(S), ConcatProperties, ZenonT(60)
  <2> QED  BY ONLY <1>5, <2>1
<1>7. \A i \in 1 .. d + 1 : s[i] = abc[i]
  BY ONLY <1>1, <1>6
<1>8. \A i \in 1 .. d : s[i] = ab[i]
  BY ONLY <1>1, <1>5, <1>7
<1>9. s[d + 1] = c
  <2>1. d + 1 \in 1 .. d + 1 /\ (d + 1) - d = 1 /\ ~ (d + 1 <= d)
    BY ONLY <1>1
  <2> QED  BY ONLY <1>3, <1>5, <1>7, <2>1
<1>10. \A i \in 1..Len(a) : i \in 1..d /\ i <= Len(a)
  BY ONLY <1>1 DEF d
<1>11. \A i \in 1..Len(b) : Len(a) + i \in 1..d /\ ~ (Len(a) + i <= Len(a)) /\ (Len(a) + i) - Len(a) = i
  BY ONLY <1>1 DEF d
<1>12. \A i \in 1..Len(r) : d + 1 + i \in 1 .. d + 1 + Len(r) /\ ~ (d + 1 + i <= d + 1)
                            /\ (d + 1 + i) - (d + 1) = i
  BY ONLY <1>1
<1>13. \A i \in 1..Len(a) : s[i] = a[i]
  BY ONLY <1>2, <1>8, <1>10
<1>14. \A i \in 1..Len(b) : s[Len(a) + i] = b[i]
  BY ONLY <1>2, <1>8, <1>11
<1>15. \A i \in 1..Len(r) : s[d + 1 + i] = r[i]
  BY ONLY <1>6, <1>12
<1> QED  BY <1>6, <1>9, <1>13, <1>14, <1>15 DEF d, s, PutTogether

(* const_fold_ comes to a node: its children are visited first.            *)
LEMMA EnterKeeps ==
  ASSUME OptInv, UNCHANGED outcome, Opt!EnterNode
  PROVE  OptInv' /\ phase' # "read"
<1> DEFINE v == Opt!V
           A == Opt!Visits("enter", Child(v, "left"))
           B == Opt!Visits("enter", Child(v, "right"))
           leave == Opt!Visit("leave", v)
           d == Len(A) + Len(B)
<1>1. /\ phase = "folding" /\ todo # << >>
      /\ todo' = A \o B \o <<leave>> \o Opt!Rest
      /\ UNCHANGED <<r_nodes, r_to_delete, r_root, parents, phase>>
  BY DEF Opt!EnterNode, Opt!At, Child
<1>2. /\ ShapeInv /\ FoldingInv /\ N \in Nat /\ v = todo[1].node /\ v \in 1..N
      /\ Len(todo) \in Nat /\ Len(todo) >= 1
      /\ Opt!Rest \in Seq(VisitRecord) /\ Len(Opt!Rest) = Len(todo) - 1
      /\ \A i \in 1 .. Len(todo) - 1 : Opt!Rest[i] = todo[i + 1]
      /\ \A s \in File!Sides : Child(v, s) = NULL \/ Child(v, s) \in 1..N
      /\ "left" \in File!Sides /\ "right" \in File!Sides
  BY <1>1, Visiting DEF TodoInv, File!Sides
<1> HIDE DEF v
<1> DEFINE l == Child(v, "left")
           r == Child(v, "right")
<1>3. /\ A \in Seq(VisitRecord) /\ Len(A) \in {0, 1}
      /\ Len(A) = 1 => l # NULL /\ A[1].node = l
  <2>1. /\ A \in Seq(VisitRecord)
        /\ l = NULL => Len(A) = 0
        /\ l # NULL => Len(A) = 1 /\ A[1] = [step |-> "enter", node |-> l]
    BY <1>2, OneVisit
  <2> HIDE DEF A, l
  <2> QED  BY <2>1
<1>4. /\ B \in Seq(VisitRecord) /\ Len(B) \in {0, 1}
      /\ Len(B) = 1 => r # NULL /\ B[1].node = r
  <2>1. /\ B \in Seq(VisitRecord)
        /\ r = NULL => Len(B) = 0
        /\ r # NULL => Len(B) = 1 /\ B[1] = [step |-> "enter", node |-> r]
    BY <1>2, OneVisit
  <2> HIDE DEF B, r
  <2> QED  BY <2>1
<1>5. leave \in VisitRecord /\ leave.step = "leave" /\ leave.node = v
  BY <1>2 DEF Opt!Visit, VisitRecord
<1> HIDE DEF A, B, leave
<1>6. d \in Nat
  BY <1>3, <1>4
<1>7. /\ todo' \in Seq(VisitRecord) /\ Len(todo') = d + 1 + Len(Opt!Rest)
      /\ \A i \in 1..Len(A) : todo'[i] = A[i]
      /\ \A i \in 1..Len(B) : todo'[Len(A) + i] = B[i]
      /\ todo'[d + 1] = leave
      /\ \A i \in 1..Len(Opt!Rest) : todo'[d + 1 + i] = Opt!Rest[i]
  <2>1. PutTogether(VisitRecord, todo', A, B, leave, Opt!Rest)
    BY <1>1, <1>2, <1>3, <1>4, <1>5, PutBefore
  <2> QED  BY ONLY <2>1 DEF PutTogether, d
<1> DEFINE a == Len(A)
           b == Len(B)
<1>8. a \in {0, 1} /\ b \in {0, 1} /\ d = a + b
  BY <1>3, <1>4
<1>9. /\ \A i \in 1..a : todo'[i] = A[i]
      /\ \A i \in 1..b : todo'[a + i] = B[i]
  BY <1>7
<1>10. /\ a = 1 => l # NULL /\ A[1].node = l
       /\ b = 1 => r # NULL /\ B[1].node = r
  BY <1>3, <1>4
<1> HIDE DEF d, a, b, l, r
<1>11. Len(todo') = d + Len(todo)
  BY ONLY <1>2, <1>6, <1>7
(* The children, in d places, then the one to be left, then the rest.      *)
<1>12. /\ a = 1 => todo'[1].node = l
       /\ b = 1 => todo'[a + 1].node = r
  BY ONLY <1>8, <1>9, <1>10
<1>13. todo'[d + 1] = leave
  BY <1>7
<1>14. \A i \in d + 2 .. Len(todo') : todo'[i] = todo[i - d] /\ i - d \in 2..Len(todo)
  <2> SUFFICES ASSUME NEW i \in d + 2 .. Len(todo') PROVE todo'[i] = todo[i - d] /\ i - d \in 2..Len(todo)
    OBVIOUS
  <2>1. /\ i - (d + 1) \in 1 .. Len(todo) - 1 /\ (i - (d + 1)) + 1 = i - d
        /\ d + 1 + (i - (d + 1)) = i /\ i - d \in 2..Len(todo)
    BY ONLY <1>2, <1>6, <1>11, i \in d + 2 .. Len(todo')
  <2> QED  BY ONLY <1>2, <1>7, <2>1
<1>15. \A i \in 1 .. d : \E s \in File!Sides :
          todo'[i].node = Child(v, s) /\ Child(v, s) # NULL
  <2>1. \A i \in 1 .. d : (i = 1 /\ a = 1) \/ (i = a + 1 /\ b = 1)
    BY ONLY <1>8
  <2>2. a = 1 => todo'[1].node = Child(v, "left") /\ Child(v, "left") # NULL
    BY <1>10, <1>12 DEF l
  <2>3. b = 1 => todo'[a + 1].node = Child(v, "right") /\ Child(v, "right") # NULL
    BY <1>10, <1>12 DEF r
  <2> QED  BY ONLY <1>2, <2>1, <2>2, <2>3
<1>16. \A i, j \in 1 .. d : todo'[i].node = todo'[j].node => i = j
  <2>1. a = 1 /\ b = 1 => todo'[1].node # todo'[2].node
    <3>1. a = 1 => l # NULL
      BY <1>10
    <3>2. l = Child(v, "left") /\ r = Child(v, "right")
      BY DEF l, r
    <3>3. v \in 1..N /\ "left" \in File!Sides /\ "right" \in File!Sides /\ Once
      BY <1>2 DEF ShapeInv
    <3>4. a = 1 => l # r
      BY ONLY <3>1, <3>2, <3>3 DEF Once
    <3>5. a = 1 => a + 1 = 2
      OBVIOUS
    <3> QED  BY ONLY <1>12, <3>4, <3>5
  <2>2. \A i, j \in 1 .. d : i = j \/ (a = 1 /\ b = 1 /\ {i, j} = {1, 2})
    <3>1. \A i \in 1 .. d : i = 1 \/ (i = 2 /\ a = 1 /\ b = 1)
      BY ONLY <1>8
    <3> QED  BY ONLY <3>1
  <2> QED  BY ONLY <2>1, <2>2
<1>17. \A i, j \in 1..Len(todo) : todo[i].node = todo[j].node => i = j
  BY <1>2 DEF FoldingInv
<1>18. \A i \in d + 1 .. Len(todo') :
          todo'[i].node = todo[i - d].node /\ i - d \in 1..Len(todo)
  <2> SUFFICES ASSUME NEW i \in d + 1 .. Len(todo')
               PROVE  todo'[i].node = todo[i - d].node /\ i - d \in 1..Len(todo)
    OBVIOUS
  <2>1. CASE i = d + 1
    <3>1. i - d = 1 /\ 1 \in 1..Len(todo)
      BY ONLY <1>2, <1>6, <2>1
    <3> QED  BY ONLY <1>2, <1>5, <1>13, <2>1, <3>1
  <2>2. CASE i # d + 1
    <3>1. i \in d + 2 .. Len(todo')
      BY ONLY <1>2, <1>6, <1>11, <2>2, i \in d + 1 .. Len(todo')
    <3>2. \A k \in 2..Len(todo) : k \in 1..Len(todo)
      BY <1>2
    <3> QED  BY ONLY <1>14, <3>1, <3>2
  <2> QED  BY <2>1, <2>2
(* A child is not among what was to be visited: that hangs elsewhere.      *)
<1>19. ASSUME NEW k \in 1..Len(todo), NEW s \in File!Sides,
              todo[k].node = Child(v, s), Child(v, s) # NULL
       PROVE  FALSE
  <2>1. Child(v, s) # 1
    <3>1. Child(v, s) \in v+1 .. N
      BY <1>2, <1>19 DEF ShapeInv, Forward
    <3> QED  BY ONLY <1>2, <3>1
  <2>2. PICK j \in k+1 .. Len(todo), t \in File!Sides : Child(todo[j].node, t) = todo[k].node
    BY <1>2, <1>19, <2>1 DEF FoldingInv, Supported
  <2>3. j \in 1..Len(todo) /\ j # 1 /\ 1 \in 1..Len(todo)
    BY ONLY <1>2, <1>19, <2>2
  <2>4. todo[j].node \in 1..N
    <3>1. todo \in Seq(VisitRecord)
      BY <1>1, Visiting DEF TodoInv
    <3>2. todo[j] \in VisitRecord
      BY ONLY <2>3, <3>1
    <3> QED  BY ONLY <3>2 DEF VisitRecord
  <2>5. todo[j].node = v
    BY <1>2, <1>19, <2>2, <2>4 DEF ShapeInv, Once
  <2> QED  BY ONLY <1>2, <1>17, <2>3, <2>5
<1>20. \A i, j \in 1..Len(todo') : todo'[i].node = todo'[j].node => i = j
  <2> SUFFICES ASSUME NEW i \in 1..Len(todo'), NEW j \in 1..Len(todo'),
                      todo'[i].node = todo'[j].node, i <= j
               PROVE  i = j
    BY <1>2, <1>6, <1>11
  <2>1. CASE j \in 1 .. d
    <3>1. i \in 1 .. d
      BY <1>6, <2>1
    <3> QED  BY <1>16, <2>1, <3>1
  <2>2. CASE j \notin 1 .. d /\ i \in 1 .. d
    <3>1. j \in d + 1 .. Len(todo')
      BY <1>6, <1>11, <1>2, <2>2
    <3>2. todo[j - d].node = todo'[i].node /\ j - d \in 1..Len(todo)
      BY <1>18, <3>1
    <3> QED  BY <1>15, <1>19, <2>2, <3>2
  <2>3. CASE j \notin 1 .. d /\ i \notin 1 .. d
    <3>1. i \in d + 1 .. Len(todo') /\ j \in d + 1 .. Len(todo')
      BY <1>6, <1>11, <1>2, <2>3
    <3>2. i - d = j - d
      BY <1>17, <1>18, <3>1
    <3> QED  BY ONLY <1>6, <3>1, <3>2
  <2> QED  BY <2>1, <2>2, <2>3
<1>21. ASSUME NEW i \in 1..Len(todo')
       PROVE  \/ todo'[i].node = 1
              \/ \E j \in i+1 .. Len(todo') : \E s \in File!Sides :
                    todo'[j].step = "leave" /\ Child(todo'[j].node, s) = todo'[i].node
  <2>1. CASE i \in 1 .. d
    <3>1. d + 1 \in i+1 .. Len(todo')
      BY ONLY <1>2, <1>6, <1>11, <2>1
    <3> QED  BY <1>5, <1>13, <1>15, <2>1, <3>1
  <2>2. CASE i \notin 1 .. d /\ todo'[i].node # 1
    <3>1. i \in d + 1 .. Len(todo')
      BY <1>6, <1>11, <1>2, <2>2
    <3>2. todo'[i].node = todo[i - d].node /\ i - d \in 1..Len(todo)
      BY <1>18, <3>1
    <3>3. PICK j \in (i - d)+1 .. Len(todo), s \in File!Sides :
             todo[j].step = "leave" /\ Child(todo[j].node, s) = todo[i - d].node
      BY <1>2, <2>2, <3>2 DEF FoldingInv, Supported
    <3>4. j + d \in i+1 .. Len(todo') /\ j + d \in d + 2 .. Len(todo') /\ (j + d) - d = j
      BY ONLY <1>2, <1>6, <1>11, <3>1, <3>2, <3>3
    <3>5. todo'[j + d] = todo[j]
      BY ONLY <1>14, <3>4
    <3> QED  BY <3>2, <3>3, <3>4, <3>5
  <2> QED  BY <2>1, <2>2
<1>22. FoldingInv'
  <2>1. \A u, s : Child(u, s)' = Child(u, s)
    BY <1>1, <1>2, ShapeStays
  <2> QED  BY ONLY <1>1, <1>20, <1>21, <2>1 DEF FoldingInv, Supported, Child
<1>23. TodoInv'
  BY <1>1, <1>7, <1>22 DEF TodoInv, VisitRecord, N
<1> QED  BY <1>1, <1>23, Stays

(* An operator is folded: it hangs on its parent.                          *)
LEMMA FoldKeeps ==
  ASSUME OptInv, UNCHANGED outcome, Opt!FoldNode, ValueAssumption
  PROVE  OptInv' /\ phase' # "read"
<1> DEFINE v == Opt!V
           p == parents[v]
<1>1. phase = "folding" /\ todo # << >> /\ Head(todo).step = "leave" /\ Opt!Foldable(v)
  BY DEF Opt!FoldNode, Opt!At
<1>2. /\ ShapeInv /\ ParentsInv /\ FoldingInv /\ outcome = "read" /\ todo \in Seq(VisitRecord)
      /\ r_root = 1 /\ N \in Nat /\ N >= 1 /\ v \in 1..N /\ v = todo[1].node
      /\ Len(todo) \in Nat /\ Len(todo) >= 1
      /\ Opt!Rest \in Seq(VisitRecord)
  BY <1>1, Visiting DEF TodoInv
<1>3. CASE Opt!Die
  <2>1. UNCHANGED <<r_nodes, r_to_delete, r_root, parents, todo>> /\ phase' = "aborted"
    BY <1>3 DEF Opt!Die
  <2>2. TodoInv'
    BY <1>2, <2>1 DEF TodoInv, VisitRecord, N
  <2> QED  BY <1>1, <2>1, <2>2, Stays
<1>4. ASSUME p # NULL, NEW literal \in DOMAIN Value,
             r_nodes' = Opt!Hung(Opt!Node(literal), v, p),
             parents' = Append(parents, NULL), r_to_delete' = Opt!Marked(v),
             todo' = Opt!Rest, UNCHANGED <<r_root, phase>>
      PROVE  OptInv' /\ phase' # "read"
  <2>1. v # 1
    BY <1>2, <1>4 DEF ParentsInv
  <2>2. PICK j \in 2..Len(todo), side \in File!Sides : Child(todo[j].node, side) = v
    <3>1. 1 \in 1..Len(todo) /\ 1 + 1 = 2
      BY <1>2
    <3>2. Supported(1)
      BY <1>2, <3>1 DEF FoldingInv
    <3> QED  BY ONLY <1>2, <2>1, <3>1, <3>2 DEF Supported
  <2>3. todo[j].node \in 1..N
    <3>1. todo[j] \in VisitRecord
      BY ONLY <1>2, <2>2
    <3> QED  BY ONLY <3>1 DEF VisitRecord
  <2>4. p = todo[j].node
    <3>1. v # NULL /\ r_nodes[v].tok \in Opt!Operators
      BY <1>1, <1>2 DEF Opt!Foldable, NULL
    <3> HIDE DEF v
    <3> QED  BY <1>2, <2>2, <2>3, <3>1 DEF ParentsInv
  <2>5. p \in 1..N /\ v \in 2..N /\ Child(p, side) = v
    BY <1>2, <2>1, <2>2, <2>3, <2>4
  <2> HIDE DEF v, p
  <2>6. /\ ShapeInv' /\ Grown(p, side)
        /\ \A u \in 1..N : r_nodes'[u].tok = r_nodes[u].tok
        /\ r_nodes'[N + 1].tok = literal
    BY <1>2, <1>4, <2>5, FoldShape
  <2>7. /\ N' = N + 1
        /\ \A u \in 1..N : \A s \in File!Sides :
              Child(u, s)' = IF u = p /\ s = side THEN N + 1 ELSE Child(u, s)
        /\ \A u : u = N + 1 => \A s \in File!Sides : Child(u, s)' = NULL
    BY ONLY <2>6 DEF Grown, Child, N
  <2>8. ParentsInv'
    <3>1. parents \in Seq(Nat) /\ Len(parents) = N /\ parents[1] = NULL /\ NULL \in Nat
      BY <1>2 DEF ParentsInv, NULL
    <3>2. /\ parents' \in Seq(Nat) /\ Len(parents') = N + 1
          /\ \A u \in 1..N : parents'[u] = parents[u]
      BY ONLY <1>4, <3>1
    <3>3. parents'[1] = NULL
      BY <1>2, <3>1, <3>2, SMTT(30)
    <3>4. ASSUME NEW u \in 1 .. N+1, NEW s \in File!Sides, Child(u, s)' # NULL,
                 r_nodes'[Child(u, s)'].tok \in Opt!Operators
          PROVE  parents'[Child(u, s)'] = u
      <4>1. u \in 1..N
        BY <1>2, <2>7, <3>4
      <4>2. Child(u, s)' # N + 1
        BY <1>4, <2>6, <3>4, LiteralsOrdinary
      <4>3. Child(u, s)' = Child(u, s)
        BY <2>7, <4>1, <4>2
      <4>4. Child(u, s) \in 1..N
        BY <1>2, <3>4, <4>1, <4>3 DEF ShapeInv, Forward
      <4>5. r_nodes[Child(u, s)].tok \in Opt!Operators
        BY <2>6, <3>4, <4>3, <4>4
      <4> QED  BY <1>2, <3>2, <3>4, <4>1, <4>3, <4>4, <4>5 DEF ParentsInv
    <3> QED  BY <2>7, <3>2, <3>3, <3>4 DEF ParentsInv
  <2>9. FoldingInv'
    <3>1. /\ \A i, k \in 1 .. Len(todo') : todo'[i].node = todo'[k].node => i = k
          /\ \A i \in 1 .. Len(todo') :
                /\ todo'[i].node # v
                /\ \/ todo'[i].node = 1
                   \/ \E k \in i+1 .. Len(todo') : \E s \in File!Sides :
                         todo'[k].step = "leave" /\ Child(todo'[k].node, s) = todo'[i].node
      BY <1>1, <1>2, <1>4, NextVisits DEF Opt!Rest
    <3>2. \A k \in 1 .. Len(todo') : todo'[k].node \in 1..N
      <4>1. todo' \in Seq(VisitRecord)
        BY <1>2, <1>4
      <4>2. \A k \in 1 .. Len(todo') : todo'[k] \in VisitRecord
        BY ONLY <4>1
      <4> QED  BY ONLY <4>2 DEF VisitRecord
    <3>3. \A u \in 1..N : \A s \in File!Sides : Child(u, s) = v \/ r_nodes'[u][s] = Child(u, s)
      BY <2>5, <2>7 DEF Child
    <3>4. ASSUME NEW i \in 1 .. Len(todo'), todo'[i].node # 1
          PROVE  \E k \in i+1 .. Len(todo') : \E s \in File!Sides :
                    todo'[k].step = "leave" /\ r_nodes'[todo'[k].node][s] = todo'[i].node
      <4>1. PICK k \in i+1 .. Len(todo'), s \in File!Sides :
               todo'[k].step = "leave" /\ Child(todo'[k].node, s) = todo'[i].node
        BY <3>1, <3>4
      <4>2. k \in 1 .. Len(todo') /\ todo'[i].node # v
        BY <3>1, <3>4, <4>1
      <4>3. r_nodes'[todo'[k].node][s] = Child(todo'[k].node, s)
        BY <3>2, <3>3, <4>1, <4>2
      <4> QED  BY <4>1, <4>3
    <3> QED  BY <3>1, <3>4 DEF FoldingInv, Supported, Child
  <2>10. TodoInv'
    <3>1. VisitRecord \subseteq VisitRecord'
      BY <1>2, <2>7 DEF VisitRecord
    <3>2. todo' \in Seq(VisitRecord')
      BY ONLY <1>2, <1>4, <3>1, WiderSequence
    <3> QED  BY <2>9, <3>2 DEF TodoInv
  <2> QED  BY <1>1, <1>2, <1>4, <2>6, <2>8, <2>10 DEF OptInv
<1> QED  BY <1>3, <1>4 DEF Opt!FoldNode, Opt!LiteralsOf, NULL, Opt!NULL

LEMMA RoundKeeps ==
  ASSUME OptInv, UNCHANGED outcome, Opt!BeginRound
  PROVE  OptInv' /\ phase' # "read"
<1>1. /\ phase # "aborted" /\ phase' = "folding" /\ todo' = <<Opt!Visit("enter", r_root)>>
      /\ UNCHANGED <<r_nodes, r_to_delete, r_root, parents>>
  BY DEF Opt!BeginRound
<1>2. r_root = 1 /\ N \in Nat /\ N >= 1
  BY <1>1, ShapeFacts DEF OptInv
<1>3. Opt!Visit("enter", r_root) \in VisitRecord /\ Opt!Visit("enter", r_root).node = 1
  BY <1>2 DEF Opt!Visit, VisitRecord
<1>4. todo' \in Seq(VisitRecord) /\ Len(todo') = 1 /\ todo'[1].node = 1
  BY <1>1, <1>3
<1>5. FoldingInv'
  BY ONLY <1>4 DEF FoldingInv, Supported
<1>6. TodoInv'
  BY <1>1, <1>4, <1>5 DEF TodoInv, VisitRecord, N
<1> QED  BY <1>1, <1>6, Stays

(* The end of optimize, writing and ast::dtor change nothing of this.      *)
LEMMA EndKeeps ==
  ASSUME OptInv, UNCHANGED <<r_nodes, r_to_delete, r_root, parents, todo, outcome>>,
         phase # "aborted", phase' \in {"optimized", "written", "aborted", "done"}
  PROVE  OptInv' /\ phase' # "read"
<1>1. TodoInv
  BY DEF OptInv
<1>2. TodoInv'
  BY <1>1 DEF TodoInv, VisitRecord, N
<1> QED  BY <1>2, Stays

LEMMA OptimizeKeeps ==
  ASSUME OptInv, UNCHANGED outcome, Opt!Next, phase # "read", ValueAssumption
  PROVE  OptInv' /\ phase' # "read"
<1>1. CASE Opt!Begin
  BY <1>1 DEF Opt!Begin
<1>2. CASE Opt!LastRound
  <2>1. /\ UNCHANGED <<r_nodes, r_to_delete, r_root, parents, todo>>
        /\ phase = "folding" /\ phase' = "optimized"
    BY <1>2 DEF Opt!LastRound
  <2> QED  BY <2>1, EndKeeps
<1>3. CASE Opt!Dtor
  <2>1. /\ UNCHANGED <<r_nodes, r_to_delete, r_root, parents, todo>>
        /\ phase = "written" /\ phase' = "done"
    BY <1>3 DEF Opt!Dtor
  <2> QED  BY <2>1, EndKeeps
<1> QED
  BY <1>1, <1>2, <1>3, EliminateKeeps, RoundKeeps, EnterKeeps, LeaveKeeps, FoldKeeps DEF Opt!Next

LEMMA MiddleStep ==
  ASSUME MiddleInv, [MiddleNext]_middleVars, ValueAssumption
  PROVE  MiddleInv'
<1>1. CASE UNCHANGED phase /\ phase = "read" /\ [TreeNext]_allVars
  <2>1. ReaderInv'
    BY <1>1, TreeStep DEF MiddleInv
  <2> QED  BY <1>1, <2>1 DEF MiddleInv
<1>2. CASE UNCHANGED <<fileVars, optimizerVars>>
  <2>1. UNCHANGED <<r_nodes, r_to_delete, r_root, parents, todo, outcome, phase>>
    BY <1>2 DEF fileVars, optimizerVars
  <2>2. CASE phase = "read"
    <3>1. UNCHANGED <<calls, r_freed>>
      BY <1>2 DEF fileVars
    <3> QED
      BY <2>1, <2>2, <3>1
         DEF MiddleInv, ReaderInv, HeapTyped, Forward, Once, Hanging, CallsInv, ListInv,
             RejectFreesRead, Child, N
  <2>3. CASE phase # "read" /\ phase # "aborted"
    <3>1. OptInv
      BY <2>3 DEF MiddleInv
    <3>2. TodoInv'
      <4>1. TodoInv
        BY <2>3, <3>1 DEF OptInv
      <4> QED  BY <2>1, <4>1 DEF TodoInv, FoldingInv, Supported, VisitRecord, Child, N
    <3> QED  BY <2>1, <2>3, <3>1, <3>2, Stays DEF MiddleInv
  <2>4. CASE phase = "aborted"
    <3>1. OptInv
      BY <2>4 DEF MiddleInv
    <3>2. ShapeInv' /\ N' = N /\ \A u, s : Child(u, s)' = Child(u, s)
      BY <2>1, <3>1, ShapeStays DEF OptInv
    <3>3. r_root # NULL => ParentsInv' /\ TodoInv'
      BY <2>1, <2>4, <3>1, <3>2 DEF OptInv, ParentsInv, TodoInv, VisitRecord
    <3>4. OptInv'
      BY <2>1, <2>4, <3>1, <3>2, <3>3 DEF OptInv
    <3> QED  BY <2>1, <2>4, <3>4 DEF MiddleInv
  <2> QED  BY <2>2, <2>3, <2>4
<1>3. CASE Optimize
  <2>1. Opt!Next /\ outcome = "read" /\ UNCHANGED outcome
    BY <1>3 DEF Optimize
  <2>2. CASE phase = "read"
    <3>1. Opt!Begin
      BY <2>1, <2>2
         DEF Opt!Next, Opt!EliminateDeadCode, Opt!BeginRound, Opt!LastRound, Opt!EnterNode,
             Opt!LeaveNode, Opt!FoldNode, Opt!Dtor
    <3> QED  BY <2>1, <2>2, <3>1, BeginKeeps DEF MiddleInv
  <2>3. CASE phase # "read"
    BY <2>1, <2>3, OptimizeKeeps DEF MiddleInv
  <2> QED  BY <2>2, <2>3
<1>4. CASE WriteReduced
  <2>1. /\ UNCHANGED <<r_nodes, r_to_delete, r_root, parents, todo, outcome>>
        /\ phase = "optimized" /\ phase' \in {"aborted", "written"}
    BY <1>4 DEF WriteReduced, allVars, fileVars
  <2> QED  BY <2>1, EndKeeps DEF MiddleInv
<1>5. CASE WriteWhole \/ ReadBack
  <2>1. /\ UNCHANGED phase /\ TreeNext /\ outcome # "read"
    BY <1>5 DEF WriteWhole, ReadBack, WriteTree, ReadTree, TreeNext, optimizerVars, File!Write,
                File!Read, File!OpenPlain, File!OpenFunction, File!OpenVariable, File!Nil, File!Close,
                File!Finish, File!Reject, File!Overrun, File!WantsNode, File!Reading
  <2>2. phase = "read"
    BY <2>1 DEF MiddleInv, OptInv
  <2> QED  BY <1>1, <2>1, <2>2
<1>6. CASE FrontEnd
  BY <1>2, <1>6 DEF FrontEnd, Analyze
<1>7. CASE UNCHANGED middleVars
  BY <1>2, <1>7 DEF middleVars, allVars
<1> QED  BY <1>3, <1>4, <1>5, <1>6, <1>7 DEF MiddleNext

LEMMA MiddleInitInv == ASSUME MiddleInit PROVE MiddleInv
<1>1. phase = "read" /\ TreeInit
  BY DEF MiddleInit, Opt!Init
<1> QED  BY <1>1, TreeInitInv DEF MiddleInv

THEOREM MiddleEndInv == MiddleSpec => []MiddleInv
<1>1. MiddleInv /\ [MiddleNext]_middleVars => MiddleInv'
  BY MiddleStep, ValueAssumption
<1> QED  BY <1>1, MiddleInitInv, PTL DEF MiddleSpec

(* However the tree is cut and folded, every node but the root hangs in     *)
(* one place or is marked once, so that ast::dtor, which frees what it     *)
(* comes to from the root and from the marks, comes to no node twice.      *)
THEOREM MiddleEndTreeOrMarked == MiddleSpec => []TreeOrMarked
<1>1. MiddleInv => TreeOrMarked
  <2>1. CASE outcome # "read"
    BY <2>1 DEF TreeOrMarked
  <2>2. ASSUME MiddleInv, outcome = "read" PROVE ShapeInv
    BY <2>2, ReaderShape DEF MiddleInv, OptInv
  <2> QED  BY <2>1, <2>2, ShapeTreeOrMarked
<1> QED  BY <1>1, MiddleEndInv, PTL

(* const_fold_ hangs a literal on the parent of an operator: that is the    *)
(* node it hangs on, although the literals put in have no parent.          *)
THEOREM MiddleEndParentsLead == MiddleSpec => []ParentsLead
<1>1. MiddleInv => ParentsLead
  <2>1. CASE phase # "folding"
    BY <2>1 DEF ParentsLead
  <2>2. ASSUME MiddleInv, phase = "folding" PROVE OptInv /\ ParentsInv
    BY <2>2 DEF MiddleInv, OptInv
  <2> QED  BY <2>1, <2>2, ParentsOfOperators
<1> QED  BY <1>1, MiddleEndInv, PTL

-----------------------------------------------------------------------------
(* The nodes of a subtree.                                                 *)

NoRepeats(s) == \A i, j \in 1..Len(s) : s[i] = s[j] => i = j
Elems(s) == {s[i] : i \in 1..Len(s)}

LEMMA ConcatElems ==
  ASSUME NEW S, NEW a \in Seq(S), NEW b \in Seq(S)
  PROVE  /\ a \o b \in Seq(S) /\ Elems(a \o b) = Elems(a) \cup Elems(b)
         /\ NoRepeats(a) /\ NoRepeats(b) /\ Elems(a) \cap Elems(b) = {} => NoRepeats(a \o b)
<1> DEFINE s == a \o b
<1>1. /\ s \in Seq(S) /\ Len(s) = Len(a) + Len(b)
      /\ \A i \in 1 .. Len(a) + Len(b) : s[i] = IF i <= Len(a) THEN a[i] ELSE b[i - Len(a)]
  BY ConcatProperties
<1>2. Len(a) \in Nat /\ Len(b) \in Nat
  OBVIOUS
<1> HIDE DEF s
<1>3. \A i \in 1..Len(s) : \/ i \in 1..Len(a) /\ s[i] = a[i]
                           \/ i \notin 1..Len(a) /\ i - Len(a) \in 1..Len(b) /\ s[i] = b[i - Len(a)]
  BY <1>1, <1>2
<1>4. \A i \in 1..Len(a) : i \in 1..Len(s) /\ s[i] = a[i]
  BY <1>1, <1>2
<1>5. \A i \in 1..Len(b) : Len(a) + i \in 1..Len(s) /\ s[Len(a) + i] = b[i]
  <2> SUFFICES ASSUME NEW i \in 1..Len(b)
               PROVE  Len(a) + i \in 1..Len(s) /\ s[Len(a) + i] = b[i]
    OBVIOUS
  <2>1. /\ Len(a) + i \in 1 .. Len(a) + Len(b) /\ ~(Len(a) + i <= Len(a))
        /\ (Len(a) + i) - Len(a) = i
    BY <1>2
  <2> QED  BY <1>1, <2>1
<1>6. Elems(s) = Elems(a) \cup Elems(b)
  BY <1>3, <1>4, <1>5 DEF Elems
<1>7. ASSUME NoRepeats(a), NoRepeats(b), Elems(a) \cap Elems(b) = {} PROVE NoRepeats(s)
  <2> SUFFICES ASSUME NEW i \in 1..Len(s), NEW j \in 1..Len(s), s[i] = s[j] PROVE i = j
    BY DEF NoRepeats
  <2>1. \A k \in 1..Len(a) : a[k] \in Elems(a)
    BY DEF Elems
  <2>2. \A k \in 1..Len(b) : b[k] \in Elems(b)
    BY DEF Elems
  <2>3. (i \in 1..Len(a)) <=> (j \in 1..Len(a))
    BY <1>3, <1>7, <2>1, <2>2
  <2>4. i \in Int /\ j \in Int
    OBVIOUS
  <2>5. CASE i \in 1..Len(a)
    BY <1>3, <1>7, <2>3, <2>5 DEF NoRepeats
  <2>6. CASE i \notin 1..Len(a)
    <3>1. i - Len(a) = j - Len(a)
      BY <1>3, <1>7, <2>3, <2>6 DEF NoRepeats
    <3> QED  BY <1>2, <2>4, <3>1
  <2> QED  BY <2>5, <2>6
<1> QED  BY <1>1, <1>6, <1>7 DEF s

LEMMA OneElem ==
  ASSUME NEW S, NEW x \in S
  PROVE  <<x>> \in Seq(S) /\ Elems(<<x>>) = {x} /\ NoRepeats(<<x>>)
<1> DEFINE s == <<x>>
<1>1. s \in Seq(S) /\ Len(s) = 1 /\ s[1] = x
  OBVIOUS
<1> HIDE DEF s
<1>2. Elems(s) = {x} /\ NoRepeats(s)
  BY <1>1 DEF Elems, NoRepeats
<1> QED  BY <1>1, <1>2 DEF s

LEMMA NoElem ==
  ASSUME NEW S
  PROVE  << >> \in Seq(S) /\ Elems(<< >>) = {} /\ NoRepeats(<< >>)
  BY DEF Elems, NoRepeats

(* Pointers in ns lead to nodes made later, and to none twice.             *)
Forest(ns) ==
  /\ Len(ns) \in Nat
  /\ \A u \in 1..Len(ns) : \A s \in File!Sides : ns[u][s] = NULL \/ ns[u][s] \in u+1 .. Len(ns)
  /\ \A u1, u2 \in 1..Len(ns) : \A s1, s2 \in File!Sides :
        ns[u1][s1] = ns[u2][s2] /\ ns[u1][s1] # NULL => u1 = u2 /\ s1 = s2

(* below, as free_subtree gives it.                                        *)
IsBelow(ns, below) ==
  /\ DOMAIN below = 0..Len(ns)
  /\ below[0] = << >>
  /\ \A w \in 1..Len(ns) : below[w] = below[ns[w].left] \o below[ns[w].right] \o <<w>>

SubtreesOf(ns) ==
  CHOOSE below : below = [w \in 0..Len(ns) |->
     IF w = NULL THEN << >> ELSE below[ns[w].left] \o below[ns[w].right] \o <<w>>]

LEMMA BelowExists ==
  ASSUME NEW ns, Forest(ns)
  PROVE  IsBelow(ns, SubtreesOf(ns))
<1> DEFINE n == Len(ns)
           D == 0..n
           S == Seq(Nat)
           rank == [w \in D |-> IF w = NULL THEN 0 ELSE n + 1 - w]
           val(w, f) == IF w = NULL THEN << >> ELSE f[ns[w].left] \o f[ns[w].right] \o <<w>>
           step == [p \in D \X [D -> S] |-> val(p[1], p[2])]
<1>1. n \in Nat /\ NULL = 0 /\ "left" \in File!Sides /\ "right" \in File!Sides
  BY DEF Forest, NULL, File!Sides
<1>2. \A w \in D : w # NULL => /\ ns[w].left \in D /\ (ns[w].left # NULL => ns[w].left > w)
                               /\ ns[w].right \in D /\ (ns[w].right # NULL => ns[w].right > w)
  BY <1>1 DEF Forest
<1>3. rank \in [D -> 0..n]
  BY <1>1
<1>4. ASSUME NEW w \in D, NEW f \in [D -> S] PROVE val(w, f) \in S
  <2>1. CASE w = NULL
    BY <2>1
  <2>2. CASE w # NULL
    <3>1. f[ns[w].left] \in S /\ f[ns[w].right] \in S /\ <<w>> \in S
      BY <1>1, <1>2, <2>2
    <3>2. f[ns[w].left] \o f[ns[w].right] \in S
      BY ONLY <3>1
    <3> QED  BY ONLY <2>2, <3>1, <3>2
  <2> QED  BY ONLY <2>1, <2>2
<1>5. ASSUME NEW w \in D, NEW f \in [D -> S], NEW g \in [D -> S],
             \A u \in D : rank[u] < rank[w] => f[u] = g[u]
      PROVE  val(w, f) = val(w, g)
  <2>1. CASE w = NULL
    BY ONLY <2>1
  <2>2. CASE w # NULL
    <3>1. rank[ns[w].left] < rank[w] /\ rank[ns[w].right] < rank[w]
      BY <1>1, <1>2, <2>2
    <3>2. f[ns[w].left] = g[ns[w].left] /\ f[ns[w].right] = g[ns[w].right]
      <4> HIDE DEF rank, D, S
      <4> QED  BY <1>2, <1>5, <2>2, <3>1
    <3> QED  BY ONLY <2>2, <3>2
  <2> QED  BY ONLY <2>1, <2>2
<1>6. PICK f \in [D -> S] : \A w \in D : f[w] = val(w, f)
  <2>1. << >> \in S
    OBVIOUS
  <2> HIDE DEF rank, D, S, val
  <2>2. /\ step \in [D \X [D -> S] -> S]
        /\ \A w \in D : \A f \in [D -> S] : step[<<w, f>>] = val(w, f)
    BY <1>4
  <2> HIDE DEF step
  <2>3. RecursionOver(D, S, n, rank, step)
    <3>1. \A w \in D : \A f, g \in [D -> S] :
             (\A u \in D : rank[u] < rank[w] => f[u] = g[u]) => step[<<w, f>>] = step[<<w, g>>]
      BY <1>5, <2>2
    <3>2. n \in Nat
      BY <1>1
    <3> HIDE DEF n
    <3> QED  BY ONLY <1>3, <2>1, <2>2, <3>1, <3>2 DEF RecursionOver
  <2>4. \E f \in [D -> S] : \A w \in D : f[w] = step[<<w, f>>]
    BY <2>3, Recursion, SMTT(30)
  <2> QED  BY <2>2, <2>4
<1>8. f = [w \in 0..Len(ns) |->
             IF w = NULL THEN << >> ELSE f[ns[w].left] \o f[ns[w].right] \o <<w>>]
  <2>1. f = [w \in D |-> val(w, f)]
    <3> HIDE DEF val, step, rank, S
    <3> QED  BY <1>6
  <2> QED  BY ONLY <2>1
<1>9. SubtreesOf(ns) = [w \in 0..Len(ns) |->
          IF w = NULL THEN << >> ELSE SubtreesOf(ns)[ns[w].left] \o SubtreesOf(ns)[ns[w].right] \o <<w>>]
  BY ONLY <1>8 DEF SubtreesOf
<1> QED
  <2> HIDE DEF rank, step, D, S, val
  <2>1. 0 \in 0..Len(ns) /\ \A w \in 1..Len(ns) : w \in 0..Len(ns) /\ w # NULL
    BY <1>1, SMTT(30)
  <2> DEFINE b == SubtreesOf(ns)
  <2>2. b = [w \in 0..Len(ns) |->
          IF w = NULL THEN << >> ELSE b[ns[w].left] \o b[ns[w].right] \o <<w>>]
    BY <1>9
  <2> HIDE DEF b
  <2>3. IsBelow(ns, b)
    BY ONLY <1>1, <2>1, <2>2 DEF IsBelow
  <2> QED  BY <2>3 DEF b

Under(b, w) == Elems(b[w])

LEMMA SubtreesTyped ==
  ASSUME NEW ns, Forest(ns), NEW b, IsBelow(ns, b)
  PROVE  /\ Under(b, 0) = {}
         /\ \A w \in 0..Len(ns) : b[w] \in Seq(Nat)
         /\ \A w \in 1..Len(ns) :
               /\ Under(b, w) = Under(b, ns[w].left) \cup Under(b, ns[w].right) \cup {w}
               /\ Under(b, w) \subseteq w..Len(ns)
               /\ \A s \in File!Sides : ns[w][s] \in 0..Len(ns)
<1> DEFINE n == Len(ns)
           G == {w \in 1..n :
                   /\ b[w] \in Seq(Nat)
                   /\ Under(b, w) = Under(b, ns[w].left) \cup Under(b, ns[w].right) \cup {w}
                   /\ Under(b, w) \subseteq w..n}
<1>1. /\ n \in Nat /\ NULL = 0
      /\ \A w \in 1..n : \A s \in File!Sides : ns[w][s] = 0 \/ ns[w][s] \in w+1 .. n
      /\ "left" \in File!Sides /\ "right" \in File!Sides
  BY DEF Forest, NULL, File!Sides
<1>2. Under(b, 0) = {} /\ b[0] \in Seq(Nat)
  BY NoElem DEF IsBelow, Under
<1>3. ASSUME NEW w \in 1..n, w+1 .. n \subseteq G PROVE w \in G
  <2> DEFINE l == ns[w].left
             r == ns[w].right
  <2>1. b[w] = b[l] \o b[r] \o <<w>>
    BY DEF IsBelow
  <2>2. (l = 0 \/ l \in w+1 .. n) /\ (r = 0 \/ r \in w+1 .. n)
    BY <1>1
  <2> HIDE DEF l, r, n
  <2>3. /\ b[l] \in Seq(Nat) /\ Under(b, l) \subseteq w+1 .. n
        /\ b[r] \in Seq(Nat) /\ Under(b, r) \subseteq w+1 .. n
    <3>1. \A u \in w+1 .. n : b[u] \in Seq(Nat) /\ Under(b, u) \subseteq w+1 .. n
      BY <1>1, <1>3
    <3> QED  BY ONLY <1>2, <2>2, <3>1
  <2>4. b[l] \o b[r] \in Seq(Nat) /\ Elems(b[l] \o b[r]) = Under(b, l) \cup Under(b, r)
    BY ONLY <2>3, ConcatElems, ZenonT(60) DEF Under
  <2>5. <<w>> \in Seq(Nat) /\ Elems(<<w>>) = {w}
    BY <1>1, OneElem
  <2>6. /\ b[l] \o b[r] \o <<w>> \in Seq(Nat)
        /\ Elems(b[l] \o b[r] \o <<w>>) = Under(b, l) \cup Under(b, r) \cup {w}
    <3> DEFINE m == b[l] \o b[r]
               one == <<w>>
    <3>1. m \in Seq(Nat) /\ one \in Seq(Nat)
      BY ONLY <2>4, <2>5
    <3> HIDE DEF m, one
    <3>2. m \o one \in Seq(Nat) /\ Elems(m \o one) = Elems(m) \cup Elems(one)
      BY ONLY <3>1, ConcatElems
    <3> QED  BY ONLY <2>4, <2>5, <3>2 DEF m, one
  <2>7. b[w] \in Seq(Nat) /\ Under(b, w) = Under(b, l) \cup Under(b, r) \cup {w}
    BY ONLY <2>1, <2>6 DEF Under
  <2>8. Under(b, w) \subseteq w..n
    BY ONLY <1>1, <2>3, <2>7, w \in 1..n
  <2> QED  BY <2>7, <2>8 DEF l, r
<1>4. 1..n \subseteq G
  <2> HIDE DEF G, n
  <2> QED  BY <1>1, <1>3, DownInduction
<1> QED
  <2>1. \A w \in 0..n : w = 0 \/ w \in 1..n
    BY <1>1
  <2>2. \A w \in 0..n : b[w] \in Seq(Nat)
    BY <1>2, <1>4, <2>1
  <2>3. \A w \in 1..n : \A s \in File!Sides : ns[w][s] \in 0..n
    BY <1>1
  <2> QED  BY <1>2, <1>4, <2>2, <2>3

(* A subtree holds the children of its nodes.                              *)
LEMMA SubtreesClosed ==
  ASSUME NEW ns, Forest(ns), NEW b, IsBelow(ns, b),
         NEW w \in 1..Len(ns), NEW u \in Under(b, w), NEW s \in File!Sides, ns[u][s] # NULL
  PROVE  ns[u][s] \in Under(b, w)
<1> DEFINE n == Len(ns)
           G == {t \in 1..n : \A x \in Under(b, t) : \A side \in File!Sides :
                                 ns[x][side] # NULL => ns[x][side] \in Under(b, t)}
<1>1. /\ n \in Nat /\ NULL = 0 /\ File!Sides = {"left", "right"} /\ Under(b, 0) = {}
      /\ \A t \in 1..n : \A side \in File!Sides : ns[t][side] = 0 \/ ns[t][side] \in t+1 .. n
      /\ \A t \in 1..n : Under(b, t) = Under(b, ns[t].left) \cup Under(b, ns[t].right) \cup {t}
  BY SubtreesTyped DEF Forest, NULL, File!Sides
<1> HIDE DEF n
<1>2. \A t \in 1..n : t \in Under(b, t)
  BY <1>1
<1>3. ASSUME NEW t \in 1..n, t+1 .. n \subseteq G PROVE t \in G
  <2> SUFFICES ASSUME NEW x \in Under(b, t), NEW side \in File!Sides, ns[x][side] # NULL
               PROVE  ns[x][side] \in Under(b, t)
    OBVIOUS
  <2>1. CASE x = t
    <3>1. ns[t][side] \in Under(b, ns[t][side])
      BY <1>1, <1>2, <2>1
    <3> QED  BY <1>1, <2>1, <3>1
  <2>2. ASSUME NEW half \in File!Sides, x \in Under(b, ns[t][half])
        PROVE  ns[x][side] \in Under(b, t)
    <3>1. ns[t][half] \in t+1 .. n
      BY <1>1, <2>2
    <3>2. ns[x][side] \in Under(b, ns[t][half])
      BY <1>3, <2>2, <3>1
    <3> QED  BY <1>1, <3>2
  <2> QED  BY <1>1, <2>1, <2>2
<1>4. 1..n \subseteq G
  <2> HIDE DEF G
  <2> QED  BY <1>1, <1>3, DownInduction
<1> QED  BY <1>4 DEF n

(* A node of a subtree is its root or hangs on a node of it.               *)
LEMMA SubtreesHang ==
  ASSUME NEW ns, Forest(ns), NEW b, IsBelow(ns, b),
         NEW w \in 1..Len(ns), NEW u \in Under(b, w), u # w
  PROVE  \E p \in Under(b, w) : \E s \in File!Sides : ns[p][s] = u
<1> DEFINE n == Len(ns)
           G == {t \in 1..n : \A x \in Under(b, t) :
                    x = t \/ \E p \in Under(b, t) : \E s \in File!Sides : ns[p][s] = x}
<1>1. /\ n \in Nat /\ NULL = 0 /\ File!Sides = {"left", "right"} /\ Under(b, 0) = {}
      /\ \A t \in 1..n : \A side \in File!Sides : ns[t][side] = 0 \/ ns[t][side] \in t+1 .. n
      /\ \A t \in 1..n : Under(b, t) = Under(b, ns[t].left) \cup Under(b, ns[t].right) \cup {t}
  <2>1. n \in Nat /\ NULL = 0 /\ File!Sides = {"left", "right"}
    BY DEF Forest, NULL, File!Sides
  <2>2. \A t \in 1..n : \A side \in File!Sides : ns[t][side] = 0 \/ ns[t][side] \in t+1 .. n
    BY <2>1 DEF Forest
  <2> HIDE DEF G
  <2>3. /\ Under(b, 0) = {}
        /\ \A t \in 1..n : Under(b, t) = Under(b, ns[t].left) \cup Under(b, ns[t].right) \cup {t}
    BY SubtreesTyped
  <2> QED  BY <2>1, <2>2, <2>3
<1> HIDE DEF n
<1>3. ASSUME NEW t \in 1..n, t+1 .. n \subseteq G PROVE t \in G
  <2> SUFFICES ASSUME NEW x \in Under(b, t), x # t
               PROVE  \E p \in Under(b, t) : \E s \in File!Sides : ns[p][s] = x
    OBVIOUS
  <2>1. PICK half \in File!Sides : x \in Under(b, ns[t][half])
    BY <1>1
  <2>2. ns[t][half] \in t+1 .. n /\ Under(b, ns[t][half]) \subseteq Under(b, t)
    BY <1>1, <2>1
  <2>3. CASE x = ns[t][half]
    <3>1. t \in Under(b, t)
      BY <1>1
    <3> QED  BY <2>3, <3>1
  <2>4. CASE x # ns[t][half]
    <3>1. \E p \in Under(b, ns[t][half]) : \E s \in File!Sides : ns[p][s] = x
      BY <1>3, <2>1, <2>2, <2>4
    <3> QED  BY <2>2, <3>1
  <2> QED  BY <2>3, <2>4
<1>4. 1..n \subseteq G
  <2> HIDE DEF G
  <2> QED  BY <1>1, <1>3, DownInduction
<1> QED  BY <1>4 DEF n

(* Two subtrees neither of which holds the other's root have no node in    *)
(* common: the first common one would hang twice.                          *)
LEMMA SubtreesApart ==
  ASSUME NEW ns, Forest(ns), NEW b, IsBelow(ns, b),
         NEW v \in 1..Len(ns), NEW w \in 1..Len(ns), v \notin Under(b, w), w \notin Under(b, v)
  PROVE  Under(b, v) \cap Under(b, w) = {}
<1> DEFINE n == Len(ns)
           common == Under(b, v) \cap Under(b, w)
<1> SUFFICES ASSUME common # {} PROVE FALSE
  OBVIOUS
<1>1. /\ n \in Nat /\ NULL = 0 /\ common \in SUBSET (1..n)
      /\ v \in 1..n /\ w \in 1..n
  BY SubtreesTyped DEF Forest, NULL
<1>2. common \in SUBSET Nat
  BY <1>1
<1>3. PICK u \in common : \A x \in common : u <= x
  <2> HIDE DEF common
  <2> QED  BY <1>2, MinProperties
<1>4. PICK p \in Under(b, v), s \in File!Sides : ns[p][s] = u
  BY <1>3, SubtreesHang
<1>5. PICK q \in Under(b, w), t \in File!Sides : ns[q][t] = u
  BY <1>3, SubtreesHang
<1>6. p \in 1..n /\ q \in 1..n /\ u # NULL
  BY <1>1, <1>3, SubtreesTyped
<1>7. p = q /\ u \in p+1 .. n
  BY <1>4, <1>5, <1>6 DEF Forest
<1>8. p \in common
  BY <1>4, <1>5, <1>7
<1>9. u <= p
  BY <1>3, <1>8
<1> QED  BY <1>1, <1>6, <1>7, <1>9

LEMMA SubtreesNoRepeats ==
  ASSUME NEW ns, Forest(ns), NEW b, IsBelow(ns, b), NEW w \in 1..Len(ns)
  PROVE  NoRepeats(b[w])
<1> DEFINE n == Len(ns)
           G == {t \in 1..n : NoRepeats(b[t])}
<1>1. /\ n \in Nat /\ NULL = 0 /\ File!Sides = {"left", "right"} /\ b[0] = << >> /\ Under(b, 0) = {}
      /\ \A t \in 1..n : \A side \in File!Sides : ns[t][side] = 0 \/ ns[t][side] \in t+1 .. n
      /\ \A t \in 1..n : Under(b, t) \subseteq t..n
      /\ \A t \in 0..n : b[t] \in Seq(Nat)
      /\ \A t \in 1..n : b[t] = b[ns[t].left] \o b[ns[t].right] \o <<t>>
  BY SubtreesTyped DEF Forest, NULL, File!Sides, IsBelow
<1>2. ASSUME NEW t \in 1..n, t+1 .. n \subseteq G PROVE t \in G
  <2> DEFINE l == ns[t].left
             r == ns[t].right
  <2>1. /\ l = 0 \/ l \in t+1 .. n
        /\ r = 0 \/ r \in t+1 .. n
    BY <1>1
  <2>2. NoRepeats(b[l]) /\ NoRepeats(b[r])
    <3>1. NoRepeats(b[0])
      BY <1>1, NoElem
    <3> HIDE DEF l, r, n
    <3> QED  BY <1>2, <2>1, <3>1
  <2>3. Under(b, l) \subseteq t+1 .. n /\ Under(b, r) \subseteq t+1 .. n
    <3> HIDE DEF l, r, n
    <3> QED  BY <1>1, <2>1
  <2>4. Under(b, l) \cap Under(b, r) = {}
    <3>1. CASE l = 0 \/ r = 0
      BY <1>1, <3>1
    <3>2. CASE l # 0 /\ r # 0
      <4>1. l # r
        <5>1. "left" # "right" /\ "left" \in File!Sides /\ "right" \in File!Sides
          BY <1>1
        <5>2. l = r => "left" = "right"
          BY <1>1, <3>2, <5>1, ZenonT(60) DEF Forest
        <5> QED  BY <5>1, <5>2
      (* One below the other would hang on t, which is none of its nodes.  *)
      <4>2. ASSUME NEW x \in {l, r}, NEW y \in {l, r}, x # y PROVE x \notin Under(b, y)
        <5> SUFFICES ASSUME x \in Under(b, y) PROVE FALSE
          OBVIOUS
        <5>1. y \in 1..n /\ x \in 1..n /\ x # NULL /\ y >= t + 1
          BY <1>1, <2>1, <3>2
        <5>2. PICK p \in Under(b, y), s \in File!Sides : ns[p][s] = x
          <6>1. x # y /\ y \in 1..Len(ns) /\ x \in Under(b, y)
            BY <4>2, <5>1
          <6>2. \A z \in 1..Len(ns) : \A q \in Under(b, z) :
                   q # z => \E p \in Under(b, z) : \E s \in File!Sides : ns[p][s] = q
            BY SubtreesHang
          <6> HIDE DEF l, r, n
          <6> QED  BY ONLY <6>1, <6>2
        <5>3. p \in 1..n /\ p >= t + 1
          <6> HIDE DEF l, r
          <6> QED  BY <1>1, <5>1, <5>2
        <5>4. PICK side \in File!Sides : ns[t][side] = x
          BY <1>1
        <5>5. p = t
          <6> HIDE DEF l, r
          <6> QED  BY <5>1, <5>2, <5>3, <5>4 DEF Forest
        <5> QED  BY <5>3, <5>5
      <4>3. l \in 1..n /\ r \in 1..n
        BY <1>1, <2>1, <3>2
      <4> HIDE DEF l, r
      <4> QED  BY <4>1, <4>2, <4>3, SubtreesApart
    <3> QED  BY <3>1, <3>2
  <2>5. b[l] \in Seq(Nat) /\ b[r] \in Seq(Nat)
    <3>1. l \in 0..n /\ r \in 0..n
      BY <1>1, <2>1
    <3> QED  BY <1>1, <3>1
  <2> HIDE DEF l, r
  <2>6. /\ b[l] \o b[r] \in Seq(Nat) /\ Elems(b[l] \o b[r]) = Under(b, l) \cup Under(b, r)
        /\ NoRepeats(b[l] \o b[r])
    <3>1. Elems(b[l]) \cap Elems(b[r]) = {}
      BY ONLY <2>4 DEF Under
    <3>2. /\ b[l] \o b[r] \in Seq(Nat) /\ Elems(b[l] \o b[r]) = Elems(b[l]) \cup Elems(b[r])
          /\ NoRepeats(b[l]) /\ NoRepeats(b[r]) /\ Elems(b[l]) \cap Elems(b[r]) = {}
             => NoRepeats(b[l] \o b[r])
      BY ONLY <2>5, ConcatElems, ZenonT(60)
    <3> QED  BY ONLY <2>2, <3>1, <3>2 DEF Under
  <2>7. <<t>> \in Seq(Nat) /\ Elems(<<t>>) = {t} /\ NoRepeats(<<t>>)
    BY <1>1, OneElem
  <2>8. NoRepeats(b[l] \o b[r] \o <<t>>)
    <3>1. Elems(b[l] \o b[r]) \cap Elems(<<t>>) = {}
      BY <1>1, <2>3, <2>6, <2>7, SMTT(30)
    <3>2. /\ NoRepeats(b[l] \o b[r]) /\ NoRepeats(<<t>>)
          /\ Elems(b[l] \o b[r]) \cap Elems(<<t>>) = {}
          => NoRepeats(b[l] \o b[r] \o <<t>>)
      BY ONLY <2>6, <2>7, ConcatElems, ZenonT(60)
    <3> QED  BY ONLY <2>6, <2>7, <3>1, <3>2
  <2>9. b[t] = b[l] \o b[r] \o <<t>>
    BY <1>1 DEF l, r
  <2> QED  BY <2>8, <2>9
<1>3. 1..n \subseteq G
  <2> HIDE DEF G, n
  <2> QED  BY <1>1, <1>2, DownInduction
<1> QED  BY <1>3, SMTT(30)

-----------------------------------------------------------------------------
(* ast::dtor.                                                              *)

LEMMA FlattenElems ==
  ASSUME NEW m \in Nat, NEW seqs \in [1..m -> Seq(Nat)],
         \A i \in 1..m : NoRepeats(seqs[i]),
         \A i, j \in 1..m : i # j => Elems(seqs[i]) \cap Elems(seqs[j]) = {}
  PROVE  /\ Opt!FlattenSeq(seqs) \in Seq(Nat)
         /\ NoRepeats(Opt!FlattenSeq(seqs))
         /\ Elems(Opt!FlattenSeq(seqs)) = UNION {Elems(seqs[i]) : i \in 1..m}
<1>1. Len(seqs) = m
  OBVIOUS
<1>2. CASE m = 0
  <2>1. seqs = << >>
    BY <1>2
  <2>2. Opt!FlattenSeq(seqs) = << >>
    BY <1>1, <1>2, <2>1 DEF Opt!FlattenSeq
  <2>3. 1..m = {}
    BY <1>2
  <2> QED  BY <2>2, <2>3, NoElem
<1>3. CASE m # 0
  <2> DEFINE D == 1..m
             S == Seq(Nat)
             rank == [i \in D |-> i]
             step == [p \in D \X [D -> S] |->
                        IF p[1] = 1 THEN seqs[p[1]] ELSE p[2][p[1] - 1] \o seqs[p[1]]]
  <2>1. step \in [D \X [D -> S] -> S]
    <3> SUFFICES ASSUME NEW i \in D, NEW f \in [D -> S], i # 1
                 PROVE  f[i - 1] \o seqs[i] \in S
      OBVIOUS
    <3>1. f[i - 1] \in S /\ seqs[i] \in S
      OBVIOUS
    <3> QED  BY <3>1
  <2>2. ASSUME NEW i \in D, NEW f \in [D -> S], NEW g \in [D -> S],
               \A u \in D : rank[u] < rank[i] => f[u] = g[u]
        PROVE  step[<<i, f>>] = step[<<i, g>>]
    <3>1. i # 1 => f[i - 1] = g[i - 1]
      BY <2>2
    <3> QED  BY <3>1
  <2>3. rank \in [D -> 0..m] /\ << >> \in S
    OBVIOUS
  <2>4. RecursionOver(D, S, m, rank, step)
    <3> HIDE DEF rank, step, D, S
    <3> QED  BY <2>1, <2>2, <2>3 DEF RecursionOver
  <2>5. \E f \in [D -> S] : \A i \in D : f[i] = step[<<i, f>>]
    <3> HIDE DEF rank, step, D, S
    <3> QED  BY <2>4, Recursion
  <2>6. PICK g \in [D -> S] : \A i \in D : g[i] = step[<<i, g>>]
    BY <2>5
  <2>7. g = [i \in 1..Len(seqs) |-> IF i = 1 THEN seqs[i] ELSE g[i - 1] \o seqs[i]]
    BY <1>1, <2>6, ZenonT(60)
  <2> DEFINE f == CHOOSE flatten : flatten =
                    [i \in 1..Len(seqs) |-> IF i = 1 THEN seqs[i] ELSE flatten[i - 1] \o seqs[i]]
  <2>8. f = [i \in 1..Len(seqs) |-> IF i = 1 THEN seqs[i] ELSE f[i - 1] \o seqs[i]]
    BY ONLY <2>7
  <2>9. Opt!FlattenSeq(seqs) = f[m]
    BY <1>1, <1>3 DEF Opt!FlattenSeq
  <2> HIDE DEF f
  <2> DEFINE G == {k \in 1..m : /\ f[k] \in Seq(Nat) /\ NoRepeats(f[k])
                                /\ Elems(f[k]) = UNION {Elems(seqs[i]) : i \in 1..k}}
  <2>10. ASSUME NEW k \in 1..m, 1 .. k-1 \subseteq G PROVE k \in G
    <3>1. CASE k = 1
      <4>1. f[k] = seqs[1]
        BY <1>1, <2>8, <3>1
      <4>2. UNION {Elems(seqs[i]) : i \in 1..k} = Elems(seqs[1])
        <5>1. 1..k = {1}
          BY <3>1
        <5> QED  BY <5>1
      <4> QED  BY <3>1, <4>1, <4>2
    <3>2. CASE k # 1
      <4>1. k - 1 \in G /\ f[k] = f[k - 1] \o seqs[k]
        <5>1. k - 1 \in 1 .. k-1 /\ k \in 1..Len(seqs)
          BY <1>1, <3>2
        <5>2. f[k] = f[k - 1] \o seqs[k]
          BY ONLY <2>8, <3>2, <5>1
        <5> HIDE DEF G
        <5> QED  BY <2>10, <5>1, <5>2
      <4>2. /\ f[k - 1] \in Seq(Nat) /\ NoRepeats(f[k - 1]) /\ seqs[k] \in Seq(Nat)
            /\ Elems(f[k - 1]) = UNION {Elems(seqs[i]) : i \in 1 .. k-1}
        BY <4>1
      <4>3. Elems(f[k - 1]) \cap Elems(seqs[k]) = {}
        <5>1. \A i \in 1 .. k-1 : i \in 1..m /\ i # k
          OBVIOUS
        <5> QED  BY <4>2, <5>1
      <4>4. /\ f[k - 1] \o seqs[k] \in Seq(Nat)
            /\ Elems(f[k - 1] \o seqs[k]) = Elems(f[k - 1]) \cup Elems(seqs[k])
            /\ NoRepeats(f[k - 1]) /\ NoRepeats(seqs[k]) /\ Elems(f[k - 1]) \cap Elems(seqs[k]) = {}
               => NoRepeats(f[k - 1] \o seqs[k])
        <5> DEFINE x == f[k - 1]
                   y == seqs[k]
        <5>1. x \in Seq(Nat) /\ y \in Seq(Nat)
          BY ONLY <4>2
        <5> HIDE DEF x, y
        <5>2. /\ x \o y \in Seq(Nat)
              /\ Elems(x \o y) = Elems(x) \cup Elems(y)
              /\ NoRepeats(x) /\ NoRepeats(y) /\ Elems(x) \cap Elems(y) = {} => NoRepeats(x \o y)
          BY ONLY <5>1, ConcatElems, ZenonT(60)
        <5> QED  BY ONLY <5>2 DEF x, y
      <4>5. 1..k = (1 .. k-1) \cup {k}
        OBVIOUS
      <4>6. UNION {Elems(seqs[i]) : i \in 1..k} =
              (UNION {Elems(seqs[i]) : i \in 1 .. k-1}) \cup Elems(seqs[k])
        BY ONLY <4>5
      <4>7. NoRepeats(seqs[k])
        OBVIOUS
      <4> QED  BY <4>1, <4>2, <4>3, <4>4, <4>6, <4>7
    <3> QED  BY <3>1, <3>2
  <2>11. 1..m \subseteq G
    <3> HIDE DEF G
    <3> QED  BY <2>10, UpInduction
  <2>12. m \in 1..m
    BY <1>3
  <2> QED  BY <2>9, <2>11, <2>12
<1> QED  BY <1>2, <1>3

Marks == {r_to_delete[i] : i \in 1..M}

LEMMA ShapeForest == ASSUME ShapeInv PROVE Forest(r_nodes)
  BY ShapeFacts DEF ShapeInv, Forward, Once, Forest, Child, N

(* Every node is in the tree or below a mark.                              *)
LEMMA ShapeCovered ==
  ASSUME ShapeInv, NEW b, IsBelow(r_nodes, b), NEW v \in 1..N
  PROVE  \E t \in {1} \cup Marks : v \in Under(b, t)
<1> DEFINE G == {u \in 1..N : \E t \in {1} \cup Marks : u \in Under(b, t)}
<1>1. /\ Forest(r_nodes) /\ N \in Nat /\ N = Len(r_nodes) /\ Marks \subseteq 1..N /\ 1 \in 1..N
      /\ \A t \in 1..N : t \in Under(b, t)
  <2>1. Forest(r_nodes) /\ N \in Nat /\ N = Len(r_nodes) /\ 1 \in 1..N
    BY ShapeForest, ShapeFacts DEF N
  <2>2. Marks \subseteq 1..N
    BY <2>1 DEF Marks, ShapeInv, MarksInv
  <2>3. \A t \in 1..N : t \in Under(b, t)
    BY <2>1, SubtreesTyped
  <2> QED  BY <2>1, <2>2, <2>3
<1>2. ASSUME NEW u \in 1..N, 1 .. u-1 \subseteq G PROVE u \in G
  <2>1. CASE u = 1 \/ u \in Marks
    BY <1>1, <2>1
  <2>2. CASE u # 1 /\ u \notin Marks
    <3>1. Hangs(u)
      BY <1>1, <2>2 DEF ShapeInv, KeptInv, IsMarked, Marks
    <3>2. PICK p \in 1..N, s \in File!Sides : Child(p, s) = u
      BY <3>1 DEF Hangs
    <3>3. u \in p+1 .. N /\ r_nodes[p][s] = u
      BY <1>1, <3>2 DEF ShapeInv, Forward, Child, NULL
    <3>4. p \in G
      BY <1>1, <1>2, <3>3
    <3>5. PICK t \in {1} \cup Marks : p \in Under(b, t)
      BY <3>4
    <3>6. u # NULL /\ t \in 1..Len(r_nodes)
      BY <1>1, <3>5 DEF NULL
    <3>7. u \in Under(b, t)
      BY <1>1, <3>3, <3>5, <3>6, SubtreesClosed
    <3> QED  BY <3>5, <3>7
  <2> QED  BY <2>1, <2>2
<1>3. 1..N \subseteq G
  <2> HIDE DEF G
  <2> QED  BY <1>1, <1>2, UpInduction
<1> QED  BY <1>3

(* The root and the marks hang nowhere, so that their subtrees are apart.  *)
LEMMA ShapeApart ==
  ASSUME ShapeInv, NEW b, IsBelow(r_nodes, b), N >= 1,
         NEW t1 \in {1} \cup Marks, NEW t2 \in {1} \cup Marks, t1 # t2
  PROVE  Under(b, t1) \cap Under(b, t2) = {}
<1>1. /\ Forest(r_nodes) /\ N \in Nat /\ N = Len(r_nodes)
      /\ t1 \in 1..Len(r_nodes) /\ t2 \in 1..Len(r_nodes)
  BY ShapeForest, ShapeFacts DEF N, Marks, ShapeInv, MarksInv
<1>2. ASSUME NEW t \in {1} \cup Marks, NEW u \in 1..N, NEW s \in File!Sides PROVE Child(u, s) # t
  <2>1. CASE t = 1
    BY <1>1, <2>1 DEF ShapeInv, Forward, NULL
  <2>2. CASE t \in Marks
    BY <2>2 DEF ShapeInv, MarksInv, Marks
  <2> QED  BY <2>1, <2>2
<1>3. ASSUME NEW x \in {1} \cup Marks, NEW y \in {1} \cup Marks, x # y, y \in 1..Len(r_nodes),
             x \in Under(b, y)
      PROVE  FALSE
  <2>1. PICK p \in Under(b, y) : \E s \in File!Sides : r_nodes[p][s] = x
    <3>1. \A z \in 1..Len(r_nodes) : \A q \in Under(b, z) :
             q # z => \E p \in Under(b, z) : \E s \in File!Sides : r_nodes[p][s] = q
      BY <1>1, SubtreesHang
    <3> QED  BY <1>3, <3>1
  <2>2. p \in 1..N
    BY <1>1, <1>3, <2>1, SubtreesTyped
  <2> QED  BY <1>2, <2>1, <2>2 DEF Child
<1>4. t1 \notin Under(b, t2) /\ t2 \notin Under(b, t1)
  BY <1>1, <1>3
<1> QED  BY <1>1, <1>4, SubtreesApart

Freed(b) == b[r_root] \o Opt!FlattenSeq([i \in 1..M |-> b[r_to_delete[i]]])

LEMMA FreedAll ==
  ASSUME ShapeInv, NEW b, IsBelow(r_nodes, b), N >= 1
  PROVE  Freed(b) \in Seq(Nat) /\ NoRepeats(Freed(b)) /\ Elems(Freed(b)) = 1..N
<1> DEFINE seqs == [i \in 1..M |-> b[r_to_delete[i]]]
           flat == Opt!FlattenSeq(seqs)
<1>1. /\ Forest(r_nodes) /\ N \in Nat /\ M \in Nat /\ N = Len(r_nodes) /\ r_root = 1 /\ 1 \in 1..N
      /\ \A i \in 1..M : r_to_delete[i] \in 1..N /\ r_to_delete[i] # 1
      /\ \A i, j \in 1..M : r_to_delete[i] = r_to_delete[j] => i = j
  BY ShapeForest, ShapeFacts DEF N, ShapeInv, MarksInv
<1>2. \A t \in 1..N : b[t] \in Seq(Nat) /\ Under(b, t) \subseteq 1..N /\ NoRepeats(b[t])
  <2>1. \A t \in 1..N : t \in 0..Len(r_nodes) /\ t..Len(r_nodes) \subseteq 1..N
    BY <1>1
  <2> QED  BY <1>1, <2>1, SubtreesTyped, SubtreesNoRepeats
<1>3. /\ flat \in Seq(Nat) /\ NoRepeats(flat)
      /\ Elems(flat) = UNION {Elems(seqs[i]) : i \in 1..M}
  <2>1. seqs \in [1..M -> Seq(Nat)] /\ \A i \in 1..M : NoRepeats(seqs[i])
    BY <1>1, <1>2
  <2>2. ASSUME NEW i \in 1..M, NEW j \in 1..M, i # j PROVE Elems(seqs[i]) \cap Elems(seqs[j]) = {}
    <3>1. /\ r_to_delete[i] # r_to_delete[j]
          /\ r_to_delete[i] \in {1} \cup Marks /\ r_to_delete[j] \in {1} \cup Marks
      BY <1>1, <2>2 DEF Marks
    <3>2. Under(b, r_to_delete[i]) \cap Under(b, r_to_delete[j]) = {}
      BY <3>1, ShapeApart
    <3> QED  BY <3>2 DEF Under
  <2> HIDE DEF seqs
  <2> QED  BY <1>1, <2>1, <2>2, FlattenElems
<1>4. Elems(flat) = UNION {Under(b, t) : t \in Marks}
  <2>1. \A i \in 1..M : Elems(seqs[i]) = Under(b, r_to_delete[i])
    BY DEF Under
  <2> HIDE DEF seqs, flat
  <2> QED  BY <1>3, <2>1 DEF Marks
<1> HIDE DEF seqs, flat
<1>5. Elems(b[r_root]) \cap Elems(flat) = {}
  <2>1. \A t \in Marks : t # 1
    BY <1>1 DEF Marks
  <2>2. \A t \in Marks : Under(b, 1) \cap Under(b, t) = {}
    BY <2>1, ShapeApart
  <2> QED  BY <1>1, <1>4, <2>2 DEF Under
<1>6. b[r_root] \in Seq(Nat) /\ NoRepeats(b[r_root])
  BY <1>1, <1>2
<1>7. /\ b[r_root] \o flat \in Seq(Nat)
      /\ Elems(b[r_root] \o flat) = Elems(b[r_root]) \cup Elems(flat)
      /\ NoRepeats(b[r_root]) /\ NoRepeats(flat) /\ Elems(b[r_root]) \cap Elems(flat) = {}
         => NoRepeats(b[r_root] \o flat)
  BY ONLY <1>3, <1>6, ConcatElems, ZenonT(60)
<1>8. Elems(b[r_root]) \cup Elems(flat) = 1..N
  <2>1. Elems(b[r_root]) = Under(b, 1)
    BY <1>1 DEF Under
  <2>2. \A v \in 1..N : v \in Under(b, 1) \/ \E t \in Marks : v \in Under(b, t)
    BY ShapeCovered
  <2>3. Marks \subseteq 1..N
    BY <1>1 DEF Marks
  <2> QED  BY <1>1, <1>2, <1>4, <2>1, <2>2, <2>3
<1>9. Freed(b) = b[r_root] \o flat
  BY DEF Freed, flat, seqs
<1> QED  BY <1>3, <1>5, <1>6, <1>7, <1>8, <1>9

FreesInv == phase = "done" => \A v \in 1..N : frees[v] = 1

LEMMA DtorFrees ==
  ASSUME ShapeInv, N >= 1, Opt!Dtor
  PROVE  FreesInv'
<1> DEFINE b == SubtreesOf(r_nodes)
           gone == Freed(b)
<1>1. IsBelow(r_nodes, b)
  BY ShapeForest, BelowExists
<1>2. \A v : Opt!Subtree(v) = b[v]
  BY DEF Opt!Subtree, SubtreesOf, Opt!NULL, NULL
<1>3. /\ UNCHANGED r_nodes
      /\ frees' = [v \in 1..Len(r_nodes) |-> Cardinality({i \in 1..Len(gone) : gone[i] = v})]
  <2>1. Opt!Subtree(r_root) \o
          Opt!FlattenSeq([i \in 1..Len(r_to_delete) |-> Opt!Subtree(r_to_delete[i])]) = gone
    <3> HIDE DEF b
    <3> QED  BY <1>2 DEF Freed, M
  <2>2. \A S : Opt!Cardinality(S) = Cardinality(S)
    BY DEF Opt!Cardinality, Cardinality
  <2> HIDE DEF gone
  <2> QED  BY <2>1, <2>2 DEF Opt!Dtor
<1> HIDE DEF b
<1>4. gone \in Seq(Nat) /\ NoRepeats(gone) /\ Elems(gone) = 1..N
  BY <1>1, FreedAll
<1> HIDE DEF gone
<1>5. ASSUME NEW v \in 1..N PROVE Cardinality({i \in 1..Len(gone) : gone[i] = v}) = 1
  <2>1. PICK k \in 1..Len(gone) : gone[k] = v
    BY <1>4 DEF Elems
  <2>2. {i \in 1..Len(gone) : gone[i] = v} = {k}
    BY <1>4, <2>1 DEF NoRepeats
  <2> QED  BY <2>2, FS_Singleton
<1> QED  BY <1>3, <1>5 DEF FreesInv, N

-----------------------------------------------------------------------------
(* Nothing left to do: a set C of nodes that have been seen to holds the   *)
(* root and the children of its nodes, but for those still to be visited.  *)

WaitsIn(t, step) == {t[i].node : i \in {j \in 1..Len(t) : t[j].step = step}}
Waits(step) == WaitsIn(todo, step)

Reaches(C, D) ==
  /\ C \subseteq 1..N
  /\ 1 \in C \cup D
  /\ \A p \in C : \A s \in File!Sides : Child(p, s) # NULL => Child(p, s) \in C \cup D

Settled(p) ==
  r_nodes[p].tok = ";" =>
     /\ Child(p, "left") # NULL
     /\ r_nodes[Child(p, "left")].tok = "return" => Child(p, "right") = NULL

DeadInv == \E C : Reaches(C, Waits("dead")) /\ \A p \in C : Settled(p)
Trimmed == \E C : Reaches(C, {}) /\ \A p \in C : Settled(p)
EnteredInv ==
  \E C : /\ Reaches(C, Waits("enter"))
         /\ \A p \in C : Opt!Foldable(p) => p \in Waits("leave")
Folded == \E C : Reaches(C, {}) /\ \A p \in C : ~Opt!Foldable(p)

WorkInv ==
  /\ phase = "dead code" => DeadInv
  /\ phase \in {"folding", "optimized"} => Trimmed
  /\ phase = "folding" /\ ~treeChanged => EnteredInv
  /\ phase = "optimized" => Folded

(* What waits when the node that is visited has been replaced.             *)
LEMMA WaitsAfter ==
  ASSUME NEW R, NEW before \in Seq(R), NEW after \in Seq(R), before # << >>,
         NEW new, Elems(after) = new \cup Elems(Tail(before)), NEW step
  PROVE  /\ \A x \in new : x.step = step => x.node \in WaitsIn(after, step)
         /\ WaitsIn(before, step) \ {Head(before).node} \subseteq WaitsIn(after, step)
         /\ Head(before).step # step => WaitsIn(before, step) \subseteq WaitsIn(after, step)
<1>1. /\ Len(before) \in Nat /\ Len(before) >= 1 /\ Head(before) = before[1]
      /\ Len(Tail(before)) = Len(before) - 1
      /\ \A i \in 1 .. Len(before) - 1 : Tail(before)[i] = before[i + 1]
  BY HeadAndTail
<1>2. \A x \in Elems(after) : x.step = step => x.node \in WaitsIn(after, step)
  BY DEF Elems, WaitsIn
<1>3. \A i \in 1..Len(before) : i = 1 \/ before[i] \in Elems(Tail(before))
  <2> SUFFICES ASSUME NEW i \in 1..Len(before), i # 1
               PROVE  before[i] \in Elems(Tail(before))
    OBVIOUS
  <2>1. i - 1 \in 1..Len(Tail(before)) /\ i - 1 \in 1 .. Len(before) - 1 /\ (i - 1) + 1 = i
    BY <1>1
  <2>2. Tail(before)[i - 1] = before[i]
    BY <1>1, <2>1
  <2> QED  BY <2>1, <2>2 DEF Elems
<1>4. \A i \in 1..Len(before) : before[i].step = step =>
         i = 1 \/ before[i].node \in WaitsIn(after, step)
  BY <1>2, <1>3
<1> QED  BY <1>1, <1>2, <1>4 DEF WaitsIn

LEMMA VisitElems ==
  ASSUME NEW step \in {"dead", "enter", "leave"}, NEW v, v = NULL \/ v \in 1..N
  PROVE  /\ Opt!Visits(step, v) \in Seq(VisitRecord)
         /\ Elems(Opt!Visits(step, v)) = IF v = NULL THEN {} ELSE {[step |-> step, node |-> v]}
<1> DEFINE s == Opt!Visits(step, v)
<1>1. /\ s \in Seq(VisitRecord)
      /\ v = NULL => Len(s) = 0
      /\ v # NULL => Len(s) = 1 /\ s[1] = [step |-> step, node |-> v]
  BY OneVisit
<1> HIDE DEF s
<1>2. Elems(s) = IF v = NULL THEN {} ELSE {[step |-> step, node |-> v]}
  BY <1>1 DEF Elems
<1> QED  BY <1>1, <1>2 DEF s

LEMMA NewWaits ==
  ASSUME NEW step, NEW x, NEW W, NEW new, [step |-> step, node |-> x] \in new,
         \A y \in new : y.step = step => y.node \in W
  PROVE  x \in W
<1> DEFINE y == [step |-> step, node |-> x]
<1>1. y \in new /\ y.step = step /\ y.node = x
  OBVIOUS
<1> QED  BY <1>1

(* A sequence of which three parts are put together. *)
LEMMA ThreeElems ==
  ASSUME NEW S, NEW a \in Seq(S), NEW b \in Seq(S), NEW c \in Seq(S)
  PROVE  a \o b \o c \in Seq(S) /\ Elems(a \o b \o c) = Elems(a) \cup Elems(b) \cup Elems(c)
<1> DEFINE ab == a \o b
<1>1. ab \in Seq(S) /\ Elems(ab) = Elems(a) \cup Elems(b)
  BY ConcatElems
<1> HIDE DEF ab
<1>2. ab \o c \in Seq(S) /\ Elems(ab \o c) = Elems(ab) \cup Elems(c)
  BY <1>1, ConcatElems
<1> QED  BY <1>1, <1>2 DEF ab

LEMMA DeadStep ==
  ASSUME OptInv, WorkInv, UNCHANGED outcome, Opt!EliminateDeadCode
  PROVE  WorkInv'
<1>1. phase = "dead code" /\ todo # << >> /\ Head(todo).step = "dead" /\ DeadInv
  BY DEF Opt!EliminateDeadCode, Opt!At, WorkInv
<1>0. PICK v \in 1..N : v = Opt!V
  BY <1>1, Visiting
<1>2. /\ ShapeInv /\ N \in Nat /\ v \in 1..N /\ todo \in Seq(VisitRecord)
      /\ N >= 1 /\ v = Head(todo).node
      /\ Opt!Rest = Tail(todo) /\ Opt!Rest \in Seq(VisitRecord)
      /\ \A s \in File!Sides : Child(v, s) = NULL \/ Child(v, s) \in 1..N
      /\ "left" \in File!Sides /\ "right" \in File!Sides
  BY <1>0, <1>1, Visiting DEF File!Sides, TodoInv, Opt!Rest, Opt!V
<1>3. CASE Opt!Die
  BY <1>3 DEF Opt!Die, WorkInv
(* In either case the node is settled and its children wait.               *)
<1>4. ASSUME N' = N, phase' = phase,
             \A u \in 1..N : r_nodes'[u].tok = r_nodes[u].tok,
             \A u \in 1..N : \A s \in File!Sides : u # v => Child(u, s)' = Child(u, s),
             \A s \in File!Sides : Child(v, s)' = NULL \/ Child(v, s)' \in 1..N,
             Settled(v)',
             todo' = Opt!Visits("dead", Child(v, "left")')
                       \o Opt!Visits("dead", Child(v, "right")') \o Opt!Rest
      PROVE  WorkInv'
  <2> DEFINE A == Opt!Visits("dead", Child(v, "left")')
             B == Opt!Visits("dead", Child(v, "right")')
             new == Elems(A) \cup Elems(B)
  <2>1. /\ A \in Seq(VisitRecord) /\ B \in Seq(VisitRecord)
        /\ Elems(A) = IF Child(v, "left")' = NULL THEN {}
                      ELSE {[step |-> "dead", node |-> Child(v, "left")']}
        /\ Elems(B) = IF Child(v, "right")' = NULL THEN {}
                      ELSE {[step |-> "dead", node |-> Child(v, "right")']}
    BY <1>2, <1>4, VisitElems
  <2> HIDE DEF A, B
  <2>2. todo' \in Seq(VisitRecord) /\ Elems(todo') = new \cup Elems(Tail(todo))
    <3>1. /\ A \o B \o Opt!Rest \in Seq(VisitRecord)
          /\ Elems(A \o B \o Opt!Rest) = Elems(A) \cup Elems(B) \cup Elems(Opt!Rest)
      <4>1. A \in Seq(VisitRecord) /\ B \in Seq(VisitRecord) /\ Opt!Rest \in Seq(VisitRecord)
        BY ONLY <1>2, <2>1
      <4>2. \A a, b, c \in Seq(VisitRecord) :
               /\ a \o b \o c \in Seq(VisitRecord)
               /\ Elems(a \o b \o c) = Elems(a) \cup Elems(b) \cup Elems(c)
        BY ThreeElems
      <4> HIDE DEF VisitRecord
      <4> QED  BY ONLY <4>1, <4>2
    <3> QED  BY ONLY <1>2, <1>4, <3>1 DEF A, B, new
  <2>3. /\ \A x \in new : x.step = "dead" => x.node \in Waits("dead")'
        /\ Waits("dead") \ {v} \subseteq Waits("dead")'
    <3> HIDE DEF new
    <3> QED  BY ONLY <1>1, <1>2, <2>2, WaitsAfter, ZenonT(60) DEF Waits
  <2>4. \A s \in File!Sides : Child(v, s)' # NULL => Child(v, s)' \in Waits("dead")'
    <3>1. Child(v, "left")' # NULL => Child(v, "left")' \in Waits("dead")'
      <4> SUFFICES ASSUME Child(v, "left")' # NULL
                   PROVE  Child(v, "left")' \in Waits("dead")'
        OBVIOUS
      <4>1. [step |-> "dead", node |-> Child(v, "left")'] \in new
        BY <2>1
      <4> HIDE DEF new
      <4> QED  BY ONLY <2>3, <4>1, NewWaits, ZenonT(60)
    <3>2. Child(v, "right")' # NULL => Child(v, "right")' \in Waits("dead")'
      <4> SUFFICES ASSUME Child(v, "right")' # NULL
                   PROVE  Child(v, "right")' \in Waits("dead")'
        OBVIOUS
      <4>1. [step |-> "dead", node |-> Child(v, "right")'] \in new
        BY <2>1
      <4> HIDE DEF new
      <4> QED  BY ONLY <2>3, <4>1, NewWaits, ZenonT(60)
    <3> QED  BY ONLY <3>1, <3>2 DEF File!Sides
  <2>5. PICK C : Reaches(C, Waits("dead")) /\ \A p \in C : Settled(p)
    BY <1>1 DEF DeadInv
  <2> DEFINE C1 == C \cup {v}
  <2>6. C1 \cup Waits("dead")' = C1 \cup Waits("dead")' \cup Waits("dead")
    BY <2>3
  <2>7. Reaches(C1, Waits("dead"))'
    <3>1. C1 \subseteq 1..N' /\ 1 \in C1 \cup Waits("dead")'
      BY <1>2, <1>4, <2>5, <2>6 DEF Reaches
    <3>2. ASSUME NEW p \in C1, NEW s \in File!Sides, Child(p, s)' # NULL
          PROVE  Child(p, s)' \in C1 \cup Waits("dead")'
      <4>1. CASE p = v
        BY <2>4, <3>2, <4>1
      <4>2. CASE p # v
        <5>1. p \in C /\ p \in 1..N
          BY <2>5, <4>2 DEF Reaches
        <5>2. Child(p, s)' = Child(p, s)
          BY <1>4, <4>2, <5>1
        <5> QED  BY <2>5, <2>6, <3>2, <5>1, <5>2 DEF Reaches
      <4> QED  BY <4>1, <4>2
    <3> QED  BY <3>1, <3>2 DEF Reaches
  <2>8. ASSUME NEW p \in C1 PROVE Settled(p)'
    <3>1. CASE p = v
      BY <1>4, <3>1
    <3>2. CASE p # v
      <4>1. p \in C /\ p \in 1..N /\ Settled(p)
        BY <2>5, <3>2 DEF Reaches
      <4>2. /\ Child(p, "left")' = Child(p, "left") /\ Child(p, "right")' = Child(p, "right")
            /\ Child(p, "left") = NULL \/ Child(p, "left") \in 1..N
            /\ r_nodes'[p].tok = r_nodes[p].tok
        <5>1. Child(p, "left") = NULL \/ Child(p, "left") \in 1..N
          BY <1>2, <4>1 DEF ShapeInv, Forward
        <5> QED  BY <1>2, <1>4, <3>2, <4>1, <5>1
      <4>3. Child(p, "left") # NULL =>
               r_nodes'[Child(p, "left")'].tok = r_nodes[Child(p, "left")].tok
        BY <1>4, <4>2
      <4> QED  BY <4>1, <4>2, <4>3 DEF Settled
    <3> QED  BY <3>1, <3>2
  <2>9. DeadInv'
    BY <2>7, <2>8 DEF DeadInv
  <2> QED  BY <1>1, <1>4, <2>9 DEF WorkInv
<1>5. CASE /\ r_nodes[v].tok = ";" => Child(v, "left") # NULL
           /\ ~Opt!Cut(v)
           /\ UNCHANGED <<r_nodes, phase>>
           /\ todo' = Opt!Visits("dead", Child(v, "left"))
                        \o Opt!Visits("dead", Child(v, "right")) \o Opt!Rest
  <2>1. /\ N' = N /\ \A u, s : Child(u, s)' = Child(u, s)
        /\ \A u : r_nodes'[u].tok = r_nodes[u].tok
    BY <1>5 DEF N, Child
  <2>2. Settled(v)'
    BY <1>5, <2>1 DEF Settled, Opt!Cut, Child
  <2> QED  BY <1>2, <1>4, <1>5, <2>1, <2>2
<1>6. CASE /\ r_nodes[v].tok = ";" => Child(v, "left") # NULL
           /\ Opt!Cut(v)
           /\ r_to_delete' = IF Child(v, "right") = NULL THEN r_to_delete
                             ELSE Append(r_to_delete, Child(v, "right"))
           /\ r_nodes' = Opt!Pruned(v)
           /\ UNCHANGED <<phase, r_root>>
           /\ todo' = Opt!Visits("dead", Child(v, "left"))
                        \o Opt!Visits("dead", Child(v, "right")') \o Opt!Rest
  <2>1. /\ N' = N
        /\ \A u \in 1..N : r_nodes'[u].tok = r_nodes[u].tok
        /\ \A u \in 1..N : \A s \in File!Sides :
              Child(u, s)' = IF u = v /\ s = "right" THEN NULL ELSE Child(u, s)
    BY <1>2, <1>6, CutShape
  <2>2. Child(v, "left")' = Child(v, "left") /\ Child(v, "right")' = NULL
    BY <1>2, <2>1
  <2>3. Settled(v)'
    BY <1>2, <1>6, <2>1, <2>2 DEF Settled
  <2> QED  BY <1>2, <1>4, <1>6, <2>1, <2>2, <2>3
<1> QED
  <2>1. r_nodes[v].left = Child(v, "left") /\ r_nodes[v].right = Child(v, "right")
        /\ r_nodes'[v].right = Child(v, "right")'
    BY DEF Child
  <2>2. \/ Opt!Die
        \/ /\ r_nodes[v].tok = ";" => Child(v, "left") # NULL
           /\ UNCHANGED <<phase, r_root>>
           /\ IF Opt!Cut(v)
              THEN /\ r_to_delete' = IF Child(v, "right") = NULL THEN r_to_delete
                                     ELSE Append(r_to_delete, Child(v, "right"))
                   /\ r_nodes' = Opt!Pruned(v)
                   /\ todo' = Opt!Visits("dead", Child(v, "left"))
                                \o Opt!Visits("dead", Child(v, "right")') \o Opt!Rest
              ELSE /\ UNCHANGED r_nodes
                   /\ todo' = Opt!Visits("dead", Child(v, "left"))
                                \o Opt!Visits("dead", Child(v, "right")) \o Opt!Rest
    BY <1>0, <2>1 DEF Opt!EliminateDeadCode, Opt!NULL, NULL
  <2> QED  BY <1>3, <1>5, <1>6, <2>2

LEMMA FoldableStays ==
  ASSUME UNCHANGED r_nodes
  PROVE  \A v : Opt!Foldable(v)' <=> Opt!Foldable(v)
  BY DEF Opt!Foldable, Opt!HoldsIdentifier

(* What stays when no node changes.                                        *)
LEMMA UnchangedTree ==
  ASSUME UNCHANGED r_nodes
  PROVE  /\ N' = N /\ \A u, s : Child(u, s)' = Child(u, s)
         /\ \A v : Opt!Foldable(v)' <=> Opt!Foldable(v)
         /\ Trimmed => Trimmed'
         /\ Folded => Folded'
<1>1. N' = N /\ \A u, s : Child(u, s)' = Child(u, s)
  BY DEF N, Child
<1>2. \A v : Opt!Foldable(v)' <=> Opt!Foldable(v)
  BY FoldableStays
<1>3. \A v : Settled(v)' <=> Settled(v)
  BY <1>1 DEF Settled
<1>4. \A C : Reaches(C, {})' <=> Reaches(C, {})
  BY <1>1 DEF Reaches
<1> QED  BY <1>1, <1>2, <1>3, <1>4 DEF Trimmed, Folded

LEMMA EnterStep ==
  ASSUME OptInv, WorkInv, UNCHANGED outcome, Opt!EnterNode
  PROVE  WorkInv'
<1>1. phase = "folding" /\ todo # << >> /\ Head(todo).step = "enter" /\ Trimmed
  BY DEF Opt!EnterNode, Opt!At, WorkInv
<1>2. PICK v \in 1..N : v = Opt!V
  BY <1>1, Visiting
<1> DEFINE A == Opt!Visits("enter", Child(v, "left"))
           B == Opt!Visits("enter", Child(v, "right"))
           leave == <<Opt!Visit("leave", v)>>
           new == Elems(A) \cup Elems(B) \cup Elems(leave)
<1>3. /\ todo' = A \o B \o leave \o Opt!Rest
      /\ UNCHANGED <<r_nodes, phase, treeChanged>>
  BY <1>2 DEF Opt!EnterNode, Child
<1>4. /\ N \in Nat /\ todo \in Seq(VisitRecord) /\ v = Head(todo).node
      /\ Opt!Rest = Tail(todo) /\ Opt!Rest \in Seq(VisitRecord)
      /\ \A s \in File!Sides : Child(v, s) = NULL \/ Child(v, s) \in 1..N
      /\ File!Sides = {"left", "right"}
  BY <1>1, <1>2, Visiting DEF File!Sides, TodoInv, Opt!Rest, Opt!V
<1>5. /\ A \in Seq(VisitRecord) /\ B \in Seq(VisitRecord)
      /\ Elems(A) = IF Child(v, "left") = NULL THEN {}
                    ELSE {[step |-> "enter", node |-> Child(v, "left")]}
      /\ Elems(B) = IF Child(v, "right") = NULL THEN {}
                    ELSE {[step |-> "enter", node |-> Child(v, "right")]}
  BY <1>4, VisitElems
<1>6. leave \in Seq(VisitRecord) /\ Elems(leave) = {[step |-> "leave", node |-> v]}
  <2>1. Opt!Visit("leave", v) = [step |-> "leave", node |-> v]
    BY DEF Opt!Visit
  <2>2. [step |-> "leave", node |-> v] \in VisitRecord
    BY DEF VisitRecord
  <2> QED  BY <2>1, <2>2, OneElem
<1> HIDE DEF A, B, leave
<1>7. todo' \in Seq(VisitRecord) /\ Elems(todo') = new \cup Elems(Tail(todo))
  <2>1. \A a, b, c \in Seq(VisitRecord) :
           a \o b \o c \in Seq(VisitRecord) /\ Elems(a \o b \o c) = Elems(a) \cup Elems(b) \cup Elems(c)
    BY ThreeElems
  <2>2. \A a, b \in Seq(VisitRecord) :
           a \o b \in Seq(VisitRecord) /\ Elems(a \o b) = Elems(a) \cup Elems(b)
    BY ConcatElems
  <2> HIDE DEF VisitRecord
  <2>3. A \o B \o leave \in Seq(VisitRecord) /\ Elems(A \o B \o leave) = new
    BY ONLY <1>5, <1>6, <2>1 DEF new
  <2> DEFINE three == A \o B \o leave
  <2> HIDE DEF new, three
  <2>4. three \o Opt!Rest \in Seq(VisitRecord) /\ Elems(three \o Opt!Rest) = new \cup Elems(Opt!Rest)
    BY ONLY <1>4, <2>2, <2>3 DEF three
  <2> QED  BY ONLY <1>3, <1>4, <2>4 DEF three
<1>8. /\ \A x \in new : x.step = "enter" => x.node \in Waits("enter")'
      /\ Waits("enter") \ {v} \subseteq Waits("enter")'
      /\ \A x \in new : x.step = "leave" => x.node \in Waits("leave")'
      /\ Waits("leave") \subseteq Waits("leave")'
  <2> HIDE DEF new
  <2>1. /\ \A x \in new : x.step = "enter" => x.node \in Waits("enter")'
        /\ Waits("enter") \ {v} \subseteq Waits("enter")'
    BY ONLY <1>1, <1>4, <1>7, WaitsAfter, ZenonT(60) DEF Waits
  <2>2. "enter" # "leave"
    OBVIOUS
  <2>3. /\ \A x \in new : x.step = "leave" => x.node \in Waits("leave")'
        /\ Waits("leave") \subseteq Waits("leave")'
    BY ONLY <1>1, <1>4, <1>7, <2>2, WaitsAfter, ZenonT(60) DEF Waits
  <2> QED  BY <2>1, <2>3
<1>9. v \in Waits("leave")'
  <2>1. [step |-> "leave", node |-> v] \in new
    BY <1>6
  <2> HIDE DEF new
  <2> QED  BY ONLY <1>8, <2>1, NewWaits, ZenonT(60)
<1>10. ASSUME NEW s \in File!Sides, Child(v, s) # NULL PROVE Child(v, s) \in Waits("enter")'
  <2>1. [step |-> "enter", node |-> Child(v, s)] \in new
    BY <1>4, <1>5, <1>10
  <2> HIDE DEF new
  <2> QED  BY ONLY <1>8, <2>1, NewWaits, ZenonT(60)
<1>11. /\ N' = N /\ \A u, s : Child(u, s)' = Child(u, s)
       /\ \A x : Opt!Foldable(x)' <=> Opt!Foldable(x)
       /\ Trimmed'
  BY <1>1, <1>3, UnchangedTree
<1>12. ASSUME ~treeChanged PROVE EnteredInv'
  <2>1. PICK C : /\ Reaches(C, Waits("enter"))
                 /\ \A p \in C : Opt!Foldable(p) => p \in Waits("leave")
    BY <1>1, <1>12 DEF WorkInv, EnteredInv
  <2> DEFINE C1 == C \cup {v}
  <2>2. C1 \subseteq 1..N /\ 1 \in C1 \cup Waits("enter")'
    BY <1>8, <2>1 DEF Reaches
  <2>3. ASSUME NEW p \in C1, NEW s \in File!Sides, Child(p, s) # NULL
        PROVE  Child(p, s) \in C1 \cup Waits("enter")'
    <3>1. CASE p = v
      BY <1>10, <2>3, <3>1
    <3>2. CASE p # v
      BY <1>8, <2>1, <2>3, <3>2 DEF Reaches
    <3> QED  BY <3>1, <3>2
  <2>4. \A p \in C1 : Opt!Foldable(p) => p \in Waits("leave")'
    BY <1>8, <1>9, <2>1
  <2>5. Reaches(C1, Waits("enter"))'
    BY <1>11, <2>2, <2>3 DEF Reaches
  <2> QED  BY <1>11, <2>4, <2>5 DEF EnteredInv
<1> QED  BY <1>1, <1>3, <1>11, <1>12 DEF WorkInv

LEMMA LeaveStep ==
  ASSUME OptInv, WorkInv, UNCHANGED outcome, Opt!LeaveNode
  PROVE  WorkInv'
<1>1. /\ phase = "folding" /\ todo # << >> /\ Head(todo).step = "leave" /\ Trimmed
      /\ todo' = Tail(todo) /\ UNCHANGED <<r_nodes, phase, treeChanged>>
  BY DEF Opt!LeaveNode, Opt!At, Opt!Rest, WorkInv
<1>2. PICK v \in 1..N : v = Head(todo).node /\ ~Opt!Foldable(v)
  BY <1>1, Visiting DEF Opt!LeaveNode, Opt!V
<1>3. todo \in Seq(VisitRecord) /\ Tail(todo) \in Seq(VisitRecord)
  BY <1>1, Visiting DEF TodoInv, Opt!Rest
<1>4. /\ Waits("enter") \subseteq Waits("enter")'
      /\ Waits("leave") \ {v} \subseteq Waits("leave")'
  <2>1. Elems(todo') = {} \cup Elems(Tail(todo)) /\ todo' \in Seq(VisitRecord)
    BY <1>1, <1>3
  <2>2. "enter" # "leave"
    OBVIOUS
  <2>3. Waits("enter") \subseteq Waits("enter")'
    BY ONLY <1>1, <1>3, <2>1, <2>2, WaitsAfter, ZenonT(60) DEF Waits
  <2>4. Waits("leave") \ {v} \subseteq Waits("leave")'
    BY ONLY <1>1, <1>2, <1>3, <2>1, WaitsAfter, ZenonT(60) DEF Waits
  <2> QED  BY <2>3, <2>4
<1>5. /\ N' = N /\ \A u, s : Child(u, s)' = Child(u, s)
      /\ \A x : Opt!Foldable(x)' <=> Opt!Foldable(x)
      /\ Trimmed'
  BY <1>1, UnchangedTree
<1>6. ASSUME ~treeChanged PROVE EnteredInv'
  <2>1. PICK C : /\ Reaches(C, Waits("enter"))
                 /\ \A p \in C : Opt!Foldable(p) => p \in Waits("leave")
    BY <1>1, <1>6 DEF WorkInv, EnteredInv
  <2>2. Reaches(C, Waits("enter"))'
    BY <1>4, <1>5, <2>1 DEF Reaches
  <2>3. \A p \in C : Opt!Foldable(p) => p \in Waits("leave")'
    BY <1>2, <1>4, <2>1
  <2> QED  BY <1>5, <2>2, <2>3 DEF EnteredInv
<1> QED  BY <1>1, <1>5, <1>6 DEF WorkInv

(* A literal that takes the place of an operator is settled, and so is     *)
(* what it hangs on: the literal is no return.                             *)
LEMMA FoldStep ==
  ASSUME OptInv, WorkInv, UNCHANGED outcome, Opt!FoldNode, ValueAssumption
  PROVE  WorkInv'
<1>1. phase = "folding" /\ todo # << >> /\ Trimmed
  BY DEF Opt!FoldNode, Opt!At, WorkInv
<1>2. CASE Opt!Die
  BY <1>2 DEF Opt!Die, WorkInv
<1>3. CASE ~Opt!Die
  <2>1. PICK v \in 1..N : v = Opt!V
    BY <1>1, Visiting
  <2>2. PICK p \in Nat, literal \in DOMAIN Value :
           /\ p = parents[v] /\ p # NULL
           /\ r_nodes' = Opt!Hung(Opt!Node(literal), v, p)
           /\ r_to_delete' = Opt!Marked(v)
           /\ treeChanged' = TRUE
           /\ UNCHANGED <<r_root, phase>>
    <3>1. parents[v] \in Nat
      BY <1>1, <2>1, Visiting DEF ParentsInv
    <3> QED  BY <1>3, <2>1, <3>1 DEF Opt!FoldNode, Opt!LiteralsOf, NULL, Opt!NULL
  <2>3. PICK side \in File!Sides : p \in 1..N /\ v \in 2..N /\ Child(p, side) = v
    <3>1. /\ ShapeInv /\ ParentsInv /\ FoldingInv /\ todo \in Seq(VisitRecord)
          /\ N \in Nat /\ v = todo[1].node /\ Len(todo) \in Nat /\ Len(todo) >= 1
      BY <1>1, <2>1, Visiting DEF TodoInv
    <3>2. v # 1
      BY <2>2, <3>1 DEF ParentsInv
    <3>3. PICK j \in 2..Len(todo), s \in File!Sides : Child(todo[j].node, s) = v
      <4>1. 1 \in 1..Len(todo) /\ 1 + 1 = 2
        BY <3>1
      <4>2. Supported(1)
        BY <3>1, <4>1 DEF FoldingInv
      <4> QED  BY ONLY <3>1, <3>2, <4>1, <4>2 DEF Supported
    <3>4. todo[j].node \in 1..N
      <4>1. todo[j] \in VisitRecord
        BY ONLY <3>1, <3>3
      <4> QED  BY ONLY <4>1 DEF VisitRecord
    <3>5. v # NULL /\ r_nodes[v].tok \in Opt!Operators
      BY <2>1 DEF Opt!FoldNode, Opt!Foldable, NULL
    <3>6. p = todo[j].node
      BY <2>2, <3>1, <3>3, <3>4, <3>5 DEF ParentsInv
    <3> QED  BY <2>1, <3>1, <3>2, <3>3, <3>4, <3>6
  <2>4. /\ ShapeInv /\ ShapeInv' /\ Grown(p, side) /\ N \in Nat /\ N >= 1
        /\ \A u \in 1..N : r_nodes'[u].tok = r_nodes[u].tok
        /\ r_nodes'[N + 1].tok = literal
    BY <1>1, <2>2, <2>3, Visiting, FoldShape
  <2>5. /\ N' = N + 1
        /\ \A u \in 1..N : \A s \in File!Sides :
              Child(u, s)' = IF u = p /\ s = side THEN N + 1 ELSE Child(u, s)
        /\ \A u : u = N + 1 => \A s \in File!Sides : Child(u, s)' = NULL
    BY ONLY <2>4 DEF Grown, Child, N
  <2>6. PICK C : Reaches(C, {}) /\ \A x \in C : Settled(x)
    BY <1>1 DEF Trimmed
  <2>7. PICK new : new = N + 1
    OBVIOUS
  <2> DEFINE C1 == C \cup {new}
  <2>8. Reaches(C1, {})'
    <3>1. C1 \subseteq 1..N' /\ 1 \in C1
      BY <2>4, <2>5, <2>6, <2>7 DEF Reaches
    <3>2. ASSUME NEW x \in C1, NEW s \in File!Sides, Child(x, s)' # NULL PROVE Child(x, s)' \in C1
      <4>1. x # new /\ x \in C /\ x \in 1..N
        BY <2>5, <2>6, <2>7, <3>2 DEF Reaches
      <4>2. CASE x = p /\ s = side
        BY <2>5, <2>7, <4>1, <4>2
      <4>3. CASE ~(x = p /\ s = side)
        <5>1. Child(x, s)' = Child(x, s)
          BY <2>5, <4>1, <4>3
        <5> QED  BY <2>6, <3>2, <4>1, <5>1 DEF Reaches
      <4> QED  BY <4>2, <4>3
    <3> QED  BY <3>1, <3>2 DEF Reaches
  <2>9. ASSUME NEW x \in C1 PROVE Settled(x)'
    <3>1. literal # ";" /\ literal # "return"
      BY LiteralsOrdinary
    <3>2. CASE x = new
      BY <2>4, <2>7, <3>1, <3>2 DEF Settled
    <3>3. CASE x # new
      <4>1. x \in C /\ x \in 1..N /\ Settled(x)
        BY <2>6, <3>3 DEF Reaches
      <4>2. /\ "left" \in File!Sides /\ "right" \in File!Sides /\ "left" # "right"
            /\ Child(x, "left") = NULL \/ Child(x, "left") \in 1..N
            /\ r_nodes'[x].tok = r_nodes[x].tok
        BY <2>4, <4>1 DEF ShapeInv, Forward, File!Sides
      <4> SUFFICES ASSUME r_nodes[x].tok = ";"
                   PROVE  /\ Child(x, "left")' # NULL
                          /\ r_nodes'[Child(x, "left")'].tok = "return" => Child(x, "right")' = NULL
        BY <4>2 DEF Settled
      <4>3. Child(x, "left") # NULL /\ Child(x, "left") \in 1..N
        BY <4>1, <4>2 DEF Settled
      <4>4. CASE x = p /\ side = "left"
        <5>1. Child(x, "left")' = N + 1
          BY <2>5, <4>1, <4>2, <4>4
        <5>2. N + 1 # NULL
          <6>1. N \in Nat
            BY <2>4
          <6> QED  BY ONLY <6>1 DEF NULL
        <5> QED  BY <2>4, <3>1, <5>1, <5>2
      <4>5. CASE ~(x = p /\ side = "left")
        <5>1. Child(x, "left")' = Child(x, "left")
          BY <2>5, <4>1, <4>2, <4>5
        <5>2. r_nodes'[Child(x, "left")'].tok = r_nodes[Child(x, "left")].tok
          BY <2>4, <4>3, <5>1
        <5>3. ASSUME r_nodes[Child(x, "left")].tok = "return" PROVE Child(x, "right")' = NULL
          <6>1. Child(x, "right") = NULL
            BY <4>1, <5>3 DEF Settled
          <6>2. ~(x = p /\ side = "right")
            <7>1. N \in Nat /\ v \in 2..N /\ Child(p, side) = v
              BY <2>3, <2>4
            <7> QED  BY ONLY <6>1, <7>1 DEF NULL
          <6> QED  BY <2>5, <4>1, <4>2, <6>1, <6>2
        <5> QED  BY <4>3, <5>1, <5>2, <5>3
      <4> QED  BY <4>4, <4>5
    <3> QED  BY <3>2, <3>3
  <2>10. Trimmed'
    BY <2>8, <2>9 DEF Trimmed
  <2> QED  BY <1>1, <2>2, <2>10 DEF WorkInv
<1> QED  BY <1>2, <1>3

LEMMA NoneWait == ASSUME todo = << >>, NEW step PROVE Waits(step) = {}
<1>1. Len(todo) = 0
  OBVIOUS
<1>2. {j \in 1..Len(todo) : todo[j].step = step} = {}
  BY ONLY <1>1
<1> QED  BY ONLY <1>2 DEF Waits, WaitsIn

LEMMA RoundStep ==
  ASSUME OptInv, WorkInv, UNCHANGED outcome, Opt!BeginRound
  PROVE  WorkInv'
<1>1. /\ phase \in {"dead code", "folding"} /\ phase' = "folding" /\ todo = << >>
      /\ todo' = <<Opt!Visit("enter", r_root)>> /\ UNCHANGED r_nodes
  BY DEF Opt!BeginRound
<1>2. r_root = 1
  BY <1>1, ShapeFacts DEF OptInv
<1>3. \A step : Waits(step) = {}
  BY <1>1, NoneWait
<1>4. Trimmed
  BY <1>1, <1>3 DEF WorkInv, DeadInv, Trimmed
<1>5. 1 \in Waits("enter")'
  <2>1. Len(todo') = 1 /\ todo'[1].step = "enter" /\ todo'[1].node = 1
    BY <1>1, <1>2 DEF Opt!Visit
  <2> QED  BY ONLY <2>1 DEF Waits, WaitsIn
<1>6. EnteredInv'
  <2>1. Reaches({}, Waits("enter"))'
    BY <1>5 DEF Reaches
  <2> QED  BY <2>1 DEF EnteredInv
<1> QED  BY <1>1, <1>4, <1>6, UnchangedTree DEF WorkInv

LEMMA LastStep ==
  ASSUME WorkInv, Opt!LastRound
  PROVE  WorkInv'
<1>1. /\ phase = "folding" /\ ~treeChanged /\ phase' = "optimized" /\ todo = << >>
      /\ UNCHANGED r_nodes
  BY DEF Opt!LastRound
<1>2. \A step : Waits(step) = {}
  BY <1>1, NoneWait
<1>3. Folded
  BY <1>1, <1>2 DEF WorkInv, EnteredInv, Folded
<1> QED  BY <1>1, <1>3, UnchangedTree DEF WorkInv

LEMMA BeginStep ==
  ASSUME ReaderInv, outcome = "read", Opt!Begin
  PROVE  WorkInv'
<1>1. phase' \in {"aborted", "dead code"} /\ UNCHANGED r_nodes
  BY DEF Opt!Begin
<1>2. CASE phase' = "aborted"
  BY <1>2 DEF WorkInv
<1>3. CASE phase' = "dead code"
  <2>1. r_root = 1 /\ todo' = <<Opt!Visit("dead", 1)>>
    <3>1. r_root # NULL /\ todo' = Opt!Visits("dead", r_root)
      BY <1>3 DEF Opt!Begin, Opt!NULL, NULL
    <3>2. r_root = 1
      BY <3>1 DEF ReaderInv
    <3>3. Opt!Visits("dead", 1) = <<Opt!Visit("dead", 1)>>
      BY ONLY DEF Opt!Visits, Opt!NULL
    <3> QED  BY ONLY <3>1, <3>2, <3>3
  <2>2. 1 \in Waits("dead")'
    <3>1. Len(todo') = 1 /\ todo'[1].step = "dead" /\ todo'[1].node = 1
      BY <2>1 DEF Opt!Visit
    <3> QED  BY ONLY <3>1 DEF Waits, WaitsIn
  <2>3. Reaches({}, Waits("dead"))'
    BY <2>2 DEF Reaches
  <2>4. DeadInv'
    BY <2>3 DEF DeadInv
  <2> QED  BY <1>3, <2>4 DEF WorkInv
<1> QED  BY <1>1, <1>2, <1>3

(* The nodes of the tree are among those that have been seen to.           *)
LEMMA TreeAmong ==
  ASSUME ShapeInv, N >= 1, NEW b, IsBelow(r_nodes, b), NEW C, Reaches(C, {})
  PROVE  Under(b, 1) \subseteq C
<1> DEFINE G == {v \in 1..N : v \in Under(b, 1) => v \in C}
<1>1. /\ Forest(r_nodes) /\ N \in Nat /\ N = Len(r_nodes) /\ 1 \in 1..Len(r_nodes)
      /\ Under(b, 1) \subseteq 1..N
  BY ShapeForest, ShapeFacts, SubtreesTyped DEF N
<1>2. ASSUME NEW v \in 1..N, 1 .. v-1 \subseteq G PROVE v \in G
  <2> SUFFICES ASSUME v \in Under(b, 1) PROVE v \in C
    OBVIOUS
  <2>1. CASE v = 1
    BY <2>1 DEF Reaches
  <2>2. CASE v # 1
    <3>1. PICK p \in Under(b, 1) : \E s \in File!Sides : r_nodes[p][s] = v
      BY <1>1, <2>2, SubtreesHang
    <3>2. PICK s \in File!Sides : Child(p, s) = v
      BY <3>1 DEF Child
    <3>3. p \in 1..N /\ v # NULL
      BY <1>1, <3>1 DEF NULL
    <3>4. v \in p+1 .. N
      BY <3>2, <3>3 DEF ShapeInv, Forward
    <3>5. p \in C
      BY <1>1, <1>2, <3>1, <3>3, <3>4
    <3> QED  BY <3>2, <3>3, <3>5 DEF Reaches
  <2> QED  BY <2>1, <2>2
<1>3. 1..N \subseteq G
  <2> HIDE DEF G
  <2> QED  BY <1>1, <1>2, UpInduction
<1> QED  BY <1>1, <1>3

LEMMA WorkDone ==
  ASSUME OptInv, WorkInv
  PROVE  NothingLeftToDo
<1> SUFFICES ASSUME phase = "optimized", NEW v \in ToSet(Opt!Subtree(r_root))
             PROVE  ~Opt!Foldable(v) /\ (Opt!Cut(v) => r_nodes[v].right = NULL)
  BY DEF NothingLeftToDo
<1>1. ShapeInv /\ N >= 1 /\ N \in Nat /\ r_root = 1
  BY ShapeFacts DEF OptInv
<1> DEFINE b == SubtreesOf(r_nodes)
<1>2. IsBelow(r_nodes, b)
  BY <1>1, ShapeForest, BelowExists, SMTT(30)
<1>3. Opt!Subtree(r_root) = b[1]
  BY <1>1 DEF Opt!Subtree, SubtreesOf, Opt!NULL, NULL
<1> HIDE DEF b
<1>4. v \in Under(b, 1)
  <2>1. b[1] \in Seq(Nat)
    BY <1>1, <1>2, ShapeForest, SubtreesTyped DEF N
  <2> QED  BY <1>3, <2>1 DEF Under, Elems, ToSet
<1>5. ~Opt!Foldable(v)
  <2>1. PICK C : Reaches(C, {}) /\ \A p \in C : ~Opt!Foldable(p)
    BY DEF WorkInv, Folded
  <2> QED  BY <1>1, <1>2, <1>4, <2>1, TreeAmong
<1>6. Settled(v)
  <2>1. PICK C : Reaches(C, {}) /\ \A p \in C : Settled(p)
    BY DEF WorkInv, Trimmed
  <2> QED  BY <1>1, <1>2, <1>4, <2>1, TreeAmong
<1> QED  BY <1>5, <1>6 DEF Settled, Opt!Cut, Child

LEMMA WorkStep ==
  ASSUME MiddleInv, WorkInv, [MiddleNext]_middleVars, ValueAssumption
  PROVE  WorkInv'
<1>1. CASE UNCHANGED <<r_nodes, todo, treeChanged, phase>>
  <2>1. /\ N' = N /\ \A u, s : Child(u, s)' = Child(u, s)
        /\ \A v : Opt!Foldable(v)' <=> Opt!Foldable(v)
        /\ Trimmed => Trimmed'
        /\ Folded => Folded'
    BY <1>1, UnchangedTree
  <2>2. \A step : Waits(step)' = Waits(step)
    BY <1>1 DEF Waits, WaitsIn
  <2>3. \A C, D : Reaches(C, D)' <=> Reaches(C, D)
    BY <2>1 DEF Reaches
  <2>4. \A v : Settled(v)' <=> Settled(v)
    BY <1>1, <2>1 DEF Settled
  <2>5. DeadInv => DeadInv'
    <3> SUFFICES ASSUME NEW C, Reaches(C, Waits("dead")), \A p \in C : Settled(p) PROVE DeadInv'
      BY DEF DeadInv
    <3>1. Reaches(C, Waits("dead"))'
      BY <2>1, <2>2 DEF Reaches
    <3> QED  BY <2>4, <3>1 DEF DeadInv
  <2>6. EnteredInv => EnteredInv'
    <3> SUFFICES ASSUME NEW C, Reaches(C, Waits("enter")),
                        \A p \in C : Opt!Foldable(p) => p \in Waits("leave")
                 PROVE  EnteredInv'
      BY DEF EnteredInv
    <3>1. Reaches(C, Waits("enter"))'
      BY <2>1, <2>2 DEF Reaches
    <3> QED  BY <2>1, <2>2, <3>1 DEF EnteredInv
  <2> QED  BY <1>1, <2>1, <2>5, <2>6 DEF WorkInv
<1>2. CASE phase' \notin {"dead code", "folding", "optimized"}
  BY <1>2 DEF WorkInv
<1>3. CASE Optimize
  <2>1. Opt!Next /\ outcome = "read" /\ UNCHANGED outcome
    BY <1>3 DEF Optimize
  <2>2. CASE Opt!Begin
    BY <2>1, <2>2, BeginStep DEF MiddleInv, Opt!Begin
  <2>3. CASE Opt!Dtor
    BY <1>2, <2>3 DEF Opt!Dtor
  <2>4. CASE phase # "read"
    <3>1. OptInv
      BY <2>4 DEF MiddleInv
    <3> QED
      BY <2>1, <2>2, <2>3, <3>1, DeadStep, RoundStep, LastStep, EnterStep, LeaveStep, FoldStep
         DEF Opt!Next
  <2>5. CASE phase = "read"
    BY <2>1, <2>2, <2>5
       DEF Opt!Next, Opt!EliminateDeadCode, Opt!BeginRound, Opt!LastRound, Opt!EnterNode,
           Opt!LeaveNode, Opt!FoldNode, Opt!Dtor
  <2> QED  BY <2>4, <2>5
<1>4. CASE WriteReduced
  BY <1>2, <1>4 DEF WriteReduced
<1>5. CASE FrontEnd \/ UNCHANGED middleVars
  BY <1>1, <1>5 DEF FrontEnd, Analyze, middleVars, allVars, fileVars, optimizerVars
<1>6. CASE WriteWhole \/ ReadBack
  <2>1. UNCHANGED phase /\ outcome # "read"
    BY <1>6 DEF WriteWhole, ReadBack, WriteTree, ReadTree, optimizerVars, File!Write,
                File!Read, File!OpenPlain, File!OpenFunction, File!OpenVariable, File!Nil, File!Close,
                File!Finish, File!Reject, File!Overrun, File!WantsNode, File!Reading
  <2>2. phase = "read"
    BY <2>1 DEF MiddleInv, OptInv
  <2> QED  BY <1>2, <2>1, <2>2
<1> QED  BY <1>3, <1>4, <1>5, <1>6 DEF MiddleNext

LEMMA FreesStep ==
  ASSUME MiddleInv, FreesInv, [MiddleNext]_middleVars
  PROVE  FreesInv'
<1>1. CASE UNCHANGED <<r_nodes, phase, frees>>
  BY <1>1 DEF FreesInv, N
<1>2. CASE phase' # "done"
  BY <1>2 DEF FreesInv
<1>3. CASE Optimize
  <2>1. Opt!Next
    BY <1>3 DEF Optimize
  <2>2. CASE Opt!Dtor
    <3>1. OptInv /\ phase = "written"
      BY <2>2 DEF Opt!Dtor, MiddleInv
    <3>2. ShapeInv /\ N >= 1
      BY <3>1, ShapeFacts, SMTT(30) DEF OptInv
    <3> QED  BY <2>2, <3>2, DtorFrees
  <2>3. CASE ~Opt!Dtor
    BY <1>2, <2>1, <2>3
       DEF Opt!Next, Opt!Begin, Opt!EliminateDeadCode, Opt!BeginRound, Opt!LastRound,
           Opt!EnterNode, Opt!LeaveNode, Opt!FoldNode, Opt!Die
  <2> QED  BY <2>2, <2>3
<1>4. CASE WriteReduced
  BY <1>2, <1>4 DEF WriteReduced
<1>5. CASE FrontEnd \/ UNCHANGED middleVars
  BY <1>1, <1>5 DEF FrontEnd, Analyze, middleVars, allVars, fileVars, optimizerVars
<1>6. CASE WriteWhole \/ ReadBack
  <2>1. UNCHANGED phase /\ outcome # "read"
    BY <1>6 DEF WriteWhole, ReadBack, WriteTree, ReadTree, optimizerVars, File!Write,
                File!Read, File!OpenPlain, File!OpenFunction, File!OpenVariable, File!Nil, File!Close,
                File!Finish, File!Reject, File!Overrun, File!WantsNode, File!Reading
  <2>2. phase = "read"
    BY <2>1 DEF MiddleInv, OptInv
  <2> QED  BY <1>2, <2>1, <2>2
<1> QED  BY <1>3, <1>4, <1>5, <1>6 DEF MiddleNext

(* ast::dtor frees every node once: the subtrees of the root and of the     *)
(* marks are apart, and together they hold all nodes.                      *)
THEOREM MiddleEndFreedOnce == MiddleSpec => []FreedOnce
<1>1. MiddleInit => FreesInv
  BY DEF MiddleInit, Opt!Init, FreesInv
<1>2. MiddleInv /\ FreesInv /\ [MiddleNext]_middleVars => FreesInv'
  BY FreesStep
<1>3. FreesInv => FreedOnce
  BY DEF FreesInv, FreedOnce, N
<1> QED  BY <1>1, <1>2, <1>3, MiddleEndInv, PTL DEF MiddleSpec

(* When optimize is through, nothing in the tree follows a return, and no  *)
(* operator is left whose operands are known: a round in which nothing     *)
(* changed has come to every node of the tree.                             *)
THEOREM MiddleEndNothingLeftToDo == MiddleSpec => []NothingLeftToDo
<1>1. MiddleInit => WorkInv
  BY DEF MiddleInit, Opt!Init, WorkInv
<1>2. MiddleInv /\ WorkInv /\ [MiddleNext]_middleVars => WorkInv'
  BY WorkStep, ValueAssumption
<1>3. MiddleInv /\ WorkInv => NothingLeftToDo
  <2>1. CASE phase # "optimized"
    BY <2>1 DEF NothingLeftToDo
  <2>2. CASE phase = "optimized"
    BY <2>2, WorkDone DEF MiddleInv
  <2> QED  BY <2>1, <2>2
<1> QED  BY <1>1, <1>2, <1>3, MiddleEndInv, PTL DEF MiddleSpec
=============================================================================
