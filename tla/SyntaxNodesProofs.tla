-------------------------- MODULE SyntaxNodesProofs --------------------------
(***************************************************************************)
(* For every set of texts: every node of the syntax analyzer has at most   *)
(* one owner, a freed node has none, the ids in an identifier are ids of   *)
(* its name, the names below a function are variables of its environment,  *)
(* and a call names a function of the tree.                                *)
(*                                                                         *)
(* A step hands the pointers of the running function over to other places: *)
(* to its frame, to the nodes it makes or changes, to its caller.          *)
(*                                                                         *)
(* No node is below itself: what is handed over is the root of a tree, and *)
(* a node that takes it is the root of another.                            *)
(*                                                                         *)
(* Every node belongs to the environment that was current when it was made *)
(* or to none: the names of functions and the nodes that join them are the *)
(* spine of the tree, and what is below a function belongs to the          *)
(* environment its name owns.  While no declaration is under way, every    *)
(* environment but one that was given up has its function in the spine.    *)
(***************************************************************************)
EXTENDS SyntaxTablesProofs

-----------------------------------------------------------------------------
(* Handing over. *)

Fresh == Len(nodes) + 1

(* The nodes a step may hand over: the locals of the running activation,    *)
(* what its callee returned, and the node it makes.                        *)
Pool ==
    {Top.l, ret, Fresh} \cup (IF Top.at = "block_next" THEN {} ELSE {Top.r})

(* The places that may change: a child of an old node, the children of the  *)
(* new one, the locals of the running activation, the returned value.      *)
Place(a, b) ==
    << <<"left", a>>, <<"right", b>>, <<"left", Fresh>>, <<"right", Fresh>>,
       <<"l", Len(stack)>>, <<"r", Len(stack)>>, <<"ret", 0>> >>

(* No node is handed over twice. *)
Fair(given) ==
    /\ \A k \in 1..7 : given[k] \in Pool \cup {NULL}
    /\ \A j, k \in 1..7 : given[j] = given[k] /\ given[j] # NULL => j = k

NodesHanded(given, a, b) ==
    /\ \A q \in 1..Len(nodes) :
          /\ nodes'[q].left = IF q = a THEN given[1] ELSE nodes[q].left
          /\ nodes'[q].right = IF q = b THEN given[2] ELSE nodes[q].right
    /\ \A q \in 1..Len(nodes') :
          \/ q \in 1..Len(nodes)
          \/ q = Fresh /\ nodes'[q].left = given[3] /\ nodes'[q].right = given[4]

StackHanded(given) ==
    /\ \A i \in 1..Len(stack') :
          \/ i < Len(stack) /\ stack'[i] = stack[i]
          \/ /\ i = Len(stack) /\ stack'[i].l = given[5]
             /\ stack'[i].at = "block_next" \/ stack'[i].r = given[6]
          \/ i > Len(stack) /\ stack'[i].l = NULL /\ stack'[i].r = NULL
    /\ ret' = given[7]

Hands(given, a, b) == NodesHanded(given, a, b) /\ StackHanded(given)

(* The node that takes children: an ELSE node, or the name of a function. *)
Takers ==
    CASE Top.at = "if_else" -> {ret}
      [] Top.at = "func_decl_body" -> {Top.l}
      [] OTHER -> {}

(* The old nodes that get a child are roots and not handed over to a child  *)
(* themselves, or there is one, the last of a block.                       *)
Placed(given, a, b) ==
    /\ \/ a = 0 /\ given[1] = NULL
       \/ a \in Takers \ {NULL, given[1], given[2]}
    /\ \/ b = 0 /\ given[2] = NULL
       \/ b \in Takers \ {NULL, given[1], given[2]}
       \/ Top.at = "block_next" /\ b = Top.r /\ given[1] = NULL /\ given[2] = ret
    /\ a = 0 \/ b = 0 \/ a = b
    /\ Fresh \notin {given[1], given[2], given[3], given[4]}

(* The frame of a block begins with one statement, or moves on to the one   *)
(* that is hung on its last.                                               *)
BlockFrame(f, given, b) ==
    /\ f.r # NULL
    /\ \/ f.r = f.l
       \/ Top.at = "block_next" /\ b = Top.r /\ f.l = Top.l /\ f.r = given[2]

Chained(given, b) ==
    \A i \in 1..Len(stack') :
        \/ i < Len(stack)
        \/ stack'[i].at # "block_next"
        \/ i = Len(stack) /\ BlockFrame(stack'[i], given, b)

Grafted(given, a, b) == Placed(given, a, b) /\ Chained(given, b)

(* They are in the locals. *)
LEMMA TakersHere == Takers \subseteq {Top.l, ret}
BY DEF Takers

(* What an owner is. *)
LEMMA OwnerCases ==
    ASSUME NEW v, NEW o
    PROVE  o \in Owners(v) <=>
               \/ \E p \in 1..Len(nodes) : o = <<"left", p>> /\ nodes[p].left = v
               \/ \E p \in 1..Len(nodes) : o = <<"right", p>> /\ nodes[p].right = v
               \/ \E i \in 1..Len(stack) : o = <<"l", i>> /\ stack[i].l = v
               \/ \E i \in 1..Len(stack) : /\ o = <<"r", i>> /\ stack[i].r = v
                                           /\ stack[i].at # "block_next"
               \/ o = <<"ret", 0>> /\ ret = v
BY DEF Owners

(* The same after a step. *)
LEMMA OwnerCasesNext ==
    ASSUME NEW v, NEW o
    PROVE  o \in Owners(v)' <=>
               \/ \E p \in 1..Len(nodes') : o = <<"left", p>> /\ nodes'[p].left = v
               \/ \E p \in 1..Len(nodes') : o = <<"right", p>> /\ nodes'[p].right = v
               \/ \E i \in 1..Len(stack') : o = <<"l", i>> /\ stack'[i].l = v
               \/ \E i \in 1..Len(stack') : /\ o = <<"r", i>> /\ stack'[i].r = v
                                            /\ stack'[i].at # "block_next"
               \/ o = <<"ret", 0>> /\ ret' = v
BY DEF Owners

(* The locals of the running activation and the returned value. *)
Giving == {<<"l", Len(stack)>>, <<"r", Len(stack)>>, <<"ret", 0>>}

(* A node in the pool is owned there. *)
LEMMA PoolOwned ==
    ASSUME TypeOK, stack # << >>, NEW v \in Pool, v # Fresh
    PROVE  \E o \in Giving : o \in Owners(v)
<1>1. Len(stack) \in 1..Len(stack)
  BY TopProperties
<1>. QED
  BY <1>1, OwnerCases DEF Pool, Giving, Top

(* After a step an owner has kept its node, or was given it. *)
LEMMA KeptOrGiven ==
    ASSUME TypeOK, stack # << >>, NEW given, NEW a, NEW b, Hands(given, a, b),
           NEW v \in 1..Len(nodes'), NEW o \in Owners(v)'
    PROVE  \/ o \in Owners(v) \ Giving /\ v # Fresh
           \/ \E k \in 1..7 : o = Place(a, b)[k] /\ v = given[k]
<1>1. /\ Len(stack) \in Nat \ {0} /\ Len(nodes) \in Nat /\ Fresh \notin 0..Len(nodes)
      /\ \A p \in 1..Len(nodes) : nodes[p].left # Fresh /\ nodes[p].right # Fresh
      /\ \A i \in 1..Len(stack) : stack[i].l # Fresh /\ stack[i].r # Fresh
  <2>1. Len(stack) \in Nat \ {0} /\ Len(nodes) \in Nat /\ Fresh \notin 0..Len(nodes)
    BY TopProperties DEF Fresh
  <2>2. /\ \A p \in 1..Len(nodes) : nodes[p] \in Nodes(Len(nodes))
        /\ \A i \in 1..Len(stack) : stack[i] \in Frames(Len(nodes))
    BY ElementOfSeq DEF TypeOK, HeapOK, StackOK
  <2>. QED
    BY <2>1, <2>2 DEF Nodes, Frames
<1>2. v # NULL
  BY DEF NULL
<1>3. CASE \E p \in 1..Len(nodes') : o = <<"left", p>> /\ nodes'[p].left = v
  <2>1. PICK p \in 1..Len(nodes') : o = <<"left", p>> /\ nodes'[p].left = v
    BY <1>3
  <2>2. CASE p \in 1..Len(nodes) /\ p = a
    BY <2>1, <2>2 DEF Hands, NodesHanded, Place
  <2>3. CASE p \in 1..Len(nodes) /\ p # a
    <3>1. nodes[p].left = v
      BY <2>1, <2>3 DEF Hands, NodesHanded
    <3>2. o \in Owners(v)
      BY <2>1, <2>3, <3>1, OwnerCases
    <3>. QED
      BY <1>1, <2>1, <2>3, <3>1, <3>2 DEF Giving
  <2>4. CASE p \notin 1..Len(nodes)
    BY <2>1, <2>4 DEF Hands, NodesHanded, Place
  <2>. QED
    BY <2>2, <2>3, <2>4
<1>4. CASE \E p \in 1..Len(nodes') : o = <<"right", p>> /\ nodes'[p].right = v
  <2>1. PICK p \in 1..Len(nodes') : o = <<"right", p>> /\ nodes'[p].right = v
    BY <1>4
  <2>2. CASE p \in 1..Len(nodes) /\ p = b
    BY <2>1, <2>2 DEF Hands, NodesHanded, Place
  <2>3. CASE p \in 1..Len(nodes) /\ p # b
    <3>1. nodes[p].right = v
      BY <2>1, <2>3 DEF Hands, NodesHanded
    <3>2. o \in Owners(v)
      BY <2>1, <2>3, <3>1, OwnerCases
    <3>. QED
      BY <1>1, <2>1, <2>3, <3>1, <3>2 DEF Giving
  <2>4. CASE p \notin 1..Len(nodes)
    BY <2>1, <2>4 DEF Hands, NodesHanded, Place
  <2>. QED
    BY <2>2, <2>3, <2>4
<1>5. CASE \E i \in 1..Len(stack') : o = <<"l", i>> /\ stack'[i].l = v
  <2>1. PICK i \in 1..Len(stack') : o = <<"l", i>> /\ stack'[i].l = v
    BY <1>5
  <2>2. CASE i < Len(stack) /\ stack'[i] = stack[i]
    <3>1. i \in 1..Len(stack) /\ stack[i].l = v
      BY <1>1, <2>1, <2>2
    <3>2. o \in Owners(v)
      BY <2>1, <3>1, OwnerCases
    <3>. QED
      BY <1>1, <2>1, <2>2, <3>1, <3>2 DEF Giving
  <2>3. CASE i = Len(stack) /\ stack'[i].l = given[5]
    BY <2>1, <2>3 DEF Place
  <2>. QED
    BY <1>2, <2>1, <2>2, <2>3 DEF Hands, StackHanded
<1>6. CASE \E i \in 1..Len(stack') :
              o = <<"r", i>> /\ stack'[i].r = v /\ stack'[i].at # "block_next"
  <2>1. PICK i \in 1..Len(stack') :
              o = <<"r", i>> /\ stack'[i].r = v /\ stack'[i].at # "block_next"
    BY <1>6
  <2>2. CASE i < Len(stack) /\ stack'[i] = stack[i]
    <3>1. i \in 1..Len(stack) /\ stack[i].r = v /\ stack[i].at # "block_next"
      BY <1>1, <2>1, <2>2
    <3>2. o \in Owners(v)
      BY <2>1, <3>1, OwnerCases
    <3>. QED
      BY <1>1, <2>1, <2>2, <3>1, <3>2 DEF Giving
  <2>3. CASE i = Len(stack) /\ stack'[i].r = given[6]
    BY <2>1, <2>3 DEF Place
  <2>. QED
    BY <1>2, <2>1, <2>2, <2>3 DEF Hands, StackHanded
<1>7. CASE o = <<"ret", 0>> /\ ret' = v
  <2>1. v = given[7] /\ Place(a, b)[7] = <<"ret", 0>>
    BY <1>7 DEF Hands, StackHanded, Place
  <2>. QED
    BY <1>7, <2>1
<1>. QED
  BY <1>3, <1>4, <1>5, <1>6, <1>7, OwnerCasesNext

(* Fairly handed over, no node gets a second owner, a node that had none    *)
(* gets none, and a node of the pool that is not handed over loses its own. *)
LEMMA FairlyHanded ==
    ASSUME TypeOK, SingleOwner, stack # << >>,
           NEW given, Fair(given), NEW a, NEW b, Hands(given, a, b)
    PROVE  /\ SingleOwner'
           /\ \A v \in 1..Len(nodes) : v \in 1..Len(nodes') /\ Owners(v) = {}
                => Owners(v)' = {}
           /\ \A v \in Pool \cap 1..Len(nodes) : v \in 1..Len(nodes')
                /\ (\A k \in 1..7 : given[k] # v) => Owners(v)' = {}
<1>1. /\ \A k \in 1..7 : given[k] \in Pool \cup {NULL}
      /\ \A j, k \in 1..7 : given[j] = given[k] /\ given[j] # NULL => j = k
  BY DEF Fair
<1>2. Len(nodes) \in Nat /\ Fresh \notin 1..Len(nodes)
  BY TopProperties DEF Fresh
<1>3. ASSUME NEW v \in 1..Len(nodes'), NEW o \in Owners(v)'
      PROVE  \/ v \in 1..Len(nodes) /\ o \in Owners(v) \ Giving
             \/ \E k \in 1..7 : o = Place(a, b)[k] /\ v = given[k]
  <2>1. v \in 1..Len(nodes) \/ v = Fresh
    BY DEF Hands, NodesHanded
  <2>. QED
    BY <2>1, KeptOrGiven
<1>4. ASSUME NEW v \in 1..Len(nodes), v \in Pool, NEW o \in Owners(v)
      PROVE  o \in Giving
  <2>1. v # Fresh
    BY <1>2
  <2>2. PICK g \in Giving : g \in Owners(v)
    BY <1>4, <2>1, PoolOwned
  <2>. QED
    BY <2>2 DEF SingleOwner
<1>5. SingleOwner'
  <2>1. SUFFICES ASSUME NEW v \in 1..Len(nodes'), NEW o1 \in Owners(v)', NEW o2 \in Owners(v)'
        PROVE  o1 = o2
    BY DEF SingleOwner
  <2>2. v # NULL
    BY DEF NULL
  <2>3. ASSUME v \in 1..Len(nodes), NEW o \in Owners(v) \ Giving,
               NEW k \in 1..7, v = given[k]
        PROVE  FALSE
    BY <1>1, <1>4, <2>2, <2>3
  <2>. QED
    BY <1>1, <1>3, <2>2, <2>3 DEF SingleOwner
<1>6. ASSUME NEW v \in 1..Len(nodes), v \in 1..Len(nodes'), Owners(v) = {}
      PROVE  Owners(v)' = {}
  <2>1. SUFFICES ASSUME NEW o \in Owners(v)' PROVE FALSE
    OBVIOUS
  <2>2. PICK k \in 1..7 : v = given[k]
    BY <1>3, <1>6
  <2>3. v \in Pool /\ v # Fresh
    BY <1>1, <1>2, <2>2 DEF NULL
  <2>. QED
    BY <1>6, <2>3, PoolOwned
<1>7. ASSUME NEW v \in Pool \cap 1..Len(nodes), v \in 1..Len(nodes'),
             \A k \in 1..7 : given[k] # v
      PROVE  Owners(v)' = {}
  BY <1>3, <1>4, <1>7
<1>. QED
  BY <1>5, <1>6, <1>7

-----------------------------------------------------------------------------
(* What the steps hand over, and that most of them bind no identifier. *)

(* A node may only be freed when it is not handed over, or for the last     *)
(* time when the text is rejected.                                         *)
Passing == \E given, a, b :
    /\ Fair(given) /\ Hands(given, a, b) /\ Grafted(given, a, b)
    /\ \/ UNCHANGED freed
       \/ status' \notin {"running", "accepted"}
       \/ /\ freed' \subseteq freed \cup ({ret} \ {NULL})
          /\ \A k \in 1..7 : given[k] \in {ret} => ret = NULL

(* The activations of get_func_decl_ that have made an environment.        *)
FuncLabels == {"func_decl_params", "func_decl_body"}

(* With those of get_block_ that hold its statements.                      *)
KeyLabels == FuncLabels \cup {"block_next"}

(* The nodes that refer to names.  A call is of the function named in l. *)
Marked == Names \cup {"call"}

Nameless(node) ==
    /\ node.tok \notin Names
    /\ node.tok = "call" => Top.at = "func_call_args" /\ node.left = Top.l

(* No identifier is made or bound, no declaration gets a name. *)
IdsKept ==
    /\ \A v \in 1..Len(nodes) :
          /\ nodes'[v].tok = nodes[v].tok
          /\ nodes'[v].scope = nodes[v].scope
          /\ nodes'[v].inner = nodes[v].inner
    /\ \A v \in 1..Len(nodes') : v \in 1..Len(nodes) \/ Nameless(nodes'[v])

FramesTame ==
    \A i \in 1..Len(stack') :
        \/ i < Len(stack) /\ stack'[i] = stack[i]
        \/ /\ stack'[i].at \notin FuncLabels
           /\ Len(stack') = 1 => stack'[i].at # "identifier"

(* Environment f.n of es begins with the name of node f.l of ns. *)
Heads(f, es, ns) ==
    /\ f.n + 1 \in 1..Len(es)
    /\ es[f.n + 1] # << >>
    /\ es[f.n + 1][1] = Function(ns[f.l].tok)

(* A declaration that goes on has the environment of its name. *)
FramesStep ==
    \A i \in 1..Len(stack') :
        \/ i < Len(stack) /\ stack'[i] = stack[i]
        \/ /\ stack'[i].at \in FuncLabels => Heads(stack'[i], envs', nodes')
           /\ Len(stack') = 1 => stack'[i].at # "identifier"

Tame ==
    /\ Top.at = "func_decl_name" => ret = NULL
    /\ IdsKept /\ FramesTame

Orderly == Passing /\ Tame

(* What may be handed over is apart. *)
LEMMA PoolApart ==
    ASSUME TypeOK, SingleOwner, NEW label, At(label)
    PROVE  /\ Top.l \in 0..Len(nodes) /\ Top.r \in 0..Len(nodes) /\ ret \in 0..Len(nodes)
           /\ Fresh \notin 0..Len(nodes)
           /\ Top.l = ret => ret = NULL
           /\ label # "block_next" => /\ Top.r = ret => ret = NULL
                                      /\ Top.l = Top.r => Top.r = NULL
           /\ stack # << >> /\ Top.at = label
<1>. DEFINE n == Len(stack)
<1>1. /\ stack # << >> /\ Top.at = label /\ Top \in Frames(Len(nodes))
      /\ Len(nodes) \in Nat /\ ret \in 0..Len(nodes) /\ n \in 1..n
  BY AtFacts, TopProperties DEF Refs
<1>2. Top.l \in 0..Len(nodes) /\ Top.r \in 0..Len(nodes)
  BY <1>1 DEF Frames
<1>3. \A v \in 1..Len(nodes) :
          /\ Top.l = v => <<"l", n>> \in Owners(v)
          /\ Top.r = v /\ label # "block_next" => <<"r", n>> \in Owners(v)
          /\ ret = v => <<"ret", 0>> \in Owners(v)
  BY <1>1, OwnerCases DEF Top
<1>4. \A v \in 0..Len(nodes) : v # NULL => v \in 1..Len(nodes)
  BY <1>1 DEF NULL
<1>. HIDE DEF n
<1>5. Fresh \notin 0..Len(nodes)
  BY <1>1 DEF Fresh
<1>. QED
  BY <1>1, <1>2, <1>3, <1>4, <1>5 DEF SingleOwner

(* A new node is none of them. *)
LEMMA FreshApart ==
    ASSUME TypeOK, SingleOwner, NEW label, At(label)
    PROVE  Fresh \notin {NULL, Top.l, Top.r, ret}
<1>1. Len(nodes) \in Nat
  BY DEF TypeOK, HeapOK
<1>. QED
  BY <1>1, PoolApart DEF NULL

(* The nodes, some of them with other ids. *)
Rebound(ns) ==
    /\ ns \in Seq(Nodes(Len(nodes))) /\ Len(ns) = Len(nodes)
    /\ \A q \in 1..Len(nodes) :
          ns[q].left = nodes[q].left /\ ns[q].right = nodes[q].right

(* They are the nodes themselves, or one of them is bound. *)
LEMMA ReboundNodes ==
    ASSUME TypeOK
    PROVE  /\ Rebound(nodes)
           /\ \A v \in 1..Len(nodes), e \in Int, id \in Int : Rebound(Bind(v, e, id))
<1>1. nodes \in Seq(Nodes(Len(nodes)))
  BY DEF TypeOK, HeapOK
<1>2. ASSUME NEW v \in 1..Len(nodes), NEW e \in Int, NEW id \in Int
      PROVE  Rebound(Bind(v, e, id))
  <2>1. Bind(v, e, id) \in Seq(Nodes(Len(nodes))) /\ Len(Bind(v, e, id)) = Len(nodes)
    BY BindProperties
  <2>2. \A q \in 1..Len(nodes) : nodes[q] \in Nodes(Len(nodes))
    BY <1>1, ElementOfSeq
  <2>. DEFINE node == [nodes[v] EXCEPT !.scope = e, !.inner = id]
  <2>3. node.left = nodes[v].left /\ node.right = nodes[v].right
    BY <2>2 DEF Nodes
  <2>4. Bind(v, e, id) = [nodes EXCEPT ![v] = node]
    BY DEF Bind
  <2>. HIDE DEF node
  <2>5. \A q \in 1..Len(nodes) : Bind(v, e, id)[q] = IF q = v THEN node ELSE nodes[q]
    BY <1>1, <2>4
  <2>. QED
    BY <2>1, <2>3, <2>5 DEF Rebound
<1>. QED
  BY <1>1, <1>2 DEF Rebound

(* A node joins them. *)
LEMMA AppendHands ==
    ASSUME TypeOK, NEW ns, Rebound(ns), NEW node, nodes' = Append(ns, node),
           NEW given, given[3] = node.left, given[4] = node.right
    PROVE  /\ NodesHanded(given, 0, 0)
           /\ ns = nodes /\ Nameless(node) => IdsKept
<1>1. ns \in Seq(Nodes(Len(nodes))) /\ Len(ns) = Len(nodes) /\ Len(nodes) \in Nat
  BY DEF TypeOK, HeapOK, Rebound
<1>2. /\ Len(nodes') = Fresh /\ nodes'[Fresh] = node
      /\ \A v \in 1..Len(nodes) : nodes'[v] = ns[v]
  BY <1>1, AppendProperties DEF Fresh
<1>3. \A v \in 1..Len(nodes') : v \in 1..Len(nodes) \/ v = Fresh
  BY <1>1, <1>2 DEF Fresh
<1>. QED
  BY <1>1, <1>2, <1>3 DEF NodesHanded, IdsKept, Rebound

(* No node joins them. *)
LEMMA SameHands ==
    ASSUME Rebound(nodes'), NEW given
    PROVE  NodesHanded(given, 0, 0) /\ (UNCHANGED nodes => IdsKept)
BY DEF NodesHanded, IdsKept, Rebound

(* What new_node makes. *)
LEMMA NodeFields ==
    ASSUME NEW tok, NEW l, NEW r
    PROVE  Node(tok, l, r).tok = tok /\ Node(tok, l, r).left = l /\ Node(tok, l, r).right = r
BY DEF Node

(* A call. *)
LEMMA GotoHands ==
    ASSUME TypeOK, NEW label, At(label), NEW f, NEW c, NEW p, Goto(f, c, p),
           c.l = NULL, c.r = NULL, NEW given,
           given[5] = f.l, f.at = "block_next" \/ given[6] = f.r, given[7] = NULL
    PROVE  /\ StackHanded(given)
           /\ {f.at, c.at} \cap FuncLabels = {} => FramesTame
           /\ /\ c.at \notin FuncLabels
              /\ f.at \in FuncLabels => Heads(f, envs', nodes')
              => FramesStep
           /\ \A b : c.at # "block_next" /\ (f.at = "block_next" => BlockFrame(f, given, b))
                    => Chained(given, b)
<1>. DEFINE n == Len(stack)
            T == Frames(Len(nodes)) \cup {f, c}
<1>1. stack \in Seq(T) /\ stack # << >> /\ n \in Nat \ {0}
  <2>1. stack \in Seq(Frames(Len(nodes))) /\ Frames(Len(nodes)) \subseteq T
    BY DEF TypeOK, StackOK
  <2>2. stack # << >>
    BY DEF At, Running
  <2>. QED
    BY <2>1, <2>2, SeqMonotonic, TopProperties
<1>2. f \in T /\ c \in T
  OBVIOUS
<1>. HIDE DEF T
<1>3. /\ Len(stack') = n + 1
      /\ \A i \in 1 .. n - 1 : stack'[i] = stack[i]
      /\ stack'[n] = f /\ stack'[n + 1] = c
  <2>1. stack' = Replaced(stack, f, c)
    BY DEF Goto, Callers, Replaced, Popped
  <2>2. ASSUME NEW U, stack \in Seq(U), stack # << >>, f \in U, c \in U
        PROVE  /\ Len(Replaced(stack, f, c)) = Len(stack) + 1
               /\ \A i \in 1 .. Len(stack) - 1 : Replaced(stack, f, c)[i] = stack[i]
               /\ Replaced(stack, f, c)[Len(stack)] = f
               /\ Replaced(stack, f, c)[Len(stack) + 1] = c
    BY <2>2, GotoProperties
  <2>. QED
    BY <1>1, <1>2, <2>1, <2>2
<1>4. \A i \in 1..Len(stack') : i \in 1 .. n - 1 \/ i = n \/ i = n + 1
  BY <1>1, <1>3
<1>5. ret' = NULL
  BY DEF Goto
<1>6. ASSUME c.at \notin FuncLabels, f.at \in FuncLabels => Heads(f, envs', nodes')
      PROVE  FramesStep
  BY <1>1, <1>3, <1>4, <1>6 DEF FramesStep
<1>7. ASSUME NEW b, c.at # "block_next", f.at = "block_next" => BlockFrame(f, given, b)
      PROVE  Chained(given, b)
  BY <1>1, <1>3, <1>4, <1>7 DEF Chained
<1>. QED
  BY <1>1, <1>3, <1>4, <1>5, <1>6, <1>7 DEF StackHanded, FramesTame

(* A return. *)
LEMMA ReturnHands ==
    ASSUME TypeOK, NEW label, At(label), NEW v, stack' = Callers, ret' = v,
           NEW given, given[7] = v
    PROVE  StackHanded(given) /\ FramesTame /\ \A b : Chained(given, b)
<1>1. stack \in Seq(Frames(Len(nodes))) /\ stack # << >> /\ Len(stack) \in Nat \ {0}
  BY TopProperties DEF TypeOK, StackOK, At, Running
<1>2. Len(stack') = Len(stack) - 1 /\ \A i \in 1 .. Len(stack) - 1 : stack'[i] = stack[i]
  BY <1>1, PopProperties DEF Callers, Popped
<1>3. \A i \in 1..Len(stack') : i < Len(stack) /\ i \in 1 .. Len(stack) - 1
  BY <1>1, <1>2
<1>. QED
  BY <1>2, <1>3 DEF StackHanded, FramesTame, Chained

(* A call that makes no node. *)
LEMMA GotoPasses ==
    ASSUME TypeOK, SingleOwner, NEW label, At(label),
           NEW f, NEW c, NEW p, Goto(f, c, p), Rebound(nodes'), UNCHANGED freed,
           c.l = NULL, c.r = NULL, c.at # "block_next", f.l \in {Top.l, ret},
           \/ f.at = "block_next" /\ f.r = f.l /\ f.l # NULL
           \/ {f.at, label} \cap {"block_next"} = {} /\ f.r = Top.r
           \/ {f.at, label} \cap {"block_next"} = {} /\ f.l = Top.l /\ f.r = ret
    PROVE  /\ Passing
           /\ {f.at, c.at} \cap FuncLabels = {} => FramesTame
           /\ /\ c.at \notin FuncLabels
              /\ f.at \in FuncLabels => Heads(f, envs', nodes')
              => FramesStep
           /\ /\ UNCHANGED nodes /\ {f.at, c.at} \cap FuncLabels = {}
              /\ label = "func_decl_name" => ret = NULL
              => Orderly
<1>. DEFINE q == IF f.at = "block_next" THEN NULL ELSE f.r
            given == <<NULL, NULL, NULL, NULL, f.l, q, NULL>>
<1>1. Fair(given)
  <2>1. f.l \in Pool \cup {NULL} /\ q \in Pool \cup {NULL}
    BY PoolApart DEF Pool
  <2>2. f.l = q => q = NULL
    BY PoolApart
  <2>3. \A x, y \in Pool \cup {NULL} :
            (x = y => y = NULL) => Fair(<<NULL, NULL, NULL, NULL, x, y, NULL>>)
    BY DEF Fair
  <2>. HIDE DEF q
  <2>. QED
    BY <2>1, <2>2, <2>3
<1>2. /\ Hands(given, 0, 0) /\ (UNCHANGED nodes => IdsKept)
      /\ {f.at, c.at} \cap FuncLabels = {} => FramesTame
      /\ /\ c.at \notin FuncLabels
         /\ f.at \in FuncLabels => Heads(f, envs', nodes')
         => FramesStep
  BY GotoHands, SameHands DEF Hands
<1>3. Grafted(given, 0, 0)
  <2>1. f.at = "block_next" => BlockFrame(f, given, 0)
    BY DEF BlockFrame
  <2>2. given[5] = f.l /\ (f.at = "block_next" \/ given[6] = f.r) /\ given[7] = NULL
    OBVIOUS
  <2>3. Placed(given, 0, 0)
    BY FreshApart DEF Placed
  <2>. HIDE DEF given
  <2>. QED
    BY <2>1, <2>2, <2>3, GotoHands DEF Grafted
<1>4. Passing
  BY <1>1, <1>2, <1>3 DEF Passing
<1>. QED
  BY <1>2, <1>4 DEF Orderly, Tame, At

(* A return that makes no node. *)
LEMMA ReturnPasses ==
    ASSUME TypeOK, SingleOwner, NEW label, At(label),
           NEW v \in {NULL, Top.l, ret}, stack' = Callers, ret' = v, Rebound(nodes'),
           \/ UNCHANGED freed
           \/ status' \notin {"running", "accepted"}
           \/ v = NULL /\ freed' \subseteq freed \cup ({ret} \ {NULL})
    PROVE  /\ Passing /\ FramesTame
           /\ UNCHANGED nodes /\ (label = "func_decl_name" => ret = NULL) => Orderly
<1>. DEFINE given == <<NULL, NULL, NULL, NULL, NULL, NULL, v>>
<1>1. Fair(given)
  BY DEF Fair, Pool
<1>2. /\ Hands(given, 0, 0) /\ FramesTame /\ (UNCHANGED nodes => IdsKept)
      /\ Grafted(given, 0, 0)
  <2>1. given[7] = v /\ Placed(given, 0, 0)
    BY FreshApart DEF Placed
  <2>. HIDE DEF given
  <2>. QED
    BY <2>1, ReturnHands, SameHands DEF Hands, Grafted
<1>3. v = NULL => \A k \in 1..7 : given[k] = NULL
  OBVIOUS
<1>. HIDE DEF given
<1>4. Passing
  BY <1>1, <1>2, <1>3 DEF Passing
<1>. QED
  BY <1>2, <1>4 DEF Orderly, Tame, At

(* A new node that is returned. *)
LEMMA NodePasses ==
    ASSUME TypeOK, SingleOwner, NEW label, At(label), label # "block_next",
           NEW ns, Rebound(ns), NEW node, nodes' = Append(ns, node), UNCHANGED freed,
           NEW p, Return(Len(nodes) + 1, p),
           \/ node.left \in {NULL, Top.l, ret} /\ node.right = NULL
           \/ node.left \in {NULL, Top.l} /\ node.right = ret
           \/ node.left = Top.l /\ node.right = Top.r
    PROVE  /\ Passing /\ FramesTame
           /\ ns = nodes /\ Nameless(node) /\ label # "func_decl_name" => Orderly
<1>. DEFINE l == node.left
            r == node.right
            given == <<NULL, NULL, l, r, NULL, NULL, Fresh>>
<1>1. Fair(given)
  <2>1. l \in Pool \cup {NULL} /\ r \in Pool \cup {NULL} /\ Fresh \in Pool
    BY PoolApart DEF Pool
  <2>2. (l = r => r = NULL) /\ l # Fresh /\ r # Fresh
    BY PoolApart, TopProperties DEF NULL
  <2>. HIDE DEF l, r
  <2>. QED
    BY <2>1, <2>2 DEF Fair
<1>2. stack' = Callers /\ ret' = Fresh
  BY DEF Return, Fresh
<1>3. given[3] = l /\ given[4] = r /\ given[7] = Fresh /\ Placed(given, 0, 0)
  BY <1>1, FreshApart DEF Placed
<1>. HIDE DEF given
<1>4. /\ Hands(given, 0, 0) /\ FramesTame /\ (ns = nodes /\ Nameless(node) => IdsKept)
      /\ Grafted(given, 0, 0)
  BY <1>2, <1>3, ReturnHands, AppendHands DEF Hands, Grafted
<1>. QED
  BY <1>1, <1>4 DEF Orderly, Passing, Tame, At

(* A new node over the local and the returned node, which replaces them     *)
(* when the function goes on.                                              *)
LEMMA JoinPasses ==
    ASSUME TypeOK, SingleOwner, NEW label, At(label), label # "block_next",
           NEW ns, Rebound(ns), NEW node, nodes' = Append(ns, node), UNCHANGED freed,
           node.left = Top.l, node.right = ret,
           NEW f, NEW c, NEW p, NEW q, Goto(f, c, p) \/ Return(Len(nodes) + 1, q),
           c.l = NULL, c.r = NULL, {f.at, c.at} \cap KeyLabels = {},
           f.l = Len(nodes) + 1, f.r = Top.r
    PROVE  /\ Passing /\ FramesTame
           /\ ns = nodes /\ Nameless(node) /\ label # "func_decl_name" => Orderly
<1>1. CASE Goto(f, c, p)
  <2>. DEFINE given == <<NULL, NULL, Top.l, ret, Fresh, Top.r, NULL>>
  <2>1. Fair(given)
    <3>1. {Top.l, Top.r, ret, Fresh} \subseteq Pool
      BY PoolApart DEF Pool
    <3>2. /\ Top.l = ret => ret = NULL
          /\ Top.r = ret => ret = NULL
          /\ Top.l = Top.r => Top.r = NULL
          /\ Fresh \notin {Top.l, Top.r, ret}
      BY PoolApart
    <3>. QED
      BY <3>1, <3>2 DEF Fair
  <2>2. /\ given[3] = node.left /\ given[4] = node.right
        /\ given[5] = f.l /\ given[6] = f.r /\ given[7] = NULL
        /\ Placed(given, 0, 0)
    <3>1. Fresh \notin {NULL, Top.l, ret}
      BY FreshApart
    <3>. QED
      BY <3>1 DEF Fresh, Placed
  <2>. HIDE DEF given
  <2>3. {f.at, c.at} \cap FuncLabels = {} /\ "block_next" \notin {f.at, c.at}
    BY DEF KeyLabels
  <2>4. /\ Hands(given, 0, 0) /\ FramesTame /\ Grafted(given, 0, 0)
        /\ ns = nodes /\ Nameless(node) => IdsKept
    BY <1>1, <2>2, <2>3, GotoHands, AppendHands DEF Hands, Grafted
  <2>. QED
    BY <2>1, <2>4 DEF Orderly, Passing, Tame, At
<1>2. CASE Return(Len(nodes) + 1, q)
  BY <1>2, NodePasses
<1>. QED
  BY <1>1, <1>2

-----------------------------------------------------------------------------
(* The shapes that several functions share. *)

(* A callee begins without nodes. *)
Entry(c) == c.l = NULL /\ c.r = NULL /\ c.at \notin KeyLabels

(* The functions that are called. *)
LEMMA Entries ==
    /\ \A at : at \notin KeyLabels => Entry(Frame(at))
    /\ \A k : Entry(Operator(k)) /\ Entry(Operand(k))
    /\ Entry(Expr) /\ Entry(ArgumentList) /\ Entry(Identifier)
    /\ Entry(Block) /\ Entry(Sentence)
<1>1. ASSUME NEW at, at \notin KeyLabels PROVE Entry(Frame(at))
  BY <1>1 DEF Entry, Frame
<1>2. ASSUME NEW k PROVE Entry(Operator(k))
  BY DEF Entry, Frame, Operator, KeyLabels, FuncLabels
<1>3. ASSUME NEW k PROVE Entry(Operand(k))
  BY <1>1, <1>2 DEF Operand, KeyLabels, FuncLabels
<1>. QED
  BY <1>1, <1>2, <1>3 DEF Expr, ArgumentList, Identifier, Block, Sentence, KeyLabels, FuncLabels

(* Nothing else is spelt like a call. *)
LEMMA NotCalls ==
    /\ "call" \notin Keywords \cup Separators \cup {"=", "@", "FAKE"}
    /\ \A k \in 0..7 : "call" \notin Levels[k]
BY DEF Keywords, Separators, Levels

(* The tokens that are neither names nor calls. *)
LEMMA NotNames ==
    /\ Keywords \cap Marked = {} /\ Separators \cap Marked = {} /\ Nums \cap Marked = {}
    /\ \A k \in 0..7 : Levels[k] \cap Marked = {}
    /\ {"=", "@", "FAKE"} \cap Marked = {} /\ "call" \notin Names
<1>1. \A k \in 0..7 : Levels[k] \subseteq Reserved
  <2>. TAKE k \in 0..7
  <2>1. CASE k = 0
    BY <2>1 DEF Levels, Reserved, Separators
  <2>2. CASE k # 0
    BY <2>2 DEF Reserved, BinaryOperators
  <2>. QED
    BY <2>1, <2>2
<1>2. /\ (Names \cup Nums) \cap Reserved = {} /\ Names \cap Nums = {}
      /\ Keywords \cup Separators \cup {"=", "@", "call", "FAKE"} \subseteq Reserved
  BY InputsAssumption DEF Reserved
<1>3. /\ Keywords \cap Names = {} /\ Separators \cap Names = {}
      /\ \A k \in 0..7 : Levels[k] \cap Names = {}
      /\ {"=", "@", "call", "FAKE"} \cap Names = {} /\ "call" \notin Nums
  BY <1>1, <1>2
<1>. QED
  BY <1>2, <1>3, NotCalls DEF Marked

(* The labels of the functions that hand over the plain way. *)
PlainLabel(label) == label \notin {"func_decl_name", "block_next"}

(* The running activation is a record. *)
LEMMA TopRecord ==
    ASSUME TypeOK, NEW label, At(label)
    PROVE  Top \in [at : Labels, l : 0..Len(nodes), r : 0..Len(nodes), tok : Tokens, n : Nat]
BY AtFacts DEF Frames

(* What new_node does. *)
LEMMA NodeOrderly ==
    ASSUME TypeOK, SingleOwner, NEW label, At(label), PlainLabel(label),
           NEW tok, NEW l, NEW r, NEW p, ReturnNode(tok, l, r, p),
           tok \notin Marked \/ (tok = "call" /\ label = "func_call_args" /\ l = Top.l),
           \/ l \in {NULL, Top.l, ret} /\ r = NULL
           \/ l \in {NULL, Top.l} /\ r = ret
           \/ l = Top.l /\ r = Top.r
    PROVE  Orderly
<1>1. PICK node : /\ nodes' = Append(nodes, node)
                  /\ node.tok = tok /\ node.left = l /\ node.right = r
  BY NodeFields DEF ReturnNode, NewNode
<1>2. UNCHANGED freed /\ Return(Len(nodes) + 1, p) /\ Top.at = label
  BY DEF ReturnNode, NewNode, At
<1>3. Nameless(node)
  BY <1>1, <1>2, NotNames DEF Nameless, Marked
<1>. QED
  BY <1>1, <1>2, <1>3, NodePasses, ReboundNodes DEF PlainLabel

(* The same, when the node takes the place of the function's own. *)
LEMMA JoinOrderly ==
    ASSUME TypeOK, SingleOwner, NEW label, At(label), PlainLabel(label),
           NEW tok, tok \notin Marked, NewNode(nodes, tok, Top.l, ret),
           NEW f, f.l = Len(nodes) + 1, f.r = Top.r, f.at \notin KeyLabels,
           NEW c, Entry(c), NEW p, NEW q, Goto(f, c, p) \/ Return(Len(nodes) + 1, q)
    PROVE  Orderly
<1>1. PICK node : /\ nodes' = Append(nodes, node)
                  /\ node.tok = tok /\ node.left = Top.l /\ node.right = ret
  BY NodeFields DEF NewNode
<1>2. UNCHANGED freed
  BY DEF NewNode
<1>. QED
  BY <1>1, <1>2, JoinPasses, ReboundNodes DEF PlainLabel, Entry, Nameless, Marked

(* A call that changes nothing else. *)
LEMMA OrderlyGoto ==
    ASSUME TypeOK, SingleOwner, NEW label, At(label), label # "func_decl_name",
           NEW f, NEW c, NEW p, Goto(f, c, p), Quiet,
           Entry(c), f.at \notin FuncLabels, f.l \in {Top.l, ret},
           \/ f.at = "block_next" /\ f.r = f.l /\ f.l # NULL
           \/ {f.at, label} \cap {"block_next"} = {} /\ f.r = Top.r
           \/ {f.at, label} \cap {"block_next"} = {} /\ f.l = Top.l /\ f.r = ret
    PROVE  Orderly
BY GotoPasses, ReboundNodes DEF Entry, Quiet, heap, KeyLabels

(* A call that goes on with the same nodes, ... *)
LEMMA SameOrderly ==
    ASSUME TypeOK, SingleOwner, NEW label, At(label), PlainLabel(label),
           NEW f, f.l = Top.l, f.r = Top.r, f.at \notin KeyLabels,
           NEW c, Entry(c), NEW p, Goto(f, c, p), Quiet
    PROVE  Orderly
BY OrderlyGoto DEF PlainLabel, KeyLabels

(* ... one that keeps the returned node in l, ... *)
LEMMA KeepsOrderly ==
    ASSUME TypeOK, SingleOwner, NEW label, At(label), PlainLabel(label),
           NEW f, f.l = ret, f.r = Top.r, f.at \notin KeyLabels,
           NEW c, Entry(c), NEW p, Goto(f, c, p), Quiet
    PROVE  Orderly
BY OrderlyGoto DEF PlainLabel, KeyLabels

(* ... the same, as the functions write them, ... *)
LEMMA CallOrderly ==
    ASSUME TypeOK, SingleOwner, NEW label, At(label), PlainLabel(label),
           NEW at, at \notin KeyLabels, NEW c, Entry(c), NEW p,
           \/ Call(at, c, p)
           \/ Goto([Top EXCEPT !.at = at, !.l = ret], c, p),
           Quiet
    PROVE  Orderly
<1>. DEFINE f == [Top EXCEPT !.at = at]
            g == [Top EXCEPT !.at = at, !.l = ret]
<1>1. /\ f.l = Top.l /\ f.r = Top.r /\ f.at = at
      /\ g.l = ret /\ g.r = Top.r /\ g.at = at
  BY TopRecord
<1>2. Goto(f, c, p) \/ Goto(g, c, p)
  BY DEF Call
<1>. HIDE DEF f, g
<1>. QED
  BY <1>1, <1>2, SameOrderly, KeepsOrderly

(* ... a failure, ... *)
LEMMA FailOrderly ==
    ASSUME TypeOK, SingleOwner, NEW label, At(label),
           label = "func_decl_name" => ret = NULL, NEW p, FailAt(p)
    PROVE  Orderly
BY ReturnPasses, ReboundNodes DEF FailAt, Return, heap

(* ... a return, ... *)
LEMMA ReturnOrderly ==
    ASSUME TypeOK, SingleOwner, NEW label, At(label), PlainLabel(label),
           NEW v \in {NULL, Top.l, ret}, NEW p, Return(v, p), Quiet
    PROVE  Orderly
BY ReturnPasses, ReboundNodes DEF Return, Quiet, heap, PlainLabel

(* ... a function led by a keyword, ... *)
LEMMA LeadsOrderly ==
    ASSUME TypeOK, SingleOwner, NEW label, PlainLabel(label), NEW token,
           NEW next, next \notin KeyLabels, NEW callee, Entry(callee),
           Leads(label, token, next, callee)
    PROVE  Orderly
BY CallOrderly, ReturnOrderly, Zenon DEF Leads

(* ... one that goes on after a call, ... *)
LEMMA ThenOrderly ==
    ASSUME TypeOK, SingleOwner, NEW label, PlainLabel(label),
           NEW next, next \notin KeyLabels, NEW callee, Entry(callee),
           Then(label, next, callee)
    PROVE  Orderly
<1>1. At(label) /\ (label = "func_decl_name" => ret = NULL)
  BY DEF Then, PlainLabel
<1>. QED
  BY <1>1, CallOrderly, FailOrderly, Zenon DEF Then, Fail

(* ... one that answers a node, ... *)
LEMMA YieldsOrderly ==
    ASSUME TypeOK, SingleOwner, NEW label, PlainLabel(label), NEW tok, tok \notin Marked,
           Yields(label, tok)
    PROVE  Orderly
BY FailOrderly, NodeOrderly DEF Yields, Fail, PlainLabel

(* ... and an attempt of get_primary_. *)
LEMMA PrimaryTryOrderly ==
    ASSUME TypeOK, SingleOwner, NEW label, PlainLabel(label),
           NEW next, next \notin KeyLabels, NEW at, at \notin KeyLabels,
           PrimaryTry(label, next, at)
    PROVE  Orderly
BY CallOrderly, ReturnOrderly, Entries, Zenon DEF PrimaryTry

-----------------------------------------------------------------------------
(* The orderly steps of the declarations, ... *)
LEMMA DeclarationsOrderly ==
    ASSUME TypeOK, SingleOwner,
           \/ GetGeneral \/ GetProgram \/ ProgramFirst \/ ProgramNext
           \/ GetFuncDecl \/ GetParameterList
    PROVE  Orderly
<1>0. /\ \A at \in {"general", "program", "program_first", "program_next", "func_decl",
                     "parameter_list"} : PlainLabel(at)
      /\ {"general_end", "program_first", "program_next", "func_decl_name",
          "parameter_list_first"} \cap KeyLabels = {}
      /\ Entry(Frame("program")) /\ Entry(Frame("func_decl")) /\ Entry(Identifier)
  BY Entries DEF PlainLabel, KeyLabels, FuncLabels
<1>1. GetGeneral => Orderly
  BY <1>0, CallOrderly DEF GetGeneral
<1>2. GetProgram => Orderly
  BY <1>0, CallOrderly DEF GetProgram
<1>3. ProgramFirst => Orderly
  BY <1>0, CallOrderly, ReturnOrderly DEF ProgramFirst
<1>4. ProgramNext => Orderly
  <2>. DEFINE f == [Top EXCEPT !.l = Len(nodes) + 1]
  <2>. SUFFICES ASSUME ProgramNext PROVE Orderly
    OBVIOUS
  <2>1. /\ At("program_next")
        /\ \/ Return(Top.l, pos) /\ Quiet
           \/ NewNode(nodes, "{", Top.l, ret) /\ Goto(f, Frame("func_decl"), pos)
    BY DEF ProgramNext
  <2>2. f.l = Len(nodes) + 1 /\ f.r = Top.r /\ f.at = "program_next"
    BY <2>1, TopRecord DEF At
  <2>. HIDE DEF f
  <2>3. Entry(Frame("func_decl")) /\ "{" \notin Marked
    BY Entries, NotNames DEF KeyLabels, FuncLabels, Separators
  <2>. QED
    BY <2>1, <2>2, <2>3, JoinOrderly, ReturnOrderly DEF PlainLabel, KeyLabels, FuncLabels
<1>5. GetFuncDecl => Orderly
  BY <1>0, LeadsOrderly DEF GetFuncDecl
<1>6. GetParameterList => Orderly
  BY <1>0, CallOrderly DEF GetParameterList
<1>. QED
  BY <1>1, <1>2, <1>3, <1>4, <1>5, <1>6

(* ... of the statements, ... *)
LEMMA StatementsOrderly ==
    ASSUME TypeOK, SingleOwner,
           \/ GetBlock \/ BlockFirst \/ GetStatement \/ StatementNext
           \/ GetIf \/ IfCondition \/ IfBody \/ GetElse \/ ElseBody
           \/ GetWhile \/ WhileCondition \/ WhileBody \/ GetReturn \/ ReturnExpr
           \/ GetAssignment \/ AssignmentLeft \/ (InName /\ ~Abort)
           \/ GetIn \/ GetOut \/ OutExpr \/ GetRamset \/ RamsetAddr \/ RamsetValue
    PROVE  Orderly
<1>1. /\ \A at \in {"block", "block_first", "statement", "statement_next", "if",
                    "if_condition", "if_body", "if_else", "else", "else_body", "while",
                    "while_condition", "while_body", "return", "return_expr", "assignment",
                    "assignment_left", "in", "in_name", "out", "out_expr", "ramset",
                    "ramset_addr", "ramset_value"} : PlainLabel(at)
      /\ {"block_first", "statement_next", "if_condition", "if_body", "if_else",
          "else_body", "while_condition", "while_body", "return_expr", "assignment_left",
          "assignment_right", "in_name", "out_expr", "ramset_addr", "ramset_value"}
            \cap KeyLabels = {}
  BY DEF PlainLabel, KeyLabels, FuncLabels
<1>2. /\ Entry(Expr) /\ Entry(Identifier) /\ Entry(Block) /\ Entry(Sentence)
      /\ Entry(Frame("else")) /\ \A k \in 1..8 : Entry(Alternatives[k])
      /\ Len(Alternatives) = 8
  BY Entries DEF KeyLabels, FuncLabels, Alternatives
<1>3. {";", "if", "else", "while", "return", "in", "out", "ramset"} \cap Marked = {}
  BY NotNames DEF Keywords, Separators
<1>4. GetBlock \/ GetIf \/ GetElse \/ GetWhile \/ GetReturn \/ GetIn \/ GetOut \/ GetRamset
        => Orderly
  BY <1>1, <1>2, LeadsOrderly
     DEF GetBlock, GetIf, GetElse, GetWhile, GetReturn, GetIn, GetOut, GetRamset
<1>5. IfCondition \/ WhileCondition => Orderly
  BY <1>1, <1>2, ThenOrderly DEF IfCondition, WhileCondition
<1>6. ReturnExpr \/ OutExpr => Orderly
  BY <1>1, <1>3, YieldsOrderly DEF ReturnExpr, OutExpr
<1>7. ElseBody \/ WhileBody \/ RamsetValue => Orderly
  BY <1>1, <1>3, FailOrderly, NodeOrderly
     DEF ElseBody, WhileBody, RamsetValue, Fail, PlainLabel
<1>8. InName /\ ~Abort => Orderly
  BY <1>1, <1>3, NodeOrderly DEF InName, PlainLabel
<1>9. GetAssignment => Orderly
  BY <1>1, <1>2, CallOrderly DEF GetAssignment
<1>10. AssignmentLeft => Orderly
  BY <1>1, <1>2, CallOrderly, FailOrderly, ReturnOrderly
     DEF AssignmentLeft, Fail, PlainLabel
<1>11. RamsetAddr => Orderly
  BY <1>1, <1>2, CallOrderly, FailOrderly DEF RamsetAddr, Fail, PlainLabel
<1>12. BlockFirst => Orderly
  <2>. SUFFICES ASSUME BlockFirst PROVE Orderly
    OBVIOUS
  <2>1. /\ At("block_first") /\ Quiet
        /\ \E p : \/ Return(NULL, p) \/ Return(ret, p)
                  \/ ret # NULL /\ Goto(BlockNode(ret, ret), Sentence, p)
    BY BlockLoopCases DEF BlockFirst
  <2>2. /\ BlockNode(ret, ret).at = "block_next"
        /\ BlockNode(ret, ret).l = ret /\ BlockNode(ret, ret).r = ret
    BY <2>1, TopRecord DEF BlockNode
  <2>3. CASE ret # NULL /\ \E p : Goto(BlockNode(ret, ret), Sentence, p)
    BY <1>1, <1>2, <2>1, <2>2, <2>3, OrderlyGoto DEF FuncLabels
  <2>. QED
    BY <1>1, <2>1, <2>3, ReturnOrderly
<1>13. GetStatement => Orderly
  <2>. SUFFICES ASSUME GetStatement PROVE Orderly
    OBVIOUS
  <2>. DEFINE f == [Top EXCEPT !.at = "statement_next", !.n = 1]
  <2>1. At("statement") /\ Goto(f, Alternatives[1], pos) /\ Quiet
    BY DEF GetStatement
  <2>2. f.l = Top.l /\ f.r = Top.r /\ f.at = "statement_next"
    BY <2>1, TopRecord
  <2>. HIDE DEF f
  <2>. QED
    BY <1>1, <1>2, <2>1, <2>2, SameOrderly
<1>14. StatementNext => Orderly
  <2>. SUFFICES ASSUME StatementNext PROVE Orderly
    OBVIOUS
  <2>. DEFINE f == [Top EXCEPT !.n = @ + 1]
  <2>1. /\ At("statement_next")
        /\ \/ Goto(f, Alternatives[Top.n + 1], pos) /\ Quiet /\ Top.n < Len(Alternatives)
           \/ \E p : ReturnNode(";", ret, NULL, p)
           \/ Fail
    BY DEF StatementNext
  <2>2. f.l = Top.l /\ f.r = Top.r /\ f.at = "statement_next" /\ Top.n \in 1..8
    <3>1. Top.at = "statement_next" /\ Top.n \in 1..8
      BY <2>1, AtFacts DEF Frames, FrameOK
    <3>. QED
      BY <2>1, <3>1, TopRecord
  <2>. HIDE DEF f
  <2>3. CASE Goto(f, Alternatives[Top.n + 1], pos) /\ Quiet /\ Top.n < Len(Alternatives)
    <3>1. Top.n + 1 \in 1..8
      BY <1>2, <2>2, <2>3
    <3>. QED
      BY <1>1, <1>2, <2>1, <2>2, <2>3, <3>1, SameOrderly
  <2>. QED
    BY <1>1, <1>3, <2>1, <2>3, NodeOrderly, FailOrderly DEF Fail, PlainLabel
<1>15. IfBody => Orderly
  <2>. SUFFICES ASSUME IfBody PROVE Orderly
    OBVIOUS
  <2>. DEFINE f == [Top EXCEPT !.at = "if_else", !.r = ret]
  <2>1. At("if_body") /\ Goto(f, Frame("else"), pos) /\ Quiet
    BY DEF IfBody
  <2>2. f.l = Top.l /\ f.r = ret /\ f.at = "if_else"
    BY <2>1, TopRecord
  <2>. HIDE DEF f
  <2>. QED
    BY <1>1, <1>2, <2>1, <2>2, OrderlyGoto DEF KeyLabels
<1>. QED
  BY <1>4, <1>5, <1>6, <1>7, <1>8, <1>9, <1>10, <1>11, <1>12, <1>13, <1>14, <1>15

(* A function whose last act is a call. *)
LEMMA TailOrderly ==
    ASSUME TypeOK, SingleOwner, NEW label, At(label), PlainLabel(label),
           NEW c, Entry(c), c.at # "identifier",
           stack' = Callers \o <<c>>, UNCHANGED ret, Quiet
    PROVE  Orderly
<1>. DEFINE n == Len(stack)
            given == <<NULL, NULL, NULL, NULL, NULL, NULL, ret>>
<1>1. stack \in Seq(Frames(Len(nodes))) /\ stack # << >> /\ n \in Nat \ {0}
  BY TopProperties DEF TypeOK, StackOK, At, Running
<1>2. /\ Callers \in Seq(Frames(Len(nodes))) /\ Len(Callers) = n - 1
      /\ \A i \in 1 .. n - 1 : Callers[i] = stack[i]
  BY <1>1, PopProperties DEF Callers, Popped
<1>3. Len(stack') = n /\ stack'[n] = c /\ \A i \in 1 .. n - 1 : stack'[i] = stack[i]
  BY <1>1, <1>2
<1>4. StackHanded(given) /\ FramesTame /\ Chained(given, 0)
  <2>1. \A i \in 1..Len(stack') : (i \in 1 .. n - 1 /\ i < n) \/ i = n
    BY <1>1, <1>3
  <2>2. given[5] = NULL /\ given[6] = NULL /\ given[7] = ret
    OBVIOUS
  <2>3. /\ c.l = NULL /\ c.r = NULL
        /\ c.at \notin FuncLabels /\ c.at # "block_next" /\ c.at # "identifier"
    BY DEF Entry, KeyLabels
  <2>. HIDE DEF n, given
  <2>4. StackHanded(given)
    BY <1>3, <2>1, <2>2, <2>3 DEF StackHanded, n
  <2>5. FramesTame /\ Chained(given, 0)
    BY <1>3, <2>1, <2>3 DEF FramesTame, Chained, n
  <2>. QED
    BY <2>4, <2>5
<1>5. Fair(given) /\ Placed(given, 0, 0)
  BY FreshApart DEF Fair, Pool, Placed
<1>6. NodesHanded(given, 0, 0) /\ IdsKept
  BY ReboundNodes, SameHands DEF Quiet, heap
<1>. HIDE DEF given
<1>. QED
  BY <1>4, <1>5, <1>6 DEF Orderly, Passing, Grafted, Tame, Hands, Quiet, heap, At, PlainLabel

(* ... and of the expressions. *)
LEMMA ExpressionsOrderly ==
    ASSUME TypeOK, SingleOwner,
           \/ GetOperator \/ OperatorFirst \/ OperatorNext \/ GetSqrt \/ SqrtOperand
           \/ GetPrimary \/ PrimaryParen \/ PrimaryCall \/ PrimaryNum
           \/ GetFuncCall \/ FuncCallName \/ FuncCallArgs \/ GetNumericLiteral
    PROVE  Orderly
<1>1. /\ \A at \in {"operator", "operator_first", "operator_next", "sqrt", "sqrt_operand",
                    "primary", "primary_paren", "primary_call", "primary_num", "func_call",
                    "func_call_name", "func_call_args", "numeric_literal"} : PlainLabel(at)
      /\ {"operator_first", "operator_next", "sqrt", "sqrt_operand", "primary",
          "primary_paren", "primary_call", "primary_num", "primary_id", "func_call",
          "func_call_name", "func_call_args", "numeric_literal", "identifier"}
            \cap KeyLabels = {}
  BY DEF PlainLabel, KeyLabels, FuncLabels
<1>2. /\ \A k : Entry(Operand(k))
      /\ Entry(Expr) /\ Entry(ArgumentList) /\ Entry(Identifier)
      /\ Entry(Frame("sqrt")) /\ Entry(Frame("primary")) /\ Entry(Frame("func_call"))
      /\ Frame("primary").at # "identifier"
  BY <1>1, Entries DEF KeyLabels, FuncLabels, Frame
<1>3. GetOperator => Orderly
  BY <1>1, <1>2, CallOrderly DEF GetOperator, Call
<1>4. OperatorFirst => Orderly
  <2>. SUFFICES ASSUME OperatorFirst PROVE Orderly
    OBVIOUS
  <2>1. /\ At("operator_first") /\ Quiet
        /\ \/ Goto(OperatorSeen(ret), Operand(Top.n), pos + 1)
           \/ Return(ret, pos)
    BY DEF OperatorFirst, OperatorLoop, OperatorSeen
  <2>2. /\ OperatorSeen(ret).l = ret /\ OperatorSeen(ret).r = Top.r
        /\ OperatorSeen(ret).at = "operator_next"
    BY <2>1, TopRecord DEF OperatorSeen
  <2>. QED
    BY <1>1, <1>2, <2>1, <2>2, KeepsOrderly, ReturnOrderly
<1>5. OperatorNext => Orderly
  <2>. SUFFICES ASSUME OperatorNext PROVE Orderly
    OBVIOUS
  <2>. DEFINE f == OperatorSeen(Len(nodes) + 1)
  <2>1. /\ At("operator_next") /\ NewNode(nodes, Top.tok, Top.l, ret)
        /\ \/ Goto(f, Operand(Top.n), pos + 1)
           \/ Return(Len(nodes) + 1, pos)
    BY DEF OperatorNext, OperatorLoop, OperatorSeen
  <2>2. f.l = Len(nodes) + 1 /\ f.r = Top.r /\ f.at = "operator_next"
    BY <2>1, TopRecord DEF OperatorSeen
  <2>3. Top.tok \notin Marked
    <3>1. Top.n \in 0..7 /\ Top.tok \in Levels[Top.n]
      BY <2>1, AtFacts DEF Frames, FrameOK
    <3>. QED
      BY <3>1, NotNames
  <2>. HIDE DEF f
  <2>. QED
    BY <1>1, <1>2, <2>1, <2>2, <2>3, JoinOrderly
<1>6. GetSqrt => Orderly
  <2>. SUFFICES ASSUME GetSqrt PROVE Orderly
    OBVIOUS
  <2>1. /\ At("sqrt") /\ Quiet
        /\ \/ Call("sqrt_operand", Frame("sqrt"), pos + 1)
           \/ stack' = Callers \o <<Frame("primary")>> /\ UNCHANGED ret
    BY DEF GetSqrt
  <2>2. CASE stack' = Callers \o <<Frame("primary")>> /\ UNCHANGED ret
    BY <1>1, <1>2, <2>1, <2>2, TailOrderly
  <2>. QED
    BY <1>1, <1>2, <2>1, <2>2, CallOrderly
<1>7. SqrtOperand => Orderly
  BY <1>1, NotNames, NodeOrderly DEF SqrtOperand, PlainLabel
<1>8. GetPrimary => Orderly
  BY <1>1, <1>2, CallOrderly DEF GetPrimary
<1>9. PrimaryParen => Orderly
  BY <1>1, ReturnOrderly DEF PrimaryParen
<1>10. PrimaryCall \/ PrimaryNum => Orderly
  BY <1>1, PrimaryTryOrderly DEF PrimaryCall, PrimaryNum
<1>11. GetFuncCall => Orderly
  <2>. SUFFICES ASSUME GetFuncCall PROVE Orderly
    OBVIOUS
  <2>. DEFINE f == [Top EXCEPT !.at = "func_call_name", !.n = pos]
  <2>1. At("func_call") /\ Goto(f, Identifier, pos) /\ Quiet
    BY DEF GetFuncCall
  <2>2. f.l = Top.l /\ f.r = Top.r /\ f.at = "func_call_name"
    BY <2>1, TopRecord
  <2>. HIDE DEF f
  <2>. QED
    BY <1>1, <1>2, <2>1, <2>2, SameOrderly
<1>12. FuncCallName => Orderly
  <2>. SUFFICES ASSUME FuncCallName PROVE Orderly
    OBVIOUS
  <2>1. At("func_call_name")
    BY DEF FuncCallName
  <2>2. CASE PutBack
    BY <1>1, <2>1, <2>2, ReturnPasses, ReboundNodes DEF PutBack, Return, PlainLabel
  <2>. QED
    BY <1>1, <1>2, <2>1, <2>2, FuncCallNameCases, FailOrderly, CallOrderly DEF PlainLabel
<1>13. FuncCallArgs => Orderly
  BY <1>1, FailOrderly, NodeOrderly DEF FuncCallArgs, Fail, PlainLabel
<1>14. GetNumericLiteral => Orderly
  BY <1>1, NotNames, ReturnOrderly, NodeOrderly DEF GetNumericLiteral, PlainLabel
<1>. QED
  BY <1>3, <1>4, <1>5, <1>6, <1>7, <1>8, <1>9, <1>10, <1>11, <1>12, <1>13, <1>14

-----------------------------------------------------------------------------
(* The steps that set a pointer in a node that exists. *)

HungLeft(v, x) == [nodes EXCEPT ![v].left = x]

(* A node whose left child is set. *)
LEMMA LeftSet ==
    ASSUME TypeOK, NEW v \in 1..Len(nodes), NEW x \in Refs, NEW ns,
           ns = HungLeft(v, x)
    PROVE  /\ ns \in Seq(Nodes(Len(nodes))) /\ Len(ns) = Len(nodes)
           /\ \A q \in 1..Len(nodes) :
                 /\ ns[q].left = IF q = v THEN x ELSE nodes[q].left
                 /\ ns[q].right = nodes[q].right /\ ns[q].tok = nodes[q].tok
                 /\ ns[q].scope = nodes[q].scope /\ ns[q].inner = nodes[q].inner
<1>. DEFINE node == [nodes[v] EXCEPT !.left = x]
<1>1. nodes \in Seq(Nodes(Len(nodes))) /\ nodes[v] \in Nodes(Len(nodes))
  BY ElementOfSeq DEF TypeOK, HeapOK
<1>2. /\ node.left = x /\ node.right = nodes[v].right /\ node.tok = nodes[v].tok
      /\ node.scope = nodes[v].scope /\ node.inner = nodes[v].inner
  BY <1>1 DEF Nodes
<1>3. ns = [nodes EXCEPT ![v] = node]
  BY DEF HungLeft
<1>4. ns \in Seq(Nodes(Len(nodes))) /\ Len(ns) = Len(nodes)
  <2>1. v \in Refs
    BY DEF TypeOK, HeapOK, Refs
  <2>. QED
    BY <2>1, PointerSet DEF HungLeft
<1>. HIDE DEF node
<1>5. \A q \in 1..Len(nodes) : ns[q] = IF q = v THEN node ELSE nodes[q]
  BY <1>1, <1>3
<1>. QED
  BY <1>2, <1>4, <1>5

(* The if-body is hung on the ELSE node. *)
LEMMA IfElseOrderly == ASSUME TypeOK, SingleOwner, IfElse PROVE Orderly
<1>1. At("if_else") /\ PlainLabel("if_else") /\ "if" \notin Marked
  BY NotNames DEF IfElse, PlainLabel, Keywords
<1>2. CASE ReturnNode("if", Top.l, Top.r, pos)
  BY <1>1, <1>2, NodeOrderly
<1>3. CASE /\ ret # NULL
           /\ NewNode([nodes EXCEPT ![ret].left = Top.r], "if", Top.l, ret)
           /\ Return(Len(nodes) + 1, pos)
  <2>. DEFINE given == <<Top.r, NULL, Top.l, ret, NULL, NULL, Fresh>>
  <2>1. /\ ret \in 1..Len(nodes) /\ Top.r \in Refs /\ Len(nodes) \in Nat
    BY <1>1, <1>3, AtFacts, NodeAt, TopRecord DEF Refs
  <2>2. PICK ns : /\ ns = HungLeft(ret, Top.r)
                  /\ nodes' = Append(ns, Node("if", Top.l, ret)) /\ UNCHANGED freed
    BY <1>3 DEF NewNode, HungLeft
  <2>3. /\ ns \in Seq(Nodes(Len(nodes))) /\ Len(ns) = Len(nodes)
        /\ \A q \in 1..Len(nodes) :
              /\ ns[q].left = IF q = ret THEN Top.r ELSE nodes[q].left
              /\ ns[q].right = nodes[q].right /\ ns[q].tok = nodes[q].tok
              /\ ns[q].scope = nodes[q].scope /\ ns[q].inner = nodes[q].inner
    BY <2>1, <2>2, LeftSet
  <2>4. /\ Len(nodes') = Fresh /\ nodes'[Fresh] = Node("if", Top.l, ret)
        /\ \A q \in 1..Len(nodes) : nodes'[q] = ns[q]
    BY <2>1, <2>2, <2>3, AppendProperties DEF Fresh
  <2>5. \A q \in 1..Len(nodes') : q \in 1..Len(nodes) \/ q = Fresh
    BY <2>1, <2>4 DEF Fresh
  <2>6. NodesHanded(given, ret, 0) /\ IdsKept
    BY <1>1, <2>1, <2>3, <2>4, <2>5, NodeFields, SMTT(30)
       DEF NodesHanded, IdsKept, Nameless, Marked
  <2>7. Fair(given)
    <3>1. {Top.l, Top.r, ret, Fresh} \subseteq Pool
      BY <1>1, PoolApart DEF Pool
    <3>2. /\ Top.l = ret => ret = NULL
          /\ Top.r = ret => ret = NULL
          /\ Top.l = Top.r => Top.r = NULL
          /\ Fresh \notin {Top.l, Top.r, ret}
      BY <1>1, PoolApart
    <3>. QED
      BY <3>1, <3>2 DEF Fair
  <2>8. /\ given[7] = Fresh /\ stack' = Callers /\ ret' = Fresh
        /\ Placed(given, ret, 0)
    <3>1. ret # NULL /\ Top.r # ret
      BY <1>1, <1>3, PoolApart
    <3>2. Fresh \notin {NULL, Top.l, Top.r, ret}
      BY <1>1, FreshApart
    <3>3. Takers = {ret}
      BY <1>1 DEF Takers, At
    <3>. QED
      BY <1>3, <3>1, <3>2, <3>3 DEF Return, Fresh, Placed
  <2>. HIDE DEF given
  <2>9. StackHanded(given) /\ FramesTame /\ Grafted(given, ret, 0)
    BY <1>1, <2>8, ReturnHands DEF Grafted
  <2>. QED
    BY <1>1, <2>2, <2>6, <2>7, <2>9 DEF Orderly, Passing, Tame, Hands, At, PlainLabel
<1>. QED
  BY <1>2, <1>3 DEF IfElse

(* A statement is hung on the one before it. *)
LEMMA BlockNextOrderly == ASSUME TypeOK, SingleOwner, BlockNext PROVE Orderly
<1>1. At("block_next")
  BY DEF BlockNext
<1>2. CASE Fail
  BY <1>1, <1>2, FailOrderly DEF Fail
<1>3. CASE /\ nodes' = [nodes EXCEPT ![Top.r].right = ret]
           /\ BlockLoop(Top.l, ret)
           /\ UNCHANGED freed /\ ret # NULL
  <2>. DEFINE calls == <<NULL, ret, NULL, NULL, Top.l, NULL, NULL>>
              returns == <<NULL, ret, NULL, NULL, NULL, NULL, Top.l>>
              f == BlockNode(Top.l, ret)
  <2>1. /\ ret \in Refs /\ Top.r \in Refs
        /\ nodes \in Seq(Nodes(Len(nodes))) /\ Len(nodes) \in Nat
        /\ \A q \in 1..Len(nodes) : nodes[q] \in Nodes(Len(nodes))
    BY <1>1, AtFacts, TopRecord, ElementOfSeq DEF Refs, TypeOK, HeapOK
  <2>2. Len(nodes') = Len(nodes)
    BY <1>3, <2>1
  <2>3. \A q \in 1..Len(nodes) :
            /\ nodes'[q].right = IF q = Top.r THEN ret ELSE nodes[q].right
            /\ nodes'[q].left = nodes[q].left /\ nodes'[q].tok = nodes[q].tok
            /\ nodes'[q].scope = nodes[q].scope /\ nodes'[q].inner = nodes[q].inner
    BY <1>3, <2>1 DEF Nodes
  <2>4. NodesHanded(calls, 0, Top.r) /\ NodesHanded(returns, 0, Top.r) /\ IdsKept
    BY <2>1, <2>2, <2>3 DEF NodesHanded, IdsKept
  <2>5. Fair(calls) /\ Fair(returns)
    <3>1. {Top.l, ret} \subseteq Pool /\ (Top.l = ret => ret = NULL)
      BY <1>1, PoolApart DEF Pool
    <3>. QED
      BY <3>1 DEF Fair
  <2>6. f.at = "block_next" /\ f.l = Top.l /\ f.r = ret
    BY <1>1, TopRecord DEF BlockNode
  <2>7. /\ calls[5] = Top.l /\ calls[7] = NULL /\ returns[7] = Top.l
        /\ Entry(Sentence) /\ "block_next" \notin FuncLabels
    BY Entries DEF FuncLabels
  <2>8. Return(Top.l, pos + 1) \/ Goto(f, Sentence, pos)
    BY <1>3, BlockLoopCases
  <2>11. Placed(calls, 0, Top.r) /\ Placed(returns, 0, Top.r) /\ calls[2] = ret
    BY <1>1, FreshApart DEF Placed, At
  <2>. HIDE DEF f, calls, returns
  <2>9. CASE Return(Top.l, pos + 1)
    <3>1. StackHanded(returns) /\ FramesTame /\ Grafted(returns, 0, Top.r)
      BY <1>1, <2>7, <2>9, <2>11, ReturnHands DEF Return, Grafted
    <3>. QED
      BY <1>1, <1>3, <2>4, <2>5, <3>1 DEF Orderly, Passing, Tame, Hands, At
  <2>10. CASE Goto(f, Sentence, pos)
    <3>1. BlockFrame(f, calls, Top.r)
      BY <1>1, <1>3, <2>6, <2>11 DEF BlockFrame, At
    <3>2. Chained(calls, Top.r) /\ StackHanded(calls) /\ FramesTame
      BY <1>1, <2>6, <2>7, <2>10, <3>1, GotoHands DEF Entry, KeyLabels
    <3>3. Grafted(calls, 0, Top.r)
      BY <2>11, <3>2 DEF Grafted
    <3>. QED
      BY <1>1, <1>3, <2>4, <2>5, <3>2, <3>3 DEF Orderly, Passing, Tame, Hands, At
  <2>. QED
    BY <2>8, <2>9, <2>10
<1>. QED
  BY <1>2, <1>3 DEF BlockNext

(* The last steps of a run. *)
LEMMA LastOrderly == ASSUME TypeOK, SingleOwner, Accept \/ Reject PROVE Orderly
<1>1. At("general_end") /\ stack' = Callers /\ ret' = NULL
  BY DEF Accept, Reject
<1>2. CASE Reject
  <2>1. UNCHANGED nodes /\ status' \notin {"running", "accepted"}
    BY <1>2 DEF Reject
  <2>. QED
    BY <1>1, <2>1, ReturnPasses, ReboundNodes
<1>3. CASE Accept
  <2>. DEFINE given == <<NULL, NULL, ret, NULL, NULL, NULL, NULL>>
  <2>1. nodes' = Append(nodes, Node("FAKE", ret, NULL)) /\ UNCHANGED freed
    BY <1>3 DEF Accept
  <2>2. Fair(given)
    BY DEF Fair, Pool
  <2>3. given[3] = ret /\ given[4] = NULL /\ given[7] = NULL /\ Placed(given, 0, 0)
    BY <1>1, FreshApart DEF Placed
  <2>. HIDE DEF given
  <2>4. /\ NodesHanded(given, 0, 0) /\ IdsKept /\ StackHanded(given) /\ FramesTame
        /\ Chained(given, 0)
    BY <1>1, <2>1, <2>3, AppendHands, ReturnHands, NodeFields, ReboundNodes, NotNames
       DEF Nameless, Marked
  <2>. QED
    BY <1>1, <2>1, <2>2, <2>3, <2>4 DEF Orderly, Passing, Grafted, Tame, Hands, At
<1>. QED
  BY <1>2, <1>3

-----------------------------------------------------------------------------
(* The identifiers. *)

(* The ids of node v are ids of its name. *)
Resolved(v) ==
    /\ nodes[v].scope + 1 \in 1..Len(envs)
    /\ nodes[v].inner + 1 \in 1..Len(envs[nodes[v].scope + 1])
    /\ SymbolAt(envs[nodes[v].scope + 1], nodes[v].inner).str = nodes[v].tok

(* get_func_decl_ waits with the environment it made for its name. *)
Headed ==
    \A i \in 1..Len(stack) : stack[i].at \in FuncLabels => Heads(stack[i], envs, nodes)

(* Before there is an environment, the only identifier is the name of the   *)
(* first function, on its way to get_func_decl_, with both ids still 0.    *)
Unborn ==
    envs = << >> => \A v \in 1..Len(nodes) : nodes[v].tok \in Names =>
        /\ stack # << >> /\ Top.at = "func_decl_name" /\ v = ret
        /\ nodes[v].scope = 0 /\ nodes[v].inner = 0

(* The descent does not begin with get_identifier_. *)
Bottom == stack # << >> => stack[1].at # "identifier"

NamesInv == IdentifiersResolve /\ Headed /\ Unborn /\ Bottom

(* The ids of node v are those of its name as a variable. *)
EnteredThere(v) ==
    SymbolAt(envs[nodes[v].scope + 1], nodes[v].inner) = Variable(nodes[v].tok)

(* Where identifiers are bound, and one is made. *)
Binders == {"parameter_list_first", "parameter_list_next", "assignment_right",
            "primary_id", "identifier"}

(* An identifier is bound in the current environment; the name of a         *)
(* function to the first symbol of the environment made for it.            *)
Rightly(v) ==
    \/ /\ Top.at \in Binders
       /\ IF v \in 1..Len(nodes) THEN v \in {Top.l, ret} ELSE Top.at = "identifier"
       /\ nodes'[v].scope = current_env_id /\ EnteredThere(v)'
    \/ /\ Top.at = "func_decl_body" /\ v = Top.l
       /\ nodes'[v].scope = Top.n /\ nodes'[v].inner = 0

(* A step keeps the names of the nodes; a node keeps its ids too, or it is  *)
(* no identifier, or it gets ids of its name.                              *)
NamesStep ==
    /\ \A v \in 1..Len(nodes) : nodes'[v].tok = nodes[v].tok
    /\ \A v \in 1..Len(nodes') :
          \/ v \in 1..Len(nodes) /\ nodes'[v].scope = nodes[v].scope
                                 /\ nodes'[v].inner = nodes[v].inner
          \/ v \notin 1..Len(nodes) /\ Nameless(nodes'[v])
          \/ Resolved(v)' /\ Rightly(v)

(* An orderly step names nothing. *)
LEMMA TameNames ==
    ASSUME Tame
    PROVE  NamesStep /\ FramesStep
BY DEF Tame, IdsKept, FramesTame, NamesStep, FramesStep

(* The first activation stays what it is. *)
LEMMA BottomStays ==
    ASSUME IInv, IInv', Bottom, FramesStep
    PROVE  Bottom'
<1>1. SUFFICES ASSUME stack' # << >> PROVE stack'[1].at # "identifier"
  BY DEF Bottom
<1>2. Len(stack') \in Nat \ {0} /\ Len(stack) \in Nat
  BY <1>1, EmptySeq DEF IInv, TypeOK, StackOK
<1>3. CASE Len(stack') = 1
  <2>1. CASE 1 < Len(stack) /\ stack'[1] = stack[1]
    <3>1. 1 \in 1 .. Len(stack) - 1
      BY <1>2, <2>1
    <3>. QED
      BY <2>1, <3>1 DEF IInv, Nested
  <2>. QED
    BY <1>3, <2>1 DEF FramesStep
<1>4. CASE Len(stack') # 1
  <2>1. 1 \in 1 .. Len(stack') - 1
    BY <1>2, <1>4
  <2>. QED
    BY <2>1 DEF IInv, Nested
<1>. QED
  BY <1>3, <1>4

(* Ids stay ids of the same symbol while the tables grow. *)
LEMMA ResolvedStays ==
    ASSUME TypeOK, EnvsGrow, NEW v \in 1..Len(nodes), Resolved(v),
           nodes'[v].tok = nodes[v].tok, nodes'[v].scope = nodes[v].scope,
           nodes'[v].inner = nodes[v].inner
    PROVE  Resolved(v)' /\ (EnteredThere(v) => EnteredThere(v)')
<1>. DEFINE e == nodes[v].scope + 1
            k == nodes[v].inner + 1
<1>1. /\ envs \in Seq(Seq(Symbols)) /\ e \in 1..Len(envs) /\ k \in 1..Len(envs[e])
      /\ envs[e][k].str = nodes[v].tok
  BY DEF Resolved, SymbolAt, TypeOK, TablesOK
<1>2. Len(envs) \in Nat /\ Len(envs[e]) \in Nat
  BY <1>1, ElementOfSeq
<1>3. /\ Len(envs) <= Len(envs') /\ Len(envs[e]) <= Len(envs'[e])
      /\ \A i \in 1..Len(envs[e]) : envs'[e][i] = envs[e][i]
  BY <1>1 DEF EnvsGrow, Extends
<1>. HIDE DEF e, k
<1>4. e \in 1..Len(envs') /\ k \in 1..Len(envs'[e]) /\ envs'[e][k] = envs[e][k]
  BY ONLY <1>1, <1>2, <1>3
<1>. QED
  BY <1>1, <1>4 DEF Resolved, EnteredThere, SymbolAt, e, k

(* So does an environment keep its head. *)
LEMMA HeadsStay ==
    ASSUME TypeOK, EnvsGrow, NEW f \in Frames(Len(nodes)), f.at \in FuncLabels,
           Heads(f, envs, nodes),
           \A v \in 1..Len(nodes) : nodes'[v].tok = nodes[v].tok
    PROVE  Heads(f, envs', nodes')
<1>. DEFINE e == f.n + 1
<1>1. /\ envs \in Seq(Seq(Symbols)) /\ e \in 1..Len(envs) /\ envs[e] # << >>
      /\ envs[e][1] = Function(nodes[f.l].tok)
  BY DEF Heads, TypeOK, TablesOK
<1>2. envs[e] \in Seq(Symbols) /\ Len(envs[e]) \in Nat \ {0} /\ 1 \in 1..Len(envs[e])
  <2>1. envs[e] \in Seq(Symbols)
    BY <1>1, ElementOfSeq
  <2>2. Len(envs[e]) \in Nat \ {0}
    BY <1>1, <2>1, EmptySeq
  <2>. QED
    BY <2>1, <2>2
<1>3. f.l \in 1..Len(nodes)
  BY NodeAt DEF Frames, FrameOK, FuncLabels, Refs
<1>4. /\ Len(envs) <= Len(envs') /\ Len(envs) \in Nat
      /\ Len(envs[e]) <= Len(envs'[e]) /\ envs'[e][1] = envs[e][1]
  BY <1>1, <1>2 DEF EnvsGrow, Extends
<1>5. e \in 1..Len(envs') /\ envs'[e] # << >>
  BY <1>1, <1>2, <1>4
<1>. QED
  BY <1>1, <1>3, <1>4, <1>5 DEF Heads

(* Once there is an environment, a step that names what it names rightly    *)
(* keeps the invariant.                                                    *)
LEMMA LateNames ==
    ASSUME IInv, IInv', NamesInv, EnvsGrow, NamesStep, FramesStep, envs # << >>
    PROVE  NamesInv'
<1>1. /\ envs \in Seq(Seq(Symbols)) /\ envs' \in Seq(Seq(Symbols))
      /\ stack \in Seq(Frames(Len(nodes)))
  BY DEF IInv, TypeOK, TablesOK, StackOK
<1>2. envs' # << >>
  BY <1>1, EmptySeq DEF EnvsGrow
<1>3. IdentifiersResolve'
  <2>1. SUFFICES ASSUME NEW v \in 1..Len(nodes'), nodes'[v].tok \in Names
        PROVE  Resolved(v)'
    BY DEF IdentifiersResolve, Resolved
  <2>2. CASE v \in 1..Len(nodes) /\ nodes'[v].scope = nodes[v].scope
                                 /\ nodes'[v].inner = nodes[v].inner
    <3>1. nodes'[v].tok = nodes[v].tok
      BY <2>2 DEF NamesStep
    <3>2. Resolved(v)
      BY <2>1, <2>2, <3>1 DEF NamesInv, IdentifiersResolve, Resolved
    <3>. QED
      BY <2>2, <3>1, <3>2, ResolvedStays DEF IInv
  <2>. QED
    BY <2>1, <2>2 DEF NamesStep, Nameless
<1>4. Headed'
  <2>1. SUFFICES ASSUME NEW i \in 1..Len(stack'), stack'[i].at \in FuncLabels
        PROVE  Heads(stack'[i], envs', nodes')
    BY DEF Headed
  <2>2. CASE i < Len(stack) /\ stack'[i] = stack[i]
    <3>1. i \in 1..Len(stack) /\ stack[i] \in Frames(Len(nodes))
      BY <1>1, <2>2, ElementOfSeq
    <3>2. Heads(stack[i], envs, nodes)
      BY <2>1, <2>2, <3>1 DEF NamesInv, Headed
    <3>. QED
      BY <2>1, <2>2, <3>1, <3>2, HeadsStay DEF IInv, NamesStep
  <2>. QED
    BY <2>1, <2>2 DEF FramesStep
<1>5. Unborn' /\ Bottom'
  BY <1>2, BottomStays DEF Unborn, NamesInv
<1>. QED
  BY <1>3, <1>4, <1>5 DEF NamesInv

(* Before, an orderly step keeps it. *)
LEMMA EarlyNames ==
    ASSUME IInv, IInv', NamesInv, Tame, envs = << >>
    PROVE  NamesInv'
<1>1. \A v \in 1..Len(nodes) : nodes[v].tok \notin Names
  BY DEF NamesInv, Unborn, Tame, NULL
<1>2. \A v \in 1..Len(nodes') : nodes'[v].tok \notin Names
  BY <1>1 DEF Tame, IdsKept, Nameless
<1>3. \A i \in 1..Len(stack') : stack'[i].at \notin FuncLabels
  <2>1. Len(stack) \in Nat
    BY DEF IInv, TypeOK, StackOK
  <2>. QED
    BY <2>1 DEF Tame, FramesTame, IInv, Early, FuncLabels, EarlyLabels
<1>4. Bottom'
  BY TameNames, BottomStays DEF NamesInv
<1>. QED
  BY <1>2, <1>3, <1>4 DEF NamesInv, IdentifiersResolve, Unborn, Headed

-----------------------------------------------------------------------------
(* The steps that name, make or bind an identifier. *)

(* What add_symbol_to_env answers is an id of the symbol. *)
LEMMA AddedResolves ==
    ASSUME TypeOK, envs # << >>, NEW sym \in Symbols, AddToEnv(sym)
    PROVE  /\ current_env_id + 1 \in 1..Len(envs') /\ current_env_id \in Int
           /\ AddedId(Env, sym) + 1 \in 1..Len(envs'[current_env_id + 1])
           /\ AddedId(Env, sym) \in Int
           /\ SymbolAt(envs'[current_env_id + 1], AddedId(Env, sym)) = sym
<1>. DEFINE e == current_env_id + 1
            id == AddedId(Env, sym)
            env == AddSymbol(Env, sym)
<1>1. e \in 1..Len(envs) /\ current_env_id \in Nat /\ Env \in Seq(Symbols)
  BY EnvProperties
<1>2. /\ env \in Seq(Symbols) /\ id \in 0 .. Len(env) - 1
      /\ SymbolAt(env, id) = sym
  BY <1>1, AddSymbolProperties
<1>3. envs' = [envs EXCEPT ![e] = env]
  BY <1>1 DEF AddToEnv, Env
<1>. HIDE DEF e, env, id
<1>4. Len(envs') = Len(envs) /\ envs'[e] = env
  BY <1>1, <1>3 DEF TypeOK, TablesOK
<1>5. Len(env) \in Nat
  BY <1>2
<1>6. id + 1 \in 1..Len(env) /\ id \in Int
  BY <1>2, <1>5
<1>. QED
  BY <1>1, <1>2, <1>4, <1>6 DEF e, env, id

(* In ns, node v has got the ids and all else is kept. *)
Named(ns, v, e, id) ==
    /\ \A q \in 1..Len(nodes) :
          /\ ns[q].tok = nodes[q].tok
          /\ q # v => ns[q].scope = nodes[q].scope /\ ns[q].inner = nodes[q].inner
    /\ ns[v].scope = e /\ ns[v].inner = id

(* That is what Bind makes of the nodes. *)
LEMMA BoundFields ==
    ASSUME TypeOK, NEW v \in 1..Len(nodes), NEW e \in Int, NEW id \in Int,
           NEW ns, ns = Bind(v, e, id)
    PROVE  Named(ns, v, e, id)
<1>. DEFINE node == [nodes[v] EXCEPT !.scope = e, !.inner = id]
<1>1. nodes \in Seq(Nodes(Len(nodes))) /\ nodes[v] \in Nodes(Len(nodes))
  BY ElementOfSeq DEF TypeOK, HeapOK
<1>2. node.tok = nodes[v].tok /\ node.scope = e /\ node.inner = id
  BY <1>1 DEF Nodes
<1>3. ns = [nodes EXCEPT ![v] = node]
  BY DEF Bind
<1>. HIDE DEF node
<1>4. \A q \in 1..Len(nodes) : ns[q] = IF q = v THEN node ELSE nodes[q]
  BY <1>1, <1>3
<1>. QED
  BY <1>2, <1>4 DEF Named

(* The tree is changed by nothing but binding a node and, perhaps, by a new *)
(* node that is not an identifier.                                         *)
BindsTo(v, e, id) ==
    \/ nodes' = Bind(v, e, id)
    \/ \E node : nodes' = Append(Bind(v, e, id), node) /\ node.tok \notin Marked

(* What a node that joins them is found under. *)
LEMMA Joined ==
    ASSUME NEW T, NEW ns \in Seq(T), Len(ns) = Len(nodes), NEW node, nodes' = Append(ns, node)
    PROVE  /\ Len(nodes') = Len(nodes) + 1 /\ nodes'[Len(nodes) + 1] = node
           /\ \A q \in 1..Len(nodes) : nodes'[q] = ns[q]
           /\ \A q \in 1..Len(nodes') : q \in 1..Len(nodes) \/ q = Len(nodes) + 1
OBVIOUS

(* A node that is bound to an id of its name is named rightly. *)
LEMMA BoundNames ==
    ASSUME TypeOK, NEW v \in 1..Len(nodes), NEW e \in Int, NEW id \in Int, BindsTo(v, e, id),
           e + 1 \in 1..Len(envs'), id + 1 \in 1..Len(envs'[e + 1]),
           SymbolAt(envs'[e + 1], id) = Variable(nodes[v].tok),
           e = current_env_id, v \in {Top.l, ret}, Top.at \in Binders
    PROVE  NamesStep
<1>. DEFINE ns == Bind(v, e, id)
<1>1. Named(ns, v, e, id)
  BY BoundFields, Zenon
<1>2. ns \in Seq(Nodes(Len(nodes))) /\ Len(ns) = Len(nodes)
  BY BindProperties
<1>3. nodes' = ns \/ \E node : nodes' = Append(ns, node) /\ node.tok \notin Marked
  BY DEF BindsTo
<1>. HIDE DEF ns
<1>5. /\ \A q \in 1..Len(nodes) : nodes'[q] = ns[q]
      /\ \A q \in 1..Len(nodes') : q \in 1..Len(nodes) \/ nodes'[q].tok \notin Marked
  <2>1. CASE nodes' = ns
    BY <1>2, <2>1
  <2>2. CASE \E node : nodes' = Append(ns, node) /\ node.tok \notin Marked
    <3>1. PICK node : nodes' = Append(ns, node) /\ node.tok \notin Marked
      BY <2>2
    <3>2. /\ nodes'[Len(nodes) + 1] = node
          /\ \A q \in 1..Len(nodes) : nodes'[q] = ns[q]
          /\ \A q \in 1..Len(nodes') : q \in 1..Len(nodes) \/ q = Len(nodes) + 1
      BY <1>2, <3>1, Joined
    <3>. QED
      BY <3>1, <3>2
  <2>. QED
    BY <1>3, <2>1, <2>2
<1>6. Resolved(v)' /\ Rightly(v)
  BY <1>1, <1>5 DEF Resolved, Named, Rightly, EnteredThere, Variable
<1>7. \A q \in 1..Len(nodes') : q \in 1..Len(nodes) \/ Nameless(nodes'[q])
  BY <1>5 DEF Nameless, Marked
<1>. QED
  BY <1>1, <1>5, <1>6, <1>7 DEF NamesStep, Named

(* Binding to what add_symbol_to_env answers is. *)
LEMMA EnteredNames ==
    ASSUME TypeOK, envs # << >>, NEW v \in 1..Len(nodes), NEW sym,
           sym = Variable(nodes[v].tok), AddToEnv(sym),
           v \in {Top.l, ret}, Top.at \in Binders,
           BindsTo(v, current_env_id, AddedId(Env, sym))
    PROVE  /\ NamesStep
           /\ current_env_id \in Int /\ AddedId(Env, sym) \in Int
<1>1. sym \in Symbols
  BY NodeAt, SymbolOf DEF Refs, NULL, TypeOK, HeapOK
<1>. DEFINE e == current_env_id
            id == AddedId(Env, sym)
<1>2. /\ e + 1 \in 1..Len(envs') /\ e \in Int /\ id + 1 \in 1..Len(envs'[e + 1]) /\ id \in Int
      /\ SymbolAt(envs'[e + 1], id) = Variable(nodes[v].tok)
  BY <1>1, AddedResolves
<1>. HIDE DEF id, e
<1>3. BindsTo(v, e, id) /\ e = current_env_id
  BY DEF e, id
<1>4. NamesStep
  BY <1>2, <1>3, BoundNames
<1>. QED
  BY <1>2, <1>4 DEF e, id
-----------------------------------------------------------------------------
(* The functions that bind. *)

(* What they do when there is an environment. *)
Binding == Passing /\ (Headed => NamesStep /\ FramesStep)

(* A declaration gets its name, perhaps the first one. *)
Declares ==
    /\ Binding /\ NamesStep /\ FramesStep /\ ret # NULL
    /\ Top.at = "func_decl_name" /\ UNCHANGED nodes
    /\ envs' = Append(envs, <<FuncSymbol(ret)>>)

(* The name itself, before there is an environment. *)
NamesFirst ==
    /\ Passing /\ envs = << >> /\ UNCHANGED envs
    /\ Top.at = "identifier" /\ FramesStep /\ stack' = Callers
    /\ ret' = Len(nodes) + 1 /\ nodes' = Append(nodes, Node(Cur, NULL, NULL))

(* Frames that are tame are in step. *)
LEMMA TameFrames == FramesTame => FramesStep
BY DEF FramesTame, FramesStep

(* A parameter is bound, and another one is asked for or not. *)
LEMMA ParameterBinds ==
    ASSUME IInv, SingleOwner, ParameterListFirst \/ (ParameterListNext /\ ~Abort)
    PROVE  Orderly \/ (Binding /\ envs # << >>)
<1>. DEFINE bound == Bind(ret, current_env_id, AddedId(Env, Parameter))
<1>1. PICK label \in ParameterLabels : At(label) /\ (ParameterListFirst \/ ParameterListNext)
  BY DEF ParameterListFirst, ParameterListNext, ParameterLabels
<1>2. /\ TypeOK /\ envs # << >> /\ ret \in Refs /\ PlainLabel(label)
      /\ Entry(Identifier) /\ "parameter_list_next" \notin KeyLabels
      /\ \A list : /\ ParameterNode(list).l = list /\ ParameterNode(list).r = Top.r
                   /\ ParameterNode(list).at = "parameter_list_next"
  <2>1. TypeOK /\ envs # << >> /\ ret \in Refs
    BY <1>1, AtFacts, Late DEF IInv, ParameterLabels, EarlyLabels
  <2>. QED
    BY <1>1, <2>1, Entries, TopRecord
       DEF ParameterLabels, PlainLabel, KeyLabels, FuncLabels, ParameterNode
<1>3. \A list : ParameterListLoop(list) =>
          Return(list, pos) \/ Goto(ParameterNode(list), Identifier, pos + 1)
  BY ParameterListLoopCases
<1>4. ASSUME ret # NULL, AddToEnv(Parameter),
             BindsTo(ret, current_env_id, AddedId(Env, Parameter))
      PROVE  NamesStep /\ Rebound(bound)
  <2>1. ret \in 1..Len(nodes)
    BY <1>2, <1>4, NodeAt
  <2>. DEFINE sym == Parameter
  <2>2. sym = Variable(nodes[ret].tok) /\ AddToEnv(sym)
    BY <1>4 DEF Parameter
  <2>3. BindsTo(ret, current_env_id, AddedId(Env, sym))
    BY <1>4
  <2>. HIDE DEF sym
  <2>4. NamesStep /\ current_env_id \in Int /\ AddedId(Env, sym) \in Int
    <3>1. Top.at \in Binders
      BY <1>1 DEF At, ParameterLabels, Binders
    <3>. QED
      BY <1>2, <2>1, <2>2, <2>3, <3>1, EnteredNames
  <2>5. Rebound(Bind(ret, current_env_id, AddedId(Env, sym)))
    BY <1>2, <2>1, <2>4, ReboundNodes
  <2>. QED
    BY <2>4, <2>5 DEF sym
<1>5. CASE ParameterListLoop(ret) /\ Quiet
  BY <1>1, <1>2, <1>3, <1>5, KeepsOrderly, ReturnOrderly
<1>6. CASE /\ ParameterListLoop(ret) /\ ret # NULL /\ AddToEnv(Parameter)
           /\ nodes' = bound /\ UNCHANGED freed
  <2>1. NamesStep /\ Rebound(nodes')
    BY <1>4, <1>6 DEF BindsTo
  <2>2. CASE Return(ret, pos)
    <3>1. stack' = Callers /\ ret' = ret
      BY <2>2 DEF Return
    <3>. QED
      BY <1>1, <1>2, <1>6, <2>1, <3>1, ReturnPasses, TameFrames DEF Binding
  <2>3. CASE Goto(ParameterNode(ret), Identifier, pos + 1)
    BY <1>1, <1>2, <1>6, <2>1, <2>3, GotoPasses, TameFrames
       DEF Binding, Entry, PlainLabel, KeyLabels
  <2>. QED
    BY <1>3, <1>6, <2>2, <2>3
<1>7. CASE /\ ParameterListLoop(Len(nodes) + 1) /\ ret # NULL /\ AddToEnv(Parameter)
           /\ nodes' = Append(bound, Node(",", Top.l, ret)) /\ UNCHANGED freed
  <2>. DEFINE node == Node(",", Top.l, ret)
              f == ParameterNode(Len(nodes) + 1)
  <2>1. /\ nodes' = Append(bound, node)
        /\ node.tok = "," /\ node.left = Top.l /\ node.right = ret
    <3>1. nodes' = Append(bound, node)
      BY <1>7
    <3>. HIDE DEF bound
    <3>. QED
      BY <3>1 DEF Node
  <2>. HIDE DEF node
  <2>2. "," \notin Marked
    BY NotNames DEF Separators
  <2>3. BindsTo(ret, current_env_id, AddedId(Env, Parameter))
    BY <2>1, <2>2 DEF BindsTo
  <2>4. NamesStep /\ Rebound(bound)
    BY <1>4, <1>7, <2>3
  <2>. HIDE DEF bound
  <2>5. /\ f.l = Len(nodes) + 1 /\ f.r = Top.r /\ {f.at, Identifier.at} \cap KeyLabels = {}
        /\ Identifier.l = NULL /\ Identifier.r = NULL /\ label # "block_next"
    BY <1>1, <1>2 DEF Entry, PlainLabel
  <2>6. Goto(f, Identifier, pos + 1) \/ Return(Len(nodes) + 1, pos)
    BY <1>3, <1>7
  <2>. HIDE DEF f
  <2>7. Passing /\ FramesTame
    <3>1. TypeOK /\ SingleOwner /\ At(label) /\ UNCHANGED freed /\ Rebound(bound)
      BY <1>1, <1>2, <1>7, <2>4
    <3>. QED
      BY <2>1, <2>5, <2>6, <3>1, JoinPasses
  <2>. QED
    BY <1>2, <2>4, <2>7, TameFrames DEF Binding
<1>8. ParameterListFirst =>
        \/ ParameterListLoop(ret) /\ Quiet
        \/ /\ ParameterListLoop(ret) /\ ret # NULL /\ AddToEnv(Parameter)
           /\ nodes' = bound /\ UNCHANGED freed
  BY DEF ParameterListFirst
<1>9. ParameterListNext /\ ~Abort =>
        /\ ParameterListLoop(Len(nodes) + 1) /\ ret # NULL /\ AddToEnv(Parameter)
        /\ nodes' = Append(bound, Node(",", Top.l, ret)) /\ UNCHANGED freed
  BY DEF ParameterListNext
<1>. QED
  BY <1>5, <1>6, <1>7, <1>8, <1>9

(* The left side of an assignment is bound. *)
LEMMA AssignmentBinds ==
    ASSUME IInv, SingleOwner, AssignmentRight
    PROVE  Orderly \/ (Binding /\ envs # << >>)
<1>. DEFINE sym == Variable(nodes[Top.l].tok)
            bound == Bind(Top.l, current_env_id, AddedId(Env, sym))
<1>1. At("assignment_right") /\ TypeOK
  BY DEF AssignmentRight, IInv
<1>2. Top.l \in 1..Len(nodes) /\ envs # << >>
  <2>1. Top.l \in Refs /\ Top.l # NULL /\ envs # << >>
    BY <1>1, AtFacts, Late DEF IInv, Frames, FrameOK, Refs, EarlyLabels
  <2>. QED
    BY <1>1, <2>1, NodeAt
<1>3. CASE Fail
  BY <1>1, <1>3, FailOrderly DEF Fail
<1>4. CASE /\ AddToEnv(sym) /\ nodes' = Append(bound, Node("=", Top.l, ret))
           /\ UNCHANGED freed /\ Return(Len(nodes) + 1, pos)
  <2>1. PICK node : /\ nodes' = Append(bound, node)
                    /\ node.tok = "=" /\ node.left = Top.l /\ node.right = ret
    BY <1>4, NodeFields
  <2>2. "=" \notin Marked
    BY NotNames
  <2>3. BindsTo(Top.l, current_env_id, AddedId(Env, sym))
    BY <2>1, <2>2 DEF BindsTo
  <2>4. sym = Variable(nodes[Top.l].tok)
    OBVIOUS
  <2>. HIDE DEF sym
  <2>5. NamesStep /\ current_env_id \in Int /\ AddedId(Env, sym) \in Int
    <3>1. Top.at \in Binders
      BY <1>1 DEF At, Binders
    <3>. QED
      BY <1>1, <1>2, <1>4, <2>3, <2>4, <3>1, EnteredNames
  <2>6. Rebound(bound)
    BY <1>1, <1>2, <2>5, ReboundNodes
  <2>. HIDE DEF bound
  <2>7. Passing /\ FramesTame
    BY <1>1, <1>4, <2>1, <2>6, NodePasses
  <2>. QED
    BY <1>2, <2>5, <2>7, TameFrames DEF Binding
<1>. QED
  BY <1>3, <1>4 DEF AssignmentRight

(* A name that is read is bound to what find_symbol answers, or freed. *)
LEMMA PrimaryIdBinds ==
    ASSUME IInv, SingleOwner, PrimaryId
    PROVE  Orderly \/ (Binding /\ envs # << >>)
<1>. DEFINE sym == Variable(nodes[ret].tok)
            id == FindSymbol(Env, sym)
<1>1. At("primary_id") /\ TypeOK /\ PlainLabel("primary_id")
  BY DEF PrimaryId, IInv, PlainLabel
<1>2. ret \in Refs /\ envs # << >>
  BY <1>1, AtFacts, Late DEF EarlyLabels
<1>3. CASE Return(NULL, pos) /\ Quiet
  BY <1>1, <1>3, ReturnOrderly
<1>4. CASE ret # NULL /\ Return(NULL, pos) /\ freed' = freed \cup {ret} /\ UNCHANGED nodes
  <2>1. stack' = Callers /\ ret' = NULL
    BY <1>4 DEF Return
  <2>2. freed' \subseteq freed \cup ({ret} \ {NULL}) /\ Rebound(nodes')
    BY <1>1, <1>4, ReboundNodes
  <2>. QED
    BY <1>1, <1>4, <2>1, <2>2, ReturnPasses
<1>5. CASE /\ ret # NULL /\ ~(id < 0) /\ Return(ret, pos)
           /\ nodes' = Bind(ret, current_env_id, id) /\ UNCHANGED <<freed, envs>>
  <2>1. ret \in 1..Len(nodes) /\ sym = Variable(nodes[ret].tok)
    BY <1>1, <1>2, <1>5, NodeAt
  <2>. HIDE DEF sym
  <2>2. /\ current_env_id + 1 \in 1..Len(envs) /\ current_env_id \in Int
        /\ Env \in Seq(Symbols)
    BY <1>1, <1>2, EnvProperties
  <2>3. /\ id \in -1 .. Len(Env) - 1 /\ Len(Env) \in Nat
        /\ id >= 0 => SymbolAt(Env, id) = sym
    BY <2>2, FindSymbolProperties
  <2>. HIDE DEF id
  <2>4. id \in Int /\ id + 1 \in 1..Len(Env) /\ SymbolAt(Env, id) = Variable(nodes[ret].tok)
    BY <1>5, <2>1, <2>3
  <2>5. NamesStep
    <3>1. Top.at \in Binders
      BY <1>1 DEF At, Binders
    <3>. QED
      BY <1>1, <1>5, <2>1, <2>2, <2>4, <3>1, BoundNames DEF BindsTo, Env
  <2>6. Rebound(nodes')
    BY <1>1, <1>5, <2>1, <2>2, <2>4, ReboundNodes
  <2>7. Passing /\ FramesTame
    BY <1>1, <1>5, <2>6, ReturnPasses DEF Return
  <2>. QED
    BY <1>2, <2>5, <2>7, TameFrames DEF Binding
<1>. QED
  BY <1>3, <1>4, <1>5 DEF PrimaryId, tables
(* The environment a declaration makes. *)
LEMMA CreatedEnv ==
    ASSUME NEW sym \in Symbols
    PROVE  AddSymbol(CreateEnv, sym) = <<sym>> /\ AddedId(CreateEnv, sym) = 0
<1>1. CreateEnv \in Seq(Symbols) /\ Len(CreateEnv) = 0
  BY DEF CreateEnv
<1>2. FindSymbol(CreateEnv, sym) = -1
  <2>1. FindSymbol(CreateEnv, sym) \in -1 .. Len(CreateEnv) - 1
    BY <1>1, FindSymbolProperties
  <2>. QED
    BY <1>1, <2>1
<1>3. AddSymbol(CreateEnv, sym) = Append(CreateEnv, sym)
  BY <1>2 DEF AddSymbol
<1>4. Append(CreateEnv, sym) = <<sym>> /\ Len(<<sym>>) = 1
  BY DEF CreateEnv
<1>. QED
  BY <1>2, <1>3, <1>4 DEF AddedId

(* get_func_decl_ has the name and makes the environment. *)
LEMMA DeclNameBinds ==
    ASSUME IInv, SingleOwner, FuncDeclName
    PROVE  Orderly \/ Declares
<1>. DEFINE f == [Top EXCEPT !.at = "func_decl_params", !.l = ret, !.n = AddEnviroment]
<1>1. At("func_decl_name") /\ TypeOK /\ Top.at = "func_decl_name"
  BY DEF FuncDeclName, IInv, At
<1>2. CASE ret = NULL /\ Fail
  BY <1>1, <1>2, FailOrderly DEF Fail
<1>3. CASE /\ ret # NULL /\ envs' = Append(envs, AddSymbol(CreateEnv, FuncSymbol(ret)))
           /\ UNCHANGED heap
           /\ Goto(f, Frame("parameter_list"), pos + 1) \/ Return(NULL, pos)
  <2>1. ret \in 1..Len(nodes) /\ FuncSymbol(ret) \in Symbols
        /\ FuncSymbol(ret) = Function(nodes[ret].tok)
    BY <1>1, <1>3, AtFacts, NodeAt, SymbolOf DEF FuncSymbol
  <2>. DEFINE sym == FuncSymbol(ret)
  <2>2. envs' = Append(envs, <<sym>>) /\ envs \in Seq(Seq(Symbols))
    BY <1>1, <1>3, <2>1, CreatedEnv DEF TypeOK, TablesOK
  <2>3. UNCHANGED <<nodes, freed>> /\ Rebound(nodes') /\ NamesStep
    BY <1>1, <1>3, ReboundNodes DEF heap, NamesStep
  <2>4. CASE Return(NULL, pos)
    <3>1. Passing /\ FramesTame
      BY <1>1, <2>3, <2>4, ReturnPasses DEF Return
    <3>. QED
      BY <1>1, <1>3, <2>2, <2>3, <3>1, TameFrames DEF Binding, Declares
  <2>5. CASE Goto(f, Frame("parameter_list"), pos + 1)
    <3>1. f.l = ret /\ f.r = Top.r /\ f.at = "func_decl_params" /\ f.n = Len(envs)
      BY <1>1, TopRecord DEF AddEnviroment
    <3>2. Entry(Frame("parameter_list"))
      BY Entries DEF KeyLabels, FuncLabels
    <3>3. Heads(f, envs', nodes')
      <4>. HIDE DEF sym, f
      <4>1. /\ Len(envs) + 1 \in 1..Len(envs') /\ envs'[Len(envs) + 1] = <<sym>>
        BY <2>2
      <4>2. <<sym>> # << >> /\ <<sym>>[1] = sym
        OBVIOUS
      <4>. QED
        BY <2>1, <2>3, <3>1, <4>1, <4>2 DEF Heads, sym
    <3>. HIDE DEF f
    <3>4. Passing /\ FramesStep
      BY <1>1, <2>3, <2>5, <3>1, <3>2, <3>3, GotoPasses DEF Entry, KeyLabels
    <3>. QED
      BY <1>1, <1>3, <2>2, <2>3, <3>4 DEF Binding, Declares
  <2>. QED
    BY <1>3, <2>4, <2>5
<1>. QED
  BY <1>2, <1>3 DEF FuncDeclName

(* It has the parameters and asks for the body. *)
LEMMA DeclParamsBinds ==
    ASSUME IInv, SingleOwner, FuncDeclParams
    PROVE  Orderly \/ (Binding /\ envs # << >>)
<1>. DEFINE f == [Top EXCEPT !.at = "func_decl_body", !.r = ret]
<1>1. At("func_decl_params") /\ TypeOK /\ Top.at = "func_decl_params" /\ envs # << >>
  BY Late DEF FuncDeclParams, IInv, At, EarlyLabels
<1>2. CASE Fail
  BY <1>1, <1>2, FailOrderly DEF Fail
<1>3. CASE Goto(f, Block, pos + 1) /\ Quiet
  <2>1. f.l = Top.l /\ f.r = ret /\ f.at = "func_decl_body" /\ f.n = Top.n
    BY <1>1, TopRecord
  <2>. HIDE DEF f
  <2>2. UNCHANGED <<nodes, freed, envs>> /\ Rebound(nodes') /\ NamesStep
    BY <1>1, <1>3, ReboundNodes DEF Quiet, heap, tables, NamesStep
  <2>3. Entry(Block)
    BY Entries
  <2>4. Headed => Heads(f, envs', nodes')
    <3>1. Len(stack) \in 1..Len(stack)
      BY <1>1, TopProperties DEF At, Running
    <3>2. Headed => Heads(Top, envs, nodes)
      BY <1>1, <3>1 DEF Headed, FuncLabels, Top
    <3>. QED
      BY <2>1, <2>2, <3>2 DEF Heads
  <2>5. Passing /\ (Headed => FramesStep)
    BY <1>1, <1>3, <2>1, <2>2, <2>3, <2>4, GotoPasses DEF Entry, KeyLabels
  <2>. QED
    BY <1>1, <2>2, <2>5 DEF Binding
<1>. QED
  BY <1>2, <1>3 DEF FuncDeclParams

(* It has the body, and the name gets its ids. *)
LEMMA DeclBodyBinds ==
    ASSUME IInv, SingleOwner, FuncDeclBody
    PROVE  Orderly \/ (Binding /\ envs # << >>)
<1>. DEFINE node == [nodes[Top.l] EXCEPT
                        !.scope = Top.n, !.inner = AddedId(CreateEnv, FuncSymbol(Top.l)),
                        !.left = Top.r, !.right = ret]
            given == <<Top.r, ret, NULL, NULL, NULL, NULL, Top.l>>
<1>1. At("func_decl_body") /\ TypeOK /\ Top.at = "func_decl_body" /\ envs # << >>
  BY Late DEF FuncDeclBody, IInv, At, EarlyLabels
<1>2. CASE Fail
  BY <1>1, <1>2, FailOrderly DEF Fail
<1>3. CASE /\ nodes' = [nodes EXCEPT ![Top.l] = node]
           /\ Return(Top.l, pos) /\ UNCHANGED <<freed, envs>>
  <2>1. /\ Top.l \in 1..Len(nodes) /\ nodes[Top.l] \in Nodes(Len(nodes))
        /\ FuncSymbol(Top.l) \in Symbols
    <3>1. Top.l \in Refs /\ Top.l # NULL
      BY <1>1, AtFacts DEF Frames, FrameOK, Refs
    <3>. QED
      BY <1>1, <3>1, NodeAt, SymbolOf DEF FuncSymbol
  <2>2. /\ node.scope = Top.n /\ node.inner = 0 /\ node.tok = nodes[Top.l].tok
        /\ node.left = Top.r /\ node.right = ret
    BY <2>1, CreatedEnv DEF Nodes
  <2>. HIDE DEF node
  <2>3. nodes \in Seq(Nodes(Len(nodes))) /\ Len(nodes) \in Nat
    BY <1>1 DEF TypeOK, HeapOK
  <2>4. /\ Len(nodes') = Len(nodes)
        /\ \A q \in 1..Len(nodes) : nodes'[q] = IF q = Top.l THEN node ELSE nodes[q]
    BY <1>3, <2>3
  <2>5. NodesHanded(given, Top.l, Top.l)
    BY <2>2, <2>4 DEF NodesHanded
  <2>6. Fair(given)
    <3>1. {Top.l, Top.r, ret} \subseteq Pool
      BY <1>1, PoolApart DEF Pool
    <3>2. /\ Top.l = ret => ret = NULL
          /\ Top.r = ret => ret = NULL
          /\ Top.l = Top.r => Top.r = NULL
      BY <1>1, PoolApart
    <3>. QED
      BY <3>1, <3>2 DEF Fair
  <2>7. /\ given[7] = Top.l /\ stack' = Callers /\ ret' = Top.l
        /\ Placed(given, Top.l, Top.l)
    <3>1. Top.l \notin {NULL, Top.r, ret}
      BY <1>1, <2>1, PoolApart DEF NULL
    <3>2. Takers = {Top.l}
      BY <1>1 DEF Takers
    <3>. QED
      BY <1>1, <1>3, <3>1, <3>2, FreshApart DEF Return, Placed
  <2>. HIDE DEF given
  <2>8. StackHanded(given) /\ FramesTame /\ Grafted(given, Top.l, Top.l)
    BY <1>1, <2>7, ReturnHands DEF Grafted
  <2>9. Passing
    BY <1>3, <2>5, <2>6, <2>8 DEF Passing, Hands
  <2>10. ASSUME Headed PROVE NamesStep
    <3>1. Len(stack) \in 1..Len(stack)
      BY <1>1, TopProperties DEF At, Running
    <3>2. Heads(Top, envs, nodes)
      BY <1>1, <2>10, <3>1 DEF Headed, FuncLabels, Top
    <3>3. Len(envs[Top.n + 1]) \in Nat \ {0}
      <4>1. envs[Top.n + 1] \in Seq(Symbols)
        BY <1>1, <3>2, ElementOfSeq DEF Heads, TypeOK, TablesOK
      <4>. QED
        BY <3>2, <4>1, EmptySeq DEF Heads
    <3>4. PICK v \in 1..Len(nodes) : v = Top.l
      BY <2>1
    <3>5. Resolved(v)'
      <4>1. nodes'[v] = node /\ v = Top.l /\ UNCHANGED envs
        BY <1>3, <2>4, <3>4
      <4>2. node.inner + 1 \in 1..Len(envs[Top.n + 1]) /\ node.inner + 1 = 1
        BY <2>2, <3>3
      <4>. QED
        BY <2>2, <3>2, <4>1, <4>2 DEF Resolved, Heads, SymbolAt, Function
    <3>6. Rightly(v)
      BY <1>1, <2>2, <2>4, <3>4 DEF Rightly
    <3>. QED
      BY <2>2, <2>4, <3>4, <3>5, <3>6 DEF NamesStep
  <2>. QED
    BY <1>1, <2>8, <2>9, <2>10, TameFrames DEF Binding
<1>. QED
  BY <1>2, <1>3 DEF FuncDeclBody, tables
(* get_identifier_ makes the node, with the ids of its name when there is   *)
(* an environment to enter it in.                                          *)
LEMMA IdentifierBinds ==
    ASSUME IInv, SingleOwner, GetIdentifier
    PROVE  Orderly \/ (Binding /\ envs # << >>) \/ NamesFirst
<1>1. At("identifier") /\ TypeOK /\ PlainLabel("identifier") /\ Top.at = "identifier"
  BY DEF GetIdentifier, IInv, PlainLabel, At
<1>2. Rebound(nodes) /\ Cur \in NodeTokens
  BY <1>1, AtFacts, ReboundNodes, SomeTokens
<1>3. CASE Return(NULL, pos) /\ Quiet
  BY <1>1, <1>3, ReturnOrderly
<1>4. CASE current_env_id = NoEnv /\ ReturnNode(Cur, NULL, NULL, pos + 1)
  <2>. DEFINE node == Node(Cur, NULL, NULL)
  <2>1. /\ nodes' = Append(nodes, node) /\ UNCHANGED <<freed, envs>>
        /\ Return(Len(nodes) + 1, pos + 1)
    BY <1>4 DEF ReturnNode, NewNode, tables
  <2>2. node.left = NULL /\ node.right = NULL
    BY NodeFields
  <2>3. envs = << >>
    <3>1. Len(envs) = 0
      BY <1>1, <1>4 DEF TypeOK, TablesOK, NoEnv
    <3>. QED
      BY <1>1, <3>1, EmptySeq DEF TypeOK, TablesOK
  <2>4. ret' = Len(nodes) + 1 /\ stack' = Callers
    BY <2>1 DEF Return
  <2>. HIDE DEF node
  <2>5. Passing /\ FramesTame
    BY <1>1, <1>2, <2>1, <2>2, NodePasses DEF PlainLabel
  <2>. QED
    BY <1>1, <2>1, <2>3, <2>4, <2>5, TameFrames DEF node, NamesFirst
<1>5. CASE /\ current_env_id # NoEnv /\ AddToEnv(Variable(Cur))
           /\ nodes' = Append(nodes, [Node(Cur, NULL, NULL) EXCEPT
                                        !.scope = current_env_id,
                                        !.inner = AddedId(Env, Variable(Cur))])
           /\ UNCHANGED freed /\ Return(Len(nodes) + 1, pos + 1)
  <2>. DEFINE node == [Node(Cur, NULL, NULL) EXCEPT
                          !.scope = current_env_id,
                          !.inner = AddedId(Env, Variable(Cur))]
              sym == Variable(Cur)
  <2>1. /\ node.left = NULL /\ node.right = NULL /\ node.tok = Cur
        /\ node.scope = current_env_id /\ node.inner = AddedId(Env, sym)
        /\ sym = Variable(Cur)
    BY DEF Node
  <2>2. envs # << >> /\ sym \in Symbols /\ sym.str = Cur
    BY <1>1, <1>2, <1>5, SymbolOf DEF TypeOK, TablesOK, NoEnv, Variable
  <2>3. nodes' = Append(nodes, node) /\ AddToEnv(sym)
    BY <1>5
  <2>. HIDE DEF node, sym
  <2>4. Passing /\ FramesTame
    BY <1>1, <1>2, <1>5, <2>1, <2>3, NodePasses DEF PlainLabel
  <2>5. /\ current_env_id + 1 \in 1..Len(envs')
        /\ AddedId(Env, sym) + 1 \in 1..Len(envs'[current_env_id + 1])
        /\ SymbolAt(envs'[current_env_id + 1], AddedId(Env, sym)) = sym
    BY <1>1, <2>2, <2>3, AddedResolves
  <2>6. /\ nodes'[Len(nodes) + 1] = node
        /\ \A q \in 1..Len(nodes) : nodes'[q] = nodes[q]
        /\ \A q \in 1..Len(nodes') : q \in 1..Len(nodes) \/ q = Len(nodes) + 1
    BY <1>2, <2>3, Joined DEF Rebound
  <2>7. ASSUME NEW v \in 1..Len(nodes'), v = Len(nodes) + 1 PROVE Resolved(v)' /\ Rightly(v)
    <3>1. v \notin 1..Len(nodes)
      BY <1>2, <2>7 DEF Rebound
    <3>. QED
      BY <1>1, <2>1, <2>2, <2>5, <2>6, <2>7, <3>1 DEF Resolved, Rightly, EnteredThere, Binders
  <2>8. NamesStep
    BY <2>6, <2>7 DEF NamesStep
  <2>. QED
    BY <2>2, <2>4, <2>8, TameFrames DEF Binding
<1>. QED
  BY <1>3, <1>4, <1>5 DEF GetIdentifier

-----------------------------------------------------------------------------
(* Every step, and the theorems. *)

(* Nothing happens to the nodes or their owners. *)
Unmoved == UNCHANGED <<nodes, stack, ret, freed, envs>>

(* What a step does. *)
LEMMA EveryStep ==
    ASSUME IInv, SingleOwner, [Next]_vars
    PROVE  \/ Unmoved
           \/ stack # << >> /\ (Orderly \/ (Binding /\ envs # << >>) \/ Declares \/ NamesFirst)
<1>. DEFINE Moving == Orderly \/ (Binding /\ envs # << >>) \/ Declares \/ NamesFirst
<1>1. TypeOK
  BY DEF IInv
<1>2. Abort \/ UNCHANGED vars => Unmoved
  BY DEF Abort, Unmoved, heap, tables, vars
<1>3. FuncDeclName => Moving
  BY DeclNameBinds, Zenon
<1>4. GetIdentifier => Moving
  BY IdentifierBinds, Zenon
<1>5. ParameterListNext => Moving \/ Abort
  BY ParameterBinds, Zenon
<1>6. InName => Moving \/ Abort
  BY <1>1, StatementsOrderly, Zenon
<1>7. Declaration => Moving \/ Abort
  BY <1>1, <1>3, <1>5, DeclarationsOrderly, LastOrderly, ParameterBinds, DeclParamsBinds,
     DeclBodyBinds, Zenon DEF Declaration
<1>8. Statement => Moving \/ Abort
  <2>1. AssignmentRight => Moving
    BY AssignmentBinds, Zenon
  <2>. QED
    BY <1>1, <1>6, <2>1, StatementsOrderly, IfElseOrderly, BlockNextOrderly, Zenon DEF Statement
<1>9. Expression => Moving
  BY <1>1, <1>4, ExpressionsOrderly, PrimaryIdBinds, Zenon DEF Expression
<1>10. Declaration \/ Statement \/ Expression => stack # << >>
  <2>1. Declaration => \E label : At(label)
    BY DEF Declaration, GetGeneral, Accept, Reject, GetProgram, ProgramFirst, ProgramNext,
           GetFuncDecl, Leads, FuncDeclName, FuncDeclParams, FuncDeclBody,
           GetParameterList, ParameterListFirst, ParameterListNext
  <2>2. Statement => \E label : At(label)
    BY DEF Statement, Leads, Then, Yields, GetBlock, BlockFirst, BlockNext, GetStatement,
           StatementNext, GetIf, IfCondition, IfBody, IfElse, GetElse, ElseBody, GetWhile,
           WhileCondition, WhileBody, GetReturn, ReturnExpr, GetAssignment, AssignmentLeft,
           AssignmentRight, GetIn, InName, GetOut, OutExpr, GetRamset, RamsetAddr, RamsetValue
  <2>3. Expression => \E label : At(label)
    BY DEF Expression, PrimaryTry, GetOperator, OperatorFirst, OperatorNext, GetSqrt,
           SqrtOperand, GetPrimary, PrimaryParen, PrimaryCall, PrimaryNum, PrimaryId,
           GetFuncCall, FuncCallName, FuncCallArgs, GetNumericLiteral, GetIdentifier
  <2>. QED
    BY <2>1, <2>2, <2>3 DEF At, Running
<1>. QED
  BY <1>2, <1>7, <1>8, <1>9, <1>10 DEF Next, InvalidBufPos, Terminated

-----------------------------------------------------------------------------
(* Owners. *)

Owned == SingleOwner /\ NoDanglingPointer

(* Every step keeps them: it hands over fairly, and frees what it keeps. *)
LEMMA OwnedInductive == IInv /\ Owned /\ [Next]_vars => Owned'
<1>. SUFFICES ASSUME IInv, Owned, [Next]_vars PROVE Owned'
  OBVIOUS
<1>1. TypeOK /\ SingleOwner /\ TypeOK'
  BY Inductive DEF IInv, Owned
<1>2. status' \in {"running", "accepted"} => status \in {"running", "accepted"}
  BY Steps DEF Ordinary, Moved, Accept, Reject, Abort, vars, At, Running
<1>3. CASE Unmoved
  <2>1. \A v : Owners(v)' = Owners(v)
    BY <1>3 DEF Unmoved, Owners
  <2>. QED
    BY <1>2, <1>3, <2>1 DEF Unmoved, Owned, SingleOwner, NoDanglingPointer
<1>4. CASE stack # << >> /\ Passing
  <2>1. PICK given, a, b :
            /\ Fair(given) /\ Hands(given, a, b)
            /\ \/ UNCHANGED freed
               \/ status' \notin {"running", "accepted"}
               \/ /\ freed' \subseteq freed \cup ({ret} \ {NULL})
                  /\ \A k \in 1..7 : given[k] \in {ret} => ret = NULL
    BY <1>4 DEF Passing
  <2>2. /\ SingleOwner'
        /\ \A v \in 1..Len(nodes) : v \in 1..Len(nodes') /\ Owners(v) = {}
              => Owners(v)' = {}
        /\ \A v \in Pool \cap 1..Len(nodes) : v \in 1..Len(nodes')
              /\ (\A k \in 1..7 : given[k] # v) => Owners(v)' = {}
    BY <1>1, <1>4, <2>1, FairlyHanded
  <2>3. ASSUME status' \in {"running", "accepted"}, NEW v \in freed'
        PROVE  Owners(v)' = {}
    <3>1. v \in 1..Len(nodes') /\ freed \subseteq 1..Len(nodes) /\ ret \in Refs
      BY <1>1, <2>3 DEF TypeOK, HeapOK, StackOK
    <3>2. CASE v \in freed
      BY <1>2, <2>2, <2>3, <3>1, <3>2 DEF Owned, NoDanglingPointer
    <3>3. CASE v \notin freed
      <4>1. v = ret /\ ret # NULL /\ \A k \in 1..7 : given[k] # v
        BY <2>1, <2>3, <3>3
      <4>2. v \in Pool \cap 1..Len(nodes)
        BY <1>1, <3>1, <4>1, NodeAt DEF Pool
      <4>. QED
        BY <2>2, <3>1, <4>1, <4>2
    <3>. QED
      BY <3>2, <3>3
  <2>. QED
    BY <2>2, <2>3 DEF Owned, NoDanglingPointer
<1>. QED
  BY <1>1, <1>3, <1>4, EveryStep DEF Orderly, Binding, Declares, NamesFirst

-----------------------------------------------------------------------------
(* Trees. *)

(* Every node is in the tree of a root, below it by its rank.  The locals   *)
(* are roots, the second one of a block excepted.                          *)
Ranked(tree, rank, R) ==
    /\ tree \in [1..Len(nodes) -> 1..Len(nodes)] /\ rank \in [1..Len(nodes) -> 0..R]
    /\ \A p \in 1..Len(nodes) : \A c \in {nodes[p].left, nodes[p].right} \ {NULL} :
          tree[c] = tree[p] /\ rank[c] < rank[p]

Rooted(tree) ==
    /\ \A i \in 1..Len(stack) :
          /\ stack[i].l # NULL => tree[stack[i].l] = stack[i].l
          /\ stack[i].at # "block_next" /\ stack[i].r # NULL => tree[stack[i].r] = stack[i].r
          /\ stack[i].at = "block_next" => stack[i].r # NULL /\ tree[stack[i].r] = stack[i].l
    /\ ret # NULL => tree[ret] = ret

Trees == \E tree, rank : \E R \in Nat : Ranked(tree, rank, R) /\ Rooted(tree)

(* What may be handed over are roots. *)
LEMMA PoolRoots ==
    ASSUME TypeOK, stack # << >>, NEW tree \in [1..Len(nodes) -> 1..Len(nodes)], Rooted(tree)
    PROVE  /\ \A x \in Pool : x \notin {Fresh, NULL} => x \in 1..Len(nodes) /\ tree[x] = x
           /\ \A x \in {Top.l, ret} : x # NULL => x \in 1..Len(nodes) /\ tree[x] = x
           /\ Top.at = "block_next" =>
                 /\ Top.l \in 1..Len(nodes) /\ Top.r \in 1..Len(nodes)
                 /\ tree[Top.r] = Top.l
<1>1. /\ Len(stack) \in 1..Len(stack) /\ Top \in Frames(Len(nodes))
      /\ ret \in 0..Len(nodes) /\ Len(nodes) \in Nat
  BY TopProperties DEF TypeOK, StackOK, Refs
<1>2. Top.l \in 0..Len(nodes) /\ Top.r \in 0..Len(nodes)
  BY <1>1 DEF Frames
<1>3. /\ Top.l # NULL => tree[Top.l] = Top.l
      /\ Top.at # "block_next" /\ Top.r # NULL => tree[Top.r] = Top.r
      /\ Top.at = "block_next" => Top.r # NULL /\ tree[Top.r] = Top.l
      /\ ret # NULL => tree[ret] = ret
  BY <1>1 DEF Rooted, Top
<1>4. \A x \in 0..Len(nodes) : x # NULL => x \in 1..Len(nodes)
  BY DEF NULL
<1>5. \A x \in {Top.l, ret} : x # NULL => x \in 1..Len(nodes) /\ tree[x] = x
  BY <1>1, <1>2, <1>3, <1>4
<1>6. ASSUME Top.at = "block_next" PROVE Top.l \in 1..Len(nodes) /\ Top.r \in 1..Len(nodes)
  <2>1. Top.r \in 1..Len(nodes)
    BY <1>2, <1>3, <1>4, <1>6
  <2>. QED
    BY <1>3, <1>6, <2>1
<1>7. Top.at # "block_next" /\ Top.r # NULL => Top.r \in 1..Len(nodes) /\ tree[Top.r] = Top.r
  BY <1>2, <1>3, <1>4
<1>. QED
  BY <1>3, <1>5, <1>6, <1>7 DEF Pool

(* A node with the frames around it: what an activation further down the    *)
(* stack holds is not handed over.                                         *)
LEMMA WaitingKept ==
    ASSUME TypeOK, SingleOwner, stack # << >>, NEW given, Fair(given),
           NEW i \in 1..Len(stack), i < Len(stack), NEW k \in 1..7
    PROVE  /\ stack[i].l # NULL => given[k] # stack[i].l
           /\ stack[i].at # "block_next" /\ stack[i].r # NULL => given[k] # stack[i].r
<1>1. /\ Len(stack) \in Nat \ {0} /\ Len(nodes) \in Nat
      /\ stack[i].l \in 0..Len(nodes) /\ stack[i].r \in 0..Len(nodes)
  <2>1. stack[i] \in Frames(Len(nodes))
    BY ElementOfSeq DEF TypeOK, StackOK
  <2>. QED
    BY <2>1, TopProperties DEF Frames
<1>2. ASSUME NEW v \in 1..Len(nodes), given[k] = v, NEW o \in Owners(v) PROVE o \in Giving
  <2>1. v \in Pool /\ v # Fresh
    BY <1>1, <1>2, SMTT(30) DEF Fair, NULL, Fresh
  <2>2. PICK g \in Giving : g \in Owners(v)
    BY <2>1, PoolOwned
  <2>. QED
    BY <1>2, <2>2 DEF SingleOwner
<1>3. ASSUME stack[i].l # NULL, given[k] = stack[i].l PROVE FALSE
  <2>1. stack[i].l \in 1..Len(nodes)
    BY <1>1, <1>3 DEF NULL
  <2>2. <<"l", i>> \in Owners(stack[i].l)
    BY OwnerCases
  <2>3. <<"l", i>> \in Giving
    BY <1>2, <1>3, <2>1, <2>2
  <2>. QED
    BY <1>1, <2>3 DEF Giving
<1>4. ASSUME stack[i].at # "block_next", stack[i].r # NULL, given[k] = stack[i].r PROVE FALSE
  <2>1. stack[i].r \in 1..Len(nodes)
    BY <1>1, <1>4 DEF NULL
  <2>2. <<"r", i>> \in Owners(stack[i].r)
    BY <1>4, OwnerCases
  <2>3. <<"r", i>> \in Giving
    BY <1>2, <1>4, <2>1, <2>2
  <2>. QED
    BY <1>1, <2>3 DEF Giving
<1>. QED
  BY <1>3, <1>4

(* A root that is hung on a tree takes its own along; what is hung on the   *)
(* new node has that for its root; a tree that others are hung on rises    *)
(* above them.                                                             *)
LEMMA TreesGraft ==
    ASSUME TypeOK, TypeOK', SingleOwner, stack # << >>, Trees, Passing,
           Len(nodes') >= Len(nodes)
    PROVE  Trees'
<1>1. PICK given, a, b : Fair(given) /\ Hands(given, a, b) /\ Grafted(given, a, b)
  BY DEF Passing
<1>2. PICK tree, rank : \E R \in Nat : Ranked(tree, rank, R) /\ Rooted(tree)
  BY DEF Trees
<1>3. PICK R \in Nat : Ranked(tree, rank, R) /\ Rooted(tree)
  BY <1>2
<1>. DEFINE n == Len(nodes)
            m == Len(nodes')
            up(x) == IF x = given[1] THEN tree[a] ELSE IF x = given[2] THEN tree[b] ELSE x
            top(x) == IF x \in {given[3], given[4]} /\ Fresh \in 1..m THEN Fresh ELSE x
            tree2 == [v \in 1..m |-> IF v = Fresh THEN Fresh ELSE top(up(tree[v]))]
            receives(x) == (a # 0 /\ x = tree[a]) \/ (b # 0 /\ x = tree[b])
            rank2 == [v \in 1..m |-> IF v = Fresh THEN 2 * R + 2
                                     ELSE IF receives(tree[v]) THEN rank[v] + R + 1
                                     ELSE rank[v]]
<1>4. /\ n \in Nat /\ m \in Nat /\ Fresh = n + 1 /\ Fresh \notin 1..n
      /\ \A v \in 1..m : v \in 1..n \/ v = Fresh
      /\ 1..n \subseteq 1..m
  BY <1>1, TopProperties DEF Hands, NodesHanded, Fresh, TypeOK, HeapOK
<1>5. /\ \A k \in 1..7 : given[k] \notin {Fresh, NULL}
            => given[k] \in 1..n /\ tree[given[k]] = given[k]
      /\ \A j, k \in 1..7 : given[j] = given[k] /\ given[j] # NULL => j = k
  BY <1>1, <1>3, PoolRoots DEF Fair, Ranked
<1>6. /\ \A v \in 1..n : tree[v] \in 1..n /\ rank[v] \in 0..R
      /\ \A p \in 1..n : \A c \in {nodes[p].left, nodes[p].right} \ {NULL} :
            tree[c] = tree[p] /\ rank[c] < rank[p]
  BY <1>3 DEF Ranked
<1>. HIDE DEF n, m
<1>7. /\ given[1] # NULL => a \in 1..n
      /\ given[2] # NULL => b \in 1..n
      /\ a # 0 => a \in 1..n /\ tree[a] \notin {given[1], given[2]}
      /\ b # 0 => b \in 1..n /\ tree[b] \notin {given[1], given[2]}
      /\ Fresh \notin {given[1], given[2], given[3], given[4]}
  <2>1. \A x \in {Top.l, ret} : x # NULL => x \in 1..n /\ tree[x] = x
    BY <1>3, PoolRoots DEF Ranked, n
  <2>2. Top.at = "block_next" =>
           /\ Top.l \in 1..n /\ Top.r \in 1..n /\ tree[Top.r] = Top.l /\ Top.l # ret
    <3>1. ASSUME Top.at = "block_next" PROVE Top.l # ret
      <4>1. Top.l \in 1..n
        BY <1>3, <3>1, PoolRoots DEF Ranked, n
      <4>2. ASSUME Top.l = ret PROVE FALSE
        <5>1. Len(stack) \in 1..Len(stack)
          BY TopProperties
        <5>2. <<"l", Len(stack)>> \in Owners(ret) /\ <<"ret", 0>> \in Owners(ret)
          BY <4>2, <5>1, OwnerCases DEF Top
        <5>. QED
          BY <4>1, <4>2, <5>2 DEF SingleOwner, n
      <4>. QED
        BY <4>2
    <3>. QED
      BY <1>3, <3>1, PoolRoots DEF Ranked, n
  <2>3. /\ given[1] # NULL => a # 0
        /\ a # 0 => a \in {Top.l, ret} \ {NULL, given[1], given[2]}
        /\ \/ b = 0 /\ given[2] = NULL
           \/ b \in {Top.l, ret} \ {NULL, given[1], given[2]}
           \/ Top.at = "block_next" /\ b = Top.r /\ given[1] = NULL /\ given[2] = ret
        /\ Fresh \notin {given[1], given[2], given[3], given[4]}
    BY <1>1, TakersHere DEF Grafted, Placed, NULL
  <2>4. a # 0 => a \in 1..n /\ tree[a] \notin {given[1], given[2]}
    BY <2>1, <2>3
  <2>5. \/ b = 0 /\ given[2] = NULL
        \/ b \in 1..n /\ tree[b] \notin {given[1], given[2]}
    <3>1. CASE b \in {Top.l, ret} \ {NULL, given[1], given[2]}
      BY <2>1, <3>1
    <3>2. CASE Top.at = "block_next" /\ b = Top.r /\ given[1] = NULL /\ given[2] = ret
      <4>1. Top.l \in 1..n /\ Top.l # NULL
        BY <1>4, <2>2, <3>2 DEF NULL
      <4>. QED
        BY <2>2, <3>2, <4>1
    <3>. QED
      BY <2>3, <3>1, <3>2
  <2>. QED
    BY <2>3, <2>4, <2>5
<1>8. ASSUME NEW x \in 1..n PROVE up(x) \in 1..n /\ top(x) \in 1..m /\ top(up(x)) \in 1..m
  BY <1>4, <1>6, <1>7, <1>8 DEF NULL
<1>9. tree2 \in [1..m -> 1..m] /\ rank2 \in [1..m -> 0 .. 2*R + 2]
  <2>1. \A v \in 1..n : top(up(tree[v])) \in 1..m /\ rank[v] \in 0..R
    BY <1>6, <1>8
  <2>2. \A v \in 1..m : v # Fresh => v \in 1..n
    BY <1>4
  <2>. HIDE DEF top, up, receives
  <2>. QED
    BY <2>1, <2>2
<1>10. /\ \A v \in 1..n : tree2[v] = top(up(tree[v]))
       /\ \A v \in 1..n : rank2[v] = IF receives(tree[v]) THEN rank[v] + R + 1 ELSE rank[v]
       /\ Fresh \in 1..m => tree2[Fresh] = Fresh /\ rank2[Fresh] = 2 * R + 2
  BY <1>4
<1>11. ASSUME NEW x \in 1..n, \A k \in 1..4 : given[k] # x PROVE top(up(x)) = x
  BY <1>11
<1>. HIDE DEF tree2, rank2
<1>12. ASSUME NEW p \in 1..m, NEW c \in {nodes'[p].left, nodes'[p].right} \ {NULL}
       PROVE  tree2[c] = tree2[p] /\ rank2[c] < rank2[p]
  <2>1. CASE p \in 1..n /\ c \in {nodes[p].left, nodes[p].right}
    <3>1. c \in 1..n /\ tree[c] = tree[p] /\ rank[c] < rank[p] /\ rank[c] \in Nat /\ rank[p] \in Nat
      <4>1. nodes[p] \in Nodes(n)
        BY <2>1, ElementOfSeq DEF TypeOK, HeapOK, n
      <4>2. c \in 1..n
        BY <1>4, <2>1, <4>1 DEF Nodes, NULL
      <4>. QED
        BY <1>6, <1>12, <2>1, <4>2
    <3>. QED
      BY <1>10, <2>1, <3>1, SMTT(30)
  <2>2. CASE p \in 1..n /\ c \notin {nodes[p].left, nodes[p].right}
    <3>1. (p = a /\ c = given[1]) \/ (p = b /\ c = given[2])
      BY <1>1, <1>12, <2>2 DEF Hands, NodesHanded, n
    <3>2. PICK k \in {1, 2} : c = given[k] /\ p = IF k = 1 THEN a ELSE b
      BY <3>1
    <3>3. c \in 1..n /\ tree[c] = c /\ p # 0
      BY <1>5, <1>7, <1>12, <3>2, <2>2
    <3>4. up(c) = tree[p] /\ up(tree[p]) = tree[p] /\ ~receives(c) /\ receives(tree[p])
      <4>1. k = 1 => c # given[2]
        BY <1>5, <1>12, <3>2
      <4>2. k = 2 => c # given[1]
        BY <1>5, <1>12, <3>2
      <4>. QED
        BY <1>7, <3>2, <3>3, <4>1, <4>2
    <3>6. top(tree[p]) = tree2[p] /\ tree2[c] = top(tree[p])
      BY <1>10, <2>2, <3>3, <3>4
    <3>5. rank[c] \in 0..R /\ rank[p] \in 0..R
      BY <1>6, <3>3, <2>2
    <3>7. rank2[c] = rank[c] /\ rank2[p] = rank[p] + R + 1
      BY <1>10, <2>2, <3>3, <3>4
    <3>. QED
      BY <3>5, <3>6, <3>7
  <2>3. CASE p = Fresh
    <3>1. c \in {given[3], given[4]}
      BY <1>1, <1>4, <1>12, <2>3 DEF Hands, NodesHanded, n, m
    <3>2. c \in 1..n /\ tree[c] = c /\ c \notin {given[1], given[2]}
      BY <1>5, <1>7, <1>12, <3>1
    <3>3. top(up(c)) = Fresh /\ rank[c] \in 0..R
      BY <1>6, <1>12, <2>3, <3>1, <3>2
    <3>. QED
      BY <1>10, <1>12, <2>3, <3>2, <3>3
  <2>. QED
    BY <1>4, <2>1, <2>2, <2>3
<1>13. \A k \in 5..7 : given[k] = NULL \/ given[k] \notin 1..m \/ tree2[given[k]] = given[k]
  <2>. SUFFICES ASSUME NEW k \in 5..7, given[k] # NULL, given[k] \in 1..m
                PROVE  tree2[given[k]] = given[k]
    OBVIOUS
  <2>1. CASE given[k] = Fresh
    BY <1>10, <2>1
  <2>2. CASE given[k] # Fresh
    <3>1. given[k] \in 1..n /\ tree[given[k]] = given[k] /\ \A j \in 1..4 : given[j] # given[k]
      BY <1>5, <2>2
    <3>. QED
      BY <1>10, <1>11, <3>1
  <2>. QED
    BY <2>1, <2>2
<1>14. /\ \A i \in 1..Len(stack') : stack'[i].l \in 0..m /\ stack'[i].r \in 0..m
       /\ ret' \in 0..m
       /\ \A x \in 0..m : x # NULL => x \in 1..m
  <2>1. \A i \in 1..Len(stack') : stack'[i] \in Frames(m)
    BY ElementOfSeq DEF TypeOK, StackOK, m
  <2>2. ret' \in 0..m
    BY DEF TypeOK, StackOK, Refs, m
  <2>. QED
    BY <1>4, <2>1, <2>2 DEF Frames, NULL
<1>15. ASSUME NEW i \in 1..Len(stack')
       PROVE  /\ stack'[i].l # NULL => tree2[stack'[i].l] = stack'[i].l
              /\ stack'[i].at # "block_next" /\ stack'[i].r # NULL
                    => tree2[stack'[i].r] = stack'[i].r
              /\ stack'[i].at = "block_next"
                    => stack'[i].r # NULL /\ tree2[stack'[i].r] = stack'[i].l
  <2>1. CASE i < Len(stack) /\ stack'[i] = stack[i]
    <3>. DEFINE l == stack[i].l
                r == stack[i].r
    <3>1. i \in 1..Len(stack)
      BY <2>1, TopProperties
    <3>2. stack[i] \in Frames(n)
      BY <3>1, ElementOfSeq DEF TypeOK, StackOK, n
    <3>3. l \in 0..n /\ r \in 0..n /\ \A x \in 0..n : x # NULL => x \in 1..n
      BY <1>4, <3>2 DEF Frames, NULL
    <3>4. /\ l # NULL => tree[l] = l
          /\ stack[i].at # "block_next" /\ r # NULL => tree[r] = r
          /\ stack[i].at = "block_next" => r # NULL /\ tree[r] = l
      BY <1>3, <3>1 DEF Rooted
    <3>5. \A k \in 1..7 :
             /\ l # NULL => given[k] # l
             /\ stack[i].at # "block_next" /\ r # NULL => given[k] # r
      BY <1>1, <2>1, <3>1, WaitingKept
    <3>6. stack'[i].l = l /\ stack'[i].r = r /\ stack'[i].at = stack[i].at
      BY <2>1
    <3>. HIDE DEF l, r
    <3>7. l # NULL => tree2[l] = l
      BY <1>10, <1>11, <3>3, <3>4, <3>5
    <3>8. stack[i].at # "block_next" /\ r # NULL => tree2[r] = r
      BY <1>10, <1>11, <3>3, <3>4, <3>5
    <3>9. stack[i].at = "block_next" => r # NULL /\ tree2[r] = l
      <4>1. ASSUME stack[i].at = "block_next" PROVE r # NULL /\ tree2[r] = l
        <5>1. r \in 1..n /\ tree[r] = l /\ l \in 1..n /\ l # NULL
          BY <1>6, <3>3, <3>4, <4>1 DEF NULL
        <5>. QED
          BY <1>10, <1>11, <3>4, <3>5, <4>1, <5>1
      <4>. QED
        BY <4>1
    <3>. QED
      BY <3>6, <3>7, <3>8, <3>9
  <2>2. CASE i > Len(stack) /\ stack'[i].l = NULL /\ stack'[i].r = NULL
    <3>1. stack'[i].at # "block_next"
      BY <1>1, <2>2 DEF Grafted, Chained, BlockFrame, NULL
    <3>. QED
      BY <2>2, <3>1
  <2>3. CASE /\ i = Len(stack) /\ stack'[i].l = given[5]
             /\ stack'[i].at = "block_next" \/ stack'[i].r = given[6]
    <3>1. stack'[i].l # NULL => tree2[stack'[i].l] = stack'[i].l
      BY <1>13, <1>14, <2>3
    <3>2. stack'[i].at # "block_next" /\ stack'[i].r # NULL => tree2[stack'[i].r] = stack'[i].r
      BY <1>13, <1>14, <2>3
    <3>3. ASSUME stack'[i].at = "block_next"
          PROVE  stack'[i].r # NULL /\ tree2[stack'[i].r] = stack'[i].l
      <4>1. BlockFrame(stack'[i], given, b)
        BY <1>1, <2>3, <3>3, TopProperties DEF Grafted, Chained
      <4>2. CASE stack'[i].r = stack'[i].l
        BY <3>1, <4>1, <4>2 DEF BlockFrame
      <4>3. CASE /\ Top.at = "block_next" /\ b = Top.r /\ stack'[i].l = Top.l
                 /\ stack'[i].r = given[2]
        <5>1. given[2] # NULL /\ given[2] \in 1..n /\ tree[given[2]] = given[2]
          BY <1>5, <1>7, <4>1, <4>3 DEF BlockFrame
        <5>2. given[2] # given[1]
          BY <1>5, <5>1
        <5>3. tree[b] = Top.l /\ Top.l \in 1..n
          BY <1>3, <4>3, PoolRoots DEF Ranked, n
        <5>4. Top.l \notin {given[3], given[4]}
          <6>1. Top.l = given[5] /\ Top.l # NULL
            BY <2>3, <4>3, <5>3 DEF NULL
          <6>. QED
            BY <1>5, <6>1
        <5>5. up(given[2]) = Top.l /\ top(Top.l) = Top.l
          BY <5>2, <5>3, <5>4
        <5>. QED
          BY <1>10, <4>3, <5>1, <5>5
      <4>. QED
        BY <4>1, <4>2, <4>3 DEF BlockFrame
    <3>. QED
      BY <3>1, <3>2, <3>3
  <2>. QED
    BY <1>1, <2>1, <2>2, <2>3 DEF Hands, StackHanded
<1>16. ret' # NULL => tree2[ret'] = ret'
  BY <1>1, <1>13, <1>14 DEF Hands, StackHanded
<1>17. PICK t, k, S : t = tree2 /\ k = rank2 /\ S = 2 * R + 2
  OBVIOUS
<1>. HIDE DEF up, top, receives
<1>18. Ranked(t, k, S)'
  BY <1>9, <1>12, <1>17 DEF Ranked, m
<1>19. Rooted(t)'
  BY <1>15, <1>16, <1>17 DEF Rooted
<1>20. S \in Nat
  BY <1>17
<1>. QED
  BY <1>18, <1>19, <1>20 DEF Trees

(* The descent begins without nodes, and every step keeps the trees. *)
LEMMA TreesInitially == Init => Trees
<1>. SUFFICES ASSUME Init PROVE Trees
  OBVIOUS
<1>1. /\ nodes = << >> /\ ret = NULL /\ Len(stack) = 1
      /\ stack[1] = Frame("general")
  BY DEF Init
<1>. DEFINE t == [v \in 1..0 |-> 1]
<1>2. Ranked(t, t, 0)
  BY <1>1 DEF Ranked
<1>3. \A i \in 1..Len(stack) : i = 1
  BY <1>1
<1>4. Rooted(t)
  BY <1>1, <1>3 DEF Rooted, Frame
<1>. QED
  BY <1>2, <1>4 DEF Trees

LEMMA TreesInductive == IInv /\ SingleOwner /\ Trees /\ [Next]_vars => Trees'
<1>. SUFFICES ASSUME IInv, SingleOwner, Trees, [Next]_vars PROVE Trees'
  OBVIOUS
<1>1. TypeOK /\ TypeOK'
  BY Inductive DEF IInv
<1>2. CASE Unmoved
  BY <1>2 DEF Unmoved, Trees, Ranked, Rooted
<1>3. CASE stack # << >> /\ Passing
  <2>1. nodes \in Seq(Nodes(Len(nodes))) /\ Len(nodes) \in Nat
    BY <1>1 DEF TypeOK, HeapOK
  <2>2. Len(nodes') >= Len(nodes)
    <3>1. Accept => Len(nodes') = Len(nodes) + 1
      BY <2>1, AppendProperties DEF Accept
    <3>2. Ordinary => Len(nodes') \in {Len(nodes), Len(nodes) + 1}
      BY DEF Ordinary, ListStep
    <3>. QED
      BY <2>1, <3>1, <3>2, Steps DEF Reject, Abort, heap, vars
  <2>. QED
    BY <1>1, <1>3, <2>2, TreesGraft
<1>. QED
  BY <1>2, <1>3, EveryStep DEF Orderly, Binding, Declares, NamesFirst

(* The descent begins without nodes. *)
LEMMA OwnedInitially == Init => Owned
BY DEF Init, Owned, SingleOwner, NoDanglingPointer

(* However the functions call one another, give up and take back, no node   *)
(* is ever held by two of them or hung in the tree twice, which is what     *)
(* freeing a subtree relies on (ast.cpp, free_subtree_; the functions of    *)
(* syntax_analyzer.cpp).                                                   *)
THEOREM SyntaxSingleOwner == Spec => []SingleOwner
<1>1. Owned => SingleOwner
  BY DEF Owned
<1>. QED
  BY <1>1, OwnedInitially, OwnedInductive, Initially, Inductive, PTL DEF Spec

(* An identifier that get_func_call_ or get_primary_ frees while the        *)
(* descent goes on is in no node, no local and no answer any more.         *)
THEOREM SyntaxNoDanglingPointer == Spec => []NoDanglingPointer
<1>1. Owned => NoDanglingPointer
  BY DEF Owned
<1>. QED
  BY <1>1, OwnedInitially, OwnedInductive, Initially, Inductive, PTL DEF Spec

-----------------------------------------------------------------------------
(* Names. *)

(* The first function's name gets ids 0 and 0, and they are its own. *)
LEMMA FirstName ==
    ASSUME IInv, IInv', NamesInv, envs = << >>, Declares
    PROVE  NamesInv'
<1>1. \A i \in 1..Len(stack) : stack[i].at \notin FuncLabels
  BY DEF IInv, Early, EarlyLabels, FuncLabels
<1>2. envs' = <<<<FuncSymbol(ret)>>>> /\ UNCHANGED nodes
  BY DEF Declares
<1>3. IdentifiersResolve'
  <2>1. SUFFICES ASSUME NEW v \in 1..Len(nodes'), nodes'[v].tok \in Names
        PROVE  Resolved(v)'
    BY DEF IdentifiersResolve, Resolved
  <2>2. v = ret /\ nodes[v].scope = 0 /\ nodes[v].inner = 0
    BY <1>2, <2>1 DEF NamesInv, Unborn
  <2>3. FuncSymbol(ret).str = nodes[v].tok
    BY <2>2 DEF FuncSymbol, Function
  <2>. DEFINE sym == FuncSymbol(ret)
  <2>. HIDE DEF sym
  <2>4. /\ 1 \in 1..Len(<<<<sym>>>>) /\ 1 \in 1..Len(<<<<sym>>>>[1])
        /\ <<<<sym>>>>[1][1] = sym
    OBVIOUS
  <2>5. nodes'[v].scope + 1 = 1 /\ nodes'[v].inner + 1 = 1
    BY <1>2, <2>2
  <2>. QED
    BY <1>2, <2>3, <2>4, <2>5 DEF Resolved, SymbolAt, sym
<1>4. Headed'
  <2>1. SUFFICES ASSUME NEW i \in 1..Len(stack'), stack'[i].at \in FuncLabels
        PROVE  Heads(stack'[i], envs', nodes')
    BY DEF Headed
  <2>2. i < Len(stack) => i \in 1..Len(stack)
    BY DEF IInv, TypeOK, StackOK
  <2>. QED
    BY <1>1, <2>1, <2>2 DEF Declares, FramesStep
<1>5. Unborn'
  BY <1>2 DEF Unborn
<1>6. Bottom'
  BY BottomStays DEF Declares, NamesInv
<1>. QED
  BY <1>3, <1>4, <1>5, <1>6 DEF NamesInv

(* It waits for its environment with get_func_decl_. *)
LEMMA NameWaits ==
    ASSUME IInv, IInv', NamesInv, stack # << >>, NamesFirst
    PROVE  NamesInv'
<1>. DEFINE n == Len(stack)
<1>1. /\ \A i \in 1..Len(stack) : stack[i].at \notin FuncLabels
      /\ \A i \in 1 .. Len(stack) - 1 :
            stack[i + 1].at = "identifier" => stack[i].at = "func_decl_name"
  BY DEF IInv, Early, EarlyLabels, FuncLabels, NamesFirst
<1>2. n \in Nat \ {0} /\ stack[n].at = "identifier" /\ n # 1
  <2>1. n \in Nat \ {0} /\ stack[n].at = "identifier"
    BY TopProperties DEF IInv, NamesFirst, Top
  <2>2. stack[1].at # "identifier"
    BY DEF NamesInv, Bottom
  <2>. QED
    BY <2>1, <2>2
<1>3. stack[n - 1].at = "func_decl_name"
  <2>1. n - 1 \in 1 .. n - 1 /\ (n - 1) + 1 = n
    <3>. HIDE DEF n
    <3>. QED
      BY <1>2
  <2>. QED
    BY <1>1, <1>2, <2>1
<1>4. Len(stack') = n - 1 /\ \A i \in 1 .. n - 1 : stack'[i] = stack[i]
  BY PopProperties DEF IInv, TypeOK, StackOK, NamesFirst, Callers, Popped
<1>5. stack' # << >> /\ Top'.at = "func_decl_name"
  <2>1. Len(stack') # 0 /\ n - 1 \in 1 .. n - 1
    BY <1>2, <1>4
  <2>2. stack'[Len(stack')].at = "func_decl_name"
    BY <1>3, <1>4, <2>1
  <2>. QED
    BY <2>1, <2>2 DEF Top
<1>6. \A v \in 1..Len(nodes) : nodes[v].tok \notin Names
  BY DEF NamesInv, Unborn, NamesFirst
<1>7. /\ nodes'[Len(nodes) + 1] = Node(Cur, NULL, NULL)
      /\ \A q \in 1..Len(nodes) : nodes'[q] = nodes[q]
      /\ \A q \in 1..Len(nodes') : q \in 1..Len(nodes) \/ q = Len(nodes) + 1
  BY Joined DEF NamesFirst, IInv, TypeOK, HeapOK
<1>8. Unborn'
  <2>1. SUFFICES ASSUME NEW v \in 1..Len(nodes'), nodes'[v].tok \in Names
        PROVE  v = ret' /\ nodes'[v].scope = 0 /\ nodes'[v].inner = 0
    BY <1>5 DEF Unborn
  <2>2. v = Len(nodes) + 1
    BY <1>6, <1>7, <2>1
  <2>. QED
    BY <1>7, <2>2 DEF NamesFirst, Node
<1>9. Headed'
  <2>1. \A i \in 1..Len(stack') : i \in 1 .. n - 1 /\ i \in 1..n
    BY <1>2, <1>4
  <2>. QED
    BY <1>1, <1>4, <2>1 DEF Headed
<1>10. IdentifiersResolve' /\ Bottom'
  BY BottomStays DEF IdentifiersResolve, NamesFirst, NamesInv
<1>. QED
  BY <1>8, <1>9, <1>10 DEF NamesInv

(* Every step keeps the names. *)
LEMMA NamesInductive == IInv /\ SingleOwner /\ NamesInv /\ [Next]_vars => NamesInv'
<1>. SUFFICES ASSUME IInv, SingleOwner, NamesInv, [Next]_vars PROVE NamesInv'
  OBVIOUS
<1>1. IInv' /\ EnvsGrow
  BY Inductive, TablesOrSame, TablesGrow DEF IInv
<1>2. CASE Unmoved
  BY <1>2 DEF Unmoved, NamesInv, IdentifiersResolve, Headed, Unborn, Bottom, Top
<1>3. CASE Orderly
  <2>1. Tame /\ NamesStep /\ FramesStep
    BY <1>3, TameNames DEF Orderly
  <2>. QED
    BY <1>1, <2>1, EarlyNames, LateNames
<1>4. CASE Binding /\ envs # << >>
  BY <1>1, <1>4, LateNames DEF Binding, NamesInv
<1>5. CASE Declares
  BY <1>1, <1>5, FirstName, LateNames DEF Declares
<1>6. CASE stack # << >> /\ NamesFirst
  BY <1>1, <1>6, NameWaits
<1>. QED
  BY <1>2, <1>3, <1>4, <1>5, <1>6, EveryStep

(* Whatever the text, and however often the descent has backed out of what  *)
(* it entered, the ids in an identifier are those of a symbol with its own  *)
(* name (syntax_analyzer.cpp:257-301 and 894-1003, symbol.cpp:42-72).       *)
THEOREM SyntaxIdentifiersResolve == Spec => []IdentifiersResolve
<1>1. Init => NamesInv
  BY DEF Init, NamesInv, IdentifiersResolve, Headed, Unborn, Bottom, Frame, FuncLabels
<1>2. NamesInv => IdentifiersResolve
  BY DEF NamesInv
<1>3. Owned => SingleOwner
  BY DEF Owned
<1>. QED
  BY <1>1, <1>2, <1>3, NamesInductive, OwnedInitially, OwnedInductive, Initially, Inductive,
     PTL DEF Spec

-----------------------------------------------------------------------------
(* Who calls whom. *)

General == {"general", "general_end"}
Programs == {"program", "program_first", "program_next"}
Decls == {"func_decl", "func_decl_name"} \cup FuncLabels

(* The functions outside of the bodies of functions. *)
Outer == General \cup Programs \cup Decls

(* Where a function begins, that of a caller is further on. *)
Starts == {"general", "program", "func_decl"}

(* Functions whose callers count on what they answer. *)
Blocks == {"block_first", "block_next"}
Sentences == {"statement", "statement_next"}
Elses == {"else", "else_body"}
Answering == Sentences \cup Elses \cup {"identifier"}

(* The function at y may have been called from x. *)
Linked(x, y) ==
    /\ y \notin General /\ x \notin Starts
    /\ x \in General <=> y \in Programs
    /\ x \in Programs <=> y \in Decls
    /\ x = "func_decl_name" => y = "identifier"
    /\ x \in Blocks => y \in Sentences
    /\ x = "if_else" => y \in Elses

StackLinked ==
    /\ stack # << >> => stack[1].at \in General
    /\ \A i \in 1 .. Len(stack) - 1 : Linked(stack[i].at, stack[i + 1].at)

(* The calls inside of functions. *)
InnerPush(f, c) ==
    /\ stack' = Callers \o <<f, c>> /\ ret' = NULL
    /\ f.at \notin Outer /\ c.at \notin Outer \cup {"block_next", "func_call_args"}
    /\ Top.at # "identifier"
    /\ Top.at \in Sentences => f.at \in Sentences
    /\ Top.at \in Elses => f.at \in Elses
    /\ f.at \in Blocks => c.at \in Sentences
    /\ f.at = "if_else" => c.at \in Elses
    /\ f.at = "block_next" => Top.at \in Blocks /\ ret # NULL /\ f.r = ret
    /\ f.at = "func_call_args"
          => ret # NULL /\ f.l = ret /\ FindEnviroment(FuncSymbol(ret))

(* What they answer. *)
InnerPop ==
    /\ stack' = Callers
    /\ Top.at = "identifier" =>
          \/ ret' = NULL /\ UNCHANGED nodes
          \/ /\ ret' = Fresh /\ Len(nodes') = Fresh
             /\ nodes'[Fresh].tok \in Names /\ nodes'[Fresh].right = NULL
    /\ Top.at \in Sentences => ret' = NULL \/ nodes'[ret'].tok = ";"
    /\ Top.at \in Elses => ret' = NULL \/ nodes'[ret'].tok = "else"

InnerTail ==
    /\ Top.at = "sqrt" /\ stack' = Callers \o <<Frame("primary")>>
    /\ UNCHANGED <<ret, nodes>>

InnerMove == (\E f, c : InnerPush(f, c)) \/ InnerPop \/ InnerTail

(* Labels of which nothing is said. *)
Simple(at) ==
    at \notin Outer \cup Blocks \cup Answering \cup {"if_else", "func_call_args"}
Callable(at) == at \notin Outer \cup {"block_next", "func_call_args"}

(* Where the running activation goes on. *)
LEMMA GoesOn ==
    ASSUME TypeOK, NEW label, At(label), NEW at, NEW l, NEW r, NEW tok, NEW n
    PROVE  /\ [Top EXCEPT !.at = at].at = at
           /\ [Top EXCEPT !.at = at, !.l = l].at = at
           /\ [Top EXCEPT !.at = at, !.r = r].at = at
           /\ [Top EXCEPT !.at = at, !.n = n].at = at
           /\ [Top EXCEPT !.at = at, !.l = l, !.tok = tok].at = at
           /\ [Top EXCEPT !.n = n].at = label
           /\ Top.at = label
BY TopRecord, AtFacts

(* What is called. *)
LEMMA CalledAt ==
    /\ \A at : Frame(at).at = at
    /\ \A k : Operator(k).at = "operator"
    /\ \A k : Operand(k).at \in {"operator", "sqrt"}
    /\ Expr.at = "operator" /\ ArgumentList.at = "operator" /\ Identifier.at = "identifier"
    /\ Block.at = "block" /\ Sentence.at = "statement"
<1>1. \A at : Frame(at).at = at
  BY DEF Frame
<1>2. \A k : Operator(k).at = "operator"
  BY DEF Frame, Operator
<1>3. \A k : Operand(k).at \in {"operator", "sqrt"}
  BY <1>1, <1>2 DEF Operand
<1>. QED
  BY <1>1, <1>2, <1>3 DEF Expr, ArgumentList, Identifier, Block, Sentence

(* A simple call ... *)
LEMMA SimpleGoto ==
    ASSUME NEW label, At(label), label # "identifier",
           label \notin Sentences \cup Elses,
           NEW f, NEW c, NEW p, Goto(f, c, p), Simple(f.at), Callable(c.at)
    PROVE  InnerMove
<1>1. InnerPush(f, c)
  BY DEF InnerPush, Goto, At, Simple, Callable, Answering, Blocks
<1>. QED
  BY <1>1 DEF InnerMove

LEMMA SimpleCall ==
    ASSUME TypeOK, NEW label, At(label), label \notin Answering,
           NEW at, Simple(at), NEW c, NEW p, Callable(c.at), NEW l,
           Call(at, c, p) \/ Goto([Top EXCEPT !.at = at, !.l = l], c, p)
    PROVE  InnerMove
<1>. DEFINE f == [Top EXCEPT !.at = at]
            g == [Top EXCEPT !.at = at, !.l = l]
<1>1. f.at = at /\ g.at = at
  BY GoesOn
<1>2. Goto(f, c, p) \/ Goto(g, c, p)
  BY DEF Call
<1>. HIDE DEF f, g
<1>. QED
  BY <1>1, <1>2, SimpleGoto DEF Answering

(* ... and a simple answer. *)
LEMMA SimpleReturn ==
    ASSUME NEW label, At(label), label \notin Answering, stack' = Callers
    PROVE  InnerMove
BY DEF InnerMove, InnerPop, At, Answering

(* A function led by a keyword, ... *)
LEMMA SimpleLeads ==
    ASSUME TypeOK, NEW label, label \notin Answering, NEW token,
           NEW next, Simple(next), NEW c, Callable(c.at), Leads(label, token, next, c)
    PROVE  InnerMove
BY SimpleCall, SimpleReturn, Zenon DEF Leads, Return

(* ... one that goes on after a call, ... *)
LEMMA SimpleThen ==
    ASSUME TypeOK, NEW label, label \notin Answering,
           NEW next, Simple(next), NEW c, Callable(c.at), Then(label, next, c)
    PROVE  InnerMove
BY SimpleCall, SimpleReturn, Zenon DEF Then, Fail, FailAt, Return

(* ... one that answers a node, ... *)
LEMMA SimpleYields ==
    ASSUME NEW label, label \notin Answering, NEW tok, Yields(label, tok)
    PROVE  InnerMove
BY SimpleReturn, Zenon DEF Yields, Fail, FailAt, ReturnNode, Return

(* ... and an attempt of get_primary_. *)
LEMMA SimpleTry ==
    ASSUME TypeOK, NEW label, label \notin Answering,
           NEW next, Simple(next), NEW at, Callable(at), PrimaryTry(label, next, at)
    PROVE  InnerMove
BY SimpleCall, SimpleReturn, CalledAt, Zenon DEF PrimaryTry, Return

(* The labels. *)
LEMMA InnerLabels ==
    /\ \A at \in {"parameter_list_first", "parameter_list_next", "func_call_name",
                  "if_condition", "if_body", "while_condition", "while_body", "return_expr",
                  "assignment_left", "assignment_right", "in_name", "out_expr", "ramset_addr",
                  "ramset_value", "operator_first", "operator_next", "sqrt_operand",
                  "primary_paren", "primary_call", "primary_num", "primary_id"} :
          Simple(at)
    /\ \A at \in {"parameter_list", "func_call", "block", "if", "while", "return",
                  "assignment", "in", "out", "ramset", "operator", "sqrt", "primary",
                  "numeric_literal", "func_call_args", "if_else", "block_first", "block_next"} :
          at \notin Answering
    /\ \A at : Simple(at) => at \notin Answering
    /\ \A at \in {"parameter_list", "func_call", "block", "if", "while", "return",
                  "assignment", "in", "out", "ramset", "operator", "sqrt", "primary",
                  "numeric_literal", "identifier", "statement", "else"} :
          Callable(at)
BY DEF Simple, Callable, Answering, Outer, General, Programs, Decls, FuncLabels, Blocks,
       Sentences, Elses

(* The node that is made. *)
LEMMA MadeNode ==
    ASSUME TypeOK, NEW tok, NEW l, NEW r, nodes' = Append(nodes, Node(tok, l, r))
    PROVE  /\ nodes'[Len(nodes) + 1].tok = tok /\ nodes'[Len(nodes) + 1].right = r
           /\ Len(nodes') = Len(nodes) + 1
<1>. DEFINE node == Node(tok, l, r)
<1>1. nodes \in Seq(Nodes(Len(nodes))) /\ nodes' = Append(nodes, node)
  BY DEF TypeOK, HeapOK
<1>. HIDE DEF node
<1>2. nodes'[Len(nodes) + 1] = node /\ Len(nodes') = Len(nodes) + 1
  BY <1>1, Joined
<1>. QED
  BY <1>2, NodeFields DEF node

-----------------------------------------------------------------------------
(* The functions inside of functions: lists, calls and expressions, ... *)
LEMMA ExpressionsMove ==
    ASSUME IInv,
           \/ GetParameterList \/ ParameterListFirst \/ (ParameterListNext /\ ~Abort)
           \/ GetOperator \/ OperatorFirst \/ OperatorNext
           \/ GetSqrt \/ SqrtOperand
           \/ GetPrimary \/ PrimaryParen \/ PrimaryCall \/ PrimaryNum \/ PrimaryId
           \/ GetFuncCall \/ FuncCallName \/ FuncCallArgs \/ GetNumericLiteral
    PROVE  InnerMove
<1>0. TypeOK
  BY DEF IInv
<1>1. GetParameterList => InnerMove
  BY <1>0, InnerLabels, CalledAt, SimpleCall DEF GetParameterList
<1>2. ASSUME NEW label, At(label), label \notin Answering, NEW list, ParameterListLoop(list)
      PROVE  InnerMove
  BY <1>0, <1>2, InnerLabels, CalledAt, SimpleCall, SimpleReturn DEF ParameterListLoop, Return
<1>3. ParameterListFirst \/ (ParameterListNext /\ ~Abort) => InnerMove
  BY <1>0, <1>2, InnerLabels DEF ParameterListFirst, ParameterListNext
<1>4. GetOperator => InnerMove
  BY <1>0, InnerLabels, CalledAt, SimpleCall DEF GetOperator, Call
<1>5. ASSUME NEW label, At(label), label \notin Answering, NEW node, OperatorLoop(node)
      PROVE  InnerMove
  <2>. DEFINE f == [Top EXCEPT !.at = "operator_next", !.l = node, !.tok = Cur]
  <2>1. f.at = "operator_next"
    BY <1>0, <1>5, GoesOn
  <2>2. Goto(f, Operand(Top.n), pos + 1) \/ Return(node, pos)
    BY <1>5 DEF OperatorLoop
  <2>3. Callable(Operand(Top.n).at)
    BY <1>0, InnerLabels, CalledAt
  <2>. HIDE DEF f
  <2>. QED
    BY <1>5, <2>1, <2>2, <2>3, InnerLabels, SimpleGoto, SimpleReturn DEF Return, Answering
<1>6. OperatorFirst \/ OperatorNext => InnerMove
  BY <1>0, <1>5, InnerLabels DEF OperatorFirst, OperatorNext
<1>7. GetSqrt => InnerMove
  <2>1. CASE At("sqrt") /\ Call("sqrt_operand", Frame("sqrt"), pos + 1)
    BY <1>0, <2>1, InnerLabels, CalledAt, SimpleCall
  <2>. QED
    BY <2>1 DEF GetSqrt, InnerMove, InnerTail, Quiet, heap, At
<1>8. SqrtOperand \/ FuncCallArgs \/ GetNumericLiteral \/ PrimaryParen \/ PrimaryId => InnerMove
  BY <1>0, InnerLabels, SimpleReturn
     DEF SqrtOperand, FuncCallArgs, GetNumericLiteral, PrimaryParen, PrimaryId, ReturnNode,
         Return, Fail, FailAt
<1>9. GetPrimary => InnerMove
  BY <1>0, InnerLabels, CalledAt, SimpleCall DEF GetPrimary
<1>10. PrimaryCall \/ PrimaryNum => InnerMove
  BY <1>0, InnerLabels, SimpleTry DEF PrimaryCall, PrimaryNum
<1>11. GetFuncCall => InnerMove
  <2>. DEFINE f == [Top EXCEPT !.at = "func_call_name", !.n = pos]
  <2>. SUFFICES ASSUME GetFuncCall PROVE InnerMove
    OBVIOUS
  <2>1. At("func_call") /\ Goto(f, Identifier, pos)
    BY DEF GetFuncCall
  <2>2. f.at = "func_call_name"
    BY <1>0, <2>1, GoesOn
  <2>. HIDE DEF f
  <2>. QED
    BY <2>1, <2>2, InnerLabels, CalledAt, SimpleGoto DEF Answering
<1>12. FuncCallName => InnerMove
  <2>. SUFFICES ASSUME FuncCallName PROVE InnerMove
    OBVIOUS
  <2>. DEFINE f == [Top EXCEPT !.at = "func_call_args", !.l = ret]
  <2>1. At("func_call_name")
    BY DEF FuncCallName
  <2>2. CASE Cur = "(" /\ Goto(f, ArgumentList, pos + 1) /\ FindEnviroment(FuncSymbol(ret))
    <3>1. f.at = "func_call_args" /\ f.l = ret
      BY <1>0, <2>1, TopRecord
    <3>. HIDE DEF f
    <3>2. ret # NULL
      BY <2>1, <2>2 DEF IInv, NoCallYet, At, Running
    <3>3. InnerPush(f, ArgumentList)
      BY <2>1, <2>2, <3>1, <3>2, CalledAt
         DEF InnerPush, Goto, At, Outer, General, Programs, Decls, FuncLabels, Blocks,
             Sentences, Elses
    <3>. QED
      BY <3>3 DEF InnerMove
  <2>. QED
    BY <2>1, <2>2, InnerLabels, SimpleReturn DEF FuncCallName, PutBack, FailAt, Return
<1>. QED
  BY <1>1, <1>3, <1>4, <1>6, <1>7, <1>8, <1>9, <1>10, <1>11, <1>12

(* ... statements, ... *)
LEMMA StatementsMove ==
    ASSUME TypeOK,
           \/ GetIf \/ IfCondition \/ IfBody \/ IfElse \/ GetElse \/ ElseBody
           \/ GetWhile \/ WhileCondition \/ WhileBody \/ GetReturn \/ ReturnExpr
           \/ GetAssignment \/ AssignmentLeft \/ AssignmentRight
           \/ GetIn \/ (InName /\ ~Abort) \/ GetOut \/ OutExpr
           \/ GetRamset \/ RamsetAddr \/ RamsetValue
    PROVE  InnerMove
<1>1. GetIf \/ GetWhile \/ GetReturn \/ GetIn \/ GetOut \/ GetRamset => InnerMove
  BY InnerLabels, CalledAt, SimpleLeads
     DEF GetIf, GetWhile, GetReturn, GetIn, GetOut, GetRamset
<1>2. IfCondition \/ WhileCondition => InnerMove
  BY InnerLabels, CalledAt, SimpleThen DEF IfCondition, WhileCondition
<1>3. ReturnExpr \/ OutExpr => InnerMove
  BY InnerLabels, SimpleYields DEF ReturnExpr, OutExpr
<1>4. IfElse \/ WhileBody \/ AssignmentRight \/ (InName /\ ~Abort) \/ RamsetValue => InnerMove
  BY InnerLabels, SimpleReturn
     DEF IfElse, WhileBody, AssignmentRight, InName, RamsetValue, ReturnNode, Return, Fail, FailAt
<1>5. GetAssignment => InnerMove
  BY InnerLabels, CalledAt, SimpleCall DEF GetAssignment
<1>6. AssignmentLeft \/ RamsetAddr => InnerMove
  BY InnerLabels, CalledAt, SimpleCall, SimpleReturn
     DEF AssignmentLeft, RamsetAddr, Return, Fail, FailAt
<1>7. IfBody => InnerMove
  <2>. SUFFICES ASSUME IfBody PROVE InnerMove
    OBVIOUS
  <2>. DEFINE f == [Top EXCEPT !.at = "if_else", !.r = ret]
  <2>1. At("if_body") /\ Goto(f, Frame("else"), pos)
    BY DEF IfBody
  <2>2. f.at = "if_else"
    BY <2>1, GoesOn
  <2>. HIDE DEF f
  <2>3. InnerPush(f, Frame("else"))
    BY <2>1, <2>2, CalledAt
       DEF InnerPush, Goto, At, Outer, General, Programs, Decls, FuncLabels, Blocks,
           Sentences, Elses
  <2>. QED
    BY <2>3 DEF InnerMove
<1>8. GetElse => InnerMove
  <2>. SUFFICES ASSUME GetElse PROVE InnerMove
    OBVIOUS
  <2>. DEFINE f == [Top EXCEPT !.at = "else_body"]
  <2>1. At("else") /\ (Goto(f, Block, pos + 1) \/ Return(NULL, pos))
    BY DEF GetElse, Leads, Call
  <2>2. f.at = "else_body"
    BY <2>1, GoesOn
  <2>. HIDE DEF f
  <2>3. CASE Goto(f, Block, pos + 1)
    <3>1. InnerPush(f, Block)
      BY <2>1, <2>2, <2>3, CalledAt
         DEF InnerPush, Goto, At, Outer, General, Programs, Decls, FuncLabels, Blocks,
             Sentences, Elses
    <3>. QED
      BY <3>1 DEF InnerMove
  <2>4. CASE Return(NULL, pos)
    BY <2>1, <2>4 DEF InnerMove, InnerPop, At, Return, Sentences
  <2>. QED
    BY <2>1, <2>3, <2>4
<1>9. ElseBody => InnerMove
  <2>. SUFFICES ASSUME ElseBody PROVE InnerMove
    OBVIOUS
  <2>1. At("else_body") /\ (ReturnNode("else", NULL, ret, pos) \/ Fail)
    BY DEF ElseBody
  <2>2. CASE ReturnNode("else", NULL, ret, pos)
    BY <2>1, <2>2, MadeNode DEF InnerMove, InnerPop, At, Sentences, ReturnNode, NewNode, Return
  <2>. QED
    BY <2>1, <2>2 DEF InnerMove, InnerPop, At, Fail, FailAt, Return, Sentences
<1>. QED
  BY <1>1, <1>2, <1>3, <1>4, <1>5, <1>6, <1>7, <1>8, <1>9

(* ... blocks and the choice between statements, and identifiers. *)
LEMMA BlocksMove ==
    ASSUME TypeOK,
           \/ GetBlock \/ BlockFirst \/ BlockNext \/ GetStatement \/ StatementNext
           \/ GetIdentifier
    PROVE  InnerMove
<1>1. GetBlock => InnerMove
  <2>. SUFFICES ASSUME GetBlock PROVE InnerMove
    OBVIOUS
  <2>. DEFINE f == [Top EXCEPT !.at = "block_first"]
  <2>1. At("block") /\ (Goto(f, Sentence, pos + 1) \/ Return(NULL, pos))
    BY DEF GetBlock, Leads, Call
  <2>2. f.at = "block_first"
    BY <2>1, GoesOn
  <2>. HIDE DEF f
  <2>3. CASE Goto(f, Sentence, pos + 1)
    <3>1. InnerPush(f, Sentence)
      BY <2>1, <2>2, <2>3, CalledAt
         DEF InnerPush, Goto, At, Outer, General, Programs, Decls, FuncLabels, Blocks,
             Sentences, Elses
    <3>. QED
      BY <3>1 DEF InnerMove
  <2>. QED
    BY <2>1, <2>3, InnerLabels, SimpleReturn DEF Return
<1>2. ASSUME NEW label \in Blocks, At(label), ret # NULL, NEW first, BlockLoop(first, ret)
      PROVE  InnerMove
  <2>1. CASE Goto(BlockNode(first, ret), Sentence, pos)
    <3>1. BlockNode(first, ret).at = "block_next" /\ BlockNode(first, ret).r = ret
      BY <1>2, TopRecord DEF BlockNode
    <3>2. InnerPush(BlockNode(first, ret), Sentence)
      BY <1>2, <2>1, <3>1, CalledAt
         DEF InnerPush, Goto, At, Outer, General, Programs, Decls, FuncLabels, Blocks,
             Sentences, Elses
    <3>. QED
      BY <3>2 DEF InnerMove
  <2>. QED
    BY <1>2, <2>1, BlockLoopCases, InnerLabels, SimpleReturn DEF Return, Blocks
<1>3. BlockFirst \/ BlockNext => InnerMove
  BY <1>2, InnerLabels, SimpleReturn DEF BlockFirst, BlockNext, Return, Blocks, Fail, FailAt
<1>4. ASSUME NEW label \in Sentences, At(label), NEW f, f.at = "statement_next",
             NEW c, Callable(c.at), NEW p, Goto(f, c, p)
      PROVE  InnerMove
  <2>1. InnerPush(f, c)
    BY <1>4 DEF InnerPush, Goto, At, Callable, Outer, General, Programs, Decls, FuncLabels, Blocks,
                Sentences, Elses
  <2>. QED
    BY <2>1 DEF InnerMove
<1>5. \A k \in 1..8 : Callable(Alternatives[k].at)
  BY InnerLabels, CalledAt DEF Alternatives
<1>6. GetStatement => InnerMove
  <2>. SUFFICES ASSUME GetStatement PROVE InnerMove
    OBVIOUS
  <2>. DEFINE f == [Top EXCEPT !.at = "statement_next", !.n = 1]
  <2>1. At("statement") /\ Goto(f, Alternatives[1], pos)
    BY DEF GetStatement
  <2>2. f.at = "statement_next"
    BY <2>1, GoesOn
  <2>. HIDE DEF f
  <2>. QED
    BY <1>4, <1>5, <2>1, <2>2 DEF Sentences
<1>7. StatementNext => InnerMove
  <2>. SUFFICES ASSUME StatementNext PROVE InnerMove
    OBVIOUS
  <2>. DEFINE f == [Top EXCEPT !.n = @ + 1]
  <2>1. /\ At("statement_next")
        /\ \/ Top.n < Len(Alternatives) /\ Goto(f, Alternatives[Top.n + 1], pos)
           \/ \E p : ReturnNode(";", ret, NULL, p)
           \/ Fail
    BY DEF StatementNext
  <2>2. f.at = "statement_next" /\ Top.n \in 1..8
    <3>1. Top.n \in 1..8
      BY <2>1, AtFacts DEF Frames, FrameOK
    <3>. QED
      BY <2>1, <3>1, GoesOn
  <2>. HIDE DEF f
  <2>3. CASE Top.n < Len(Alternatives) /\ Goto(f, Alternatives[Top.n + 1], pos)
    <3>1. Top.n + 1 \in 1..8
      BY <2>2, <2>3, AlternativeCallees
    <3>. QED
      BY <1>4, <1>5, <2>1, <2>2, <2>3, <3>1 DEF Sentences
  <2>4. CASE \E p : ReturnNode(";", ret, NULL, p)
    BY <2>1, <2>4, MadeNode DEF InnerMove, InnerPop, At, Elses, ReturnNode, NewNode, Return
  <2>. QED
    BY <2>1, <2>3, <2>4 DEF InnerMove, InnerPop, At, Elses, Fail, FailAt, Return
<1>8. GetIdentifier => InnerMove
  <2>. SUFFICES ASSUME GetIdentifier PROVE InnerMove
    OBVIOUS
  <2>1. At("identifier") /\ stack' = Callers
    BY DEF GetIdentifier, ReturnNode, Return
  <2>2. CASE Cur \notin Names
    BY <2>1, <2>2 DEF GetIdentifier, Return, Quiet, heap, InnerMove, InnerPop, At, Sentences, Elses
  <2>3. CASE Cur \in Names
    <3>1. PICK node : nodes' = Append(nodes, node) /\ node.tok = Cur /\ node.right = NULL
      <4>. DEFINE named == [Node(Cur, NULL, NULL) EXCEPT
                               !.scope = current_env_id,
                               !.inner = AddedId(Env, Variable(Cur))]
      <4>1. /\ named.tok = Cur /\ named.right = NULL
            /\ Node(Cur, NULL, NULL).tok = Cur /\ Node(Cur, NULL, NULL).right = NULL
        BY DEF Node
      <4>2. nodes' = Append(nodes, named) \/ nodes' = Append(nodes, Node(Cur, NULL, NULL))
        BY <2>3 DEF GetIdentifier, ReturnNode, NewNode
      <4>. HIDE DEF named
      <4>. QED
        BY <4>1, <4>2
    <3>2. ret' = Fresh
      BY <2>3 DEF GetIdentifier, ReturnNode, Return, Fresh
    <3>3. nodes'[Fresh] = node /\ Len(nodes') = Fresh
      BY <3>1, Joined DEF TypeOK, HeapOK, Fresh
    <3>. QED
      BY <2>1, <2>3, <3>1, <3>2, <3>3 DEF InnerMove, InnerPop, At, Sentences, Elses
  <2>. QED
    BY <2>2, <2>3
<1>. QED
  BY <1>1, <1>3, <1>6, <1>7, <1>8

(* Abort and Next. *)
OuterMove ==
    \/ GetGeneral \/ Accept \/ Reject \/ GetProgram \/ ProgramFirst \/ ProgramNext
    \/ GetFuncDecl \/ FuncDeclName \/ FuncDeclParams \/ FuncDeclBody

(* Where the others are. *)
LEMMA InnerAt ==
    ASSUME Declaration \/ Statement \/ Expression, ~OuterMove
    PROVE  stack # << >> /\ Top.at \notin Outer
<1>. DEFINE Inside == \E label : At(label) /\ label \notin Outer
<1>1. {"parameter_list", "parameter_list_first", "parameter_list_next",
       "func_call", "func_call_name", "func_call_args", "if",
       "if_condition", "if_body", "if_else", "else", "else_body", "while",
       "while_condition", "while_body", "return", "return_expr", "block",
       "block_first", "block_next", "statement", "statement_next",
       "assignment", "assignment_left", "assignment_right", "in", "in_name",
       "out", "out_expr", "ramset", "ramset_addr", "ramset_value",
       "operator", "operator_first", "operator_next", "sqrt",
       "sqrt_operand", "primary", "primary_paren", "primary_call",
       "primary_num", "primary_id", "numeric_literal", "identifier"} \cap Outer = {}
  BY DEF Outer, General, Programs, Decls, FuncLabels
<1>2. GetParameterList \/ ParameterListFirst \/ ParameterListNext => Inside
  BY <1>1 DEF GetParameterList, ParameterListFirst, ParameterListNext
<1>3. Statement => Inside
  <2>1. GetIf \/ GetElse \/ GetWhile \/ GetReturn \/ GetIn \/ GetOut \/ GetRamset \/ GetBlock
          => Inside
    BY <1>1 DEF Leads, GetIf, GetElse, GetWhile, GetReturn, GetIn, GetOut, GetRamset, GetBlock
  <2>2. IfCondition \/ WhileCondition \/ ReturnExpr \/ OutExpr => Inside
    BY <1>1 DEF Then, Yields, IfCondition, WhileCondition, ReturnExpr, OutExpr
  <2>3. BlockFirst \/ BlockNext \/ GetStatement \/ StatementNext \/ IfBody \/ IfElse \/ ElseBody
          \/ WhileBody => Inside
    BY <1>1 DEF BlockFirst, BlockNext, GetStatement, StatementNext, IfBody, IfElse, ElseBody,
           WhileBody
  <2>4. GetAssignment \/ AssignmentLeft \/ AssignmentRight \/ InName \/ RamsetAddr \/ RamsetValue
          => Inside
    BY <1>1 DEF GetAssignment, AssignmentLeft, AssignmentRight, InName, RamsetAddr, RamsetValue
  <2>. QED
    BY <2>1, <2>2, <2>3, <2>4 DEF Statement
<1>4. Expression => Inside
  BY <1>1 DEF Expression, PrimaryTry, GetOperator, OperatorFirst, OperatorNext, GetSqrt,
         SqrtOperand, GetPrimary, PrimaryParen, PrimaryCall, PrimaryNum, PrimaryId,
         GetFuncCall, FuncCallName, FuncCallArgs, GetNumericLiteral, GetIdentifier
<1>5. Declaration => GetParameterList \/ ParameterListFirst \/ ParameterListNext
  BY DEF Declaration, OuterMove
<1>6. Inside
  BY <1>2, <1>3, <1>4, <1>5
<1>. QED
  BY <1>6 DEF At, Running

LEMMA EveryMove ==
    ASSUME IInv, [Next]_vars
    PROVE  \/ OuterMove \/ Abort \/ UNCHANGED vars
           \/ InnerMove /\ stack # << >> /\ Top.at \notin Outer
<1>1. TypeOK
  BY DEF IInv
<1>2. Declaration => OuterMove \/ InnerMove \/ Abort
  BY ExpressionsMove, Zenon DEF Declaration, OuterMove
<1>3. Statement => InnerMove \/ Abort
  BY <1>1, StatementsMove, BlocksMove, Zenon DEF Statement
<1>4. Expression => InnerMove
  BY <1>1, ExpressionsMove, BlocksMove, Zenon DEF Expression
<1>. QED
  BY <1>2, <1>3, <1>4, InnerAt, Zenon DEF Next, InvalidBufPos, Terminated

-----------------------------------------------------------------------------
(* The stack. *)

(* A call. *)
LEMMA PushShape ==
    ASSUME TypeOK, stack # << >>, NEW f, NEW c, stack' = Callers \o <<f, c>>
    PROVE  /\ Len(stack) \in Nat \ {0} /\ Len(stack') = Len(stack) + 1 /\ stack' # << >>
           /\ \A i \in 1 .. Len(stack) - 1 : stack'[i] = stack[i]
           /\ stack'[Len(stack)] = f /\ stack'[Len(stack) + 1] = c
           /\ \A i \in 1..Len(stack') :
                 i \in 1 .. Len(stack) - 1 \/ i = Len(stack) \/ i = Len(stack) + 1
<1>. DEFINE T == Frames(Len(nodes)) \cup {f, c}
<1>1. stack \in Seq(T) /\ Len(stack) \in Nat \ {0}
  <2>1. stack \in Seq(Frames(Len(nodes))) /\ Frames(Len(nodes)) \subseteq T
    BY DEF TypeOK, StackOK
  <2>. QED
    BY <2>1, SeqMonotonic, TopProperties
<1>2. f \in T /\ c \in T /\ stack' = Replaced(stack, f, c)
  BY DEF Callers, Replaced, Popped
<1>. HIDE DEF T
<1>3. /\ Len(Replaced(stack, f, c)) = Len(stack) + 1
      /\ \A i \in 1 .. Len(stack) - 1 : Replaced(stack, f, c)[i] = stack[i]
      /\ Replaced(stack, f, c)[Len(stack)] = f
      /\ Replaced(stack, f, c)[Len(stack) + 1] = c
  <2>1. ASSUME NEW U, stack \in Seq(U), stack # << >>, f \in U, c \in U
        PROVE  /\ Len(Replaced(stack, f, c)) = Len(stack) + 1
               /\ \A i \in 1 .. Len(stack) - 1 : Replaced(stack, f, c)[i] = stack[i]
               /\ Replaced(stack, f, c)[Len(stack)] = f
               /\ Replaced(stack, f, c)[Len(stack) + 1] = c
    BY <2>1, GotoProperties
  <2>. QED
    BY <1>1, <1>2, <2>1
<1>4. stack' # << >>
  <2>1. Len(stack') # 0
    BY <1>1, <1>2, <1>3
  <2>. QED
    BY <2>1
<1>. QED
  BY <1>1, <1>2, <1>3, <1>4

(* A return. *)
LEMMA PopShape ==
    ASSUME TypeOK, stack # << >>, stack' = Callers
    PROVE  /\ Len(stack) \in Nat \ {0} /\ Len(stack') = Len(stack) - 1
           /\ \A i \in 1 .. Len(stack) - 1 : stack'[i] = stack[i]
           /\ \A i \in 1..Len(stack') : i \in 1 .. Len(stack) - 1
           /\ stack' # << >> => /\ Len(stack) - 1 \in 1 .. Len(stack) - 1
                               /\ Top' = stack[Len(stack) - 1]
<1>1. stack \in Seq(Frames(Len(nodes))) /\ Len(stack) \in Nat \ {0}
  BY TopProperties DEF TypeOK, StackOK
<1>2. /\ Len(stack') = Len(stack) - 1 /\ \A i \in 1 .. Len(stack) - 1 : stack'[i] = stack[i]
      /\ stack' \in Seq(Frames(Len(nodes)))
  BY <1>1, PopProperties DEF Callers, Popped
<1>3. stack' # << >> => Len(stack') # 0
  BY <1>2, EmptySeq
<1>. QED
  BY <1>1, <1>2, <1>3 DEF Top

(* A return that is at once a call. *)
LEMMA TailShape ==
    ASSUME TypeOK, stack # << >>, NEW c, stack' = Callers \o <<c>>
    PROVE  /\ Len(stack) \in Nat \ {0} /\ Len(stack') = Len(stack)
           /\ \A i \in 1 .. Len(stack) - 1 : stack'[i] = stack[i]
           /\ stack'[Len(stack)] = c
           /\ \A i \in 1..Len(stack') : i \in 1 .. Len(stack) - 1 \/ i = Len(stack)
<1>. DEFINE T == Frames(Len(nodes)) \cup {c}
<1>1. stack \in Seq(T) /\ Len(stack) \in Nat \ {0}
  <2>1. stack \in Seq(Frames(Len(nodes))) /\ Frames(Len(nodes)) \subseteq T
    BY DEF TypeOK, StackOK
  <2>. QED
    BY <2>1, SeqMonotonic, TopProperties
<1>2. c \in T /\ stack' = Popped(stack) \o <<c>>
  BY DEF Callers, Popped
<1>. HIDE DEF T
<1>3. /\ Popped(stack) \in Seq(T) /\ Len(Popped(stack)) = Len(stack) - 1
      /\ \A i \in 1 .. Len(stack) - 1 : Popped(stack)[i] = stack[i]
  BY <1>1, PopProperties
<1>4. /\ Len(stack') = Len(stack) - 1 + 1
      /\ \A i \in 1 .. Len(stack) - 1 : stack'[i] = Popped(stack)[i]
      /\ stack'[Len(stack)] = c
  BY <1>1, <1>2, <1>3
<1>. QED
  BY <1>1, <1>3, <1>4

(* What calls keep of where they go on. *)
Keeps(x, y) ==
    /\ x \in General <=> y \in General
    /\ x \in Programs <=> y \in Programs
    /\ x \in Decls <=> y \in Decls
    /\ x # "identifier"
    /\ x \in Sentences => y \in Sentences
    /\ x \in Elses => y \in Elses

(* Calls and returns keep the stack linked. *)
LEMMA LinkedCases ==
    ASSUME TypeOK, StackLinked, stack # << >>,
           \/ \E f, c : /\ stack' = Callers \o <<f, c>>
                        /\ Keeps(Top.at, f.at) /\ Linked(f.at, c.at)
           \/ stack' = Callers
           \/ InnerTail
    PROVE  StackLinked'
<1>. DEFINE n == Len(stack)
<1>0. Top = stack[n]
  BY DEF Top
<1>1. CASE \E f, c : /\ stack' = Callers \o <<f, c>>
                    /\ Keeps(Top.at, f.at) /\ Linked(f.at, c.at)
  <2>1. PICK f, c : /\ stack' = Callers \o <<f, c>>
                    /\ Keeps(Top.at, f.at) /\ Linked(f.at, c.at)
    BY <1>1
  <2>2. /\ n \in Nat \ {0} /\ Len(stack') = n + 1
        /\ \A i \in 1 .. n - 1 : stack'[i] = stack[i]
        /\ stack'[n] = f /\ stack'[n + 1] = c
    BY <2>1, PushShape
  <2>3. stack'[1].at \in General
    <3>1. CASE n = 1
      BY <1>0, <2>1, <2>2, <3>1 DEF StackLinked, Keeps
    <3>2. CASE n # 1
      <4>1. 1 \in 1 .. n - 1
        <5>1. n \in Nat \ {0}
          BY <2>2
        <5>. HIDE DEF n
        <5>. QED
          BY <3>2, <5>1
      <4>2. stack'[1] = stack[1]
        BY <2>2, <4>1
      <4>. QED
        BY <4>2 DEF StackLinked
    <3>. QED
      BY <3>1, <3>2
  <2>4. ASSUME NEW i \in 1 .. Len(stack') - 1 PROVE Linked(stack'[i].at, stack'[i + 1].at)
    <3>1. CASE i = n
      BY <2>1, <2>2, <3>1
    <3>2. CASE i = n - 1
      <4>1. Linked(stack[n - 1].at, Top.at)
        BY <1>0, <2>2, <3>2 DEF StackLinked
      <4>2. Linked(stack[n - 1].at, f.at)
        BY <2>1, <4>1 DEF Linked, Keeps
      <4>. QED
        BY <2>2, <3>2, <4>2
    <3>3. CASE i \in 1 .. n - 2
      BY <2>2, <3>3 DEF StackLinked
    <3>. QED
      BY <2>2, <3>1, <3>2, <3>3
  <2>. QED
    BY <2>3, <2>4 DEF StackLinked
<1>2. CASE stack' = Callers
  <2>1. /\ n \in Nat \ {0} /\ Len(stack') = n - 1
        /\ \A i \in 1 .. n - 1 : stack'[i] = stack[i]
        /\ stack' # << >> => n - 1 \in 1 .. n - 1
    BY <1>2, PopShape
  <2>. QED
    BY <2>1 DEF StackLinked
<1>3. CASE InnerTail
  <2>. DEFINE c == Frame("primary")
  <2>1. /\ n \in Nat \ {0} /\ Len(stack') = n
        /\ \A i \in 1 .. n - 1 : stack'[i] = stack[i]
        /\ stack'[n] = c /\ c.at = "primary" /\ Top.at = "sqrt"
    BY <1>3, TailShape, CalledAt DEF InnerTail
  <2>. HIDE DEF c
  <2>2. n # 1
    BY <1>0, <2>1 DEF StackLinked, General
  <2>3. ASSUME NEW i \in 1 .. n - 1 PROVE Linked(stack'[i].at, stack'[i + 1].at)
    <3>1. Linked(stack[i].at, stack[i + 1].at)
      BY <2>1, <2>3 DEF StackLinked
    <3>2. CASE i = n - 1
      <4>1. Linked(stack[i].at, "sqrt")
        BY <1>0, <2>1, <3>1, <3>2
      <4>2. Linked(stack[i].at, "primary")
        BY <4>1 DEF Linked, General, Programs, Decls, FuncLabels, Sentences, Elses
      <4>. QED
        BY <2>1, <3>2, <4>2
    <3>. QED
      BY <2>1, <3>1, <3>2
  <2>. QED
    BY <2>1, <2>2, <2>3 DEF StackLinked
<1>. QED
  BY <1>1, <1>2, <1>3

(* The outer functions, by what they change. *)
OuterPush(f, c) ==
    /\ stack' = Callers \o <<f, c>> /\ ret' = NULL
    /\ Keeps(Top.at, f.at) /\ Linked(f.at, c.at)

(* Where the outer functions go. *)
LEMMA OuterShape ==
    ASSUME TypeOK, OuterMove
    PROVE  /\ stack # << >> /\ Top.at \in Outer
           /\ stack' = Callers \/ \E f, c : OuterPush(f, c)
<1>. USE DEF Outer, General, Programs, Decls, FuncLabels
<1>1. stack # << >> /\ Top.at \in Outer
  BY DEF OuterMove, GetGeneral, Accept, Reject, GetProgram, ProgramFirst, ProgramNext, GetFuncDecl,
         Leads, FuncDeclName, FuncDeclParams, FuncDeclBody, At, Running
<1>2. ASSUME NEW label, At(label), NEW f, NEW c, NEW p, Goto(f, c, p),
             Keeps(label, f.at), Linked(f.at, c.at)
      PROVE  OuterPush(f, c)
  BY <1>2 DEF OuterPush, Goto, At
<1>. USE DEF Keeps, Linked, Starts, Blocks, Sentences, Elses
<1>3. ASSUME GetGeneral PROVE \E f : OuterPush(f, Frame("program"))
  <2>. DEFINE f == [Top EXCEPT !.at = "general_end"]
  <2>1. At("general") /\ Goto(f, Frame("program"), pos)
    BY <1>3 DEF GetGeneral, Call
  <2>2. f.at = "general_end"
    BY <2>1, GoesOn
  <2>. HIDE DEF f
  <2>. QED
    BY <1>2, <2>1, <2>2, CalledAt
<1>4. ASSUME GetProgram PROVE \E f : OuterPush(f, Frame("func_decl"))
  <2>. DEFINE f == [Top EXCEPT !.at = "program_first"]
  <2>1. At("program") /\ Goto(f, Frame("func_decl"), pos)
    BY <1>4 DEF GetProgram, Call
  <2>2. f.at = "program_first"
    BY <2>1, GoesOn
  <2>. HIDE DEF f
  <2>. QED
    BY <1>2, <2>1, <2>2, CalledAt
<1>5. ASSUME ProgramFirst
      PROVE  stack' = Callers \/ \E f : OuterPush(f, Frame("func_decl"))
  <2>. DEFINE f == [Top EXCEPT !.at = "program_next", !.l = ret]
  <2>1. At("program_first") /\ (stack' = Callers \/ Goto(f, Frame("func_decl"), pos))
    BY <1>5 DEF ProgramFirst, Return
  <2>2. f.at = "program_next"
    BY <2>1, GoesOn
  <2>. HIDE DEF f
  <2>. QED
    BY <1>2, <2>1, <2>2, CalledAt
<1>6. ASSUME ProgramNext
      PROVE  stack' = Callers \/ \E f : OuterPush(f, Frame("func_decl"))
  <2>. DEFINE f == [Top EXCEPT !.l = Len(nodes) + 1]
  <2>1. At("program_next") /\ (stack' = Callers \/ Goto(f, Frame("func_decl"), pos))
    BY <1>6 DEF ProgramNext, Return
  <2>2. f.at = "program_next"
    BY <2>1, TopRecord DEF At
  <2>. HIDE DEF f
  <2>. QED
    BY <1>2, <2>1, <2>2, CalledAt
<1>7. ASSUME GetFuncDecl
      PROVE  stack' = Callers \/ \E f : OuterPush(f, Identifier)
  <2>. DEFINE f == [Top EXCEPT !.at = "func_decl_name"]
  <2>1. At("func_decl") /\ (stack' = Callers \/ Goto(f, Identifier, pos + 1))
    BY <1>7 DEF GetFuncDecl, Leads, Call, Return
  <2>2. f.at = "func_decl_name"
    BY <2>1, GoesOn
  <2>. HIDE DEF f
  <2>. QED
    BY <1>2, <2>1, <2>2, CalledAt
<1>8. ASSUME FuncDeclName
      PROVE  stack' = Callers \/ \E f : OuterPush(f, Frame("parameter_list"))
  <2>. DEFINE f == [Top EXCEPT !.at = "func_decl_params", !.l = ret, !.n = AddEnviroment]
  <2>1. At("func_decl_name") /\ (stack' = Callers \/ Goto(f, Frame("parameter_list"), pos + 1))
    BY <1>8 DEF FuncDeclName, Return, Fail, FailAt
  <2>2. f.at = "func_decl_params"
    BY <2>1, TopRecord
  <2>. HIDE DEF f
  <2>. QED
    BY <1>2, <2>1, <2>2, CalledAt
<1>9. ASSUME FuncDeclParams
      PROVE  stack' = Callers \/ \E f : OuterPush(f, Block)
  <2>. DEFINE f == [Top EXCEPT !.at = "func_decl_body", !.r = ret]
  <2>1. At("func_decl_params") /\ (stack' = Callers \/ Goto(f, Block, pos + 1))
    BY <1>9 DEF FuncDeclParams, Return, Fail, FailAt
  <2>2. f.at = "func_decl_body"
    BY <2>1, GoesOn
  <2>. HIDE DEF f
  <2>. QED
    BY <1>2, <2>1, <2>2, CalledAt
<1>10. FuncDeclBody \/ Accept \/ Reject => stack' = Callers
  BY DEF FuncDeclBody, Accept, Reject, Return, Fail, FailAt
<1>. QED
  BY <1>1, <1>3, <1>4, <1>5, <1>6, <1>7, <1>8, <1>9, <1>10 DEF OuterMove

LEMMA LinkedInductive == IInv /\ StackLinked /\ [Next]_vars => StackLinked'
<1>. SUFFICES ASSUME IInv, StackLinked, [Next]_vars PROVE StackLinked'
  OBVIOUS
<1>1. TypeOK
  BY DEF IInv
<1>2. CASE OuterMove
  BY <1>1, <1>2, OuterShape, LinkedCases DEF OuterPush
<1>3. CASE InnerMove /\ stack # << >> /\ Top.at \notin Outer
  <2>1. ASSUME NEW f, NEW c, InnerPush(f, c)
        PROVE  Keeps(Top.at, f.at) /\ Linked(f.at, c.at) /\ stack' = Callers \o <<f, c>>
    BY <1>3, <2>1 DEF InnerPush, Keeps, Linked, Starts, Outer, General, Programs, Decls
  <2>. QED
    BY <1>1, <1>3, <2>1, LinkedCases DEF InnerMove, InnerPop
<1>4. CASE Abort \/ UNCHANGED vars
  BY <1>4 DEF Abort, vars, StackLinked
<1>. QED
  BY <1>2, <1>3, <1>4, EveryMove

-----------------------------------------------------------------------------
(* The functions that have names. *)

(* The first symbol of an environment is its function, the others are not. *)
Led(env) ==
    /\ env # << >> /\ env[1].type = "FUNC"
    /\ \A j \in 2..Len(env) : env[j].type # "FUNC"

FuncsFirst == \A i \in 1..Len(envs) : Led(envs[i])

(* There is a function of that name up to environment e. *)
Known(str, e) == \E i \in 1 .. e + 1 : envs[i][1] = Function(str)

(* A variable does not change that. *)
LEMMA LedStays ==
    ASSUME NEW env \in Seq(Symbols), Led(env), NEW sym \in Symbols, sym.type = "VAR"
    PROVE  Led(AddSymbol(env, sym))
<1>1. CASE AddSymbol(env, sym) = env
  BY <1>1
<1>2. CASE AddSymbol(env, sym) = Append(env, sym)
  <2>. DEFINE more == Append(env, sym)
  <2>1. /\ Len(more) = Len(env) + 1 /\ more[Len(env) + 1] = sym /\ more # << >>
        /\ \A i \in 1..Len(env) : more[i] = env[i]
        /\ Len(env) \in Nat \ {0}
    BY EmptySeq DEF Led
  <2>. HIDE DEF more
  <2>2. Led(more)
    BY <2>1 DEF Led
  <2>. QED
    BY <1>2, <2>2 DEF more
<1>. QED
  BY <1>1, <1>2 DEF AddSymbol

LEMMA FuncsFirstInductive == IInv /\ FuncsFirst /\ [Next]_vars => FuncsFirst'
<1>. SUFFICES ASSUME IInv, FuncsFirst, [Next]_vars PROVE FuncsFirst'
  OBVIOUS
<1>1. /\ TypeOK /\ envs \in Seq(Seq(Symbols))
      /\ \A i \in 1..Len(envs) : envs[i] \in Seq(Symbols)
  BY ElementOfSeq DEF IInv, TypeOK, TablesOK
<1>2. CASE UNCHANGED envs
  BY <1>2 DEF FuncsFirst
<1>3. CASE /\ Top.at = "func_decl_name" /\ ret # NULL /\ FuncSymbol(ret) \in Symbols
           /\ envs' = Append(envs, AddSymbol(CreateEnv, FuncSymbol(ret)))
  <2>. DEFINE sym == FuncSymbol(ret)
  <2>1. AddSymbol(CreateEnv, sym) = <<sym>> /\ sym.type = "FUNC"
    BY <1>3, CreatedEnv DEF FuncSymbol, Function
  <2>. HIDE DEF sym
  <2>2. Led(<<sym>>)
    BY <2>1 DEF Led
  <2>3. /\ Len(envs') = Len(envs) + 1 /\ envs'[Len(envs) + 1] = <<sym>>
        /\ \A i \in 1..Len(envs) : envs'[i] = envs[i]
    BY <1>1, <1>3, <2>1, AppendProperties DEF sym
  <2>. SUFFICES ASSUME NEW i \in 1..Len(envs') PROVE Led(envs'[i])
    BY DEF FuncsFirst
  <2>4. i \in 1..Len(envs) \/ i = Len(envs) + 1
    BY <1>1, <2>3
  <2>. QED
    BY <2>2, <2>3, <2>4 DEF FuncsFirst
<1>4. CASE envs # << >> /\ \E sym \in Symbols : sym.type = "VAR" /\ AddToEnv(sym)
  <2>. DEFINE e == current_env_id + 1
  <2>1. PICK sym \in Symbols : sym.type = "VAR" /\ AddToEnv(sym)
    BY <1>4
  <2>2. e \in 1..Len(envs)
    BY <1>1, <1>4, EnvProperties
  <2>3. PICK env : envs' = [envs EXCEPT ![e] = env] /\ env = AddSymbol(envs[e], sym)
    BY <2>1, <2>2 DEF AddToEnv
  <2>. HIDE DEF e
  <2>4. Led(env)
    BY <1>1, <2>1, <2>2, <2>3, LedStays DEF FuncsFirst
  <2>5. /\ Len(envs') = Len(envs) /\ envs'[e] = env
        /\ \A i \in 1..Len(envs) : i # e => envs'[i] = envs[i]
    BY <1>1, <2>2, <2>3
  <2>. QED
    BY <2>4, <2>5 DEF FuncsFirst
<1>. QED
  BY <1>2, <1>3, <1>4, TablesOrSame DEF TablesStep

(* find_enviroment finds a function by its name. *)
LEMMA FoundKnown ==
    ASSUME TypeOK, FuncsFirst, NEW str, FindEnviroment(Function(str))
    PROVE  Known(str, current_env_id)
<1>1. PICK i \in 1 .. current_env_id + 1 : FindSymbol(envs[i], Function(str)) # -1
  BY DEF FindEnviroment
<1>2. i \in 1..Len(envs) /\ envs[i] \in Seq(Symbols) /\ Led(envs[i])
  <2>1. i \in 1..Len(envs)
    BY <1>1 DEF TypeOK, TablesOK
  <2>. QED
    BY <2>1, ElementOfSeq DEF TypeOK, TablesOK, FuncsFirst
<1>. DEFINE sym == Function(str)
            id == FindSymbol(envs[i], sym)
<1>3. sym.type = "FUNC"
  BY DEF Function
<1>4. id \in -1 .. Len(envs[i]) - 1 /\ (id >= 0 => envs[i][id + 1] = sym)
  BY <1>2, FindSymbolProperties DEF SymbolAt
<1>5. id # -1 /\ Len(envs[i]) \in Nat
  BY <1>1, <1>2
<1>. HIDE DEF sym, id
<1>6. id + 1 \in 1..Len(envs[i]) /\ envs[i][id + 1] = sym
  BY <1>4, <1>5
<1>7. id + 1 = 1
  BY <1>2, <1>3, <1>5, <1>6 DEF Led
<1>. QED
  BY <1>6, <1>7 DEF Known, sym

(* A head of an environment stays it. *)
LEMMA FirstStays ==
    ASSUME TypeOK, EnvsGrow, FuncsFirst
    PROVE  /\ \A i \in 1..Len(envs) : envs'[i][1] = envs[i][1]
           /\ \A i \in 1 .. current_env_id + 1 : envs'[i][1] = envs[i][1]
           /\ \A str : \A e \in -1..current_env_id : Known(str, e) => Known(str, e)'
<1>1. current_env_id = Len(envs) - 1 /\ Len(envs) \in Nat
  BY DEF TypeOK, TablesOK
<1>2. ASSUME NEW i \in 1..Len(envs) PROVE envs'[i][1] = envs[i][1]
  <2>1. envs[i] \in Seq(Symbols) /\ envs[i] # << >> /\ Extends(envs[i], envs'[i])
    BY ElementOfSeq DEF TypeOK, TablesOK, FuncsFirst, Led, EnvsGrow
  <2>2. 1 \in 1..Len(envs[i])
    BY <2>1, EmptySeq
  <2>. QED
    BY <2>1, <2>2 DEF Extends
<1>3. \A i \in 1 .. current_env_id + 1 : i \in 1..Len(envs)
  BY <1>1
<1>4. ASSUME NEW str, NEW e \in -1..current_env_id, Known(str, e) PROVE Known(str, e)'
  <2>1. PICK i \in 1 .. e + 1 : envs[i][1] = Function(str)
    BY <1>4 DEF Known
  <2>2. i \in 1..Len(envs)
    BY <1>1, <2>1
  <2>. QED
    BY <1>2, <2>1, <2>2 DEF Known
<1>. QED
  BY <1>2, <1>3, <1>4

-----------------------------------------------------------------------------
(* The regions of the tree. *)

(* Every node belongs to the environment it was made in.  The names of the  *)
(* functions and the nodes that join their declarations belong to none, and *)
(* have -1 in of.  With a right child they make the spine of the tree, and *)
(* the names among them own an environment.                                *)
Spine(of) == {v \in 1..Len(nodes) : of[v] = -1 /\ nodes[v].right # NULL}
Own(of) == {v \in Spine(of) : nodes[v].tok \in Names}
Here(of, v) == v = NULL \/ of[v] = current_env_id

(* Node v belongs to an environment, and so does what is below it. *)
Within(of, v) ==
    /\ \A c \in {nodes[v].left, nodes[v].right} \ {NULL} : of[c] = of[v]
    /\ nodes[v].tok \in Names =>
          nodes[v].right = NULL /\ nodes[v].scope = of[v] /\ EnteredThere(v)
    /\ nodes[v].tok = "call" =>
          nodes[v].left # NULL /\ Known(nodes[nodes[v].left].tok, of[v])

(* Node v belongs to none.  A function is the only owner of its environment *)
(* and what is below it belongs there.                                     *)
Owning(of, v) ==
    /\ nodes[v].scope \in 0..current_env_id /\ nodes[v].inner = 0
    /\ envs[nodes[v].scope + 1][1] = Function(nodes[v].tok)
    /\ \A c \in {nodes[v].left, nodes[v].right} \ {NULL} : of[c] = nodes[v].scope
    /\ \A w \in Own(of) : nodes[w].scope = nodes[v].scope => w = v

OutsideFunctions(of, v) ==
    /\ nodes[v].tok # "call"
    /\ v \in Own(of) => Owning(of, v)
    /\ v \in Spine(of) \ Own(of) => {nodes[v].left, nodes[v].right} \subseteq Spine(of)

Parted(of) ==
    \A v \in 1..Len(nodes) : IF of[v] = -1 THEN OutsideFunctions(of, v) ELSE Within(of, v)

(* What an activation holds.  A declaration waits with a name that owns     *)
(* nothing yet for its body.                                               *)
Declaring(of, f) ==
    /\ f.n = current_env_id /\ of[f.l] = -1
    /\ nodes[f.l].tok \in Names /\ nodes[f.l].right = NULL
    /\ envs[current_env_id + 1][1] = Function(nodes[f.l].tok)
    /\ \A w \in Own(of) : nodes[w].scope # current_env_id

Holds(of, f) ==
    /\ f.at \notin Outer => Here(of, f.l) /\ Here(of, f.r)
    /\ f.at \in Programs => f.l \in Spine(of) \cup {NULL}
    /\ f.at = "program_next" => f.l # NULL
    /\ f.at \in FuncLabels => Declaring(of, f)
    /\ f.at = "func_decl_body" => Here(of, f.r)
    /\ f.at = "block_next" => f.r # NULL /\ nodes[f.r].tok = ";"
    /\ f.at = "func_call_args" => Known(nodes[f.l].tok, current_env_id)

(* What an activation at the label is answered. *)
Answered(of, at, v) ==
    /\ IF at \in General \cup Programs THEN v \in Spine(of) ELSE Here(of, v)
    /\ at = "func_decl_name" => nodes[v].tok \in Names /\ nodes[v].right = NULL
    /\ at \in Blocks => nodes[v].tok = ";"
    /\ at = "if_else" => nodes[v].tok = "else"

Activations == {stack[i] : i \in 1..Len(stack)}

Region(of) ==
    /\ of \in [1..Len(nodes) -> -1..current_env_id]
    /\ Parted(of)
    /\ \A f \in Activations : Holds(of, f)
    /\ stack # << >> /\ ret # NULL => Answered(of, Top.at, ret)

(* A declaration may begin, or has just begun or ended. *)
Ready ==
    \/ \E f \in Activations : f.at \in Starts \cup {"func_decl_name"}
    \/ stack # << >> /\ Top.at \in {"program_first", "program_next"} /\ ret # NULL

(* Every environment has its function, but the last one may be under way or *)
(* given up.                                                               *)
Full(of) ==
    \A k \in 0..current_env_id :
        \/ k = current_env_id /\ ~Ready
        \/ \E d \in Own(of) : nodes[d].scope = k

(* The spine hangs from get_program_ or from the root: a set that holds     *)
(* where it hangs, and what the nodes that join it hold, holds all of it.  *)
Hook(v) ==
    \/ \E f \in Activations : f.at = "program_next" /\ f.l = v
    \/ /\ stack # << >> /\ Top.at \in {"program_first", "program_next", "general_end"}
       /\ ret = v
    \/ status = "accepted" /\ nodes[root].left = v

Covers(of, C) ==
    /\ \A v \in Spine(of) : Hook(v) => v \in C
    /\ \A v \in C \cap (Spine(of) \ Own(of)) : {nodes[v].left, nodes[v].right} \subseteq C

Gathered(of) ==
    status \in {"running", "accepted"} => \A C : Covers(of, C) => Spine(of) \subseteq C

HasRoot(of) ==
    status = "accepted" =>
        /\ root \in 1..Len(nodes) /\ nodes[root].tok # "call"
        /\ nodes[root].right = NULL /\ nodes[root].left \in Spine(of)
        /\ stack = << >>

Regions == \E of : Region(of) /\ Full(of) /\ Gathered(of) /\ HasRoot(of)

-----------------------------------------------------------------------------
(* What stays while the regions grow. *)

(* The nodes that belong to no environment are not changed. *)
Undisturbed(o, p) ==
    /\ 1..Len(nodes) \subseteq 1..Len(nodes')
    /\ \A v \in 1..Len(nodes) :
          /\ p[v] = o[v] /\ nodes'[v].tok = nodes[v].tok
          /\ o[v] = -1 =>
                /\ nodes'[v].left = nodes[v].left /\ nodes'[v].right = nodes[v].right
                /\ nodes'[v].scope = nodes[v].scope /\ nodes'[v].inner = nodes[v].inner
    /\ \A v \in 1..Len(nodes') : v \notin 1..Len(nodes) /\ p[v] = -1 =>
          nodes'[v].tok \notin Names \/ nodes'[v].right = NULL
    /\ UNCHANGED current_env_id /\ EnvsGrow

(* The spine takes new nodes, and its own keep what they hold. *)
SpineGrown(o, p, new) ==
    /\ Spine(p)' = Spine(o) \cup new
    /\ \A v \in Spine(o) : /\ nodes'[v].tok = nodes[v].tok
                           /\ nodes'[v].left = nodes[v].left
                           /\ nodes'[v].right = nodes[v].right
                           /\ nodes'[v].scope = nodes[v].scope

Follows(o, new) == \E p : Region(p)' /\ SpineGrown(o, p, new)

LEMMA SettledSets ==
    ASSUME NEW o, NEW p, Undisturbed(o, p)
    PROVE  /\ Spine(o) \subseteq Spine(p)' /\ Own(p)' = Own(o)
           /\ \A v \in Own(o) : nodes'[v].scope = nodes[v].scope
<1>1. Spine(o) \subseteq Spine(p)'
  BY DEF Undisturbed, Spine
<1>2. Own(o) \subseteq Own(p)'
  BY <1>1 DEF Undisturbed, Own, Spine
<1>3. ASSUME NEW v \in Own(p)' PROVE v \in Own(o)
  BY <1>3 DEF Undisturbed, Own, Spine
<1>. QED
  BY <1>1, <1>2, <1>3 DEF Own, Spine, Undisturbed

LEMMA SettledGrows ==
    ASSUME NEW o, NEW p, Undisturbed(o, p), NEW new, new \subseteq 1..Len(nodes'),
           \A v \in 1..Len(nodes') : v \in 1..Len(nodes) => v \notin new,
           \A v \in 1..Len(nodes') : v \notin 1..Len(nodes) => (v \in Spine(p)' <=> v \in new)
    PROVE  SpineGrown(o, p, new)
<1>1. Spine(o) \subseteq Spine(p)'
  BY SettledSets
<1>2. \A v \in 1..Len(nodes) : v \in Spine(p)' => v \in Spine(o)
  BY DEF Undisturbed, Spine
<1>3. Spine(p)' \subseteq 1..Len(nodes') /\ Spine(o) \subseteq 1..Len(nodes)
  BY DEF Spine
<1>4. Spine(p)' = Spine(o) \cup new
  BY <1>1, <1>2, <1>3
<1>. QED
  BY <1>4 DEF Undisturbed, Spine, SpineGrown

(* What was called known still is. *)
LEMMA KnownStays ==
    ASSUME TypeOK, FuncsFirst, EnvsGrow, UNCHANGED current_env_id,
           NEW str, NEW e \in -1..current_env_id, Known(str, e)
    PROVE  Known(str, e)'
BY FirstStays

(* A pointer of a frame. *)
LEMMA FramePointers ==
    ASSUME TypeOK, NEW f \in Frames(Len(nodes))
    PROVE  /\ f.l # NULL => f.l \in 1..Len(nodes)
           /\ f.r # NULL => f.r \in 1..Len(nodes)
           /\ f.at \in FuncLabels \cup {"func_call_args"} => f.l # NULL
           /\ f.n \in Nat
BY DEF TypeOK, HeapOK, Frames, FrameOK, NULL, FuncLabels

LEMMA HereStays ==
    ASSUME NEW o, NEW p, Undisturbed(o, p), NEW v, v # NULL => v \in 1..Len(nodes), Here(o, v)
    PROVE  Here(p, v)'
BY DEF Undisturbed, Here

(* A frame that waits. *)
LEMMA SettledFrame ==
    ASSUME TypeOK, FuncsFirst, NEW o, NEW p, Undisturbed(o, p),
           NEW f \in Frames(Len(nodes)), Holds(o, f)
    PROVE  Holds(p, f)'
<1>1. /\ f.l # NULL => f.l \in 1..Len(nodes)
      /\ f.r # NULL => f.r \in 1..Len(nodes)
      /\ f.at \in FuncLabels \cup {"func_call_args"} => f.l # NULL
  BY FramePointers
<1>2. /\ Spine(o) \subseteq Spine(p)' /\ Own(p)' = Own(o)
      /\ \A v \in Own(o) : nodes'[v].scope = nodes[v].scope
      /\ \A v \in 1..Len(nodes) : nodes'[v].tok = nodes[v].tok
      /\ UNCHANGED current_env_id /\ EnvsGrow
  BY SettledSets DEF Undisturbed
<1>3. (f.at \notin Outer \/ f.at = "func_decl_body") /\ Here(o, f.r) => Here(p, f.r)'
  BY <1>1, HereStays
<1>4. Here(o, f.l) => Here(p, f.l)'
  BY <1>1, HereStays
<1>5. ASSUME f.at \in FuncLabels PROVE Declaring(p, f)'
  <2>1. f.l \in 1..Len(nodes) /\ Declaring(o, f)
    BY <1>1, <1>5 DEF Holds
  <2>2. p[f.l] = -1 /\ nodes'[f.l].tok = nodes[f.l].tok /\ nodes'[f.l].right = nodes[f.l].right
    BY <2>1 DEF Declaring, Undisturbed
  <2>3. envs'[current_env_id + 1][1] = envs[current_env_id + 1][1]
    <3>1. current_env_id + 1 \in 1 .. current_env_id + 1
      <4>1. f.n \in Nat
        BY FramePointers
      <4>. QED
        BY <2>1, <4>1 DEF Declaring
    <3>. QED
      BY <1>2, <3>1, FirstStays
  <2>. QED
    BY <1>2, <2>1, <2>2, <2>3 DEF Declaring
<1>6. f.at = "func_call_args" => Known(nodes[f.l].tok, current_env_id)'
  <2>. SUFFICES ASSUME f.at = "func_call_args" PROVE Known(nodes[f.l].tok, current_env_id)'
    OBVIOUS
  <2>1. f.l \in 1..Len(nodes) /\ Known(nodes[f.l].tok, current_env_id)
    BY <1>1 DEF Holds
  <2>2. current_env_id \in -1..current_env_id
    BY DEF TypeOK, TablesOK
  <2>3. \E i \in 1 .. current_env_id + 1 : envs'[i][1] = Function(nodes[f.l].tok)
    BY <1>2, <2>1, <2>2, KnownStays DEF Known
  <2>. QED
    BY <1>2, <2>1, <2>3 DEF Known
<1>7. f.at = "block_next" => f.r # NULL /\ nodes'[f.r].tok = ";"
  BY <1>1, <1>2 DEF Holds
<1>8. f.at \in Programs => f.l \in Spine(p)' \cup {NULL}
  BY <1>2 DEF Holds
<1>. QED
  BY <1>3, <1>4, <1>5, <1>6, <1>7, <1>8 DEF Holds

(* A node that belongs to no environment. *)
LEMMA SettledAbove ==
    ASSUME TypeOK, FuncsFirst, NEW o \in [1..Len(nodes) -> -1..current_env_id],
           NEW p, Undisturbed(o, p), NEW v \in 1..Len(nodes), o[v] = -1, OutsideFunctions(o, v)
    PROVE  OutsideFunctions(p, v)'
<1>1. /\ Spine(o) \subseteq Spine(p)' /\ Own(p)' = Own(o)
      /\ \A w \in Own(o) : nodes'[w].scope = nodes[w].scope
      /\ nodes'[v].left = nodes[v].left /\ nodes'[v].right = nodes[v].right
      /\ nodes'[v].scope = nodes[v].scope /\ nodes'[v].inner = nodes[v].inner
      /\ nodes'[v].tok = nodes[v].tok /\ p[v] = -1
      /\ UNCHANGED current_env_id /\ EnvsGrow
  <2>1. /\ nodes'[v].left = nodes[v].left /\ nodes'[v].right = nodes[v].right
        /\ nodes'[v].scope = nodes[v].scope /\ nodes'[v].inner = nodes[v].inner
        /\ nodes'[v].tok = nodes[v].tok /\ p[v] = -1
        /\ UNCHANGED current_env_id /\ EnvsGrow
    BY DEF Undisturbed
  <2>. QED
    BY <2>1, SettledSets
<1>2. \A c \in {nodes[v].left, nodes[v].right} \ {NULL} : p[c] = o[c]
  <2>1. nodes[v] \in Nodes(Len(nodes))
    BY ElementOfSeq DEF TypeOK, HeapOK
  <2>. QED
    BY <2>1 DEF Undisturbed, Nodes, NULL
<1>3. ASSUME v \in Own(o) PROVE Owning(p, v)'
  <2>1. Owning(o, v)
    BY <1>3 DEF OutsideFunctions
  <2>2. envs'[nodes[v].scope + 1][1] = envs[nodes[v].scope + 1][1]
    <3>1. nodes[v].scope + 1 \in 1 .. current_env_id + 1
      BY <2>1 DEF Owning, TypeOK, TablesOK
    <3>. QED
      BY <1>1, <3>1, FirstStays
  <2>. QED
    BY <1>1, <1>2, <1>3, <2>1, <2>2 DEF Owning
<1>4. v \in Spine(p)' \ Own(p)' => {nodes'[v].left, nodes'[v].right} \subseteq Spine(p)'
  <2>. SUFFICES ASSUME v \in Spine(p)' \ Own(p)'
                PROVE  {nodes'[v].left, nodes'[v].right} \subseteq Spine(p)'
    OBVIOUS
  <2>1. v \in Spine(o) \ Own(o)
    BY <1>1 DEF Spine
  <2>. QED
    BY <1>1, <2>1 DEF OutsideFunctions
<1>. QED
  BY <1>1, <1>3, <1>4 DEF OutsideFunctions

(* A node that belongs to one and is not changed. *)
LEMMA SettledWithin ==
    ASSUME TypeOK, FuncsFirst, NEW o \in [1..Len(nodes) -> -1..current_env_id],
           NEW p, Undisturbed(o, p), NEW v \in 1..Len(nodes), o[v] # -1, Within(o, v),
           IdentifiersResolve,
           nodes'[v].left = nodes[v].left, nodes'[v].right = nodes[v].right,
           nodes'[v].scope = nodes[v].scope, nodes'[v].inner = nodes[v].inner
    PROVE  Within(p, v)'
<1>1. /\ nodes'[v].tok = nodes[v].tok /\ p[v] = o[v]
      /\ UNCHANGED current_env_id /\ EnvsGrow
  BY DEF Undisturbed
<1>2. /\ \A c \in {nodes[v].left, nodes[v].right} \ {NULL} : c \in 1..Len(nodes)
      /\ \A c \in {nodes[v].left, nodes[v].right} \ {NULL} :
            p[c] = o[c] /\ nodes'[c].tok = nodes[c].tok
  <2>1. nodes[v] \in Nodes(Len(nodes)) /\ Len(nodes) \in Nat
    BY ElementOfSeq DEF TypeOK, HeapOK
  <2>2. nodes[v].left \in 0..Len(nodes) /\ nodes[v].right \in 0..Len(nodes)
    BY <2>1 DEF Nodes
  <2>3. \A c \in {nodes[v].left, nodes[v].right} \ {NULL} : c \in 1..Len(nodes)
    BY <2>1, <2>2 DEF NULL
  <2>4. \A c \in 1..Len(nodes) : p[c] = o[c] /\ nodes'[c].tok = nodes[c].tok
    BY DEF Undisturbed
  <2>. QED
    BY <2>3, <2>4
<1>3. ASSUME nodes[v].tok \in Names PROVE EnteredThere(v)'
  <2>1. envs # << >>
    <3>1. Len(envs) \in Nat /\ current_env_id = Len(envs) - 1
      BY DEF TypeOK, TablesOK
    <3>2. o[v] \in -1..current_env_id
      OBVIOUS
    <3>3. Len(envs) # 0
      BY <3>1, <3>2
    <3>. QED
      BY <3>3
  <2>2. Resolved(v) /\ EnteredThere(v)
    BY <1>3, <2>1 DEF IdentifiersResolve, Resolved, Within
  <2>. QED
    BY <1>1, <2>2, ResolvedStays
<1>4. ASSUME nodes[v].tok = "call" PROVE Known(nodes[nodes[v].left].tok, o[v])'
  <2>1. nodes[v].left # NULL /\ Known(nodes[nodes[v].left].tok, o[v])
    BY <1>4 DEF Within
  <2>2. \E i \in 1 .. o[v] + 1 : envs'[i][1] = Function(nodes[nodes[v].left].tok)
    BY <1>1, <2>1, KnownStays DEF Known
  <2>3. nodes'[nodes'[v].left].tok = nodes[nodes[v].left].tok
    BY <1>2, <2>1
  <2>. QED
    BY <2>2, <2>3 DEF Known
<1>. QED
  BY <1>1, <1>2, <1>3, <1>4 DEF Within

-----------------------------------------------------------------------------
(* A step inside of a function that has an environment. *)

(* What may be handed over belongs there. *)
LEMMA PoolHere ==
    ASSUME TypeOK, stack # << >>, Top.at \notin Outer, NEW o, Region(o)
    PROVE  /\ Holds(o, Top) /\ Top \in Frames(Len(nodes)) /\ Len(stack) \in 1..Len(stack)
           /\ Here(o, Top.l) /\ Here(o, Top.r) /\ Here(o, ret)
           /\ \A v \in {Top.l, Top.r, ret} : v # NULL => v \in 1..Len(nodes)
<1>1. Top \in Frames(Len(nodes)) /\ Len(stack) \in 1..Len(stack)
  BY TopProperties
<1>2. Holds(o, Top)
  BY <1>1 DEF Region, Activations, Top
<1>3. Here(o, ret)
  BY DEF Region, Answered, Here, Outer
<1>4. Here(o, Top.l) /\ Here(o, Top.r)
  BY <1>2 DEF Holds
<1>5. ret # NULL => ret \in 1..Len(nodes)
  BY DEF TypeOK, StackOK, HeapOK, Refs, NULL
<1>6. \A v \in {Top.l, Top.r} : v # NULL => v \in 1..Len(nodes)
  BY <1>1, FramePointers
<1>. QED
  BY <1>1, <1>2, <1>3, <1>4, <1>5, <1>6

(* How such a step changes the nodes. *)
InnerStep(given, a, b) ==
    /\ Fair(given) /\ Hands(given, a, b) /\ Grafted(given, a, b)
    /\ NamesStep /\ EnvsGrow /\ UNCHANGED current_env_id
    /\ InnerMove /\ Len(nodes) <= Len(nodes')

Joining(o, p) ==
    p = [v \in 1..Len(nodes') |-> IF v \in 1..Len(nodes) THEN o[v] ELSE current_env_id]

(* A node that takes a child belongs there and names nothing. *)
LEMMA TakersNameless ==
    ASSUME TypeOK, stack # << >>, Top.at \notin Outer, NEW o, Region(o),
           NEW given, NEW a, NEW b, Placed(given, a, b)
    PROVE  \A v \in {a, b} \ {0} :
              /\ v \in {Top.l, Top.r, ret} /\ v # NULL
              /\ nodes[v].tok \notin Names \cup {"call"}
<1>1. Holds(o, Top)
  BY PoolHere
<1>2. \A v \in Takers \ {NULL} : Top.at = "if_else" /\ v = ret
  BY DEF Takers, Outer, Decls, FuncLabels
<1>3. \A v \in Takers \ {NULL} : v = ret /\ nodes[v].tok = "else"
  BY <1>2 DEF Region, Answered
<1>4. Top.at = "block_next" => Top.r # NULL /\ nodes[Top.r].tok = ";"
  BY <1>1 DEF Holds
<1>5. {"else", ";"} \cap (Names \cup {"call"}) = {}
  BY NotNames DEF Keywords, Separators, Marked
<1>. QED
  BY <1>3, <1>4, <1>5 DEF Placed, NULL

(* So the nodes that belong to no environment are not changed. *)
LEMMA InnerSettled ==
    ASSUME TypeOK, TypeOK', stack # << >>, Top.at \notin Outer, envs # << >>,
           NEW o, Region(o), NEW p, Joining(o, p),
           NEW given, NEW a, NEW b, InnerStep(given, a, b)
    PROVE  /\ Undisturbed(o, p) /\ p \in [1..Len(nodes') -> 0..current_env_id \cup {-1}]
           /\ \A v \in {Top.l, Top.r, ret, Fresh} :
                 v \in 1..Len(nodes') => p[v] = current_env_id
           /\ \A v \in {Top.l, Top.r, ret} \ {NULL} :
                 v \in 1..Len(nodes) /\ o[v] = current_env_id
           /\ current_env_id \in Nat
<1>1. /\ current_env_id \in Nat /\ Len(nodes) \in Nat /\ Len(nodes') \in Nat
      /\ o \in [1..Len(nodes) -> -1..current_env_id]
  BY EnvProperties DEF TypeOK, HeapOK, Region
<1>2. 1..Len(nodes) \subseteq 1..Len(nodes') /\ Fresh \notin 1..Len(nodes)
  BY <1>1 DEF InnerStep, Fresh
<1>3. p \in [1..Len(nodes') -> 0..current_env_id \cup {-1}]
  <2>. SUFFICES ASSUME NEW v \in 1..Len(nodes')
                PROVE  (IF v \in 1..Len(nodes) THEN o[v] ELSE current_env_id)
                          \in 0..current_env_id \cup {-1}
    BY DEF Joining
  <2>. QED
    BY <1>1
<1>4. \A v \in {Top.l, Top.r, ret} \ {NULL} :
         v \in 1..Len(nodes) /\ o[v] = current_env_id
  BY PoolHere DEF Here
<1>5. \A v \in {Top.l, Top.r, ret, Fresh} : v \in 1..Len(nodes') => p[v] = current_env_id
  BY <1>1, <1>2, <1>4 DEF Joining, NULL
<1>6. ASSUME NEW v \in 1..Len(nodes), o[v] = -1
      PROVE  /\ nodes'[v].left = nodes[v].left /\ nodes'[v].right = nodes[v].right
             /\ nodes'[v].scope = nodes[v].scope /\ nodes'[v].inner = nodes[v].inner
  <2>1. v \notin {Top.l, Top.r, ret}
    BY <1>1, <1>4, <1>6 DEF NULL
  <2>2. v \notin {a, b}
    <3>1. \A w \in {a, b} \ {0} : w \in {Top.l, Top.r, ret}
      BY TakersNameless DEF InnerStep, Grafted
    <3>. QED
      BY <2>1, <3>1
  <2>3. nodes'[v].left = nodes[v].left /\ nodes'[v].right = nodes[v].right
    BY <2>2 DEF InnerStep, Hands, NodesHanded
  <2>4. ~Rightly(v)
    BY <2>1 DEF Rightly, Outer, Decls, FuncLabels
  <2>. QED
    BY <1>2, <2>3, <2>4 DEF InnerStep, NamesStep
<1>7. \A v \in 1..Len(nodes) : p[v] = o[v] /\ nodes'[v].tok = nodes[v].tok
  BY <1>2 DEF Joining, InnerStep, NamesStep
<1>8. \A v \in 1..Len(nodes') : v \notin 1..Len(nodes) => p[v] # -1
  BY <1>1 DEF Joining
<1>. QED
  BY <1>1, <1>2, <1>3, <1>4, <1>5, <1>6, <1>7, <1>8 DEF Undisturbed, InnerStep

(* What is handed over belongs there afterwards. *)
LEMMA GivenHere ==
    ASSUME TypeOK, TypeOK', stack # << >>, Top.at \notin Outer, envs # << >>,
           NEW o, Region(o), NEW p, Joining(o, p),
           NEW given, NEW a, NEW b, InnerStep(given, a, b)
    PROVE  \A k \in 1..7 : given[k] \in 1..Len(nodes') => p[given[k]] = current_env_id
<1>1. \A k \in 1..7 : given[k] \in {Top.l, Top.r, ret, Fresh, NULL}
  BY DEF InnerStep, Fair, Pool
<1>2. NULL \notin 1..Len(nodes')
  BY DEF NULL
<1>. QED
  BY <1>1, <1>2, InnerSettled

(* An old node that belongs to an environment. *)
LEMMA InnerWithin ==
    ASSUME TypeOK, TypeOK', stack # << >>, Top.at \notin Outer, envs # << >>, FuncsFirst,
           IdentifiersResolve,
           NEW o, Region(o), NEW p, Joining(o, p),
           NEW given, NEW a, NEW b, InnerStep(given, a, b),
           NEW v \in 1..Len(nodes), o[v] # -1
    PROVE  Within(p, v)'
<1>1. /\ Undisturbed(o, p)
      /\ \A u \in {Top.l, Top.r, ret} \ {NULL} :
            u \in 1..Len(nodes) /\ o[u] = current_env_id
      /\ o \in [1..Len(nodes) -> -1..current_env_id] /\ Within(o, v)
      /\ current_env_id \in Nat
  BY InnerSettled DEF Region, Parted
<1>2. /\ 1..Len(nodes) \subseteq 1..Len(nodes') /\ p[v] = o[v]
      /\ \A w \in 1..Len(nodes) : p[w] = o[w] /\ nodes'[w].tok = nodes[w].tok
      /\ EnvsGrow /\ UNCHANGED current_env_id
  BY <1>1 DEF Undisturbed
<1>3. /\ nodes'[v].left = IF v = a THEN given[1] ELSE nodes[v].left
      /\ nodes'[v].right = IF v = b THEN given[2] ELSE nodes[v].right
  BY DEF InnerStep, Hands, NodesHanded
<1>4. v \in {a, b} => o[v] = current_env_id /\ nodes[v].tok \notin Names \cup {"call"}
  <2>1. v # 0
    OBVIOUS
  <2>. QED
    BY <1>1, <2>1, TakersNameless DEF InnerStep, Grafted
<1>5. \A c \in {nodes[v].left, nodes[v].right} \ {NULL} : c \in 1..Len(nodes)
  <2>1. nodes[v] \in Nodes(Len(nodes))
    BY ElementOfSeq DEF TypeOK, HeapOK
  <2>. QED
    BY <2>1 DEF Nodes, NULL
<1>6. \A c \in {nodes'[v].left, nodes'[v].right} \ {NULL} : c \in 1..Len(nodes')
  <2>1. nodes'[v] \in Nodes(Len(nodes'))
    BY <1>2, ElementOfSeq DEF TypeOK, HeapOK
  <2>. QED
    BY <2>1 DEF Nodes, NULL
<1>7. \A c \in {nodes[v].left, nodes[v].right} \ {NULL} : p[c] = o[v]
  BY <1>1, <1>2, <1>5 DEF Within
<1>8. \A c \in {nodes'[v].left, nodes'[v].right} \ {NULL} : p[c] = p[v]
  <2>1. \A c \in {given[1], given[2]} \ {NULL} : c \in 1..Len(nodes') => p[c] = current_env_id
    BY GivenHere
  <2>. QED
    BY <1>2, <1>3, <1>4, <1>6, <1>7, <2>1
<1>9. CASE v \in {a, b}
  BY <1>2, <1>4, <1>8, <1>9 DEF Within
<1>10. CASE v \notin {a, b} /\ nodes'[v].scope = nodes[v].scope
                            /\ nodes'[v].inner = nodes[v].inner
  BY <1>1, <1>3, <1>10, SettledWithin
<1>11. CASE v \notin {a, b} /\ Rightly(v)
  <2>1. v \in {Top.l, ret} /\ nodes'[v].scope = current_env_id /\ EnteredThere(v)'
    BY <1>11 DEF Rightly, Outer, Decls, FuncLabels
  <2>2. o[v] = current_env_id
    BY <1>1, <2>1 DEF NULL
  <2>3. nodes'[v].tok \in Names => nodes'[v].right = NULL
    BY <1>1, <1>2, <1>3, <1>11 DEF Within
  <2>4. ASSUME nodes'[v].tok = "call"
        PROVE  /\ nodes'[v].left # NULL
               /\ \E i \in 1 .. o[v] + 1 : envs'[i][1] = Function(nodes'[nodes'[v].left].tok)
    <3>1. nodes[v].left # NULL /\ Known(nodes[nodes[v].left].tok, o[v])
      BY <1>1, <1>2, <2>4 DEF Within
    <3>2. o[v] \in -1..current_env_id
      BY <1>1
    <3>3. \E i \in 1 .. o[v] + 1 : envs'[i][1] = Function(nodes[nodes[v].left].tok)
      BY <1>2, <3>1, <3>2, KnownStays DEF Known
    <3>4. nodes'[nodes'[v].left].tok = nodes[nodes[v].left].tok
      BY <1>2, <1>3, <1>5, <1>11, <3>1
    <3>. QED
      BY <1>3, <1>11, <3>1, <3>3, <3>4
  <2>. QED
    BY <1>2, <1>8, <2>1, <2>2, <2>3, <2>4 DEF Within, Known
<1>. QED
  BY <1>2, <1>9, <1>10, <1>11 DEF InnerStep, NamesStep

(* The new node does. *)
LEMMA FreshWithin ==
    ASSUME TypeOK, TypeOK', stack # << >>, Top.at \notin Outer, envs # << >>, FuncsFirst,
           NEW o, Region(o), NEW p, Joining(o, p),
           NEW given, NEW a, NEW b, InnerStep(given, a, b),
           NEW v \in 1..Len(nodes'), v = Fresh
    PROVE  Within(p, v)'
<1>1. /\ Undisturbed(o, p) /\ p[v] = current_env_id
      /\ v \notin 1..Len(nodes) /\ UNCHANGED current_env_id /\ EnvsGrow
      /\ \A w \in 1..Len(nodes) : nodes'[w].tok = nodes[w].tok
  BY InnerSettled DEF Fresh, TypeOK, HeapOK, InnerStep, Undisturbed
<1>2. /\ nodes'[v].left = given[3] /\ nodes'[v].right = given[4]
  BY <1>1 DEF InnerStep, Hands, NodesHanded
<1>3. \A c \in {nodes'[v].left, nodes'[v].right} \ {NULL} : p[c] = p[v]
  <2>1. nodes'[v] \in Nodes(Len(nodes'))
    BY ElementOfSeq DEF TypeOK, HeapOK
  <2>2. \A c \in {nodes'[v].left, nodes'[v].right} \ {NULL} : c \in 1..Len(nodes')
    BY <2>1 DEF Nodes, NULL
  <2>. QED
    BY <1>1, <1>2, <2>2, GivenHere
<1>4. CASE Nameless(nodes'[v])
  <2>. SUFFICES ASSUME nodes'[v].tok = "call"
                PROVE  /\ nodes'[v].left # NULL
                       /\ \E i \in 1 .. current_env_id + 1 :
                             envs'[i][1] = Function(nodes'[nodes'[v].left].tok)
    BY <1>1, <1>3, <1>4 DEF Nameless, Within, Known
  <2>1. Top.at = "func_call_args" /\ nodes'[v].left = Top.l
    BY <1>4 DEF Nameless
  <2>2. Top.l # NULL /\ Top.l \in 1..Len(nodes) /\ Known(nodes[Top.l].tok, current_env_id)
    BY <2>1, PoolHere, FramePointers DEF Holds
  <2>3. current_env_id \in -1..current_env_id
    BY EnvProperties
  <2>4. \E i \in 1 .. current_env_id + 1 : envs'[i][1] = Function(nodes[Top.l].tok)
    BY <1>1, <2>2, <2>3, KnownStays DEF Known
  <2>. QED
    BY <1>1, <2>1, <2>2, <2>4
<1>5. CASE Rightly(v)
  <2>1. Top.at = "identifier" /\ nodes'[v].scope = current_env_id /\ EnteredThere(v)'
    BY <1>1, <1>5, PoolHere DEF Rightly, Outer, Decls, FuncLabels
  <2>2. nodes'[v].tok \in Names /\ nodes'[v].right = NULL
    BY <1>1, <2>1 DEF InnerStep, InnerMove, InnerPush, InnerPop, InnerTail
  <2>. QED
    BY <1>1, <1>3, <2>1, <2>2, NotNames DEF Within
<1>. QED
  BY <1>1, <1>4, <1>5 DEF InnerStep, NamesStep

(* Frames that stay where they are. *)
LEMMA WaitingHold ==
    ASSUME TypeOK, FuncsFirst, NEW o, Region(o), NEW p, Undisturbed(o, p),
           NEW i \in 1..Len(stack), NEW f, f = stack[i]
    PROVE  Holds(p, f)'
<1>1. f \in Activations /\ f \in Frames(Len(nodes))
  BY ElementOfSeq DEF Activations, TypeOK, StackOK
<1>. QED
  BY <1>1, SettledFrame DEF Region

(* The frames after a step inside of a function, ... *)
LEMMA InnerFrames ==
    ASSUME TypeOK, TypeOK', FuncsFirst, stack # << >>, Top.at \notin Outer,
           NEW o, Region(o), NEW p, Undisturbed(o, p),
           NEW given, StackHanded(given), InnerMove,
           \A k \in 1..7 : given[k] \in 1..Len(nodes') => p[given[k]] = current_env_id,
           NEW f \in Activations'
    PROVE  Holds(p, f)'
<1>1. PICK i \in 1..Len(stack') : f = stack'[i]
  BY DEF Activations
<1>2. Len(stack) \in Nat \ {0} /\ UNCHANGED current_env_id
  BY TopProperties DEF Undisturbed
<1>3. CASE i \in 1 .. Len(stack) - 1 /\ stack'[i] = stack[i]
  <2>1. i \in 1..Len(stack)
    BY <1>2, <1>3
  <2>. QED
    BY <1>1, <1>3, <2>1, WaitingHold
<1>4. f \in Frames(Len(nodes'))
  BY <1>1, ElementOfSeq DEF TypeOK, StackOK
<1>5. ASSUME f.at \notin Outer, Here(p, f.l)', Here(p, f.r)',
             f.at = "block_next" => f.r # NULL /\ nodes'[f.r].tok = ";",
             f.at = "func_call_args" => Known(nodes[f.l].tok, current_env_id)'
      PROVE  Holds(p, f)'
  BY <1>5 DEF Holds, Outer, Programs, Decls, FuncLabels
<1>6. ASSUME f.l = NULL, f.r = NULL, f.at \notin Outer \cup {"block_next", "func_call_args"}
      PROVE  Holds(p, f)'
  BY <1>5, <1>6 DEF Here
<1>7. CASE \E g, c : InnerPush(g, c)
  <2>1. PICK g, c : InnerPush(g, c)
    BY <1>7
  <2>2. /\ \A j \in 1 .. Len(stack) - 1 : stack'[j] = stack[j]
        /\ stack'[Len(stack)] = g /\ stack'[Len(stack) + 1] = c
        /\ i \in 1 .. Len(stack) - 1 \/ i = Len(stack) \/ i = Len(stack) + 1
    BY <2>1, PushShape DEF InnerPush
  <2>3. CASE i = Len(stack)
    <3>1. f = g
      BY <1>1, <2>2, <2>3
    <3>2. f.l = given[5] /\ (f.at = "block_next" \/ f.r = given[6])
      BY <1>1, <1>2, <2>3 DEF StackHanded
    <3>3. /\ f.l # NULL => f.l \in 1..Len(nodes')
          /\ f.r # NULL => f.r \in 1..Len(nodes')
      BY <1>4 DEF Frames, TypeOK, HeapOK, NULL
    <3>4. f.l # NULL => p[f.l] = current_env_id
      BY <3>2, <3>3
    <3>5. ASSUME f.at = "block_next"
          PROVE  /\ f.r # NULL /\ nodes'[f.r].tok = ";"
                 /\ p[f.r] = current_env_id
      <4>1. f.r = ret /\ ret # NULL /\ Top.at \in Blocks
        BY <2>1, <3>1, <3>5 DEF InnerPush
      <4>2. ret \in 1..Len(nodes) /\ o[ret] = current_env_id /\ nodes[ret].tok = ";"
        BY <4>1, PoolHere DEF Region, Answered, Here
      <4>. QED
        BY <4>1, <4>2 DEF Undisturbed
    <3>6. f.r # NULL => p[f.r] = current_env_id
      <4>1. given[6] \in 1..Len(nodes') => p[given[6]] = current_env_id
        OBVIOUS
      <4>2. CASE f.at # "block_next"
        BY <3>2, <3>3, <4>1, <4>2
      <4>. QED
        BY <3>5, <4>2
    <3>7. ASSUME f.at = "func_call_args" PROVE Known(nodes[f.l].tok, current_env_id)'
      <4>1. f.l = ret /\ ret # NULL /\ FindEnviroment(Function(nodes[ret].tok))
        BY <2>1, <3>1, <3>7 DEF InnerPush, FuncSymbol
      <4>2. ret \in 1..Len(nodes) /\ Known(nodes[ret].tok, current_env_id)
        BY <4>1, PoolHere, FoundKnown
      <4>3. current_env_id \in -1..current_env_id /\ EnvsGrow
        BY DEF TypeOK, TablesOK, Undisturbed
      <4>4. \E j \in 1 .. current_env_id + 1 : envs'[j][1] = Function(nodes[ret].tok)
        BY <1>2, <4>2, <4>3, KnownStays DEF Known
      <4>5. nodes'[f.l].tok = nodes[ret].tok
        BY <4>1, <4>2 DEF Undisturbed
      <4>. QED
        BY <1>2, <4>4, <4>5 DEF Known
    <3>8. Here(p, f.l)' /\ Here(p, f.r)'
      BY <1>2, <3>4, <3>6 DEF Here
    <3>9. f.at \notin Outer
      BY <2>1, <3>1 DEF InnerPush
    <3>. QED
      BY <1>5, <3>5, <3>7, <3>8, <3>9
  <2>4. CASE i = Len(stack) + 1
    <3>1. f = c
      BY <1>1, <2>2, <2>4
    <3>2. f.l = NULL /\ f.r = NULL
      BY <1>1, <1>2, <2>4 DEF StackHanded
    <3>3. f.at \notin Outer \cup {"block_next", "func_call_args"}
      BY <2>1, <3>1 DEF InnerPush
    <3>. QED
      BY <1>6, <3>2, <3>3
  <2>. QED
    BY <1>3, <2>2, <2>3, <2>4
<1>8. CASE InnerPop
  BY <1>3, <1>8, PopShape DEF InnerPop
<1>9. CASE InnerTail
  <2>. DEFINE c == Frame("primary")
  <2>1. stack' = Callers \o <<c>>
    BY <1>9 DEF InnerTail
  <2>2. c.l = NULL /\ c.r = NULL /\ c.at = "primary"
    BY DEF Frame
  <2>. HIDE DEF c
  <2>3. /\ \A j \in 1 .. Len(stack) - 1 : stack'[j] = stack[j]
        /\ stack'[Len(stack)] = c
        /\ i \in 1 .. Len(stack) - 1 \/ i = Len(stack)
    BY <2>1, TailShape
  <2>4. CASE i = Len(stack)
    <3>1. f = c
      BY <1>1, <2>3, <2>4
    <3>2. f.at \notin Outer \cup {"block_next", "func_call_args"}
      BY <2>2, <3>1 DEF Outer, General, Programs, Decls, FuncLabels
    <3>. QED
      BY <1>6, <2>2, <3>1, <3>2
  <2>. QED
    BY <1>3, <2>3, <2>4
<1>. QED
  BY <1>7, <1>8, <1>9 DEF InnerMove

(* ... and the answer. *)
LEMMA InnerAnswer ==
    ASSUME TypeOK, TypeOK', StackLinked, stack # << >>, Top.at \notin Outer,
           NEW o, Region(o), NEW p, Undisturbed(o, p),
           NEW given, StackHanded(given), InnerMove,
           \A k \in 1..7 : given[k] \in 1..Len(nodes') => p[given[k]] = current_env_id,
           stack' # << >>, ret' # NULL
    PROVE  Answered(p, Top.at, ret)'
<1>1. ret' \in 1..Len(nodes') /\ p[ret'] = current_env_id /\ UNCHANGED current_env_id
  <2>1. ret' \in 1..Len(nodes')
    BY DEF TypeOK, StackOK, HeapOK, Refs, NULL
  <2>. QED
    BY <2>1 DEF StackHanded, Undisturbed
<1>2. CASE InnerPop
  <2>1. stack' = Callers
    BY <1>2 DEF InnerPop
  <2>2. /\ Top' = stack[Len(stack) - 1] /\ Len(stack) - 1 \in 1 .. Len(stack) - 1
        /\ Len(stack) \in Nat \ {0}
    BY <2>1, PopShape
  <2>3. Linked(stack[Len(stack) - 1].at, stack[Len(stack)].at)
    BY <2>2 DEF StackLinked
  <2>4. Linked(Top'.at, Top.at)
    BY <2>2, <2>3 DEF Top
  <2>5. Top'.at \notin General \cup Programs
    BY <2>4 DEF Linked, Outer
  <2>6. Top'.at = "func_decl_name"
          => ret' = Len(nodes') /\ nodes'[ret'].tok \in Names /\ nodes'[ret'].right = NULL
    BY <1>2, <2>4 DEF Linked, InnerPop
  <2>7. Top'.at \in Blocks => nodes'[ret'].tok = ";"
    BY <1>2, <2>4 DEF Linked, InnerPop
  <2>8. Top'.at = "if_else" => nodes'[ret'].tok = "else"
    BY <1>2, <2>4 DEF Linked, InnerPop
  <2>. QED
    BY <1>1, <2>5, <2>6, <2>7, <2>8 DEF Answered, Here
<1>3. CASE InnerTail
  <2>. DEFINE c == Frame("primary")
  <2>1. stack' = Callers \o <<c>>
    BY <1>3 DEF InnerTail
  <2>2. c.at = "primary"
    BY DEF Frame
  <2>. HIDE DEF c
  <2>3. Len(stack') = Len(stack) /\ stack'[Len(stack)] = c
    BY <2>1, TailShape
  <2>4. Top'.at = "primary"
    BY <2>2, <2>3 DEF Top
  <2>. QED
    BY <1>1, <2>4 DEF Answered, Here, General, Programs, Blocks
<1>4. ~(\E f, c : InnerPush(f, c))
  BY DEF InnerPush
<1>. QED
  BY <1>2, <1>3, <1>4 DEF InnerMove

(* A step inside of a function that has an environment keeps the regions. *)
LEMMA InnerRegion ==
    ASSUME TypeOK, TypeOK', StackLinked, FuncsFirst, IdentifiersResolve,
           stack # << >>, Top.at \notin Outer, envs # << >>,
           NEW o, Region(o), NEW given, NEW a, NEW b, InnerStep(given, a, b)
    PROVE  Follows(o, {})
<1>1. PICK p : Joining(o, p)
  BY DEF Joining
<1>2. /\ Undisturbed(o, p) /\ p \in [1..Len(nodes') -> 0..current_env_id \cup {-1}]
      /\ current_env_id \in Nat /\ UNCHANGED current_env_id
  BY <1>1, InnerSettled DEF InnerStep
<1>3. \A k \in 1..7 : given[k] \in 1..Len(nodes') => p[given[k]] = current_env_id
  BY <1>1, GivenHere
<1>4. StackHanded(given) /\ InnerMove
  BY DEF InnerStep, Hands
<1>5. ASSUME NEW v \in 1..Len(nodes') PROVE IF p[v] = -1 THEN OutsideFunctions(p, v)' ELSE Within(p, v)'
  <2>1. CASE v \in 1..Len(nodes)
    <3>1. p[v] = o[v] /\ IF o[v] = -1 THEN OutsideFunctions(o, v) ELSE Within(o, v)
      BY <1>2, <2>1 DEF Undisturbed, Region, Parted
    <3>2. o \in [1..Len(nodes) -> -1..current_env_id]
      BY DEF Region
    <3>. QED
      BY <1>1, <1>2, <2>1, <3>1, <3>2, SettledAbove, InnerWithin
  <2>2. CASE v = Fresh
    <3>1. p[v] = current_env_id
      BY <1>1, <2>2, InnerSettled
    <3>2. Within(p, v)'
      BY <1>1, <2>2, FreshWithin
    <3>. QED
      BY <1>2, <3>1, <3>2
  <2>. QED
    BY <2>1, <2>2 DEF InnerStep, Hands, NodesHanded
<1>6. p \in [1..Len(nodes') -> -1..current_env_id']
  <2>1. 0..current_env_id \cup {-1} = -1..current_env_id
    BY <1>2
  <2>. QED
    BY <1>2, <2>1
<1>7. \A f \in Activations' : Holds(p, f)'
  BY <1>2, <1>3, <1>4, InnerFrames
<1>8. stack' # << >> /\ ret' # NULL => Answered(p, Top.at, ret)'
  BY <1>2, <1>3, <1>4, InnerAnswer
<1>9. Region(p)'
  BY <1>5, <1>6, <1>7, <1>8 DEF Region, Parted
<1>10. \A v \in 1..Len(nodes') : v \notin 1..Len(nodes) => v \notin Spine(p)'
  BY <1>1, <1>2 DEF Joining, Spine
<1>11. SpineGrown(o, p, {})
  BY <1>2, <1>10, SettledGrows
<1>. QED
  BY <1>9, <1>11 DEF Follows

-----------------------------------------------------------------------------
(* The other steps. *)

(* Nodes and environments stay. *)
LEMMA StillRegion ==
    ASSUME UNCHANGED <<nodes, envs, current_env_id>>, NEW o, Region(o),
           \A f \in Activations' : f \in Activations \/ Holds(o, f),
           stack' # << >> /\ ret' # NULL
              => \E at, v : at = Top'.at /\ v = ret' /\ Answered(o, at, v)
    PROVE  Follows(o, {})
<1>1. Spine(o)' = Spine(o) /\ Own(o)' = Own(o)
  BY DEF Spine, Own
<1>2. \A v : (OutsideFunctions(o, v)' <=> OutsideFunctions(o, v)) /\ (Within(o, v)' <=> Within(o, v))
  BY <1>1 DEF OutsideFunctions, Owning, Within, EnteredThere, Known
<1>3. \A f : Holds(o, f)' <=> Holds(o, f)
  <2>1. \A f : Declaring(o, f)' <=> Declaring(o, f)
    BY <1>1 DEF Declaring
  <2>2. \A f : Known(nodes[f.l].tok, current_env_id)' <=> Known(nodes[f.l].tok, current_env_id)
    BY DEF Known
  <2>3. \A v : Here(o, v)' <=> Here(o, v)
    BY DEF Here
  <2>. QED
    BY <1>1, <2>1, <2>2, <2>3 DEF Holds
<1>4. Parted(o)' /\ o \in [1..Len(nodes') -> -1..current_env_id']
  BY <1>2 DEF Region, Parted
<1>5. \A f \in Activations' : Holds(o, f)'
  BY <1>3 DEF Region
<1>6. ASSUME stack' # << >>, ret' # NULL PROVE Answered(o, Top.at, ret)'
  <2>1. PICK at, v : at = Top'.at /\ v = ret' /\ Answered(o, at, v)
    BY <1>6
  <2>2. Answered(o, at, v)'
    BY <1>1, <2>1 DEF Answered, Here
  <2>. QED
    BY <2>1, <2>2 DEF Answered, Here
<1>7. Region(o)'
  BY <1>4, <1>5, <1>6 DEF Region
<1>8. SpineGrown(o, o, {})
  BY <1>1 DEF SpineGrown
<1>. QED
  BY <1>7, <1>8 DEF Follows

(* A node joins that belongs to no environment. *)
LEMMA JoinsAbove ==
    ASSUME TypeOK, FuncsFirst, IdentifiersResolve, NEW o, Region(o),
           NEW node, nodes' = Append(nodes, node), UNCHANGED current_env_id, EnvsGrow,
           node.tok # "call",
           node.right # NULL => node.tok \notin Names /\ {node.left, node.right} \subseteq Spine(o),
           NEW p, p = [v \in 1..Len(nodes') |-> IF v \in 1..Len(nodes) THEN o[v] ELSE -1]
    PROVE  /\ Undisturbed(o, p) /\ p \in [1..Len(nodes') -> -1..current_env_id'] /\ Parted(p)'
           /\ node.right # NULL => Len(nodes) + 1 \in Spine(p)'
           /\ SpineGrown(o, p, IF node.right # NULL THEN {Fresh} ELSE {})
<1>1. /\ Len(nodes') = Len(nodes) + 1 /\ nodes'[Len(nodes) + 1] = node /\ Len(nodes) \in Nat
      /\ \A q \in 1..Len(nodes) : nodes'[q] = nodes[q]
  BY Joined DEF TypeOK, HeapOK
<1>2. /\ o \in [1..Len(nodes) -> -1..current_env_id] /\ current_env_id \in Int
      /\ current_env_id >= -1
  BY DEF Region, TypeOK, TablesOK
<1>3. /\ \A v \in 1..Len(nodes') : v \in 1..Len(nodes) \/ v = Len(nodes) + 1
      /\ 1..Len(nodes) \subseteq 1..Len(nodes')
      /\ Len(nodes) + 1 \in 1..Len(nodes') /\ Len(nodes) + 1 \notin 1..Len(nodes)
  BY <1>1
<1>4. p \in [1..Len(nodes') -> -1..current_env_id]
  <2>. SUFFICES ASSUME NEW v \in 1..Len(nodes')
                PROVE  (IF v \in 1..Len(nodes) THEN o[v] ELSE -1) \in -1..current_env_id
    OBVIOUS
  <2>. QED
    BY <1>2
<1>5. \A v \in 1..Len(nodes) : p[v] = o[v]
  BY <1>3
<1>6. p[Len(nodes) + 1] = -1
  BY <1>3
<1>7. Undisturbed(o, p)
  BY <1>1, <1>3, <1>5 DEF Undisturbed
<1>8. /\ Spine(o) \subseteq Spine(p)' /\ Own(p)' = Own(o)
  BY <1>7, SettledSets
<1>9. ASSUME NEW v \in 1..Len(nodes') PROVE IF p[v] = -1 THEN OutsideFunctions(p, v)' ELSE Within(p, v)'
  <2>1. CASE v \in 1..Len(nodes)
    <3>1. IF o[v] = -1 THEN OutsideFunctions(o, v) ELSE Within(o, v)
      BY <2>1 DEF Region, Parted
    <3>. QED
      BY <1>1, <1>2, <1>5, <1>7, <2>1, <3>1, SettledAbove, SettledWithin
  <2>2. CASE v = Len(nodes) + 1
    <3>1. v \notin Own(p)'
      BY <1>3, <1>8, <2>2 DEF Own, Spine
    <3>2. v \in Spine(p)' => {nodes'[v].left, nodes'[v].right} \subseteq Spine(p)'
      BY <1>1, <1>8, <2>2 DEF Spine
    <3>. QED
      BY <1>1, <1>6, <2>2, <3>1, <3>2 DEF OutsideFunctions
  <2>. QED
    BY <1>3, <2>1, <2>2
<1>10. node.right # NULL <=> Len(nodes) + 1 \in Spine(p)'
  BY <1>1, <1>3, <1>6 DEF Spine
<1>11. PICK new : new = IF node.right # NULL THEN {Fresh} ELSE {}
  OBVIOUS
<1>12. SpineGrown(o, p, new)
  BY <1>3, <1>7, <1>10, <1>11, SettledGrows DEF Fresh
<1>. QED
  BY <1>4, <1>7, <1>9, <1>10, <1>11, <1>12 DEF Parted

(* A return keeps the frames that it leaves. *)
LEMMA PopActivations ==
    ASSUME TypeOK, stack # << >>, stack' = Callers
    PROVE  \A f \in Activations' : f \in Activations /\ f \in Frames(Len(nodes))
                                   /\ \E i \in 1 .. Len(stack) - 1 : f = stack[i]
<1>. SUFFICES ASSUME NEW f \in Activations'
              PROVE  f \in Activations /\ f \in Frames(Len(nodes))
                     /\ \E i \in 1 .. Len(stack) - 1 : f = stack[i]
  OBVIOUS
<1>1. PICK i \in 1..Len(stack') : f = stack'[i]
  BY DEF Activations
<1>2. i \in 1 .. Len(stack) - 1 /\ f = stack[i] /\ i \in 1..Len(stack)
  BY <1>1, PopShape
<1>. QED
  BY <1>2, ElementOfSeq DEF Activations, TypeOK, StackOK

(* The name of the first function belongs to no environment at first. *)
LEMMA EarlyRegion ==
    ASSUME IInv, TypeOK', StackLinked, FuncsFirst, IdentifiersResolve,
           stack # << >>, Top.at \notin Outer, envs = << >>, NEW o, Region(o),
           InnerMove, EnvsGrow, UNCHANGED <<envs, current_env_id>>, Orderly \/ NamesFirst
    PROVE  Follows(o, {})
<1>1. /\ TypeOK /\ current_env_id = -1 /\ Len(nodes) \in Nat
      /\ \A v \in 1..Len(nodes) : o[v] = -1
  <2>1. TypeOK /\ current_env_id = -1
    BY DEF IInv, TypeOK, TablesOK
  <2>2. Len(nodes) \in Nat /\ o \in [1..Len(nodes) -> -1..current_env_id]
    BY DEF IInv, TypeOK, HeapOK, Region
  <2>3. \A v \in 1..Len(nodes) : o[v] = -1
    BY <2>1, <2>2
  <2>. QED
    BY <2>1, <2>2, <2>3
<1>2. Top.at = "identifier"
  <2>1. Top.at \in EarlyLabels
    BY <1>1, TopProperties DEF IInv, Early, Top
  <2>. QED
    BY <2>1 DEF EarlyLabels, Outer, General, Programs, Decls, FuncLabels
<1>3. InnerPop
  BY <1>2 DEF InnerMove, InnerPush, InnerTail
<1>4. stack' = Callers /\ \A f \in Activations' : f \in Activations
  BY <1>1, <1>3, PopActivations DEF InnerPop
<1>5. CASE UNCHANGED nodes
  <2>1. ret' = NULL
    <3>1. ret' # Fresh
      BY <1>1, <1>5 DEF TypeOK, StackOK, HeapOK, Refs, Fresh
    <3>. QED
      BY <1>2, <1>3, <3>1 DEF InnerPop
  <2>. QED
    BY <1>4, <1>5, <2>1, StillRegion
<1>6. CASE Orderly
  <2>1. ~(Len(nodes') = Fresh /\ nodes'[Fresh].tok \in Names)
    <3>1. Len(nodes') = Fresh => Fresh \in 1..Len(nodes') /\ Fresh \notin 1..Len(nodes)
      BY <1>1 DEF Fresh
    <3>. QED
      BY <1>6, <3>1 DEF Orderly, Tame, IdsKept, Nameless
  <2>. QED
    BY <1>2, <1>3, <1>5, <2>1 DEF InnerPop
<1>7. CASE NamesFirst /\ ~(UNCHANGED nodes)
  <2>. DEFINE node == Node(Cur, NULL, NULL)
  <2>1. nodes' = Append(nodes, node) /\ node.right = NULL /\ node.tok = Cur
    BY <1>7, NodeFields DEF NamesFirst
  <2>. HIDE DEF node
  <2>2. node.tok # "call"
    <3>1. nodes'[Fresh] = node
      BY <1>1, <2>1, Joined DEF Fresh, TypeOK, HeapOK
    <3>. QED
      BY <1>2, <1>3, <1>7, <3>1, NotNames DEF InnerPop
  <2>3. PICK p : p = [v \in 1..Len(nodes') |-> IF v \in 1..Len(nodes) THEN o[v] ELSE -1]
    OBVIOUS
  <2>4. Undisturbed(o, p) /\ p \in [1..Len(nodes') -> -1..current_env_id'] /\ Parted(p)'
    BY <1>1, <2>1, <2>2, <2>3, JoinsAbove
  <2>5. \A v \in 1..Len(nodes') : p[v] = current_env_id
    BY <1>1, <2>3
  <2>6. PICK given : StackHanded(given)
    BY <1>7 DEF NamesFirst, Passing, Hands
  <2>7. \A f \in Activations' : Holds(p, f)'
    BY <1>1, <2>4, <2>5, <2>6, InnerFrames
  <2>8. stack' # << >> /\ ret' # NULL => Answered(p, Top.at, ret)'
    BY <1>1, <2>4, <2>5, <2>6, InnerAnswer
  <2>9. Region(p)'
    BY <2>4, <2>7, <2>8 DEF Region
  <2>10. SpineGrown(o, p, {})
    BY <1>1, <2>1, <2>2, <2>3, JoinsAbove
  <2>. QED
    BY <2>9, <2>10 DEF Follows
<1>. QED
  BY <1>5, <1>6, <1>7

(* The functions outside of functions are three deep. *)
LEMMA OuterDepth ==
    ASSUME TypeOK, StackLinked, stack # << >>
    PROVE  /\ Top.at \in Programs => \A i \in 1 .. Len(stack) - 1 : stack[i].at \in General
           /\ Top.at \in Decls =>
                 /\ \A i \in 1 .. Len(stack) - 1 : stack[i].at \in General \cup Programs
                 /\ Len(stack) - 1 \in 1..Len(stack) /\ stack[Len(stack) - 1].at \in Programs
           /\ Top.at \in General => Len(stack) = 1
<1>. DEFINE n == Len(stack)
<1>1. n \in Nat \ {0} /\ Top = stack[n]
  BY TopProperties DEF Top
<1>2. stack[1].at \in General /\ \A i \in 1 .. n - 1 : Linked(stack[i].at, stack[i + 1].at)
  BY DEF StackLinked
<1>. HIDE DEF n
<1>3. General \cap Programs = {} /\ General \cap Decls = {} /\ Programs \cap Decls = {}
  BY DEF General, Programs, Decls, FuncLabels
<1>4. \A i \in 1..n : stack[i].at \in General => i = 1
  <2>. SUFFICES ASSUME NEW i \in 1..n, i # 1 PROVE stack[i].at \notin General
    OBVIOUS
  <2>1. i - 1 \in 1 .. n - 1 /\ i - 1 + 1 = i
    BY <1>1
  <2>. QED
    BY <1>2, <2>1 DEF Linked
<1>5. \A i \in 1..n : stack[i].at \in Programs => i = 2
  <2>. SUFFICES ASSUME NEW i \in 1..n, stack[i].at \in Programs PROVE i = 2
    OBVIOUS
  <2>1. i # 1
    BY <1>2, <1>3
  <2>2. i - 1 \in 1 .. n - 1 /\ i - 1 + 1 = i /\ i - 1 \in 1..n
    BY <1>1, <2>1
  <2>3. stack[i - 1].at \in General
    BY <1>2, <2>2 DEF Linked
  <2>. QED
    BY <1>4, <2>2, <2>3
<1>6. \A i \in 1..n : stack[i].at \in Decls => i = 3 /\ stack[2].at \in Programs
  <2>. SUFFICES ASSUME NEW i \in 1..n, stack[i].at \in Decls PROVE i = 3 /\ stack[2].at \in Programs
    OBVIOUS
  <2>1. i # 1
    BY <1>2, <1>3
  <2>2. i - 1 \in 1 .. n - 1 /\ i - 1 + 1 = i /\ i - 1 \in 1..n
    BY <1>1, <2>1
  <2>3. stack[i - 1].at \in Programs
    BY <1>2, <2>2 DEF Linked
  <2>. QED
    BY <1>5, <2>2, <2>3
<1>7. n \in 1..n
  BY <1>1
<1>8. CASE Top.at \in Programs
  <2>1. n = 2
    BY <1>1, <1>5, <1>7, <1>8
  <2>. QED
    BY <1>2, <1>3, <1>8, <2>1 DEF n
<1>9. CASE Top.at \in Decls
  <2>1. n = 3 /\ stack[2].at \in Programs
    BY <1>1, <1>6, <1>7, <1>9
  <2>. QED
    BY <1>2, <1>3, <1>9, <2>1 DEF n
<1>. QED
  BY <1>1, <1>4, <1>7, <1>8, <1>9 DEF n

(* A call or a return that changes nothing else. *)
LEMMA StillPush ==
    ASSUME TypeOK, stack # << >>, UNCHANGED <<nodes, envs, current_env_id>>, NEW o, Region(o),
           NEW f, NEW c, stack' = Callers \o <<f, c>>, ret' = NULL, Holds(o, f), Holds(o, c)
    PROVE  Follows(o, {})
<1>1. \A g \in Activations' : g \in Activations \/ g \in {f, c}
  <2>. SUFFICES ASSUME NEW i \in 1..Len(stack')
                PROVE  stack'[i] \in Activations \cup {f, c}
    BY DEF Activations
  <2>1. i \in 1 .. Len(stack) - 1 => i \in 1..Len(stack)
    BY TopProperties
  <2>. QED
    BY <2>1, PushShape DEF Activations
<1>. QED
  BY <1>1, StillRegion

LEMMA StillPop ==
    ASSUME TypeOK, stack # << >>, UNCHANGED <<nodes, envs, current_env_id>>, NEW o, Region(o),
           stack' = Callers,
           NEW at, NEW v, at = stack[Len(stack) - 1].at, v = ret',
           stack' # << >> /\ v # NULL => Answered(o, at, v)
    PROVE  Follows(o, {})
<1>1. \A f \in Activations' : f \in Activations
  BY PopActivations
<1>2. stack' # << >> => Top' = stack[Len(stack) - 1]
  BY PopShape
<1>. QED
  BY <1>1, <1>2, StillRegion

(* A callee holds nothing yet. *)
LEMMA EntryHolds ==
    ASSUME NEW o, NEW at, at \notin FuncLabels \cup {"program_next", "block_next", "func_call_args"}
    PROVE  Holds(o, Frame(at)) /\ Frame(at).at = at
BY DEF Holds, Here, Frame, FuncLabels

(* The functions outside of functions, while they change nothing, ... *)
LEMMA OuterStill ==
    ASSUME TypeOK, StackLinked, NEW o, Region(o),
           \/ GetGeneral \/ Reject \/ GetProgram \/ ProgramFirst \/ (ProgramNext /\ ret = NULL)
           \/ GetFuncDecl \/ (FuncDeclName /\ ret = NULL) \/ FuncDeclParams
           \/ (FuncDeclBody /\ ret = NULL)
    PROVE  Follows(o, {})
<1>. USE DEF Quiet, heap, tables
<1>1. /\ \A at \in {"program", "func_decl", "identifier", "block"} :
            Holds(o, Frame(at)) /\ Frame(at).at = at
  BY EntryHolds DEF FuncLabels
<1>2. ASSUME stack # << >> PROVE Holds(o, Top) /\ Top \in Frames(Len(nodes))
  <2>1. Len(stack) \in 1..Len(stack) /\ Top \in Frames(Len(nodes))
    BY <1>2, TopProperties
  <2>. QED
    BY <2>1 DEF Region, Activations, Top
<1>3. ASSUME GetGeneral PROVE Follows(o, {})
  <2>. DEFINE f == [Top EXCEPT !.at = "general_end"]
  <2>1. At("general") /\ Goto(f, Frame("program"), pos) /\ UNCHANGED <<nodes, envs, current_env_id>>
    BY <1>3 DEF GetGeneral, Call
  <2>2. f.at = "general_end"
    BY <2>1, GoesOn
  <2>. HIDE DEF f
  <2>3. Holds(o, f)
    BY <2>2 DEF Holds, Outer, General, Programs, FuncLabels
  <2>. QED
    BY <1>1, <2>1, <2>3, StillPush DEF Goto, At, Running
<1>4. ASSUME Reject PROVE Follows(o, {})
  BY <1>4, StillPop DEF Reject, At, Running
<1>5. ASSUME GetProgram PROVE Follows(o, {})
  <2>. DEFINE f == [Top EXCEPT !.at = "program_first"]
  <2>1. At("program") /\ Goto(f, Frame("func_decl"), pos) /\ UNCHANGED <<nodes, envs, current_env_id>>
    BY <1>5 DEF GetProgram, Call
  <2>2. f.at = "program_first" /\ f.l = Top.l
    BY <2>1, TopRecord
  <2>. HIDE DEF f
  <2>3. Top.l \in Spine(o) \cup {NULL}
    BY <1>2, <2>1 DEF Holds, Programs, At, Running
  <2>4. Holds(o, f)
    BY <2>2, <2>3 DEF Holds, Outer, General, Programs, FuncLabels
  <2>. QED
    BY <1>1, <2>1, <2>4, StillPush DEF Goto, At, Running
<1>6. ASSUME ProgramFirst PROVE Follows(o, {})
  <2>. DEFINE f == [Top EXCEPT !.at = "program_next", !.l = ret]
  <2>1. /\ At("program_first") /\ UNCHANGED <<nodes, envs, current_env_id>>
        /\ \/ Return(NULL, pos)
           \/ ret # NULL /\ Goto(f, Frame("func_decl"), pos)
    BY <1>6 DEF ProgramFirst
  <2>2. f.at = "program_next" /\ f.l = ret
    BY <2>1, TopRecord
  <2>. HIDE DEF f
  <2>3. CASE Return(NULL, pos)
    BY <2>1, <2>3, StillPop DEF Return, At, Running
  <2>4. CASE ret # NULL /\ Goto(f, Frame("func_decl"), pos)
    <3>1. ret \in Spine(o)
      BY <2>1, <2>4 DEF Region, Answered, Programs, At, Running
    <3>2. Holds(o, f)
      BY <2>2, <2>4, <3>1 DEF Holds, Outer, General, Programs, FuncLabels
    <3>. QED
      BY <1>1, <2>1, <2>4, <3>2, StillPush DEF Goto, At, Running
  <2>. QED
    BY <2>1, <2>3, <2>4
<1>7. ASSUME ProgramNext, ret = NULL PROVE Follows(o, {})
  <2>1. /\ At("program_next") /\ Return(Top.l, pos) /\ UNCHANGED <<nodes, envs, current_env_id>>
    BY <1>7 DEF ProgramNext
  <2>2. Top.l \in Spine(o) /\ stack # << >> /\ Top.at \in Programs
    BY <1>2, <2>1 DEF Holds, Programs, At, Running
  <2>3. ASSUME stack' # << >> PROVE Answered(o, stack[Len(stack) - 1].at, Top.l)
    <3>1. stack[Len(stack) - 1].at \in General
      BY <2>1, <2>2, <2>3, PopShape, OuterDepth DEF Return
    <3>. QED
      BY <2>2, <3>1 DEF Answered, General, Blocks
  <2>. QED
    BY <2>1, <2>2, <2>3, StillPop DEF Return
<1>8. ASSUME GetFuncDecl PROVE Follows(o, {})
  <2>. DEFINE f == [Top EXCEPT !.at = "func_decl_name"]
  <2>1. /\ At("func_decl") /\ UNCHANGED <<nodes, envs, current_env_id>>
        /\ Return(NULL, pos) \/ Goto(f, Frame("identifier"), pos + 1)
    BY <1>8 DEF GetFuncDecl, Leads, Call, Identifier
  <2>2. f.at = "func_decl_name"
    BY <2>1, GoesOn
  <2>. HIDE DEF f
  <2>3. CASE Return(NULL, pos)
    BY <2>1, <2>3, StillPop DEF Return, At, Running
  <2>4. CASE Goto(f, Frame("identifier"), pos + 1)
    <3>1. Holds(o, f)
      BY <2>2 DEF Holds, Outer, Decls, Programs, FuncLabels
    <3>. QED
      BY <1>1, <2>1, <2>4, <3>1, StillPush DEF Goto, At, Running
  <2>. QED
    BY <2>1, <2>3, <2>4
<1>9. ASSUME ret = NULL, FuncDeclName \/ FuncDeclBody PROVE Follows(o, {})
  BY <1>9, StillPop DEF FuncDeclName, FuncDeclBody, Fail, FailAt, Return, At, Running
<1>10. ASSUME FuncDeclParams PROVE Follows(o, {})
  <2>. DEFINE f == [Top EXCEPT !.at = "func_decl_body", !.r = ret]
  <2>1. /\ At("func_decl_params") /\ UNCHANGED <<nodes, envs, current_env_id>>
        /\ Return(NULL, pos) \/ Goto(f, Frame("block"), pos + 1)
    BY <1>10 DEF FuncDeclParams, Fail, FailAt, Block
  <2>2. f.at = "func_decl_body" /\ f.l = Top.l /\ f.n = Top.n /\ f.r = ret
    BY <2>1, TopRecord
  <2>. HIDE DEF f
  <2>3. CASE Return(NULL, pos)
    BY <2>1, <2>3, StillPop DEF Return, At, Running
  <2>4. CASE Goto(f, Frame("block"), pos + 1)
    <3>1. Declaring(o, f)
      BY <1>2, <2>1, <2>2 DEF Holds, FuncLabels, Declaring, At, Running
    <3>2. Here(o, ret)
      BY <2>1 DEF Region, Answered, Here, At, Running, General, Programs
    <3>3. Holds(o, f)
      BY <2>2, <3>1, <3>2 DEF Holds, Outer, Decls, Programs, FuncLabels
    <3>. QED
      BY <1>1, <2>1, <2>4, <3>3, StillPush DEF Goto, At, Running
  <2>. QED
    BY <2>1, <2>3, <2>4
<1>. QED
  BY <1>3, <1>4, <1>5, <1>6, <1>7, <1>8, <1>9, <1>10

(* ... when a declaration joins the others, ... *)
LEMMA JoinRegion ==
    ASSUME TypeOK, StackLinked, FuncsFirst, IdentifiersResolve, EnvsGrow, NEW o, Region(o),
           ProgramNext, ret # NULL
    PROVE  Follows(o, {Fresh})
<1>. DEFINE f == [Top EXCEPT !.l = Len(nodes) + 1]
            node == Node("{", Top.l, ret)
<1>0. Len(nodes) \in Nat
  BY DEF TypeOK, HeapOK
<1>1. /\ At("program_next") /\ Goto(f, Frame("func_decl"), pos)
      /\ nodes' = Append(nodes, node) /\ UNCHANGED current_env_id /\ ret # NULL
  BY DEF ProgramNext, NewNode, tables
<1>2. f.at = "program_next" /\ f.l = Len(nodes) + 1
  BY <1>1, TopRecord DEF At
<1>3. node.tok = "{" /\ node.left = Top.l /\ node.right = ret
  BY DEF Node
<1>. HIDE DEF f, node
<1>4. Top \in Activations /\ stack # << >> /\ Top.at = "program_next"
  BY <1>1, TopProperties DEF Activations, Top, At, Running
<1>5. {Top.l, ret} \subseteq Spine(o)
  BY <1>1, <1>4 DEF Region, Holds, Answered, Programs
<1>6. node.tok \notin Names \cup {"call"}
  BY <1>3, NotNames DEF Separators, Marked
<1>7. PICK p : p = [v \in 1..Len(nodes') |-> IF v \in 1..Len(nodes) THEN o[v] ELSE -1]
  OBVIOUS
<1>8. /\ Undisturbed(o, p) /\ p \in [1..Len(nodes') -> -1..current_env_id'] /\ Parted(p)'
      /\ Len(nodes) + 1 \in Spine(p)' /\ SpineGrown(o, p, {Fresh})
  <2>1. node.right # NULL /\ {node.left, node.right} \subseteq Spine(o)
    BY <1>1, <1>3, <1>5
  <2>. QED
    BY <1>1, <1>6, <1>7, <2>1, JoinsAbove
<1>9. ASSUME NEW g \in Activations' PROVE Holds(p, g)'
  <2>1. PICK i \in 1..Len(stack') : g = stack'[i]
    BY DEF Activations
  <2>2. /\ i \in 1 .. Len(stack) - 1 \/ i = Len(stack) \/ i = Len(stack) + 1
        /\ \A j \in 1 .. Len(stack) - 1 : stack'[j] = stack[j]
        /\ stack'[Len(stack)] = f /\ stack'[Len(stack) + 1] = Frame("func_decl")
        /\ Len(stack) \in Nat
    BY <1>1, <1>4, PushShape DEF Goto
  <2>3. CASE i \in 1 .. Len(stack) - 1
    <3>1. i \in 1..Len(stack) /\ g = stack[i]
      BY <2>1, <2>2, <2>3
    <3>. QED
      BY <1>8, <3>1, WaitingHold
  <2>4. CASE g = f
    <3>1. g.at = "program_next" /\ g.l \in Spine(p)' /\ g.l # NULL
      BY <1>0, <1>2, <1>8, <2>4 DEF NULL
    <3>. QED
      BY <3>1 DEF Holds, Outer, Programs, FuncLabels
  <2>5. CASE g = Frame("func_decl")
    <3>1. g.at = "func_decl"
      BY <2>5, CalledAt
    <3>. QED
      BY <3>1 DEF Holds, Outer, Decls, Programs, FuncLabels
  <2>. QED
    BY <2>1, <2>2, <2>3, <2>4, <2>5
<1>10. Region(p)'
  BY <1>1, <1>8, <1>9 DEF Region, Goto
<1>. QED
  BY <1>8, <1>10 DEF Follows

(* ... when the text is accepted, ... *)
LEMMA AcceptRegion ==
    ASSUME TypeOK, StackLinked, FuncsFirst, IdentifiersResolve, EnvsGrow, NEW o, Region(o), Accept
    PROVE  Follows(o, {})
<1>. DEFINE node == Node("FAKE", ret, NULL)
<1>1. /\ stack # << >> /\ stack' = Callers /\ ret' = NULL
      /\ nodes' = Append(nodes, node) /\ UNCHANGED current_env_id
  BY DEF Accept, tables, At, Running
<1>2. node.tok = "FAKE" /\ node.right = NULL
  BY NodeFields
<1>. HIDE DEF node
<1>3. PICK p : p = [v \in 1..Len(nodes') |-> IF v \in 1..Len(nodes) THEN o[v] ELSE -1]
  OBVIOUS
<1>4. Undisturbed(o, p) /\ p \in [1..Len(nodes') -> -1..current_env_id'] /\ Parted(p)'
      /\ SpineGrown(o, p, {})
  BY <1>1, <1>2, <1>3, JoinsAbove
<1>5. ASSUME NEW g \in Activations' PROVE Holds(p, g)'
  <2>1. PICK i \in 1 .. Len(stack) - 1 : g = stack[i]
    BY <1>1, PopActivations
  <2>2. i \in 1..Len(stack)
    BY <1>1, TopProperties
  <2>. QED
    BY <1>4, <2>1, <2>2, WaitingHold
<1>6. Region(p)'
  BY <1>1, <1>4, <1>5 DEF Region
<1>. QED
  BY <1>4, <1>6 DEF Follows

(* ... when a declaration gets an environment, to which its name does not   *)
(* belong, ...                                                             *)
LEMMA NameRegion ==
    ASSUME TypeOK, StackLinked, FuncsFirst, IdentifiersResolve, SingleOwner, EnvsGrow,
           NEW o, Region(o), FuncDeclName, ret # NULL
    PROVE  Follows(o, {})
<1>. DEFINE e == current_env_id
<1>1. /\ At("func_decl_name") /\ UNCHANGED nodes /\ stack # << >> /\ Top.at = "func_decl_name"
      /\ envs' = Append(envs, AddSymbol(CreateEnv, FuncSymbol(ret)))
      /\ current_env_id' = Len(envs) /\ ret' = NULL
  BY DEF FuncDeclName, heap, At, Running, Goto, Return, AddEnviroment
<1>2. /\ e = Len(envs) - 1 /\ Len(envs) \in Nat /\ envs \in Seq(Seq(Symbols))
      /\ current_env_id' = e + 1 /\ e \in Int /\ e + 1 \in Nat
  BY <1>1 DEF TypeOK, TablesOK
<1>3. /\ ret \in 1..Len(nodes) /\ o[ret] = e
      /\ nodes[ret].tok \in Names /\ nodes[ret].right = NULL
  <2>1. ret \in 1..Len(nodes)
    BY DEF TypeOK, StackOK, HeapOK, Refs, NULL
  <2>2. Answered(o, "func_decl_name", ret)
    BY <1>1 DEF Region
  <2>. QED
    BY <2>1, <2>2 DEF Answered, Here, General, Programs
<1>4. envs'[e + 2][1] = Function(nodes[ret].tok)
  <2>1. FuncSymbol(ret) \in Symbols
    BY <1>3, NodeAt, SymbolOf DEF FuncSymbol, TypeOK, StackOK
  <2>2. envs' = Append(envs, <<FuncSymbol(ret)>>)
    BY <1>1, <2>1, CreatedEnv
  <2>3. envs'[Len(envs) + 1] = <<FuncSymbol(ret)>>
    BY <1>2, <2>2
  <2>4. <<FuncSymbol(ret)>>[1] = FuncSymbol(ret)
    OBVIOUS
  <2>5. e + 2 = Len(envs) + 1
    BY <1>2
  <2>. QED
    BY <2>3, <2>4, <2>5 DEF FuncSymbol
<1>5. \A v \in 1..Len(nodes) : nodes[v].left # ret /\ nodes[v].right # ret
  <2>. SUFFICES ASSUME NEW v \in 1..Len(nodes), nodes[v].left = ret \/ nodes[v].right = ret
                PROVE  FALSE
    OBVIOUS
  <2>1. <<"ret", 0>> \in Owners(ret)
    BY OwnerCases
  <2>2. <<"left", v>> \in Owners(ret) \/ <<"right", v>> \in Owners(ret)
    BY OwnerCases
  <2>. QED
    BY <1>3, <2>1, <2>2 DEF SingleOwner
<1>6. PICK p : p = [o EXCEPT ![ret] = -1]
  OBVIOUS
<1>7. /\ o \in [1..Len(nodes) -> -1..e] /\ Parted(o)
  BY DEF Region
<1>8. /\ p[ret] = -1 /\ \A v \in 1..Len(nodes) : v # ret => p[v] = o[v]
      /\ p \in [1..Len(nodes') -> -1..current_env_id']
  <2>1. -1..e \subseteq -1..current_env_id' /\ -1 \in -1..current_env_id'
    BY <1>2
  <2>. HIDE DEF e
  <2>. QED
    BY <1>1, <1>3, <1>6, <1>7, <2>1
<1>9. Spine(p)' = Spine(o) /\ Own(p)' = Own(o)
  BY <1>1, <1>3, <1>8 DEF Spine, Own
<1>10. /\ \A i \in 1 .. e + 1 : envs'[i][1] = envs[i][1]
       /\ \A str : \A k \in -1..e : Known(str, k) => Known(str, k)'
  BY FirstStays
<1>11. \A v \in 1..Len(nodes) : \A c \in {nodes[v].left, nodes[v].right} \ {NULL} : p[c] = o[c]
  <2>. SUFFICES ASSUME NEW v \in 1..Len(nodes), NEW c \in {nodes[v].left, nodes[v].right} \ {NULL}
                PROVE  c \in 1..Len(nodes)
    BY <1>5, <1>8
  <2>1. nodes[v] \in Nodes(Len(nodes))
    BY ElementOfSeq DEF TypeOK, HeapOK
  <2>. QED
    BY <2>1 DEF Nodes, NULL
<1>. HIDE DEF e
<1>12. ASSUME NEW v \in 1..Len(nodes), p[v] = -1 PROVE OutsideFunctions(p, v)'
  <2>1. CASE v = ret
    <3>1. v \notin Spine(p)' /\ nodes'[v].tok # "call"
      BY <1>1, <1>3, <2>1, NotNames DEF Spine
    <3>. QED
      BY <3>1 DEF OutsideFunctions, Own
  <2>2. CASE v # ret
    <3>1. OutsideFunctions(o, v)
      BY <1>7, <1>8, <1>12, <2>2 DEF Parted
    <3>2. ASSUME v \in Own(o) PROVE Owning(p, v)'
      <4>1. Owning(o, v)
        BY <3>1, <3>2 DEF OutsideFunctions
      <4>2. nodes[v].scope + 1 \in 1 .. e + 1 /\ nodes[v].scope \in 0 .. e + 1
        BY <1>2, <4>1 DEF Owning, e
      <4>3. envs'[nodes[v].scope + 1][1] = Function(nodes[v].tok)
        BY <1>10, <4>1, <4>2 DEF Owning
      <4>4. \A c \in {nodes[v].left, nodes[v].right} \ {NULL} : p[c] = nodes[v].scope
        BY <1>11, <4>1 DEF Owning
      <4>. QED
        BY <1>1, <1>2, <1>9, <4>1, <4>2, <4>3, <4>4 DEF Owning
    <3>. QED
      BY <1>1, <1>9, <3>1, <3>2 DEF OutsideFunctions
  <2>. QED
    BY <2>1, <2>2
<1>13. ASSUME NEW v \in 1..Len(nodes), p[v] # -1 PROVE Within(p, v)'
  <2>1. v # ret /\ p[v] = o[v] /\ Within(o, v) /\ o[v] \in 0..e /\ o[v] \in -1..e
    BY <1>2, <1>7, <1>8, <1>13 DEF Parted
  <2>2. ASSUME nodes[v].tok \in Names PROVE EnteredThere(v)'
    <3>1. envs # << >>
      <4>1. Len(envs) # 0
        BY <1>2, <2>1 DEF e
      <4>. QED
        BY <4>1
    <3>2. Resolved(v) /\ EnteredThere(v)
      BY <2>1, <2>2, <3>1 DEF IdentifiersResolve, Resolved, Within
    <3>. QED
      BY <1>1, <3>2, ResolvedStays
  <2>3. ASSUME nodes[v].tok = "call" PROVE Known(nodes[nodes[v].left].tok, o[v])'
    <3>1. Known(nodes[nodes[v].left].tok, o[v])
      BY <2>1, <2>3 DEF Within
    <3>2. \E i \in 1 .. o[v] + 1 : envs'[i][1] = Function(nodes[nodes[v].left].tok)
      BY <1>10, <2>1, <3>1 DEF Known
    <3>. QED
      BY <1>1, <3>2 DEF Known
  <2>. QED
    BY <1>1, <1>11, <2>1, <2>2, <2>3 DEF Within
<1>14. ASSUME NEW g \in Activations, g.at \in General \cup Programs PROVE Holds(p, g)'
  BY <1>9, <1>14 DEF Region, Holds, Outer, General, Programs, Decls, FuncLabels
<1>15. ASSUME NEW g \in Activations' PROVE Holds(p, g)'
  <2>. DEFINE f == [Top EXCEPT !.at = "func_decl_params", !.l = ret, !.n = AddEnviroment]
  <2>1. stack' = Callers \/ stack' = Callers \o <<f, Frame("parameter_list")>>
    BY DEF FuncDeclName, Goto, Return
  <2>2. f.at = "func_decl_params" /\ f.l = ret /\ f.n = e + 1
    BY <1>1, <1>2, TopRecord DEF AddEnviroment
  <2>. HIDE DEF f
  <2>3. \A i \in 1 .. Len(stack) - 1 :
           stack[i] \in Activations /\ stack[i].at \in General \cup Programs
    <3>1. Top.at \in Decls /\ Len(stack) \in Nat
      BY <1>1, TopProperties DEF Decls
    <3>2. \A i \in 1 .. Len(stack) - 1 : i \in 1..Len(stack)
      BY <3>1
    <3>. QED
      BY <1>1, <3>1, <3>2, OuterDepth DEF Activations
  <2>4. CASE stack' = Callers
    BY <1>1, <1>14, <2>3, <2>4, PopActivations
  <2>5. CASE stack' = Callers \o <<f, Frame("parameter_list")>>
    <3>1. PICK i \in 1..Len(stack') : g = stack'[i]
      BY DEF Activations
    <3>2. /\ i \in 1 .. Len(stack) - 1 \/ i = Len(stack) \/ i = Len(stack) + 1
          /\ \A j \in 1 .. Len(stack) - 1 : stack'[j] = stack[j]
          /\ stack'[Len(stack)] = f /\ stack'[Len(stack) + 1] = Frame("parameter_list")
      BY <1>1, <2>5, PushShape
    <3>3. CASE i \in 1 .. Len(stack) - 1
      BY <1>14, <2>3, <3>1, <3>2, <3>3
    <3>4. CASE g = f
      <4>1. \A w \in Own(o) : nodes[w].scope \in 0..e
        BY <1>7 DEF Parted, OutsideFunctions, Owning, Own, Spine, e
      <4>2. \A w \in Own(p)' : nodes'[w].scope # current_env_id'
        BY <1>1, <1>2, <1>9, <4>1
      <4>3. Declaring(p, g)'
        BY <1>1, <1>2, <1>3, <1>4, <1>8, <2>2, <3>4, <4>2 DEF Declaring
      <4>. QED
        BY <2>2, <3>4, <4>3 DEF Holds, Outer, Decls, Programs, FuncLabels
    <3>5. CASE g = Frame("parameter_list")
      BY <3>5 DEF Holds, Here, Frame, FuncLabels, Programs
    <3>. QED
      BY <3>1, <3>2, <3>3, <3>4, <3>5
  <2>. QED
    BY <2>1, <2>4, <2>5
<1>16. Region(p)'
  BY <1>1, <1>8, <1>12, <1>13, <1>15 DEF Region, Parted
<1>17. SpineGrown(o, p, {})
  BY <1>1, <1>9 DEF SpineGrown
<1>. QED
  BY <1>16, <1>17 DEF Follows

(* ... and when it gets its body. *)
LEMMA BodyRegion ==
    ASSUME TypeOK, StackLinked, NEW o, Region(o), FuncDeclBody, ret # NULL
    PROVE  /\ Follows(o, {Top.l})
           /\ \A l : l = Top.l => nodes'[l].tok \in Names /\ nodes'[l].scope = current_env_id
<1>. DEFINE sym == FuncSymbol(Top.l)
            node == [nodes[Top.l] EXCEPT !.scope = Top.n, !.inner = AddedId(CreateEnv, sym),
                                         !.left = Top.r, !.right = ret]
<1>1. /\ At("func_decl_body") /\ stack # << >> /\ Top.at = "func_decl_body"
      /\ nodes' = [nodes EXCEPT ![Top.l] = node] /\ UNCHANGED <<envs, current_env_id>>
      /\ stack' = Callers /\ ret' = Top.l
  BY DEF FuncDeclBody, tables, At, Running, Return
<1>2. PICK l : l = Top.l
  OBVIOUS
<1>3. /\ l \in 1..Len(nodes) /\ Declaring(o, Top) /\ Here(o, Top.r) /\ Here(o, ret)
      /\ Top.n \in Nat
  <2>1. Top \in Frames(Len(nodes)) /\ Len(stack) \in 1..Len(stack)
    BY <1>1, TopProperties
  <2>2. Holds(o, Top)
    BY <2>1 DEF Region, Activations, Top
  <2>3. l \in 1..Len(nodes) /\ Top.n \in Nat
    BY <1>1, <1>2, <2>1, FramePointers DEF FuncLabels
  <2>4. Answered(o, "func_decl_body", ret)
    BY <1>1 DEF Region
  <2>. QED
    BY <1>1, <2>2, <2>3, <2>4 DEF Holds, Answered, FuncLabels, General, Programs
<1>4. /\ nodes \in Seq(Nodes(Len(nodes))) /\ nodes[l] \in Nodes(Len(nodes))
      /\ Len(nodes) \in Nat
  BY <1>3, ElementOfSeq DEF TypeOK, HeapOK
<1>5. /\ node.tok = nodes[l].tok /\ node.scope = Top.n /\ node.inner = 0
      /\ node.left = Top.r /\ node.right = ret
  <2>1. sym \in Symbols
    BY <1>2, <1>3, NodeAt, SymbolOf DEF FuncSymbol, TypeOK, Refs, NULL
  <2>2. AddedId(CreateEnv, sym) = 0
    BY <2>1, CreatedEnv
  <2>. QED
    BY <1>2, <1>4, <2>2 DEF Nodes
<1>. HIDE DEF node, sym
<1>6. /\ Len(nodes') = Len(nodes) /\ nodes'[l] = node
      /\ \A v \in 1..Len(nodes) : v # l => nodes'[v] = nodes[v]
      /\ \A v \in 1..Len(nodes) : nodes'[v].tok = nodes[v].tok
  BY <1>1, <1>2, <1>3, <1>4, <1>5
<1>7. /\ o[l] = -1 /\ nodes[l].tok \in Names /\ nodes[l].right = NULL
      /\ Top.n = current_env_id
      /\ envs[current_env_id + 1][1] = Function(nodes[l].tok)
      /\ \A w \in Own(o) : nodes[w].scope # current_env_id
  BY <1>2, <1>3 DEF Declaring
<1>8. Spine(o)' = Spine(o) \cup {l} /\ Own(o)' = Own(o) \cup {l} /\ l \notin Spine(o)
  BY <1>3, <1>5, <1>6, <1>7 DEF Spine, Own
<1>9. /\ o \in [1..Len(nodes) -> -1..current_env_id] /\ Parted(o)
  BY DEF Region
<1>10. ASSUME NEW v \in 1..Len(nodes), o[v] = -1 PROVE OutsideFunctions(o, v)'
  <2>1. CASE v = l
    <3>1. Top.n \in 0..current_env_id
      BY <1>3, <1>7
    <3>2. \A c \in {Top.r, ret} \ {NULL} : o[c] = Top.n
      BY <1>3, <1>7 DEF Here
    <3>3. \A w \in Own(o)' : nodes'[w].scope = Top.n => w = l
      BY <1>6, <1>7, <1>8 DEF Own, Spine
    <3>4. Owning(o, l)'
      BY <1>1, <1>5, <1>6, <1>7, <3>1, <3>2, <3>3 DEF Owning
    <3>5. nodes'[l].tok # "call"
      BY <1>3, <1>6, <1>7, NotNames
    <3>. QED
      BY <1>8, <2>1, <3>4, <3>5 DEF OutsideFunctions
  <2>2. CASE v # l
    <3>1. OutsideFunctions(o, v) /\ nodes'[v] = nodes[v]
      BY <1>6, <1>9, <1>10, <2>2 DEF Parted
    <3>2. ASSUME v \in Own(o) PROVE Owning(o, v)'
      <4>1. Owning(o, v) /\ nodes[v].scope # current_env_id
        BY <1>7, <3>1, <3>2 DEF OutsideFunctions
      <4>2. \A w \in Own(o)' : nodes'[w].scope = nodes[v].scope => w = v
        BY <1>5, <1>6, <1>7, <1>8, <4>1 DEF Owning, Own, Spine
      <4>. QED
        BY <1>1, <3>1, <4>1, <4>2 DEF Owning
    <3>. QED
      BY <1>8, <2>2, <3>1, <3>2 DEF OutsideFunctions
  <2>. QED
    BY <2>1, <2>2
<1>11. ASSUME NEW v \in 1..Len(nodes), o[v] # -1 PROVE Within(o, v)'
  <2>1. Within(o, v) /\ nodes'[v] = nodes[v]
    BY <1>6, <1>7, <1>9, <1>11 DEF Parted
  <2>2. nodes[v].left # NULL => nodes'[nodes[v].left].tok = nodes[nodes[v].left].tok
    <3>1. nodes[v] \in Nodes(Len(nodes))
      BY <1>4, ElementOfSeq
    <3>2. nodes[v].left # NULL => nodes[v].left \in 1..Len(nodes)
      BY <3>1 DEF Nodes, NULL
    <3>. QED
      BY <1>6, <3>2
  <2>. QED
    BY <1>1, <2>1, <2>2 DEF Within, EnteredThere, Known
<1>12. \A i \in 1 .. Len(stack) - 1 : stack[i].at \in General \cup Programs
  BY <1>1, OuterDepth DEF Decls, FuncLabels
<1>13. ASSUME NEW g \in Activations' PROVE Holds(o, g)'
  <2>1. g \in Activations /\ g.at \in General \cup Programs
    BY <1>1, <1>12, PopActivations
  <2>. QED
    BY <1>8, <2>1 DEF Region, Holds, Outer, General, Programs, Decls, FuncLabels
<1>14. ASSUME stack' # << >> PROVE Answered(o, Top.at, ret)'
  <2>1. Top' = stack[Len(stack) - 1] /\ stack[Len(stack) - 1].at \in Programs
    BY <1>1, <1>14, PopShape, OuterDepth DEF Decls, FuncLabels
  <2>2. PICK at : at = Top'.at /\ at \in Programs
    BY <2>1
  <2>3. ret' \in Spine(o)'
    BY <1>1, <1>2, <1>8
  <2>. QED
    BY <2>2, <2>3 DEF Answered, General, Programs, Blocks
<1>15. Region(o)'
  BY <1>1, <1>6, <1>9, <1>10, <1>11, <1>13, <1>14 DEF Region, Parted
<1>16. SpineGrown(o, o, {Top.l})
  BY <1>2, <1>6, <1>8 DEF SpineGrown, Spine
<1>. QED
  BY <1>2, <1>3, <1>5, <1>6, <1>7, <1>15, <1>16 DEF Follows

(* Nothing but the declaration of a function makes an environment. *)
LEMMA TablesStay ==
    ASSUME TypeOK, TypeOK', TablesStep, Top.at # "func_decl_name"
    PROVE  EnvsGrow /\ UNCHANGED current_env_id
<1>1. /\ envs \in Seq(Seq(Symbols)) /\ current_env_id = Len(envs) - 1
      /\ current_env_id' = Len(envs') - 1
  BY DEF TypeOK, TablesOK
<1>2. CASE envs # << >> /\ \E sym \in Symbols : AddToEnv(sym)
  <2>1. Len(envs') = Len(envs)
    BY <1>1, <1>2, EnvProperties DEF AddToEnv
  <2>. QED
    BY <1>1, <2>1, TablesGrow
<1>3. CASE UNCHANGED envs
  BY <1>1, <1>3, TablesGrow
<1>. QED
  BY <1>2, <1>3 DEF TablesStep

(* No step drops a node. *)
LEMMA NodesRemain ==
    ASSUME IInv, [Next]_vars
    PROVE  Len(nodes) <= Len(nodes')
<1>1. nodes \in Seq(Nodes(Len(nodes))) /\ Len(nodes) \in Nat
  BY DEF IInv, TypeOK, HeapOK
<1>2. Accept => Len(nodes') = Len(nodes) + 1
  BY <1>1, AppendProperties DEF Accept
<1>3. Ordinary => Len(nodes') \in {Len(nodes), Len(nodes) + 1}
  BY DEF Ordinary, ListStep
<1>. QED
  BY <1>1, <1>2, <1>3, Steps DEF Reject, Abort, heap, vars

(* Every step keeps the regions, and two of them add to the spine. *)
LEMMA RegionFollows ==
    ASSUME IInv, SingleOwner, NamesInv, StackLinked, FuncsFirst, NEW o, Region(o), [Next]_vars
    PROVE  /\ ProgramNext /\ ret # NULL => Follows(o, {Fresh})
           /\ FuncDeclBody /\ ret # NULL =>
                 /\ Follows(o, {Top.l})
                 /\ \A l : l = Top.l =>
                       nodes'[l].tok \in Names /\ nodes'[l].scope = current_env_id
           /\ ~(ProgramNext /\ ret # NULL) /\ ~(FuncDeclBody /\ ret # NULL) => Follows(o, {})
<1>1. Region(o)
  OBVIOUS
<1>2. TypeOK /\ TypeOK' /\ IdentifiersResolve /\ Headed /\ TablesStep /\ EnvsGrow
  BY Inductive, TablesOrSame, TablesGrow DEF IInv, NamesInv
<1>7. ProgramNext /\ ret # NULL => Follows(o, {Fresh})
  BY <1>2, JoinRegion
<1>8. FuncDeclBody /\ ret # NULL =>
         /\ Follows(o, {Top.l})
         /\ \A l : l = Top.l => nodes'[l].tok \in Names /\ nodes'[l].scope = current_env_id
  BY <1>2, BodyRegion
<1>. SUFFICES ASSUME ~(ProgramNext /\ ret # NULL), ~(FuncDeclBody /\ ret # NULL)
              PROVE  Follows(o, {})
  BY <1>7, <1>8
<1>3. CASE OuterMove
  <2>1. \/ GetGeneral \/ Reject \/ GetProgram \/ ProgramFirst \/ (ProgramNext /\ ret = NULL)
        \/ GetFuncDecl \/ (FuncDeclName /\ ret = NULL) \/ FuncDeclParams
        \/ (FuncDeclBody /\ ret = NULL)
        \/ Accept \/ (FuncDeclName /\ ret # NULL)
    BY <1>3 DEF OuterMove
  <2>. QED
    BY <1>2, <2>1, OuterStill, AcceptRegion, NameRegion, Zenon
<1>4. ASSUME Unmoved, TablesStep PROVE Follows(o, {})
  <2>1. UNCHANGED <<nodes, envs, current_env_id>> /\ UNCHANGED <<stack, ret>>
    BY <1>2, <1>4 DEF Unmoved, TypeOK, TablesOK
  <2>2. Activations' = Activations
    BY <2>1 DEF Activations
  <2>3. stack' # << >> /\ ret' # NULL => Answered(o, Top.at, ret) /\ Top' = Top
    BY <1>1, <2>1 DEF Region, Top
  <2>. QED
    BY <1>1, <2>1, <2>2, <2>3, StillRegion
<1>5. CASE Abort \/ UNCHANGED vars
  BY <1>2, <1>4, <1>5 DEF Abort, Unmoved, heap, tables, vars
<1>6. CASE InnerMove /\ stack # << >> /\ Top.at \notin Outer
  <2>1. Top.at # "func_decl_name"
    BY <1>6 DEF Outer, Decls
  <2>2. UNCHANGED current_env_id /\ Len(nodes) <= Len(nodes')
    BY <1>2, <2>1, TablesStay, NodesRemain
  <2>3. CASE Passing /\ NamesStep /\ envs # << >>
    <3>1. PICK given, a, b : InnerStep(given, a, b)
      BY <1>2, <1>6, <2>2, <2>3 DEF Passing, InnerStep
    <3>. QED
      BY <1>1, <1>2, <1>6, <2>3, <3>1, InnerRegion
  <2>4. CASE envs = << >> /\ (Orderly \/ NamesFirst)
    <3>1. UNCHANGED envs
      BY <1>2, <2>1, <2>4 DEF TablesStep
    <3>. QED
      BY <1>1, <1>2, <1>6, <2>2, <2>4, <3>1, EarlyRegion
  <2>5. Orderly => Passing /\ NamesStep
    BY TameNames DEF Orderly
  <2>6. Binding => Passing /\ NamesStep
    BY <1>2 DEF Binding
  <2>7. ~Declares /\ (NamesFirst => envs = << >>)
    BY <2>1 DEF Declares, NamesFirst
  <2>. QED
    BY <1>2, <1>4, <2>3, <2>4, <2>5, <2>6, <2>7, EveryStep
<1>. QED
  BY <1>3, <1>5, <1>6, EveryMove

-----------------------------------------------------------------------------
(* The functions that are complete. *)

(* The callers of the functions outside of functions go on there. *)
LEMMA CallersJoin ==
    ASSUME TypeOK, StackLinked, stack # << >>, stack' = Callers
    PROVE  /\ Top.at \in General => stack' = << >>
           /\ Top.at \in Programs => stack' # << >> /\ Top'.at = "general_end"
           /\ Top.at \in Decls =>
                 stack' # << >> /\ Top'.at \in {"program_first", "program_next"}
           /\ Top.at \notin Outer => stack' # << >> /\ Top'.at \notin General \cup Programs
<1>1. /\ Len(stack) \in Nat \ {0} /\ Len(stack') = Len(stack) - 1
      /\ stack' # << >> => Top' = stack[Len(stack) - 1]
      /\ Top = stack[Len(stack)]
  BY PopShape DEF Top
<1>2. CASE Len(stack) = 1
  <2>1. Top.at \in General /\ Len(stack') = 0
    BY <1>1, <1>2 DEF StackLinked
  <2>2. stack' \in Seq(Frames(Len(nodes)))
    BY <1>1, PopProperties DEF Callers, Popped, TypeOK, StackOK
  <2>3. stack' = << >>
    BY <2>1, <2>2, EmptySeq
  <2>. QED
    BY <2>1, <2>3 DEF Outer, General, Programs, Decls, FuncLabels
<1>3. CASE Len(stack) # 1
  <2>1. Len(stack) - 1 \in 1 .. Len(stack) - 1 /\ Len(stack') # 0
    BY <1>1, <1>3
  <2>2. stack' # << >>
    BY <2>1
  <2>3. Linked(Top'.at, Top.at)
    <3>1. Linked(stack[Len(stack) - 1].at, stack[Len(stack) - 1 + 1].at)
      BY <2>1 DEF StackLinked
    <3>. QED
      BY <1>1, <2>2, <3>1
  <2>4. PICK x, y : x = Top'.at /\ y = Top.at /\ Linked(x, y)
    BY <2>3
  <2>. QED
    BY <2>2, <2>4 DEF Linked, Starts, Outer, General, Programs, Decls
<1>. QED
  BY <1>2, <1>3

(* The activations after a step inside of a function. *)
LEMMA InnerActivations ==
    ASSUME TypeOK, stack # << >>, Top.at \notin Outer, InnerMove
    PROVE  /\ \A f \in Activations' : f \in Activations \/ f.at \notin Outer
           /\ \A f \in Activations : f.at \in Outer => f \in Activations'
           /\ stack' = Callers \/ (stack' # << >> /\ Top'.at \notin Outer)
<1>1. /\ Top = stack[Len(stack)] /\ Len(stack) \in Nat \ {0}
      /\ \A i \in 1 .. Len(stack) - 1 : i \in 1..Len(stack)
  BY TopProperties DEF Top
<1>2. ASSUME \A i \in 1 .. Len(stack) - 1 : i \in 1..Len(stack') /\ stack'[i] = stack[i],
             NEW f \in Activations, f.at \in Outer
      PROVE  f \in Activations'
  <2>1. PICK i \in 1..Len(stack) : f = stack[i]
    BY DEF Activations
  <2>2. i \in 1 .. Len(stack) - 1
    BY <1>1, <1>2, <2>1
  <2>. QED
    BY <1>2, <2>1, <2>2 DEF Activations
<1>3. CASE \E f, c : InnerPush(f, c)
  <2>1. PICK f, c : InnerPush(f, c)
    BY <1>3
  <2>2. /\ Len(stack') = Len(stack) + 1 /\ stack' # << >>
        /\ \A i \in 1 .. Len(stack) - 1 : stack'[i] = stack[i]
        /\ stack'[Len(stack)] = f /\ stack'[Len(stack) + 1] = c
        /\ \A i \in 1..Len(stack') :
              i \in 1 .. Len(stack) - 1 \/ i = Len(stack) \/ i = Len(stack) + 1
    BY <2>1, PushShape DEF InnerPush
  <2>3. f.at \notin Outer /\ c.at \notin Outer
    BY <2>1 DEF InnerPush
  <2>4. \A g \in Activations' : g \in Activations \/ g \in {f, c}
    BY <1>1, <2>2 DEF Activations
  <2>5. \A i \in 1 .. Len(stack) - 1 : i \in 1..Len(stack') /\ stack'[i] = stack[i]
    BY <1>1, <2>2
  <2>6. stack' # << >> /\ Top'.at \notin Outer
    BY <2>2, <2>3 DEF Top
  <2>. QED
    BY <1>2, <2>3, <2>4, <2>5, <2>6
<1>4. CASE InnerPop
  <2>1. stack' = Callers
    BY <1>4 DEF InnerPop
  <2>2. \A f \in Activations' : f \in Activations
    BY <2>1, PopActivations
  <2>3. \A i \in 1 .. Len(stack) - 1 : i \in 1..Len(stack') /\ stack'[i] = stack[i]
    BY <1>1, <2>1, PopShape
  <2>. QED
    BY <1>2, <2>1, <2>2, <2>3
<1>5. CASE InnerTail
  <2>. DEFINE c == Frame("primary")
  <2>1. stack' = Callers \o <<c>> /\ c.at = "primary"
    BY <1>5, CalledAt DEF InnerTail
  <2>. HIDE DEF c
  <2>2. /\ Len(stack') = Len(stack) /\ stack'[Len(stack)] = c
        /\ \A i \in 1 .. Len(stack) - 1 : stack'[i] = stack[i]
        /\ \A i \in 1..Len(stack') : i \in 1 .. Len(stack) - 1 \/ i = Len(stack)
    BY <2>1, TailShape
  <2>3. c.at \notin Outer
    BY <2>1 DEF Outer, General, Programs, Decls, FuncLabels
  <2>4. \A g \in Activations' : g \in Activations \/ g = c
    BY <1>1, <2>2 DEF Activations
  <2>5. \A i \in 1 .. Len(stack) - 1 : i \in 1..Len(stack') /\ stack'[i] = stack[i]
    BY <1>1, <2>2
  <2>6. stack' # << >> /\ Top'.at \notin Outer
    <3>1. Len(stack') # 0
      BY <1>1, <2>2
    <3>2. stack' # << >>
      BY <3>1
    <3>. QED
      BY <2>2, <2>3, <3>2 DEF Top
  <2>. QED
    BY <1>2, <2>3, <2>4, <2>5, <2>6
<1>. QED
  BY <1>3, <1>4, <1>5 DEF InnerMove

(* The same for a call of a function outside of functions. *)
LEMMA PushActivations ==
    ASSUME TypeOK, stack # << >>, NEW f, NEW c, stack' = Callers \o <<f, c>>
    PROVE  /\ \A g \in Activations' : g \in Activations \/ g \in {f, c}
           /\ \A g \in Activations : g = Top \/ g \in Activations'
           /\ {f, c} \subseteq Activations' /\ stack' # << >> /\ Top' = c
<1>1. /\ Top = stack[Len(stack)] /\ Len(stack) \in Nat \ {0}
      /\ Len(stack') = Len(stack) + 1 /\ stack' # << >>
      /\ \A i \in 1 .. Len(stack) - 1 : stack'[i] = stack[i]
      /\ stack'[Len(stack)] = f /\ stack'[Len(stack) + 1] = c
      /\ \A i \in 1..Len(stack') :
            i \in 1 .. Len(stack) - 1 \/ i = Len(stack) \/ i = Len(stack) + 1
  BY PushShape DEF Top
<1>2. /\ \A i \in 1 .. Len(stack) - 1 : i \in 1..Len(stack) /\ i \in 1..Len(stack')
      /\ Len(stack) \in 1..Len(stack') /\ Len(stack) + 1 \in 1..Len(stack')
      /\ \A i \in 1..Len(stack) : i = Len(stack) \/ i \in 1 .. Len(stack) - 1
  BY <1>1
<1>3. \A g \in Activations' : g \in Activations \/ g \in {f, c}
  BY <1>1, <1>2 DEF Activations
<1>4. \A g \in Activations : g = Top \/ g \in Activations'
  <2>. SUFFICES ASSUME NEW i \in 1..Len(stack), i # Len(stack) PROVE stack[i] \in Activations'
    BY <1>1 DEF Activations
  <2>1. i \in 1..Len(stack') /\ stack'[i] = stack[i]
    BY <1>1, <1>2
  <2>. QED
    BY <2>1 DEF Activations
<1>5. {f, c} \subseteq Activations'
  BY <1>1, <1>2 DEF Activations
<1>6. Top' = c
  BY <1>1 DEF Top
<1>. QED
  BY <1>1, <1>3, <1>4, <1>5, <1>6

LEMMA PopKeeps ==
    ASSUME TypeOK, stack # << >>, stack' = Callers
    PROVE  \A g \in Activations : g = Top \/ g \in Activations'
<1>1. /\ Top = stack[Len(stack)] /\ Len(stack) \in Nat \ {0} /\ Len(stack') = Len(stack) - 1
      /\ \A i \in 1 .. Len(stack) - 1 : stack'[i] = stack[i]
  BY PopShape DEF Top
<1>. SUFFICES ASSUME NEW i \in 1..Len(stack), i # Len(stack) PROVE stack[i] \in Activations'
  BY <1>1 DEF Activations
<1>2. i \in 1..Len(stack') /\ stack'[i] = stack[i]
  BY <1>1
<1>. QED
  BY <1>2 DEF Activations

(* The descent begins without nodes, and every step keeps the regions. *)
LEMMA RegionsInitially == Init => Regions
<1>. SUFFICES ASSUME Init PROVE Regions
  OBVIOUS
<1>1. /\ nodes = << >> /\ ret = NULL /\ Len(stack) = 1 /\ stack[1] = Frame("general")
  BY DEF Init
<1>2. PICK o : o = [v \in 1..0 |-> 0]
  OBVIOUS
<1>3. o \in [1..Len(nodes) -> -1..current_env_id] /\ Parted(o)
  BY <1>1, <1>2 DEF Parted
<1>4. ASSUME NEW f \in Activations PROVE Holds(o, f)
  <2>1. f = Frame("general")
    BY <1>1 DEF Activations
  <2>2. f.at = "general"
    BY <2>1, CalledAt
  <2>. QED
    BY <2>2 DEF Holds, Outer, General, Programs, FuncLabels
<1>5. Region(o)
  BY <1>1, <1>3, <1>4 DEF Region
<1>6. Full(o) /\ Gathered(o) /\ HasRoot(o)
  <2>1. current_env_id = -1 /\ status = "running"
    BY DEF Init, NoEnv
  <2>2. Spine(o) = {}
    BY <1>1 DEF Spine
  <2>. QED
    BY <2>1, <2>2 DEF Full, Gathered, HasRoot
<1>. QED
  BY <1>5, <1>6 DEF Regions

(* How the outer functions go on, and what they do to the environments. *)
OuterGo(f, c) == stack' = Callers \o <<f, c>> /\ ret' = NULL /\ status' = status

LEMMA OuterGoes ==
    ASSUME TypeOK, OuterMove
    PROVE  /\ stack # << >> /\ status = "running"
           /\ \/ Top.at = "general" /\ \E f : OuterGo(f, Frame("program"))
                                          /\ f.at = "general_end"
              \/ Top.at = "program" /\ \E f : OuterGo(f, Frame("func_decl"))
                                          /\ f.at = "program_first"
              \/ /\ Top.at = "program_first" /\ ret # NULL
                 /\ \E f : /\ OuterGo(f, Frame("func_decl"))
                          /\ f.at = "program_next" /\ f.l = ret
              \/ /\ Top.at = "program_next" /\ ret # NULL /\ ProgramNext
                 /\ \E f : /\ OuterGo(f, Frame("func_decl"))
                          /\ f.at = "program_next" /\ f.l = Fresh
              \/ Top.at = "func_decl" /\ \E f : OuterGo(f, Identifier)
                                            /\ f.at = "func_decl_name"
              \/ /\ Top.at = "func_decl_name" /\ FuncDeclName
                 /\ \E f : OuterGo(f, Frame("parameter_list")) /\ f.at = "func_decl_params"
              \/ Top.at = "func_decl_params" /\ \E f : OuterGo(f, Block)
                                                   /\ f.at = "func_decl_body"
              \/ /\ stack' = Callers
                 /\ \/ Top.at = "program_first" /\ ret = NULL /\ ret' = NULL
                    \/ Top.at = "program_next" /\ ret = NULL /\ ret' = Top.l
                    \/ Top.at \in Decls /\ ret' = NULL
                    \/ Top.at = "func_decl_body" /\ ret # NULL /\ ret' = Top.l /\ FuncDeclBody
                    \/ Top.at = "general_end" /\ ret' = NULL /\ (Accept \/ Reject)
           /\ UNCHANGED current_env_id \/ (FuncDeclName /\ ret # NULL)
           /\ status' = status \/ Accept \/ Reject
<1>1. stack # << >> /\ status = "running"
  BY DEF OuterMove, GetGeneral, Accept, Reject, GetProgram, ProgramFirst, ProgramNext, GetFuncDecl,
         Leads, FuncDeclName, FuncDeclParams, FuncDeclBody, At, Running
<1>2. UNCHANGED current_env_id \/ (FuncDeclName /\ ret # NULL)
  BY DEF OuterMove, GetGeneral, Accept, Reject, GetProgram, ProgramFirst, ProgramNext, GetFuncDecl,
         Leads, FuncDeclName, FuncDeclParams, FuncDeclBody, Quiet, tables, NewNode, Fail, FailAt
<1>3. status' = status \/ Accept \/ Reject
  BY DEF OuterMove, GetGeneral, GetProgram, ProgramFirst, ProgramNext, GetFuncDecl,
         Leads, FuncDeclName, FuncDeclParams, FuncDeclBody, Call, Goto, Return, Fail, FailAt
<1>4. \A f, c, q : Goto(f, c, q) => OuterGo(f, c)
  BY DEF OuterGo, Goto
<1>5. ASSUME GetGeneral
      PROVE  Top.at = "general" /\ \E f : OuterGo(f, Frame("program")) /\ f.at = "general_end"
  <2>. DEFINE f == [Top EXCEPT !.at = "general_end"]
  <2>1. At("general") /\ Goto(f, Frame("program"), pos)
    BY <1>5 DEF GetGeneral, Call
  <2>2. f.at = "general_end"
    BY <2>1, GoesOn
  <2>. HIDE DEF f
  <2>. QED
    BY <1>4, <2>1, <2>2 DEF At
<1>6. ASSUME GetProgram
      PROVE  Top.at = "program" /\ \E f : OuterGo(f, Frame("func_decl")) /\ f.at = "program_first"
  <2>. DEFINE f == [Top EXCEPT !.at = "program_first"]
  <2>1. At("program") /\ Goto(f, Frame("func_decl"), pos)
    BY <1>6 DEF GetProgram, Call
  <2>2. f.at = "program_first"
    BY <2>1, GoesOn
  <2>. HIDE DEF f
  <2>. QED
    BY <1>4, <2>1, <2>2 DEF At
<1>7. ASSUME ProgramFirst
      PROVE  /\ Top.at = "program_first"
             /\ \/ ret = NULL /\ stack' = Callers /\ ret' = NULL
                \/ ret # NULL /\ \E f : /\ OuterGo(f, Frame("func_decl"))
                                      /\ f.at = "program_next" /\ f.l = ret
  <2>. DEFINE f == [Top EXCEPT !.at = "program_next", !.l = ret]
  <2>1. /\ At("program_first")
        /\ (ret = NULL /\ Return(NULL, pos)) \/ (ret # NULL /\ Goto(f, Frame("func_decl"), pos))
    BY <1>7 DEF ProgramFirst
  <2>2. f.at = "program_next" /\ f.l = ret
    BY <2>1, TopRecord
  <2>. HIDE DEF f
  <2>. QED
    BY <1>4, <2>1, <2>2 DEF At, Return
<1>8. ASSUME ProgramNext
      PROVE  /\ Top.at = "program_next"
             /\ \/ ret = NULL /\ stack' = Callers /\ ret' = Top.l
                \/ ret # NULL /\ \E f : /\ OuterGo(f, Frame("func_decl"))
                                      /\ f.at = "program_next" /\ f.l = Fresh
  <2>. DEFINE f == [Top EXCEPT !.l = Len(nodes) + 1]
  <2>1. /\ At("program_next")
        /\ (ret = NULL /\ Return(Top.l, pos)) \/ (ret # NULL /\ Goto(f, Frame("func_decl"), pos))
    BY <1>8 DEF ProgramNext
  <2>2. f.at = "program_next" /\ f.l = Fresh
    BY <2>1, TopRecord DEF At, Fresh
  <2>. HIDE DEF f
  <2>. QED
    BY <1>4, <2>1, <2>2 DEF At, Return
<1>9. ASSUME GetFuncDecl
      PROVE  /\ Top.at = "func_decl"
             /\ \/ stack' = Callers /\ ret' = NULL
                \/ \E f : OuterGo(f, Identifier) /\ f.at = "func_decl_name"
  <2>. DEFINE f == [Top EXCEPT !.at = "func_decl_name"]
  <2>1. At("func_decl") /\ (Return(NULL, pos) \/ Goto(f, Identifier, pos + 1))
    BY <1>9 DEF GetFuncDecl, Leads, Call
  <2>2. f.at = "func_decl_name"
    BY <2>1, GoesOn
  <2>. HIDE DEF f
  <2>. QED
    BY <1>4, <2>1, <2>2 DEF At, Return
<1>10. ASSUME FuncDeclName
       PROVE  /\ Top.at = "func_decl_name"
              /\ \/ stack' = Callers /\ ret' = NULL
                 \/ \E f : OuterGo(f, Frame("parameter_list")) /\ f.at = "func_decl_params"
  <2>. DEFINE f == [Top EXCEPT !.at = "func_decl_params", !.l = ret, !.n = AddEnviroment]
  <2>1. /\ At("func_decl_name")
        /\ Return(NULL, pos) \/ Fail \/ Goto(f, Frame("parameter_list"), pos + 1)
    BY <1>10 DEF FuncDeclName
  <2>2. f.at = "func_decl_params"
    BY <2>1, TopRecord
  <2>. HIDE DEF f
  <2>. QED
    BY <1>4, <2>1, <2>2 DEF At, Return, Fail, FailAt
<1>11. ASSUME FuncDeclParams
       PROVE  /\ Top.at = "func_decl_params"
              /\ \/ stack' = Callers /\ ret' = NULL
                 \/ \E f : OuterGo(f, Block) /\ f.at = "func_decl_body"
  <2>. DEFINE f == [Top EXCEPT !.at = "func_decl_body", !.r = ret]
  <2>1. At("func_decl_params") /\ (Fail \/ Goto(f, Block, pos + 1))
    BY <1>11 DEF FuncDeclParams
  <2>2. f.at = "func_decl_body"
    BY <2>1, GoesOn
  <2>. HIDE DEF f
  <2>. QED
    BY <1>4, <2>1, <2>2 DEF At, Return, Fail, FailAt
<1>12. ASSUME FuncDeclBody
       PROVE  /\ Top.at = "func_decl_body" /\ stack' = Callers
              /\ ret' = NULL \/ (ret # NULL /\ ret' = Top.l)
  BY <1>12 DEF FuncDeclBody, At, Return, Fail, FailAt
<1>13. ASSUME Accept \/ Reject PROVE Top.at = "general_end" /\ stack' = Callers /\ ret' = NULL
  BY <1>13 DEF Accept, Reject, At
<1>14. {"func_decl", "func_decl_name", "func_decl_params", "func_decl_body"} \subseteq Decls
  BY DEF Decls, FuncLabels
<1>. QED
  BY <1>1, <1>2, <1>3, <1>5, <1>6, <1>7, <1>8, <1>9, <1>10, <1>11, <1>12, <1>13, <1>14, Zenon
     DEF OuterMove

(* A declaration does not become ready to begin but by the end of another. *)
LEMMA ReadyStays ==
    ASSUME IInv, StackLinked, [Next]_vars
    PROVE  /\ Ready' => Ready \/ (FuncDeclBody /\ ret # NULL)
           /\ FuncDeclName => Ready /\ ~Ready'
<1>0. TypeOK
  BY DEF IInv
<1>1. CASE Abort \/ UNCHANGED vars
  <2>1. UNCHANGED <<stack, ret>>
    BY <1>1 DEF Abort, vars
  <2>2. Ready' <=> Ready
    BY <2>1 DEF Ready, Activations, Top
  <2>3. ~FuncDeclName
    <3>1. FuncDeclName => stack' = Callers \/ \E f, c : stack' = Callers \o <<f, c>>
      BY DEF FuncDeclName, Fail, FailAt, Return, Goto
    <3>2. FuncDeclName => stack # << >>
      BY DEF FuncDeclName, At, Running
    <3>3. stack # << >> /\ stack' = Callers => Len(stack) \in Nat /\ Len(stack') = Len(stack) - 1
      BY <1>0, PopShape
    <3>5. stack' = Callers => ~FuncDeclName
      BY <2>1, <3>2, <3>3
    <3>6. ASSUME NEW f, NEW c, stack' = Callers \o <<f, c>>, FuncDeclName PROVE FALSE
      <4>1. Len(stack) \in Nat /\ Len(stack') = Len(stack) + 1
        BY <1>0, <3>2, <3>6, PushShape
      <4>. QED
        BY <2>1, <4>1
    <3>. QED
      BY <3>1, <3>5, <3>6
  <2>. QED
    BY <2>2, <2>3
<1>2. CASE InnerMove /\ stack # << >> /\ Top.at \notin Outer
  <2>1. /\ \A f \in Activations' : f \in Activations \/ f.at \notin Outer
        /\ stack' = Callers \/ (stack' # << >> /\ Top'.at \notin Outer)
    BY <1>0, <1>2, InnerActivations
  <2>2. Top'.at \notin {"program_first", "program_next"} \/ stack' = << >>
    BY <1>0, <1>2, <2>1, CallersJoin DEF Outer, Programs
  <2>3. Starts \cup {"func_decl_name"} \subseteq Outer
    BY DEF Starts, Outer, General, Programs, Decls
  <2>4. ~FuncDeclName
    BY <1>2 DEF FuncDeclName, At, Outer, Decls
  <2>. QED
    BY <2>1, <2>2, <2>3, <2>4 DEF Ready
<1>3. CASE OuterMove
  <2>1. stack # << >> /\ Top \in Activations
    BY <1>0, <1>3, OuterGoes, TopProperties DEF Activations, Top
  <2>2. ASSUME NEW f, NEW c, OuterGo(f, c), f.at \notin Starts \cup {"func_decl_name"},
               c.at \notin Starts \cup {"func_decl_name", "program_first", "program_next"}
        PROVE  Ready' => \E g \in Activations : g.at \in Starts \cup {"func_decl_name"}
    <3>1. /\ \A g \in Activations' : g \in Activations \/ g \in {f, c}
          /\ Top' = c
      BY <1>0, <2>1, <2>2, PushActivations DEF OuterGo
    <3>. QED
      BY <2>2, <3>1 DEF Ready
  <2>3. ASSUME stack' = Callers, ret' = NULL \/ Top.at \in Programs
        PROVE  Ready' => \E g \in Activations : g.at \in Starts \cup {"func_decl_name"}
    <3>1. \A g \in Activations' : g \in Activations
      BY <1>0, <2>1, <2>3, PopActivations
    <3>2. Top.at \in Programs => Top'.at = "general_end"
      BY <1>0, <2>1, <2>3, CallersJoin
    <3>. QED
      BY <2>3, <3>1, <3>2 DEF Ready
  <2>4. Top.at \in Starts \cup {"func_decl_name"} => Ready
    BY <2>1 DEF Ready
  <2>5. Top.at \in {"program_first", "program_next"} /\ ret # NULL => Ready
    BY <2>1 DEF Ready
  <2>6. ASSUME FuncDeclName PROVE ~Ready'
    <3>1. Top.at = "func_decl_name"
      BY <2>6 DEF FuncDeclName, At
    <3>2. \A i \in 1 .. Len(stack) - 1 : stack[i].at \notin Starts \cup {"func_decl_name"}
      <4>1. \A i \in 1 .. Len(stack) - 1 : stack[i].at \in General \cup Programs
        BY <1>0, <2>1, <3>1, OuterDepth DEF Decls
      <4>2. \A i \in 1 .. Len(stack) - 1 : stack[i].at \notin Starts
        BY DEF StackLinked, Linked
      <4>. QED
        BY <4>1, <4>2 DEF General, Programs
    <3>3. CASE stack' = Callers /\ ret' = NULL
      <4>1. \A g \in Activations' : \E i \in 1 .. Len(stack) - 1 : g = stack[i]
        BY <1>0, <2>1, <3>3, PopActivations
      <4>. QED
        BY <3>2, <3>3, <4>1 DEF Ready
    <3>4. ASSUME NEW f, OuterGo(f, Frame("parameter_list")), f.at = "func_decl_params"
          PROVE  ~Ready'
      <4>. DEFINE c == Frame("parameter_list")
      <4>1. c.at = "parameter_list"
        BY CalledAt
      <4>2. stack' = Callers \o <<f, c>>
        BY <3>4 DEF OuterGo
      <4>. HIDE DEF c
      <4>3. \A g \in Activations' : g \in {f, c} \/ \E i \in 1 .. Len(stack) - 1 : g = stack[i]
        <5>1. /\ stack'[Len(stack)] = f /\ stack'[Len(stack) + 1] = c
              /\ \A i \in 1 .. Len(stack) - 1 : stack'[i] = stack[i]
              /\ \A i \in 1..Len(stack') :
                    i \in 1 .. Len(stack) - 1 \/ i = Len(stack) \/ i = Len(stack) + 1
          BY <1>0, <2>1, <4>2, PushShape
        <5>. SUFFICES ASSUME NEW i \in 1..Len(stack')
                      PROVE  \/ stack'[i] \in {f, c}
                             \/ \E j \in 1 .. Len(stack) - 1 : stack'[i] = stack[j]
          BY DEF Activations
        <5>. QED
          BY <5>1
      <4>4. Top' = c
        BY <1>0, <2>1, <4>2, PushActivations
      <4>. QED
        BY <3>2, <3>4, <4>1, <4>3, <4>4 DEF Ready, Starts
    <3>. QED
      BY <1>0, <1>3, <2>6, <3>1, <3>3, <3>4, OuterGoes DEF FuncDeclName, Fail, FailAt, Return,
         General, Programs, Decls, FuncLabels
  <2>7. FuncDeclName => Ready
    BY <2>4 DEF FuncDeclName, At
  <2>8. /\ Frame("parameter_list").at = "parameter_list" /\ Block.at = "block"
        /\ "program_first" \in Programs /\ "program_next" \in Programs
        /\ "func_decl_body" \notin Starts /\ "parameter_list" \notin Starts
        /\ "func_decl_params" \notin Starts /\ "block" \notin Starts
        /\ "general" \in Starts /\ "program" \in Starts /\ "func_decl" \in Starts
    BY CalledAt DEF Programs, Starts
  <2>9. Ready' => Ready \/ (FuncDeclBody /\ ret # NULL)
    <3>1. ASSUME NEW f, OuterGo(f, Block), f.at = "func_decl_body" PROVE Ready' => Ready
      BY <2>2, <2>8, <3>1 DEF Ready
    <3>2. ASSUME stack' = Callers, ret' = NULL \/ Top.at \in Programs PROVE Ready' => Ready
      BY <2>3, <3>2 DEF Ready
    <3>. QED
      BY <1>0, <1>3, <2>4, <2>5, <2>6, <2>8, <3>1, <3>2, OuterGoes
  <2>. QED
    BY <2>6, <2>7, <2>9
<1>. QED
  BY <1>1, <1>2, <1>3, EveryMove

(* What a step adds to the spine. *)
Growth(new) ==
    \/ ProgramNext /\ ret # NULL /\ new = {Fresh}
    \/ /\ FuncDeclBody /\ ret # NULL /\ new = {Top.l}
       /\ \A l \in new : nodes'[l].tok \in Names /\ nodes'[l].scope = current_env_id
    \/ ~(ProgramNext /\ ret # NULL) /\ ~(FuncDeclBody /\ ret # NULL) /\ new = {}

(* No environment is left without its function while another is declared. *)
LEMMA FullFollows ==
    ASSUME IInv, StackLinked, [Next]_vars, NEW o, NEW p, NEW new,
           Region(o), Full(o), SpineGrown(o, p, new), Growth(new)
    PROVE  Full(p)'
<1>1. /\ TypeOK /\ TypeOK' /\ TablesStep
      /\ current_env_id \in Int /\ current_env_id = Len(envs) - 1 /\ Len(envs) \in Nat
  BY Inductive, TablesOrSame DEF IInv, TypeOK, TablesOK
<1>2. \A d \in Own(o) : d \in Own(p)' /\ nodes'[d].scope = nodes[d].scope
  BY DEF Own, SpineGrown
<1>3. Ready' => Ready \/ (FuncDeclBody /\ ret # NULL)
  BY ReadyStays
<1>4. CASE FuncDeclName /\ ret # NULL
  <2>1. Ready /\ ~Ready'
    BY <1>4, ReadyStays
  <2>2. current_env_id' = current_env_id + 1
    BY <1>1, <1>4 DEF FuncDeclName, AddEnviroment
  <2>3. \A k \in 0 .. current_env_id : \E d \in Own(p)' : nodes'[d].scope = k
    BY <1>2, <2>1 DEF Full
  <2>. QED
    BY <1>1, <2>1, <2>2, <2>3 DEF Full
<1>5. CASE ~(FuncDeclName /\ ret # NULL)
  <2>1. UNCHANGED current_env_id
    <3>1. CASE OuterMove
      BY <1>1, <1>5, <3>1, OuterGoes
    <3>2. CASE Abort \/ UNCHANGED vars
      BY <3>2 DEF Abort, tables, vars
    <3>3. CASE Top.at \notin Outer
      <4>1. Top.at # "func_decl_name"
        BY <3>3 DEF Outer, Decls
      <4>. QED
        BY <1>1, <4>1, TablesStay
    <3>. QED
      BY <3>1, <3>2, <3>3, EveryMove
  <2>2. CASE FuncDeclBody /\ ret # NULL
    <3>1. \E d \in Own(p)' : nodes'[d].scope = current_env_id
      <4>1. PICK l : l \in new /\ nodes'[l].tok \in Names /\ nodes'[l].scope = current_env_id
        BY <2>2 DEF Growth, ProgramNext, FuncDeclBody, At
      <4>2. l \in Own(p)'
        BY <4>1 DEF SpineGrown, Own
      <4>. QED
        BY <4>1, <4>2
    <3>2. \A k \in 0 .. current_env_id : \E d \in Own(p)' : nodes'[d].scope = k
      BY <1>2, <3>1 DEF Full
    <3>. QED
      BY <2>1, <3>2 DEF Full
  <2>3. CASE ~(FuncDeclBody /\ ret # NULL)
    BY <1>2, <1>3, <2>1, <2>3 DEF Full
  <2>. QED
    BY <2>2, <2>3
<1>. QED
  BY <1>4, <1>5

(* What the spine hangs from stays, but for two nodes that are joined. *)
LEMMA HookStays ==
    ASSUME IInv, StackLinked, [Next]_vars, status' \in {"running", "accepted"},
           NEW v, v # NULL, Hook(v)
    PROVE  Hook(v)' \/ (ProgramNext /\ ret # NULL /\ v \in {Top.l, ret})
<1>0. TypeOK
  BY DEF IInv
<1>1. CASE UNCHANGED vars
  <2>1. UNCHANGED <<stack, ret, status, root, nodes>>
    BY <1>1 DEF vars, heap
  <2>. QED
    BY <2>1 DEF Hook, Activations, Top
<1>2. CASE InnerMove /\ stack # << >> /\ Top.at \notin Outer /\ ~UNCHANGED vars
  <2>1. ~Accept /\ ~Reject /\ ~Abort
    BY <1>2 DEF Accept, Reject, Abort, At, Outer, General
  <2>2. status = "running"
    BY <2>1, <1>2, Steps DEF Ordinary, Moved
  <2>3. {"program_first", "program_next", "general_end"} \subseteq Outer
    BY DEF Outer, General, Programs
  <2>4. PICK f \in Activations : f.at = "program_next" /\ f.l = v
    BY <1>2, <2>2, <2>3 DEF Hook
  <2>5. f \in Activations'
    BY <1>0, <1>2, <2>3, <2>4, InnerActivations
  <2>. QED
    BY <2>4, <2>5 DEF Hook
<1>3. CASE OuterMove
  <2>1. stack # << >> /\ status = "running"
    BY <1>0, <1>3, OuterGoes
  <2>2. ASSUME NEW f, NEW c, OuterGo(f, c),
               Top.at \notin {"program_first", "program_next", "general_end"}
        PROVE  Hook(v)'
    <3>1. PICK g \in Activations : g.at = "program_next" /\ g.l = v
      BY <2>1, <2>2 DEF Hook
    <3>2. g \in Activations'
      BY <1>0, <2>1, <2>2, <3>1, PushActivations DEF OuterGo
    <3>. QED
      BY <3>1, <3>2 DEF Hook
  <2>3. ASSUME NEW f, NEW c, OuterGo(f, c), Top.at = "program_first",
               f.at = "program_next", f.l = ret
        PROVE  Hook(v)'
    <3>1. f \in Activations' /\ \A g \in Activations : g = Top \/ g \in Activations'
      BY <1>0, <2>1, <2>3, PushActivations DEF OuterGo
    <3>. QED
      BY <2>1, <2>3, <3>1 DEF Hook
  <2>4. ASSUME NEW f, NEW c, OuterGo(f, c), Top.at = "program_next", ret # NULL, ProgramNext
        PROVE  Hook(v)' \/ (ProgramNext /\ ret # NULL /\ v \in {Top.l, ret})
    <3>1. \A g \in Activations : g = Top \/ g \in Activations'
      BY <1>0, <2>1, <2>4, PushActivations DEF OuterGo
    <3>. QED
      BY <2>1, <2>4, <3>1 DEF Hook
  <2>5. ASSUME stack' = Callers PROVE \A g \in Activations : g = Top \/ g \in Activations'
    BY <1>0, <2>1, <2>5, PopKeeps
  <2>6. ASSUME stack' = Callers, Top.at = "program_next", ret = NULL, ret' = Top.l
        PROVE  Hook(v)'
    <3>1. stack' # << >> /\ Top'.at = "general_end"
      BY <1>0, <2>1, <2>6, CallersJoin DEF Programs
    <3>. QED
      BY <2>1, <2>5, <2>6, <3>1 DEF Hook
  <2>7. ASSUME stack' = Callers, Top.at \in Decls \/ (Top.at = "program_first" /\ ret = NULL)
        PROVE  Hook(v)'
    <3>1. Top.at \notin {"program_next", "general_end"} /\ (Top.at = "program_first" => ret = NULL)
      BY <2>7 DEF Decls, FuncLabels
    <3>. QED
      BY <2>1, <2>5, <2>7, <3>1 DEF Hook
  <2>8. ASSUME Accept PROVE Hook(v)'
    <3>. DEFINE node == Node("FAKE", ret, NULL)
    <3>1. /\ Top.at = "general_end" /\ stack' = Callers /\ status' = "accepted"
          /\ nodes' = Append(nodes, node) /\ root' = Len(nodes) + 1
      BY <2>8 DEF Accept, At
    <3>2. stack' = << >>
      BY <1>0, <2>1, <3>1, CallersJoin DEF General
    <3>3. \A g \in Activations : g = Top
      BY <2>5, <3>1, <3>2 DEF Activations
    <3>4. ret = v
      BY <2>1, <3>1, <3>3 DEF Hook
    <3>5. node.left = ret
      BY NodeFields
    <3>. HIDE DEF node
    <3>6. nodes'[Len(nodes) + 1] = node
      BY <1>0, <3>1, Joined DEF TypeOK, HeapOK
    <3>. QED
      BY <3>1, <3>4, <3>5, <3>6 DEF Hook
  <2>9. ~Reject
    BY DEF Reject
  <2>10. "func_decl_body" \in Decls
    BY DEF Decls, FuncLabels
  <2>. QED
    BY <1>0, <1>3, <2>2, <2>3, <2>4, <2>6, <2>7, <2>8, <2>9, <2>10, OuterGoes, Zenon
<1>. QED
  BY <1>1, <1>2, <1>3, EveryMove DEF Abort

(* The nodes that join the spine hang there. *)
LEMMA NewHooks ==
    ASSUME TypeOK, StackLinked, NEW new, Growth(new)
    PROVE  \A v \in new : Hook(v)'
<1>1. CASE ProgramNext /\ ret # NULL /\ new = {Fresh}
  <2>1. OuterMove /\ Top.at = "program_next" /\ stack # << >>
    BY <1>1 DEF OuterMove, ProgramNext, At, Running
  <2>2. PICK f : /\ OuterGo(f, Frame("func_decl"))
                 /\ f.at = "program_next" /\ f.l = Fresh
    <3>1. "program_next" \notin Decls
      BY DEF Decls, FuncLabels
    <3>. QED
      BY <1>1, <2>1, <3>1, OuterGoes
  <2>3. f \in Activations'
    BY <2>1, <2>2, PushActivations DEF OuterGo
  <2>4. PICK v : v = Fresh
    OBVIOUS
  <2>5. Hook(v)'
    BY <2>2, <2>3, <2>4 DEF Hook
  <2>. QED
    BY <1>1, <2>4, <2>5
<1>2. CASE FuncDeclBody /\ ret # NULL /\ new = {Top.l}
  <2>1. stack # << >> /\ Top.at \in Decls /\ stack' = Callers /\ ret' = Top.l
    BY <1>2 DEF FuncDeclBody, Return, At, Running, Decls, FuncLabels
  <2>2. stack' # << >> /\ Top'.at \in {"program_first", "program_next"}
    BY <2>1, CallersJoin
  <2>3. PICK v : v = Top.l
    OBVIOUS
  <2>4. Hook(v)'
    BY <2>1, <2>2, <2>3 DEF Hook
  <2>. QED
    BY <1>2, <2>3, <2>4
<1>. QED
  BY <1>1, <1>2 DEF Growth

LEMMA GatheredFollows ==
    ASSUME IInv, StackLinked, [Next]_vars, NEW o, NEW p, NEW new,
           Region(o), Gathered(o), SpineGrown(o, p, new), Growth(new)
    PROVE  Gathered(p)'
<1>. SUFFICES ASSUME status' \in {"running", "accepted"}, NEW C, Covers(p, C)'
              PROVE  Spine(p)' \subseteq C
  BY DEF Gathered
<1>0. TypeOK
  BY DEF IInv
<1>1. \A v \in Spine(p)' : Hook(v)' => v \in C
  BY DEF Covers
<1>2. new \subseteq C
  BY <1>0, <1>1, NewHooks DEF SpineGrown
<1>3. ASSUME ProgramNext, ret # NULL PROVE {Top.l, ret} \subseteq C
  <2>. DEFINE node == Node("{", Top.l, ret)
  <2>1. nodes' = Append(nodes, node) /\ new = {Fresh}
    BY <1>3 DEF Growth, FuncDeclBody, ProgramNext, NewNode, At
  <2>2. node.left = Top.l /\ node.right = ret /\ node.tok \notin Names
    BY NodeFields, NotNames DEF Node, Separators, Marked
  <2>. HIDE DEF node
  <2>3. PICK v : v = Fresh
    OBVIOUS
  <2>4. nodes'[v] = node
    BY <1>0, <2>1, <2>3, Joined DEF TypeOK, HeapOK, Fresh
  <2>5. v \in C \cap (Spine(p)' \ Own(p)')
    BY <1>2, <2>1, <2>2, <2>3, <2>4 DEF SpineGrown, Own
  <2>. QED
    BY <2>2, <2>4, <2>5 DEF Covers
<1>4. ASSUME NEW v \in Spine(o), Hook(v) PROVE v \in C
  <2>1. v # NULL /\ v \in Spine(p)'
    BY <1>0 DEF Spine, SpineGrown, NULL, TypeOK, HeapOK
  <2>. QED
    BY <1>1, <1>3, <1>4, <2>1, HookStays
<1>5. ASSUME NEW v \in C \cap (Spine(o) \ Own(o))
      PROVE  {nodes[v].left, nodes[v].right} \subseteq C
  BY DEF SpineGrown, Own, Covers
<1>6. status \in {"running", "accepted"}
  BY Steps DEF Ordinary, Moved, Accept, Reject, Abort, At, Running, vars
<1>7. Spine(o) \subseteq C
  BY <1>4, <1>5, <1>6 DEF Gathered, Covers
<1>. QED
  BY <1>2, <1>7 DEF SpineGrown

(* An accepted tree begins with a node that holds the spine. *)
LEMMA HasRootFollows ==
    ASSUME IInv, StackLinked, [Next]_vars, NEW o, NEW p, NEW new,
           Region(o), HasRoot(o), SpineGrown(o, p, new)
    PROVE  HasRoot(p)'
<1>. SUFFICES ASSUME status' = "accepted" PROVE HasRoot(p)'
  BY DEF HasRoot
<1>0. TypeOK
  BY DEF IInv
<1>1. CASE Accept
  <2>. DEFINE node == Node("FAKE", ret, NULL)
  <2>1. /\ stack # << >> /\ Top.at = "general_end" /\ ret # NULL
        /\ nodes' = Append(nodes, node) /\ root' = Len(nodes) + 1
    BY <1>1 DEF Accept, At, Running
  <2>2. node.left = ret /\ node.right = NULL /\ node.tok = "FAKE"
    BY NodeFields
  <2>. HIDE DEF node
  <2>3. /\ nodes'[Len(nodes) + 1] = node /\ Len(nodes') = Len(nodes) + 1 /\ Len(nodes) \in Nat
    BY <1>0, <2>1, Joined DEF TypeOK, HeapOK
  <2>4. ret \in Spine(o)
    BY <2>1 DEF Region, Answered, General
  <2>5. stack' = << >>
    BY <1>0, <1>1, <2>1, CallersJoin DEF Accept, General
  <2>. QED
    BY <2>1, <2>2, <2>3, <2>4, <2>5 DEF HasRoot, SpineGrown
<1>2. CASE UNCHANGED vars
  <2>1. UNCHANGED <<status, root, nodes, stack>>
    BY <1>2 DEF vars, heap
  <2>. QED
    BY <2>1 DEF HasRoot, SpineGrown
<1>. QED
  BY <1>1, <1>2, Steps DEF Ordinary, Moved, Reject, Abort

LEMMA RegionsInductive ==
    IInv /\ SingleOwner /\ NamesInv /\ StackLinked /\ FuncsFirst /\ Regions /\ [Next]_vars
      => Regions'
<1>. SUFFICES ASSUME IInv, SingleOwner, NamesInv, StackLinked, FuncsFirst, Regions, [Next]_vars
              PROVE  Regions'
  OBVIOUS
<1>1. PICK o : Region(o) /\ Full(o) /\ Gathered(o) /\ HasRoot(o)
  BY DEF Regions
<1>2. \E new : Growth(new) /\ Follows(o, new)
  <2>1. CASE ProgramNext /\ ret # NULL
    BY <1>1, <2>1, RegionFollows DEF Growth
  <2>2. CASE FuncDeclBody /\ ret # NULL
    BY <1>1, <2>2, RegionFollows DEF Growth
  <2>3. CASE ~(ProgramNext /\ ret # NULL) /\ ~(FuncDeclBody /\ ret # NULL)
    BY <1>1, <2>3, RegionFollows DEF Growth
  <2>. QED
    BY <2>1, <2>2, <2>3
<1>3. PICK new, p : Growth(new) /\ Region(p)' /\ SpineGrown(o, p, new)
  BY <1>2 DEF Follows
<1>4. Full(p)' /\ Gathered(p)' /\ HasRoot(p)'
  BY <1>1, <1>3, FullFollows, GatheredFollows, HasRootFollows
<1>. QED
  BY <1>3, <1>4 DEF Regions

-----------------------------------------------------------------------------
(* What is below a node. *)

Sides(p) == {nodes[p].left, nodes[p].right} \ {NULL}

(* A set of nodes that holds what is below its members. *)
Downward(C) == C \subseteq 1..Len(nodes) /\ \A p \in C : Sides(p) \subseteq C

(* The nodes that can be reached in so many steps. *)
ReachesFrom(v, reach) ==
    /\ reach \in [0..Len(nodes) -> SUBSET (1..Len(nodes))]
    /\ reach[0] = {v} \ {NULL}
    /\ \A k \in 1..Len(nodes) : reach[k] = reach[k - 1] \cup UNION {Sides(p) : p \in reach[k - 1]}

LEMMA AllDownward ==
    ASSUME TypeOK
    PROVE  Downward(1..Len(nodes))
<1>. SUFFICES ASSUME NEW p \in 1..Len(nodes) PROVE Sides(p) \subseteq 1..Len(nodes)
  BY DEF Downward
<1>1. nodes[p] \in Nodes(Len(nodes))
  BY ElementOfSeq DEF TypeOK, HeapOK
<1>. QED
  BY <1>1 DEF Sides, Nodes, NULL

LEMMA BelowReaches ==
    ASSUME TypeOK, NEW v \in 0..Len(nodes)
    PROVE  \E reach : ReachesFrom(v, reach) /\ Below(v) = reach[Len(nodes)]
<1>. DEFINE n == Len(nodes)
            D == 0..n
            S == SUBSET (1..n)
            grow(T) == T \cup (({nodes[p].left : p \in T} \cup {nodes[p].right : p \in T}) \ {NULL})
            step == [q \in D \X [D -> S] |->
                        IF q[1] = 0 THEN {v} \ {NULL} ELSE grow(q[2][q[1] - 1])]
            rank == [k \in D |-> k]
            Is(f) == f = [k \in D |-> IF k = 0 THEN {v} \ {NULL} ELSE grow(f[k - 1])]
<1>1. n \in Nat /\ Downward(1..n)
  BY AllDownward DEF TypeOK, HeapOK
<1>2. \A T : grow(T) = T \cup UNION {Sides(p) : p \in T}
  BY DEF Sides
<1>. HIDE DEF n, grow, Is
<1>3. \A T \in S : grow(T) \in S
  <2>. SUFFICES ASSUME NEW T \in S PROVE T \cup UNION {Sides(p) : p \in T} \in S
    BY <1>2
  <2>1. \A p \in T : p \in 1..n
    OBVIOUS
  <2>2. \A p \in T : Sides(p) \subseteq 1..n
    BY <1>1, <2>1 DEF Downward
  <2>. QED
    BY <2>2
<1>4. {v} \ {NULL} \in S
  BY <1>1 DEF NULL, n
<1>5. step \in [D \X [D -> S] -> S]
  <2>. SUFFICES ASSUME NEW k \in D, NEW f \in [D -> S]
                PROVE  (IF k = 0 THEN {v} \ {NULL} ELSE grow(f[k - 1])) \in S
    OBVIOUS
  <2>1. k # 0 => k - 1 \in D
    BY <1>1
  <2>2. k # 0 => f[k - 1] \in S
    BY <2>1
  <2>. HIDE DEF S
  <2>. QED
    BY <1>3, <1>4, <2>2
<1>6. ASSUME NEW w \in D, NEW f \in [D -> S], NEW g \in [D -> S],
             \A u \in D : rank[u] < rank[w] => f[u] = g[u]
      PROVE  step[<<w, f>>] = step[<<w, g>>]
  <2>1. w # 0 => w - 1 \in D /\ rank[w - 1] < rank[w]
    BY <1>1
  <2>2. w # 0 => f[w - 1] = g[w - 1]
    BY <1>6, <2>1
  <2>. QED
    BY <2>2
<1>7. RecursionOver(D, S, n, rank, step)
  <2>1. rank \in [D -> 0..n] /\ S # {}
    OBVIOUS
  <2>. HIDE DEF D, S, rank, step
  <2>. QED
    BY <1>1, <1>5, <1>6, <2>1 DEF RecursionOver
<1>8. PICK f \in [D -> S] : \A w \in D : f[w] = step[<<w, f>>]
  <2>. HIDE DEF D, S, rank, step
  <2>. QED
    BY <1>7, Recursion
<1>9. \A w \in D : f[w] = IF w = 0 THEN {v} \ {NULL} ELSE grow(f[w - 1])
  BY <1>8
<1>10. Is(f)
  BY <1>8, <1>9 DEF Is
<1>11. PICK reach : reach = (CHOOSE g : Is(g))
  OBVIOUS
<1>12. Is(reach)
  BY <1>10, <1>11
<1>13. Below(v) = reach[n]
  BY <1>11 DEF Below, Is, grow, n
<1>14. /\ reach[0] = {v} \ {NULL}
       /\ \A k \in 1..n : reach[k] = grow(reach[k - 1])
  <2>1. \A k \in D : reach[k] = IF k = 0 THEN {v} \ {NULL} ELSE grow(reach[k - 1])
    BY <1>12 DEF Is
  <2>. QED
    BY <1>1, <2>1
<1>15. \A k \in 1..n : reach[k] \in S
  <2>. DEFINE G == {k \in 1..n : reach[k] \in S}
  <2>1. ASSUME NEW k \in 1..n, 1 .. k-1 \subseteq G PROVE k \in G
    <3>1. k = 1 \/ k - 1 \in 1 .. k-1
      OBVIOUS
    <3>2. reach[k - 1] \in S
      BY <1>4, <1>14, <2>1, <3>1
    <3>. QED
      BY <1>3, <1>14, <3>2
  <2>2. 1..n \subseteq G
    <3>. HIDE DEF G
    <3>. QED
      BY <1>1, <2>1, UpInduction
  <2>. QED
    BY <2>2
<1>16. reach \in [D -> S]
  <2>1. \A k \in D : reach[k] \in S
    BY <1>4, <1>14, <1>15
  <2>2. reach = [k \in D |-> reach[k]]
    BY <1>12 DEF Is
  <2>. HIDE DEF S, D
  <2>. QED
    BY <2>1, <2>2
<1>17. ReachesFrom(v, reach)
  BY <1>2, <1>14, <1>16 DEF ReachesFrom, n
<1>. QED
  BY <1>13, <1>17 DEF n

(* It is in every set that holds the node and is closed downward. *)
LEMMA BelowLeast ==
    ASSUME TypeOK, NEW v \in 0..Len(nodes), NEW C, Downward(C), v # NULL => v \in C
    PROVE  Below(v) \subseteq C
<1>1. PICK reach : ReachesFrom(v, reach) /\ Below(v) = reach[Len(nodes)]
  BY BelowReaches
<1>. DEFINE n == Len(nodes)
            G == {k \in 1..n : reach[k] \subseteq C}
<1>2. n \in Nat /\ reach[0] \subseteq C
  BY <1>1 DEF ReachesFrom, TypeOK, HeapOK
<1>3. ASSUME NEW k \in 1..n, 1 .. k-1 \subseteq G PROVE k \in G
  <2>1. k = 1 \/ k - 1 \in 1 .. k-1
    BY <1>2
  <2>2. reach[k - 1] \subseteq C
    BY <1>2, <1>3, <2>1
  <2>3. reach[k] = reach[k - 1] \cup UNION {Sides(p) : p \in reach[k - 1]}
    BY <1>1 DEF ReachesFrom
  <2>. QED
    BY <2>2, <2>3 DEF Downward
<1>4. 1..n \subseteq G
  <2>. HIDE DEF G
  <2>. QED
    BY <1>2, <1>3, UpInduction
<1>5. n = 0 \/ n \in 1..n
  BY <1>2
<1>. QED
  BY <1>1, <1>2, <1>4, <1>5

(* It is closed downward itself: a set of nodes cannot grow at every step. *)
LEMMA BelowClosed ==
    ASSUME TypeOK, NEW v \in 0..Len(nodes)
    PROVE  Downward(Below(v)) /\ (v # NULL => v \in Below(v))
<1>1. PICK reach : ReachesFrom(v, reach) /\ Below(v) = reach[Len(nodes)]
  BY BelowReaches
<1>. DEFINE n == Len(nodes)
            closed(T) == \A p \in T : Sides(p) \subseteq T
            G == {k \in 1..n : /\ v \in reach[k]
                               /\ closed(reach[k]) \/ Cardinality(reach[k]) >= k + 1}
<1>2. /\ n \in Nat /\ reach[0] = {v} \ {NULL}
      /\ \A k \in 0..n : reach[k] \in SUBSET (1..n)
      /\ \A k \in 1..n : reach[k] = reach[k - 1] \cup UNION {Sides(p) : p \in reach[k - 1]}
  BY <1>1 DEF ReachesFrom, TypeOK, HeapOK
<1>3. IsFiniteSet(1..n) /\ Cardinality(1..n) = n
  <2>. HIDE DEF n
  <2>1. 1 \in Int /\ n \in Int
    BY <1>2
  <2>2. IsFiniteSet(1..n) /\ Cardinality(1..n) = IF 1 > n THEN 0 ELSE n - 1 + 1
    BY <2>1, FS_Interval
  <2>. QED
    BY <1>2, <2>2
<1>4. \A k \in 0..n : /\ IsFiniteSet(reach[k]) /\ Cardinality(reach[k]) \in Nat
                      /\ Cardinality(reach[k]) <= n
  BY <1>2, <1>3, FS_Subset, FS_CardinalityType
<1>. HIDE DEF n
<1>5. CASE v # NULL
  <2>1. reach[0] = {v} /\ Cardinality(reach[0]) >= 1
    <3>1. reach[0] = {v}
      BY <1>2, <1>5
    <3>2. Cardinality({v}) = 1
      BY FS_Singleton
    <3>. QED
      BY <3>1, <3>2
  <2>2. ASSUME NEW k \in 1..n, 1 .. k-1 \subseteq G PROVE k \in G
    <3>1. k - 1 \in 0..n /\ k \in 0..n /\ (k = 1 \/ k - 1 \in 1 .. k-1)
      BY <1>2
    <3>2. v \in reach[k - 1] /\ (closed(reach[k - 1]) \/ Cardinality(reach[k - 1]) >= k)
      <4>1. CASE k = 1
        <5>1. k - 1 = 0
          BY <4>1
        <5>. QED
          BY <2>1, <4>1, <5>1
      <4>2. CASE k - 1 \in 1 .. k-1
        <5>1. k - 1 \in G /\ k - 1 + 1 = k
          BY <2>2, <4>2
        <5>. QED
          BY <5>1
      <4>. QED
        BY <3>1, <4>1, <4>2
    <3>3. reach[k] = reach[k - 1] \cup UNION {Sides(p) : p \in reach[k - 1]}
      BY <1>2
    <3>4. v \in reach[k]
      BY <3>2, <3>3
    <3>5. CASE closed(reach[k - 1])
      <4>1. reach[k] = reach[k - 1]
        BY <3>3, <3>5
      <4>. QED
        BY <3>4, <3>5, <4>1
    <3>6. CASE ~closed(reach[k - 1])
      <4>1. reach[k - 1] \subseteq reach[k] /\ reach[k - 1] # reach[k]
        BY <3>3, <3>6
      <4>2. /\ Cardinality(reach[k - 1]) <= Cardinality(reach[k])
            /\ Cardinality(reach[k - 1]) # Cardinality(reach[k])
        BY <1>4, <3>1, <4>1, FS_Subset
      <4>3. /\ Cardinality(reach[k]) \in Nat /\ Cardinality(reach[k - 1]) \in Nat
            /\ Cardinality(reach[k - 1]) >= k
        BY <1>4, <3>1, <3>2, <3>6
      <4>4. Cardinality(reach[k]) >= k + 1
        BY <4>2, <4>3
      <4>. QED
        BY <3>4, <4>4
    <3>. QED
      BY <3>5, <3>6
  <2>3. n \in G
    <3>1. 1..n \subseteq G
      <4>. HIDE DEF G
      <4>. QED
        BY <1>2, <2>2, UpInduction
    <3>2. n \in 1..n
      BY <1>2, <1>5 DEF NULL, n
    <3>. QED
      BY <3>1, <3>2
  <2>4. n \in 0..n /\ ~(Cardinality(reach[n]) >= n + 1)
    BY <1>2, <1>4
  <2>5. v \in reach[n] /\ closed(reach[n]) /\ reach[n] \subseteq 1..n
    BY <1>2, <2>3, <2>4
  <2>. QED
    BY <1>1, <2>5 DEF Downward, n
<1>6. CASE v = NULL
  <2>1. Below(v) \subseteq {}
    <3>1. Downward({})
      BY DEF Downward
    <3>. QED
      BY <1>6, <3>1, BelowLeast
  <2>. QED
    BY <1>6, <2>1 DEF Downward
<1>. QED
  BY <1>5, <1>6

-----------------------------------------------------------------------------
(* The accepted tree. *)

(* A declaration in the tree owns an environment. *)
LEMMA DeclaredOwn ==
    ASSUME TypeOK, NEW o, Region(o)
    PROVE  /\ Below(root) \subseteq 1..Len(nodes)
           /\ \A d \in Declared : d \in Own(o) /\ Owning(o, d)
<1>1. Below(root) \subseteq 1..Len(nodes)
  BY AllDownward, BelowLeast DEF TypeOK, HeapOK, Refs, NULL
<1>2. ASSUME NEW d \in Declared PROVE d \in Own(o) /\ Owning(o, d)
  <2>1. d \in 1..Len(nodes) /\ nodes[d].tok \in Names /\ nodes[d].right # NULL
    BY <1>1, <1>2 DEF Declared
  <2>2. o[d] = -1
    BY <2>1 DEF Region, Parted, Within
  <2>3. d \in Own(o)
    BY <2>1, <2>2 DEF Own, Spine
  <2>. QED
    BY <2>1, <2>2, <2>3 DEF Region, Parted, OutsideFunctions
<1>. QED
  BY <1>1, <1>2

(* What is below it belongs to that environment. *)
LEMMA OwnBelow ==
    ASSUME TypeOK, NEW o, Region(o), NEW d \in Own(o), Owning(o, d)
    PROVE  \A v \in Below(d) \ {d} : v \in 1..Len(nodes) /\ o[v] = nodes[d].scope
<1>. DEFINE C == {d} \cup {v \in 1..Len(nodes) : o[v] = nodes[d].scope}
<1>1. d \in 1..Len(nodes) /\ o[d] = -1 /\ nodes[d].scope # -1
  BY DEF Own, Spine, Owning, TypeOK, TablesOK
<1>2. ASSUME NEW p \in C PROVE Sides(p) \subseteq C
  <2>1. p \in 1..Len(nodes) /\ Sides(p) \subseteq 1..Len(nodes)
    BY <1>1, AllDownward DEF Downward
  <2>2. CASE p = d
    BY <2>1, <2>2 DEF Owning, Sides
  <2>3. CASE p # d
    <3>1. o[p] = nodes[d].scope /\ Within(o, p)
      BY <1>1, <2>1, <2>3 DEF Region, Parted
    <3>. QED
      BY <2>1, <3>1 DEF Within, Sides
  <2>. QED
    BY <2>2, <2>3
<1>3. Downward(C) /\ d \in C
  BY <1>1, <1>2 DEF Downward
<1>4. Below(d) \subseteq C
  <2>. HIDE DEF C
  <2>. QED
    BY <1>1, <1>3, BelowLeast
<1>. QED
  BY <1>4

LEMMA RegionsMatch == TypeOK /\ Regions => ScopesMatchFunctions
<1>. SUFFICES ASSUME TypeOK, Regions, NEW d \in Declared
              PROVE  /\ SymbolAt(envs[nodes[d].scope + 1], nodes[d].inner)
                           = Function(nodes[d].tok)
                     /\ \A e \in Declared : nodes[e].scope = nodes[d].scope => e = d
                     /\ \A v \in Below(d) \ {d} : nodes[v].tok \in Names =>
                           nodes[v].scope = nodes[d].scope /\ EnteredThere(v)
  BY DEF ScopesMatchFunctions, EnteredThere
<1>1. PICK o : Region(o)
  BY DEF Regions
<1>2. d \in Own(o) /\ Owning(o, d) /\ \A e \in Declared : e \in Own(o)
  BY <1>1, DeclaredOwn
<1>3. SymbolAt(envs[nodes[d].scope + 1], nodes[d].inner) = Function(nodes[d].tok)
  BY <1>2 DEF Owning, SymbolAt
<1>4. \A e \in Declared : nodes[e].scope = nodes[d].scope => e = d
  BY <1>2 DEF Owning
<1>5. ASSUME NEW v \in Below(d) \ {d}, nodes[v].tok \in Names
      PROVE  nodes[v].scope = nodes[d].scope /\ EnteredThere(v)
  <2>1. v \in 1..Len(nodes) /\ o[v] = nodes[d].scope
    BY <1>1, <1>2, <1>5, OwnBelow
  <2>2. nodes[d].scope # -1
    BY <1>2 DEF Owning, TypeOK, TablesOK
  <2>. QED
    BY <1>1, <1>5, <2>1, <2>2 DEF Region, Parted, Within
<1>. QED
  BY <1>3, <1>4, <1>5

(* The tree holds all of the spine, and nothing that is not below it. *)
LEMMA TreeSpine ==
    ASSUME TypeOK, NEW o, Region(o), Gathered(o), HasRoot(o), status = "accepted"
    PROVE  /\ Spine(o) \subseteq Below(root)
           /\ \A c \in Below(root) :
                 \/ nodes[c].tok # "call"
                 \/ \E d \in Own(o) : o[c] = nodes[d].scope
<1>1. /\ root \in 1..Len(nodes) /\ root \in 0..Len(nodes) /\ root # NULL
      /\ nodes[root].tok # "call" /\ nodes[root].right = NULL
      /\ nodes[root].left \in Spine(o) /\ stack = << >>
  BY DEF HasRoot, NULL, TypeOK, HeapOK
<1>2. \A v \in Spine(o) : v \in 1..Len(nodes) /\ v # NULL /\ o[v] = -1 /\ OutsideFunctions(o, v)
  BY DEF Spine, Region, Parted, NULL, TypeOK, HeapOK
<1>3. Spine(o) \subseteq Below(root)
  <2>1. Downward(Below(root)) /\ root \in Below(root)
    BY <1>1, BelowClosed
  <2>2. ASSUME NEW v \in Spine(o), Hook(v) PROVE v \in Below(root)
    <3>1. nodes[root].left = v
      BY <1>1, <2>2 DEF Hook, Activations
    <3>2. v \in Sides(root)
      BY <1>2, <3>1 DEF Sides
    <3>. QED
      BY <2>1, <3>2 DEF Downward
  <2>3. ASSUME NEW v \in Below(root) \cap (Spine(o) \ Own(o))
        PROVE  {nodes[v].left, nodes[v].right} \subseteq Below(root)
    <3>1. {nodes[v].left, nodes[v].right} \subseteq Spine(o)
      BY <1>2, <2>3 DEF OutsideFunctions
    <3>2. {nodes[v].left, nodes[v].right} \subseteq Sides(v)
      BY <1>2, <3>1 DEF Sides
    <3>. QED
      BY <2>1, <2>3, <3>2 DEF Downward
  <2>4. Covers(o, Below(root))
    BY <2>2, <2>3 DEF Covers
  <2>. QED
    BY <2>4 DEF Gathered
<1>. DEFINE inside == {v \in 1..Len(nodes) : \E d \in Own(o) : o[v] = nodes[d].scope}
            C == {root} \cup Spine(o) \cup inside
<1>4. \A d \in Own(o) : d \in Spine(o) /\ Owning(o, d) /\ nodes[d].scope # -1
  BY <1>2 DEF Own, OutsideFunctions, Owning, TypeOK, TablesOK
<1>5. ASSUME NEW p \in C PROVE p \in 1..Len(nodes) /\ Sides(p) \subseteq C
  <2>1. p \in 1..Len(nodes) /\ Sides(p) \subseteq 1..Len(nodes)
    BY <1>1, <1>2, AllDownward DEF Downward
  <2>2. CASE p = root
    BY <1>1, <2>2 DEF Sides
  <2>3. CASE p \in Spine(o) \ Own(o)
    BY <1>2, <2>3 DEF OutsideFunctions, Sides
  <2>4. CASE p \in Own(o)
    <3>1. Sides(p) \subseteq inside
      BY <1>4, <2>1, <2>4 DEF Owning, Sides
    <3>. QED
      BY <2>1, <3>1
  <2>5. CASE p \in inside
    <3>1. PICK d \in Own(o) : o[p] = nodes[d].scope
      BY <2>5
    <3>2. Within(o, p)
      BY <1>4, <2>1, <3>1 DEF Region, Parted
    <3>3. Sides(p) \subseteq inside
      BY <2>1, <3>1, <3>2 DEF Within, Sides
    <3>. QED
      BY <2>1, <3>3
  <2>. QED
    BY <2>1, <2>2, <2>3, <2>4, <2>5
<1>6. Below(root) \subseteq C
  <2>1. Downward(C) /\ root \in C
    BY <1>5 DEF Downward
  <2>. HIDE DEF C
  <2>. QED
    BY <1>1, <2>1, BelowLeast
<1>7. ASSUME NEW c \in Below(root), nodes[c].tok = "call" PROVE c \in inside
  BY <1>1, <1>2, <1>6, <1>7 DEF OutsideFunctions
<1>. QED
  BY <1>3, <1>7

LEMMA RegionsCall == TypeOK /\ Regions => CallsHaveTargets
<1>. SUFFICES ASSUME TypeOK, Regions, status = "accepted",
                     NEW c \in Below(root), nodes[c].tok = "call"
              PROVE  \E d \in Declared : nodes[d].tok = nodes[nodes[c].left].tok
  BY DEF CallsHaveTargets
<1>1. PICK o : Region(o) /\ Full(o) /\ Gathered(o) /\ HasRoot(o)
  BY DEF Regions
<1>2. \A d \in Own(o) : /\ d \in 1..Len(nodes) /\ d \in Spine(o) /\ nodes[d].tok \in Names
                        /\ nodes[d].right # NULL /\ Owning(o, d)
  BY <1>1 DEF Own, Spine, Region, Parted, OutsideFunctions
<1>3. PICK e \in Own(o) : o[c] = nodes[e].scope
  BY <1>1, TreeSpine
<1>4. /\ current_env_id \in Int /\ nodes[e].scope \in 0..current_env_id
      /\ c \in 1..Len(nodes)
  BY <1>1, <1>2, DeclaredOwn DEF Owning, TypeOK, TablesOK
<1>5. Known(nodes[nodes[c].left].tok, nodes[e].scope)
  BY <1>1, <1>3, <1>4 DEF Region, Parted, Within
<1>6. PICK i \in 1 .. nodes[e].scope + 1 : envs[i][1] = Function(nodes[nodes[c].left].tok)
  BY <1>5 DEF Known
<1>7. PICK d \in Own(o) : nodes[d].scope = i - 1
  <2>1. CASE i - 1 = nodes[e].scope
    BY <2>1
  <2>2. CASE i - 1 # nodes[e].scope
    <3>1. i - 1 \in 0..current_env_id /\ i - 1 # current_env_id
      BY <1>4, <2>2
    <3>. QED
      BY <1>1, <3>1 DEF Full
  <2>. QED
    BY <2>1, <2>2
<1>8. envs[i][1] = Function(nodes[d].tok)
  <2>1. i - 1 + 1 = i
    OBVIOUS
  <2>. QED
    BY <1>2, <1>7, <2>1 DEF Owning
<1>9. nodes[d].tok = nodes[nodes[c].left].tok
  BY <1>6, <1>8 DEF Function
<1>10. d \in Declared
  BY <1>1, <1>2, <1>7, TreeSpine DEF Declared
<1>. QED
  BY <1>9, <1>10

(* The invariant on which both theorems rest. *)
DividedInv == IInv /\ Owned /\ NamesInv /\ StackLinked /\ FuncsFirst /\ Regions

LEMMA DividedInitially == Init => DividedInv
<1>1. Init => NamesInv
  BY DEF Init, NamesInv, IdentifiersResolve, Headed, Unborn, Bottom, Frame, FuncLabels
<1>2. Init => StackLinked
  BY DEF Init, StackLinked, Frame, General
<1>3. Init => FuncsFirst
  BY DEF Init, FuncsFirst
<1>. QED
  BY <1>1, <1>2, <1>3, Initially, OwnedInitially, RegionsInitially DEF DividedInv

LEMMA DividedInductive == DividedInv /\ [Next]_vars => DividedInv'
BY Inductive, OwnedInductive, NamesInductive, LinkedInductive, FuncsFirstInductive,
   RegionsInductive DEF DividedInv, Owned

(* In every accepted tree a declaration is the function of an environment   *)
(* of its own, and all identifiers below it are variables there, whatever   *)
(* the descent has tried and taken back before (syntax_analyzer.cpp:206-279 *)
(* and 948-976): the translator looks the names up by these ids             *)
(* (translator.cpp:302 and 332-333).                                       *)
THEOREM SyntaxScopesMatchFunctions == Spec => []ScopesMatchFunctions
<1>1. DividedInv => ScopesMatchFunctions
  BY RegionsMatch DEF DividedInv, IInv
<1>. QED
  BY <1>1, DividedInitially, DividedInductive, PTL DEF Spec

(* A call in an accepted tree names a function that is in the tree, though *)
(* get_func_call_ looks the name up in the tables, where a declaration that *)
(* failed has left its own (syntax_analyzer.cpp:325-345, ast.cpp:503-511):  *)
(* such a declaration ends get_program_ (syntax_analyzer.cpp:181-204), so   *)
(* no call that stays in the tree comes after it.                          *)
THEOREM SyntaxCallsHaveTargets == Spec => []CallsHaveTargets
<1>1. DividedInv => CallsHaveTargets
  BY RegionsCall DEF DividedInv, IInv
<1>. QED
  BY <1>1, DividedInitially, DividedInductive, PTL DEF Spec
=============================================================================
