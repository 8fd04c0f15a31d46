--------------------------- MODULE CompilerProofs ---------------------------
(***************************************************************************)
(* The labels of the emitted code, for every text, every file and every    *)
(* tree that is read from it.                                              *)
(*                                                                         *)
(* What is written and what is still to be written are looked at as one    *)
(* sequence, Output.  To write an instruction leaves it as it is; to come  *)
(* to a node replaces the call of emit_node_ by the node's text.  A text   *)
(* has its labels' places in itself and gives them the next free number,   *)
(* so that the output is Resolved all the time, not only in the end.       *)
(***************************************************************************)
EXTENDS Compiler, SequenceTheorems, TLAPS

Output == asm \o pending

Tagged(item) == Asm!IsNumbered(item.label)
IsPlace(item) == item.op = "label" /\ Tagged(item)
IsJump(item) == item.op \notin {"label", "emit", "arguments"}

(* Every number is in N, only instructions have labels, no two places have  *)
(* the same one, and every label has its place.                            *)
Resolved(s, N) ==
    /\ \A i \in 1..Len(s) : Tagged(s[i]) => s[i].label[3] \in N /\ ~Asm!Calls(s[i])
    /\ \A i, j \in 1..Len(s) :
          IsPlace(s[i]) /\ IsPlace(s[j]) /\ s[i].label = s[j].label => i = j
    /\ \A i \in 1..Len(s) : Tagged(s[i]) =>
          \E j \in 1..Len(s) : IsPlace(s[j]) /\ s[j].label = s[i].label

Untagged(s) == \A i \in 1..Len(s) : ~Tagged(s[i])

Used == 0 .. label_id - 1

LabelsInv ==
    /\ \E T : asm \in Seq(T) /\ pending \in Seq(T)
    /\ label_id \in Nat
    /\ Resolved(Output, Used)
    /\ emitted = "all" => pending = << >>

-----------------------------------------------------------------------------
(* Sequences. *)

(* An item of a sequence is replaced by a sequence.                        *)
SplicedAt(before, after, a, e, r, t) ==
    /\ Len(a) \in Nat /\ Len(t) \in Nat /\ Len(r) \in Nat
    /\ Len(before) = Len(a) + 1 + Len(r) /\ Len(after) = Len(a) + Len(t) + Len(r)
    /\ \A i \in 1..Len(a) : before[i] = a[i] /\ after[i] = a[i]
    /\ before[Len(a) + 1] = e
    /\ \A i \in 1..Len(t) : after[Len(a) + i] = t[i]
    /\ \A i \in 1..Len(r) :
          before[Len(a) + 1 + i] = r[i] /\ after[Len(a) + Len(t) + i] = r[i]

LEMMA Spliced ==
    ASSUME NEW T, NEW a \in Seq(T), NEW e \in T, NEW r \in Seq(T), NEW t \in Seq(T)
    PROVE  SplicedAt(a \o (<<e>> \o r), a \o (t \o r), a, e, r, t)
  BY DEF SplicedAt

(* A text with labels of its own, all of the next number, takes the place  *)
(* of an item without a label.                                             *)
LEMMA TextKeepsResolved ==
    ASSUME NEW T, NEW a \in Seq(T), NEW e \in T, NEW r \in Seq(T), NEW t \in Seq(T),
           NEW n \in Nat, NEW m \in {n, n + 1},
           ~Tagged(e),
           Resolved(a \o (<<e>> \o r), 0 .. n - 1),
           Resolved(t, {n}),
           m = n => Untagged(t)
    PROVE  Resolved(a \o (t \o r), 0 .. m - 1)
<1> DEFINE before == a \o (<<e>> \o r)
           after == a \o (t \o r)
           A == Len(a)
           B == Len(t)
           C == Len(r)
           From(i) == IF i <= A THEN i ELSE i - B + 1
           To(j) == IF j <= A THEN j ELSE j + B - 1
           InText(i) == i \in A + 1 .. A + B
<1>splice. SplicedAt(before, after, a, e, r, t)
  BY Spliced
<1> HIDE DEF before, after
<1>1. /\ A \in Nat /\ B \in Nat /\ C \in Nat
      /\ Len(before) = A + 1 + C /\ Len(after) = A + B + C
  BY <1>splice DEF SplicedAt
<1>items. /\ \A i \in 1..A : before[i] = a[i] /\ after[i] = a[i]
          /\ before[A + 1] = e
          /\ \A i \in 1..B : after[A + i] = t[i]
          /\ \A i \in 1..C : before[A + 1 + i] = r[i] /\ after[A + B + i] = r[i]
  BY <1>splice DEF SplicedAt
<1> HIDE DEF A, B, C
<1>2. ASSUME NEW i \in 1..Len(after), ~InText(i)
      PROVE  /\ From(i) \in 1..Len(before) /\ From(i) # A + 1
             /\ after[i] = before[From(i)] /\ To(From(i)) = i
  <2>1. CASE i <= A
    BY <1>1, <1>items, <2>1
  <2>2. CASE i > A
    <3>1. PICK k \in 1..C : i = A + B + k
      <4>1. i - (A + B) \in 1..C /\ i = A + B + (i - (A + B))
        BY <1>1, <1>2, <2>2
      <4> QED  BY <4>1
    <3>2. From(i) = A + 1 + k
      BY <1>1, <2>2, <3>1
    <3>3. A + 1 + k \in 1..Len(before) /\ A + 1 + k # A + 1 /\ To(A + 1 + k) = i
      BY <1>1, <3>1
    <3>4. after[i] = before[A + 1 + k]
      BY <1>items, <3>1
    <3> QED  BY <3>2, <3>3, <3>4
  <2> QED  BY <1>1, <2>1, <2>2
<1>3. ASSUME NEW j \in 1..Len(before), j # A + 1
      PROVE  To(j) \in 1..Len(after) /\ after[To(j)] = before[j]
  <2>1. CASE j <= A
    BY <1>1, <1>items, <2>1
  <2>2. CASE j > A
    <3>1. PICK k \in 1..C : j = A + 1 + k
      <4>1. j - (A + 1) \in 1..C /\ j = A + 1 + (j - (A + 1))
        BY <1>1, <1>3, <2>2
      <4> QED  BY <4>1
    <3>2. To(j) = A + B + k /\ A + B + k \in 1..Len(after)
      BY <1>1, <2>2, <3>1
    <3> QED  BY <1>items, <3>1, <3>2
  <2> QED  BY <1>1, <2>1, <2>2
<1>4. ASSUME NEW i \in 1..Len(after), InText(i)
      PROVE  i - A \in 1..B /\ after[i] = t[i - A]
  <2>1. i - A \in 1..B /\ i = A + (i - A)
    BY <1>1, <1>4
  <2> QED  BY <1>items, <2>1
<1>5. ASSUME NEW k \in 1..B
      PROVE  A + k \in 1..Len(after) /\ after[A + k] = t[k]
  BY <1>1, <1>items
<1>6. /\ \A i \in 1..Len(before) : Tagged(before[i]) => before[i].label[3] \in 0 .. n - 1 /\ ~Asm!Calls(before[i])
      /\ \A i, j \in 1..Len(before) :
            IsPlace(before[i]) /\ IsPlace(before[j]) /\ before[i].label = before[j].label => i = j
      /\ \A i \in 1..Len(before) : Tagged(before[i]) =>
            \E j \in 1..Len(before) : IsPlace(before[j]) /\ before[j].label = before[i].label
  BY DEF Resolved, before
<1>7. /\ \A i \in 1..B : Tagged(t[i]) => t[i].label[3] = n /\ ~Asm!Calls(t[i])
      /\ \A i, j \in 1..B : IsPlace(t[i]) /\ IsPlace(t[j]) /\ t[i].label = t[j].label => i = j
      /\ \A i \in 1..B : Tagged(t[i]) =>
            \E j \in 1..B : IsPlace(t[j]) /\ t[j].label = t[i].label
      /\ m = n => \A i \in 1..B : ~Tagged(t[i])
  BY DEF Resolved, Untagged, B
<1>8. ~Tagged(before[A + 1])
  BY <1>items
<1> HIDE DEF From, To
<1>9. ASSUME NEW i \in 1..Len(after), Tagged(after[i])
      PROVE  after[i].label[3] \in 0 .. m - 1 /\ ~Asm!Calls(after[i])
  <2>1. CASE InText(i)
    <3>1. after[i].label[3] = n /\ m # n /\ ~Asm!Calls(after[i])
      BY <1>4, <1>7, <1>9, <2>1
    <3>2. n \in 0 .. m - 1
      BY <3>1
    <3> QED  BY <3>1, <3>2
  <2>2. CASE ~InText(i)
    BY <1>2, <1>6, <1>9, <2>2, SMTT(30)
  <2> QED  BY <2>1, <2>2
<1>10. ASSUME NEW i \in 1..Len(after), NEW j \in 1..Len(after),
              IsPlace(after[i]), IsPlace(after[j]), after[i].label = after[j].label
       PROVE  i = j
  <2>1. CASE InText(i) /\ InText(j)
    <3>1. /\ IsPlace(t[i - A]) /\ IsPlace(t[j - A]) /\ t[i - A].label = t[j - A].label
          /\ i - A \in 1..B /\ j - A \in 1..B
      BY <1>4, <1>10, <2>1
    <3>2. i - A = j - A
      BY <1>7, <3>1
    <3> QED  BY <1>1, <3>2
  <2>2. CASE ~InText(i) /\ ~InText(j)
    <3>1. /\ IsPlace(before[From(i)]) /\ IsPlace(before[From(j)])
          /\ before[From(i)].label = before[From(j)].label
          /\ From(i) \in 1..Len(before) /\ From(j) \in 1..Len(before)
      BY <1>2, <1>10, <2>2
    <3>2. From(i) = From(j)
      BY <1>6, <3>1
    <3> QED  BY <1>2, <2>2, <3>2
  <2>3. ASSUME NEW k \in 1..Len(after), NEW l \in 1..Len(after), InText(k), ~InText(l),
               IsPlace(after[k]), IsPlace(after[l])
        PROVE  after[k].label # after[l].label
    <3>1. after[k].label[3] = n
      BY <1>4, <1>7, <2>3, SMTT(30) DEF IsPlace
    <3>2. after[l].label[3] \in 0 .. n - 1
      BY <1>2, <1>6, <2>3, SMTT(30) DEF IsPlace
    <3> QED  BY <3>1, <3>2, SMTT(30)
  <2> QED  BY <1>10, <2>1, <2>2, <2>3
<1>11. ASSUME NEW i \in 1..Len(after), Tagged(after[i])
       PROVE  \E j \in 1..Len(after) : IsPlace(after[j]) /\ after[j].label = after[i].label
  <2>1. CASE InText(i)
    <3>1. PICK k \in 1..B : IsPlace(t[k]) /\ t[k].label = t[i - A].label
      BY <1>4, <1>7, <1>11, <2>1
    <3> QED  BY <1>4, <1>5, <2>1, <3>1, ZenonT(40)
  <2>2. CASE ~InText(i)
    <3>1. PICK j \in 1..Len(before) :
             IsPlace(before[j]) /\ before[j].label = before[From(i)].label
      BY <1>2, <1>6, <1>11, <2>2
    <3>2. j # A + 1
      BY <1>8, <3>1 DEF IsPlace
    <3> QED  BY <1>2, <1>3, <2>2, <3>1, <3>2
  <2> QED  BY <2>1, <2>2
<1> QED  BY <1>9, <1>10, <1>11 DEF Resolved, after
-----------------------------------------------------------------------------
(* Texts. *)

IsSequence(s) == \E T : s \in Seq(T)

(* What may take the place of a node, and what of a node without labels of *)
(* its own.                                                                *)
IsText(s, n) == IsSequence(s) /\ Resolved(s, {n})
IsPlainText(s) == IsSequence(s) /\ Untagged(s)

LEMMA ItemLabels ==
  /\ \A v : ~Tagged(Asm!Emit(v))
  /\ \A v, cell : ~Tagged(Asm!Arguments(v, cell))
  /\ \A op : ~Tagged(Asm!Ins(op))
  /\ \A n : ~Tagged(Asm!Push(n))
  /\ \A reg : ~Tagged(Asm!PushR(reg)) /\ ~Tagged(Asm!PopR(reg))
  /\ \A reg, n : ~Tagged(Asm!PushM(reg, n)) /\ ~Tagged(Asm!PopM(reg, n))
  /\ \A op, str : ~Tagged(Asm!Jump(op, Asm!FuncName(str)))
  /\ \A str : ~Tagged(Asm!Place(Asm!FuncName(str)))
  /\ \A op, label : Asm!Jump(op, label).op = op /\ Asm!Jump(op, label).label = label
  /\ \A label : Asm!Place(label).op = "label" /\ Asm!Place(label).label = label
  BY DEF Tagged, Asm!IsNumbered, Asm!NoLabel, Asm!Ins, Asm!Emit, Asm!Arguments, Asm!Push,
         Asm!PushR, Asm!PopR, Asm!PushM, Asm!PopM, Asm!Jump, Asm!Place, Asm!FuncName

LEMMA PlainIsText ==
  ASSUME NEW s, NEW n, IsPlainText(s)
  PROVE  IsText(s, n)
  BY DEF IsPlainText, IsText, Untagged, Resolved, IsPlace

(* Two labels with a number, of one text or of none.                       *)
LEMMA NumberedLabels ==
  ASSUME NEW n
  PROVE  /\ \A what \in {"beginwhile", "endwhile", "else", "endif"} :
               Asm!IsNumbered(Asm!Numbered(what, n)) /\ Asm!Numbered(what, n)[3] = n
         /\ \A cmd : \A what \in {"true", "false"} :
               Asm!IsNumbered(Asm!Branch(what, cmd, n)) /\ Asm!Branch(what, cmd, n)[3] = n
         /\ \A cmd : Asm!Branch("true", cmd, n) # Asm!Branch("false", cmd, n)
         /\ Asm!Numbered("beginwhile", n) # Asm!Numbered("endwhile", n)
         /\ Asm!Numbered("else", n) # Asm!Numbered("endif", n)
  BY DEF Asm!IsNumbered, Asm!NoLabel, Asm!Numbered, Asm!Branch

(* The labelled items of a text are its places and its jumps.              *)
LabelsAt(s, n, places, jumps) ==
  /\ IsSequence(s) /\ places \subseteq 1..Len(s) /\ jumps \subseteq 1..Len(s)
  /\ \A i \in 1..Len(s) : Tagged(s[i]) => i \in places \cup jumps
  /\ \A i \in places :
        s[i].op = "label" /\ Asm!IsNumbered(s[i].label) /\ s[i].label[3] = n
  /\ \A i, j \in places : s[i].label = s[j].label => i = j
  /\ \A i \in jumps : IsJump(s[i]) /\ \E j \in places : s[j].label = s[i].label

LEMMA LabelledText ==
  ASSUME NEW s, NEW n, NEW places, NEW jumps, LabelsAt(s, n, places, jumps)
  PROVE  IsText(s, n)
<1>1. ASSUME NEW i \in 1..Len(s), Tagged(s[i])
      PROVE  s[i].label[3] \in {n} /\ ~Asm!Calls(s[i])
  <2>1. CASE i \in places
    <3>1. s[i].op = "label" /\ s[i].label[3] = n
      BY <2>1 DEF LabelsAt
    <3> QED  BY <3>1 DEF Asm!Calls
  <2>2. CASE i \in jumps
    <3>1. IsJump(s[i]) /\ s[i].label[3] = n
      BY <2>2 DEF LabelsAt
    <3> QED  BY <3>1 DEF IsJump, Asm!Calls
  <2> QED  BY <1>1, <2>1, <2>2 DEF LabelsAt
<1>2. \A i \in places : IsPlace(s[i])
  BY DEF IsPlace, Tagged, LabelsAt
<1>3. \A i \in 1..Len(s) : IsPlace(s[i]) => i \in places
  BY DEF IsPlace, IsJump, LabelsAt
<1>4. \A i \in 1..Len(s) : Tagged(s[i]) =>
         \E j \in 1..Len(s) : IsPlace(s[j]) /\ s[j].label = s[i].label
  BY <1>2 DEF LabelsAt
<1> QED  BY <1>1, <1>3, <1>4 DEF IsText, Resolved, LabelsAt

LEMMA ComparisonText ==
  ASSUME NEW node, NEW cmd \in {"JE", "JNE", "JA", "JB", "JAE", "JBE"}, NEW n
  PROVE  IsText(Asm!Comparison(node, cmd, n), n)
<1> DEFINE s == Asm!Comparison(node, cmd, n)
           yes == Asm!Branch("true", cmd, n)
           no == Asm!Branch("false", cmd, n)
<1>1. /\ s \in Seq({s[i] : i \in 1..10}) /\ Len(s) = 10
      /\ s[1] = Asm!Emit(node.left) /\ s[2] = Asm!Emit(node.right) /\ s[3] = Asm!Ins("SUB")
      /\ s[4] = Asm!Push(0) /\ s[5] = Asm!Jump(cmd, yes) /\ s[6] = Asm!Push(0)
      /\ s[7] = Asm!Jump("JMP", no) /\ s[8] = Asm!Place(yes) /\ s[9] = Asm!Push(1)
      /\ s[10] = Asm!Place(no)
  BY DEF Asm!Comparison
<1> HIDE DEF s
<1>2. \A i \in 1..10 : Tagged(s[i]) => i \in {8, 10} \cup {5, 7}
  BY <1>1, ItemLabels
<1>3. /\ s[5].label = yes /\ s[8].label = yes /\ s[7].label = no /\ s[10].label = no
      /\ IsJump(s[5]) /\ IsJump(s[7]) /\ s[8].op = "label" /\ s[10].op = "label"
  BY <1>1, ItemLabels DEF IsJump
<1>4. yes # no /\ yes[3] = n /\ no[3] = n /\ Asm!IsNumbered(yes) /\ Asm!IsNumbered(no)
  BY NumberedLabels
<1> HIDE DEF yes, no
<1> DEFINE places == {8, 10}
           jumps == {5, 7}
<1>5. IsSequence(s) /\ places \subseteq 1..Len(s) /\ jumps \subseteq 1..Len(s)
  BY <1>1 DEF IsSequence
<1>6. \A i \in 1..Len(s) : Tagged(s[i]) => i \in places \cup jumps
  BY <1>1, <1>2
<1>7. /\ \A i \in places :
            s[i].op = "label" /\ Asm!IsNumbered(s[i].label) /\ s[i].label[3] = n
      /\ \A i, j \in places : s[i].label = s[j].label => i = j
      /\ \A i \in jumps : IsJump(s[i]) /\ \E j \in places : s[j].label = s[i].label
  BY <1>3, <1>4
<1>8. LabelsAt(s, n, places, jumps)
  BY <1>5, <1>6, <1>7 DEF LabelsAt
<1> HIDE DEF places, jumps
<1> QED  BY <1>8, LabelledText DEF s

LEMMA WhileText ==
  ASSUME NEW node, NEW n
  PROVE  IsText(Asm!While(node, n), n)
<1> DEFINE s == Asm!While(node, n)
           begin == Asm!Numbered("beginwhile", n)
           end == Asm!Numbered("endwhile", n)
<1>1. /\ s \in Seq({s[i] : i \in 1..7}) /\ Len(s) = 7
      /\ s[1] = Asm!Place(begin) /\ s[2] = Asm!Emit(node.left) /\ s[3] = Asm!Push(0)
      /\ s[4] = Asm!Jump("JE", end) /\ s[5] = Asm!Emit(node.right)
      /\ s[6] = Asm!Jump("JMP", begin) /\ s[7] = Asm!Place(end)
  BY DEF Asm!While
<1> HIDE DEF s
<1>2. \A i \in 1..7 : Tagged(s[i]) => i \in {1, 7} \cup {4, 6}
  BY <1>1, ItemLabels
<1>3. /\ s[1].label = begin /\ s[6].label = begin /\ s[4].label = end /\ s[7].label = end
      /\ IsJump(s[4]) /\ IsJump(s[6]) /\ s[1].op = "label" /\ s[7].op = "label"
  BY <1>1, ItemLabels DEF IsJump
<1>4. begin # end /\ begin[3] = n /\ end[3] = n /\ Asm!IsNumbered(begin) /\ Asm!IsNumbered(end)
  BY NumberedLabels
<1> HIDE DEF begin, end
<1> DEFINE places == {1, 7}
           jumps == {4, 6}
<1>5. IsSequence(s) /\ places \subseteq 1..Len(s) /\ jumps \subseteq 1..Len(s)
  BY <1>1 DEF IsSequence
<1>6. \A i \in 1..Len(s) : Tagged(s[i]) => i \in places \cup jumps
  BY <1>1, <1>2
<1>7. /\ \A i \in places :
            s[i].op = "label" /\ Asm!IsNumbered(s[i].label) /\ s[i].label[3] = n
      /\ \A i, j \in places : s[i].label = s[j].label => i = j
      /\ \A i \in jumps : IsJump(s[i]) /\ \E j \in places : s[j].label = s[i].label
  BY <1>3, <1>4
<1>8. LabelsAt(s, n, places, jumps)
  BY <1>5, <1>6, <1>7 DEF LabelsAt
<1> HIDE DEF places, jumps
<1> QED  BY <1>8, LabelledText DEF s

LEMMA IfText ==
  ASSUME NEW node, NEW n
  PROVE  IsText(Asm!If(node, n), n)
<1> DEFINE s == Asm!If(node, n)
           else == Asm!Numbered("else", n)
           end == Asm!Numbered("endif", n)
<1>1. else # end /\ else[3] = n /\ end[3] = n /\ Asm!IsNumbered(else) /\ Asm!IsNumbered(end)
  BY NumberedLabels
<1>2. CASE node.right = NULL
  <2>1. /\ s \in Seq({s[i] : i \in 1..3}) /\ Len(s) = 3
        /\ s[1] = Asm!Emit(node.left) /\ s[2] = Asm!Push(0) /\ s[3] = Asm!Emit(Asm!NULL)
    BY <1>2 DEF Asm!If, Asm!NULL, NULL
  <2> HIDE DEF s
  <2>2. \A i \in 1..3 : ~Tagged(s[i])
    BY <2>1, ItemLabels
  <2>3. IsText(s, n)
    BY <2>1, <2>2, PlainIsText DEF IsPlainText, Untagged, IsSequence
  <2> QED  BY <2>3 DEF s
<1>3. CASE node.right # NULL /\ r_nodes[node.right].tok = "else"
  <2>1. /\ s \in Seq({s[i] : i \in 1..8}) /\ Len(s) = 8
        /\ s[1] = Asm!Emit(node.left) /\ s[2] = Asm!Push(0) /\ s[3] = Asm!Jump("JE", else)
        /\ s[4] = Asm!Emit(r_nodes[node.right].left) /\ s[5] = Asm!Jump("JMP", end)
        /\ s[6] = Asm!Place(else) /\ s[7] = Asm!Emit(r_nodes[node.right].right)
        /\ s[8] = Asm!Place(end)
    BY <1>3 DEF Asm!If, Asm!NULL, NULL
  <2> HIDE DEF s, else, end
  <2>2. \A i \in 1..8 : Tagged(s[i]) => i \in {6, 8} \cup {3, 5}
    BY <2>1, ItemLabels
  <2>3. /\ s[3].label = else /\ s[6].label = else /\ s[5].label = end /\ s[8].label = end
        /\ IsJump(s[3]) /\ IsJump(s[5]) /\ s[6].op = "label" /\ s[8].op = "label"
    BY <2>1, ItemLabels DEF IsJump
  <2> DEFINE places == {6, 8}
             jumps == {3, 5}
  <2>4. IsSequence(s) /\ places \subseteq 1..Len(s) /\ jumps \subseteq 1..Len(s)
    BY <2>1 DEF IsSequence
  <2>5. \A i \in 1..Len(s) : Tagged(s[i]) => i \in places \cup jumps
    BY <2>1, <2>2
  <2>6. /\ \A i \in places :
              s[i].op = "label" /\ Asm!IsNumbered(s[i].label) /\ s[i].label[3] = n
        /\ \A i, j \in places : s[i].label = s[j].label => i = j
        /\ \A i \in jumps : IsJump(s[i]) /\ \E j \in places : s[j].label = s[i].label
    BY <2>3, <1>1
  <2>7. LabelsAt(s, n, places, jumps)
    BY <2>4, <2>5, <2>6 DEF LabelsAt
  <2> HIDE DEF places, jumps
  <2> QED  BY <2>7, LabelledText DEF s
<1>4. CASE node.right # NULL /\ r_nodes[node.right].tok # "else"
  <2>1. /\ s \in Seq({s[i] : i \in 1..5}) /\ Len(s) = 5
        /\ s[1] = Asm!Emit(node.left) /\ s[2] = Asm!Push(0) /\ s[3] = Asm!Jump("JE", end)
        /\ s[4] = Asm!Emit(node.right) /\ s[5] = Asm!Place(end)
    BY <1>4 DEF Asm!If, Asm!NULL, NULL
  <2> HIDE DEF s, else, end
  <2>2. \A i \in 1..5 : Tagged(s[i]) => i \in {5} \cup {3}
    BY <2>1, ItemLabels
  <2>3. s[3].label = end /\ s[5].label = end /\ IsJump(s[3]) /\ s[5].op = "label"
    BY <2>1, ItemLabels DEF IsJump
  <2> DEFINE places == {5}
             jumps == {3}
  <2>4. IsSequence(s) /\ places \subseteq 1..Len(s) /\ jumps \subseteq 1..Len(s)
    BY <2>1 DEF IsSequence
  <2>5. \A i \in 1..Len(s) : Tagged(s[i]) => i \in places \cup jumps
    BY <2>1, <2>2
  <2>6. /\ \A i \in places :
              s[i].op = "label" /\ Asm!IsNumbered(s[i].label) /\ s[i].label[3] = n
        /\ \A i, j \in places : s[i].label = s[j].label => i = j
        /\ \A i \in jumps : IsJump(s[i]) /\ \E j \in places : s[j].label = s[i].label
    BY <2>3, <1>1
  <2>7. LabelsAt(s, n, places, jumps)
    BY <2>4, <2>5, <2>6 DEF LabelsAt
  <2> HIDE DEF places, jumps
  <2> QED  BY <2>7, LabelledText DEF s
<1> QED  BY <1>2, <1>3, <1>4
(* A text of items without labels.                                         *)
LEMMA PlainTuples ==
  ASSUME NEW a, NEW b, NEW c, NEW d, NEW e, NEW f, NEW g,
         ~Tagged(a), ~Tagged(b), ~Tagged(c), ~Tagged(d), ~Tagged(e), ~Tagged(f), ~Tagged(g)
  PROVE  /\ IsPlainText(<< >>) /\ IsPlainText(<<a>>)
         /\ IsPlainText(<<a, b>>) /\ IsPlainText(<<a, b, c>>)
         /\ IsPlainText(<<a, b, c, d>>) /\ IsPlainText(<<a, b, c, d, e>>)
         /\ IsPlainText(<<a, b, c, d, e, f>>)
         /\ IsPlainText(<<a, b, c, d, e, f, g>>)
<1>1. << >> \in Seq({a}) /\ <<a>> \in Seq({a}) /\ <<a, b>> \in Seq({a, b})
  OBVIOUS
<1>2. <<a, b, c>> \in Seq({a, b, c}) /\ <<a, b, c, d>> \in Seq({a, b, c, d})
  OBVIOUS
<1>3. /\ <<a, b, c, d, e>> \in Seq({a, b, c, d, e})
      /\ <<a, b, c, d, e, f>> \in Seq({a, b, c, d, e, f})
      /\ <<a, b, c, d, e, f, g>> \in Seq({a, b, c, d, e, f, g})
  OBVIOUS
<1>4. /\ Untagged(<< >>) /\ Untagged(<<a>>) /\ Untagged(<<a, b>>) /\ Untagged(<<a, b, c>>)
  BY DEF Untagged
<1>5. /\ Untagged(<<a, b, c, d>>) /\ Untagged(<<a, b, c, d, e>>) /\ Untagged(<<a, b, c, d, e, f>>)
      /\ Untagged(<<a, b, c, d, e, f, g>>)
  BY DEF Untagged
<1> QED  BY <1>1, <1>2, <1>3, <1>4, <1>5 DEF IsPlainText, IsSequence

LEMMA PlainTexts ==
  ASSUME NEW node
  PROVE  /\ \A v, w : IsPlainText(Asm!Present(v, w))
         /\ IsPlainText(Asm!Assignment(node)) /\ IsPlainText(Asm!Return(node))
         /\ IsPlainText(Asm!In(node)) /\ IsPlainText(Asm!Ramset(node))
         /\ IsPlainText(Asm!Identifier(node)) /\ IsPlainText(Asm!Call(node))
         /\ \A v, cell : IsPlainText(Asm!ArgumentText(v, cell))
         /\ IsPlainText(Asm!Prologue)
<1>1. ASSUME NEW v, NEW w
      PROVE  IsPlainText(Asm!Present(v, w))
  <2>1. ~Tagged(Asm!Emit(v)) /\ ~Tagged(Asm!Emit(w))
    BY ItemLabels
  <2>2. /\ IsPlainText(<< >>) /\ IsPlainText(<<Asm!Emit(v)>>) /\ IsPlainText(<<Asm!Emit(w)>>)
        /\ IsPlainText(<<Asm!Emit(v), Asm!Emit(w)>>)
    BY <2>1, PlainTuples
  <2> QED  BY <2>2 DEF Asm!Present
<1>2. IsPlainText(Asm!Assignment(node)) /\ IsPlainText(Asm!In(node))
  BY ItemLabels, PlainTuples, ZenonT(40) DEF Asm!Assignment, Asm!In
<1>3. IsPlainText(Asm!Return(node))
  BY ItemLabels, PlainTuples DEF Asm!Return
<1>4. IsPlainText(Asm!Ramset(node))
  BY ItemLabels, PlainTuples DEF Asm!Ramset
<1>5. IsPlainText(Asm!Function_(node)) /\ IsPlainText(Asm!Variable_(node))
  BY ItemLabels, PlainTuples, ZenonT(40) DEF Asm!Function_, Asm!Variable_
<1>6. IsPlainText(Asm!Identifier(node))
  BY <1>5 DEF Asm!Identifier
<1>7. IsPlainText(Asm!Call(node))
  BY ItemLabels, PlainTuples, ZenonT(40) DEF Asm!Call
<1>8. \A v, cell : IsPlainText(Asm!ArgumentText(v, cell))
  BY ItemLabels, PlainTuples, ZenonT(40) DEF Asm!ArgumentText
<1>9. IsPlainText(Asm!Prologue)
  BY ItemLabels, PlainTuples DEF Asm!Prologue
<1> QED  BY <1>1, <1>2, <1>3, <1>4, <1>6, <1>7, <1>8, <1>9

(* Texts of at most three items, written where they are used.              *)
LEMMA ShortTexts ==
  /\ \A v, w, op : IsPlainText(<<Asm!Emit(v), Asm!Emit(w), Asm!Ins(op)>>)
  /\ \A v, op : IsPlainText(<<Asm!Emit(v), Asm!Ins(op)>>)
  /\ \A n : IsPlainText(<<Asm!Push(n)>>)
  /\ IsPlainText(<< >>)
<1>1. ASSUME NEW v, NEW w, NEW op
      PROVE  /\ IsPlainText(<<Asm!Emit(v), Asm!Emit(w), Asm!Ins(op)>>)
             /\ IsPlainText(<<Asm!Emit(v), Asm!Ins(op)>>)
  BY ItemLabels, PlainTuples
<1>2. ASSUME NEW n
      PROVE  IsPlainText(<<Asm!Push(n)>>)
  BY ItemLabels, PlainTuples, ZenonT(40)
<1>3. IsPlainText(<< >>)
  BY ItemLabels, PlainTuples, ZenonT(40)
<1> QED  BY <1>1, <1>2, <1>3

(* What may take the place of a node with the token tok.                   *)
IsTextFor(tok, text) ==
  IsPlainText(text) \/ (tok \in Asm!Labelled /\ IsText(text, label_id))

LEMMA OperatorTextIsText ==
  ASSUME NEW node
  PROVE  IsTextFor(node.tok, Asm!OperatorText(node))
<1> DEFINE text == Asm!OperatorText(node)
<1>1. \/ node.tok \in DOMAIN Asm!Comparisons
           /\ text = Asm!Comparison(node, Asm!Comparisons[node.tok], label_id)
      \/ text = <<Asm!Emit(node.left), Asm!Emit(node.right), Asm!Ins(Asm!Arithmetic[node.tok])>>
      \/ text = Asm!Assignment(node)
      \/ text = <<Asm!Emit(node.left), Asm!Ins("SQR")>>
      \/ text = << >>
  BY DEF Asm!OperatorText
<1> HIDE DEF text
<1>2. CASE /\ node.tok \in DOMAIN Asm!Comparisons
           /\ text = Asm!Comparison(node, Asm!Comparisons[node.tok], label_id)
  <2>1. /\ Asm!Comparisons[node.tok] \in {"JE", "JNE", "JA", "JB", "JAE", "JBE"}
        /\ node.tok \in Asm!Labelled
    BY <1>2 DEF Asm!Comparisons, Asm!Labelled
  <2>2. IsTextFor(node.tok, text)
    BY <1>2, <2>1, ComparisonText DEF IsTextFor
  <2> QED  BY <2>2 DEF text
<1>3. ASSUME IsPlainText(text)
      PROVE  IsTextFor(node.tok, Asm!OperatorText(node))
  BY <1>3 DEF IsTextFor, text
<1> QED  BY <1>1, <1>2, <1>3, PlainTexts, ShortTexts

LEMMA KeywordTextIsText ==
  ASSUME NEW node
  PROVE  IsTextFor(node.tok, Asm!KeywordText(node))
<1> DEFINE text == Asm!KeywordText(node)
<1>1. \/ node.tok = "while" /\ text = Asm!While(node, label_id)
      \/ node.tok = "if" /\ text = Asm!If(node, label_id)
      \/ text = Asm!Return(node) \/ text = Asm!In(node)
      \/ text = <<Asm!Emit(node.left), Asm!Ins("OUT")>>
      \/ text = Asm!Ramset(node) \/ text = << >>
  BY DEF Asm!KeywordText
<1> HIDE DEF text
<1>2. CASE node.tok = "while" /\ text = Asm!While(node, label_id)
  BY <1>2, WhileText DEF IsTextFor, Asm!Labelled, text
<1>3. CASE node.tok = "if" /\ text = Asm!If(node, label_id)
  BY <1>3, IfText DEF IsTextFor, Asm!Labelled, text
<1>4. ASSUME IsPlainText(text)
      PROVE  IsTextFor(node.tok, Asm!KeywordText(node))
  BY <1>4 DEF IsTextFor, text
<1> QED  BY <1>1, <1>2, <1>3, <1>4, PlainTexts, ShortTexts

(* What a node is replaced with, whatever the node is.                     *)
LEMMA NodeText ==
  ASSUME NEW v
  PROVE  IsTextFor(r_nodes[v].tok, Asm!Text(v))
<1> DEFINE node == r_nodes[v]
           text == Asm!Text(v)
<1>1. \/ text = Asm!Present(node.left, node.right) \/ text = Asm!Identifier(node)
      \/ text = <<Asm!Push(Value[node.tok])>> \/ text = Asm!Call(node)
      \/ text = Asm!OperatorText(node) \/ text = Asm!KeywordText(node)
      \/ text = << >>
  BY DEF Asm!Text
<1> HIDE DEF text, node
<1>2. ASSUME IsPlainText(text)
      PROVE  IsTextFor(node.tok, text)
  BY <1>2 DEF IsTextFor
<1>3. IsTextFor(node.tok, text)
  BY <1>1, <1>2, PlainTexts, ShortTexts, OperatorTextIsText, KeywordTextIsText
<1> QED  BY <1>3 DEF text, node
-----------------------------------------------------------------------------
(* Steps. *)

LEMMA HeadOfPending ==
  ASSUME NEW T, NEW p \in Seq(T), p # << >>
  PROVE  Head(p) \in T /\ Tail(p) \in Seq(T) /\ p = <<Head(p)>> \o Tail(p)
  OBVIOUS

LEMMA WiderSequence ==
  ASSUME NEW T, NEW U, NEW s \in Seq(T)
  PROVE  s \in Seq(T \cup U) /\ s \in Seq(U \cup T)
  OBVIOUS

(* The translator replaces what it comes to first.                         *)
HeadBecomes(text) ==
  /\ pending # << >> /\ ~Tagged(Head(pending)) /\ emitted # "all"
  /\ \/ IsPlainText(text) /\ label_id' = label_id
     \/ IsText(text, label_id) /\ label_id' = label_id + 1
  /\ pending' = text \o Tail(pending) /\ asm' = asm /\ emitted' = emitted

LEMMA TextReplacesHead ==
  ASSUME NEW text, LabelsInv, HeadBecomes(text)
  PROVE  LabelsInv'
<1> USE DEF HeadBecomes
<1> DEFINE n == label_id
           m == label_id'
<1>1. PICK T : asm \in Seq(T) /\ pending \in Seq(T)
  BY DEF LabelsInv
<1>2. IsText(text, n) /\ (m = n => Untagged(text)) /\ n \in Nat /\ m \in {n, n + 1}
  BY PlainIsText DEF LabelsInv, IsPlainText
<1>3. PICK U : text \in Seq(U)
  BY <1>2 DEF IsText, IsSequence
<1> DEFINE V == T \cup U
<1>4. asm \in Seq(V) /\ pending \in Seq(V) /\ text \in Seq(V)
  BY <1>1, <1>3, WiderSequence
<1>5. /\ Head(pending) \in V /\ Tail(pending) \in Seq(V)
      /\ pending = <<Head(pending)>> \o Tail(pending)
  BY <1>4, HeadOfPending
<1>6. Resolved(asm \o (<<Head(pending)>> \o Tail(pending)), 0 .. n - 1)
  BY <1>5 DEF LabelsInv, Output, Used
<1>7. Resolved(text, {n})
  BY <1>2 DEF IsText
<1> HIDE DEF n, m, V
<1>8. Resolved(asm \o (text \o Tail(pending)), 0 .. m - 1)
  BY <1>2, <1>4, <1>5, <1>6, <1>7, TextKeepsResolved
<1>9. (asm \o pending)' = asm \o (text \o Tail(pending))
  OBVIOUS
<1>10. Resolved(Output, Used)'
  BY <1>8, <1>9, ZenonT(40) DEF Output, Used, Resolved, m, IsPlace, Tagged
<1>11. asm' \in Seq(V) /\ pending' \in Seq(V)
  BY <1>4, <1>5
<1>12. label_id' \in Nat
  BY <1>2 DEF n, m
<1> QED  BY <1>10, <1>11, <1>12 DEF LabelsInv

LEMMA CallsAreUntagged ==
  ASSUME LabelsInv, pending # << >>, Asm!Calls(Head(pending))
  PROVE  ~Tagged(Head(pending))
<1>1. PICK T : asm \in Seq(T) /\ pending \in Seq(T)
  BY DEF LabelsInv
<1>2. Len(asm) + 1 \in 1..Len(Output) /\ Output[Len(asm) + 1] = Head(pending)
  BY <1>1 DEF Output
<1> QED  BY <1>2 DEF LabelsInv, Resolved

LEMMA LabelsInvUnchanged ==
  ASSUME LabelsInv, UNCHANGED <<asm, pending, label_id>>,
         emitted' = "all" => pending = << >>
  PROVE  LabelsInv'
  BY ZenonT(40) DEF LabelsInv, Resolved, Output, Used, Tagged, IsPlace, Asm!Calls, Asm!IsNumbered, Asm!NoLabel

LEMMA TranslatorKeepsLabels ==
  LabelsInv /\ Asm!Next => LabelsInv'
<1> SUFFICES ASSUME LabelsInv, Asm!Next
             PROVE  LabelsInv'
  OBVIOUS
<1>1. PICK T : asm \in Seq(T) /\ pending \in Seq(T)
  BY DEF LabelsInv
<1>2. CASE Asm!EmitProgram
  <2>1. IsPlainText(Asm!Prologue)
    BY PlainTexts
  <2>2. PICK U : Asm!Prologue \in Seq(U)
    BY <2>1 DEF IsPlainText, IsSequence
  <2>3. asm' = << >> /\ pending' = Asm!Prologue /\ label_id' = label_id /\ emitted' = "no"
    BY <1>2 DEF Asm!EmitProgram
  <2>4. Output' = Asm!Prologue
    BY <2>2, <2>3 DEF Output
  <2>5. Untagged(Asm!Prologue)
    BY <2>1 DEF IsPlainText
  <2>6. Resolved(Output, Used)'
    BY <2>4, <2>5 DEF Resolved, Untagged, IsPlace, Tagged
  <2> QED  BY <2>2, <2>3, <2>6 DEF LabelsInv
<1>3. CASE Asm!EmitNode
  <2> DEFINE v == Head(pending).node
  <2>1. /\ pending' = Asm!Text(v) \o Tail(pending) /\ asm' = asm /\ emitted' = emitted
        /\ label_id' = Asm!NextLabelId(r_nodes[v].tok)
        /\ pending # << >> /\ emitted # "all" /\ Asm!Calls(Head(pending))
    BY <1>3 DEF Asm!EmitNode, Asm!Translating, Asm!Calls
  <2>2. IsTextFor(r_nodes[v].tok, Asm!Text(v))
    BY NodeText
  <2> DEFINE text == Asm!Text(v)
  <2>3. \/ IsPlainText(text) /\ label_id' = label_id
        \/ IsText(text, label_id) /\ label_id' = label_id + 1
    BY <2>1, <2>2, PlainIsText DEF IsTextFor, Asm!NextLabelId
  <2>4. ~Tagged(Head(pending))
    BY <2>1, CallsAreUntagged
  <2>5. pending' = text \o Tail(pending)
    BY <2>1
  <2>6. HeadBecomes(text)
    BY <2>1, <2>3, <2>4, <2>5 DEF HeadBecomes
  <2> HIDE DEF text
  <2> QED  BY <2>6, TextReplacesHead
<1>4. CASE Asm!EmitArgument
  <2> DEFINE text == Asm!ArgumentText(Head(pending).node, Head(pending).n)
  <2>1. /\ pending' = text \o Tail(pending) /\ asm' = asm /\ emitted' = emitted
        /\ label_id' = label_id
        /\ pending # << >> /\ emitted # "all" /\ Asm!Calls(Head(pending))
    BY <1>4 DEF Asm!EmitArgument, Asm!Translating, Asm!Calls
  <2>2. IsPlainText(text)
    BY PlainTexts
  <2>3. ~Tagged(Head(pending))
    BY <2>1, CallsAreUntagged
  <2>4. HeadBecomes(text)
    BY <2>1, <2>2, <2>3 DEF HeadBecomes
  <2> HIDE DEF text
  <2> QED  BY <2>4, TextReplacesHead
<1>5. CASE Asm!WriteInstruction
  <2>1. /\ asm' = Append(asm, Head(pending)) /\ pending' = Tail(pending)
        /\ label_id' = label_id /\ emitted' = emitted /\ emitted # "all" /\ pending # << >>
    BY <1>5 DEF Asm!WriteInstruction, Asm!Translating
  <2>2. Output' = Output /\ asm' \in Seq(T) /\ pending' \in Seq(T)
    BY <1>1, <2>1 DEF Output
  <2>3. Resolved(Output, Used)'
    BY <2>1, <2>2 DEF LabelsInv, Used, Resolved, Tagged, IsPlace
  <2> QED  BY <2>1, <2>2, <2>3 DEF LabelsInv
<1>6. CASE Asm!AssertionFails
  <2>1. /\ asm' = asm /\ pending' = pending /\ label_id' = label_id /\ emitted' = "aborted"
    BY <1>6 DEF Asm!AssertionFails
  <2> QED  BY <2>1, LabelsInvUnchanged
<1>7. CASE Asm!Close
  <2>1. /\ asm' = asm /\ pending' = pending /\ label_id' = label_id /\ pending = << >>
    BY <1>7 DEF Asm!Close
  <2> QED  BY <2>1, LabelsInvUnchanged
<1> QED  BY <1>2, <1>3, <1>4, <1>5, <1>6, <1>7 DEF Asm!Next

-----------------------------------------------------------------------------
(* The compiler. *)

LEMMA LabelsInvInductive ==
  LabelsInv /\ [CompilerNext]_compilerVars => LabelsInv'
<1> SUFFICES ASSUME LabelsInv, [CompilerNext]_compilerVars
             PROVE  LabelsInv'
  OBVIOUS
<1>1. CASE UNCHANGED translatorVars
  <2>1. UNCHANGED <<asm, pending, label_id>> /\ emitted' = emitted
    BY <1>1 DEF translatorVars
  <2>2. emitted = "all" => pending = << >>
    BY DEF LabelsInv
  <2> QED  BY <2>1, <2>2, LabelsInvUnchanged
<1>2. CASE Translate
  BY <1>2, TranslatorKeepsLabels DEF Translate
<1> QED  BY <1>1, <1>2 DEF CompilerNext, FrontEnd, WriteWhole, ReadBack, Start, Execute,
            compilerVars

LEMMA ResolvedOutput ==
  LabelsInv => LabelsResolve
<1> DEFINE places == {i \in 1..Len(asm) : asm[i].op = "label" /\ Asm!IsNumbered(asm[i].label)}
<1>1. ASSUME LabelsInv, emitted = "all"
      PROVE  /\ \A i, j \in places : asm[i].label = asm[j].label => i = j
             /\ \A i \in 1..Len(asm) : Asm!IsNumbered(asm[i].label) =>
                   \E j \in places : asm[j].label = asm[i].label
  <2>1. Resolved(asm, Used)
    <3>1. Output = asm
      BY <1>1 DEF LabelsInv, Output
    <3> QED  BY <1>1, <3>1 DEF LabelsInv
  <2>2. \A i, j \in places : asm[i].label = asm[j].label => i = j
    BY <2>1 DEF Resolved, IsPlace, Tagged
  <2>3. ASSUME NEW i \in 1..Len(asm), Asm!IsNumbered(asm[i].label)
        PROVE  \E j \in places : asm[j].label = asm[i].label
    BY <2>1, <2>3 DEF Resolved, IsPlace, Tagged
  <2> QED  BY <2>2, <2>3
<1> QED  BY <1>1 DEF LabelsResolve, Asm!LabelsResolve

(* Whatever the text, the tree read from its file, and the value of the     *)
(* literals: in code that is written to its end no two places have a label *)
(* in common, and every label that a jump names has its place.             *)
THEOREM CompilerLabelsResolve == CompilerSpec => []LabelsResolve
<1>1. CompilerInit => LabelsInv
  <2> SUFFICES ASSUME CompilerInit
               PROVE  LabelsInv
    OBVIOUS
  <2>1. asm = << >> /\ pending = << >> /\ label_id = 0 /\ emitted = "no"
    BY DEF CompilerInit, Asm!Init
  <2>2. Output = << >> /\ asm \in Seq({}) /\ pending \in Seq({})
    BY <2>1 DEF Output
  <2>3. Resolved(Output, Used)
    BY <2>2 DEF Resolved
  <2> QED  BY <2>1, <2>2, <2>3 DEF LabelsInv
<1>2. LabelsInv /\ [CompilerNext]_compilerVars => LabelsInv'
  BY LabelsInvInductive
<1>3. LabelsInv => LabelsResolve
  BY ResolvedOutput
<1> QED  BY <1>1, <1>2, <1>3, PTL DEF CompilerSpec
=============================================================================
