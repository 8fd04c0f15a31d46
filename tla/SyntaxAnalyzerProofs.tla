------------------------ MODULE SyntaxAnalyzerProofs ------------------------
(***************************************************************************)
(* For every set of texts: the variables of the syntax analyzer keep their *)
(* types.  The invariant that shows it says in which order the functions   *)
(* call one another, and there is one lemma for each function.             *)
(***************************************************************************)
EXTENDS SyntaxAnalyzer, FiniteSetTheorems, WellFoundedInduction,
        SequenceTheorems, TLAPS

-----------------------------------------------------------------------------
(* Lemmas about the symbol table.                                          *)

(* A non-empty set of naturals has a least element, and the library's Min  *)
(* is that element.  The strict subset order of the intervals 0..x stands  *)
(* for < on the naturals x.                                                *)
LEMMA MinProperties ==
    ASSUME NEW S \in SUBSET Nat, S # {}
    PROVE  /\ Min(S) \in S
           /\ \A y \in S : Min(S) <= y
<1>. DEFINE Intervals == {0 .. x : x \in S}
<1>1. /\ Intervals \subseteq FiniteSubsetsOf(Nat)
      /\ Intervals # {}
  <2>1. \A x \in S : 0 .. x \in SUBSET Nat /\ IsFiniteSet(0 .. x)
    BY FS_Interval
  <2>. QED
    BY <2>1 DEF FiniteSubsetsOf
<1>. HIDE DEF Intervals
<1>2. PICK b \in Intervals : \A c \in Intervals : <<c, b>> \notin StrictSubsetOrdering(Nat)
  BY <1>1, FS_StrictSubsetOrderingWellFounded, WFMin
<1>3. PICK x \in S : b = 0 .. x
  BY DEF Intervals
<1>4. ASSUME NEW y \in S, y < x PROVE FALSE
  <2>1. 0 .. y \in Intervals
    BY DEF Intervals
  <2>2. /\ 0 .. y \in SUBSET Nat /\ 0 .. x \in SUBSET Nat
        /\ 0 .. y \subseteq 0 .. x
        /\ x \in 0 .. x /\ x \notin 0 .. y
    BY <1>4
  <2>3. <<0 .. y, 0 .. x>> \in StrictSubsetOrdering(Nat)
    BY <2>2, Zenon DEF StrictSubsetOrdering
  <2>. QED
    BY <1>2, <1>3, <2>1, <2>3
<1>5. \A y \in S : x =< y
  BY <1>4
<1>. QED
  BY <1>5 DEF Min

(* Induction over 1..n, with a set in the place of a predicate.            *)
LEMMA UpInduction ==
  ASSUME NEW n \in Nat, NEW G, \A w \in 1..n : 1 .. w-1 \subseteq G => w \in G
  PROVE  1..n \subseteq G
<1> SUFFICES ASSUME NEW x \in 1..n, x \notin G PROVE FALSE
  OBVIOUS
<1> DEFINE S == {y \in 1..n : y \notin G}
<1>1. S \in SUBSET Nat /\ S # {}
  OBVIOUS
<1>2. Min(S) \in S /\ \A y \in S : Min(S) <= y
  BY <1>1, MinProperties
<1>3. PICK m \in S : \A y \in S : m <= y
  BY <1>2
<1>4. 1 .. m-1 \subseteq G
  BY <1>3
<1> QED  BY <1>3, <1>4

LEMMA DownInduction ==
  ASSUME NEW n \in Nat, NEW G, \A w \in 1..n : w+1 .. n \subseteq G => w \in G
  PROVE  1..n \subseteq G
<1> DEFINE H == {k \in 1..n : n + 1 - k \in G}
<1>1. ASSUME NEW k \in 1..n, 1 .. k-1 \subseteq H PROVE k \in H
  <2>1. ASSUME NEW u \in (n + 1 - k)+1 .. n PROVE u \in G
    <3>1. n + 1 - u \in 1 .. k-1 /\ n + 1 - (n + 1 - u) = u
      OBVIOUS
    <3> QED  BY <1>1, <3>1
  <2>2. n + 1 - k \in 1..n
    OBVIOUS
  <2> QED  BY <2>1, <2>2
<1>2. 1..n \subseteq H
  <2> HIDE DEF H
  <2> QED  BY <1>1, UpInduction
<1>3. ASSUME NEW x \in 1..n PROVE x \in G
  <2>1. n + 1 - x \in 1..n /\ n + 1 - (n + 1 - x) = x
    OBVIOUS
  <2> QED  BY <1>2, <2>1
<1> QED  BY <1>3

(* Induction over a rank. *)
LEMMA RankInduction ==
  ASSUME NEW D, NEW R \in Nat, NEW rank \in [D -> 0..R], NEW G,
         \A w \in D : (\A u \in D : rank[u] < rank[w] => u \in G) => w \in G
  PROVE  \A w \in D : w \in G
<1> DEFINE H == {k \in 1 .. R+1 : \A w \in D : rank[w] = k - 1 => w \in G}
<1>1. ASSUME NEW k \in 1 .. R+1, 1 .. k-1 \subseteq H, NEW w \in D, rank[w] = k - 1
      PROVE  w \in G
  <2>1. ASSUME NEW u \in D, rank[u] < rank[w] PROVE u \in G
    <3>1. rank[u] + 1 \in 1 .. k-1 /\ (rank[u] + 1) - 1 = rank[u]
      BY <1>1, <2>1
    <3>2. rank[u] + 1 \in H
      BY <1>1, <3>1
    <3> QED  BY <3>1, <3>2
  <2> QED  BY <2>1
<1>2. 1 .. R+1 \subseteq H
  <2>1. \A k \in 1 .. R+1 : 1 .. k-1 \subseteq H => k \in H
    BY <1>1
  <2> HIDE DEF H
  <2> QED  BY <2>1, UpInduction
<1>3. ASSUME NEW w \in D PROVE w \in G
  <2>1. rank[w] + 1 \in 1 .. R+1 /\ (rank[w] + 1) - 1 = rank[w]
    OBVIOUS
  <2>2. rank[w] + 1 \in H
    BY <1>2, <2>1
  <2> QED  BY <2>1, <2>2
<1> QED  BY <1>3

(* A recursive function exists: step gives the value at w from a function  *)
(* that is right at what has a lower rank.                                 *)
RecursionOver(D, S, n, rank, step) ==
  /\ n \in Nat /\ rank \in [D -> 0..n] /\ step \in [D \X [D -> S] -> S] /\ S # {}
  /\ \A w \in D : \A f, g \in [D -> S] :
        (\A u \in D : rank[u] < rank[w] => f[u] = g[u]) => step[<<w, f>>] = step[<<w, g>>]

LEMMA Recursion ==
  ASSUME NEW D, NEW S, NEW n, NEW rank, NEW step, RecursionOver(D, S, n, rank, step)
  PROVE  \E f \in [D -> S] : \A w \in D : f[w] = step[<<w, f>>]
<1> USE DEF RecursionOver
<1>0. PICK s0 : s0 \in S
  OBVIOUS
<1> DEFINE Right(k) == \E f \in [D -> S] : \A w \in D : rank[w] < k => f[w] = step[<<w, f>>]
           G == {k \in 1 .. n+1 : Right(k)}
<1>1. ASSUME NEW k \in 0 .. n, Right(k) PROVE Right(k + 1)
  <2>1. PICK f \in [D -> S] : \A w \in D : rank[w] < k => f[w] = step[<<w, f>>]
    BY <1>1
  <2> DEFINE g == [w \in D |-> step[<<w, f>>]]
  <2>2. g \in [D -> S]
    OBVIOUS
  <2>3. ASSUME NEW w \in D, rank[w] < k + 1 PROVE g[w] = step[<<w, g>>]
    <3>1. \A u \in D : rank[u] < rank[w] => f[u] = g[u]
      <4>1. \A u \in D : rank[u] < rank[w] => rank[u] < k
        BY <2>3
      <4> QED  BY <2>1, <4>1
    <3>2. step[<<w, f>>] = step[<<w, g>>]
      BY <2>2, <3>1
    <3> QED  BY <3>2
  <2> QED  BY <2>2, <2>3
<1>2. Right(0)
  <2> DEFINE f == [w \in D |-> s0]
  <2>1. f \in [D -> S]
    BY <1>0
  <2>2. \A w \in D : ~(rank[w] < 0)
    OBVIOUS
  <2> QED  BY <2>1, <2>2
<1> HIDE DEF Right
<1>3. \A k \in 1 .. n+1 : 1 .. k-1 \subseteq G => k \in G
  <2> SUFFICES ASSUME NEW k \in 1 .. n+1, 1 .. k-1 \subseteq G PROVE Right(k)
    OBVIOUS
  <2>1. CASE k = 1
    <3>1. Right(0 + 1)
      BY <1>1, <1>2
    <3>2. 0 + 1 = 1
      OBVIOUS
    <3> QED  BY <2>1, <3>1, <3>2
  <2>2. CASE k # 1
    <3>1. k - 1 \in G /\ k - 1 \in 0..n /\ (k - 1) + 1 = k
      BY <2>2
    <3>2. Right((k - 1) + 1)
      BY <1>1, <3>1
    <3> QED  BY <3>1, <3>2
  <2> QED  BY <2>1, <2>2
<1>4. Right(n + 1)
  <2>1. 1 .. n+1 \subseteq G
    <3> HIDE DEF G
    <3> QED  BY <1>3, UpInduction
  <2> QED  BY <2>1
<1> QED
  <2>1. \A w \in D : rank[w] < n + 1
    OBVIOUS
  <2> QED  BY <1>4, <2>1 DEF Right

(* find_symbol answers -1 exactly when the symbol is not in the table, and *)
(* an id that holds the symbol otherwise (symbol.cpp:42-54).               *)
LEMMA FindSymbolProperties ==
    ASSUME NEW T, NEW env \in Seq(T), NEW sym
    PROVE  /\ FindSymbol(env, sym) \in -1 .. Len(env) - 1
           /\ FindSymbol(env, sym) >= 0 => SymbolAt(env, FindSymbol(env, sym)) = sym
           /\ FindSymbol(env, sym) < 0 => \A i \in 1..Len(env) : env[i] # sym
<1>. DEFINE I == {i \in 1..Len(env) : env[i] = sym}
<1>1. FindSymbol(env, sym) = (IF I # {} THEN Min(I) ELSE 0) - 1
  BY DEF FindSymbol, SelectInSeq
<1>. HIDE DEF I
<1>2. CASE I = {}
  BY <1>1, <1>2 DEF I
<1>3. CASE I # {}
  <2>1. Min(I) \in I
    <3>. I \in SUBSET Nat
      BY DEF I
    <3>. QED
      BY <1>3, MinProperties
  <2>. QED
    BY <1>1, <1>3, <2>1 DEF SymbolAt, I
<1>. QED
  BY <1>2, <1>3

(* add_symbol_to_env appends at most one symbol, leaves every id it handed *)
(* out before valid, returns an id of the symbol, and never enters a       *)
(* symbol twice (symbol.cpp:56-72).                                        *)
LEMMA AddSymbolProperties ==
    ASSUME NEW T, NEW env \in Seq(T), NEW sym \in T
    PROVE  /\ AddSymbol(env, sym) \in Seq(T)
           /\ Extends(env, AddSymbol(env, sym))
           /\ AddedId(env, sym) \in 0 .. Len(AddSymbol(env, sym)) - 1
           /\ SymbolAt(AddSymbol(env, sym), AddedId(env, sym)) = sym
           /\ Unique(env) => Unique(AddSymbol(env, sym))
<1>1. CASE FindSymbol(env, sym) >= 0
  BY <1>1, FindSymbolProperties DEF AddSymbol, AddedId, Extends
<1>2. CASE ~(FindSymbol(env, sym) >= 0)
  <2>1. \A i \in 1..Len(env) : env[i] # sym
    BY <1>2, FindSymbolProperties
  <2>2. /\ AddSymbol(env, sym) = Append(env, sym)
        /\ AddedId(env, sym) = Len(Append(env, sym)) - 1
    BY <1>2 DEF AddSymbol, AddedId
  <2>3. /\ Append(env, sym) \in Seq(T)
        /\ Len(Append(env, sym)) = Len(env) + 1
        /\ \A i \in 1..Len(env) : Append(env, sym)[i] = env[i]
        /\ Append(env, sym)[Len(env) + 1] = sym
    OBVIOUS
  <2>. QED
    BY <2>1, <2>2, <2>3 DEF Extends, SymbolAt, Unique
<1>. QED
  BY <1>1, <1>2

-----------------------------------------------------------------------------
(* The invariant.  Three facts about the order of the calls are part of it. *)

(* Before the first function has a name there is no environment to read,   *)
(* and only these activations exist.  An identifier is then the name.      *)
EarlyLabels == {"general", "general_end", "program", "program_first",
                "func_decl", "func_decl_name", "identifier"}

Early ==
    envs = << >> =>
        /\ \A i \in 1..Len(stack) : stack[i].at \in EarlyLabels
        /\ \A i \in 1 .. Len(stack) - 1 :
              stack[i + 1].at = "identifier" => stack[i].at = "func_decl_name"
        /\ stack # << >> /\ Top.at \in {"program_first", "general_end"} => ret = NULL

(* get_func_call_ and get_identifier_ are not left and gone on with, and    *)
(* get_func_call_ waits for get_identifier_ to begin with.                 *)
Nested ==
    \A i \in 1 .. Len(stack) - 1 :
        /\ stack[i].at \notin {"func_call", "identifier"}
        /\ stack[i].at = "func_call_name" => stack[i + 1].at = "identifier"

(* get_primary_ takes a "(" itself, so that get_func_call_, which asks for  *)
(* an identifier and then for "(", has one when it finds "(".              *)
NoCallYet ==
    stack # << >> /\ pos < Len(tokens) /\ Cur = "(" =>
        /\ Top.at # "func_call"
        /\ Top.at = "func_call_name" => ret # NULL
        /\ Top.at = "identifier" /\ Len(stack) > 1
              => stack[Len(stack) - 1].at # "func_call_name"

IInv == TypeOK /\ Early /\ Nested /\ NoCallYet

-----------------------------------------------------------------------------
(* Sequences and frames. *)

Popped(s) == SubSeq(s, 1, Len(s) - 1)
Replaced(s, f, c) == Popped(s) \o <<f, c>>

(* A stack without its last frame. *)
LEMMA PopProperties ==
    ASSUME NEW T, NEW s \in Seq(T), s # << >>
    PROVE  /\ Popped(s) \in Seq(T)
           /\ Len(Popped(s)) = Len(s) - 1
           /\ \A i \in 1 .. Len(s) - 1 : Popped(s)[i] = s[i]
<1>1. Len(s) \in Nat \ {0} /\ \A i \in 1..Len(s) : s[i] \in T
  BY EmptySeq, ElementOfSeq
<1>. DEFINE n == Len(s) - 1
<1>3. n \in Nat /\ \A i \in 1..n : s[i] \in T
  BY <1>1
<1>. HIDE DEF n
<1>4. /\ SubSeq(s, 1, n) \in Seq(T)
      /\ Len(SubSeq(s, 1, n)) = n
      /\ \A i \in 1..n : SubSeq(s, 1, n)[i] = s[i]
  BY <1>3, SubSeqProperties
<1>. QED
  BY <1>4 DEF n, Popped

(* A stack whose last frame is replaced by two. *)
LEMMA GotoProperties ==
    ASSUME NEW T, NEW s \in Seq(T), s # << >>, NEW f \in T, NEW c \in T
    PROVE  /\ Replaced(s, f, c) \in Seq(T)
           /\ Len(Replaced(s, f, c)) = Len(s) + 1
           /\ \A i \in 1 .. Len(s) - 1 : Replaced(s, f, c)[i] = s[i]
           /\ Replaced(s, f, c)[Len(s)] = f
           /\ Replaced(s, f, c)[Len(s) + 1] = c
<1>. DEFINE h == Popped(s)
            q == <<f, c>>
            t == h \o q
            n == Len(s)
<1>1. n \in Nat \ {0}
  BY EmptySeq
<1>2. h \in Seq(T) /\ Len(h) = n - 1 /\ \A i \in 1 .. n - 1 : h[i] = s[i]
  BY PopProperties
<1>3. q \in Seq(T) /\ Len(q) = 2 /\ q[1] = f /\ q[2] = c
  OBVIOUS
<1>. HIDE DEF h, q, n
<1>4. /\ t \in Seq(T)
      /\ Len(t) = Len(h) + Len(q)
      /\ \A i \in 1 .. Len(h) + Len(q) : t[i] = IF i <= Len(h) THEN h[i] ELSE q[i - Len(h)]
  BY <1>2, <1>3, ConcatProperties
<1>. HIDE DEF t
<1>5. /\ t \in Seq(T)
      /\ Len(t) = n + 1
      /\ \A i \in 1 .. n + 1 : t[i] = IF i <= n - 1 THEN h[i] ELSE q[i - (n - 1)]
  BY <1>1, <1>2, <1>3, <1>4
<1>6. \A i \in 1 .. n - 1 : t[i] = s[i]
  BY <1>1, <1>2, <1>5
<1>7. t[n] = f
  BY <1>1, <1>3, <1>5
<1>8. t[n + 1] = c
  BY <1>1, <1>3, <1>5
<1>. QED
  BY <1>5, <1>6, <1>7, <1>8 DEF Replaced, t, h, q, n

(* A frame stays one while nodes are allocated. *)
LEMMA FramesGrow ==
    ASSUME NEW n \in Nat, NEW m \in Nat, n <= m
    PROVE  Frames(n) \subseteq Frames(m)
BY DEF Frames

(* The running activation is a frame. *)
LEMMA TopProperties ==
    ASSUME TypeOK, stack # << >>
    PROVE  /\ Top \in Frames(Len(nodes))
           /\ Len(stack) \in Nat \ {0}
           /\ Len(nodes) \in Nat
<1>1. stack \in Seq(Frames(Len(nodes))) /\ Len(nodes) \in Nat
  BY DEF TypeOK, StackOK, HeapOK
<1>2. Len(stack) \in Nat \ {0}
  BY <1>1, EmptySeq
<1>. QED
  BY <1>1, <1>2, ElementOfSeq DEF Top

(* The labels about which FrameOK says something. *)
SpecialLabels == {"operator", "operator_first", "operator_next", "statement_next",
                  "func_decl_params", "func_decl_body", "func_call_args",
                  "assignment_right"}

(* The terminator is a token, and tokens may be in nodes. *)
LEMMA SomeTokens == Terminator \in Tokens /\ Tokens \subseteq NodeTokens
<1>1. Terminator \in Tokens
  BY DEF Tokens
<1>2. Tokens \subseteq NodeTokens
  BY DEF NodeTokens
<1>. QED
  BY <1>1, <1>2

(* A function without conditions on its locals may be entered. *)
LEMMA EntryFrame ==
    ASSUME NEW at \in Labels, at \notin SpecialLabels, NEW n \in Nat
    PROVE  Frame(at) \in Frames(n) /\ Frame(at).at = at
<1>1. Frame(at) \in [at : Labels, l : 0..n, r : 0..n, tok : Tokens, n : Nat]
  BY SomeTokens DEF Frame, NULL
<1>2. Frame(at).at = at
  BY DEF Frame
<1>3. FrameOK(Frame(at))
  BY <1>2 DEF FrameOK, SpecialLabels
<1>. QED
  BY <1>1, <1>2, <1>3 DEF Frames

(* An operator function may be entered at every level. *)
LEMMA OperatorFrame ==
    ASSUME NEW k \in 0..7, NEW n \in Nat
    PROVE  Operator(k) \in Frames(n) /\ Operator(k).at = "operator"
<1>1. Operator(k) = [at |-> "operator", l |-> NULL, r |-> NULL, tok |-> Terminator, n |-> k]
  BY DEF Operator, Frame
<1>2. Operator(k) \in [at : Labels, l : 0..n, r : 0..n, tok : Tokens, n : Nat]
  <2>1. k \in Nat /\ 0 \in 0..n /\ "operator" \in Labels
    BY DEF Labels
  <2>. QED
    BY <1>1, <2>1, SomeTokens DEF NULL
<1>3. FrameOK(Operator(k))
  BY <1>1 DEF FrameOK
<1>. QED
  BY <1>1, <1>2, <1>3 DEF Frames

(* The operand of an operator may be entered. *)
LEMMA OperandFrame ==
    ASSUME NEW k \in 0..7, NEW n \in Nat
    PROVE  Operand(k) \in Frames(n) /\ Operand(k).at \in {"sqrt", "operator"}
<1>1. CASE k = 7
  <2>1. Operand(k) = Frame("sqrt")
    BY <1>1 DEF Operand
  <2>. QED
    BY <2>1, EntryFrame DEF SpecialLabels, Labels
<1>2. CASE k # 7
  <2>1. k + 1 \in 0..7 /\ Operand(k) = Operator(k + 1)
    BY <1>2 DEF Operand
  <2>. QED
    BY <2>1, OperatorFrame
<1>. QED
  BY <1>1, <1>2

(* f goes on at another place, with other nodes. *)
Changed(f, g, at, l, r) ==
    g \in {[f EXCEPT !.at = at], [f EXCEPT !.at = at, !.l = l],
          [f EXCEPT !.at = at, !.r = r], [f EXCEPT !.at = at, !.l = l, !.r = r]}

(* A frame may go on at an unconditional label with other nodes. *)
LEMMA ChangedFrame ==
    ASSUME NEW n \in Nat, NEW m \in Nat, n <= m, NEW f \in Frames(n),
           NEW at \in Labels, at \notin SpecialLabels, NEW l \in 0..m, NEW r \in 0..m,
           NEW g, Changed(f, g, at, l, r)
    PROVE  g \in Frames(m) /\ g.at = at
<1>. DEFINE R == [at : Labels, l : 0..m, r : 0..m, tok : Tokens, n : Nat]
<1>1. \A h \in R : h.at = at => h \in Frames(m)
  BY DEF Frames, FrameOK, SpecialLabels
<1>2. f \in R
  BY DEF Frames
<1>. HIDE DEF R
<1>3. g \in R /\ g.at = at
  BY <1>2 DEF R, Changed
<1>. QED
  BY <1>1, <1>3

-----------------------------------------------------------------------------
(* What a step does to the heap and the tables: no node and no environment *)
(* is lost.                                                                *)
Grows ==
    /\ HeapOK' /\ TablesOK'
    /\ logged' \in BOOLEAN
    /\ Len(nodes) <= Len(nodes') /\ Len(nodes) \in Nat /\ Len(nodes') \in Nat
    /\ envs # << >> => envs' # << >>

(* Outside the first functions there is an environment. *)
LEMMA Late ==
    ASSUME IInv, NEW label, At(label), label \notin EarlyLabels
    PROVE  envs # << >>
<1>1. stack # << >> /\ Top.at = label
  BY DEF At, Running
<1>2. Len(stack) \in 1..Len(stack)
  BY <1>1, TopProperties DEF IInv
<1>. QED
  BY <1>1, <1>2 DEF IInv, Early, Top

(* A function calls another.  f is the caller's frame afterwards.          *)
LEMMA GotoStack ==
    ASSUME TypeOK, NEW label, At(label), Grows, NEW p \in Nat,
           NEW f \in Frames(Len(nodes')), NEW callee \in Frames(Len(nodes')),
           Goto(f, callee, p)
    PROVE  /\ stack' \in Seq(Frames(Len(nodes')))
           /\ Len(stack') = Len(stack) + 1
           /\ \A i \in 1 .. Len(stack) - 1 : stack'[i] = stack[i]
           /\ stack'[Len(stack)] = f
           /\ stack'[Len(stack) + 1] = callee
<1>1. stack \in Seq(Frames(Len(nodes'))) /\ stack # << >>
  BY FramesGrow, SeqMonotonic DEF TypeOK, StackOK, Grows, At, Running
<1>2. stack' = Replaced(stack, f, callee)
  BY DEF Goto, Callers, Replaced, Popped
<1>. DEFINE F == Frames(Len(nodes'))
<1>3. stack \in Seq(F) /\ stack # << >> /\ f \in F /\ callee \in F
  BY <1>1
<1>. HIDE DEF F
<1>4. /\ Replaced(stack, f, callee) \in Seq(F)
      /\ Len(Replaced(stack, f, callee)) = Len(stack) + 1
      /\ \A i \in 1 .. Len(stack) - 1 : Replaced(stack, f, callee)[i] = stack[i]
      /\ Replaced(stack, f, callee)[Len(stack)] = f
      /\ Replaced(stack, f, callee)[Len(stack) + 1] = callee
  BY <1>3, GotoProperties
<1>. QED
  BY <1>2, <1>4 DEF F

(* A call keeps the types. *)
LEMMA GotoType ==
    ASSUME TypeOK, NEW label, At(label), Grows, NEW p \in Nat,
           NEW f \in Frames(Len(nodes')), NEW callee \in Frames(Len(nodes')),
           Goto(f, callee, p)
    PROVE  TypeOK'
<1>1. stack' \in Seq(Frames(Len(nodes')))
  BY GotoStack
<1>2. ret' \in 0 .. Len(nodes')
  BY DEF Goto, NULL, Grows
<1>. QED
  BY <1>1, <1>2 DEF TypeOK, StackOK, InputOK, Goto, Grows, Refs

(* A call that obeys the order of the calls keeps it. *)
LEMMA GotoLinks ==
    ASSUME IInv, NEW label, At(label), label # "identifier", Grows, NEW p \in Nat,
           NEW f \in Frames(Len(nodes')), NEW callee \in Frames(Len(nodes')),
           Goto(f, callee, p),
           f.at \notin {"func_call", "identifier"}, callee.at # "func_call_name",
           f.at = "func_call_name" => callee.at = "identifier",
           callee.at = "func_call" \/ f.at = "func_call_name"
              => (p < Len(tokens) => tokens[p + 1] # "(")
    PROVE  Nested' /\ NoCallYet'
<1>. DEFINE n == Len(stack)
<1>0. stack # << >> /\ n \in Nat \ {0} /\ stack[n].at = label
  BY TopProperties DEF IInv, At, Running, Top
<1>1. /\ Len(stack') = n + 1
      /\ \A i \in 1 .. n - 1 : stack'[i] = stack[i]
      /\ stack'[n] = f /\ stack'[n + 1] = callee
  BY GotoStack DEF IInv
<1>. HIDE DEF n
<1>2. \A i \in 1 .. n - 1 :
        /\ stack[i].at \notin {"func_call", "identifier"}
        /\ stack[i].at = "func_call_name" => stack[i + 1].at = "identifier"
  BY DEF IInv, Nested, n
<1>3. \A i \in 1 .. n :
        /\ stack'[i].at \notin {"func_call", "identifier"}
        /\ stack'[i].at = "func_call_name" => stack'[i + 1].at = "identifier"
  <2>. TAKE i \in 1 .. n
  <2>1. CASE i = n
    BY <1>1, <2>1
  <2>2. CASE i = n - 1 /\ i # n
    <3>1. stack[i].at # "func_call_name"
      BY <1>0, <1>2, <2>2
    <3>. QED
      BY <1>0, <1>1, <1>2, <2>2, <3>1
  <2>3. CASE i \in 1 .. n - 2
    BY <1>0, <1>1, <1>2, <2>3
  <2>. QED
    BY <1>0, <2>1, <2>2, <2>3
<1>4. Nested'
  <2>1. Len(stack') - 1 = n
    BY <1>0, <1>1
  <2>. QED
    BY <1>3, <2>1 DEF Nested
<1>5. NoCallYet'
  BY <1>0, <1>1 DEF NoCallYet, Top, Cur, Goto
<1>. QED
  BY <1>4, <1>5

(* A function returns, the last one perhaps with the verdict. *)
Pops(v, p) ==
    /\ stack' = Callers /\ pos' = p /\ ret' = v
    /\ UNCHANGED tokens
    /\ status' \in {"running", "accepted", "rejected", "aborted"}

(* Return is such a step: it leaves the root and the running status alone. *)
LEMMA ReturnPops ==
    ASSUME TypeOK, NEW v, NEW p, Return(v, p)
    PROVE  Pops(v, p)
BY DEF TypeOK, Return, Pops

(* A return keeps the types. *)
LEMMA ReturnType ==
    ASSUME TypeOK, NEW label, At(label), Grows, NEW p \in Nat,
           NEW v \in 0 .. Len(nodes'), Pops(v, p)
    PROVE  TypeOK'
<1>1. stack \in Seq(Frames(Len(nodes'))) /\ stack # << >>
  BY FramesGrow, SeqMonotonic DEF TypeOK, StackOK, Grows, At, Running
<1>2. stack' \in Seq(Frames(Len(nodes')))
  BY <1>1, PopProperties DEF Pops, Callers, Popped
<1>. QED
  BY <1>2 DEF TypeOK, StackOK, InputOK, Pops, Grows, Refs

(* Dropping the running activation leaves the others as they were. *)
LEMMA PoppedStack ==
    ASSUME IInv, stack # << >>, stack' = Callers
    PROVE  /\ Len(stack') = Len(stack) - 1 /\ Len(stack) \in Nat \ {0}
           /\ \A i \in 1 .. Len(stack) - 1 : stack'[i] = stack[i]
           /\ Nested'
<1>1. /\ Len(stack') = Len(stack) - 1 /\ Len(stack) \in Nat \ {0}
      /\ \A i \in 1 .. Len(stack) - 1 : stack'[i] = stack[i]
  BY TopProperties, PopProperties DEF IInv, TypeOK, StackOK, Callers, Popped
<1>. QED
  BY <1>1 DEF IInv, Nested

(* A return keeps the order of the calls. *)
LEMMA ReturnLinks ==
    ASSUME IInv, NEW label, At(label), NEW p, NEW v, Pops(v, p),
           \/ label # "identifier"
           \/ v # NULL
           \/ p = pos
    PROVE  Nested' /\ NoCallYet'
<1>. DEFINE n == Len(stack)
<1>0. stack # << >> /\ stack' = Callers /\ stack[n].at = label
  BY DEF At, Running, Top, Pops
<1>1. /\ Len(stack') = n - 1 /\ n \in Nat \ {0}
      /\ \A i \in 1 .. n - 1 : stack'[i] = stack[i]
      /\ Nested'
  BY <1>0, PoppedStack
<1>. HIDE DEF n
<1>2. ASSUME stack' # << >>, pos' < Len(tokens'), Cur' = "("
      PROVE  /\ Top'.at # "func_call"
             /\ Top'.at = "func_call_name" => ret' # NULL
             /\ Top'.at = "identifier" /\ Len(stack') > 1
                   => stack'[Len(stack') - 1].at # "func_call_name"
  <2>1. n - 1 \in 1 .. n - 1 /\ Top' = stack[n - 1]
    BY <1>1, <1>2, EmptySeq DEF Top
  <2>2. /\ stack[n - 1].at \notin {"func_call", "identifier"}
        /\ stack[n - 1].at = "func_call_name" => label = "identifier"
    BY <1>0, <1>1, <2>1 DEF IInv, Nested, n
  <2>3. ASSUME stack[n - 1].at = "func_call_name", v = NULL PROVE FALSE
    <3>1. p = pos /\ pos < Len(tokens) /\ Cur = "("
      BY <1>2, <2>2, <2>3 DEF Pops, Cur
    <3>2. stack[n].at = "identifier" /\ n > 1
      BY <1>0, <1>1, <2>1, <2>2, <2>3
    <3>. QED
      BY <1>0, <2>3, <3>1, <3>2 DEF IInv, NoCallYet, Top, n
  <2>. QED
    BY <2>1, <2>2, <2>3 DEF Pops
<1>. QED
  BY <1>1, <1>2 DEF NoCallYet

(* The process ends, or nothing happens. *)
LEMMA Still ==
    ASSUME IInv, UNCHANGED <<tokens, pos, stack, ret, heap, tables, logged, root>>,
           status' \in {"running", "accepted", "rejected", "aborted"}
    PROVE  IInv'
<1>0. UNCHANGED <<tokens, pos, stack, ret, nodes, to_delete, freed, envs,
                  current_env_id, logged, root>>
  BY DEF heap, tables
<1>1. TypeOK'
  BY <1>0 DEF IInv, TypeOK, InputOK, StackOK, HeapOK, TablesOK, Refs
<1>2. Early'
  BY <1>0 DEF IInv, Early, Top
<1>3. Nested' /\ NoCallYet'
  BY <1>0 DEF IInv, Nested, NoCallYet, Top, Cur
<1>. QED
  BY <1>1, <1>2, <1>3 DEF IInv

(* Ending the process keeps the invariant. *)
LEMMA Aborts == ASSUME IInv, Abort PROVE IInv'
BY Still DEF Abort

(* The steps of the functions that run when there is an environment.       *)
LEMMA LateGoto ==
    ASSUME IInv, NEW label, At(label), label \notin EarlyLabels, Grows, NEW p \in Nat,
           NEW f \in Frames(Len(nodes')), NEW callee \in Frames(Len(nodes')),
           Goto(f, callee, p),
           f.at \notin {"func_call", "identifier"}, callee.at # "func_call_name",
           f.at = "func_call_name" => callee.at = "identifier",
           callee.at = "func_call" \/ f.at = "func_call_name"
              => (p < Len(tokens) => tokens[p + 1] # "(")
    PROVE  IInv'
<1>1. envs' # << >>
  BY Late DEF Grows
<1>2. label # "identifier"
  BY DEF EarlyLabels
<1>3. TypeOK' /\ Nested' /\ NoCallYet'
  BY <1>2, GotoType, GotoLinks DEF IInv
<1>. QED
  BY <1>1, <1>3 DEF IInv, Early

(* A return outside the first functions keeps the invariant. *)
LEMMA LateReturn ==
    ASSUME IInv, NEW label, At(label), label \notin EarlyLabels, Grows, NEW p \in Nat,
           NEW v \in 0 .. Len(nodes'), Return(v, p)
    PROVE  IInv'
<1>1. envs' # << >>
  BY Late DEF Grows
<1>2. label # "identifier"
  BY DEF EarlyLabels
<1>3. TypeOK' /\ Nested' /\ NoCallYet'
  BY <1>2, ReturnPops, ReturnType, ReturnLinks DEF IInv
<1>. QED
  BY <1>1, <1>3 DEF IInv, Early

-----------------------------------------------------------------------------
(* What the steps do to the nodes and the tables. *)

(* Only get_general_ sets the root. *)
LEMMA RootKept ==
    ASSUME NEW f, NEW callee, NEW v, NEW p, Goto(f, callee, p) \/ Return(v, p)
    PROVE  UNCHANGED root
BY DEF Goto, Return

(* A step that touches neither heap nor tables grows trivially. *)
LEMMA QuietGrows ==
    ASSUME TypeOK, UNCHANGED <<heap, tables, root>>, logged' \in BOOLEAN
    PROVE  Grows /\ Len(nodes') = Len(nodes)
<1>0. UNCHANGED <<nodes, to_delete, freed, envs, current_env_id, root>>
  BY DEF heap, tables
<1>. QED
  BY <1>0 DEF TypeOK, HeapOK, TablesOK, Grows, Refs

(* A node stays one while others are allocated. *)
LEMMA NodesGrow ==
    ASSUME NEW n \in Nat, NEW m \in Nat, n <= m
    PROVE  Nodes(n) \subseteq Nodes(m)
BY DEF Nodes

(* new_node; ns are the other nodes, some of them changed. *)
LEMMA AppendGrows ==
    ASSUME TypeOK, NEW ns \in Seq(Nodes(Len(nodes))), Len(ns) = Len(nodes),
           NEW node \in Nodes(Len(nodes)), nodes' = Append(ns, node),
           \/ UNCHANGED to_delete
           \/ to_delete' = Append(to_delete, Len(nodes) + 1),
           UNCHANGED freed, root' \in 0 .. Len(nodes) + 1,
           TablesOK', Len(envs) <= Len(envs'), logged' \in BOOLEAN
    PROVE  Grows /\ Len(nodes') = Len(nodes) + 1
<1>. DEFINE n == Len(nodes)
<1>0. n \in Nat /\ 1..n \subseteq 1 .. n + 1 /\ 0..n \subseteq 0 .. n + 1
  BY DEF TypeOK, HeapOK
<1>1. /\ nodes' \in Seq(Nodes(n)) /\ Len(nodes') = n + 1
  BY AppendProperties
<1>2. nodes' \in Seq(Nodes(n + 1))
  BY <1>0, <1>1, NodesGrow, SeqMonotonic
<1>3. to_delete \in Seq(1 .. n + 1) /\ n + 1 \in 1 .. n + 1
  BY <1>0, SeqMonotonic DEF TypeOK, HeapOK
<1>4. to_delete' \in Seq(1 .. n + 1)
  <2>1. Append(to_delete, n + 1) \in Seq(1 .. n + 1)
    BY <1>3, AppendProperties
  <2>. QED
    BY <1>3, <2>1
<1>5. freed' \subseteq 1 .. n + 1 /\ root' \in 0 .. n + 1
  BY <1>0 DEF TypeOK, HeapOK, Refs
<1>6. envs # << >> => envs' # << >>
  BY EmptySeq DEF TypeOK, TablesOK
<1>. QED
  BY <1>0, <1>1, <1>2, <1>4, <1>5, <1>6 DEF Grows, HeapOK, Refs

(* A node over existing children is well formed. *)
LEMMA NodeProperties ==
    ASSUME NEW n \in Nat, NEW tok \in NodeTokens, NEW l \in 0..n, NEW r \in 0..n
    PROVE  Node(tok, l, r) \in Nodes(n)
BY DEF Node, Nodes

(* new_node appends a node and lists it. *)
LEMMA NewNodeGrows ==
    ASSUME TypeOK, NEW ns \in Seq(Nodes(Len(nodes))), Len(ns) = Len(nodes),
           NEW tok \in NodeTokens, NEW l \in Refs, NEW r \in Refs,
           NewNode(ns, tok, l, r), UNCHANGED root
    PROVE  Grows /\ Len(nodes') = Len(nodes) + 1
<1>1. Len(nodes) \in Nat
  BY DEF TypeOK, HeapOK
<1>2. Node(tok, l, r) \in Nodes(Len(nodes))
  BY <1>1, NodeProperties DEF Refs
<1>3. /\ nodes' = Append(ns, Node(tok, l, r))
      /\ to_delete' = Append(to_delete, Len(nodes) + 1)
      /\ UNCHANGED <<freed, envs, current_env_id, logged>>
  BY DEF NewNode, tables
<1>4. TablesOK' /\ Len(envs) <= Len(envs') /\ logged' \in BOOLEAN
  BY <1>3 DEF TypeOK, TablesOK
<1>5. root' \in 0 .. Len(nodes) + 1
  BY <1>1 DEF TypeOK, HeapOK, Refs
<1>. QED
  BY <1>2, <1>3, <1>4, <1>5, AppendGrows

(* Nodes and tables change, but no node is made.                           *)
LEMMA ChangeGrows ==
    ASSUME TypeOK, nodes' \in Seq(Nodes(Len(nodes))), Len(nodes') = Len(nodes),
           UNCHANGED <<to_delete, root>>, freed' \subseteq 1 .. Len(nodes),
           TablesOK', Len(envs) <= Len(envs'), logged' \in BOOLEAN
    PROVE  Grows
<1>1. envs # << >> => envs' # << >>
  BY EmptySeq DEF TypeOK, TablesOK
<1>. QED
  BY <1>1 DEF TypeOK, HeapOK, Grows, Refs

(* Once there is an environment, the current one is a table. *)
LEMMA EnvProperties ==
    ASSUME TypeOK, envs # << >>
    PROVE  /\ current_env_id + 1 \in 1..Len(envs) /\ current_env_id \in Nat
           /\ Env \in Seq(Symbols)
<1>1. current_env_id + 1 \in 1..Len(envs) /\ current_env_id \in Nat
  BY EmptySeq DEF TypeOK, TablesOK
<1>. QED
  BY <1>1, ElementOfSeq DEF TypeOK, TablesOK, Env

(* A token's variable and its function are symbols. *)
LEMMA SymbolOf ==
    ASSUME NEW tok \in NodeTokens
    PROVE  Variable(tok) \in Symbols /\ Function(tok) \in Symbols
BY DEF Variable, Function, Symbols, SymbolTypes

(* A pointer that is not NULL points to a node. *)
LEMMA NodeAt ==
    ASSUME TypeOK, NEW v \in Refs, v # NULL
    PROVE  v \in 1..Len(nodes) /\ nodes[v] \in Nodes(Len(nodes))
           /\ nodes[v].tok \in NodeTokens
<1>1. v \in 1..Len(nodes)
  BY DEF TypeOK, HeapOK, Refs, NULL
<1>2. nodes[v] \in Nodes(Len(nodes))
  BY <1>1, ElementOfSeq DEF TypeOK, HeapOK
<1>. QED
  BY <1>1, <1>2 DEF Nodes

(* add_symbol_to_env on the current environment.                           *)
LEMMA AddToEnvProperties ==
    ASSUME TypeOK, envs # << >>, NEW sym \in Symbols, AddToEnv(sym),
           UNCHANGED current_env_id
    PROVE  /\ TablesOK' /\ Len(envs') = Len(envs)
           /\ AddedId(Env, sym) \in Nat
<1>. DEFINE e == current_env_id + 1
<1>1. /\ e \in 1..Len(envs) /\ envs[e] = Env
      /\ AddSymbol(Env, sym) \in Seq(Symbols)
      /\ AddedId(Env, sym) \in Nat
  <2>1. Env \in Seq(Symbols) /\ e \in 1..Len(envs) /\ envs[e] = Env
    BY EnvProperties DEF Env
  <2>2. /\ AddSymbol(Env, sym) \in Seq(Symbols)
        /\ AddedId(Env, sym) \in 0 .. Len(AddSymbol(Env, sym)) - 1
    BY <2>1, AddSymbolProperties
  <2>. QED
    BY <2>1, <2>2
<1>2. envs' = [envs EXCEPT ![e] = AddSymbol(Env, sym)]
  BY <1>1 DEF AddToEnv
<1>3. envs' \in Seq(Seq(Symbols)) /\ Len(envs') = Len(envs)
  BY <1>1, <1>2, ExceptSeq DEF TypeOK, TablesOK
<1>. QED
  BY <1>1, <1>3 DEF TypeOK, TablesOK

(* Binding a node keeps the heap well formed. *)
LEMMA BindProperties ==
    ASSUME TypeOK, NEW v \in 1..Len(nodes), NEW e \in Int, NEW id \in Int
    PROVE  /\ Bind(v, e, id) \in Seq(Nodes(Len(nodes)))
           /\ Len(Bind(v, e, id)) = Len(nodes)
<1>. DEFINE node == [nodes[v] EXCEPT !.scope = e, !.inner = id]
<1>1. nodes \in Seq(Nodes(Len(nodes))) /\ nodes[v] \in Nodes(Len(nodes))
  BY ElementOfSeq DEF TypeOK, HeapOK
<1>2. node \in Nodes(Len(nodes))
  BY <1>1 DEF Nodes
<1>3. Bind(v, e, id) = [nodes EXCEPT ![v] = node]
  BY <1>1 DEF Bind, Nodes
<1>. HIDE DEF node
<1>. QED
  BY <1>1, <1>2, <1>3, ExceptSeq

-----------------------------------------------------------------------------
(* The shapes that several functions share. *)

Callee(c) ==
    /\ \A n \in Nat : c \in Frames(n)
    /\ c.at \notin {"func_call", "func_call_name"}

CallerLabels ==
    Labels \ (SpecialLabels \cup {"func_call", "identifier", "func_call_name"})

(* The functions called by name may be called. *)
LEMMA Callees ==
    /\ Callee(Expr) /\ Callee(ArgumentList) /\ Callee(Identifier)
    /\ Callee(Block) /\ Callee(Sentence)
<1>1. ASSUME NEW k \in 0..7 PROVE Callee(Operator(k))
  BY OperatorFrame DEF Callee
<1>2. ASSUME NEW at \in Labels \ SpecialLabels, at \notin {"func_call", "func_call_name"}
      PROVE  Callee(Frame(at))
  BY <1>2, EntryFrame DEF Callee
<1>3. {"identifier", "block", "statement"} \subseteq Labels \ SpecialLabels
  BY DEF Labels, SpecialLabels
<1>. QED
  BY <1>1, <1>2, <1>3 DEF Expr, ArgumentList, Identifier, Block, Sentence

(* What holds wherever a function is running. *)
LEMMA AtFacts ==
    ASSUME TypeOK, NEW label, At(label)
    PROVE  /\ stack # << >> /\ Top.at = label /\ Top \in Frames(Len(nodes))
           /\ Len(nodes) \in Nat /\ pos \in Nat /\ ret \in Refs
           /\ pos < Len(tokens) /\ Cur \in Tokens /\ status = "running"
<1>1. pos + 1 \in 1..Len(tokens)
  BY DEF At, TypeOK, InputOK
<1>2. Cur \in Tokens
  BY <1>1, ElementOfSeq DEF TypeOK, InputOK, Cur
<1>. QED
  BY <1>2, TopProperties DEF At, Running, TypeOK, InputOK, StackOK

(* A call that changes nothing else; f is the caller's frame. *)
LEMMA QuietGoto ==
    ASSUME IInv, NEW label, At(label), label \notin EarlyLabels,
           NEW callee, Callee(callee), NEW p \in Nat, NEW f \in Frames(Len(nodes)),
           f.at \notin {"func_call", "identifier", "func_call_name"},
           Goto(f, callee, p), UNCHANGED <<heap, tables>>, logged' \in BOOLEAN
    PROVE  IInv'
<1>1. Grows /\ Len(nodes') = Len(nodes)
  BY RootKept, QuietGrows DEF IInv
<1>2. callee \in Frames(Len(nodes')) /\ callee.at \notin {"func_call", "func_call_name"}
  BY <1>1 DEF Callee, Grows
<1>. QED
  BY <1>1, <1>2, LateGoto

(* The same; the caller may have noted the nodes l and r. *)
LEMMA QuietCall ==
    ASSUME IInv, NEW label, At(label), label \notin EarlyLabels,
           NEW next \in CallerLabels, NEW callee, Callee(callee), NEW p \in Nat,
           NEW l \in Refs, NEW r \in Refs, NEW f, Changed(Top, f, next, l, r),
           Goto(f, callee, p), UNCHANGED <<heap, tables>>, logged' \in BOOLEAN
    PROVE  IInv'
<1>1. Top \in Frames(Len(nodes)) /\ Len(nodes) \in Nat
  BY AtFacts DEF IInv
<1>2. next \in Labels /\ next \notin SpecialLabels
      /\ next \notin {"func_call", "identifier", "func_call_name"}
  BY DEF CallerLabels
<1>3. f \in Frames(Len(nodes)) /\ f.at = next
  BY <1>1, <1>2, ChangedFrame DEF Refs
<1>. QED
  BY <1>2, <1>3, QuietGoto

(* A return that changes nothing else keeps the invariant. *)
LEMMA QuietReturn ==
    ASSUME IInv, NEW label, At(label), label \notin EarlyLabels, NEW p \in Nat,
           NEW v \in Refs, Return(v, p), UNCHANGED <<heap, tables>>, logged' \in BOOLEAN
    PROVE  IInv'
<1>1. Grows /\ Len(nodes') = Len(nodes)
  BY RootKept, QuietGrows DEF IInv
<1>. QED
  BY <1>1, LateReturn DEF Refs

(* LOG_SYNTAX_ERR_ and return NULL keep the invariant. *)
LEMMA Fails ==
    ASSUME IInv, NEW label, At(label), label \notin EarlyLabels, NEW p \in Nat, FailAt(p)
    PROVE  IInv'
<1>1. NULL \in Refs
  BY AtFacts DEF IInv, Refs, NULL
<1>. QED
  BY <1>1, QuietReturn DEF FailAt

(* Returning a new node keeps the invariant. *)
LEMMA NodeReturned ==
    ASSUME IInv, NEW label, At(label), label \notin EarlyLabels, NEW p \in Nat,
           NEW tok \in NodeTokens, NEW l \in Refs, NEW r \in Refs,
           ReturnNode(tok, l, r, p)
    PROVE  IInv'
<1>1. nodes \in Seq(Nodes(Len(nodes))) /\ Len(nodes) \in Nat
  BY DEF IInv, TypeOK, HeapOK
<1>2. Grows /\ Len(nodes') = Len(nodes) + 1
  BY <1>1, RootKept, NewNodeGrows DEF IInv, ReturnNode
<1>3. Len(nodes) + 1 \in 0 .. Len(nodes')
  BY <1>1, <1>2
<1>. QED
  BY <1>2, <1>3, LateReturn DEF ReturnNode

(* A function that begins with a keyword keeps the invariant. *)
LEMMA LeadsStep ==
    ASSUME IInv, NEW label, label \notin EarlyLabels, NEW token,
           NEW next \in CallerLabels, NEW callee, Callee(callee),
           Leads(label, token, next, callee)
    PROVE  IInv'
<1>1. At(label) /\ UNCHANGED <<heap, tables, logged>>
  BY DEF Leads, Quiet
<1>2. /\ pos \in Nat /\ pos + 1 \in Nat /\ NULL \in Refs
      /\ logged' \in BOOLEAN /\ UNCHANGED <<heap, tables>>
  BY <1>1, AtFacts DEF IInv, TypeOK, Refs, NULL
<1>3. CASE Call(next, callee, pos + 1)
  BY <1>1, <1>2, <1>3, QuietCall DEF Call, Changed
<1>4. CASE Return(NULL, pos)
  BY <1>1, <1>2, <1>4, QuietReturn
<1>. QED
  BY <1>3, <1>4 DEF Leads

(* Going on after a successful call keeps the invariant. *)
LEMMA ThenStep ==
    ASSUME IInv, NEW label, label \notin EarlyLabels,
           NEW next \in CallerLabels, NEW callee, Callee(callee),
           Then(label, next, callee)
    PROVE  IInv'
<1>1. At(label)
  BY DEF Then
<1>2. pos \in Nat /\ NULL \in Refs /\ ret \in Refs
  BY <1>1, AtFacts DEF IInv, Refs, NULL
<1>3. CASE Fail
  BY <1>1, <1>2, <1>3, Fails DEF Fail
<1>4. CASE Goto([Top EXCEPT !.at = next, !.l = ret], callee, pos) /\ Quiet
  <2>1. logged' \in BOOLEAN /\ UNCHANGED <<heap, tables>>
    BY <1>4 DEF Quiet, IInv, TypeOK
  <2>. QED
    BY <1>1, <1>2, <1>4, <2>1, QuietCall DEF Changed
<1>. QED
  BY <1>3, <1>4 DEF Then

(* Answering a node over the callee's keeps the invariant. *)
LEMMA YieldsStep ==
    ASSUME IInv, NEW label, label \notin EarlyLabels, NEW tok \in NodeTokens,
           Yields(label, tok)
    PROVE  IInv'
<1>1. At(label)
  BY DEF Yields
<1>2. pos \in Nat /\ NULL \in Refs /\ ret \in Refs
  BY <1>1, AtFacts DEF IInv, Refs, NULL
<1>3. CASE Fail
  BY <1>1, <1>2, <1>3, Fails DEF Fail
<1>4. CASE ReturnNode(tok, ret, NULL, pos)
  BY <1>1, <1>2, <1>4, NodeReturned
<1>. QED
  BY <1>3, <1>4 DEF Yields

(* An answer is returned, or the next attempt is made. *)
LEMMA PrimaryTryStep ==
    ASSUME IInv, NEW label, label \notin EarlyLabels,
           NEW next \in CallerLabels, NEW at, Callee(Frame(at)),
           PrimaryTry(label, next, at)
    PROVE  IInv'
<1>1. At(label) /\ UNCHANGED <<heap, tables, logged>>
  BY DEF PrimaryTry, Quiet
<1>2. /\ pos \in Nat /\ NULL \in Refs /\ ret \in Refs
      /\ logged' \in BOOLEAN /\ UNCHANGED <<heap, tables>>
  BY <1>1, AtFacts DEF IInv, TypeOK, Refs, NULL
<1>3. CASE Return(ret, pos)
  BY <1>1, <1>2, <1>3, QuietReturn
<1>4. CASE Call(next, Frame(at), pos)
  BY <1>1, <1>2, <1>4, QuietCall DEF Call, Changed
<1>. QED
  BY <1>3, <1>4 DEF PrimaryTry

-----------------------------------------------------------------------------
(* The statements. *)

(* The keywords and separators are tokens. *)
LEMMA TokenNames ==
    /\ Keywords \cup Separators \cup {"=", "@", "call"} \subseteq NodeTokens
    /\ Tokens \subseteq NodeTokens
BY DEF NodeTokens, Tokens

(* The functions that begin with a keyword. *)
LEMMA LeadingSteps ==
    ASSUME IInv, GetWhile \/ GetIf \/ GetReturn \/ GetElse \/ GetBlock
                   \/ GetIn \/ GetOut \/ GetRamset
    PROVE  IInv'
<1>1. {"while_condition", "if_condition", "return_expr", "else_body", "block_first",
       "in_name", "out_expr", "ramset_addr"} \subseteq CallerLabels
  BY DEF CallerLabels, Labels, SpecialLabels
<1>2. {"while", "if", "return", "else", "block", "in", "out", "ramset"}
         \cap EarlyLabels = {}
  BY DEF EarlyLabels
<1>. QED
  BY <1>1, <1>2, Callees, LeadsStep
     DEF GetWhile, GetIf, GetReturn, GetElse, GetBlock, GetIn, GetOut, GetRamset

(* The conditions of while and if. *)
LEMMA ConditionSteps ==
    ASSUME IInv, WhileCondition \/ IfCondition
    PROVE  IInv'
<1>1. {"while_body", "if_body"} \subseteq CallerLabels
  BY DEF CallerLabels, Labels, SpecialLabels
<1>2. {"while_condition", "if_condition"} \cap EarlyLabels = {}
  BY DEF EarlyLabels
<1>. QED
  BY <1>1, <1>2, Callees, ThenStep DEF WhileCondition, IfCondition

(* The ends of return and out. *)
LEMMA YieldingSteps ==
    ASSUME IInv, ReturnExpr \/ OutExpr
    PROVE  IInv'
<1>1. {"return", "out"} \subseteq NodeTokens
  BY TokenNames DEF Keywords
<1>2. {"return_expr", "out_expr"} \cap EarlyLabels = {}
  BY DEF EarlyLabels
<1>. QED
  BY <1>1, <1>2, YieldsStep DEF ReturnExpr, OutExpr

(* The three that fail or make a node of l and the answer. *)
LEMMA BodySteps ==
    ASSUME IInv, WhileBody \/ ElseBody \/ RamsetValue
    PROVE  IInv'
<1>1. PICK label \in {"while_body", "else_body", "ramset_value"},
           tok \in {"while", "else", "ramset"}, l \in {Top.l, NULL} :
         At(label) /\ (Fail \/ ReturnNode(tok, l, ret, pos))
  BY DEF WhileBody, ElseBody, RamsetValue
<1>2. label \notin EarlyLabels
  BY DEF EarlyLabels
<1>3. pos \in Nat /\ ret \in Refs /\ l \in Refs
  BY <1>1, AtFacts DEF IInv, Refs, NULL, Frames
<1>4. tok \in NodeTokens
  BY TokenNames DEF Keywords
<1>5. CASE Fail
  BY <1>1, <1>2, <1>3, <1>5, Fails DEF Fail
<1>6. CASE ReturnNode(tok, l, ret, pos)
  BY <1>1, <1>2, <1>3, <1>4, <1>6, NodeReturned
<1>. QED
  BY <1>1, <1>5, <1>6

(* A pointer in one node is set.  NULL stands for no node, which is none.  *)
LEMMA PointerSet ==
    ASSUME TypeOK, NEW v \in Refs, NEW x \in Refs, NEW ns,
           \/ ns = [nodes EXCEPT ![v].left = x]
           \/ ns = [nodes EXCEPT ![v].right = x]
    PROVE  ns \in Seq(Nodes(Len(nodes))) /\ Len(ns) = Len(nodes)
<1>1. nodes \in Seq(Nodes(Len(nodes))) /\ Len(nodes) \in Nat
  BY DEF TypeOK, HeapOK
<1>2. CASE v = NULL
  <2>1. v \notin 1..Len(nodes)
    BY <1>1, <1>2 DEF NULL
  <2>2. ns = nodes
    BY <1>1, <2>1
  <2>. QED
    BY <1>1, <2>2
<1>3. CASE v # NULL
  <2>1. v \in 1..Len(nodes) /\ nodes[v] \in Nodes(Len(nodes))
    BY <1>3, NodeAt
  <2>2. PICK node \in Nodes(Len(nodes)) : ns = [nodes EXCEPT ![v] = node]
    <3>1. [nodes[v] EXCEPT !.left = x] \in Nodes(Len(nodes))
      BY <2>1 DEF Nodes, Refs
    <3>2. [nodes[v] EXCEPT !.right = x] \in Nodes(Len(nodes))
      BY <2>1 DEF Nodes, Refs
    <3>. QED
      BY <3>1, <3>2
  <2>. QED
    BY <1>1, <2>1, <2>2, ExceptSeq
<1>. QED
  BY <1>2, <1>3

(* get_if_ after its body and after its else-part. *)
LEMMA IfSteps ==
    ASSUME IInv, IfBody \/ IfElse
    PROVE  IInv'
<1>1. CASE IfBody
  <2>1. At("if_body") /\ "if_body" \notin EarlyLabels
    BY <1>1 DEF IfBody, EarlyLabels
  <2>2. pos \in Nat /\ ret \in Refs
    BY <2>1, AtFacts DEF IInv
  <2>3. Callee(Frame("else")) /\ "if_else" \in CallerLabels
    BY EntryFrame DEF Callee, Labels, SpecialLabels, CallerLabels
  <2>4. logged' \in BOOLEAN /\ UNCHANGED <<heap, tables>>
    BY <1>1 DEF IfBody, Quiet, IInv, TypeOK
  <2>. QED
    BY <1>1, <2>1, <2>2, <2>3, <2>4, QuietCall DEF IfBody, Changed
<1>2. CASE IfElse
  <2>1. At("if_else") /\ "if_else" \notin EarlyLabels
    BY <1>2 DEF IfElse, EarlyLabels
  <2>2. /\ pos \in Nat /\ ret \in Refs /\ Top.l \in Refs /\ Top.r \in Refs
        /\ Len(nodes) \in Nat
    BY <2>1, AtFacts DEF IInv, Refs, Frames
  <2>3. "if" \in NodeTokens
    BY TokenNames DEF Keywords
  <2>4. CASE ReturnNode("if", Top.l, Top.r, pos)
    BY <2>1, <2>2, <2>3, <2>4, NodeReturned
  <2>5. CASE /\ NewNode([nodes EXCEPT ![ret].left = Top.r], "if", Top.l, ret)
             /\ Return(Len(nodes) + 1, pos)
    <3>1. PICK ns : /\ ns = [nodes EXCEPT ![ret].left = Top.r]
                    /\ NewNode(ns, "if", Top.l, ret)
      BY <2>5
    <3>2. ns \in Seq(Nodes(Len(nodes))) /\ Len(ns) = Len(nodes)
      BY <2>2, <3>1, PointerSet DEF IInv
    <3>3. Grows /\ Len(nodes') = Len(nodes) + 1
      BY <2>2, <2>3, <2>5, <3>1, <3>2, RootKept, NewNodeGrows DEF IInv
    <3>4. Len(nodes) + 1 \in 0 .. Len(nodes')
      BY <2>2, <3>3
    <3>. QED
      BY <2>1, <2>2, <2>5, <3>3, <3>4, LateReturn
  <2>. QED
    BY <1>2, <2>4, <2>5 DEF IfElse
<1>. QED
  BY <1>1, <1>2

(* get_block_ goes on or is done. *)
BlockNode(first, last) == [Top EXCEPT !.at = "block_next", !.l = first, !.r = last]

(* get_block_ returns, or asks for another statement. *)
LEMMA BlockLoopCases ==
    ASSUME NEW first, NEW last, BlockLoop(first, last)
    PROVE  Return(first, pos + 1) \/ Goto(BlockNode(first, last), Sentence, pos)
BY Zenon DEF BlockLoop, BlockNode

(* get_block_ after a statement. *)
LEMMA BlockSteps ==
    ASSUME IInv, BlockFirst \/ BlockNext
    PROVE  IInv'
<1>. "block_next" \in CallerLabels /\ {"block_first", "block_next"} \cap EarlyLabels = {}
  BY DEF CallerLabels, Labels, SpecialLabels, EarlyLabels
<1>1. CASE BlockFirst
  <2>1. At("block_first") /\ UNCHANGED <<heap, tables>> /\ logged' \in BOOLEAN
    BY <1>1 DEF BlockFirst, Quiet, IInv, TypeOK
  <2>2. pos \in Nat /\ pos + 1 \in Nat /\ ret \in Refs /\ NULL \in Refs
    BY <2>1, AtFacts DEF IInv, Refs, NULL
  <2>3. CASE \E v \in {NULL, ret}, p \in {pos, pos + 1} : Return(v, p)
    BY <2>1, <2>2, <2>3, QuietReturn
  <2>4. CASE Goto(BlockNode(ret, ret), Sentence, pos)
    <3>1. Changed(Top, BlockNode(ret, ret), "block_next", ret, ret)
      BY DEF Changed, BlockNode
    <3>. QED
      BY <2>1, <2>2, <2>4, <3>1, QuietCall, Callees
  <2>. QED
    BY <1>1, <2>3, <2>4, BlockLoopCases DEF BlockFirst
<1>2. CASE BlockNext
  <2>1. At("block_next")
    BY <1>2 DEF BlockNext
  <2>2. /\ pos \in Nat /\ pos + 1 \in Nat /\ ret \in Refs
        /\ Top \in Frames(Len(nodes)) /\ Len(nodes) \in Nat
    BY <2>1, AtFacts DEF IInv
  <2>3. Top.l \in Refs /\ Top.r \in Refs
    BY <2>2 DEF Frames, Refs
  <2>4. CASE Fail
    BY <2>1, <2>2, <2>4, Fails DEF Fail
  <2>5. CASE /\ nodes' = [nodes EXCEPT ![Top.r].right = ret]
             /\ BlockLoop(Top.l, ret)
             /\ UNCHANGED <<to_delete, freed, tables, logged>>
    <3>1. nodes' \in Seq(Nodes(Len(nodes))) /\ Len(nodes') = Len(nodes)
      BY <2>2, <2>3, <2>5, PointerSet DEF IInv
    <3>2. /\ UNCHANGED root /\ freed' \subseteq 1 .. Len(nodes)
          /\ TablesOK' /\ Len(envs) <= Len(envs') /\ logged' \in BOOLEAN
      <4>1. UNCHANGED <<freed, envs, current_env_id, logged, root>>
        BY <2>5, BlockLoopCases, RootKept DEF tables
      <4>. QED
        BY <4>1 DEF IInv, TypeOK, TablesOK, HeapOK
    <3>3. Grows
      BY <2>5, <3>1, <3>2, ChangeGrows DEF IInv
    <3>4. CASE Return(Top.l, pos + 1)
      BY <2>1, <2>2, <2>3, <3>1, <3>3, <3>4, LateReturn DEF Refs
    <3>5. CASE Goto(BlockNode(Top.l, ret), Sentence, pos)
      <4>. DEFINE g == BlockNode(Top.l, ret)
      <4>1. Changed(Top, g, "block_next", Top.l, ret)
        BY DEF Changed, BlockNode
      <4>. HIDE DEF g
      <4>2. g \in Frames(Len(nodes)) /\ g.at = "block_next"
        BY <2>2, <2>3, <4>1, ChangedFrame DEF Refs, CallerLabels
      <4>3. Sentence \in Frames(Len(nodes)) /\ Sentence.at \notin {"func_call", "func_call_name"}
        BY <2>2, Callees DEF Callee
      <4>. QED
        BY <2>1, <2>2, <3>1, <3>3, <3>5, <4>2, <4>3, LateGoto DEF g
    <3>. QED
      BY <2>5, <3>4, <3>5, BlockLoopCases
  <2>. QED
    BY <1>2, <2>4, <2>5 DEF BlockNext
<1>. QED
  BY <1>1, <1>2

(* What get_statement_ attempts. *)
LEMMA AlternativeCallees ==
    /\ Len(Alternatives) = 8
    /\ \A k \in 1..8 : Callee(Alternatives[k])
<1>. DEFINE As == {"while", "if", "return", "assignment", "in", "out", "ramset"}
<1>1. ASSUME NEW at \in As PROVE Callee(Frame(at))
  BY EntryFrame DEF Callee, Labels, SpecialLabels
<1>. QED
  BY <1>1, Callees DEF Alternatives

Attempt(k) == [Top EXCEPT !.at = "statement_next", !.n = k]

(* get_statement_ may stand at each of its attempts. *)
LEMMA AttemptFrame ==
    ASSUME NEW m \in Nat, Top \in Frames(m), NEW k \in 1..8
    PROVE  Attempt(k) \in Frames(m) /\ Attempt(k).at = "statement_next"
<1>. DEFINE R == [at : Labels, l : 0..m, r : 0..m, tok : Tokens, n : Nat]
<1>1. Top \in R /\ k \in Nat /\ "statement_next" \in Labels
  BY DEF Frames, Labels
<1>2. Attempt(k) \in R
  BY <1>1 DEF Attempt
<1>3. Attempt(k).at = "statement_next" /\ Attempt(k).n = k
  BY <1>1 DEF Attempt
<1>4. FrameOK(Attempt(k))
  BY <1>3 DEF FrameOK
<1>. QED
  BY <1>2, <1>3, <1>4 DEF Frames

(* The next attempt. *)
LEMMA AttemptStep ==
    ASSUME IInv, NEW label, At(label), label \notin EarlyLabels, NEW k \in 1..8,
           Goto(Attempt(k), Alternatives[k], pos), Quiet
    PROVE  IInv'
<1>1. Grows /\ Len(nodes') = Len(nodes)
  <2>1. UNCHANGED <<heap, tables>> /\ logged' \in BOOLEAN
    BY DEF Quiet, IInv, TypeOK
  <2>. QED
    BY <2>1, RootKept, QuietGrows DEF IInv
<1>2. Top \in Frames(Len(nodes)) /\ Len(nodes) \in Nat /\ pos \in Nat
  BY AtFacts DEF IInv
<1>3. Attempt(k) \in Frames(Len(nodes')) /\ Attempt(k).at = "statement_next"
  BY <1>1, <1>2, AttemptFrame
<1>4. /\ Alternatives[k] \in Frames(Len(nodes'))
      /\ Alternatives[k].at \notin {"func_call", "func_call_name"}
  BY <1>1, <1>2, AlternativeCallees DEF Callee
<1>. QED
  BY <1>1, <1>2, <1>3, <1>4, LateGoto

(* What becomes of an attempt: the next one, a SEMICOL node, or neither. *)
SemicolNode(p) == \E tok \in NodeTokens : ReturnNode(tok, ret, NULL, p)
NextAttempt ==
    /\ Top.n < Len(Alternatives)
    /\ Goto([Top EXCEPT !.n = @ + 1], Alternatives[Top.n + 1], pos)
    /\ Quiet

(* What get_statement_ does after an attempt. *)
LEMMA StatementCases ==
    ASSUME StatementNext
    PROVE  /\ At("statement_next")
           /\ NextAttempt \/ SemicolNode(pos) \/ SemicolNode(pos + 1) \/ Fail
<1>1. ";" \in NodeTokens
  BY TokenNames, Zenon DEF Separators
<1>. QED
  BY <1>1, Zenon DEF StatementNext, NextAttempt, SemicolNode

(* get_statement_. *)
LEMMA StatementSteps ==
    ASSUME IInv, GetStatement \/ StatementNext
    PROVE  IInv'
<1>. {"statement", "statement_next"} \cap EarlyLabels = {}
  BY DEF EarlyLabels
<1>1. CASE GetStatement
  <2>1. At("statement") /\ Goto(Attempt(1), Alternatives[1], pos) /\ Quiet
    BY <1>1 DEF GetStatement, Attempt
  <2>. QED
    BY <2>1, AttemptStep
<1>2. CASE StatementNext
  <2>1. At("statement_next")
    BY <1>2, StatementCases
  <2>2. /\ pos \in Nat /\ pos + 1 \in Nat /\ ret \in Refs /\ NULL \in Refs
        /\ Top.n \in 1..8 /\ Top.at = "statement_next"
    BY <2>1, AtFacts DEF IInv, Frames, FrameOK, Refs, NULL
  <2>3. CASE Fail
    BY <2>1, <2>2, <2>3, Fails DEF Fail
  <2>4. CASE SemicolNode(pos) \/ SemicolNode(pos + 1)
    BY <2>1, <2>2, <2>4, NodeReturned DEF SemicolNode
  <2>5. CASE NextAttempt
    <3>1. Attempt(Top.n + 1) = [Top EXCEPT !.n = @ + 1]
      BY <2>1, <2>2, AtFacts DEF IInv, Frames, Attempt
    <3>2. Top.n + 1 \in 1..8
      BY <2>2, <2>5, AlternativeCallees DEF NextAttempt
    <3>3. Goto(Attempt(Top.n + 1), Alternatives[Top.n + 1], pos) /\ Quiet
      BY <2>5, <3>1 DEF NextAttempt
    <3>. QED
      BY <2>1, <3>2, <3>3, AttemptStep
  <2>. QED
    BY <1>2, <2>3, <2>4, <2>5, StatementCases
<1>. QED
  BY <1>1, <1>2

-----------------------------------------------------------------------------
(* The names. *)

HoldingLabels == {"func_decl_params", "func_decl_body", "func_call_args", "assignment_right"}

(* f goes on at such a place, where it has node l. *)
Holding(f, g, at, l, r, k) ==
    \/ g = [f EXCEPT !.at = at, !.l = l]
    \/ g = [f EXCEPT !.at = at, !.l = l, !.n = k]
    \/ g = [f EXCEPT !.at = at, !.r = r] /\ f.l = l

(* A frame that must hold a node may do so. *)
LEMMA HoldingFrame ==
    ASSUME NEW m \in Nat, NEW f \in Frames(m), NEW at \in HoldingLabels,
           NEW l \in 0..m, l # NULL, NEW r \in 0..m, NEW k \in Nat, NEW g,
           Holding(f, g, at, l, r, k)
    PROVE  g \in Frames(m) /\ g.at = at
<1>. DEFINE R == [at : Labels, l : 0..m, r : 0..m, tok : Tokens, n : Nat]
<1>1. f \in R /\ at \in Labels
  BY DEF Frames, HoldingLabels, Labels
<1>2. g \in R /\ g.at = at /\ g.l = l
  BY <1>1 DEF Holding
<1>3. FrameOK(g)
  BY <1>2 DEF FrameOK, HoldingLabels
<1>. QED
  BY <1>2, <1>3 DEF Frames

(* The name of identifier v is entered in the current environment. *)
Entered(v, sym) ==
    /\ envs # << >> /\ v \in Refs /\ v # NULL /\ sym \in Symbols
    /\ AddToEnv(sym)
    /\ UNCHANGED <<freed, current_env_id, logged, root>>

(* Entering a symbol and binding the node keeps both well formed. *)
LEMMA EnteredProperties ==
    ASSUME TypeOK, NEW v, NEW sym, Entered(v, sym)
    PROVE  /\ TablesOK' /\ Len(envs) <= Len(envs') /\ logged' \in BOOLEAN
           /\ Bind(v, current_env_id, AddedId(Env, sym)) \in Seq(Nodes(Len(nodes)))
           /\ Len(Bind(v, current_env_id, AddedId(Env, sym))) = Len(nodes)
<1>1. /\ envs # << >> /\ v \in 1..Len(nodes) /\ sym \in Symbols /\ AddToEnv(sym)
      /\ UNCHANGED current_env_id
  BY NodeAt DEF Entered
<1>2. TablesOK' /\ Len(envs') = Len(envs) /\ AddedId(Env, sym) \in Nat
  BY <1>1, AddToEnvProperties
<1>3. current_env_id \in Int /\ AddedId(Env, sym) \in Int
  BY <1>2 DEF TypeOK, TablesOK
<1>4. logged' \in BOOLEAN /\ Len(envs) <= Len(envs')
  BY <1>2 DEF Entered, TypeOK, TablesOK
<1>. QED
  BY <1>1, <1>2, <1>3, <1>4, BindProperties

(* The same, when no node is made. *)
LEMMA EnterGrows ==
    ASSUME TypeOK, NEW v, NEW sym, Entered(v, sym),
           nodes' = Bind(v, current_env_id, AddedId(Env, sym)), UNCHANGED to_delete
    PROVE  Grows /\ Len(nodes') = Len(nodes)
<1>1. UNCHANGED root /\ freed' \subseteq 1..Len(nodes)
  BY DEF Entered, TypeOK, HeapOK
<1>. QED
  BY <1>1, EnteredProperties, ChangeGrows

(* The same, when a node is made over the bound one. *)
LEMMA EnterNodeGrows ==
    ASSUME TypeOK, NEW v, NEW sym, Entered(v, sym),
           NEW tok \in NodeTokens, NEW l \in Refs, NEW r \in Refs,
           nodes' = Append(Bind(v, current_env_id, AddedId(Env, sym)), Node(tok, l, r)),
           to_delete' = Append(to_delete, Len(nodes) + 1)
    PROVE  Grows /\ Len(nodes') = Len(nodes) + 1
<1>1. Node(tok, l, r) \in Nodes(Len(nodes))
  BY NodeProperties DEF Refs, TypeOK, HeapOK
<1>2. UNCHANGED freed /\ root' \in 0 .. Len(nodes) + 1
  BY DEF Entered, TypeOK, HeapOK, Refs
<1>. QED
  BY <1>1, <1>2, EnteredProperties, AppendGrows

(* get_assignment_. *)
LEMMA AssignmentSteps ==
    ASSUME IInv, GetAssignment \/ AssignmentLeft \/ AssignmentRight
    PROVE  IInv'
<1>. /\ "assignment_left" \in CallerLabels
     /\ {"assignment", "assignment_left", "assignment_right"} \cap EarlyLabels = {}
  BY DEF EarlyLabels, CallerLabels, Labels, SpecialLabels
<1>1. CASE GetAssignment
  <2>1. At("assignment") /\ UNCHANGED <<heap, tables>> /\ logged' \in BOOLEAN
    BY <1>1 DEF GetAssignment, Quiet, IInv, TypeOK
  <2>2. pos \in Nat /\ NULL \in Refs
    BY <2>1, AtFacts DEF IInv, Refs, NULL
  <2>. QED
    <3>1. Goto([Top EXCEPT !.at = "assignment_left"], Identifier, pos)
      BY <1>1 DEF GetAssignment, Call
    <3>. QED
      BY <2>1, <2>2, <3>1, QuietCall, Callees DEF Changed
<1>2. CASE AssignmentLeft
  <2>1. At("assignment_left") /\ UNCHANGED <<heap, tables>> /\ logged' \in BOOLEAN
    BY <1>2 DEF AssignmentLeft, Fail, FailAt, Quiet, IInv, TypeOK
  <2>2. /\ pos \in Nat /\ pos + 1 \in Nat /\ ret \in Refs /\ NULL \in Refs
        /\ Top \in Frames(Len(nodes)) /\ Len(nodes) \in Nat
    BY <2>1, AtFacts DEF IInv, Refs, NULL
  <2>3. CASE Return(NULL, pos)
    BY <2>1, <2>2, <2>3, QuietReturn
  <2>4. CASE ret # NULL /\ Goto([Top EXCEPT !.at = "assignment_right", !.l = ret], Expr, pos + 1)
    <3>. DEFINE g == [Top EXCEPT !.at = "assignment_right", !.l = ret]
    <3>1. Holding(Top, g, "assignment_right", ret, ret, 0) /\ Goto(g, Expr, pos + 1)
      BY <2>4 DEF Holding
    <3>. HIDE DEF g
    <3>2. g \in Frames(Len(nodes)) /\ g.at = "assignment_right"
      BY <2>2, <2>4, <3>1, HoldingFrame DEF HoldingLabels, Refs
    <3>. QED
      BY <2>1, <2>2, <3>1, <3>2, QuietGoto, Callees
  <2>. QED
    BY <1>2, <2>3, <2>4 DEF AssignmentLeft, Fail, FailAt
<1>3. CASE AssignmentRight
  <2>1. At("assignment_right")
    BY <1>3 DEF AssignmentRight
  <2>2. /\ pos \in Nat /\ ret \in Refs /\ Len(nodes) \in Nat
        /\ Top.l \in Refs /\ Top.l # NULL
    BY <2>1, AtFacts DEF IInv, Frames, FrameOK, Refs
  <2>3. CASE Fail
    BY <2>1, <2>2, <2>3, Fails DEF Fail
  <2>. DEFINE sym == Variable(nodes[Top.l].tok)
  <2>4. CASE /\ AddToEnv(sym)
             /\ nodes' = Append(Bind(Top.l, current_env_id, AddedId(Env, sym)),
                                Node("=", Top.l, ret))
             /\ to_delete' = Append(to_delete, Len(nodes) + 1)
             /\ UNCHANGED <<freed, current_env_id, logged>>
             /\ Return(Len(nodes) + 1, pos)
    <3>1. sym \in Symbols
      BY <2>2, NodeAt, SymbolOf DEF IInv
    <3>. HIDE DEF sym
    <3>2. Entered(Top.l, sym)
      BY <2>1, <2>2, <2>4, <3>1, Late, RootKept DEF Entered
    <3>3. "=" \in NodeTokens
      BY TokenNames
    <3>4. Grows /\ Len(nodes') = Len(nodes) + 1
      BY <2>2, <2>4, <3>2, <3>3, EnterNodeGrows DEF IInv
    <3>5. Len(nodes) + 1 \in 0 .. Len(nodes')
      BY <2>2, <3>4
    <3>. QED
      BY <2>1, <2>2, <2>4, <3>4, <3>5, LateReturn
  <2>. QED
    BY <1>3, <2>3, <2>4 DEF AssignmentRight
<1>. QED
  BY <1>1, <1>2, <1>3

(* get_in_ after the name. *)
LEMMA InNameStep == ASSUME IInv, InName PROVE IInv'
<1>1. At("in_name") /\ "in_name" \notin EarlyLabels
  BY DEF InName, EarlyLabels
<1>2. pos \in Nat /\ ret \in Refs /\ NULL \in Refs
  BY <1>1, AtFacts DEF IInv, Refs, NULL
<1>3. "in" \in NodeTokens
  BY TokenNames DEF Keywords
<1>4. CASE ReturnNode("in", ret, NULL, pos)
  BY <1>1, <1>2, <1>3, <1>4, NodeReturned
<1>. QED
  BY <1>4, Aborts DEF InName

(* get_ramset_ after the address. *)
LEMMA RamsetAddrStep == ASSUME IInv, RamsetAddr PROVE IInv'
<1>. DEFINE g == [Top EXCEPT !.at = "ramset_value", !.l = ret]
<1>0. "ramset_addr" \notin EarlyLabels /\ "ramset_value" \in CallerLabels
  BY DEF EarlyLabels, CallerLabels, Labels, SpecialLabels
<1>1. At("ramset_addr") /\ (Fail \/ (Goto(g, Expr, pos + 1) /\ Quiet))
  BY Zenon DEF RamsetAddr
<1>2. Changed(Top, g, "ramset_value", ret, ret)
  BY DEF Changed
<1>. HIDE DEF g
<1>3. pos \in Nat /\ pos + 1 \in Nat /\ ret \in Refs /\ NULL \in Refs
  BY <1>1, AtFacts DEF IInv, Refs, NULL
<1>4. CASE Fail
  BY <1>0, <1>1, <1>3, <1>4, Fails DEF Fail
<1>5. CASE Goto(g, Expr, pos + 1) /\ Quiet
  <2>1. UNCHANGED <<heap, tables>> /\ logged' \in BOOLEAN
    BY <1>5 DEF Quiet, IInv, TypeOK
  <2>. QED
    BY <1>0, <1>1, <1>2, <1>3, <1>5, <2>1, QuietCall, Callees
<1>. QED
  BY <1>1, <1>4, <1>5

-----------------------------------------------------------------------------
(* The operators. *)

OperatorLabels == {"operator_first", "operator_next"}

(* Where the operator just read is noted. *)
OperatorSeen(node) == [Top EXCEPT !.at = "operator_next", !.l = node, !.tok = Cur]

(* An operand may be called at every level. *)
LEMMA OperandCallee == \A k \in 0..7 : Callee(Operand(k))
BY OperandFrame DEF Callee

(* An operator function may wait for its first operand. *)
LEMMA OperatorFirstFrame ==
    ASSUME NEW m \in Nat, Top \in Frames(m), Top.n \in 0..7, NEW g,
           g = [Top EXCEPT !.at = "operator_first"]
    PROVE  g \in Frames(m) /\ g.at = "operator_first"
<1>. DEFINE R == [at : Labels, l : 0..m, r : 0..m, tok : Tokens, n : Nat]
<1>1. Top \in R /\ "operator_first" \in Labels
  BY DEF Frames, Labels
<1>2. g \in R /\ g.at = "operator_first" /\ g.n = Top.n
  BY <1>1
<1>3. FrameOK(g)
  BY <1>2 DEF FrameOK
<1>. QED
  BY <1>2, <1>3 DEF Frames

(* It may hold an operator of its level. *)
LEMMA OperatorSeenFrame ==
    ASSUME NEW m \in Nat, Top \in Frames(m), Top.n \in 0..7, NEW node \in 0..m,
           Cur \in Tokens, Cur \in Levels[Top.n]
    PROVE  OperatorSeen(node) \in Frames(m) /\ OperatorSeen(node).at = "operator_next"
<1>. DEFINE R == [at : Labels, l : 0..m, r : 0..m, tok : Tokens, n : Nat]
<1>1. Top \in R /\ "operator_next" \in Labels
  BY DEF Frames, Labels
<1>2. OperatorSeen(node) \in R
  BY <1>1 DEF OperatorSeen
<1>3. /\ OperatorSeen(node).at = "operator_next" /\ OperatorSeen(node).tok = Cur
      /\ OperatorSeen(node).n = Top.n
  BY <1>1 DEF OperatorSeen
<1>4. FrameOK(OperatorSeen(node))
  BY <1>3 DEF FrameOK
<1>. QED
  BY <1>2, <1>3, <1>4 DEF Frames

(* The loop of OPERATOR_ keeps the invariant. *)
LEMMA OperatorLoopStep ==
    ASSUME IInv, NEW label \in OperatorLabels, At(label), Grows,
           NEW node \in 0 .. Len(nodes'), OperatorLoop(node)
    PROVE  IInv'
<1>1. label \notin EarlyLabels
  BY DEF OperatorLabels, EarlyLabels
<1>2. /\ pos \in Nat /\ pos + 1 \in Nat /\ Cur \in Tokens
      /\ Top \in Frames(Len(nodes)) /\ Top.at \in OperatorLabels
  BY AtFacts DEF IInv
<1>3. Top.n \in 0..7
  BY <1>2 DEF Frames, FrameOK, OperatorLabels
<1>4. Top \in Frames(Len(nodes'))
  BY <1>2, FramesGrow DEF Grows
<1>5. CASE Return(node, pos)
  BY <1>1, <1>2, <1>5, LateReturn
<1>6. CASE Cur \in Levels[Top.n] /\ Goto(OperatorSeen(node), Operand(Top.n), pos + 1)
  <2>1. /\ OperatorSeen(node) \in Frames(Len(nodes'))
        /\ OperatorSeen(node).at = "operator_next"
    BY <1>2, <1>3, <1>4, <1>6, OperatorSeenFrame DEF Grows
  <2>2. /\ Operand(Top.n) \in Frames(Len(nodes'))
        /\ Operand(Top.n).at \notin {"func_call", "func_call_name"}
    BY <1>3, OperandCallee DEF Callee, Grows
  <2>. QED
    BY <1>1, <1>2, <1>6, <2>1, <2>2, LateGoto
<1>. QED
  BY <1>5, <1>6 DEF OperatorLoop, OperatorSeen

(* OPERATOR_. *)
LEMMA OperatorSteps ==
    ASSUME IInv, GetOperator \/ OperatorFirst \/ OperatorNext
    PROVE  IInv'
<1>1. CASE GetOperator
  <2>. DEFINE g == [Top EXCEPT !.at = "operator_first"]
  <2>1. At("operator") /\ Goto(g, Operand(Top.n), pos) /\ Quiet
    BY <1>1 DEF GetOperator
  <2>2. g = [Top EXCEPT !.at = "operator_first"]
    OBVIOUS
  <2>. HIDE DEF g
  <2>3. /\ "operator" \notin EarlyLabels /\ pos \in Nat
        /\ Top \in Frames(Len(nodes)) /\ Top.at = "operator" /\ Len(nodes) \in Nat
    BY <2>1, AtFacts DEF IInv, EarlyLabels
  <2>4. Top.n \in 0..7
    BY <2>3 DEF Frames, FrameOK
  <2>5. g \in Frames(Len(nodes)) /\ g.at = "operator_first"
    BY <2>2, <2>3, <2>4, OperatorFirstFrame
  <2>6. UNCHANGED <<heap, tables>> /\ logged' \in BOOLEAN
    BY <2>1 DEF Quiet, IInv, TypeOK
  <2>. QED
    BY <2>1, <2>3, <2>4, <2>5, <2>6, OperandCallee, QuietGoto
<1>2. CASE OperatorFirst
  <2>1. At("operator_first") /\ OperatorLoop(ret) /\ Quiet
    BY <1>2 DEF OperatorFirst
  <2>2. UNCHANGED <<heap, tables, root>> /\ logged' \in BOOLEAN
    BY <2>1 DEF Quiet, IInv, TypeOK, OperatorLoop, Goto, Return
  <2>3. Grows /\ Len(nodes') = Len(nodes)
    BY <2>2, QuietGrows DEF IInv
  <2>4. ret \in 0 .. Len(nodes')
    BY <2>1, <2>3, AtFacts DEF IInv, Refs
  <2>. QED
    BY <2>1, <2>3, <2>4, OperatorLoopStep DEF OperatorLabels
<1>3. CASE OperatorNext
  <2>1. /\ At("operator_next")
        /\ NewNode(nodes, Top.tok, Top.l, ret)
        /\ OperatorLoop(Len(nodes) + 1)
    BY <1>3 DEF OperatorNext
  <2>2. /\ ret \in Refs /\ Top \in Frames(Len(nodes)) /\ Len(nodes) \in Nat
        /\ nodes \in Seq(Nodes(Len(nodes)))
    BY <2>1, AtFacts DEF IInv, TypeOK, HeapOK
  <2>3. Top.tok \in NodeTokens /\ Top.l \in Refs
    BY <2>2, SomeTokens DEF Frames, Refs
  <2>4. UNCHANGED root
    BY <2>1 DEF OperatorLoop, Goto, Return
  <2>5. Grows /\ Len(nodes') = Len(nodes) + 1
    BY <2>1, <2>2, <2>3, <2>4, NewNodeGrows DEF IInv
  <2>6. Len(nodes) + 1 \in 0 .. Len(nodes')
    BY <2>2, <2>5
  <2>. QED
    BY <2>1, <2>5, <2>6, OperatorLoopStep DEF OperatorLabels
<1>. QED
  BY <1>1, <1>2, <1>3

-----------------------------------------------------------------------------
(* get_sqrt_ and get_primary_. *)

(* get_sqrt_ gives its place to get_primary_. *)
LEMMA InPlaceStep ==
    ASSUME IInv, At("sqrt"), stack' = Callers \o <<Frame("primary")>>,
           UNCHANGED <<tokens, pos, ret, status, root>>, Quiet
    PROVE  IInv'
<1>. DEFINE n == Len(stack)
            F == Frames(Len(nodes))
            c == Callers
            t == <<Frame("primary")>>
<1>1. /\ stack # << >> /\ stack \in Seq(F) /\ n \in Nat \ {0} /\ stack[n].at = "sqrt"
      /\ Len(nodes) \in Nat
  BY AtFacts, TopProperties DEF IInv, TypeOK, StackOK, Top
<1>2. /\ c \in Seq(F) /\ Len(c) = n - 1 /\ \A i \in 1 .. n - 1 : c[i] = stack[i]
  BY <1>1, PopProperties DEF Callers, Popped
<1>3. Frame("primary") \in F /\ Frame("primary").at = "primary"
  BY <1>1, EntryFrame DEF Labels, SpecialLabels
<1>4. t \in Seq(F) /\ Len(t) = 1 /\ t[1].at = "primary"
  BY <1>3
<1>. HIDE DEF n, c, t
<1>5. stack' = c \o t
  BY DEF c, t
<1>. HIDE DEF F
<1>6. /\ stack' \in Seq(F) /\ Len(stack') = n /\ stack'[n].at = "primary"
      /\ \A i \in 1 .. n - 1 : stack'[i] = stack[i]
  <2>. DEFINE d == c \o t
  <2>1. /\ d \in Seq(F) /\ Len(d) = Len(c) + Len(t)
        /\ \A i \in 1 .. Len(c) + Len(t) :
              d[i] = IF i <= Len(c) THEN c[i] ELSE t[i - Len(c)]
    BY <1>2, <1>4, ConcatProperties
  <2>2. stack' = d
    BY <1>5
  <2>. HIDE DEF d
  <2>3. Len(d) = n /\ \A i \in 1 .. n - 1 : d[i] = stack[i]
    <3>1. Len(d) = n
      BY <1>1, <1>2, <1>4, <2>1
    <3>2. ASSUME NEW i \in 1 .. n - 1 PROVE d[i] = stack[i]
      <4>1. i \in 1 .. Len(c) + Len(t) /\ i <= Len(c)
        BY <1>1, <1>2, <1>4
      <4>. QED
        BY <1>2, <2>1, <4>1
    <3>. QED
      BY <3>1, <3>2
  <2>4. d[n] = t[1]
    BY <1>1, <1>2, <1>4, <2>1
  <2>. QED
    BY <1>4, <2>1, <2>2, <2>3, <2>4
<1>7. UNCHANGED <<nodes, to_delete, freed, envs, current_env_id, logged>>
  BY DEF Quiet, heap, tables
<1>8. TypeOK'
  BY <1>6, <1>7 DEF IInv, TypeOK, InputOK, StackOK, HeapOK, TablesOK, Refs, F
<1>9. Early'
  <2>1. envs # << >>
    BY Late DEF EarlyLabels
  <2>. QED
    BY <1>7, <2>1 DEF Early
<1>10. Nested'
  <2>1. \A i \in 1 .. n - 1 :
          /\ stack[i].at \notin {"func_call", "identifier"}
          /\ stack[i].at = "func_call_name" => stack[i + 1].at = "identifier"
    BY DEF IInv, Nested, n
  <2>2. \A i \in 1 .. n - 1 :
          /\ stack'[i].at \notin {"func_call", "identifier"}
          /\ stack'[i].at = "func_call_name" => stack'[i + 1].at = "identifier"
    <3>. TAKE i \in 1 .. n - 1
    <3>1. CASE i = n - 1
      <4>1. stack[i].at # "func_call_name"
        BY <1>1, <2>1, <3>1
      <4>. QED
        BY <1>6, <2>1, <4>1
    <3>2. CASE i # n - 1
      <4>1. i \in 1 .. n - 1 /\ i + 1 \in 1 .. n - 1
        BY <1>1, <3>2
      <4>. QED
        BY <1>6, <2>1, <4>1
    <3>. QED
      BY <3>1, <3>2
  <2>. QED
    BY <1>6, <2>2 DEF Nested
<1>11. NoCallYet'
  BY <1>6 DEF NoCallYet, Top
<1>. QED
  BY <1>8, <1>9, <1>10, <1>11 DEF IInv

(* get_sqrt_. *)
LEMMA SqrtSteps ==
    ASSUME IInv, GetSqrt \/ SqrtOperand
    PROVE  IInv'
<1>. /\ "sqrt_operand" \in CallerLabels /\ {"sqrt", "sqrt_operand"} \cap EarlyLabels = {}
     /\ Callee(Frame("sqrt"))
  BY EntryFrame DEF EarlyLabels, CallerLabels, Labels, SpecialLabels, Callee
<1>1. CASE GetSqrt
  <2>1. /\ At("sqrt") /\ Quiet
        /\ \/ Call("sqrt_operand", Frame("sqrt"), pos + 1)
           \/ /\ stack' = Callers \o <<Frame("primary")>>
              /\ UNCHANGED <<tokens, pos, ret, status, root>>
    BY <1>1, Zenon DEF GetSqrt
  <2>2. CASE Call("sqrt_operand", Frame("sqrt"), pos + 1)
    <3>1. /\ pos + 1 \in Nat /\ NULL \in Refs
          /\ UNCHANGED <<heap, tables>> /\ logged' \in BOOLEAN
      BY <2>1, AtFacts DEF IInv, TypeOK, Quiet, Refs, NULL
    <3>2. Goto([Top EXCEPT !.at = "sqrt_operand"], Frame("sqrt"), pos + 1)
      BY <2>2 DEF Call
    <3>. QED
      BY <2>1, <3>1, <3>2, QuietCall DEF Changed
  <2>. QED
    BY <2>1, <2>2, InPlaceStep
<1>2. CASE SqrtOperand
  <2>1. At("sqrt_operand") /\ \E tok \in NodeTokens : ReturnNode(tok, ret, NULL, pos)
    <3>1. "@" \in NodeTokens
      BY TokenNames, Zenon
    <3>. QED
      BY <1>2, <3>1, Zenon DEF SqrtOperand
  <2>2. pos \in Nat /\ ret \in Refs /\ NULL \in Refs
    BY <2>1, AtFacts DEF IInv, Refs, NULL
  <2>. QED
    BY <2>1, <2>2, NodeReturned
<1>. QED
  BY <1>1, <1>2

(* get_primary_ tries get_func_call_ where there is no "(". *)
LEMMA CallTried ==
    ASSUME IInv, At("primary"), NEW g, g = [Top EXCEPT !.at = "primary_call"],
           Cur # "(", Goto(g, Frame("func_call"), pos), Quiet
    PROVE  IInv'
<1>1. /\ Top \in Frames(Len(nodes)) /\ Len(nodes) \in Nat /\ pos \in Nat
      /\ NULL \in 0 .. Len(nodes)
  BY AtFacts DEF IInv, NULL
<1>2. "primary_call" \in Labels \ SpecialLabels /\ "primary" \notin EarlyLabels
  BY DEF Labels, SpecialLabels, EarlyLabels
<1>3. UNCHANGED <<heap, tables, root>> /\ logged' \in BOOLEAN
  BY RootKept DEF Quiet, IInv, TypeOK
<1>4. Grows /\ Len(nodes') = Len(nodes)
  BY <1>3, QuietGrows DEF IInv
<1>5. g \in Frames(Len(nodes')) /\ g.at = "primary_call"
  <2>1. Changed(Top, g, "primary_call", NULL, NULL)
    BY DEF Changed
  <2>. QED
    BY <1>1, <1>2, <1>4, <2>1, ChangedFrame
<1>6. Frame("func_call") \in Frames(Len(nodes')) /\ Frame("func_call").at = "func_call"
  BY <1>1, <1>4, EntryFrame DEF Labels, SpecialLabels
<1>7. tokens[pos + 1] # "("
  BY DEF Cur
<1>. QED
  BY <1>1, <1>2, <1>4, <1>5, <1>6, <1>7, LateGoto

(* get_primary_ up to its last attempt. *)
LEMMA PrimarySteps ==
    ASSUME IInv, GetPrimary \/ PrimaryParen \/ PrimaryCall \/ PrimaryNum
    PROVE  IInv'
<1>. /\ {"primary_paren", "primary_num", "primary_id"} \subseteq CallerLabels
     /\ {"primary", "primary_paren", "primary_call", "primary_num"} \cap EarlyLabels = {}
     /\ Callee(Frame("numeric_literal")) /\ Callee(Frame("identifier"))
  BY EntryFrame DEF EarlyLabels, CallerLabels, Labels, SpecialLabels, Callee
<1>1. CASE GetPrimary
  <2>. DEFINE g(at) == [Top EXCEPT !.at = at]
  <2>1. /\ At("primary") /\ Quiet
        /\ \/ Goto(g("primary_paren"), Expr, pos + 1)
           \/ Cur # "(" /\ Goto(g("primary_call"), Frame("func_call"), pos)
    BY <1>1, Zenon DEF GetPrimary, Call
  <2>2. CASE Goto(g("primary_paren"), Expr, pos + 1)
    <3>1. /\ pos + 1 \in Nat /\ NULL \in Refs
          /\ UNCHANGED <<heap, tables>> /\ logged' \in BOOLEAN
      BY <2>1, AtFacts DEF IInv, TypeOK, Quiet, Refs, NULL
    <3>2. Changed(Top, g("primary_paren"), "primary_paren", NULL, NULL)
      BY DEF Changed
    <3>. QED
      BY <2>1, <2>2, <3>1, <3>2, QuietCall, Callees
  <2>3. CASE Cur # "(" /\ Goto(g("primary_call"), Frame("func_call"), pos)
    BY <2>1, <2>3, CallTried
  <2>. QED
    BY <2>1, <2>2, <2>3
<1>2. CASE PrimaryParen
  <2>1. At("primary_paren") /\ Return(ret, pos + 1) /\ Quiet
    BY <1>2 DEF PrimaryParen
  <2>2. /\ pos + 1 \in Nat /\ ret \in Refs
        /\ UNCHANGED <<heap, tables>> /\ logged' \in BOOLEAN
    BY <2>1, AtFacts DEF IInv, TypeOK, Quiet
  <2>. QED
    BY <2>1, <2>2, QuietReturn
<1>3. CASE PrimaryCall \/ PrimaryNum
  BY <1>3, PrimaryTryStep DEF PrimaryCall, PrimaryNum
<1>. QED
  BY <1>1, <1>2, <1>3

(* get_primary_ after get_identifier_. *)
LEMMA PrimaryIdStep == ASSUME IInv, PrimaryId PROVE IInv'
<1>. DEFINE id == FindSymbol(Env, Variable(nodes[ret].tok))
<1>1. At("primary_id") /\ "primary_id" \notin EarlyLabels
  BY DEF PrimaryId, EarlyLabels
<1>2. pos \in Nat /\ ret \in Refs /\ NULL \in Refs /\ Len(nodes) \in Nat /\ envs # << >>
  BY <1>1, AtFacts, Late DEF IInv, Refs, NULL
<1>3. /\ id \in Int /\ current_env_id \in Int
  <2>1. Env \in Seq(Symbols) /\ current_env_id \in Int
    BY <1>2, EnvProperties DEF IInv
  <2>2. id \in -1 .. Len(Env) - 1
    BY <2>1, FindSymbolProperties
  <2>. QED
    BY <2>1, <2>2
<1>. HIDE DEF id
<1>4. CASE Return(NULL, pos) /\ Quiet
  <2>1. UNCHANGED <<heap, tables>> /\ logged' \in BOOLEAN
    BY <1>4 DEF Quiet, IInv, TypeOK
  <2>. QED
    BY <1>1, <1>2, <1>4, <2>1, QuietReturn
<1>5. CASE /\ ret # NULL /\ UNCHANGED <<to_delete, tables, nodes>>
           /\ Return(NULL, pos) /\ freed' = freed \cup {ret} /\ logged' = TRUE
  <2>1. /\ nodes' \in Seq(Nodes(Len(nodes))) /\ Len(nodes') = Len(nodes)
        /\ UNCHANGED <<to_delete, root>> /\ freed' \subseteq 1 .. Len(nodes)
        /\ TablesOK' /\ Len(envs) <= Len(envs') /\ logged' \in BOOLEAN
    <3>1. UNCHANGED <<envs, current_env_id, root>>
      BY <1>5, RootKept DEF tables
    <3>2. ret \in 1 .. Len(nodes)
      BY <1>2, <1>5, NodeAt DEF IInv
    <3>. QED
      BY <1>5, <3>1, <3>2 DEF IInv, TypeOK, HeapOK, TablesOK
  <2>2. Grows
    BY <2>1, ChangeGrows DEF IInv
  <2>. QED
    BY <1>1, <1>2, <1>5, <2>1, <2>2, LateReturn DEF Refs
<1>6. CASE /\ ret # NULL /\ UNCHANGED <<to_delete, tables, freed, logged>>
           /\ Return(ret, pos) /\ nodes' = Bind(ret, current_env_id, id)
  <2>1. /\ nodes' \in Seq(Nodes(Len(nodes))) /\ Len(nodes') = Len(nodes)
        /\ UNCHANGED <<to_delete, root>> /\ freed' \subseteq 1 .. Len(nodes)
        /\ TablesOK' /\ Len(envs) <= Len(envs') /\ logged' \in BOOLEAN
    <3>1. UNCHANGED <<envs, current_env_id, root>>
      BY <1>6, RootKept DEF tables
    <3>2. ret \in 1 .. Len(nodes)
      BY <1>2, <1>6, NodeAt DEF IInv
    <3>3. nodes' \in Seq(Nodes(Len(nodes))) /\ Len(nodes') = Len(nodes)
      BY <1>3, <1>6, <3>2, BindProperties DEF IInv
    <3>. QED
      BY <1>6, <3>1, <3>3 DEF IInv, TypeOK, HeapOK, TablesOK
  <2>2. Grows
    BY <2>1, ChangeGrows DEF IInv
  <2>. QED
    BY <1>1, <1>2, <1>6, <2>1, <2>2, LateReturn DEF Refs
<1>. QED
  BY <1>4, <1>5, <1>6 DEF PrimaryId, id

(* get_numeric_literal_. *)
LEMMA NumericLiteralStep == ASSUME IInv, GetNumericLiteral PROVE IInv'
<1>1. At("numeric_literal") /\ "numeric_literal" \notin EarlyLabels
  BY DEF GetNumericLiteral, EarlyLabels
<1>2. pos \in Nat /\ pos + 1 \in Nat /\ NULL \in Refs /\ Cur \in NodeTokens
  BY <1>1, AtFacts, SomeTokens DEF IInv, Refs, NULL
<1>3. CASE ReturnNode(Cur, NULL, NULL, pos + 1)
  BY <1>1, <1>2, <1>3, NodeReturned
<1>4. CASE Return(NULL, pos) /\ Quiet
  <2>1. UNCHANGED <<heap, tables>> /\ logged' \in BOOLEAN
    BY <1>4 DEF Quiet, IInv, TypeOK
  <2>. QED
    BY <1>1, <1>2, <1>4, <2>1, QuietReturn
<1>. QED
  BY <1>3, <1>4 DEF GetNumericLiteral

-----------------------------------------------------------------------------
(* get_func_call_. *)

(* get_func_call_ at its entry. *)
LEMMA FuncCallStep == ASSUME IInv, GetFuncCall PROVE IInv'
<1>. DEFINE g == [Top EXCEPT !.at = "func_call_name", !.n = pos]
            m == Len(nodes)
            R == [at : Labels, l : 0..m, r : 0..m, tok : Tokens, n : Nat]
<1>1. At("func_call") /\ Goto(g, Identifier, pos) /\ Quiet
  BY DEF GetFuncCall
<1>2. /\ stack # << >> /\ Top.at = "func_call" /\ Top \in Frames(m)
      /\ pos \in Nat /\ pos < Len(tokens) /\ m \in Nat
  BY <1>1, AtFacts DEF IInv
<1>3. tokens[pos + 1] # "("
  BY <1>2 DEF IInv, NoCallYet, Cur
<1>4. g \in Frames(m) /\ g.at = "func_call_name"
  <2>1. Top \in R /\ "func_call_name" \in Labels
    BY <1>2 DEF Frames, Labels
  <2>2. g \in R /\ g.at = "func_call_name"
    BY <1>2, <2>1
  <2>. QED
    BY <2>2 DEF Frames, FrameOK
<1>. HIDE DEF g, m
<1>5. Grows /\ Len(nodes') = m
  <2>1. UNCHANGED <<heap, tables, root>> /\ logged' \in BOOLEAN
    BY <1>1, RootKept DEF Quiet, IInv, TypeOK
  <2>. QED
    BY <2>1, QuietGrows DEF IInv, m
<1>6. Identifier \in Frames(m) /\ Identifier.at = "identifier"
  BY <1>2, EntryFrame DEF Identifier, Labels, SpecialLabels
<1>. QED
  BY <1>1, <1>2, <1>3, <1>4, <1>5, <1>6, LateGoto DEF EarlyLabels

(* What get_func_call_ does after the identifier. *)
LEMMA FuncCallNameCases ==
    ASSUME FuncCallName
    PROVE  /\ At("func_call_name")
           /\ \/ PutBack
              \/ FailAt(pos + 1)
              \/ /\ Cur = "("
                 /\ Goto([Top EXCEPT !.at = "func_call_args", !.l = ret],
                         ArgumentList, pos + 1)
                 /\ Quiet
BY Zenon DEF FuncCallName

(* Putting an identifier back keeps the invariant. *)
LEMMA PutBackStep == ASSUME IInv, At("func_call_name"), PutBack PROVE IInv'
<1>1. /\ Top \in Frames(Len(nodes)) /\ ret \in Refs /\ NULL \in Refs /\ Len(nodes) \in Nat
  BY AtFacts DEF IInv, Refs, NULL
<1>2. Top.n \in Nat
  BY <1>1 DEF Frames
<1>3. /\ nodes' \in Seq(Nodes(Len(nodes))) /\ Len(nodes') = Len(nodes)
      /\ UNCHANGED <<to_delete, root>> /\ freed' \subseteq 1 .. Len(nodes)
      /\ TablesOK' /\ Len(envs) <= Len(envs') /\ logged' \in BOOLEAN
  <2>1. UNCHANGED <<nodes, to_delete, envs, current_env_id, logged, root>>
    BY RootKept DEF PutBack, tables
  <2>2. freed' \subseteq 1 .. Len(nodes)
    BY <1>1 DEF PutBack, Refs, NULL, IInv, TypeOK, HeapOK
  <2>. QED
    BY <2>1, <2>2 DEF IInv, TypeOK, HeapOK, TablesOK
<1>4. Grows
  BY <1>3, ChangeGrows DEF IInv
<1>. QED
  BY <1>1, <1>2, <1>3, <1>4, LateReturn DEF PutBack, Refs, EarlyLabels

(* get_func_call_ after the identifier. *)
LEMMA FuncCallNameStep == ASSUME IInv, FuncCallName PROVE IInv'
<1>. DEFINE g == [Top EXCEPT !.at = "func_call_args", !.l = ret]
<1>1. At("func_call_name") /\ "func_call_name" \notin EarlyLabels
  BY FuncCallNameCases DEF EarlyLabels
<1>2. /\ pos + 1 \in Nat /\ ret \in Refs /\ Top \in Frames(Len(nodes))
      /\ Len(nodes) \in Nat /\ stack # << >> /\ pos < Len(tokens)
      /\ Top.at = "func_call_name"
  BY <1>1, AtFacts DEF IInv
<1>3. CASE FailAt(pos + 1)
  BY <1>1, <1>2, <1>3, Fails
<1>4. CASE Cur = "(" /\ Goto(g, ArgumentList, pos + 1) /\ Quiet
  <2>1. ret # NULL
    BY <1>2, <1>4 DEF IInv, NoCallYet
  <2>2. Holding(Top, g, "func_call_args", ret, ret, 0)
    BY DEF Holding
  <2>. HIDE DEF g
  <2>3. g \in Frames(Len(nodes)) /\ g.at = "func_call_args"
    BY <1>2, <2>1, <2>2, HoldingFrame DEF HoldingLabels, Refs
  <2>4. UNCHANGED <<heap, tables>> /\ logged' \in BOOLEAN
    BY <1>4 DEF Quiet, IInv, TypeOK
  <2>. QED
    BY <1>1, <1>2, <1>4, <2>3, <2>4, QuietGoto, Callees
<1>. QED
  BY <1>1, <1>3, <1>4, FuncCallNameCases, PutBackStep

(* get_func_call_ after the arguments. *)
LEMMA FuncCallArgsStep == ASSUME IInv, FuncCallArgs PROVE IInv'
<1>1. /\ At("func_call_args")
      /\ Fail \/ ReturnNode("call", Top.l, ret, pos + 1)
  BY Zenon DEF FuncCallArgs
<1>2. /\ pos \in Nat /\ pos + 1 \in Nat /\ ret \in Refs /\ Top.l \in Refs
      /\ "call" \in NodeTokens /\ "func_call_args" \notin EarlyLabels
  BY <1>1, AtFacts, TokenNames DEF IInv, Frames, Refs, EarlyLabels
<1>. QED
  BY <1>1, <1>2, Fails, NodeReturned DEF Fail

-----------------------------------------------------------------------------
(* The rest of a declaration, once its name has made an environment. *)

ParameterLabels == {"parameter_list_first", "parameter_list_next"}
ParameterNode(list) == [Top EXCEPT !.at = "parameter_list_next", !.l = list]

(* get_parameter_list_ returns, or asks for another parameter. *)
LEMMA ParameterListLoopCases ==
    ASSUME NEW list, ParameterListLoop(list)
    PROVE  Return(list, pos) \/ Goto(ParameterNode(list), Identifier, pos + 1)
BY Zenon DEF ParameterListLoop, ParameterNode

(* Its loop keeps the invariant. *)
LEMMA ParameterListLoopStep ==
    ASSUME IInv, NEW label \in ParameterLabels, At(label), Grows,
           NEW list \in 0 .. Len(nodes'), ParameterListLoop(list)
    PROVE  IInv'
<1>1. label \notin EarlyLabels
  BY DEF ParameterLabels, EarlyLabels
<1>2. /\ pos \in Nat /\ pos + 1 \in Nat /\ Top \in Frames(Len(nodes))
      /\ Len(nodes) \in Nat /\ Len(nodes') \in Nat /\ Len(nodes) <= Len(nodes')
  BY AtFacts DEF IInv, Grows
<1>3. CASE Return(list, pos)
  BY <1>1, <1>2, <1>3, LateReturn
<1>4. CASE Goto(ParameterNode(list), Identifier, pos + 1)
  <2>1. Changed(Top, ParameterNode(list), "parameter_list_next", list, list)
    BY DEF Changed, ParameterNode
  <2>2. "parameter_list_next" \in Labels \ SpecialLabels
    BY DEF Labels, SpecialLabels
  <2>3. /\ ParameterNode(list) \in Frames(Len(nodes'))
        /\ ParameterNode(list).at = "parameter_list_next"
    BY <1>2, <2>1, <2>2, ChangedFrame
  <2>4. /\ Identifier \in Frames(Len(nodes'))
        /\ Identifier.at \notin {"func_call", "func_call_name"}
    BY <1>2, Callees DEF Callee
  <2>. QED
    BY <1>1, <1>2, <1>4, <2>3, <2>4, LateGoto
<1>. QED
  BY <1>3, <1>4, ParameterListLoopCases

(* Its loop leaves the root alone. *)
LEMMA LoopKeepsRoot ==
    ASSUME NEW list, ParameterListLoop(list)
    PROVE  UNCHANGED root
BY ParameterListLoopCases, RootKept

(* get_parameter_list_. *)
LEMMA ParameterSteps ==
    ASSUME IInv, GetParameterList \/ ParameterListFirst \/ ParameterListNext
    PROVE  IInv'
<1>. /\ "parameter_list_first" \in CallerLabels
     /\ "parameter_list" \notin EarlyLabels /\ ParameterLabels \cap EarlyLabels = {}
  BY DEF EarlyLabels, CallerLabels, Labels, SpecialLabels, ParameterLabels
<1>1. CASE GetParameterList
  <2>. DEFINE g == [Top EXCEPT !.at = "parameter_list_first"]
  <2>1. At("parameter_list") /\ Goto(g, Identifier, pos) /\ Quiet
    BY <1>1 DEF GetParameterList, Call
  <2>2. Changed(Top, g, "parameter_list_first", NULL, NULL)
    BY DEF Changed
  <2>. HIDE DEF g
  <2>3. /\ pos \in Nat /\ NULL \in Refs
        /\ UNCHANGED <<heap, tables>> /\ logged' \in BOOLEAN
    BY <2>1, AtFacts DEF IInv, TypeOK, Quiet, Refs, NULL
  <2>. QED
    BY <2>1, <2>2, <2>3, QuietCall, Callees
<1>2. CASE ParameterListFirst
  <2>1. At("parameter_list_first") /\ ParameterListLoop(ret) /\ UNCHANGED root
    BY <1>2, LoopKeepsRoot DEF ParameterListFirst
  <2>2. ret \in Refs /\ envs # << >>
    BY <2>1, AtFacts, Late DEF IInv, ParameterLabels
  <2>3. Grows /\ Len(nodes') = Len(nodes)
    <3>1. CASE ret = NULL
      <4>1. UNCHANGED <<heap, tables, root>> /\ logged' \in BOOLEAN
        BY <1>2, <2>1, <3>1 DEF ParameterListFirst, Quiet, IInv, TypeOK
      <4>. QED
        BY <4>1, QuietGrows DEF IInv
    <3>2. CASE ret # NULL
      <4>1. Parameter \in Symbols
        BY <2>2, <3>2, NodeAt, SymbolOf DEF Parameter, IInv
      <4>2. /\ Entered(ret, Parameter)
            /\ nodes' = Bind(ret, current_env_id, AddedId(Env, Parameter))
            /\ UNCHANGED to_delete
        BY <1>2, <2>1, <2>2, <3>2, <4>1 DEF ParameterListFirst, Entered
      <4>. QED
        BY <4>2, EnterGrows DEF IInv
    <3>. QED
      BY <3>1, <3>2
  <2>. QED
    BY <2>1, <2>2, <2>3, ParameterListLoopStep DEF Refs, ParameterLabels
<1>3. CASE ParameterListNext
  <2>1. CASE Abort
    BY <2>1, Aborts
  <2>2. CASE ~Abort
    <3>1. /\ At("parameter_list_next") /\ ret # NULL /\ AddToEnv(Parameter)
          /\ nodes' = Append(Bind(ret, current_env_id, AddedId(Env, Parameter)),
                             Node(",", Top.l, ret))
          /\ to_delete' = Append(to_delete, Len(nodes) + 1)
          /\ UNCHANGED <<freed, current_env_id, logged>>
          /\ ParameterListLoop(Len(nodes) + 1)
      BY <1>3, <2>2, Zenon DEF ParameterListNext
    <3>2. PICK tok \in NodeTokens :
            nodes' = Append(Bind(ret, current_env_id, AddedId(Env, Parameter)),
                            Node(tok, Top.l, ret))
      <4>1. "," \in NodeTokens
        BY TokenNames, Zenon DEF Separators
      <4>. QED
        BY <3>1, <4>1, Zenon
    <3>3. /\ At("parameter_list_next") /\ ret # NULL /\ AddToEnv(Parameter)
          /\ to_delete' = Append(to_delete, Len(nodes) + 1)
          /\ UNCHANGED <<freed, current_env_id, logged, root>>
          /\ ParameterListLoop(Len(nodes) + 1)
      BY <3>1, LoopKeepsRoot, Zenon
    <3>. HIDE <3>1
    <3>4. /\ ret \in Refs /\ envs # << >> /\ Len(nodes) \in Nat /\ Top.l \in Refs
      BY <3>3, AtFacts, Late DEF IInv, ParameterLabels, Frames, Refs
    <3>5. Parameter \in Symbols
      BY <3>3, <3>4, NodeAt, SymbolOf DEF Parameter, IInv
    <3>6. Entered(ret, Parameter)
      BY <3>3, <3>4, <3>5 DEF Entered
    <3>7. Grows /\ Len(nodes') = Len(nodes) + 1
      BY <3>2, <3>3, <3>4, <3>6, EnterNodeGrows DEF IInv
    <3>8. Len(nodes) + 1 \in 0 .. Len(nodes')
      BY <3>4, <3>7
    <3>. QED
      BY <3>3, <3>7, <3>8, ParameterListLoopStep DEF ParameterLabels
  <2>. QED
    BY <2>1, <2>2
<1>. QED
  BY <1>1, <1>2, <1>3

(* get_func_decl_ after the parameters. *)
LEMMA FuncDeclParamsStep == ASSUME IInv, FuncDeclParams PROVE IInv'
<1>. DEFINE g == [Top EXCEPT !.at = "func_decl_body", !.r = ret]
<1>1. At("func_decl_params") /\ (Fail \/ (Goto(g, Block, pos + 1) /\ Quiet))
  BY Zenon DEF FuncDeclParams
<1>2. Top.l = Top.l /\ Holding(Top, g, "func_decl_body", Top.l, ret, 0)
  BY DEF Holding
<1>. HIDE DEF g
<1>3. /\ pos \in Nat /\ pos + 1 \in Nat /\ ret \in Refs /\ Len(nodes) \in Nat
      /\ Top \in Frames(Len(nodes)) /\ Top.l \in Refs /\ Top.l # NULL
      /\ "func_decl_params" \notin EarlyLabels
  BY <1>1, AtFacts DEF IInv, Frames, FrameOK, Refs, EarlyLabels
<1>4. CASE Fail
  BY <1>1, <1>3, <1>4, Fails DEF Fail
<1>5. CASE Goto(g, Block, pos + 1) /\ Quiet
  <2>1. g \in Frames(Len(nodes)) /\ g.at = "func_decl_body"
    BY <1>2, <1>3, HoldingFrame DEF HoldingLabels, Refs
  <2>2. UNCHANGED <<heap, tables>> /\ logged' \in BOOLEAN
    BY <1>5 DEF Quiet, IInv, TypeOK
  <2>. QED
    BY <1>1, <1>3, <1>5, <2>1, <2>2, QuietGoto, Callees
<1>. QED
  BY <1>1, <1>4, <1>5

(* A node with its ids and both children set is well formed. *)
LEMMA BoundNode ==
    ASSUME NEW m \in Nat, NEW old \in Nodes(m), NEW e \in Int, NEW id \in Int,
           NEW l \in 0..m, NEW r \in 0..m
    PROVE  [old EXCEPT !.scope = e, !.inner = id, !.left = l, !.right = r] \in Nodes(m)
<1>1. [old EXCEPT !.scope = e, !.inner = id] \in Nodes(m)
  BY DEF Nodes
<1>2. ASSUME NEW mid \in Nodes(m) PROVE [mid EXCEPT !.left = l, !.right = r] \in Nodes(m)
  BY DEF Nodes
<1>. QED
  BY <1>1, <1>2

(* get_func_decl_ after the body. *)
LEMMA FuncDeclBodyStep == ASSUME IInv, FuncDeclBody PROVE IInv'
<1>1. At("func_decl_body") /\ "func_decl_body" \notin EarlyLabels
  BY DEF FuncDeclBody, EarlyLabels
<1>2. /\ pos \in Nat /\ ret \in Refs /\ Len(nodes) \in Nat
      /\ Top.l \in Refs /\ Top.l # NULL /\ Top.r \in Refs /\ Top.n \in Nat
  BY <1>1, AtFacts DEF IInv, Frames, FrameOK, Refs
<1>3. CASE Fail
  BY <1>1, <1>2, <1>3, Fails DEF Fail
<1>. DEFINE id == AddedId(CreateEnv, FuncSymbol(Top.l))
            node == [nodes[Top.l] EXCEPT !.scope = Top.n, !.inner = id,
                                         !.left = Top.r, !.right = ret]
<1>4. CASE /\ nodes' = [nodes EXCEPT ![Top.l] = node]
           /\ Return(Top.l, pos)
           /\ UNCHANGED <<to_delete, freed, tables, logged>>
  <2>1. id \in Nat
    <3>1. FuncSymbol(Top.l) \in Symbols /\ << >> \in Seq(Symbols)
      BY <1>2, NodeAt, SymbolOf DEF FuncSymbol, IInv
    <3>2. AddedId(CreateEnv, FuncSymbol(Top.l))
             \in 0 .. Len(AddSymbol(CreateEnv, FuncSymbol(Top.l))) - 1
      BY <3>1, AddSymbolProperties DEF CreateEnv
    <3>. QED
      BY <3>2
  <2>. HIDE DEF id
  <2>2. node \in Nodes(Len(nodes)) /\ Top.l \in 1..Len(nodes)
    <3>1. nodes[Top.l] \in Nodes(Len(nodes)) /\ Top.l \in 1..Len(nodes)
      BY <1>2, NodeAt DEF IInv
    <3>2. Top.n \in Int /\ id \in Int
      BY <1>2, <2>1
    <3>. QED
      BY <1>2, <3>1, <3>2, BoundNode DEF Refs
  <2>. HIDE DEF node
  <2>3. nodes' \in Seq(Nodes(Len(nodes))) /\ Len(nodes') = Len(nodes)
    BY <1>4, <2>2, ExceptSeq DEF IInv, TypeOK, HeapOK
  <2>4. /\ UNCHANGED <<to_delete, root>> /\ freed' \subseteq 1 .. Len(nodes)
        /\ TablesOK' /\ Len(envs) <= Len(envs') /\ logged' \in BOOLEAN
    <3>1. UNCHANGED <<to_delete, freed, envs, current_env_id, logged, root>>
      BY <1>4, RootKept DEF tables
    <3>. QED
      BY <3>1 DEF IInv, TypeOK, HeapOK, TablesOK
  <2>5. Grows
    BY <2>3, <2>4, ChangeGrows DEF IInv
  <2>. QED
    BY <1>1, <1>2, <1>4, <2>3, <2>5, LateReturn DEF Refs
<1>. QED
  BY <1>3, <1>4 DEF FuncDeclBody

(* get_program_ after the second declaration and those that follow. *)
LEMMA ProgramNextStep == ASSUME IInv, ProgramNext PROVE IInv'
<1>. DEFINE g == [Top EXCEPT !.l = Len(nodes) + 1]
            c == Frame("func_decl")
<1>1. /\ At("program_next")
      /\ \/ Return(Top.l, pos) /\ Quiet
         \/ /\ \E tok \in NodeTokens : NewNode(nodes, tok, Top.l, ret)
            /\ Goto(g, c, pos)
  <2>1. "{" \in NodeTokens
    BY TokenNames, Zenon DEF Separators
  <2>. QED
    BY <2>1, Zenon DEF ProgramNext
<1>2. /\ pos \in Nat /\ ret \in Refs /\ Len(nodes) \in Nat /\ Top.at = "program_next"
      /\ Top \in Frames(Len(nodes)) /\ Top.l \in Refs /\ "program_next" \notin EarlyLabels
      /\ nodes \in Seq(Nodes(Len(nodes)))
  BY <1>1, AtFacts DEF IInv, TypeOK, HeapOK, Frames, Refs, EarlyLabels
<1>3. g = [Top EXCEPT !.at = "program_next", !.l = Len(nodes) + 1]
  BY <1>2 DEF Frames
<1>4. Callee(c)
  BY EntryFrame DEF Callee, Labels, SpecialLabels
<1>. HIDE DEF g, c
<1>5. Changed(Top, g, "program_next", Len(nodes) + 1, NULL)
  BY <1>3 DEF Changed
<1>6. CASE Return(Top.l, pos) /\ Quiet
  <2>1. UNCHANGED <<heap, tables>> /\ logged' \in BOOLEAN
    BY <1>6 DEF Quiet, IInv, TypeOK
  <2>. QED
    BY <1>1, <1>2, <1>6, <2>1, QuietReturn
<1>7. CASE /\ \E tok \in NodeTokens : NewNode(nodes, tok, Top.l, ret)
           /\ Goto(g, c, pos)
  <2>1. UNCHANGED root
    BY <1>7, RootKept
  <2>2. Grows /\ Len(nodes') = Len(nodes) + 1
    BY <1>2, <1>7, <2>1, NewNodeGrows DEF IInv
  <2>3. g \in Frames(Len(nodes')) /\ g.at = "program_next"
    <3>1. "program_next" \in Labels \ SpecialLabels
      BY DEF Labels, SpecialLabels
    <3>2. Len(nodes) + 1 \in 0 .. Len(nodes') /\ NULL \in 0 .. Len(nodes')
          /\ Len(nodes) <= Len(nodes') /\ Len(nodes') \in Nat
      BY <1>2, <2>2 DEF NULL
    <3>. QED
      BY <1>2, <1>5, <3>1, <3>2, ChangedFrame
  <2>4. c \in Frames(Len(nodes')) /\ c.at \notin {"func_call", "func_call_name"}
    BY <1>4, <2>2 DEF Callee, Grows
  <2>. QED
    BY <1>1, <1>2, <1>7, <2>2, <2>3, <2>4, LateGoto
<1>. QED
  BY <1>1, <1>6, <1>7

-----------------------------------------------------------------------------
(* The functions that may run while there is no environment. *)

(* A return keeps the fact about the first functions. *)
LEMMA EarlyReturn ==
    ASSUME IInv, NEW label, At(label), stack' = Callers,
           envs' = << >> => envs = << >>,
           ret' = NULL \/ label = "identifier"
    PROVE  Early'
<1>. DEFINE n == Len(stack)
<1>1. stack # << >> /\ stack[n].at = label
  BY DEF At, Running, Top
<1>2. /\ Len(stack') = n - 1 /\ n \in Nat \ {0}
      /\ \A i \in 1 .. n - 1 : stack'[i] = stack[i]
  BY <1>1, PoppedStack
<1>. HIDE DEF n
<1>3. SUFFICES ASSUME envs' = << >>
      PROVE  /\ \A i \in 1 .. n - 1 : stack'[i].at \in EarlyLabels
             /\ \A i \in 1 .. n - 1 - 1 :
                   stack'[i + 1].at = "identifier" => stack'[i].at = "func_decl_name"
             /\ stack' # << >> /\ Top'.at \in {"program_first", "general_end"}
                   => ret' = NULL
  BY <1>2 DEF Early
<1>4. /\ \A i \in 1 .. n : stack[i].at \in EarlyLabels
      /\ \A i \in 1 .. n - 1 :
            stack[i + 1].at = "identifier" => stack[i].at = "func_decl_name"
  BY <1>3 DEF IInv, Early, n
<1>5. \A i \in 1 .. n - 1 : stack'[i].at \in EarlyLabels
  BY <1>2, <1>4
<1>6. ASSUME NEW i \in 1 .. n - 1 - 1, stack'[i + 1].at = "identifier"
      PROVE  stack'[i].at = "func_decl_name"
  <2>1. i \in 1 .. n - 1 /\ i + 1 \in 1 .. n - 1
    BY <1>2
  <2>. QED
    BY <1>2, <1>4, <1>6, <2>1
<1>7. ASSUME stack' # << >>, Top'.at \in {"program_first", "general_end"}
      PROVE  ret' = NULL
  <2>1. n - 1 \in 1 .. n - 1 /\ Top' = stack[n - 1]
    BY <1>2, <1>7, EmptySeq DEF Top
  <2>2. label = "identifier" => stack[n - 1].at = "func_decl_name"
    <3>1. n - 1 + 1 = n
      BY <1>2
    <3>. QED
      BY <1>1, <1>4, <2>1, <3>1
  <2>. QED
    BY <1>7, <2>1, <2>2
<1>. QED
  BY <1>5, <1>6, <1>7

(* A call keeps the invariant even before there is an environment. *)
LEMMA EarlyGoto ==
    ASSUME IInv, NEW label, At(label), label # "identifier", Grows,
           envs' = << >> => envs = << >>,
           NEW f \in Frames(Len(nodes')), NEW callee \in Frames(Len(nodes')),
           NEW p \in Nat, Goto(f, callee, p),
           f.at \notin {"func_call", "func_call_name", "identifier"},
           callee.at \notin {"func_call", "func_call_name", "program_first", "general_end"},
           callee.at = "identifier" => f.at = "func_decl_name",
           envs = << >> => f.at \in EarlyLabels /\ callee.at \in EarlyLabels
    PROVE  IInv'
<1>. DEFINE n == Len(stack)
<1>1. /\ Len(stack') = n + 1 /\ n \in Nat \ {0}
      /\ \A i \in 1 .. n - 1 : stack'[i] = stack[i]
      /\ stack'[n] = f /\ stack'[n + 1] = callee
  BY GotoStack, AtFacts, TopProperties DEF IInv
<1>2. TypeOK' /\ Nested' /\ NoCallYet'
  BY GotoType, GotoLinks DEF IInv
<1>. HIDE DEF n
<1>3. Early'
  <2>1. SUFFICES ASSUME envs' = << >>
        PROVE  /\ \A i \in 1 .. n + 1 : stack'[i].at \in EarlyLabels
               /\ \A i \in 1 .. n + 1 - 1 :
                     stack'[i + 1].at = "identifier" => stack'[i].at = "func_decl_name"
               /\ Top'.at \notin {"program_first", "general_end"}
    BY <1>1 DEF Early
  <2>2. /\ \A i \in 1 .. n : stack[i].at \in EarlyLabels
        /\ \A i \in 1 .. n - 1 :
              stack[i + 1].at = "identifier" => stack[i].at = "func_decl_name"
        /\ f.at \in EarlyLabels /\ callee.at \in EarlyLabels
    BY <2>1 DEF IInv, Early, n
  <2>3. \A i \in 1 .. n + 1 : stack'[i].at \in EarlyLabels
    <3>. TAKE i \in 1 .. n + 1
    <3>1. i \in 1 .. n - 1 \/ i = n \/ i = n + 1
      BY <1>1
    <3>. QED
      BY <1>1, <2>2, <3>1
  <2>4. ASSUME NEW i \in 1 .. n + 1 - 1, stack'[i + 1].at = "identifier"
        PROVE  stack'[i].at = "func_decl_name"
    <3>1. CASE i = n
      BY <1>1, <2>4, <3>1
    <3>2. CASE i # n
      <4>1. i \in 1 .. n - 1 /\ i + 1 \in 1 .. n
        BY <1>1, <3>2
      <4>2. i + 1 # n
        BY <1>1, <2>4
      <4>3. i + 1 \in 1 .. n - 1
        BY <1>1, <4>1, <4>2
      <4>. QED
        BY <1>1, <2>2, <2>4, <4>1, <4>3
    <3>. QED
      BY <3>1, <3>2
  <2>5. Top' = callee
    BY <1>1 DEF Top
  <2>. QED
    BY <2>3, <2>4, <2>5
<1>. QED
  BY <1>2, <1>3 DEF IInv

(* A NULL answer that changes nothing but, perhaps, the log. *)
LEMMA EarlyNull ==
    ASSUME IInv, NEW label, At(label), Return(NULL, pos),
           UNCHANGED <<heap, tables>>, logged' \in BOOLEAN
    PROVE  IInv'
<1>1. Grows /\ Len(nodes') = Len(nodes)
  BY RootKept, QuietGrows DEF IInv
<1>2. pos \in Nat /\ NULL \in 0 .. Len(nodes') /\ Pops(NULL, pos)
  BY <1>1, AtFacts, ReturnPops DEF IInv, NULL
<1>3. TypeOK' /\ Nested' /\ NoCallYet'
  BY <1>1, <1>2, ReturnType, ReturnLinks DEF IInv
<1>4. stack' = Callers /\ ret' = NULL /\ UNCHANGED envs
  BY DEF Return, tables
<1>5. Early'
  BY <1>4, EarlyReturn
<1>. QED
  BY <1>3, <1>5 DEF IInv

(* A call that changes nothing else. *)
LEMMA EarlyCall ==
    ASSUME IInv, NEW label, At(label), label # "identifier",
           NEW next \in Labels \ SpecialLabels,
           next \notin {"func_call", "func_call_name", "identifier"},
           NEW at \in {"program", "func_decl", "identifier"},
           at = "identifier" => next = "func_decl_name",
           envs = << >> => next \in EarlyLabels,
           NEW l \in Refs, NEW g, Changed(Top, g, next, l, NULL),
           NEW p \in Nat, Goto(g, Frame(at), p),
           UNCHANGED <<heap, tables>>, logged' \in BOOLEAN
    PROVE  IInv'
<1>1. Grows /\ Len(nodes') = Len(nodes) /\ UNCHANGED envs
  BY RootKept, QuietGrows DEF IInv, tables
<1>2. g \in Frames(Len(nodes')) /\ g.at = next
  <2>1. /\ Top \in Frames(Len(nodes)) /\ Len(nodes) \in Nat /\ NULL \in 0 .. Len(nodes)
        /\ l \in 0 .. Len(nodes)
    BY AtFacts DEF IInv, NULL, Refs
  <2>. QED
    BY <1>1, <2>1, ChangedFrame
<1>3. Frame(at) \in Frames(Len(nodes')) /\ Frame(at).at = at /\ at \in EarlyLabels
  BY <1>1, EntryFrame DEF Labels, SpecialLabels, Grows, EarlyLabels
<1>. QED
  BY <1>1, <1>2, <1>3, EarlyGoto

(* The first functions, up to the name of a declaration. *)
LEMMA ProgramSteps ==
    ASSUME IInv, GetGeneral \/ GetProgram \/ ProgramFirst \/ GetFuncDecl
    PROVE  IInv'
<1>. DEFINE g(at) == [Top EXCEPT !.at = at]
            h == [Top EXCEPT !.at = "program_next", !.l = ret]
<1>0. /\ {"general_end", "program_first", "program_next", "func_decl_name"}
            \subseteq Labels \ SpecialLabels
      /\ {"general_end", "program_first", "func_decl_name"} \subseteq EarlyLabels
  BY DEF Labels, SpecialLabels, EarlyLabels
<1>1. \A at : Changed(Top, g(at), at, NULL, NULL)
  BY DEF Changed
<1>2. Changed(Top, h, "program_next", ret, NULL)
  BY DEF Changed
<1>3. PICK label \in {"general", "program", "program_first", "func_decl"} :
        /\ At(label) /\ UNCHANGED <<heap, tables, logged>>
        /\ \/ label = "general" /\ Goto(g("general_end"), Frame("program"), pos)
           \/ label = "program" /\ Goto(g("program_first"), Frame("func_decl"), pos)
           \/ label = "program_first" /\ ret # NULL /\ Goto(h, Frame("func_decl"), pos)
           \/ label = "func_decl" /\ Goto(g("func_decl_name"), Frame("identifier"), pos + 1)
           \/ Return(NULL, pos)
  BY DEF GetGeneral, GetProgram, ProgramFirst, GetFuncDecl, Leads, Call, Quiet, Identifier
<1>. HIDE DEF g, h
<1>4. /\ pos \in Nat /\ pos + 1 \in Nat /\ ret \in Refs /\ NULL \in Refs
      /\ stack # << >> /\ Top.at = label
      /\ UNCHANGED <<heap, tables>> /\ logged' \in BOOLEAN
  BY <1>3, AtFacts DEF IInv, Refs, NULL, TypeOK
<1>5. CASE label = "general" /\ Goto(g("general_end"), Frame("program"), pos)
  BY <1>0, <1>1, <1>3, <1>4, <1>5, EarlyCall
<1>6. CASE label = "program" /\ Goto(g("program_first"), Frame("func_decl"), pos)
  BY <1>0, <1>1, <1>3, <1>4, <1>6, EarlyCall
<1>7. CASE label = "program_first" /\ ret # NULL /\ Goto(h, Frame("func_decl"), pos)
  <2>1. envs # << >>
    BY <1>4, <1>7 DEF IInv, Early
  <2>. QED
    BY <1>0, <1>2, <1>3, <1>4, <1>7, <2>1, EarlyCall
<1>8. CASE label = "func_decl" /\ Goto(g("func_decl_name"), Frame("identifier"), pos + 1)
  BY <1>0, <1>1, <1>3, <1>4, <1>8, EarlyCall
<1>9. CASE Return(NULL, pos)
  BY <1>3, <1>4, <1>9, EarlyNull
<1>. QED
  BY <1>3, <1>5, <1>6, <1>7, <1>8, <1>9

(* The name makes an environment; from here on there is one. *)
LEMMA FuncDeclNameStep == ASSUME IInv, FuncDeclName PROVE IInv'
<1>. DEFINE g == [Top EXCEPT !.at = "func_decl_params", !.l = ret, !.n = AddEnviroment]
            env == AddSymbol(CreateEnv, FuncSymbol(ret))
            c == Frame("parameter_list")
<1>1. /\ At("func_decl_name")
      /\ \/ Fail
         \/ /\ ret # NULL
            /\ envs' = Append(envs, env) /\ current_env_id' = AddEnviroment
            /\ UNCHANGED heap
            /\ \/ Goto(g, c, pos + 1) /\ UNCHANGED logged
               \/ Return(NULL, pos) /\ logged' = TRUE
  BY Zenon DEF FuncDeclName
<1>2. /\ pos \in Nat /\ pos + 1 \in Nat /\ ret \in Refs /\ NULL \in Refs
      /\ Top \in Frames(Len(nodes)) /\ Len(nodes) \in Nat
      /\ logged \in BOOLEAN /\ Len(envs) \in Nat
  BY <1>1, AtFacts DEF IInv, Refs, NULL, TypeOK, TablesOK
<1>3. Holding(Top, g, "func_decl_params", ret, ret, Len(envs))
  BY DEF Holding, AddEnviroment
<1>. HIDE DEF g
<1>4. Callee(c)
  BY EntryFrame DEF Callee, Labels, SpecialLabels
<1>. HIDE DEF c
<1>5. CASE Fail
  <2>1. Return(NULL, pos) /\ UNCHANGED <<heap, tables>> /\ logged' \in BOOLEAN
    BY <1>5 DEF Fail, FailAt
  <2>. QED
    BY <1>1, <2>1, EarlyNull
<1>6. CASE /\ ret # NULL
           /\ envs' = Append(envs, env) /\ current_env_id' = AddEnviroment
           /\ UNCHANGED heap
           /\ \/ Goto(g, c, pos + 1) /\ UNCHANGED logged
              \/ Return(NULL, pos) /\ logged' = TRUE
  <2>1. env \in Seq(Symbols)
    <3>1. FuncSymbol(ret) \in Symbols /\ << >> \in Seq(Symbols)
      BY <1>2, <1>6, NodeAt, SymbolOf DEF FuncSymbol, IInv
    <3>. QED
      BY <3>1, AddSymbolProperties DEF CreateEnv
  <2>. HIDE DEF env
  <2>2. /\ envs' \in Seq(Seq(Symbols)) /\ Len(envs') = Len(envs) + 1
        /\ envs' # << >>
    <3>1. envs \in Seq(Seq(Symbols))
      BY DEF IInv, TypeOK, TablesOK
    <3>2. Append(envs, env) \in Seq(Seq(Symbols)) /\ Len(Append(envs, env)) = Len(envs) + 1
      BY <2>1, <3>1, AppendProperties
    <3>. QED
      BY <1>2, <1>6, <3>2
  <2>3. TablesOK' /\ Len(envs) <= Len(envs')
    BY <1>2, <1>6, <2>2 DEF TablesOK, AddEnviroment
  <2>4. Grows /\ Len(nodes') = Len(nodes)
    <3>1. UNCHANGED <<nodes, to_delete, freed, root>> /\ logged' \in BOOLEAN
      BY <1>2, <1>6, RootKept DEF heap
    <3>. QED
      BY <2>2, <2>3, <3>1 DEF IInv, TypeOK, HeapOK, Grows, Refs
  <2>5. Early'
    BY <2>2 DEF Early
  <2>6. CASE Goto(g, c, pos + 1)
    <3>1. g \in Frames(Len(nodes')) /\ g.at = "func_decl_params"
      BY <1>2, <1>3, <1>6, <2>4, HoldingFrame DEF HoldingLabels, Refs
    <3>2. c \in Frames(Len(nodes')) /\ c.at \notin {"func_call", "func_call_name"}
      BY <1>2, <1>4, <2>4 DEF Callee
    <3>3. TypeOK' /\ Nested' /\ NoCallYet'
      BY <1>1, <1>2, <2>4, <2>6, <3>1, <3>2, GotoType, GotoLinks DEF IInv
    <3>. QED
      BY <2>5, <3>3 DEF IInv
  <2>7. CASE Return(NULL, pos)
    <3>1. NULL \in 0 .. Len(nodes') /\ Pops(NULL, pos)
      BY <1>2, <2>4, <2>7, ReturnPops DEF Refs, IInv
    <3>2. TypeOK' /\ Nested' /\ NoCallYet'
      BY <1>1, <1>2, <2>4, <3>1, ReturnType, ReturnLinks DEF IInv
    <3>. QED
      BY <2>5, <3>2 DEF IInv
  <2>. QED
    BY <1>6, <2>6, <2>7
<1>. QED
  BY <1>1, <1>5, <1>6

(* An identifier with its ids is well formed. *)
LEMMA IdentifierNode ==
    ASSUME NEW m \in Nat, NEW tok \in NodeTokens, NULL \in 0..m, NEW e \in Int, NEW id \in Int
    PROVE  [Node(tok, NULL, NULL) EXCEPT !.scope = e, !.inner = id] \in Nodes(m)
<1>1. Node(tok, NULL, NULL) \in Nodes(m)
  BY NodeProperties
<1>. QED
  BY <1>1 DEF Nodes

(* get_identifier_. *)
LEMMA IdentifierStep == ASSUME IInv, GetIdentifier PROVE IInv'
<1>1. At("identifier")
  BY DEF GetIdentifier
<1>2. /\ pos \in Nat /\ pos + 1 \in Nat /\ NULL \in Refs /\ Len(nodes) \in Nat
      /\ Cur \in NodeTokens /\ nodes \in Seq(Nodes(Len(nodes)))
  BY <1>1, AtFacts, SomeTokens DEF IInv, TypeOK, HeapOK, Refs, NULL
<1>3. CASE Return(NULL, pos) /\ Quiet
  <2>1. UNCHANGED <<heap, tables>> /\ logged' \in BOOLEAN
    BY <1>3 DEF Quiet, IInv, TypeOK
  <2>. QED
    BY <1>1, <1>3, <2>1, EarlyNull
<1>4. ASSUME Return(Len(nodes) + 1, pos + 1), Grows, Len(nodes') = Len(nodes) + 1,
             envs' = << >> => envs = << >>
      PROVE  IInv'
  <2>1. /\ Len(nodes) + 1 \in 0 .. Len(nodes') /\ Len(nodes) + 1 # NULL
        /\ Pops(Len(nodes) + 1, pos + 1) /\ stack' = Callers
    BY <1>2, <1>4, ReturnPops DEF IInv, NULL, Return
  <2>2. TypeOK' /\ Nested' /\ NoCallYet'
    BY <1>1, <1>2, <1>4, <2>1, ReturnType, ReturnLinks DEF IInv
  <2>3. Early'
    BY <1>1, <1>4, <2>1, EarlyReturn
  <2>. QED
    BY <2>2, <2>3 DEF IInv
<1>5. CASE ReturnNode(Cur, NULL, NULL, pos + 1)
  <2>1. /\ NewNode(nodes, Cur, NULL, NULL) /\ Return(Len(nodes) + 1, pos + 1)
        /\ UNCHANGED <<root, envs>>
    BY <1>5, RootKept DEF ReturnNode, NewNode, tables
  <2>2. Grows /\ Len(nodes') = Len(nodes) + 1
    BY <1>2, <2>1, NewNodeGrows DEF IInv
  <2>. QED
    BY <1>4, <2>1, <2>2
<1>. DEFINE sym == Variable(Cur)
            node == [Node(Cur, NULL, NULL) EXCEPT !.scope = current_env_id,
                                                  !.inner = AddedId(Env, sym)]
<1>6. CASE /\ current_env_id # NoEnv
           /\ nodes' = Append(nodes, node)
           /\ AddToEnv(sym)
           /\ to_delete' = Append(to_delete, Len(nodes) + 1)
           /\ UNCHANGED <<freed, current_env_id, logged>>
           /\ Return(Len(nodes) + 1, pos + 1)
  <2>1. envs # << >>
    BY <1>6 DEF IInv, TypeOK, TablesOK, NoEnv
  <2>2. /\ sym \in Symbols
        /\ TablesOK' /\ Len(envs') = Len(envs) /\ AddedId(Env, sym) \in Nat
    BY <1>2, <1>6, <2>1, SymbolOf, AddToEnvProperties DEF IInv
  <2>3. node \in Nodes(Len(nodes))
    <3>1. current_env_id \in Int /\ AddedId(Env, sym) \in Int
      BY <2>2 DEF IInv, TypeOK, TablesOK
    <3>. HIDE DEF sym
    <3>. QED
      BY <1>2, <3>1, IdentifierNode DEF Refs
  <2>. HIDE DEF node, sym
  <2>4. /\ root' \in 0 .. Len(nodes) + 1 /\ UNCHANGED freed
        /\ logged' \in BOOLEAN /\ Len(envs) <= Len(envs')
        /\ envs' = << >> => envs = << >>
    <3>1. UNCHANGED root
      BY <1>6, RootKept
    <3>2. Len(envs) \in Nat /\ envs' # << >>
      BY <2>1, <2>2, EmptySeq DEF IInv, TypeOK, TablesOK
    <3>. QED
      BY <1>6, <2>2, <3>1, <3>2 DEF IInv, TypeOK, HeapOK, Refs
  <2>5. Grows /\ Len(nodes') = Len(nodes) + 1
    BY <1>2, <1>6, <2>2, <2>3, <2>4, AppendGrows DEF IInv
  <2>. QED
    BY <1>4, <1>6, <2>4, <2>5
<1>. QED
  BY <1>3, <1>5, <1>6 DEF GetIdentifier

(* get_general_ at the end of a program. *)
LEMMA AcceptStep == ASSUME IInv, Accept PROVE IInv'
<1>. DEFINE fake == Node("FAKE", ret, NULL)
<1>1. /\ At("general_end") /\ ret # NULL
      /\ nodes' = Append(nodes, fake) /\ root' = Len(nodes) + 1
      /\ status' = "accepted" /\ stack' = Callers /\ ret' = NULL
      /\ UNCHANGED <<tokens, pos, to_delete, freed, tables, logged>>
  BY DEF Accept
<1>2. /\ pos \in Nat /\ ret \in Refs /\ NULL \in Refs /\ Len(nodes) \in Nat
      /\ nodes \in Seq(Nodes(Len(nodes))) /\ stack # << >> /\ Top.at = "general_end"
  BY <1>1, AtFacts DEF IInv, TypeOK, HeapOK, Refs, NULL
<1>3. fake \in Nodes(Len(nodes))
  BY <1>2, NodeProperties DEF NodeTokens, Refs
<1>. HIDE DEF fake
<1>4. envs # << >>
  BY <1>1, <1>2 DEF IInv, Early
<1>5. /\ root' \in 0 .. Len(nodes) + 1 /\ UNCHANGED freed /\ logged' \in BOOLEAN
      /\ TablesOK' /\ Len(envs) <= Len(envs') /\ UNCHANGED envs
  <2>1. UNCHANGED <<envs, current_env_id>>
    BY <1>1 DEF tables
  <2>. QED
    BY <1>1, <1>2, <2>1 DEF IInv, TypeOK, TablesOK
<1>6. Grows /\ Len(nodes') = Len(nodes) + 1
  BY <1>1, <1>2, <1>3, <1>5, AppendGrows DEF IInv
<1>7. Pops(NULL, pos) /\ NULL \in 0 .. Len(nodes')
  BY <1>1, <1>2, <1>6 DEF Pops, NULL
<1>8. TypeOK' /\ Nested' /\ NoCallYet'
  BY <1>1, <1>2, <1>6, <1>7, ReturnType, ReturnLinks DEF IInv
<1>9. Early'
  BY <1>4, <1>5 DEF Early
<1>. QED
  BY <1>8, <1>9 DEF IInv

(* get_general_ where there is none. *)
LEMMA RejectStep == ASSUME IInv, Reject PROVE IInv'
<1>1. /\ At("general_end")
      /\ freed' = freed \cup {to_delete[i] : i \in 1..Len(to_delete)}
      /\ stack' = Callers /\ ret' = NULL
      /\ UNCHANGED <<tokens, pos, nodes, to_delete, tables, root>>
  BY DEF Reject
<1>2. status' \in {"rejected", "aborted"}
  BY DEF Reject
<1>3. logged' \in BOOLEAN
  BY Zenon DEF Reject
<1>4. pos \in Nat /\ Len(nodes) \in Nat
  BY <1>1, AtFacts DEF IInv
<1>5. freed' \subseteq 1 .. Len(nodes)
  <2>1. \A i \in 1..Len(to_delete) : to_delete[i] \in 1..Len(nodes)
    BY ElementOfSeq DEF IInv, TypeOK, HeapOK
  <2>. QED
    BY <1>1, <2>1 DEF IInv, TypeOK, HeapOK
<1>6. UNCHANGED <<envs, current_env_id>>
  BY <1>1 DEF tables
<1>7. Grows /\ Len(nodes') = Len(nodes)
  <2>1. /\ nodes' \in Seq(Nodes(Len(nodes))) /\ Len(nodes') = Len(nodes)
        /\ UNCHANGED <<to_delete, root>> /\ TablesOK' /\ Len(envs) <= Len(envs')
    BY <1>1, <1>6 DEF IInv, TypeOK, HeapOK, TablesOK
  <2>. QED
    BY <1>3, <1>5, <2>1, ChangeGrows DEF IInv
<1>8. Pops(NULL, pos) /\ NULL \in 0 .. Len(nodes')
  BY <1>1, <1>2, <1>4, <1>7 DEF Pops, NULL
<1>9. TypeOK' /\ Nested' /\ NoCallYet'
  BY <1>1, <1>4, <1>7, <1>8, ReturnType, ReturnLinks DEF IInv
<1>10. Early'
  BY <1>1, <1>6, EarlyReturn
<1>. QED
  BY <1>9, <1>10 DEF IInv

-----------------------------------------------------------------------------
(* The induction. *)

(* The invariant holds when the descent begins. *)
LEMMA Initially == Init => IInv
<1>. SUFFICES ASSUME Init PROVE IInv
  OBVIOUS
<1>. DEFINE general == Frame("general")
<1>1. /\ tokens \in Inputs /\ pos = 0 /\ stack = <<general>> /\ ret = NULL
      /\ nodes = << >> /\ to_delete = << >> /\ freed = {}
      /\ envs = << >> /\ current_env_id = NoEnv /\ logged = FALSE
      /\ root = NULL /\ status = "running"
  BY DEF Init
<1>2. general \in Frames(0) /\ general.at = "general"
  BY EntryFrame DEF Labels, SpecialLabels
<1>. HIDE DEF general
<1>3. InputOK
  <2>1. tokens \in Seq(Tokens) /\ Len(tokens) > 0
    BY <1>1, InputsAssumption
  <2>. QED
    BY <1>1, <2>1 DEF InputOK
<1>4. StackOK
  BY <1>1, <1>2 DEF StackOK, Refs, NULL
<1>5. HeapOK
  BY <1>1 DEF HeapOK, Refs, NULL
<1>6. TablesOK
  BY <1>1 DEF TablesOK, NoEnv
<1>7. TypeOK
  BY <1>1, <1>3, <1>4, <1>5, <1>6 DEF TypeOK
<1>8. Len(stack) = 1 /\ stack[1].at = "general" /\ Top.at = "general"
  BY <1>1, <1>2 DEF Top
<1>. QED
  BY <1>7, <1>8 DEF IInv, Early, Nested, NoCallYet, EarlyLabels

(* Every step keeps it. *)
LEMMA Inductive == IInv /\ [Next]_vars => IInv'
<1>. SUFFICES ASSUME IInv, [Next]_vars PROVE IInv'
  OBVIOUS
<1>1. CASE Declaration
  BY <1>1, ProgramSteps, AcceptStep, RejectStep, ProgramNextStep, FuncDeclNameStep,
     FuncDeclParamsStep, FuncDeclBodyStep, ParameterSteps DEF Declaration
<1>2. CASE Statement
  BY <1>2, LeadingSteps, ConditionSteps, YieldingSteps, BodySteps, IfSteps, BlockSteps,
     StatementSteps, AssignmentSteps, InNameStep, RamsetAddrStep DEF Statement
<1>3. CASE Expression
  BY <1>3, OperatorSteps, SqrtSteps, PrimarySteps, PrimaryIdStep, FuncCallStep,
     FuncCallNameStep, FuncCallArgsStep, NumericLiteralStep, IdentifierStep DEF Expression
<1>4. CASE InvalidBufPos
  BY <1>4, Aborts DEF InvalidBufPos
<1>5. CASE UNCHANGED vars
  <2>1. /\ UNCHANGED <<tokens, pos, stack, ret, heap, tables, logged, root>>
        /\ status' \in {"running", "accepted", "rejected", "aborted"}
    BY <1>5 DEF vars, IInv, TypeOK
  <2>. QED
    BY <2>1, Still
<1>. QED
  BY <1>1, <1>2, <1>3, <1>4, <1>5 DEF Next, Terminated

(* Whatever the text, every variable of the syntax analyzer has its type:   *)
(* no local is used without a node, no reference leaves the heap, and the  *)
(* current environment is the last one (syntax_analyzer.cpp).              *)
THEOREM SyntaxTypeOK == Spec => []TypeOK
<1>1. IInv => TypeOK
  BY DEF IInv
<1>. QED
  BY <1>1, Initially, Inductive, PTL DEF Spec
=============================================================================
