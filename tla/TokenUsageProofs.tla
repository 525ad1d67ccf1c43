-------------------------- MODULE TokenUsageProofs --------------------------
(***************************************************************************)
(* For any prompts, any figures of the backend, any number of attempts and   *)
(* lines of any length: the estimate of every text is the one by positions,   *)
(* and the usage a client is told spans all attempts and is alike in both      *)
(* modes.                                                                    *)
(*                                                                          *)
(* The estimate is a fold over a text.  The folds of the community modules    *)
(* choose a function on sets of positions; that there is one is proved here    *)
(* by induction, for one set of numbers at a time (SetInduction), so that what *)
(* a text of any length counts can be proved.                                *)
(***************************************************************************)
EXTENDS TokenUsage, FiniteSetTheorems, TLAPS

-----------------------------------------------------------------------------
(* Induction and folds *)

(* Induction over the natural numbers, for a set: the least number outside   *)
(* of it, if there were one, would have a predecessor outside of it.         *)
LEMMA SetInduction ==
  ASSUME NEW S, 0 \in S, \A n \in Nat : n \in S => n + 1 \in S
  PROVE  Nat \subseteq S
<1> DEFINE T == Nat \ S
<1> SUFFICES ASSUME T # {} PROVE FALSE
  OBVIOUS
<1>1. PICK x \in T : \A y \in T : <<y, x>> \notin OpToRel(<, Nat)
  <2>1. T \subseteq Nat
    BY DEF T
  <2> QED
    BY <2>1, NatLessThanWellFounded, WFMin
<1>2. x \in Nat /\ x # 0
  OBVIOUS
<1>3. x - 1 \in T
  BY <1>2
<1>4. <<x - 1, x>> \in OpToRel(<, Nat)
  BY <1>2 DEF OpToRel
<1> QED
  BY <1>1, <1>3, <1>4

(* A set of numbers up to n, unless it is empty, has a greatest element. *)
LEMMA MaxOfInterval ==
  ASSUME NEW n \in Nat, NEW s \in SUBSET (1..n), s # {}
  PROVE  Max(s) \in s /\ \A y \in s : y =< Max(s)
<1> DEFINE S == {k \in Nat : \A t \in SUBSET (1..k) :
                              t # {} => \E x \in t : \A y \in t : y =< x}
<1>1. 0 \in S
  <2>1. 1..0 = {}
    OBVIOUS
  <2>2. \A t \in SUBSET (1..0) : t = {}
    BY <2>1
  <2> QED
    BY <2>2
<1>2. ASSUME NEW k \in Nat, k \in S PROVE k + 1 \in S
  <2>1. ASSUME NEW t \in SUBSET (1..(k + 1)), t # {} PROVE \E x \in t : \A y \in t : y =< x
    <3>1. CASE k + 1 \in t
      BY <3>1
    <3>2. CASE k + 1 \notin t
      <4>1. t \in SUBSET (1..k)
        BY <3>2
      <4> QED
        BY <1>2, <2>1, <4>1
    <3> QED
      BY <3>1, <3>2
  <2> QED
    BY <2>1
<1>3. n \in S
  <2> HIDE DEF S
  <2> QED
    BY <1>1, <1>2, SetInduction
<1>4. \E x \in s : \A y \in s : x >= y
  BY <1>3
<1> QED
  BY <1>4 DEF Max

(* The numbers up to i, without i: how a fold over the positions of a        *)
(* sequence takes its last one.                                              *)
LEMMA InitialSegment ==
  ASSUME NEW n \in Nat, NEW i \in 1..n
  PROVE  /\ 1..i \in SUBSET (1..n)
         /\ 1..i # {}
         /\ (1..i) \ {i} = 1..(i - 1)
         /\ Max(1..i) = i
<1>1. i \in Nat /\ i \in 1..i
  OBVIOUS
<1>2. 1..i \in SUBSET (1..n)
  OBVIOUS
<1>3. (1..i) \ {i} = 1..(i - 1)
  OBVIOUS
<1>4. Max(1..i) \in 1..i /\ i =< Max(1..i)
  <2>1. 1..i \in SUBSET (1..i) /\ 1..i # {}
    BY <1>1
  <2> QED
    BY <1>1, <2>1, MaxOfInterval
<1> QED
  BY <1>1, <1>2, <1>3, <1>4

(* One equation of a fold over sets of positions, the greatest position      *)
(* last.                                                                     *)
FoldStep(g, s, base, op) ==
  IF s = {} THEN base ELSE op[<<Max(s), g[s \ {Max(s)}]>>]

FoldsOver(g, k, base, op) == \A s \in SUBSET (1..k) : g[s] = FoldStep(g, s, base, op)

HasFold(k, V, base, op) == \E g \in [SUBSET (1..k) -> V] : FoldsOver(g, k, base, op)

(* For any base and any function to fold with there is a function that       *)
(* satisfies the equations of the fold for all sets of positions up to n.    *)
LEMMA FoldExists ==
  ASSUME NEW n \in Nat, NEW V, NEW base \in V, NEW op \in [(1..n) \X V -> V]
  PROVE  HasFold(n, V, base, op)
<1> DEFINE S == {k \in Nat : k =< n => HasFold(k, V, base, op)}
<1>1. 0 \in S
  <2> DEFINE g == [s \in SUBSET (1..0) |-> base]
  <2>1. g \in [SUBSET (1..0) -> V]
    OBVIOUS
  <2>2. FoldsOver(g, 0, base, op)
    <3>1. SUBSET (1..0) = {{}}
      OBVIOUS
    <3>2. g[{}] = base
      BY <3>1
    <3> QED
      BY <3>1, <3>2 DEF FoldsOver, FoldStep
  <2>3. HasFold(0, V, base, op)
    BY <2>1, <2>2 DEF HasFold
  <2> QED
    BY <2>3
<1>2. ASSUME NEW k \in Nat, k \in S PROVE k + 1 \in S
  <2> SUFFICES ASSUME k + 1 =< n PROVE HasFold(k + 1, V, base, op)
    OBVIOUS
  <2>0. HasFold(k, V, base, op)
    BY <1>2
  <2>1. PICK g \in [SUBSET (1..k) -> V] : FoldsOver(g, k, base, op)
    BY <2>0 DEF HasFold
  <2> DEFINE h == [s \in SUBSET (1..(k + 1)) |->
                     IF k + 1 \in s THEN op[<<k + 1, g[s \ {k + 1}]>>] ELSE g[s]]
  <2>2. ASSUME NEW s \in SUBSET (1..(k + 1)) PROVE s \ {k + 1} \in SUBSET (1..k)
    BY <2>2
  <2>3. h \in [SUBSET (1..(k + 1)) -> V]
    <3>1. ASSUME NEW s \in SUBSET (1..(k + 1)) 
          PROVE  (IF k + 1 \in s THEN op[<<k + 1, g[s \ {k + 1}]>>] ELSE g[s]) \in V
      <4>1. g[s \ {k + 1}] \in V /\ k + 1 \in 1..n
        BY <2>2
      <4>2. k + 1 \notin s => s = s \ {k + 1}
        OBVIOUS
      <4> QED
        BY <4>1, <4>2
    <3> QED
      BY <3>1
  <2>4. ASSUME NEW s \in SUBSET (1..(k + 1)), k + 1 \notin s
        PROVE  h[s] = FoldStep(h, s, base, op)
    <3>1. s \in SUBSET (1..k)
      BY <2>4
    <3>0. s \ {Max(s)} \in SUBSET (1..k)
      BY <3>1
    <3>2. h[s] = g[s] /\ h[s \ {Max(s)}] = g[s \ {Max(s)}]
      BY <2>4, <3>0, <3>1
    <3> QED
      BY <2>1, <3>1, <3>2 DEF FoldsOver, FoldStep
  <2>5. ASSUME NEW s \in SUBSET (1..(k + 1)), k + 1 \in s
        PROVE  h[s] = FoldStep(h, s, base, op)
    <3>1. Max(s) = k + 1
      <4>1. Max(s) \in s /\ \A y \in s : y =< Max(s)
        <5>1. k + 1 \in Nat /\ s # {}
          BY <2>5
        <5> QED
          BY <5>1, MaxOfInterval
      <4>2. Max(s) \in 1..(k + 1) /\ k + 1 =< Max(s)
        BY <2>5, <4>1
      <4> QED
        BY <4>2
    <3>2. h[s] = op[<<k + 1, g[s \ {k + 1}]>>] /\ h[s \ {k + 1}] = g[s \ {k + 1}]
      BY <2>2, <2>5
    <3> QED
      BY <2>5, <3>1, <3>2 DEF FoldStep
  <2>6. FoldsOver(h, k + 1, base, op)
    BY <2>4, <2>5 DEF FoldsOver
  <2> QED
    BY <2>3, <2>6 DEF HasFold
<1>3. n \in S
  <2> HIDE DEF S
  <2> QED
    BY <1>1, <1>2, SetInduction
<1> QED
  BY <1>3
-----------------------------------------------------------------------------
(* Reading a text *)

(* The state of the loop over the runes of a text (utils.go:86-111), and the *)
(* states it passes through.                                                 *)
States == [words : Nat, punctuation : Nat, cjk : Nat, inWord : BOOLEAN]

LoopOf(text, st) ==
  /\ st \in [0..Len(text) -> States]
  /\ st[0] = Unread
  /\ \A i \in 1..Len(text) : st[i] = Read(st[i - 1], text[i])

(* A turn of the loop leads from states to states. *)
LEMMA ReadType ==
  ASSUME NEW s \in States, NEW class \in Classes
  PROVE  Read(s, class) \in States
BY DEF States, Classes, Read

(* Only a letter begins a word; only a letter or a wide rune leaves one      *)
(* open.                                                                     *)
LEMMA ReadInWord ==
  ASSUME NEW s, NEW class, NEW t, t = Read(s, class)
  PROVE  t.inWord <=> (class = "letter" \/ (class = "wide" /\ s.inWord))
<1>1. Read(s, class).inWord <=> (class = "letter" \/ (class = "wide" /\ s.inWord))
  BY Zenon DEF Read
<1> QED
  BY <1>1, Zenon

(* The fold over a text is a loop: it passes through a state per rune, each  *)
(* got from the one before by one turn, and ends in the last                 *)
(* (utils.go:94-111).                                                        *)
LEMMA CountLoops ==
  ASSUME NEW text \in Seq(Classes)
  PROVE  \E st : LoopOf(text, st) /\ Scan(text) = st[Len(text)]
<1> DEFINE n == Len(text)
           Eq(f) == f = [s \in SUBSET (1..n) |->
                    IF s = {} THEN Unread ELSE Read(f[s \ {Max(s)}], text[Max(s)])]
           F == CHOOSE f : Eq(f)
<1>1. n \in Nat /\ DOMAIN text = 1..n /\ \A i \in 1..n : text[i] \in Classes
  OBVIOUS
<1>2. Scan(text) = F[1..n]
  BY <1>1 DEF Scan, FoldLeft, MapThenFoldSet
<1>3. \E f : Eq(f)
  <2> DEFINE op == [p \in (1..n) \X States |-> Read(p[2], text[p[1]])]
  <2>1. op \in [(1..n) \X States -> States]
    BY <1>1, ReadType
  <2>2. Unread \in States
    BY DEF Unread, States
  <2>3. HasFold(n, States, Unread, op)
    <3> HIDE DEF op
    <3> QED
      BY <1>1, <2>1, <2>2, FoldExists
  <2>4. PICK g \in [SUBSET (1..n) -> States] : FoldsOver(g, n, Unread, op)
    BY <2>3 DEF HasFold
  <2>5. ASSUME NEW s \in SUBSET (1..n)
        PROVE  g[s] = IF s = {} THEN Unread ELSE Read(g[s \ {Max(s)}], text[Max(s)])
    <3>1. CASE s = {}
      BY <2>4, <3>1 DEF FoldsOver, FoldStep
    <3>2. CASE s # {}
      <4>1. Max(s) \in 1..n /\ g[s \ {Max(s)}] \in States
        BY <1>1, <3>2, MaxOfInterval
      <4>2. g[s] = op[<<Max(s), g[s \ {Max(s)}]>>]
        BY <2>4, <3>2 DEF FoldsOver, FoldStep
      <4> QED
        BY <3>2, <4>1, <4>2
    <3> QED
      BY <3>1, <3>2
  <2>6. Eq(g)
    BY <2>5
  <2> QED
    BY <2>6
<1>4. Eq(F)
  BY <1>3
<1> DEFINE st == [i \in 0..n |-> F[1..i]]
<1>5. F[1..0] = Unread
  <2> HIDE DEF F
  <2> QED
    BY <1>1, <1>4
<1>6. ASSUME NEW i \in 1..n PROVE F[1..i] = Read(F[1..(i - 1)], text[i])
  <2>1. 1..i \in SUBSET (1..n) /\ 1..i # {} /\ (1..i) \ {i} = 1..(i - 1) /\ Max(1..i) = i
    BY <1>1, InitialSegment
  <2> HIDE DEF F
  <2>3. F[1..i] = Read(F[(1..i) \ {Max(1..i)}], text[Max(1..i)])
    BY <1>4, <2>1
  <2> QED
    BY <2>1, <2>3
<1> DEFINE S == {i \in Nat : i =< n => F[1..i] \in States}
<1> HIDE DEF F
<1>7. n \in S /\ \A i \in 0..n : i \in S
  <2>1. F[1..0] \in States
    BY <1>5 DEF Unread, States
  <2>1a. 0 \in S
    BY <2>1
  <2>2. ASSUME NEW k \in Nat, k \in S PROVE k + 1 \in S
    <3> SUFFICES ASSUME k + 1 =< n PROVE F[1..(k + 1)] \in States
      OBVIOUS
    <3>1. F[1..k] \in States /\ text[k + 1] \in Classes
      BY <1>1, <2>2
    <3>2. F[1..(k + 1)] = Read(F[1..k], text[k + 1])
      <4>1. k + 1 \in 1..n /\ (k + 1) - 1 = k
        BY <1>1
      <4> QED
        BY <1>6, <4>1
    <3> QED
      BY <3>1, <3>2, ReadType
  <2> HIDE DEF S
  <2>3. Nat \subseteq S
    BY <2>1a, <2>2, SetInduction
  <2> QED
    BY <1>1, <2>3
<1>8. LoopOf(text, st)
  <2>1. \A i \in 0..n : F[1..i] \in States
    BY <1>1, <1>7
  <2>2. \A i \in 1..n : i \in 0..n /\ i - 1 \in 0..n
    BY <1>1
  <2>3. 0 \in 0..n
    BY <1>1
  <2> QED
    BY <1>1, <1>5, <1>6, <2>1, <2>2, <2>3 DEF LoopOf
<1>9. st[n] = F[1..n]
  BY <1>1
<1> QED
  BY <1>2, <1>8, <1>9

(* Whether a word reaches a position, from whether one reaches the position  *)
(* before.                                                                   *)
LEMMA WordGoesOn ==
  ASSUME NEW text \in Seq(Classes), NEW j \in 1..Len(text)
  PROVE  InWordAt(text, j) <=>
           text[j] = "letter" \/ (text[j] = "wide" /\ InWordAt(text, j - 1))
<1>0. j \in Nat /\ j >= 1
  OBVIOUS
<1>1. ASSUME text[j] = "letter" PROVE InWordAt(text, j)
  <2>1. j \in 1..j /\ \A k \in j..j : k = j
    BY <1>0
  <2> QED
    BY <1>1, <2>1 DEF InWordAt
<1>2. ASSUME text[j] = "wide", InWordAt(text, j - 1) PROVE InWordAt(text, j)
  <2>1. PICK i \in 1..(j - 1) :
          text[i] = "letter" /\ \A k \in i..(j - 1) : text[k] \in {"letter", "wide"}
    BY <1>2 DEF InWordAt
  <2>2. i \in 1..j /\ \A k \in i..j : k = j \/ k \in i..(j - 1)
    BY <1>0
  <2> QED
    BY <1>2, <2>1, <2>2 DEF InWordAt
<1>3. ASSUME InWordAt(text, j), text[j] # "letter"
      PROVE  text[j] = "wide" /\ InWordAt(text, j - 1)
  <2>1. PICK i \in 1..j :
          text[i] = "letter" /\ \A k \in i..j : text[k] \in {"letter", "wide"}
    BY <1>3 DEF InWordAt
  <2>2. i # j /\ i \in 1..(j - 1) /\ j \in i..j /\ \A k \in i..(j - 1) : k \in i..j
    BY <1>0, <1>3, <2>1
  <2> QED
    BY <1>3, <2>1, <2>2 DEF InWordAt
<1> QED
  BY <1>1, <1>2, <1>3

(* The flag of the loop says whether a word reaches the rune just read. *)
LEMMA StateInWord ==
  ASSUME NEW text \in Seq(Classes), NEW st, LoopOf(text, st), NEW i \in 0..Len(text)
  PROVE  st[i].inWord <=> InWordAt(text, i)
<1> DEFINE S == {k \in Nat : k =< Len(text) => st[k].inWord <=> InWordAt(text, k)}
<1>1. 0 \in S
  <2>1. ~InWordAt(text, 0)
    BY DEF InWordAt
  <2>2. st[0].inWord = FALSE
    BY DEF LoopOf, Unread
  <2> QED
    BY <2>1, <2>2
<1>2. ASSUME NEW k \in Nat, k \in S PROVE k + 1 \in S
  <2> SUFFICES ASSUME k + 1 =< Len(text) PROVE st[k + 1].inWord <=> InWordAt(text, k + 1)
    OBVIOUS
  <2>1. k + 1 \in 1..Len(text) /\ (k + 1) - 1 = k
    OBVIOUS
  <2>2. st[k + 1] = Read(st[k], text[k + 1]) /\ st[k] \in States
    BY <2>1 DEF LoopOf
  <2>3. InWordAt(text, k + 1) <=>
          text[k + 1] = "letter" \/ (text[k + 1] = "wide" /\ InWordAt(text, k))
    BY <2>1, WordGoesOn
  <2>4. st[k].inWord <=> InWordAt(text, k)
    BY <1>2, <2>1
  <2>5. st[k + 1].inWord <=> (text[k + 1] = "letter" \/ (text[k + 1] = "wide" /\ st[k].inWord))
    BY <2>2, ReadInWord
  <2> QED
    BY <2>3, <2>4, <2>5
<1>3. i \in S
  <2> HIDE DEF S
  <2> QED
    BY <1>1, <1>2, SetInduction
<1> QED
  BY <1>3

(* The first i positions that hold a rune of a class, and those at which a   *)
(* word ends, a blank following within the first i.                          *)
RunesUpTo(text, i, class) == {j \in 1..i : text[j] = class}

WordsUpTo(text, i) == {j \in 1..i : j < i /\ InWordAt(text, j) /\ text[j + 1] = "blank"}

(* A new element makes a finite set larger by one. *)
LEMMA OneMore ==
  ASSUME NEW S, NEW x, IsFiniteSet(S), x \notin S
  PROVE  Cardinality(S \cup {x}) = Cardinality(S) + 1
BY FS_AddElement

(* After i runes the counters of the loop count positions among the first i. *)
LEMMA StateCounts ==
  ASSUME NEW text \in Seq(Classes), NEW st, LoopOf(text, st), NEW i \in 0..Len(text)
  PROVE  /\ st[i].words = Cardinality(WordsUpTo(text, i))
         /\ st[i].punctuation = Cardinality(RunesUpTo(text, i, "punct"))
         /\ st[i].cjk = Cardinality(RunesUpTo(text, i, "wide"))
<1> DEFINE C(k) == /\ st[k].words = Cardinality(WordsUpTo(text, k))
                   /\ st[k].punctuation = Cardinality(RunesUpTo(text, k, "punct"))
                   /\ st[k].cjk = Cardinality(RunesUpTo(text, k, "wide"))
           S == {k \in Nat : k =< Len(text) => C(k)}
<1>1. 0 \in S
  <2>1. WordsUpTo(text, 0) = {} /\ \A c : RunesUpTo(text, 0, c) = {}
    BY DEF WordsUpTo, RunesUpTo
  <2>2. st[0].words = 0 /\ st[0].punctuation = 0 /\ st[0].cjk = 0
    BY DEF LoopOf, Unread
  <2>3. C(0)
    BY <2>1, <2>2, FS_EmptySet
  <2> QED
    BY <2>3
<1>2. ASSUME NEW k \in Nat, k \in S PROVE k + 1 \in S
  <2> SUFFICES ASSUME k + 1 =< Len(text) PROVE C(k + 1)
    OBVIOUS
  <2>1. k + 1 \in 1..Len(text) /\ k \in 0..Len(text) /\ (k + 1) - 1 = k
    OBVIOUS
  <2>2. st[k + 1] = Read(st[k], text[k + 1]) /\ st[k] \in States
    BY <2>1 DEF LoopOf
  <2>3. C(k)
    BY <1>2, <2>1
  <2>4. /\ IsFiniteSet(WordsUpTo(text, k)) /\ k \notin WordsUpTo(text, k)
        /\ \A c : IsFiniteSet(RunesUpTo(text, k, c)) /\ k + 1 \notin RunesUpTo(text, k, c)
    <3>1. IsFiniteSet(1..k)
      BY FS_Interval
    <3> QED
      BY <3>1, FS_Subset DEF WordsUpTo, RunesUpTo
  <2>5. ASSUME NEW c
        PROVE  Cardinality(RunesUpTo(text, k + 1, c)) =
                 IF text[k + 1] = c THEN Cardinality(RunesUpTo(text, k, c)) + 1
                                    ELSE Cardinality(RunesUpTo(text, k, c))
    <3>1. RunesUpTo(text, k + 1, c) = IF text[k + 1] = c THEN RunesUpTo(text, k, c) \cup {k + 1}
                                                         ELSE RunesUpTo(text, k, c)
      BY DEF RunesUpTo
    <3> QED
      BY <2>4, <3>1, OneMore
  <2>6. Cardinality(WordsUpTo(text, k + 1)) =
          IF text[k + 1] = "blank" /\ st[k].inWord THEN Cardinality(WordsUpTo(text, k)) + 1
                                                    ELSE Cardinality(WordsUpTo(text, k))
    <3>1. st[k].inWord <=> InWordAt(text, k)
      BY <2>1, StateInWord
    <3>2. CASE text[k + 1] = "blank" /\ InWordAt(text, k)
      <4>1. k \in 1..k
        BY <3>2 DEF InWordAt
      <4>2. WordsUpTo(text, k + 1) = WordsUpTo(text, k) \cup {k}
        BY <3>2, <4>1 DEF WordsUpTo
      <4> QED
        BY <2>4, <3>1, <3>2, <4>2, OneMore
    <3>3. CASE ~(text[k + 1] = "blank" /\ InWordAt(text, k))
      <4>1. WordsUpTo(text, k + 1) = WordsUpTo(text, k)
        BY <3>3 DEF WordsUpTo
      <4> QED
        BY <3>1, <3>3, <4>1
    <3> QED
      BY <3>2, <3>3
  <2> QED
    BY <2>2, <2>3, <2>5, <2>6 DEF Read
<1>3. i \in S
  <2> HIDE DEF S
  <2> QED
    BY <1>1, <1>2, SetInduction
<1> QED
  BY <1>3

(* The single pass over a text counts what the definition by positions       *)
(* counts: the ends of words that a blank or the end of the text follows,    *)
(* the punctuation and the wide runes. For every text, however long          *)
(* (utils.go:86-127).                                                        *)
THEOREM CountingByPosition ==
  ASSUME NEW text \in Seq(Classes)
  PROVE  CountTokens(text) = TokensByPosition(text)
<1> DEFINE n == Len(text)
<1>1. n \in Nat /\ n \in 0..n /\ DOMAIN text = 1..n
  OBVIOUS
<1>2. PICK st : LoopOf(text, st) /\ Scan(text) = st[n]
  BY CountLoops
<1>3. /\ st[n].punctuation = RunesOf(text, "punct")
      /\ st[n].cjk = RunesOf(text, "wide")
  <2>1. \A c : RunesUpTo(text, n, c) = {i \in DOMAIN text : text[i] = c}
    BY <1>1 DEF RunesUpTo
  <2> QED
    BY <1>1, <1>2, <2>1, StateCounts DEF RunesOf
<1>4. (IF st[n].inWord THEN st[n].words + 1 ELSE st[n].words) = WordsByPosition(text)
  <2> DEFINE Ends == {j \in DOMAIN text :
                        InWordAt(text, j) /\ (j = Len(text) \/ text[j + 1] = "blank")}
  <2>1. st[n].words = Cardinality(WordsUpTo(text, n)) /\ (st[n].inWord <=> InWordAt(text, n))
    BY <1>1, <1>2, StateCounts, StateInWord
  <2>2. IsFiniteSet(WordsUpTo(text, n)) /\ n \notin WordsUpTo(text, n)
    <3>1. IsFiniteSet(1..n)
      BY <1>1, FS_Interval
    <3> QED
      BY <1>1, <3>1, FS_Subset DEF WordsUpTo
  <2>3. CASE InWordAt(text, n)
    <3>1. n \in 1..n
      BY <1>1, <2>3 DEF InWordAt
    <3>2. Ends = WordsUpTo(text, n) \cup {n}
      BY <1>1, <2>3, <3>1 DEF WordsUpTo
    <3> QED
      BY <2>1, <2>2, <2>3, <3>2, OneMore DEF WordsByPosition
  <2>4. CASE ~InWordAt(text, n)
    <3>1. Ends = WordsUpTo(text, n)
      BY <1>1, <2>4 DEF WordsUpTo
    <3> QED
      BY <2>1, <2>4, <3>1 DEF WordsByPosition
  <2> QED
    BY <2>3, <2>4
<1> QED
  BY <1>2, <1>3, <1>4 DEF CountTokens, TokensByPosition
-----------------------------------------------------------------------------
(* What the estimate is made of *)

(* What a text counts: its words, the last of which may still be open, its   *)
(* punctuation and its wide runes.                                           *)
WordsIn(s) == IF s.inWord THEN s.words + 1 ELSE s.words

Words(text) == WordsIn(Scan(text))
Puncts(text) == Scan(text).punctuation
Wides(text) == Scan(text).cjk

(* Those three are natural numbers, and the estimate is made of them. *)
LEMMA ScanType ==
  ASSUME NEW text \in Seq(Classes)
  PROVE  /\ Scan(text) \in States
         /\ Words(text) \in Nat /\ Puncts(text) \in Nat /\ Wides(text) \in Nat
         /\ CountTokens(text) = Tokens(Words(text), Puncts(text), Wides(text))
<1>1. PICK st : LoopOf(text, st) /\ Scan(text) = st[Len(text)]
  BY CountLoops
<1>2. Scan(text) \in States
  BY <1>1 DEF LoopOf
<1> QED
  BY <1>2 DEF States, WordsIn, Words, Puncts, Wides, CountTokens

(* Rounding loses less than a token for the words and less than one for the  *)
(* wide runes, and never more than a third of all.                           *)
LEMMA TokensType ==
  ASSUME NEW w \in Nat, NEW p \in Nat, NEW c \in Nat
  PROVE  /\ Tokens(w, p, c) \in Nat
         /\ 10 * Tokens(w, p, c) =< 13 * w + 10 * p + 15 * c
         /\ 30 * Tokens(w, p, c) >= 26 * w + 20 * p + 30 * c
BY DEF Tokens

(* Two texts estimated apart are estimated no higher than together. *)
LEMMA TokensAdd ==
  ASSUME NEW w \in Nat, NEW p \in Nat, NEW c \in Nat,
         NEW ww \in Nat, NEW pp \in Nat, NEW cc \in Nat
  PROVE  Tokens(w, p, c) + Tokens(ww, pp, cc) =< Tokens(w + ww, p + pp, c + cc)
BY DEF Tokens

(* A word more costs at most two tokens more, and never fewer. *)
LEMMA TokensGrow ==
  ASSUME NEW w \in Nat, NEW ww \in Nat, NEW p \in Nat, NEW c \in Nat, w =< ww
  PROVE  /\ Tokens(w, p, c) =< Tokens(ww, p, c)
         /\ Tokens(ww, p, c) =< Tokens(w, p, c) + 2 * (ww - w)
BY DEF Tokens

(* A text with any rune that is not blank counts as one token at least, so   *)
(* the floor of one token for such a text (utils.go:122) never bites.        *)
THEOREM AtLeastOne ==
  ASSUME NEW text \in Seq(Classes), \E i \in DOMAIN text : text[i] # "blank"
  PROVE  CountTokens(text) >= 1
<1> DEFINE n == Len(text)
<1>1. n \in Nat /\ DOMAIN text = 1..n
  OBVIOUS
<1>2. PICK st : LoopOf(text, st) /\ Scan(text) = st[n]
  BY CountLoops
<1> DEFINE Q(k) == (\E i \in 1..k : text[i] # "blank") =>
                     st[k].inWord \/ st[k].words + st[k].punctuation + st[k].cjk > 0
           S == {k \in Nat : k =< n => Q(k)}
<1>3. 0 \in S
  OBVIOUS
<1>4. ASSUME NEW k \in Nat, k \in S PROVE k + 1 \in S
  <2> SUFFICES ASSUME k + 1 =< n, NEW i \in 1..(k + 1), text[i] # "blank"
               PROVE  \/ st[k + 1].inWord
                      \/ st[k + 1].words + st[k + 1].punctuation + st[k + 1].cjk > 0
    OBVIOUS
  <2>1. k + 1 \in 1..n /\ (k + 1) - 1 = k /\ k \in 0..n /\ text[k + 1] \in Classes
    BY <1>1
  <2>2. st[k + 1] = Read(st[k], text[k + 1]) /\ st[k] \in States
    BY <1>2, <2>1 DEF LoopOf
  <2>3. st[k + 1].inWord <=> (text[k + 1] = "letter" \/ (text[k + 1] = "wide" /\ st[k].inWord))
    BY <2>2, ReadInWord
  <2>4. i = k + 1 \/ Q(k)
    BY <1>4, <2>1
  <2>8. st[k + 1] \in States
    BY <2>1, <2>2, ReadType
  <2>5. CASE text[k + 1] \in {"punct", "wide"}
    <3>1. st[k + 1].words = st[k].words
      BY <2>2, <2>5 DEF Read
    <3>2. st[k + 1].punctuation + st[k + 1].cjk > st[k].punctuation + st[k].cjk
      BY <2>2, <2>5 DEF Read, States
    <3> QED
      BY <2>2, <2>8, <3>1, <3>2 DEF States
  <2>7. CASE text[k + 1] = "letter"
    BY <2>3, <2>7, Zenon
  <2>6. CASE text[k + 1] = "blank"
    <3>1. i \in 1..k
      BY <2>6
    <3>2. st[k].inWord \/ st[k].words + st[k].punctuation + st[k].cjk > 0
      BY <2>1, <2>4, <3>1
    <3> QED
      BY <2>2, <2>6, <3>2 DEF Read, States
  <2> QED
    BY <2>1, <2>5, <2>6, <2>7 DEF Classes
<1>5. n \in S
  <2> HIDE DEF S
  <2> QED
    BY <1>1, <1>3, <1>4, SetInduction
<1>6. Scan(text).inWord \/ Scan(text).words + Scan(text).punctuation + Scan(text).cjk > 0
  BY <1>1, <1>2, <1>5
<1>7. Words(text) + Puncts(text) + Wides(text) > 0
  BY <1>6, ScanType DEF WordsIn, Words, Puncts, Wides, States
<1>8. /\ Words(text) \in Nat /\ Puncts(text) \in Nat /\ Wides(text) \in Nat
      /\ CountTokens(text) = Tokens(Words(text), Puncts(text), Wides(text))
  BY ScanType
<1> DEFINE w == Words(text)
           p == Puncts(text)
           c == Wides(text)
<1> HIDE DEF w, p, c
<1>9. w \in Nat /\ p \in Nat /\ c \in Nat /\ w + p + c > 0
  BY <1>7, <1>8 DEF w, p, c
<1>10. Tokens(w, p, c) \in Nat /\ 30 * Tokens(w, p, c) >= 26 * w + 20 * p + 30 * c
  BY <1>9, TokensType
<1>11. Tokens(w, p, c) >= 1
  BY <1>9, <1>10
<1> QED
  BY <1>8, <1>11 DEF w, p, c

(* The loop does not look ahead: texts that begin alike are read alike. *)
LEMMA SamePrefix ==
  ASSUME NEW u \in Seq(Classes), NEW v \in Seq(Classes), NEW su, NEW sv,
         LoopOf(u, su), LoopOf(v, sv), NEW n \in Nat, n =< Len(u), n =< Len(v),
         \A i \in 1..n : u[i] = v[i]
  PROVE  su[n] = sv[n]
<1> DEFINE S == {k \in Nat : k =< n => su[k] = sv[k]}
<1>1. 0 \in S
  BY DEF LoopOf
<1>2. ASSUME NEW k \in Nat, k \in S PROVE k + 1 \in S
  <2> SUFFICES ASSUME k + 1 =< n PROVE su[k + 1] = sv[k + 1]
    OBVIOUS
  <2>1. k + 1 \in 1..n /\ k + 1 \in 1..Len(u) /\ k + 1 \in 1..Len(v) /\ (k + 1) - 1 = k
    OBVIOUS
  <2>2. su[k + 1] = Read(su[k], u[k + 1]) /\ sv[k + 1] = Read(sv[k], v[k + 1])
    BY <2>1 DEF LoopOf
  <2> QED
    BY <1>2, <2>1, <2>2
<1>3. n \in S
  <2> HIDE DEF S
  <2> QED
    BY <1>1, <1>2, SetInduction
<1> QED
  BY <1>3

-----------------------------------------------------------------------------
(* Totals *)

(* The partial sums of a list of counts. *)
SumsOf(w, st) ==
  /\ st \in [0..Len(w) -> Nat]
  /\ st[0] = 0
  /\ \A i \in 1..Len(w) : st[i] = st[i - 1] + w[i]

(* The total of a list is the last of its partial sums (utils.go:130-146). *)
LEMMA TotalLoops ==
  ASSUME NEW w \in Seq(Nat)
  PROVE  \E st : SumsOf(w, st) /\ Total(w) = st[Len(w)]
<1> DEFINE n == Len(w)
           Eq(f) == f = [s \in SUBSET (1..n) |->
                    IF s = {} THEN 0 ELSE f[s \ {Max(s)}] + w[Max(s)]]
           F == CHOOSE f : Eq(f)
<1>1. n \in Nat /\ DOMAIN w = 1..n /\ \A i \in 1..n : w[i] \in Nat
  OBVIOUS
<1>2. Total(w) = F[1..n]
  BY <1>1 DEF Total, FoldLeft, MapThenFoldSet
<1>3. \E f \in [SUBSET (1..n) -> Nat] : Eq(f)
  <2> DEFINE op == [p \in (1..n) \X Nat |-> p[2] + w[p[1]]]
  <2>1. op \in [(1..n) \X Nat -> Nat]
    BY <1>1
  <2>2. HasFold(n, Nat, 0, op)
    <3> HIDE DEF op
    <3> QED
      BY <1>1, <2>1, FoldExists
  <2>3. PICK g \in [SUBSET (1..n) -> Nat] : FoldsOver(g, n, 0, op)
    BY <2>2 DEF HasFold
  <2>4. ASSUME NEW s \in SUBSET (1..n)
        PROVE  g[s] = IF s = {} THEN 0 ELSE g[s \ {Max(s)}] + w[Max(s)]
    <3>1. CASE s = {}
      BY <2>3, <3>1 DEF FoldsOver, FoldStep
    <3>2. CASE s # {}
      <4>1. Max(s) \in 1..n /\ g[s \ {Max(s)}] \in Nat
        BY <1>1, <3>2, MaxOfInterval
      <4>2. g[s] = op[<<Max(s), g[s \ {Max(s)}]>>]
        BY <2>3, <3>2 DEF FoldsOver, FoldStep
      <4> QED
        BY <3>2, <4>1, <4>2
    <3> QED
      BY <3>1, <3>2
  <2>5. Eq(g)
    BY <2>4
  <2> QED
    BY <2>5
<1>4. Eq(F) /\ DOMAIN F = SUBSET (1..n)
  BY <1>3
<1> DEFINE st == [i \in 0..n |-> F[1..i]]
<1> HIDE DEF F
<1>5. F[1..0] = 0
  BY <1>1, <1>4
<1>6. ASSUME NEW i \in 1..n PROVE F[1..i] = F[1..(i - 1)] + w[i]
  <2>1. 1..i \in SUBSET (1..n) /\ 1..i # {} /\ (1..i) \ {i} = 1..(i - 1) /\ Max(1..i) = i
    BY <1>1, InitialSegment
  <2>2. F[1..i] = F[(1..i) \ {Max(1..i)}] + w[Max(1..i)]
    BY <1>4, <2>1
  <2> QED
    BY <2>1, <2>2
<1> DEFINE S == {i \in Nat : i =< n => F[1..i] \in Nat}
<1>7. \A i \in 0..n : i \in S
  <2>1. 0 \in S
    BY <1>5
  <2>2. ASSUME NEW k \in Nat, k \in S PROVE k + 1 \in S
    <3> SUFFICES ASSUME k + 1 =< n PROVE F[1..(k + 1)] \in Nat
      OBVIOUS
    <3>1. F[1..k] \in Nat /\ w[k + 1] \in Nat
      BY <1>1, <2>2
    <3>2. k + 1 \in 1..n /\ (k + 1) - 1 = k
      BY <1>1
    <3>3. F[1..(k + 1)] = F[1..k] + w[k + 1]
      BY <1>6, <3>2
    <3> QED
      BY <3>1, <3>3
  <2> HIDE DEF S
  <2>3. Nat \subseteq S
    BY <2>1, <2>2, SetInduction
  <2> QED
    BY <1>1, <2>3
<1>8. SumsOf(w, st)
  <2>1. \A i \in 0..n : F[1..i] \in Nat
    BY <1>1, <1>7
  <2>2. \A i \in 1..n : i \in 0..n /\ i - 1 \in 0..n
    BY <1>1
  <2>3. 0 \in 0..n
    BY <1>1
  <2> QED
    BY <1>1, <1>5, <1>6, <2>1, <2>2, <2>3 DEF SumsOf
<1>9. st[n] = F[1..n]
  BY <1>1
<1> QED
  BY <1>2, <1>8, <1>9

(* The total of counts is a natural number. *)
LEMMA TotalType ==
  ASSUME NEW w \in Seq(Nat)
  PROVE  Total(w) \in Nat
<1>1. PICK st : SumsOf(w, st) /\ Total(w) = st[Len(w)]
  BY TotalLoops
<1> QED
  BY <1>1 DEF SumsOf

(* Raising one of the counts raises the total by as much. *)
LEMMA TotalAdd ==
  ASSUME NEW n \in Nat, NEW w \in [1..n -> Nat], NEW a \in 1..n, NEW d \in Nat,
         NEW v \in [1..n -> Nat], v[a] = w[a] + d, \A i \in 1..n : i # a => v[i] = w[i]
  PROVE  Total(v) = Total(w) + d
<1>1. w \in Seq(Nat) /\ v \in Seq(Nat) /\ Len(w) = n /\ Len(v) = n /\ a \in Nat
  OBVIOUS
<1>2. PICK sw : SumsOf(w, sw) /\ Total(w) = sw[n]
  BY <1>1, TotalLoops
<1>3. PICK sv : SumsOf(v, sv) /\ Total(v) = sv[n]
  BY <1>1, TotalLoops
<1> DEFINE S == {k \in Nat : k =< n => sv[k] = sw[k] + (IF a =< k THEN d ELSE 0)}
<1>4. 0 \in S
  BY <1>2, <1>3 DEF SumsOf
<1>5. ASSUME NEW k \in Nat, k \in S PROVE k + 1 \in S
  <2> SUFFICES ASSUME k + 1 =< n PROVE sv[k + 1] = sw[k + 1] + (IF a =< k + 1 THEN d ELSE 0)
    OBVIOUS
  <2>1. k + 1 \in 1..n /\ (k + 1) - 1 = k /\ k \in 0..n
    OBVIOUS
  <2>2. /\ sw[k + 1] = sw[k] + w[k + 1] /\ sv[k + 1] = sv[k] + v[k + 1]
        /\ sw[k] \in Nat
    BY <1>1, <1>2, <1>3, <2>1 DEF SumsOf
  <2>3. v[k + 1] = (IF k + 1 = a THEN w[k + 1] + d ELSE w[k + 1]) /\ w[k + 1] \in Nat
    BY <2>1
  <2>4. sv[k] = sw[k] + (IF a =< k THEN d ELSE 0)
    BY <1>5, <2>1
  <2>5. a \in Nat /\ d \in Nat
    BY <1>1
  <2>6. CASE a =< k
    <3>1. sv[k] = sw[k] + d /\ v[k + 1] = w[k + 1] /\ a =< k + 1
      BY <2>3, <2>4, <2>5, <2>6
    <3> QED
      BY <2>2, <2>3, <2>5, <3>1
  <2>7. CASE a = k + 1
    <3>1. sv[k] = sw[k] /\ v[k + 1] = w[k + 1] + d
      BY <2>2, <2>3, <2>4, <2>5, <2>7
    <3> QED
      BY <2>2, <2>3, <2>5, <2>7, <3>1
  <2>8. CASE a > k + 1
    <3>1. sv[k] = sw[k] /\ v[k + 1] = w[k + 1] /\ ~(a =< k + 1)
      BY <2>2, <2>3, <2>4, <2>5, <2>8
    <3> QED
      BY <2>2, <2>3, <3>1
  <2> QED
    BY <2>5, <2>6, <2>7, <2>8
<1>6. n \in S
  <2> HIDE DEF S
  <2> QED
    BY <1>4, <1>5, SetInduction
<1> QED
  BY <1>2, <1>3, <1>6

(* Nothing counted is a total of zero. *)
LEMMA TotalOfNone ==
  ASSUME NEW n \in Nat
  PROVE  Total([a \in 1..n |-> 0]) = 0
<1> DEFINE w == [a \in 1..n |-> 0]
<1>1. w \in Seq(Nat) /\ Len(w) = n
  OBVIOUS
<1>2. PICK st : SumsOf(w, st) /\ Total(w) = st[n]
  BY <1>1, TotalLoops
<1> DEFINE S == {k \in Nat : k =< n => st[k] = 0}
<1>3. 0 \in S
  BY <1>2 DEF SumsOf
<1>4. ASSUME NEW k \in Nat, k \in S PROVE k + 1 \in S
  <2> SUFFICES ASSUME k + 1 =< n PROVE st[k + 1] = 0
    OBVIOUS
  <2>1. k + 1 \in 1..n /\ (k + 1) - 1 = k /\ st[k] = 0
    BY <1>4
  <2>2. st[k + 1] = st[k] + w[k + 1]
    BY <1>1, <1>2, <2>1 DEF SumsOf
  <2> QED
    BY <2>1, <2>2
<1>5. n \in S
  <2> HIDE DEF S
  <2> QED
    BY <1>3, <1>4, SetInduction
<1> QED
  BY <1>2, <1>5

(* The estimate of a text is a natural number. *)
LEMMA TokensOfText ==
  ASSUME NEW text \in Seq(Classes)
  PROVE  CountTokens(text) \in Nat
<1>1. /\ Words(text) \in Nat /\ Puncts(text) \in Nat /\ Wides(text) \in Nat
      /\ CountTokens(text) = Tokens(Words(text), Puncts(text), Wides(text))
  BY ScanType
<1>2. Tokens(Words(text), Puncts(text), Wides(text)) \in Nat
  BY <1>1, TokensType
<1> QED
  BY <1>1, <1>2

(* The estimate of a prompt is positive, even if it has no messages. *)
LEMMA PromptTokens ==
  ASSUME NEW contents \in Seq(Seq(Classes))
  PROVE  CalculateMessageTokens(contents) \in Nat /\ CalculateMessageTokens(contents) >= 3
<1> DEFINE w == [i \in DOMAIN contents |-> RoleTokens + CountTokens(contents[i])]
<1>1. RoleTokens \in Nat
  <2>1. <<"letter">> \in Seq(Classes)
    BY DEF Classes
  <2> QED
    BY <2>1, TokensOfText DEF RoleTokens
<1>2. \A i \in DOMAIN contents : contents[i] \in Seq(Classes)
  OBVIOUS
<1>3. w \in Seq(Nat)
  <2>1. \A i \in DOMAIN contents : RoleTokens + CountTokens(contents[i]) \in Nat
    BY <1>1, <1>2, TokensOfText
  <2>2. DOMAIN contents = 1..Len(contents) /\ Len(contents) \in Nat
    OBVIOUS
  <2>3. w \in [1..Len(contents) -> Nat]
    BY <2>1, <2>2
  <2> QED
    BY <2>2, <2>3
<1>4. Total(w) \in Nat
  BY <1>3, TotalType
<1> QED
  BY <1>4 DEF CalculateMessageTokens

-----------------------------------------------------------------------------
(* Texts joined *)

(* A rune more is a turn more. *)
LEMMA ScanOne ==
  ASSUME NEW text \in Seq(Classes), NEW class \in Classes
  PROVE  Scan(text \o <<class>>) = Read(Scan(text), class)
<1> DEFINE n == Len(text)
           more == text \o <<class>>
<1>1. /\ more \in Seq(Classes) /\ n \in Nat /\ Len(more) = n + 1 /\ more[n + 1] = class
      /\ \A i \in 1..n : text[i] = more[i]
  OBVIOUS
<1>2. PICK st : LoopOf(text, st) /\ Scan(text) = st[n]
  BY CountLoops
<1>3. PICK sm : LoopOf(more, sm) /\ Scan(more) = sm[n + 1]
  BY <1>1, CountLoops
<1>4. st[n] = sm[n]
  <2> HIDE DEF more
  <2>1. n =< Len(text) /\ n =< Len(more)
    BY <1>1
  <2> QED
    BY <1>1, <1>2, <1>3, <2>1, SamePrefix
<1>5. n + 1 \in 1..Len(more) /\ (n + 1) - 1 = n
  BY <1>1
<1>6. sm[n + 1] = Read(sm[n], class)
  BY <1>1, <1>3, <1>5 DEF LoopOf
<1> QED
  BY <1>2, <1>3, <1>4, <1>6

(* The empty text counts nothing and leaves no word open. *)
LEMMA ScanNothing ==
  Scan(<<>>) = Unread /\ Words(<<>>) = 0 /\ Puncts(<<>>) = 0 /\ Wides(<<>>) = 0
<1>1. <<>> \in Seq(Classes) /\ Len(<<>>) = 0
  OBVIOUS
<1>2. PICK st : LoopOf(<<>>, st) /\ Scan(<<>>) = st[0]
  BY <1>1, CountLoops
<1>3. Scan(<<>>) = Unread
  BY <1>2 DEF LoopOf
<1> QED
  BY <1>3 DEF Unread, WordsIn, Words, Puncts, Wides

(* A blank at the end of a text closes its word and counts nothing itself. *)
LEMMA ScanBlank ==
  ASSUME NEW text \in Seq(Classes)
  PROVE  LET more == text \o <<"blank">>
         IN  /\ more \in Seq(Classes)
             /\ ~Scan(more).inWord
             /\ Words(more) = Words(text) /\ Puncts(more) = Puncts(text)
             /\ Wides(more) = Wides(text)
<1> DEFINE more == text \o <<"blank">>
<1>0. "blank" \in Classes
  BY DEF Classes
<1>1. more \in Seq(Classes) /\ Scan(more) = Read(Scan(text), "blank")
  BY <1>0, ScanOne
<1>2. ~Scan(more).inWord
  BY <1>1, ReadInWord
<1>3. /\ Scan(more).words = IF Scan(text).inWord THEN Scan(text).words + 1 ELSE Scan(text).words
      /\ Scan(more).punctuation = Scan(text).punctuation
      /\ Scan(more).cjk = Scan(text).cjk
  BY <1>1 DEF Read
<1> QED
  BY <1>1, <1>2, <1>3 DEF WordsIn, Words, Puncts, Wides

(* s has read what t has read, but after a text that left r: the counters    *)
(* add up, except that a word r left open may go on into what was read after *)
(* it.                                                                       *)
Continues(r, s, t) ==
  /\ s.punctuation = r.punctuation + t.punctuation
  /\ s.cjk = r.cjk + t.cjk
  /\ \/ r.inWord /\ s.inWord /\ ~t.inWord /\ s.words = r.words + t.words
     \/ /\ s.inWord <=> t.inWord
        /\ \/ s.words = r.words + t.words
           \/ r.inWord /\ s.words = r.words + t.words + 1

(* The same rune read in both keeps them so. *)
LEMMA ReadOn ==
  ASSUME NEW r \in States, NEW s \in States, NEW t \in States, NEW class \in Classes,
         Continues(r, s, t)
  PROVE  Continues(r, Read(s, class), Read(t, class))
<1> DEFINE ss == Read(s, class)
           tt == Read(t, class)
<1> SUFFICES Continues(r, ss, tt)
  OBVIOUS
<1>1. /\ r.words \in Nat /\ r.punctuation \in Nat /\ r.cjk \in Nat
      /\ s.words \in Nat /\ s.punctuation \in Nat /\ s.cjk \in Nat
      /\ t.words \in Nat /\ t.punctuation \in Nat /\ t.cjk \in Nat
  BY DEF States
<1>2. /\ ss.words = (IF class = "blank" /\ s.inWord THEN s.words + 1 ELSE s.words)
      /\ tt.words = (IF class = "blank" /\ t.inWord THEN t.words + 1 ELSE t.words)
      /\ ss.punctuation = (IF class = "punct" THEN s.punctuation + 1 ELSE s.punctuation)
      /\ tt.punctuation = (IF class = "punct" THEN t.punctuation + 1 ELSE t.punctuation)
      /\ ss.cjk = (IF class = "wide" THEN s.cjk + 1 ELSE s.cjk)
      /\ tt.cjk = (IF class = "wide" THEN t.cjk + 1 ELSE t.cjk)
  BY DEF Read
<1>3. /\ ss.inWord <=> (class = "letter" \/ (class = "wide" /\ s.inWord))
      /\ tt.inWord <=> (class = "letter" \/ (class = "wide" /\ t.inWord))
  BY ReadInWord
<1> HIDE DEF ss, tt
<1>4. ss.punctuation = r.punctuation + tt.punctuation /\ ss.cjk = r.cjk + tt.cjk
  BY <1>1, <1>2 DEF Continues
<1>5. CASE r.inWord /\ s.inWord /\ ~t.inWord /\ s.words = r.words + t.words
  BY <1>1, <1>2, <1>3, <1>4, <1>5 DEF Continues, Classes
<1>6. CASE /\ s.inWord <=> t.inWord
           /\ \/ s.words = r.words + t.words
              \/ r.inWord /\ s.words = r.words + t.words + 1
  BY <1>1, <1>2, <1>3, <1>4, <1>6 DEF Continues, Classes
<1> QED
  BY <1>5, <1>6 DEF Continues

(* Reading a after b continues the reading of b. *)
LEMMA ScanJoined ==
  ASSUME NEW a \in Seq(Classes), NEW b \in Seq(Classes)
  PROVE  Continues(Scan(a), Scan(a \o b), Scan(b))
<1> DEFINE c == a \o b
           n == Len(a)
           m == Len(b)
<1>0. \A i \in 1..n : a[i] = c[i]
  OBVIOUS
<1>1. /\ c \in Seq(Classes) /\ n \in Nat /\ m \in Nat /\ Len(c) = n + m
      /\ \A i \in 1..m : c[n + i] = b[i] /\ b[i] \in Classes
  OBVIOUS
<1>2. PICK sa : LoopOf(a, sa) /\ Scan(a) = sa[n]
  BY CountLoops
<1>3. PICK sb : LoopOf(b, sb) /\ Scan(b) = sb[m]
  BY CountLoops
<1> HIDE DEF c
<1>4. PICK sc : LoopOf(c, sc) /\ Scan(c) = sc[n + m]
  BY <1>1, CountLoops
<1>5. sa[n] = sc[n]
  <2>1. n =< Len(a) /\ n =< Len(c) /\ n \in Nat /\ c \in Seq(Classes)
    BY <1>1
  <2>2. LoopOf(a, sa) /\ LoopOf(c, sc)
    BY <1>2, <1>4
  <2> HIDE DEF n
  <2> QED
    BY <1>0, <2>1, <2>2, SamePrefix
<1>6. sa[n] \in States /\ \A i \in 0..m : sb[i] \in States /\ sc[n + i] \in States
  <2>1. n \in 0..Len(a) /\ \A i \in 0..m : n + i \in 0..Len(c)
    BY <1>1
  <2> QED
    BY <1>2, <1>3, <1>4, <2>1 DEF LoopOf
<1> DEFINE S == {i \in Nat : i =< m => Continues(sa[n], sc[n + i], sb[i])}
<1>7. 0 \in S
  <2>1. sb[0] = Unread /\ sc[n + 0] = sa[n]
    BY <1>1, <1>3, <1>5 DEF LoopOf
  <2>2. Continues(sa[n], sa[n], Unread)
    BY <1>6 DEF Continues, Unread, States
  <2> QED
    BY <2>1, <2>2
<1>8. ASSUME NEW i \in Nat, i \in S PROVE i + 1 \in S
  <2> SUFFICES ASSUME i + 1 =< m PROVE Continues(sa[n], sc[n + (i + 1)], sb[i + 1])
    OBVIOUS
  <2>1. i + 1 \in 1..m /\ (i + 1) - 1 = i /\ i \in 0..m
    BY <1>1
  <2>2. n + (i + 1) \in 1..Len(c) /\ (n + (i + 1)) - 1 = n + i
    BY <1>1, <2>1
  <2>3. sc[n + (i + 1)] = Read(sc[n + i], b[i + 1]) /\ sb[i + 1] = Read(sb[i], b[i + 1])
    BY <1>1, <1>3, <1>4, <2>1, <2>2 DEF LoopOf
  <2>4. Continues(sa[n], sc[n + i], sb[i])
    BY <1>8, <2>1
  <2>5. Continues(sa[n], Read(sc[n + i], b[i + 1]), Read(sb[i], b[i + 1]))
    BY <1>1, <1>6, <2>1, <2>4, ReadOn
  <2> QED
    BY <2>3, <2>5
<1>9. m \in S
  <2> HIDE DEF S
  <2> QED
    BY <1>1, <1>7, <1>8, SetInduction
<1> QED
  BY <1>1, <1>2, <1>3, <1>4, <1>9 DEF c

(* Two texts joined have one word less than apart, or none less; none if the *)
(* first leaves no word open.                                                *)
LEMMA WordsContinue ==
  ASSUME NEW r \in States, NEW s \in States, NEW t \in States, Continues(r, s, t)
  PROVE  /\ WordsIn(s) =< WordsIn(r) + WordsIn(t)
         /\ WordsIn(r) + WordsIn(t) =< WordsIn(s) + 1
         /\ ~r.inWord => WordsIn(s) = WordsIn(r) + WordsIn(t)
<1>1. r.words \in Nat /\ s.words \in Nat /\ t.words \in Nat
  BY DEF States
<1> QED
  BY <1>1 DEF Continues, WordsIn

(* The counts of two texts joined. *)
LEMMA CountsJoined ==
  ASSUME NEW a \in Seq(Classes), NEW b \in Seq(Classes)
  PROVE  /\ Puncts(a \o b) = Puncts(a) + Puncts(b)
         /\ Wides(a \o b) = Wides(a) + Wides(b)
         /\ Words(a \o b) =< Words(a) + Words(b)
         /\ Words(a) + Words(b) =< Words(a \o b) + 1
         /\ ~Scan(a).inWord => Words(a \o b) = Words(a) + Words(b)
<1>1. a \o b \in Seq(Classes)
  OBVIOUS
<1>2. Scan(a) \in States /\ Scan(b) \in States /\ Scan(a \o b) \in States
  BY <1>1, ScanType
<1>3. Continues(Scan(a), Scan(a \o b), Scan(b))
  BY ScanJoined
<1> QED
  BY <1>2, <1>3, WordsContinue DEF Words, Puncts, Wides, Continues

-----------------------------------------------------------------------------
(* The steps of a request *)

(* The text of a line is a sequence of classes of runes. *)
LEMMA TextsAreSequences == Texts \subseteq Seq(Classes)
<1>1. \A n \in 0..MaxRunes : [1..n -> Classes] \subseteq Seq(Classes)
  OBVIOUS
<1> QED
  BY <1>1 DEF Texts

(* Where a request is tells its mode and how many attempts it has made. *)
PlaceInv ==
  /\ place \in {"call", "scan", "closing"} => stream
  /\ place = "parse" => ~stream
  /\ place \in {"start", "call"} => attempt < Retry
  /\ place \in {"scan", "closing"} => attempt \in 1..Retry

TypeInv == TypeOK /\ PlaceInv

(* A corrected figure is a natural number. *)
LEMMA CorrectType ==
  ASSUME NEW s \in Nat, NEW c \in Nat
  PROVE  CorrectTokenCount(s, c) \in Nat
BY DEF CorrectTokenCount

(* Whatever the backend reports, the corrected figure is within a fifth of   *)
(* the calculated one (handler.go:433-465).                                  *)
LEMMA CorrectedIsClose ==
  ASSUME NEW s \in Nat, NEW c \in Nat, c > 0
  PROVE  CloseTo(CorrectTokenCount(s, c), c)
BY DEF CorrectTokenCount, TooFar, CloseTo

(* A line is counted for its attempt and for no other. *)
LEMMA CountType ==
  ASSUME TypeOK, NEW a \in 1..Retry, NEW text \in Texts, Count(a, text)
  PROVE  /\ counted' \in [1..Retry -> Nat]
         /\ counted'[a] = counted[a] + CountTokens(text)
         /\ \A i \in 1..Retry : i # a => counted'[i] = counted[i]
<1>1. CountTokens(text) \in Nat
  BY TextsAreSequences, TokensOfText
<1>2. counted \in [1..Retry -> Nat]
  BY DEF TypeOK
<1> QED
  BY <1>1, <1>2 DEF Count

(* What is told has the type of a usage. *)
LEMMA TellType ==
  ASSUME NEW kind \in {"none", "init", "chunk", "error", "panic", "stop", "reply"},
         inputTokens' \in Nat, outputTokens' \in Nat, totalTokens' \in Nat,
         \/ TellUsage(kind)
         \/ \E server \in Usage : TellCorrected(kind, server)
  PROVE  told' \in [kind : {"none", "init", "chunk", "error", "panic", "stop", "reply"},
                    prompt : Nat, completion : Nat, total : Nat]
<1>1. CASE TellUsage(kind)
  BY <1>1 DEF TellUsage
<1>2. CASE \E server \in Usage : TellCorrected(kind, server)
  <2>1. PICK server \in Usage : TellCorrected(kind, server)
    BY <1>2
  <2>2. /\ CorrectTokenCount(server.prompt, inputTokens') \in Nat
        /\ CorrectTokenCount(server.completion, outputTokens') \in Nat
    BY CorrectType DEF Usage
  <2> QED
    BY <2>1, <2>2 DEF TellCorrected
<1> QED
  BY <1>1, <1>2

(* The counter stays a number when tokens are added. *)
LEMMA AddType ==
  ASSUME TypeOK, NEW n \in Nat, AddOutputTokens(n), UNCHANGED inputTokens
  PROVE  inputTokens' \in Nat /\ outputTokens' \in Nat /\ totalTokens' \in Nat
<1>1. inputTokens \in Nat /\ outputTokens \in Nat
  BY DEF TypeOK
<1> QED
  BY <1>1 DEF AddOutputTokens

(* Every request begins well typed. *)
LEMMA InitType == Init => TypeInv
BY UsageAssumption DEF Init, TypeInv, TypeOK, PlaceInv, Usage, NoUsage, Nothing

(* Every step keeps the mode and the attempts in line with the place; in     *)
(* particular no attempt begins after the last one allowed                   *)
(* (stream.go:32-60).                                                        *)
LEMMA PlaceStep == TypeInv /\ [Next]_vars => PlaceInv'
<1> SUFFICES ASSUME TypeInv, [Next]_vars PROVE PlaceInv'
  OBVIOUS
<1>0. attempt \in Int /\ Retry \in Nat \ {0} /\ attempt >= 0
  BY UsageAssumption DEF TypeInv, TypeOK
<1> USE <1>0 DEF TypeInv, PlaceInv, request
<1>1. CASE Begin
  <2>1. UNCHANGED <<stream, attempt>> /\ place = "start"
    BY <1>1 DEF Begin
  <2>2. CASE stream
    BY <1>1, <2>1, <2>2 DEF Begin
  <2>3. CASE ~stream
    BY <1>1, <2>1, <2>3 DEF Begin
  <2> QED
    BY <2>2, <2>3
<1>2. CASE CallFails
  BY <1>2 DEF CallFails
<1>3. CASE Open
  BY <1>3 DEF Open
<1>4. CASE Fail
  BY <1>4 DEF Fail
<1>5. CASE Finish \/ End \/ ParseFails \/ Reply
  BY <1>5 DEF Finish, End, ParseFails, Reply
<1>6. CASE UNCHANGED <<stream, place, attempt>>
  BY <1>6
<1>7. ASSUME NEW text \in Texts, StreamText(text) \/ ParseText(text) \/ ParseReasoning(text)
      PROVE  UNCHANGED <<stream, place, attempt>>
  BY <1>7 DEF StreamText, ParseText, ParseReasoning
<1>8. ASSUME NEW figures, StreamFigures(figures) \/ ParseFigures(figures)
      PROVE  UNCHANGED <<stream, place, attempt>>
  BY <1>8 DEF StreamFigures, ParseFigures
<1>9. UNCHANGED vars => UNCHANGED <<stream, place, attempt>>
  BY DEF vars
<1> QED
  BY <1>1, <1>2, <1>3, <1>4, <1>5, <1>6, <1>7, <1>8, <1>9 DEF Next

(* Every step keeps the types. *)
LEMMA TypeStep == TypeInv /\ [Next]_vars => TypeOK'
<1> SUFFICES ASSUME TypeInv, [Next]_vars PROVE TypeOK'
  OBVIOUS
<1> USE UsageAssumption DEF TypeInv
<1>0. messages \in Seq(Seq(Classes)) /\ CalculateMessageTokens(messages) \in Nat
  BY PromptTokens DEF TypeOK
<1>1. CASE Begin
  <2>1. inputTokens' \in Nat /\ totalTokens' \in Nat
    BY <1>0, <1>1 DEF Begin, SetInputTokens, TypeOK
  <2>2. CASE stream
    BY <1>1, <2>1, <2>2 DEF Begin, TypeOK, request, parsed
  <2>3. CASE ~stream
    BY <1>1, <2>1, <2>3 DEF Begin, TypeOK, request, parsed
  <2> QED
    BY <2>2, <2>3
<1>2. CASE CallFails
  BY <1>2 DEF CallFails, PlaceInv, TypeOK, request, counter, parsed
<1>3. CASE Open
  <2>1. inputTokens' \in Nat /\ outputTokens' \in Nat /\ totalTokens' \in Nat
    BY <1>0, <1>3 DEF Open, SetInputTokens, TypeOK
  <2>2. TellUsage("init")
    BY <1>3 DEF Open
  <2>3. told' \in [kind : {"none", "init", "chunk", "error", "panic", "stop", "reply"},
                   prompt : Nat, completion : Nat, total : Nat]
    BY <2>1, <2>2, TellType
  <2> QED
    BY <1>3, <2>1, <2>3 DEF Open, PlaceInv, TypeOK, request, parsed
<1>4. ASSUME NEW text \in Texts, StreamText(text) PROVE TypeOK'
  <2>0. CountTokens(text) \in Nat
    BY TextsAreSequences, TokensOfText
  <2>1. inputTokens' \in Nat /\ outputTokens' \in Nat /\ totalTokens' \in Nat
    BY <1>4, <2>0, AddType DEF StreamText
  <2>2. TellUsage("chunk")
    BY <1>4 DEF StreamText
  <2>3. told' \in [kind : {"none", "init", "chunk", "error", "panic", "stop", "reply"},
                   prompt : Nat, completion : Nat, total : Nat]
    BY <2>1, <2>2, TellType
  <2>4. attempt \in 1..Retry /\ place = "scan"
    BY <1>4 DEF StreamText, ReadLine, PlaceInv
  <2>5. counted' \in [1..Retry -> Nat]
    BY <1>4, <2>4, CountType DEF StreamText
  <2>6. lines' \in 0..MaxLines /\ UNCHANGED <<request, place, attempt, parsed, streamUsage>>
    BY <1>4 DEF StreamText, ReadLine, TypeOK
  <2> QED
    BY <2>1, <2>3, <2>5, <2>6 DEF TypeOK, request, parsed
<1>5. ASSUME NEW p \in Figures, NEW c \in Figures,
             StreamFigures([prompt |-> p, completion |-> c])
      PROVE  TypeOK'
  <2>1. streamUsage' \in Usage
    BY <1>5 DEF StreamFigures, Usage
  <2> QED
    BY <1>5, <2>1 DEF StreamFigures, ReadLine, TypeOK, request, parsed
<1>6. CASE Fail
  <2>1. told' \in [kind : {"none", "init", "chunk", "error", "panic", "stop", "reply"},
                   prompt : Nat, completion : Nat, total : Nat]
    <3>1. CASE UNCHANGED told
      BY <3>1 DEF TypeOK
    <3>2. CASE TellUsage("error")
      <4>1. inputTokens' \in Nat /\ outputTokens' \in Nat /\ totalTokens' \in Nat
        BY <1>6 DEF Fail, counter, TypeOK
      <4> QED
        BY <3>2, <4>1, TellType
    <3>3. CASE told' = [Nothing EXCEPT !.kind = "panic"]
      BY <3>3 DEF Nothing
    <3> QED
      BY <1>6, <3>1, <3>2, <3>3 DEF Fail
  <2> QED
    BY <1>6, <2>1 DEF Fail, TypeOK, request, counter, parsed
<1>7. CASE Finish
  <2>1. inputTokens' \in Nat /\ outputTokens' \in Nat /\ totalTokens' \in Nat
    BY <1>7 DEF Finish, counter, TypeOK
  <2>2. streamUsage \in Usage /\ TellCorrected("stop", streamUsage)
    BY <1>7 DEF Finish, TypeOK
  <2>3. told' \in [kind : {"none", "init", "chunk", "error", "panic", "stop", "reply"},
                   prompt : Nat, completion : Nat, total : Nat]
    BY <2>1, <2>2, TellType
  <2> QED
    BY <1>7, <2>3 DEF Finish, TypeOK, request, counter, parsed
<1>8. CASE End
  BY <1>8 DEF End, TypeOK, request, counter, parsed
<1>9. ASSUME NEW text \in Texts, ParseText(text) PROVE TypeOK'
  <2>1. content' \in Seq(Classes)
    <3>1. text \in Seq(Classes) /\ content \in Seq(Classes)
      BY TextsAreSequences DEF TypeOK
    <3> QED
      BY <1>9, <3>1 DEF ParseText
  <2>2. counted' \in [1..Retry -> Nat]
    <3>1. 1 \in 1..Retry
      OBVIOUS
    <3> QED
      BY <1>9, <3>1, CountType DEF ParseText
  <2> QED
    BY <1>9, <2>1, <2>2 DEF ParseText, ReadLine, TypeOK, request, counter
<1>10. ASSUME NEW text \in Texts, ParseReasoning(text) PROVE TypeOK'
  <2>1. reasoningContent' \in Seq(Classes)
    <3>1. /\ text \in Seq(Classes) /\ reasoningContent \in Seq(Classes)
          /\ <<"blank">> \in Seq(Classes)
      BY TextsAreSequences DEF TypeOK, Classes
    <3>2. reasoningContent \o <<"blank">> \o text \in Seq(Classes)
      BY <3>1
    <3> QED
      BY <1>10, <3>1, <3>2 DEF ParseReasoning
  <2>2. counted' \in [1..Retry -> Nat]
    <3>1. 1 \in 1..Retry
      OBVIOUS
    <3> QED
      BY <1>10, <3>1, CountType DEF ParseReasoning
  <2>3. /\ lines' \in 0..MaxLines
        /\ UNCHANGED <<request, place, attempt, counter, content, usage, told>>
    BY <1>10 DEF ParseReasoning, ReadLine, TypeOK
  <2> QED
    BY <2>1, <2>2, <2>3 DEF TypeOK, request, counter
<1>11. ASSUME NEW p \in Figures, NEW c \in Figures,
              ParseFigures([prompt |-> p, completion |-> c])
       PROVE  TypeOK'
  <2>1. usage' \in Usage
    <3>1. DOMAIN usage = {"prompt", "completion"}
      BY DEF TypeOK, Usage
    <3> QED
      BY <1>11, <3>1 DEF ParseFigures, TypeOK, Usage
  <2>2. /\ lines' \in 0..MaxLines
        /\ UNCHANGED <<request, place, attempt, counter, content, reasoningContent, told,
                       counted>>
    BY <1>11 DEF ParseFigures, ReadLine, TypeOK
  <2> QED
    BY <2>1, <2>2 DEF TypeOK, request, counter
<1>12. CASE ParseFails
  BY <1>12 DEF ParseFails, TypeOK, request, counter, parsed
<1>13. CASE Reply
  <2>1. CountTokens(content) \in Nat /\ CountTokens(reasoningContent) \in Nat
    BY TokensOfText DEF TypeOK
  <2>2. inputTokens' \in Nat /\ outputTokens' \in Nat /\ totalTokens' \in Nat
    BY <1>13, <2>1, AddType DEF Reply
  <2>3. usage \in Usage /\ TellCorrected("reply", usage)
    BY <1>13 DEF Reply, TypeOK
  <2>4. told' \in [kind : {"none", "init", "chunk", "error", "panic", "stop", "reply"},
                   prompt : Nat, completion : Nat, total : Nat]
    BY <2>2, <2>3, TellType
  <2> QED
    BY <1>13, <2>2, <2>4 DEF Reply, TypeOK, request, parsed
<1>14. CASE UNCHANGED vars
  BY <1>14 DEF vars, TypeOK, request, counter, parsed
<1> QED
  BY <1>1, <1>2, <1>3, <1>4, <1>5, <1>6, <1>7, <1>8, <1>9, <1>10, <1>11, <1>12, <1>13, <1>14
     DEF Next

(* The counter has the tokens of the prompt once, however often an attempt   *)
(* sets them; and those of all lines of all attempts, while the whole answer *)
(* of the other mode is counted only at its end.                             *)
CounterInv ==
  /\ inputTokens = IF place = "start" THEN 0 ELSE CalculateMessageTokens(messages)
  /\ totalTokens = inputTokens + outputTokens
  /\ stream => outputTokens = Total(counted)
  /\ ~stream /\ place # "end" => outputTokens = 0

(* At the start nothing is counted. *)
LEMMA InitCounter == Init => CounterInv
<1> SUFFICES ASSUME Init PROVE CounterInv
  OBVIOUS
<1>1. Total(counted) = 0
  BY UsageAssumption, TotalOfNone DEF Init
<1> QED
  BY <1>1 DEF Init, CounterInv

(* Every step keeps the counter in line with what was read: a retry sets the *)
(* prompt and leaves the output of earlier attempts (token_counter.go,       *)
(* stream.go:202).                                                           *)
LEMMA CounterStep == TypeInv /\ CounterInv /\ [Next]_vars => CounterInv'
<1> SUFFICES ASSUME TypeInv, CounterInv, [Next]_vars PROVE CounterInv'
  OBVIOUS
<1>0. /\ inputTokens \in Nat /\ outputTokens \in Nat /\ stream \in BOOLEAN
      /\ CalculateMessageTokens(messages) \in Nat
  BY UsageAssumption, PromptTokens DEF TypeInv, TypeOK
<1> USE <1>0 DEF CounterInv, request, counter
<1>1. CASE Begin
  <2>1. /\ place = "start" /\ place' # "start" /\ place' # "end"
        /\ inputTokens' = CalculateMessageTokens(messages)
        /\ totalTokens' = CalculateMessageTokens(messages) + outputTokens
        /\ UNCHANGED <<stream, messages, outputTokens, counted>>
    BY <1>1 DEF Begin, SetInputTokens
  <2> QED
    BY <2>1
<1>2. CASE Open
  <2>1. /\ place = "call" /\ place' = "scan"
        /\ inputTokens' = CalculateMessageTokens(messages)
        /\ totalTokens' = CalculateMessageTokens(messages) + outputTokens
        /\ UNCHANGED <<stream, messages, outputTokens, counted>>
    BY <1>2 DEF Open, SetInputTokens
  <2> QED
    BY <2>1
<1>3. ASSUME NEW text \in Texts, StreamText(text) PROVE CounterInv'
  <2>1. CountTokens(text) \in Nat
    BY TextsAreSequences, TokensOfText
  <2>2. /\ place = "scan" /\ stream /\ attempt \in 1..Retry
        /\ outputTokens' = outputTokens + CountTokens(text)
        /\ totalTokens' = inputTokens + outputTokens'
        /\ UNCHANGED <<stream, messages, place, inputTokens>>
        /\ Count(attempt, text)
    BY <1>3 DEF StreamText, ReadLine, AddOutputTokens, TypeInv, PlaceInv
  <2>3. Total(counted') = Total(counted) + CountTokens(text)
    <3>1. counted \in [1..Retry -> Nat] /\ Retry \in Nat
      BY UsageAssumption DEF TypeInv, TypeOK
    <3>2. /\ attempt \in 1..Retry /\ counted' \in [1..Retry -> Nat]
          /\ counted'[attempt] = counted[attempt] + CountTokens(text)
          /\ \A i \in 1..Retry : i # attempt => counted'[i] = counted[i]
      BY <2>2, CountType DEF TypeInv
    <3> QED
      BY <2>1, <3>1, <3>2, TotalAdd, ZenonT(30)
  <2> QED
    BY <2>2, <2>3
<1>4. ASSUME UNCHANGED <<stream, messages, counter, counted>>,
             place # "start" /\ place' # "start", place = "end" => place' = "end"
      PROVE  CounterInv'
  BY <1>4
<1>5. CASE CallFails \/ Fail \/ Finish \/ End \/ ParseFails
  BY <1>4, <1>5 DEF CallFails, Fail, Finish, End, ParseFails
<1>6. ASSUME NEW text \in Texts, ParseText(text) \/ ParseReasoning(text) PROVE CounterInv'
  <2>1. /\ place = "parse" /\ ~stream
        /\ UNCHANGED <<stream, messages, place, inputTokens, outputTokens, totalTokens>>
    BY <1>6 DEF ParseText, ParseReasoning, ReadLine, TypeInv, PlaceInv
  <2> QED
    BY <2>1
<1>7. ASSUME NEW figures, StreamFigures(figures) \/ ParseFigures(figures) PROVE CounterInv'
  <2>1. /\ place # "start"
        /\ UNCHANGED <<stream, messages, place, inputTokens, outputTokens, totalTokens,
                       counted>>
    BY <1>7 DEF StreamFigures, ParseFigures, ReadLine
  <2> QED
    BY <2>1
<1>8. CASE Reply
  <2>1. /\ place' = "end" /\ place = "parse" /\ ~stream
        /\ UNCHANGED <<stream, messages, inputTokens>>
        /\ totalTokens' = inputTokens + outputTokens'
    BY <1>8 DEF Reply, AddOutputTokens, TypeInv, PlaceInv
  <2> QED
    BY <2>1
<1>9. CASE UNCHANGED vars
  BY <1>9 DEF vars
<1> QED
  BY <1>1, <1>2, <1>3, <1>5, <1>6, <1>7, <1>8, <1>9 DEF Next

(* What the client was told last is what the counter has still; the figures  *)
(* of the end are close to it.                                               *)
ToldInv ==
  /\ told.total = told.prompt + told.completion
  /\ told.kind \in {"init", "chunk", "error"} =>
       stream /\ place # "start" /\ told.prompt = inputTokens /\ told.completion = outputTokens
  /\ told.kind = "stop" =>
       /\ stream /\ place \in {"closing", "call", "end"}
       /\ CloseTo(told.prompt, inputTokens)
       /\ outputTokens > 0 => CloseTo(told.completion, outputTokens)
  /\ told.kind = "reply" =>
       /\ ~stream /\ place = "end"
       /\ CloseTo(told.prompt, inputTokens)
       /\ Whole > 0 => CloseTo(told.completion, Whole)

(* The figures told at the end add up and are close to those of the counter. *)
LEMMA ToldCorrected ==
  ASSUME inputTokens' \in Nat, inputTokens' > 0, outputTokens' \in Nat,
         NEW kind, NEW server \in Usage, TellCorrected(kind, server)
  PROVE  /\ told'.kind = kind
         /\ told'.total = told'.prompt + told'.completion
         /\ CloseTo(told'.prompt, inputTokens')
         /\ outputTokens' > 0 => CloseTo(told'.completion, outputTokens')
<1>1. server.prompt \in Nat /\ server.completion \in Nat
  BY DEF Usage
<1>2. /\ told'.kind = kind
      /\ told'.prompt = CorrectTokenCount(server.prompt, inputTokens')
      /\ told'.completion = CorrectTokenCount(server.completion, outputTokens')
      /\ told'.total = told'.prompt + told'.completion
  BY DEF TellCorrected
<1>3. CloseTo(CorrectTokenCount(server.prompt, inputTokens'), inputTokens')
  BY <1>1, CorrectedIsClose
<1>4. outputTokens' > 0 =>
        CloseTo(CorrectTokenCount(server.completion, outputTokens'), outputTokens')
  BY <1>1, CorrectedIsClose
<1> QED
  BY <1>2, <1>3, <1>4

(* At the start nothing is told. *)
LEMMA InitTold == Init => ToldInv
BY DEF Init, ToldInv, Nothing

(* No step makes a usage told before wrong: nothing is counted after the     *)
(* last frame until the next attempt tells anew.                             *)
LEMMA ToldStep == TypeInv /\ CounterInv /\ ToldInv /\ [Next]_vars => ToldInv'
<1> SUFFICES ASSUME TypeInv, CounterInv, ToldInv, [Next]_vars PROVE ToldInv'
  OBVIOUS
<1>0. /\ inputTokens \in Nat /\ outputTokens \in Nat /\ stream \in BOOLEAN
      /\ totalTokens = inputTokens + outputTokens
      /\ CalculateMessageTokens(messages) \in Nat /\ CalculateMessageTokens(messages) > 0
      /\ place # "start" => inputTokens = CalculateMessageTokens(messages)
  <2>1. messages \in Seq(Seq(Classes))
    BY UsageAssumption DEF TypeInv, TypeOK
  <2>2. CalculateMessageTokens(messages) \in Nat /\ CalculateMessageTokens(messages) >= 3
    BY <2>1, PromptTokens
  <2> QED
    BY <2>2 DEF TypeInv, TypeOK, CounterInv
<1>1. CASE Begin
  <2>1. place = "start" /\ UNCHANGED told /\ UNCHANGED stream
    BY <1>1 DEF Begin, request
  <2>2. told.kind \notin {"init", "chunk", "error", "stop", "reply"}
    BY <2>1 DEF ToldInv
  <2> QED
    BY <2>1, <2>2 DEF ToldInv
<1>2. ASSUME told'.total = told'.prompt + told'.completion,
             told'.kind \in {"init", "chunk", "error"}, stream', place' # "start",
             told'.prompt = inputTokens', told'.completion = outputTokens'
      PROVE  ToldInv'
  BY <1>2 DEF ToldInv
<1>3. ASSUME UNCHANGED <<stream, inputTokens, outputTokens, told, content, reasoningContent>>,
             place \in {"call", "scan", "closing", "parse"},
             place' \in {place, "call", "end"}, place' # "call" \/ stream
      PROVE  ToldInv'
  BY <1>3 DEF ToldInv, Whole
<1>4. CASE Open
  <2>1. /\ stream /\ place' = "scan" /\ UNCHANGED <<stream, outputTokens>>
        /\ inputTokens' = CalculateMessageTokens(messages)
        /\ totalTokens' = inputTokens' + outputTokens'
        /\ TellUsage("init")
    BY <1>4 DEF Open, SetInputTokens, request, TypeInv, PlaceInv
  <2> QED
    BY <1>2, <2>1 DEF TellUsage
<1>5. ASSUME NEW text \in Texts, StreamText(text) PROVE ToldInv'
  <2>1. /\ stream /\ place' = "scan" /\ UNCHANGED <<stream, inputTokens>>
        /\ totalTokens' = inputTokens' + outputTokens'
        /\ TellUsage("chunk")
    BY <1>5 DEF StreamText, ReadLine, AddOutputTokens, request, TypeInv, PlaceInv
  <2> QED
    BY <1>2, <2>1 DEF TellUsage
<1>6. CASE Fail
  <2>1. /\ stream /\ stream' = stream /\ place' \in {"call", "end"}
        /\ place \in {"scan", "closing"}
        /\ UNCHANGED <<inputTokens, outputTokens, totalTokens, content, reasoningContent>>
    BY <1>6 DEF Fail, counter, request, parsed, TypeInv, PlaceInv
  <2>2. CASE UNCHANGED told
    BY <1>3, <2>1, <2>2
  <2>3. CASE TellUsage("error")
    BY <1>0, <1>2, <2>1, <2>3 DEF TellUsage
  <2>4. CASE told' = [Nothing EXCEPT !.kind = "panic"]
    BY <2>4 DEF Nothing, ToldInv
  <2> QED
    BY <1>6, <2>2, <2>3, <2>4 DEF Fail
<1>7. CASE Finish
  <2>1. /\ stream /\ stream' = stream /\ place' = "closing" /\ place # "start"
        /\ UNCHANGED <<inputTokens, outputTokens>>
        /\ streamUsage \in Usage /\ TellCorrected("stop", streamUsage)
    BY <1>7 DEF Finish, counter, request, TypeInv, TypeOK, PlaceInv
  <2>2. inputTokens' \in Nat /\ inputTokens' > 0 /\ outputTokens' \in Nat
    BY <1>0, <2>1
  <2>3. /\ told'.kind = "stop"
        /\ told'.total = told'.prompt + told'.completion
        /\ CloseTo(told'.prompt, inputTokens')
        /\ outputTokens' > 0 => CloseTo(told'.completion, outputTokens')
    BY <2>1, <2>2, ToldCorrected
  <2> QED
    BY <2>1, <2>3 DEF ToldInv
<1>8. CASE CallFails
  BY <1>3, <1>8 DEF CallFails, request, counter, parsed, TypeInv, PlaceInv
<1>9. CASE End \/ ParseFails
  BY <1>3, <1>9 DEF End, ParseFails, request, counter, parsed
<1>10. ASSUME NEW text \in Texts, ParseText(text) \/ ParseReasoning(text) PROVE ToldInv'
  <2>1. place = "parse" /\ ~stream /\ UNCHANGED told
    BY <1>10 DEF ParseText, ParseReasoning, ReadLine, TypeInv, PlaceInv
  <2>2. told.kind \notin {"init", "chunk", "error", "stop", "reply"}
    BY <2>1 DEF ToldInv
  <2> QED
    BY <2>1, <2>2 DEF ToldInv
<1>11. ASSUME NEW figures, StreamFigures(figures) \/ ParseFigures(figures) PROVE ToldInv'
  <2>1. /\ place \in {"scan", "parse"}
        /\ UNCHANGED <<stream, place, inputTokens, outputTokens, told, content,
                       reasoningContent>>
    BY <1>11 DEF StreamFigures, ParseFigures, ReadLine, request, counter, parsed
  <2> QED
    BY <1>3, <2>1
<1>12. CASE Reply
  <2>0. CountTokens(content) \in Nat /\ CountTokens(reasoningContent) \in Nat
    BY TokensOfText DEF TypeInv, TypeOK
  <2>1. /\ place = "parse" /\ place' = "end" /\ ~stream /\ stream' = stream
        /\ outputTokens = 0 /\ outputTokens' = outputTokens + Whole
        /\ UNCHANGED <<inputTokens, content, reasoningContent>>
        /\ usage \in Usage /\ TellCorrected("reply", usage)
    BY <1>12 DEF Reply, AddOutputTokens, Whole, request, parsed, TypeInv, TypeOK, PlaceInv,
                 CounterInv
  <2>2. /\ inputTokens' \in Nat /\ inputTokens' > 0
        /\ outputTokens' \in Nat /\ outputTokens' = Whole'
    BY <1>0, <2>0, <2>1 DEF Whole
  <2>3. /\ told'.kind = "reply"
        /\ told'.total = told'.prompt + told'.completion
        /\ CloseTo(told'.prompt, inputTokens')
        /\ outputTokens' > 0 => CloseTo(told'.completion, outputTokens')
    BY <2>1, <2>2, ToldCorrected
  <2> QED
    BY <2>1, <2>2, <2>3 DEF ToldInv
<1>13. CASE UNCHANGED vars
  BY <1>13 DEF vars, ToldInv, Whole
<1> QED
  BY <1>1, <1>4, <1>5, <1>6, <1>7, <1>8, <1>9, <1>10, <1>11, <1>12, <1>13 DEF Next

-----------------------------------------------------------------------------
(* Lines counted apart and joined *)

(* How the count of the lines splits into the content, of which k words were *)
(* cut by the end of a line, and the reasoning.                              *)
Apart(cc, rr, k) ==
  /\ counted[1] = cc + rr
  /\ cc =< Tokens(Words(content) + k, Puncts(content), Wides(content))
  /\ rr =< CountTokens(reasoningContent)
  /\ content = <<>> => k = 0

(* Thirty times what would be counted if words and wide runes were rounded   *)
(* down as far as they are at worst.                                         *)
Weigh(w, p, c) == 26 * w + 20 * p + 30 * c

Weight(text) == Weigh(Words(text), Puncts(text), Wides(text))

(* The lines of a whole answer counted apart, against the texts they were    *)
(* joined to.                                                                *)
ModesInv ==
  ~stream =>
    /\ \E cc \in 0..counted[1], rr \in 0..counted[1], k \in 0..lines : Apart(cc, rr, k)
    /\ 30 * counted[1] >= Weight(content) + Weight(reasoningContent)

(* The weight of an estimate is between twenty and thirty times the          *)
(* estimate.                                                                 *)
LEMMA WeighType ==
  ASSUME NEW w \in Nat, NEW p \in Nat, NEW c \in Nat
  PROVE  /\ Weigh(w, p, c) \in Nat
         /\ 20 * Tokens(w, p, c) =< Weigh(w, p, c)
         /\ Weigh(w, p, c) =< 30 * Tokens(w, p, c)
<1>1. /\ Tokens(w, p, c) \in Nat
      /\ 10 * Tokens(w, p, c) =< 13 * w + 10 * p + 15 * c
      /\ 30 * Tokens(w, p, c) >= 26 * w + 20 * p + 30 * c
  BY TokensType
<1> QED
  BY <1>1 DEF Weigh

(* Two texts joined without a word more weigh no more than apart. *)
LEMMA WeighAdd ==
  ASSUME NEW w \in Nat, NEW p \in Nat, NEW c \in Nat,
         NEW ww \in Nat, NEW pp \in Nat, NEW cc \in Nat,
         NEW v \in Nat, NEW q, NEW d, v =< w + ww, q = p + pp, d = c + cc
  PROVE  Weigh(v, q, d) =< Weigh(w, p, c) + Weigh(ww, pp, cc)
BY DEF Weigh

(* A line more keeps the weight of the texts below thirty times the count. *)
LEMMA WeighMore ==
  ASSUME NEW n \in Nat, NEW t \in Nat, NEW m, m = n + t,
         NEW wa \in Nat, NEW wb \in Nat, NEW wt \in Nat, NEW wc \in Nat,
         30 * n >= wa + wb, wt =< 30 * t, wc =< wa + wt
  PROVE  30 * m >= wc + wb
OBVIOUS

(* From the weights to the estimates. *)
LEMMA WeighLess ==
  ASSUME NEW n \in Nat, NEW a \in Nat, NEW b \in Nat, NEW wa \in Nat, NEW wb \in Nat,
         30 * n >= wa + wb, 20 * a =< wa, 20 * b =< wb
  PROVE  3 * n >= 2 * (a + b)
OBVIOUS

(* What is known of the estimate of one text. *)
LEMMA CountedTwice ==
  ASSUME NEW text \in Seq(Classes)
  PROVE  /\ CountTokens(text) \in Nat
         /\ Words(text) \in Nat /\ Puncts(text) \in Nat /\ Wides(text) \in Nat
         /\ CountTokens(text) = Tokens(Words(text), Puncts(text), Wides(text))
         /\ Weight(text) \in Nat
         /\ 20 * CountTokens(text) =< Weight(text) /\ Weight(text) =< 30 * CountTokens(text)
<1>1. /\ Words(text) \in Nat /\ Puncts(text) \in Nat /\ Wides(text) \in Nat
      /\ CountTokens(text) = Tokens(Words(text), Puncts(text), Wides(text))
  BY ScanType
<1>2. CountTokens(text) \in Nat
  BY TokensOfText
<1>3. /\ Weight(text) \in Nat
      /\ 20 * CountTokens(text) =< Weight(text) /\ Weight(text) =< 30 * CountTokens(text)
  BY <1>1, WeighType DEF Weight
<1> QED
  BY <1>1, <1>2, <1>3

(* The estimate of a line added to that of a text, at most k words cut       *)
(* before and kk after.                                                      *)
LEMMA TokensJoined ==
  ASSUME NEW wa \in Nat, NEW pa \in Nat, NEW ca \in Nat,
         NEW wb \in Nat, NEW pb \in Nat, NEW cb \in Nat,
         NEW wc \in Nat, NEW pc, NEW cc, pc = pa + pb, cc = ca + cb,
         NEW k \in Nat, NEW kk \in Nat, wa + k + wb =< wc + kk,
         NEW n \in Nat, n =< Tokens(wa + k, pa, ca)
  PROVE  n + Tokens(wb, pb, cb) =< Tokens(wc + kk, pc, cc)
<1>1. /\ wa + k \in Nat /\ (wa + k) + wb \in Nat /\ wc + kk \in Nat
      /\ pc \in Nat /\ cc \in Nat /\ (wa + k) + wb =< wc + kk
  OBVIOUS
<1>2. Tokens(wa + k, pa, ca) + Tokens(wb, pb, cb) =< Tokens((wa + k) + wb, pc, cc)
  BY <1>1, TokensAdd
<1>3. Tokens((wa + k) + wb, pc, cc) =< Tokens(wc + kk, pc, cc)
  BY <1>1, TokensGrow
<1>4. /\ Tokens(wa + k, pa, ca) \in Nat /\ Tokens(wb, pb, cb) \in Nat
      /\ Tokens((wa + k) + wb, pc, cc) \in Nat /\ Tokens(wc + kk, pc, cc) \in Nat
  BY <1>1, TokensType
<1> QED
  BY <1>2, <1>3, <1>4

(* A line of content is joined without a separator, so that it may cut one   *)
(* word more, unless it is the first (chat.go:318-344).                      *)
LEMMA ContentJoined ==
  ASSUME NEW a \in Seq(Classes), NEW b \in Seq(Classes), NEW k \in Nat, NEW n \in Nat,
         n =< Tokens(Words(a) + k, Puncts(a), Wides(a)), a = <<>> => k = 0
  PROVE  \E kk \in 0..(k + 1) :
           /\ n + CountTokens(b) =< Tokens(Words(a \o b) + kk, Puncts(a \o b), Wides(a \o b))
           /\ a \o b = <<>> => kk = 0
<1> DEFINE c == a \o b
           kk == IF a = <<>> THEN 0 ELSE k + 1
<1>0. c \in Seq(Classes) /\ (c = <<>> => a = <<>>)
  OBVIOUS
<1>1. /\ Words(a) \in Nat /\ Puncts(a) \in Nat /\ Wides(a) \in Nat
      /\ Words(b) \in Nat /\ Puncts(b) \in Nat /\ Wides(b) \in Nat
      /\ Words(c) \in Nat
      /\ CountTokens(b) = Tokens(Words(b), Puncts(b), Wides(b))
  <2> HIDE DEF c
  <2> QED
    BY <1>0, CountedTwice
<1>2. /\ Puncts(c) = Puncts(a) + Puncts(b)
      /\ Wides(c) = Wides(a) + Wides(b)
      /\ Words(a) + Words(b) =< Words(c) + 1
      /\ ~Scan(a).inWord => Words(c) = Words(a) + Words(b)
  BY CountsJoined
<1> HIDE DEF c
<1>3. kk \in 0..(k + 1) /\ kk \in Nat
  OBVIOUS
<1>4. Words(a) + k + Words(b) =< Words(c) + kk
  <2>1. CASE a = <<>>
    <3>1. Scan(a) = Unread
      BY <2>1, ScanNothing
    <3>2. ~Scan(a).inWord
      BY <3>1 DEF Unread
    <3> QED
      BY <1>1, <1>2, <2>1, <3>2
  <2>2. CASE a # <<>>
    <3>1. kk = k + 1
      BY <2>2
    <3> HIDE DEF kk
    <3> DEFINE wa == Words(a)
               wb == Words(b)
               wc == Words(c)
    <3>2. wa \in Nat /\ wb \in Nat /\ wc \in Nat /\ wa + wb =< wc + 1
      BY <1>1, <1>2
    <3> HIDE DEF wa, wb, wc
    <3>3. wa + k + wb =< wc + kk
      BY <3>1, <3>2
    <3> QED
      BY <3>3 DEF wa, wb, wc
  <2> QED
    BY <2>1, <2>2
<1>5. c = <<>> => kk = 0
  BY <1>0
<1> HIDE DEF kk
<1>6. n + CountTokens(b) =< Tokens(Words(c) + kk, Puncts(c), Wides(c))
  BY <1>1, <1>2, <1>3, <1>4, TokensJoined, ZenonT(30)
<1> QED
  BY <1>3, <1>5, <1>6 DEF c

(* Joined content weighs no more than its lines. *)
LEMMA WeightJoined ==
  ASSUME NEW a \in Seq(Classes), NEW b \in Seq(Classes)
  PROVE  Weight(a \o b) =< Weight(a) + Weight(b)
<1> DEFINE c == a \o b
<1>1. c \in Seq(Classes)
  OBVIOUS
<1>2. /\ Puncts(c) = Puncts(a) + Puncts(b)
      /\ Wides(c) = Wides(a) + Wides(b)
      /\ Words(c) =< Words(a) + Words(b)
  BY CountsJoined
<1> HIDE DEF c
<1>3. /\ Words(a) \in Nat /\ Puncts(a) \in Nat /\ Wides(a) \in Nat
      /\ Words(b) \in Nat /\ Puncts(b) \in Nat /\ Wides(b) \in Nat
      /\ Words(c) \in Nat
  BY <1>1, CountedTwice
<1>4. Weight(c) =< Weight(a) + Weight(b)
  BY <1>2, <1>3, WeighAdd DEF Weight
<1> QED
  BY <1>4 DEF c

(* Lines of reasoning are joined by a newline, so that no word is cut        *)
(* (chat.go:341-344).                                                        *)
LEMMA ReasoningJoined ==
  ASSUME NEW a \in Seq(Classes), NEW b \in Seq(Classes), NEW c,
         c = IF a = <<>> THEN b ELSE a \o <<"blank">> \o b
  PROVE  /\ c \in Seq(Classes)
         /\ Weight(c) =< Weight(a) + Weight(b)
         /\ CountTokens(a) + CountTokens(b) =< CountTokens(c)
<1>1. /\ Words(a) \in Nat /\ Puncts(a) \in Nat /\ Wides(a) \in Nat
      /\ CountTokens(a) = Tokens(Words(a), Puncts(a), Wides(a))
      /\ Words(b) \in Nat /\ Puncts(b) \in Nat /\ Wides(b) \in Nat
      /\ CountTokens(b) = Tokens(Words(b), Puncts(b), Wides(b))
  BY CountedTwice
<1>2. /\ c \in Seq(Classes)
      /\ Words(c) = Words(a) + Words(b)
      /\ Puncts(c) = Puncts(a) + Puncts(b)
      /\ Wides(c) = Wides(a) + Wides(b)
  <2>1. CASE a = <<>>
    BY <1>1, <2>1, ScanNothing
  <2>2. CASE a # <<>>
    <3> DEFINE more == a \o <<"blank">>
    <3>1. /\ more \in Seq(Classes) /\ ~Scan(more).inWord
          /\ Words(more) = Words(a) /\ Puncts(more) = Puncts(a) /\ Wides(more) = Wides(a)
      BY ScanBlank
    <3>2. c = more \o b
      BY <2>2
    <3> HIDE DEF more
    <3>3. c \in Seq(Classes)
      BY <3>1, <3>2
    <3>4. /\ Puncts(more \o b) = Puncts(more) + Puncts(b)
          /\ Wides(more \o b) = Wides(more) + Wides(b)
          /\ Words(more \o b) = Words(more) + Words(b)
      BY <3>1, CountsJoined
    <3> QED
      BY <3>1, <3>2, <3>3, <3>4
  <2> QED
    BY <2>1, <2>2
<1>3. CountTokens(c) = Tokens(Words(c), Puncts(c), Wides(c))
  BY <1>2, CountedTwice
<1>4. Tokens(Words(a), Puncts(a), Wides(a)) + Tokens(Words(b), Puncts(b), Wides(b))
        =< Tokens(Words(a) + Words(b), Puncts(a) + Puncts(b), Wides(a) + Wides(b))
  BY <1>1, TokensAdd
<1>5. Words(c) \in Nat /\ Words(c) =< Words(a) + Words(b)
  BY <1>1, <1>2
<1>6. Weight(c) =< Weight(a) + Weight(b)
  BY <1>1, <1>2, <1>5, WeighAdd DEF Weight
<1> QED
  BY <1>1, <1>2, <1>3, <1>4, <1>6

(* No line is read, nothing counted. *)
LEMMA InitModes == Init => ModesInv
<1> SUFFICES ASSUME Init PROVE ModesInv
  OBVIOUS
<1>1. counted[1] = 0 /\ lines = 0 /\ content = <<>> /\ reasoningContent = <<>>
  BY UsageAssumption DEF Init
<1>2. Words(<<>>) = 0 /\ Puncts(<<>>) = 0 /\ Wides(<<>>) = 0
  BY ScanNothing
<1>3. <<>> \in Seq(Classes)
  OBVIOUS
<1>4. CountTokens(<<>>) \in Nat /\ Tokens(0 + 0, 0, 0) \in Nat
  <2>1. CountTokens(<<>>) \in Nat
    BY <1>3, CountedTwice
  <2>2. 0 \in Nat /\ 0 + 0 \in Nat
    OBVIOUS
  <2>3. Tokens(0 + 0, 0, 0) \in Nat
    BY <2>2, TokensType
  <2> QED
    BY <2>1, <2>3
<1>5. Apart(0, 0, 0)
  BY <1>1, <1>2, <1>4 DEF Apart
<1>6. 0 \in 0..counted[1] /\ 0 \in 0..lines
  BY <1>1
<1>7. 30 * counted[1] >= Weight(content) + Weight(reasoningContent)
  BY <1>1, <1>2 DEF Weight, Weigh
<1> QED
  BY <1>5, <1>6, <1>7 DEF ModesInv

(* Every line keeps the count of the lines in line with the texts they were  *)
(* joined to.                                                                *)
LEMMA ModesStep == TypeInv /\ ModesInv /\ [Next]_vars => ModesInv'
<1> SUFFICES ASSUME TypeInv, ModesInv, [Next]_vars, ~stream'
             PROVE  /\ \E cc \in 0..counted'[1], rr \in 0..counted'[1], k \in 0..lines' :
                         Apart(cc, rr, k)'
                    /\ 30 * counted'[1] >= Weight(content') + Weight(reasoningContent')
  BY DEF ModesInv
<1>0. ~stream /\ UNCHANGED stream
  <2>1. Begin \/ CallFails \/ Open \/ Fail \/ Finish \/ End \/ ParseFails \/ Reply
          => UNCHANGED stream
    BY DEF Begin, CallFails, Open, Fail, Finish, End, ParseFails, Reply, request
  <2>2. \A text \in Texts : StreamText(text) \/ ParseText(text) \/ ParseReasoning(text)
          => UNCHANGED stream
    BY DEF StreamText, ParseText, ParseReasoning, request
  <2>3. \A figures : StreamFigures(figures) \/ ParseFigures(figures) => UNCHANGED stream
    BY DEF StreamFigures, ParseFigures, request
  <2>4. UNCHANGED vars => UNCHANGED stream
    BY DEF vars
  <2>5. UNCHANGED stream
    BY <2>1, <2>2, <2>3, <2>4 DEF Next
  <2> QED
    BY <2>5
<1>1. /\ lines \in Nat /\ counted[1] \in Nat /\ 1 \in 1..Retry
      /\ content \in Seq(Classes) /\ reasoningContent \in Seq(Classes)
  BY UsageAssumption DEF TypeInv, TypeOK
<1>2. PICK cc \in 0..counted[1], rr \in 0..counted[1], k \in 0..lines : Apart(cc, rr, k)
  BY <1>0 DEF ModesInv
<1>3. 30 * counted[1] >= Weight(content) + Weight(reasoningContent)
  BY <1>0 DEF ModesInv
<1>4. cc \in Nat /\ rr \in Nat /\ k \in Nat
  BY <1>1
<1>5. ASSUME NEW text \in Texts, ParseText(text)
      PROVE  /\ \E c \in 0..counted'[1], r \in 0..counted'[1], kk \in 0..lines' :
                  Apart(c, r, kk)'
             /\ 30 * counted'[1] >= Weight(content') + Weight(reasoningContent')
  <2>1. text \in Seq(Classes)
    BY TextsAreSequences
  <2>2. /\ content' = content \o text /\ UNCHANGED reasoningContent /\ lines' = lines + 1
        /\ counted'[1] = counted[1] + CountTokens(text)
    BY <1>1, <1>5, CountType DEF ParseText, ReadLine, TypeInv
  <2>3. PICK kk \in 0..(k + 1) :
          /\ cc + CountTokens(text)
               =< Tokens(Words(content \o text) + kk, Puncts(content \o text),
                         Wides(content \o text))
          /\ content \o text = <<>> => kk = 0
    <3>1. /\ cc =< Tokens(Words(content) + k, Puncts(content), Wides(content))
          /\ content = <<>> => k = 0
      BY <1>2 DEF Apart
    <3> QED
      BY <1>1, <1>4, <2>1, <3>1, ContentJoined
  <2>4. CountTokens(text) \in Nat
    BY <2>1, TokensOfText
  <2>5. Apart(cc + CountTokens(text), rr, kk)'
    BY <1>1, <1>2, <1>4, <2>2, <2>3, <2>4 DEF Apart
  <2>6. /\ cc + CountTokens(text) \in 0..counted'[1] /\ rr \in 0..counted'[1]
        /\ kk \in 0..lines'
    <3>1. counted[1] = cc + rr
      BY <1>2 DEF Apart
    <3> QED
      BY <1>1, <1>4, <2>2, <2>4, <3>1
  <2>7. 30 * counted'[1] >= Weight(content') + Weight(reasoningContent')
    <3>1. /\ Weight(content) \in Nat /\ Weight(reasoningContent) \in Nat
          /\ Weight(text) \in Nat /\ Weight(text) =< 30 * CountTokens(text)
      BY <1>1, <2>1, CountedTwice
    <3>2. Weight(content') =< Weight(content) + Weight(text)
      BY <1>1, <2>1, <2>2, WeightJoined
    <3>3. Weight(content') \in Nat
      <4>1. content' \in Seq(Classes)
        BY <1>1, <2>1, <2>2
      <4> QED
        BY <4>1, CountedTwice
    <3>4. Weight(reasoningContent') = Weight(reasoningContent)
      BY <2>2
    <3> QED
      BY <1>1, <1>3, <2>2, <2>4, <3>1, <3>2, <3>3, <3>4, WeighMore, ZenonT(30)
  <2> QED
    BY <2>5, <2>6, <2>7
<1>6. ASSUME NEW text \in Texts, ParseReasoning(text)
      PROVE  /\ \E c \in 0..counted'[1], r \in 0..counted'[1], kk \in 0..lines' :
                  Apart(c, r, kk)'
             /\ 30 * counted'[1] >= Weight(content') + Weight(reasoningContent')
  <2>1. text \in Seq(Classes)
    BY TextsAreSequences
  <2>2. /\ UNCHANGED content /\ lines' = lines + 1
        /\ counted'[1] = counted[1] + CountTokens(text)
        /\ reasoningContent' = IF reasoningContent = <<>>
                                 THEN text
                                 ELSE reasoningContent \o <<"blank">> \o text
    BY <1>1, <1>6, CountType DEF ParseReasoning, ReadLine, TypeInv
  <2>3. /\ Weight(reasoningContent') =< Weight(reasoningContent) + Weight(text)
        /\ CountTokens(reasoningContent) + CountTokens(text) =< CountTokens(reasoningContent')
        /\ reasoningContent' \in Seq(Classes)
    BY <1>1, <2>1, <2>2, ReasoningJoined
  <2>4. /\ CountTokens(text) \in Nat /\ CountTokens(reasoningContent) \in Nat
        /\ CountTokens(reasoningContent') \in Nat
    BY <1>1, <2>1, <2>3, TokensOfText
  <2>5. counted[1] = cc + rr /\ rr =< CountTokens(reasoningContent)
    BY <1>2 DEF Apart
  <2>6. Apart(cc, rr + CountTokens(text), k)'
    <3>1. counted'[1] = cc + (rr + CountTokens(text))
      BY <1>4, <2>2, <2>4, <2>5
    <3>2. rr + CountTokens(text) =< CountTokens(reasoningContent')
      BY <1>4, <2>3, <2>4, <2>5
    <3> QED
      BY <1>2, <2>2, <3>1, <3>2 DEF Apart
  <2>7. /\ cc \in 0..counted'[1] /\ rr + CountTokens(text) \in 0..counted'[1]
        /\ k \in 0..lines'
    BY <1>1, <1>4, <2>2, <2>4, <2>5
  <2>8. 30 * counted'[1] >= Weight(content') + Weight(reasoningContent')
    <3>1. /\ Weight(content) \in Nat /\ Weight(reasoningContent) \in Nat
          /\ Weight(text) \in Nat /\ Weight(text) =< 30 * CountTokens(text)
      BY <1>1, <2>1, CountedTwice
    <3>2. /\ Weight(content') = Weight(content)
          /\ Weight(reasoningContent') \in Nat
          /\ Weight(reasoningContent') =< Weight(reasoningContent) + Weight(text)
      BY <2>2, <2>3, <2>1, CountedTwice
    <3>3. 30 * counted[1] >= Weight(reasoningContent) + Weight(content)
      BY <1>3, <3>1
    <3>4. 30 * counted'[1] >= Weight(reasoningContent') + Weight(content)
      <4>1. counted'[1] = counted[1] + CountTokens(text)
        BY <2>2
      <4> QED
        BY <1>1, <2>4, <3>1, <3>2, <3>3, <4>1, WeighMore
    <3> QED
      BY <3>1, <3>2, <3>4
  <2> QED
    BY <2>6, <2>7, <2>8
<1>7. ASSUME UNCHANGED <<content, reasoningContent, counted>>, lines' \in {lines, lines + 1}
      PROVE  /\ \E c \in 0..counted'[1], r \in 0..counted'[1], kk \in 0..lines' :
                  Apart(c, r, kk)'
             /\ 30 * counted'[1] >= Weight(content') + Weight(reasoningContent')
  <2>1. Apart(cc, rr, k)'
    BY <1>2, <1>7 DEF Apart
  <2>2. cc \in 0..counted'[1] /\ rr \in 0..counted'[1] /\ k \in 0..lines'
    BY <1>1, <1>4, <1>7
  <2> QED
    BY <1>3, <1>7, <2>1, <2>2
<1>8. ASSUME NEW figures, ParseFigures(figures)
      PROVE  UNCHANGED <<content, reasoningContent, counted>> /\ lines' = lines + 1
  BY <1>8 DEF ParseFigures, ReadLine
<1>9. ASSUME Begin \/ ParseFails \/ Reply \/ CallFails \/ Fail \/ Finish \/ End
      PROVE  UNCHANGED <<content, reasoningContent, counted, lines>>
  BY <1>9 DEF Begin, ParseFails, Reply, CallFails, Fail, Finish, End, parsed
<1>10. ~Open /\ \A text \in Texts : ~StreamText(text)
  BY <1>0 DEF Open, StreamText, ReadLine, TypeInv, PlaceInv
<1>11. \A figures : ~StreamFigures(figures)
  BY <1>0 DEF StreamFigures, ReadLine, TypeInv, PlaceInv
<1>12. UNCHANGED vars => UNCHANGED <<content, reasoningContent, counted, lines>>
  BY DEF vars
<1> QED
  BY <1>5, <1>6, <1>7, <1>8, <1>9, <1>10, <1>11, <1>12 DEF Next

-----------------------------------------------------------------------------
(* The theorems *)

(* The inductive invariant. *)
UsageInv == TypeInv /\ CounterInv /\ ToldInv /\ ModesInv

(* Every reachable state satisfies all parts of it. *)
LEMMA UsageIsInvariant == Spec => []UsageInv
<1>1. Init => UsageInv
  BY InitType, InitCounter, InitTold, InitModes DEF UsageInv
<1>2. UsageInv /\ [Next]_vars => UsageInv'
  BY PlaceStep, TypeStep, CounterStep, ToldStep, ModesStep DEF UsageInv, TypeInv
<1> QED
  BY <1>1, <1>2, PTL DEF Spec

(* Every state is well typed, for any prompts, figures, number of attempts   *)
(* and length of lines; in particular no attempt is made beyond              *)
(* config.Client.Retry (stream.go:32-60).                                    *)
THEOREM Typing == Spec => []TypeOK
<1>1. UsageInv => TypeOK
  BY DEF UsageInv, TypeInv
<1> QED
  BY <1>1, UsageIsInvariant, PTL

(* The estimate of whatever content and reasoning were collected is the one  *)
(* by positions (utils.go:86-127).                                           *)
THEOREM Estimating == Spec => []EstimateIsByPosition
<1>1. TypeOK => EstimateIsByPosition
  BY CountingByPosition DEF TypeOK, EstimateIsByPosition
<1> QED
  BY <1>1, Typing, PTL

(* The lines of an answer, counted one by one as a stream counts them, are   *)
(* at least two thirds of the whole and at most two tokens per line more;    *)
(* nothing more if all is reasoning (stream.go:383-393, chat.go:341-344).    *)
THEOREM Billing == Spec => []ModesCountAlike
<1>1. UsageInv => ModesCountAlike
  <2> SUFFICES ASSUME UsageInv, ~stream
               PROVE  /\ 3 * counted[1] >= 2 * Whole
                      /\ counted[1] =< Whole + (IF content = <<>> THEN 0 ELSE 2 * lines)
    BY DEF ModesCountAlike
  <2>1. /\ lines \in Nat /\ counted[1] \in Nat
        /\ content \in Seq(Classes) /\ reasoningContent \in Seq(Classes)
    BY UsageAssumption DEF UsageInv, TypeInv, TypeOK
  <2>2. PICK cc \in 0..counted[1], rr \in 0..counted[1], k \in 0..lines : Apart(cc, rr, k)
    BY DEF UsageInv, ModesInv
  <2>3. 30 * counted[1] >= Weight(content) + Weight(reasoningContent)
    BY DEF UsageInv, ModesInv
  <2>4. /\ CountTokens(content) \in Nat /\ CountTokens(reasoningContent) \in Nat
        /\ Weight(content) \in Nat /\ Weight(reasoningContent) \in Nat
        /\ 20 * CountTokens(content) =< Weight(content)
        /\ 20 * CountTokens(reasoningContent) =< Weight(reasoningContent)
    BY <2>1, CountedTwice
  <2>5. /\ counted[1] = cc + rr
        /\ cc =< Tokens(Words(content) + k, Puncts(content), Wides(content))
        /\ rr =< CountTokens(reasoningContent)
        /\ content = <<>> => k = 0
    BY <2>2 DEF Apart
  <2>6. 3 * counted[1] >= 2 * Whole
    BY <2>1, <2>3, <2>4, WeighLess DEF Whole
  <2>7. cc =< CountTokens(content) + 2 * k
    <3> DEFINE w == Words(content)
               p == Puncts(content)
               c == Wides(content)
    <3>1. w \in Nat /\ p \in Nat /\ c \in Nat /\ CountTokens(content) = Tokens(w, p, c)
      BY <2>1, CountedTwice
    <3>2. k \in Nat /\ w + k \in Nat /\ w =< w + k
      BY <2>1, <3>1
    <3> HIDE DEF w, p, c
    <3>3. Tokens(w + k, p, c) =< Tokens(w, p, c) + 2 * ((w + k) - w)
      BY <3>1, <3>2, TokensGrow
    <3>4. Tokens(w + k, p, c) \in Nat /\ Tokens(w, p, c) \in Nat
      BY <3>1, <3>2, TokensType
    <3>5. cc =< Tokens(w + k, p, c)
      BY <2>5 DEF w, p, c
    <3> QED
      BY <3>1, <3>2, <3>3, <3>4, <3>5
  <2>8. cc \in Nat /\ rr \in Nat /\ k \in Nat /\ k =< lines
    BY <2>1
  <2>9. counted[1] =< Whole + (IF content = <<>> THEN 0 ELSE 2 * lines)
    <3>1. CASE content = <<>>
      BY <2>1, <2>4, <2>5, <2>7, <2>8, <3>1 DEF Whole
    <3>2. CASE content # <<>>
      <4> DEFINE u == CountTokens(content)
                 v == CountTokens(reasoningContent)
                 n == counted[1]
      <4>1. /\ u \in Nat /\ v \in Nat /\ n = cc + rr
            /\ cc =< u + 2 * k /\ rr =< v
        BY <2>4, <2>5, <2>7
      <4> HIDE DEF u, v, n
      <4>2. n =< u + v + 2 * lines
        BY <2>1, <2>8, <4>1
      <4> QED
        BY <3>2, <4>2 DEF Whole, u, v, n
    <3> QED
      BY <3>1, <3>2
  <2> QED
    BY <2>6, <2>9
<1> QED
  BY <1>1, UsageIsInvariant, PTL

(* Every usage the client is told adds up and speaks of the whole response,  *)
(* over all attempts; the last one is within a fifth of the calculated       *)
(* figures, whatever the backend reported in whichever attempt               *)
(* (stream.go:202, 413, 473-493, handler.go:409-431).                        *)
THEOREM Spanning == Spec => []UsageSpansAttempts
<1>1. UsageInv => UsageSpansAttempts
  <2> SUFFICES ASSUME UsageInv PROVE UsageSpansAttempts
    OBVIOUS
  <2>1. /\ inputTokens \in Nat /\ outputTokens \in Nat
        /\ messages \in Seq(Seq(Classes))
    BY UsageAssumption DEF UsageInv, TypeInv, TypeOK
  <2>2. CalculateMessageTokens(messages) \in Nat /\ CalculateMessageTokens(messages) > 0
    <3>1. CalculateMessageTokens(messages) \in Nat /\ CalculateMessageTokens(messages) >= 3
      BY <2>1, PromptTokens
    <3> QED
      BY <3>1
  <2>3. stream => Calculated = outputTokens
    BY DEF UsageInv, CounterInv, Calculated
  <2>4. ~stream => Calculated = Whole
    BY DEF Calculated
  <2>5. place # "start" => inputTokens = CalculateMessageTokens(messages)
    BY DEF UsageInv, CounterInv
  <2>6. told.total = told.prompt + told.completion
    BY DEF UsageInv, ToldInv
  <2>7. ASSUME told.kind \in {"init", "chunk", "error"}
        PROVE  told.completion = Calculated /\ told.prompt = CalculateMessageTokens(messages)
    BY <2>3, <2>5, <2>7 DEF UsageInv, ToldInv
  <2>8. ASSUME told.kind \in {"stop", "reply"}, place \in {"closing", "end"}
        PROVE  /\ CloseTo(told.prompt, CalculateMessageTokens(messages))
               /\ Calculated > 0 => CloseTo(told.completion, Calculated)
    BY <2>3, <2>4, <2>5, <2>8 DEF UsageInv, ToldInv
  <2>9. CloseTo(told.prompt, CalculateMessageTokens(messages)) => told.prompt > 0
    BY <2>2 DEF CloseTo
  <2> QED
    BY <2>6, <2>7, <2>8, <2>9 DEF UsageSpansAttempts
<1> QED
  BY <1>1, UsageIsInvariant, PTL
=============================================================================
