---------------------------- MODULE CommonLemmas ----------------------------
(***************************************************************************)
(* Induction on natural numbers over sets instead of predicates, so that   *)
(* the recursive functions of Routing, Quoting and Slippage can be         *)
(* reasoned about without instantiating an operator parameter; and what    *)
(* the sequences hold that are built by filtering and flattening others.   *)
(***************************************************************************)
EXTENDS Filtering, SequencesExt, FiniteSetTheorems, SequenceTheorems, TLAPS

(* Every nonempty set of natural numbers has a least element: among the    *)
(* intervals 0..k with k in S, one has no proper subset among them.        *)
THEOREM LeastElement ==
  ASSUME NEW S \in SUBSET Nat, S # {}
  PROVE  \E m \in S : \A k \in S : m <= k
<1> DEFINE T == {0..k : k \in S}
<1>1. T \subseteq FiniteSubsetsOf(Nat)
  <2> SUFFICES ASSUME NEW k \in S PROVE 0..k \in FiniteSubsetsOf(Nat)
    OBVIOUS
  <2>1. k \in Nat  OBVIOUS
  <2>2. IsFiniteSet(0..k)  BY <2>1, FS_Interval
  <2> QED  BY <2>1, <2>2 DEF FiniteSubsetsOf
<1>2. T # {}  OBVIOUS
<1>3. PICK x \in T : \A y \in T : ~ (<<y, x>> \in StrictSubsetOrdering(Nat))
  <2> HIDE DEF T
  <2> QED  BY <1>1, <1>2, WFMin, FS_StrictSubsetOrderingWellFounded
<1>4. PICK m \in S : x = 0..m  BY <1>3
<1>5. ASSUME NEW k \in S, k < m PROVE FALSE
  <2>1. k \in Nat /\ m \in Nat  OBVIOUS
  <2>2. 0..k \subseteq 0..m /\ 0..k # 0..m
    <3>1. m \in 0..m /\ m \notin 0..k  BY <2>1, <1>5
    <3> QED  BY <2>1, <1>5, <3>1
  <2>3. 0..k \in SUBSET Nat /\ 0..m \in SUBSET Nat  BY <2>1
  <2>4. <<0..k, 0..m>> \in StrictSubsetOrdering(Nat)
    BY <2>2, <2>3 DEF StrictSubsetOrdering
  <2> QED  BY <1>3, <1>4, <2>4
<1>6. \A k \in S : k \in Nat /\ m \in Nat  OBVIOUS
<1> QED  BY <1>5, <1>6

(* A set that holds 0, and with each i below N also i + 1, holds 0..N.     *)
THEOREM BoundedInduction ==
  ASSUME NEW N \in Nat, NEW S, 0 \in S,
         \A i \in 0..N - 1 : i \in S => i + 1 \in S
  PROVE  0..N \subseteq S
<1> SUFFICES ASSUME (0..N) \ S # {} PROVE FALSE
  OBVIOUS
<1>0. (0..N) \ S \in SUBSET Nat  OBVIOUS
<1>1. PICK m \in (0..N) \ S : \A k \in (0..N) \ S : m <= k
  BY <1>0, LeastElement
<1>2. m - 1 \in 0..N - 1  BY <1>1
<1>3. m - 1 \in S  BY <1>1, <1>2
<1> QED  BY <1>1, <1>2, <1>3

(* A function on 0..N built step by step from 0 up, or from N down.        *)
Climbs(g, N, D, base, step) ==
  g \in [0..N -> D] /\ g[0] = base /\ \A i \in 1..N : g[i] = step[i][g[i - 1]]
Descends(g, N, D, base, step) ==
  g \in [0..N -> D] /\ g[N] = base /\ \A i \in 0..N - 1 : g[i] = step[i][g[i + 1]]

(* A recursion on 0..N whose step is a function has a solution, and its    *)
(* values stay where the step keeps them.                                  *)
THEOREM RecursionUp ==
  ASSUME NEW N \in Nat, NEW D, NEW base \in D, NEW step \in [1..N -> [D -> D]]
  PROVE  \E g : Climbs(g, N, D, base, step)
<1> USE DEF Climbs
<1> DEFINE Solves(g, m) == Climbs(g, m, D, base, step)
           S == {m \in 0..N : \E g : Solves(g, m)}
<1>1. 0 \in S
  <2> DEFINE g == [i \in 0..0 |-> base]
  <2>1. Solves(g, 0)  OBVIOUS
  <2>2. \E f : Solves(f, 0)
    <3> HIDE DEF g, Solves, Climbs
    <3> QED  BY <2>1
  <2> HIDE DEF Solves, Climbs
  <2> QED  BY <2>2
<1>2. ASSUME NEW m \in 0..N - 1, m \in S PROVE m + 1 \in S
  <2>1. PICK g : Solves(g, m)  BY <1>2
  <2> DEFINE h == [i \in 0..m + 1 |->
                     IF i <= m THEN g[i] ELSE step[m + 1][g[m]]]
  <2>2. m + 1 \in 1..N /\ m \in 0..m  OBVIOUS
  <2>3. step[m + 1][g[m]] \in D  BY <2>1, <2>2
  <2>4. h \in [0..m + 1 -> D]  BY <2>1, <2>3
  <2>5. h[0] = base  BY <2>1
  <2>6. ASSUME NEW i \in 1..m + 1 PROVE h[i] = step[i][h[i - 1]]
    <3>1. CASE i <= m
      <4>1. i \in 1..m /\ i - 1 \in 0..m  BY <3>1
      <4>2. h[i] = g[i] /\ h[i - 1] = g[i - 1]  BY <3>1, <4>1
      <4> QED  BY <2>1, <4>1, <4>2
    <3>2. CASE i = m + 1
      <4>1. i - 1 = m /\ h[i - 1] = g[m]  BY <3>2, <2>2
      <4>2. h[i] = step[m + 1][g[m]]  BY <3>2
      <4> QED  BY <3>2, <4>1, <4>2
    <3> QED  BY <3>1, <3>2
  <2>7. Solves(h, m + 1)
    <3> HIDE DEF h
    <3> QED  BY <2>4, <2>5, <2>6
  <2>8. \E f : Solves(f, m + 1)
    <3> HIDE DEF h, Solves, Climbs
    <3> QED  BY <2>7
  <2>9. m + 1 \in 0..N  OBVIOUS
  <2> HIDE DEF Solves, Climbs
  <2> QED  BY <2>8, <2>9
<1>3. N \in S
  <2> HIDE DEF S, Climbs
  <2>1. 0..N \subseteq S  BY <1>1, <1>2, BoundedInduction
  <2> QED  BY <2>1
<1> QED  BY <1>3

(* The same downwards from N.                                              *)
THEOREM RecursionDown ==
  ASSUME NEW N \in Nat, NEW D, NEW base \in D,
         NEW step \in [0..N - 1 -> [D -> D]]
  PROVE  \E g : Descends(g, N, D, base, step)
<1> DEFINE up == [i \in 1..N |-> step[N - i]]
<1>1. up \in [1..N -> [D -> D]]
  <2>1. \A i \in 1..N : N - i \in 0..N - 1  OBVIOUS
  <2> QED  BY <2>1
<1>2. PICK f : Climbs(f, N, D, base, up)
  <2> HIDE DEF up
  <2> QED  BY <1>1, RecursionUp
<1> DEFINE g == [i \in 0..N |-> f[N - i]]
<1>3. g \in [0..N -> D]
  <2>1. \A i \in 0..N : N - i \in 0..N  OBVIOUS
  <2> QED  BY <1>2, <2>1 DEF Climbs
<1>4. g[N] = base  BY <1>2 DEF Climbs
<1>5. ASSUME NEW i \in 0..N - 1 PROVE g[i] = step[i][g[i + 1]]
  <2>1. N - i \in 1..N /\ (N - i) - 1 = N - (i + 1) /\ N - (N - i) = i
        /\ i + 1 \in 0..N /\ N - (i + 1) \in 0..N /\ i \in 0..N
    OBVIOUS
  <2>2. f[N - i] = up[N - i][f[N - (i + 1)]]  BY <1>2, <2>1 DEF Climbs
  <2>3. f[N - (i + 1)] \in D  BY <1>2, <2>1 DEF Climbs
  <2>4. up[N - i][f[N - (i + 1)]] = step[i][f[N - (i + 1)]]
    BY <2>1, <2>3
  <2> QED  BY <2>1, <2>2, <2>4
<1> HIDE DEF g
<1> QED  BY <1>3, <1>4, <1>5 DEF Descends

-----------------------------------------------------------------------------
(* Which element of a list comes from where. *)

(* P lists the elements of s up to m that lie in S, in their order, each   *)
(* where at says.                                                          *)
Picks(P, s, S, m, at) ==
  /\ at \in [1..Len(P) -> 1..m]
  /\ \A j, k \in 1..Len(P) : j < k => at[j] < at[k]
  /\ \A k \in 1..Len(P) : P[k] = s[at[k]] /\ s[at[k]] \in S
  /\ \A i \in 1..m : s[i] \in S => \E k \in 1..Len(P) : at[k] = i

LEMMA PassingPicks ==
  ASSUME NEW D, NEW s \in Seq(D), NEW S
  PROVE  /\ Passing(s, S) \in Seq(D)
         /\ \E at : Picks(Passing(s, S), s, S, Len(s), at)
<1> DEFINE N == Len(s)
           Add(x, i) == IF s[i] \in S THEN Append(x, s[i]) ELSE x
           Is(f) == f = [k \in 0..N |-> IF k = 0 THEN <<>>
                          ELSE IF s[k] \in S THEN Append(f[k - 1], s[k]) ELSE f[k - 1]]
           step == [i \in 1..N |-> [x \in Seq(D) |-> Add(x, i)]]
<1>0. N \in Nat /\ \A i \in 1..N : s[i] \in D  OBVIOUS
<1>1. \A i \in 1..N, x \in Seq(D) : Add(x, i) \in Seq(D)  BY <1>0
<1>2. PICK g : Climbs(g, N, Seq(D), <<>>, step)
  <2>1. step \in [1..N -> [Seq(D) -> Seq(D)]]  BY <1>1
  <2>2. <<>> \in Seq(D)  OBVIOUS
  <2> HIDE DEF step, N
  <2> QED  BY <1>0, <2>1, <2>2, RecursionUp
<1> HIDE DEF N
<1>3. \E f : Is(f)
  <2>1. \A k \in 0..N : g[k] = IF k = 0 THEN <<>> ELSE Add(g[k - 1], k)
    <3> SUFFICES ASSUME NEW k \in 0..N, k # 0 PROVE g[k] = Add(g[k - 1], k)
      BY <1>2 DEF Climbs
    <3>1. k \in 1..N /\ k - 1 \in 0..N  BY <1>0
    <3>2. g[k] = step[k][g[k - 1]] /\ g[k - 1] \in Seq(D)  BY <1>2, <3>1 DEF Climbs
    <3>3. \A x \in Seq(D) : step[k][x] = Add(x, k)  BY <3>1
    <3> HIDE DEF Add, step
    <3> QED  BY <3>2, <3>3
  <2>2. g = [k \in 0..N |-> g[k]]  BY <1>2 DEF Climbs
  <2>3. Is(g)  BY <2>1, <2>2
  <2> HIDE DEF Is
  <2> QED  BY <2>3
<1> DEFINE kept == CHOOSE f : Is(f)
<1>4. Is(kept)  BY <1>3
<1>5. Passing(s, S) = kept[N]  BY DEF Passing, N
<1> HIDE DEF kept
<1>6. kept[0] = <<>> /\ \A i \in 0..N - 1 : kept[i + 1] = Add(kept[i], i + 1)
  <2>1. kept[0] = <<>>  BY <1>0, <1>4
  <2>2. \A i \in 0..N - 1 : i + 1 \in 0..N /\ i + 1 # 0 /\ (i + 1) - 1 = i
    BY <1>0
  <2> QED  BY <1>4, <2>1, <2>2
<1> DEFINE T == {m \in 0..N : /\ kept[m] \in Seq(D)
                              /\ \E at : Picks(kept[m], s, S, m, at)}
<1>7. 0 \in T
  <2> DEFINE at == [k \in 1..0 |-> 0]
  <2>1. Picks(<<>>, s, S, 0, at)  BY DEF Picks
  <2>2. \E f : Picks(<<>>, s, S, 0, f)
    <3> HIDE DEF at
    <3> QED  BY <2>1
  <2>3. \E f : Picks(kept[0], s, S, 0, f)  BY <1>6, <2>2
  <2>4. kept[0] \in Seq(D) /\ 0 \in 0..N  BY <1>0, <1>6
  <2> QED  BY <2>3, <2>4
<1>8. ASSUME NEW m \in 0..N - 1, m \in T PROVE m + 1 \in T
  <2> DEFINE P == kept[m]
             Q == kept[m + 1]
  <2>0. m + 1 \in 0..N /\ m + 1 \in 1..N /\ m \in Nat  BY <1>0
  <2>1. PICK at : Picks(P, s, S, m, at)  BY <1>8
  <2>2. P \in Seq(D) /\ Len(P) \in Nat /\ Q = Add(P, m + 1)  BY <1>6, <1>8
  <2> HIDE DEF P, Q
  <2>3. CASE s[m + 1] \in S
    <3> DEFINE more == [k \in 1..Len(P) + 1 |-> IF k <= Len(P) THEN at[k] ELSE m + 1]
    <3>1. /\ Q \in Seq(D) /\ Len(Q) = Len(P) + 1
          /\ \A k \in 1..Len(P) : Q[k] = P[k]
          /\ Q[Len(P) + 1] = s[m + 1]
      <4>1. Q = Append(P, s[m + 1]) /\ s[m + 1] \in D  BY <1>0, <2>0, <2>2, <2>3
      <4> QED  BY <2>2, <4>1
    <3>2. /\ more \in [1..Len(Q) -> 1..m + 1]
          /\ \A k \in 1..Len(P) : more[k] = at[k] /\ at[k] \in 1..m
          /\ more[Len(P) + 1] = m + 1
      <4>1. \A k \in 1..Len(P) : at[k] \in 1..m  BY <2>1 DEF Picks
      <4> QED  BY <2>0, <2>2, <3>1, <4>1
    <3> HIDE DEF more
    <3>3. \A k \in 1..Len(Q) : k \in 1..Len(P) \/ k = Len(P) + 1
      BY <2>2, <3>1
    <3>4. \A j, k \in 1..Len(Q) : j < k => more[j] < more[k]
      <4> SUFFICES ASSUME NEW j \in 1..Len(Q), NEW k \in 1..Len(Q), j < k
                   PROVE  more[j] < more[k]
        OBVIOUS
      <4>0. j \in 1..Len(P)  BY <2>2, <3>1
      <4>1. CASE k \in 1..Len(P)
        BY <2>1, <3>2, <4>0, <4>1 DEF Picks
      <4>2. CASE k = Len(P) + 1
        <5>1. more[j] \in 1..m /\ more[k] = m + 1  BY <3>2, <4>0, <4>2
        <5> QED  BY <2>0, <5>1
      <4> QED  BY <3>3, <4>1, <4>2
    <3>5. \A k \in 1..Len(Q) : Q[k] = s[more[k]] /\ s[more[k]] \in S
      <4>1. \A k \in 1..Len(P) : P[k] = s[at[k]] /\ s[at[k]] \in S
        BY <2>1 DEF Picks
      <4> QED  BY <2>3, <3>1, <3>2, <3>3, <4>1
    <3>6. \A i \in 1..m + 1 : s[i] \in S => \E k \in 1..Len(Q) : more[k] = i
      <4> SUFFICES ASSUME NEW i \in 1..m + 1, s[i] \in S
                   PROVE  \E k \in 1..Len(Q) : more[k] = i
        OBVIOUS
      <4>1. CASE i = m + 1
        <5>1. Len(P) + 1 \in 1..Len(Q)  BY <2>2, <3>1
        <5> QED  BY <3>2, <4>1, <5>1
      <4>2. CASE i # m + 1
        <5>1. i \in 1..m  BY <2>0, <4>2
        <5>2. PICK k \in 1..Len(P) : at[k] = i  BY <2>1, <5>1 DEF Picks
        <5>3. k \in 1..Len(Q)  BY <2>2, <3>1
        <5> QED  BY <3>2, <5>2, <5>3
      <4> QED  BY <4>1, <4>2
    <3>7. Picks(Q, s, S, m + 1, more)  BY <3>2, <3>4, <3>5, <3>6 DEF Picks
    <3> QED  BY <2>0, <3>1, <3>7 DEF Q
  <2>4. CASE s[m + 1] \notin S
    <3>1. Q = P  BY <2>2, <2>4
    <3>2. Picks(Q, s, S, m + 1, at)
      <4>1. at \in [1..Len(P) -> 1..m + 1]  BY <2>0, <2>1 DEF Picks
      <4>2. \A i \in 1..m + 1 : s[i] \in S => i \in 1..m  BY <2>0, <2>4
      <4> QED  BY <2>1, <3>1, <4>1, <4>2 DEF Picks
    <3> QED  BY <2>0, <2>2, <3>1, <3>2 DEF Q
  <2> QED  BY <2>3, <2>4
<1>9. N \in T
  <2> HIDE DEF T
  <2>1. 0..N \subseteq T  BY <1>0, <1>7, <1>8, BoundedInduction
  <2> QED  BY <1>0, <2>1
<1> QED  BY <1>5, <1>9 DEF N

(* F lists the elements of the first m of seqs, each of the row and at the *)
(* column that row and col say.                                            *)
Lists(F, seqs, m, row, col) ==
  /\ row \in [1..Len(F) -> 1..m] /\ col \in [1..Len(F) -> Nat]
  /\ \A j, k \in 1..Len(F) : row[j] = row[k] /\ col[j] = col[k] => j = k
  /\ \A k \in 1..Len(F) : col[k] \in 1..Len(seqs[row[k]]) /\ F[k] = seqs[row[k]][col[k]]
  /\ \A i \in 1..m : \A j \in 1..Len(seqs[i]) :
       \E k \in 1..Len(F) : row[k] = i /\ col[k] = j

(* The first of seqs lists itself. *)
LEMMA FirstLists ==
  ASSUME NEW D, NEW seqs, NEW F \in Seq(D), F = seqs[1]
  PROVE  \E row, col : Lists(F, seqs, 1, row, col)
<1> DEFINE row == [k \in 1..Len(F) |-> 1]
           col == [k \in 1..Len(F) |-> k]
<1>1. Lists(F, seqs, 1, row, col)
  <2>1. Len(F) \in Nat  OBVIOUS
  <2>2. row \in [1..Len(F) -> 1..1] /\ col \in [1..Len(F) -> Nat]  BY <2>1
  <2>3. \A k \in 1..Len(F) : row[k] = 1 /\ col[k] = k  OBVIOUS
  <2> HIDE DEF row, col
  <2>4. \A i \in 1..1 : i = 1  OBVIOUS
  <2> QED  BY <2>1, <2>2, <2>3, <2>4 DEF Lists
<1> HIDE DEF row, col
<1> QED  BY <1>1

(* One more of seqs is listed after the others. *)
LEMMA MoreLists ==
  ASSUME NEW D, NEW seqs, NEW m \in Nat, NEW P \in Seq(D), seqs[m + 1] \in Seq(D),
         NEW row, NEW col, Lists(P, seqs, m, row, col)
  PROVE  \E row2, col2 : Lists(P \o seqs[m + 1], seqs, m + 1, row2, col2)
<1> DEFINE x == seqs[m + 1]
           Q == P \o x
           l == Len(P)
           row2 == [k \in 1..Len(Q) |-> IF k <= l THEN row[k] ELSE m + 1]
           col2 == [k \in 1..Len(Q) |-> IF k <= l THEN col[k] ELSE k - l]
<1>1. /\ Len(P) \in Nat /\ Len(x) \in Nat /\ Len(Q) = Len(P) + Len(x)
      /\ \A k \in 1..Len(Q) : Q[k] = IF k <= Len(P) THEN P[k] ELSE x[k - Len(P)]
  OBVIOUS
<1>2. /\ row \in [1..l -> 1..m] /\ col \in [1..l -> Nat]
      /\ \A j, k \in 1..l : row[j] = row[k] /\ col[j] = col[k] => j = k
      /\ \A k \in 1..l : col[k] \in 1..Len(seqs[row[k]]) /\ P[k] = seqs[row[k]][col[k]]
      /\ \A i \in 1..m : \A j \in 1..Len(seqs[i]) :
           \E k \in 1..l : row[k] = i /\ col[k] = j
  BY DEF Lists
<1> HIDE DEF x, Q, l
<1>3. l \in Nat /\ Len(x) \in Nat /\ Len(Q) = l + Len(x)  BY <1>1 DEF l
<1>4. \A k \in 1..Len(Q) : k \in 1..l \/ k \in l + 1..Len(Q)  BY <1>3
<1>5. /\ \A k \in 1..l : k \in 1..Len(Q) /\ row2[k] = row[k] /\ col2[k] = col[k]
                         /\ Q[k] = P[k] /\ row[k] \in 1..m
      /\ \A k \in l + 1..Len(Q) : /\ k \in 1..Len(Q) /\ row2[k] = m + 1 /\ col2[k] = k - l
                                  /\ k - l \in 1..Len(x) /\ Q[k] = x[k - l]
  <2>1. \A k \in 1..l : k \in 1..Len(Q) /\ row[k] \in 1..m /\ k <= l  BY <1>2, <1>3
  <2>2. \A k \in l + 1..Len(Q) : k \in 1..Len(Q) /\ ~(k <= l) /\ k - l \in 1..Len(x)
    BY <1>3
  <2>3. \A k \in 1..Len(Q) : Q[k] = IF k <= l THEN P[k] ELSE x[k - l]  BY <1>1 DEF l
  <2> QED  BY <2>1, <2>2, <2>3
<1>6. row2 \in [1..Len(Q) -> 1..m + 1] /\ col2 \in [1..Len(Q) -> Nat]
  <2>1. \A k \in 1..Len(Q) : row2[k] \in 1..m + 1 /\ col2[k] \in Nat
    <3> SUFFICES ASSUME NEW k \in 1..Len(Q) PROVE row2[k] \in 1..m + 1 /\ col2[k] \in Nat
      OBVIOUS
    <3>1. CASE k \in 1..l  BY <1>2, <1>5, <3>1
    <3>2. CASE k \in l + 1..Len(Q)
      <4>1. row2[k] = m + 1 /\ col2[k] = k - l /\ k - l \in 1..Len(x)
        BY <1>5, <3>2
      <4>2. m + 1 \in 1..m + 1 /\ 1..Len(x) \subseteq Nat  BY <1>3
      <4> HIDE DEF row2, col2
      <4> QED  BY <4>1, <4>2
    <3> QED  BY <1>4, <3>1, <3>2
  <2> QED  BY <2>1
<1> HIDE DEF row2, col2
<1>7. \A j, k \in 1..Len(Q) : row2[j] = row2[k] /\ col2[j] = col2[k] => j = k
  <2> SUFFICES ASSUME NEW j \in 1..Len(Q), NEW k \in 1..Len(Q),
                      row2[j] = row2[k], col2[j] = col2[k]
               PROVE  j = k
    OBVIOUS
  <2>1. CASE j \in 1..l /\ k \in 1..l  BY <1>2, <1>5, <2>1
  <2>2. CASE j \in 1..l /\ k \in l + 1..Len(Q)
    <3>1. row2[j] \in 1..m /\ row2[k] = m + 1  BY <1>5, <2>2
    <3> QED  BY <3>1
  <2>3. CASE j \in l + 1..Len(Q) /\ k \in 1..l
    <3>1. row2[k] \in 1..m /\ row2[j] = m + 1  BY <1>5, <2>3
    <3> QED  BY <3>1
  <2>4. CASE j \in l + 1..Len(Q) /\ k \in l + 1..Len(Q)
    <3>1. j - l = k - l  BY <1>5, <2>4
    <3> QED  BY <1>3, <3>1
  <2> QED  BY <1>4, <2>1, <2>2, <2>3, <2>4
<1>8. \A k \in 1..Len(Q) : col2[k] \in 1..Len(seqs[row2[k]]) /\ Q[k] = seqs[row2[k]][col2[k]]
  <2> SUFFICES ASSUME NEW k \in 1..Len(Q)
               PROVE col2[k] \in 1..Len(seqs[row2[k]]) /\ Q[k] = seqs[row2[k]][col2[k]]
    OBVIOUS
  <2>1. CASE k \in 1..l  BY <1>2, <1>5, <2>1
  <2>2. CASE k \in l + 1..Len(Q)
    <3>1. row2[k] = m + 1 /\ col2[k] = k - l /\ k - l \in 1..Len(x) /\ Q[k] = x[k - l]
      BY <1>5, <2>2
    <3>2. x = seqs[row2[k]]  BY <3>1 DEF x
    <3> QED  BY <3>1, <3>2
  <2> QED  BY <1>4, <2>1, <2>2
<1>9. \A i \in 1..m + 1 : \A j \in 1..Len(seqs[i]) :
        \E k \in 1..Len(Q) : row2[k] = i /\ col2[k] = j
  <2> SUFFICES ASSUME NEW i \in 1..m + 1, NEW j \in 1..Len(seqs[i])
               PROVE  \E k \in 1..Len(Q) : row2[k] = i /\ col2[k] = j
    OBVIOUS
  <2>1. CASE i = m + 1
    <3>1. j \in 1..Len(x)  BY <2>1 DEF x
    <3>2. l + j \in l + 1..Len(Q) /\ (l + j) - l = j  BY <1>3, <3>1
    <3>3. row2[l + j] = i /\ col2[l + j] = j /\ l + j \in 1..Len(Q)
      BY <1>5, <2>1, <3>2
    <3> QED  BY <3>3
  <2>2. CASE i # m + 1
    <3>1. i \in 1..m  BY <2>2
    <3>2. PICK k \in 1..l : row[k] = i /\ col[k] = j  BY <1>2, <3>1
    <3> QED  BY <1>5, <3>2
  <2> QED  BY <2>1, <2>2
<1>10. Lists(Q, seqs, m + 1, row2, col2)  BY <1>6, <1>7, <1>8, <1>9 DEF Lists
<1>11. \E r, c : Lists(Q, seqs, m + 1, r, c)  BY <1>10
<1> QED  BY <1>11 DEF Q, x

(* What FlattenSeq has joined after each of seqs.                          *)
Joins(flat, seqs) ==
  /\ FlattenSeq(seqs) = flat[Len(seqs)] /\ flat[1] = seqs[1]
  /\ \A i \in 1..Len(seqs) - 1 : flat[i + 1] = flat[i] \o seqs[i + 1]

LEMMA FlattenJoins ==
  ASSUME NEW D, NEW seqs \in Seq(Seq(D)), Len(seqs) # 0
  PROVE  \E flat : Joins(flat, seqs)
<1> DEFINE N == Len(seqs)
           Is(f) == f = [i \in 1..N |-> IF i = 1 THEN seqs[i] ELSE f[i - 1] \o seqs[i]]
           step == [i \in 1..N - 1 |-> [x \in Seq(D) |-> x \o seqs[i + 1]]]
<1>a. N \in Nat /\ \A i \in 1..N : seqs[i] \in Seq(D)  OBVIOUS
<1>b. N # 0  OBVIOUS
<1>0. N - 1 \in Nat /\ 1 \in 1..N  BY <1>a, <1>b
<1>1. PICK g : Climbs(g, N - 1, Seq(D), seqs[1], step)
  <2>1. \A i \in 1..N - 1, x \in Seq(D) : x \o seqs[i + 1] \in Seq(D)
    <3> SUFFICES ASSUME NEW i \in 1..N - 1, NEW x \in Seq(D)
                 PROVE  x \o seqs[i + 1] \in Seq(D)
      OBVIOUS
    <3>1. seqs[i + 1] \in Seq(D)
      <4>1. i + 1 \in 1..N  BY <1>a
      <4> QED  BY <1>a, <4>1
    <3> QED  BY <3>1
  <2>2. step \in [1..N - 1 -> [Seq(D) -> Seq(D)]]  BY <2>1
  <2>3. seqs[1] \in Seq(D)  BY <1>a, <1>0
  <2> HIDE DEF step, N
  <2> QED  BY <1>0, <2>2, <2>3, RecursionUp
<1> HIDE DEF N
<1>2. \E f : Is(f)
  <2> DEFINE f == [i \in 1..N |-> g[i - 1]]
  <2>1. \A i \in 1..N : f[i] = IF i = 1 THEN seqs[i] ELSE f[i - 1] \o seqs[i]
    <3> SUFFICES ASSUME NEW i \in 1..N
                 PROVE  f[i] = IF i = 1 THEN seqs[i] ELSE f[i - 1] \o seqs[i]
      OBVIOUS
    <3>1. CASE i = 1
      <4>1. f[1] = g[0] /\ g[0] = seqs[1]  BY <1>0, <1>1 DEF Climbs
      <4> QED  BY <3>1, <4>1
    <3>2. CASE i # 1
      <4>1. i - 1 \in 1..N - 1 /\ i - 1 \in 1..N /\ i - 1 - 1 \in 0..N - 1
            /\ (i - 1) + 1 = i
        BY <1>a, <3>2
      <4>2. g[i - 1] = step[i - 1][g[i - 1 - 1]] /\ g[i - 1 - 1] \in Seq(D)
        BY <1>1, <4>1 DEF Climbs
      <4>3. step[i - 1][g[i - 1 - 1]] = g[i - 1 - 1] \o seqs[i]
        BY <4>1, <4>2
      <4>4. f[i] = g[i - 1] /\ f[i - 1] = g[i - 1 - 1]  BY <4>1
      <4> HIDE DEF f, step
      <4> QED  BY <3>2, <4>2, <4>3, <4>4
    <3> QED  BY <3>1, <3>2
  <2>2. f = [i \in 1..N |-> f[i]]  OBVIOUS
  <2> HIDE DEF f
  <2>3. Is(f)  BY <2>1, <2>2
  <2> HIDE DEF Is
  <2> QED  BY <2>3
<1> DEFINE flat == CHOOSE f : Is(f)
<1>3. Is(flat)  BY <1>2
<1>4. FlattenSeq(seqs) = flat[N]  BY <1>b DEF FlattenSeq, N
<1> HIDE DEF flat
<1>5. flat[1] = seqs[1] /\ \A i \in 1..N - 1 : flat[i + 1] = flat[i] \o seqs[i + 1]
  <2>1. flat[1] = seqs[1]  BY <1>0, <1>3
  <2>2. \A i \in 1..N - 1 : i + 1 \in 1..N /\ i + 1 # 1 /\ (i + 1) - 1 = i
    BY <1>a
  <2> QED  BY <1>3, <2>1, <2>2
<1>6. Joins(flat, seqs)  BY <1>4, <1>5 DEF Joins, N
<1> QED  BY <1>6

LEMMA FlattenLists ==
  ASSUME NEW D, NEW seqs \in Seq(Seq(D))
  PROVE  /\ FlattenSeq(seqs) \in Seq(D)
         /\ \E row, col : Lists(FlattenSeq(seqs), seqs, Len(seqs), row, col)
<1> DEFINE N == Len(seqs)
<1>0. N \in Nat /\ \A i \in 1..N : seqs[i] \in Seq(D)  OBVIOUS
<1>e. ASSUME N = 0
      PROVE  /\ FlattenSeq(seqs) \in Seq(D)
             /\ \E row, col : Lists(FlattenSeq(seqs), seqs, N, row, col)
  <2>1. seqs = <<>> /\ FlattenSeq(seqs) = <<>>  BY <1>e DEF FlattenSeq
  <2> DEFINE f == [k \in 1..0 |-> 0]
  <2>2. Lists(<<>>, seqs, N, f, f)  BY <1>e, <2>1 DEF Lists
  <2>3. \E row, col : Lists(<<>>, seqs, N, row, col)
    <3> HIDE DEF f, N
    <3> QED  BY <2>2
  <2>4. <<>> \in Seq(D)  OBVIOUS
  <2> DEFINE F == FlattenSeq(seqs)
  <2>5. F = <<>>  BY <2>1
  <2> HIDE DEF N, F
  <2>6. F \in Seq(D) /\ \E row, col : Lists(F, seqs, N, row, col)
    BY <2>3, <2>4, <2>5
  <2> QED  BY <2>6 DEF F
<1>n. ASSUME N # 0
      PROVE  /\ FlattenSeq(seqs) \in Seq(D)
             /\ \E row, col : Lists(FlattenSeq(seqs), seqs, N, row, col)
  <2>0. N - 1 \in Nat /\ 1 \in 1..N  BY <1>0, <1>n
  <2>1. PICK flat : Joins(flat, seqs)  BY <1>n, FlattenJoins
  <2>4. FlattenSeq(seqs) = flat[N]  BY <2>1 DEF Joins
  <2>5. flat[1] = seqs[1] /\ \A i \in 1..N - 1 : flat[i + 1] = flat[i] \o seqs[i + 1]
    BY <2>1 DEF Joins
  <2> HIDE DEF N
  <2> DEFINE Good(m) == /\ flat[m] \in Seq(D)
                        /\ \E row, col : Lists(flat[m], seqs, m, row, col)
             T == {m \in 0..N - 1 : Good(m + 1)}
  <2>6. 0 \in T
    <3>1. seqs[1] \in Seq(D)  BY <1>0, <2>0
    <3>2. \E row, col : Lists(flat[1], seqs, 1, row, col)
      BY <2>5, <3>1, FirstLists
    <3>3. Good(0 + 1)  BY <2>5, <3>1, <3>2
    <3>4. 0 \in 0..N - 1  BY <2>0
    <3> HIDE DEF Good
    <3> QED  BY <3>3, <3>4
  <2>7. ASSUME NEW m \in 0..N - 1 - 1, m \in T PROVE m + 1 \in T
    <3> DEFINE i == m + 1
    <3>1. i \in 1..N - 1 /\ i \in Nat /\ i \in 0..N - 1 /\ i + 1 \in 1..N
      BY <1>0, <2>0
    <3> HIDE DEF i
    <3>2. flat[i] \in Seq(D) /\ \E row, col : Lists(flat[i], seqs, i, row, col)
      BY <2>7 DEF i
    <3>3. seqs[i + 1] \in Seq(D)  BY <1>0, <3>1
    <3>4. flat[i + 1] = flat[i] \o seqs[i + 1]  BY <2>5, <3>1
    <3>5. \E row, col : Lists(flat[i] \o seqs[i + 1], seqs, i + 1, row, col)
      BY <3>1, <3>2, <3>3, MoreLists
    <3>6. Good(i + 1)  BY <3>2, <3>3, <3>4, <3>5
    <3> HIDE DEF Good
    <3> QED  BY <3>1, <3>6 DEF i
  <2>8. N - 1 \in T
    <3> HIDE DEF T
    <3>1. 0..N - 1 \subseteq T  BY <2>0, <2>6, <2>7, BoundedInduction
    <3> QED  BY <2>0, <3>1
  <2>9. (N - 1) + 1 = N  BY <1>0
  <2> QED  BY <2>4, <2>8, <2>9
<1> QED  BY <1>e, <1>n DEF N

(* Where each element of each of seqs ends up.                             *)
Offsets(start, seqs) ==
  /\ Len(seqs) # 0 => start[1] = 0
  /\ \A i \in 1..Len(seqs) - 1 : start[i + 1] = start[i] + Len(seqs[i])

(* F is the first m of seqs, joined.                                       *)
Puts(F, seqs, start, m) ==
  /\ start[m] \in Nat /\ Len(F) = start[m] + Len(seqs[m])
  /\ \A i \in 1..m :
       /\ start[i] \in Nat /\ start[i] + Len(seqs[i]) <= Len(F)
       /\ \A c \in 1..Len(seqs[i]) : F[start[i] + c] = seqs[i][c]

LEMMA MorePuts ==
  ASSUME NEW D, NEW seqs, NEW m \in Nat \ {0}, NEW P \in Seq(D), NEW start,
         \A i \in 1..m : Len(seqs[i]) \in Nat, seqs[m + 1] \in Seq(D),
         start[m + 1] = start[m] + Len(seqs[m]), Puts(P, seqs, start, m)
  PROVE  Puts(P \o seqs[m + 1], seqs, start, m + 1)
<1> DEFINE x == seqs[m + 1]
           Q == P \o x
           l == Len(P)
           n == Len(x)
           u == start[m + 1]
<1>1. /\ Q \in Seq(D) /\ Len(Q) = l + n
      /\ \A k \in 1..l + n : Q[k] = IF k <= l THEN P[k] ELSE x[k - l]
      /\ l \in Nat /\ n \in Nat
  BY ConcatProperties, LenProperties
<1>2. u = l  BY DEF Puts
<1> HIDE DEF x, Q, l, n, u
<1>3. ASSUME NEW i \in 1..m
      PROVE  /\ start[i] \in Nat /\ start[i] + Len(seqs[i]) <= Len(Q)
             /\ \A c \in 1..Len(seqs[i]) : Q[start[i] + c] = seqs[i][c]
  <2>1. /\ start[i] \in Nat /\ start[i] + Len(seqs[i]) <= l /\ Len(seqs[i]) \in Nat
        /\ \A c \in 1..Len(seqs[i]) : P[start[i] + c] = seqs[i][c]
    BY DEF Puts, l
  <2>2. ASSUME NEW c \in 1..Len(seqs[i]) PROVE Q[start[i] + c] = seqs[i][c]
    <3> DEFINE at == start[i]
               size == Len(seqs[i])
    <3>1. start[i] + c \in 1..l + n /\ start[i] + c <= l
      <4>1. at \in Nat /\ at + size <= l /\ size \in Nat /\ c \in 1..size  BY <2>1
      <4>2. l \in Nat /\ n \in Nat  BY <1>1
      <4> HIDE DEF at, size
      <4>3. at + c \in 1..l + n /\ at + c <= l  BY ONLY <4>1, <4>2
      <4> QED  BY <4>3 DEF at
    <3>2. Q[start[i] + c] = P[start[i] + c]  BY <1>1, <3>1
    <3> QED  BY <2>1, <3>2
  <2> QED  BY <1>1, <2>1, <2>2
<1>4. ASSUME NEW c \in 1..n PROVE Q[u + c] = x[c]
  <2>1. l + c \in 1..l + n /\ ~(l + c <= l) /\ (l + c) - l = c  BY <1>1
  <2> QED  BY <1>1, <1>2, <2>1
<1>5. u \in Nat /\ Len(Q) = u + n  BY <1>1, <1>2
<1>6. u + n <= Len(Q)  BY <1>1, <1>5
<1>7. \A i \in 1..m + 1 : i \in 1..m \/ i = m + 1  OBVIOUS
<1>8. Puts(Q, seqs, start, m + 1)
  <2>1. /\ start[m + 1] \in Nat /\ start[m + 1] + Len(seqs[m + 1]) <= Len(Q)
        /\ \A c \in 1..Len(seqs[m + 1]) : Q[start[m + 1] + c] = seqs[m + 1][c]
    BY <1>4, <1>5, <1>6 DEF u, n, x
  <2>2. Len(Q) = start[m + 1] + Len(seqs[m + 1])  BY <1>5 DEF u, n, x
  <2> QED  BY <1>3, <1>7, <2>1, <2>2 DEF Puts
<1> QED  BY <1>8 DEF Q, x

LEMMA FlattenAt ==
  ASSUME NEW D, NEW seqs \in Seq(Seq(D)), NEW start, Offsets(start, seqs), Len(seqs) # 0
  PROVE  Puts(FlattenSeq(seqs), seqs, start, Len(seqs))
<1> DEFINE N == Len(seqs)
<1>0. /\ N \in Nat /\ N - 1 \in Nat /\ 1 \in 1..N
      /\ \A i \in 1..N : seqs[i] \in Seq(D) /\ Len(seqs[i]) \in Nat
  OBVIOUS
<1>1. PICK flat : Joins(flat, seqs)  BY FlattenJoins
<1>2. /\ FlattenSeq(seqs) = flat[N] /\ flat[1] = seqs[1]
      /\ \A i \in 1..N - 1 : flat[i + 1] = flat[i] \o seqs[i + 1]
  BY <1>1 DEF Joins
<1>3. start[1] = 0 /\ \A i \in 1..N - 1 : start[i + 1] = start[i] + Len(seqs[i])
  BY DEF Offsets
<1> HIDE DEF N
<1> DEFINE Good(m) == flat[m] \in Seq(D) /\ Puts(flat[m], seqs, start, m)
           T == {m \in 0..N - 1 : Good(m + 1)}
<1>4. 0 \in T
  <2>1. seqs[1] \in Seq(D) /\ Len(seqs[1]) \in Nat  BY <1>0
  <2>2. \A i \in 1..1 : i = 1  OBVIOUS
  <2>3. Puts(seqs[1], seqs, start, 1)  BY <1>3, <2>1, <2>2 DEF Puts
  <2>4. Good(0 + 1)  BY <1>2, <2>1, <2>3
  <2> HIDE DEF Good
  <2> QED  BY <1>0, <2>4
<1>5. ASSUME NEW m \in 0..N - 1 - 1, m \in T PROVE m + 1 \in T
  <2> DEFINE k == m + 1
  <2>1. /\ k \in 1..N - 1 /\ k \in Nat \ {0} /\ k \in 0..N - 1 /\ k + 1 \in 1..N
        /\ \A i \in 1..k : i \in 1..N
    BY <1>0
  <2>2. Good(k)  BY <1>5
  <2> HIDE DEF k
  <2>3. flat[k] \in Seq(D) /\ Puts(flat[k], seqs, start, k)  BY <2>2
  <2>4. seqs[k + 1] \in Seq(D) /\ \A i \in 1..k : Len(seqs[i]) \in Nat  BY <1>0, <2>1
  <2>5. flat[k + 1] = flat[k] \o seqs[k + 1]  BY <1>2, <2>1
  <2>6. start[k + 1] = start[k] + Len(seqs[k])  BY <1>3, <2>1
  <2>7. Puts(flat[k] \o seqs[k + 1], seqs, start, k + 1)
    BY <2>1, <2>3, <2>4, <2>6, MorePuts
  <2>8. flat[k] \o seqs[k + 1] \in Seq(D)  BY <2>3, <2>4, ConcatProperties
  <2>9. Good(k + 1)  BY <2>5, <2>7, <2>8
  <2> HIDE DEF Good
  <2> QED  BY <2>1, <2>9 DEF k
<1>6. N - 1 \in T
  <2> HIDE DEF T
  <2>1. 0..N - 1 \subseteq T  BY <1>0, <1>4, <1>5, BoundedInduction
  <2> QED  BY <1>0, <2>1
<1>7. (N - 1) + 1 = N  BY <1>0
<1>8. Good(N)  BY <1>6, <1>7
<1> QED  BY <1>2, <1>8 DEF N
=============================================================================
