-------------------------- MODULE SeqFoldsProofs ---------------------------
(***************************************************************************)
(* Induction over the natural numbers in a form the provers can apply, and  *)
(* with it what FoldLeft computes, for every sequence.                      *)
(***************************************************************************)
EXTENDS SeqFolds, SequenceTheorems, WellFoundedInduction, TLAPS

-----------------------------------------------------------------------------
(* Induction, of sets instead of predicates.                                *)

LEMMA LeastNumber ==
    ASSUME NEW T \in SUBSET Nat, T # {}
    PROVE  \E x \in T : \A y \in T : x <= y
<1> DEFINE R == {ss \in Nat \X Nat : ss[1] < ss[2]}
<1>1. IsWellFoundedOn(R, Nat)
  BY NatLessThanWellFounded DEF OpToRel
<1>2. \A x, y \in Nat : y < x => <<y, x>> \in R
  OBVIOUS
<1> HIDE DEF R
<1>3. PICK x \in T : \A y \in T : ~(<<y, x>> \in R)
  BY <1>1, WFMin
<1>4. \A y \in T : ~(y < x)
  BY <1>2, <1>3
<1>5. \A y \in T : x <= y
  BY <1>4
<1> QED  BY <1>5

LEMMA Induct ==
    ASSUME NEW S, 0 \in S, \A n \in Nat : n \in S => n + 1 \in S
    PROVE  Nat \subseteq S
<1> SUFFICES ASSUME Nat \ S # {} PROVE FALSE
  OBVIOUS
<1>1. PICK x \in Nat \ S : \A y \in Nat \ S : x <= y
  BY LeastNumber
<1>2. x # 0 /\ x - 1 \in Nat /\ (x - 1) + 1 = x
  BY <1>1
<1>3. x - 1 \in S
  BY <1>1, <1>2
<1> QED  BY <1>1, <1>2, <1>3

LEMMA InductTo ==
    ASSUME NEW m \in Nat, NEW S, 0 \in S, \A n \in 0 .. m - 1 : n \in S => n + 1 \in S
    PROVE  0 .. m \subseteq S
<1> DEFINE T == {n \in Nat : n <= m => n \in S}
<1>1. 0 \in T
  OBVIOUS
<1>2. ASSUME NEW n \in Nat, n \in T PROVE n + 1 \in T
  BY <1>2
<1> HIDE DEF T
<1>3. Nat \subseteq T
  BY <1>1, <1>2, Induct
<1> QED  BY <1>3 DEF T

LEMMA GreatestNumber ==
    ASSUME NEW n \in Nat, NEW s \in SUBSET (1 .. n), s # {}
    PROVE  Max(s) \in s /\ \A y \in s : Max(s) >= y
<1> DEFINE T == {k \in Nat : \A y \in s : y <= k}
<1>1. n \in T
  OBVIOUS
<1>2. PICK k \in T : \A m \in T : k <= m
  BY <1>1, LeastNumber
<1>3. k \in Nat /\ \A y \in s : y <= k
  BY <1>2
<1>4. k \in s
  <2> SUFFICES ASSUME k \notin s PROVE FALSE
    OBVIOUS
  <2>1. k # 0
    <3>1. PICK y \in s : TRUE
      OBVIOUS
    <3> QED  BY <1>3, <3>1
  <2>2. k - 1 \in T
    BY <1>3, <2>1
  <2> QED  BY <1>2, <1>3, <2>2
<1> QED  BY <1>3, <1>4 DEF Max

-----------------------------------------------------------------------------
(* FoldLeft picks the greatest index first and recurs on the others, by a   *)
(* function on the sets of indexes.  There is such a function, for every    *)
(* base b and every step E from an index and what came before it.           *)

Folds(g, m, A, b, E) ==
    /\ g \in [SUBSET (1 .. m) -> A]
    /\ g[{}] = b
    /\ \A s \in SUBSET (1 .. m) :
          s # {} => g[s] = E[<<Max(s), g[s \ {Max(s)}]>>]

LEMMA FoldExists ==
    ASSUME NEW n \in Nat, NEW A, NEW b \in A, NEW E \in [(1 .. n) \X A -> A]
    PROVE  \E g : Folds(g, n, A, b, E)
<1> DEFINE S == {m \in Nat : \E g : Folds(g, m, A, b, E)}
<1>1. 0 \in S
  <2> DEFINE g == [s \in {{}} |-> b]
  <2>1. 1 .. 0 = {}
    OBVIOUS
  <2>2. SUBSET (1 .. 0) = {{}}
    BY <2>1
  <2>3. Folds(g, 0, A, b, E)
    BY <2>2 DEF Folds
  <2> QED  BY <2>3
<1>2. ASSUME NEW m \in 0 .. n - 1, m \in S PROVE m + 1 \in S
  <2>1. PICK g : Folds(g, m, A, b, E)
    BY <1>2
  <2> DEFINE h == [s \in SUBSET (1 .. m + 1) |->
                    IF m + 1 \in s THEN E[<<m + 1, g[s \ {m + 1}]>>] ELSE g[s]]
  <2>2. m \in Nat /\ m + 1 \in 1 .. n /\ m + 1 \in Nat
    OBVIOUS
  <2>3. \A s \in SUBSET (1 .. m) : s \in SUBSET (1 .. m + 1) /\ m + 1 \notin s
    BY <2>2
  <2>4. \A s \in SUBSET (1 .. m) : h[s] = g[s]
    BY <2>3
  <2>5. ASSUME NEW s \in SUBSET (1 .. m + 1)
        PROVE  /\ s \ {m + 1} \in SUBSET (1 .. m)
               /\ m + 1 \notin s => s \in SUBSET (1 .. m)
    BY <2>2
  <2>6. h \in [SUBSET (1 .. m + 1) -> A]
    <3> SUFFICES ASSUME NEW s \in SUBSET (1 .. m + 1)
                 PROVE  (IF m + 1 \in s THEN E[<<m + 1, g[s \ {m + 1}]>>] ELSE g[s]) \in A
      OBVIOUS
    <3>1. g[s \ {m + 1}] \in A /\ (m + 1 \notin s => g[s] \in A)
      BY <2>1, <2>5 DEF Folds
    <3>2. E[<<m + 1, g[s \ {m + 1}]>>] \in A
      BY <2>2, <3>1
    <3> QED  BY <3>1, <3>2
  <2>7. h[{}] = b
    BY <2>1, <2>4 DEF Folds
  <2>8. ASSUME NEW s \in SUBSET (1 .. m + 1), s # {}
        PROVE  h[s] = E[<<Max(s), h[s \ {Max(s)}]>>]
    <3>1. Max(s) \in s /\ \A y \in s : Max(s) >= y
      BY <2>2, <2>8, GreatestNumber
    <3>2. CASE m + 1 \in s
      <4>1. Max(s) = m + 1
        <5>1. Max(s) \in 1 .. m + 1
          BY <3>1
        <5>2. Max(s) >= m + 1
          BY <3>1, <3>2
        <5> QED  BY <2>2, <5>1, <5>2
      <4>2. h[s \ {m + 1}] = g[s \ {m + 1}]
        BY <2>4, <2>5
      <4>3. h[s] = E[<<m + 1, g[s \ {m + 1}]>>]
        BY <3>2
      <4> HIDE DEF h
      <4> QED  BY <4>1, <4>2, <4>3
    <3>3. CASE m + 1 \notin s
      <4>1. s \in SUBSET (1 .. m)
        BY <2>5, <3>3
      <4>2. s \ {Max(s)} \in SUBSET (1 .. m)
        BY <4>1
      <4>3. h[s] = g[s] /\ h[s \ {Max(s)}] = g[s \ {Max(s)}]
        BY <2>4, <4>1, <4>2
      <4>4. g[s] = E[<<Max(s), g[s \ {Max(s)}]>>]
        BY <2>1, <2>8, <4>1 DEF Folds
      <4> HIDE DEF h
      <4> QED  BY <4>3, <4>4
    <3> QED  BY <3>2, <3>3
  <2> HIDE DEF h
  <2>9. Folds(h, m + 1, A, b, E)
    BY <2>6, <2>7, <2>8 DEF Folds
  <2> QED  BY <2>2, <2>9
<1> HIDE DEF S
<1>3. 0 .. n \subseteq S
  BY <1>1, <1>2, InductTo
<1>4. n \in S
  BY <1>3
<1> QED  BY <1>4 DEF S

LEMMA Prefix ==
    ASSUME NEW k \in Nat, k # 0
    PROVE  Max(1 .. k) = k /\ (1 .. k) \ {k} = 1 .. k - 1 /\ 1 .. k # {}
<1>1. Max(1 .. k) \in 1 .. k /\ \A y \in 1 .. k : Max(1 .. k) >= y
  <2>1. 1 .. k \in SUBSET (1 .. k) /\ 1 .. k # {}
    OBVIOUS
  <2> QED  BY <2>1, GreatestNumber
<1>2. Max(1 .. k) >= k
  BY <1>1
<1>3. Max(1 .. k) \in 1 .. k
  BY <1>1
<1> QED  BY <1>2, <1>3

-----------------------------------------------------------------------------
(* Totals.                                                                  *)

(* The running total of the first k lengths.                                *)
Runs(r, lens) ==
    /\ r \in [0 .. Len(lens) -> Nat]
    /\ r[0] = 0
    /\ \A k \in 1 .. Len(lens) : r[k] = r[k - 1] + lens[k]

LEMMA TotalRuns ==
    ASSUME NEW lens \in Seq(Nat)
    PROVE  \E r : Runs(r, lens) /\ Total(lens) = r[Len(lens)]
<1> DEFINE n == Len(lens)
           E == [x \in (1 .. n) \X Nat |-> x[2] + lens[x[1]]]
           Solves(g) == g = [s \in SUBSET (1 .. n) |->
                              IF s = {} THEN 0 ELSE g[s \ {Max(s)}] + lens[Max(s)]]
<1>1. n \in Nat /\ DOMAIN lens = 1 .. n /\ \A i \in 1 .. n : lens[i] \in Nat
  BY LenProperties
<1> HIDE DEF n
<1>2. E \in [(1 .. n) \X Nat -> Nat]
  BY <1>1
<1>3. \A k \in 1 .. n, m \in Nat : E[<<k, m>>] = m + lens[k]
  BY <1>1
<1> HIDE DEF E
<1>4. ASSUME NEW g, Folds(g, n, Nat, 0, E) PROVE Solves(g)
  <2>1. g \in [SUBSET (1 .. n) -> Nat] /\ g[{}] = 0
    BY <1>4 DEF Folds
  <2>2. ASSUME NEW s \in SUBSET (1 .. n), s # {}
        PROVE  g[s] = g[s \ {Max(s)}] + lens[Max(s)]
    <3>1. Max(s) \in 1 .. n
      BY <1>1, <2>2, GreatestNumber
    <3>2. g[s \ {Max(s)}] \in Nat
      BY <2>1
    <3> QED  BY <1>3, <1>4, <2>2, <3>1, <3>2 DEF Folds
  <2> QED  BY <2>1, <2>2
<1>5. PICK g : g = CHOOSE h : Solves(h)
  OBVIOUS
<1>6. Total(lens) = g[1 .. n]
  BY <1>1, <1>5 DEF Total, FoldLeft, MapThenFoldSet
<1>7. \A s \in SUBSET (1 .. n) :
        g[s] = IF s = {} THEN 0 ELSE g[s \ {Max(s)}] + lens[Max(s)]
  <2>1. \E h : Solves(h)
    <3>1. PICK h : Folds(h, n, Nat, 0, E)
      BY <1>1, <1>2, FoldExists
    <3> QED  BY <1>4, <3>1
  <2>2. Solves(g)
    <3> HIDE DEF Solves
    <3> QED  BY <1>5, <2>1
  <2> QED  BY <2>2
<1> DEFINE r == [k \in 0 .. n |-> g[1 .. k]]
<1>8. r[0] = 0 /\ r[n] = g[1 .. n] /\ r = [k \in 0 .. n |-> r[k]]
  <2>1. 1 .. 0 = {} /\ 0 \in 0 .. n /\ n \in 0 .. n
    BY <1>1
  <2>2. r[0] = g[{}] /\ r[n] = g[1 .. n]
    BY <2>1
  <2>3. g[{}] = 0
    BY <1>7
  <2>4. r = [k \in 0 .. n |-> r[k]]
    OBVIOUS
  <2> QED  BY <2>2, <2>3, <2>4
<1>9. ASSUME NEW k \in 1 .. n PROVE r[k] = r[k - 1] + lens[k]
  <2>1. /\ 1 .. k \in SUBSET (1 .. n) /\ k - 1 \in 0 .. n /\ k \in 0 .. n
        /\ k \in Nat /\ k # 0
    BY <1>1
  <2>2. g[1 .. k] = g[1 .. k - 1] + lens[k]
    BY <1>7, <2>1, Prefix
  <2> QED  BY <2>1, <2>2
<1> HIDE DEF r
<1>10. r \in [0 .. n -> Nat]
  <2> DEFINE S == {k \in 0 .. n : r[k] \in Nat}
  <2>1. 0 \in S
    BY <1>1, <1>8
  <2>2. ASSUME NEW k \in 0 .. n - 1, k \in S PROVE k + 1 \in S
    <3>1. k + 1 \in 1 .. n /\ (k + 1) - 1 = k
      BY <1>1
    <3>2. r[k + 1] = r[k] + lens[k + 1]
      BY <1>9, <3>1
    <3> QED  BY <1>1, <2>2, <3>1, <3>2
  <2> HIDE DEF S
  <2>3. 0 .. n \subseteq S
    BY <1>1, <2>1, <2>2, InductTo
  <2> QED  BY <1>8, <2>3 DEF S
<1> QED  BY <1>6, <1>8, <1>9, <1>10 DEF Runs, n

(* There is only one running total, and longer sequences continue it.       *)
LEMMA RunsAgree ==
    ASSUME NEW s \in Seq(Nat), NEW t \in Seq(Nat), NEW q, NEW r, Runs(q, s), Runs(r, t),
           NEW m \in Nat, m <= Len(s), m <= Len(t), \A k \in 1 .. m : s[k] = t[k]
    PROVE  q[m] = r[m]
<1> DEFINE S == {k \in 0 .. m : q[k] = r[k]}
<1>1. Len(s) \in Nat /\ Len(t) \in Nat
  BY LenProperties
<1>2. 0 \in S
  BY DEF Runs
<1>3. ASSUME NEW k \in 0 .. m - 1, k \in S PROVE k + 1 \in S
  <2>1. /\ k + 1 \in 1 .. Len(s) /\ k + 1 \in 1 .. Len(t) /\ (k + 1) - 1 = k
        /\ k + 1 \in 1 .. m
    BY <1>1
  <2>2. q[k + 1] = q[k] + s[k + 1]
    BY <2>1 DEF Runs
  <2>3. r[k + 1] = r[k] + t[k + 1]
    BY <2>1 DEF Runs
  <2> QED  BY <1>3, <2>1, <2>2, <2>3
<1> HIDE DEF S
<1>4. 0 .. m \subseteq S
  BY <1>2, <1>3, InductTo
<1>5. m \in S
  BY <1>4
<1> QED  BY <1>5 DEF S

LEMMA TotalType ==
    ASSUME NEW lens \in Seq(Nat)
    PROVE  Total(lens) \in Nat
<1>1. PICK r : Runs(r, lens) /\ Total(lens) = r[Len(lens)]
  BY TotalRuns
<1>2. Len(lens) \in Nat
  BY LenProperties
<1> QED  BY <1>1, <1>2 DEF Runs

(* Whatever runs like the total ends in it.                                 *)
LEMMA TotalIs ==
    ASSUME NEW lens \in Seq(Nat), NEW r, Runs(r, lens)
    PROVE  Total(lens) = r[Len(lens)]
<1>1. PICK q : Runs(q, lens) /\ Total(lens) = q[Len(lens)]
  BY TotalRuns
<1>2. Len(lens) \in Nat
  BY LenProperties
<1>3. q[Len(lens)] = r[Len(lens)]
  BY <1>1, <1>2, RunsAgree
<1> QED  BY <1>1, <1>3

(* Taking one length out.                                                   *)
LEMMA TotalWithout ==
    ASSUME NEW s \in Seq(Nat), NEW t \in Seq(Nat), NEW k \in 1 .. Len(s),
           Len(t) = Len(s) - 1,
           \A i \in 1 .. k - 1 : t[i] = s[i],
           \A i \in k + 1 .. Len(s) : t[i - 1] = s[i]
    PROVE  Total(s) = Total(t) + s[k]
<1> DEFINE n == Len(s)
<1>1. n \in Nat /\ n - 1 \in Nat /\ Len(t) = n - 1 /\ s[k] \in Nat
  BY LenProperties, ElementOfSeq
<1>2. PICK q : Runs(q, s) /\ Total(s) = q[n]
  BY TotalRuns
<1>3. PICK r : Runs(r, t) /\ Total(t) = r[n - 1]
  BY <1>1, TotalRuns
<1> HIDE DEF n
<1> DEFINE C == {m \in 0 .. n : q[m] = IF m < k THEN r[m] ELSE r[m - 1] + s[k]}
<1>4. 0 \in C
  BY <1>1, <1>2, <1>3 DEF Runs
<1>5. ASSUME NEW m \in 0 .. n - 1, m \in C PROVE m + 1 \in C
  <2>1. m + 1 \in 1 .. n /\ (m + 1) - 1 = m /\ m + 1 \in 0 .. n
    BY <1>1
  <2>2. q[m + 1] = q[m] + s[m + 1]
    BY <1>2, <2>1 DEF Runs, n
  <2>3. CASE m + 1 < k
    <3>1. m + 1 \in 1 .. n - 1 /\ m + 1 \in 1 .. k - 1
      BY <1>1, <2>1, <2>3 DEF n
    <3>2. r[m + 1] = r[m] + t[m + 1]
      BY <1>1, <1>3, <2>1, <3>1 DEF Runs
    <3>3. t[m + 1] = s[m + 1] /\ q[m] = r[m]
      BY <1>5, <2>3, <3>1
    <3> QED  BY <2>1, <2>2, <2>3, <3>2, <3>3
  <2>4. CASE m + 1 = k
    <3>1. q[m + 1] = q[m] + s[k] /\ q[m] = r[m]
      BY <1>5, <2>2, <2>4
    <3> QED  BY <2>1, <2>4, <3>1
  <2>5. CASE m + 1 > k
    <3>1. m \in 1 .. n - 1 /\ m + 1 \in k + 1 .. n /\ m - 1 \in 0 .. n - 1
      BY <1>1, <2>1, <2>5 DEF n
    <3>2. r[m] = r[m - 1] + t[m]
      BY <1>1, <1>3, <3>1 DEF Runs
    <3>3. t[m] = s[m + 1]
      BY <2>1, <3>1 DEF n
    <3>4. q[m] = r[m - 1] + s[k]
      BY <1>5, <2>5
    <3>5. r[m - 1] \in Nat /\ t[m] \in Nat
      BY <1>1, <1>3, <3>1, ElementOfSeq DEF Runs
    <3>6. q[m + 1] = r[m] + s[k]
      BY <1>1, <2>2, <3>2, <3>3, <3>4, <3>5
    <3> QED  BY <2>1, <2>5, <3>6
  <2> QED  BY <2>1, <2>3, <2>4, <2>5
<1> HIDE DEF C
<1>6. 0 .. n \subseteq C
  BY <1>1, <1>4, <1>5, InductTo
<1>7. n \in C
  BY <1>1, <1>6
<1> QED  BY <1>1, <1>2, <1>3, <1>7 DEF C, n

-----------------------------------------------------------------------------
(* What is kept.                                                            *)

(* What is kept of the first k elements.                                    *)
Keeps(r, s, S) ==
    /\ r[0] = <<>>
    /\ \A k \in 1 .. Len(s) : r[k] = IF s[k] \in S THEN Append(r[k - 1], s[k]) ELSE r[k - 1]

LEMMA KeptRuns ==
    ASSUME NEW A, NEW s \in Seq(A), NEW S
    PROVE  \E r : Keeps(r, s, S) /\ Kept(s, S) = r[Len(s)]
<1> DEFINE n == Len(s)
           E == [x \in (1 .. n) \X Seq(A) |->
                    IF s[x[1]] \in S THEN Append(x[2], s[x[1]]) ELSE x[2]]
           Solves(g) == g = [c \in SUBSET (1 .. n) |->
                              IF c = {} THEN <<>>
                              ELSE IF s[Max(c)] \in S
                                   THEN Append(g[c \ {Max(c)}], s[Max(c)])
                                   ELSE g[c \ {Max(c)}]]
<1>1. n \in Nat /\ DOMAIN s = 1 .. n /\ \A i \in 1 .. n : s[i] \in A
  BY LenProperties, ElementOfSeq
<1> HIDE DEF n
<1>2. E \in [(1 .. n) \X Seq(A) -> Seq(A)]
  <2> SUFFICES ASSUME NEW k \in 1 .. n, NEW t \in Seq(A)
               PROVE  (IF s[k] \in S THEN Append(t, s[k]) ELSE t) \in Seq(A)
    OBVIOUS
  <2> QED  BY <1>1, AppendProperties
<1>3. \A k \in 1 .. n, t \in Seq(A) : E[<<k, t>>] = IF s[k] \in S THEN Append(t, s[k]) ELSE t
  BY <1>1
<1> HIDE DEF E
<1>4. ASSUME NEW g, Folds(g, n, Seq(A), <<>>, E) PROVE Solves(g)
  <2>1. g \in [SUBSET (1 .. n) -> Seq(A)] /\ g[{}] = <<>>
    BY <1>4 DEF Folds
  <2>2. ASSUME NEW c \in SUBSET (1 .. n), c # {}
        PROVE  g[c] = IF s[Max(c)] \in S THEN Append(g[c \ {Max(c)}], s[Max(c)])
                      ELSE g[c \ {Max(c)}]
    <3>1. Max(c) \in 1 .. n
      BY <1>1, <2>2, GreatestNumber
    <3>2. g[c \ {Max(c)}] \in Seq(A)
      BY <2>1
    <3> QED  BY <1>3, <1>4, <2>2, <3>1, <3>2 DEF Folds
  <2> QED  BY <2>1, <2>2
<1>5. PICK g : g = CHOOSE h : Solves(h)
  OBVIOUS
<1>6. Kept(s, S) = g[1 .. n]
  BY <1>1, <1>5 DEF Kept, FoldLeft, MapThenFoldSet
<1>7. \A c \in SUBSET (1 .. n) :
        g[c] = IF c = {} THEN <<>>
               ELSE IF s[Max(c)] \in S THEN Append(g[c \ {Max(c)}], s[Max(c)])
                    ELSE g[c \ {Max(c)}]
  <2>1. \E h : Solves(h)
    <3>1. <<>> \in Seq(A)
      OBVIOUS
    <3>2. PICK h : Folds(h, n, Seq(A), <<>>, E)
      BY <1>1, <1>2, <3>1, FoldExists
    <3> QED  BY <1>4, <3>2
  <2>2. Solves(g)
    <3> HIDE DEF Solves
    <3> QED  BY <1>5, <2>1
  <2> QED  BY <2>2
<1> DEFINE r == [k \in 0 .. n |-> g[1 .. k]]
<1>8. r[0] = <<>> /\ r[n] = g[1 .. n]
  <2>1. 1 .. 0 = {} /\ 0 \in 0 .. n /\ n \in 0 .. n
    BY <1>1
  <2>2. r[0] = g[{}] /\ r[n] = g[1 .. n]
    BY <2>1
  <2> QED  BY <1>7, <2>2
<1>9. ASSUME NEW k \in 1 .. n
      PROVE  r[k] = IF s[k] \in S THEN Append(r[k - 1], s[k]) ELSE r[k - 1]
  <2>1. /\ 1 .. k \in SUBSET (1 .. n) /\ k - 1 \in 0 .. n /\ k \in 0 .. n
        /\ k \in Nat /\ k # 0
    BY <1>1
  <2>2. g[1 .. k] = IF s[k] \in S THEN Append(g[1 .. k - 1], s[k]) ELSE g[1 .. k - 1]
    BY <1>7, <2>1, Prefix
  <2>3. r[k] = g[1 .. k] /\ r[k - 1] = g[1 .. k - 1]
    BY <2>1
  <2> HIDE DEF r
  <2> QED  BY <2>2, <2>3
<1> HIDE DEF r
<1> QED  BY <1>6, <1>8, <1>9 DEF Keeps, n

(* Two sequences that keep the same at each index.                          *)
LEMMA KeptSame ==
    ASSUME NEW A, NEW s \in Seq(A), NEW t \in Seq(A), NEW S, NEW T, Len(s) = Len(t),
           \A i \in 1 .. Len(s) :
              (s[i] \in S <=> t[i] \in T) /\ (s[i] \in S => s[i] = t[i])
    PROVE  Kept(s, S) = Kept(t, T)
<1> DEFINE n == Len(s)
<1>1. n \in Nat
  BY LenProperties
<1>2. PICK q : Keeps(q, s, S) /\ Kept(s, S) = q[n]
  BY KeptRuns
<1>3. PICK r : Keeps(r, t, T) /\ Kept(t, T) = r[n]
  BY KeptRuns
<1> DEFINE C == {k \in 0 .. n : q[k] = r[k]}
<1>4. 0 \in C
  BY <1>1, <1>2, <1>3 DEF Keeps
<1>5. ASSUME NEW k \in 0 .. n - 1, k \in C PROVE k + 1 \in C
  <2>1. k + 1 \in 1 .. n /\ (k + 1) - 1 = k /\ k + 1 \in 0 .. n
    BY <1>1
  <2>2. q[k + 1] = IF s[k + 1] \in S THEN Append(q[k], s[k + 1]) ELSE q[k]
    BY <1>2, <2>1 DEF Keeps
  <2>3. r[k + 1] = IF t[k + 1] \in T THEN Append(r[k], t[k + 1]) ELSE r[k]
    BY <1>3, <2>1 DEF Keeps
  <2> QED  BY <1>5, <2>1, <2>2, <2>3
<1> HIDE DEF C
<1>6. 0 .. n \subseteq C
  BY <1>1, <1>4, <1>5, InductTo
<1>7. n \in C
  BY <1>1, <1>6
<1> QED  BY <1>2, <1>3, <1>7 DEF C

(* An element that is not kept may be there or not.                         *)
LEMMA KeptWithout ==
    ASSUME NEW A, NEW s \in Seq(A), NEW t \in Seq(A), NEW S,
           NEW k \in 1 .. Len(s), s[k] \notin S, Len(t) = Len(s) - 1,
           \A i \in 1 .. k - 1 : t[i] = s[i],
           \A i \in k + 1 .. Len(s) : t[i - 1] = s[i]
    PROVE  Kept(t, S) = Kept(s, S)
<1> DEFINE n == Len(s)
<1>1. n \in Nat /\ n - 1 \in Nat /\ Len(t) = n - 1
  BY LenProperties
<1>2. PICK q : Keeps(q, s, S) /\ Kept(s, S) = q[n]
  BY KeptRuns
<1>3. PICK r : Keeps(r, t, S) /\ Kept(t, S) = r[n - 1]
  BY <1>1, KeptRuns
<1> HIDE DEF n
<1> DEFINE C == {m \in 0 .. n : q[m] = IF m < k THEN r[m] ELSE r[m - 1]}
<1>4. 0 \in C
  BY <1>1, <1>2, <1>3 DEF Keeps
<1>5. ASSUME NEW m \in 0 .. n - 1, m \in C PROVE m + 1 \in C
  <2>1. m + 1 \in 1 .. n /\ (m + 1) - 1 = m /\ m + 1 \in 0 .. n
    BY <1>1
  <2>2. q[m + 1] = IF s[m + 1] \in S THEN Append(q[m], s[m + 1]) ELSE q[m]
    BY <1>2, <2>1 DEF Keeps, n
  <2>3. CASE m + 1 < k
    <3>1. m + 1 \in 1 .. n - 1 /\ m + 1 \in 1 .. k - 1
      BY <1>1, <2>1, <2>3 DEF n
    <3>2. r[m + 1] = IF t[m + 1] \in S THEN Append(r[m], t[m + 1]) ELSE r[m]
      BY <1>1, <1>3, <2>1, <3>1 DEF Keeps
    <3>3. t[m + 1] = s[m + 1] /\ q[m] = r[m]
      BY <1>5, <2>3, <3>1
    <3> QED  BY <2>1, <2>2, <2>3, <3>2, <3>3
  <2>4. CASE m + 1 = k
    <3>1. q[m + 1] = q[m] /\ q[m] = r[m]
      BY <1>5, <2>2, <2>4
    <3> QED  BY <2>1, <2>4, <3>1
  <2>5. CASE m + 1 > k
    <3>1. m \in 1 .. n - 1 /\ m + 1 \in k + 1 .. n
      BY <1>1, <2>1, <2>5 DEF n
    <3>2. r[m] = IF t[m] \in S THEN Append(r[m - 1], t[m]) ELSE r[m - 1]
      BY <1>1, <1>3, <3>1 DEF Keeps
    <3>3. t[m] = s[m + 1]
      BY <2>1, <3>1 DEF n
    <3>4. q[m] = r[m - 1]
      BY <1>5, <2>5
    <3>5. q[m + 1] = r[m]
      BY <2>2, <3>2, <3>3, <3>4
    <3> QED  BY <2>1, <2>5, <3>5
  <2> QED  BY <2>1, <2>3, <2>4, <2>5
<1> HIDE DEF C
<1>6. 0 .. n \subseteq C
  BY <1>1, <1>4, <1>5, InductTo
<1>7. n \in C
  BY <1>1, <1>6
<1> QED  BY <1>1, <1>2, <1>3, <1>7 DEF C, n

LEMMA KeptAppend ==
    ASSUME NEW A, NEW s \in Seq(A), NEW x \in A, NEW S, x \notin S
    PROVE  Kept(Append(s, x), S) = Kept(s, S)
<1>1. PICK t \in Seq(A) : t = Append(s, x)
  BY AppendProperties
<1>2. /\ Len(s) \in Nat /\ Len(t) = Len(s) + 1 /\ t[Len(s) + 1] = x
      /\ \A i \in 1 .. Len(s) : t[i] = s[i]
  BY <1>1, AppendProperties, LenProperties
<1>3. /\ Len(t) \in 1 .. Len(t) /\ t[Len(t)] \notin S /\ Len(s) = Len(t) - 1
      /\ \A i \in 1 .. Len(t) - 1 : s[i] = t[i]
      /\ \A i \in Len(t) + 1 .. Len(t) : s[i - 1] = t[i]
  BY <1>2
<1>4. Kept(s, S) = Kept(t, S)
  BY <1>3, KeptWithout
<1> QED  BY <1>1, <1>4

-----------------------------------------------------------------------------
(* Rounding up.                                                             *)

LEMMA DivMod ==
    ASSUME NEW P \in Nat \ {0}, NEW n \in Nat
    PROVE  n % P \in 0 .. P - 1 /\ n \div P \in Nat /\ n = P * (n \div P) + (n % P)
OBVIOUS

LEMMA NoMultipleBetween ==
    ASSUME NEW P \in Nat \ {0}, NEW d \in Int, P * d < P, P * d > 0 - P
    PROVE  d = 0
OBVIOUS

LEMMA ModUnique ==
    ASSUME NEW P \in Nat \ {0}, NEW n \in Nat, NEW q \in Nat, NEW r \in 0 .. P - 1,
           n = P * q + r
    PROVE  n % P = r
<1>1. PICK m \in 0 .. P - 1, d \in Nat : m = n % P /\ n = P * d + m
  BY DivMod
<1>2. P * (d - q) = r - m
  BY <1>1
<1>3. d - q = 0
  BY <1>2, NoMultipleBetween
<1> QED  BY <1>1, <1>2, <1>3

(* What is missing to the next multiple of P.                               *)
LEMMA FillAligns ==
    ASSUME NEW P \in Nat \ {0}, NEW n \in Nat
    PROVE  /\ (P - (n % P)) % P \in Nat
           /\ (n + ((P - (n % P)) % P)) % P = 0
<1>1. PICK m \in 0 .. P - 1, d \in Nat : m = n % P /\ n = P * d + m
  BY DivMod
<1>2. CASE m = 0
  <2>1. P - m = P * 1 + 0 /\ P - m \in Nat /\ 0 \in 0 .. P - 1
    BY <1>2
  <2>2. (P - m) % P = 0
    BY <2>1, ModUnique
  <2> QED  BY <1>1, <1>2, <2>2
<1>3. CASE m # 0
  <2>1. P - m = P * 0 + (P - m) /\ P - m \in Nat /\ P - m \in 0 .. P - 1
    BY <1>3
  <2>2. (P - m) % P = P - m
    BY <2>1, ModUnique
  <2>3. n + (P - m) = P * (d + 1) + 0 /\ n + (P - m) \in Nat /\ d + 1 \in Nat /\ 0 \in 0 .. P - 1
    BY <1>1
  <2>4. (n + (P - m)) % P = 0
    BY <2>3, ModUnique
  <2> QED  BY <1>1, <2>2, <2>4
<1> QED  BY <1>2, <1>3

(* Rounding up keeps an order.                                              *)
LEMMA RoundUpOrder ==
    ASSUME NEW P \in Nat \ {0}, NEW m \in Nat, NEW n \in Nat, m <= n
    PROVE  m + ((P - (m % P)) % P) <= n + ((P - (n % P)) % P)
<1> DEFINE Up(k) == k + ((P - (k % P)) % P)
<1>1. ASSUME NEW k \in Nat
      PROVE  \E q \in Nat : Up(k) = P * q /\ k <= Up(k) /\ Up(k) < k + P
  <2>1. PICK f \in 0 .. P - 1 : f = (P - (k % P)) % P /\ (k + f) % P = 0
    <3>1. P - (k % P) \in Nat
      BY DivMod
    <3> QED  BY <3>1, DivMod, FillAligns
  <2>2. PICK c \in Nat : c = k + f
    BY <2>1
  <2>3. PICK q \in Nat : c = P * q + (c % P)
    BY DivMod
  <2>4. c % P = 0 /\ P * q \in Nat
    BY <2>1, <2>2
  <2>5. Up(k) = P * q /\ k <= Up(k) /\ Up(k) < k + P
    BY <2>1, <2>2, <2>3, <2>4
  <2> QED  BY <2>5
<1>2. PICK i \in Nat : Up(m) = P * i /\ m <= Up(m) /\ Up(m) < m + P
  BY <1>1
<1>3. PICK j \in Nat : Up(n) = P * j /\ n <= Up(n) /\ Up(n) < n + P
  BY <1>1
<1> HIDE DEF Up
<1>4. ASSUME Up(m) > Up(n) PROVE FALSE
  <2>1. P * (i - j) > 0 /\ P * (i - j) < P
    BY <1>2, <1>3, <1>4
  <2>2. i - j = 0
    BY <2>1, NoMultipleBetween
  <2> QED  BY <2>1, <2>2
<1>5. Up(m) \in Nat /\ Up(n) \in Nat
  BY <1>2, <1>3
<1>6. Up(m) <= Up(n)
  BY <1>4, <1>5
<1> QED  BY <1>6 DEF Up
=============================================================================
