-------------------------- MODULE PutCommandProofs --------------------------
(***************************************************************************)
(* Proofs about PutCommand for any file tree, any commands and any number   *)
(* of them, of channels and of workers.                                     *)
(***************************************************************************)
EXTENDS PutCommand, SeqFoldsProofs

-----------------------------------------------------------------------------
(* The two loops of path planning, run step by step.                        *)

(* What is seen after k raw channels.                                       *)
Sees(r, raws) ==
    /\ r[0] = <<>>
    /\ \A k \in 1 .. Len(raws) : r[k] = AddOnce(r[k - 1], raws[k])

LEMMA NormalizedRuns ==
    ASSUME NEW raws \in Seq(Raws)
    PROVE  \E r : Sees(r, raws) /\ Normalized(raws) = r[Len(raws)]
<1> DEFINE n == Len(raws)
           E == [x \in (1 .. n) \X Seq(Channels) |-> AddOnce(x[2], raws[x[1]])]
           Solves(g) == g = [c \in SUBSET (1 .. n) |->
                              IF c = {} THEN <<>> ELSE AddOnce(g[c \ {Max(c)}], raws[Max(c)])]
<1>1. n \in Nat /\ DOMAIN raws = 1 .. n /\ \A i \in 1 .. n : Trim[raws[i]] \in Channels
  BY LenProperties, ElementOfSeq DEF Channels
<1> HIDE DEF n
<1>2. E \in [(1 .. n) \X Seq(Channels) -> Seq(Channels)]
  <2> SUFFICES ASSUME NEW k \in 1 .. n, NEW t \in Seq(Channels)
               PROVE  AddOnce(t, raws[k]) \in Seq(Channels)
    OBVIOUS
  <2> QED  BY <1>1, AppendProperties DEF AddOnce
<1>3. \A k \in 1 .. n, t \in Seq(Channels) : E[<<k, t>>] = AddOnce(t, raws[k])
  BY <1>1
<1> HIDE DEF E
<1>4. ASSUME NEW g, Folds(g, n, Seq(Channels), <<>>, E) PROVE Solves(g)
  <2>1. g \in [SUBSET (1 .. n) -> Seq(Channels)] /\ g[{}] = <<>>
    BY <1>4 DEF Folds
  <2>2. ASSUME NEW c \in SUBSET (1 .. n), c # {}
        PROVE  g[c] = AddOnce(g[c \ {Max(c)}], raws[Max(c)])
    <3>1. Max(c) \in 1 .. n
      BY <1>1, <2>2, GreatestNumber
    <3>2. g[c \ {Max(c)}] \in Seq(Channels)
      BY <2>1
    <3> QED  BY <1>3, <1>4, <2>2, <3>1, <3>2 DEF Folds
  <2> QED  BY <2>1, <2>2
<1>5. PICK g : g = CHOOSE h : Solves(h)
  OBVIOUS
<1>6. Normalized(raws) = g[1 .. n]
  BY <1>1, <1>5 DEF Normalized, FoldLeft, MapThenFoldSet
<1>7. \A c \in SUBSET (1 .. n) :
        g[c] = IF c = {} THEN <<>> ELSE AddOnce(g[c \ {Max(c)}], raws[Max(c)])
  <2>1. \E h : Solves(h)
    <3>1. <<>> \in Seq(Channels)
      OBVIOUS
    <3>2. PICK h : Folds(h, n, Seq(Channels), <<>>, E)
      BY <1>1, <1>2, <3>1, FoldExists
    <3> QED  BY <1>4, <3>2
  <2>2. Solves(g)
    <3> HIDE DEF Solves
    <3> QED  BY <1>5, <2>1
  <2> QED  BY <2>2
<1> DEFINE r == [k \in 0 .. n |-> g[1 .. k]]
<1>8. r[0] = <<>> /\ r[n] = g[1 .. n]
  <2>1. 1 .. 0 = {} /\ 0 \in 0 .. n /\ n \in 0 .. n
    BY <1>1
  <2>2. r[0] = g[{}] /\ r[n] = g[1 .. n]
    BY <2>1
  <2> QED  BY <1>7, <2>2
<1>9. ASSUME NEW k \in 1 .. n PROVE r[k] = AddOnce(r[k - 1], raws[k])
  <2>1. /\ 1 .. k \in SUBSET (1 .. n) /\ k - 1 \in 0 .. n /\ k \in 0 .. n
        /\ k \in Nat /\ k # 0
    BY <1>1
  <2>2. g[1 .. k] = AddOnce(g[1 .. k - 1], raws[k])
    BY <1>7, <2>1, Prefix
  <2>3. r[k] = g[1 .. k] /\ r[k - 1] = g[1 .. k - 1]
    BY <2>1
  <2> HIDE DEF r
  <2> QED  BY <2>2, <2>3
<1> HIDE DEF r
<1> QED  BY <1>6, <1>8, <1>9 DEF Sees, n

(* The path after k names.                                                  *)
Walks(r, dir, names) ==
    /\ r[0] = dir
    /\ \A k \in 1 .. Len(names) : r[k] = Down(r[k - 1], names[k])

LEMMA FrontIs ==
    ASSUME NEW A, NEW s \in Seq(A)
    PROVE  /\ Front(s) \in Seq(A)
           /\ s = <<>> => Front(s) = <<>>
           /\ s # <<>> => /\ Len(s) \in Nat \ {0} /\ Len(Front(s)) = Len(s) - 1
                          /\ \A i \in 1 .. Len(s) - 1 : Front(s)[i] = s[i]
<1>1. Len(s) \in Nat /\ \A i \in 1 .. Len(s) - 1 : s[i] \in A
  BY LenProperties, ElementOfSeq
<1>2. /\ Front(s) \in Seq(A)
      /\ Len(Front(s)) = IF 1 <= Len(s) - 1 THEN Len(s) - 1 - 1 + 1 ELSE 0
      /\ \A i \in 1 .. Len(s) - 1 - 1 + 1 : Front(s)[i] = s[1 + i - 1]
  BY <1>1, SubSeqProperties DEF Front
<1>3. ASSUME s = <<>> PROVE Front(s) = <<>>
  BY <1>3, SubSeqEmpty DEF Front
<1>4. ASSUME s # <<>>
      PROVE  /\ Len(s) \in Nat \ {0} /\ Len(Front(s)) = Len(s) - 1
             /\ \A i \in 1 .. Len(s) - 1 : Front(s)[i] = s[i]
  <2>1. Len(s) \in Nat \ {0}
    BY <1>4, EmptySeq
  <2>2. Len(Front(s)) = Len(s) - 1
    <3>1. Len(Front(s)) = IF 1 <= Len(s) - 1 THEN Len(s) - 1 - 1 + 1 ELSE 0
      BY <1>2
    <3>2. \A n \in Nat \ {0} : (IF 1 <= n - 1 THEN n - 1 - 1 + 1 ELSE 0) = n - 1
      OBVIOUS
    <3> QED  BY <2>1, <3>1, <3>2
  <2>3. \A i \in 1 .. Len(s) - 1 : i \in 1 .. Len(s) - 1 - 1 + 1 /\ 1 + i - 1 = i
    BY <2>1
  <2> QED  BY <1>2, <2>1, <2>2, <2>3
<1> QED  BY <1>2, <1>3, <1>4

LEMMA DownType ==
    ASSUME NEW A, NEW path \in Seq(A), NEW name \in A
    PROVE  Down(path, name) \in Seq(A)
<1>1. Front(path) \in Seq(A) /\ Append(path, name) \in Seq(A)
  BY FrontIs, AppendProperties
<1>2. CASE name \in {"", "."}
  BY <1>2 DEF Down
<1>3. CASE name \notin {"", "."} /\ name = ".." /\ path # <<>>
  BY <1>1, <1>3 DEF Down
<1>4. CASE name \notin {"", "."} /\ name = ".." /\ path = <<>>
  BY <1>4 DEF Down
<1>5. CASE name \notin {"", "."} /\ name # ".."
  BY <1>1, <1>5 DEF Down
<1> QED  BY <1>2, <1>3, <1>4, <1>5

LEMMA JoinedRuns ==
    ASSUME NEW A, NEW dir \in Seq(A), NEW names \in Seq(A)
    PROVE  \E r : Walks(r, dir, names) /\ Joined(dir, names) = r[Len(names)]
<1> DEFINE n == Len(names)
           E == [x \in (1 .. n) \X Seq(A) |-> Down(x[2], names[x[1]])]
           Solves(g) == g = [c \in SUBSET (1 .. n) |->
                              IF c = {} THEN dir ELSE Down(g[c \ {Max(c)}], names[Max(c)])]
<1>1. n \in Nat /\ DOMAIN names = 1 .. n /\ \A i \in 1 .. n : names[i] \in A
  BY LenProperties, ElementOfSeq
<1> HIDE DEF n
<1>2. E \in [(1 .. n) \X Seq(A) -> Seq(A)]
  <2> SUFFICES ASSUME NEW k \in 1 .. n, NEW t \in Seq(A)
               PROVE  Down(t, names[k]) \in Seq(A)
    OBVIOUS
  <2> QED  BY <1>1, DownType
<1>3. \A k \in 1 .. n, t \in Seq(A) : E[<<k, t>>] = Down(t, names[k])
  BY <1>1
<1> HIDE DEF E
<1>4. ASSUME NEW g, Folds(g, n, Seq(A), dir, E) PROVE Solves(g)
  <2>1. g \in [SUBSET (1 .. n) -> Seq(A)] /\ g[{}] = dir
    BY <1>4 DEF Folds
  <2>2. ASSUME NEW c \in SUBSET (1 .. n), c # {}
        PROVE  g[c] = Down(g[c \ {Max(c)}], names[Max(c)])
    <3>1. Max(c) \in 1 .. n
      BY <1>1, <2>2, GreatestNumber
    <3>2. g[c \ {Max(c)}] \in Seq(A)
      BY <2>1
    <3> QED  BY <1>3, <1>4, <2>2, <3>1, <3>2 DEF Folds
  <2> QED  BY <2>1, <2>2
<1>5. PICK g : g = CHOOSE h : Solves(h)
  OBVIOUS
<1>6. Joined(dir, names) = g[1 .. n]
  BY <1>1, <1>5 DEF Joined, FoldLeft, MapThenFoldSet
<1>7. \A c \in SUBSET (1 .. n) :
        g[c] = IF c = {} THEN dir ELSE Down(g[c \ {Max(c)}], names[Max(c)])
  <2>1. \E h : Solves(h)
    <3>1. PICK h : Folds(h, n, Seq(A), dir, E)
      BY <1>1, <1>2, FoldExists
    <3> QED  BY <1>4, <3>1
  <2>2. Solves(g)
    <3> HIDE DEF Solves
    <3> QED  BY <1>5, <2>1
  <2> QED  BY <2>2
<1> DEFINE r == [k \in 0 .. n |-> g[1 .. k]]
<1>8. r[0] = dir /\ r[n] = g[1 .. n]
  <2>1. 1 .. 0 = {} /\ 0 \in 0 .. n /\ n \in 0 .. n
    BY <1>1
  <2>2. r[0] = g[{}] /\ r[n] = g[1 .. n]
    BY <2>1
  <2> QED  BY <1>7, <2>2
<1>9. ASSUME NEW k \in 1 .. n PROVE r[k] = Down(r[k - 1], names[k])
  <2>1. /\ 1 .. k \in SUBSET (1 .. n) /\ k - 1 \in 0 .. n /\ k \in 0 .. n
        /\ k \in Nat /\ k # 0
    BY <1>1
  <2>2. g[1 .. k] = Down(g[1 .. k - 1], names[k])
    BY <1>7, <2>1, Prefix
  <2>3. r[k] = g[1 .. k] /\ r[k - 1] = g[1 .. k - 1]
    BY <2>1
  <2> HIDE DEF r
  <2> QED  BY <2>2, <2>3
<1> HIDE DEF r
<1> QED  BY <1>6, <1>8, <1>9 DEF Walks, n

(* Cleaning a path makes up no names.                                       *)
LEMMA JoinedType ==
    ASSUME NEW A, NEW dir \in Seq(A), NEW names \in Seq(A)
    PROVE  Joined(dir, names) \in Seq(A)
<1> DEFINE n == Len(names)
<1>1. n \in Nat /\ \A k \in 1 .. n : names[k] \in A
  BY LenProperties, ElementOfSeq
<1>2. PICK r : Walks(r, dir, names) /\ Joined(dir, names) = r[n]
  BY JoinedRuns
<1>3. /\ r[0] = dir
      /\ \A k \in 1 .. n : r[k] = Down(r[k - 1], names[k])
  BY <1>2 DEF Walks
<1> HIDE DEF n
<1> DEFINE S == {k \in 0 .. n : r[k] \in Seq(A)}
<1>4. 0 \in S
  BY <1>1, <1>3
<1>5. ASSUME NEW k \in 0 .. n - 1, k \in S PROVE k + 1 \in S
  <2>1. k + 1 \in 1 .. n /\ k + 1 \in 0 .. n /\ (k + 1) - 1 = k
    BY <1>1
  <2>2. r[k + 1] = Down(r[k], names[k + 1])
    BY <1>3, <2>1
  <2>3. r[k] \in Seq(A) /\ names[k + 1] \in A
    BY <1>1, <1>5, <2>1
  <2>4. r[k + 1] \in Seq(A)
    BY <2>2, <2>3, DownType
  <2> QED  BY <2>1, <2>4
<1> HIDE DEF S
<1>6. n \in 0 .. n
  BY <1>1
<1>7. 0 .. n \subseteq S
  BY <1>1, <1>4, <1>5, InductTo
<1> QED  BY <1>2, <1>6, <1>7 DEF S

-----------------------------------------------------------------------------
(* Prefixes.                                                                *)

LEMMA PrefixIs ==
    ASSUME NEW A, NEW s \in Seq(A), NEW t \in Seq(A)
    PROVE  IsPrefix(s, t) <=> Len(s) <= Len(t) /\ \A i \in 1 .. Len(s) : s[i] = t[i]
<1> DEFINE m == Len(s)
<1>1. m \in Nat /\ Len(t) \in Nat /\ SubSeq(s, 1, m) = s
  BY LenProperties, SubSeqFull
<1>2. SUFFICES ASSUME m <= Len(t)
               PROVE  s = SubSeq(t, 1, m) <=> \A i \in 1 .. m : s[i] = t[i]
  BY <1>1 DEF IsPrefix
<1>3. \A i \in 1 .. m : t[i] \in A
  BY <1>1, <1>2, ElementOfSeq
<1>4. /\ SubSeq(t, 1, m) \in Seq(A)
      /\ Len(SubSeq(t, 1, m)) = IF 1 <= m THEN m - 1 + 1 ELSE 0
      /\ \A i \in 1 .. m - 1 + 1 : SubSeq(t, 1, m)[i] = t[1 + i - 1]
  BY <1>1, <1>3, SubSeqProperties
<1>5. Len(SubSeq(t, 1, m)) = m /\ \A i \in 1 .. m : SubSeq(t, 1, m)[i] = t[i]
  <2>1. m - 1 + 1 = m /\ \A i \in 1 .. m : 1 + i - 1 = i
    BY <1>1
  <2> QED  BY <1>1, <1>4, <2>1
<1> HIDE DEF m
<1> QED  BY <1>4, <1>5, SeqEqual DEF m

LEMMA PrefixesAre ==
    ASSUME NEW A, NEW s \in Seq(A), NEW p
    PROVE  p \in Prefixes(s) <=> p \in Seq(A) /\ IsPrefix(p, s)
<1>1. Len(s) \in Nat
  BY LenProperties
<1>2. ASSUME NEW l \in 0 .. Len(s)
      PROVE  /\ SubSeq(s, 1, l) \in Seq(A) /\ Len(SubSeq(s, 1, l)) = l
             /\ \A i \in 1 .. l : SubSeq(s, 1, l)[i] = s[i]
  <2>1. \A i \in 1 .. l : s[i] \in A
    BY <1>1, ElementOfSeq
  <2>2. /\ SubSeq(s, 1, l) \in Seq(A)
        /\ Len(SubSeq(s, 1, l)) = IF 1 <= l THEN l - 1 + 1 ELSE 0
        /\ \A i \in 1 .. l - 1 + 1 : SubSeq(s, 1, l)[i] = s[1 + i - 1]
    BY <1>1, <2>1, SubSeqProperties
  <2>3. l - 1 + 1 = l /\ \A i \in 1 .. l : 1 + i - 1 = i
    BY <1>1
  <2> QED  BY <1>1, <2>2, <2>3
<1>3. ASSUME p \in Prefixes(s) PROVE p \in Seq(A) /\ IsPrefix(p, s)
  <2>1. PICK l \in 0 .. Len(s) : p = SubSeq(s, 1, l)
    BY <1>3 DEF Prefixes
  <2>2. p \in Seq(A) /\ Len(p) = l /\ \A i \in 1 .. l : p[i] = s[i]
    BY <1>2, <2>1
  <2> QED  BY <1>1, <2>2, PrefixIs
<1>4. ASSUME p \in Seq(A), IsPrefix(p, s) PROVE p \in Prefixes(s)
  <2>1. /\ Len(p) \in Nat /\ Len(p) <= Len(s)
        /\ \A i \in 1 .. Len(p) : p[i] = s[i]
    BY <1>4, PrefixIs, LenProperties
  <2>2. Len(p) \in 0 .. Len(s)
    BY <1>1, <2>1
  <2>3. p = SubSeq(s, 1, Len(p))
    BY <1>2, <1>4, <2>1, <2>2, SeqEqual
  <2> QED  BY <2>2, <2>3 DEF Prefixes
<1> QED  BY <1>3, <1>4

(* Prefixes are ordered, and two of one path are prefixes of each other.    *)
LEMMA PrefixOrder ==
    ASSUME NEW A, NEW s \in Seq(A), NEW t \in Seq(A), NEW u \in Seq(A)
    PROVE  /\ IsPrefix(s, s)
           /\ IsPrefix(s, t) /\ IsPrefix(t, u) => IsPrefix(s, u)
           /\ IsPrefix(s, t) /\ IsPrefix(t, s) => s = t
           /\ IsPrefix(s, u) /\ IsPrefix(t, u) => IsPrefix(s, t) \/ IsPrefix(t, s)
<1>1. Len(s) \in Nat /\ Len(t) \in Nat /\ Len(u) \in Nat
  BY LenProperties
<1>2. IsPrefix(s, s)
  BY <1>1, PrefixIs
<1>3. IsPrefix(s, t) /\ IsPrefix(t, u) => IsPrefix(s, u)
  <2>1. ASSUME IsPrefix(s, t), IsPrefix(t, u) PROVE IsPrefix(s, u)
    <3>1. /\ Len(s) <= Len(t) /\ Len(t) <= Len(u)
          /\ \A i \in 1 .. Len(s) : s[i] = t[i]
          /\ \A i \in 1 .. Len(t) : t[i] = u[i]
      BY <2>1, PrefixIs
    <3>2. Len(s) <= Len(u) /\ \A i \in 1 .. Len(s) : s[i] = u[i]
      BY <1>1, <3>1
    <3> QED  BY <3>2, PrefixIs
  <2> QED  BY <2>1
<1>4. IsPrefix(s, t) /\ IsPrefix(t, s) => s = t
  <2>1. ASSUME IsPrefix(s, t), IsPrefix(t, s) PROVE s = t
    <3>1. /\ Len(s) <= Len(t) /\ Len(t) <= Len(s)
          /\ \A i \in 1 .. Len(s) : s[i] = t[i]
      BY <2>1, PrefixIs
    <3>2. Len(s) = Len(t)
      BY <1>1, <3>1
    <3> QED  BY <3>1, <3>2, SeqEqual
  <2> QED  BY <2>1
<1>5. IsPrefix(s, u) /\ IsPrefix(t, u) => IsPrefix(s, t) \/ IsPrefix(t, s)
  <2>1. ASSUME IsPrefix(s, u), IsPrefix(t, u) PROVE IsPrefix(s, t) \/ IsPrefix(t, s)
    <3>1. /\ \A i \in 1 .. Len(s) : s[i] = u[i]
          /\ \A i \in 1 .. Len(t) : t[i] = u[i]
      BY <2>1, PrefixIs
    <3>2. CASE Len(s) <= Len(t)
      <4>1. \A i \in 1 .. Len(s) : s[i] = t[i]
        BY <1>1, <3>1, <3>2
      <4> QED  BY <3>2, <4>1, PrefixIs
    <3>3. CASE Len(t) <= Len(s)
      <4>1. \A i \in 1 .. Len(t) : t[i] = s[i]
        BY <1>1, <3>1, <3>3
      <4> QED  BY <3>3, <4>1, PrefixIs
    <3> QED  BY <1>1, <3>2, <3>3
  <2> QED  BY <2>1
<1> QED  BY <1>2, <1>3, <1>4, <1>5

(* The directory of a path: what is before its last name.                   *)
LEMMA FrontPrefix ==
    ASSUME NEW A, NEW d \in Seq(A), NEW p \in Seq(A)
    PROVE  /\ IsPrefix(Front(p), p)
           /\ p # <<>> => Front(p) # p
           /\ IsPrefix(d, p) /\ d # p => p # <<>> /\ IsPrefix(d, Front(p))
<1>1. Len(d) \in Nat /\ Len(p) \in Nat /\ Front(p) \in Seq(A)
  BY LenProperties, FrontIs
<1>2. CASE p = <<>>
  <2>1. Front(p) = p /\ Len(p) = 0
    BY <1>2, FrontIs
  <2>2. ASSUME IsPrefix(d, p) PROVE d = p
    <3>0. Len(d) <= Len(p)
      BY <2>2, PrefixIs
    <3>1. Len(d) = 0
      BY <1>1, <2>1, <3>0
    <3> QED  BY <1>2, <3>1, EmptySeq
  <2> QED  BY <1>2, <2>1, <2>2, PrefixOrder
<1>3. CASE p # <<>>
  <2>1. /\ Len(p) # 0 /\ Len(Front(p)) = Len(p) - 1
        /\ \A i \in 1 .. Len(p) - 1 : Front(p)[i] = p[i]
    BY <1>3, FrontIs
  <2>2. IsPrefix(Front(p), p)
    <3>1. Len(Front(p)) <= Len(p)
      BY <1>1, <2>1
    <3>2. \A i \in 1 .. Len(Front(p)) : Front(p)[i] = p[i]
      BY <2>1
    <3> QED  BY <1>1, <3>1, <3>2, PrefixIs, Zenon
  <2>3. Front(p) # p
    BY <1>1, <2>1
  <2>4. ASSUME IsPrefix(d, p), d # p PROVE IsPrefix(d, Front(p))
    <3>1. Len(d) <= Len(p) /\ \A i \in 1 .. Len(d) : d[i] = p[i]
      BY <2>4, PrefixIs
    <3>2. Len(d) # Len(p)
      BY <2>4, <3>1, SeqEqual
    <3>3. Len(d) <= Len(Front(p)) /\ \A i \in 1 .. Len(d) : d[i] = Front(p)[i]
      BY <1>1, <2>1, <3>1, <3>2
    <3> QED  BY <1>1, <3>3, PrefixIs
  <2> QED  BY <1>3, <2>2, <2>3, <2>4
<1> QED  BY <1>2, <1>3

-----------------------------------------------------------------------------
(* Links.  There is one link at most on a path; below a directory that has  *)
(* none further down, paths are resolved by what their directory is.        *)

LEMMA OneLink ==
    ASSUME NEW p \in Seq(Words), NEW l \in DOMAIN Links, NEW m \in DOMAIN Links,
           IsPrefix(l, p), IsPrefix(m, p)
    PROVE  l = m
<1>1. l \in Seq(Words) /\ m \in Seq(Words)
  BY PlanAssumption
<1>2. IsPrefix(l, m) \/ IsPrefix(m, l)
  BY <1>1, PrefixOrder
<1> QED  BY <1>2, PlanAssumption

LEMMA RealIs ==
    ASSUME NEW p \in Seq(Words)
    PROVE  /\ (\A l \in DOMAIN Links : ~IsPrefix(l, p)) => Real(p) = p
           /\ \A l \in DOMAIN Links : IsPrefix(l, p) =>
                /\ Real(p) \in Seq(Words)
                /\ Len(l) \in Nat /\ Len(l) <= Len(p) /\ Len(Links[l]) \in Nat
                /\ Len(Real(p)) = Len(Links[l]) + (Len(p) - Len(l))
                /\ \A i \in 1 .. Len(Links[l]) : Real(p)[i] = Links[l][i]
                /\ \A i \in Len(l) + 1 .. Len(p) :
                      Real(p)[Len(Links[l]) + (i - Len(l))] = p[i]
<1>1. ASSUME \A l \in DOMAIN Links : ~IsPrefix(l, p) PROVE Real(p) = p
  BY <1>1 DEF Real
<1>2. ASSUME NEW l \in DOMAIN Links, IsPrefix(l, p)
      PROVE  /\ Real(p) \in Seq(Words)
             /\ Len(l) \in Nat /\ Len(l) <= Len(p) /\ Len(Links[l]) \in Nat
             /\ Len(Real(p)) = Len(Links[l]) + (Len(p) - Len(l))
             /\ \A i \in 1 .. Len(Links[l]) : Real(p)[i] = Links[l][i]
             /\ \A i \in Len(l) + 1 .. Len(p) :
                   Real(p)[Len(Links[l]) + (i - Len(l))] = p[i]
  <2>1. l \in Seq(Words) /\ Links[l] \in Seq(Words)
    BY PlanAssumption
  <2>2. Len(l) \in Nat /\ Len(p) \in Nat /\ Len(l) <= Len(p) /\ Len(Links[l]) \in Nat
    BY <1>2, <2>1, PrefixIs, LenProperties
  <2>3. PICK m : m = CHOOSE x \in DOMAIN Links : IsPrefix(x, p)
    OBVIOUS
  <2>4. m \in DOMAIN Links /\ IsPrefix(m, p)
    BY <1>2, <2>3
  <2>5. m = l
    BY <1>2, <2>4, OneLink
  <2> DEFINE rest == SubSeq(p, Len(l) + 1, Len(p))
  <2>6. Real(p) = Links[l] \o rest
    BY <1>2, <2>3, <2>5 DEF Real
  <2>7. \A i \in Len(l) + 1 .. Len(p) : p[i] \in Words
    BY <2>2, ElementOfSeq
  <2>8. /\ rest \in Seq(Words)
        /\ Len(rest) = IF Len(l) + 1 <= Len(p) THEN Len(p) - (Len(l) + 1) + 1 ELSE 0
        /\ \A i \in 1 .. Len(p) - (Len(l) + 1) + 1 : rest[i] = p[Len(l) + 1 + i - 1]
    BY <2>2, <2>7, SubSeqProperties
  <2> HIDE DEF rest
  <2>9. Len(rest) = Len(p) - Len(l)
    <3>1. Len(rest) = IF Len(l) + 1 <= Len(p) THEN Len(p) - (Len(l) + 1) + 1 ELSE 0
      BY <2>8
    <3>2. \A n, k \in Nat : k <= n => (IF k + 1 <= n THEN n - (k + 1) + 1 ELSE 0) = n - k
      OBVIOUS
    <3> QED  BY <2>2, <3>1, <3>2
  <2>10. \A i \in Len(l) + 1 .. Len(p) : rest[i - Len(l)] = p[i]
    <3> SUFFICES ASSUME NEW i \in Len(l) + 1 .. Len(p) PROVE rest[i - Len(l)] = p[i]
      OBVIOUS
    <3>1. /\ i - Len(l) \in 1 .. Len(p) - (Len(l) + 1) + 1
          /\ Len(l) + 1 + (i - Len(l)) - 1 = i
      BY <2>2
    <3>2. rest[i - Len(l)] = p[Len(l) + 1 + (i - Len(l)) - 1]
      BY <2>8, <3>1
    <3> QED  BY <3>1, <3>2
  <2>11. /\ Links[l] \o rest \in Seq(Words)
         /\ Len(Links[l] \o rest) = Len(Links[l]) + Len(rest)
         /\ \A i \in 1 .. Len(Links[l]) + Len(rest) : (Links[l] \o rest)[i] =
               IF i <= Len(Links[l]) THEN Links[l][i] ELSE rest[i - Len(Links[l])]
    BY <2>1, <2>8, ConcatProperties
  <2>12. \A i \in 1 .. Len(Links[l]) : Real(p)[i] = Links[l][i]
    BY <2>2, <2>6, <2>9, <2>11
  <2>13. ASSUME NEW i \in Len(l) + 1 .. Len(p)
         PROVE  Real(p)[Len(Links[l]) + (i - Len(l))] = p[i]
    <3> DEFINE j == Len(Links[l]) + (i - Len(l))
    <3>1. /\ j \in 1 .. Len(Links[l]) + Len(rest) /\ ~(j <= Len(Links[l]))
          /\ j - Len(Links[l]) = i - Len(l)
      BY <2>2, <2>9
    <3> HIDE DEF j
    <3>2. Real(p)[j] = rest[i - Len(l)]
      BY <2>6, <2>11, <3>1
    <3> QED  BY <2>10, <3>2 DEF j
  <2> QED  BY <2>2, <2>6, <2>9, <2>11, <2>12, <2>13
<1> QED  BY <1>1, <1>2

LEMMA RealType ==
    ASSUME NEW p \in Seq(Words)
    PROVE  Real(p) \in Seq(Words)
BY RealIs

NoLinkBelow(d) == \A l \in DOMAIN Links : ~IsStrictPrefix(d, l)

LEMMA RealBelow ==
    ASSUME NEW d \in Seq(Words), NEW p \in Seq(Words), NoLinkBelow(d), IsPrefix(d, p)
    PROVE  /\ Len(d) \in Nat /\ Len(p) \in Nat /\ Len(d) <= Len(p) /\ Len(Real(d)) \in Nat
           /\ Len(Real(p)) = Len(Real(d)) + (Len(p) - Len(d))
           /\ \A i \in 1 .. Len(Real(d)) : Real(p)[i] = Real(d)[i]
           /\ \A i \in Len(d) + 1 .. Len(p) : Real(p)[Len(Real(d)) + (i - Len(d))] = p[i]
<1>1. /\ Len(d) \in Nat /\ Len(p) \in Nat /\ Len(d) <= Len(p) /\ Len(Real(d)) \in Nat
      /\ \A i \in 1 .. Len(d) : d[i] = p[i]
  BY PrefixIs, LenProperties, RealType
<1>2. CASE \A l \in DOMAIN Links : ~IsPrefix(l, p)
  <2>1. \A l \in DOMAIN Links : ~IsPrefix(l, d)
    BY <1>2, PrefixOrder, PlanAssumption
  <2>2. Real(p) = p /\ Real(d) = d
    BY <1>2, <2>1, RealIs
  <2>3. \A i \in Len(d) + 1 .. Len(p) : Len(d) + (i - Len(d)) = i
    BY <1>1
  <2>4. Len(p) = Len(d) + (Len(p) - Len(d))
    BY <1>1
  <2> QED  BY <1>1, <2>2, <2>3, <2>4
<1>3. CASE \E l \in DOMAIN Links : IsPrefix(l, p)
  <2>1. PICK l \in DOMAIN Links : IsPrefix(l, p)
    BY <1>3
  <2>2. l \in Seq(Words) /\ Links[l] \in Seq(Words)
    BY PlanAssumption
  <2>3. IsPrefix(l, d)
    <3>1. IsPrefix(l, d) \/ IsPrefix(d, l)
      BY <2>1, <2>2, PrefixOrder
    <3>2. IsPrefix(d, l) => d = l
      BY DEF NoLinkBelow, IsStrictPrefix
    <3>3. IsPrefix(d, d)
      BY PrefixOrder
    <3> QED  BY <3>1, <3>2, <3>3
  <2> DEFINE k == Len(Links[l])
             m == Len(l)
  <2>4. /\ m \in Nat /\ m <= Len(p) /\ k \in Nat
        /\ Len(Real(p)) = k + (Len(p) - m)
        /\ \A i \in 1 .. k : Real(p)[i] = Links[l][i]
        /\ \A i \in m + 1 .. Len(p) : Real(p)[k + (i - m)] = p[i]
    BY <2>1, RealIs
  <2>5. /\ m <= Len(d)
        /\ Len(Real(d)) = k + (Len(d) - m)
        /\ \A i \in 1 .. k : Real(d)[i] = Links[l][i]
        /\ \A i \in m + 1 .. Len(d) : Real(d)[k + (i - m)] = d[i]
    BY <2>3, RealIs
  <2> HIDE DEF k, m
  <2>6. Len(Real(p)) = Len(Real(d)) + (Len(p) - Len(d))
    BY <1>1, <2>4, <2>5
  <2>7. ASSUME NEW i \in 1 .. Len(Real(d)) PROVE Real(p)[i] = Real(d)[i]
    <3>1. CASE i <= k
      BY <1>1, <2>4, <2>5, <3>1
    <3>2. CASE i > k
      <4> DEFINE j == m + (i - k)
      <4>1. /\ j \in m + 1 .. Len(d) /\ j \in m + 1 .. Len(p) /\ j \in 1 .. Len(d)
            /\ k + (j - m) = i
        BY <1>1, <2>4, <2>5, <3>2
      <4> HIDE DEF j
      <4>2. Real(p)[i] = p[j] /\ Real(d)[i] = d[j] /\ d[j] = p[j]
        BY <1>1, <2>4, <2>5, <4>1
      <4> QED  BY <4>2
    <3> QED  BY <1>1, <2>4, <3>1, <3>2
  <2>8. ASSUME NEW i \in Len(d) + 1 .. Len(p)
        PROVE  Real(p)[Len(Real(d)) + (i - Len(d))] = p[i]
    <3>1. i \in m + 1 .. Len(p) /\ Len(Real(d)) + (i - Len(d)) = k + (i - m)
      BY <1>1, <2>4, <2>5
    <3> QED  BY <2>4, <3>1
  <2> QED  BY <1>1, <2>6, <2>7, <2>8
<1> QED  BY <1>2, <1>3

(* Below such a directory, resolving keeps and reflects prefixes.           *)
LEMMA RealPrefix ==
    ASSUME NEW d \in Seq(Words), NEW p \in Seq(Words), NEW q \in Seq(Words),
           NoLinkBelow(d), IsPrefix(d, p), IsPrefix(d, q)
    PROVE  IsPrefix(Real(p), Real(q)) <=> IsPrefix(p, q)
<1> DEFINE n == Len(d)
           k == Len(Real(d))
<1>1. /\ n \in Nat /\ k \in Nat /\ Len(p) \in Nat /\ n <= Len(p)
      /\ Len(Real(p)) = k + (Len(p) - n)
      /\ \A i \in 1 .. k : Real(p)[i] = Real(d)[i]
      /\ \A i \in n + 1 .. Len(p) : Real(p)[k + (i - n)] = p[i]
  BY RealBelow
<1>2. /\ Len(q) \in Nat /\ n <= Len(q)
      /\ Len(Real(q)) = k + (Len(q) - n)
      /\ \A i \in 1 .. k : Real(q)[i] = Real(d)[i]
      /\ \A i \in n + 1 .. Len(q) : Real(q)[k + (i - n)] = q[i]
  BY RealBelow
<1>3. \A i \in 1 .. n : p[i] = q[i]
  <2>1. /\ \A i \in 1 .. Len(d) : d[i] = p[i]
        /\ \A i \in 1 .. Len(d) : d[i] = q[i]
    BY PrefixIs
  <2> QED  BY <2>1
<1>4. Real(p) \in Seq(Words) /\ Real(q) \in Seq(Words)
  BY RealType
<1> HIDE DEF n, k
<1>5. ASSUME IsPrefix(Real(p), Real(q)) PROVE IsPrefix(p, q)
  <2>1. Len(Real(p)) <= Len(Real(q)) /\ \A i \in 1 .. Len(Real(p)) : Real(p)[i] = Real(q)[i]
    BY <1>4, <1>5, PrefixIs
  <2>2. Len(p) <= Len(q)
    BY <1>1, <1>2, <2>1
  <2>3. ASSUME NEW i \in 1 .. Len(p) PROVE p[i] = q[i]
    <3>1. CASE i <= n
      BY <1>1, <1>3, <3>1
    <3>2. CASE i > n
      <4>1. /\ i \in n + 1 .. Len(p) /\ i \in n + 1 .. Len(q)
            /\ k + (i - n) \in 1 .. Len(Real(p))
        BY <1>1, <1>2, <2>2, <3>2
      <4> QED  BY <1>1, <1>2, <2>1, <4>1
    <3> QED  BY <1>1, <3>1, <3>2
  <2> QED  BY <2>2, <2>3, PrefixIs
<1>6. ASSUME IsPrefix(p, q) PROVE IsPrefix(Real(p), Real(q))
  <2>1. Len(p) <= Len(q) /\ \A i \in 1 .. Len(p) : p[i] = q[i]
    BY <1>6, PrefixIs
  <2>2. Len(Real(p)) <= Len(Real(q))
    BY <1>1, <1>2, <2>1
  <2>3. ASSUME NEW i \in 1 .. Len(Real(p)) PROVE Real(p)[i] = Real(q)[i]
    <3>1. CASE i <= k
      BY <1>1, <1>2, <3>1
    <3>2. CASE i > k
      <4> DEFINE j == n + (i - k)
      <4>1. /\ j \in n + 1 .. Len(p) /\ j \in n + 1 .. Len(q) /\ j \in 1 .. Len(p)
            /\ k + (j - n) = i
        BY <1>1, <1>2, <2>1, <3>2
      <4> HIDE DEF j
      <4>2. Real(p)[i] = p[j] /\ Real(q)[i] = q[j] /\ p[j] = q[j]
        BY <1>1, <1>2, <2>1, <4>1
      <4> QED  BY <4>2
    <3> QED  BY <1>1, <3>1, <3>2
  <2> QED  BY <1>4, <2>2, <2>3, PrefixIs
<1> QED  BY <1>5, <1>6

LEMMA RealInjective ==
    ASSUME NEW d \in Seq(Words), NEW p \in Seq(Words), NEW q \in Seq(Words),
           NoLinkBelow(d), IsPrefix(d, p), IsPrefix(d, q), Real(p) = Real(q)
    PROVE  p = q
<1>1. IsPrefix(Real(p), Real(q)) /\ IsPrefix(Real(q), Real(p))
  BY RealType, PrefixOrder
<1>2. IsPrefix(p, q) /\ IsPrefix(q, p)
  BY <1>1, RealPrefix
<1> QED  BY <1>2, PrefixOrder

(* The real directory of a path is the directory of the real path.          *)
LEMMA RealFront ==
    ASSUME NEW d \in Seq(Words), NEW p \in Seq(Words), NoLinkBelow(d), IsPrefix(d, p), d # p
    PROVE  /\ p # <<>> /\ Real(p) # <<>> /\ Front(p) \in Seq(Words) /\ IsPrefix(d, Front(p))
           /\ Real(Front(p)) = Front(Real(p))
<1> DEFINE f == Front(p)
           n == Len(d)
           k == Len(Real(d))
<1>1. p # <<>> /\ IsPrefix(d, f) /\ f \in Seq(Words)
  BY FrontPrefix, FrontIs
<1>2. /\ Len(p) \in Nat \ {0} /\ Len(f) = Len(p) - 1
      /\ \A i \in 1 .. Len(p) - 1 : f[i] = p[i]
  BY <1>1, FrontIs
<1>3. /\ n \in Nat /\ k \in Nat /\ n <= Len(p)
      /\ Len(Real(p)) = k + (Len(p) - n)
      /\ \A i \in 1 .. k : Real(p)[i] = Real(d)[i]
      /\ \A i \in n + 1 .. Len(p) : Real(p)[k + (i - n)] = p[i]
  BY RealBelow
<1> HIDE DEF f
<1>4. /\ n <= Len(f)
      /\ Len(Real(f)) = k + (Len(f) - n)
      /\ \A i \in 1 .. k : Real(f)[i] = Real(d)[i]
      /\ \A i \in n + 1 .. Len(f) : Real(f)[k + (i - n)] = f[i]
  BY <1>1, RealBelow
<1> HIDE DEF n, k
<1>5. Real(p) \in Seq(Words) /\ Real(f) \in Seq(Words)
  BY <1>1, RealType
<1>6. Len(Real(p)) = Len(Real(f)) + 1 /\ Len(Real(f)) \in Nat
  BY <1>2, <1>3, <1>4
<1>7. Real(p) # <<>>
  BY <1>6, EmptySeq
<1>8. /\ Front(Real(p)) \in Seq(Words) /\ Len(Front(Real(p))) = Len(Real(p)) - 1
      /\ \A i \in 1 .. Len(Real(p)) - 1 : Front(Real(p))[i] = Real(p)[i]
  BY <1>5, <1>7, FrontIs
<1>9. ASSUME NEW i \in 1 .. Len(Real(f)) PROVE Real(f)[i] = Front(Real(p))[i]
  <2>1. Front(Real(p))[i] = Real(p)[i]
    BY <1>6, <1>8
  <2>2. CASE i <= k
    <3>1. i \in 1 .. k
      BY <1>3, <1>6, <2>2
    <3> QED  BY <1>3, <1>4, <2>1, <3>1
  <2>3. CASE i > k
    <3> DEFINE j == n + (i - k)
    <3>1. /\ j \in n + 1 .. Len(p) /\ j \in n + 1 .. Len(f) /\ j \in 1 .. Len(p) - 1
          /\ k + (j - n) = i
      BY <1>2, <1>3, <1>4, <2>3
    <3> HIDE DEF j
    <3>2. Real(p)[i] = p[j] /\ Real(f)[i] = f[j] /\ f[j] = p[j]
      BY <1>2, <1>3, <1>4, <3>1
    <3> QED  BY <2>1, <3>2
  <2> QED  BY <1>3, <1>6, <2>2, <2>3
<1>10. Len(Real(f)) = Len(Front(Real(p)))
  BY <1>6, <1>8
<1>11. Real(f) = Front(Real(p))
  BY <1>5, <1>8, <1>9, <1>10, SeqEqual
<1> QED  BY <1>1, <1>7, <1>11 DEF f

(* What is on the way to the real directory of a path is strictly on the    *)
(* way to the real path.                                                    *)
LEMMA OnTheWay ==
    ASSUME NEW d \in Seq(Words), NEW p \in Seq(Words), NoLinkBelow(d), IsPrefix(d, p), d # p
    PROVE  Prefixes(Real(Front(p))) = Prefixes(Real(p)) \ {Real(p)}
<1>1. /\ Real(p) # <<>> /\ Real(Front(p)) = Front(Real(p)) /\ Real(p) \in Seq(Words)
  BY RealFront, RealType
<1>2. Front(Real(p)) \in Seq(Words)
  BY <1>1, FrontIs
<1>3. ASSUME NEW q PROVE q \in Prefixes(Front(Real(p))) <=> q \in Prefixes(Real(p)) \ {Real(p)}
  <2>1. /\ q \in Prefixes(Front(Real(p))) <=> q \in Seq(Words) /\ IsPrefix(q, Front(Real(p)))
        /\ q \in Prefixes(Real(p)) <=> q \in Seq(Words) /\ IsPrefix(q, Real(p))
    BY <1>1, <1>2, PrefixesAre
  <2>2. ASSUME q \in Seq(Words), IsPrefix(q, Front(Real(p)))
        PROVE  IsPrefix(q, Real(p)) /\ q # Real(p)
    <3>1. IsPrefix(Front(Real(p)), Real(p)) /\ Front(Real(p)) # Real(p)
      BY <1>1, FrontPrefix
    <3> QED  BY <1>1, <1>2, <2>2, <3>1, PrefixOrder
  <2>3. ASSUME q \in Seq(Words), IsPrefix(q, Real(p)), q # Real(p)
        PROVE  IsPrefix(q, Front(Real(p)))
    BY <1>1, <2>3, FrontPrefix
  <2> QED  BY <2>1, <2>2, <2>3
<1> QED  BY <1>1, <1>3

-----------------------------------------------------------------------------
(* The channel list: every channel once, in the order of first mention.     *)

Mentions(raws, channel, m) ==
    /\ m \in DOMAIN raws /\ Trim[raws[m]] = channel
    /\ \A j \in 1 .. m - 1 : Trim[raws[j]] # channel

LEMMA OneFirstMention ==
    ASSUME NEW raws \in Seq(Raws), NEW channel, NEW m, Mentions(raws, channel, m)
    PROVE  /\ \A l : Mentions(raws, channel, l) => l = m
           /\ FirstMention(raws, channel) = m
<1>1. DOMAIN raws = 1 .. Len(raws) /\ Len(raws) \in Nat
  BY LenProperties
<1>2. ASSUME NEW l, Mentions(raws, channel, l) PROVE l = m
  <2>1. l \in Nat /\ m \in Nat /\ l >= 1 /\ m >= 1
    BY <1>1, <1>2 DEF Mentions
  <2>2. CASE l < m
    BY <1>2, <2>1, <2>2 DEF Mentions
  <2>3. CASE m < l
    BY <1>2, <2>1, <2>3 DEF Mentions
  <2> QED  BY <2>1, <2>2, <2>3
<1>3. PICK x : x = FirstMention(raws, channel)
  OBVIOUS
<1>4. Mentions(raws, channel, x)
  BY <1>3 DEF FirstMention, Mentions
<1> QED  BY <1>2, <1>3, <1>4

(* After k raw channels.                                                    *)
Seen(t, raws, k) ==
    /\ t \in Seq(Channels)
    /\ \A i \in 1 .. Len(t) : t[i] # "" /\ \E m \in 1 .. k : Mentions(raws, t[i], m)
    /\ \A j \in 1 .. k : Trim[raws[j]] \in ToSet(t) \cup {""}
    /\ \A i, j \in 1 .. Len(t) : i < j =>
          FirstMention(raws, t[i]) < FirstMention(raws, t[j])

LEMMA SeenStep ==
    ASSUME NEW raws \in Seq(Raws), NEW k \in 0 .. Len(raws) - 1, NEW t, Seen(t, raws, k)
    PROVE  Seen(AddOnce(t, raws[k + 1]), raws, k + 1)
<1>0. /\ \A i \in 1 .. Len(t) : t[i] # "" /\ \E m \in 1 .. k : Mentions(raws, t[i], m)
      /\ \A j \in 1 .. k : Trim[raws[j]] \in ToSet(t) \cup {""}
      /\ \A i, j \in 1 .. Len(t) : i < j => FirstMention(raws, t[i]) < FirstMention(raws, t[j])
  BY DEF Seen
<1> DEFINE c == Trim[raws[k + 1]]
<1>1. /\ Len(raws) \in Nat /\ DOMAIN raws = 1 .. Len(raws) /\ k + 1 \in 1 .. Len(raws)
      /\ k \in Nat
  BY LenProperties
<1>2. c \in Channels
  BY <1>1, ElementOfSeq DEF Channels
<1>3. /\ t \in Seq(Channels) /\ Len(t) \in Nat /\ DOMAIN t = 1 .. Len(t)
  BY LenProperties DEF Seen
<1> HIDE DEF c
<1>4. CASE c \in ToSet(t) \cup {""}
  <2>1. AddOnce(t, raws[k + 1]) = t
    BY <1>4 DEF AddOnce, c
  <2>2. \A j \in 1 .. k + 1 : Trim[raws[j]] \in ToSet(t) \cup {""}
    <3>1. \A j \in 1 .. k + 1 : j \in 1 .. k \/ j = k + 1
      BY <1>1
    <3> QED  BY <1>4, <3>1 DEF Seen, c
  <2>3. 1 .. k \subseteq 1 .. k + 1
    BY <1>1
  <2>4. Seen(t, raws, k + 1)
    BY <2>2, <2>3 DEF Seen
  <2> QED  BY <2>1, <2>4
<1>5. CASE c \notin ToSet(t) \cup {""}
  <2>1. PICK u \in Seq(Channels) : u = Append(t, c)
    BY <1>2, <1>3, AppendProperties
  <2>2. AddOnce(t, raws[k + 1]) = u
    BY <1>5, <2>1 DEF AddOnce, c
  <2>3. /\ Len(u) = Len(t) + 1 /\ DOMAIN u = 1 .. Len(t) + 1
        /\ \A i \in 1 .. Len(t) : u[i] = t[i]
        /\ u[Len(t) + 1] = c
    BY <1>2, <1>3, <2>1, AppendProperties, LenProperties
  <2>4. Mentions(raws, c, k + 1)
    <3>1. \A j \in 1 .. (k + 1) - 1 : Trim[raws[j]] # c
      <4>1. (k + 1) - 1 = k
        BY <1>1
      <4> QED  BY <1>5, <4>1 DEF Seen
    <3> QED  BY <1>1, <3>1 DEF Mentions, c
  <2>5. ASSUME NEW i \in 1 .. Len(u)
        PROVE  u[i] # "" /\ \E m \in 1 .. k + 1 : Mentions(raws, u[i], m)
    <3>1. CASE i \in 1 .. Len(t)
      <4>1. PICK m \in 1 .. k : Mentions(raws, t[i], m)
        BY <1>0, <3>1
      <4>2. m \in 1 .. k + 1
        BY <1>1
      <4>3. t[i] # "" /\ u[i] = t[i]
        BY <1>0, <2>3, <3>1
      <4> QED  BY <4>1, <4>2, <4>3
    <3>2. CASE i = Len(t) + 1
      <4>1. k + 1 \in 1 .. k + 1
        BY <1>1
      <4> QED  BY <1>5, <2>3, <2>4, <3>2, <4>1
    <3>3. i \in 1 .. Len(t) \/ i = Len(t) + 1
      BY <1>3, <2>3
    <3> QED  BY <3>1, <3>2, <3>3
  <2>6. ASSUME NEW j \in 1 .. k + 1 PROVE Trim[raws[j]] \in ToSet(u) \cup {""}
    <3>1. CASE j \in 1 .. k
      <4>1. Trim[raws[j]] \in ToSet(t) \cup {""}
        BY <1>0, <3>1
      <4>2. ToSet(t) \subseteq ToSet(u)
        <5> SUFFICES ASSUME NEW i \in DOMAIN t PROVE t[i] \in ToSet(u)
          BY DEF ToSet
        <5>1. i \in DOMAIN u /\ u[i] = t[i]
          BY <1>3, <2>3
        <5> QED  BY <5>1 DEF ToSet
      <4> QED  BY <4>1, <4>2
    <3>2. CASE j = k + 1
      <4>1. Len(t) + 1 \in DOMAIN u
        BY <1>3, <2>3
      <4> QED  BY <2>3, <3>2, <4>1 DEF ToSet, c
    <3>3. j \in 1 .. k \/ j = k + 1
      BY <1>1
    <3> QED  BY <3>1, <3>2, <3>3
  <2>7. ASSUME NEW i \in 1 .. Len(u), NEW j \in 1 .. Len(u), i < j
        PROVE  FirstMention(raws, u[i]) < FirstMention(raws, u[j])
    <3>1. CASE j \in 1 .. Len(t)
      <4>1. i \in 1 .. Len(t)
        BY <1>3, <2>3, <2>7, <3>1
      <4> QED  BY <2>3, <2>7, <3>1, <4>1 DEF Seen
    <3>2. CASE j = Len(t) + 1
      <4>1. i \in 1 .. Len(t)
        BY <1>3, <2>3, <2>7, <3>2
      <4>2. PICK m \in 1 .. k : Mentions(raws, t[i], m)
        BY <4>1 DEF Seen
      <4>3. FirstMention(raws, u[i]) = m
        BY <2>3, <4>1, <4>2, OneFirstMention
      <4>4. FirstMention(raws, u[j]) = k + 1
        BY <2>3, <2>4, <3>2, OneFirstMention
      <4> QED  BY <1>1, <4>3, <4>4
    <3> QED  BY <1>3, <2>3, <3>1, <3>2
  <2>8. Seen(u, raws, k + 1)
    BY <2>5, <2>6, <2>7 DEF Seen
  <2> QED  BY <2>2, <2>8
<1> QED  BY <1>4, <1>5

LEMMA NormalizedIs ==
    ASSUME NEW raws \in Seq(Raws)
    PROVE  /\ Normalized(raws) \in Seq(Channels)
           /\ ToSet(Normalized(raws)) = {Trim[raw] : raw \in ToSet(raws)} \ {""}
           /\ \A i, j \in DOMAIN Normalized(raws) : i < j =>
                 FirstMention(raws, Normalized(raws)[i]) < FirstMention(raws, Normalized(raws)[j])
<1> DEFINE n == Len(raws)
<1>1. n \in Nat /\ DOMAIN raws = 1 .. n
  BY LenProperties
<1>2. PICK r : Sees(r, raws) /\ Normalized(raws) = r[n]
  BY NormalizedRuns
<1>3. r[0] = <<>> /\ \A k \in 1 .. n : r[k] = AddOnce(r[k - 1], raws[k])
  BY <1>2 DEF Sees
<1> DEFINE S == {k \in 0 .. n : Seen(r[k], raws, k)}
<1>4. 0 \in S
  <2>1. <<>> \in Seq(Channels) /\ Len(<<>>) = 0
    BY EmptySeq
  <2>2. 1 .. 0 = {}
    OBVIOUS
  <2>3. Seen(<<>>, raws, 0)
    BY <2>1, <2>2 DEF Seen
  <2> QED  BY <1>1, <1>3, <2>3
<1>5. ASSUME NEW k \in 0 .. n - 1, k \in S PROVE k + 1 \in S
  <2>1. k + 1 \in 1 .. n /\ k + 1 \in 0 .. n /\ (k + 1) - 1 = k
    BY <1>1
  <2>2. r[k + 1] = AddOnce(r[k], raws[k + 1])
    BY <1>3, <2>1
  <2>3. Seen(AddOnce(r[k], raws[k + 1]), raws, k + 1)
    BY <1>5, SeenStep
  <2> QED  BY <2>1, <2>2, <2>3
<1> HIDE DEF S
<1>6. 0 .. n \subseteq S
  BY <1>1, <1>4, <1>5, InductTo
<1>7. n \in 0 .. n
  BY <1>1
<1> DEFINE t == Normalized(raws)
<1>8. Seen(t, raws, n)
  BY <1>2, <1>6, <1>7 DEF S
<1> HIDE DEF t, n
<1>9. t \in Seq(Channels) /\ DOMAIN t = 1 .. Len(t)
  BY <1>8, LenProperties DEF Seen
<1>10. ASSUME NEW x \in ToSet(t) PROVE x \in {Trim[raw] : raw \in ToSet(raws)} \ {""}
  <2>1. PICK i \in 1 .. Len(t) : x = t[i]
    BY <1>9 DEF ToSet
  <2>2. x # "" /\ \E m \in 1 .. n : Mentions(raws, x, m)
    BY <1>8, <2>1 DEF Seen
  <2>3. PICK m \in DOMAIN raws : Trim[raws[m]] = x
    BY <2>2 DEF Mentions
  <2>4. raws[m] \in ToSet(raws)
    BY DEF ToSet
  <2> QED  BY <2>2, <2>3, <2>4
<1>11. ASSUME NEW raw \in ToSet(raws), Trim[raw] # "" PROVE Trim[raw] \in ToSet(t)
  <2>1. PICK j \in 1 .. n : raw = raws[j]
    BY <1>1 DEF ToSet
  <2> QED  BY <1>8, <1>11, <2>1 DEF Seen
<1>12. \A i, j \in DOMAIN t : i < j => FirstMention(raws, t[i]) < FirstMention(raws, t[j])
  BY <1>8, <1>9 DEF Seen
<1>13. ToSet(t) = {Trim[raw] : raw \in ToSet(raws)} \ {""}
  BY <1>10, <1>11
<1> QED  BY <1>9, <1>12, <1>13 DEF t

-----------------------------------------------------------------------------
(* Types.                                                                   *)

LEMMA OneName ==
    ASSUME NEW A, NEW x \in A
    PROVE  <<x>> \in Seq(A)
OBVIOUS

LEMMA SeqMonotone ==
    ASSUME NEW A, NEW B, B \subseteq A, NEW s \in Seq(B)
    PROVE  s \in Seq(A)
<1>1. PICK n \in Nat : n = Len(s) /\ DOMAIN s = 1 .. n
  BY LenProperties
<1>2. \A k \in 1 .. n : s[k] \in A
  BY <1>1, ElementOfSeq
<1>3. s \in [1 .. n -> B]
  BY <1>1, LenProperties
<1>4. s \in [1 .. n -> A]
  BY <1>2, <1>3
<1> QED  BY <1>4

LEMMA KeptType ==
    ASSUME NEW A, NEW s \in Seq(A), NEW S
    PROVE  Kept(s, S) \in Seq(S)
<1> DEFINE n == Len(s)
<1>1. n \in Nat
  BY LenProperties
<1>2. PICK r : Keeps(r, s, S) /\ Kept(s, S) = r[n]
  BY KeptRuns
<1>3. /\ r[0] = <<>>
      /\ \A k \in 1 .. n : r[k] = IF s[k] \in S THEN Append(r[k - 1], s[k]) ELSE r[k - 1]
  BY <1>2 DEF Keeps
<1> HIDE DEF n
<1> DEFINE T == {k \in 0 .. n : r[k] \in Seq(S)}
<1>4. 0 \in T
  <2>1. <<>> \in Seq(S) /\ 0 \in 0 .. n
    BY <1>1
  <2>2. r[0] \in Seq(S)
    BY <1>3, <2>1
  <2> QED  BY <2>1, <2>2
<1>5. ASSUME NEW k \in 0 .. n - 1, k \in T PROVE k + 1 \in T
  <2>1. k + 1 \in 1 .. n /\ k + 1 \in 0 .. n /\ (k + 1) - 1 = k
    BY <1>1
  <2>2. r[k + 1] = IF s[k + 1] \in S THEN Append(r[k], s[k + 1]) ELSE r[k]
    BY <1>3, <2>1
  <2>3. r[k] \in Seq(S)
    BY <1>5
  <2>4. r[k + 1] \in Seq(S)
    BY <2>2, <2>3, AppendProperties
  <2> QED  BY <2>1, <2>4
<1> HIDE DEF T
<1>6. n \in 0 .. n
  BY <1>1
<1>7. 0 .. n \subseteq T
  BY <1>1, <1>4, <1>5, InductTo
<1> QED  BY <1>2, <1>6, <1>7 DEF T

LEMMA RequestIs ==
    ASSUME NEW r \in Requests
    PROVE  /\ r.spec.name \in Words /\ r.spec.fields \in Seq(Raws \cup {""})
           /\ r.out \in Seq(Words) /\ r.pattern \in Seq(Words) /\ r.overwrite \in BOOLEAN
<1>1. r \in RequestType
  BY PutAssumption
<1> QED  BY <1>1 DEF RequestType

LEMMA SpecFileType ==
    ASSUME NEW r \in Requests
    PROVE  SpecFile(r) \in Seq(Words)
<1>1. <<r.spec.name>> \in Seq(Words)
  BY RequestIs, OneName
<1>2. Joined(Cwd, <<r.spec.name>>) \in Seq(Words)
  BY <1>1, JoinedType, PutAssumption
<1> QED  BY <1>2, RealType DEF SpecFile

TreeType(t) == t \in [DOMAIN t -> FileType]

LEMMA RawsType ==
    ASSUME TreeType(tree), NEW r \in Requests
    PROVE  RawChannels(r) \in Seq(Raws)
<1>1. ASSUME NEW fields \in Seq(Raws \cup {""}) PROVE SplitChannels(fields) \in Seq(Raws)
  <2>1. SplitChannels(fields) \in Seq(Raws \ {""})
    BY KeptType DEF SplitChannels
  <2> QED  BY <2>1, SeqMonotone
<1>2. CASE SpecFile(r) \notin DOMAIN tree \/ tree[SpecFile(r)] = Directory
  BY <1>1, <1>2, RequestIs DEF RawChannels
<1>3. CASE /\ SpecFile(r) \in DOMAIN tree /\ tree[SpecFile(r)] # Directory
           /\ tree[SpecFile(r)].kind = "text"
  <2>1. PICK f \in FileType : f = tree[SpecFile(r)]
    BY <1>3 DEF TreeType
  <2>2. f.fields \in Seq(Raws \cup {""})
    <3>1. f.kind = "text"
      BY <1>3, <2>1
    <3>2. /\ f # [kind |-> "base"] /\ f # [kind |-> "foreign"] /\ f # [kind |-> "directory"]
          /\ f \notin [kind : {"apk", "temp"}, channel : Channels]
      BY <3>1
    <3>3. f \in [kind : {"text"}, fields : Seq(Raws \cup {""})]
      BY <3>2, Zenon DEF FileType, Directory
    <3> QED  BY <3>3
  <2> QED  BY <1>1, <1>3, <2>1, <2>2 DEF RawChannels
<1>4. CASE /\ SpecFile(r) \in DOMAIN tree /\ tree[SpecFile(r)] # Directory
           /\ tree[SpecFile(r)].kind # "text"
  BY <1>4, PutAssumption DEF RawChannels
<1> QED  BY <1>2, <1>3, <1>4

LEMMA OutputType ==
    ASSUME NEW r \in Requests
    PROVE  OutputDir(r) \in Seq(Words) /\ OutputPattern(r) \in Seq(Words)
<1>1. r.out \in Seq(Words) /\ r.pattern \in Seq(Words)
  BY RequestIs
<1>2. Front(r.out) \in Seq(Words)
  BY <1>1, FrontIs
<1>3. OutputDir(r) \in Seq(Words)
  BY <1>1, <1>2 DEF OutputDir
<1>4. CASE ExactOutput(r)
  <2>1. Last(r.out) \in Words
    BY <1>4, PutAssumption DEF ExactOutput
  <2>2. <<Last(r.out)>> \in Seq(Words)
    BY <2>1, OneName
  <2> QED  BY <1>3, <1>4, <2>2 DEF OutputPattern
<1>5. CASE ~ExactOutput(r)
  <2>1. <<DefaultName>> \in Seq(Words)
    BY PlanAssumption, OneName
  <2> QED  BY <1>1, <1>3, <1>5, <2>1 DEF OutputPattern
<1> QED  BY <1>4, <1>5

LEMMA PlannedType ==
    ASSUME NEW dir \in Seq(Words), NEW pattern \in Seq(Words), NEW channel \in Channels
    PROVE  PlannedPath(dir, pattern, channel) \in Seq(Words)
<1>1. ASSUME NEW w \in Words PROVE Segment(w, channel) \in Words
  <2>1. w \in DOMAIN Fill => Fill[w][channel] \in Words
    <3> SUFFICES ASSUME w \in DOMAIN Fill PROVE Fill[w][channel] \in Words
      OBVIOUS
    <3>1. Fill[w] \in [Channels -> Words]
      BY PlanAssumption
    <3> QED  BY <3>1
  <2> QED  BY <2>1 DEF Segment
<1>2. PICK n \in Nat : n = Len(pattern) /\ DOMAIN pattern = 1 .. n
  BY LenProperties
<1>3. \A k \in 1 .. n : pattern[k] \in Words
  BY <1>2, ElementOfSeq
<1>4. Expanded(pattern, channel) \in [1 .. n -> Words]
  BY <1>1, <1>2, <1>3 DEF Expanded
<1>5. Expanded(pattern, channel) \in Seq(Words)
  BY <1>4
<1> QED  BY <1>5, JoinedType DEF PlannedPath

LEMMA PathsType ==
    ASSUME NEW r \in Requests, NEW channels \in Seq(Channels)
    PROVE  /\ PathsFor(r, channels) \in Seq(Seq(Words))
           /\ DOMAIN PathsFor(r, channels) = DOMAIN channels
<1>1. PICK n \in Nat : n = Len(channels) /\ DOMAIN channels = 1 .. n
  BY LenProperties
<1>2. \A k \in 1 .. n : channels[k] \in Channels
  BY <1>1, ElementOfSeq
<1>3. PathsFor(r, channels) \in [1 .. n -> Seq(Words)]
  BY <1>1, <1>2, OutputType, PlannedType DEF PathsFor
<1> QED  BY <1>1, <1>3

-----------------------------------------------------------------------------
(* Trees, where temporary files do not count.                               *)

(* The directories on the way to a path, and the path, were made.           *)
Adds(t, u, dir) ==
    /\ \A p \in Seq(Words) : p \in DOMAIN u <=> p \in DOMAIN t \/ p \in Prefixes(Real(dir))
    /\ \A p \in Seq(Words) : p \in DOMAIN t => u[p] = t[p]
    /\ \A p \in Prefixes(Real(dir)) : p \notin DOMAIN t => u[p] = Directory

(* A file was put at a path.                                                *)
Puts(t, u, path, file) ==
    /\ \A p \in Seq(Words) : p \in DOMAIN u <=> p \in DOMAIN t \/ p = path
    /\ \A p \in Seq(Words) : p \in DOMAIN t /\ p # path => u[p] = t[p]
    /\ u[path] = file

Alike(t, u) ==
    /\ \A p \in Seq(Words) : p \in DOMAIN u <=> p \in DOMAIN t
    /\ \A p \in Seq(Words) : p \in DOMAIN t => u[p] = t[p]

(* A path is a directory, like everything on the way to it.                 *)
Stands(t, path) == \A p \in Prefixes(Real(path)) : p \in DOMAIN t /\ t[p] = Directory

LEMMA NotTemp ==
    ASSUME NEW d \in Seq(Words), NEW i \in DOMAIN TempNames
    PROVE  Append(d, TempNames[i]) \notin Seq(Words)
<1> DEFINE x == TempNames[i]
<1>1. x \notin Words
  BY PutAssumption
<1> HIDE DEF x
<1>2. d \in Seq(Words \cup {x})
  BY SeqMonotone
<1>3. /\ Len(d) \in Nat /\ Len(Append(d, x)) = Len(d) + 1
      /\ Append(d, x)[Len(d) + 1] = x
  BY <1>2, AppendProperties, LenProperties
<1>4. ASSUME Append(d, x) \in Seq(Words) PROVE FALSE
  <2>1. Len(d) + 1 \in 1 .. Len(Append(d, x))
    BY <1>3
  <2>2. Append(d, x)[Len(d) + 1] \in Words
    BY <1>4, <2>1, ElementOfSeq
  <2> QED  BY <1>1, <1>3, <2>2
<1> QED  BY <1>4 DEF x

LEMMA WithDirectoryIs ==
    ASSUME NEW t, TreeType(t), NEW dir \in Seq(Words)
    PROVE  /\ DOMAIN WithDirectory(t, dir) = DOMAIN t \cup Prefixes(Real(dir))
           /\ \A p \in DOMAIN t : WithDirectory(t, dir)[p] = t[p]
           /\ \A p \in Prefixes(Real(dir)) \ DOMAIN t : WithDirectory(t, dir)[p] = Directory
           /\ TreeType(WithDirectory(t, dir))
           /\ Adds(t, WithDirectory(t, dir), dir)
<1>1. PICK u : u = WithDirectory(t, dir)
  OBVIOUS
<1>2. /\ DOMAIN u = DOMAIN t \cup Prefixes(Real(dir))
      /\ \A p \in DOMAIN t : u[p] = t[p]
      /\ \A p \in Prefixes(Real(dir)) \ DOMAIN t : u[p] = Directory
      /\ u = [p \in DOMAIN u |-> u[p]]
  BY <1>1 DEF WithDirectory
<1>3. Directory \in FileType
  BY DEF FileType
<1>4. TreeType(u)
  BY <1>2, <1>3 DEF TreeType
<1>5. Adds(t, u, dir)
  BY <1>2 DEF Adds
<1> QED  BY <1>1, <1>2, <1>4, <1>5

LEMMA MadeStands ==
    ASSUME NEW t, NEW u, NEW dir \in Seq(Words), CanMake(t, dir), Adds(t, u, dir)
    PROVE  Stands(u, dir)
<1> SUFFICES ASSUME NEW p \in Prefixes(Real(dir)) PROVE p \in DOMAIN u /\ u[p] = Directory
  BY DEF Stands
<1>1. p \in Seq(Words)
  BY RealType, PrefixesAre
<1> QED  BY <1>1 DEF Adds, CanMake

(* What stands stays: no step replaces or removes a directory.              *)
LEMMA StaysStanding ==
    ASSUME NEW t, NEW u, NEW dir \in Seq(Words), Stands(t, dir),
           \A p \in Seq(Words) : p \in DOMAIN t /\ t[p] = Directory =>
              p \in DOMAIN u /\ u[p] = Directory
    PROVE  Stands(u, dir)
<1> SUFFICES ASSUME NEW p \in Prefixes(Real(dir)) PROVE p \in DOMAIN u /\ u[p] = Directory
  BY DEF Stands
<1>1. p \in Seq(Words)
  BY RealType, PrefixesAre
<1> QED  BY <1>1 DEF Stands

-----------------------------------------------------------------------------
(* The invariant behind every theorem: types, what the checks of a plan     *)
(* have established, and where each job is.                                 *)

RunType ==
    [phase : {"run"}, request : Requests, dir : Seq(Words), raws : Seq(Raws),
     channels : Seq(Channels), paths : Seq(Seq(Words)), next : Nat \ {0},
     open : SUBSET Nat, ok : SUBSET Nat, failed : SUBSET Nat]

EndType ==
    [request : Requests, raws : Seq(Raws), channels : Seq(Channels),
     paths : Seq(Seq(Words)), status : {"ok", "failed", "refused"}]

Planned(c) ==
    /\ DOMAIN c.paths = DOMAIN c.channels
    /\ c.channels = Normalized(c.raws)
    /\ ToSet(c.channels) \cap (BadNames \cup {""}) = {}
    /\ \A k \in DOMAIN c.paths : IsPrefix(c.dir, c.paths[k]) /\ c.paths[k] # Base
    /\ \A i, j \in DOMAIN c.paths : c.paths[i] = c.paths[j] => i = j

Counted(c) ==
    /\ c.open \cup c.ok \cup c.failed = 1 .. c.next - 1
    /\ c.next - 1 <= Len(c.paths)
    /\ c.open \cap (c.ok \cup c.failed) = {} /\ c.ok \cap c.failed = {}

Inv ==
    /\ TreeType(tree)
    /\ history \in Seq(EndType) /\ Len(history) <= MaxCalls
    /\ call # Idle =>
          call \in RunType /\ Len(history) < MaxCalls /\ Planned(call) /\ Counted(call)

(* The same command goes on.                                                *)
SameTask(c, d) ==
    /\ d.request = c.request /\ d.dir = c.dir /\ d.raws = c.raws
    /\ d.channels = c.channels /\ d.paths = c.paths

LEMMA IdleIs ==
    ASSUME Inv
    PROVE  /\ Idle.phase = "idle"
           /\ call.phase = "run" => call # Idle
           /\ call # Idle => call.phase = "run"
<1>1. Idle.phase = "idle"
  BY DEF Idle
<1>2. call # Idle => call.phase = "run"
  BY DEF Inv, RunType
<1> QED  BY <1>1, <1>2

LEMMA JobIs ==
    ASSUME Inv, call.phase = "run"
    PROVE  /\ call \in RunType /\ DOMAIN call.paths = 1 .. Len(call.paths)
           /\ Len(call.paths) \in Nat
           /\ call.open \cup call.ok \cup call.failed \subseteq DOMAIN call.paths
           /\ \A k \in DOMAIN call.paths :
                 /\ k \in Nat /\ call.paths[k] \in Seq(Words)
                 /\ call.channels[k] \in Channels /\ IsPrefix(call.dir, call.paths[k])
<1>1. call \in RunType /\ Planned(call) /\ Counted(call)
  BY IdleIs DEF Inv
<1>2. /\ call.paths \in Seq(Seq(Words)) /\ call.channels \in Seq(Channels)
      /\ call.next \in Nat \ {0}
  BY <1>1 DEF RunType
<1>3. DOMAIN call.paths = 1 .. Len(call.paths) /\ Len(call.paths) \in Nat
  BY <1>2, LenProperties
<1>4. 1 .. call.next - 1 \subseteq DOMAIN call.paths
  BY <1>1, <1>2, <1>3 DEF Counted
<1>5. ASSUME NEW k \in DOMAIN call.paths
      PROVE  /\ k \in Nat /\ call.paths[k] \in Seq(Words)
             /\ call.channels[k] \in Channels /\ IsPrefix(call.dir, call.paths[k])
  <2>1. k \in Nat /\ call.paths[k] \in Seq(Words)
    BY <1>2, <1>3, ElementOfSeq
  <2>2. k \in DOMAIN call.channels /\ IsPrefix(call.dir, call.paths[k])
    BY <1>1 DEF Planned
  <2>3. call.channels[k] \in Channels
    BY <1>2, <2>2, ElementOfSeq, LenProperties
  <2> QED  BY <2>1, <2>2, <2>3
<1> QED  BY <1>1, <1>3, <1>4, <1>5 DEF Counted

-----------------------------------------------------------------------------
(* What each action does.                                                   *)

LEMMA Appended ==
    ASSUME NEW A, NEW h \in Seq(A), NEW e \in A
    PROVE  /\ Append(h, e) \in Seq(A) /\ Len(h) \in Nat /\ Len(Append(h, e)) = Len(h) + 1
           /\ DOMAIN Append(h, e) = 1 .. Len(h) + 1 /\ DOMAIN h = 1 .. Len(h)
           /\ Append(h, e) # <<>> /\ Last(Append(h, e)) = e
           /\ \A k \in DOMAIN h : Append(h, e)[k] = h[k]
<1>1. PICK g \in Seq(A) : g = Append(h, e)
  BY AppendProperties
<1>2. /\ Len(h) \in Nat /\ Len(g) = Len(h) + 1
      /\ DOMAIN g = 1 .. Len(g) /\ DOMAIN h = 1 .. Len(h)
      /\ g[Len(h) + 1] = e /\ \A k \in 1 .. Len(h) : g[k] = h[k]
  BY <1>1, AppendProperties, LenProperties
<1>3. g # <<>>
  BY <1>2, EmptySeq
<1> QED  BY <1>1, <1>2, <1>3 DEF Last

LEMMA RefuseEarlyDoes ==
    ASSUME Inv, NEW r \in Requests, RefuseEarly(r)
    PROVE  /\ call = Idle /\ Len(history) < MaxCalls /\ UNCHANGED <<tree, call>>
           /\ ChannelsRefused(RawChannels(r)) \/ ~CanMake(tree, OutputDir(r))
           /\ \E e \in EndType :
                 e.status = "refused" /\ e.request = r /\ history' = Append(history, e)
<1> DEFINE e == [request |-> r, raws |-> RawChannels(r), channels |-> <<>>, paths |-> <<>>,
                 status |-> "refused"]
<1>1. RawChannels(r) \in Seq(Raws)
  BY RawsType DEF Inv
<1>2. <<>> \in Seq(Channels) /\ <<>> \in Seq(Seq(Words))
  OBVIOUS
<1>3. e \in EndType /\ e.status = "refused" /\ e.request = r
  BY <1>1, <1>2 DEF EndType
<1>4. history' = Append(history, e)
  BY DEF RefuseEarly, Ended
<1> HIDE DEF e
<1> QED  BY <1>3, <1>4 DEF RefuseEarly, MayBegin

(* What the checks of a plan let pass.                                      *)
Checked(r, raws, paths) ==
    /\ ~ChannelsRefused(raws)
    /\ ~PatternRefused(OutputPattern(r), Normalized(raws))
    /\ ~Escapes(OutputDir(r), paths) /\ ~HitsBase(paths, Base) /\ ~Collides(paths)

LEMMA PlanDoes ==
    ASSUME Inv, NEW r \in Requests, Plan(r)
    PROVE  /\ call = Idle /\ Len(history) < MaxCalls
           /\ OutputDir(r) \in Seq(Words) /\ RawChannels(r) \in Seq(Raws)
           /\ CanMake(tree, OutputDir(r)) /\ tree' = WithDirectory(tree, OutputDir(r))
           /\ TreeType(tree') /\ Adds(tree, tree', OutputDir(r))
           /\ \/ /\ UNCHANGED call
                 /\ \/ ~Checked(r, RawChannels(r), PathsFor(r, Normalized(RawChannels(r))))
                    \/ Occupied(tree', PathsFor(r, Normalized(RawChannels(r))), r.overwrite)
                 /\ \E e \in EndType :
                       e.status = "refused" /\ e.request = r /\ history' = Append(history, e)
              \/ /\ UNCHANGED history
                 /\ call' \in RunType /\ Planned(call') /\ Counted(call')
                 /\ call'.request = r /\ call'.dir = OutputDir(r)
                 /\ call'.raws = RawChannels(r) /\ call'.channels = Normalized(RawChannels(r))
                 /\ call'.paths = PathsFor(r, call'.channels)
                 /\ call'.next = 1 /\ call'.open = {} /\ call'.ok = {} /\ call'.failed = {}
                 /\ Checked(r, call'.raws, call'.paths)
                 /\ ~Occupied(tree', call'.paths, r.overwrite)
<1> DEFINE raws == RawChannels(r)
           channels == Normalized(raws)
           paths == PathsFor(r, channels)
           dir == OutputDir(r)
           c == [phase |-> "run", request |-> r, dir |-> dir, raws |-> raws,
                 channels |-> channels, paths |-> paths,
                 next |-> 1, open |-> {}, ok |-> {}, failed |-> {}]
           e == [request |-> r, raws |-> raws, channels |-> channels, paths |-> paths,
                 status |-> "refused"]
<1>1. /\ raws \in Seq(Raws) /\ channels \in Seq(Channels) /\ dir \in Seq(Words)
      /\ paths \in Seq(Seq(Words)) /\ DOMAIN paths = DOMAIN channels
  <2>1. raws \in Seq(Raws) /\ dir \in Seq(Words)
    BY RawsType, OutputType DEF Inv
  <2>2. channels \in Seq(Channels)
    BY <2>1, NormalizedIs
  <2> QED  BY <2>1, <2>2, PathsType
<1>2. /\ call = Idle /\ Len(history) < MaxCalls /\ ~ChannelsRefused(raws)
      /\ CanMake(tree, dir) /\ tree' = WithDirectory(tree, dir)
  BY DEF Plan, MayBegin
<1>3. TreeType(tree') /\ Adds(tree, tree', dir)
  BY <1>1, <1>2, WithDirectoryIs DEF Inv
<1>4. \/ /\ \/ PatternRefused(OutputPattern(r), channels)
            \/ PathsRefused(tree', Base, dir, paths, r.overwrite)
         /\ history' = Append(history, e) /\ UNCHANGED call
      \/ /\ ~PatternRefused(OutputPattern(r), channels)
         /\ ~PathsRefused(tree', Base, dir, paths, r.overwrite)
         /\ call' = c /\ UNCHANGED history
  BY DEF Plan, Ended
<1>5. e \in EndType /\ e.status = "refused" /\ e.request = r
  BY <1>1 DEF EndType
<1>6. CASE /\ \/ PatternRefused(OutputPattern(r), channels)
              \/ PathsRefused(tree', Base, dir, paths, r.overwrite)
           /\ history' = Append(history, e) /\ UNCHANGED call
  <2>1. \/ ~Checked(r, raws, paths)
        \/ Occupied(tree', paths, r.overwrite)
    BY <1>6 DEF Checked, PathsRefused
  <2> HIDE DEF e
  <2> QED  BY <1>1, <1>2, <1>3, <1>5, <1>6, <2>1
<1>7. CASE /\ ~PatternRefused(OutputPattern(r), channels)
           /\ ~PathsRefused(tree', Base, dir, paths, r.overwrite)
           /\ call' = c /\ UNCHANGED history
  <2>1. Checked(r, raws, paths) /\ ~Occupied(tree', paths, r.overwrite)
    BY <1>2, <1>7 DEF Checked, PathsRefused
  <2>2. /\ c.request = r /\ c.dir = dir /\ c.raws = raws /\ c.channels = channels
        /\ c.paths = paths /\ c.next = 1 /\ c.open = {} /\ c.ok = {} /\ c.failed = {}
    OBVIOUS
  <2>3. c \in RunType
    BY <1>1 DEF RunType
  <2>4. Planned(c)
    <3>1. ToSet(channels) \cap (BadNames \cup {""}) = {}
      <4>1. ToSet(channels) = {Trim[raw] : raw \in ToSet(raws)} \ {""}
        BY <1>1, NormalizedIs
      <4>2. \A raw \in ToSet(raws) : Trim[raw] \notin BadNames
        BY <1>2 DEF ChannelsRefused
      <4> HIDE DEF channels, raws
      <4> QED  BY <4>1, <4>2
    <3>2. \A k \in DOMAIN paths : IsPrefix(dir, paths[k]) /\ paths[k] # Base
      BY <2>1 DEF Checked, Escapes, WithinDir, HitsBase, ToSet
    <3>3. \A i, j \in DOMAIN paths : paths[i] = paths[j] => i = j
      BY <2>1 DEF Checked, Collides
    <3> HIDE DEF c, channels, paths, dir
    <3> QED  BY <1>1, <2>2, <3>1, <3>2, <3>3 DEF Planned, channels
  <2>5. Counted(c)
    <3>1. Len(paths) \in Nat
      BY <1>1, LenProperties
    <3> HIDE DEF c, paths
    <3> QED  BY <2>2, <3>1 DEF Counted
  <2> HIDE DEF c
  <2> QED  BY <1>1, <1>2, <1>3, <1>7, <2>1, <2>2, <2>3, <2>4, <2>5
<1> HIDE DEF c, e
<1> QED  BY <1>4, <1>6, <1>7

LEMMA TempPathIs ==
    ASSUME Inv, call.phase = "run", NEW i \in DOMAIN call.paths \cap DOMAIN TempNames
    PROVE  /\ Front(call.paths[i]) \in Seq(Words) /\ Real(Front(call.paths[i])) \in Seq(Words)
           /\ Real(call.paths[i]) \in Seq(Words)
           /\ TempPath(i) \notin Seq(Words)
<1>1. call.paths[i] \in Seq(Words)
  BY JobIs
<1>2. Front(call.paths[i]) \in Seq(Words)
  BY <1>1, FrontIs
<1>3. Real(Front(call.paths[i])) \in Seq(Words) /\ Real(call.paths[i]) \in Seq(Words)
  BY <1>1, <1>2, RealType
<1> QED  BY <1>2, <1>3, NotTemp DEF TempPath

LEMMA OpenTempDoes ==
    ASSUME Inv, OpenTemp
    PROVE  /\ call.phase = "run" /\ call # Idle /\ history' = history
           /\ call' \in RunType /\ SameTask(call, call') /\ Counted(call') /\ TreeType(tree')
           /\ \E i \in DOMAIN call.paths \cap DOMAIN TempNames :
                /\ i \notin call.open \cup call.ok \cup call.failed
                /\ call'.ok = call.ok
                /\ \/ /\ CanMake(tree, Front(call.paths[i]))
                      /\ tree' = [p \in DOMAIN WithDirectory(tree, Front(call.paths[i]))
                                         \cup {TempPath(i)} |->
                                    IF p = TempPath(i) THEN TempFile(call.channels[i])
                                    ELSE WithDirectory(tree, Front(call.paths[i]))[p]]
                      /\ Adds(tree, tree', Front(call.paths[i]))
                      /\ call'.open = call.open \cup {i} /\ call'.failed = call.failed
                   \/ /\ ~CanMake(tree, Front(call.paths[i]))
                      /\ UNCHANGED tree
                      /\ call'.open = call.open /\ call'.failed = call.failed \cup {i}
<1>1. call.phase = "run" /\ call # Idle /\ history' = history
  BY IdleIs DEF OpenTemp
<1>2. call \in RunType /\ Counted(call)
  BY <1>1 DEF Inv
<1>3. PICK i : i = call.next
  OBVIOUS
<1>4. i \in DOMAIN call.paths \cap DOMAIN TempNames
  BY <1>3 DEF OpenTemp
<1>5. i \in Nat /\ Len(call.paths) \in Nat /\ i <= Len(call.paths) /\ i # 0
  BY <1>1, <1>4, JobIs
<1>6. /\ i \notin call.open \cup call.ok \cup call.failed
      /\ 1 .. (i + 1) - 1 = (1 .. i - 1) \cup {i}
      /\ call.open \cup call.ok \cup call.failed = 1 .. i - 1
      /\ call.open \cap (call.ok \cup call.failed) = {} /\ call.ok \cap call.failed = {}
  <2>1. /\ call.open \cup call.ok \cup call.failed = 1 .. i - 1
        /\ call.open \cap (call.ok \cup call.failed) = {} /\ call.ok \cap call.failed = {}
    BY <1>2, <1>3 DEF Counted
  <2>2. i \notin 1 .. i - 1 /\ 1 .. (i + 1) - 1 = (1 .. i - 1) \cup {i}
    BY <1>5
  <2> QED  BY <2>1, <2>2
<1> DEFINE dir == Front(call.paths[i])
           made == WithDirectory(tree, dir)
<1>7. CASE /\ CanMake(tree, dir)
           /\ tree' = [p \in DOMAIN made \cup {TempPath(i)} |->
                         IF p = TempPath(i) THEN TempFile(call.channels[i]) ELSE made[p]]
           /\ call' = [call EXCEPT !.next = i + 1, !.open = @ \cup {i}]
  <2>1. PICK n \in Nat \ {0}, o \in SUBSET Nat : n = i + 1 /\ o = call.open \cup {i}
    <3>1. i + 1 \in Nat \ {0}
      BY <1>5
    <3>2. call.open \cup {i} \in SUBSET Nat
      BY <1>2, <1>5 DEF RunType
    <3> QED  BY <3>1, <3>2
  <2>2. call' = [call EXCEPT !.next = n, !.open = o]
    BY <1>7, <2>1
  <2>3. call' \in RunType
    BY <1>2, <2>2 DEF RunType
  <2>4. /\ SameTask(call, call') /\ call'.ok = call.ok /\ call'.failed = call.failed
        /\ call'.open = o /\ call'.next = n
    BY <1>2, <2>2 DEF RunType, SameTask
  <2>5. Counted(call')
    <3>1. n - 1 <= Len(call.paths) /\ call'.paths = call.paths
      BY <1>5, <2>1, <2>4 DEF SameTask
    <3>2. o \cup call.ok \cup call.failed = 1 .. n - 1
      BY <1>6, <2>1
    <3>3. o \cap (call.ok \cup call.failed) = {}
      BY <1>6, <2>1
    <3> QED  BY <1>6, <2>4, <3>1, <3>2, <3>3 DEF Counted
  <2>6. dir \in Seq(Words) /\ TempPath(i) \notin Seq(Words)
    BY <1>1, <1>4, TempPathIs
  <2>7. /\ TreeType(made) /\ Adds(tree, made, dir)
    BY <2>6, WithDirectoryIs DEF Inv
  <2>8. Adds(tree, tree', dir)
    <3>0. \A p \in Prefixes(Real(dir)) : p \in Seq(Words)
      BY <2>6, RealType, PrefixesAre
    <3> HIDE DEF dir, made
    <3>1. \A p \in Seq(Words) : /\ p \in DOMAIN tree' <=> p \in DOMAIN made
                                /\ p \in DOMAIN made => tree'[p] = made[p]
      BY <1>7, <2>6
    <3> QED  BY <2>7, <3>0, <3>1 DEF Adds
  <2>9. TreeType(tree')
    <3>1. TempFile(call.channels[i]) \in FileType
      <4>1. call.channels[i] \in Channels
        BY <1>1, <1>4, JobIs
      <4>2. TempFile(call.channels[i]) \in [kind : {"apk", "temp"}, channel : Channels]
        BY <4>1 DEF TempFile
      <4> QED  BY <4>2 DEF FileType
    <3> HIDE DEF made
    <3> QED  BY <1>7, <2>7, <3>1 DEF TreeType
  <2> HIDE DEF made
  <2> QED  BY <1>1, <1>4, <1>6, <1>7, <2>1, <2>3, <2>4, <2>5, <2>8, <2>9 DEF made
<1>8. CASE /\ ~CanMake(tree, dir) /\ UNCHANGED tree
           /\ call' = [call EXCEPT !.next = i + 1, !.failed = @ \cup {i}]
  <2>1. PICK n \in Nat \ {0}, o \in SUBSET Nat : n = i + 1 /\ o = call.failed \cup {i}
    <3>1. i + 1 \in Nat \ {0}
      BY <1>5
    <3>2. call.failed \cup {i} \in SUBSET Nat
      BY <1>2, <1>5 DEF RunType
    <3> QED  BY <3>1, <3>2
  <2>2. call' = [call EXCEPT !.next = n, !.failed = o]
    BY <1>8, <2>1
  <2>3. call' \in RunType
    BY <1>2, <2>2 DEF RunType
  <2>4. /\ SameTask(call, call') /\ call'.ok = call.ok /\ call'.open = call.open
        /\ call'.failed = o /\ call'.next = n
    BY <1>2, <2>2 DEF RunType, SameTask
  <2>5. Counted(call')
    <3>1. n - 1 <= Len(call.paths) /\ call'.paths = call.paths
      BY <1>5, <2>1, <2>4 DEF SameTask
    <3>2. call.open \cup call.ok \cup o = 1 .. n - 1
      BY <1>6, <2>1
    <3>3. call.open \cap (call.ok \cup o) = {} /\ call.ok \cap o = {}
      BY <1>6, <2>1
    <3> QED  BY <2>4, <3>1, <3>2, <3>3 DEF Counted
  <2>6. TreeType(tree')
    BY <1>8 DEF Inv
  <2> QED  BY <1>1, <1>4, <1>6, <1>8, <2>1, <2>3, <2>4, <2>5, <2>6
<1> QED  BY <1>3, <1>7, <1>8 DEF OpenTemp

LEMMA PublishDoes ==
    ASSUME Inv, NEW i \in DOMAIN TempNames, Publish(i)
    PROVE  /\ call.phase = "run" /\ call # Idle /\ history' = history
           /\ i \in DOMAIN call.paths /\ i \in call.open
           /\ call' \in RunType /\ SameTask(call, call') /\ Counted(call') /\ TreeType(tree')
           /\ call'.open = call.open \ {i}
           /\ \/ /\ CannotReplace(i)
                 /\ tree' = Restrict(tree, DOMAIN tree \ {TempPath(i)})
                 /\ Alike(tree, tree')
                 /\ call'.ok = call.ok /\ call'.failed = call.failed \cup {i}
              \/ /\ ~CannotReplace(i)
                 /\ tree' = [p \in (DOMAIN tree \ {TempPath(i)}) \cup {Real(call.paths[i])} |->
                               IF p = Real(call.paths[i]) THEN ApkFile(call.channels[i])
                               ELSE tree[p]]
                 /\ Puts(tree, tree', Real(call.paths[i]), ApkFile(call.channels[i]))
                 /\ call'.ok = call.ok \cup {i} /\ call'.failed = call.failed
<1>1. call.phase = "run" /\ call # Idle /\ history' = history /\ i \in call.open
  BY IdleIs DEF Publish
<1>2. call \in RunType /\ Counted(call)
  BY <1>1 DEF Inv
<1>3. i \in DOMAIN call.paths /\ i \in Nat /\ call.channels[i] \in Channels
  BY <1>1, JobIs
<1>4. TempPath(i) \notin Seq(Words) /\ Real(call.paths[i]) \in Seq(Words)
  BY <1>1, <1>3, TempPathIs
<1>5. PICK o \in SUBSET Nat : o = call.open \ {i}
  BY <1>2 DEF RunType
<1>6. CASE /\ CannotReplace(i)
           /\ tree' = Restrict(tree, DOMAIN tree \ {TempPath(i)})
           /\ call' = [call EXCEPT !.open = @ \ {i}, !.failed = @ \cup {i}]
  <2>1. PICK f \in SUBSET Nat : f = call.failed \cup {i}
    BY <1>2, <1>3 DEF RunType
  <2>2. call' = [call EXCEPT !.open = o, !.failed = f]
    BY <1>5, <1>6, <2>1
  <2>3. call' \in RunType
    BY <1>2, <2>2 DEF RunType
  <2>4. /\ SameTask(call, call') /\ call'.ok = call.ok /\ call'.next = call.next
        /\ call'.open = o /\ call'.failed = f
    BY <1>2, <2>2 DEF RunType, SameTask
  <2>5. Counted(call')
    <3>1. call'.paths = call.paths
      BY <2>4 DEF SameTask
    <3>2. /\ o \cup call.ok \cup f = call.open \cup call.ok \cup call.failed
          /\ o \cap (call.ok \cup f) = {} /\ call.ok \cap f = {}
      BY <1>1, <1>2, <1>5, <2>1 DEF Counted
    <3> QED  BY <1>2, <2>4, <3>1, <3>2 DEF Counted
  <2>6. TreeType(tree')
    BY <1>6 DEF Inv, TreeType, Restrict
  <2>7. Alike(tree, tree')
    <3>1. tree' = [p \in DOMAIN tree \ {TempPath(i)} |-> tree[p]]
      BY <1>6 DEF Restrict
    <3> QED  BY <1>4, <3>1 DEF Alike
  <2> QED  BY <1>1, <1>3, <1>5, <1>6, <2>1, <2>3, <2>4, <2>5, <2>6, <2>7
<1>7. CASE /\ ~CannotReplace(i)
           /\ tree' = [p \in (DOMAIN tree \ {TempPath(i)}) \cup {Real(call.paths[i])} |->
                         IF p = Real(call.paths[i]) THEN ApkFile(call.channels[i]) ELSE tree[p]]
           /\ call' = [call EXCEPT !.open = @ \ {i}, !.ok = @ \cup {i}]
  <2>1. PICK f \in SUBSET Nat : f = call.ok \cup {i}
    BY <1>2, <1>3 DEF RunType
  <2>2. call' = [call EXCEPT !.open = o, !.ok = f]
    BY <1>5, <1>7, <2>1
  <2>3. call' \in RunType
    BY <1>2, <2>2 DEF RunType
  <2>4. /\ SameTask(call, call') /\ call'.failed = call.failed /\ call'.next = call.next
        /\ call'.open = o /\ call'.ok = f
    BY <1>2, <2>2 DEF RunType, SameTask
  <2>5. Counted(call')
    <3>1. call'.paths = call.paths
      BY <2>4 DEF SameTask
    <3>2. /\ o \cup f \cup call.failed = call.open \cup call.ok \cup call.failed
          /\ o \cap (f \cup call.failed) = {} /\ f \cap call.failed = {}
      BY <1>1, <1>2, <1>5, <2>1 DEF Counted
    <3> QED  BY <1>2, <2>4, <3>1, <3>2 DEF Counted
  <2>6. TreeType(tree')
    <3>1. ApkFile(call.channels[i]) \in FileType
      <4>1. ApkFile(call.channels[i]) \in [kind : {"apk", "temp"}, channel : Channels]
        BY <1>3 DEF ApkFile
      <4> QED  BY <4>1 DEF FileType
    <3> QED  BY <1>7, <3>1 DEF Inv, TreeType
  <2>7. Puts(tree, tree', Real(call.paths[i]), ApkFile(call.channels[i]))
    <3> DEFINE q == Real(call.paths[i])
               file == ApkFile(call.channels[i])
    <3>1. tree' = [p \in (DOMAIN tree \ {TempPath(i)}) \cup {q} |->
                     IF p = q THEN file ELSE tree[p]]
      BY <1>7
    <3> HIDE DEF q, file
    <3>2. Puts(tree, tree', q, file)
      BY <1>4, <3>1 DEF Puts
    <3> QED  BY <3>2 DEF q, file
  <2> QED  BY <1>1, <1>3, <1>5, <1>7, <2>1, <2>3, <2>4, <2>5, <2>6, <2>7
<1> QED  BY <1>6, <1>7 DEF Publish

LEMMA ReturnDoes ==
    ASSUME Inv, Return
    PROVE  /\ call.phase = "run" /\ call # Idle /\ call' = Idle /\ UNCHANGED tree
           /\ call.ok \cup call.failed = DOMAIN call.paths
           /\ \E e \in EndType :
                /\ history' = Append(history, e)
                /\ e.request = call.request /\ e.raws = call.raws
                /\ e.channels = call.channels /\ e.paths = call.paths
                /\ e.status = IF call.failed = {} THEN "ok" ELSE "failed"
<1> DEFINE e == [request |-> call.request, raws |-> call.raws, channels |-> call.channels,
                 paths |-> call.paths, status |-> IF call.failed = {} THEN "ok" ELSE "failed"]
<1>1. call.phase = "run" /\ call # Idle /\ history' = Append(history, e)
  BY IdleIs DEF Return, Ended
<1>2. call \in RunType
  BY <1>1 DEF Inv
<1>3. /\ e \in EndType
      /\ e.request = call.request /\ e.raws = call.raws
      /\ e.channels = call.channels /\ e.paths = call.paths
      /\ e.status = IF call.failed = {} THEN "ok" ELSE "failed"
  BY <1>2 DEF EndType, RunType
<1> HIDE DEF e
<1> QED  BY <1>1, <1>3 DEF Return

LEMMA InvInit == Init => Inv
<1> SUFFICES ASSUME Init PROVE Inv
  OBVIOUS
<1>1. tree = Disk /\ call = Idle /\ history = <<>>
  BY DEF Init
<1>2. TreeType(tree)
  BY <1>1, PutAssumption DEF TreeType
<1>3. history \in Seq(EndType) /\ Len(history) = 0
  BY <1>1, EmptySeq
<1> QED  BY <1>1, <1>2, <1>3, PutAssumption DEF Inv

LEMMA InvStep == Inv /\ [Next]_vars => Inv'
<1> SUFFICES ASSUME Inv, [Next]_vars PROVE Inv'
  OBVIOUS
<1>1. ASSUME Len(history) < MaxCalls, NEW e \in EndType, history' = Append(history, e)
      PROVE  history' \in Seq(EndType) /\ Len(history') <= MaxCalls
  <2>1. /\ history' \in Seq(EndType) /\ Len(history') = Len(history) + 1 /\ Len(history) \in Nat
    BY <1>1, Appended DEF Inv
  <2> QED  BY <1>1, <2>1, PutAssumption
<1>2. ASSUME NEW r \in Requests, RefuseEarly(r) PROVE Inv'
  <2>1. history' \in Seq(EndType) /\ Len(history') <= MaxCalls
    BY <1>1, <1>2, RefuseEarlyDoes
  <2>2. TreeType(tree') /\ call' = Idle
    BY <1>2, RefuseEarlyDoes DEF Inv
  <2> QED  BY <2>1, <2>2 DEF Inv
<1>3. ASSUME NEW r \in Requests, Plan(r) PROVE Inv'
  <2>1. call = Idle /\ Len(history) < MaxCalls /\ TreeType(tree')
    BY <1>3, PlanDoes
  <2>2. CASE /\ UNCHANGED call
             /\ \E e \in EndType : history' = Append(history, e)
    <3>1. history' \in Seq(EndType) /\ Len(history') <= MaxCalls
      BY <1>1, <2>1, <2>2
    <3> QED  BY <2>1, <2>2, <3>1 DEF Inv
  <2>3. CASE UNCHANGED history /\ call' \in RunType /\ Planned(call') /\ Counted(call')
    BY <2>1, <2>3 DEF Inv
  <2> QED  BY <1>3, <2>2, <2>3, PlanDoes
<1>4. ASSUME SameTask(call, call'), Planned(call) PROVE Planned(call')
  BY <1>4 DEF SameTask, Planned
<1>5. ASSUME call # Idle, history' = history, TreeType(tree'),
             SameTask(call, call'), call' \in RunType, Counted(call')
      PROVE  Inv'
  BY <1>4, <1>5 DEF Inv
<1>6. CASE OpenTemp
  BY <1>5, <1>6, OpenTempDoes
<1>7. ASSUME NEW i \in DOMAIN TempNames, Publish(i) PROVE Inv'
  BY <1>5, <1>7, PublishDoes
<1>8. CASE Return
  <2>1. history' \in Seq(EndType) /\ Len(history') <= MaxCalls
    BY <1>1, <1>8, ReturnDoes DEF Inv
  <2>2. TreeType(tree') /\ call' = Idle
    BY <1>8, ReturnDoes DEF Inv
  <2> QED  BY <2>1, <2>2 DEF Inv
<1>9. CASE UNCHANGED vars
  BY <1>9 DEF vars, Inv
<1> QED  BY <1>2, <1>3, <1>6, <1>7, <1>8, <1>9 DEF Next

LEMMA InvAlways == Spec => []Inv
BY InvInit, InvStep, PTL DEF Spec

(* However commands follow each other, every job that was handed out is in  *)
(* flight or has reported once, and what PackFiles packs are names that     *)
(* normalizeChannels (files.go) let pass.                                   *)
THEOREM TypeCorrect == Spec => []TypeOK
<1>1. ASSUME Inv PROVE TypeOK
  <2>1. ASSUME NEW p \in DOMAIN tree PROVE tree[p].kind \in Kinds
    <3>1. PICK f \in FileType : f = tree[p]
      BY <1>1 DEF Inv, TreeType
    <3>2. CASE f \in {[kind |-> "base"], [kind |-> "foreign"], [kind |-> "directory"]}
      BY <3>1, <3>2 DEF Kinds
    <3>3. CASE f \in [kind : {"text"}, fields : Seq(Raws \cup {""})]
      BY <3>1, <3>3 DEF Kinds
    <3>4. CASE f \in [kind : {"apk", "temp"}, channel : Channels]
      BY <3>1, <3>4 DEF Kinds
    <3>5. \/ f \in {[kind |-> "base"], [kind |-> "foreign"], [kind |-> "directory"]}
          \/ f \in [kind : {"text"}, fields : Seq(Raws \cup {""})]
          \/ f \in [kind : {"apk", "temp"}, channel : Channels]
      BY Zenon DEF FileType, Directory
    <3> QED  BY <3>2, <3>3, <3>4, <3>5
  <2>2. ASSUME call.phase = "run"
        PROVE  /\ DOMAIN call.paths = DOMAIN call.channels
               /\ call.open \cup call.ok \cup call.failed = 1 .. call.next - 1
               /\ call.open \cap (call.ok \cup call.failed) = {}
               /\ call.ok \cap call.failed = {}
               /\ ToSet(call.channels) \cap (BadNames \cup {""}) = {}
    <3>1. Planned(call) /\ Counted(call)
      BY <1>1, <2>2, IdleIs DEF Inv
    <3> QED  BY <3>1 DEF Planned, Counted
  <2>3. Len(history) <= MaxCalls
    BY <1>1 DEF Inv
  <2> QED  BY <2>1, <2>2, <2>3 DEF TypeOK
<1> QED  BY <1>1, InvAlways, PTL

-----------------------------------------------------------------------------
(* The base.                                                                *)

(* The directories of the base are reached by one name: no link leads to    *)
(* one of them.                                                             *)
BaseByOneName == \A l \in DOMAIN Links : ~IsPrefix(Links[l], Base)

LEMMA BaseIsPath == Base \in Seq(Words)
BY PutAssumption

LEMMA OnlyBaseIsBase ==
    ASSUME BaseByOneName, NEW p \in Seq(Words), Real(p) = Base
    PROVE  p = Base
<1>1. CASE \A l \in DOMAIN Links : ~IsPrefix(l, p)
  BY <1>1, RealIs
<1>2. CASE \E l \in DOMAIN Links : IsPrefix(l, p)
  <2>1. PICK l \in DOMAIN Links : IsPrefix(l, p)
    BY <1>2
  <2>2. /\ Len(l) \in Nat /\ Len(l) <= Len(p) /\ Len(Links[l]) \in Nat
        /\ Len(Base) = Len(Links[l]) + (Len(p) - Len(l))
        /\ \A i \in 1 .. Len(Links[l]) : Base[i] = Links[l][i]
    BY <2>1, RealIs
  <2>3. Links[l] \in Seq(Words) /\ Len(p) \in Nat
    BY PlanAssumption, LenProperties
  <2>4. Len(Links[l]) <= Len(Base)
    BY <2>2, <2>3
  <2>5. IsPrefix(Links[l], Base)
    BY <2>2, <2>3, <2>4, BaseIsPath, PrefixIs
  <2> QED  BY <2>5 DEF BaseByOneName
<1> QED  BY <1>1, <1>2

BaseThere == Base \in DOMAIN tree /\ BaseUntouched

LEMMA BaseStep ==
    ASSUME BaseByOneName, Inv, BaseThere, [Next]_vars
    PROVE  BaseThere'
<1>1. ASSUME Base \in DOMAIN tree', tree'[Base] = tree[Base] PROVE BaseThere'
  BY <1>1 DEF BaseThere, BaseUntouched
<1>2. ASSUME NEW r \in Requests, RefuseEarly(r) PROVE BaseThere'
  BY <1>2, RefuseEarlyDoes DEF BaseThere, BaseUntouched
<1>3. ASSUME NEW dir, Adds(tree, tree', dir) PROVE BaseThere'
  BY <1>1, <1>3, BaseIsPath DEF BaseThere, Adds
<1>4. ASSUME NEW r \in Requests, Plan(r) PROVE BaseThere'
  BY <1>3, <1>4, PlanDoes
<1>5. CASE OpenTemp
  <2>1. CASE UNCHANGED tree
    BY <2>1 DEF BaseThere, BaseUntouched
  <2> QED  BY <1>3, <1>5, <2>1, OpenTempDoes
<1>6. ASSUME NEW i \in DOMAIN TempNames, Publish(i) PROVE BaseThere'
  <2>1. CASE Alike(tree, tree')
    BY <1>1, <2>1, BaseIsPath DEF BaseThere, Alike
  <2>2. CASE Puts(tree, tree', Real(call.paths[i]), ApkFile(call.channels[i]))
    <3>1. call.phase = "run" /\ call # Idle /\ i \in DOMAIN call.paths
      BY <1>6, PublishDoes
    <3>2. call.paths[i] \in Seq(Words) /\ call.paths[i] # Base
      BY <3>1, JobIs DEF Inv, Planned
    <3>3. Real(call.paths[i]) # Base
      BY <3>2, OnlyBaseIsBase
    <3> QED  BY <1>1, <2>2, <3>3, BaseIsPath DEF BaseThere, Puts
  <2> QED  BY <1>6, <2>1, <2>2, PublishDoes
<1>7. CASE Return
  BY <1>7, ReturnDoes DEF BaseThere, BaseUntouched
<1>8. CASE UNCHANGED vars
  BY <1>8 DEF vars, BaseThere, BaseUntouched
<1> QED  BY <1>2, <1>4, <1>5, <1>6, <1>7, <1>8 DEF Next

(* Where no link leads to a directory of the base, no command replaces the  *)
(* base (files.go, PackFiles: the planned path is compared with the base's, *)
(* both as they are spelled, so that a link is what can defeat it).         *)
THEOREM BaseSurvives ==
    ASSUME BaseByOneName
    PROVE  Spec => []BaseUntouched
<1>1. Init => BaseThere
  BY PutAssumption DEF Init, BaseThere, BaseUntouched
<1>2. Inv /\ BaseThere /\ [Next]_vars => BaseThere'
  BY BaseStep
<1>3. BaseThere => BaseUntouched
  BY DEF BaseThere
<1> QED  BY <1>1, <1>2, <1>3, InvAlways, PTL DEF Spec

-----------------------------------------------------------------------------
(* The output directory.                                                    *)

(* No output directory of a command has a link further down.                *)
LinksOutside ==
    \A r \in Requests : NoLinkBelow(r.out) /\ (Last(r.out) \in Apks => NoLinkBelow(Front(r.out)))

LEMMA OutputHasNoLink ==
    ASSUME LinksOutside, NEW r \in Requests
    PROVE  NoLinkBelow(OutputDir(r))
<1>1. CASE ExactOutput(r)
  BY <1>1 DEF OutputDir, ExactOutput, LinksOutside
<1>2. CASE ~ExactOutput(r)
  BY <1>2 DEF OutputDir, LinksOutside
<1> QED  BY <1>1, <1>2

(* The files of the jobs that reported success hold their channels, and     *)
(* what leads to the files of these jobs and of those in flight stands.     *)
Placed ==
    call.phase = "run" =>
        /\ NoLinkBelow(call.dir) /\ Stands(tree, call.dir)
        /\ \A k \in call.open \cup call.ok : Stands(tree, Front(call.paths[k]))
        /\ \A k \in call.ok : /\ Real(call.paths[k]) \in DOMAIN tree
                              /\ tree[Real(call.paths[k])] = ApkFile(call.channels[k])

(* Two artifacts of one command are two files.                              *)
LEMMA PathsApart ==
    ASSUME Inv, call.phase = "run", NoLinkBelow(call.dir),
           NEW i \in DOMAIN call.paths, NEW j \in DOMAIN call.paths, i # j
    PROVE  Real(call.paths[i]) # Real(call.paths[j])
<1>1. /\ call.paths[i] \in Seq(Words) /\ call.paths[j] \in Seq(Words)
      /\ IsPrefix(call.dir, call.paths[i]) /\ IsPrefix(call.dir, call.paths[j])
      /\ call.dir \in Seq(Words)
  BY JobIs DEF RunType
<1>2. call.paths[i] # call.paths[j]
  BY IdleIs DEF Inv, Planned
<1> QED  BY <1>1, <1>2, RealInjective

(* Directories that are made, and files put where no directory is, leave    *)
(* what stands standing.                                                    *)
LEMMA Standing ==
    ASSUME NEW t, NEW u, NEW dir \in Seq(Words), Stands(t, dir),
           \/ t = u
           \/ Alike(t, u)
           \/ \E d : Adds(t, u, d)
           \/ \E q, file : Puts(t, u, q, file) /\ ~IsDirectory(t, q)
    PROVE  Stands(u, dir)
<1>1. SUFFICES ASSUME NEW p \in Seq(Words), p \in DOMAIN t, t[p] = Directory
               PROVE  p \in DOMAIN u /\ u[p] = Directory
  BY StaysStanding
<1>2. CASE Alike(t, u)
  BY <1>1, <1>2 DEF Alike
<1>3. ASSUME NEW d, Adds(t, u, d) PROVE p \in DOMAIN u /\ u[p] = Directory
  BY <1>1, <1>3 DEF Adds
<1>4. ASSUME NEW q, NEW file, Puts(t, u, q, file), ~IsDirectory(t, q)
      PROVE  p \in DOMAIN u /\ u[p] = Directory
  BY <1>1, <1>4 DEF Puts, IsDirectory
<1> QED  BY <1>1, <1>2, <1>3, <1>4

LEMMA PlacedStep ==
    ASSUME LinksOutside, Inv, Placed, [Next]_vars
    PROVE  Placed'
<1>1. ASSUME NEW r \in Requests, RefuseEarly(r) PROVE Placed'
  BY <1>1, RefuseEarlyDoes, IdleIs DEF Placed
<1>2. ASSUME NEW r \in Requests, Plan(r) PROVE Placed'
  <2>1. CASE UNCHANGED call
    <3>1. call'.phase # "run"
      BY <1>2, <2>1, PlanDoes, IdleIs
    <3> QED  BY <3>1 DEF Placed
  <2>2. CASE call'.dir = OutputDir(r) /\ call'.open = {} /\ call'.ok = {}
    <3>1. Stands(tree', OutputDir(r)) /\ NoLinkBelow(OutputDir(r))
      BY <1>2, PlanDoes, MadeStands, OutputHasNoLink
    <3> QED  BY <2>2, <3>1 DEF Placed
  <2> QED  BY <1>2, <2>1, <2>2, PlanDoes
<1>3. CASE OpenTemp
  <2>1. /\ call.phase = "run" /\ SameTask(call, call') /\ call'.ok = call.ok
    BY <1>3, OpenTempDoes
  <2>2. PICK i \in DOMAIN call.paths \cap DOMAIN TempNames :
          \/ /\ CanMake(tree, Front(call.paths[i]))
             /\ Adds(tree, tree', Front(call.paths[i]))
             /\ call'.open = call.open \cup {i}
          \/ UNCHANGED tree /\ call'.open = call.open
    BY <1>3, OpenTempDoes
  <2>3. tree' = tree \/ \E d : Adds(tree, tree', d)
    BY <2>2
  <2>4. NoLinkBelow(call'.dir) /\ Stands(tree', call'.dir)
    <3>1. call.dir \in Seq(Words) /\ call'.dir = call.dir
      BY <2>1, JobIs DEF SameTask, RunType
    <3>2. NoLinkBelow(call.dir) /\ Stands(tree, call.dir)
      BY <2>1 DEF Placed
    <3> QED  BY <2>3, <3>1, <3>2, Standing
  <2>5. ASSUME NEW k \in call'.open \cup call'.ok PROVE Stands(tree', Front(call'.paths[k]))
    <3>1. k \in call.open \cup call.ok \/ k = i
      BY <2>1, <2>2
    <3>2. call'.paths = call.paths /\ k \in DOMAIN call.paths
      BY <2>1, <2>2, <3>1, JobIs DEF SameTask
    <3>3. Front(call.paths[k]) \in Seq(Words)
      BY <2>1, <3>2, JobIs, FrontIs
    <3>4. CASE k \in call.open \cup call.ok
      BY <2>1, <2>3, <3>2, <3>3, <3>4, Standing DEF Placed
    <3>5. CASE k \notin call.open \cup call.ok
      <4>1. k = i /\ CanMake(tree, Front(call.paths[i])) /\ Adds(tree, tree', Front(call.paths[i]))
        BY <2>1, <2>2, <3>1, <3>5
      <4> QED  BY <3>2, <3>3, <4>1, MadeStands
    <3> QED  BY <3>4, <3>5
  <2>6. ASSUME NEW k \in call'.ok
        PROVE  /\ Real(call'.paths[k]) \in DOMAIN tree'
               /\ tree'[Real(call'.paths[k])] = ApkFile(call'.channels[k])
    <3>1. /\ k \in call.ok /\ k \in DOMAIN call.paths
          /\ call'.paths[k] = call.paths[k] /\ call'.channels[k] = call.channels[k]
      BY <2>1, <2>6, JobIs DEF SameTask
    <3>2. Real(call.paths[k]) \in Seq(Words)
      BY <2>1, <3>1, JobIs, RealType
    <3>3. /\ Real(call.paths[k]) \in DOMAIN tree
          /\ tree[Real(call.paths[k])] = ApkFile(call.channels[k])
      BY <2>1, <3>1 DEF Placed
    <3> QED  BY <2>3, <3>1, <3>2, <3>3 DEF Adds
  <2> QED  BY <2>4, <2>5, <2>6 DEF Placed
<1>4. ASSUME NEW i \in DOMAIN TempNames, Publish(i) PROVE Placed'
  <2>1. /\ call.phase = "run" /\ SameTask(call, call') /\ call'.open = call.open \ {i}
        /\ i \in DOMAIN call.paths /\ i \in call.open
    BY <1>4, PublishDoes
  <2>2. /\ call.dir \in Seq(Words) /\ NoLinkBelow(call.dir) /\ Stands(tree, call.dir)
        /\ call'.dir = call.dir /\ call'.paths = call.paths /\ call'.channels = call.channels
    BY <2>1, JobIs DEF Placed, SameTask, RunType
  <2>3. \/ Alike(tree, tree') /\ call'.ok = call.ok
        \/ /\ ~IsDirectory(tree, Real(call.paths[i]))
           /\ Puts(tree, tree', Real(call.paths[i]), ApkFile(call.channels[i]))
           /\ call'.ok = call.ok \cup {i}
    BY <1>4, PublishDoes DEF CannotReplace
  <2>4. \/ Alike(tree, tree')
        \/ \E q, file : Puts(tree, tree', q, file) /\ ~IsDirectory(tree, q)
    BY <2>3
  <2>5. Stands(tree', call'.dir)
    BY <2>2, <2>4, Standing
  <2>6. ASSUME NEW k \in call'.open \cup call'.ok PROVE Stands(tree', Front(call'.paths[k]))
    <3>1. k \in call.open \cup call.ok
      BY <2>1, <2>3
    <3>2. k \in DOMAIN call.paths
      BY <2>1, <3>1, JobIs
    <3>3. Front(call.paths[k]) \in Seq(Words)
      BY <2>1, <3>2, JobIs, FrontIs
    <3>4. Stands(tree, Front(call.paths[k]))
      BY <2>1, <3>1 DEF Placed
    <3> QED  BY <2>2, <2>4, <3>3, <3>4, Standing
  <2>7. ASSUME NEW k \in call'.ok
        PROVE  /\ Real(call'.paths[k]) \in DOMAIN tree'
               /\ tree'[Real(call'.paths[k])] = ApkFile(call'.channels[k])
    <3>1. k \in DOMAIN call.paths /\ (k \in call.ok \/ k = i)
      BY <2>1, <2>3, JobIs
    <3>2. Real(call.paths[k]) \in Seq(Words)
      BY <2>1, <3>1, JobIs, RealType
    <3>3. CASE k \in call.ok
      <4>1. /\ Real(call.paths[k]) \in DOMAIN tree
            /\ tree[Real(call.paths[k])] = ApkFile(call.channels[k])
        BY <2>1, <3>3 DEF Placed
      <4>2. k # i
        BY <2>1, <3>3, IdleIs DEF Inv, Counted
      <4>3. Real(call.paths[k]) # Real(call.paths[i])
        BY <2>1, <2>2, <3>1, <4>2, PathsApart
      <4> QED  BY <2>2, <2>3, <3>2, <4>1, <4>3 DEF Alike, Puts
    <3>4. CASE k \notin call.ok
      BY <2>2, <2>3, <2>7, <3>1, <3>2, <3>4 DEF Puts
    <3> QED  BY <3>3, <3>4
  <2> QED  BY <2>2, <2>5, <2>6, <2>7 DEF Placed
<1>5. CASE Return
  <2>1. call'.phase # "run"
    BY <1>5, ReturnDoes, IdleIs
  <2> QED  BY <2>1 DEF Placed
<1>6. CASE UNCHANGED vars
  BY <1>6 DEF vars, Placed
<1> QED  BY <1>1, <1>2, <1>3, <1>4, <1>5, <1>6 DEF Next

LEMMA PlacedAlways ==
    ASSUME LinksOutside
    PROVE  Spec => []Placed
<1>1. Init => Placed
  <2> SUFFICES ASSUME Init PROVE Placed
    OBVIOUS
  <2>1. call.phase # "run"
    BY DEF Init, Idle
  <2> QED  BY <2>1 DEF Placed
<1>2. Inv /\ Placed /\ [Next]_vars => Placed'
  BY PlacedStep
<1> QED  BY <1>1, <1>2, InvAlways, PTL DEF Spec

(* A command has just succeeded only after Return.                          *)
LEMMA FreshStep ==
    ASSUME Inv, [Next]_vars, Fresh'
    PROVE  \/ UNCHANGED vars
           \/ /\ Return /\ call.failed = {}
              /\ Last(history').request = call.request /\ Last(history').raws = call.raws
              /\ Last(history').channels = call.channels /\ Last(history').paths = call.paths
<1>1. call' = Idle /\ Last(history').status = "ok"
  BY DEF Fresh, Idle
<1>2. ASSUME NEW r \in Requests, RefuseEarly(r) PROVE FALSE
  <2>1. PICK e \in EndType : e.status = "refused" /\ history' = Append(history, e)
    BY <1>2, RefuseEarlyDoes
  <2>2. Last(history') = e
    BY <2>1, Appended DEF Inv
  <2> QED  BY <1>1, <2>1, <2>2
<1>3. call' \notin RunType
  BY <1>1 DEF RunType, Idle
<1>4. ASSUME NEW r \in Requests, Plan(r) PROVE FALSE
  <2>1. PICK e \in EndType : e.status = "refused" /\ history' = Append(history, e)
    BY <1>3, <1>4, PlanDoes
  <2>2. Last(history') = e
    BY <2>1, Appended DEF Inv
  <2> QED  BY <1>1, <2>1, <2>2
<1>5. CASE OpenTemp
  BY <1>3, <1>5, OpenTempDoes
<1>6. ASSUME NEW i \in DOMAIN TempNames, Publish(i) PROVE FALSE
  BY <1>3, <1>6, PublishDoes
<1>7. CASE Return
  <2>1. PICK e \in EndType :
          /\ history' = Append(history, e)
          /\ e.request = call.request /\ e.raws = call.raws
          /\ e.channels = call.channels /\ e.paths = call.paths
          /\ e.status = IF call.failed = {} THEN "ok" ELSE "failed"
    BY <1>7, ReturnDoes
  <2>2. Last(history') = e
    BY <2>1, Appended DEF Inv
  <2>3. call.failed = {}
    BY <1>1, <2>1, <2>2
  <2> QED  BY <1>7, <2>1, <2>2, <2>3
<1> QED  BY <1>2, <1>4, <1>5, <1>6, <1>7 DEF Next

(* A command that succeeded has left, for each channel it was asked for and *)
(* in the order of first mention, a file with this channel: the check for   *)
(* equal paths in PackFiles (files.go) is enough for any pattern and names, *)
(* where the output directory has no link further down.                     *)
THEOREM ChannelsHaveFiles ==
    ASSUME LinksOutside
    PROVE  Spec => []EachChannelHasItsFile
<1>1. Init => EachChannelHasItsFile
  BY DEF Init, EachChannelHasItsFile, Fresh
<1>2. ASSUME Inv, Placed, EachChannelHasItsFile, [Next]_vars PROVE EachChannelHasItsFile'
  <2>1. SUFFICES ASSUME Fresh'
                 PROVE  LET h == Last(history')
                        IN  /\ ToSet(h.channels) = {Trim[raw] : raw \in ToSet(h.raws)} \ {""}
                            /\ \A i, j \in DOMAIN h.channels : i < j =>
                                  FirstMention(h.raws, h.channels[i])
                                     < FirstMention(h.raws, h.channels[j])
                            /\ \A k \in DOMAIN h.paths :
                                  /\ Real(h.paths[k]) \in DOMAIN tree'
                                  /\ tree'[Real(h.paths[k])] = ApkFile(h.channels[k])
    BY DEF EachChannelHasItsFile
  <2>2. CASE UNCHANGED vars
    <3>1. tree' = tree /\ history' = history /\ call' = call
      BY <2>2 DEF vars
    <3>2. Fresh
      BY <2>1, <3>1 DEF Fresh
    <3> QED  BY <1>2, <3>1, <3>2 DEF EachChannelHasItsFile
  <2>3. CASE /\ Return /\ call.failed = {}
             /\ Last(history').raws = call.raws
             /\ Last(history').channels = call.channels /\ Last(history').paths = call.paths
    <3>1. call.phase = "run" /\ tree' = tree /\ call.ok = DOMAIN call.paths
      BY <1>2, <2>3, ReturnDoes
    <3>2. call.raws \in Seq(Raws) /\ call.channels = Normalized(call.raws)
      BY <1>2, <3>1, IdleIs DEF Inv, Planned, RunType
    <3>3. /\ ToSet(call.channels) = {Trim[raw] : raw \in ToSet(call.raws)} \ {""}
          /\ \A i, j \in DOMAIN call.channels : i < j =>
                FirstMention(call.raws, call.channels[i])
                   < FirstMention(call.raws, call.channels[j])
      BY <3>2, NormalizedIs
    <3>4. \A k \in DOMAIN call.paths :
             /\ Real(call.paths[k]) \in DOMAIN tree
             /\ tree[Real(call.paths[k])] = ApkFile(call.channels[k])
      BY <1>2, <3>1 DEF Placed
    <3> QED  BY <2>3, <3>1, <3>3, <3>4
  <2> QED  BY <1>2, <2>1, <2>2, <2>3, FreshStep
<1>3. Inv /\ Placed /\ EachChannelHasItsFile /\ [Next]_vars => EachChannelHasItsFile'
  BY <1>2
<1> QED  BY <1>1, <1>3, InvAlways, PlacedAlways, PTL DEF Spec

-----------------------------------------------------------------------------
(* What a step touches.                                                     *)

LEMMA DirectoriesMade ==
    ASSUME NEW d \in Seq(Words), NEW q \in Seq(Words), NEW p \in Prefixes(q), IsPrefix(d, q)
    PROVE  IsStrictPrefix(d, p) \/ p \in Prefixes(d)
<1>1. p \in Seq(Words) /\ IsPrefix(p, q)
  BY PrefixesAre
<1>2. IsPrefix(d, p) \/ IsPrefix(p, d)
  BY <1>1, PrefixOrder
<1>3. IsPrefix(p, d) => p \in Prefixes(d)
  BY <1>1, PrefixesAre
<1>4. d = p => p \in Prefixes(d)
  BY <1>1, PrefixOrder, PrefixesAre
<1> QED  BY <1>2, <1>3, <1>4 DEF IsStrictPrefix

LEMMA BelowAppended ==
    ASSUME NEW d \in Seq(Words), NEW q \in Seq(Words), NEW x, IsPrefix(d, q)
    PROVE  IsStrictPrefix(d, Append(q, x))
<1> DEFINE A == Words \cup {x}
<1>1. PICK t \in Seq(A) : t = Append(q, x)
  BY SeqMonotone, AppendProperties
<1>2. d \in Seq(A) /\ q \in Seq(A)
  BY SeqMonotone
<1>3. /\ Len(t) = Len(q) + 1 /\ Len(q) \in Nat /\ Len(d) \in Nat
      /\ \A i \in 1 .. Len(q) : t[i] = q[i]
  BY <1>1, <1>2, AppendProperties, LenProperties
<1>4. Len(d) <= Len(q) /\ \A i \in 1 .. Len(d) : d[i] = q[i]
  BY PrefixIs
<1>5. Len(d) <= Len(t) /\ \A i \in 1 .. Len(d) : d[i] = t[i]
  BY <1>3, <1>4
<1>6. IsPrefix(d, t)
  BY <1>2, <1>5, PrefixIs
<1>7. d # t
  BY <1>3, <1>4
<1> QED  BY <1>1, <1>6, <1>7 DEF IsStrictPrefix

ConfinedStep ==
    Running.phase = "run" /\ Running.dir \notin ToSet(Running.paths) =>
        LET dir == Real(Running.dir)
        IN  \A p \in Changed :
               \/ IsStrictPrefix(dir, p)
               \/ p \in Prefixes(dir) /\ IsDirectory(tree', p)

LEMMA StepConfined ==
    ASSUME LinksOutside, Inv, Placed, [Next]_vars
    PROVE  ConfinedStep
<1>1. ASSUME UNCHANGED tree PROVE ConfinedStep
  <2>1. Changed = {}
    BY <1>1 DEF Changed
  <2> QED  BY <2>1 DEF ConfinedStep
<1>2. ASSUME NEW r \in Requests, RefuseEarly(r) PROVE ConfinedStep
  BY <1>1, <1>2, RefuseEarlyDoes
<1>3. ASSUME NEW r \in Requests, Plan(r) PROVE ConfinedStep
  <2>1. call.phase # "run" /\ Running = call'
    BY <1>3, PlanDoes, IdleIs DEF Running
  <2>2. CASE UNCHANGED call
    BY <2>1, <2>2 DEF ConfinedStep
  <2>3. CASE call'.dir = OutputDir(r)
    <3>1. OutputDir(r) \in Seq(Words) /\ tree' = WithDirectory(tree, OutputDir(r))
      BY <1>3, PlanDoes
    <3>2. ASSUME NEW p \in Changed
          PROVE  p \in Prefixes(Real(OutputDir(r))) /\ IsDirectory(tree', p)
      <4>1. PICK dir \in Seq(Words) : dir = OutputDir(r)
        BY <3>1
      <4>2. tree' = [q \in DOMAIN tree \cup Prefixes(Real(dir)) |->
                       IF q \in DOMAIN tree THEN tree[q] ELSE Directory]
        BY <3>1, <4>1 DEF WithDirectory
      <4>3. /\ DOMAIN tree' = DOMAIN tree \cup Prefixes(Real(dir))
            /\ \A q \in DOMAIN tree : tree'[q] = tree[q]
            /\ \A q \in Prefixes(Real(dir)) \ DOMAIN tree : tree'[q] = Directory
        BY <4>2
      <4> QED  BY <3>2, <4>1, <4>3 DEF Changed, IsDirectory
    <3> QED  BY <2>1, <2>3, <3>2 DEF ConfinedStep
  <2> QED  BY <1>3, <2>2, <2>3, PlanDoes
<1>4. ASSUME call.phase = "run", NEW i \in DOMAIN call.paths, call.dir \notin ToSet(call.paths)
      PROVE  /\ call.dir \in Seq(Words) /\ call.paths[i] \in Seq(Words)
             /\ Real(call.dir) \in Seq(Words)
             /\ Front(call.paths[i]) \in Seq(Words) /\ Real(Front(call.paths[i])) \in Seq(Words)
             /\ IsPrefix(Real(call.dir), Real(Front(call.paths[i])))
             /\ IsStrictPrefix(Real(call.dir), Real(call.paths[i]))
  <2>1. /\ call.dir \in Seq(Words) /\ call.paths[i] \in Seq(Words)
        /\ IsPrefix(call.dir, call.paths[i])
    BY <1>4, JobIs DEF RunType
  <2>2. NoLinkBelow(call.dir) /\ call.dir # call.paths[i]
    BY <1>4 DEF Placed, ToSet
  <2>3. Front(call.paths[i]) \in Seq(Words) /\ IsPrefix(call.dir, Front(call.paths[i]))
    BY <2>1, <2>2, FrontPrefix, FrontIs
  <2>4. IsPrefix(call.dir, call.dir)
    BY <2>1, PrefixOrder
  <2>5. IsPrefix(Real(call.dir), Real(Front(call.paths[i])))
    BY <2>1, <2>2, <2>3, <2>4, RealPrefix
  <2>6. IsPrefix(Real(call.dir), Real(call.paths[i]))
    BY <2>1, <2>2, <2>4, RealPrefix
  <2>7. Real(call.dir) # Real(call.paths[i])
    BY <2>1, <2>2, <2>4, RealInjective
  <2> QED  BY <2>1, <2>3, <2>5, <2>6, <2>7, RealType DEF IsStrictPrefix
<1>5. CASE OpenTemp
  <2>1. call.phase = "run" /\ Running = call
    BY <1>5, OpenTempDoes DEF Running
  <2>2. CASE UNCHANGED tree
    BY <1>1, <2>2
  <2>3. ASSUME NEW i \in DOMAIN call.paths, call.dir \notin ToSet(call.paths),
               CanMake(tree, Front(call.paths[i])),
               tree' = [p \in DOMAIN WithDirectory(tree, Front(call.paths[i]))
                                  \cup {TempPath(i)} |->
                             IF p = TempPath(i) THEN TempFile(call.channels[i])
                             ELSE WithDirectory(tree, Front(call.paths[i]))[p]],
               NEW p \in Changed
        PROVE  \/ IsStrictPrefix(Real(call.dir), p)
               \/ p \in Prefixes(Real(call.dir)) /\ IsDirectory(tree', p)
    <3> DEFINE dir == Front(call.paths[i])
    <3>1. /\ call.dir \in Seq(Words) /\ dir \in Seq(Words) /\ Real(dir) \in Seq(Words)
          /\ Real(call.dir) \in Seq(Words) /\ IsPrefix(Real(call.dir), Real(dir))
      BY <1>4, <2>1, <2>3
    <3>2. CASE p = TempPath(i)
      BY <3>1, <3>2, BelowAppended DEF TempPath
    <3>3. CASE p # TempPath(i)
      <4>1. PICK made : made = WithDirectory(tree, dir)
        OBVIOUS
      <4>2. /\ DOMAIN made = DOMAIN tree \cup Prefixes(Real(dir))
            /\ \A q \in DOMAIN tree : made[q] = tree[q]
            /\ \A q \in Prefixes(Real(dir)) \ DOMAIN tree : made[q] = Directory
        <5> HIDE DEF dir
        <5>1. made = [q \in DOMAIN tree \cup Prefixes(Real(dir)) |->
                        IF q \in DOMAIN tree THEN tree[q] ELSE Directory]
          BY <4>1 DEF WithDirectory
        <5> QED  BY <5>1
      <4>3. /\ p \in DOMAIN tree' <=> p \in DOMAIN made
            /\ p \in DOMAIN made => tree'[p] = made[p]
        BY <2>3, <3>3, <4>1
      <4>4. p \in Prefixes(Real(dir)) /\ IsDirectory(tree', p)
        BY <2>3, <4>2, <4>3 DEF Changed, IsDirectory
      <4> HIDE DEF dir
      <4> QED  BY <3>1, <4>4, DirectoriesMade
    <3> QED  BY <3>2, <3>3
  <2>4. ASSUME call.dir \notin ToSet(call.paths), ~UNCHANGED tree, NEW p \in Changed
        PROVE  \/ IsStrictPrefix(Real(call.dir), p)
               \/ p \in Prefixes(Real(call.dir)) /\ IsDirectory(tree', p)
    <3>1. PICK i \in DOMAIN call.paths \cap DOMAIN TempNames :
            /\ CanMake(tree, Front(call.paths[i]))
            /\ tree' = [q \in DOMAIN WithDirectory(tree, Front(call.paths[i]))
                                  \cup {TempPath(i)} |->
                             IF q = TempPath(i) THEN TempFile(call.channels[i])
                             ELSE WithDirectory(tree, Front(call.paths[i]))[q]]
      BY <1>5, <2>4, OpenTempDoes
    <3> QED  BY <2>3, <2>4, <3>1
  <2> QED  BY <2>1, <2>2, <2>4 DEF ConfinedStep
<1>6. ASSUME NEW i \in DOMAIN TempNames, Publish(i) PROVE ConfinedStep
  <2>1. call.phase = "run" /\ Running = call /\ i \in DOMAIN call.paths
    BY <1>6, PublishDoes DEF Running
  <2>2. ASSUME call.dir \notin ToSet(call.paths), NEW p \in Changed
        PROVE  IsStrictPrefix(Real(call.dir), p)
    <3>1. p = TempPath(i) \/ p = Real(call.paths[i])
      <4>1. CASE tree' = Restrict(tree, DOMAIN tree \ {TempPath(i)})
        <5>1. tree' = [q \in DOMAIN tree \ {TempPath(i)} |-> tree[q]]
          BY <4>1 DEF Restrict
        <5> QED  BY <2>2, <5>1 DEF Changed
      <4>2. CASE tree' = [q \in (DOMAIN tree \ {TempPath(i)}) \cup {Real(call.paths[i])} |->
                            IF q = Real(call.paths[i]) THEN ApkFile(call.channels[i])
                            ELSE tree[q]]
        BY <2>2, <4>2 DEF Changed
      <4> QED  BY <1>6, <4>1, <4>2, PublishDoes
    <3> QED  BY <1>4, <2>1, <2>2, <3>1, BelowAppended DEF TempPath
  <2> QED  BY <2>1, <2>2 DEF ConfinedStep
<1>7. CASE Return
  BY <1>1, <1>7, ReturnDoes
<1>8. CASE UNCHANGED vars
  BY <1>1, <1>8 DEF vars
<1> QED  BY <1>2, <1>3, <1>5, <1>6, <1>7, <1>8 DEF Next

(* A running command touches nothing outside its output directory, but for  *)
(* making that directory: withinDir (files.go) and the temporary files of   *)
(* atomicWrite keep to it, for any pattern and channel, where the output    *)
(* directory has no link further down.                                      *)
THEOREM StepsConfined ==
    ASSUME LinksOutside
    PROVE  Spec => Confined
<1>1. Inv /\ Placed /\ [Next]_vars => ConfinedStep
  BY StepConfined
<1> QED  BY <1>1, InvAlways, PlacedAlways, PTL DEF Spec, Confined, ConfinedStep

-----------------------------------------------------------------------------
(* What makes a job fail.                                                   *)

(* No step makes a directory of a file or a file of a directory, or removes *)
(* either.                                                                  *)
KindsKept(t, u) ==
    \A p \in Seq(Words) : p \in DOMAIN t => p \in DOMAIN u /\ (u[p] = Directory <=> t[p] = Directory)

LEMMA ApkIsFile ==
    ASSUME NEW c
    PROVE  ApkFile(c) # Directory
<1>1. ApkFile(c).kind = "apk" /\ Directory.kind = "directory"
  BY DEF ApkFile, Directory
<1> QED  BY <1>1

LEMMA KindsStep ==
    ASSUME Inv, [Next]_vars
    PROVE  KindsKept(tree, tree')
<1>1. ASSUME UNCHANGED tree PROVE KindsKept(tree, tree')
  BY <1>1 DEF KindsKept
<1>2. ASSUME NEW d, Adds(tree, tree', d) PROVE KindsKept(tree, tree')
  BY <1>2 DEF KindsKept, Adds
<1>3. ASSUME NEW r \in Requests, RefuseEarly(r) PROVE KindsKept(tree, tree')
  BY <1>1, <1>3, RefuseEarlyDoes
<1>4. ASSUME NEW r \in Requests, Plan(r) PROVE KindsKept(tree, tree')
  BY <1>2, <1>4, PlanDoes
<1>5. CASE OpenTemp
  BY <1>1, <1>2, <1>5, OpenTempDoes
<1>6. ASSUME NEW i \in DOMAIN TempNames, Publish(i) PROVE KindsKept(tree, tree')
  <2>1. CASE Alike(tree, tree')
    BY <2>1 DEF KindsKept, Alike
  <2>2. CASE /\ ~CannotReplace(i)
             /\ Puts(tree, tree', Real(call.paths[i]), ApkFile(call.channels[i]))
    <3>1. PICK q, file : q = Real(call.paths[i]) /\ file = ApkFile(call.channels[i])
      OBVIOUS
    <3>2. file # Directory /\ Puts(tree, tree', q, file) /\ ~IsDirectory(tree, q)
      BY <2>2, <3>1, ApkIsFile DEF CannotReplace
    <3> QED  BY <3>2 DEF KindsKept, Puts, IsDirectory
  <2> QED  BY <1>6, <2>1, <2>2, PublishDoes
<1>7. CASE Return
  BY <1>1, <1>7, ReturnDoes
<1>8. CASE UNCHANGED vars
  BY <1>1, <1>8 DEF vars
<1> QED  BY <1>3, <1>4, <1>5, <1>6, <1>7, <1>8 DEF Next

(* A path leads through another one.                                        *)
Nested(paths) == \E i, j \in DOMAIN paths : IsStrictPrefix(paths[i], paths[j])

(* A directory stands at a path, or a file on the way to it.                *)
Blamed(t, paths) ==
    \E i \in DOMAIN paths : IsDirectory(t, Real(paths[i])) \/ Blocked(t, paths[i])

LEMMA BlameStays ==
    ASSUME NEW t, NEW u, KindsKept(t, u), NEW paths \in Seq(Seq(Words)), Blamed(t, paths)
    PROVE  Blamed(u, paths)
<1>1. PICK i \in DOMAIN paths : IsDirectory(t, Real(paths[i])) \/ Blocked(t, paths[i])
  BY DEF Blamed
<1>2. paths[i] \in Seq(Words)
  BY ElementOfSeq, LenProperties
<1>3. Real(paths[i]) \in Seq(Words)
  BY <1>2, RealType
<1>4. CASE IsDirectory(t, Real(paths[i]))
  <2>1. IsDirectory(u, Real(paths[i]))
    BY <1>3, <1>4 DEF IsDirectory, KindsKept
  <2> QED  BY <2>1 DEF Blamed
<1>5. CASE Blocked(t, paths[i])
  <2>1. PICK p \in Prefixes(Real(paths[i])) \ {Real(paths[i])} : p \in DOMAIN t /\ t[p] # Directory
    BY <1>5 DEF Blocked
  <2>2. p \in Seq(Words)
    BY <1>3, <2>1, PrefixesAre
  <2>3. p \in DOMAIN u /\ u[p] # Directory
    BY <2>1, <2>2 DEF KindsKept
  <2>4. Blocked(u, paths[i])
    BY <2>1, <2>3 DEF Blocked
  <2> QED  BY <2>4 DEF Blamed
<1> QED  BY <1>1, <1>4, <1>5

(* Where jobs fail, why.                                                    *)
Accounted ==
    call.phase = "run" =>
        /\ call.request.overwrite /\ call.failed # {} => Blamed(tree, call.paths)
        /\ ~call.request.overwrite /\ ~Nested(call.paths) =>
              /\ call.failed = {}
              /\ \A k \in DOMAIN call.paths \ call.ok :
                    Real(call.paths[k]) \notin DOMAIN tree /\ ~Blocked(tree, call.paths[k])

(* A directory that cannot be made for a path.                              *)
LEMMA CannotMake ==
    ASSUME Inv, Placed, call.phase = "run", NEW i \in DOMAIN call.paths,
           ~CanMake(tree, Front(call.paths[i]))
    PROVE  IsDirectory(tree, Real(call.paths[i])) \/ Blocked(tree, call.paths[i])
<1>1. /\ call.dir \in Seq(Words) /\ call.paths[i] \in Seq(Words)
      /\ IsPrefix(call.dir, call.paths[i])
      /\ NoLinkBelow(call.dir) /\ Stands(tree, call.dir)
  BY JobIs DEF RunType, Placed
<1>2. CASE call.paths[i] = call.dir
  <2>1. Real(call.dir) \in Prefixes(Real(call.dir))
    BY <1>1, RealType, PrefixesAre, PrefixOrder
  <2> QED  BY <1>1, <1>2, <2>1 DEF Stands, IsDirectory
<1>3. CASE call.paths[i] # call.dir
  <2>1. Prefixes(Real(Front(call.paths[i])))
          = Prefixes(Real(call.paths[i])) \ {Real(call.paths[i])}
    BY <1>1, <1>3, OnTheWay
  <2> QED  BY <2>1 DEF CanMake, Blocked
<1> QED  BY <1>2, <1>3

(* The path of a job is not on the way to the path of another one.          *)
LEMMA NotOnTheWay ==
    ASSUME Inv, Placed, call.phase = "run", ~Nested(call.paths),
           NEW i \in DOMAIN call.paths, NEW j \in DOMAIN call.paths, i # j
    PROVE  Real(call.paths[i]) \notin Prefixes(Real(call.paths[j]))
<1> SUFFICES ASSUME Real(call.paths[i]) \in Prefixes(Real(call.paths[j])) PROVE FALSE
  OBVIOUS
<1>1. /\ call.dir \in Seq(Words)
      /\ call.paths[i] \in Seq(Words) /\ call.paths[j] \in Seq(Words)
      /\ IsPrefix(call.dir, call.paths[i]) /\ IsPrefix(call.dir, call.paths[j])
      /\ NoLinkBelow(call.dir)
  BY JobIs DEF RunType, Placed
<1>2. IsPrefix(Real(call.paths[i]), Real(call.paths[j]))
  BY <1>1, RealType, PrefixesAre
<1>3. IsPrefix(call.paths[i], call.paths[j])
  BY <1>1, <1>2, RealPrefix
<1>4. call.paths[i] # call.paths[j]
  BY IdleIs DEF Inv, Planned
<1> QED  BY <1>3, <1>4 DEF Nested, IsStrictPrefix

LEMMA AccountedStep ==
    ASSUME Inv, Placed, Accounted, [Next]_vars
    PROVE  Accounted'
<1>1. ASSUME call'.phase # "run" PROVE Accounted'
  BY <1>1 DEF Accounted
<1>2. KindsKept(tree, tree')
  BY KindsStep
<1>3. ASSUME NEW r \in Requests, RefuseEarly(r) PROVE Accounted'
  BY <1>1, <1>3, RefuseEarlyDoes, IdleIs
<1>4. ASSUME NEW r \in Requests, Plan(r) PROVE Accounted'
  <2>1. CASE UNCHANGED call
    BY <1>1, <1>4, <2>1, PlanDoes, IdleIs
  <2>2. CASE /\ call'.request = r /\ call'.failed = {}
             /\ ~Occupied(tree', call'.paths, r.overwrite)
    <3>1. ~r.overwrite => \A k \in DOMAIN call'.paths :
             Real(call'.paths[k]) \notin DOMAIN tree' /\ ~Blocked(tree', call'.paths[k])
      BY <2>2 DEF Occupied, Present
    <3> QED  BY <2>2, <3>1 DEF Accounted
  <2> QED  BY <1>4, <2>1, <2>2, PlanDoes
<1>5. ASSUME call.phase = "run" PROVE call.paths \in Seq(Seq(Words))
  BY <1>5, JobIs DEF RunType
<1>6. ASSUME call.phase = "run", SameTask(call, call'),
             call'.failed = call.failed \/ Blamed(tree, call.paths), call.request.overwrite
      PROVE  Accounted'
  <2>1. call'.failed # {} => Blamed(tree, call.paths)
    BY <1>6 DEF Accounted
  <2>2. call'.failed # {} => Blamed(tree', call.paths)
    BY <1>2, <1>5, <1>6, <2>1, BlameStays
  <2> QED  BY <1>6, <2>2 DEF Accounted, SameTask
<1>7. ASSUME call.phase = "run", SameTask(call, call'), Nested(call.paths),
             ~call.request.overwrite
      PROVE  Accounted'
  BY <1>7 DEF Accounted, SameTask
<1>8. ASSUME call.phase = "run", ~Nested(call.paths), ~call.request.overwrite,
             NEW k \in DOMAIN call.paths, k \notin call.ok
      PROVE  /\ call.failed = {} /\ Real(call.paths[k]) \in Seq(Words)
             /\ Real(call.paths[k]) \notin DOMAIN tree /\ ~Blocked(tree, call.paths[k])
             /\ CanMake(tree, Front(call.paths[k])) /\ ~IsDirectory(tree, Real(call.paths[k]))
             /\ call.paths[k] # call.dir
  <2>1. /\ call.failed = {}
        /\ Real(call.paths[k]) \notin DOMAIN tree /\ ~Blocked(tree, call.paths[k])
    BY <1>8 DEF Accounted
  <2>2. Real(call.paths[k]) \in Seq(Words)
    BY <1>8, JobIs, RealType
  <2>3. ~IsDirectory(tree, Real(call.paths[k]))
    BY <2>1 DEF IsDirectory
  <2>4. CanMake(tree, Front(call.paths[k]))
    BY <1>8, <2>1, <2>3, CannotMake
  <2>5. call.paths[k] # call.dir
    <3>1. call.dir \in Seq(Words) /\ Stands(tree, call.dir)
      BY <1>8, JobIs DEF RunType, Placed
    <3>2. Real(call.dir) \in Prefixes(Real(call.dir))
      BY <3>1, RealType, PrefixesAre, PrefixOrder
    <3> QED  BY <2>1, <3>1, <3>2 DEF Stands
  <2> QED  BY <2>1, <2>2, <2>3, <2>4, <2>5
<1>9. CASE OpenTemp
  <2>1. /\ call.phase = "run" /\ SameTask(call, call') /\ call'.ok = call.ok
    BY <1>9, OpenTempDoes
  <2>2. PICK i \in DOMAIN call.paths \cap DOMAIN TempNames :
          /\ i \notin call.open \cup call.ok \cup call.failed
          /\ \/ /\ Adds(tree, tree', Front(call.paths[i]))
                /\ call'.failed = call.failed
             \/ /\ ~CanMake(tree, Front(call.paths[i]))
                /\ call'.failed = call.failed \cup {i}
    BY <1>9, OpenTempDoes
  <2>3. CASE call.request.overwrite
    <3>1. ~CanMake(tree, Front(call.paths[i])) => Blamed(tree, call.paths)
      BY <2>1, CannotMake DEF Blamed
    <3> QED  BY <1>6, <2>1, <2>2, <2>3, <3>1
  <2>4. CASE ~call.request.overwrite /\ ~Nested(call.paths)
    <3>1. /\ Adds(tree, tree', Front(call.paths[i])) /\ call'.failed = {}
          /\ call.paths[i] # call.dir
      BY <1>8, <2>1, <2>2, <2>4
    <3>2. ASSUME NEW k \in DOMAIN call.paths, k \notin call.ok
          PROVE  Real(call.paths[k]) \notin DOMAIN tree' /\ ~Blocked(tree', call.paths[k])
      <4>1. /\ Real(call.paths[k]) \in Seq(Words)
            /\ Real(call.paths[k]) \notin DOMAIN tree /\ ~Blocked(tree, call.paths[k])
        BY <1>8, <2>1, <2>4, <3>2
      <4>2. Prefixes(Real(Front(call.paths[i])))
              = Prefixes(Real(call.paths[i])) \ {Real(call.paths[i])}
        BY <2>1, <3>1, JobIs, OnTheWay DEF RunType, Placed
      <4>3. Real(call.paths[k]) \notin Prefixes(Real(Front(call.paths[i])))
        BY <2>1, <2>4, <3>2, <4>2, NotOnTheWay
      <4>4. Real(call.paths[k]) \notin DOMAIN tree'
        BY <3>1, <4>1, <4>3 DEF Adds
      <4>5. ASSUME NEW p \in Prefixes(Real(call.paths[k])) \ {Real(call.paths[k])},
                   p \in DOMAIN tree'
            PROVE  tree'[p] = Directory
        <5>1. p \in Seq(Words)
          BY <4>1, <4>5, PrefixesAre
        <5>2. p \in DOMAIN tree => tree[p] = Directory
          BY <4>1 DEF Blocked
        <5> QED  BY <3>1, <4>5, <5>1, <5>2 DEF Adds
      <4> QED  BY <4>4, <4>5 DEF Blocked
    <3> QED  BY <2>1, <2>4, <3>1, <3>2 DEF Accounted, SameTask
  <2> QED  BY <1>7, <2>1, <2>3, <2>4
<1>10. ASSUME NEW i \in DOMAIN TempNames, Publish(i) PROVE Accounted'
  <2>1. /\ call.phase = "run" /\ SameTask(call, call') /\ i \in DOMAIN call.paths
        /\ i \in call.open
    BY <1>10, PublishDoes
  <2>2. \/ /\ CannotReplace(i) /\ call'.failed = call.failed \cup {i}
        \/ /\ Puts(tree, tree', Real(call.paths[i]), ApkFile(call.channels[i]))
           /\ call'.ok = call.ok \cup {i} /\ call'.failed = call.failed
    BY <1>10, PublishDoes
  <2>3. CASE call.request.overwrite
    <3>1. CannotReplace(i) => Blamed(tree, call.paths)
      BY <2>1, <2>3 DEF Blamed, CannotReplace, Occupied
    <3> QED  BY <1>6, <2>1, <2>2, <2>3, <3>1
  <2>4. CASE ~call.request.overwrite /\ ~Nested(call.paths)
    <3>1. i \notin call.ok
      BY <2>1, IdleIs DEF Inv, Counted
    <3>2. /\ call.failed = {} /\ Real(call.paths[i]) \in Seq(Words)
          /\ Real(call.paths[i]) \notin DOMAIN tree /\ ~Blocked(tree, call.paths[i])
          /\ ~IsDirectory(tree, Real(call.paths[i]))
      BY <1>8, <2>1, <2>4, <3>1
    <3>3. ~CannotReplace(i)
      <4>1. PICK path : path = call.paths[i]
        OBVIOUS
      <4>2. \A k \in DOMAIN <<path>> : <<path>>[k] = path
        OBVIOUS
      <4>3. ~Occupied(tree, <<path>>, call.request.overwrite)
        BY <3>2, <4>1, <4>2 DEF Occupied, Present
      <4> QED  BY <3>2, <4>1, <4>3 DEF CannotReplace
    <3>4. /\ Puts(tree, tree', Real(call.paths[i]), ApkFile(call.channels[i]))
          /\ call'.ok = call.ok \cup {i} /\ call'.failed = {}
      BY <2>2, <3>2, <3>3
    <3>5. ASSUME NEW k \in DOMAIN call.paths, k \notin call.ok \cup {i}
          PROVE  Real(call.paths[k]) \notin DOMAIN tree' /\ ~Blocked(tree', call.paths[k])
      <4>1. /\ Real(call.paths[k]) \in Seq(Words)
            /\ Real(call.paths[k]) \notin DOMAIN tree /\ ~Blocked(tree, call.paths[k])
        BY <1>8, <2>1, <2>4, <3>5
      <4>2. Real(call.paths[i]) \notin Prefixes(Real(call.paths[k]))
        BY <2>1, <2>4, <3>5, NotOnTheWay
      <4>3. Real(call.paths[k]) # Real(call.paths[i])
        BY <2>1, <3>5, PathsApart DEF Placed
      <4>4. Real(call.paths[k]) \notin DOMAIN tree'
        BY <3>4, <4>1, <4>3 DEF Puts
      <4>5. ASSUME NEW p \in Prefixes(Real(call.paths[k])) \ {Real(call.paths[k])},
                   p \in DOMAIN tree'
            PROVE  tree'[p] = Directory
        <5>1. p \in Seq(Words) /\ p # Real(call.paths[i])
          BY <4>1, <4>2, <4>5, PrefixesAre
        <5>2. p \in DOMAIN tree => tree[p] = Directory
          BY <4>1 DEF Blocked
        <5> QED  BY <3>4, <4>5, <5>1, <5>2 DEF Puts
      <4> QED  BY <4>4, <4>5 DEF Blocked
    <3> QED  BY <2>1, <2>4, <3>4, <3>5 DEF Accounted, SameTask
  <2> QED  BY <1>7, <2>1, <2>3, <2>4
<1>11. CASE Return
  BY <1>1, <1>11, ReturnDoes, IdleIs
<1>12. CASE UNCHANGED vars
  BY <1>12 DEF vars, Accounted
<1> QED  BY <1>3, <1>4, <1>9, <1>10, <1>11, <1>12 DEF Next

LEMMA AccountedAlways ==
    ASSUME LinksOutside
    PROVE  Spec => []Accounted
<1>1. Init => Accounted
  <2> SUFFICES ASSUME Init PROVE Accounted
    OBVIOUS
  <2>1. call.phase # "run"
    BY DEF Init, Idle
  <2> QED  BY <2>1 DEF Accounted
<1>2. Inv /\ Placed /\ Accounted /\ [Next]_vars => Accounted'
  BY AccountedStep
<1> QED  BY <1>1, <1>2, InvAlways, PlacedAlways, PTL DEF Spec

LEMMA EndingIs ==
    ASSUME Inv, NEW k \in DOMAIN history
    PROVE  history[k] \in EndType
BY ElementOfSeq, LenProperties DEF Inv

(* The command that ends in a step, if one does.                            *)
LEMMA HistoryStep ==
    ASSUME Inv, [Next]_vars
    PROVE  \/ history' = history
           \/ \E e \in EndType :
                /\ history' = Append(history, e)
                /\ \/ e.status = "refused"
                   \/ /\ call.phase = "run" /\ tree' = tree
                      /\ e.request = call.request /\ e.raws = call.raws
                      /\ e.channels = call.channels /\ e.paths = call.paths
                      /\ e.status = IF call.failed = {} THEN "ok" ELSE "failed"
<1>1. ASSUME NEW r \in Requests, RefuseEarly(r)
      PROVE  \E e \in EndType : history' = Append(history, e) /\ e.status = "refused"
  BY <1>1, RefuseEarlyDoes
<1>2. ASSUME NEW r \in Requests, Plan(r)
      PROVE  \/ history' = history
             \/ \E e \in EndType : history' = Append(history, e) /\ e.status = "refused"
  BY <1>2, PlanDoes
<1>3. CASE OpenTemp
  BY <1>3, OpenTempDoes
<1>4. ASSUME NEW i \in DOMAIN TempNames, Publish(i) PROVE history' = history
  BY <1>4, PublishDoes
<1>5. CASE Return
  BY <1>5, ReturnDoes
<1>6. CASE UNCHANGED vars
  BY <1>6 DEF vars
<1> QED  BY <1>1, <1>2, <1>3, <1>4, <1>5, <1>6 DEF Next

Explained(t, h) == Nested(h.paths) \/ (h.request.overwrite /\ Blamed(t, h.paths))

Failures(t, hist) == \A k \in DOMAIN hist : hist[k].status = "failed" => Explained(t, hist[k])

LEMMA FailuresAre ==
    /\ FailsOnlyObstructed <=> Failures(tree, history)
    /\ FailsOnlyObstructed' <=> Failures(tree', history')
BY DEF FailsOnlyObstructed, Failures, Obstructed, Explained, Nested, Blamed

LEMMA FailuresStep ==
    ASSUME Inv, Accounted, Failures(tree, history), [Next]_vars
    PROVE  Failures(tree', history')
<1>1. KindsKept(tree, tree')
  BY KindsStep
<1>2. ASSUME NEW k \in DOMAIN history, history[k].status = "failed"
      PROVE  Explained(tree', history[k])
  <2>1. PICK h \in EndType : h = history[k]
    BY EndingIs
  <2>2. h.paths \in Seq(Seq(Words)) /\ Explained(tree, h)
    BY <1>2, <2>1 DEF EndType, Failures
  <2>3. Explained(tree', h)
    BY <1>1, <2>2, BlameStays DEF Explained
  <2> QED  BY <2>1, <2>3
<1>3. CASE history' = history
  BY <1>2, <1>3 DEF Failures
<1>4. ASSUME NEW e \in EndType, history' = Append(history, e),
             \/ e.status = "refused"
             \/ /\ call.phase = "run" /\ tree' = tree
                /\ e.request = call.request /\ e.paths = call.paths
                /\ e.status = IF call.failed = {} THEN "ok" ELSE "failed"
      PROVE  Failures(tree', history')
  <2>1. e.status = "failed" => Explained(tree', e)
    <3>1. SUFFICES ASSUME e.status = "failed", call.phase = "run", tree' = tree,
                          e.request = call.request, e.paths = call.paths, call.failed # {}
                   PROVE  Explained(tree', e)
      BY <1>4
    <3>2. call.request.overwrite \in BOOLEAN
      <4>1. call.request \in Requests
        BY <3>1, JobIs DEF RunType
      <4> QED  BY <4>1, RequestIs
    <3>3. Nested(call.paths) \/ (call.request.overwrite /\ Blamed(tree, call.paths))
      BY <3>1, <3>2 DEF Accounted
    <3> QED  BY <3>1, <3>3 DEF Explained
  <2>2. /\ DOMAIN history' = 1 .. Len(history) + 1 /\ DOMAIN history = 1 .. Len(history)
        /\ Len(history) \in Nat /\ Last(history') = e /\ Len(history') = Len(history) + 1
        /\ \A k \in DOMAIN history : history'[k] = history[k]
    BY <1>4, Appended DEF Inv
  <2>3. ASSUME NEW k \in DOMAIN history', history'[k].status = "failed"
        PROVE  Explained(tree', history'[k])
    <3>1. k \in DOMAIN history \/ k = Len(history')
      BY <2>2
    <3>2. history'[Len(history')] = e
      BY <2>2 DEF Last
    <3>3. CASE k \in DOMAIN history
      BY <1>2, <2>2, <2>3, <3>3
    <3>4. CASE k = Len(history')
      BY <2>1, <2>3, <3>2, <3>4
    <3> QED  BY <3>1, <3>3, <3>4
  <2> QED  BY <2>3 DEF Failures
<1> QED  BY <1>3, <1>4, HistoryStep

(* Once PackFiles (files.go) has accepted a plan, jobs fail only where one  *)
(* artifact's path leads through another one's or, overwriting, where a     *)
(* directory stands at a path or a file on the way to it; for any patterns, *)
(* channels and earlier commands, where the output directory has no link    *)
(* further down.                                                            *)
THEOREM FailuresExplained ==
    ASSUME LinksOutside
    PROVE  Spec => []FailsOnlyObstructed
<1>1. Init => FailsOnlyObstructed
  BY DEF Init, FailsOnlyObstructed
<1>2. Inv /\ Accounted /\ FailsOnlyObstructed /\ [Next]_vars => FailsOnlyObstructed'
  BY FailuresAre, FailuresStep
<1> QED  BY <1>1, <1>2, InvAlways, AccountedAlways, PTL DEF Spec

-----------------------------------------------------------------------------
(* Retries.                                                                 *)

(* No artifact took the name under which the channel list is looked for.    *)
Unhit(h) == \A i \in DOMAIN h.paths : Real(h.paths[i]) # SpecFile(h.request)

(* Every artifact is where it was planned.                                  *)
Laid(t, h) ==
    \A k \in DOMAIN h.paths : /\ Real(h.paths[k]) \in DOMAIN t
                              /\ t[Real(h.paths[k])] = ApkFile(h.channels[k])
                              /\ Stands(t, Front(h.paths[k]))

(* The command would be planned again like this.                            *)
Replans(h) ==
    /\ h.raws = RawChannels(h.request)
    /\ h.channels = Normalized(h.raws) /\ h.paths = PathsFor(h.request, h.channels)
    /\ Checked(h.request, h.raws, h.paths)
    /\ Stands(tree, OutputDir(h.request))

(* The same channel list is read.                                           *)
ReadsAlike(t, u, file) ==
    IF file \notin DOMAIN t \/ t[file] = Directory
    THEN file \notin DOMAIN u \/ u[file] = Directory
    ELSE file \in DOMAIN u /\ u[file] = t[file]

LEMMA ReadsAlikeIs ==
    ASSUME NEW t, NEW u, NEW file \in Seq(Words),
           \/ t = u
           \/ Alike(t, u)
           \/ \E d : Adds(t, u, d)
           \/ \E q, f : Puts(t, u, q, f) /\ q # file
    PROVE  ReadsAlike(t, u, file)
<1>1. CASE Alike(t, u)
  BY <1>1 DEF Alike, ReadsAlike
<1>2. ASSUME NEW d, Adds(t, u, d) PROVE ReadsAlike(t, u, file)
  BY <1>2 DEF Adds, ReadsAlike
<1>3. ASSUME NEW q, NEW f, Puts(t, u, q, f), q # file PROVE ReadsAlike(t, u, file)
  BY <1>3 DEF Puts, ReadsAlike
<1>4. CASE t = u
  BY <1>4 DEF ReadsAlike
<1> QED  BY <1>1, <1>2, <1>3, <1>4

LEMMA RereadIs ==
    ASSUME NEW r, ReadsAlike(tree, tree', SpecFile(r))
    PROVE  /\ RawChannels(r)' = RawChannels(r)
           /\ OutputDir(r)' = OutputDir(r) /\ OutputPattern(r)' = OutputPattern(r)
<1>1. PICK file : file = SpecFile(r)
  OBVIOUS
<1>2. SpecFile(r)' = file
  BY <1>1 DEF SpecFile
<1>3. RawChannels(r)' = RawChannels(r)
  <2>1. CASE file \notin DOMAIN tree \/ tree[file] = Directory
    <3>1. file \notin DOMAIN tree' \/ tree'[file] = Directory
      BY <1>1, <2>1 DEF ReadsAlike
    <3> QED  BY <1>1, <1>2, <2>1, <3>1 DEF RawChannels
  <2>2. CASE ~(file \notin DOMAIN tree \/ tree[file] = Directory)
    <3>1. file \in DOMAIN tree' /\ tree'[file] = tree[file] /\ tree'[file] # Directory
      BY <1>1, <2>2 DEF ReadsAlike
    <3> QED  BY <1>1, <1>2, <2>2, <3>1 DEF RawChannels
  <2> QED  BY <2>1, <2>2
<1>4. ExactOutput(r)' <=> ExactOutput(r)
  BY <1>3 DEF ExactOutput
<1> QED  BY <1>3, <1>4 DEF OutputDir, OutputPattern

LEMMA ReplansSame ==
    ASSUME NEW r, ReadsAlike(tree, tree', SpecFile(r)), NEW channels, NEW raws, NEW paths
    PROVE  /\ PathsFor(r, channels)' = PathsFor(r, channels)
           /\ Checked(r, raws, paths)' <=> Checked(r, raws, paths)
<1>1. OutputDir(r)' = OutputDir(r) /\ OutputPattern(r)' = OutputPattern(r)
  BY RereadIs
<1>2. PathsFor(r, channels)' = PathsFor(r, channels)
  BY <1>1 DEF PathsFor
<1>3. Checked(r, raws, paths)' <=> Checked(r, raws, paths)
  BY <1>1 DEF Checked
<1> QED  BY <1>2, <1>3

LEMMA ReplansStays ==
    ASSUME NEW h, ReadsAlike(tree, tree', SpecFile(h.request)), KindsKept(tree, tree'),
           h.request \in Requests, Replans(h)
    PROVE  Replans(h)'
<1>1. /\ RawChannels(h.request)' = RawChannels(h.request)
      /\ OutputDir(h.request)' = OutputDir(h.request)
  BY RereadIs
<1>2. OutputDir(h.request) \in Seq(Words)
  BY OutputType
<1>3. Stands(tree', OutputDir(h.request))
  BY <1>2, StaysStanding DEF Replans, KindsKept
<1>4. /\ PathsFor(h.request, h.channels)' = PathsFor(h.request, h.channels)
      /\ Checked(h.request, h.raws, h.paths)' <=> Checked(h.request, h.raws, h.paths)
  BY ReplansSame
<1> QED  BY <1>1, <1>3, <1>4 DEF Replans

(* The command in progress was given before and succeeded.                  *)
Retried ==
    /\ call.phase = "run" /\ history # <<>>
    /\ Last(history).status = "ok" /\ Last(history).request = call.request
    /\ call.request.overwrite /\ Unhit(Last(history))

Replayed ==
    /\ call.phase = "run" /\ Unhit(call) => Replans(call)
    /\ Fresh => /\ Laid(tree, Last(history))
                /\ Unhit(Last(history)) => Replans(Last(history))
    /\ Retried => /\ call.raws = Last(history).raws
                  /\ call.channels = Last(history).channels
                  /\ call.paths = Last(history).paths
                  /\ call.failed = {} /\ Laid(tree, call)

LEMMA LaidStays ==
    ASSUME NEW h, h.paths \in Seq(Seq(Words)), NEW t, NEW u, Laid(t, h), KindsKept(t, u),
           \A k \in DOMAIN h.paths : u[Real(h.paths[k])] = t[Real(h.paths[k])]
    PROVE  Laid(u, h)
<1> SUFFICES ASSUME NEW k \in DOMAIN h.paths
             PROVE  /\ Real(h.paths[k]) \in DOMAIN u
                    /\ u[Real(h.paths[k])] = ApkFile(h.channels[k])
                    /\ Stands(u, Front(h.paths[k]))
  BY DEF Laid
<1>1. h.paths[k] \in Seq(Words)
  BY ElementOfSeq, LenProperties
<1>2. Real(h.paths[k]) \in Seq(Words) /\ Front(h.paths[k]) \in Seq(Words)
  BY <1>1, RealType, FrontIs
<1>3. Stands(u, Front(h.paths[k]))
  BY <1>2, StaysStanding DEF Laid, KindsKept
<1> QED  BY <1>2, <1>3 DEF Laid, KindsKept

LEMMA LastIs ==
    ASSUME Inv, history # <<>>
    PROVE  /\ Len(history) \in Nat \ {0} /\ Len(history) \in DOMAIN history
           /\ Last(history) = history[Len(history)] /\ Last(history) \in EndType
<1>1. Len(history) \in Nat \ {0} /\ DOMAIN history = 1 .. Len(history)
  BY LenProperties, EmptySeq DEF Inv
<1>2. Len(history) \in DOMAIN history
  BY <1>1
<1> QED  BY <1>1, <1>2, EndingIs DEF Last

(* What a command reads and plans when it was given before and succeeded.   *)
LEMMA PlannedAgain ==
    ASSUME Inv, Replayed, call = Idle, history # <<>>, Last(history).status = "ok",
           Unhit(Last(history)), NEW r, r = Last(history).request
    PROVE  /\ Laid(tree, Last(history))
           /\ Last(history).raws = RawChannels(r)
           /\ Last(history).channels = Normalized(RawChannels(r))
           /\ Last(history).paths = PathsFor(r, Normalized(RawChannels(r)))
           /\ Checked(r, RawChannels(r), PathsFor(r, Normalized(RawChannels(r))))
           /\ CanMake(tree, OutputDir(r))
<1>1. Fresh
  BY DEF Fresh
<1>2. Laid(tree, Last(history)) /\ Replans(Last(history))
  BY <1>1 DEF Replayed
<1>3. CanMake(tree, OutputDir(r))
  BY <1>2 DEF Replans, Stands, CanMake
<1> QED  BY <1>2, <1>3 DEF Replans

LEMMA PlansStep ==
    ASSUME Inv, Replayed, [Next]_vars, (call.phase = "run" /\ Unhit(call))'
    PROVE  Replans(call)'
<1>1. KindsKept(tree, tree')
  BY KindsStep
<1>2. ASSUME call.phase = "run", SameTask(call, call'),
             \/ tree = tree'
             \/ Alike(tree, tree')
             \/ \E d : Adds(tree, tree', d)
             \/ \E k \in DOMAIN call.paths : \E f : Puts(tree, tree', Real(call.paths[k]), f)
      PROVE  Replans(call)'
  <2>1. PICK c \in RunType : c = call
    BY <1>2, JobIs
  <2>2. c.request \in Requests
    BY DEF RunType
  <2>3. /\ call'.request = c.request /\ call'.raws = c.raws
        /\ call'.channels = c.channels /\ call'.paths = c.paths
    BY <1>2, <2>1 DEF SameTask
  <2>4. Unhit(c)
    <3>1. \A i \in DOMAIN call'.paths : Real(call'.paths[i]) # SpecFile(call'.request)
      BY DEF Unhit
    <3> QED  BY <2>3, <3>1 DEF Unhit
  <2>5. Replans(c)
    BY <1>2, <2>1, <2>4 DEF Replayed
  <2>6. \A k \in DOMAIN c.paths : Real(c.paths[k]) # SpecFile(c.request)
    BY <2>4 DEF Unhit
  <2>7. SpecFile(c.request) \in Seq(Words)
    BY <2>2, SpecFileType
  <2>8. ReadsAlike(tree, tree', SpecFile(c.request))
    BY <1>2, <2>1, <2>6, <2>7, ReadsAlikeIs
  <2>9. Replans(c)'
    BY <1>1, <2>2, <2>5, <2>8, ReplansStays
  <2> QED  BY <2>3, <2>9 DEF Replans
<1>3. ASSUME NEW r \in Requests, Plan(r) PROVE Replans(call)'
  <2>1. /\ call'.request = r /\ call'.raws = RawChannels(r)
        /\ call'.channels = Normalized(call'.raws) /\ call'.paths = PathsFor(r, call'.channels)
        /\ Checked(r, call'.raws, call'.paths)
        /\ CanMake(tree, OutputDir(r)) /\ Adds(tree, tree', OutputDir(r))
        /\ OutputDir(r) \in Seq(Words)
    <3>1. call' # call
      BY <1>3, PlanDoes, IdleIs
    <3> QED  BY <1>3, <3>1, PlanDoes
  <2>2. PICK c : c = call'
    OBVIOUS
  <2>3. ReadsAlike(tree, tree', SpecFile(r))
    BY <2>1, SpecFileType, ReadsAlikeIs
  <2>4. RawChannels(r)' = RawChannels(r) /\ OutputDir(r)' = OutputDir(r)
    BY <2>3, RereadIs
  <2>5. /\ PathsFor(r, c.channels)' = PathsFor(r, c.channels)
        /\ Checked(r, c.raws, c.paths)' <=> Checked(r, c.raws, c.paths)
    BY <2>3, ReplansSame
  <2>6. Stands(tree', OutputDir(r))
    BY <2>1, MadeStands
  <2>7. /\ c.request = r /\ c.raws = RawChannels(r)'
        /\ c.channels = Normalized(c.raws) /\ c.paths = PathsFor(r, c.channels)'
        /\ Checked(r, c.raws, c.paths)' /\ Stands(tree', OutputDir(r)')
    BY <2>1, <2>2, <2>4, <2>5, <2>6
  <2>8. Replans(c)'
    BY <2>7 DEF Replans
  <2> QED  BY <2>2, <2>8 DEF Replans
<1>4. ASSUME NEW r \in Requests, RefuseEarly(r) PROVE FALSE
  BY <1>4, RefuseEarlyDoes, IdleIs
<1>5. CASE OpenTemp
  BY <1>2, <1>5, OpenTempDoes
<1>6. ASSUME NEW i \in DOMAIN TempNames, Publish(i) PROVE Replans(call)'
  <2>1. /\ call.phase = "run" /\ SameTask(call, call') /\ i \in DOMAIN call.paths
        /\ \/ Alike(tree, tree')
           \/ Puts(tree, tree', Real(call.paths[i]), ApkFile(call.channels[i]))
    BY <1>6, PublishDoes
  <2> QED  BY <1>2, <2>1
<1>7. CASE Return
  BY <1>7, ReturnDoes, IdleIs
<1>8. CASE UNCHANGED vars
  <2>1. call.phase = "run" /\ SameTask(call, call') /\ tree = tree'
    BY <1>8 DEF vars, SameTask
  <2> QED  BY <1>2, <2>1
<1> QED  BY <1>3, <1>4, <1>5, <1>6, <1>7, <1>8 DEF Next

LEMMA EndsStep ==
    ASSUME Inv, Placed, Replayed, [Next]_vars, Fresh'
    PROVE  /\ Laid(tree', Last(history'))
           /\ Unhit(Last(history')) => Replans(Last(history))'
<1>1. CASE UNCHANGED vars
  <2>1. tree' = tree /\ history' = history /\ call' = call
    BY <1>1 DEF vars
  <2>2. Fresh
    BY <2>1 DEF Fresh
  <2>3. PICK h : h = Last(history)
    OBVIOUS
  <2>4. Laid(tree, h) /\ (Unhit(h) => Replans(h))
    BY <2>2, <2>3 DEF Replayed
  <2>5. ReadsAlike(tree, tree', SpecFile(h.request)) /\ KindsKept(tree, tree')
    BY <2>1, KindsStep DEF ReadsAlike
  <2>6. h.request \in Requests
    BY <2>2, <2>3, LastIs DEF Fresh, EndType
  <2>7. Unhit(h) => Replans(h)'
    BY <2>4, <2>5, <2>6, ReplansStays
  <2>8. h = Last(history')
    BY <2>1, <2>3
  <2> QED  BY <2>1, <2>4, <2>7, <2>8 DEF Replans
<1>2. CASE /\ Return /\ call.failed = {}
           /\ Last(history').request = call.request /\ Last(history').raws = call.raws
           /\ Last(history').channels = call.channels /\ Last(history').paths = call.paths
  <2>1. /\ call.phase = "run" /\ tree' = tree /\ call.ok = DOMAIN call.paths
        /\ call \in RunType
    BY <1>2, ReturnDoes, JobIs
  <2>2. PICK h : h = Last(history')
    OBVIOUS
  <2>3. PICK c \in RunType : c = call
    BY <2>1
  <2>4. /\ h.request = c.request /\ h.raws = c.raws /\ h.channels = c.channels
        /\ h.paths = c.paths
    BY <1>2, <2>2, <2>3
  <2>5. Laid(tree', h)
    BY <2>1, <2>3, <2>4 DEF Placed, Laid
  <2>6. ASSUME Unhit(h) PROVE Replans(h)'
    <3>1. Unhit(c)
      BY <2>4, <2>6 DEF Unhit
    <3>2. Replans(c)
      BY <2>1, <2>3, <3>1 DEF Replayed
    <3>3. Replans(h)
      BY <2>4, <3>2 DEF Replans
    <3>4. ReadsAlike(tree, tree', SpecFile(h.request)) /\ KindsKept(tree, tree')
      BY <2>1, KindsStep DEF ReadsAlike
    <3>5. h.request \in Requests
      BY <2>4 DEF RunType
    <3> QED  BY <3>3, <3>4, <3>5, ReplansStays
  <2> QED  BY <2>2, <2>5, <2>6 DEF Replans
<1> QED  BY <1>1, <1>2, FreshStep

RetryGoesOn(c, h, t) ==
    /\ c.raws = h.raws /\ c.channels = h.channels /\ c.paths = h.paths
    /\ c.failed = {} /\ Laid(t, c)

LEMMA RetryStep ==
    ASSUME Inv, Placed, Replayed, [Next]_vars, Retried'
    PROVE  RetryGoesOn(call', Last(history'), tree')
<1>1. KindsKept(tree, tree')
  BY KindsStep
<1>2. /\ call'.phase = "run" /\ history' # <<>> /\ call' # Idle
      /\ Last(history').status = "ok" /\ Last(history').request = call'.request
      /\ call'.request.overwrite /\ Unhit(Last(history'))
  <2>1. /\ call'.phase = "run" /\ history' # <<>>
        /\ Last(history').status = "ok" /\ Last(history').request = call'.request
        /\ call'.request.overwrite
    BY DEF Retried
  <2>2. PICK h : h = Last(history')
    OBVIOUS
  <2>3. Unhit(h)
    BY <2>2 DEF Retried, Unhit
  <2>4. Idle.phase # "run"
    BY DEF Idle
  <2> QED  BY <2>1, <2>2, <2>3, <2>4
<1>3. ASSUME call.phase = "run", SameTask(call, call'), history' = history
      PROVE  Retried /\ RetryGoesOn(call, Last(history), tree)
  <2>1. Retried
    BY <1>2, <1>3 DEF Retried, SameTask
  <2> QED  BY <2>1 DEF Replayed, RetryGoesOn
<1>4. ASSUME call.phase = "run", SameTask(call, call'), history' = history,
             call'.failed = {},
             \A k \in DOMAIN call.paths :
                tree'[Real(call.paths[k])] = tree[Real(call.paths[k])]
      PROVE  RetryGoesOn(call', Last(history'), tree')
  <2>1. RetryGoesOn(call, Last(history), tree)
    BY <1>3, <1>4
  <2>2. PICK c \in RunType : c = call
    BY <1>4, JobIs
  <2>3. c.paths \in Seq(Seq(Words)) /\ Laid(tree, c)
    BY <2>1, <2>2 DEF RunType, RetryGoesOn
  <2>4. Laid(tree', c)
    BY <1>1, <1>4, <2>2, <2>3, LaidStays
  <2>5. Laid(tree', call')
    BY <1>4, <2>2, <2>4 DEF Laid, SameTask
  <2> QED  BY <1>4, <2>1, <2>5 DEF RetryGoesOn, SameTask
<1>5. ASSUME call.phase = "run", RetryGoesOn(call, Last(history), tree),
             NEW k \in DOMAIN call.paths
      PROVE  /\ Real(call.paths[k]) \in Seq(Words) /\ Real(call.paths[k]) \in DOMAIN tree
             /\ tree[Real(call.paths[k])] = ApkFile(call.channels[k])
             /\ CanMake(tree, Front(call.paths[k]))
             /\ ~IsDirectory(tree, Real(call.paths[k]))
  <2>1. Real(call.paths[k]) \in Seq(Words)
    BY <1>5, JobIs, RealType
  <2>2. /\ Real(call.paths[k]) \in DOMAIN tree
        /\ tree[Real(call.paths[k])] = ApkFile(call.channels[k])
        /\ Stands(tree, Front(call.paths[k]))
    BY <1>5 DEF RetryGoesOn, Laid
  <2>3. CanMake(tree, Front(call.paths[k]))
    BY <2>2 DEF Stands, CanMake
  <2>4. ~IsDirectory(tree, Real(call.paths[k]))
    BY <2>2, ApkIsFile DEF IsDirectory
  <2> QED  BY <2>1, <2>2, <2>3, <2>4
<1>6. ASSUME NEW r \in Requests, RefuseEarly(r) PROVE FALSE
  BY <1>2, <1>6, RefuseEarlyDoes
<1>7. ASSUME NEW r \in Requests, Plan(r) PROVE RetryGoesOn(call', Last(history'), tree')
  <2>1. /\ call = Idle /\ history' = history
        /\ call'.request = r /\ call'.raws = RawChannels(r)
        /\ call'.channels = Normalized(RawChannels(r)) /\ call'.paths = PathsFor(r, call'.channels)
        /\ call'.failed = {} /\ call' \in RunType
        /\ Adds(tree, tree', OutputDir(r))
    BY <1>2, <1>7, PlanDoes
  <2>2. PICK h : h = Last(history) /\ h = Last(history')
    BY <2>1
  <2>3. /\ Laid(tree, h) /\ h.raws = RawChannels(r) /\ h.channels = Normalized(RawChannels(r))
        /\ h.paths = PathsFor(r, Normalized(RawChannels(r)))
    BY <1>2, <2>1, <2>2, PlannedAgain
  <2>4. h.paths = call'.paths /\ h.channels = call'.channels /\ h.raws = call'.raws
    BY <2>1, <2>3
  <2>5. h.paths \in Seq(Seq(Words))
    BY <2>1, <2>4 DEF RunType
  <2>6. \A k \in DOMAIN h.paths : tree'[Real(h.paths[k])] = tree[Real(h.paths[k])]
    <3> TAKE k \in DOMAIN h.paths
    <3>1. h.paths[k] \in Seq(Words)
      BY <2>5, ElementOfSeq, LenProperties
    <3>2. Real(h.paths[k]) \in Seq(Words) /\ Real(h.paths[k]) \in DOMAIN tree
      BY <2>3, <3>1, RealType DEF Laid
    <3> QED  BY <2>1, <3>2 DEF Adds
  <2>7. Laid(tree', h)
    BY <1>1, <2>3, <2>5, <2>6, LaidStays
  <2>8. Laid(tree', call')
    BY <2>4, <2>7 DEF Laid
  <2> QED  BY <2>1, <2>2, <2>4, <2>8 DEF RetryGoesOn
<1>8. CASE OpenTemp
  <2>1. call.phase = "run" /\ SameTask(call, call') /\ history' = history
    BY <1>8, OpenTempDoes
  <2>2. RetryGoesOn(call, Last(history), tree)
    BY <1>3, <2>1
  <2>3. PICK i \in DOMAIN call.paths \cap DOMAIN TempNames :
          \/ /\ Adds(tree, tree', Front(call.paths[i])) /\ call'.failed = call.failed
          \/ ~CanMake(tree, Front(call.paths[i]))
    BY <1>8, OpenTempDoes
  <2>4. Adds(tree, tree', Front(call.paths[i])) /\ call'.failed = {}
    BY <1>5, <2>1, <2>2, <2>3 DEF RetryGoesOn
  <2>5. \A k \in DOMAIN call.paths : tree'[Real(call.paths[k])] = tree[Real(call.paths[k])]
    BY <1>5, <2>1, <2>2, <2>4 DEF Adds
  <2> QED  BY <1>4, <2>1, <2>4, <2>5
<1>9. ASSUME NEW i \in DOMAIN TempNames, Publish(i)
      PROVE  RetryGoesOn(call', Last(history'), tree')
  <2>1. /\ call.phase = "run" /\ SameTask(call, call') /\ history' = history
        /\ i \in DOMAIN call.paths
    BY <1>9, PublishDoes
  <2>2. RetryGoesOn(call, Last(history), tree) /\ call.request.overwrite
    BY <1>2, <1>3, <2>1 DEF SameTask
  <2>3. ~CannotReplace(i)
    BY <1>5, <2>1, <2>2 DEF CannotReplace, Occupied
  <2>4. /\ Puts(tree, tree', Real(call.paths[i]), ApkFile(call.channels[i]))
        /\ call'.failed = call.failed
    BY <1>9, <2>3, PublishDoes
  <2>5. ASSUME NEW k \in DOMAIN call.paths
        PROVE  tree'[Real(call.paths[k])] = tree[Real(call.paths[k])]
    <3>1. CASE k = i
      BY <1>5, <2>1, <2>2, <2>4, <3>1 DEF Puts
    <3>2. CASE k # i
      <4>1. Real(call.paths[k]) # Real(call.paths[i])
        BY <2>1, <3>2, PathsApart DEF Placed
      <4> QED  BY <1>5, <2>1, <2>2, <2>4, <4>1 DEF Puts
    <3> QED  BY <3>1, <3>2
  <2> QED  BY <1>4, <2>1, <2>2, <2>4, <2>5 DEF RetryGoesOn
<1>10. CASE Return
  BY <1>2, <1>10, ReturnDoes
<1>11. CASE UNCHANGED vars
  <2>1. tree' = tree /\ call' = call /\ history' = history
    BY <1>11 DEF vars
  <2>2. call.phase = "run" /\ SameTask(call, call')
    BY <1>2, <2>1 DEF SameTask
  <2> QED  BY <1>3, <2>1, <2>2
<1> QED  BY <1>6, <1>7, <1>8, <1>9, <1>10, <1>11 DEF Next

LEMMA ReplayedStep ==
    ASSUME Inv, Placed, Replayed, [Next]_vars
    PROVE  Replayed'
BY PlansStep, EndsStep, RetryStep DEF Replayed, RetryGoesOn

(* What RepeatSucceeds says of one command and the one before.              *)
Repeated(first, again) ==
    /\ first.request = again.request /\ first.request.overwrite
    /\ first.status = "ok" /\ Unhit(first)
    => again = first

LEMMA RepeatStep ==
    ASSUME Inv, Replayed, RepeatSucceeds, [Next]_vars
    PROVE  RepeatSucceeds'
<1>1. \A k \in 2 .. Len(history) : Repeated(history[k - 1], history[k])
  BY DEF RepeatSucceeds, Repeated, Unhit
<1>2. ASSUME \A k \in 2 .. Len(history') : Repeated(history'[k - 1], history'[k])
      PROVE  RepeatSucceeds'
  BY <1>2 DEF RepeatSucceeds, Repeated, Unhit
<1>3. ASSUME NEW e \in EndType, history' = Append(history, e),
             history # <<>> => Repeated(Last(history), e)
      PROVE  RepeatSucceeds'
  <2>1. /\ Len(history) \in Nat /\ Len(history') = Len(history) + 1
        /\ DOMAIN history = 1 .. Len(history)
        /\ Last(history') = e /\ \A k \in DOMAIN history : history'[k] = history[k]
    BY <1>3, Appended DEF Inv
  <2>2. ASSUME NEW k \in 2 .. Len(history') PROVE Repeated(history'[k - 1], history'[k])
    <3>1. CASE k \in 2 .. Len(history)
      <4>1. k - 1 \in DOMAIN history /\ k \in DOMAIN history
        BY <2>1, <3>1
      <4> QED  BY <1>1, <2>1, <3>1, <4>1
    <3>2. CASE k \notin 2 .. Len(history)
      <4>1. k = Len(history') /\ k - 1 = Len(history) /\ Len(history) \in DOMAIN history
        BY <2>1, <3>2
      <4>2. history'[k] = e /\ history'[k - 1] = Last(history)
        BY <2>1, <4>1 DEF Last
      <4>3. history # <<>>
        BY <4>1
      <4> QED  BY <1>3, <4>2, <4>3
    <3> QED  BY <3>1, <3>2
  <2> QED  BY <1>2, <2>2
<1>4. CASE history' = history
  BY <1>1, <1>2, <1>4
<1>5. ASSUME NEW r \in Requests, RefuseEarly(r) PROVE RepeatSucceeds'
  <2>1. /\ call = Idle
        /\ ChannelsRefused(RawChannels(r)) \/ ~CanMake(tree, OutputDir(r))
    BY <1>5, RefuseEarlyDoes
  <2>2. PICK e \in EndType :
          e.status = "refused" /\ e.request = r /\ history' = Append(history, e)
    BY <1>5, RefuseEarlyDoes
  <2>3. ASSUME history # <<>>, Last(history).status = "ok", Unhit(Last(history)),
               Last(history).request = r
        PROVE  FALSE
    BY <2>1, <2>3, PlannedAgain DEF Checked
  <2> QED  BY <1>3, <2>2, <2>3 DEF Repeated
<1>6. ASSUME NEW r \in Requests, Plan(r) PROVE RepeatSucceeds'
  <2>1. CASE history' # history
    <3>1. call = Idle
      BY <1>6, PlanDoes
    <3>2. \/ ~Checked(r, RawChannels(r), PathsFor(r, Normalized(RawChannels(r))))
          \/ Occupied(tree', PathsFor(r, Normalized(RawChannels(r))), r.overwrite)
      BY <1>6, <2>1, PlanDoes
    <3>3. PICK e \in EndType :
            e.status = "refused" /\ e.request = r /\ history' = Append(history, e)
      BY <1>6, <2>1, PlanDoes
    <3>4. ASSUME history # <<>>, Last(history).status = "ok", Unhit(Last(history)),
                 Last(history).request = r, r.overwrite
          PROVE  FALSE
      <4>1. Checked(r, RawChannels(r), PathsFor(r, Normalized(RawChannels(r))))
        BY <3>1, <3>4, PlannedAgain
      <4> QED  BY <3>2, <3>4, <4>1 DEF Occupied
    <3> QED  BY <1>3, <3>3, <3>4 DEF Repeated
  <2> QED  BY <1>4, <2>1
<1>7. CASE OpenTemp
  BY <1>4, <1>7, OpenTempDoes
<1>8. ASSUME NEW i \in DOMAIN TempNames, Publish(i) PROVE RepeatSucceeds'
  BY <1>4, <1>8, PublishDoes
<1>9. CASE Return
  <2>1. call.phase = "run"
    BY <1>9, ReturnDoes
  <2>2. PICK e \in EndType :
          /\ history' = Append(history, e)
          /\ e.request = call.request /\ e.raws = call.raws
          /\ e.channels = call.channels /\ e.paths = call.paths
          /\ e.status = IF call.failed = {} THEN "ok" ELSE "failed"
    BY <1>9, ReturnDoes
  <2>3. ASSUME history # <<>>, Last(history).status = "ok", Unhit(Last(history)),
               Last(history).request = call.request, call.request.overwrite
        PROVE  e = Last(history)
    <3>1. Retried
      BY <2>1, <2>3 DEF Retried
    <3>2. PICK h \in EndType : h = Last(history)
      BY <2>3, LastIs
    <3>3. /\ call.raws = h.raws /\ call.channels = h.channels /\ call.paths = h.paths
          /\ call.failed = {}
      BY <3>1, <3>2 DEF Replayed
    <3>4. /\ e.request = h.request /\ e.raws = h.raws /\ e.channels = h.channels
          /\ e.paths = h.paths /\ e.status = h.status
      BY <2>2, <2>3, <3>2, <3>3
    <3>5. e = h
      BY <3>4 DEF EndType
    <3> QED  BY <3>2, <3>5
  <2> QED  BY <1>3, <2>2, <2>3 DEF Repeated
<1>10. CASE UNCHANGED vars
  BY <1>4, <1>10 DEF vars
<1> QED  BY <1>5, <1>6, <1>7, <1>8, <1>9, <1>10 DEF Next

(* A command with --overwrite that succeeded, given again, succeeds with    *)
(* the same channels and the same files, unless an artifact took the name   *)
(* of the channel list (docs/adr/0003); for any number of commands, where   *)
(* the output directory has no link further down.                           *)
THEOREM RetriesSucceed ==
    ASSUME LinksOutside
    PROVE  Spec => []RepeatSucceeds
<1>1. Init => Replayed /\ RepeatSucceeds
  <2> SUFFICES ASSUME Init PROVE Replayed /\ RepeatSucceeds
    OBVIOUS
  <2>1. call.phase # "run" /\ history = <<>> /\ Len(history) = 0
    BY EmptySeq DEF Init, Idle
  <2>2. Replayed
    BY <2>1 DEF Replayed, Retried, Fresh
  <2>3. RepeatSucceeds
    BY <2>1 DEF RepeatSucceeds
  <2> QED  BY <2>2, <2>3
<1>2. Inv /\ Placed /\ Replayed /\ RepeatSucceeds /\ [Next]_vars => Replayed' /\ RepeatSucceeds'
  BY ReplayedStep, RepeatStep
<1> QED  BY <1>1, <1>2, InvAlways, PlacedAlways, PTL DEF Spec
=============================================================================
