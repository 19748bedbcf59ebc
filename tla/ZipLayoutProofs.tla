-------------------------- MODULE ZipLayoutProofs --------------------------
(***************************************************************************)
(* Proofs about ZipLayout.  That headers one after the other fill the       *)
(* directory goes by induction over the entries (module SeqFoldsProofs).     *)
(***************************************************************************)
EXTENDS ZipLayout, SeqFoldsProofs

TypeOK == WellFormed(layout)

LEMMA EntriesOf ==
    ASSUME NEW z, z \in LayoutType
    PROVE  /\ Len(z.entries) \in Nat /\ DOMAIN z.entries = 1 .. Len(z.entries)
           /\ \A i \in DOMAIN z.entries :
                 z.entries[i] \in EntryType /\ z.entries[i] \in ToSet(z.entries)
           /\ \A e \in ToSet(z.entries) : e \in EntryType
<1>1. z.entries \in Seq(EntryType)
  BY DEF LayoutType
<1> QED  BY <1>1, LenProperties, ElementOfSeq DEF ToSet

-----------------------------------------------------------------------------
(* Rewrites.                                                                *)

LEMMA MovedFits ==
    ASSUME NEW z, WellFormed(z), Accepts(z), z.block = "found", NEW len \in Nat
    PROVE  /\ WellFormed(Moved(z, len))
           /\ Moved(z, len).cdStart # MaxOffset => Accepts(Moved(z, len))
<1> DEFINE m == Moved(z, len)
<1>1. z \in LayoutType /\ z.start \in Nat /\ z.cdSize \in Nat /\ z.eocdLen \in Nat
  BY DEF WellFormed, LayoutType
<1>2. /\ m \in LayoutType
      /\ m.entries = z.entries /\ m.block = z.block /\ m.start = z.start
      /\ m.plain = z.plain /\ m.cdSize = z.cdSize /\ m.eocdLen = z.eocdLen
      /\ m.cdStart = z.start + len
      /\ m.eocd = z.start + len + z.cdSize
      /\ m.size = z.start + len + z.cdSize + z.eocdLen
  <2>1. PICK cd \in Nat, eocd \in Nat, size \in Nat :
           /\ cd = z.start + len
           /\ eocd = z.start + len + z.cdSize
           /\ size = z.start + len + z.cdSize + z.eocdLen
    BY <1>1
  <2>2. m = [z EXCEPT !.cdStart = cd, !.eocd = eocd, !.size = size]
    BY <2>1 DEF Moved
  <2>3. m \in LayoutType
    BY <1>1, <2>2 DEF LayoutType
  <2>4. m.cdStart = cd /\ m.eocd = eocd /\ m.size = size
    BY <1>1, <2>2 DEF LayoutType
  <2>5. /\ m.entries = z.entries /\ m.block = z.block /\ m.start = z.start
        /\ m.plain = z.plain /\ m.cdSize = z.cdSize /\ m.eocdLen = z.eocdLen
    BY <1>1, <2>2 DEF LayoutType
  <2> QED  BY <2>1, <2>3, <2>4, <2>5
<1> HIDE DEF m
<1>3. WellFormed(m)
  BY <1>2 DEF WellFormed
<1>4. ASSUME NEW e \in ToSet(z.entries) PROVE EntryFits(m, e)
  <2>1. e \in EntryType /\ e.local < e.data
    BY <1>1, EntriesOf DEF WellFormed
  <2>2. e.data + e.length <= z.start /\ e.header >= HeaderMin
    BY DEF Accepts, BlockClear, EntryFits
  <2> QED  BY <1>1, <1>2, <2>1, <2>2 DEF EntryFits, EntryType
<1>5. EndsFile(m) /\ DirectoryMeetsEOCD(m) /\ DirectoryFilled(m)
  BY <1>1, <1>2 DEF Accepts, EndsFile, DirectoryMeetsEOCD, DirectoryFilled
<1>6. BlockClear(m) /\ m.block # "looks"
  BY <1>1, <1>2 DEF Accepts, BlockClear
<1>7. m.cdStart # MaxOffset => NoZip64(m)
  BY <1>2 DEF Accepts, NoZip64
<1> QED  BY <1>2, <1>3, <1>4, <1>5, <1>6, <1>7 DEF Accepts, m

LEMMA CommentFits ==
    ASSUME NEW z, WellFormed(z), Accepts(z), NEW len \in Nat
    PROVE  WellFormed(WithComment(z, len)) /\ Accepts(WithComment(z, len))
<1> DEFINE m == WithComment(z, len)
<1>1. z \in LayoutType /\ z.eocd \in Nat /\ EocdMin \in Nat
  BY LayoutsAssumption DEF WellFormed, LayoutType
<1>2. /\ m \in LayoutType
      /\ m.entries = z.entries /\ m.block = z.block /\ m.start = z.start
      /\ m.plain = z.plain /\ m.cdSize = z.cdSize /\ m.cdStart = z.cdStart /\ m.eocd = z.eocd
      /\ m.eocdLen = EocdMin + len
      /\ m.size = z.eocd + EocdMin + len
  <2>1. PICK eocdLen \in Nat, size \in Nat :
           eocdLen = EocdMin + len /\ size = z.eocd + EocdMin + len
    BY <1>1
  <2>2. m = [z EXCEPT !.eocdLen = eocdLen, !.size = size]
    BY <2>1 DEF WithComment
  <2>3. m \in LayoutType
    BY <1>1, <2>2 DEF LayoutType
  <2>4. m.eocdLen = eocdLen /\ m.size = size
    BY <1>1, <2>2 DEF LayoutType
  <2>5. /\ m.entries = z.entries /\ m.block = z.block /\ m.start = z.start
        /\ m.plain = z.plain /\ m.cdSize = z.cdSize /\ m.cdStart = z.cdStart /\ m.eocd = z.eocd
    BY <1>1, <2>2 DEF LayoutType
  <2> QED  BY <2>1, <2>3, <2>4, <2>5
<1> HIDE DEF m
<1>3. WellFormed(m)
  BY <1>2 DEF WellFormed
<1>4. \A e \in ToSet(m.entries) : EntryFits(m, e)
  BY <1>2 DEF Accepts, EntryFits
<1>5. EndsFile(m)
  BY <1>1, <1>2 DEF EndsFile
<1>6. /\ DirectoryMeetsEOCD(m) /\ NoZip64(m) /\ DirectoryFilled(m)
      /\ m.block # "looks" /\ BlockClear(m)
  BY <1>2 DEF Accepts, DirectoryMeetsEOCD, NoZip64, DirectoryFilled, BlockClear
<1> QED  BY <1>3, <1>4, <1>5, <1>6 DEF Accepts, m

LEMMA Steps ==
    ASSUME TypeOK, Next
    PROVE  TypeOK' /\ (layout'.cdStart # MaxOffset => Accepts(layout'))
<1>1. ASSUME NEW len \in BlockLens, RewriteBlock(len)
      PROVE  TypeOK' /\ (layout'.cdStart # MaxOffset => Accepts(layout'))
  <2>1. len \in Nat
    BY LayoutsAssumption
  <2>2. Accepts(layout) /\ layout.block = "found" /\ layout' = Moved(layout, len)
    BY <1>1 DEF RewriteBlock
  <2> QED  BY <2>1, <2>2, MovedFits DEF TypeOK
<1>2. ASSUME NEW len \in CommentLens, RewriteComment(len)
      PROVE  TypeOK' /\ (layout'.cdStart # MaxOffset => Accepts(layout'))
  <2>1. len \in Nat
    BY LayoutsAssumption
  <2>2. Accepts(layout) /\ layout' = WithComment(layout, len)
    BY <1>2 DEF RewriteComment
  <2> QED  BY <2>1, <2>2, CommentFits DEF TypeOK
<1> QED  BY <1>1, <1>2 DEF Next

LEMMA LayoutsStayWellFormed == Spec => []TypeOK
<1>1. Init => TypeOK
  BY LayoutsAssumption DEF Init, TypeOK
<1>2. TypeOK /\ [Next]_layout => TypeOK'
  BY Steps DEF TypeOK
<1> QED  BY <1>1, <1>2, PTL DEF Spec

(* Whatever loadArchive accepts it accepts again after any rewrite of the   *)
(* block or the comment, of any length, unless the directory has moved onto *)
(* the sentinel.                                                            *)
THEOREM RewritesReload == Spec => RewriteReloads
<1>1. TypeOK /\ [Next]_layout
         => [layout'.cdStart # MaxOffset => Accepts(layout')]_layout
  BY Steps
<1> QED  BY <1>1, LayoutsStayWellFormed, PTL DEF Spec, RewriteReloads

-----------------------------------------------------------------------------
(* Tiling.                                                                  *)

Headers(z) == [i \in DOMAIN z.entries |-> z.entries[i].header]

(* Where a header starts is where the ones before it end.                   *)
LEMMA HeaderStarts ==
    ASSUME NEW z, z \in LayoutType
    PROVE  \E r : /\ Runs(r, Headers(z))
                  /\ HeaderBytes(z.entries) = r[Len(z.entries)]
                  /\ \A k \in DOMAIN z.entries :
                        HeaderBytes(SubSeq(z.entries, 1, k - 1)) = r[k - 1]
<1> DEFINE n == Len(z.entries)
           lens == Headers(z)
<1>1. /\ z.entries \in Seq(EntryType)
      /\ n \in Nat /\ DOMAIN z.entries = 1 .. n
      /\ \A i \in 1 .. n : z.entries[i].header \in Nat
  BY EntriesOf DEF LayoutType, EntryType
<1> HIDE DEF n
<1>2. lens \in Seq(Nat) /\ Len(lens) = n /\ \A i \in 1 .. n : lens[i] = z.entries[i].header
  BY <1>1 DEF Headers
<1>3. HeaderBytes(z.entries) = Total(lens)
  BY DEF HeaderBytes, Headers
<1> HIDE DEF lens
<1>4. PICK r : Runs(r, lens) /\ Total(lens) = r[Len(lens)]
  BY <1>2, TotalRuns
<1>5. ASSUME NEW k \in 1 .. n
      PROVE  HeaderBytes(SubSeq(z.entries, 1, k - 1)) = r[k - 1]
  <2> DEFINE first == SubSeq(z.entries, 1, k - 1)
             part == [i \in DOMAIN first |-> first[i].header]
  <2>1. /\ k - 1 \in Nat /\ DOMAIN first = 1 .. k - 1
        /\ \A i \in 1 .. k - 1 : first[i] = z.entries[i] /\ i \in 1 .. n
    BY <1>1
  <2> HIDE DEF first
  <2>2. /\ part \in Seq(Nat) /\ Len(part) = k - 1
        /\ \A i \in 1 .. k - 1 : part[i] = lens[i]
    <3>1. \A i \in 1 .. k - 1 : part[i] = lens[i] /\ part[i] \in Nat
      BY <1>1, <1>2, <2>1
    <3>2. part = [i \in 1 .. k - 1 |-> part[i]]
      BY <2>1
    <3> HIDE DEF part
    <3>3. part \in Seq(Nat) /\ Len(part) = k - 1
      BY <2>1, <3>1, <3>2
    <3> QED  BY <3>1, <3>3
  <2>3. HeaderBytes(first) = Total(part)
    BY DEF HeaderBytes
  <2> HIDE DEF part
  <2>4. PICK q : Runs(q, part) /\ Total(part) = q[Len(part)]
    BY <2>2, TotalRuns
  <2>5. q[k - 1] = r[k - 1]
    <3>1. k - 1 <= Len(part) /\ k - 1 <= Len(lens)
      BY <1>1, <1>2, <2>1, <2>2
    <3> QED  BY <1>2, <1>4, <2>1, <2>2, <2>4, <3>1, RunsAgree
  <2> QED  BY <2>2, <2>3, <2>4, <2>5 DEF first
<1> QED  BY <1>1, <1>2, <1>3, <1>4, <1>5 DEF lens, n

(* Pieces laid one after the other fill what their lengths add up to.       *)
LEMMA RunsFill ==
    ASSUME NEW lens \in Seq(Nat), NEW r, Runs(r, lens), NEW base \in Nat
    PROVE  Bytes(base, r[Len(lens)])
              = UNION {Bytes(base + r[k - 1], lens[k]) : k \in 1 .. Len(lens)}
<1> DEFINE n == Len(lens)
           Piece(k) == Bytes(base + r[k - 1], lens[k])
           S == {m \in 0 .. n : Bytes(base, r[m]) = UNION {Piece(k) : k \in 1 .. m}}
<1>1. n \in Nat /\ r \in [0 .. n -> Nat] /\ r[0] = 0 /\ \A k \in 1 .. n : lens[k] \in Nat
  BY LenProperties, ElementOfSeq DEF Runs
<1>2. 0 \in S
  <2>1. Bytes(base, 0) = {}
    BY DEF Bytes
  <2>2. 1 .. 0 = {}
    OBVIOUS
  <2> HIDE DEF Piece
  <2>3. UNION {Piece(k) : k \in 1 .. 0} = {}
    BY <2>2
  <2> QED  BY <1>1, <2>1, <2>3
<1>3. ASSUME NEW m \in 0 .. n - 1, m \in S PROVE m + 1 \in S
  <2>1. m + 1 \in 1 .. n /\ m \in 0 .. n /\ m + 1 \in 0 .. n /\ (m + 1) - 1 = m
    BY <1>1
  <2>2. r[m + 1] = r[m] + lens[m + 1] /\ r[m] \in Nat /\ lens[m + 1] \in Nat
    BY <1>1, <2>1 DEF Runs
  <2>3. Bytes(base, r[m + 1]) = Bytes(base, r[m]) \cup Bytes(base + r[m], lens[m + 1])
    BY <2>2 DEF Bytes
  <2>4. Piece(m + 1) = Bytes(base + r[m], lens[m + 1])
    BY <2>1
  <2>5. Bytes(base, r[m]) = UNION {Piece(k) : k \in 1 .. m}
    BY <1>3
  <2> HIDE DEF Piece
  <2>6. 1 .. m + 1 = 1 .. m \cup {m + 1}
    BY <2>1
  <2>7. UNION {Piece(k) : k \in 1 .. m + 1} = (UNION {Piece(k) : k \in 1 .. m}) \cup Piece(m + 1)
    BY <2>6
  <2> QED  BY <2>1, <2>3, <2>4, <2>5, <2>7
<1> HIDE DEF S
<1>4. 0 .. n \subseteq S
  BY <1>1, <1>2, <1>3, InductTo
<1>5. n \in S
  BY <1>1, <1>4
<1> QED  BY <1>5 DEF S

LEMMA DirectoryTiled ==
    ASSUME NEW z, z \in LayoutType, DirectoryFilled(z)
    PROVE  Bytes(z.cdStart, z.cdSize) = UNION {HeaderAt(z, k) : k \in DOMAIN z.entries}
<1> DEFINE lens == Headers(z)
<1>1. /\ Len(z.entries) \in Nat /\ DOMAIN z.entries = 1 .. Len(z.entries)
      /\ \A i \in DOMAIN z.entries : z.entries[i].header \in Nat
      /\ z.cdStart \in Nat
  BY EntriesOf DEF LayoutType, EntryType
<1>2. /\ lens \in Seq(Nat) /\ Len(lens) = Len(z.entries)
      /\ \A i \in DOMAIN z.entries : lens[i] = z.entries[i].header
  BY <1>1 DEF Headers
<1>3. PICK r : /\ Runs(r, lens)
               /\ HeaderBytes(z.entries) = r[Len(z.entries)]
               /\ \A k \in DOMAIN z.entries :
                     HeaderBytes(SubSeq(z.entries, 1, k - 1)) = r[k - 1]
  BY HeaderStarts
<1> HIDE DEF lens
<1>4. Bytes(z.cdStart, r[Len(lens)])
         = UNION {Bytes(z.cdStart + r[k - 1], lens[k]) : k \in 1 .. Len(lens)}
  BY <1>1, <1>2, <1>3, RunsFill
<1>5. \A k \in DOMAIN z.entries : HeaderAt(z, k) = Bytes(z.cdStart + r[k - 1], lens[k])
  BY <1>2, <1>3 DEF HeaderAt
<1>6. z.cdSize = r[Len(lens)]
  BY <1>2, <1>3 DEF DirectoryFilled
<1> QED  BY <1>1, <1>2, <1>4, <1>5, <1>6

(* The parts of every accepted file, however many entries it has, fill the  *)
(* file without a gap or an overlap, before and after any rewrites.         *)
THEOREM AcceptedFilesAreTiled == Spec => []AcceptedIsTiled
<1> DEFINE z == layout
<1>1. TypeOK => AcceptedIsTiled
  <2> SUFFICES ASSUME TypeOK, Accepts(layout) PROVE AcceptedIsTiled
    BY DEF AcceptedIsTiled
  <2>1. /\ z \in LayoutType
        /\ z.size \in Nat /\ z.cdStart \in Nat /\ z.cdSize \in Nat /\ z.eocd \in Nat
        /\ z.eocdLen \in Nat /\ z.start \in Nat
    BY DEF TypeOK, WellFormed, LayoutType
  <2>2. z.eocd + z.eocdLen = z.size /\ z.cdStart + z.cdSize = z.eocd
    BY DEF Accepts, EndsFile, DirectoryMeetsEOCD
  <2>3. Bytes(z.cdStart, z.cdSize) = UNION {HeaderAt(z, k) : k \in DOMAIN z.entries}
    BY <2>1, DirectoryTiled DEF Accepts
  <2>4. /\ 0 .. z.size - 1 =
              0 .. z.cdStart - 1 \cup Bytes(z.cdStart, z.cdSize) \cup Bytes(z.eocd, z.eocdLen)
        /\ Bytes(z.cdStart, z.cdSize) \cap Bytes(z.eocd, z.eocdLen) = {}
    BY <2>1, <2>2 DEF Bytes
  <2>5. ContentEnd(z) <= z.cdStart /\ ContentEnd(z) \in Nat
    BY <2>1 DEF ContentEnd, Accepts, BlockClear
  <2>6. ASSUME NEW e \in ToSet(z.entries)
        PROVE  Bytes(e.data, e.length) \subseteq 0 .. ContentEnd(z) - 1
    <3>1. e.data \in Nat /\ e.length \in Nat
      BY <2>1, EntriesOf DEF EntryType
    <3>2. e.data + e.length <= ContentEnd(z)
      BY DEF ContentEnd, Accepts, BlockClear, EntryFits
    <3> QED  BY <2>5, <3>1, <3>2 DEF Bytes
  <2> QED  BY <2>3, <2>4, <2>5, <2>6 DEF AcceptedIsTiled
<1> QED  BY <1>1, LayoutsStayWellFormed, PTL
=============================================================================
