----------------------- MODULE ApkChannelStoreProofs -----------------------
(***************************************************************************)
(* The calls on an APK are calls on the store of channel slots, and what    *)
(* follows from it: removal leaves nothing to read, and Detect's verdict    *)
(* does not depend on the channels an APK carries.                          *)
(***************************************************************************)
EXTENDS ApkChannelProofs, SeqFoldsProofs

-----------------------------------------------------------------------------
(* What the pairs of one ID amount to.  A slot depends on nothing else.     *)

PairsOf(s, id) == {s[i] : i \in {j \in DOMAIN s : s[j].id = id}}

SameFor(s, t, id) ==
    /\ PairsOf(s, id) = PairsOf(t, id)
    /\ Repeated(s, id) <=> Repeated(t, id)

LEMMA SameSlot ==
    ASSUME NEW s \in Seq(Pair), NEW t \in Seq(Pair), NEW id, SameFor(s, t, id)
    PROVE  /\ Has(s, id) <=> Has(t, id)
           /\ ChannelPairBroken(s, id) <=> ChannelPairBroken(t, id)
           /\ Has(s, id) /\ ~Repeated(s, id)
                => s[Position(s, id)] = t[Position(t, id)]
<1>1. \A p : p \in PairsOf(s, id) <=> \E i \in DOMAIN s : s[i].id = id /\ s[i] = p
  BY DEF PairsOf
<1>2. \A p : p \in PairsOf(t, id) <=> \E i \in DOMAIN t : t[i].id = id /\ t[i] = p
  BY DEF PairsOf
<1>3. PairsOf(s, id) = PairsOf(t, id)
  BY DEF SameFor
<1>4. Has(s, id) <=> Has(t, id)
  BY <1>1, <1>2, <1>3 DEF Has
<1>5. ChannelPairBroken(s, id) <=> ChannelPairBroken(t, id)
  <2>1. (\E i \in DOMAIN s : s[i].id = id /\ ~ValidPairValue(s[i]))
          <=> (\E p \in PairsOf(s, id) : ~ValidPairValue(p))
    BY <1>1
  <2>2. (\E i \in DOMAIN t : t[i].id = id /\ ~ValidPairValue(t[i]))
          <=> (\E p \in PairsOf(t, id) : ~ValidPairValue(p))
    BY <1>2
  <2> QED  BY <1>3, <2>1, <2>2 DEF SameFor, ChannelPairBroken
<1>6. ASSUME Has(s, id), ~Repeated(s, id)
      PROVE  s[Position(s, id)] = t[Position(t, id)]
  <2>1. Position(s, id) \in DOMAIN s /\ s[Position(s, id)].id = id
    BY <1>6, PositionIs, LenProperties
  <2>2. Position(t, id) \in DOMAIN t /\ t[Position(t, id)].id = id
    BY <1>4, <1>6, PositionIs, LenProperties
  <2>3. t[Position(t, id)] \in PairsOf(s, id)
    BY <1>2, <1>3, <2>2
  <2>4. PICK i \in DOMAIN s : s[i].id = id /\ s[i] = t[Position(t, id)]
    BY <1>1, <2>3
  <2>5. i = Position(s, id)
    BY <1>6, <2>1, <2>4 DEF Repeated
  <2> QED  BY <2>4, <2>5
<1> QED  BY <1>4, <1>5, <1>6

(* f takes the indexes of these pairs in s to where they are in t, and g    *)
(* back.                                                                    *)
Moves(s, t, id, f, g) ==
    \A i \in DOMAIN s :
        s[i].id = id => f[i] \in DOMAIN t /\ t[f[i]] = s[i] /\ g[f[i]] = i

LEMMA SameByIndex ==
    ASSUME NEW s, NEW t, NEW id, NEW f, NEW g,
           Moves(s, t, id, f, g), Moves(t, s, id, g, f)
    PROVE  SameFor(s, t, id)
<1>1. PairsOf(s, id) \subseteq PairsOf(t, id)
  BY DEF PairsOf, Moves
<1>2. PairsOf(t, id) \subseteq PairsOf(s, id)
  BY DEF PairsOf, Moves
<1>3. Repeated(s, id) => Repeated(t, id)
  <2> SUFFICES ASSUME NEW i \in DOMAIN s, NEW j \in DOMAIN s, i # j,
                      s[i].id = id, s[j].id = id
               PROVE  Repeated(t, id)
    BY DEF Repeated
  <2>1. /\ f[i] \in DOMAIN t /\ f[j] \in DOMAIN t /\ f[i] # f[j]
        /\ t[f[i]].id = id /\ t[f[j]].id = id
    BY DEF Moves
  <2> QED  BY <2>1 DEF Repeated
<1>4. Repeated(t, id) => Repeated(s, id)
  <2> SUFFICES ASSUME NEW i \in DOMAIN t, NEW j \in DOMAIN t, i # j,
                      t[i].id = id, t[j].id = id
               PROVE  Repeated(s, id)
    BY DEF Repeated
  <2>1. /\ g[i] \in DOMAIN s /\ g[j] \in DOMAIN s /\ g[i] # g[j]
        /\ s[g[i]].id = id /\ s[g[j]].id = id
    BY DEF Moves
  <2> QED  BY <2>1 DEF Repeated
<1> QED  BY <1>1, <1>2, <1>3, <1>4 DEF SameFor

LEMMA SameTransitive ==
    ASSUME NEW s, NEW t, NEW u, NEW id, SameFor(s, t, id), SameFor(t, u, id)
    PROVE  SameFor(s, u, id)
BY DEF SameFor

(* Insertion changes neither the target's nor the padding's neighbours.     *)
LEMMA InsertOthers ==
    ASSUME NEW s \in Seq(Pair), NEW p \in Pair, NEW id, id \notin {p.id, "padding"}
    PROVE  SameFor(s, InsertChannel(s, p), id)
<1>1. PICK t \in Seq(Pair) : t = InsertChannel(s, p)
  <2>1. InsertChannel(s, p) \in Seq(Pair)
    BY InsertType
  <2> QED  BY <2>1
<1>2. PICK g \in Nat : g = Gap(s)
  <2>1. Gap(s) \in Nat
    BY InsertShape
  <2> QED  BY <2>1
<1>3. /\ Len(t) \in Nat
      /\ g \in 1 .. Len(t) - 1
      /\ t[g] = p
      /\ t[Len(t)] = Padding
      /\ \A j \in 1 .. Len(s) : j # g => j \in 1 .. Len(t) - 1 /\ t[j] = s[j]
      /\ \A j \in 1 .. Len(t) - 1 : j # g => j \in 1 .. Len(s)
  BY <1>1, <1>2, InsertShape
<1>4. DOMAIN t = 1 .. Len(t) /\ DOMAIN s = 1 .. Len(s) /\ Len(s) \in Nat
  BY LenProperties
<1>5. g \in DOMAIN s => s[g].id = "padding"
  BY <1>2, <1>4, PositionIs DEF Gap
<1> DEFINE f == [i \in Nat |-> i]
<1>6. ASSUME NEW i \in DOMAIN s, s[i].id = id
      PROVE  f[i] \in DOMAIN t /\ t[f[i]] = s[i] /\ f[f[i]] = i
  <2>1. i # g /\ f[i] = i
    BY <1>4, <1>5, <1>6
  <2> QED  BY <1>3, <1>4, <2>1
<1>7. ASSUME NEW j \in DOMAIN t, t[j].id = id
      PROVE  f[j] \in DOMAIN s /\ s[f[j]] = t[j] /\ f[f[j]] = j
  <2>1. j # g /\ j # Len(t) /\ f[j] = j
    BY <1>3, <1>4, <1>7 DEF Padding
  <2> QED  BY <1>3, <1>4, <2>1
<1> HIDE DEF f
<1>8. Moves(s, t, id, f, f) /\ Moves(t, s, id, f, f)
  BY <1>6, <1>7 DEF Moves
<1> QED  BY <1>1, <1>8, SameByIndex

(* Removal touches no pair of another ID.                                   *)
LEMMA WithoutOthers ==
    ASSUME NEW s \in Seq(Pair), NEW x, NEW id, id # x
    PROVE  SameFor(s, Without(s, x), id)
<1>1. CASE ~Has(s, x)
  BY <1>1 DEF Without, SameFor
<1>2. CASE Has(s, x)
  <2>1. PICK k \in 1 .. Len(s) : k = Position(s, x) /\ s[k].id = x
    BY <1>2, PositionIs
  <2>2. PICK t \in Seq(Pair) : t = RemoveAt(s, k)
    BY RemoveAtShape
  <2>3. /\ Len(t) = Len(s) - 1
        /\ \A j \in 1 .. k - 1 : t[j] = s[j]
        /\ \A j \in k + 1 .. Len(s) : t[j - 1] = s[j]
    BY <2>2, RemoveAtShape
  <2>4. DOMAIN t = 1 .. Len(t) /\ DOMAIN s = 1 .. Len(s) /\ Len(s) \in Nat
    BY LenProperties
  <2> DEFINE f == [i \in Nat |-> IF i < k THEN i ELSE i - 1]
             g == [j \in Nat |-> IF j < k THEN j ELSE j + 1]
  <2>5. ASSUME NEW i \in DOMAIN s, s[i].id = id
        PROVE  f[i] \in DOMAIN t /\ t[f[i]] = s[i] /\ g[f[i]] = i
    <3>1. i \in 1 .. k - 1 \/ i \in k + 1 .. Len(s)
      BY <2>1, <2>4, <2>5
    <3>2. CASE i \in 1 .. k - 1
      <4>1. f[i] = i /\ g[i] = i
        BY <2>1, <3>2
      <4>2. i \in DOMAIN t /\ t[i] = s[i]
        BY <2>1, <2>3, <2>4, <3>2
      <4> QED  BY <4>1, <4>2
    <3>3. CASE i \in k + 1 .. Len(s)
      <4>1. i \in Nat /\ i - 1 \in Nat /\ ~(i < k) /\ ~(i - 1 < k) /\ (i - 1) + 1 = i
        BY <2>1, <2>4, <3>3
      <4>2. f[i] = i - 1 /\ g[i - 1] = i
        BY <4>1
      <4>3. i - 1 \in DOMAIN t /\ t[i - 1] = s[i]
        BY <2>1, <2>3, <2>4, <3>3
      <4> QED  BY <4>2, <4>3
    <3> QED  BY <3>1, <3>2, <3>3
  <2>6. ASSUME NEW j \in DOMAIN t, t[j].id = id
        PROVE  g[j] \in DOMAIN s /\ s[g[j]] = t[j] /\ f[g[j]] = j
    <3>1. CASE j < k
      <4>1. g[j] = j /\ f[j] = j
        BY <2>4, <3>1
      <4>2. j \in DOMAIN s /\ s[j] = t[j]
        BY <2>1, <2>3, <2>4, <3>1
      <4> QED  BY <4>1, <4>2
    <3>2. CASE ~(j < k)
      <4>1. j \in Nat /\ j + 1 \in Nat /\ ~(j + 1 < k) /\ (j + 1) - 1 = j
        BY <2>1, <2>4, <3>2
      <4>2. g[j] = j + 1 /\ f[j + 1] = j
        BY <3>2, <4>1
      <4>3. j + 1 \in k + 1 .. Len(s)
        BY <2>1, <2>3, <2>4, <3>2
      <4>4. t[(j + 1) - 1] = s[j + 1]
        BY <2>3, <4>3
      <4>5. j + 1 \in DOMAIN s
        BY <2>1, <2>4, <4>3
      <4> QED  BY <4>1, <4>2, <4>4, <4>5
    <3> QED  BY <3>1, <3>2
  <2> HIDE DEF f, g
  <2>7. Moves(s, t, id, f, g) /\ Moves(t, s, id, g, f)
    BY <2>5, <2>6 DEF Moves
  <2>8. SameFor(s, t, id)
    BY <2>7, SameByIndex
  <2> QED  BY <1>2, <2>1, <2>2, <2>8 DEF Without
<1> QED  BY <1>1, <1>2

LEMMA WithoutTarget ==
    ASSUME NEW s \in Seq(Pair), NEW id, ~Repeated(s, id)
    PROVE  ~Has(Without(s, id), id)
<1>1. CASE ~Has(s, id)
  BY <1>1 DEF Without
<1>2. CASE Has(s, id)
  <2>1. PICK k \in 1 .. Len(s) : k = Position(s, id) /\ s[k].id = id
    BY <1>2, PositionIs
  <2>2. PICK t \in Seq(Pair) : t = RemoveAt(s, k)
    BY RemoveAtShape
  <2>3. /\ Len(t) = Len(s) - 1
        /\ \A j \in 1 .. k - 1 : t[j] = s[j]
        /\ \A j \in k + 1 .. Len(s) : t[j - 1] = s[j]
    BY <2>2, RemoveAtShape
  <2>4. DOMAIN t = 1 .. Len(t) /\ DOMAIN s = 1 .. Len(s) /\ Len(s) \in Nat
    BY LenProperties
  <2>5. ASSUME NEW j \in DOMAIN t, t[j].id = id PROVE FALSE
    <3>1. CASE j < k
      <4>1. j \in DOMAIN s /\ s[j] = t[j] /\ j # k
        BY <2>1, <2>3, <2>4, <3>1
      <4> QED  BY <2>1, <2>4, <2>5, <4>1 DEF Repeated
    <3>2. CASE ~(j < k)
      <4>1. j + 1 \in k + 1 .. Len(s) /\ (j + 1) - 1 = j
        BY <2>1, <2>3, <2>4, <3>2
      <4>2. t[(j + 1) - 1] = s[j + 1]
        BY <2>3, <4>1
      <4>3. j + 1 \in DOMAIN s /\ j + 1 # k
        BY <2>1, <2>4, <4>1
      <4> QED  BY <2>1, <2>4, <2>5, <4>1, <4>2, <4>3 DEF Repeated
    <3> QED  BY <3>1, <3>2
  <2> QED  BY <1>2, <2>1, <2>2, <2>5 DEF Without, Has
<1> QED  BY <1>1, <1>2

(* Appended padding is nobody's pair.                                       *)
LEMMA AssembleOthers ==
    ASSUME NEW s \in Seq(Pair), NEW id, id # "padding"
    PROVE  SameFor(s, Assemble(s), id)
<1>1. /\ DOMAIN s = 1 .. Len(s) /\ Len(s) \in Nat
      /\ DOMAIN Append(s, Padding) = 1 .. Len(s) + 1
      /\ \A j \in 1 .. Len(s) : Append(s, Padding)[j] = s[j]
      /\ Append(s, Padding)[Len(s) + 1] = Padding
  <2>1. /\ Append(s, Padding) \in Seq(Pair)
        /\ Len(Append(s, Padding)) = Len(s) + 1
        /\ \A j \in 1 .. Len(s) : Append(s, Padding)[j] = s[j]
        /\ Append(s, Padding)[Len(s) + 1] = Padding
    BY PaddingType, AppendProperties
  <2> QED  BY <2>1, LenProperties
<1>2. PICK t : t = Append(s, Padding)
  OBVIOUS
<1> DEFINE f == [i \in Nat |-> i]
<1>3. ASSUME NEW i \in DOMAIN s, s[i].id = id
      PROVE  f[i] \in DOMAIN t /\ t[f[i]] = s[i] /\ f[f[i]] = i
  BY <1>1, <1>2
<1>4. ASSUME NEW j \in DOMAIN t, t[j].id = id
      PROVE  f[j] \in DOMAIN s /\ s[f[j]] = t[j] /\ f[f[j]] = j
  BY <1>1, <1>2, <1>4 DEF Padding
<1> HIDE DEF f
<1>5. Moves(s, t, id, f, f) /\ Moves(t, s, id, f, f)
  BY <1>3, <1>4 DEF Moves
<1> QED  BY <1>2, <1>5, SameByIndex DEF Assemble

LEMMA DropOthers ==
    ASSUME NEW s \in Seq(Pair), NEW x, NEW id, id \notin {x, "padding"}
    PROVE  SameFor(s, DropChannel(s, x), id)
<1> DEFINE u == Without(s, x)
           v == Without(u, "padding")
<1>1. u \in Seq(Pair) /\ v \in Seq(Pair)
  BY WithoutType
<1>2. SameFor(s, u, id) /\ SameFor(u, v, id) /\ SameFor(v, Assemble(v), id)
  BY <1>1, WithoutOthers, AssembleOthers
<1> QED  BY <1>2, SameTransitive DEF DropChannel

LEMMA DropTarget ==
    ASSUME NEW s \in Seq(Pair), NEW id, id # "padding", ~Repeated(s, id)
    PROVE  ~Has(DropChannel(s, id), id)
<1> DEFINE u == Without(s, id)
           v == Without(u, "padding")
<1>1. u \in Seq(Pair) /\ v \in Seq(Pair)
  BY WithoutType
<1>2. ~Has(u, id)
  BY WithoutTarget
<1>3. SameFor(u, v, id) /\ SameFor(v, Assemble(v), id)
  BY <1>1, WithoutOthers, AssembleOthers
<1>4. Assemble(v) \in Seq(Pair)
  BY <1>1, PaddingType, AppendProperties DEF Assemble
<1> QED  BY <1>1, <1>2, <1>3, <1>4, SameSlot DEF DropChannel

-----------------------------------------------------------------------------
(* What Pack writes, and what Detect makes of it.                           *)

LEMMA PackWritesSuffix ==
    ASSUME NEW a \in Apk, NEW r \in Requests, PackError(a, r) = "ok",
           SelectedMode(a, r.mode) = "v1"
    PROVE  /\ r.ch \in Channels
           /\ Suffix(r.ch) \in CommentToken
           /\ ~HasModern(a.pairs)
           /\ ~V1Found(a.comment) /\ ~V1Broken(a.comment)
           /\ Packed(a, r).hasBlock = a.hasBlock
           /\ Packed(a, r).pairs = a.pairs
           /\ Packed(a, r).comment = Append(a.comment, Suffix(r.ch))
<1>1. r.ch \in Channels /\ ~V1Found(a.comment) /\ ~V1Broken(a.comment)
  BY DEF PackError, WriteV1Error, ValidV1Channel, Requests
<1>2. Suffix(r.ch) \in CommentToken
  <2>1. ChannelLen[r.ch] + 10 \in Nat
    BY <1>1, ChannelsAssumption
  <2> QED  BY <1>1, <2>1 DEF Suffix, SuffixLen, CommentToken
<1>3. ~HasModern(a.pairs)
  BY DEF PackError, PreflightError, SelectedModeError, SelectedMode
<1> QED  BY <1>1, <1>2, <1>3 DEF Packed, WriteV1, Apk

LEMMA PackWritesPair ==
    ASSUME NEW a \in Apk, NEW r \in Requests, PackError(a, r) = "ok",
           SelectedMode(a, r.mode) # "v1"
    PROVE  LET id == NormalizeBlockID(r.id)
               p == ChannelPair(id, r.ch)
           IN  /\ id \in ChannelIds /\ r.ch \in Channels /\ p \in Pair /\ p.id = id
               /\ a.hasBlock /\ ValidBlock(a.pairs)
               /\ ~ChannelPairBroken(a.pairs, id) /\ ~Has(a.pairs, id)
               /\ ~V1Found(a.comment) /\ ~V1Broken(a.comment)
               /\ Packed(a, r).hasBlock
               /\ Packed(a, r).pairs = InsertChannel(a.pairs, p)
               /\ Packed(a, r).comment = a.comment
<1> DEFINE id == NormalizeBlockID(r.id)
<1>1. id \in ChannelIds
  BY NormalizedId DEF PackError, PreflightError, Requests
<1>2. /\ r.ch \in Channels /\ a.hasBlock
      /\ ~ChannelPairBroken(a.pairs, id) /\ ~Has(a.pairs, id)
      /\ ~V1Found(a.comment) /\ ~V1Broken(a.comment)
  BY DEF PackError, WriteV2Error, Requests
<1>3. ValidBlock(a.pairs)
  BY <1>2 DEF PackError, PreflightError, Loads
<1>4. ChannelPair(id, r.ch) \in Pair /\ ChannelPair(id, r.ch).id = id
  BY <1>1, <1>2, ChannelPairType DEF ChannelPair
<1>5. Packed(a, r) = [a EXCEPT !.pairs = InsertChannel(a.pairs, ChannelPair(id, r.ch))]
  BY DEF Packed, WriteV2
<1> QED  BY <1>1, <1>2, <1>3, <1>4, <1>5 DEF Apk

LEMMA SchemesAreNoChannels ==
    SignatureIds \cap (ChannelIds \cup {"padding"}) = {}
BY OtherIdsAssumption DEF SignatureIds, ReservedIds, ChannelIds

LEMMA PackKeepsSchemes ==
    ASSUME NEW a \in Apk, NEW r \in Requests, PackError(a, r) = "ok"
    PROVE  /\ HasModern(Packed(a, r).pairs) <=> HasModern(a.pairs)
           /\ \A id \in SignatureIds : Has(Packed(a, r).pairs, id) <=> Has(a.pairs, id)
<1> DEFINE b == Packed(a, r)
<1>1. \A id \in SignatureIds : Has(b.pairs, id) <=> Has(a.pairs, id)
  <2>1. CASE SelectedMode(a, r.mode) = "v1"
    BY <2>1, PackWritesSuffix
  <2>2. CASE SelectedMode(a, r.mode) # "v1"
    <3> SUFFICES ASSUME NEW id \in SignatureIds PROVE Has(b.pairs, id) <=> Has(a.pairs, id)
      OBVIOUS
    <3> DEFINE p == ChannelPair(NormalizeBlockID(r.id), r.ch)
    <3>1. p \in Pair /\ p.id \in ChannelIds /\ b.pairs = InsertChannel(a.pairs, p)
      BY <2>2, PackWritesPair
    <3> HIDE DEF p
    <3>2. a.pairs \in Seq(Pair) /\ b.pairs \in Seq(Pair)
      BY <3>1, InsertType DEF Apk
    <3>3. SameFor(a.pairs, b.pairs, id)
      BY <3>1, <3>2, SchemesAreNoChannels, InsertOthers
    <3> QED  BY <3>2, <3>3, SameSlot
  <2> QED  BY <2>1, <2>2
<1>2. HasModern(b.pairs) <=> HasModern(a.pairs)
  BY <1>1 DEF HasModern
<1> QED  BY <1>1, <1>2

LEMMA PackKeepsDetection ==
    ASSUME NEW a \in Apk, NEW r \in Requests, PackError(a, r) = "ok"
    PROVE  Detection(Packed(a, r)) = Detection(a)
<1> DEFINE b == Packed(a, r)
<1>1. \A id \in SignatureIds : Has(b.pairs, id) <=> Has(a.pairs, id)
  BY PackKeepsSchemes
<1>2. HasModern(b.pairs) <=> HasModern(a.pairs)
  BY PackKeepsSchemes
<1>3. "v2" \in SignatureIds /\ "v3" \in SignatureIds /\ "v31" \in SignatureIds
  BY DEF SignatureIds
<1>4. ASSUME NEW id \in SignatureIds PROVE Has(b.pairs, id) = Has(a.pairs, id)
  BY <1>1 DEF Has
<1>5. (Has(b.pairs, "v3") \/ Has(b.pairs, "v31")) = (Has(a.pairs, "v3") \/ Has(a.pairs, "v31"))
  BY <1>1, <1>3
<1>6. (IF HasModern(b.pairs) THEN "v2" ELSE "v1") = (IF HasModern(a.pairs) THEN "v2" ELSE "v1")
  BY <1>2
<1> QED  BY <1>3, <1>4, <1>5, <1>6, Zenon DEF Detection

LEMMA AutoPacksAsDetected ==
    ASSUME NEW a \in Apk, NEW r \in Requests, PackError(a, r) = "ok", r.mode = "auto"
    PROVE  Detection(a).mode = "v1" <=> Packed(a, r).comment # a.comment
<1>1. CASE HasModern(a.pairs)
  <2>1. SelectedMode(a, r.mode) # "v1" /\ Detection(a).mode = "v2"
    BY <1>1 DEF SelectedMode, Detection
  <2> QED  BY <2>1, PackWritesPair
<1>2. CASE ~HasModern(a.pairs)
  <2>1. SelectedMode(a, r.mode) = "v1" /\ Detection(a).mode = "v1"
    BY <1>2 DEF SelectedMode, Detection
  <2>2. /\ a.comment \in Seq(CommentToken) /\ Suffix(r.ch) \in CommentToken
        /\ Packed(a, r).comment = Append(a.comment, Suffix(r.ch))
    BY <2>1, PackWritesSuffix DEF Apk, Comments
  <2>3. Len(Packed(a, r).comment) = Len(a.comment) + 1 /\ Len(a.comment) \in Nat
    BY <2>2, AppendProperties, LenProperties
  <2> QED  BY <2>1, <2>3
<1> QED  BY <1>1, <1>2

LEMMA PackStep ==
    ASSUME Next, last'.op = "pack"
    PROVE  \E r \in PackCalls : Pack(r)
<1>1. \A r \in RemoveCalls : RemoveChannel(r) => last'.op = "remove"
  BY DEF RemoveChannel
<1>2. \A scheme \in Signers : Sign(scheme) => last'.op = "sign"
  BY DEF Sign
<1> QED  BY <1>1, <1>2 DEF Next

(* Detect's verdict tells what automatic mode will write, and is the same   *)
(* before and after: the two functions read the pairs apart from each       *)
(* other, and a channel, wherever it goes, is no signature.                 *)
THEOREM DetectionIsFollowed == Spec => AutoFollowsDetect
<1>1. TypeOK /\ [Next]_vars =>
        [last'.op = "pack" /\ last'.result = "ok" =>
           /\ Detection(apk') = Detection(apk)
           /\ last'.req.mode = "auto" =>
                 (Detection(apk).mode = "v1" <=> apk'.comment # apk.comment)]_vars
  <2> SUFFICES ASSUME TypeOK, Next, last'.op = "pack", last'.result = "ok"
               PROVE  /\ Detection(apk') = Detection(apk)
                      /\ last'.req.mode = "auto" =>
                            (Detection(apk).mode = "v1" <=> apk'.comment # apk.comment)
    OBVIOUS
  <2>1. PICK r \in PackCalls : Pack(r)
    BY PackStep
  <2>2. r \in Requests /\ apk \in Apk
    BY InputsAssumption DEF TypeOK
  <2>3. last'.req = r /\ PackError(apk, r) = "ok" /\ apk' = Packed(apk, r)
    BY <2>1 DEF Pack
  <2> QED  BY <2>2, <2>3, PackKeepsDetection, AutoPacksAsDetected
<1> QED  BY <1>1, TypeCorrect, PTL DEF Spec, AutoFollowsDetect

-----------------------------------------------------------------------------
(* What RemoveChannel takes away.                                           *)

(* As BlocksAreSigned, of any APK.                                          *)
Signed(a) ==
    /\ ~a.hasBlock => a.pairs = <<>>
    /\ a.hasBlock => HasModern(a.pairs)

(* The slots a removal names.                                               *)
Cleared(r) ==
    (IF r.mode = "v1" THEN {} ELSE {NormalizeBlockID(r.id)})
    \cup (IF r.mode = "v2" THEN {} ELSE {"comment"})

LEMMA RemoveEffect ==
    ASSUME NEW a \in Apk, NEW r \in Requests, RemoveError(a, r) = "ok", Signed(a)
    PROVE  LET id == NormalizeBlockID(r.id)
               b == Removed(a, r)
           IN  /\ id \in ChannelIds
               /\ r.mode \in {"auto", "v1", "v2"}
               /\ Loads(a)
               /\ r.mode # "v1" => ~ChannelPairBroken(a.pairs, id)
               /\ ~V1Broken(a.comment)
               /\ \/ r.mode # "v1" /\ Has(a.pairs, id)
                  \/ r.mode # "v2" /\ V1Found(a.comment)
               /\ b.hasBlock = a.hasBlock
               /\ b.intact = a.intact
               /\ r.mode # "v1" /\ Has(a.pairs, id) => a.hasBlock
               /\ b.pairs = IF r.mode # "v1" /\ Has(a.pairs, id)
                            THEN DropChannel(a.pairs, id) ELSE a.pairs
               /\ b.comment = IF r.mode # "v2" /\ V1Found(a.comment)
                              THEN RemoveV1(a.comment) ELSE a.comment
<1> DEFINE id == NormalizeBlockID(r.id)
           b == Removed(a, r)
<1>1. id \in ChannelIds /\ Loads(a) /\ r.mode \in {"auto", "v1", "v2"}
  BY NormalizedId DEF RemoveError, PreflightError, SelectedModeError, Requests, Modes
<1>2. Has(a.pairs, id) => a.hasBlock /\ HasModern(a.pairs)
  BY EmptySeq DEF Has, Signed
<1> HIDE DEF id
<1>3. CASE r.mode = "auto"
  <2>1. /\ ~V1Broken(a.comment) /\ ~ChannelPairBroken(a.pairs, id)
        /\ Has(a.pairs, id) \/ V1Found(a.comment)
    BY <1>3 DEF RemoveError, AutoRemoveError, id
  <2>2. /\ AfterPair(a, id) \in Apk
        /\ AfterPair(a, id).hasBlock = a.hasBlock
        /\ AfterPair(a, id).intact = a.intact
        /\ AfterPair(a, id).comment = a.comment
        /\ AfterPair(a, id).pairs = IF Has(a.pairs, id) THEN DropChannel(a.pairs, id)
                                    ELSE a.pairs
    BY <1>2, RemoveV2Type DEF AfterPair, ModernPairFound, RemoveV2, Apk
  <2>3. b = IF V1Found(a.comment) THEN CutSuffix(AfterPair(a, id)) ELSE AfterPair(a, id)
    BY <1>3 DEF Removed, AutoRemoved, id
  <2> QED  BY <1>1, <1>2, <1>3, <2>1, <2>2, <2>3 DEF CutSuffix, Apk, id
<1>4. CASE r.mode = "v1"
  <2>1. V1Found(a.comment) /\ ~V1Broken(a.comment)
    BY <1>4 DEF RemoveError, RemoveV1Error
  <2>2. b = CutSuffix(a)
    BY <1>4 DEF Removed
  <2> QED  BY <1>1, <1>4, <2>1, <2>2 DEF CutSuffix, Apk, id
<1>5. CASE r.mode = "v2"
  <2>1. Has(a.pairs, id) /\ ~V1Broken(a.comment) /\ ~ChannelPairBroken(a.pairs, id)
    BY <1>5 DEF RemoveError, RemoveV2Error, id
  <2>2. b = RemoveV2(a, id)
    BY <1>5 DEF Removed, id
  <2> QED  BY <1>1, <1>2, <1>5, <2>1, <2>2 DEF RemoveV2, Apk, id
<1> QED  BY <1>1, <1>3, <1>4, <1>5

(* A suffix, or bytes that end like one, stands nowhere but last.           *)
SuffixLast(c) == \A i \in DOMAIN c : i # Len(c) => c[i].kind = "text"

LEMMA CutComment ==
    ASSUME NEW c \in Comments, V1Found(c), SuffixLast(c)
    PROVE  /\ ~V1Found(RemoveV1(c)) /\ ~V1Broken(RemoveV1(c))
           /\ SuffixLast(RemoveV1(c))
           /\ \A i \in DOMAIN RemoveV1(c) : RemoveV1(c)[i].kind # "suffix"
<1>1. c \in Seq(CommentToken) /\ Len(c) \in Nat /\ c # <<>> /\ DOMAIN c = 1 .. Len(c)
  BY LenProperties DEF Comments, V1Found, LastIs
<1>2. Len(c) # 0
  BY <1>1, EmptySeq, LenProperties
<1>3. PICK t \in Seq(CommentToken) : t = RemoveV1(c)
  <2>1. RemoveV1(c) \in Comments
    BY RemoveV1Type
  <2> QED  BY <2>1 DEF Comments
<1>4. Len(t) = Len(c) - 1 /\ \A i \in 1 .. Len(c) - 1 : t[i] = c[i]
  BY <1>1, <1>2, <1>3, SubSeqProperties DEF RemoveV1
<1>5. DOMAIN t = 1 .. Len(t)
  BY LenProperties
<1>6. \A i \in DOMAIN t : t[i].kind = "text"
  BY <1>1, <1>2, <1>4, <1>5 DEF SuffixLast
<1>7. t # <<>> => Len(t) \in DOMAIN t
  BY <1>1, <1>2, <1>4, <1>5, EmptySeq
<1> QED  BY <1>3, <1>6, <1>7 DEF V1Found, V1Broken, LastIs, SuffixLast

LEMMA GrownComment ==
    ASSUME NEW c \in Comments, NEW ch \in Channels, Suffix(ch) \in CommentToken,
           ~V1Found(c), ~V1Broken(c), SuffixLast(c)
    PROVE  LET d == Append(c, Suffix(ch))
           IN  /\ SuffixLast(d)
               /\ V1Found(d) /\ ~V1Broken(d) /\ V1Channel(d) = ch
               /\ \A i \in DOMAIN d :
                     d[i].kind = "suffix" => d[i].channel = ch
<1>1. /\ c \in Seq(CommentToken) /\ Len(c) \in Nat /\ DOMAIN c = 1 .. Len(c)
      /\ \A i \in DOMAIN c : c[i] \in CommentToken
  BY LenProperties DEF Comments
<1>2. PICK d \in Seq(CommentToken) : d = Append(c, Suffix(ch))
  BY <1>1, AppendProperties
<1>3. /\ Len(d) = Len(c) + 1 /\ DOMAIN d = 1 .. Len(d)
      /\ \A i \in 1 .. Len(c) : d[i] = c[i]
      /\ d[Len(d)] = Suffix(ch)
      /\ d # <<>>
  BY <1>1, <1>2, AppendProperties, LenProperties
<1>4. \A i \in DOMAIN c : c[i].kind = "text"
  <2> SUFFICES ASSUME NEW i \in DOMAIN c, i = Len(c) PROVE c[i].kind = "text"
    BY DEF SuffixLast
  <2>1. c # <<>>
    BY EmptySeq
  <2>2. c[i].kind \notin {"suffix", "broken"}
    BY <2>1 DEF V1Found, V1Broken, LastIs
  <2>3. c[i].kind \in {"text", "suffix", "broken"}
    BY <1>1 DEF CommentToken
  <2> QED  BY <2>2, <2>3
<1>5. \A i \in DOMAIN d : i # Len(d) => d[i].kind = "text"
  BY <1>1, <1>3, <1>4
<1>6. Suffix(ch).kind = "suffix" /\ Suffix(ch).channel = ch
  BY DEF Suffix
<1> QED  BY <1>2, <1>3, <1>5, <1>6 DEF SuffixLast, V1Found, V1Broken, LastIs, V1Channel

-----------------------------------------------------------------------------
(* Nothing comes into a block but the channel written and the padding.      *)

LEMMA InsertAddsOnly ==
    ASSUME NEW s \in Seq(Pair), NEW p \in Pair,
           NEW j \in DOMAIN InsertChannel(s, p)
    PROVE  LET q == InsertChannel(s, p)[j]
           IN  q = p \/ q = Padding \/ \E i \in DOMAIN s : q = s[i]
<1>1. PICK t \in Seq(Pair) : t = InsertChannel(s, p)
  <2>1. InsertChannel(s, p) \in Seq(Pair)
    BY InsertType
  <2> QED  BY <2>1
<1>2. /\ Len(t) \in Nat
      /\ t[Gap(s)] = p
      /\ t[Len(t)] = Padding
      /\ \A i \in 1 .. Len(s) : i # Gap(s) => t[i] = s[i]
      /\ \A i \in 1 .. Len(t) - 1 : i # Gap(s) => i \in 1 .. Len(s)
  BY <1>1, InsertShape
<1>3. DOMAIN t = 1 .. Len(t) /\ DOMAIN s = 1 .. Len(s)
  BY LenProperties
<1>4. j = Gap(s) \/ j = Len(t) \/ j \in 1 .. Len(t) - 1
  BY <1>1, <1>2, <1>3
<1> QED  BY <1>1, <1>2, <1>3, <1>4

LEMMA WithoutAddsNothing ==
    ASSUME NEW s \in Seq(Pair), NEW x, NEW j \in DOMAIN Without(s, x)
    PROVE  \E i \in DOMAIN s : Without(s, x)[j] = s[i]
<1>1. CASE ~Has(s, x)
  BY <1>1 DEF Without
<1>2. CASE Has(s, x)
  <2>1. PICK k \in 1 .. Len(s) : k = Position(s, x)
    BY <1>2, PositionIs
  <2>2. PICK t \in Seq(Pair) : t = RemoveAt(s, k)
    BY RemoveAtShape
  <2>3. /\ Len(t) = Len(s) - 1
        /\ \A i \in 1 .. k - 1 : t[i] = s[i]
        /\ \A i \in k + 1 .. Len(s) : t[i - 1] = s[i]
    BY <2>2, RemoveAtShape
  <2>4. DOMAIN t = 1 .. Len(t) /\ DOMAIN s = 1 .. Len(s) /\ Len(s) \in Nat
    BY LenProperties
  <2>5. t = Without(s, x)
    BY <1>2, <2>1, <2>2 DEF Without
  <2>6. CASE j < k
    <3>1. j \in DOMAIN s /\ t[j] = s[j]
      BY <2>3, <2>4, <2>5, <2>6
    <3> QED  BY <2>5, <3>1
  <2>7. CASE ~(j < k)
    <3>1. j + 1 \in k + 1 .. Len(s) /\ (j + 1) - 1 = j
      BY <2>3, <2>4, <2>5, <2>7
    <3>2. t[(j + 1) - 1] = s[j + 1] /\ j + 1 \in DOMAIN s
      BY <2>3, <2>4, <3>1
    <3> QED  BY <2>5, <3>1, <3>2
  <2> QED  BY <2>6, <2>7
<1> QED  BY <1>1, <1>2

LEMMA DropAddsPadding ==
    ASSUME NEW s \in Seq(Pair), NEW x, NEW j \in DOMAIN DropChannel(s, x)
    PROVE  LET q == DropChannel(s, x)[j]
           IN  q = Padding \/ \E i \in DOMAIN s : q = s[i]
<1>1. PICK u \in Seq(Pair) : u = Without(s, x)
  BY WithoutType
<1>2. PICK v \in Seq(Pair) : v = Without(u, "padding")
  BY WithoutType
<1>3. /\ DOMAIN v = 1 .. Len(v) /\ Len(v) \in Nat
      /\ DropChannel(s, x) = Append(v, Padding)
      /\ DOMAIN Append(v, Padding) = 1 .. Len(v) + 1
      /\ \A i \in 1 .. Len(v) : Append(v, Padding)[i] = v[i]
      /\ Append(v, Padding)[Len(v) + 1] = Padding
  <2>1. /\ Append(v, Padding) \in Seq(Pair)
        /\ Len(Append(v, Padding)) = Len(v) + 1
        /\ \A i \in 1 .. Len(v) : Append(v, Padding)[i] = v[i]
        /\ Append(v, Padding)[Len(v) + 1] = Padding
    BY PaddingType, AppendProperties
  <2>2. DropChannel(s, x) = Append(v, Padding)
    BY <1>1, <1>2 DEF DropChannel, Assemble
  <2> QED  BY <2>1, <2>2, LenProperties
<1>4. CASE j = Len(v) + 1
  BY <1>3, <1>4
<1>5. CASE j # Len(v) + 1
  <2>1. j \in DOMAIN v /\ DropChannel(s, x)[j] = v[j]
    BY <1>3, <1>5
  <2>2. PICK i \in DOMAIN u : v[j] = u[i]
    BY <1>2, <2>1, WithoutAddsNothing
  <2>3. PICK m \in DOMAIN s : u[i] = s[m]
    BY <1>1, WithoutAddsNothing
  <2> QED  BY <2>1, <2>2, <2>3
<1> QED  BY <1>4, <1>5

-----------------------------------------------------------------------------
(* The invariant: what holds of every file in a history when it holds of    *)
(* the bases.                                                               *)

Ordered == BlocksAreSigned /\ SuffixLast(apk.comment) /\ ChannelsNamed(apk)

LEMMA PackKeepsOrder ==
    ASSUME NEW a \in Apk, NEW r \in Requests, PackError(a, r) = "ok",
           SuffixLast(a.comment), ChannelsNamed(a)
    PROVE  SuffixLast(Packed(a, r).comment) /\ ChannelsNamed(Packed(a, r))
<1> DEFINE b == Packed(a, r)
<1>1. CASE SelectedMode(a, r.mode) = "v1"
  <2>1. /\ r.ch \in Channels /\ Suffix(r.ch) \in CommentToken
        /\ ~V1Found(a.comment) /\ ~V1Broken(a.comment)
        /\ b.pairs = a.pairs /\ b.comment = Append(a.comment, Suffix(r.ch))
    BY <1>1, PackWritesSuffix
  <2>2. a.comment \in Comments
    BY DEF Apk
  <2>3. /\ SuffixLast(b.comment)
        /\ \A i \in DOMAIN b.comment :
              b.comment[i].kind = "suffix" => b.comment[i].channel = r.ch
    BY <2>1, <2>2, GrownComment
  <2> QED  BY <2>1, <2>3 DEF ChannelsNamed
<1>2. CASE SelectedMode(a, r.mode) # "v1"
  <2> DEFINE p == ChannelPair(NormalizeBlockID(r.id), r.ch)
  <2>1. /\ r.ch \in Channels /\ p \in Pair
        /\ b.pairs = InsertChannel(a.pairs, p) /\ b.comment = a.comment
    BY <1>2, PackWritesPair
  <2>2. p.channel = r.ch
    BY DEF ChannelPair
  <2> HIDE DEF p
  <2>3. ASSUME NEW j \in DOMAIN b.pairs, b.pairs[j].enc \in {"raw", "json"}
        PROVE  b.pairs[j].channel \in Channels
    <3>1. a.pairs \in Seq(Pair)
      BY DEF Apk
    <3>2. \/ b.pairs[j] = p \/ b.pairs[j] = Padding
          \/ \E i \in DOMAIN a.pairs : b.pairs[j] = a.pairs[i]
      BY <2>1, <3>1, InsertAddsOnly
    <3> QED  BY <2>1, <2>2, <2>3, <3>2 DEF Padding, ChannelsNamed
  <2> QED  BY <2>1, <2>3 DEF ChannelsNamed
<1> QED  BY <1>1, <1>2

LEMMA RemoveKeepsOrder ==
    ASSUME NEW a \in Apk, NEW r \in Requests, RemoveError(a, r) = "ok", Signed(a),
           SuffixLast(a.comment), ChannelsNamed(a)
    PROVE  SuffixLast(Removed(a, r).comment) /\ ChannelsNamed(Removed(a, r))
<1> DEFINE b == Removed(a, r)
           id == NormalizeBlockID(r.id)
<1>1. /\ b.pairs = a.pairs \/ b.pairs = DropChannel(a.pairs, id)
      /\ \/ b.comment = a.comment
         \/ V1Found(a.comment) /\ b.comment = RemoveV1(a.comment)
  BY RemoveEffect
<1>2. a.pairs \in Seq(Pair) /\ a.comment \in Comments
  BY DEF Apk
<1> HIDE DEF b
<1>3. /\ SuffixLast(b.comment)
      /\ \A i \in DOMAIN b.comment :
            b.comment[i].kind = "suffix" => b.comment[i].channel \in Channels
  BY <1>1, <1>2, CutComment DEF ChannelsNamed
<1>4. ASSUME NEW j \in DOMAIN b.pairs, b.pairs[j].enc \in {"raw", "json"}
      PROVE  b.pairs[j].channel \in Channels
  <2>1. b.pairs[j] = Padding \/ \E i \in DOMAIN a.pairs : b.pairs[j] = a.pairs[i]
    BY <1>1, <1>2, DropAddsPadding
  <2> QED  BY <1>4, <2>1 DEF Padding, ChannelsNamed
<1> QED  BY <1>3, <1>4 DEF ChannelsNamed, b

LEMMA OrderStep ==
    ASSUME TypeOK, Ordered, [Next]_vars
    PROVE  Ordered'
<1> SUFFICES SuffixLast(apk'.comment) /\ ChannelsNamed(apk')
  BY BlocksStaySigned DEF Ordered
<1>1. apk \in Apk /\ Signed(apk) /\ SuffixLast(apk.comment) /\ ChannelsNamed(apk)
  BY DEF Ordered, BlocksAreSigned, Signed, TypeOK
<1>2. ASSUME NEW r \in PackCalls, Pack(r)
      PROVE  SuffixLast(apk'.comment) /\ ChannelsNamed(apk')
  <2>1. r \in Requests
    BY InputsAssumption
  <2>2. \/ apk' = apk
        \/ PackError(apk, r) = "ok" /\ apk' = Packed(apk, r)
    BY <1>2 DEF Pack
  <2> QED  BY <1>1, <2>1, <2>2, PackKeepsOrder
<1>3. ASSUME NEW r \in RemoveCalls, RemoveChannel(r)
      PROVE  SuffixLast(apk'.comment) /\ ChannelsNamed(apk')
  <2>1. r \in Requests
    BY InputsAssumption
  <2>2. \/ apk' = apk
        \/ RemoveError(apk, r) = "ok" /\ apk' = Removed(apk, r)
    BY <1>3 DEF RemoveChannel
  <2> QED  BY <1>1, <2>1, <2>2, RemoveKeepsOrder
<1>4. ASSUME NEW scheme \in Signers, Sign(scheme)
      PROVE  SuffixLast(apk'.comment) /\ ChannelsNamed(apk')
  <2>1. /\ apk'.comment = apk.comment
        /\ apk'.pairs = <<SignaturePair(scheme, apk.comment), Padding>>
    BY <1>1, <1>4 DEF Sign, Apk
  <2>2. \A i \in DOMAIN apk'.pairs : apk'.pairs[i].enc \in {"signature", "zeros"}
    BY <2>1 DEF SignaturePair, Padding
  <2> QED  BY <1>1, <2>1, <2>2 DEF ChannelsNamed
<1>5. CASE UNCHANGED vars
  BY <1>1, <1>5 DEF vars
<1> QED  BY <1>2, <1>3, <1>4, <1>5 DEF Next

(* Bases whose signing block, if any, holds a V2 or later signature, and    *)
(* whose comment was not given a suffix on top of another one.              *)
OrderlyBases ==
    \A a \in Bases : (a.hasBlock => HasModern(a.pairs)) /\ SuffixLast(a.comment)

LEMMA OrderAlways ==
    ASSUME OrderlyBases
    PROVE  Spec => [](TypeOK /\ Ordered)
<1>1. Init => Ordered
  BY InputsAssumption DEF Init, Ordered, BlocksAreSigned, OrderlyBases
<1>2. TypeOK /\ Ordered /\ [Next]_vars => Ordered'
  BY OrderStep
<1> QED  BY <1>1, <1>2, TypeCorrect, PTL DEF Spec

-----------------------------------------------------------------------------
(* Removal.                                                                 *)

LEMMA RemovalIsComplete ==
    ASSUME NEW a \in Apk, NEW r \in Requests, RemoveError(a, r) = "ok", Signed(a),
           SuffixLast(a.comment)
    PROVE  /\ r.mode # "v1" => ~Has(Removed(a, r).pairs, NormalizeBlockID(r.id))
           /\ r.mode # "v2" => /\ ~V1Found(Removed(a, r).comment)
                              /\ ~V1Broken(Removed(a, r).comment)
<1> DEFINE id == NormalizeBlockID(r.id)
           b == Removed(a, r)
<1>1. a.pairs \in Seq(Pair) /\ a.comment \in Comments
  BY DEF Apk
<1>2. ASSUME r.mode # "v1" PROVE ~Has(b.pairs, id)
  <2>1. CASE Has(a.pairs, id)
    <3>1. b.pairs = DropChannel(a.pairs, id)
      BY <1>2, <2>1, RemoveEffect
    <3>2. id \in ChannelIds /\ ~Repeated(a.pairs, id)
      BY <1>2, RemoveEffect DEF ChannelPairBroken
    <3>3. id # "padding"
      BY <3>2, OtherIdsAssumption DEF ChannelIds, ReservedIds
    <3> QED  BY <1>1, <3>1, <3>2, <3>3, DropTarget
  <2>2. CASE ~Has(a.pairs, id)
    <3>1. b.pairs = a.pairs
      BY <1>2, <2>2, RemoveEffect
    <3> QED  BY <2>2, <3>1
  <2> QED  BY <2>1, <2>2
<1>3. ASSUME r.mode # "v2" PROVE ~V1Found(b.comment) /\ ~V1Broken(b.comment)
  <2>1. CASE V1Found(a.comment)
    <3>1. b.comment = RemoveV1(a.comment)
      BY <1>3, <2>1, RemoveEffect
    <3> QED  BY <1>1, <2>1, <3>1, CutComment
  <2>2. CASE ~V1Found(a.comment)
    <3>1. b.comment = a.comment /\ ~V1Broken(a.comment)
      BY <1>3, <2>2, RemoveEffect
    <3> QED  BY <2>2, <3>1
  <2> QED  BY <2>1, <2>2
<1> QED  BY <1>2, <1>3

(* After automatic removal neither representation holds the channel: no     *)
(* pair of the target's ID is left anywhere in the block and no suffix at   *)
(* the end of the comment, though the code removes one pair and one suffix. *)
THEOREM RemovalLeavesNothing ==
    ASSUME OrderlyBases
    PROVE  Spec => []RemovedIsGone
<1>1. Init => RemovedIsGone
  BY DEF Init, RemovedIsGone, Wrote
<1>2. TypeOK /\ Ordered /\ RemovedIsGone /\ [Next]_vars => RemovedIsGone'
  <2> SUFFICES ASSUME TypeOK, Ordered, RemovedIsGone, [Next]_vars
               PROVE  RemovedIsGone'
    OBVIOUS
  <2>1. ASSUME NEW r \in PackCalls, Pack(r) PROVE RemovedIsGone'
    BY <2>1 DEF Pack, RemovedIsGone, Wrote
  <2>2. ASSUME NEW r \in RemoveCalls, RemoveChannel(r) PROVE RemovedIsGone'
    <3> SUFFICES ASSUME last'.result = "ok", last'.req.mode = "auto"
                 PROVE  /\ ~Has(apk'.pairs, NormalizeBlockID(last'.req.id))
                        /\ ~V1Found(apk'.comment)
      BY DEF RemovedIsGone, Wrote
    <3>1. last'.req = r /\ RemoveError(apk, r) = "ok" /\ apk' = Removed(apk, r)
      BY <2>2 DEF RemoveChannel
    <3>2. r \in Requests /\ apk \in Apk /\ Signed(apk) /\ SuffixLast(apk.comment)
      BY InputsAssumption DEF TypeOK, Ordered, BlocksAreSigned, Signed
    <3> QED  BY <3>1, <3>2, RemovalIsComplete
  <2>3. ASSUME NEW scheme \in Signers, Sign(scheme) PROVE RemovedIsGone'
    BY <2>3 DEF Sign, RemovedIsGone, Wrote
  <2>4. CASE UNCHANGED vars
    BY <2>4 DEF vars, RemovedIsGone, Wrote
  <2> QED  BY <2>1, <2>2, <2>3, <2>4 DEF Next
<1> QED  BY <1>1, <1>2, OrderAlways, PTL DEF Spec

-----------------------------------------------------------------------------
(* The contents of slots.                                                   *)

StoreSlots == ChannelIds \cup {"comment"}

LEMMA CommentIsNoId == "comment" \notin ChannelIds
BY OtherIdsAssumption DEF ChannelIds

LEMMA StoreAt ==
    ASSUME NEW a
    PROVE  /\ StoreOf(a)["comment"] = SlotOfComment(a)
           /\ \A id \in ChannelIds : StoreOf(a)[id] = SlotOfPair(a, id)
           /\ DOMAIN StoreOf(a) = StoreSlots
BY CommentIsNoId DEF StoreOf, StoreSlots

LEMMA EmptyPairSlot ==
    ASSUME NEW a, NEW id, ~Has(a.pairs, id)
    PROVE  ~ChannelPairBroken(a.pairs, id) /\ SlotOfPair(a, id) = NoChannel
<1>1. ~ChannelPairBroken(a.pairs, id)
  BY DEF Has, ChannelPairBroken, Repeated
<1> QED  BY <1>1 DEF SlotOfPair

LEMMA FullPairSlot ==
    ASSUME NEW a \in Apk, NEW id, Has(a.pairs, id), ~ChannelPairBroken(a.pairs, id),
           ChannelsNamed(a)
    PROVE  SlotOfPair(a, id) \in Channels
<1> DEFINE k == Position(a.pairs, id)
<1>1. k \in DOMAIN a.pairs /\ a.pairs[k].id = id
  BY PositionIs, LenProperties DEF Apk
<1>2. a.pairs[k].enc \in {"raw", "json"}
  BY <1>1 DEF ChannelPairBroken, ValidPairValue
<1> QED  BY <1>1, <1>2 DEF ChannelsNamed, SlotOfPair

LEMMA CommentSlot ==
    ASSUME NEW a \in Apk, ~V1Broken(a.comment), ChannelsNamed(a)
    PROVE  /\ V1Found(a.comment) => SlotOfComment(a) \in Channels
           /\ ~V1Found(a.comment) => SlotOfComment(a) = NoChannel
<1>1. CASE V1Found(a.comment)
  <2>1. a.comment # <<>> /\ a.comment[Len(a.comment)].kind = "suffix"
    BY <1>1 DEF V1Found, LastIs
  <2>2. Len(a.comment) \in DOMAIN a.comment
    <3>1. a.comment \in Seq(CommentToken) /\ Len(a.comment) \in Nat
          /\ DOMAIN a.comment = 1 .. Len(a.comment)
      BY LenProperties DEF Apk, Comments
    <3>2. Len(a.comment) # 0
      BY <2>1, <3>1, EmptySeq
    <3> QED  BY <3>1, <3>2
  <2>3. a.comment[Len(a.comment)].channel \in Channels
    BY <2>1, <2>2 DEF ChannelsNamed
  <2> QED  BY <1>1, <2>3 DEF SlotOfComment, V1Channel
<1>2. CASE ~V1Found(a.comment)
  BY <1>2 DEF SlotOfComment
<1> QED  BY <1>1, <1>2

LEMMA SamePairSlot ==
    ASSUME NEW a \in Apk, NEW b \in Apk, NEW id, SameFor(a.pairs, b.pairs, id)
    PROVE  SlotOfPair(a, id) = SlotOfPair(b, id)
<1>1. a.pairs \in Seq(Pair) /\ b.pairs \in Seq(Pair)
  BY DEF Apk
<1>2. /\ Has(a.pairs, id) <=> Has(b.pairs, id)
      /\ ChannelPairBroken(a.pairs, id) <=> ChannelPairBroken(b.pairs, id)
      /\ Has(a.pairs, id) /\ ~Repeated(a.pairs, id)
           => a.pairs[Position(a.pairs, id)] = b.pairs[Position(b.pairs, id)]
  BY <1>1, SameSlot
<1>3. ~ChannelPairBroken(a.pairs, id) => ~Repeated(a.pairs, id)
  BY DEF ChannelPairBroken
<1> QED  BY <1>2, <1>3 DEF SlotOfPair

LEMMA StoreType ==
    ASSUME NEW a \in Apk
    PROVE  StoreOf(a) \in [StoreSlots -> Channels \cup {NoChannel, "unreadable"}]
<1>1. ASSUME NEW id \in ChannelIds
      PROVE  SlotOfPair(a, id) \in Channels \cup {NoChannel, "unreadable"}
  <2>1. Has(a.pairs, id) => a.pairs[Position(a.pairs, id)] \in Pair
    BY PositionIs, LenProperties DEF Apk
  <2> QED  BY <2>1 DEF SlotOfPair, Pair
<1>2. SlotOfComment(a) \in Channels \cup {NoChannel, "unreadable"}
  <2>1. V1Found(a.comment) => a.comment[Len(a.comment)] \in CommentToken
    <3> SUFFICES ASSUME V1Found(a.comment)
                 PROVE  Len(a.comment) \in 1 .. Len(a.comment)
      BY LenProperties DEF Apk, Comments
    <3>1. a.comment \in Seq(CommentToken) /\ Len(a.comment) \in Nat /\ a.comment # <<>>
      BY LenProperties DEF Apk, Comments, V1Found, LastIs
    <3>2. Len(a.comment) # 0
      BY <3>1, EmptySeq
    <3> QED  BY <3>1, <3>2
  <2> QED  BY <2>1 DEF SlotOfComment, V1Channel, CommentToken
<1> QED  BY <1>1, <1>2 DEF StoreOf, StoreSlots

-----------------------------------------------------------------------------
(* What a call does to the slots.                                           *)

LEMMA PackFillsComment ==
    ASSUME NEW a \in Apk, NEW r \in Requests, PackError(a, r) = "ok", ChannelsNamed(a),
           SuffixLast(a.comment), SelectedMode(a, r.mode) = "v1"
    PROVE  /\ r.ch \in Channels
           /\ StoreOf(a)["comment"] = NoChannel
           /\ StoreOf(Packed(a, r)) = [StoreOf(a) EXCEPT !["comment"] = r.ch]
<1> DEFINE b == Packed(a, r)
<1>1. /\ r.ch \in Channels /\ Suffix(r.ch) \in CommentToken
      /\ ~V1Found(a.comment) /\ ~V1Broken(a.comment)
      /\ b.pairs = a.pairs /\ b.comment = Append(a.comment, Suffix(r.ch))
  BY PackWritesSuffix
<1>2. SlotOfComment(a) = NoChannel
  BY <1>1 DEF SlotOfComment
<1>3. SlotOfComment(b) = r.ch
  <2>1. a.comment \in Comments
    BY DEF Apk
  <2>2. V1Found(b.comment) /\ ~V1Broken(b.comment) /\ V1Channel(b.comment) = r.ch
    BY <1>1, <2>1, GrownComment
  <2> QED  BY <2>2 DEF SlotOfComment
<1> HIDE DEF b
<1>4. \A id \in ChannelIds : SlotOfPair(b, id) = SlotOfPair(a, id)
  BY <1>1 DEF SlotOfPair
<1>5. StoreOf(b) = [StoreOf(a) EXCEPT !["comment"] = r.ch]
  BY <1>3, <1>4, CommentIsNoId DEF StoreOf
<1> QED  BY <1>1, <1>2, <1>5, StoreAt DEF b

LEMMA PackFillsPair ==
    ASSUME NEW a \in Apk, NEW r \in Requests, PackError(a, r) = "ok",
           SelectedMode(a, r.mode) # "v1"
    PROVE  LET id == NormalizeBlockID(r.id)
           IN  /\ r.ch \in Channels /\ id \in ChannelIds
               /\ StoreOf(a)["comment"] = NoChannel
               /\ StoreOf(a)[id] = NoChannel
               /\ StoreOf(Packed(a, r)) = [StoreOf(a) EXCEPT ![id] = r.ch]
<1> DEFINE b == Packed(a, r)
           id == NormalizeBlockID(r.id)
           p == ChannelPair(id, r.ch)
<1>1. /\ id \in ChannelIds /\ r.ch \in Channels /\ p \in Pair /\ p.id = id
      /\ ValidBlock(a.pairs) /\ ~Has(a.pairs, id)
      /\ ~V1Found(a.comment) /\ ~V1Broken(a.comment)
      /\ b.pairs = InsertChannel(a.pairs, p) /\ b.comment = a.comment
  BY PackWritesPair
<1>2. ValidPairValue(p) /\ p.channel = r.ch
  BY DEF ValidPairValue, ChannelPair
<1>3. b \in Apk
  BY PackedType
<1> HIDE DEF b, p, id
<1>4. a.pairs \in Seq(Pair) /\ b.pairs \in Seq(Pair)
  BY <1>3 DEF Apk
<1>5. SlotOfPair(b, id) = r.ch
  <2>1. /\ Has(b.pairs, id)
        /\ b.pairs[Position(b.pairs, id)] = p
        /\ ~Repeated(b.pairs, id)
    BY <1>1, <1>4, InsertedPair
  <2>2. Position(b.pairs, id) \in DOMAIN b.pairs /\ b.pairs[Position(b.pairs, id)].id = id
    BY <1>4, <2>1, PositionIs, LenProperties
  <2>3. \A i \in DOMAIN b.pairs : b.pairs[i].id = id => b.pairs[i] = p
    BY <2>1, <2>2 DEF Repeated
  <2>4. ~ChannelPairBroken(b.pairs, id)
    BY <1>2, <2>1, <2>3 DEF ChannelPairBroken
  <2> QED  BY <1>2, <2>1, <2>4 DEF SlotOfPair
<1>6. ASSUME NEW s \in ChannelIds, s # id PROVE SlotOfPair(b, s) = SlotOfPair(a, s)
  <2>1. s # "padding"
    BY OtherIdsAssumption DEF ChannelIds, ReservedIds
  <2>2. SameFor(a.pairs, b.pairs, s)
    BY <1>1, <1>4, <1>6, <2>1, InsertOthers
  <2> QED  BY <1>3, <2>2, SamePairSlot
<1>7. SlotOfComment(b) = SlotOfComment(a) /\ SlotOfComment(a) = NoChannel
  BY <1>1 DEF SlotOfComment
<1>8. SlotOfPair(a, id) = NoChannel
  BY <1>1, EmptyPairSlot
<1>9. StoreOf(b) = [StoreOf(a) EXCEPT ![id] = r.ch]
  BY <1>1, <1>5, <1>6, <1>7, CommentIsNoId DEF StoreOf
<1> QED  BY <1>1, <1>7, <1>8, <1>9, StoreAt DEF b, id

LEMMA RemoveClears ==
    ASSUME NEW a \in Apk, NEW r \in Requests, RemoveError(a, r) = "ok", Signed(a),
           ChannelsNamed(a), SuffixLast(a.comment)
    PROVE  /\ \E s \in Cleared(r) : StoreOf(a)[s] # NoChannel
           /\ \A s \in Cleared(r) : StoreOf(a)[s] # "unreadable"
           /\ StoreOf(Removed(a, r)) =
                [s \in StoreSlots |-> IF s \in Cleared(r) THEN NoChannel ELSE StoreOf(a)[s]]
<1> DEFINE b == Removed(a, r)
           id == NormalizeBlockID(r.id)
<1>1. /\ id \in ChannelIds
      /\ r.mode # "v1" => ~ChannelPairBroken(a.pairs, id)
      /\ ~V1Broken(a.comment)
      /\ \/ r.mode # "v1" /\ Has(a.pairs, id)
         \/ r.mode # "v2" /\ V1Found(a.comment)
      /\ b.pairs = IF r.mode # "v1" /\ Has(a.pairs, id)
                   THEN DropChannel(a.pairs, id) ELSE a.pairs
      /\ b.comment = IF r.mode # "v2" /\ V1Found(a.comment)
                     THEN RemoveV1(a.comment) ELSE a.comment
  BY RemoveEffect
<1>2. b \in Apk
  BY RemovedType
<1>3. /\ r.mode # "v1" => ~Has(b.pairs, id)
      /\ r.mode # "v2" => ~V1Found(b.comment) /\ ~V1Broken(b.comment)
  BY RemovalIsComplete
<1>4. id # "comment" /\ id # "padding"
  BY <1>1, OtherIdsAssumption DEF ChannelIds, ReservedIds
<1>5. /\ id \in Cleared(r) <=> r.mode # "v1"
      /\ "comment" \in Cleared(r) <=> r.mode # "v2"
      /\ Cleared(r) \subseteq {id, "comment"}
  BY <1>4 DEF Cleared
<1> HIDE DEF b, id
<1>6. NoChannel \notin Channels /\ "unreadable" \notin Channels /\ NoChannel # "unreadable"
  BY ChannelsAssumption, StoreAssumption
<1>7. /\ V1Found(a.comment) => SlotOfComment(a) \in Channels
      /\ ~V1Found(a.comment) => SlotOfComment(a) = NoChannel
  BY <1>1, CommentSlot
<1>8. r.mode # "v1" => /\ Has(a.pairs, id) => SlotOfPair(a, id) \in Channels
                       /\ ~Has(a.pairs, id) => SlotOfPair(a, id) = NoChannel
  BY <1>1, FullPairSlot, EmptyPairSlot
<1>9. \E s \in Cleared(r) : StoreOf(a)[s] # NoChannel
  BY <1>1, <1>5, <1>6, <1>7, <1>8, StoreAt
<1>10. \A s \in Cleared(r) : StoreOf(a)[s] # "unreadable"
  BY <1>1, <1>5, <1>6, <1>7, <1>8, StoreAt
<1>11. r.mode # "v1" => SlotOfPair(b, id) = NoChannel
  BY <1>3, EmptyPairSlot
<1>12. r.mode # "v2" => SlotOfComment(b) = NoChannel
  BY <1>3 DEF SlotOfComment
<1>13. r.mode = "v2" => SlotOfComment(b) = SlotOfComment(a)
  BY <1>1 DEF SlotOfComment
<1>14. ASSUME NEW s \in ChannelIds, s # id \/ r.mode = "v1"
       PROVE  SlotOfPair(b, s) = SlotOfPair(a, s)
  <2>1. CASE b.pairs = a.pairs
    BY <2>1 DEF SlotOfPair
  <2>2. CASE b.pairs = DropChannel(a.pairs, id) /\ s # id
    <3>1. s # "padding" /\ a.pairs \in Seq(Pair)
      BY OtherIdsAssumption DEF ChannelIds, ReservedIds, Apk
    <3>2. SameFor(a.pairs, b.pairs, s)
      BY <2>2, <3>1, DropOthers
    <3> QED  BY <1>2, <3>2, SamePairSlot
  <2> QED  BY <1>1, <1>14, <2>1, <2>2
<1>15. ASSUME NEW s \in StoreSlots
       PROVE  StoreOf(b)[s] = IF s \in Cleared(r) THEN NoChannel ELSE StoreOf(a)[s]
  <2>1. CASE s = "comment"
    BY <1>5, <1>12, <1>13, <2>1, StoreAt
  <2>2. CASE s \in ChannelIds
    <3>1. s # "comment"
      BY <2>2, CommentIsNoId
    <3>2. s \in Cleared(r) <=> s = id /\ r.mode # "v1"
      BY <1>5, <3>1
    <3> QED  BY <1>11, <1>14, <2>2, <3>2, StoreAt
  <2> QED  BY <2>1, <2>2 DEF StoreSlots
<1>16. StoreOf(b) = [s \in StoreSlots |-> StoreOf(b)[s]]
  BY <1>2, StoreType
<1> QED  BY <1>9, <1>10, <1>15, <1>16 DEF b

(* A refusal speaks the truth about the slots the call would have used.     *)
LEMMA PackRefusal ==
    ASSUME NEW a \in Apk, NEW r \in Requests, PackError(a, r) # "ok", ChannelsNamed(a)
    PROVE  /\ PackError(a, r) # "ErrChannelNotFound"
           /\ PackError(a, r) = "ErrChannelExists" =>
                \/ StoreOf(a)["comment"] # NoChannel
                \/ \E id \in ChannelIds : StoreOf(a)[id] # NoChannel
<1> DEFINE id == NormalizeBlockID(r.id)
<1>1. NoChannel \notin Channels
  BY ChannelsAssumption
<1>2. PreflightError(a, r) \notin {"ErrChannelNotFound", "ErrChannelExists"}
  BY DEF PreflightError, SelectedModeError
<1>3. PackError(a, r) # "ErrChannelNotFound"
  BY <1>2 DEF PackError, WriteV1Error, WriteV2Error, RewriteError
<1>4. ASSUME PackError(a, r) = "ErrChannelExists"
      PROVE  \/ StoreOf(a)["comment"] # NoChannel
             \/ \E s \in ChannelIds : StoreOf(a)[s] # NoChannel
  <2>1. PreflightError(a, r) = "ok"
    BY <1>2, <1>4 DEF PackError
  <2>2. id \in ChannelIds
    BY <2>1, NormalizedId DEF PreflightError, Requests
  <2>3. \/ ~V1Broken(a.comment) /\ V1Found(a.comment)
        \/ Has(a.pairs, id) /\ ~ChannelPairBroken(a.pairs, id)
    <3>1. CASE SelectedMode(a, r.mode) = "v1"
      <4>1. WriteV1Error(a.comment, r.ch) = "ErrChannelExists"
        BY <1>4, <2>1, <3>1 DEF PackError
      <4> QED  BY <4>1 DEF WriteV1Error
    <3>2. CASE SelectedMode(a, r.mode) # "v1"
      <4>1. WriteV2Error(a, id, r.ch) = "ErrChannelExists"
        BY <1>4, <2>1, <3>2 DEF PackError
      <4> QED  BY <4>1 DEF WriteV2Error, RewriteError
    <3> QED  BY <3>1, <3>2
  <2>4. CASE ~V1Broken(a.comment) /\ V1Found(a.comment)
    BY <1>1, <2>4, CommentSlot, StoreAt
  <2>5. CASE Has(a.pairs, id) /\ ~ChannelPairBroken(a.pairs, id)
    BY <1>1, <2>2, <2>5, FullPairSlot, StoreAt
  <2> QED  BY <2>3, <2>4, <2>5
<1> QED  BY <1>3, <1>4

LEMMA RemoveRefusal ==
    ASSUME NEW a \in Apk, NEW r \in Requests, RemoveError(a, r) # "ok"
    PROVE  /\ RemoveError(a, r) # "ErrChannelExists"
           /\ RemoveError(a, r) = "ErrChannelNotFound" =>
                /\ Cleared(r) \subseteq StoreSlots
                /\ r.mode \in {"auto", "v1", "v2"}
                /\ \A s \in Cleared(r) : StoreOf(a)[s] = NoChannel
<1> DEFINE id == NormalizeBlockID(r.id)
<1>1. PreflightError(a, r) \notin {"ErrChannelNotFound", "ErrChannelExists"}
  BY DEF PreflightError, SelectedModeError
<1>2. RemoveError(a, r) # "ErrChannelExists"
  BY <1>1 DEF RemoveError, AutoRemoveError, RemoveV1Error, RemoveV2Error, RewriteError
<1>3. ASSUME RemoveError(a, r) = "ErrChannelNotFound"
      PROVE  /\ Cleared(r) \subseteq StoreSlots
             /\ r.mode \in {"auto", "v1", "v2"}
             /\ \A s \in Cleared(r) : StoreOf(a)[s] = NoChannel
  <2>1. PreflightError(a, r) = "ok"
    BY <1>1, <1>3 DEF RemoveError
  <2>2. id \in ChannelIds /\ r.mode \in {"auto", "v1", "v2"}
    BY <2>1, NormalizedId DEF PreflightError, SelectedModeError, Requests, Modes
  <2> HIDE DEF id
  <2>3. /\ r.mode # "v1" => ~Has(a.pairs, id)
        /\ r.mode # "v2" => ~V1Found(a.comment) /\ ~V1Broken(a.comment)
    <3>1. CASE r.mode = "auto"
      <4>1. AutoRemoveError(a, id) = "ErrChannelNotFound"
        BY <1>3, <2>1, <3>1 DEF RemoveError, id
      <4>2. ModernPairFound(a, id) => RemoveV2Error(a, id) # "ErrChannelNotFound"
        BY DEF ModernPairFound, RemoveV2Error, RewriteError
      <4> QED  BY <4>1, <4>2 DEF AutoRemoveError
    <3>2. CASE r.mode = "v1"
      <4>1. RemoveV1Error(a.comment) = "ErrChannelNotFound"
        BY <1>3, <2>1, <3>2 DEF RemoveError
      <4> QED  BY <3>2, <4>1 DEF RemoveV1Error
    <3>3. CASE r.mode = "v2"
      <4>1. RemoveV2Error(a, id) = "ErrChannelNotFound"
        BY <1>3, <2>1, <3>3 DEF RemoveError, id
      <4> QED  BY <3>3, <4>1 DEF RemoveV2Error, RewriteError
    <3> QED  BY <2>2, <3>1, <3>2, <3>3
  <2>4. /\ r.mode # "v1" => StoreOf(a)[id] = NoChannel
        /\ r.mode # "v2" => StoreOf(a)["comment"] = NoChannel
    BY <2>2, <2>3, EmptyPairSlot, StoreAt DEF SlotOfComment
  <2> QED  BY <2>2, <2>4 DEF Cleared, StoreSlots, id
<1> QED  BY <1>2, <1>3

-----------------------------------------------------------------------------
(* The refinement.                                                          *)

LEMMA ClearedIsTarget ==
    ASSUME NEW r \in Requests, NormalizeBlockID(r.id) \in ChannelIds,
           r.mode \in {"auto", "v1", "v2"}
    PROVE  Cleared(r) \in Abstract!Targets
<1> DEFINE id == NormalizeBlockID(r.id)
<1>1. CASE r.mode = "auto"
  <2>1. Cleared(r) = {id, "comment"}
    BY <1>1 DEF Cleared
  <2> QED  BY <2>1 DEF Abstract!Targets
<1>2. CASE r.mode = "v1"
  <2>1. Cleared(r) = {"comment"}
    BY <1>2 DEF Cleared
  <2> QED  BY <2>1 DEF Abstract!Targets, Abstract!Slots
<1>3. CASE r.mode = "v2"
  <2>1. Cleared(r) = {id}
    BY <1>3 DEF Cleared
  <2> QED  BY <2>1 DEF Abstract!Targets, Abstract!Slots
<1> QED  BY <1>1, <1>2, <1>3

LEMMA SingleIsTarget ==
    \A s \in StoreSlots : {s} \in Abstract!Targets
BY DEF StoreSlots, Abstract!Targets, Abstract!Slots

LEMMA PackIsStoreStep ==
    ASSUME TypeOK, Ordered, NEW r \in PackCalls, Pack(r)
    PROVE  Abstract!StoreNext
<1>1. r \in Requests /\ apk \in Apk /\ ChannelsNamed(apk) /\ SuffixLast(apk.comment)
  BY InputsAssumption DEF TypeOK, Ordered
<1>2. Abstract!Slots = StoreSlots
  BY DEF Abstract!Slots, StoreSlots
<1>3. CASE PackError(apk, r) = "ok"
  <2>1. apk' = Packed(apk, r) /\ last'.result = "ok"
    BY <1>3 DEF Pack
  <2>2. CASE SelectedMode(apk, r.mode) = "v1"
    <3>1. /\ r.ch \in Channels /\ StoreOf(apk)["comment"] = NoChannel
          /\ StoreOf(apk') = [StoreOf(apk) EXCEPT !["comment"] = r.ch]
      BY <1>1, <1>3, <2>1, <2>2, PackFillsComment
    <3>2. Abstract!Put("comment", r.ch)
      BY <2>1, <3>1 DEF Abstract!Put
    <3> QED  BY <1>2, <3>1, <3>2 DEF Abstract!StoreNext, StoreSlots
  <2>3. CASE SelectedMode(apk, r.mode) # "v1"
    <3> DEFINE id == NormalizeBlockID(r.id)
    <3>1. /\ r.ch \in Channels /\ id \in ChannelIds
          /\ StoreOf(apk)["comment"] = NoChannel /\ StoreOf(apk)[id] = NoChannel
          /\ StoreOf(apk') = [StoreOf(apk) EXCEPT ![id] = r.ch]
      BY <1>1, <1>3, <2>1, <2>3, PackFillsPair
    <3>2. Abstract!Put(id, r.ch)
      BY <2>1, <3>1 DEF Abstract!Put
    <3> QED  BY <1>2, <3>1, <3>2 DEF Abstract!StoreNext, StoreSlots
  <2> QED  BY <2>2, <2>3
<1>4. CASE PackError(apk, r) # "ok"
  <2> DEFINE e == PackError(apk, r)
  <2>1. StoreOf(apk') = StoreOf(apk) /\ last'.result = e
    BY <1>4 DEF Pack
  <2>2. e \in Results \ {"ok"}
    BY <1>4, ResultTypes
  <2>3. /\ e # "ErrChannelNotFound"
        /\ e = "ErrChannelExists" => \E s \in StoreSlots : StoreOf(apk)[s] # NoChannel
    BY <1>1, <1>4, PackRefusal DEF StoreSlots
  <2>4. PICK s \in StoreSlots : e = "ErrChannelExists" => StoreOf(apk)[s] # NoChannel
    BY <2>3 DEF StoreSlots
  <2> HIDE DEF e
  <2>5. Abstract!Refuse({s}, e)
    BY <2>1, <2>3, <2>4 DEF Abstract!Refuse
  <2>6. {s} \in Abstract!Targets
    BY <2>4, SingleIsTarget
  <2> QED  BY <2>2, <2>5, <2>6 DEF Abstract!StoreNext
<1> QED  BY <1>3, <1>4

LEMMA RemoveIsStoreStep ==
    ASSUME TypeOK, Ordered, NEW r \in RemoveCalls, RemoveChannel(r)
    PROVE  Abstract!StoreNext
<1>1. /\ r \in Requests /\ apk \in Apk
      /\ ChannelsNamed(apk) /\ SuffixLast(apk.comment) /\ Signed(apk)
  BY InputsAssumption DEF TypeOK, Ordered, BlocksAreSigned, Signed
<1>2. Abstract!Slots = StoreSlots
  BY DEF Abstract!Slots, StoreSlots
<1>3. CASE RemoveError(apk, r) = "ok"
  <2>1. apk' = Removed(apk, r) /\ last'.result = "ok"
    BY <1>3 DEF RemoveChannel
  <2>2. /\ \E s \in Cleared(r) : StoreOf(apk)[s] # NoChannel
        /\ \A s \in Cleared(r) : StoreOf(apk)[s] # "unreadable"
        /\ StoreOf(apk') =
             [s \in StoreSlots |-> IF s \in Cleared(r) THEN NoChannel ELSE StoreOf(apk)[s]]
    BY <1>1, <1>3, <2>1, RemoveClears
  <2>3. Abstract!Clear(Cleared(r))
    BY <1>2, <2>1, <2>2 DEF Abstract!Clear
  <2>4. Cleared(r) \in Abstract!Targets
    <3>1. NormalizeBlockID(r.id) \in ChannelIds /\ r.mode \in {"auto", "v1", "v2"}
      BY <1>1, <1>3, RemoveEffect
    <3> QED  BY <1>1, <3>1, ClearedIsTarget
  <2> QED  BY <2>3, <2>4 DEF Abstract!StoreNext
<1>4. CASE RemoveError(apk, r) # "ok"
  <2> DEFINE e == RemoveError(apk, r)
  <2>1. StoreOf(apk') = StoreOf(apk) /\ last'.result = e
    BY <1>4 DEF RemoveChannel
  <2>2. e \in Results \ {"ok"}
    BY <1>4, ResultTypes
  <2>3. e # "ErrChannelExists"
    BY <1>1, <1>4, RemoveRefusal
  <2>4. CASE e = "ErrChannelNotFound"
    <3>1. \A s \in Cleared(r) : StoreOf(apk)[s] = NoChannel
      BY <1>1, <1>4, <2>4, RemoveRefusal
    <3>2. Cleared(r) \in Abstract!Targets
      <4>1. NormalizeBlockID(r.id) \in ChannelIds
        <5>1. PreflightError(apk, r) = "ok"
          BY <2>4 DEF RemoveError, PreflightError, SelectedModeError
        <5> QED  BY <1>1, <5>1, NormalizedId DEF PreflightError, Requests
      <4>2. r.mode \in {"auto", "v1", "v2"}
        BY <1>1, <1>4, <2>4, RemoveRefusal
      <4> QED  BY <1>1, <4>1, <4>2, ClearedIsTarget
    <3> HIDE DEF e
    <3>3. Abstract!Refuse(Cleared(r), e)
      BY <2>1, <2>3, <3>1 DEF Abstract!Refuse
    <3> QED  BY <2>2, <3>2, <3>3 DEF Abstract!StoreNext
  <2>5. CASE e # "ErrChannelNotFound"
    <3> HIDE DEF e
    <3>1. Abstract!Refuse({"comment"}, e)
      BY <2>1, <2>3, <2>5 DEF Abstract!Refuse
    <3>2. {"comment"} \in Abstract!Targets
      BY SingleIsTarget DEF StoreSlots
    <3> QED  BY <2>2, <3>1, <3>2 DEF Abstract!StoreNext
  <2> QED  BY <2>4, <2>5
<1> QED  BY <1>3, <1>4

LEMMA SignIsStoreStep ==
    ASSUME TypeOK, NEW scheme \in Signers, Sign(scheme)
    PROVE  Abstract!StoreNext
<1>1. /\ apk'.comment = apk.comment /\ last'.result = "ok"
      /\ apk'.pairs = <<SignaturePair(scheme, apk.comment), Padding>>
  BY DEF Sign, TypeOK, Apk
<1>2. ASSUME NEW id \in ChannelIds PROVE SlotOfPair(apk', id) = NoChannel
  <2>1. id # scheme /\ id # "padding"
    BY InputsAssumption, SchemesAreNoChannels, OtherIdsAssumption DEF ChannelIds, ReservedIds
  <2>2. \A i \in DOMAIN apk'.pairs : apk'.pairs[i].id \in {scheme, "padding"}
    BY <1>1 DEF SignaturePair, Padding
  <2>3. ~Has(apk'.pairs, id)
    BY <2>1, <2>2 DEF Has
  <2> QED  BY <2>3, EmptyPairSlot
<1>3. SlotOfComment(apk') = SlotOfComment(apk)
  BY <1>1 DEF SlotOfComment
<1>4. StoreOf(apk') =
        [s \in StoreSlots |-> IF s = "comment" THEN StoreOf(apk)[s] ELSE NoChannel]
  BY <1>2, <1>3, StoreAt DEF StoreOf, StoreSlots
<1>5. Abstract!Slots = StoreSlots
  BY DEF Abstract!Slots, StoreSlots
<1>6. Abstract!Resign
  BY <1>1, <1>4, <1>5 DEF Abstract!Resign
<1> QED  BY <1>6 DEF Abstract!StoreNext

(* Pack, RemoveChannel and the signer, on the bytes of blocks and comments, *)
(* do what ChannelStore says of slots: fill one empty slot, empty the named *)
(* ones, or refuse with an error that is true of the slots.                 *)
THEOREM CallsAreStoreCalls ==
    ASSUME OrderlyBases
    PROVE  Spec => ImplementsStore
<1>1. Init => Abstract!StoreInit
  <2> SUFFICES ASSUME Init PROVE Abstract!StoreInit
    OBVIOUS
  <2>1. apk \in Apk /\ last.result = "ok"
    BY InputsAssumption DEF Init
  <2>2. StoreOf(apk) \in [StoreSlots -> Channels \cup {NoChannel, "unreadable"}]
    BY <2>1, StoreType
  <2> QED  BY <2>1, <2>2 DEF StoreSlots, Abstract!StoreInit, Abstract!StoreTypeOK, Abstract!Slots
<1>2. TypeOK /\ Ordered /\ [Next]_vars =>
        [Abstract!StoreNext]_<<StoreOf(apk), last.result>>
  <2> SUFFICES ASSUME TypeOK, Ordered, [Next]_vars
               PROVE  [Abstract!StoreNext]_<<StoreOf(apk), last.result>>
    OBVIOUS
  <2>1. CASE UNCHANGED vars
    <3>1. StoreOf(apk') = StoreOf(apk) /\ last' = last
      BY <2>1 DEF vars
    <3> QED  BY <3>1
  <2>2. CASE Next
    BY <2>2, PackIsStoreStep, RemoveIsStoreStep, SignIsStoreStep DEF Next
  <2> QED  BY <2>1, <2>2
<1> QED  BY <1>1, <1>2, OrderAlways, PTL DEF Spec, ImplementsStore, Abstract!StoreSpec

-----------------------------------------------------------------------------
(* What apktag writes, apktag loads.                                        *)

LEMMA BlockAligned ==
    ASSUME NEW s \in Seq(Pair), Has(s, "padding")
    PROVE  BlockLen(s) \in Nat /\ BlockLen(s) % PageSize = 0
<1> DEFINE lens == [i \in DOMAIN s |-> 12 + s[i].len]
<1>1. lens \in Seq(Nat)
  <2>1. DOMAIN s = 1 .. Len(s) /\ Len(s) \in Nat
    BY LenProperties
  <2>2. ASSUME NEW i \in DOMAIN s PROVE 12 + s[i].len \in Nat
    <3>1. s[i] \in Pair
      BY <2>1, ElementOfSeq
    <3> QED  BY <3>1 DEF Pair
  <2> QED  BY <2>1, <2>2
<1>2. PICK n \in Nat : n = RawLen(s)
  <2>1. Total(lens) \in Nat
    BY <1>1, TotalType
  <2> QED  BY <2>1 DEF RawLen
<1>3. Fill(n) \in Nat /\ (n + Fill(n)) % PageSize = 0
  BY PageAssumption, FillAligns DEF Fill
<1> QED  BY <1>2, <1>3 DEF BlockLen

LEMMA EndsPadded ==
    ASSUME NEW s \in Seq(Pair)
    PROVE  /\ \A p \in Pair : Has(InsertChannel(s, p), "padding")
           /\ \A x : Has(DropChannel(s, x), "padding")
<1>1. ASSUME NEW t \in Seq(Pair) PROVE Has(Append(t, Padding), "padding")
  <2>1. PICK u \in Seq(Pair) : u = Append(t, Padding)
    BY PaddingType, AppendProperties
  <2>2. Len(t) \in Nat /\ Len(u) = Len(t) + 1 /\ DOMAIN u = 1 .. Len(u) /\ u[Len(t) + 1] = Padding
    BY <2>1, PaddingType, AppendProperties, LenProperties
  <2>3. Len(t) + 1 \in DOMAIN u
    BY <2>2
  <2> QED  BY <2>1, <2>2, <2>3 DEF Has, Padding
<1>2. ASSUME NEW p \in Pair PROVE Has(InsertChannel(s, p), "padding")
  <2>1. PICK t \in Seq(Pair) : t = IF Has(s, "padding")
                                  THEN [s EXCEPT ![Position(s, "padding")] = p]
                                  ELSE Append(s, p)
    BY PositionIs, ExceptSeq, AppendProperties
  <2> QED  BY <1>1, <2>1 DEF InsertChannel, Assemble
<1>3. ASSUME NEW x PROVE Has(DropChannel(s, x), "padding")
  <2>1. PICK u \in Seq(Pair) : u = Without(s, x)
    BY WithoutType
  <2>2. PICK t \in Seq(Pair) : t = Without(u, "padding")
    BY WithoutType
  <2> QED  BY <1>1, <2>1, <2>2 DEF DropChannel, Assemble
<1> QED  BY <1>2, <1>3

LEMMA InsertEnds ==
    ASSUME NEW s \in Seq(Pair), NEW p \in Pair
    PROVE  LET t == InsertChannel(s, p)
           IN  t[Len(t)].id = "padding" /\ BlockLen(t) % PageSize = 0
<1>1. PICK t \in Seq(Pair) : t = InsertChannel(s, p)
  BY InsertType
<1>2. Len(t) \in DOMAIN t /\ t[Len(t)] = Padding
  <2>1. Len(t) \in Nat /\ Gap(s) \in 1 .. Len(t) - 1 /\ t[Len(t)] = Padding
    BY <1>1, InsertShape
  <2>2. Len(t) \in 1 .. Len(t)
    BY <2>1
  <2> QED  BY <2>1, <2>2, LenProperties
<1>3. t[Len(t)].id = "padding" /\ Has(t, "padding")
  BY <1>2 DEF Has, Padding
<1> QED  BY <1>1, <1>3, BlockAligned

LEMMA DropEnds ==
    ASSUME NEW s \in Seq(Pair), NEW id \in ChannelIds, ValidBlock(s)
    PROVE  LET t == DropChannel(s, id)
           IN  ValidBlock(t) /\ t[Len(t)].id = "padding" /\ BlockLen(t) % PageSize = 0
<1>1. PICK u \in Seq(Pair) : u = Without(s, id)
  BY WithoutType
<1>2. PICK v \in Seq(Pair) : v = Without(u, "padding")
  BY WithoutType
<1>3. PICK t \in Seq(Pair) : t = DropChannel(s, id)
  BY DropType
<1>4. id # "padding" /\ id \notin ReservedIds
  BY OtherIdsAssumption DEF ChannelIds, ReservedIds, SignatureIds
<1>5. /\ Len(v) \in Nat /\ DOMAIN v = 1 .. Len(v)
      /\ Len(t) = Len(v) + 1 /\ DOMAIN t = 1 .. Len(v) + 1
      /\ \A i \in 1 .. Len(v) : t[i] = v[i]
      /\ t[Len(v) + 1] = Padding
  <2>1. t = Append(v, Padding)
    BY <1>1, <1>2, <1>3 DEF DropChannel, Assemble
  <2> QED  BY <2>1, PaddingType, AppendProperties, LenProperties
<1>6. ~Has(v, "padding")
  <2>1. ~Repeated(s, "padding")
    BY DEF ValidBlock, ReservedIds
  <2>2. ~Repeated(u, "padding")
    BY <1>1, <1>4, <2>1, WithoutOthers DEF SameFor
  <2> QED  BY <1>2, <2>2, WithoutTarget
<1>7. \A i \in DOMAIN t : t[i].id = "padding" => i = Len(v) + 1
  BY <1>5, <1>6 DEF Has
<1>8. ASSUME NEW x \in ReservedIds \cup {"vasdolly"} PROVE ~Repeated(t, x)
  <2>1. ~Repeated(s, x)
    BY DEF ValidBlock
  <2>2. CASE x = "padding"
    BY <1>7, <2>2 DEF Repeated
  <2>3. CASE x = id
    <3>1. ~Has(t, id)
      BY <1>3, <1>4, <2>1, <2>3, DropTarget
    <3> QED  BY <2>3, <3>1 DEF Has, Repeated
  <2>4. CASE x \notin {id, "padding"}
    BY <1>3, <2>1, <2>4, DropOthers DEF SameFor
  <2> QED  BY <2>2, <2>3, <2>4
<1>9. \A i \in DOMAIN t : t[i].id = "padding" => t[i].enc = "zeros"
  BY <1>5, <1>7 DEF Padding
<1>10. t[Len(t)].id = "padding" /\ Has(t, "padding")
  <2>1. Len(v) + 1 \in DOMAIN t
    BY <1>5
  <2> QED  BY <1>5, <2>1 DEF Has, Padding
<1>11. ValidBlock(t)
  BY <1>8, <1>9 DEF ValidBlock
<1> QED  BY <1>3, <1>10, <1>11, BlockAligned

(* What a rewritten file must be for loadArchive to take it again.          *)
Reloads(a, b) ==
    /\ CDOffset(b) # MaxOffset => Loads(b)
    /\ b.pairs # a.pairs => /\ BlockLen(b.pairs) % PageSize = 0
                            /\ b.pairs[Len(b.pairs)].id = "padding"

LEMMA PackReloads ==
    ASSUME NEW a \in Apk, NEW r \in Requests, PackError(a, r) = "ok"
    PROVE  Reloads(a, Packed(a, r))
<1> DEFINE b == Packed(a, r)
<1>1. Loads(a) /\ b.intact = a.intact
  BY DEF PackError, PreflightError, Packed, WriteV2, Apk
<1>2. CASE SelectedMode(a, r.mode) = "v1"
  <2>1. b.hasBlock = a.hasBlock /\ b.pairs = a.pairs
    BY <1>2, PackWritesSuffix
  <2> QED  BY <1>1, <2>1 DEF Reloads, Loads
<1>3. CASE SelectedMode(a, r.mode) # "v1"
  <2>1. PICK p \in Pair :
           /\ p.id \in ChannelIds /\ ~Has(a.pairs, p.id) /\ ValidBlock(a.pairs)
           /\ b.pairs = InsertChannel(a.pairs, p)
    BY <1>3, PackWritesPair
  <2>2. a.pairs \in Seq(Pair)
    BY DEF Apk
  <2>3. ValidBlock(b.pairs)
    BY <2>1, <2>2, InsertedPair
  <2>4. BlockLen(b.pairs) % PageSize = 0 /\ b.pairs[Len(b.pairs)].id = "padding"
    BY <2>1, <2>2, InsertEnds
  <2> HIDE DEF b
  <2> QED  BY <1>1, <2>3, <2>4 DEF Reloads, Loads, b
<1> QED  BY <1>2, <1>3

LEMMA RemoveChanges ==
    ASSUME NEW a \in Apk, NEW r \in Requests, RemoveError(a, r) = "ok"
    PROVE  LET id == NormalizeBlockID(r.id)
               b == Removed(a, r)
           IN  /\ id \in ChannelIds /\ Loads(a)
               /\ b.intact = a.intact /\ b.hasBlock = a.hasBlock /\ b.start = a.start
               /\ \/ b.pairs = a.pairs
                  \/ a.hasBlock /\ b.pairs = DropChannel(a.pairs, id)
               /\ \/ b.comment = a.comment
                  \/ V1Found(a.comment) /\ b.comment = RemoveV1(a.comment)
<1> DEFINE b == Removed(a, r)
           id == NormalizeBlockID(r.id)
<1>1. id \in ChannelIds /\ Loads(a) /\ r.mode \in {"auto", "v1", "v2"}
  BY NormalizedId DEF RemoveError, PreflightError, SelectedModeError, Requests, Modes
<1> HIDE DEF id
<1>2. CASE r.mode = "auto"
  <2>1. ModernPairFound(a, id) => a.hasBlock
    BY <1>2 DEF RemoveError, AutoRemoveError, RemoveV2Error, id
  <2>2. b = AutoRemoved(a, id)
    BY <1>2 DEF Removed, id
  <2>3. /\ AfterPair(a, id) \in Apk
        /\ AfterPair(a, id).intact = a.intact /\ AfterPair(a, id).hasBlock = a.hasBlock
        /\ AfterPair(a, id).start = a.start /\ AfterPair(a, id).comment = a.comment
        /\ \/ AfterPair(a, id).pairs = a.pairs
           \/ a.hasBlock /\ AfterPair(a, id).pairs = DropChannel(a.pairs, id)
    BY <2>1, RemoveV2Type DEF AfterPair, RemoveV2, Apk
  <2>4. /\ b.intact = AfterPair(a, id).intact /\ b.hasBlock = AfterPair(a, id).hasBlock
        /\ b.start = AfterPair(a, id).start /\ b.pairs = AfterPair(a, id).pairs
        /\ \/ b.comment = AfterPair(a, id).comment
           \/ V1Found(a.comment) /\ b.comment = RemoveV1(AfterPair(a, id).comment)
    BY <2>2, <2>3 DEF AutoRemoved, CutSuffix, Apk
  <2> HIDE DEF b
  <2> QED  BY <1>1, <2>3, <2>4 DEF b, id
<1>3. CASE r.mode = "v1"
  <2>1. V1Found(a.comment) /\ b = CutSuffix(a)
    BY <1>3 DEF RemoveError, RemoveV1Error, Removed
  <2> QED  BY <1>1, <2>1 DEF CutSuffix, Apk, id
<1>4. CASE r.mode = "v2"
  <2>1. a.hasBlock /\ b = RemoveV2(a, id)
    BY <1>4 DEF RemoveError, RemoveV2Error, Removed, id
  <2> QED  BY <1>1, <2>1 DEF RemoveV2, Apk, id
<1> QED  BY <1>1, <1>2, <1>3, <1>4

LEMMA RemovalReloads ==
    ASSUME NEW a \in Apk, NEW r \in Requests, RemoveError(a, r) = "ok"
    PROVE  Reloads(a, Removed(a, r))
<1> DEFINE b == Removed(a, r)
           id == NormalizeBlockID(r.id)
<1>1. /\ id \in ChannelIds /\ Loads(a)
      /\ b.intact = a.intact /\ b.hasBlock = a.hasBlock /\ b.start = a.start
      /\ \/ b.pairs = a.pairs
         \/ a.hasBlock /\ b.pairs = DropChannel(a.pairs, id)
  BY RemoveChanges
<1>2. a.pairs \in Seq(Pair)
  BY DEF Apk
<1> HIDE DEF b, id
<1>3. CASE b.pairs = a.pairs
  BY <1>1, <1>3 DEF Reloads, Loads, b, CDOffset
<1>4. CASE a.hasBlock /\ b.pairs = DropChannel(a.pairs, id)
  <2>1. ValidBlock(a.pairs)
    BY <1>1, <1>4 DEF Loads
  <2>2. /\ ValidBlock(b.pairs)
        /\ BlockLen(b.pairs) % PageSize = 0 /\ b.pairs[Len(b.pairs)].id = "padding"
    BY <1>1, <1>2, <1>4, <2>1, DropEnds
  <2> QED  BY <1>1, <2>2 DEF Reloads, Loads, b
<1> QED  BY <1>1, <1>3, <1>4

(* Every file Pack or RemoveChannel writes is one loadArchive takes again,  *)
(* its rewritten block page-aligned with the padding last: for any page     *)
(* size and any bases, except where the central directory lands on the      *)
(* sentinel.                                                                *)
THEOREM WhatIsWrittenReloads ==
    Spec => [](CDOffset(apk) # MaxOffset => ProducedReloads)
<1> DEFINE Good == CDOffset(apk) # MaxOffset => ProducedReloads
<1>1. Init => Good
  BY DEF Init, ProducedReloads, Rewritten, Wrote
<1>2. TypeOK /\ Good /\ [Next]_vars => Good'
  <2> SUFFICES ASSUME TypeOK, Good, [Next]_vars PROVE Good'
    OBVIOUS
  <2>1. apk \in Apk
    BY DEF TypeOK
  <2>2. ASSUME Reloads(prior', apk') PROVE Good'
    BY <2>2 DEF Reloads, ProducedReloads, Rewritten, Wrote
  <2>3. ASSUME ~Wrote("pack")', ~Wrote("remove")' PROVE Good'
    BY <2>3 DEF ProducedReloads, Rewritten
  <2>4. ASSUME NEW r \in PackCalls, Pack(r) PROVE Good'
    <3>1. CASE PackError(apk, r) = "ok"
      BY <2>1, <2>2, <2>4, <3>1, InputsAssumption, PackReloads DEF Pack
    <3>2. CASE PackError(apk, r) # "ok"
      BY <2>3, <2>4, <3>2 DEF Pack, Wrote
    <3> QED  BY <3>1, <3>2
  <2>5. ASSUME NEW r \in RemoveCalls, RemoveChannel(r) PROVE Good'
    <3>1. CASE RemoveError(apk, r) = "ok"
      BY <2>1, <2>2, <2>5, <3>1, InputsAssumption, RemovalReloads DEF RemoveChannel
    <3>2. CASE RemoveError(apk, r) # "ok"
      BY <2>3, <2>5, <3>2 DEF RemoveChannel, Wrote
    <3> QED  BY <3>1, <3>2
  <2>6. ASSUME NEW scheme \in Signers, Sign(scheme) PROVE Good'
    BY <2>3, <2>6 DEF Sign, Wrote
  <2>7. CASE UNCHANGED vars
    BY <2>7 DEF vars, ProducedReloads, Rewritten, Wrote
  <2> QED  BY <2>4, <2>5, <2>6, <2>7 DEF Next
<1> QED  BY <1>1, <1>2, TypeCorrect, PTL DEF Spec

-----------------------------------------------------------------------------
(* Foreign metadata.                                                        *)

LEMMA InsertKept ==
    ASSUME NEW s \in Seq(Pair), NEW p \in Pair, NEW S, p \notin S,
           \A q \in S : q.id # "padding"
    PROVE  Kept(InsertChannel(s, p), S) = Kept(s, S)
<1>1. Padding \notin S /\ Padding \in Pair
  BY PaddingType DEF Padding
<1>2. CASE Has(s, "padding")
  <2>1. PICK k \in 1 .. Len(s) : k = Position(s, "padding") /\ s[k].id = "padding"
    BY <1>2, PositionIs
  <2>2. PICK u \in Seq(Pair) : u = [s EXCEPT ![k] = p]
    BY ExceptSeq
  <2>3. /\ Len(u) = Len(s) /\ u[k] = p
        /\ \A i \in 1 .. Len(s) : i # k => u[i] = s[i]
    BY <2>2, ExceptSeq
  <2>4. \A i \in 1 .. Len(u) : (u[i] \in S <=> s[i] \in S) /\ (u[i] \in S => u[i] = s[i])
    BY <2>1, <2>3
  <2>5. Kept(u, S) = Kept(s, S)
    BY <2>3, <2>4, KeptSame
  <2>6. Kept(Append(u, Padding), S) = Kept(u, S)
    BY <1>1, KeptAppend
  <2> QED  BY <1>2, <2>1, <2>2, <2>5, <2>6 DEF InsertChannel, Assemble
<1>3. CASE ~Has(s, "padding")
  <2>1. Append(s, p) \in Seq(Pair)
    BY AppendProperties
  <2>2. Kept(Append(Append(s, p), Padding), S) = Kept(Append(s, p), S)
    BY <1>1, <2>1, KeptAppend
  <2>3. Kept(Append(s, p), S) = Kept(s, S)
    BY KeptAppend
  <2> QED  BY <1>3, <2>2, <2>3 DEF InsertChannel, Assemble
<1> QED  BY <1>2, <1>3

LEMMA WithoutKept ==
    ASSUME NEW s \in Seq(Pair), NEW x, NEW S, \A q \in S : q.id # x
    PROVE  Kept(Without(s, x), S) = Kept(s, S)
<1>1. CASE ~Has(s, x)
  BY <1>1 DEF Without
<1>2. CASE Has(s, x)
  <2>1. PICK k \in 1 .. Len(s) : k = Position(s, x) /\ s[k].id = x
    BY <1>2, PositionIs
  <2>2. PICK t \in Seq(Pair) : t = RemoveAt(s, k)
    BY RemoveAtShape
  <2>3. /\ Len(t) = Len(s) - 1
        /\ \A i \in 1 .. k - 1 : t[i] = s[i]
        /\ \A i \in k + 1 .. Len(s) : t[i - 1] = s[i]
    BY <2>2, RemoveAtShape
  <2>4. s[k] \notin S
    BY <2>1
  <2>5. Kept(t, S) = Kept(s, S)
    BY <2>3, <2>4, KeptWithout
  <2> QED  BY <1>2, <2>1, <2>2, <2>5 DEF Without
<1> QED  BY <1>1, <1>2

LEMMA DropKept ==
    ASSUME NEW s \in Seq(Pair), NEW x, NEW S, \A q \in S : q.id \notin {x, "padding"}
    PROVE  Kept(DropChannel(s, x), S) = Kept(s, S)
<1>1. PICK u \in Seq(Pair) : u = Without(s, x)
  BY WithoutType
<1>2. PICK v \in Seq(Pair) : v = Without(u, "padding")
  BY WithoutType
<1>3. Kept(u, S) = Kept(s, S) /\ Kept(v, S) = Kept(u, S)
  BY <1>1, <1>2, WithoutKept
<1>4. Padding \notin S /\ Padding \in Pair
  BY PaddingType DEF Padding
<1>5. Kept(Append(v, Padding), S) = Kept(v, S)
  BY <1>4, KeptAppend
<1> QED  BY <1>1, <1>2, <1>3, <1>5 DEF DropChannel, Assemble

LEMMA CommentKept ==
    ASSUME NEW a \in Apk, NEW b \in Apk,
           \/ b.comment = a.comment
           \/ V1Found(a.comment) /\ b.comment = RemoveV1(a.comment)
           \/ \E ch \in Channels : b.comment = WriteV1(a.comment, ch)
    PROVE  ForeignComment(b) = ForeignComment(a)
<1> DEFINE S == {t \in CommentToken : t.kind # "suffix"}
<1>1. /\ a.comment \in Seq(CommentToken) /\ b.comment \in Seq(CommentToken)
      /\ Len(a.comment) \in Nat
  BY LenProperties DEF Apk, Comments
<1>2. CASE V1Found(a.comment) /\ b.comment = RemoveV1(a.comment)
  <2> DEFINE c == a.comment
             n == Len(c)
  <2>1. n # 0 /\ c[n] \notin S
    BY <1>1, <1>2, EmptySeq DEF V1Found, LastIs
  <2>2. /\ n \in 1 .. n /\ Len(b.comment) = n - 1
        /\ \A i \in 1 .. n - 1 : b.comment[i] = c[i]
        /\ \A i \in n + 1 .. n : b.comment[i - 1] = c[i]
    BY <1>1, <1>2, <2>1, SubSeqProperties DEF RemoveV1
  <2> HIDE DEF S
  <2>3. Kept(b.comment, S) = Kept(c, S)
    BY <1>1, <2>1, <2>2, KeptWithout
  <2> QED  BY <2>3 DEF ForeignComment, S
<1>3. ASSUME NEW ch \in Channels, b.comment = WriteV1(a.comment, ch)
      PROVE  ForeignComment(b) = ForeignComment(a)
  <2>1. Suffix(ch) \in CommentToken
    <3>1. ChannelLen[ch] + 10 \in Nat
      BY ChannelsAssumption
    <3> QED  BY <3>1 DEF Suffix, SuffixLen, CommentToken
  <2>2. Suffix(ch) \notin S
    BY DEF Suffix
  <2> HIDE DEF S
  <2>3. Kept(b.comment, S) = Kept(a.comment, S)
    BY <1>1, <1>3, <2>1, <2>2, KeptAppend DEF WriteV1
  <2> QED  BY <2>3 DEF ForeignComment, S
<1> QED  BY <1>2, <1>3 DEF ForeignComment

LEMMA PackKeepsForeign ==
    ASSUME NEW a \in Apk, NEW r \in Requests, PackError(a, r) = "ok"
    PROVE  /\ ForeignPairs(Packed(a, r), NormalizeBlockID(r.id))
                 = ForeignPairs(a, NormalizeBlockID(r.id))
           /\ ForeignComment(Packed(a, r)) = ForeignComment(a)
<1> DEFINE b == Packed(a, r)
           id == NormalizeBlockID(r.id)
<1>1. b \in Apk /\ a.pairs \in Seq(Pair)
  BY PackedType DEF Apk
<1>2. CASE SelectedMode(a, r.mode) = "v1"
  <2>1. r.ch \in Channels /\ b.pairs = a.pairs /\ b.comment = WriteV1(a.comment, r.ch)
    BY <1>2, PackWritesSuffix DEF WriteV1
  <2> HIDE DEF b
  <2>2. ForeignComment(b) = ForeignComment(a)
    BY <1>1, <2>1, CommentKept
  <2> QED  BY <2>1, <2>2 DEF ForeignPairs, b
<1>3. CASE SelectedMode(a, r.mode) # "v1"
  <2>1. PICK p \in Pair : p.id = id /\ b.pairs = InsertChannel(a.pairs, p) /\ b.comment = a.comment
    BY <1>3, PackWritesPair
  <2> DEFINE S == PairsBut({id, "padding"})
  <2>2. p \notin S /\ \A q \in S : q.id # "padding"
    BY <2>1 DEF PairsBut
  <2> HIDE DEF S, b
  <2>3. Kept(b.pairs, S) = Kept(a.pairs, S)
    BY <1>1, <2>1, <2>2, InsertKept
  <2>4. ForeignComment(b) = ForeignComment(a)
    BY <2>1 DEF ForeignComment
  <2> QED  BY <2>3, <2>4 DEF ForeignPairs, S, b
<1> QED  BY <1>2, <1>3

LEMMA RemoveKeepsForeign ==
    ASSUME NEW a \in Apk, NEW r \in Requests, RemoveError(a, r) = "ok"
    PROVE  /\ ForeignPairs(Removed(a, r), NormalizeBlockID(r.id))
                 = ForeignPairs(a, NormalizeBlockID(r.id))
           /\ ForeignComment(Removed(a, r)) = ForeignComment(a)
<1> DEFINE b == Removed(a, r)
           id == NormalizeBlockID(r.id)
           S == PairsBut({id, "padding"})
<1>1. b \in Apk /\ a.pairs \in Seq(Pair)
  BY RemovedType DEF Apk
<1>2. /\ b.pairs = a.pairs \/ b.pairs = DropChannel(a.pairs, id)
      /\ \/ b.comment = a.comment
         \/ V1Found(a.comment) /\ b.comment = RemoveV1(a.comment)
  BY RemoveChanges
<1>3. \A q \in S : q.id \notin {id, "padding"}
  BY DEF PairsBut
<1> HIDE DEF b, S
<1>4. Kept(b.pairs, S) = Kept(a.pairs, S)
  BY <1>1, <1>2, <1>3, DropKept
<1>5. ForeignComment(b) = ForeignComment(a)
  BY <1>1, <1>2, CommentKept
<1> QED  BY <1>4, <1>5 DEF ForeignPairs, S, b

(* No call of Pack or RemoveChannel, whatever its result, changes a foreign *)
(* pair or its place among the others, or a foreign byte of the comment:    *)
(* for blocks and comments of any length.                                   *)
THEOREM ForeignStaysForeign == Spec => ForeignMetadataKept
<1> DEFINE Same == LET id == NormalizeBlockID(last'.req.id)
                   IN  /\ ForeignPairs(apk', id) = ForeignPairs(apk, id)
                       /\ ForeignComment(apk') = ForeignComment(apk)
<1>1. TypeOK /\ [Next]_vars => [last'.op \in {"pack", "remove"} => Same]_vars
  <2> SUFFICES ASSUME TypeOK, Next, last'.op \in {"pack", "remove"} PROVE Same
    OBVIOUS
  <2>1. apk \in Apk
    BY DEF TypeOK
  <2>2. ASSUME NEW r \in PackCalls, Pack(r) PROVE Same
    <3>1. last'.req = r /\ r \in Requests
      BY <2>2, InputsAssumption DEF Pack
    <3>2. CASE PackError(apk, r) = "ok"
      <4>1. apk' = Packed(apk, r)
        BY <2>2, <3>2 DEF Pack
      <4> QED  BY <2>1, <3>1, <3>2, <4>1, PackKeepsForeign
    <3>3. CASE PackError(apk, r) # "ok"
      BY <2>2, <3>3 DEF Pack
    <3> QED  BY <3>2, <3>3
  <2>3. ASSUME NEW r \in RemoveCalls, RemoveChannel(r) PROVE Same
    <3>1. last'.req = r /\ r \in Requests
      BY <2>3, InputsAssumption DEF RemoveChannel
    <3>2. CASE RemoveError(apk, r) = "ok"
      <4>1. apk' = Removed(apk, r)
        BY <2>3, <3>2 DEF RemoveChannel
      <4> QED  BY <2>1, <3>1, <3>2, <4>1, RemoveKeepsForeign
    <3>3. CASE RemoveError(apk, r) # "ok"
      BY <2>3, <3>3 DEF RemoveChannel
    <3> QED  BY <3>2, <3>3
  <2>4. \A scheme \in Signers : ~Sign(scheme)
    BY DEF Sign
  <2> QED  BY <2>2, <2>3, <2>4 DEF Next
<1> QED  BY <1>1, TypeCorrect, PTL DEF Spec, ForeignMetadataKept

-----------------------------------------------------------------------------
(* Removal undoes packing.                                                  *)

LEMMA RawLenType ==
    ASSUME NEW s \in Seq(Pair)
    PROVE  LET lens == [i \in DOMAIN s |-> 12 + s[i].len]
           IN  /\ lens \in Seq(Nat) /\ Len(lens) = Len(s)
               /\ \A i \in 1 .. Len(s) : lens[i] = 12 + s[i].len
               /\ RawLen(s) = 32 + Total(lens) /\ RawLen(s) \in Nat
<1> DEFINE lens == [i \in DOMAIN s |-> 12 + s[i].len]
<1>1. DOMAIN s = 1 .. Len(s) /\ Len(s) \in Nat
  BY LenProperties
<1>2. ASSUME NEW i \in DOMAIN s PROVE 12 + s[i].len \in Nat
  <2>1. s[i] \in Pair
    BY <1>1, ElementOfSeq
  <2> QED  BY <2>1 DEF Pair
<1>3. lens \in Seq(Nat) /\ Len(lens) = Len(s) /\ \A i \in 1 .. Len(s) : lens[i] = 12 + s[i].len
  BY <1>1, <1>2
<1>4. RawLen(s) = 32 + Total(lens)
  BY DEF RawLen
<1>5. Total(lens) \in Nat
  BY <1>3, TotalType
<1> QED  BY <1>3, <1>4, <1>5

(* A pair that goes takes its header along.                                 *)
LEMMA ShorterBlock ==
    ASSUME NEW s \in Seq(Pair), NEW t \in Seq(Pair), NEW k \in 1 .. Len(s),
           Len(t) = Len(s) - 1,
           \A i \in 1 .. k - 1 : t[i] = s[i],
           \A i \in k + 1 .. Len(s) : t[i - 1] = s[i]
    PROVE  RawLen(s) = RawLen(t) + 12 + s[k].len /\ s[k].len \in Nat
<1> DEFINE ls == [i \in DOMAIN s |-> 12 + s[i].len]
           lt == [i \in DOMAIN t |-> 12 + t[i].len]
<1>1. /\ ls \in Seq(Nat) /\ Len(ls) = Len(s) /\ \A i \in 1 .. Len(s) : ls[i] = 12 + s[i].len
      /\ RawLen(s) = 32 + Total(ls)
  BY RawLenType
<1>2. /\ lt \in Seq(Nat) /\ Len(lt) = Len(t) /\ \A i \in 1 .. Len(t) : lt[i] = 12 + t[i].len
      /\ RawLen(t) = 32 + Total(lt)
  BY RawLenType
<1> HIDE DEF ls, lt
<1>3. Len(s) \in Nat
  BY LenProperties
<1>4. \A i \in 1 .. k - 1 : i \in 1 .. Len(s) /\ i \in 1 .. Len(t)
  BY <1>3
<1>5. \A i \in k + 1 .. Len(s) : i \in 1 .. Len(s) /\ i - 1 \in 1 .. Len(t)
  BY <1>3
<1>6. /\ \A i \in 1 .. k - 1 : lt[i] = ls[i]
      /\ \A i \in k + 1 .. Len(s) : lt[i - 1] = ls[i]
  BY <1>1, <1>2, <1>4, <1>5
<1>7. Total(ls) = Total(lt) + ls[k]
  <2>1. /\ k \in 1 .. Len(ls) /\ Len(lt) = Len(ls) - 1
        /\ \A i \in k + 1 .. Len(ls) : lt[i - 1] = ls[i]
    BY <1>1, <1>2, <1>6
  <2> QED  BY <1>1, <1>2, <1>6, <2>1, TotalWithout
<1>8. s[k].len \in Nat /\ Total(lt) \in Nat
  <2>1. s[k] \in Pair
    BY ElementOfSeq
  <2> QED  BY <1>2, <2>1, TotalType DEF Pair
<1>9. ls[k] = 12 + s[k].len
  BY <1>1
<1>10. PICK m \in Nat, l \in Nat : m = Total(lt) /\ l = s[k].len
  BY <1>8
<1>11. RawLen(s) = 32 + (m + (12 + l))
  BY <1>1, <1>7, <1>9, <1>10
<1>12. RawLen(t) = 32 + m
  BY <1>2, <1>10
<1>13. 32 + (m + (12 + l)) = (32 + m) + 12 + l
  OBVIOUS
<1> QED  BY <1>10, <1>11, <1>12, <1>13

LEMMA WithoutShrinks ==
    ASSUME NEW s \in Seq(Pair), NEW x
    PROVE  /\ RawLen(Without(s, x)) <= RawLen(s)
           /\ Has(s, x) => RawLen(Without(s, x)) + 12 <= RawLen(s)
<1>1. RawLen(s) \in Nat
  BY RawLenType
<1>2. CASE ~Has(s, x)
  BY <1>1, <1>2 DEF Without
<1>3. CASE Has(s, x)
  <2>1. PICK k \in 1 .. Len(s) : k = Position(s, x)
    BY <1>3, PositionIs
  <2>2. PICK t \in Seq(Pair) : t = RemoveAt(s, k)
    BY RemoveAtShape
  <2>3. /\ Len(t) = Len(s) - 1
        /\ \A i \in 1 .. k - 1 : t[i] = s[i]
        /\ \A i \in k + 1 .. Len(s) : t[i - 1] = s[i]
    BY <2>2, RemoveAtShape
  <2>4. RawLen(s) = RawLen(t) + 12 + s[k].len /\ s[k].len \in Nat /\ RawLen(t) \in Nat
    BY <2>3, ShorterBlock, RawLenType
  <2>5. RawLen(t) + 12 <= RawLen(s) /\ RawLen(t) <= RawLen(s)
    BY <1>1, <2>4
  <2> QED  BY <1>3, <2>1, <2>2, <2>5 DEF Without
<1> QED  BY <1>2, <1>3

LEMMA AssembledLen ==
    ASSUME NEW s \in Seq(Pair)
    PROVE  RawLen(Assemble(s)) = RawLen(s) + 12
<1>1. PICK t \in Seq(Pair) : t = Append(s, Padding)
  BY PaddingType, AppendProperties
<1>2. /\ Len(s) \in Nat /\ Len(t) = Len(s) + 1 /\ t[Len(s) + 1] = Padding
      /\ \A i \in 1 .. Len(s) : t[i] = s[i]
  BY <1>1, PaddingType, AppendProperties, LenProperties
<1>3. /\ Len(t) \in 1 .. Len(t) /\ Len(s) = Len(t) - 1
      /\ \A i \in 1 .. Len(t) - 1 : s[i] = t[i]
      /\ \A i \in Len(t) + 1 .. Len(t) : s[i - 1] = t[i]
  BY <1>2
<1>4. RawLen(t) = RawLen(s) + 12 + t[Len(t)].len /\ RawLen(s) \in Nat
  BY <1>3, ShorterBlock, RawLenType
<1>5. t[Len(t)].len = 0
  BY <1>2 DEF Padding
<1> QED  BY <1>1, <1>4, <1>5 DEF Assemble

(* A block loses a pair without getting longer, padding included.           *)
LEMMA DropShrinks ==
    ASSUME NEW s \in Seq(Pair), NEW x, x # "padding", Has(s, "padding")
    PROVE  BlockLen(DropChannel(s, x)) <= BlockLen(s)
<1>1. PICK u \in Seq(Pair) : u = Without(s, x)
  BY WithoutType
<1>2. PICK v \in Seq(Pair) : v = Without(u, "padding")
  BY WithoutType
<1>3. PICK t \in Seq(Pair) : t = DropChannel(s, x)
  BY DropType
<1>4. t = Assemble(v)
  BY <1>1, <1>2, <1>3 DEF DropChannel
<1>5. Has(u, "padding")
  <2>1. SameFor(s, u, "padding")
    BY <1>1, WithoutOthers
  <2> QED  BY <2>1, SameSlot
<1>6. Has(t, "padding")
  BY <1>3, EndsPadded
<1>7. /\ RawLen(s) \in Nat /\ RawLen(u) \in Nat /\ RawLen(v) \in Nat /\ RawLen(t) \in Nat
      /\ RawLen(u) <= RawLen(s) /\ RawLen(v) + 12 <= RawLen(u) /\ RawLen(t) = RawLen(v) + 12
  BY <1>1, <1>2, <1>4, <1>5, RawLenType, WithoutShrinks, AssembledLen
<1>8. PICK m \in Nat, n \in Nat : m = RawLen(t) /\ n = RawLen(s) /\ m <= n
  BY <1>7
<1>9. m + Fill(m) <= n + Fill(n)
  BY <1>8, PageAssumption, RoundUpOrder DEF Fill
<1> QED  BY <1>3, <1>6, <1>8, <1>9 DEF BlockLen

(* A channel pair that was packed is not broken.                            *)
LEMMA PackedPairIsSound ==
    ASSUME NEW t \in Seq(Pair), NEW id, NEW p, Has(t, id), ~Repeated(t, id),
           t[Position(t, id)] = p, ValidPairValue(p)
    PROVE  ~ChannelPairBroken(t, id)
<1>1. Position(t, id) \in DOMAIN t /\ t[Position(t, id)].id = id
  BY PositionIs, LenProperties
<1>2. \A i \in DOMAIN t : t[i].id = id => t[i] = p
  BY <1>1 DEF Repeated
<1> QED  BY <1>2 DEF ChannelPairBroken

(* The checks before a removal pass where those before the packing did.     *)
LEMMA PackKeepsPreflight ==
    ASSUME NEW a \in Apk, NEW r \in Requests, NEW q \in Requests, PackError(a, r) = "ok",
           SameTarget(r, q), CDOffset(Packed(a, r)) # MaxOffset
    PROVE  PreflightError(Packed(a, r), q) = "ok"
<1> DEFINE b == Packed(a, r)
<1>1. q.mode = r.mode /\ q.id = r.id /\ q.verify = r.verify
  BY DEF SameTarget
<1>2. PreflightError(a, r) = "ok"
  BY DEF PackError
<1>3. Loads(b)
  BY PackReloads DEF Reloads
<1>4. b.hasBlock = a.hasBlock
  BY DEF Packed, WriteV2, Apk
<1>5. /\ HasModern(b.pairs) <=> HasModern(a.pairs)
      /\ \A id \in SignatureIds : Has(b.pairs, id) <=> Has(a.pairs, id)
  BY PackKeepsSchemes
<1>6. \A scheme \in Schemes : Verifies(a, scheme) => Verifies(b, scheme)
  BY PackKeepsVerified DEF VerifiedSchemes
<1> HIDE DEF b
<1>7. SelectedModeError(b, r.mode) = SelectedModeError(a, r.mode)
  BY <1>4, <1>5 DEF SelectedModeError
<1>8. SelectedMode(b, r.mode) = SelectedMode(a, r.mode)
  BY <1>5 DEF SelectedMode
<1>9. ASSUME NEW mode, SelectedVerifies(a, mode) PROVE SelectedVerifies(b, mode)
  <2>1. /\ "v1" \in Schemes /\ "v2" \in Schemes /\ "v3" \in Schemes /\ "v31" \in Schemes
        /\ "v3" \in SignatureIds /\ "v31" \in SignatureIds
    BY DEF Schemes, SignatureIds
  <2>2. CASE mode = "v1"
    BY <1>6, <1>9, <2>1, <2>2 DEF SelectedVerifies
  <2>3. CASE mode # "v1"
    <3>1. /\ HasModern(b.pairs)
          /\ \A id \in {"v3", "v31"} : Has(b.pairs, id) => Verifies(b, id)
      BY <1>5, <1>6, <1>9, <2>1, <2>3 DEF SelectedVerifies
    <3>2. Has(b.pairs, "v3") \/ Has(b.pairs, "v31") \/ Verifies(b, "v2")
      BY <1>5, <1>6, <1>9, <2>1, <2>3 DEF SelectedVerifies
    <3> QED  BY <2>3, <3>1, <3>2 DEF SelectedVerifies
  <2> QED  BY <2>2, <2>3
<1> QED  BY <1>1, <1>2, <1>3, <1>7, <1>8, <1>9 DEF PreflightError, b

LEMMA SuffixUndone ==
    ASSUME NEW a \in Apk, NEW r \in Requests, NEW q \in Requests, PackError(a, r) = "ok",
           Signed(a), SameTarget(r, q), CDOffset(Packed(a, r)) # MaxOffset,
           SelectedMode(a, r.mode) = "v1"
    PROVE  RemoveError(Packed(a, r), q) = "ok" /\ Removed(Packed(a, r), q) = a
<1> DEFINE b == Packed(a, r)
           id == NormalizeBlockID(q.id)
<1>1. /\ r.ch \in Channels /\ Suffix(r.ch) \in CommentToken /\ ~HasModern(a.pairs)
      /\ b.pairs = a.pairs /\ b.comment = Append(a.comment, Suffix(r.ch))
  BY PackWritesSuffix
<1>2. b = [a EXCEPT !.comment = Append(a.comment, Suffix(r.ch))]
  BY DEF Packed, WriteV1
<1>3. b.pairs = <<>>
  BY <1>1 DEF Signed
<1>4. q.mode \in {"auto", "v1"}
  <2>1. SelectedModeError(a, r.mode) = "ok" /\ r.mode \in Modes /\ q.mode = r.mode
    BY DEF PackError, PreflightError, Requests, SameTarget
  <2> QED  BY <2>1 DEF SelectedModeError, SelectedMode, Modes
<1>5. PreflightError(b, q) = "ok" /\ Loads(b)
  BY PackKeepsPreflight, PackReloads DEF Reloads
<1>6. a.comment \in Seq(CommentToken)
  BY DEF Apk, Comments
<1>7. V1Found(b.comment) /\ ~V1Broken(b.comment)
  <2>1. b.comment # <<>> /\ b.comment[Len(b.comment)] = Suffix(r.ch)
    BY <1>1, <1>6, AppendProperties
  <2> QED  BY <2>1 DEF V1Found, V1Broken, LastIs, Suffix
<1>8. RemoveV1(b.comment) = a.comment
  <2>1. PICK d \in Seq(CommentToken) : d = b.comment
    BY <1>1, <1>6, AppendProperties
  <2>2. Len(a.comment) \in Nat /\ Len(d) = Len(a.comment) + 1
        /\ \A i \in 1 .. Len(a.comment) : d[i] = a.comment[i]
    BY <1>1, <1>6, <2>1, AppendProperties, LenProperties
  <2>3. PICK c \in Seq(CommentToken) : c = SubSeq(d, 1, Len(d) - 1)
    <3>1. SubSeq(d, 1, Len(d) - 1) \in Seq(CommentToken)
      BY <2>1, <2>2, SubSeqProperties, ElementOfSeq
    <3> QED  BY <3>1
  <2>4. Len(c) = Len(a.comment) /\ \A i \in 1 .. Len(a.comment) : c[i] = a.comment[i]
    BY <2>1, <2>2, <2>3, SubSeqProperties
  <2>5. c = a.comment
    BY <1>6, <2>2, <2>4, SeqEqual
  <2> QED  BY <2>1, <2>3, <2>5 DEF RemoveV1
<1>9. CutSuffix(b) = a
  BY <1>2, <1>8 DEF CutSuffix, Apk
<1> HIDE DEF b
<1>10. \A x : ~Has(b.pairs, x) /\ ~ChannelPairBroken(b.pairs, x)
  BY <1>3 DEF Has, ChannelPairBroken, Repeated
<1>11. CASE q.mode = "auto"
  <2>1. AfterPair(b, id) = b
    BY <1>10 DEF AfterPair, ModernPairFound
  <2>2. AutoRemoveError(b, id) = "ok" /\ AutoRemoved(b, id) = CutSuffix(b)
    BY <1>5, <1>7, <1>10, <2>1 DEF AutoRemoveError, AutoRemoved, ModernPairFound
  <2> QED  BY <1>5, <1>9, <1>11, <2>2 DEF RemoveError, Removed, b
<1>12. CASE q.mode = "v1"
  BY <1>5, <1>7, <1>9, <1>12 DEF RemoveError, Removed, RemoveV1Error, b
<1> QED  BY <1>4, <1>11, <1>12

LEMMA PairUndone ==
    ASSUME NEW a \in Apk, NEW r \in Requests, NEW q \in Requests, PackError(a, r) = "ok",
           SameTarget(r, q), CDOffset(Packed(a, r)) # MaxOffset,
           SelectedMode(a, r.mode) # "v1"
    PROVE  /\ RemoveError(Packed(a, r), q) = "ok"
           /\ WithoutPadding(Removed(Packed(a, r), q)) = WithoutPadding(a)
<1> DEFINE b == Packed(a, r)
           id == NormalizeBlockID(r.id)
           p == ChannelPair(id, r.ch)
<1>1. /\ id \in ChannelIds /\ p \in Pair /\ p.id = id /\ a.hasBlock /\ ValidBlock(a.pairs)
      /\ ~Has(a.pairs, id) /\ ~V1Found(a.comment) /\ ~V1Broken(a.comment)
  BY PackWritesPair
<1>2. ValidPairValue(p)
  BY DEF ValidPairValue, ChannelPair
<1>3. b = [a EXCEPT !.pairs = InsertChannel(a.pairs, p)]
  BY DEF Packed, WriteV2
<1>4. RewriteError(a, InsertChannel(a.pairs, p)) = "ok"
  BY <1>1 DEF PackError, WriteV2Error
<1>5. PreflightError(b, q) = "ok"
  BY PackKeepsPreflight
<1>6. HasModern(b.pairs) <=> HasModern(a.pairs)
  BY PackKeepsSchemes
<1>7. q.mode = r.mode /\ q.id = r.id /\ q.mode \in {"auto", "v2"}
  <2>1. SelectedModeError(a, r.mode) = "ok" /\ r.mode \in Modes
    BY DEF PackError, PreflightError, Requests
  <2>2. r.mode \in {"auto", "v2"}
    BY <2>1 DEF SelectedModeError, SelectedMode, Modes
  <2> QED  BY <2>2 DEF SameTarget
<1>8. q.mode = "auto" => HasModern(a.pairs)
  BY <1>7 DEF SelectedMode
<1> HIDE DEF b, p
<1>9. a.pairs \in Seq(Pair)
  BY DEF Apk
<1>10. PICK t \in Seq(Pair) : t = InsertChannel(a.pairs, p)
  BY <1>1, <1>9, InsertType
<1>11. /\ b.pairs = t /\ b.hasBlock /\ b.comment = a.comment /\ b.start = a.start
  BY <1>1, <1>3, <1>10 DEF Apk
<1>12. Has(t, id) /\ t[Position(t, id)] = p /\ ~Repeated(t, id) /\ ValidBlock(t)
  BY <1>1, <1>9, <1>10, InsertedPair
<1>13. ~ChannelPairBroken(t, id)
  BY <1>2, <1>12, PackedPairIsSound
<1>14. id # "padding"
  BY <1>1, OtherIdsAssumption DEF ChannelIds, ReservedIds
<1>15. RewriteError(b, DropChannel(t, id)) = "ok"
  <2>1. /\ Has(t, "padding") /\ Has(DropChannel(t, id), "padding")
        /\ DropChannel(t, id) \in Seq(Pair)
    BY <1>1, <1>9, <1>10, DropType, EndsPadded
  <2>2. BlockLen(DropChannel(t, id)) <= BlockLen(t)
    BY <1>14, <2>1, DropShrinks
  <2>3. BlockLen(DropChannel(t, id)) \in Nat /\ BlockLen(t) \in Nat
    BY <2>1, BlockAligned
  <2>4. a.start \in Nat /\ ~(a.start + BlockLen(t) > MaxOffset)
    BY <1>4, <1>10 DEF RewriteError, Apk
  <2>5. ~(b.start + BlockLen(DropChannel(t, id)) > MaxOffset)
    BY <1>11, <2>2, <2>3, <2>4, OffsetAssumption
  <2> QED  BY <2>5 DEF RewriteError
<1>16. RemoveV2Error(b, id) = "ok"
  BY <1>1, <1>11, <1>12, <1>13, <1>15 DEF RemoveV2Error
<1>17. RemoveError(b, q) = "ok" /\ Removed(b, q) = RemoveV2(b, id)
  <2>1. CASE q.mode = "auto"
    <3>1. ModernPairFound(b, id)
      BY <1>6, <1>8, <1>11, <1>12, <2>1 DEF ModernPairFound
    <3>2. AutoRemoveError(b, id) = "ok" /\ AutoRemoved(b, id) = RemoveV2(b, id)
      BY <1>1, <1>11, <1>12, <1>13, <1>16, <3>1 DEF AutoRemoveError, AutoRemoved, AfterPair
    <3> QED  BY <1>5, <1>7, <2>1, <3>2 DEF RemoveError, Removed
  <2>2. CASE q.mode = "v2"
    BY <1>5, <1>7, <1>16, <2>2 DEF RemoveError, Removed
  <2> QED  BY <1>7, <2>1, <2>2
<1>18. Kept(DropChannel(t, id), PairsBut({"padding"})) = Kept(a.pairs, PairsBut({"padding"}))
  <2> DEFINE All == PairsBut({"padding"})
             Rest == PairsBut({id, "padding"})
  <2>1. ASSUME NEW s \in Seq(Pair), ~Has(s, id) PROVE Kept(s, All) = Kept(s, Rest)
    <3>1. DOMAIN s = 1 .. Len(s) /\ \A i \in 1 .. Len(s) : s[i] \in Pair
      BY LenProperties, ElementOfSeq
    <3>2. \A i \in 1 .. Len(s) : s[i] \in All <=> s[i] \in Rest
      BY <2>1, <3>1 DEF PairsBut, Has
    <3> HIDE DEF All, Rest
    <3> QED  BY <3>2, KeptSame
  <2>2. ~Has(DropChannel(t, id), id) /\ DropChannel(t, id) \in Seq(Pair)
    BY <1>12, <1>14, DropTarget, DropType
  <2>3. \A x \in Rest : x.id \notin {id, "padding"}
    BY DEF PairsBut
  <2>4. p \notin Rest
    BY <1>1 DEF PairsBut
  <2> HIDE DEF All, Rest
  <2>5. Kept(DropChannel(t, id), Rest) = Kept(t, Rest)
    BY <2>3, DropKept
  <2>6. Kept(t, Rest) = Kept(a.pairs, Rest)
    BY <1>1, <1>9, <1>10, <2>3, <2>4, InsertKept
  <2>7. Kept(DropChannel(t, id), All) = Kept(DropChannel(t, id), Rest)
    BY <2>1, <2>2
  <2>8. Kept(a.pairs, All) = Kept(a.pairs, Rest)
    BY <1>1, <1>9, <2>1
  <2>9. Kept(DropChannel(t, id), All) = Kept(a.pairs, All)
    BY <2>5, <2>6, <2>7, <2>8
  <2> QED  BY <2>9 DEF All
<1>19. Removed(b, q) = [a EXCEPT !.pairs = DropChannel(t, id)]
  BY <1>3, <1>10, <1>11, <1>17 DEF RemoveV2, Apk
<1>20. WithoutPadding(Removed(b, q)) = WithoutPadding(a)
  BY <1>18, <1>19 DEF WithoutPadding, Apk
<1> QED  BY <1>17, <1>20 DEF b

(* The file a successful Pack was given, and what it made of it.            *)
JustPacked ==
    Wrote("pack") =>
        /\ prior \in Apk /\ Signed(prior) /\ last.req \in Requests
        /\ PackError(prior, last.req) = "ok"
        /\ apk = Packed(prior, last.req)

LEMMA JustPackedStep ==
    ASSUME TypeOK, BlocksAreSigned, JustPacked, [Next]_vars
    PROVE  JustPacked'
<1>1. apk \in Apk /\ Signed(apk)
  BY DEF TypeOK, BlocksAreSigned, Signed
<1>2. ASSUME NEW r \in PackCalls, Pack(r) PROVE JustPacked'
  BY <1>1, <1>2, InputsAssumption DEF Pack, JustPacked, Wrote
<1>3. ASSUME NEW r \in RemoveCalls, RemoveChannel(r) PROVE JustPacked'
  BY <1>3 DEF RemoveChannel, JustPacked, Wrote
<1>4. ASSUME NEW scheme \in Signers, Sign(scheme) PROVE JustPacked'
  BY <1>4 DEF Sign, JustPacked, Wrote
<1>5. CASE UNCHANGED vars
  BY <1>5 DEF vars, JustPacked, Wrote
<1> QED  BY <1>2, <1>3, <1>4, <1>5 DEF Next

(* A RemoveChannel right after a Pack with the same target is never refused *)
(* and gives back the file Pack was given, but for its padding: if every    *)
(* base with a signing block is signed V2 or later (else a pair under V1    *)
(* may be in the way) and the directory does not land on the sentinel.      *)
THEOREM RemovalUndoesPacking ==
    ASSUME \A a \in Bases : a.hasBlock => HasModern(a.pairs)
    PROVE  Spec /\ [](CDOffset(apk) # MaxOffset) => RemoveUndoesPack
<1> DEFINE Undone == /\ last'.result = "ok"
                     /\ WithoutPadding(apk') = WithoutPadding(prior)
           Undoing == Wrote("pack") /\ last'.op = "remove" /\ SameTarget(last.req, last'.req)
<1>1. Init => BlocksAreSigned /\ JustPacked
  BY InputsAssumption DEF Init, BlocksAreSigned, JustPacked, Wrote
<1>2. TypeOK /\ BlocksAreSigned /\ JustPacked /\ [Next]_vars => (BlocksAreSigned /\ JustPacked)'
  BY BlocksStaySigned, JustPackedStep
<1>3. Spec => [](BlocksAreSigned /\ JustPacked)
  BY <1>1, <1>2, TypeCorrect, PTL DEF Spec
<1>4. JustPacked /\ CDOffset(apk) # MaxOffset /\ [Next]_vars => [Undoing => Undone]_vars
  <2> SUFFICES ASSUME JustPacked, CDOffset(apk) # MaxOffset, Next, Undoing PROVE Undone
    OBVIOUS
  <2>1. PICK q \in RemoveCalls : RemoveChannel(q)
    <3>1. \A r \in PackCalls : ~Pack(r)
      BY DEF Pack
    <3>2. \A scheme \in Signers : ~Sign(scheme)
      BY DEF Sign
    <3> QED  BY <3>1, <3>2 DEF Next
  <2>2. q \in Requests /\ last'.req = q /\ last'.result = RemoveError(apk, q)
    BY <2>1, InputsAssumption DEF RemoveChannel
  <2>3. /\ prior \in Apk /\ Signed(prior) /\ last.req \in Requests
        /\ PackError(prior, last.req) = "ok" /\ apk = Packed(prior, last.req)
        /\ SameTarget(last.req, q) /\ CDOffset(Packed(prior, last.req)) # MaxOffset
    BY <2>2 DEF JustPacked
  <2>4. /\ RemoveError(apk, q) = "ok"
        /\ WithoutPadding(Removed(apk, q)) = WithoutPadding(prior)
    BY <2>2, <2>3, SuffixUndone, PairUndone
  <2>5. apk' = Removed(apk, q)
    BY <2>1, <2>4 DEF RemoveChannel
  <2> QED  BY <2>2, <2>4, <2>5
<1> QED  BY <1>3, <1>4, PTL DEF Spec, RemoveUndoesPack
=============================================================================
