-------------------------- MODULE ApkChannelProofs --------------------------
(***************************************************************************)
(* Theorems about ApkChannel, for every set of channels, IDs, base APKs and *)
(* requests, every page size and every offset limit.                        *)
(***************************************************************************)
EXTENDS ApkChannel, SequenceTheorems, TLAPS

-----------------------------------------------------------------------------
(* Pair sequences.                                                          *)

LEMMA PositionIs ==
    ASSUME NEW s \in Seq(Pair), NEW id, Has(s, id)
    PROVE  Position(s, id) \in 1 .. Len(s) /\ s[Position(s, id)].id = id
BY DEF Has, Position

LEMMA ChannelPairType ==
    ASSUME NEW id \in ChannelIds, NEW ch \in Channels
    PROVE  ChannelPair(id, ch) \in Pair
<1>1. ChannelLen[ch] \in Nat /\ ChannelLen[ch] + 14 \in Nat
  BY ChannelsAssumption
<1>2. <<>> \in Comments
  BY EmptySeq DEF Comments
<1> QED  BY <1>1, <1>2 DEF ChannelPair, Pair, PairIds

LEMMA PaddingType == Padding \in Pair
<1>1. <<>> \in Comments
  BY EmptySeq DEF Comments
<1> QED  BY <1>1 DEF Padding, Pair, PairIds, ReservedIds

LEMMA WithoutType ==
    ASSUME NEW s \in Seq(Pair), NEW id
    PROVE  Without(s, id) \in Seq(Pair)
<1>1. CASE ~Has(s, id)
  BY <1>1 DEF Without
<1>2. CASE Has(s, id)
  <2> DEFINE k == Position(s, id)
  <2>1. k \in 1 .. Len(s) /\ Len(s) \in Nat
    BY <1>2, PositionIs, LenProperties
  <2> HIDE DEF k
  <2>2. SubSeq(s, 1, k - 1) \in Seq(Pair)
    BY <2>1, SubSeqProperties, ElementOfSeq
  <2>3. SubSeq(s, k + 1, Len(s)) \in Seq(Pair)
    BY <2>1, SubSeqProperties, ElementOfSeq
  <2>4. SubSeq(s, 1, k - 1) \o SubSeq(s, k + 1, Len(s)) \in Seq(Pair)
    BY <2>2, <2>3, ConcatProperties
  <2> QED  BY <1>2, <2>4 DEF Without, RemoveAt, k
<1> QED  BY <1>1, <1>2

LEMMA InsertType ==
    ASSUME NEW s \in Seq(Pair), NEW p \in Pair
    PROVE  InsertChannel(s, p) \in Seq(Pair)
<1>1. CASE Has(s, "padding")
  <2>1. [s EXCEPT ![Position(s, "padding")] = p] \in Seq(Pair)
    BY <1>1, PositionIs, ExceptSeq
  <2> QED  BY <1>1, <2>1, PaddingType, AppendProperties DEF InsertChannel, Assemble
<1>2. CASE ~Has(s, "padding")
  <2>1. Append(s, p) \in Seq(Pair)
    BY AppendProperties
  <2> QED  BY <1>2, <2>1, PaddingType, AppendProperties DEF InsertChannel, Assemble
<1> QED  BY <1>1, <1>2

LEMMA DropType ==
    ASSUME NEW s \in Seq(Pair), NEW id
    PROVE  DropChannel(s, id) \in Seq(Pair)
BY WithoutType, PaddingType, AppendProperties DEF DropChannel, Assemble

(* Removing a suffix from a comment that has one.                           *)
LEMMA RemoveV1Type ==
    ASSUME NEW c \in Comments, V1Found(c)
    PROVE  RemoveV1(c) \in Comments
<1>1. c \in Seq(CommentToken) /\ Len(c) \in Nat /\ c # <<>>
  BY LenProperties DEF Comments, V1Found, LastIs
<1>2. SubSeq(c, 1, Len(c) - 1) \in Seq(CommentToken)
  BY <1>1, SubSeqProperties, ElementOfSeq
<1> QED  BY <1>2 DEF RemoveV1, Comments

LEMMA WriteV1Type ==
    ASSUME NEW c \in Comments, NEW ch \in Channels
    PROVE  WriteV1(c, ch) \in Comments
<1>1. ChannelLen[ch] + 10 \in Nat
  BY ChannelsAssumption
<1>2. Suffix(ch) \in CommentToken
  BY <1>1 DEF Suffix, SuffixLen, CommentToken
<1> QED  BY <1>2, AppendProperties DEF WriteV1, Comments

-----------------------------------------------------------------------------
(* The operations keep the types.                                           *)

LEMMA NormalizedId ==
    ASSUME NEW id \in RequestIds, ValidBlockID(id)
    PROVE  NormalizeBlockID(id) \in ChannelIds
BY DEF RequestIds, ValidBlockID, NormalizeBlockID, PairIds, ChannelIds

LEMMA PackedType ==
    ASSUME NEW a \in Apk, NEW r \in Requests, PackError(a, r) = "ok"
    PROVE  Packed(a, r) \in Apk
<1>1. ValidBlockID(r.id) /\ r.id \in RequestIds /\ r.ch \in Channels \cup {NoChannel}
  BY DEF PackError, PreflightError, Requests
<1>2. NormalizeBlockID(r.id) \in ChannelIds
  BY <1>1, NormalizedId
<1>3. CASE SelectedMode(a, r.mode) = "v1"
  <2>1. r.ch \in Channels
    BY <1>1, <1>3 DEF PackError, WriteV1Error, ValidV1Channel
  <2>2. WriteV1(a.comment, r.ch) \in Comments
    BY <2>1, WriteV1Type DEF Apk
  <2> QED  BY <1>3, <2>2 DEF Packed, Apk
<1>4. CASE SelectedMode(a, r.mode) # "v1"
  <2>1. r.ch \in Channels
    BY <1>1, <1>4 DEF PackError, WriteV2Error
  <2>2. InsertChannel(a.pairs, ChannelPair(NormalizeBlockID(r.id), r.ch)) \in Seq(Pair)
    BY <1>2, <2>1, ChannelPairType, InsertType DEF Apk
  <2> QED  BY <1>4, <2>2 DEF Packed, WriteV2, Apk
<1> QED  BY <1>3, <1>4

LEMMA RemoveV2Type ==
    ASSUME NEW a \in Apk, NEW id
    PROVE  RemoveV2(a, id) \in Apk
<1>1. DropChannel(a.pairs, id) \in Seq(Pair)
  BY DropType DEF Apk
<1> QED  BY <1>1 DEF RemoveV2, Apk

LEMMA CutSuffixType ==
    ASSUME NEW a \in Apk, V1Found(a.comment)
    PROVE  CutSuffix(a) \in Apk
<1>1. RemoveV1(a.comment) \in Comments
  BY RemoveV1Type DEF Apk
<1> QED  BY <1>1 DEF CutSuffix, Apk

LEMMA RemovedType ==
    ASSUME NEW a \in Apk, NEW r \in Requests, RemoveError(a, r) = "ok"
    PROVE  Removed(a, r) \in Apk
<1> DEFINE id == NormalizeBlockID(r.id)
<1>1. CASE r.mode = "auto"
  <2>1. AfterPair(a, id) \in Apk /\ AfterPair(a, id).comment = a.comment
    BY RemoveV2Type DEF AfterPair, RemoveV2, Apk
  <2>2. V1Found(a.comment) => CutSuffix(AfterPair(a, id)) \in Apk
    BY <2>1, CutSuffixType
  <2> QED  BY <1>1, <2>1, <2>2 DEF Removed, AutoRemoved
<1>2. CASE r.mode = "v1"
  <2>1. V1Found(a.comment)
    BY <1>2 DEF RemoveError, RemoveV1Error
  <2> QED  BY <1>2, <2>1, CutSuffixType DEF Removed
<1>3. CASE r.mode \notin {"auto", "v1"}
  BY <1>3, RemoveV2Type DEF Removed
<1> QED  BY <1>1, <1>2, <1>3

LEMMA ResultTypes ==
    ASSUME NEW a, NEW r
    PROVE  PackError(a, r) \in Results /\ RemoveError(a, r) \in Results
<1>1. SelectedModeError(a, r.mode) \in Results
  BY DEF SelectedModeError, Results
<1>2. PreflightError(a, r) \in Results
  BY <1>1 DEF PreflightError, Results
<1>3. \A pairs : RewriteError(a, pairs) \in Results
  BY DEF RewriteError, Results
<1>4. \A id : RemoveV2Error(a, id) \in Results
  BY <1>3 DEF RemoveV2Error, Results
<1>5. \A id, ch : WriteV2Error(a, id, ch) \in Results
  BY <1>3 DEF WriteV2Error, Results
<1>6. \A id : AutoRemoveError(a, id) \in Results
  BY <1>4 DEF AutoRemoveError, Results
<1>7. \A c, ch : WriteV1Error(c, ch) \in Results /\ RemoveV1Error(c) \in Results
  BY DEF WriteV1Error, RemoveV1Error, Results
<1>8. PackError(a, r) \in Results
  BY <1>2, <1>5, <1>7 DEF PackError
<1>9. RemoveError(a, r) \in Results
  BY <1>2, <1>4, <1>6, <1>7 DEF RemoveError
<1> QED  BY <1>8, <1>9

-----------------------------------------------------------------------------
(* Type correctness: no call, however it ends, leaves a file or a result    *)
(* the code has no value for.                                               *)
THEOREM TypeCorrect == Spec => []TypeOK
<1>1. Init => TypeOK
  <2> SUFFICES ASSUME Init PROVE TypeOK
    OBVIOUS
  <2>1. apk \in Apk /\ prior \in Apk
    BY InputsAssumption DEF Init
  <2>2. last \in Calls
    BY DEF Init, Calls, NoRequest, Requests, Modes, RequestIds, Results
  <2> QED  BY <2>1, <2>2 DEF TypeOK
<1>2. TypeOK /\ [Next]_vars => TypeOK'
  <2> SUFFICES ASSUME TypeOK, [Next]_vars PROVE TypeOK'
    OBVIOUS
  <2>1. ASSUME NEW r \in PackCalls, Pack(r) PROVE TypeOK'
    <3>1. r \in Requests
      BY InputsAssumption
    <3>2. apk' \in Apk
      BY <2>1, <3>1, PackedType DEF Pack, TypeOK
    <3>3. last' \in Calls
      BY <2>1, <3>1, ResultTypes DEF Pack, Calls
    <3> QED  BY <2>1, <3>2, <3>3 DEF Pack, TypeOK
  <2>2. ASSUME NEW r \in RemoveCalls, RemoveChannel(r) PROVE TypeOK'
    <3>1. r \in Requests
      BY InputsAssumption
    <3>2. apk' \in Apk
      BY <2>2, <3>1, RemovedType DEF RemoveChannel, TypeOK
    <3>3. last' \in Calls
      BY <2>2, <3>1, ResultTypes DEF RemoveChannel, Calls
    <3> QED  BY <2>2, <3>2, <3>3 DEF RemoveChannel, TypeOK
  <2>3. ASSUME NEW scheme \in Signers, Sign(scheme) PROVE TypeOK'
    <3>1. SignaturePair(scheme, apk.comment) \in Pair
      BY InputsAssumption
         DEF TypeOK, Apk, SignaturePair, Pair, PairIds, ReservedIds
    <3>2. <<SignaturePair(scheme, apk.comment), Padding>> \in Seq(Pair)
      BY <3>1, PaddingType
    <3>3. apk' \in Apk
      BY <2>3, <3>2 DEF Sign, TypeOK, Apk
    <3>4. last' \in Calls
      BY <2>3 DEF Sign, Calls, NoRequest, Requests, Modes, RequestIds, Results
    <3> QED  BY <2>3, <3>3, <3>4 DEF Sign, TypeOK
  <2>4. CASE UNCHANGED vars
    BY <2>4 DEF vars, TypeOK
  <2> QED  BY <2>1, <2>2, <2>3, <2>4 DEF Next
<1> QED  BY <1>1, <1>2, PTL DEF Spec

-----------------------------------------------------------------------------
(* Where the pairs go.                                                      *)

(* The place of the inserted pair.                                          *)
Gap(s) == IF Has(s, "padding") THEN Position(s, "padding") ELSE Len(s) + 1

(* InsertChannel puts the pair at the gap and fresh padding last, and       *)
(* leaves every other pair at its index.                                    *)
LEMMA InsertShape ==
    ASSUME NEW s \in Seq(Pair), NEW p \in Pair
    PROVE  LET t == InsertChannel(s, p)
               n == Len(t)
           IN  /\ n \in Nat
               /\ Gap(s) \in 1 .. n - 1
               /\ t[Gap(s)] = p
               /\ t[n] = Padding
               /\ \A j \in 1 .. Len(s) : j # Gap(s) => j \in 1 .. n - 1 /\ t[j] = s[j]
               /\ \A j \in 1 .. n - 1 : j # Gap(s) => j \in 1 .. Len(s)
<1> DEFINE u == IF Has(s, "padding") THEN [s EXCEPT ![Position(s, "padding")] = p]
                ELSE Append(s, p)
<1>1. Len(s) \in Nat
  BY LenProperties
<1>2. /\ u \in Seq(Pair)
      /\ Len(u) \in Nat
      /\ Gap(s) \in 1 .. Len(u)
      /\ u[Gap(s)] = p
      /\ \A j \in 1 .. Len(s) : j # Gap(s) => j \in 1 .. Len(u) /\ u[j] = s[j]
      /\ \A j \in 1 .. Len(u) : j # Gap(s) => j \in 1 .. Len(s)
  <2>1. CASE Has(s, "padding")
    <3>1. Position(s, "padding") \in 1 .. Len(s)
      BY <2>1, PositionIs
    <3> QED  BY <1>1, <2>1, <3>1, ExceptSeq DEF Gap
  <2>2. CASE ~Has(s, "padding")
    BY <1>1, <2>2, AppendProperties DEF Gap
  <2> QED  BY <2>1, <2>2
<1>3. InsertChannel(s, p) = Append(u, Padding)
  BY DEF InsertChannel, Assemble
<1> HIDE DEF u
<1>4. /\ Len(Append(u, Padding)) = Len(u) + 1
      /\ \A j \in 1 .. Len(u) : Append(u, Padding)[j] = u[j]
      /\ Append(u, Padding)[Len(u) + 1] = Padding
  BY <1>2, PaddingType, AppendProperties
<1> QED  BY <1>1, <1>2, <1>3, <1>4

(* A pair that is not padding survives an insertion.                        *)
LEMMA InsertKeeps ==
    ASSUME NEW s \in Seq(Pair), NEW p \in Pair,
           NEW i \in DOMAIN s, s[i].id # "padding"
    PROVE  \E j \in DOMAIN InsertChannel(s, p) : InsertChannel(s, p)[j] = s[i]
<1> DEFINE t == InsertChannel(s, p)
<1>1. i \in 1 .. Len(s) /\ t \in Seq(Pair)
  BY LenProperties, InsertType
<1>2. i # Gap(s)
  BY <1>1, PositionIs DEF Gap
<1>3. i \in 1 .. Len(t) - 1 /\ t[i] = s[i] /\ Len(t) \in Nat
  BY <1>1, <1>2, InsertShape
<1>4. DOMAIN t = 1 .. Len(t)
  BY <1>1, LenProperties
<1> QED  BY <1>3, <1>4

(* RemoveAt closes the gap and moves nothing else.                          *)
LEMMA RemoveAtShape ==
    ASSUME NEW s \in Seq(Pair), NEW k \in 1 .. Len(s)
    PROVE  /\ RemoveAt(s, k) \in Seq(Pair)
           /\ Len(RemoveAt(s, k)) = Len(s) - 1
           /\ \A j \in 1 .. k - 1 : RemoveAt(s, k)[j] = s[j]
           /\ \A j \in k + 1 .. Len(s) : RemoveAt(s, k)[j - 1] = s[j]
<1>1. Len(s) \in Nat /\ \A j \in 1 .. Len(s) : s[j] \in Pair
  BY LenProperties
<1>2. PICK u \in Seq(Pair) : u = SubSeq(s, 1, k - 1)
  <2>1. SubSeq(s, 1, k - 1) \in Seq(Pair)
    BY <1>1, SubSeqProperties
  <2> QED  BY <2>1
<1>3. PICK v \in Seq(Pair) : v = SubSeq(s, k + 1, Len(s))
  <2>1. SubSeq(s, k + 1, Len(s)) \in Seq(Pair)
    BY <1>1, SubSeqProperties
  <2> QED  BY <2>1
<1>4. Len(u) = k - 1 /\ \A j \in 1 .. k - 1 : u[j] = s[j]
  BY <1>1, <1>2, SubSeqProperties
<1>5. Len(v) = Len(s) - k /\ \A j \in 1 .. Len(s) - k : v[j] = s[k + j]
  BY <1>1, <1>3, SubSeqProperties
<1>6. PICK t \in Seq(Pair) : t = u \o v
  BY ConcatProperties
<1>7. Len(t) = Len(s) - 1
  <2>1. Len(t) = Len(u) + Len(v)
    BY <1>6, ConcatProperties
  <2> QED  BY <1>1, <1>4, <1>5, <2>1
<1>8. ASSUME NEW j \in 1 .. k - 1 PROVE t[j] = s[j]
  BY <1>1, <1>4, <1>5, <1>6, ConcatProperties
<1>9. ASSUME NEW j \in k + 1 .. Len(s) PROVE t[j - 1] = s[j]
  <2>1. t[j - 1] = v[j - k]
    BY <1>1, <1>4, <1>5, <1>6, ConcatProperties
  <2>2. v[j - k] = s[j]
    <3>1. j - k \in 1 .. Len(s) - k /\ k + (j - k) = j
      BY <1>1
    <3> QED  BY <1>5, <3>1
  <2> QED  BY <2>1, <2>2
<1>10. RemoveAt(s, k) = t
  BY <1>2, <1>3, <1>6 DEF RemoveAt
<1> QED  BY <1>7, <1>8, <1>9, <1>10

(* A pair with another ID survives a removal.                               *)
LEMMA WithoutKeeps ==
    ASSUME NEW s \in Seq(Pair), NEW id, NEW i \in DOMAIN s, s[i].id # id
    PROVE  \E j \in DOMAIN Without(s, id) : Without(s, id)[j] = s[i]
<1>1. CASE ~Has(s, id)
  BY <1>1 DEF Without
<1>2. CASE Has(s, id)
  <2>1. PICK k \in 1 .. Len(s) : k = Position(s, id) /\ s[k].id = id
    BY <1>2, PositionIs
  <2>2. i \in 1 .. Len(s) /\ Len(s) \in Nat /\ i # k
    BY <2>1, LenProperties
  <2>3. PICK t \in Seq(Pair) : t = RemoveAt(s, k)
    BY RemoveAtShape
  <2>4. /\ Len(t) = Len(s) - 1
        /\ \A j \in 1 .. k - 1 : t[j] = s[j]
        /\ \A j \in k + 1 .. Len(s) : t[j - 1] = s[j]
    BY <2>3, RemoveAtShape
  <2>5. \E j \in 1 .. Len(t) : t[j] = s[i]
    <3>1. CASE i \in 1 .. k - 1
      BY <2>2, <2>4, <3>1
    <3>2. CASE i \in k + 1 .. Len(s)
      <4>1. i - 1 \in 1 .. Len(t) /\ t[i - 1] = s[i]
        BY <2>2, <2>4, <3>2
      <4> QED  BY <4>1
    <3> QED  BY <2>2, <3>1, <3>2
  <2>6. Without(s, id) = t
    BY <1>2, <2>1, <2>3 DEF Without
  <2> QED  BY <2>5, <2>6, LenProperties
<1> QED  BY <1>1, <1>2

LEMMA DropKeeps ==
    ASSUME NEW s \in Seq(Pair), NEW id,
           NEW i \in DOMAIN s, s[i].id \notin {id, "padding"}
    PROVE  \E j \in DOMAIN DropChannel(s, id) : DropChannel(s, id)[j] = s[i]
<1> DEFINE u == Without(s, id)
           v == Without(u, "padding")
<1>1. u \in Seq(Pair) /\ v \in Seq(Pair)
  BY WithoutType
<1>2. PICK j \in DOMAIN u : u[j] = s[i]
  BY WithoutKeeps
<1>3. PICK m \in DOMAIN v : v[m] = u[j]
  BY <1>1, <1>2, WithoutKeeps
<1>4. /\ m \in 1 .. Len(v) /\ Len(v) \in Nat
      /\ DOMAIN Append(v, Padding) = 1 .. Len(v) + 1
      /\ Append(v, Padding)[m] = v[m]
  BY <1>1, <1>3, PaddingType, LenProperties, AppendProperties
<1> QED  BY <1>2, <1>3, <1>4 DEF DropChannel, Assemble

-----------------------------------------------------------------------------
(* Signatures.                                                              *)

LEMMA PackKeepsVerified ==
    ASSUME NEW a \in Apk, NEW r \in Requests, PackError(a, r) = "ok",
           NEW scheme \in VerifiedSchemes(a)
    PROVE  scheme \in VerifiedSchemes(Packed(a, r))
<1> DEFINE b == Packed(a, r)
<1>1. scheme \in Schemes /\ Verifies(a, scheme)
  BY DEF VerifiedSchemes
<1>2. CASE scheme = "v1"
  <2>1. b.jar = a.jar
    BY DEF Packed, WriteV2, Apk
  <2> QED  BY <1>1, <1>2, <2>1 DEF Verifies, VerifiedSchemes
<1>3. CASE scheme # "v1"
  <2>1. PICK i \in DOMAIN a.pairs : /\ a.pairs[i].id = scheme
                                   /\ a.pairs[i].enc = "signature"
                                   /\ a.pairs[i].over = a.comment
    BY <1>1, <1>3 DEF Verifies
  <2>2. scheme \in SignatureIds
    BY <1>1, <1>3 DEF Schemes
  <2>3. HasModern(a.pairs)
    BY <2>1, <2>2 DEF HasModern, Has
  <2>4. SelectedMode(a, r.mode) # "v1"
    BY <2>3 DEF PackError, PreflightError, SelectedModeError, SelectedMode
  <2> DEFINE p == ChannelPair(NormalizeBlockID(r.id), r.ch)
  <2>5. p \in Pair
    <3>1. NormalizeBlockID(r.id) \in ChannelIds
      BY NormalizedId DEF PackError, PreflightError, Requests
    <3>2. r.ch \in Channels
      BY <2>4 DEF PackError, WriteV2Error, Requests
    <3> QED  BY <3>1, <3>2, ChannelPairType
  <2>6. b.comment = a.comment /\ b.pairs = InsertChannel(a.pairs, p)
    BY <2>4 DEF Packed, WriteV2, Apk
  <2>7. a.pairs[i].id # "padding" /\ a.pairs \in Seq(Pair)
    BY <2>1, <2>2 DEF SignatureIds, Apk
  <2>8. \E j \in DOMAIN b.pairs : b.pairs[j] = a.pairs[i]
    BY <2>5, <2>6, <2>7, InsertKeeps
  <2>9. Verifies(b, scheme)
    BY <1>3, <2>1, <2>6, <2>8 DEF Verifies
  <2> QED  BY <1>1, <2>9 DEF VerifiedSchemes
<1> QED  BY <1>2, <1>3

(* Pack never costs an APK a signature that verified, in whatever order of  *)
(* calls and whatever else the signing block and the comment hold.          *)
THEOREM PackPreservesSignatures == Spec => PackKeepsSignatures
<1>1. TypeOK /\ [Next]_vars =>
        [last'.op = "pack" => VerifiedSchemes(apk) \subseteq VerifiedSchemes(apk')]_vars
  <2> SUFFICES ASSUME TypeOK, Next, last'.op = "pack"
               PROVE  VerifiedSchemes(apk) \subseteq VerifiedSchemes(apk')
    OBVIOUS
  <2>1. PICK r \in PackCalls : Pack(r)
    <3>1. \A r \in RemoveCalls : RemoveChannel(r) => last'.op = "remove"
      BY DEF RemoveChannel
    <3>2. \A scheme \in Signers : Sign(scheme) => last'.op = "sign"
      BY DEF Sign
    <3> QED  BY <3>1, <3>2 DEF Next
  <2>2. CASE PackError(apk, r) = "ok"
    BY <2>1, <2>2, InputsAssumption, PackKeepsVerified DEF Pack, TypeOK
  <2>3. CASE PackError(apk, r) # "ok"
    BY <2>1, <2>3 DEF Pack
  <2> QED  BY <2>2, <2>3
<1> QED  BY <1>1, TypeCorrect, PTL DEF Spec, PackKeepsSignatures

-----------------------------------------------------------------------------
(* Reading back.  The hypothesis on the base APKs matters: beside a block   *)
(* without a signature a V1 channel is hidden by a pair (run pack_unread).  *)

BlocksAreSigned ==
    /\ ~apk.hasBlock => apk.pairs = <<>>
    /\ apk.hasBlock => HasModern(apk.pairs)

LEMMA InsertKeepsModern ==
    ASSUME NEW s \in Seq(Pair), NEW p \in Pair, HasModern(s)
    PROVE  HasModern(InsertChannel(s, p))
<1>1. PICK id \in SignatureIds, i \in DOMAIN s : s[i].id = id
  BY DEF HasModern, Has
<1>2. \E j \in DOMAIN InsertChannel(s, p) : InsertChannel(s, p)[j] = s[i]
  BY <1>1, InsertKeeps DEF SignatureIds
<1> QED  BY <1>1, <1>2 DEF HasModern, Has

LEMMA DropKeepsModern ==
    ASSUME NEW s \in Seq(Pair), NEW id \in ChannelIds, HasModern(s)
    PROVE  HasModern(DropChannel(s, id))
<1>1. PICK scheme \in SignatureIds, i \in DOMAIN s : s[i].id = scheme
  BY DEF HasModern, Has
<1>2. scheme \notin {id, "padding"}
  BY OtherIdsAssumption DEF SignatureIds, ReservedIds, ChannelIds
<1>3. \E j \in DOMAIN DropChannel(s, id) : DropChannel(s, id)[j] = s[i]
  BY <1>1, <1>2, DropKeeps
<1> QED  BY <1>1, <1>3 DEF HasModern, Has

LEMMA BlocksStaySigned ==
    ASSUME TypeOK, BlocksAreSigned, [Next]_vars
    PROVE  BlocksAreSigned'
<1>1. ASSUME NEW r \in PackCalls, Pack(r) PROVE BlocksAreSigned'
  <2>1. CASE PackError(apk, r) # "ok"
    BY <1>1, <2>1 DEF Pack, BlocksAreSigned
  <2>2. CASE PackError(apk, r) = "ok" /\ SelectedMode(apk, r.mode) = "v1"
    BY <1>1, <2>2 DEF Pack, Packed, BlocksAreSigned, TypeOK, Apk
  <2>3. CASE PackError(apk, r) = "ok" /\ SelectedMode(apk, r.mode) # "v1"
    <3> DEFINE id == NormalizeBlockID(r.id)
    <3>1. id \in ChannelIds /\ r.ch \in Channels /\ apk.hasBlock
      BY <2>3, InputsAssumption, NormalizedId
         DEF PackError, PreflightError, WriteV2Error, Requests
    <3>2. ChannelPair(id, r.ch) \in Pair
      BY <3>1, ChannelPairType
    <3>3. HasModern(InsertChannel(apk.pairs, ChannelPair(id, r.ch)))
      BY <3>1, <3>2, InsertKeepsModern DEF BlocksAreSigned, TypeOK, Apk
    <3>4. apk' = [apk EXCEPT !.pairs = InsertChannel(apk.pairs, ChannelPair(id, r.ch))]
      BY <1>1, <2>3 DEF Pack, Packed, WriteV2
    <3> QED  BY <3>1, <3>3, <3>4 DEF BlocksAreSigned, TypeOK, Apk
  <2> QED  BY <2>1, <2>2, <2>3
<1>2. ASSUME NEW r \in RemoveCalls, RemoveChannel(r) PROVE BlocksAreSigned'
  <2> DEFINE id == NormalizeBlockID(r.id)
  <2>1. CASE RemoveError(apk, r) # "ok"
    BY <1>2, <2>1 DEF RemoveChannel, BlocksAreSigned
  <2>2. CASE RemoveError(apk, r) = "ok"
    <3>1. id \in ChannelIds
      BY <2>2, InputsAssumption, NormalizedId DEF RemoveError, PreflightError, Requests
    <3>2. \/ apk'.pairs = apk.pairs
          \/ apk.hasBlock /\ apk'.pairs = DropChannel(apk.pairs, id)
      <4>1. CASE r.mode = "auto"
        <5>1. ModernPairFound(apk, id) => apk.hasBlock
          BY EmptySeq DEF ModernPairFound, Has, BlocksAreSigned
        <5>2. \/ AfterPair(apk, id).pairs = apk.pairs
              \/ apk.hasBlock /\ AfterPair(apk, id).pairs = DropChannel(apk.pairs, id)
          BY <5>1 DEF AfterPair, RemoveV2, TypeOK, Apk
        <5>3. AfterPair(apk, id) \in Apk
          BY RemoveV2Type DEF AfterPair, TypeOK
        <5>4. apk' = AutoRemoved(apk, id)
          BY <1>2, <2>2, <4>1 DEF RemoveChannel, Removed
        <5>5. apk'.pairs = AfterPair(apk, id).pairs
          BY <5>3, <5>4 DEF AutoRemoved, CutSuffix, Apk
        <5> QED  BY <5>2, <5>5
      <4>2. CASE r.mode = "v1"
        BY <1>2, <2>2, <4>2 DEF RemoveChannel, Removed, CutSuffix, TypeOK, Apk
      <4>3. CASE r.mode \notin {"auto", "v1"}
        <5>1. apk.hasBlock
          BY <2>2, <4>3 DEF RemoveError, RemoveV2Error
        <5> QED  BY <1>2, <2>2, <4>3, <5>1 DEF RemoveChannel, Removed, RemoveV2, TypeOK, Apk
      <4> QED  BY <4>1, <4>2, <4>3
    <3>3. apk'.hasBlock = apk.hasBlock
      BY <1>2, <2>2
         DEF RemoveChannel, Removed, AutoRemoved, AfterPair, CutSuffix, RemoveV2, TypeOK, Apk
    <3>4. apk.hasBlock => HasModern(DropChannel(apk.pairs, id))
      BY <3>1, DropKeepsModern DEF BlocksAreSigned, TypeOK, Apk
    <3> QED  BY <3>2, <3>3, <3>4 DEF BlocksAreSigned
  <2> QED  BY <2>1, <2>2
<1>3. ASSUME NEW scheme \in Signers, Sign(scheme) PROVE BlocksAreSigned'
  <2>1. /\ apk'.hasBlock
        /\ apk'.pairs = <<SignaturePair(scheme, apk.comment), Padding>>
    BY <1>3 DEF Sign, TypeOK, Apk
  <2>2. 1 \in DOMAIN apk'.pairs /\ apk'.pairs[1].id = scheme
    BY <2>1 DEF SignaturePair
  <2> QED  BY <2>1, <2>2, InputsAssumption DEF BlocksAreSigned, HasModern, Has
<1>4. CASE UNCHANGED vars
  BY <1>4 DEF vars, BlocksAreSigned
<1> QED  BY <1>1, <1>2, <1>3, <1>4 DEF Next

(* A freshly written pair: the only one with its ID, in a valid block.      *)
LEMMA InsertedPair ==
    ASSUME NEW s \in Seq(Pair), NEW p \in Pair, p.id \in ChannelIds,
           ValidBlock(s), ~Has(s, p.id)
    PROVE  LET t == InsertChannel(s, p)
           IN  /\ Has(t, p.id)
               /\ t[Position(t, p.id)] = p
               /\ ~Repeated(t, p.id)
               /\ ValidBlock(t)
<1> DEFINE n == Len(InsertChannel(s, p))
           g == Gap(s)
<1>1. PICK t \in Seq(Pair) : t = InsertChannel(s, p)
  <2>1. InsertChannel(s, p) \in Seq(Pair)
    BY InsertType
  <2> QED  BY <2>1
<1>2. /\ Len(t) \in Nat
      /\ g \in 1 .. Len(t) - 1
      /\ t[g] = p
      /\ t[Len(t)] = Padding
      /\ \A j \in 1 .. Len(t) - 1 : j # g => j \in 1 .. Len(s) /\ t[j] = s[j]
  BY <1>1, InsertShape
<1>3. DOMAIN t = 1 .. Len(t) /\ DOMAIN s = 1 .. Len(s)
  BY LenProperties
<1>4. p.id \notin ReservedIds
  BY OtherIdsAssumption DEF ChannelIds, ReservedIds, SignatureIds
<1> HIDE DEF g
<1>5. ASSUME NEW j \in DOMAIN t
      PROVE  \/ j = g
             \/ j = Len(t) /\ t[j].id = "padding"
             \/ j # g /\ j \in DOMAIN s /\ t[j] = s[j]
  BY <1>2, <1>3 DEF Padding
<1>6. g \in DOMAIN t /\ t[g].id = p.id
  BY <1>2, <1>3
<1>7. \A j \in DOMAIN t : t[j].id = p.id => j = g
  BY <1>4, <1>5 DEF Has, ReservedIds
<1>8. Has(t, p.id) /\ Position(t, p.id) = g /\ ~Repeated(t, p.id)
  <2>1. Has(t, p.id) /\ ~Repeated(t, p.id)
    BY <1>6, <1>7 DEF Has, Repeated
  <2>2. Position(t, p.id) \in DOMAIN t /\ t[Position(t, p.id)].id = p.id
    BY <2>1, <1>3, PositionIs
  <2> QED  BY <1>7, <2>1, <2>2
<1>9. \A j \in DOMAIN t : t[j].id = "padding" => j = Len(t)
  <2> SUFFICES ASSUME NEW j \in DOMAIN t, t[j].id = "padding", j # Len(t) PROVE FALSE
    OBVIOUS
  <2>1. j # g /\ j \in DOMAIN s /\ s[j].id = "padding"
    BY <1>4, <1>5, <1>6 DEF ReservedIds
  <2>2. g \in DOMAIN s /\ s[g].id = "padding"
    BY <2>1, <1>3, PositionIs DEF Gap, Has, g
  <2> QED  BY <2>1, <2>2 DEF ValidBlock, Repeated, ReservedIds
<1>10. ASSUME NEW id \in ReservedIds \cup {"vasdolly"} PROVE ~Repeated(t, id)
  <2>1. CASE id = p.id
    BY <1>8, <2>1
  <2>2. CASE id = "padding"
    BY <1>9, <2>2 DEF Repeated
  <2>3. CASE id # p.id /\ id # "padding"
    <3>1. \A j \in DOMAIN t : t[j].id = id => j \in DOMAIN s /\ s[j].id = id
      BY <1>5, <1>6, <2>3
    <3> QED  BY <3>1 DEF ValidBlock, Repeated
  <2> QED  BY <2>1, <2>2, <2>3
<1>11. \A j \in DOMAIN t : t[j].id = "padding" => t[j].enc = "zeros"
  BY <1>2, <1>9 DEF Padding
<1> QED  BY <1>1, <1>2, <1>8, <1>10, <1>11 DEF ValidBlock

LEMMA PackedReadsBack ==
    ASSUME NEW a \in Apk, NEW r \in Requests, PackError(a, r) = "ok",
           ~a.hasBlock => a.pairs = <<>>, a.hasBlock => HasModern(a.pairs),
           CDOffset(Packed(a, r)) # MaxOffset
    PROVE  /\ ReadError(Packed(a, r), r.id) = "ok"
           /\ ReadValue(Packed(a, r), r.id) = r.ch
<1> DEFINE b == Packed(a, r)
           id == NormalizeBlockID(r.id)
<1>1. /\ ValidBlockID(r.id) /\ id \in ChannelIds
      /\ Loads(a) /\ SelectedModeError(a, r.mode) = "ok"
  BY NormalizedId DEF PackError, PreflightError, Requests
<1>2. id # "comment"
  BY <1>1, OtherIdsAssumption DEF ChannelIds
<1>3. CASE SelectedMode(a, r.mode) = "v1"
  <2>1. ~HasModern(a.pairs)
    BY <1>1, <1>3 DEF SelectedModeError, SelectedMode
  <2>2. ~a.hasBlock /\ a.pairs = <<>>
    BY <2>1
  <2>3. /\ b.intact = a.intact /\ b.hasBlock = a.hasBlock /\ b.pairs = a.pairs
        /\ b.comment = WriteV1(a.comment, r.ch)
    BY <1>3 DEF Packed, Apk
  <2>4. Loads(b)
    BY <1>1, <2>2, <2>3 DEF Loads
  <2>5. \A x : ~Has(b.pairs, x)
    BY <2>2, <2>3 DEF Has
  <2>6. ReadSlot(b, r.id) = "comment"
    BY <2>5 DEF ReadSlot
  <2>7. V1Found(b.comment) /\ ~V1Broken(b.comment) /\ V1Channel(b.comment) = r.ch
    <3>1. r.ch \in Channels
      BY <1>3 DEF PackError, WriteV1Error, ValidV1Channel, Requests
    <3>2. Suffix(r.ch) \in CommentToken
      <4>1. ChannelLen[r.ch] + 10 \in Nat
        BY <3>1, ChannelsAssumption
      <4> QED  BY <3>1, <4>1 DEF Suffix, SuffixLen, CommentToken
    <3>3. a.comment \in Seq(CommentToken)
      BY DEF Apk, Comments
    <3>4. b.comment # <<>> /\ b.comment[Len(b.comment)] = Suffix(r.ch)
      BY <2>3, <3>2, <3>3, AppendProperties DEF WriteV1
    <3> QED  BY <3>4 DEF V1Found, V1Broken, V1Channel, LastIs, Suffix
  <2> QED  BY <1>1, <2>4, <2>6, <2>7 DEF ReadError, ReadValue, RemoveV1Error
<1>4. CASE SelectedMode(a, r.mode) # "v1"
  <2> DEFINE p == ChannelPair(id, r.ch)
  <2>1. r.ch \in Channels /\ a.hasBlock /\ ~Has(a.pairs, id)
    BY <1>4 DEF PackError, WriteV2Error, Requests
  <2>2. p \in Pair /\ p.id = id
    BY <1>1, <2>1, ChannelPairType DEF ChannelPair
  <2>3. ValidPairValue(p) /\ p.channel = r.ch
    BY DEF ValidPairValue, ChannelPair
  <2>4. /\ b.intact = a.intact /\ b.pairs = InsertChannel(a.pairs, p)
        /\ b.hasBlock = a.hasBlock
    BY <1>4 DEF Packed, WriteV2, Apk
  <2> HIDE DEF p
  <2>5. a.pairs \in Seq(Pair) /\ ValidBlock(a.pairs)
    BY <1>1, <2>1 DEF Loads, Apk
  <2>6. /\ Has(b.pairs, id)
        /\ b.pairs[Position(b.pairs, id)] = p
        /\ ~Repeated(b.pairs, id)
        /\ ValidBlock(b.pairs)
    BY <1>1, <2>1, <2>2, <2>4, <2>5, InsertedPair
  <2>7. ~ChannelPairBroken(b.pairs, id)
    <3>1. b.pairs \in Seq(Pair)
      BY <2>2, <2>4, <2>5, InsertType
    <3>2. Position(b.pairs, id) \in DOMAIN b.pairs /\ b.pairs[Position(b.pairs, id)].id = id
      BY <2>6, <3>1, PositionIs, LenProperties
    <3>3. \A i \in DOMAIN b.pairs : b.pairs[i].id = id => b.pairs[i] = p
      BY <2>6, <3>2 DEF Repeated
    <3> QED  BY <2>3, <2>6, <3>3 DEF ChannelPairBroken
  <2>8. Loads(b)
    BY <1>1, <2>4, <2>6 DEF Loads
  <2>9. ReadSlot(b, r.id) = id
    BY <2>6 DEF ReadSlot, NormalizeBlockID
  <2> QED  BY <1>1, <1>2, <2>3, <2>6, <2>7, <2>8, <2>9 DEF ReadError, ReadValue
<1> QED  BY <1>3, <1>4

(* A channel that Pack wrote is the channel ReadChannelWithBlockID returns  *)
(* for the same ID, if every base APK with a signing block is signed V2 or  *)
(* later and the central directory did not land on ZIP64's sentinel.        *)
THEOREM PackedChannelIsRead ==
    ASSUME \A a \in Bases : a.hasBlock => HasModern(a.pairs)
    PROVE  Spec => [](CDOffset(apk) # MaxOffset => PackedIsReadable)
<1> DEFINE Good == CDOffset(apk) # MaxOffset => PackedIsReadable
<1>1. Init => BlocksAreSigned /\ Good
  BY InputsAssumption DEF Init, BlocksAreSigned, PackedIsReadable, Wrote
<1>2. TypeOK /\ BlocksAreSigned /\ Good /\ [Next]_vars => BlocksAreSigned' /\ Good'
  <2> SUFFICES ASSUME TypeOK, BlocksAreSigned, Good, [Next]_vars
               PROVE  BlocksAreSigned' /\ Good'
    OBVIOUS
  <2>1. BlocksAreSigned'
    BY BlocksStaySigned
  <2>2. ASSUME NEW r \in PackCalls, Pack(r) PROVE Good'
    <3> SUFFICES ASSUME Wrote("pack")', CDOffset(apk') # MaxOffset
                 PROVE  /\ ReadError(apk', last'.req.id) = "ok"
                        /\ ReadValue(apk', last'.req.id) = last'.req.ch
      BY DEF PackedIsReadable, Wrote
    <3>1. last'.req = r /\ PackError(apk, r) = "ok" /\ apk' = Packed(apk, r)
      BY <2>2 DEF Pack, Wrote
    <3>2. apk \in Apk /\ r \in Requests
      BY InputsAssumption DEF TypeOK
    <3> QED  BY <3>1, <3>2, PackedReadsBack DEF BlocksAreSigned
  <2>3. ASSUME NEW r \in RemoveCalls, RemoveChannel(r) PROVE Good'
    BY <2>3 DEF RemoveChannel, PackedIsReadable, Wrote
  <2>4. ASSUME NEW scheme \in Signers, Sign(scheme) PROVE Good'
    BY <2>4 DEF Sign, PackedIsReadable, Wrote
  <2>5. CASE UNCHANGED vars
    BY <2>1, <2>5 DEF vars, PackedIsReadable, Wrote
  <2> QED  BY <2>1, <2>2, <2>3, <2>4, <2>5 DEF Next
<1> QED  BY <1>1, <1>2, TypeCorrect, PTL DEF Spec
=============================================================================
