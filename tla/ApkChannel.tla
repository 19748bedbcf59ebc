----------------------------- MODULE ApkChannel -----------------------------
(***************************************************************************)
(* The life of one APK under apktag: any sequence of Pack and RemoveChannel *)
(* calls, each on the output of the last successful one, with a signing     *)
(* tool that may (re)sign the file in between.  Inputs are never modified:  *)
(* a refused call leaves the APK as it was.                                 *)
(***************************************************************************)
EXTENDS Transform

CONSTANTS
    Bases,         \* the APKs a history starts from
    PackCalls,     \* the requests to Pack
    RemoveCalls,   \* the requests to RemoveChannel
    Signers        \* the schemes an external signer applies

(* Who reads a channel reads a name: empty and non-UTF-8 values are opaque, *)
(* and a suffix of that kind is broken.                                     *)
ChannelsNamed(a) ==
    /\ \A i \in DOMAIN a.pairs :
          a.pairs[i].enc \in {"raw", "json"} => a.pairs[i].channel \in Channels
    /\ \A i \in DOMAIN a.comment :
          a.comment[i].kind = "suffix" => a.comment[i].channel \in Channels

ASSUME InputsAssumption ==
    /\ Bases \subseteq Apk
    /\ \A a \in Bases :
          /\ ~a.hasBlock => a.pairs = <<>>
          /\ ChannelsNamed(a)
    /\ PackCalls \subseteq Requests
    /\ RemoveCalls \subseteq Requests
    /\ Signers \subseteq SignatureIds

VARIABLES
    apk,     \* the current file
    prior,   \* the file the last call was given
    last     \* the last call and its result

vars == <<apk, prior, last>>

Calls == [op : {"none", "pack", "remove", "sign"}, req : Requests, result : Results]

NoRequest == [mode |-> "auto", id |-> "zero", ch |-> NoChannel, verify |-> FALSE]

Init ==
    /\ apk \in Bases
    /\ prior = apk
    /\ last = [op |-> "none", req |-> NoRequest, result |-> "ok"]

Pack(r) ==
    /\ apk' = IF PackError(apk, r) = "ok" THEN Packed(apk, r) ELSE apk
    /\ prior' = apk
    /\ last' = [op |-> "pack", req |-> r, result |-> PackError(apk, r)]

RemoveChannel(r) ==
    /\ apk' = IF RemoveError(apk, r) = "ok" THEN Removed(apk, r) ELSE apk
    /\ prior' = apk
    /\ last' = [op |-> "remove", req |-> r, result |-> RemoveError(apk, r)]

(* External: a signer builds a fresh block, over the comment as it is.      *)
SignaturePair(scheme, comment) ==
    [id |-> scheme, enc |-> "signature", channel |-> NoChannel, over |-> comment, len |-> 700]

Sign(scheme) ==
    /\ apk.intact
    /\ apk' = [apk EXCEPT !.hasBlock = TRUE,
                          !.pairs = <<SignaturePair(scheme, apk.comment), Padding>>]
    /\ prior' = apk
    /\ last' = [op |-> "sign", req |-> NoRequest, result |-> "ok"]

Next ==
    \/ \E r \in PackCalls : Pack(r)
    \/ \E r \in RemoveCalls : RemoveChannel(r)
    \/ \E scheme \in Signers : Sign(scheme)

Spec == Init /\ [][Next]_vars

-----------------------------------------------------------------------------
(* Safety.                                                                  *)

(* Every file in a history is an APK record and every call gets one of the  *)
(* documented results: no insertion or removal leaves the block's types.    *)
TypeOK ==
    /\ apk \in Apk
    /\ prior \in Apk
    /\ last \in Calls

Wrote(op) == last.op = op /\ last.result = "ok"

(* What apktag writes, apktag can load again: the block is well formed, it  *)
(* is page-aligned with its one padding pair last, and the central          *)
(* directory's offset is one loadArchive accepts.                           *)
Rewritten == (Wrote("pack") \/ Wrote("remove")) /\ apk.pairs # prior.pairs

ProducedReloads ==
    /\ Wrote("pack") \/ Wrote("remove") => Loads(apk)
    /\ Rewritten => /\ BlockLen(apk.pairs) % PageSize = 0
                    /\ apk.pairs[Len(apk.pairs)].id = "padding"

(* After a successful Pack, ReadChannelWithBlockID with the same block ID   *)
(* returns the channel just written, whatever else the APK carries.         *)
PackedIsReadable ==
    Wrote("pack") =>
        /\ ReadError(apk, last.req.id) = "ok"
        /\ ReadValue(apk, last.req.id) = last.req.ch

(* After a successful RemoveChannel in auto mode neither the target pair    *)
(* nor a V1 suffix is left.                                                 *)
RemovedIsGone ==
    Wrote("remove") /\ last.req.mode = "auto" =>
        /\ ~Has(apk.pairs, NormalizeBlockID(last.req.id))
        /\ ~V1Found(apk.comment)

-----------------------------------------------------------------------------
(* Action properties.                                                       *)

VerifiedSchemes(a) == {s \in Schemes : Verifies(a, s)}

(* Pack never costs the APK a signature that verified.                      *)
PackKeepsSignatures ==
    [][last'.op = "pack" => VerifiedSchemes(apk) \subseteq VerifiedSchemes(apk')]_vars

(* Neither does RemoveChannel.                                              *)
RemoveKeepsSignatures ==
    [][last'.op = "remove" => VerifiedSchemes(apk) \subseteq VerifiedSchemes(apk')]_vars

PairsBut(ids) == {p \in Pair : p.id \notin ids}

ForeignPairs(a, id) == Kept(a.pairs, PairsBut({id, "padding"}))

ForeignComment(a) == Kept(a.comment, {t \in CommentToken : t.kind # "suffix"})

(* A call keeps every pair that is neither its target nor the padding, with *)
(* its value and in its place among the others, and every byte of the       *)
(* comment that is no channel suffix.                                       *)
ForeignMetadataKept ==
    [][last'.op \in {"pack", "remove"} =>
          LET id == NormalizeBlockID(last'.req.id)
          IN  /\ ForeignPairs(apk', id) = ForeignPairs(apk, id)
              /\ ForeignComment(apk') = ForeignComment(apk)]_vars

WithoutPadding(a) == [a EXCEPT !.pairs = Kept(@, PairsBut({"padding"}))]

SameTarget(r, q) == r.mode = q.mode /\ r.id = q.id /\ r.verify = q.verify

(* RemoveChannel undoes the Pack before it: with the same target it is not  *)
(* refused, and it gives back the file Pack was given, but for the padding. *)
RemoveUndoesPack ==
    [][Wrote("pack") /\ last'.op = "remove" /\ SameTarget(last.req, last'.req) =>
          /\ last'.result = "ok"
          /\ WithoutPadding(apk') = WithoutPadding(prior)]_vars

(* Detect and Pack decide apart from each other which scheme an APK has:    *)
(* what automatic mode writes is in the representation Detect announced,    *)
(* and the APK with a channel is detected as the one without.               *)
AutoFollowsDetect ==
    [][last'.op = "pack" /\ last'.result = "ok" =>
          /\ Detection(apk') = Detection(apk)
          /\ last'.req.mode = "auto" =>
                (Detection(apk).mode = "v1" <=> apk'.comment # apk.comment)]_vars

-----------------------------------------------------------------------------
(* Refinement.  A pair's slot holds its channel; a repeated or invalid pair *)
(* makes it unreadable, and so does a broken suffix the comment.            *)

ASSUME StoreAssumption == "unreadable" \notin Channels \cup {NoChannel}

SlotOfPair(a, id) ==
    IF ChannelPairBroken(a.pairs, id) THEN "unreadable"
    ELSE IF Has(a.pairs, id) THEN a.pairs[Position(a.pairs, id)].channel
    ELSE NoChannel

SlotOfComment(a) ==
    IF V1Broken(a.comment) THEN "unreadable"
    ELSE IF V1Found(a.comment) THEN V1Channel(a.comment)
    ELSE NoChannel

StoreOf(a) ==
    [s \in ChannelIds \cup {"comment"} |->
        IF s = "comment" THEN SlotOfComment(a) ELSE SlotOfPair(a, s)]

Abstract == INSTANCE ChannelStore WITH
    PairSlots <- ChannelIds, Comment <- "comment", None <- NoChannel,
    Unreadable <- "unreadable", Refusals <- Results \ {"ok"},
    store <- StoreOf(apk), reply <- last.result

(* The calls on the bytes of an APK are calls on the store of slots.        *)
ImplementsStore == Abstract!StoreSpec
=============================================================================
