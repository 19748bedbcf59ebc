----------------------------- MODULE Transform -----------------------------
(***************************************************************************)
(* Pack, RemoveChannel and ReadChannelWithBlockID as functions of an APK    *)
(* and a request (internal/core/transform.go, detect.go, signingblock.go).  *)
(* An ...Error operator gives the code's result, "ok" or the first check    *)
(* that fails, in the order of the code; the companion gives the APK        *)
(* written when the result is "ok".                                         *)
(***************************************************************************)
EXTENDS Archive

Modes == {"auto", "v1", "v2", "bad"}   \* "bad": a string that names no mode

Requests == [mode : Modes, id : RequestIds, ch : Channels \cup {NoChannel}, verify : BOOLEAN]

Results == {"ok", "ErrInvalidMode", "ErrNoSigningBlock", "ErrUnverifiedInput",
            "ErrReservedBlockID", "ErrInvalidChannel", "ErrChannelExists",
            "ErrChannelNotFound", "malformed", "limit"}

-----------------------------------------------------------------------------
(* selectedMode and verifySelected.                                         *)

(* Mutant: mode V1 on an APK with a V2, V3 or V3.1 signature.                *)
SelectedModeErrorV1Anywhere(a, mode) ==
    IF mode = "bad" THEN "ErrInvalidMode"
    ELSE IF mode = "v2" /\ ~a.hasBlock THEN "ErrNoSigningBlock"
    ELSE "ok"

SelectedModeError(a, mode) ==
    IF mode = "bad" \/ (mode = "v1" /\ HasModern(a.pairs)) THEN "ErrInvalidMode"
    ELSE IF mode = "v2" /\ ~a.hasBlock THEN "ErrNoSigningBlock"
    ELSE "ok"

SelectedMode(a, mode) ==
    IF mode = "auto" THEN (IF HasModern(a.pairs) THEN "v2" ELSE "v1") ELSE mode

(* V2 counts only without a V3 or V3.1 signature.                           *)
SelectedVerifies(a, mode) ==
    IF mode = "v1" THEN Verifies(a, "v1")
    ELSE /\ HasModern(a.pairs)
         /\ \A id \in {"v3", "v31"} : Has(a.pairs, id) => Verifies(a, id)
         /\ \/ Has(a.pairs, "v3")
            \/ Has(a.pairs, "v31")
            \/ Verifies(a, "v2")

(* The checks Pack and RemoveChannel share, up to the chosen mode.          *)
PreflightError(a, r) ==
    IF ~ValidBlockID(r.id) THEN "ErrReservedBlockID"
    ELSE IF ~Loads(a) THEN "malformed"
    ELSE IF SelectedModeError(a, r.mode) # "ok" THEN SelectedModeError(a, r.mode)
    ELSE IF r.verify /\ ~SelectedVerifies(a, SelectedMode(a, r.mode)) THEN "ErrUnverifiedInput"
    ELSE "ok"

-----------------------------------------------------------------------------
(* writeV2, removeV2 and rewriteBlockWithBytes.                             *)

RewriteError(a, pairs) == IF a.start + BlockLen(pairs) > MaxOffset THEN "limit" ELSE "ok"

(* Mutant: a pair is added beside a V1 suffix.                              *)
WriteV2ErrorBesideV1(a, id, ch) ==
    IF ch = NoChannel THEN "ErrInvalidChannel"
    ELSE IF ~a.hasBlock THEN "ErrNoSigningBlock"
    ELSE IF ChannelPairBroken(a.pairs, id) THEN "malformed"
    ELSE IF Has(a.pairs, id) THEN "ErrChannelExists"
    ELSE RewriteError(a, InsertChannel(a.pairs, ChannelPair(id, ch)))

WriteV2Error(a, id, ch) ==
    IF ch = NoChannel THEN "ErrInvalidChannel"
    ELSE IF ~a.hasBlock THEN "ErrNoSigningBlock"
    ELSE IF ChannelPairBroken(a.pairs, id) THEN "malformed"
    ELSE IF Has(a.pairs, id) THEN "ErrChannelExists"
    ELSE IF V1Broken(a.comment) THEN "malformed"
    ELSE IF V1Found(a.comment) THEN "ErrChannelExists"
    ELSE RewriteError(a, InsertChannel(a.pairs, ChannelPair(id, ch)))

WriteV2(a, id, ch) == [a EXCEPT !.pairs = InsertChannel(@, ChannelPair(id, ch))]

RemoveV2Error(a, id) ==
    IF ~a.hasBlock THEN "ErrNoSigningBlock"
    ELSE IF V1Broken(a.comment) \/ ChannelPairBroken(a.pairs, id) THEN "malformed"
    ELSE IF ~Has(a.pairs, id) THEN "ErrChannelNotFound"
    ELSE RewriteError(a, DropChannel(a.pairs, id))

RemoveV2(a, id) == [a EXCEPT !.pairs = DropChannel(@, id)]

CutSuffix(a) == [a EXCEPT !.comment = RemoveV1(@)]

-----------------------------------------------------------------------------
(* Pack.                                                                    *)

PackError(a, r) ==
    IF PreflightError(a, r) # "ok" THEN PreflightError(a, r)
    ELSE IF SelectedMode(a, r.mode) = "v1" THEN WriteV1Error(a.comment, r.ch)
    ELSE WriteV2Error(a, NormalizeBlockID(r.id), r.ch)

Packed(a, r) ==
    IF SelectedMode(a, r.mode) = "v1"
    THEN [a EXCEPT !.comment = WriteV1(@, r.ch)]
    ELSE WriteV2(a, NormalizeBlockID(r.id), r.ch)

-----------------------------------------------------------------------------
(* RemoveChannel.  In auto mode the target pair and a V1 suffix both go;    *)
(* the pair only when a V2, V3 or V3.1 signature is there, and the suffix   *)
(* from the file the first step wrote, loaded again.                        *)

ModernPairFound(a, id) == HasModern(a.pairs) /\ Has(a.pairs, id)

AfterPair(a, id) == IF ModernPairFound(a, id) THEN RemoveV2(a, id) ELSE a

AutoRemoveError(a, id) ==
    IF V1Broken(a.comment) \/ ChannelPairBroken(a.pairs, id) THEN "malformed"
    ELSE IF ~Has(a.pairs, id) /\ ~V1Found(a.comment) THEN "ErrChannelNotFound"
    ELSE IF ModernPairFound(a, id) /\ RemoveV2Error(a, id) # "ok" THEN RemoveV2Error(a, id)
    ELSE IF V1Found(a.comment) /\ ~Loads(AfterPair(a, id)) THEN "malformed"
    ELSE "ok"

(* Mutant: the second step works on the input, not on what the first wrote. *)
AutoRemovedApart(a, id) == IF V1Found(a.comment) THEN CutSuffix(a) ELSE AfterPair(a, id)

AutoRemoved(a, id) ==
    IF V1Found(a.comment) THEN CutSuffix(AfterPair(a, id)) ELSE AfterPair(a, id)

RemoveError(a, r) ==
    IF PreflightError(a, r) # "ok" THEN PreflightError(a, r)
    ELSE CASE r.mode = "auto" -> AutoRemoveError(a, NormalizeBlockID(r.id))
           [] r.mode = "v1"   -> RemoveV1Error(a.comment)
           [] OTHER           -> RemoveV2Error(a, NormalizeBlockID(r.id))

Removed(a, r) ==
    CASE r.mode = "auto" -> AutoRemoved(a, NormalizeBlockID(r.id))
      [] r.mode = "v1"   -> CutSuffix(a)
      [] OTHER           -> RemoveV2(a, NormalizeBlockID(r.id))

-----------------------------------------------------------------------------
(* ReadChannelWithBlockID: a pair first, the V1 suffix when it is absent.   *)
(* Without an ID the VasDolly pair comes before the Walle pair.             *)

ReadSlot(a, id) ==
    IF id = "zero" /\ ~Has(a.pairs, "vasdolly") /\ Has(a.pairs, "walle") THEN "walle"
    ELSE IF Has(a.pairs, NormalizeBlockID(id)) THEN NormalizeBlockID(id)
    ELSE "comment"

ReadError(a, id) ==
    IF ~ValidBlockID(id) THEN "ErrReservedBlockID"
    ELSE IF ~Loads(a) THEN "malformed"
    ELSE IF ReadSlot(a, id) = "comment" THEN RemoveV1Error(a.comment)
    ELSE IF ChannelPairBroken(a.pairs, ReadSlot(a, id)) THEN "malformed"
    ELSE "ok"

ReadValue(a, id) ==
    IF ReadSlot(a, id) = "comment" THEN V1Channel(a.comment)
    ELSE a.pairs[Position(a.pairs, ReadSlot(a, id))].channel
-----------------------------------------------------------------------------
(* Detect, as far as it looks at the block; the mode it reports goes by the *)
(* pairs that are there, whether or not they verify.                        *)

(* Mutant: only a V2 pair makes the mode V2.                                *)
DetectionOfV2(a) ==
    [hasV2 |-> Has(a.pairs, "v2"), hasV3 |-> Has(a.pairs, "v3") \/ Has(a.pairs, "v31"),
     hasV31 |-> Has(a.pairs, "v31"), mode |-> IF Has(a.pairs, "v2") THEN "v2" ELSE "v1"]

Detection(a) ==
    [hasV2 |-> Has(a.pairs, "v2"), hasV3 |-> Has(a.pairs, "v3") \/ Has(a.pairs, "v31"),
     hasV31 |-> Has(a.pairs, "v31"), mode |-> IF HasModern(a.pairs) THEN "v2" ELSE "v1"]
=============================================================================
