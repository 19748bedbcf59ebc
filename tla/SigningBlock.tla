---------------------------- MODULE SigningBlock ----------------------------
(***************************************************************************)
(* The APK Signing Block as apktag sees it: an ordered sequence of ID-value *)
(* pairs, some with a meaning to Android (signatures, source stamps, the    *)
(* zero-filled padding), one or more carrying a distribution channel, the   *)
(* others foreign and opaque.  internal/core/signingblock.go reads, inserts *)
(* and drops channel pairs and reassembles the block.                       *)
(*                                                                          *)
(* What is abstracted.  A pair's bytes are what their readers can tell of   *)
(* them: a channel, raw or inside a Walle JSON object; a signature, as the  *)
(* ZIP comment it was computed over; zeros; or opaque bytes that are no     *)
(* channel.  The fill of the padding pair is not stored: a block with a     *)
(* padding pair has the length the alignment gives it.                      *)
(***************************************************************************)
EXTENDS SeqFolds

CONSTANTS
    Channels,    \* the channel names: non-empty valid UTF-8
    NoChannel,   \* an invalid name (empty or not UTF-8), and the absence of one
    ChannelLen,  \* [Channels -> Nat]: length in bytes
    OtherIds,    \* IDs that neither Android, VasDolly nor Walle defines
    PageSize     \* the alignment of the block: 4096

ASSUME ChannelsAssumption ==
    /\ NoChannel \notin Channels
    /\ ChannelLen \in [Channels -> Nat \ {0}]

ASSUME PageAssumption == PageSize \in Nat \ {0}

-----------------------------------------------------------------------------
(* IDs.  "zero" is the request for the default ID; no pair has it.          *)

SignatureIds == {"v2", "v3", "v31"}

ReservedIds == SignatureIds \cup {"padding", "stampV1", "stampV2", "dependency"}

ChannelIds == {"vasdolly", "walle"} \cup OtherIds

PairIds == ReservedIds \cup ChannelIds

RequestIds == PairIds \cup {"zero"}

ASSUME OtherIdsAssumption ==
    OtherIds \cap (ReservedIds \cup {"vasdolly", "walle", "zero", "comment"}) = {}

(* Mutant: the zero ID is used as it stands.                                *)
NormalizeBlockIDForgotten(id) == id

NormalizeBlockID(id) == IF id = "zero" THEN "vasdolly" ELSE id

ValidBlockID(id) == NormalizeBlockID(id) \notin ReservedIds

-----------------------------------------------------------------------------
(* Comments.  A signature covers the ZIP comment, so the pairs mention      *)
(* comments: module ZipComment says what the kinds of token stand for.      *)

CommentToken ==
    [kind : {"text", "suffix", "broken"}, channel : Channels \cup {NoChannel}, len : Nat]

Comments == Seq(CommentToken)

(* Pairs.  enc: how the value encodes its channel, or what else it holds.   *)

Pair ==
    [id      : PairIds,
     enc     : {"raw", "json", "signature", "opaque", "zeros"},
     channel : Channels \cup {NoChannel},
     over    : Comments,        \* the comment a signature was computed over
     len     : Nat]             \* bytes of the value (padding: of no use)

Padding == [id |-> "padding", enc |-> "zeros", channel |-> NoChannel,
            over |-> <<>>, len |-> 0]

(* Mutant: a Walle value is written like the others.                        *)
ChannelPairRaw(id, ch) ==
    [id |-> id, enc |-> "raw", channel |-> ch, over |-> <<>>, len |-> ChannelLen[ch]]

(* {"channel":"..."} is 14 bytes longer than the name.                      *)
ChannelPair(id, ch) ==
    [id      |-> id,
     enc     |-> IF id = "walle" THEN "json" ELSE "raw",
     channel |-> ch,
     over    |-> <<>>,
     len     |-> IF id = "walle" THEN ChannelLen[ch] + 14 ELSE ChannelLen[ch]]

-----------------------------------------------------------------------------
(* Reading the pairs.                                                       *)

Has(pairs, id) == \E i \in DOMAIN pairs : pairs[i].id = id

Position(pairs, id) == CHOOSE i \in DOMAIN pairs : pairs[i].id = id

Repeated(pairs, id) ==
    \E i, j \in DOMAIN pairs : i # j /\ pairs[i].id = id /\ pairs[j].id = id

(* A Walle value must be JSON with a channel, any other one non-empty UTF-8. *)
ValidPairValue(p) ==
    IF p.id = "walle" THEN p.enc = "json" ELSE p.enc \in {"raw", "json"}

(* channelPair returns an error: the ID repeats or its value is no channel. *)
ChannelPairBroken(pairs, id) ==
    \/ Repeated(pairs, id)
    \/ \E i \in DOMAIN pairs : pairs[i].id = id /\ ~ValidPairValue(pairs[i])

HasModern(pairs) == \E id \in SignatureIds : Has(pairs, id)

(* The block passes validateBlock.                                          *)
ValidBlock(pairs) ==
    /\ \A id \in ReservedIds \cup {"vasdolly"} : ~Repeated(pairs, id)
    /\ \A i \in DOMAIN pairs : pairs[i].id = "padding" => pairs[i].enc = "zeros"

-----------------------------------------------------------------------------
(* Assembling a block.                                                      *)

(* Two size fields and the magic frame the pairs; each pair has a 12-byte   *)
(* header.                                                                  *)
RawLen(pairs) == 32 + Total([i \in DOMAIN pairs |-> 12 + pairs[i].len])

(* The fill assembleSigningBlockWithInfo gives the padding pair of a block  *)
(* that is base bytes long with an empty one.                               *)
Fill(base) == (PageSize - (base % PageSize)) % PageSize

BlockLen(pairs) ==
    IF Has(pairs, "padding") THEN RawLen(pairs) + Fill(RawLen(pairs)) ELSE RawLen(pairs)

Without(pairs, id) ==
    IF Has(pairs, id) THEN RemoveAt(pairs, Position(pairs, id)) ELSE pairs

Assemble(pairs) == Append(pairs, Padding)

(* Mutants: the old padding pair stays; the loop stops at the padding.      *)
InsertBesideOldPadding(pairs, p) == Assemble(Append(pairs, p))

InsertAndStop(pairs, p) ==
    Assemble(IF Has(pairs, "padding")
             THEN Append(SubSeq(pairs, 1, Position(pairs, "padding") - 1), p)
             ELSE Append(pairs, p))

(* writeV2 puts the channel where the padding was, or last, and keeps the   *)
(* order of the others.                                                     *)
InsertChannel(pairs, p) ==
    Assemble(IF Has(pairs, "padding")
             THEN [pairs EXCEPT ![Position(pairs, "padding")] = p]
             ELSE Append(pairs, p))

(* removeV2 drops the channel's pair and the old padding.                   *)
DropChannel(pairs, id) == Assemble(Without(Without(pairs, id), "padding"))
=============================================================================
