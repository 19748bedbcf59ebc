----------------------------- MODULE ZipComment -----------------------------
(***************************************************************************)
(* V1 mode: the channel is a suffix of the ZIP comment (channel bytes,      *)
(* two-byte length, the marker "ltlovezh"), read backwards from the end of  *)
(* the file.  internal/core/v1.go.                                          *)
(*                                                                          *)
(* A comment is a sequence of tokens of module SigningBlock: foreign "text" *)
(* that does not end in the marker, a well-formed channel "suffix", or      *)
(* "broken" bytes that end in the marker but are truncated, have an         *)
(* impossible length or are not UTF-8.                                      *)
(***************************************************************************)
EXTENDS SigningBlock

MaxV1Channel == 32767   \* VasDolly reads the length through a signed short
MaxComment   == 65535

CommentLen(comment) == Total([i \in DOMAIN comment |-> comment[i].len])

SuffixLen(ch) == ChannelLen[ch] + 10

Suffix(ch) == [kind |-> "suffix", channel |-> ch, len |-> SuffixLen(ch)]

LastIs(comment, kind) == comment # <<>> /\ comment[Len(comment)].kind = kind

(* parseV1Comment: the channel it finds, and its error.                     *)
V1Found(comment) == LastIs(comment, "suffix")

V1Broken(comment) == LastIs(comment, "broken")

V1Channel(comment) == comment[Len(comment)].channel

ValidV1Channel(ch) == ch # NoChannel /\ ChannelLen[ch] <= MaxV1Channel

(* writeV1: the error, in the order of the code's checks, and the comment.  *)
WriteV1Error(comment, ch) ==
    IF ~ValidV1Channel(ch) THEN "ErrInvalidChannel"
    ELSE IF V1Broken(comment) THEN "malformed"
    ELSE IF V1Found(comment) THEN "ErrChannelExists"
    ELSE IF CommentLen(comment) + SuffixLen(ch) > MaxComment THEN "limit"
    ELSE "ok"

WriteV1(comment, ch) == Append(comment, Suffix(ch))

(* removeV1 and readV1 without a suffix to work on.                         *)
RemoveV1Error(comment) ==
    IF V1Broken(comment) THEN "malformed"
    ELSE IF ~V1Found(comment) THEN "ErrChannelNotFound"
    ELSE "ok"

(* Mutant: the whole comment goes.                                          *)
RemoveV1Comment(comment) == <<>>

(* removeV1 cuts the last suffix, and nothing else, off the comment.        *)
RemoveV1(comment) == SubSeq(comment, 1, Len(comment) - 1)
=============================================================================
