------------------------------ MODULE Archive ------------------------------
(***************************************************************************)
(* An APK as loadArchive (internal/core/archive.go) takes it apart: the     *)
(* entries end at byte start, an optional APK Signing Block follows, then   *)
(* the central directory and the EOCD with its comment.                     *)
(***************************************************************************)
EXTENDS ZipComment

CONSTANT MaxOffset   \* the largest 32-bit offset, also ZIP64's sentinel: 2^32 - 1

ASSUME OffsetAssumption == MaxOffset \in Nat

Apk ==
    [start    : Nat,        \* end of the entries' data
     hasBlock : BOOLEAN,
     pairs    : Seq(Pair),
     comment  : Comments,
     intact   : BOOLEAN,    \* the ZIP structure passes validateEOCD and validateEntries,
                            \* and what precedes the central directory is a readable
                            \* signing block or does not look like one
     jar      : BOOLEAN]    \* the JAR (V1) signature of the entries verifies

CDOffset(a) == a.start + (IF a.hasBlock THEN BlockLen(a.pairs) ELSE 0)

(* loadArchive accepts the APK: the offset field is not ZIP64's sentinel.   *)
Loads(a) ==
    /\ a.intact
    /\ CDOffset(a) # MaxOffset
    /\ a.hasBlock => ValidBlock(a.pairs)

(* The external apkverifier, for one scheme: V2 and later cover everything  *)
(* but the block, the comment included; the JAR signature only the entries. *)
Verifies(a, scheme) ==
    IF scheme = "v1" THEN a.jar
    ELSE \E i \in DOMAIN a.pairs :
            /\ a.pairs[i].id = scheme
            /\ a.pairs[i].enc = "signature"
            /\ a.pairs[i].over = a.comment

Schemes == {"v1"} \cup SignatureIds
=============================================================================
