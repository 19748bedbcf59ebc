----------------------------- MODULE ZipLayout -----------------------------
(***************************************************************************)
(* The offsets and lengths by which loadArchive (internal/core/archive.go)  *)
(* tells whether a file is a plain APK, and what apktag's rewrites do to    *)
(* them: a new Signing Block moves the central directory and the EOCD, a    *)
(* new comment changes the length of the EOCD.  Module Archive takes        *)
(* acceptance as one Boolean that no rewrite changes; this is why it may.   *)
(***************************************************************************)
EXTENDS SeqFolds

CONSTANTS
    Layouts,     \* the files that are loaded
    EocdMin,     \* bytes of an EOCD without a comment: 22
    HeaderMin,   \* bytes of the smallest central directory header: 46
    MaxOffset,   \* ZIP64's sentinel: 2^32 - 1
    BlockLens,   \* lengths a rewritten block may have
    CommentLens  \* lengths a rewritten comment may have

VARIABLE layout
(* size, eocd, eocdLen: the file, where the EOCD was found, its bytes with  *)
(* the comment by its length field; cdStart, cdSize: its fields; plain: one *)
(* disk, equal counts, no trace of ZIP64; entries: header length, offset of *)
(* the local header, offset and length of the data; block: "none", "found"  *)
(* from start on, or "looks" for what only resembles one.                   *)

EntryType == [header : Nat, local : Nat, data : Nat, length : Nat]

LayoutType ==
    [size : Nat, eocd : Nat, eocdLen : Nat, cdStart : Nat, cdSize : Nat, plain : BOOLEAN,
     entries : Seq(EntryType), block : {"none", "found", "looks"}, start : Nat]

(* An entry's data follows its local header.                                *)
WellFormed(z) ==
    /\ z \in LayoutType
    /\ \A e \in ToSet(z.entries) : e.local < e.data

ASSUME LayoutsAssumption ==
    /\ \A z \in Layouts : WellFormed(z)
    /\ EocdMin \in Nat /\ HeaderMin \in Nat /\ MaxOffset \in Nat
    /\ BlockLens \subseteq Nat /\ CommentLens \subseteq Nat

-----------------------------------------------------------------------------
(* validateEOCD.                                                            *)
EndsFile(z) == z.eocdLen >= EocdMin /\ z.eocd + z.eocdLen = z.size

DirectoryMeetsEOCD(z) == z.cdStart + z.cdSize = z.eocd

NoZip64(z) == z.plain /\ z.cdStart # MaxOffset

(* validateEntries.                                                         *)
(* Mutant: where an entry's data ends is not looked at.                     *)
EntryBegins(z, e) == e.header >= HeaderMin /\ e.local < z.cdStart /\ e.data <= z.cdStart

EntryFits(z, e) ==
    /\ e.header >= HeaderMin
    /\ e.local < z.cdStart
    /\ e.data + e.length <= z.cdStart

HeaderBytes(entries) == Total([i \in DOMAIN entries |-> entries[i].header])

DirectoryFilled(z) == HeaderBytes(z.entries) = z.cdSize

(* loadArchive's own look at the block.                                     *)
BlockClear(z) ==
    z.block = "found" =>
        z.start <= z.cdStart /\ \A e \in ToSet(z.entries) : e.data + e.length <= z.start

Accepts(z) ==
    /\ EndsFile(z) /\ DirectoryMeetsEOCD(z) /\ NoZip64(z)
    /\ \A e \in ToSet(z.entries) : EntryFits(z, e)
    /\ DirectoryFilled(z)
    /\ z.block # "looks"
    /\ BlockClear(z)

-----------------------------------------------------------------------------
(* rewriteBlockWithBytes: contents, new block, directory, EOCD.             *)
(* Mutant: the EOCD keeps its directory offset.                             *)
MovedStale(z, blockLen) ==
    [z EXCEPT !.eocd = z.start + blockLen + z.cdSize,
              !.size = z.start + blockLen + z.cdSize + z.eocdLen]

Moved(z, blockLen) ==
    [z EXCEPT !.cdStart = z.start + blockLen,
              !.eocd = z.start + blockLen + z.cdSize,
              !.size = z.start + blockLen + z.cdSize + z.eocdLen]

(* writeV1 and removeV1.                                                    *)
WithComment(z, len) == [z EXCEPT !.eocdLen = EocdMin + len, !.size = z.eocd + EocdMin + len]

Init == layout \in Layouts

RewriteBlock(blockLen) ==
    /\ Accepts(layout)
    /\ layout.block = "found"
    /\ layout.start + blockLen <= MaxOffset
    /\ layout' = Moved(layout, blockLen)

RewriteComment(len) ==
    /\ Accepts(layout)
    /\ layout' = WithComment(layout, len)

Next ==
    \/ \E blockLen \in BlockLens : RewriteBlock(blockLen)
    \/ \E len \in CommentLens : RewriteComment(len)

Spec == Init /\ [][Next]_layout

-----------------------------------------------------------------------------
Bytes(from, length) == from .. from + length - 1

HeaderAt(z, k) == Bytes(z.cdStart + HeaderBytes(SubSeq(z.entries, 1, k - 1)), z.entries[k].header)

ContentEnd(z) == IF z.block = "found" THEN z.start ELSE z.cdStart

(* What apktag rewrites is cut into parts that fill the file without a gap  *)
(* or an overlap: contents that hold all entry data, the block, one         *)
(* directory header after the other, the EOCD.  A rewrite that copies parts *)
(* can then neither lose a byte of an entry nor take one for a header.      *)
AcceptedIsTiled ==
    Accepts(layout) =>
        /\ Bytes(layout.cdStart, layout.cdSize) = UNION {HeaderAt(layout, k) : k \in DOMAIN layout.entries}
        /\ 0 .. layout.size - 1 =
              0 .. layout.cdStart - 1 \cup Bytes(layout.cdStart, layout.cdSize) \cup Bytes(layout.eocd, layout.eocdLen)
        /\ Bytes(layout.cdStart, layout.cdSize) \cap Bytes(layout.eocd, layout.eocdLen) = {}
        /\ ContentEnd(layout) <= layout.cdStart
        /\ \A e \in ToSet(layout.entries) : Bytes(e.data, e.length) \subseteq 0 .. ContentEnd(layout) - 1

(* A rewrite of a file that was accepted is accepted again, but for a       *)
(* directory that has moved onto the sentinel.                              *)
RewriteReloads ==
    [][layout'.cdStart # MaxOffset => Accepts(layout')]_layout
=============================================================================
