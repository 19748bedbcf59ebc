---------------------------- MODULE MCApkChannel ----------------------------
(***************************************************************************)
(* Instances of ApkChannel for TLC.  Lengths are real but for the offset    *)
(* limit, scaled from 2^32 - 1 to 2^16 - 1.  "fits" is the longest name a   *)
(* comment with one free suffix takes, "long" is one byte over the V1 cap.  *)
(***************************************************************************)
EXTENDS ApkChannel

MCChannels == {"fits", "over", "long"}
MCChannelLen == [fits |-> 1, over |-> 2, long |-> 32768]
MCOtherIds == {"custom"}
MCPageSize == 4096
MCMaxOffset == 65535

Text(len) == [kind |-> "text", channel |-> NoChannel, len |-> len]
Broken == [kind |-> "broken", channel |-> NoChannel, len |-> 9]

Opaque(id, len) ==
    [id |-> id, enc |-> "opaque", channel |-> NoChannel, over |-> <<>>, len |-> len]
Corrupt(scheme) == Opaque(scheme, 700)
Sig(scheme, comment) == SignaturePair(scheme, comment)

Plain(comment) ==
    [start |-> 1000, hasBlock |-> FALSE, pairs |-> <<>>, comment |-> comment,
     intact |-> TRUE, jar |-> TRUE]

WithBlock(pairs, comment) == [Plain(comment) EXCEPT !.hasBlock = TRUE, !.pairs = pairs]

(* Foreign pairs before and after the padding; no padding at all.           *)
Stamped == WithBlock(<<Sig("v2", <<Text(5)>>), Opaque("dependency", 40), Padding,
                       Sig("v3", <<Text(5)>>), Opaque("stampV2", 30)>>, <<Text(5)>>)
Unpadded == WithBlock(<<Sig("v31", <<>>), Sig("v3", <<>>)>>, <<>>)

(* A block whose padding is down to its header, so that any pair opens a    *)
(* new page: 32 + (12 + 700) + (12 + 3328) + 12 = 4096 bytes.               *)
FullPage == <<Sig("v2", <<>>), Opaque("custom", 3328), Padding>>
AtLimit == [WithBlock(FullPage, <<>>) EXCEPT !.start = 60000]
BelowLimit == [WithBlock(FullPage, <<>>) EXCEPT !.start = 65534 - 8192]

(* Written over by other tools: metadata that is no channel.                *)
BadWalle == WithBlock(<<Sig("v2", <<>>), Opaque("walle", 8), Padding>>, <<>>)
TwoWalle == WithBlock(<<Sig("v2", <<>>), ChannelPair("walle", "fits"),
                        ChannelPair("walle", "over"), Padding>>, <<>>)
BrokenSuffix == WithBlock(<<Sig("v2", <<Broken>>), Padding>>, <<Text(5), Broken>>)

(* A pair another tool wrote beside a suffix; apktag refuses to.            *)
PairAndSuffix == WithBlock(<<Sig("v2", <<Suffix("fits")>>), ChannelPair("vasdolly", "over"), Padding>>,
                           <<Text(5), Suffix("fits")>>)

(* Signatures that do not verify, alone and beside one that does.           *)
BadV2 == WithBlock(<<Corrupt("v2"), Padding>>, <<>>)
BadV2GoodV3 == WithBlock(<<Corrupt("v2"), Sig("v3", <<>>), Padding>>, <<>>)
NoJar == [Plain(<<Text(5)>>) EXCEPT !.jar = FALSE]

(* Rejected by loadArchive.                                                 *)
TwoV2 == WithBlock(<<Sig("v2", <<>>), Sig("v2", <<>>), Padding>>, <<>>)
DirtyPadding == WithBlock(<<Sig("v2", <<>>), Opaque("padding", 9)>>, <<>>)
NotZip == [Plain(<<>>) EXCEPT !.intact = FALSE]

SignedBases ==
    {Plain(<<>>), Plain(<<Text(65535 - 11)>>), NoJar, Stamped, Unpadded, AtLimit,
     BelowLimit, BadWalle, TwoWalle, PairAndSuffix, BrokenSuffix, BadV2, BadV2GoodV3,
     TwoV2, DirtyPadding, NotZip}

(* A V1 channel was written first and the file signed V2 over it.           *)
SignedOverV1 ==
    {WithBlock(<<Sig("v2", <<Suffix("fits")>>), Padding>>, <<Suffix("fits")>>)}

(* A block without any V2, V3 or V3.1 signature.                            *)
UnsignedBlock == {WithBlock(<<Opaque("dependency", 20), Padding>>, <<>>)}

(* The next page ends exactly on the sentinel.                              *)
OnSentinel == {[AtLimit EXCEPT !.start = 65535 - 8192]}

-----------------------------------------------------------------------------
Req(mode, id, ch, verify) == [mode |-> mode, id |-> id, ch |-> ch, verify |-> verify]

UsedIds == {"zero", "walle", "custom"}

(* In mode V1 the ID plays no part.                                         *)
MCPackCalls ==
    {Req(m, id, "fits", FALSE) : m \in {"auto", "v2"}, id \in UsedIds}
    \cup {Req("auto", "zero", ch, TRUE) : ch \in {"over", "long"}}
    \cup {Req("v1", "zero", "fits", FALSE), Req("bad", "zero", "fits", FALSE),
          Req("auto", "v2", "fits", FALSE), Req("auto", "zero", NoChannel, FALSE)}

MCRemoveCalls ==
    {Req(m, id, NoChannel, FALSE) : m \in {"auto", "v2"}, id \in {"zero", "custom"}}
    \cup {Req("auto", "walle", NoChannel, FALSE), Req("auto", "zero", NoChannel, TRUE),
          Req("v1", "zero", NoChannel, FALSE), Req("auto", "v3", NoChannel, FALSE)}

MCSigners == {"v3"}
=============================================================================
