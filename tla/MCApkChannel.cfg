SPECIFICATION Spec
CONSTANTS
    Channels <- MCChannels
    NoChannel = "none"
    ChannelLen <- MCChannelLen
    OtherIds <- MCOtherIds
    PageSize <- MCPageSize
    MaxOffset <- MCMaxOffset
    Bases <- SignedBases
    PackCalls <- MCPackCalls
    RemoveCalls <- MCRemoveCalls
    Signers <- MCSigners
INVARIANTS
    TypeOK
    ProducedReloads
    PackedIsReadable
    RemovedIsGone
PROPERTIES
    PackKeepsSignatures
    ForeignMetadataKept
    RemoveUndoesPack
    AutoFollowsDetect
    ImplementsStore
