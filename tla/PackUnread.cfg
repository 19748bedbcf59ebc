SPECIFICATION Spec
CONSTANTS
    Channels <- MCChannels
    NoChannel = "none"
    ChannelLen <- MCChannelLen
    OtherIds <- MCOtherIds
    PageSize <- MCPageSize
    MaxOffset <- MCMaxOffset
    Bases <- UnsignedBlock
    PackCalls <- MCPackCalls
    RemoveCalls <- MCRemoveCalls
    Signers <- MCSigners
INVARIANT
    PackedIsReadable
