SPECIFICATION Spec
CONSTANTS
    Channels <- MCChannels
    NoChannel = "none"
    ChannelLen <- MCChannelLen
    OtherIds <- MCOtherIds
    PageSize <- MCPageSize
    MaxOffset <- MCMaxOffset
    Bases <- SignedOverV1
    PackCalls <- MCPackCalls
    RemoveCalls <- MCRemoveCalls
    Signers <- MCSigners
PROPERTY
    RemoveKeepsSignatures
