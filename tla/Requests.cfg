SPECIFICATION Spec
CONSTANTS
    GroupBits = 2
    Width = 7
    IPFS_CODEC = 9
    IPNS_CODEC = 6
    Cids <- MCCids
    Payloads <- MCPayloads
    Lags = {300, 301, 3600}
    MaxUrls = 2
    MaxLayers = 2
INVARIANTS
    TypeOK
    PrefixDecodesExactly
    ResolutionIsTrue
    AnswerOutranksCache
    RedirectsSettle
PROPERTIES
    RequestAnswered
