SPECIFICATION MCSpec
CONSTANTS
    PublicKey <- MCPublicKey
    KeyId <- MCKeyId
    KeyIdOf <- MCKeyIdOf
    Content <- MCContent
    Timestamp <- MCTimestamp
    Epoch <- MCEpoch
    BadKey = BadKey
    BadSignature = BadSignature
    EmptyKey = EmptyKey
    NoBound = NoBound
    Absent = Absent
INVARIANTS
    ValidMeansAuthorised
    ValidSignatureIsConsistent
PROPERTY
    RevocationIsFinal
