\* Each of these claims is violated; TLC stops at the first it meets.
SPECIFICATION MCSpec
CONSTANTS
    Argument <- MCArgument
    Value <- MCValue
    DefaultBytes = 2
    DefaultChainLength = 2
    Omitted = Omitted
    WireForm = "string"
    Exponent = 3
    Mantissa = 2
    NoField = NoField
    Digest = {d1, d2}
    Undeclared = Undeclared
    Unhashable = Unhashable
    Absent = Absent
    EmptyText = EmptyText
    NotText = NotText
    EventType = EventType
    OtherType = OtherType
    DecodeStep1 = DecodeStep1
    DecodeStep2 = DecodeStep2
    HashText = HashText
    Text <- MCText
INVARIANTS
    CarriedSidecarsMatch
    BoundFieldsEqualSource
    SourceIsDecodeStep
    TrustMembersOptional
    ResultReachesCaller
    SuccessMeansPrinted
CHECK_DEADLOCK FALSE
