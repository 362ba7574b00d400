SPECIFICATION Spec
CONSTANTS
    EntryHashes = {h1, h2}
    MaxHashes = 6
    MaxField = 2
    MaxFields = 3
    MaxLines = 3
    Base = 4
    Digit = 2
    Width = 2
    MaxBody = 6
    MaxLine = 4
    GroupSize = 4
    WordSize = 256
    Ids <- MCIds
    Nonce <- MCNonce
    Calendars <- MCCalendars
    Refused = Refused
    None = None
INVARIANTS
    RootMatchesReference RootBinds EncodingBinds IdSurvivesCodec BodyKeptOrCut
    StampedVerifies AnswersKept BitcoinVerifies
CHECK_DEADLOCK FALSE
