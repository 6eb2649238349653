\* Every statement of up to six tokens and every batch of up to two rows.
SPECIFICATION FairSpec
CONSTANTS
    Tokens = {"lbrace", "rbrace", "qmark", "a"}
    Maps <- MCMaps
    MaxLen = 6
    MaxRows = 2
INVARIANTS TypeOK LoopOK OkIfWellFormed ReplacedInOrder
PROPERTY CallEnds
CHECK_DEADLOCK FALSE
