SPECIFICATION Spec
CONSTANTS
    Stream <- TwoStreams
    Leader <- Leaders
    ExchangeLength <- Lengths
    Sizes <- ShortRequests
    MaxExchanges = 2
    OUTGOING_CAPACITY = 2
    PROTOCOL_INCOMING_CAPACITY = 2
    BUFFER_SIZE = 4
    PipeCapacity = 6
INVARIANTS TypeOK NeverWaitsForATask AnswersMatch
PROPERTIES ImplementsChannels EveryExchangeEnds
CHECK_DEADLOCK FALSE
