\* A server that has drained stops.
CHECK_DEADLOCK FALSE
SPECIFICATION LiveSpec
CONSTANTS
    Conns = {c1, c2}
    Streams <- TalkAndIdle
    SocketRoom = 1
    MaxBulkLen = 3
    MaxArrayLen = 2
    MaxInlineLen = 8
INVARIANTS
    AnswersMatch
    RunsAreAnswered
PROPERTIES
    DrainEnds
    AnswersArrive
