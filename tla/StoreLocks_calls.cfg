SPECIFICATION MCSpec
CONSTANTS
    Thread = {1, 2}
    ProcsOf <- MCProcsOf
    Key = {"k"}
    IDRange = {1}
    MaxCalls = 1
CHECK_DEADLOCK FALSE
ACTION_CONSTRAINTS AtOnce OneWriter
INVARIANT AnswersHold
INVARIANT NoOtherDeadlock
INVARIANT EffectsUnderLock
