SPECIFICATION Spec
CONSTANTS
    Requests <- MCRequestSeqs
    Replies <- MCReplySeqs
    MaxArgs = 8
    SlotCount = 4
    MaxKey = 3
INVARIANTS TypeOK CutsInvisible RequestsRight SlotsRight RepliesRight ClosedIfBad
CHECK_DEADLOCK FALSE
