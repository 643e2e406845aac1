SPECIFICATION FairSpec
CONSTANTS
    t1 = t1
    s1 = s1
    s2 = s2
    a1 = a1
    a2 = a2
    Threads = {t1}
    Slots = {s1, s2}
    Addrs = {a1, a2}
    Answers <- SomeAnswers
    Coverages = {TRUE, FALSE}
    QuietClose = TRUE
    MaxOrders = 1
INVARIANT TypeOK
INVARIANT UpdatersOutliveEvents
INVARIANT RetriesHaveRound
PROPERTY OneOutcome
PROPERTY BestAnswerUsed
PROPERTY RoundEndsUnlessCut
CHECK_DEADLOCK FALSE
