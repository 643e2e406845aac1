SPECIFICATION FairSpec
CONSTANTS
    t1 = t1
    s1 = s1
    s2 = s2
    a1 = a1
    a2 = a2
    Threads = {t1}
    Slots = {s1, s2}
    Addrs = {a1, a2}
    Answers <- FewAnswers
    Coverages = {TRUE}
    QuietClose = TRUE
    MaxOrders = 0
PROPERTY RoundEnds
CHECK_DEADLOCK FALSE
