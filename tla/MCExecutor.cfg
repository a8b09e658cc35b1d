CONSTANTS
    l1 = l1
    l2 = l2
    l3 = l3
    t1 = t1
    t2 = t2
    q1 = q1
    q2 = q2
    q3 = q3
    Loops = {l1, l2, l3}
    Tools = {t1, t2}
    Requests = {q1, q3}
    ToolOf <- MCToolOf
    Cacheable = {q1}
    Flaky = {t1}
    Answers = {"ok"}
    Threshold = 2
    Recovery = 2
SPECIFICATION FairSpec
INVARIANTS TypeOK BreakerConsistent HealthyToolNeverRefused
PROPERTIES BreakerJudges AdmitsAgain
