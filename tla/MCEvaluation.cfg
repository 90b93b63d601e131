\* A suite of one document with a positive and a negative case, one handmade
\* item over one page, one answer case, one run, two workers; the
\* suite's document may be created twice, and one lease may be lost.
CONSTANTS
    p1 = p1
    c1 = c1
    c2 = c2
    i1 = i1
    k1 = k1
    Questions = {k1}
    q1 = q1
    Policies = {p1}
    Cases = {c1, c2}
    Gold <- MCGold
    Handmade = {i1}
    Pages = {q1}
    Runs = {e1}
    Workers = {w1, w2}
    Selections <- MCSelections
    MaxGeneration <- MCMaxGeneration
    MaxLosses = 1
SPECIFICATION EvaluationLiveSpec
INVARIANTS GoldIsLive 
 
CHECK_DEADLOCK FALSE
