SPECIFICATION Spec
CONSTANTS
    Waiters = {w1, w2}
    Wakers = {t1}
    Inputs = {i1}
    Outputs = {o1}
    Nil = Nil
    Reentrant = TRUE
INVARIANT PollNeverAborts
CHECK_DEADLOCK FALSE
