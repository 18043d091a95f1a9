SPECIFICATION Spec
CONSTANTS
    c1 = c1  c2 = c2  c3 = c3
    Caller = {c1, c2}
    Quota = 3
    Free = 1
    Funds = 3
    Cost = 2
    Limit = 2
    Size = {1, 2}
    WritesFail = FALSE
    MaxRestarts = 0
SYMMETRY Threads
INVARIANT AdmittedWithinBudget
