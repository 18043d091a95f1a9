SPECIFICATION Spec
CONSTANTS
    c1 = c1  c2 = c2  c3 = c3
    Caller = {c1, c2}
    Quota = 1
    Free = 1
    Funds = 3
    Cost = 2
    Limit = 2
    Size = {0}
    WritesFail = TRUE
    MaxRestarts = 1
SYMMETRY Threads
INVARIANTS QuotaOverrunBounded NeverOverbilled LedgerAddsUp
    OverdraftBounded
