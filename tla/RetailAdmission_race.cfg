SPECIFICATION Spec
CONSTANTS
    w1 = w1  w2 = w2  r1 = r1  r2 = r2  r3 = r3  s1 = s1  s2 = s2
    b1 = b1  b2 = b2  old = old  new = new
    Worker = {w1, w2}
    Request = {r1}
    Bucket = {s1}
    BucketOf <- MCBucketOf
    Binding = {b1, b2}
    Build = {old, new}
    SourceBinding <- MCSourceBinding
    Window = 1
    Limit = 1
    RetryLimit = 1
    MaxTime = 2
    None = None
SYMMETRY MCProcesses
INVARIANTS ContinuationOnce GuardMatchesRequest FreshWithinLimit RetriesBounded
PROPERTY NothingTakenBack
