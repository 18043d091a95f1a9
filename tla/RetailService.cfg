SPECIFICATION ServiceSpec
CONSTANTS
    w1 = w1  w2 = w2  r1 = r1  s1 = s1  b1 = b1  b2 = b2  t1 = t1
    old = old  new = new
    Worker = {w1, w2}
    Request = {r1}
    Bucket = {s1}
    BucketOf <- MCBucketOf
    Binding = {b1, b2}
    Build = {old, new}
    SourceBinding <- MCSourceBinding
    Window = 2
    Limit = 1
    RetryLimit = 1
    MaxTime = 1
    Tx = {t1}
    Body <- MCBody
    Rendering <- MCRendering
    Oversized = Oversized
    None = None
SYMMETRY MCWorkers
INVARIANTS ChargedAsAdmitted DisabledStops
