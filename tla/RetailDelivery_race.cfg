SPECIFICATION Spec
CONSTANTS
    w1 = w1  w2 = w2  r1 = r1  r2 = r2  none = none
    t1 = t1  old = old  new = new
    Worker = {w1, w2}
    Request = {r1, r2}
    Binding = {none}
    Build = {old, new}
    Tx = {t1}
    Body <- MCBody
    SourceBinding <- MCSameBinding
    Rendering <- MCTwoRenderings
    Oversized = Oversized
    None = None
INVARIANTS OneSettledClaimPerTx ReleasedIsDurable RefusalsAreReal
    EvidenceMatchesClaims
PROPERTIES ClaimsOnlyAdvance KeepsPromise
