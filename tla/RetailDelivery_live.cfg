SPECIFICATION LiveSpec
CONSTANTS
    w1 = w1  w2 = w2  r1 = r1  r2 = r2  none = none  t1 = t1  now = now
    Worker = {w1, w2}
    Request = {r1, r2}
    Binding = {none}
    Build = {now}
    Tx = {t1}
    Body <- MCBody
    SourceBinding <- MCBinding
    Rendering <- MCRendering
    Oversized = Oversized
    None = None
PROPERTY SettledIsHonoured
