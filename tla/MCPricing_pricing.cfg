SPECIFICATION Spec
CONSTANTS
    b1 = b1  b2 = b2  h1 = h1  h2 = h2
    Handlers = {h1}
    Bands = {b1, b2}
    Default = b1
    None = None
    Parallel <- NoSide
INVARIANTS TypeOK ExecutableApproved QuotedApproved
