SPECIFICATION Spec
CONSTANTS
    r1 = r1  r2 = r2  r3 = r3  r4 = r4
    p1 = p1  p2 = p2  p3 = p3
    c1 = c1  c2 = c2  c3 = c3  k1 = k1  k2 = k2
    h1 = h1  h2 = h2
    Main = Main  None = None  Empty = Empty  Garbage = Garbage
    Requests <- SomeRequests
    Pairs <- SomePairs
    Windows <- SomeWindows
    PairOf <- SomePairOf
    WindowsOf <- SomeWindowsOf
    Confirms <- SomeConfirms
    Keys <- SomeKeys
    KeyOf <- SomeKeyOf
    Handlers = {h1, h2}
    Faults <- IoErrors
INVARIANTS OnePayloadPerPair OnePaymentPerKey
