SPECIFICATION Spec
CONSTANTS
    h1 = h1
    h2 = h2
    a = a
    b = b
    n = n
    Handlers = {h1, h2}
    Users = {a, b}
    Names = {n}
    MaxShares = 2
    None = None
SYMMETRY MCSymmetry
INVARIANT DoneFolderHasItsTag
