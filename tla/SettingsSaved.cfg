SPECIFICATION Spec
CONSTANTS
    Requests = {r1, r2}
    Missing = Missing
    Empty = Empty
    Torn = Torn
    None = None
INVARIANT SavedIsShown
