\* Twenty-six panels, three requests in flight, one write performed.
SPECIFICATION Spec
CONSTANTS
    Ids = {i1, i2, i3}
    MaxStamp = 1
    None = None
SYMMETRY Symmetry
INVARIANTS SpinnersEnd FreshWhenQuiet
