\* The comment in writeFailure: a conflict is shown before another admin's change is replaced.
CONSTANTS
    s1 = s1
    Slots = {s1}
    MaxVersion = 3
SYMMETRY Symmetry
SPECIFICATION Spec
PROPERTIES
    NoLostUpdate
