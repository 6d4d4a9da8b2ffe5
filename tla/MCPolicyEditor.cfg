\* Two requests at a time, three versions.
CONSTANTS
    s1 = s1
    s2 = s2
    Slots = {s1, s2}
    MaxVersion = 3
SYMMETRY Symmetry
SPECIFICATION Spec
PROPERTIES
    OverwritesOnlyShown
    DraftKept
