SPECIFICATION Spec
CONSTANTS
    Stores = {s1, s2}
    Values = {v1, v2}
    Inodes = {i1, i2, i3}
    Absent = Absent
    Torn = Torn
    None = None
INVARIANTS
    NeverTorn
PROPERTIES
    Atomic
SYMMETRY Symmetry
