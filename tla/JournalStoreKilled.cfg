SPECIFICATION Spec
CONSTANTS
    Proc = {p1, p2}
    Inode = {i1, i2, i3, i4}
    MaxVersion = 3
    None = None
SYMMETRY Symmetry
INVARIANT DeathReleasesWriter
