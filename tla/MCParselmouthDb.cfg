CONSTANTS
    Proc = {p1, p2}
    Url = {"conda-forge", "bioconda"}
    Inode = {i1, i2, i3}
    NoInode = NoInode
    MaxVersion = 2
    MaxFailures = 1
SYMMETRY Symmetry
SPECIFICATION Spec
INVARIANTS
    TypeOK
    EtagDescribesContent
    UndisturbedOpenIsCurrent
PROPERTY ImplementsSnapshot
