CONSTANTS
    Proc = {p1, p2}
    Url = {"conda-forge"}
    Inode = {i1, i2, i3}
    NoInode = NoInode
    MaxVersion = 2
    MaxFailures = 1
SPECIFICATION FairSpec
PROPERTY EventuallyCurrent
