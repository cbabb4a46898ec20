\* Files that are renamed, exchanged, copied and removed between the commands;
\* no audio, no twins, no reused inode; a file is rewritten in place
\* only if no entry records its inode.
CONSTANTS
    v = v
    i = i
    d1 = d1
    d2 = d2
    i1 = i1
    i2 = i2
    i3 = i3
    n1 = n1
    n2 = n2
    Files = {v, i}
    Videos = {v}
    Audio = {}
    LongFiles = {v, i}
    Twins = {}
    Dirs = {d1, d2}
    Names = {n1, n2}
    Inodes = {i1, i2, i3}
    Here = Here
    None = None
    Edits = FALSE
    Reuse = FALSE
SPECIFICATION RelocateSpec
SYMMETRY Symmetry
PROPERTIES
    OnlyOntoOwnFile
    RenamesFollowed
    ReindexRelocates
