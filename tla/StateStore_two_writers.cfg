SPECIFICATION Spec
CONSTANTS
  Writers = {w1, w2}
  Readers = {r1, r2}
  Docs = {d1, d2}
  Inodes = {i1, i2, i3, i4, i5}
  NoInode = NoInode
  Empty = Empty
  Torn = Torn
SYMMETRY Symmetry
INVARIANT NoCorruptLoad
