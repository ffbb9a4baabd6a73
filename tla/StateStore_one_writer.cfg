SPECIFICATION Spec
SYMMETRY Symmetry
CONSTANTS
  Writers = {w1}
  Readers = {r1, r2}
  Docs = {d1, d2}
  Inodes = {i1, i2, i3, i4}
  NoInode = NoInode
  Empty = Empty
  Torn = Torn
INVARIANT TypeOK
PROPERTY SuccessPublishesOwnDocument
PROPERTY ImplementsAtomicFile
