SPECIFICATION Spec
CONSTANTS
  Member = {ann, bob}
  Media = {m1}
  Poster = {f1, f2}
  Request = {r1, r2}
  NoFile = NoFile
  MaxPosts = 2
  MaxComments = 1
  MaxEnds = 1
INVARIANT AccountFilesReturned
CHECK_DEADLOCK FALSE
SYMMETRY Symmetry
