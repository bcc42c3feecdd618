SPECIFICATION Spec
CONSTANTS
  Member = {ann, bob}
  Media = {m1}
  Poster = {f1, f2}
  Request = {r1, r2}
  NoFile = NoFile
  MaxPosts = 2
  MaxComments = 0
  MaxEnds = 0
INVARIANT OnlyOrphansRemoved
CHECK_DEADLOCK FALSE
SYMMETRY Symmetry
