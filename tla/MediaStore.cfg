SPECIFICATION Spec
CONSTANTS
  Member = {ann, bob}
  Media = {m1}
  Poster = {f1, f2}
  Request = {r1, r2}
  NoFile = NoFile
  MaxPosts = 1
  MaxComments = 2
  MaxEnds = 1
INVARIANTS TypeOK RowsHaveFiles FilesAccountedFor AttachmentsKept
CHECK_DEADLOCK FALSE
SYMMETRY Symmetry
