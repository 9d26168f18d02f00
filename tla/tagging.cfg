SPECIFICATION Spec
CONSTANTS
  Handlers = {h1, h2}
  Orgs = {o1, o2}
  Assets = {a1}
  Tags = {t1, t2}
  Slugs = {s1}
  Collections = {c1}
  Texts = {x1, x2}
  None = None
SYMMETRY Symmetry
INVARIANTS
  LinksAreLive
  AnsweredIsDone
  ChecksStillHold
PROPERTIES
  DeletedStaysGone
CHECK_DEADLOCK FALSE
