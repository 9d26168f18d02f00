SPECIFICATION Spec
CONSTANTS
  p1 = p1
  p2 = p2
  webp = webp
  odd = odd
  Handlers = {h1, h2}
  Styles = {s1, s2}
  Slugs = {u1, u2}
  Assets = {a1}
  Params = {webp, odd}
  Formats = {"jpeg", "webp", "png", "PNG", "WEBP", ""}
  Unset = ""
  Lower <- MCLower
  OutputFormat <- MCOutputFormat
  OwnFormat <- MCOwnFormat
  None = None
SYMMETRY Symmetry
CONSTRAINT Small
INVARIANTS
  ServedIsRequested
  ServedIsCurrent
  DeletedIsNotServed
  TypeMatchesBytes
  NoOrphanRows
CHECK_DEADLOCK FALSE
