SPECIFICATION Spec
CONSTANTS
  p1 = p1
  p2 = p2
  webp = webp
  odd = odd
  Handlers = {h1, h2}
  Styles = {s1}
  Slugs = {u1}
  Assets = {a1}
  Params = {p1, p2}
  Formats = {"jpeg", "webp", "png", "PNG", "WEBP", ""}
  Unset = ""
  Lower <- MCLower
  OutputFormat <- MCOutputFormat
  OwnFormat <- MCOwnFormat
  None = None
SYMMETRY Symmetry
INVARIANTS
  ServedIsCurrent
CHECK_DEADLOCK FALSE
