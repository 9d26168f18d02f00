SPECIFICATION Spec
CONSTANTS
  Handlers = {h1, h2}
  Orgs = {o1, o2}
  FolderIds = {f1, f2, f3}
  Assets = {a1}
  Slugs = {s1, s2}
  None = None
SYMMETRY Symmetry
INVARIANTS
  TreeInv
  FiledInFolders
  TreeShowsAll
PROPERTIES
  DeletionIsFinal
