SPECIFICATION Spec
CONSTANTS
  Project = {a, b}
  Client = {c1, c2}
  Content = {name, good}
  NameOnly = {name}
  Verified = {good}
  NoContent = none
  MaxVersion = 4
  MaxOrder = 4
SYMMETRY Symmetry
INVARIANTS TypeOK OrderIsDense PublicLinkVerified ScreenTruthful
PROPERTIES NoLostEdit OrderVersionNamesOrder OthersKeepPlace
