SPECIFICATION Spec
CONSTANTS
  Project = {a, b, d}
  Client = {c1}
  Content = {name, good}
  NameOnly = {name}
  Verified = {good}
  NoContent = none
  MaxVersion = 3
  MaxOrder = 5
SYMMETRY Symmetry
INVARIANT CurrentHideSucceeds
