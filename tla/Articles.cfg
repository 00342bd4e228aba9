SPECIFICATION Spec
CONSTANTS
  Article = {a1, a2}
  Body = {x, y}
  NoBody = none
  Address = {u1, u2, u3}
  NoAddress = nowhere
  MaxVersion = 3
  ValidBody = {x}
  Handler = {h1, h2}
SYMMETRY Symmetry
INVARIANTS TypeOK VersionNamesRow PublishedIsWhole
PROPERTIES Implements AddressIsPermanent
