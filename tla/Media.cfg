SPECIFICATION Spec
CONSTANTS
  Clear = clear
  Red = red
  Green = green
  Blue = blue
  MaxUploadBytes = 3
  MaxImagePixels = 4
  MaxImageEdge = 3
  Asset = {m1, m2}
  File <- Files
  NoImage = none
  Article = {art}
  Project = {proj}
  Uploader = {p1, p2}
  Reader = {r1}
  Faults = {"crash", "lost", "remove"}
SYMMETRY Symmetry
INVARIANTS TypeOK NoStrayFiles ImageAnswersAreRight
PROPERTY Implements
