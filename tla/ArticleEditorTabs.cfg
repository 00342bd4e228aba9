SPECIFICATION EditorSpec
CONSTANTS
  Article = {a1}
  Body = {x, y}
  NoBody = none
  Address = {u1, u2}
  NoAddress = nowhere
  MaxVersion = 4
  ValidBody = {x, y}
  Handler = {h1, h2}
  Faults = {}
SYMMETRY Symmetry
PROPERTY NoLostEdit
