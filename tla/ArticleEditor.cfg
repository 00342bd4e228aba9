SPECIFICATION EditorSpec
CONSTANTS
  Article = {a1, a2}
  Body = {x, y}
  NoBody = none
  Address = {u1, u2}
  NoAddress = nowhere
  MaxVersion = 4
  ValidBody = {x, y}
  Handler = {h1}
  Faults = {"load", "answer"}
SYMMETRY Symmetry
INVARIANTS EditorTypeOK StatusTruthful
PROPERTY NoLostEdit
