SPECIFICATION Spec
CONSTANTS
  m1 = m1
  m2 = m2
  plain = plain
  other = other
  word = word
  Asset = {m1, m2}
  Elsewhere = Elsewhere
  PlainAlt = {plain, other}
  BadAlt = BadAlt
  Word = {word}
  Article = {a1, a2, a3}
  Project = {q1, q2}
  Document <- Documents
  ArticlesPerPage = 2
  HomeLimit = 1
  MaxPage = 3
  MaxBorn = 3
SYMMETRY Symmetry
INVARIANTS QuietAnswersAreExact WalkMissesNothing DerivedFitsDocument
