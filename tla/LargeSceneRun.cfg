CONSTANTS
  s1 = s1
  s2 = s2
  i1 = i1
  i2 = i2
  g1 = g1
  g2 = g2
  t1 = t1
  t2 = t2
  None = None
  Scenes = {s1, s2}
  Inputs = {i1}
  Guidance = {g1, g2}
  Texts = {t1}
  MaxEdits = 5
SPECIFICATION Spec
SYMMETRY MCSymmetry
INVARIANTS
  TypeOK
  InputChain
  GuidanceFollowed
  WorkIsForFrozenScene
PROPERTIES
  PipelineSpec
