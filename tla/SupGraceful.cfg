SPECIFICATION Spec
CONSTANTS
  a = a
  b = b
  i1 = i1 i2 = i2 i3 = i3 i4 = i4
  Inst = {i1, i2, i3, i4}
  Caller = {a, b}
  Configs <- GracefulConfigs
  DeathCap = 1
PROPERTIES GracefulStop
SYMMETRY Symmetry
