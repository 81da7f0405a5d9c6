CONSTANTS
  d1 = d1
  d2 = d2
  a = a
  b = b
  NONE = NONE
  EMPTY = EMPTY
  Devices = {d1, d2}
  Apps = {a, b}
  Packages <- MCTwoPackages
  Disturbances = {"pull", "unzip", "downgrade"}
SPECIFICATION Spec
SYMMETRY Tablets
INVARIANT UnmarkedIsInstalled
INVARIANT NoApkLeft
