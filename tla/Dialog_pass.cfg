CONSTANTS
  w1 = w1
  w2 = w2
  Workers = {w1, w2}
  MaxBoxes = 2
  Lapses = {"rush", "early", "nested", "dll"}
SPECIFICATION Spec
INVARIANT TypeOK
INVARIANT Serial
INVARIANT Usable
PROPERTY RunEnds
PROPERTY Unattended
