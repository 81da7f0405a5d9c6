CONSTANTS
  t1 = t1
  t2 = t2
  NONE = NONE
  Tablets = {t1, t2}
  Classes <- MCClasses
  Habits = {{"second"}}
SPECIFICATION Spec
PROPERTY OnlyUnregistered
