CONSTANTS
  t1 = t1
  t2 = t2
  NONE = NONE
  Tablets = {t1, t2}
  Classes <- MCClasses
  Habits = {{"second", "swap"}, {"second", "nosql"}, {"swap", "nosql"},
            {"nobody", "second"}, {"nobody", "nosql"}}
SPECIFICATION Spec
SYMMETRY Swapped
INVARIANT TypeOK
INVARIANT RegisteredOnce
INVARIANT TileTrue
INVARIANT AddressUnique
PROPERTY NeverUnregistered
