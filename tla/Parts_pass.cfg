INIT Init
NEXT Next
CONSTANTS
  IxNames = {"n1", "n2"}
  IxLimit = 2
  IxMaxRows = 3
  SlChars = {"1", "2", "a", "b", "."}
  SlSids <- MCSids
  SlNames <- MCNames
  SlMaxRows = 3
  CkDates <- MCDates
  CkTimes <- MCTimes
  CfMaxRows = 4
  ZMaxLoads = 3
  MTags = {"package", "root"}
  MPkgs = {"quick", "other"}
  MWanted = "quick"
  MMaxNodes = 5
  TPieces <- MCPieces
  TMaxPieces = 2
  TChars = {"<", ">", "/", "!", "-", "x", "q", "=", "_"}
  TMaxChars = 4
  PfDocs <- MCDocs
  PvTablets <- MCTablets
  d1 = d1
  d2 = d2
  Devices = {d1, d2}
  Students = {0, 1}
  NOBODY = NOBODY
  ABSENT = ABSENT
  MaxHome = 2
  Disturbances = {"pull", "push", "crash"}
SYMMETRY Alike
INVARIANT TypeOK
INVARIANT IndexExact
INVARIANT ListExact
INVARIANT SelectionRight
INVARIANT TwoDigitsRight
INVARIANT NothingLost
INVARIANT ReadyWhenTold
INVARIANT LoadsBalanced
INVARIANT TreeRight
INVARIANT NoElementLost
INVARIANT LookupRight
INVARIANT PiecesFound
INVARIANT AttribRight
INVARIANT TreeAgrees
INVARIANT FileRight
INVARIANT ViewerThere
PROPERTY SettingsOwn
PROPERTY TilesKept
CHECK_DEADLOCK FALSE
