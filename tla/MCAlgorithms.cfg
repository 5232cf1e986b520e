CONSTANTS
  Order <- MCOrder  cclasses <- MCclasses  cnames <- MCnames  DUPMAX = 3  WordSize = 4
  Tree <- MCTree  Homes <- MCHomes
  SECSPERMIN = 2  MINSPERHOUR = 2  HOURSPERDAY = 3  TimeBits = 15  IntBits = 20  LastYear = 1973
  TZ_MAX_TIMES = 20  TZ_MAX_TYPES = 8  TZ_MAX_LEAPS = 4  None = None  Bad = Bad
  Texts <- MCTexts  Files <- MCFiles  Names = {"TZ", "A"}  MaxVars = 3  TZ_STRLEN_MAX = 5
  W = 14  H = 7  P = 11  Bias = 28  TensBits = 1  n_bigtens = 3  Nine = 2  SlackBits = 5
  DBL_DIG = 3  Ten_pmax = 4  DBL_MAX_10_EXP = 8  Quick_max = 2  Int_max = 2  MaxExponent = 30
  Flaws = {}
SPECIFICATION MCSpec
INVARIANTS PatternsMatch  NumbersAreNearest
CHECK_DEADLOCK FALSE
