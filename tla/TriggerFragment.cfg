SPECIFICATION FragmentSpec
CONSTANTS
  Bits = {2, 3, 6, 27}
  TSGroup = 2
  MaxLogged = 4
INVARIANTS FragmentInv ExposureTrue
CHECK_DEADLOCK FALSE
