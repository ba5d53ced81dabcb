SPECIFICATION RingSpec
CONSTANTS
  Slots = 4
  CounterMod = 8
  MaxMsg = 2
  Lengths = {1, 3}
  MaxArrivals = 10
PROPERTIES OldestIsDropped
CHECK_DEADLOCK FALSE
