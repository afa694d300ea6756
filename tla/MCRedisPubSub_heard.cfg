CONSTANTS
  ch1 = ch1  ch2 = ch2  ch3 = ch3
  Channels = {ch1, ch2, ch3}
  MaxLosses = 1
  NoObject = NoObject
SPECIFICATION Spec
CHECK_DEADLOCK FALSE
INVARIANTS
  RegisteredChannelsAreHeard
