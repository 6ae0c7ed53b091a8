\* One worker, one emitter; two rows of a channel make a summary.
CONSTANTS
  k1 = k1
  k2 = k2
  ch = ch
  None = None
  ChannelOf <- MCChannelOf
  Key = {k1, k2}
  Channel = {ch}
  CriticalKeys = {k2}
  Emitter = {e1}
  Deliverer = {d1}
  BatchSize = 2
  Threshold = 2
  RetryLimit = 2
  MaxRows = 2
  MaxCount = 2
  MaxCrashes = 1
SPECIFICATION Spec
INVARIANTS
  TypeOK
  RetriesAreBounded
  ToldOncePerEmitter
PROPERTIES
  SettledIsFinal
  EveryRowSettles
CHECK_DEADLOCK FALSE
