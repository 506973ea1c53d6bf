SPECIFICATION FairSpec
CONSTANTS
  None = None
  sound = sound
  broken = broken
  Credential = {sound, broken}
  SuitesOf <- MCSuitesOf
  ProofHolds = {sound}
  Caller = {j1, j2}
  Worker = {t1, t2}
  Remote = {broken}
PROPERTIES
  HonoursPort
  CallersAreTold
  WorkersEnd
