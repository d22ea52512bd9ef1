CONSTANTS
  p0 = p0
  p4 = p4
  v0 = v0
  v4 = v4
  Pads <- McPads
  Banks <- McBanks
  BankOf <- McBankOf
  NumCogs = 2
  Volts = {3}
  Modes = {"weak"}
  Words = {"xtal", "dead"}
  RcPeriod = 2
  XtalPeriod = 1
  Quantum = 1
  Slice = 2
  Bounces = FALSE
  MaxTime = 4
  MaxOps = 2
  MaxEvents = 3

SPECIFICATION Spec
SYMMETRY Alike
CHECK_DEADLOCK FALSE
INVARIANTS
  NothingLost
  OnItsInstant
  NeverStranded
