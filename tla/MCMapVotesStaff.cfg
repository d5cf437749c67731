SPECIFICATION Spec
CONSTANTS
  a1 = a1  a2 = a2  a3 = a3  v1 = v1  u1 = u1  u2 = u2
  m1 = m1  m2 = m2  s1 = s1  s2 = s2  w1 = w1  w2 = w2
  Manual = {}
  Automatic = {a1, a2, a3}
  Users = {u1}
  Maps = {m1}
  Base = Base
  Fifty = Fifty
  NoVote = NoVote
  NoChoice = NoChoice
  StaffOps = {s1}
  Workers = {w1}
  TieRule = "first_option"
  RefusalBrake = 2
  MaxRound = 2
  MaxRevision = 1
  MaxVersion = 2
CHECK_DEADLOCK FALSE
CONSTRAINT StaffOrBrake
INVARIANTS TypeOK WrittenOnce ResultIsTrue StaffChoiceWins BrakeHolds
PROPERTIES NoBlindOverwrite
