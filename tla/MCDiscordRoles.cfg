SPECIFICATION FairSpec
CONSTANTS
  u1 = u1
  Users = {u1}
  Nobody = Nobody
  Kinds = {"member", "supporter"}
  QueueLimit = 1
  WriteBudget = 1
  MaxStay = 2
CHECK_DEADLOCK FALSE
CONSTRAINT Small
INVARIANTS RolesKnown NothingForgotten
PROPERTIES RolesFollow
