SPECIFICATION Spec
SYMMETRY Symmetric
CONSTANTS
  patron1 = patron1  patron2 = patron2  donor1 = donor1  account1 = account1  account2 = account2  steam1 = steam1  steam2 = steam2  n1 = n1  n2 = n2  k1 = k1  k2 = k2  i1 = i1  v1 = v1
  Patrons = {patron1, patron2}  Donors = {donor1}  Accounts = {account1, account2}  Steams = {steam1, steam2}
  Approved <- ApprovedApplications
  Pending <- PendingApplications
  PaidOn <- FirstPayments
  Transactions = {n1, n2}  MaxStarts = 2
  Openings <- RecordOpenings
  Visitors = {v1}  Flows = {n1, n2}  Codes = {k1, k2}  CodeLife = 2  RefusedFor = 2  MaxRefused = 1  StageLength = 1  FlowLength = 1  MaxCalls = 2  LastMoment = 2
  MemberCount = 3  SweepLimit = 1  MaxSyncs = 3
  PageReads = {n1, n2}  Changes = {k1, k2}  ActionIds = {i1}  MaxRoles = 1
  ActionOf <- SameAction
CHECK_DEADLOCK FALSE
INVARIANTS SupportersHold EveryoneSwept RequestsTrue
PROPERTIES LinkedOnce
