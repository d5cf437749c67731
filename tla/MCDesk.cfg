SPECIFICATION Spec
CONSTANTS
  n1 = n1  n2 = n2  m1 = m1  m2 = m2  k1 = k1  k2 = k2  donor1 = donor1  donor2 = donor2  steam1 = steam1  steam2 = steam2  tx1 = tx1  tx2 = tx2
  Panels = {n1, n2}  Posts = {k1, k2}  Held = TRUE  MaxFormEdits = 1  MaxSaves = 3
  FirstDocs <- StoredDocs
  Editors = {n1, n2}  Maps = {m1, m2}  Cleared = {"other", "rotation"}  MaxEntries = 2  MaxWrites = 2  MaxDraftEdits = 1  MaxSends = 1
  Dialogs = {k1}  Ballots = {n1, n2}  Cooldown = 1  AccessGrace = 1  HistoryLimit = 2  MaxRevision = 2
  ChargeCount = 2  MaxChanges = 2  Readers = {k1}  RecordDialogs = {k2}
  Desks = {n1, n2}  MaxEntrySends = 2  FounderDays = {1, 2}
  Entries <- TypedEntries
  SteamIds = {steam1, steam2}  ValidIds = {steam1}
  OpeningFacts <- Facts
  Browsers = {n1, n2}  Applicants = {k1, k2}  ApplicantSteams = {steam1}  FlowFor = 1  SessionFor = 2  CountFor = 2  TryLimit = 1  MaxTracked = 1  MaxSignIns = 2  LastInstant = 2
  AppCount = 2  BusyRetries = 1  FirstGap = 1  Spacing = 2  MaxRequests = 2
CHECK_DEADLOCK FALSE
INVARIANTS EventsBegunTrue SupportersTrue ApplicationsServed
PROPERTIES SavesReviewed
