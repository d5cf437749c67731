SPECIFICATION AppsSpec
CONSTANTS
  h1 = h1  h2 = h2  h3 = h3  i1 = i1  i2 = i2  i3 = i3
  Requests = {h1, h2, h3}
  Ids = {i1, i2, i3}
  NoId = NoId
  ConfirmationRequired = FALSE
SYMMETRY Symmetry
CHECK_DEADLOCK FALSE
INVARIANTS  OneGrant Recoverable
PROPERTIES FinalStays
