SPECIFICATION Spec
CONSTANTS
  a = a
  b = b
  mail = mail
  post = post
  google = google
  i1 = i1
  i2 = i2
  i3 = i3
  gold = gold
  p1 = p1
  p2 = p2
  p3 = p3
  NoLink = NoLink
  NoTier = NoTier
  NoId = NoId
  Ids <- MCIds
  Names <- MCNames
  Emails <- MCEmails
  Links <- MCLinks
  Tiers <- MCTiers
  Procs = {p1, p2, p3}
  Requests <- AllRequests
SYMMETRY Symmetric
INVARIANTS
  PeopleAreUnique
  TiersHold
PROPERTY GoneStaysGone
CHECK_DEADLOCK FALSE
