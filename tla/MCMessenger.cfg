SPECIFICATION Spec
CONSTANTS
  Me = me
  Peers = {p}
  MaxMessages = 2
  MaxChanges = 1
  MaxRequests = 1
  MaxUnread = 3
  Page = 1
  FirstPages = {1}
  MayCrash = TRUE
INVARIANTS TypeOK ContactsCoverMessages NothingMissing ChangeFindsMessage ShownAsStored ShownOnce InOrder
PROPERTY StartEnds
