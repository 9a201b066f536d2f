\* One group, two events, two notifications in every round.
CONSTANTS
  Cores = {c1, c2}
  MaxGroups = 1
  Events = {e1, e2}
  Notifs = {n1, n2}
  None = None
  MaxNotif = 2
  NotifCounts = {2}
  MaxCount = 2
  Lossy = TRUE
SPECIFICATION FairSpec
INVARIANTS
  CountExact
  NotifiedAtEnd
PROPERTY EventuallyNotified
