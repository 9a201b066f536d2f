\* Rounds with one and with two notifications.
CONSTANTS
  Cores = {c1, c2}
  MaxGroups = 1
  Events = {e1, e2}
  Notifs = {n1, n2}
  None = None
  MaxNotif = 2
  NotifCounts = {1, 2}
  MaxCount = 2
  Lossy = FALSE
SPECIFICATION Spec
INVARIANT NotifiedAtEnd
