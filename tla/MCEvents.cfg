SPECIFICATION EventsSpec
CONSTANTS
  Events = {e1, e2}
  SystemEvents = {e2}
  BatchIds = {1, 2}
  Horizon = 3
  TriggerSlots = {s1, s2}
  MaxEdits = 1
  MaxTriggerFaults = 1
  Requests = {r1}
  MaxChanges = 3
  MaxAccountFaults = 1
  SyncSlots = {s1}
  ResyncWindow = 2
  Lead = 2
  Starts = {3, 4}
  LastMoment = 5
  MaxMoves = 2
  MaxTimerFaults = 1
  Calendars = {c1}
  ChannelIds = {1, 2, 3, 4}
  WatchSlots = {s1, s2}
  RenewWithin = 3
  Lifetimes = {4, 5}
  LastDay = 7
  MaxWatchFaults = 1
  Readers = {l1}
  Things = {1, 2, 3}
  Clock = 3
  PageSizes = {1, 2}
  DayLength = 3
  MaxListingChanges = 1
  MaxPages = 4
  RampUses = {u1, u2}
  MaxForgotten = 2
VIEW EventsView
INVARIANTS
  EventsTypeOK
  OccurrenceOnce EventsFire
   
  CalendarKept
CHECK_DEADLOCK FALSE
