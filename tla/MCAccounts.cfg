SPECIFICATION AccountsSpec
CONSTANTS
  Services = {v1, v2}
  GrantIds = {1, 2, 3}
  MaxRotations = 2
  MaxDisconnects = 2
  MaxConnFaults = 1
  Owners = {u1, u2}
  Names = {n1, n2}
  MaxAddressChanges = 1
  Mails = {m1}
  AskSlots = {s1, s2}
  ReceiveSlots = {s1, s2}
  SendSlots = {s1}
  DailyLimit = 1
  MaxMailFaults = 1
  Bundles = {b1, b2}
  SiteIds = {1}
  SiteSlots = {s1, s2}
  KeptVersions = 1
  MaxVersion = 2
  MaxKeys = 1
  LastHour = 1
  MaxSwitches = 1
  MaxSiteFaults = 1
  MediaSlots = {s1, s2}
  MediaAttempts = 2
  MaxMediaJobs = 3
  MaxMediaFaults = 2
  Users = {u1, u2}
  ChatIds = {c1}
  LinkTokens = {t1}
  TgUpdates = {x1, x2}
  WebhookSlots = {s1, s2}
  MaxChatFaults = 1
  SignInSlots = {s1}
  LeaveSlots = {s1, s2}
  LeaveAttempts = 2
  Logins = {h1}
  MaxSessions = 1
  MaxMade = 2
  MaxLeaveFaults = 1
VIEW AccountsView
INVARIANTS
  AccountsTypeOK
  
  
  SiteKept
  MessagesKept
  
CHECK_DEADLOCK FALSE
