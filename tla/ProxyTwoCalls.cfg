SPECIFICATION FairSpec
CONSTANTS
  r1 = r1  r2 = r2  chat = chat  backup = backup  k1 = k1
  owner = owner  seedAdmin = seedAdmin
  chatSlug = chatSlug  backupSlug = backupSlug
  None = None
  Requests <- TwoRequests
  Services <- TwoServices
  Slugs <- TwoSlugs
  Keys <- OneKey
  Bodies <- Objects
  Statuses <- TwoStatuses
  Success <- Below400
  KeyAllows <- AllowsChat
  KeyOwner <- OwnedKeys
  ServiceOwner <- OwnedServices
  Admin = seedAdmin
  InitTables <- RingTables
  MaxConns = 1
  MaxEdits = 0
  MaxLogs = 0
  MaxRestarts = 0
INVARIANTS TypeOK LoggedOnce HeldInUse
PROPERTY Answered
CHECK_DEADLOCK FALSE
