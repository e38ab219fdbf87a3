SPECIFICATION Spec
CONSTANTS
  r1 = r1  r2 = r2  chat = chat  backup = backup  k1 = k1
  owner = owner  seedAdmin = seedAdmin
  chatSlug = chatSlug  backupSlug = backupSlug
  None = None
  Requests <- OneRequest
  Services <- TwoServices
  Slugs <- TwoSlugs
  Keys <- OneKey
  Bodies <- AllBodies
  Statuses <- TwoStatuses
  Success <- Below400
  KeyAllows <- AllowsChat
  KeyOwner <- OwnedKeys
  ServiceOwner <- OwnedServices
  Admin = seedAdmin
  InitTables <- OneTable
  MaxConns = 1
  MaxEdits = 2
  MaxLogs = 1
  MaxRestarts = 1
INVARIANTS LoggedOnce FallbackJustified
PROPERTIES StartsLive KeepsPromise
CHECK_DEADLOCK FALSE
