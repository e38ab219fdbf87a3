SPECIFICATION Spec
CONSTANTS
  r1 = r1  r2 = r2  chat = chat  backup = backup  k1 = k1
  owner = owner  seedAdmin = seedAdmin
  chatSlug = chatSlug  backupSlug = backupSlug
  None = None
  Requests <- TwoRequests
  Services <- TwoServices
  Slugs <- TwoSlugs
  Keys <- OneKey
  Bodies <- AllBodies
  Statuses <- TwoStatuses
  Success <- Below400
  KeyAllows <- AllowsAll
  KeyOwner <- OwnedKeys
  ServiceOwner <- OwnedServices
  Admin = seedAdmin
  InitTables <- SomeTables
  MaxConns = 1
  MaxEdits = 1
  MaxLogs = 1
  MaxRestarts = 0
INVARIANT StreamsBypassCache
CHECK_DEADLOCK FALSE
