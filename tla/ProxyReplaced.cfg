SPECIFICATION Spec
CONSTANTS
  r1 = r1  r2 = r2  chat = chat  backup = backup  k1 = k1
  owner = owner  seedAdmin = seedAdmin
  chatSlug = chatSlug  backupSlug = backupSlug
  None = None
  Requests <- OneRequest
  Services <- TwoServices
  Slugs <- TwoSlugs
  Keys <- OneKey
  Bodies <- AllBodies
  Statuses <- TwoStatuses
  Success <- Below400
  KeyAllows <- AllowsAll
  KeyOwner <- OwnedKeys
  ServiceOwner <- OwnedServices
  Admin = seedAdmin
  InitTables <- AllTables
  MaxConns = 2
  MaxEdits = 0
  MaxLogs = 1
  MaxRestarts = 0
INVARIANT ReplacedAttemptLogged
CHECK_DEADLOCK FALSE
