SPECIFICATION Spec
CONSTANTS
  ua = ua  ub = ub  uc = uc  admin = admin  bob = bob
  h1 = h1  g1 = g1  g2 = g2
  Null = Null
  Keep = Keep
  Users <- TwoUsers
  Names <- TwoNames
  Seed = admin
  Sessions <- OneSession
  Registrars <- OneRegistrar
  Ops <- AllOps
  Patches <- OneFlag
  MaxBoots = 1
PROPERTY OwnRightsKept
