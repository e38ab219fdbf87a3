SPECIFICATION Spec
CONSTANTS
  ua = ua  ub = ub  uc = uc  admin = admin  bob = bob
  h1 = h1  g1 = g1  g2 = g2
  Null = Null
  Keep = Keep
  Users <- ThreeUsers
  Names <- TwoNames
  Seed = admin
  Sessions <- OneSession
  Registrars <- TwoRegistrars
  Ops <- WithoutReject
  Patches <- OneFlag
  MaxBoots = 2
SYMMETRY Symmetry
INVARIANTS TypeOK SomeSuperadmin UniqueNames
PROPERTY OwnRightsKept
