SPECIFICATION Spec
CONSTANTS
  s1 = s1  s2 = s2  s3 = s3  llm = llm  stt = stt
  u1 = u1  u2 = u2  c1 = c1  i1 = i1
  None = None
  Keep = Keep
  Services <- ThreeServices
  Existing <- NoRow
  Types <- OneType
  Updaters <- OneUpdater
  Creators <- OneCreator
  Importers <- Nobody
INVARIANTS TypeOK Acyclic
PROPERTY KeepsForest
