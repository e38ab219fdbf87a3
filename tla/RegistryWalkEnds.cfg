SPECIFICATION FairSpec
CONSTANTS
  s1 = s1  s2 = s2  s3 = s3  llm = llm  stt = stt
  u1 = u1  u2 = u2  c1 = c1  i1 = i1
  None = None
  Keep = Keep
  Services <- TwoServices
  Existing <- TwoServices
  Types <- TwoTypes
  Updaters <- OneUpdater
  Creators <- Nobody
  Importers <- OneImporter
INVARIANT NoDanglingLink
PROPERTY UpdateEnds
