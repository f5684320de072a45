SPECIFICATION FairSpec
CONSTANTS
  A = A
  B = B
  C = C
  Servers <- MCServers
  Topologies <- MCTopologies
  Words <- MCWords
  Templates <- MCTemplates
  Posters <- MCPosters
  MaxEvents = 4
INVARIANTS
  TypeOK
  OneRowEach
  RecordsArriveWhole
  GhostsWereOvertaken
  UrgentIsAnnounced
PROPERTIES
  EveryoneHears
  KeepsItsPromise
CHECK_DEADLOCK FALSE
