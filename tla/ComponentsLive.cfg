\* Liveness of the components that share no state
SPECIFICATION MCLiveSpec
CONSTANTS
  Components = {"sae", "radius", "sa_query", "eapol"}
  beacon_prot = FALSE
  MaxKey = 1
  MaxFrames = 1
  SaeSync = 0
  MeshAuthRetry = 0
  MaxScalars = 2
  MaxTokens = 0
  MaxAir = 1
  NumServers = 2
  RadiusIds = 3
  NumFailover = 1
  MaxFailover = 1
  RadiusMaxEntries = 2
  RadiusStations = {s1}
  MaxRequests = 2
  SaQueryRounds = 2
  MaxDisturbances = 3
  MaxSaAir = 2
  AAs = {a1}
  SaeAAs = {}
  PmksaMaxEntries = 2
  PmkLifetime = 1
  PmkReauth = 1
  SaePoll = 1
  MaxPmks = 1
  reAuthMax = 1
  MaxRetrans = 1
  EapolEvents = {"ctrl_reauth"}
  AcceptKeys = {TRUE}
  MaxChallenges = 0
  MaxStray = 0
PROPERTIES
  
  RadiusServed
  SaQueryHeals
  EapolDecides
\* The bounds end some behaviours.
CHECK_DEADLOCK FALSE
