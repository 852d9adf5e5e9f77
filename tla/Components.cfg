\* Safety of the components that share no state
SPECIFICATION MCSpec
CONSTANTS
  Components = {"group_keys", "sae", "radius", "sa_query", "pmksa", "eapol"}
  beacon_prot = TRUE
  MaxKey = 3
  MaxFrames = 4
  SaeSync = 0
  MeshAuthRetry = 1
  MaxScalars = 2
  MaxTokens = 1
  MaxAir = 1
  NumServers = 2
  RadiusIds = 3
  NumFailover = 1
  MaxFailover = 1
  RadiusMaxEntries = 2
  RadiusStations = {s1}
  MaxRequests = 3
  SaQueryRounds = 2
  MaxDisturbances = 3
  MaxSaAir = 2
  AAs = {a1, a2, a3}
  SaeAAs = {a3}
  PmksaMaxEntries = 2
  PmkLifetime = 3
  PmkReauth = 2
  SaePoll = 2
  MaxPmks = 2
  reAuthMax = 1
  MaxRetrans = 0
  EapolEvents = {"logoff"}
  AcceptKeys = {TRUE}
  MaxChallenges = 1
  MaxStray = 1
INVARIANTS
  GroupKeyNotReinstalled
  AnsweredIsInstalled
  SaeAgreement
  
  RadiusTimed
  RadiusIdsUnique
  RadiusBounded
  RadiusAuthSecretCurrent
  PmksaCounted
  PmksaExpires
  PmksaCurrentIsUsed
  EapolSettles
  EapolPortOnAccept
  EapolRejectCloses
  ComponentsTypeOK
PROPERTIES
  SaDisplacedOnVerdict
  
  PmksaExpiryDrops
  EapolNoStalePmk
SYMMETRY AASymmetry
\* The bounds end some behaviours.
CHECK_DEADLOCK FALSE
