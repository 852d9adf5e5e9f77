\* A reassociation during the 4-way handshake
SPECIFICATION EapolSpec
CONSTANTS
  reAuthMax = 1
  MaxRetrans = 0
  EapolEvents = {}
  AcceptKeys = {TRUE}
  MaxChallenges = 0
  MaxStray = 0
INVARIANT EapolReauthForced
