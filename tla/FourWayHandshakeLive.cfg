\* Every handshake ends
SPECIFICATION FairSpec
CONSTANTS
  ApPMK = pmk
  StaPMK = pmk
  wpa_deny_ptk0_rekey = FALSE
  SnoncePerMsg2 = FALSE
  wpa_pairwise_update_count = 2
  wpa_disable_eapol_key_retries = FALSE
  wpa_ptk_rekey = TRUE
  MaxANonces = 2
  MaxSNonces = 2
  MaxRequests = 0
PROPERTIES
  HandshakeEnds
\* The bounds on nonces end every run.
CHECK_DEADLOCK FALSE
