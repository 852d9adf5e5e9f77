\* Two handshakes with retransmissions, rekeying and reassociation
SPECIFICATION Spec
CONSTANTS
  ApPMK = pmk
  StaPMK = pmk
  wpa_deny_ptk0_rekey = FALSE
  SnoncePerMsg2 = FALSE
  wpa_pairwise_update_count = 2
  wpa_disable_eapol_key_retries = FALSE
  wpa_ptk_rekey = TRUE
  MaxANonces = 2
  MaxSNonces = 2
  MaxRequests = 1
INVARIANTS
  TypeOK
  StepLoopSettles
  StaNeverReinstalls
  
  HandshakeIsTimed
  CountersOutstanding
\* The bounds on nonces end every run.
CHECK_DEADLOCK FALSE
