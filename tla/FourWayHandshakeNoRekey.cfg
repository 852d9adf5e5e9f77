\* No message 3/4 is repeated by a timeout, no PTK replaced, no two keys in use
SPECIFICATION Spec
CONSTANTS
  ApPMK = pmk
  StaPMK = pmk
  wpa_deny_ptk0_rekey = TRUE
  SnoncePerMsg2 = FALSE
  wpa_pairwise_update_count = 2
  wpa_disable_eapol_key_retries = TRUE
  wpa_ptk_rekey = TRUE
  MaxANonces = 2
  MaxSNonces = 3
  MaxRequests = 1
PROPERTIES
  Msg3AnswersMsg2
  PtkNeverReplaced
  ImplementsSA
\* The bounds on nonces end every run.
CHECK_DEADLOCK FALSE
