\* A supplicant that draws an SNonce for every message 2/4
SPECIFICATION Spec
CONSTANTS
  ApPMK = pmk
  StaPMK = pmk
  wpa_deny_ptk0_rekey = FALSE
  SnoncePerMsg2 = TRUE
  wpa_pairwise_update_count = 2
  wpa_disable_eapol_key_retries = FALSE
  wpa_ptk_rekey = TRUE
  MaxANonces = 1
  MaxSNonces = 3
  MaxRequests = 1
INVARIANT KeyConfirmed
\* The bounds on nonces end every run.
CHECK_DEADLOCK FALSE
