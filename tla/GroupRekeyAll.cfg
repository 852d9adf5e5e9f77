\* Rekeying of both keys, requests and reassociation at any time
SPECIFICATION Spec
CONSTANTS
  STA = {a, b}
  wpa_group_update_count = 2
  wpa_pairwise_update_count = 1
  wpa_disable_eapol_key_retries = FALSE
  no_disconnect_on_group_keyerror = TRUE
  wpa_strict_rekey = FALSE
  Events = {"reassoc", "ptk_rekey", "gtk_request", "overlap"}
  MaxGtk = 3
  MaxTimers = 2
INVARIANT DoneCount
PROPERTY SwitchWaits
SYMMETRY StaSymmetry
