\* WNM-Sleep Mode exit during a GTK rekeying
SPECIFICATION Spec
CONSTANTS
  STA = {a, b}
  wpa_group_update_count = 2
  wpa_pairwise_update_count = 2
  wpa_disable_eapol_key_retries = FALSE
  no_disconnect_on_group_keyerror = FALSE
  wpa_strict_rekey = FALSE
  Events = {"wnm_sleep"}
  MaxGtk = 3
  MaxTimers = 2
INVARIANT DoneCount
