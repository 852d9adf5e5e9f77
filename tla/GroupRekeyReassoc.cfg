\* Reassociation during a group key handshake
SPECIFICATION FairSpec
CONSTANTS
  STA = {a, b}
  wpa_group_update_count = 2
  wpa_pairwise_update_count = 2
  wpa_disable_eapol_key_retries = FALSE
  no_disconnect_on_group_keyerror = FALSE
  wpa_strict_rekey = FALSE
  Events = {"reassoc", "overlap"}
  MaxGtk = 3
  MaxTimers = 2
PROPERTY RekeyEnds
