------------------------------ MODULE EapolKey ------------------------------
(***************************************************************************)
(* The EAPOL-Key frames that the authenticator (src/ap/wpa_auth.c) and the *)
(* supplicant (src/rsn_supp/wpa.c) exchange, as far as the two state       *)
(* machines tell them apart.                                               *)
(*                                                                         *)
(* Nonces are positive naturals handed out in order, so that two draws of  *)
(* random_get_bytes() never collide.  A PTK is the triple of what          *)
(* wpa_pmk_to_ptk() hashes and the two ends can disagree about: the PMK,   *)
(* the ANonce and the SNonce.  The Key MIC of a frame is the PTK whose KCK *)
(* computed it: a MIC verifies exactly under that PTK (perfect             *)
(* cryptography).  NoPTK stands for a zeroed struct wpa_ptk and for the    *)
(* MIC field of a frame sent without the MIC bit.                          *)
(***************************************************************************)
EXTENDS Naturals

CONSTANTS ApPMK,      \* the PMK the authenticator holds for this station
          StaPMK,     \* the PMK the supplicant derived; ApPMK unless the
                      \* station was given the wrong passphrase
          wpa_deny_ptk0_rekey   \* either side disconnects instead of
                                \* replacing the pairwise key (key index 0)

ASSUME DenyRekeyBoolean == wpa_deny_ptk0_rekey \in BOOLEAN

PMKs == {ApPMK, StaPMK}

\* wpa_pmk_to_ptk(): the PTK both ends derive from a PMK and two nonces.
DerivePTK(pmk, anonce, snonce) == <<pmk, anonce, snonce>>

NoPTK == DerivePTK(ApPMK, 0, 0)

PTKs == PMKs \X Nat \X Nat

\* Frames of the authenticator: messages 1/4 and 3/4 of the 4-way handshake.
AuthMsg == [type : {"1/4", "3/4"}, ctr : Nat, nonce : Nat, mic : PTKs]

\* Frames of the supplicant: messages 2/4 and 4/4, and the EAPOL-Key Request
\* for a new PTK.
SuppMsg == [type : {"2/4", "4/4", "Request"}, ctr : Nat, nonce : Nat,
            mic : PTKs]
=============================================================================
