--------------------------- MODULE RsnSupplicant ---------------------------
(***************************************************************************)
(* The supplicant half of the 4-way handshake, src/rsn_supp/wpa.c, for one *)
(* network with WPA2-PSK and neither PMF, FT, FILS nor MLO.                *)
(*                                                                         *)
(* struct wpa_sm is the record st.  Every handler of the source is an      *)
(* operator from the record before the call to the record after it, the    *)
(* frames it sends included: st.tx is the set of all frames this station   *)
(* ever sent.                                                              *)
(***************************************************************************)
EXTENDS EapolKey

CONSTANT SnoncePerMsg2   \* FALSE: this supplicant.  TRUE: the external kind
                         \* wpa_auth.c works around (Windows XP WZC), which
                         \* draws a new SNonce for every message 2/4

ASSUME SnoncePerMsg2Boolean == SnoncePerMsg2 \in BOOLEAN

(***************************************************************************)
(* tptk is empty or the one temporary PTK of struct wpa_sm (the external   *)
(* supplicant may hold several).  installs records which key was handed to *)
(* the driver with which key flag; reinstalled is set when the driver is   *)
(* handed a key under a flag it already had: both are history and no       *)
(* handler reads them.  tk is the key the driver transmits with.           *)
(***************************************************************************)
WpaStates == {"DISCONNECTED", "ASSOCIATED", "4WAY_HANDSHAKE", "COMPLETED"}
KeyFlags == {"RX_NEXT", "RX_TX"}

SuppState ==
  [wpa_state : WpaStates,
   snonce : Nat, renew_snonce : BOOLEAN, anonce : Nat,
   tptk : SUBSET PTKs, ptk : PTKs, ptk_set : BOOLEAN,
   installed : BOOLEAN, installed_rx : BOOLEAN,
   rx_replay_counter : Nat,              \* 0: rx_replay_counter_set is clear
   request_counter : Nat,
   tk : PTKs,
   nonces : Nat,                         \* SNonces drawn so far
   installs : SUBSET (KeyFlags \X PTKs), reinstalled : BOOLEAN,
   tx : SUBSET SuppMsg]

SuppInit ==
  [wpa_state |-> "DISCONNECTED",
   snonce |-> 0, renew_snonce |-> TRUE, anonce |-> 0,
   tptk |-> {}, ptk |-> NoPTK, ptk_set |-> FALSE,
   installed |-> FALSE, installed_rx |-> FALSE,
   rx_replay_counter |-> 0, request_counter |-> 0,
   tk |-> NoPTK, nonces |-> 0,
   installs |-> {}, reinstalled |-> FALSE, tx |-> {}]

wpa_sm_clear_ptk(st) ==
  [st EXCEPT !.ptk_set = FALSE, !.ptk = NoPTK, !.tptk = {},
             !.installed = FALSE, !.installed_rx = FALSE]

\* The driver drops the keys of the old association as well.
wpa_sm_notify_assoc(st) ==
  [wpa_sm_clear_ptk(st) EXCEPT
     !.wpa_state = "ASSOCIATED", !.tk = NoPTK,
     !.rx_replay_counter = 0, !.renew_snonce = TRUE]

wpa_sm_notify_disassoc(st) ==
  [wpa_sm_clear_ptk(st) EXCEPT !.wpa_state = "DISCONNECTED", !.tk = NoPTK]

\* Mutant: the counter counts down.
wpa_sm_key_request_Down(st) ==
  [st EXCEPT !.request_counter = @ - 1,
             !.tx = @ \cup {[type |-> "Request", ctr |-> st.request_counter,
                             nonce |-> 0, mic |-> st.ptk]}]

\* The request carries the counter before it is incremented.
wpa_sm_key_request(st) ==
  IF wpa_deny_ptk0_rekey /\ st.wpa_state = "COMPLETED"
  THEN wpa_sm_notify_disassoc(st)
  ELSE IF ~st.ptk_set
  THEN st
  ELSE [st EXCEPT !.request_counter = @ + 1,
                  !.tx = @ \cup {[type |-> "Request", ctr |-> st.request_counter,
                                  nonce |-> 0, mic |-> st.ptk]}]

\* Message 2/4: it names the SNonce and is protected with the temporary PTK.
wpa_supplicant_send_2_of_4(st, ctr, snonce, ptk) ==
  st.tx \cup {[type |-> "2/4", ctr |-> ctr, nonce |-> snonce, mic |-> ptk]}

\* Message 4/4, protected with the PTK.
wpa_supplicant_send_4_of_4(st, ctr) ==
  st.tx \cup {[type |-> "4/4", ctr |-> ctr, nonce |-> 0, mic |-> st.ptk]}

\* Message 1/4: a temporary PTK is derived and message 2/4 answers.
wpa_supplicant_process_1_of_4(st, m) ==
  LET renew == st.renew_snonce \/ SnoncePerMsg2
      snonce == IF renew THEN st.nonces + 1 ELSE st.snonce
      ptk == DerivePTK(StaPMK, m.nonce, snonce)
  IN IF wpa_deny_ptk0_rekey /\ st.wpa_state = "COMPLETED"
     THEN wpa_sm_notify_disassoc(st)               \* wpa_sm_reconnect()
     ELSE [st EXCEPT !.wpa_state = "4WAY_HANDSHAKE",
                     !.snonce = snonce, !.renew_snonce = FALSE,
                     !.nonces = IF renew THEN @ + 1 ELSE @,
                     !.tptk = (IF SnoncePerMsg2 THEN @ ELSE {}) \cup {ptk},
                     !.anonce = m.nonce,
                     !.tx = wpa_supplicant_send_2_of_4(st, m.ctr, snonce, ptk)]

\* Mutant: the temporary PTK is not used up, so that a repeated message 3/4
\* turns it into the PTK once more.
wpa_sm_tptk_to_ptk_Kept(st, m) ==
  [st EXCEPT !.ptk = m.mic, !.ptk_set = TRUE,
             !.installed = FALSE, !.installed_rx = FALSE]

\* The MIC of m is checked with the temporary PTK, which becomes the PTK and is
\* used up, and then with the PTK in use.
wpa_sm_tptk_to_ptk(st, m) ==
  [st EXCEPT !.tptk = @ \ {m.mic}, !.ptk = m.mic, !.ptk_set = TRUE,
             !.installed = FALSE, !.installed_rx = FALSE]

MicOk(st, m) == m.mic \in st.tptk \/ (st.ptk_set /\ m.mic = st.ptk)

wpa_supplicant_verify_eapol_key_mic(st, m) ==
  IF m.mic \in st.tptk
  THEN [wpa_sm_tptk_to_ptk(st, m) EXCEPT !.renew_snonce = TRUE,
                                         !.rx_replay_counter = m.ctr]
  ELSE [st EXCEPT !.rx_replay_counter = m.ctr]

\* ok is the driver's answer to set_key.
wpa_supplicant_install_ptk(st, flag, ok) ==
  IF st.installed \/ (st.installed_rx /\ flag = "RX_NEXT") \/ ~ok
  THEN st
  ELSE [st EXCEPT !.installs = @ \cup {<<flag, st.ptk>>},
                  !.reinstalled = @ \/ <<flag, st.ptk>> \in st.installs,
                  !.installed_rx = @ \/ flag = "RX_NEXT",
                  !.installed = @ \/ flag = "RX_TX",
                  !.tk = IF flag = "RX_TX" THEN st.ptk ELSE @]

\* Mutant: message 4/4 goes out last, when everything is configured.
wpa_supplicant_process_3_of_4_SendLast(st, m, rxOk, txOk, gtkOk) ==
  LET rx == wpa_supplicant_install_ptk(st, "RX_NEXT", rxOk)
      done == wpa_supplicant_install_ptk(rx, "RX_TX", txOk)
  IN IF m.nonce # st.anonce \/ ~done.installed \/ ~gtkOk
     THEN wpa_sm_notify_disassoc(done)
     ELSE [done EXCEPT !.tx = wpa_supplicant_send_4_of_4(done, m.ctr),
                       !.renew_snonce = TRUE, !.wpa_state = "COMPLETED"]

\* Message 3/4, the MIC already verified.  A failure to configure the key for
\* reception is ignored; a failure to configure it for use deauthenticates, and
\* so does one to configure the group keys (gtkOk), after message 4/4 has gone
\* out.
wpa_supplicant_process_3_of_4(st, m, rxOk, txOk, gtkOk) ==
  LET rx == wpa_supplicant_install_ptk(st, "RX_NEXT", rxOk)
      sent == [rx EXCEPT !.tx = wpa_supplicant_send_4_of_4(rx, m.ctr),
                         !.renew_snonce = TRUE]
      done == wpa_supplicant_install_ptk(sent, "RX_TX", txOk)
  IN IF m.nonce # st.anonce
     THEN wpa_sm_notify_disassoc(st)
     ELSE IF ~sent.installed /\ ~txOk
     THEN wpa_sm_notify_disassoc(sent)
     ELSE IF ~gtkOk
     THEN wpa_sm_notify_disassoc(done)
     ELSE [done EXCEPT !.wpa_state = "COMPLETED"]

\* What is delivered to the station and not dropped on the way in.
Acceptable(st, m) ==
  /\ st.wpa_state # "DISCONNECTED"
  /\ m.ctr > st.rx_replay_counter
  /\ m.type = "3/4" => MicOk(st, m)

wpa_sm_rx_eapol(st, m, rxOk, txOk, gtkOk) ==
  IF m.type = "1/4"
  THEN wpa_supplicant_process_1_of_4(st, m)
  ELSE wpa_supplicant_process_3_of_4(wpa_supplicant_verify_eapol_key_mic(st, m),
                                     m, rxOk, txOk, gtkOk)
=============================================================================
