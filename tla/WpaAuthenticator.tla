-------------------------- MODULE WpaAuthenticator --------------------------
(***************************************************************************)
(* The pairwise state machine (WPA_PTK) that src/ap/wpa_auth.c runs for    *)
(* one station, for WPA2-PSK and neither FT, FILS, MLO, Extended Key ID    *)
(* nor RADIUS-provided PSKs.  The group key machines are in GroupRekey.    *)
(*                                                                         *)
(* struct wpa_state_machine is the record sm.  Every SM_STATE() of the     *)
(* source, SM_STEP(), and every entry point that ends in wpa_sm_step() is  *)
(* an operator from the record before to the record after; env holds what  *)
(* the code asks its environment during the call.  sm.tx is the set of all *)
(* frames ever sent to the station.                                        *)
(***************************************************************************)
EXTENDS EapolKey

CONSTANTS wpa_pairwise_update_count,      \* attempts for messages 1/4 and 3/4
          wpa_disable_eapol_key_retries,  \* never send message 3/4 twice
          wpa_ptk_rekey                   \* whether a PTK lifetime is set

ASSUME UpdateCountPositive == wpa_pairwise_update_count \in Nat \ {0}
ASSUME AuthBooleans == /\ wpa_disable_eapol_key_retries \in BOOLEAN
                       /\ wpa_ptk_rekey \in BOOLEAN

RSNA_MAX_EAPOL_RETRIES == 4

\* A reauthentication after more than this many entries of PTKSTART without a
\* completed handshake disconnects.
MaxPtkStartWithoutSuccess == 3

PtkStates == {"INITIALIZE", "DISCONNECTED", "AUTHENTICATION",
              "AUTHENTICATION2", "INITPSK", "PTKSTART", "PTKCALCNEGOTIATING",
              "PTKCALCNEGOTIATING2", "PTKINITNEGOTIATING", "PTKINITDONE"}

\* The request flags of struct wpa_state_machine: each is raised right before a
\* wpa_sm_step() and cleared by the state it leads to, so that no two are up at
\* the same time.
Requests == {"none", "Init", "Disconnect", "DeauthenticationRequest",
             "AuthenticationRequest", "ReAuthenticationRequest", "PTKRequest"}

(***************************************************************************)
(* replay is key_replay[0].counter; key_replay and prev_key_replay are the *)
(* counters of the slots before the first invalid one, which is as far as  *)
(* wpa_replay_counter_valid() looks.  EAPOLKeyReceived is the conjunction  *)
(* of the flag of that name and ~EAPOLKeyRequest, rx_mic the MIC in        *)
(* last_rx_eapol_key.  timers counts the pending wpa_send_eapol_timeout    *)
(* calls: eloop keeps every registration.  req_replay_counter is one more  *)
(* than the counter of the last Request accepted, 0 if                     *)
(* req_replay_counter_used is clear.  tk is the key the driver uses,       *)
(* authorized the STA's port.  installs and reinstalled are history.       *)
(***************************************************************************)
AuthState ==
  [present : BOOLEAN, started : BOOLEAN,
   wpa_ptk_state : PtkStates, request : Requests,
   TimeoutEvt : BOOLEAN, TimeoutCtr : Nat, timers : Nat,
   pending_1_of_4_timeout : BOOLEAN, rekey_timer : BOOLEAN,
   EAPOLKeyReceived : BOOLEAN, MICVerified : BOOLEAN, rx_mic : PTKs,
   ANonce : Nat, SNonce : Nat, PTK : PTKs, PTK_valid : BOOLEAN,
   update_snonce : BOOLEAN, alt_snonce_valid : BOOLEAN, alt_SNonce : Nat,
   alt_replay_counter : Nat,
   replay : Nat, key_replay : SUBSET Nat, prev_key_replay : SUBSET Nat,
   req_replay_counter : Nat, ptkstart_without_success : Nat,
   pairwise_set : BOOLEAN, tk : PTKs, authorized : BOOLEAN,
   nonces : Nat,                         \* ANonces drawn so far
   installs : SUBSET PTKs, reinstalled : BOOLEAN,
   tx : SUBSET AuthMsg]

\* No state machine is allocated for the station.
AuthInit ==
  [present |-> FALSE, started |-> FALSE,
   wpa_ptk_state |-> "INITIALIZE", request |-> "none",
   TimeoutEvt |-> FALSE, TimeoutCtr |-> 0, timers |-> 0,
   pending_1_of_4_timeout |-> FALSE, rekey_timer |-> FALSE,
   EAPOLKeyReceived |-> FALSE, MICVerified |-> FALSE, rx_mic |-> NoPTK,
   ANonce |-> 0, SNonce |-> 0, PTK |-> NoPTK, PTK_valid |-> FALSE,
   update_snonce |-> FALSE, alt_snonce_valid |-> FALSE, alt_SNonce |-> 0,
   alt_replay_counter |-> 0,
   replay |-> 0, key_replay |-> {}, prev_key_replay |-> {},
   req_replay_counter |-> 0, ptkstart_without_success |-> 0,
   pairwise_set |-> FALSE, tk |-> NoPTK, authorized |-> FALSE,
   nonces |-> 0, installs |-> {}, reinstalled |-> FALSE, tx |-> {}]

\* wpa_free_sta_sm(): only what is not part of the state machine survives.
wpa_auth_sta_deinit(sm) ==
  [AuthInit EXCEPT !.nonces = sm.nonces, !.installs = sm.installs,
                   !.reinstalled = sm.reinstalled, !.tx = sm.tx]

\* The zeroed structure of a station that associates for the first time.
wpa_auth_sta_init(sm) == [wpa_auth_sta_deinit(sm) EXCEPT !.present = TRUE]

\* ap_sta_disconnect(): the station is deauthenticated and loses its state
\* machine; inside the step loop pending_deinit makes the loop its last action.
wpa_sta_disconnect(sm) == wpa_auth_sta_deinit(sm)

\* Mutant: the driver keeps the key.
wpa_remove_ptk_DriverKeeps(sm) ==
  [sm EXCEPT !.PTK_valid = FALSE, !.PTK = NoPTK, !.pairwise_set = FALSE,
             !.rekey_timer = FALSE]

wpa_remove_ptk(sm) ==
  [sm EXCEPT !.PTK_valid = FALSE, !.PTK = NoPTK, !.pairwise_set = FALSE,
             !.tk = NoPTK, !.rekey_timer = FALSE]

\* wpa_send_eapol(): the next replay counter becomes an acceptable one and a
\* retransmission timer is registered.  A frame that needs a MIC is dropped
\* when there is no valid PTK to compute it with.
wpa_send_eapol(sm, type, mic) ==
  LET c == sm.replay + 1 IN
  [sm EXCEPT !.replay = c,
             !.key_replay = {c} \cup {k \in @ : k + RSNA_MAX_EAPOL_RETRIES > c},
             !.timers = @ + 1,
             !.pending_1_of_4_timeout = @ \/ (type = "1/4" /\ sm.TimeoutCtr = 1),
             !.tx = IF type = "3/4" /\ ~sm.PTK_valid
                    THEN @
                    ELSE @ \cup {[type |-> type, ctr |-> c,
                                  nonce |-> sm.ANonce, mic |-> mic]}]
-----------------------------------------------------------------------------
(* The states of the WPA_PTK machine. *)

INITIALIZE(sm) ==
  [wpa_remove_ptk(sm) EXCEPT !.wpa_ptk_state = "INITIALIZE",
                             !.TimeoutCtr = 0, !.authorized = FALSE]

DISCONNECT(sm) == wpa_sta_disconnect(sm)

\* Mutant: the request is not taken down.
DISCONNECTED_RequestKept(sm) == [sm EXCEPT !.wpa_ptk_state = "DISCONNECTED"]

DISCONNECTED(sm) ==
  [sm EXCEPT !.wpa_ptk_state = "DISCONNECTED", !.request = "none"]

AUTHENTICATION(sm) ==
  [sm EXCEPT !.wpa_ptk_state = "AUTHENTICATION", !.PTK = NoPTK,
             !.PTK_valid = FALSE, !.request = "none"]

\* Mutant: an ANonce is drawn once in the life of the state machine.
NewANonce_Once(sm) ==
  [sm EXCEPT !.nonces = @ + 1, !.TimeoutCtr = 0,
             !.ANonce = IF @ = 0 THEN sm.nonces + 1 ELSE @]

NewANonce(sm) ==
  [sm EXCEPT !.nonces = @ + 1, !.ANonce = sm.nonces + 1, !.TimeoutCtr = 0]

AUTHENTICATION2(sm) ==
  [NewANonce(sm) EXCEPT !.wpa_ptk_state = "AUTHENTICATION2",
                        !.request = "none"]

INITPSK(sm) ==
  [sm EXCEPT !.wpa_ptk_state = "INITPSK", !.req_replay_counter = 0]

PTKSTART(sm) ==
  LET s == [sm EXCEPT !.wpa_ptk_state = "PTKSTART", !.request = "none",
                      !.TimeoutEvt = FALSE, !.alt_snonce_valid = FALSE,
                      !.ptkstart_without_success = @ + 1, !.TimeoutCtr = @ + 1]
  IN IF s.TimeoutCtr > wpa_pairwise_update_count
     THEN s
     ELSE wpa_send_eapol(s, "1/4", NoPTK)

\* env.ie_match: the elements of message 2/4 are those of the association.
PTKCALCNEGOTIATING(sm, env) ==
  LET ptk == DerivePTK(ApPMK, sm.ANonce, sm.SNonce)
      s == [sm EXCEPT !.wpa_ptk_state = "PTKCALCNEGOTIATING",
                      !.EAPOLKeyReceived = FALSE, !.update_snonce = FALSE]
  IN IF sm.rx_mic # ptk
     THEN s
     ELSE IF ~env.ie_match
     THEN wpa_sta_disconnect(s)
     ELSE [s EXCEPT !.timers = 0, !.pending_1_of_4_timeout = FALSE,
                    !.MICVerified = TRUE,
                    !.PTK = ptk, !.PTK_valid = TRUE]

PTKCALCNEGOTIATING2(sm) ==
  [sm EXCEPT !.wpa_ptk_state = "PTKCALCNEGOTIATING2", !.TimeoutCtr = 0]

\* Mutant: wpa_disable_eapol_key_retries is forgotten.
RetryLimitReached_CountOnly(sm) == sm.TimeoutCtr > wpa_pairwise_update_count

RetryLimitReached(sm) ==
  \/ sm.TimeoutCtr > wpa_pairwise_update_count
  \/ wpa_disable_eapol_key_retries /\ sm.TimeoutCtr > 1

PTKINITNEGOTIATING(sm) ==
  LET s == [sm EXCEPT !.wpa_ptk_state = "PTKINITNEGOTIATING",
                      !.TimeoutEvt = FALSE, !.TimeoutCtr = @ + 1]
  IN IF RetryLimitReached(s) THEN s ELSE wpa_send_eapol(s, "3/4", s.PTK)

\* env.set_key: the driver accepted the key.
PTKINITDONE(sm, env) ==
  LET s == [sm EXCEPT !.wpa_ptk_state = "PTKINITDONE",
                      !.EAPOLKeyReceived = FALSE]
  IN IF ~env.set_key
     THEN wpa_sta_disconnect(s)
     ELSE [s EXCEPT !.pairwise_set = TRUE, !.tk = sm.PTK,
                    !.installs = @ \cup {sm.PTK},
                    !.reinstalled = @ \/ sm.PTK \in sm.installs,
                    !.rekey_timer = wpa_ptk_rekey, !.authorized = TRUE,
                    !.ptkstart_without_success = 0]
-----------------------------------------------------------------------------
\* The transitions that depend on the state only.
Switch(sm, env) ==
  CASE sm.wpa_ptk_state \in {"INITIALIZE", "PTKINITDONE"} -> sm
    [] sm.wpa_ptk_state = "DISCONNECTED" -> INITIALIZE(sm)
    [] sm.wpa_ptk_state = "AUTHENTICATION" -> AUTHENTICATION2(sm)
    [] sm.wpa_ptk_state = "AUTHENTICATION2" -> INITPSK(sm)
    [] sm.wpa_ptk_state = "INITPSK" -> PTKSTART(sm)
    [] sm.wpa_ptk_state = "PTKSTART" ->
         IF sm.EAPOLKeyReceived THEN PTKCALCNEGOTIATING(sm, env)
         ELSE IF sm.TimeoutCtr > wpa_pairwise_update_count THEN DISCONNECT(sm)
         ELSE IF sm.TimeoutEvt THEN PTKSTART(sm) ELSE sm
    [] sm.wpa_ptk_state = "PTKCALCNEGOTIATING" ->
         IF sm.MICVerified THEN PTKCALCNEGOTIATING2(sm)
         ELSE IF sm.EAPOLKeyReceived THEN PTKCALCNEGOTIATING(sm, env)
         ELSE IF sm.TimeoutEvt THEN PTKSTART(sm) ELSE sm
    [] sm.wpa_ptk_state = "PTKCALCNEGOTIATING2" -> PTKINITNEGOTIATING(sm)
    [] sm.wpa_ptk_state = "PTKINITNEGOTIATING" ->
         IF sm.update_snonce THEN PTKCALCNEGOTIATING(sm, env)
         ELSE IF sm.EAPOLKeyReceived /\ sm.MICVerified
         THEN PTKINITDONE(sm, env)
         ELSE IF RetryLimitReached(sm) THEN DISCONNECT(sm)
         ELSE IF sm.TimeoutEvt THEN PTKINITNEGOTIATING(sm) ELSE sm

\* SM_STEP(WPA_PTK): a raised request goes first.
SM_STEP_WPA_PTK(sm, env) ==
  CASE ~sm.present -> sm
    [] sm.present /\ sm.request = "Init" -> INITIALIZE(sm)
    [] sm.present /\ sm.request = "Disconnect" -> DISCONNECT(sm)
    [] sm.present /\ sm.request = "DeauthenticationRequest" -> DISCONNECTED(sm)
    [] sm.present /\ sm.request = "AuthenticationRequest" -> AUTHENTICATION(sm)
    [] sm.present /\ sm.request = "ReAuthenticationRequest" ->
         AUTHENTICATION2(sm)
    [] sm.present /\ sm.request = "PTKRequest" -> PTKSTART(NewANonce(sm))
    [] sm.present /\ sm.request = "none" -> Switch(sm, env)

\* wpa_sm_step(): repeat until nothing changes.  No handler needs more than four
\* rounds (AUTHENTICATION to PTKSTART); Settled below is checked everywhere.
wpa_sm_step(sm, env) ==
  LET Step(s) == SM_STEP_WPA_PTK(s, env) IN Step(Step(Step(Step(sm))))

\* The step loop has nothing left to do.
Settled(sm, env) == sm.request = "none" /\ SM_STEP_WPA_PTK(sm, env) = sm
-----------------------------------------------------------------------------
(* The entry points. *)

\* wpa_auth_sta_associated()
wpa_auth_sta_associated(sm, env) ==
  IF ~sm.present
  THEN sm
  ELSE IF sm.started
  THEN wpa_sm_step([sm EXCEPT !.replay = 0, !.key_replay = {},
                              !.request = "ReAuthenticationRequest"], env)
  ELSE LET init == SM_STEP_WPA_PTK([sm EXCEPT !.started = TRUE,
                                              !.request = "Init"], env)
       IN wpa_sm_step([init EXCEPT !.request = "AuthenticationRequest"], env)

\* wpa_auth_sm_event() for the events of this configuration.
wpa_auth_sm_event(sm, event, env) ==
  LET s == CASE event \in {"WPA_AUTH", "WPA_ASSOC"} -> sm
             [] event = "WPA_DISASSOC" ->
                  [sm EXCEPT !.request = "DeauthenticationRequest"]
             [] event = "WPA_REAUTH" ->
                  [sm EXCEPT !.request =
                     IF \/ sm.ptkstart_without_success > MaxPtkStartWithoutSuccess
                        \/ wpa_deny_ptk0_rekey
                     THEN "Disconnect" ELSE "ReAuthenticationRequest"]
  IN IF sm.present THEN wpa_sm_step(wpa_remove_ptk(s), env) ELSE sm

\* wpa_request_new_ptk()
wpa_request_new_ptk(sm) ==
  IF wpa_deny_ptk0_rekey
  THEN [sm EXCEPT !.request = "Disconnect"]
  ELSE [sm EXCEPT !.request = "PTKRequest", !.PTK_valid = FALSE]

wpa_rekey_ptk(sm, env) ==
  wpa_sm_step(wpa_request_new_ptk([sm EXCEPT !.rekey_timer = FALSE]), env)

wpa_send_eapol_timeout(sm, env) ==
  wpa_sm_step([sm EXCEPT !.timers = @ - 1, !.pending_1_of_4_timeout = FALSE,
                         !.TimeoutEvt = TRUE], env)

\* The driver reports that the first message 1/4 was acknowledged: all timeouts
\* are replaced by a longer one.
wpa_auth_eapol_key_tx_status(sm) ==
  IF sm.pending_1_of_4_timeout THEN [sm EXCEPT !.timers = 1] ELSE sm
-----------------------------------------------------------------------------
(* wpa_receive() *)

\* A late answer to an earlier message 1/4 that names another SNonce.
SNonceUpdate(sm, m) ==
  /\ m.type = "2/4"
  /\ m.ctr \notin sm.key_replay
  /\ m.ctr \in sm.prev_key_replay
  /\ sm.wpa_ptk_state = "PTKINITNEGOTIATING"
  /\ m.nonce # sm.SNonce

\* An answer to the message 3/4 sent before the SNonce was updated.
AltMsg4(sm, m) ==
  /\ m.type = "4/4"
  /\ sm.alt_snonce_valid
  /\ sm.wpa_ptk_state = "PTKINITNEGOTIATING"
  /\ m.ctr = sm.alt_replay_counter

wpa_auth_valid_counter(sm, m) ==
  IF m.type = "Request"
  THEN m.ctr + 1 > sm.req_replay_counter
  ELSE m.ctr \in sm.key_replay \/ SNonceUpdate(sm, m) \/ AltMsg4(sm, m)

ExpectedInState(sm, m) ==
  CASE m.type = "2/4" ->
         \/ sm.wpa_ptk_state \in {"PTKSTART", "PTKCALCNEGOTIATING"}
         \/ SNonceUpdate(sm, m)
    [] m.type = "4/4" ->
         sm.wpa_ptk_state = "PTKINITNEGOTIATING" /\ sm.PTK_valid
    [] m.type = "Request" ->
         sm.wpa_ptk_state \notin {"PTKSTART", "PTKCALCNEGOTIATING",
                                  "PTKCALCNEGOTIATING2", "PTKINITNEGOTIATING"}

\* wpa_try_alt_snonce() would accept the MIC.
AltMicOk(sm, m) ==
  /\ m.type = "4/4"
  /\ sm.alt_snonce_valid
  /\ m.mic = DerivePTK(ApPMK, sm.ANonce, sm.alt_SNonce)

\* The MIC is checked here only when there is a PTK to check it with; message
\* 2/4 of a first handshake is checked in PTKCALCNEGOTIATING.
MicChecked(sm, m) == sm.PTK_valid /\ ~SNonceUpdate(sm, m)

Accepts(sm, m) ==
  /\ sm.present
  /\ wpa_auth_valid_counter(sm, m)
  /\ ExpectedInState(sm, m)
  /\ MicChecked(sm, m) => m.mic = sm.PTK \/ AltMicOk(sm, m)
  /\ m.type = "Request" => MicChecked(sm, m)

\* Mutant: every frame cancels the retransmission timeouts, verified or not.
TimersLeft_None(sm, m) == 0

TimersLeft(sm, m) == IF MicChecked(sm, m) THEN 0 ELSE sm.timers

\* Mutant: wpa_replay_counter_mark_invalid() is left out.
CountersLeft_All(sm, m) == sm.key_replay

CountersLeft(sm, m) == IF m.type = "Request" THEN sm.key_replay ELSE {}

\* Message 4/4 is under the PTK of the earlier SNonce.
AltUsed(sm, m) == AltMicOk(sm, m) /\ m.mic # sm.PTK

\* Mutant: wpa_try_alt_snonce() verifies and forgets to go back.
PtkOf_Latest(sm, m) == sm.PTK

PtkOf(sm, m) == IF AltUsed(sm, m) THEN m.mic ELSE sm.PTK

\* The replay counter and MIC bookkeeping of an accepted frame.
MarkReceived(sm, m) ==
  LET upd == SNonceUpdate(sm, m)
      s == [sm EXCEPT
              !.update_snonce = @ \/ upd,
              !.alt_SNonce = IF upd THEN sm.SNonce ELSE @,
              !.alt_snonce_valid = (@ \/ upd) /\ ~AltUsed(sm, m),
              !.alt_replay_counter = IF upd THEN sm.replay ELSE @,
              !.MICVerified = MicChecked(sm, m),
              !.timers = TimersLeft(sm, m),
              !.pending_1_of_4_timeout = @ /\ ~MicChecked(sm, m),
              !.PTK = PtkOf(sm, m),
              !.SNonce = IF AltUsed(sm, m) THEN sm.alt_SNonce ELSE @,
              !.key_replay = CountersLeft(sm, m)]
  IN IF m.type = "Request"
     THEN wpa_request_new_ptk([s EXCEPT !.req_replay_counter = m.ctr + 1])
     ELSE [s EXCEPT !.prev_key_replay =
                       IF m.type = "2/4"
                       THEN {k \in sm.key_replay : k > m.ctr} ELSE {}]

wpa_receive(sm, m, env) ==
  wpa_sm_step([MarkReceived(sm, m) EXCEPT
                 !.rx_mic = m.mic,
                 !.EAPOLKeyReceived = m.type # "Request",
                 !.SNonce = IF m.type = "2/4" THEN m.nonce ELSE @], env)
=============================================================================
