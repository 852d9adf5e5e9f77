-------------------------- MODULE FourWayHandshake --------------------------
(***************************************************************************)
(* One access point and one station of an RSN: the authenticator's         *)
(* pairwise state machine and the supplicant of wpa_supplicant, over a     *)
(* medium that loses, duplicates, delays and reorders EAPOL-Key frames, in *)
(* a world where either side may leave or associate again at any time.     *)
(*                                                                         *)
(* A frame is received when it is in the other side's tx set.  It stays    *)
(* there, so it may be received again much later, or never.                *)
(***************************************************************************)
EXTENDS WpaAuthenticator, RsnSupplicant

CONSTANTS MaxANonces, MaxSNonces, MaxRequests   \* bounds of the instance

ASSUME BoundsNat == /\ MaxANonces \in Nat /\ MaxSNonces \in Nat
                    /\ MaxRequests \in Nat

VARIABLES sm,   \* the authenticator's state machine for the station
          st    \* the station

vars == <<sm, st>>

\* What the authenticator asks of its environment during one call.
Env == [ie_match : BOOLEAN, set_key : BOOLEAN]

Init == sm = AuthInit /\ st = SuppInit

\* The station authenticates again: ap_sta_re_add() clears its port, the PTK
\* goes, and the state machine stays where it is.
ApAuthenticate ==
  /\ sm.present
  /\ \E env \in Env :
       sm' = wpa_auth_sm_event([sm EXCEPT !.authorized = FALSE], "WPA_AUTH", env)
  /\ UNCHANGED st

\* The station associates: the driver reports it to both sides.  again: the
\* authenticator still has the station's WLAN_STA_ASSOC flag set.  Otherwise
\* its port has been cleared when it authenticated or disassociated.
Associate(again) ==
  /\ sm.nonces < MaxANonces
  /\ again => sm.present /\ sm.wpa_ptk_state # "INITIALIZE"
  /\ st' = wpa_sm_notify_assoc(st)
  /\ \E env \in Env :
       LET old == IF sm.present THEN sm ELSE wpa_auth_sta_init(sm)
           clr == [old EXCEPT !.authorized = again /\ @]
           s == wpa_auth_sm_event(clr, "WPA_ASSOC", env)
       IN sm' = IF again THEN wpa_auth_sm_event(s, "WPA_REAUTH", env)
                ELSE wpa_auth_sta_associated(s, env)

\* The station leaves: it loses the connection, or deauthenticates, and the
\* authenticator does not hear of it.
StaLeave ==
  /\ st.wpa_state # "DISCONNECTED"
  /\ st' = wpa_sm_notify_disassoc(st)
  /\ UNCHANGED sm

\* The authenticator receives a Deauthentication frame or drops the station.
ApDeauth ==
  /\ sm.present
  /\ sm' = wpa_auth_sta_deinit(sm)
  /\ UNCHANGED st

\* The authenticator receives a Disassociation frame.
ApDisassoc ==
  /\ sm.present /\ sm.wpa_ptk_state # "INITIALIZE"
  /\ \E env \in Env : sm' = wpa_auth_sm_event(sm, "WPA_DISASSOC", env)
  /\ UNCHANGED st

TimeoutPending == sm.present /\ sm.timers > 0

ApTimeout ==
  /\ TimeoutPending
  /\ \E env \in Env : sm' = wpa_send_eapol_timeout(sm, env)
  /\ UNCHANGED st

\* The driver's report of an acknowledged frame may come at any time.
ApTxStatus ==
  /\ sm.present /\ sm.pending_1_of_4_timeout
  /\ sm' = wpa_auth_eapol_key_tx_status(sm)
  /\ UNCHANGED st

ApRekeyTimer ==
  /\ sm.present /\ sm.rekey_timer /\ sm.nonces < MaxANonces
  /\ \E env \in Env : sm' = wpa_rekey_ptk(sm, env)
  /\ UNCHANGED st

ApReceive ==
  \E m \in st.tx, env \in Env :
    /\ Accepts(sm, m)
    /\ m.type = "Request" => sm.nonces < MaxANonces
    /\ sm' = wpa_receive(sm, m, env)
    /\ UNCHANGED st

StaReceive ==
  \E m \in sm.tx, rxOk, txOk, gtkOk \in BOOLEAN :
    /\ Acceptable(st, m)
    /\ m.type = "1/4" => st.nonces < MaxSNonces
    /\ st' = wpa_sm_rx_eapol(st, m, rxOk, txOk, gtkOk)
    /\ UNCHANGED sm

\* The PTK lifetime of the station ends, or its user asks for a new key.
StaKeyRequest ==
  /\ st.wpa_state # "DISCONNECTED" /\ st.ptk_set
  /\ st.request_counter < MaxRequests
  /\ st' = wpa_sm_key_request(st)
  /\ UNCHANGED sm

Next == \/ \E again \in BOOLEAN : Associate(again)
        \/ StaLeave \/ ApAuthenticate \/ ApDeauth \/ ApDisassoc
        \/ ApTimeout \/ ApTxStatus \/ ApRekeyTimer \/ ApReceive
        \/ StaReceive \/ StaKeyRequest

Spec == Init /\ [][Next]_vars

\* eloop runs every registered timeout; nothing else has to happen.  This is
\* WF_vars(ApTimeout) with its ENABLED, which is TimeoutPending, written out.
TimeoutsRun == <>[]TimeoutPending => []<><<ApTimeout>>_vars

FairSpec == Spec /\ TimeoutsRun
-----------------------------------------------------------------------------
TypeOK == sm \in AuthState /\ st \in SuppState

\* wpa_sm_step() stops only when the state machine has nothing left to do.
StepLoopSettles == \A env \in Env : Settled(sm, env)

\* "The same PTK is only installed once" (wpa_supplicant_verify_eapol_key_mic):
\* whatever is received, in whatever order, and however often, the station's
\* driver is handed no key twice.
StaNeverReinstalls == ~st.reinstalled

\* The authenticator's driver is handed no key twice either, across
\* retransmissions, rekeying, reauthentication and reassociation.
ApNeverReinstalls == ~sm.reinstalled

\* When the authenticator's driver uses a key, the station has proved with
\* message 4/4 that it holds it.
KeyConfirmed ==
  sm.pairwise_set =>
    \E m \in st.tx : m.type = "4/4" /\ m.mic = sm.tk

\* A handshake that is under way always has a retransmission timeout pending:
\* no sequence of late, duplicated or bad frames leaves it waiting for ever.
HandshakeIsTimed ==
  sm.present /\ sm.wpa_ptk_state \in {"PTKSTART", "PTKCALCNEGOTIATING",
                                      "PTKINITNEGOTIATING"}
    => sm.timers > 0

\* No replay counter is acceptable that the authenticator has not sent since the
\* last frame it accepted, and there are never more than the slots that
\* key_replay[] has.
CountersOutstanding ==
  /\ \A k \in sm.key_replay : k <= sm.replay /\ k + RSNA_MAX_EAPOL_RETRIES > sm.replay
  /\ \A k \in sm.key_replay : \A j \in sm.prev_key_replay :
       sm.wpa_ptk_state = "PTKINITNEGOTIATING" => j < k

\* Where replacing the key at index 0 is denied, neither driver goes from one
\* pairwise key straight to another: the station is disconnected in between.
PtkNeverReplaced ==
  [][/\ sm.tk # NoPTK => sm'.tk \in {sm.tk, NoPTK}
     /\ st.tk # NoPTK => st'.tk \in {st.tk, NoPTK}]_vars

\* With wpa_disable_eapol_key_retries a message 3/4 goes out only in answer to a
\* message 2/4 under the same key, received with a counter that was outstanding:
\* no timeout sends one again.
Msg3AnswersMsg2 ==
  [][wpa_disable_eapol_key_retries =>
       \A m \in {k \in sm'.tx \ sm.tx : k.type = "3/4"} :
         \E n \in st.tx : /\ n.type = "2/4" /\ n.mic = m.mic
                          /\ n.ctr \in sm.key_replay \cup sm.prev_key_replay]_vars

SA == INSTANCE PairwiseSA WITH
        Keys <- PMKs \X (0 .. MaxANonces) \X (0 .. MaxSNonces),
        NoKey <- NoPTK, Replaces <- ~wpa_deny_ptk0_rekey \/ SnoncePerMsg2,
        apKey <- sm.tk, staKey <- st.tk, apUsed <- sm.installs,
        staUsed <- {i[2] : i \in {j \in st.installs : j[1] = "RX_TX"}},
        confirmed <- {m.mic : m \in {n \in st.tx : n.type = "4/4"}}

\* The exchange implements the pairwise security association of PairwiseSA.
ImplementsSA == SA!Spec

\* A handshake ends: with a key in place, or with the station disconnected.
HandshakeEnds ==
  (sm.wpa_ptk_state = "PTKSTART")
    ~> (sm.wpa_ptk_state \in {"PTKINITDONE", "INITIALIZE"})
=============================================================================
