----------------------- MODULE WpaAuthenticatorProofs -----------------------
(***************************************************************************)
(* The states and entry points of the authenticator keep its state well    *)
(* typed and never hand the driver a key it already had: the lemmas from   *)
(* which FourWayHandshakeProofs concludes for whole behaviours.            *)
(***************************************************************************)
EXTENDS WpaAuthenticator, TLAPS

ANonceOf(ptk) == ptk[2]

(***************************************************************************)
(* The inductive invariant.  Two keys the driver is handed differ in their *)
(* ANonce: every handshake draws one, and the states between the draw and  *)
(* PTKINITDONE have a PTK, if they have a valid one, derived from it.      *)
(***************************************************************************)
Handshaking == {"AUTHENTICATION2", "INITPSK", "PTKSTART", "PTKCALCNEGOTIATING",
                "PTKCALCNEGOTIATING2", "PTKINITNEGOTIATING"}

ANonceFresh(s) == \A k \in s.installs : ANonceOf(k) # s.ANonce

NonceInv(s) ==
  /\ s.ANonce <= s.nonces
  /\ \A k \in s.installs : ANonceOf(k) <= s.nonces
  /\ s.PTK_valid => ANonceOf(s.PTK) = s.ANonce
  /\ s.wpa_ptk_state \in Handshaking => ANonceFresh(s)

\* Both ways to a new ANonce start without a valid PTK.
RequestInv(s) ==
  /\ s.request \in {"ReAuthenticationRequest", "PTKRequest"} => ~s.PTK_valid
  /\ s.wpa_ptk_state = "AUTHENTICATION" => ~s.PTK_valid

\* A frame that was accepted is used by the next step, and no other can be
\* accepted before the authenticator sends again.
ReceivedInv(s) ==
  /\ s.EAPOLKeyReceived =>
       /\ s.wpa_ptk_state \in {"PTKSTART", "PTKINITNEGOTIATING"}
       /\ s.present /\ s.request = "none" /\ s.key_replay = {}
       /\ s.wpa_ptk_state = "PTKINITNEGOTIATING" =>
            s.update_snonce \/ (s.MICVerified /\ s.PTK_valid)
  /\ s.wpa_ptk_state = "PTKCALCNEGOTIATING" => s.key_replay = {}
  /\ s.update_snonce => s.EAPOLKeyReceived

AuthInv(s) ==
  /\ s \in AuthState
  /\ ~s.reinstalled
  /\ NonceInv(s) /\ RequestInv(s) /\ ReceivedInv(s)
-----------------------------------------------------------------------------
\* A zeroed PTK is a PTK.
LEMMA AuthNoPTK == NoPTK \in PTKs
  BY DEF NoPTK, PTKs, PMKs, DerivePTK

\* A station without a state machine.
LEMMA AuthInitInv == AuthInv(AuthInit)
  BY AuthNoPTK DEF AuthInv, AuthInit, AuthState, PtkStates, Requests,
     NonceInv, RequestInv, ReceivedInv, Handshaking

\* wpa_free_sta_sm() leaves nothing but history.
LEMMA StaDeinit ==
  ASSUME NEW s, AuthInv(s)
  PROVE  LET d == wpa_auth_sta_deinit(s)
         IN  AuthInv(d) /\ ~d.EAPOLKeyReceived
<1> DEFINE d == wpa_auth_sta_deinit(s)
<1>1. /\ d.nonces = s.nonces /\ d.installs = s.installs /\ d.tx = s.tx
      /\ d.reinstalled = s.reinstalled
      /\ d.ANonce = 0 /\ ~d.PTK_valid /\ ~d.update_snonce /\ ~d.EAPOLKeyReceived
      /\ d.wpa_ptk_state = "INITIALIZE" /\ d.request = "none"
  BY DEF wpa_auth_sta_deinit, AuthInit
<1>2. d \in AuthState
  <2>1. AuthInit \in AuthState BY AuthInitInv DEF AuthInv
  <2> QED BY <2>1 DEF AuthInv, AuthState, wpa_auth_sta_deinit
<1>3. 0 <= s.nonces BY DEF AuthInv, AuthState
<1> HIDE DEF d
<1>4. AuthInv(d)
  BY <1>1, <1>2, <1>3 DEF AuthInv, NonceInv, RequestInv, ReceivedInv, Handshaking
<1> QED BY <1>1, <1>4 DEF d

\* wpa_auth_sta_init() allocates a zeroed state machine.
LEMMA StaInit ==
  ASSUME NEW s, AuthInv(s)
  PROVE  AuthInv(wpa_auth_sta_init(s))
<1> DEFINE d == wpa_auth_sta_deinit(s)
<1>1. AuthInv(d) BY StaDeinit
<1> HIDE DEF d
<1> QED BY ZenonT(40), <1>1 DEF d, wpa_auth_sta_init, AuthInv, AuthState, NonceInv,
        ANonceFresh, RequestInv, ReceivedInv

\* wpa_remove_ptk() leaves no PTK that could be installed.
LEMMA RemovePtk ==
  ASSUME NEW s, AuthInv(s), ~s.EAPOLKeyReceived
  PROVE  LET v == wpa_remove_ptk(s)
         IN  AuthInv(v) /\ ~v.PTK_valid /\ ~v.EAPOLKeyReceived
  BY ZenonT(40), AuthNoPTK DEF wpa_remove_ptk, AuthInv, AuthState, NonceInv,
     ANonceFresh, RequestInv, ReceivedInv

\* The frames the authenticator sends are frames.
LEMMA SendEapol ==
  ASSUME NEW s, AuthInv(s), ~s.EAPOLKeyReceived,
         s.wpa_ptk_state # "PTKCALCNEGOTIATING",
         NEW type \in {"1/4", "3/4"}, NEW mic \in PTKs
  PROVE  LET v == wpa_send_eapol(s, type, mic)
         IN  AuthInv(v) /\ ~v.EAPOLKeyReceived
<1> DEFINE c == s.replay + 1
           msg == [type |-> type, ctr |-> c, nonce |-> s.ANonce, mic |-> mic]
           kr == {c} \cup {k \in s.key_replay : k + RSNA_MAX_EAPOL_RETRIES > c}
           tx == IF type = "3/4" /\ ~s.PTK_valid THEN s.tx ELSE s.tx \cup {msg}
           t == s.timers + 1
           p == s.pending_1_of_4_timeout \/ (type = "1/4" /\ s.TimeoutCtr = 1)
           n == [s EXCEPT !.replay = c, !.key_replay = kr, !.timers = t,
                          !.pending_1_of_4_timeout = p, !.tx = tx]
<1>1. c \in Nat /\ t \in Nat /\ p \in BOOLEAN BY DEF AuthInv, AuthState
<1> HIDE DEF c, t, p
<1>2. msg \in AuthMsg BY <1>1 DEF AuthInv, AuthState, AuthMsg
<1> HIDE DEF msg
<1>3. kr \in SUBSET Nat /\ tx \in SUBSET AuthMsg
  BY <1>1, <1>2 DEF AuthInv, AuthState
<1> HIDE DEF kr, tx
<1>4. n \in AuthState
  BY <1>1, <1>3 DEF AuthInv, AuthState
<1>5. AuthInv(n) /\ ~n.EAPOLKeyReceived
  BY <1>4 DEF AuthInv, AuthState, NonceInv, ANonceFresh, RequestInv, ReceivedInv
<1> QED BY <1>5 DEF wpa_send_eapol, n, tx, kr, msg, c, t, p
-----------------------------------------------------------------------------
(* The states of the machine: every one keeps the invariant and leaves no     *)
(* accepted frame behind.                                                     *)

Kept(v) == AuthInv(v) /\ ~v.EAPOLKeyReceived

\* SM_STATE(WPA_PTK, INITIALIZE)
LEMMA InitializeKept ==
  ASSUME NEW s, Kept(s)
  PROVE  Kept(INITIALIZE(s))
  BY ZenonT(40), AuthNoPTK DEF INITIALIZE, wpa_remove_ptk, Kept, AuthInv, AuthState,
     PtkStates, NonceInv, ANonceFresh, RequestInv, ReceivedInv, Handshaking

\* SM_STATE(WPA_PTK, DISCONNECT)
LEMMA DisconnectKept ==
  ASSUME NEW s, Kept(s)
  PROVE  Kept(DISCONNECT(s)) /\ Kept(wpa_sta_disconnect(s))
  BY StaDeinit DEF DISCONNECT, wpa_sta_disconnect, Kept

\* SM_STATE(WPA_PTK, DISCONNECTED)
LEMMA DisconnectedKept ==
  ASSUME NEW s, Kept(s)
  PROVE  Kept(DISCONNECTED(s))
  BY ZenonT(40) DEF DISCONNECTED, Kept, AuthInv, AuthState, PtkStates, Requests,
     NonceInv, ANonceFresh, RequestInv, ReceivedInv, Handshaking

\* SM_STATE(WPA_PTK, AUTHENTICATION)
LEMMA AuthenticationKept ==
  ASSUME NEW s, Kept(s)
  PROVE  Kept(AUTHENTICATION(s))
  BY ZenonT(40), AuthNoPTK DEF AUTHENTICATION, Kept, AuthInv, AuthState, PtkStates,
     Requests, NonceInv, ANonceFresh, RequestInv, ReceivedInv, Handshaking

\* A new ANonce differs from that of every installed key.
LEMMA NewANonceKept ==
  ASSUME NEW s, Kept(s), ~s.PTK_valid
  PROVE  Kept(NewANonce(s)) /\ ANonceFresh(NewANonce(s))
                               /\ ~NewANonce(s).PTK_valid
<1> DEFINE c == s.nonces + 1
           n == [s EXCEPT !.nonces = c, !.ANonce = c, !.TimeoutCtr = 0]
<1>1. c \in Nat /\ (\A k \in s.installs : ANonceOf(k) # c /\ ANonceOf(k) <= c)
  BY DEF Kept, AuthInv, AuthState, NonceInv, ANonceOf, PTKs
<1> HIDE DEF c
<1>2. n \in AuthState
  BY <1>1 DEF Kept, AuthInv, AuthState
<1>3. Kept(n) /\ ANonceFresh(n) /\ ~n.PTK_valid
  BY <1>1, <1>2 DEF Kept, AuthInv, AuthState, NonceInv, ANonceFresh, RequestInv, ReceivedInv
<1>4. n = NewANonce(s)
  BY DEF n, c, NewANonce, Kept, AuthInv, AuthState
<1> QED BY <1>3, <1>4

\* SM_STATE(WPA_PTK, AUTHENTICATION2)
LEMMA Authentication2Kept ==
  ASSUME NEW s, Kept(s), ~s.PTK_valid
  PROVE  Kept(AUTHENTICATION2(s))
<1> DEFINE n == NewANonce(s)
<1>1. Kept(n) /\ ANonceFresh(n) /\ ~n.PTK_valid
  BY NewANonceKept
<1> HIDE DEF n
<1>2. Kept([n EXCEPT !.wpa_ptk_state = "AUTHENTICATION2", !.request = "none"])
  BY ZenonT(40), <1>1 DEF Kept, AuthInv, AuthState, PtkStates, Requests, NonceInv,
     ANonceFresh, RequestInv, ReceivedInv, Handshaking
<1> QED BY <1>2 DEF n, AUTHENTICATION2

\* SM_STATE(WPA_PTK, INITPSK)
LEMMA InitPskKept ==
  ASSUME NEW s, Kept(s), s.wpa_ptk_state = "AUTHENTICATION2"
  PROVE  Kept(INITPSK(s))
  BY DEF INITPSK, Kept, AuthInv, AuthState, PtkStates, NonceInv, ANonceFresh,
     RequestInv, ReceivedInv, Handshaking

\* SM_STATE(WPA_PTK, PTKSTART)
LEMMA PtkStartKept ==
  ASSUME NEW s, Kept(s), ANonceFresh(s)
  PROVE  Kept(PTKSTART(s))
<1> DEFINE p == s.ptkstart_without_success + 1
           t == s.TimeoutCtr + 1
           n == [s EXCEPT !.wpa_ptk_state = "PTKSTART", !.request = "none",
                          !.TimeoutEvt = FALSE, !.alt_snonce_valid = FALSE,
                          !.ptkstart_without_success = p, !.TimeoutCtr = t]
<1>1. p \in Nat /\ t \in Nat BY DEF Kept, AuthInv, AuthState
<1> HIDE DEF p, t
<1>2. n \in AuthState
  BY <1>1 DEF Kept, AuthInv, AuthState, PtkStates, Requests
<1>3. Kept(n) /\ n.wpa_ptk_state = "PTKSTART"
  BY <1>2 DEF Kept, AuthInv, AuthState, NonceInv, ANonceFresh, RequestInv, ReceivedInv
<1>4. PTKSTART(s) = n \/ PTKSTART(s) = wpa_send_eapol(n, "1/4", NoPTK)
  BY DEF PTKSTART, n, p, t
<1> HIDE DEF n
<1>5. Kept(wpa_send_eapol(n, "1/4", NoPTK))
  BY <1>3, SendEapol, AuthNoPTK DEF Kept
<1> QED BY <1>3, <1>4, <1>5

\* The PTK of message 2/4 is made of the ANonce of this handshake.
LEMMA CalcNegotiatingKept ==
  ASSUME NEW s, AuthInv(s), s.wpa_ptk_state \in Handshaking,
         s.request = "none", s.key_replay = {}, NEW env
  PROVE  Kept(PTKCALCNEGOTIATING(s, env))
<1> DEFINE ptk == DerivePTK(ApPMK, s.ANonce, s.SNonce)
           n == [s EXCEPT !.wpa_ptk_state = "PTKCALCNEGOTIATING",
                          !.EAPOLKeyReceived = FALSE, !.update_snonce = FALSE]
           v == [n EXCEPT !.timers = 0, !.pending_1_of_4_timeout = FALSE,
                          !.MICVerified = TRUE, !.PTK = ptk, !.PTK_valid = TRUE]
<1>1. ptk \in PTKs /\ ANonceOf(ptk) = s.ANonce
  BY DEF AuthInv, AuthState, PTKs, PMKs, DerivePTK, ANonceOf
<1> HIDE DEF ptk
<1>2. AuthInv(n) /\ ~n.EAPOLKeyReceived /\ ~n.update_snonce /\ n.ANonce = s.ANonce
      /\ ANonceFresh(n) /\ n.wpa_ptk_state = "PTKCALCNEGOTIATING"
      /\ n.request = s.request /\ n.key_replay = {}
  BY ZenonT(40) DEF AuthInv, AuthState, PtkStates, NonceInv, ANonceFresh, RequestInv, ReceivedInv,
     Handshaking
<1>3. Kept(n) BY <1>2 DEF Kept
<1>4. Kept(wpa_sta_disconnect(n))
  BY <1>2, StaDeinit DEF wpa_sta_disconnect, Kept
<1>5. PTKCALCNEGOTIATING(s, env) \in {n, wpa_sta_disconnect(n), v}
  BY DEF PTKCALCNEGOTIATING, v, n, ptk
<1> HIDE DEF n
<1>6. Kept(v)
  BY ZenonT(40), <1>1, <1>2 DEF Kept, AuthInv, AuthState, NonceInv, ANonceFresh, RequestInv,
     ReceivedInv
<1> HIDE DEF v
<1> QED BY <1>3, <1>4, <1>5, <1>6

\* SM_STATE(WPA_PTK, PTKCALCNEGOTIATING2)
LEMMA CalcNegotiating2Kept ==
  ASSUME NEW s, Kept(s), s.wpa_ptk_state = "PTKCALCNEGOTIATING"
  PROVE  Kept(PTKCALCNEGOTIATING2(s))
  BY DEF PTKCALCNEGOTIATING2, Kept, AuthInv, AuthState, PtkStates, NonceInv,
     ANonceFresh, RequestInv, ReceivedInv, Handshaking

\* SM_STATE(WPA_PTK, PTKINITNEGOTIATING)
LEMMA InitNegotiatingKept ==
  ASSUME NEW s, Kept(s),
         s.wpa_ptk_state \in {"PTKCALCNEGOTIATING2", "PTKINITNEGOTIATING"}
  PROVE  Kept(PTKINITNEGOTIATING(s))
<1> DEFINE t == s.TimeoutCtr + 1
           n == [s EXCEPT !.wpa_ptk_state = "PTKINITNEGOTIATING",
                          !.TimeoutEvt = FALSE, !.TimeoutCtr = t]
<1>1. t \in Nat BY DEF Kept, AuthInv, AuthState
<1> HIDE DEF t
<1>2. Kept(n) /\ n.PTK = s.PTK /\ s.PTK \in PTKs
      /\ n.wpa_ptk_state = "PTKINITNEGOTIATING"
  BY ZenonT(40), <1>1 DEF Kept, AuthInv, AuthState, PtkStates, NonceInv, ANonceFresh,
     RequestInv, ReceivedInv, Handshaking
<1>3. PTKINITNEGOTIATING(s) \in {n, wpa_send_eapol(n, "3/4", n.PTK)}
  BY DEF PTKINITNEGOTIATING, n, t
<1> HIDE DEF n
<1>4. Kept(wpa_send_eapol(n, "3/4", n.PTK))
  BY <1>2, SendEapol DEF Kept
<1> QED BY <1>2, <1>3, <1>4

\* The driver is handed a key whose ANonce none of its keys had.
LEMMA InitDoneKept ==
  ASSUME NEW s, AuthInv(s), s.wpa_ptk_state = "PTKINITNEGOTIATING",
         s.EAPOLKeyReceived, ~s.update_snonce, NEW env
  PROVE  Kept(PTKINITDONE(s, env))
<1> DEFINE n == [s EXCEPT !.wpa_ptk_state = "PTKINITDONE",
                          !.EAPOLKeyReceived = FALSE]
           inst == s.installs \cup {s.PTK}
           r == s.reinstalled \/ s.PTK \in s.installs
           v == [n EXCEPT !.pairwise_set = TRUE, !.tk = s.PTK,
                          !.installs = inst, !.reinstalled = r,
                          !.rekey_timer = wpa_ptk_rekey, !.authorized = TRUE,
                          !.ptkstart_without_success = 0]
<1>1. AuthInv(n) /\ ~n.EAPOLKeyReceived /\ ~n.update_snonce
      /\ n.wpa_ptk_state = "PTKINITDONE"
      /\ n.PTK = s.PTK /\ n.installs = s.installs /\ n.reinstalled = s.reinstalled
  BY ZenonT(40) DEF AuthInv, AuthState, PtkStates, NonceInv, ANonceFresh, RequestInv, ReceivedInv,
     Handshaking
<1>2. Kept(wpa_sta_disconnect(n))
  BY <1>1, StaDeinit DEF wpa_sta_disconnect, Kept
<1>3. s.PTK_valid /\ ANonceOf(s.PTK) = s.ANonce /\ ANonceFresh(s)
  BY DEF AuthInv, NonceInv, ReceivedInv, Handshaking
<1>4. r = FALSE
  BY <1>3 DEF ANonceFresh, AuthInv
<1>5. inst \in SUBSET PTKs /\ s.PTK \in PTKs
      /\ \A k \in inst : ANonceOf(k) <= s.nonces
  BY <1>3 DEF AuthInv, AuthState, NonceInv
<1>6. PTKINITDONE(s, env) \in {wpa_sta_disconnect(n), v}
  <2>1. v = [n EXCEPT !.pairwise_set = TRUE, !.tk = s.PTK,
                      !.installs = @ \cup {s.PTK},
                      !.reinstalled = @ \/ s.PTK \in s.installs,
                      !.rekey_timer = wpa_ptk_rekey, !.authorized = TRUE,
                      !.ptkstart_without_success = 0]
    BY <1>1 DEF v, inst, r
  <2> QED BY <2>1 DEF PTKINITDONE, n
<1>7. n.nonces = s.nonces OBVIOUS
<1> HIDE DEF n, inst, r
<1>8. v \in AuthState /\ ~v.reinstalled
  <2>1. n \in AuthState BY <1>1 DEF AuthInv
  <2>2. wpa_ptk_rekey \in BOOLEAN BY AuthBooleans
  <2> DEFINE w == [n EXCEPT !.pairwise_set = TRUE, !.tk = s.PTK,
                            !.installs = inst, !.authorized = TRUE,
                            !.ptkstart_without_success = 0]
             x == [w EXCEPT !.reinstalled = r]
  <2>3. w \in AuthState BY <2>1, <1>5 DEF AuthState
  <2>4. r \in BOOLEAN BY <1>4
  <2> HIDE DEF w
  <2>5. x \in AuthState BY <2>3, <2>4 DEF AuthState
  <2> HIDE DEF x
  <2>6. [x EXCEPT !.rekey_timer = wpa_ptk_rekey] \in AuthState BY <2>2, <2>5 DEF AuthState
  <2>7. v = [x EXCEPT !.rekey_timer = wpa_ptk_rekey]
    BY <2>1 DEF AuthState, x, w
  <2>8. v \in AuthState
    BY <2>6, <2>7
  <2> QED BY <2>1, <2>8, <1>4 DEF AuthState
<1>9. Kept(v)
  BY <1>1, <1>5, <1>7, <1>8 DEF Kept, AuthInv, AuthState, NonceInv, RequestInv, ReceivedInv,
     Handshaking
<1> HIDE DEF v
<1> QED BY <1>2, <1>6, <1>9
-----------------------------------------------------------------------------
(* The step function and the entry points. *)

\* The switch of SM_STEP(WPA_PTK).
LEMMA SwitchKept ==
  ASSUME NEW s, AuthInv(s), s.request = "none", NEW env
  PROVE  Kept(Switch(s, env))
<1> USE DEF Handshaking
<1>1. s.wpa_ptk_state \in PtkStates BY DEF AuthInv, AuthState
<1>2. CASE s.EAPOLKeyReceived
  <2>1. /\ s.wpa_ptk_state \in {"PTKSTART", "PTKINITNEGOTIATING"}
        /\ s.key_replay = {}
        /\ s.wpa_ptk_state = "PTKINITNEGOTIATING" =>
             s.update_snonce \/ s.MICVerified
    BY <1>2 DEF AuthInv, ReceivedInv
  <2>2. Kept(PTKCALCNEGOTIATING(s, env))
    BY <2>1, CalcNegotiatingKept
  <2>3. CASE s.wpa_ptk_state = "PTKSTART"
    BY <1>2, <2>2, <2>3 DEF Switch
  <2>4. CASE s.wpa_ptk_state = "PTKINITNEGOTIATING"
    <3>1. ~s.update_snonce => Kept(PTKINITDONE(s, env))
      BY <1>2, <2>4, InitDoneKept
    <3> QED BY <1>2, <2>1, <2>2, <2>4, <3>1 DEF Switch
  <2> QED BY <2>1, <2>3, <2>4
<1>3. CASE ~s.EAPOLKeyReceived
  <2>1. Kept(s) BY <1>3 DEF Kept
  <2>2. CASE s.wpa_ptk_state \in {"INITIALIZE", "PTKINITDONE"}
    BY <2>1, <2>2 DEF Switch
  <2>3. CASE s.wpa_ptk_state = "DISCONNECTED"
    BY <2>1, <2>3, InitializeKept DEF Switch
  <2>4. CASE s.wpa_ptk_state = "AUTHENTICATION"
    <3>1. ~s.PTK_valid BY <2>4 DEF AuthInv, RequestInv
    <3> QED BY <2>1, <2>4, <3>1, Authentication2Kept DEF Switch
  <2>5. CASE s.wpa_ptk_state = "AUTHENTICATION2"
    BY <2>1, <2>5, InitPskKept DEF Switch
  <2>6. s.wpa_ptk_state \in Handshaking => Kept(PTKSTART(s))
    BY <2>1, PtkStartKept DEF AuthInv, NonceInv
  <2>7. CASE s.wpa_ptk_state = "INITPSK"
    BY <2>6, <2>7 DEF Switch
  <2>8. CASE s.wpa_ptk_state = "PTKSTART"
    BY <1>3, <2>1, <2>6, <2>8, DisconnectKept DEF Switch
  <2>9. CASE s.wpa_ptk_state = "PTKCALCNEGOTIATING"
    BY <1>3, <2>1, <2>6, <2>9, CalcNegotiating2Kept DEF Switch
  <2>10. CASE s.wpa_ptk_state = "PTKCALCNEGOTIATING2"
    BY <2>1, <2>10, InitNegotiatingKept DEF Switch
  <2>11. CASE s.wpa_ptk_state = "PTKINITNEGOTIATING"
    <3>1. ~s.update_snonce
      BY <1>3 DEF AuthInv, ReceivedInv
    <3> QED BY <1>3, <2>1, <2>11, <3>1, DisconnectKept, InitNegotiatingKept DEF Switch
  <2> QED BY <1>1, <2>2, <2>3, <2>4, <2>5, <2>7, <2>8, <2>9, <2>10, <2>11
          DEF PtkStates
<1> QED BY <1>2, <1>3

\* One round of the step loop uses up an accepted frame.
LEMMA StepKept ==
  ASSUME NEW s, AuthInv(s), NEW env
  PROVE  Kept(SM_STEP_WPA_PTK(s, env))
<1>1. s.request \in Requests /\ s.present \in BOOLEAN
  BY DEF AuthInv, AuthState
<1>2. CASE s.present /\ s.request = "none"
  BY ZenonT(40), <1>2, SwitchKept DEF SM_STEP_WPA_PTK
<1>3. CASE s.present /\ s.request # "none"
  <2>1. Kept(s)
    BY <1>3 DEF Kept, AuthInv, ReceivedInv
  <2>2. CASE s.request \in {"Init", "Disconnect", "DeauthenticationRequest",
                            "AuthenticationRequest"}
    BY <1>3, <2>1, <2>2, InitializeKept, DisconnectKept, DisconnectedKept,
       AuthenticationKept DEF SM_STEP_WPA_PTK
  <2>3. CASE s.request = "ReAuthenticationRequest"
    <3>1. ~s.PTK_valid BY <2>3 DEF AuthInv, RequestInv
    <3> QED BY <1>3, <2>1, <2>3, <3>1, Authentication2Kept DEF SM_STEP_WPA_PTK
  <2>4. CASE s.request = "PTKRequest"
    <3> DEFINE n == NewANonce(s)
    <3>1. ~s.PTK_valid BY <2>4 DEF AuthInv, RequestInv
    <3>2. Kept(n) /\ ANonceFresh(n)
      BY <2>1, <3>1, NewANonceKept
    <3> HIDE DEF n
    <3>3. Kept(PTKSTART(n)) BY <3>2, PtkStartKept
    <3>4. SM_STEP_WPA_PTK(s, env) = PTKSTART(n) BY <1>3, <2>4 DEF n, SM_STEP_WPA_PTK
    <3> QED BY <3>3, <3>4
  <2> QED BY <1>1, <1>3, <2>2, <2>3, <2>4 DEF Requests
<1>4. CASE ~s.present
  BY <1>4 DEF SM_STEP_WPA_PTK, Kept, AuthInv, ReceivedInv
<1> QED BY <1>1, <1>2, <1>3, <1>4

\* The four rounds together.
LEMMA SmStepKept ==
  ASSUME NEW s, AuthInv(s), NEW env
  PROVE  Kept(wpa_sm_step(s, env))
<1> DEFINE a == SM_STEP_WPA_PTK(s, env)
           b == SM_STEP_WPA_PTK(a, env)
           c == SM_STEP_WPA_PTK(b, env)
<1>1. AuthInv(a) BY StepKept DEF Kept
<1> HIDE DEF a
<1>2. AuthInv(b) BY <1>1, StepKept DEF Kept
<1> HIDE DEF b
<1>3. AuthInv(c) BY <1>2, StepKept DEF Kept
<1> HIDE DEF c
<1>4. Kept(SM_STEP_WPA_PTK(c, env)) BY <1>3, StepKept
<1> QED BY <1>4 DEF a, b, c, wpa_sm_step

\* Every request is used up by the step that it leads to.
LEMMA StepClearsRequest ==
  ASSUME NEW s, AuthInv(s), s.request # "Init", s.present \/ s.request = "none",
         NEW env
  PROVE  SM_STEP_WPA_PTK(s, env).request = "none"
<1>1. s \in AuthState BY DEF AuthInv
<1>2. \A n : wpa_sta_disconnect(n).request = "none"
  BY DEF wpa_sta_disconnect, wpa_auth_sta_deinit, AuthInit
<1>3. DISCONNECT(s).request = "none" BY <1>2 DEF DISCONNECT
<1>4. DISCONNECTED(s).request = "none" /\ AUTHENTICATION(s).request = "none"
  BY <1>1 DEF DISCONNECTED, AUTHENTICATION, AuthState
<1>5. AUTHENTICATION2(s).request = "none"
  BY <1>1 DEF NewANonce, AUTHENTICATION2, AuthState
<1>6. \A n \in AuthState : PTKSTART(n).request = "none"
  BY DEF PTKSTART, wpa_send_eapol, AuthState
<1>7. NewANonce(s) \in AuthState
  <2>1. s.nonces + 1 \in Nat BY <1>1 DEF AuthState
  <2> QED BY <1>1, <2>1 DEF NewANonce, AuthState
<1>8. CASE s.request = "none"
  <2>1. INITIALIZE(s).request = "none" /\ INITPSK(s).request = "none"
        /\ PTKCALCNEGOTIATING2(s).request = "none"
    BY <1>1, <1>8 DEF INITIALIZE, wpa_remove_ptk, INITPSK, PTKCALCNEGOTIATING2,
       AuthState
  <2>2. PTKINITNEGOTIATING(s).request = "none"
    BY <1>1, <1>8 DEF PTKINITNEGOTIATING, wpa_send_eapol, AuthState
  <2>3. PTKCALCNEGOTIATING(s, env).request = "none"
    BY <1>1, <1>2, <1>8 DEF PTKCALCNEGOTIATING, AuthState
  <2>4. PTKINITDONE(s, env).request = "none"
    BY <1>1, <1>2, <1>8 DEF PTKINITDONE, AuthState
  <2>5. s.wpa_ptk_state \in PtkStates BY <1>1 DEF AuthState
  <2>6. PTKSTART(s).request = "none" BY <1>1, <1>6
  <2>7. Switch(s, env).request = "none"
    BY <1>3, <1>5, <1>8, <2>1, <2>2, <2>3, <2>4, <2>5, <2>6 DEF Switch, PtkStates
  <2> QED BY <1>8, <2>7 DEF SM_STEP_WPA_PTK
<1>9. CASE s.request # "none"
  <2>1. s.request \in Requests BY <1>1 DEF AuthState
  <2>2. PTKSTART(NewANonce(s)).request = "none" BY <1>6, <1>7
  <2> QED BY ZenonT(40), <1>3, <1>4, <1>5, <1>9, <2>1, <2>2 DEF SM_STEP_WPA_PTK, Requests
<1> QED BY <1>8, <1>9

\* The step loop ends with no request left.
LEMMA SmStepClearsRequest ==
  ASSUME NEW s, AuthInv(s), s.request # "Init", s.present \/ s.request = "none",
         NEW env
  PROVE  wpa_sm_step(s, env).request = "none"
<1> DEFINE a == SM_STEP_WPA_PTK(s, env)
           b == SM_STEP_WPA_PTK(a, env)
           c == SM_STEP_WPA_PTK(b, env)
<1>1. AuthInv(a) /\ a.request = "none" BY StepKept, StepClearsRequest DEF Kept
<1> HIDE DEF a
<1>2. AuthInv(b) /\ b.request = "none" BY <1>1, StepKept, StepClearsRequest DEF Kept
<1> HIDE DEF b
<1>3. AuthInv(c) /\ c.request = "none" BY <1>2, StepKept, StepClearsRequest DEF Kept
<1> HIDE DEF c
<1>4. SM_STEP_WPA_PTK(c, env).request = "none" BY <1>3, StepClearsRequest
<1> QED BY <1>4 DEF a, b, c, wpa_sm_step

\* Without an accepted frame no step makes a PTK valid.
LEMMA StepKeepsInvalid ==
  ASSUME NEW s, Kept(s), ~s.PTK_valid, NEW env
  PROVE  ~SM_STEP_WPA_PTK(s, env).PTK_valid
<1>1. s \in AuthState /\ ~s.EAPOLKeyReceived /\ ~s.update_snonce
  BY DEF Kept, AuthInv, ReceivedInv
<1>2. ~DISCONNECT(s).PTK_valid
  BY DEF DISCONNECT, wpa_sta_disconnect, wpa_auth_sta_deinit, AuthInit
<1>3. ~INITIALIZE(s).PTK_valid /\ ~DISCONNECTED(s).PTK_valid
      /\ ~AUTHENTICATION(s).PTK_valid /\ ~NewANonce(s).PTK_valid
      /\ ~AUTHENTICATION2(s).PTK_valid /\ ~INITPSK(s).PTK_valid
      /\ ~PTKCALCNEGOTIATING2(s).PTK_valid
  BY <1>1 DEF INITIALIZE, wpa_remove_ptk, DISCONNECTED, AUTHENTICATION,
     NewANonce, AUTHENTICATION2, INITPSK, PTKCALCNEGOTIATING2, AuthState
<1>4. \A n \in AuthState : ~n.PTK_valid => ~PTKSTART(n).PTK_valid
  BY DEF PTKSTART, wpa_send_eapol, AuthState
<1>5. ~PTKINITNEGOTIATING(s).PTK_valid
  BY <1>1 DEF PTKINITNEGOTIATING, wpa_send_eapol, AuthState
<1>6. ~PTKSTART(NewANonce(s)).PTK_valid
  BY <1>3, <1>4, NewANonceKept DEF Kept, AuthInv
<1>7. s.wpa_ptk_state \in PtkStates /\ s.request \in Requests
      /\ s.present \in BOOLEAN
  BY <1>1 DEF AuthState
<1>8. ~PTKSTART(s).PTK_valid BY <1>1, <1>4
<1>9. ~Switch(s, env).PTK_valid
  BY <1>1, <1>2, <1>3, <1>5, <1>7, <1>8 DEF Switch, PtkStates
<1> QED BY <1>2, <1>3, <1>6, <1>7, <1>9 DEF SM_STEP_WPA_PTK, Requests

\* A step loop that starts without a PTK ends without one.
LEMMA SmStepKeepsInvalid ==
  ASSUME NEW s, Kept(s), ~s.PTK_valid, NEW env
  PROVE  ~wpa_sm_step(s, env).PTK_valid
<1> DEFINE a == SM_STEP_WPA_PTK(s, env)
           b == SM_STEP_WPA_PTK(a, env)
           c == SM_STEP_WPA_PTK(b, env)
<1>1. Kept(a) /\ ~a.PTK_valid BY StepKept, StepKeepsInvalid DEF Kept
<1> HIDE DEF a
<1>2. Kept(b) /\ ~b.PTK_valid BY <1>1, StepKept, StepKeepsInvalid DEF Kept
<1> HIDE DEF b
<1>3. Kept(c) /\ ~c.PTK_valid BY <1>2, StepKept, StepKeepsInvalid DEF Kept
<1> HIDE DEF c
<1>4. ~SM_STEP_WPA_PTK(c, env).PTK_valid BY <1>3, StepKeepsInvalid
<1> QED BY <1>4 DEF a, b, c, wpa_sm_step

\* Between two events no request and no accepted frame is left.
Idle(v) == Kept(v) /\ v.request = "none"

\* The step loop as a whole.
LEMMA SmStepIdle ==
  ASSUME NEW s, AuthInv(s), s.request # "Init", s.present \/ s.request = "none",
         NEW env
  PROVE  Idle(wpa_sm_step(s, env))
  BY SmStepKept, SmStepClearsRequest DEF Idle

\* The events of an authentication, and of an association before the machine is
\* told to start.
LEMMA AssocEvent ==
  ASSUME NEW s, Idle(s), s.present, NEW env, NEW event \in {"WPA_AUTH", "WPA_ASSOC"}
  PROVE  LET v == wpa_auth_sm_event(s, event, env)
         IN  Idle(v) /\ ~v.PTK_valid
<1> DEFINE p == wpa_remove_ptk(s)
<1>1. Kept(p) /\ ~p.PTK_valid BY RemovePtk DEF Kept, Idle
<1>2. p.request = "none" BY DEF Idle, Kept, AuthInv, AuthState, wpa_remove_ptk
<1> HIDE DEF p
<1>3. Idle(wpa_sm_step(p, env)) /\ ~wpa_sm_step(p, env).PTK_valid
  BY <1>1, <1>2, SmStepIdle, SmStepKeepsInvalid DEF Kept
<1> QED BY <1>3 DEF p, wpa_auth_sm_event

\* wpa_auth_sm_event()
LEMMA SmEvent ==
  ASSUME NEW s, Idle(s), NEW env, NEW event \in {"WPA_DISASSOC", "WPA_REAUTH"}
  PROVE  Idle(wpa_auth_sm_event(s, event, env))
<1>1. CASE ~s.present BY <1>1 DEF wpa_auth_sm_event
<1>2. CASE s.present
  <2> DEFINE p == wpa_remove_ptk(s)
             d == [p EXCEPT !.request = "DeauthenticationRequest"]
             x == [p EXCEPT !.request = "Disconnect"]
             r == [p EXCEPT !.request = "ReAuthenticationRequest"]
  <2>1. AuthInv(p) /\ ~p.PTK_valid /\ ~p.EAPOLKeyReceived
    BY RemovePtk DEF Kept, Idle
  <2>2. p.present BY <1>2 DEF Idle, Kept, AuthInv, AuthState, wpa_remove_ptk
  <2>3. \A q : wpa_remove_ptk([s EXCEPT !.request = q]) = [p EXCEPT !.request = q]
    BY DEF Idle, Kept, AuthInv, AuthState, wpa_remove_ptk
  <2>4. wpa_auth_sm_event(s, event, env) \in
          {wpa_sm_step(q, env) : q \in {d, x, r}}
    BY <1>2, <2>3 DEF wpa_auth_sm_event, d, x, r
  <2> HIDE DEF p
  <2>5. AuthInv(d) /\ AuthInv(x) /\ AuthInv(r)
    BY <2>1 DEF AuthInv, AuthState, Requests, NonceInv, ANonceFresh, RequestInv,
       ReceivedInv
  <2>6. \A q \in {d, x, r} : q.present /\ q.request # "Init"
    BY <2>1, <2>2 DEF AuthInv, AuthState
  <2> HIDE DEF d, x, r
  <2> QED BY <2>4, <2>5, <2>6, SmStepIdle
<1> QED BY <1>1, <1>2

\* wpa_auth_sta_associated()
LEMMA StaAssociated ==
  ASSUME NEW s, Idle(s), ~s.PTK_valid, NEW env
  PROVE  Idle(wpa_auth_sta_associated(s, env))
<1>1. CASE ~s.present BY <1>1 DEF wpa_auth_sta_associated
<1>2. CASE s.present /\ s.started
  <2> DEFINE n == [s EXCEPT !.replay = 0, !.key_replay = {},
                            !.request = "ReAuthenticationRequest"]
  <2>1. AuthInv(n) /\ n.present /\ n.request # "Init"
    BY <1>2 DEF Idle, Kept, AuthInv, AuthState, Requests, NonceInv, ANonceFresh,
       RequestInv, ReceivedInv
  <2> HIDE DEF n
  <2>2. Idle(wpa_sm_step(n, env)) BY <2>1, SmStepIdle
  <2> QED BY <1>2, <2>2 DEF n, wpa_auth_sta_associated
<1>3. CASE s.present /\ ~s.started
  <2> DEFINE n == [s EXCEPT !.started = TRUE, !.request = "Init"]
             i == SM_STEP_WPA_PTK(n, env)
             r == [i EXCEPT !.request = "AuthenticationRequest"]
  <2>1. AuthInv(n)
    BY DEF Idle, Kept, AuthInv, AuthState, Requests, NonceInv, ANonceFresh,
       RequestInv, ReceivedInv
  <2>2. i = INITIALIZE(n)
    BY ZenonT(40), <1>3 DEF SM_STEP_WPA_PTK, Idle, Kept, AuthInv, AuthState
  <2>3. n.present BY <1>3 DEF Idle, Kept, AuthInv, AuthState
  <2> HIDE DEF n
  <2>4. Kept(i) BY <2>1, StepKept
  <2>5. i.present BY <2>1, <2>2, <2>3 DEF INITIALIZE, wpa_remove_ptk, AuthInv, AuthState
  <2> HIDE DEF i
  <2>6. AuthInv(r) /\ r.present /\ r.request # "Init"
    BY <2>4, <2>5 DEF Kept, AuthInv, AuthState, Requests, NonceInv, ANonceFresh,
       RequestInv, ReceivedInv
  <2> HIDE DEF r
  <2>7. Idle(wpa_sm_step(r, env)) BY <2>6, SmStepIdle
  <2> QED BY <1>3, <2>7 DEF n, i, r, wpa_auth_sta_associated
<1> QED BY <1>1, <1>2, <1>3

\* wpa_request_new_ptk() raises a request.
LEMMA RequestNewPtk ==
  ASSUME NEW s, Idle(s)
  PROVE  LET v == wpa_request_new_ptk(s)
         IN  Kept(v) /\ v.present = s.present /\ v.request # "Init"
             /\ v.wpa_ptk_state = s.wpa_ptk_state /\ ~v.update_snonce
<1> DEFINE d == [s EXCEPT !.request = "Disconnect"]
           p == [s EXCEPT !.request = "PTKRequest", !.PTK_valid = FALSE]
<1>1. s \in AuthState BY DEF Idle, Kept, AuthInv
<1>2. d \in AuthState /\ p \in AuthState BY ZenonT(40), <1>1 DEF AuthState, Requests
<1>3. Kept(d) /\ d.present = s.present /\ d.request = "Disconnect"
      /\ d.wpa_ptk_state = s.wpa_ptk_state /\ ~d.update_snonce
  BY <1>1, <1>2 DEF Idle, Kept, AuthInv, AuthState, NonceInv, ANonceFresh,
     RequestInv, ReceivedInv
<1>4. Kept(p) /\ p.present = s.present /\ p.request = "PTKRequest"
      /\ p.wpa_ptk_state = s.wpa_ptk_state /\ ~p.update_snonce
  BY <1>1, <1>2 DEF Idle, Kept, AuthInv, AuthState, NonceInv, ANonceFresh,
     RequestInv, ReceivedInv
<1>5. wpa_request_new_ptk(s) \in {d, p} BY DEF wpa_request_new_ptk
<1> HIDE DEF d, p
<1> QED BY <1>3, <1>4, <1>5

\* The PTK lifetime ends.
LEMMA RekeyPtk ==
  ASSUME NEW s, Idle(s), s.present, NEW env
  PROVE  Idle(wpa_rekey_ptk(s, env))
<1> DEFINE n == [s EXCEPT !.rekey_timer = FALSE]
           r == wpa_request_new_ptk(n)
<1>1. Idle(n) /\ n.present
  BY ZenonT(40) DEF Idle, Kept, AuthInv, AuthState, NonceInv, ANonceFresh, RequestInv,
     ReceivedInv
<1> HIDE DEF n
<1>2. AuthInv(r) /\ r.present /\ r.request # "Init"
  BY <1>1, RequestNewPtk DEF Kept
<1> HIDE DEF r
<1>3. Idle(wpa_sm_step(r, env)) BY <1>2, SmStepIdle
<1> QED BY <1>3 DEF n, r, wpa_rekey_ptk

\* A retransmission timeout.
LEMMA EapolTimeout ==
  ASSUME NEW s, Idle(s), s.timers > 0, NEW env
  PROVE  Idle(wpa_send_eapol_timeout(s, env))
<1> DEFINE t == s.timers - 1
           n == [s EXCEPT !.timers = t, !.pending_1_of_4_timeout = FALSE,
                          !.TimeoutEvt = TRUE]
<1>1. t \in Nat BY DEF Idle, Kept, AuthInv, AuthState
<1> HIDE DEF t
<1>2. AuthInv(n) /\ n.request = "none"
  BY ZenonT(40), <1>1 DEF Idle, Kept, AuthInv, AuthState, NonceInv, ANonceFresh, RequestInv,
     ReceivedInv
<1> HIDE DEF n
<1>3. Idle(wpa_sm_step(n, env)) BY <1>2, SmStepIdle
<1> QED BY <1>3 DEF n, t, wpa_send_eapol_timeout

\* The driver's report of an acknowledged frame changes the timeouts only.
LEMMA TxStatus ==
  ASSUME NEW s, Idle(s)
  PROVE  Idle(wpa_auth_eapol_key_tx_status(s))
  BY DEF wpa_auth_eapol_key_tx_status, Idle, Kept, AuthInv, AuthState, NonceInv,
     ANonceFresh, RequestInv, ReceivedInv

\* The frame bookkeeping of wpa_receive(), for a message 2/4 or 4/4: the machine
\* is in a state that uses the frame at once, and an alternative SNonce leads to
\* a PTK of this handshake's ANonce.
LEMMA ReceiveAnswer ==
  ASSUME NEW s, Idle(s), NEW m \in SuppMsg, Accepts(s, m), m.type # "Request"
  PROVE  LET n == [MarkReceived(s, m) EXCEPT
                     !.rx_mic = m.mic,
                     !.EAPOLKeyReceived = m.type # "Request",
                     !.SNonce = IF m.type = "2/4" THEN m.nonce ELSE @]
         IN  AuthInv(n) /\ n.request = "none"
<1> DEFINE upd == SNonceUpdate(s, m)
           chk == MicChecked(s, m)
           alt == AltMicOk(s, m) /\ m.mic # s.PTK
           prev == IF m.type = "2/4" THEN {k \in s.key_replay : k > m.ctr} ELSE {}
           asn == IF upd THEN s.SNonce ELSE s.alt_SNonce
           asv == (s.alt_snonce_valid \/ upd) /\ ~alt
           arc == IF upd THEN s.replay ELSE s.alt_replay_counter
           tim == IF chk THEN 0 ELSE s.timers
           pen == s.pending_1_of_4_timeout /\ ~chk
           ptk == IF alt THEN m.mic ELSE s.PTK
           sno == IF alt THEN s.alt_SNonce ELSE s.SNonce
           sn == IF m.type = "2/4" THEN m.nonce ELSE sno
           ups == s.update_snonce \/ upd
           i == [s EXCEPT !.update_snonce = ups, !.alt_SNonce = asn,
                          !.alt_snonce_valid = asv, !.alt_replay_counter = arc,
                          !.MICVerified = chk, !.timers = tim,
                          !.pending_1_of_4_timeout = pen, !.PTK = ptk,
                          !.SNonce = sno, !.key_replay = {}]
           r == [i EXCEPT !.prev_key_replay = prev]
           n == [r EXCEPT !.rx_mic = m.mic, !.EAPOLKeyReceived = TRUE, !.SNonce = sn]
<1>1. /\ s \in AuthState /\ ~s.EAPOLKeyReceived /\ ~s.update_snonce
      /\ s.request = "none"
      /\ s.wpa_ptk_state = "PTKCALCNEGOTIATING" => s.key_replay = {}
  BY DEF Idle, Kept, AuthInv, ReceivedInv
<1>2. s.present /\ s.wpa_ptk_state \in {"PTKSTART", "PTKINITNEGOTIATING"}
  BY <1>1 DEF Accepts, wpa_auth_valid_counter, ExpectedInState, SNonceUpdate,
     AltMsg4, SuppMsg
<1>3. s.wpa_ptk_state = "PTKINITNEGOTIATING" => ups \/ (chk /\ s.PTK_valid)
  BY <1>1 DEF Accepts, ExpectedInState, SNonceUpdate, MicChecked, SuppMsg
<1>4. alt => ANonceOf(m.mic) = s.ANonce
  BY DEF AltMicOk, DerivePTK, ANonceOf
<1>5. /\ prev \in SUBSET Nat /\ asn \in Nat /\ arc \in Nat /\ tim \in Nat
      /\ ptk \in PTKs /\ sn \in Nat /\ sno \in Nat /\ m.mic \in PTKs
  BY <1>1 DEF AuthState, SuppMsg
<1>6. asv \in BOOLEAN /\ ups \in BOOLEAN /\ chk \in BOOLEAN /\ pen \in BOOLEAN
  BY <1>1 DEF AuthState, MicChecked, SNonceUpdate
<1>7. s.PTK_valid => ANonceOf(ptk) = s.ANonce
  BY <1>4 DEF Idle, Kept, AuthInv, NonceInv
<1>8. n = [MarkReceived(s, m) EXCEPT
             !.rx_mic = m.mic,
             !.EAPOLKeyReceived = m.type # "Request",
             !.SNonce = IF m.type = "2/4" THEN m.nonce ELSE @]
  <2>1. MarkReceived(s, m) = r
    BY DEF MarkReceived, TimersLeft, CountersLeft, AltUsed, PtkOf
  <2>2. [r EXCEPT !.rx_mic = m.mic, !.EAPOLKeyReceived = m.type # "Request",
                  !.SNonce = IF m.type = "2/4" THEN m.nonce ELSE r.SNonce]
          = [r EXCEPT !.rx_mic = m.mic, !.EAPOLKeyReceived = TRUE, !.SNonce = sn]
    <3>1. r.SNonce = sno BY <1>1 DEF AuthState
    <3>2. (m.type # "Request") = TRUE OBVIOUS
    <3> HIDE DEF r
    <3> QED BY <3>1, <3>2
  <2> QED BY <2>1, <2>2
<1> HIDE DEF upd, chk, alt, prev, asn, asv, arc, tim, pen, ptk, sno, sn, ups
<1>9. i \in AuthState
  <2> DEFINE j == [s EXCEPT !.update_snonce = ups, !.alt_SNonce = asn,
                            !.alt_snonce_valid = asv, !.alt_replay_counter = arc,
                            !.MICVerified = chk]
  <2>1. j \in AuthState BY <1>1, <1>5, <1>6 DEF AuthState
  <2>2. i = [j EXCEPT !.timers = tim, !.pending_1_of_4_timeout = pen,
                      !.PTK = ptk, !.SNonce = sno, !.key_replay = {}]
    OBVIOUS
  <2> HIDE DEF i, j
  <2> QED BY ZenonT(40), <1>5, <1>6, <2>1, <2>2 DEF AuthState
<1>10. /\ i.present = s.present /\ i.wpa_ptk_state = s.wpa_ptk_state
       /\ i.request = s.request /\ i.reinstalled = s.reinstalled
       /\ i.installs = s.installs /\ i.nonces = s.nonces /\ i.ANonce = s.ANonce
       /\ i.PTK_valid = s.PTK_valid /\ i.PTK = ptk /\ i.key_replay = {}
       /\ i.update_snonce = ups /\ i.MICVerified = chk
  BY <1>1 DEF AuthState
<1> HIDE DEF i
<1>11. n \in AuthState BY <1>5, <1>9 DEF AuthState
<1>12. /\ n.present = i.present /\ n.wpa_ptk_state = i.wpa_ptk_state
       /\ n.request = i.request /\ n.reinstalled = i.reinstalled
       /\ n.installs = i.installs /\ n.nonces = i.nonces /\ n.ANonce = i.ANonce
       /\ n.PTK_valid = i.PTK_valid /\ n.PTK = i.PTK /\ n.key_replay = {}
       /\ n.update_snonce = i.update_snonce /\ n.MICVerified = i.MICVerified
       /\ n.EAPOLKeyReceived
  BY <1>9, <1>10 DEF AuthState
<1> HIDE DEF n
<1>13. ~n.reinstalled /\ NonceInv(n) /\ RequestInv(n)
  BY <1>1, <1>2, <1>7, <1>10, <1>12 DEF Idle, Kept, AuthInv, NonceInv,
     ANonceFresh, RequestInv
<1>14. ReceivedInv(n)
  BY <1>1, <1>2, <1>3, <1>10, <1>12 DEF ReceivedInv
<1>15. AuthInv(n) /\ n.request = "none"
  BY <1>1, <1>10, <1>11, <1>12, <1>13, <1>14 DEF AuthInv
<1> QED BY <1>8, <1>15 DEF n

\* An EAPOL-Key Request is accepted only with a valid MIC, and outside of a
\* handshake.
LEMMA ReceiveRequest ==
  ASSUME NEW s, Idle(s), NEW m \in SuppMsg, Accepts(s, m), m.type = "Request"
  PROVE  LET n == [MarkReceived(s, m) EXCEPT
                     !.rx_mic = m.mic,
                     !.EAPOLKeyReceived = m.type # "Request",
                     !.SNonce = IF m.type = "2/4" THEN m.nonce ELSE @]
         IN  AuthInv(n) /\ n.present /\ n.request # "Init"
<1> DEFINE tim == IF MicChecked(s, m) THEN 0 ELSE s.timers
           ctr == m.ctr + 1
           pen == s.pending_1_of_4_timeout /\ ~MicChecked(s, m)
           i == [s EXCEPT !.MICVerified = TRUE, !.timers = tim,
                          !.pending_1_of_4_timeout = pen, !.req_replay_counter = ctr]
           r == wpa_request_new_ptk(i)
<1>1. s \in AuthState /\ s.present /\ MicChecked(s, m) /\ ~s.EAPOLKeyReceived
      /\ ~s.update_snonce
  BY DEF Idle, Kept, AuthInv, ReceivedInv, Accepts
<1>2. tim \in Nat /\ ctr \in Nat /\ m.mic \in PTKs /\ pen \in BOOLEAN
  BY <1>1 DEF AuthState, SuppMsg
<1>3. ~SNonceUpdate(s, m) /\ ~AltMicOk(s, m)
  BY DEF SNonceUpdate, AltMicOk
<1>4. MarkReceived(s, m) = r
  <2> DEFINE upd == SNonceUpdate(s, m)
             alt == AltMicOk(s, m) /\ m.mic # s.PTK
             ups == s.update_snonce \/ upd
             asn == IF upd THEN s.SNonce ELSE s.alt_SNonce
             asv == (s.alt_snonce_valid \/ upd) /\ ~alt
             arc == IF upd THEN s.replay ELSE s.alt_replay_counter
             chk == MicChecked(s, m)
             ptk == IF alt THEN m.mic ELSE s.PTK
             sno == IF alt THEN s.alt_SNonce ELSE s.SNonce
             q == [s EXCEPT !.update_snonce = ups, !.alt_SNonce = asn,
                            !.alt_snonce_valid = asv, !.alt_replay_counter = arc,
                            !.MICVerified = chk, !.timers = tim,
                            !.pending_1_of_4_timeout = pen, !.PTK = ptk,
                            !.SNonce = sno, !.key_replay = s.key_replay]
             w == [q EXCEPT !.req_replay_counter = ctr]
  <2>1. MarkReceived(s, m) = wpa_request_new_ptk(w)
    BY DEF MarkReceived, TimersLeft, CountersLeft, AltUsed, PtkOf
  <2>2. asn = s.alt_SNonce /\ arc = s.alt_replay_counter /\ ptk = s.PTK
        /\ sno = s.SNonce
    BY <1>3
  <2>3. ups = s.update_snonce /\ asv = s.alt_snonce_valid /\ chk = TRUE
    BY <1>1, <1>3 DEF AuthState, MicChecked
  <2> HIDE DEF ups, asn, asv, arc, chk, ptk, sno, tim, pen, ctr
  <2>4. w = i
    BY ZenonT(40), <1>1, <2>2, <2>3 DEF AuthState
  <2> QED BY <2>1, <2>4
<1> HIDE DEF tim, pen, ctr
<1>5. Idle(i) /\ i.present
  BY ZenonT(40), <1>1, <1>2 DEF Idle, Kept, AuthInv, AuthState, NonceInv, ANonceFresh,
     RequestInv, ReceivedInv
<1> HIDE DEF i
<1>6. Kept(r) /\ r.present /\ r.request # "Init"
  BY <1>5, RequestNewPtk
<1>7. [MarkReceived(s, m) EXCEPT
         !.rx_mic = m.mic, !.EAPOLKeyReceived = m.type # "Request",
         !.SNonce = IF m.type = "2/4" THEN m.nonce ELSE @]
        = [r EXCEPT !.rx_mic = m.mic, !.EAPOLKeyReceived = FALSE]
  BY <1>4, <1>6 DEF Kept, AuthInv, AuthState
<1> HIDE DEF r
<1>8. AuthInv([r EXCEPT !.rx_mic = m.mic, !.EAPOLKeyReceived = FALSE])
  BY ZenonT(40), <1>2, <1>6 DEF Kept, AuthInv, AuthState, NonceInv, ANonceFresh,
     RequestInv, ReceivedInv
<1> QED BY ZenonT(40), <1>6, <1>7, <1>8 DEF Kept, AuthInv, AuthState

\* wpa_receive() of any accepted frame.
LEMMA Receive ==
  ASSUME NEW s, Idle(s), NEW m \in SuppMsg, Accepts(s, m), NEW env
  PROVE  Idle(wpa_receive(s, m, env))
<1> DEFINE n == [MarkReceived(s, m) EXCEPT
                   !.rx_mic = m.mic,
                   !.EAPOLKeyReceived = m.type # "Request",
                   !.SNonce = IF m.type = "2/4" THEN m.nonce ELSE @]
<1>1. AuthInv(n) /\ n.request # "Init" /\ (n.present \/ n.request = "none")
  BY ReceiveAnswer, ReceiveRequest
<1> HIDE DEF n
<1>2. Idle(wpa_sm_step(n, env)) BY <1>1, SmStepIdle
<1> QED BY <1>2 DEF n, wpa_receive

-----------------------------------------------------------------------------
(***************************************************************************)
(* What one round of the authenticator's step loop does to the fields of   *)
(* the state machine that its promises are about: the frames, the keys,    *)
(* the timeouts and the frame being processed.                             *)
(***************************************************************************)

SameKey(s, v) ==
  v.tk = s.tk /\ v.pairwise_set = s.pairwise_set /\ v.installs = s.installs

SameFrames(s, v) ==
  /\ v.tx = s.tx /\ v.replay = s.replay
  /\ v.key_replay = s.key_replay /\ v.prev_key_replay = s.prev_key_replay

SameAnswer(s, v) ==
  /\ v.EAPOLKeyReceived = s.EAPOLKeyReceived /\ v.MICVerified = s.MICVerified
  /\ v.rx_mic = s.rx_mic /\ v.update_snonce = s.update_snonce

SameNonces(s, v) == v.nonces = s.nonces /\ v.ANonce = s.ANonce

\* The state machine is freed: only history is left.
Gone(s, v) ==
  /\ ~v.present /\ v.request = "none" /\ v.wpa_ptk_state = "INITIALIZE"
  /\ v.tk = NoPTK /\ ~v.pairwise_set /\ v.installs = s.installs
  /\ v.nonces = s.nonces
  /\ v.tx = s.tx /\ v.replay = 0 /\ v.key_replay = {} /\ v.prev_key_replay = {}
  /\ ~v.EAPOLKeyReceived

\* The machine goes to a state that only changes the course of the handshake.
Enters(s, v, state) ==
  /\ v.wpa_ptk_state = state /\ v.present = s.present /\ v.request = "none"
  /\ SameKey(s, v) /\ SameFrames(s, v) /\ SameAnswer(s, v)

Initialized(s, v) ==
  /\ v.wpa_ptk_state = "INITIALIZE" /\ v.present = s.present
  /\ v.request = s.request
  /\ v.tk = NoPTK /\ ~v.pairwise_set /\ v.installs = s.installs
  /\ SameFrames(s, v) /\ SameAnswer(s, v)

\* A frame goes out: a new counter is acceptable and a timeout registered.
Sends(s, v, type, mic) ==
  LET c == s.replay + 1 IN
  /\ v.replay = c /\ v.timers = s.timers + 1
  /\ v.key_replay = {c} \cup {k \in s.key_replay : k + RSNA_MAX_EAPOL_RETRIES > c}
  /\ v.prev_key_replay = s.prev_key_replay
  /\ s.tx \subseteq v.tx
  /\ \A m \in v.tx \ s.tx : m.type = type /\ m.mic = mic

\* PTKSTART, entered with the count of attempts at n.
Started(s, v, n) ==
  /\ v.wpa_ptk_state = "PTKSTART" /\ v.present = s.present /\ v.request = "none"
  /\ ~v.TimeoutEvt /\ v.TimeoutCtr = n + 1
  /\ SameKey(s, v) /\ SameAnswer(s, v)
  /\ IF n + 1 > wpa_pairwise_update_count THEN SameFrames(s, v)
     ELSE Sends(s, v, "1/4", NoPTK)

\* PTKCALCNEGOTIATING: the MIC is wrong, or the PTK is the one it proves.
Calculated(s, v) ==
  /\ v.wpa_ptk_state = "PTKCALCNEGOTIATING" /\ v.present = s.present
  /\ v.request = s.request /\ v.TimeoutEvt = s.TimeoutEvt
  /\ ~v.EAPOLKeyReceived /\ ~v.update_snonce
  /\ SameKey(s, v) /\ SameFrames(s, v) /\ SameNonces(s, v)
  /\ \/ /\ v.MICVerified = s.MICVerified /\ v.timers = s.timers /\ v.PTK = s.PTK
        /\ v.rx_mic = s.rx_mic
     \/ v.MICVerified /\ v.PTK = s.rx_mic

Negotiates(s, v) ==
  /\ v.wpa_ptk_state = "PTKINITNEGOTIATING" /\ v.present = s.present
  /\ v.request = s.request
  /\ ~v.TimeoutEvt /\ v.TimeoutCtr = s.TimeoutCtr + 1
  /\ SameKey(s, v) /\ SameAnswer(s, v) /\ v.PTK = s.PTK
  /\ IF RetryLimitReached(v) THEN SameFrames(s, v)
     ELSE Sends(s, v, "3/4", s.PTK)

Installed(s, v) ==
  /\ v.wpa_ptk_state = "PTKINITDONE" /\ v.present = s.present
  /\ v.request = s.request
  /\ ~v.EAPOLKeyReceived /\ v.update_snonce = s.update_snonce
  /\ v.tk = s.PTK /\ v.pairwise_set /\ v.installs = s.installs \cup {s.PTK}
  /\ SameFrames(s, v) /\ SameNonces(s, v)
-----------------------------------------------------------------------------
\* wpa_free_sta_sm()
LEMMA GoneFields ==
  ASSUME NEW s
  PROVE  Gone(s, wpa_auth_sta_deinit(s))
  BY DEF Gone, wpa_auth_sta_deinit, AuthInit

\* The states that only change the course of the handshake.
LEMMA CourseFields ==
  ASSUME NEW s \in AuthState
  PROVE  /\ Initialized(s, INITIALIZE(s))
         /\ Enters(s, DISCONNECTED(s), "DISCONNECTED")
         /\ Enters(s, AUTHENTICATION(s), "AUTHENTICATION")
         /\ Enters(s, AUTHENTICATION2(s), "AUTHENTICATION2")
         /\ AUTHENTICATION2(s).TimeoutCtr = 0
         /\ s.request = "none" => Enters(s, INITPSK(s), "INITPSK")
         /\ INITPSK(s).TimeoutCtr = s.TimeoutCtr
         /\ s.request = "none" =>
              Enters(s, PTKCALCNEGOTIATING2(s), "PTKCALCNEGOTIATING2")
         /\ PTKCALCNEGOTIATING2(s).TimeoutCtr = 0
         /\ PTKCALCNEGOTIATING2(s).PTK = s.PTK
<1> USE DEF Enters, SameKey, SameFrames, SameAnswer, AuthState
<1>1. Initialized(s, INITIALIZE(s))
  BY DEF Initialized, INITIALIZE, wpa_remove_ptk
<1>2. Enters(s, DISCONNECTED(s), "DISCONNECTED") BY DEF DISCONNECTED
<1>3. Enters(s, AUTHENTICATION(s), "AUTHENTICATION") BY DEF AUTHENTICATION
<1>4. /\ Enters(s, AUTHENTICATION2(s), "AUTHENTICATION2")
      /\ AUTHENTICATION2(s).TimeoutCtr = 0
  BY DEF AUTHENTICATION2, NewANonce
<1>5. /\ s.request = "none" => Enters(s, INITPSK(s), "INITPSK")
      /\ INITPSK(s).TimeoutCtr = s.TimeoutCtr
  BY DEF INITPSK
<1>6. /\ s.request = "none" =>
           Enters(s, PTKCALCNEGOTIATING2(s), "PTKCALCNEGOTIATING2")
      /\ PTKCALCNEGOTIATING2(s).TimeoutCtr = 0
      /\ PTKCALCNEGOTIATING2(s).PTK = s.PTK
  BY DEF PTKCALCNEGOTIATING2
<1> QED BY <1>1, <1>2, <1>3, <1>4, <1>5, <1>6

\* wpa_send_eapol()
LEMMA SendFields ==
  ASSUME NEW s \in AuthState, NEW type, NEW mic
  PROVE  LET v == wpa_send_eapol(s, type, mic) IN
         /\ Sends(s, v, type, mic) /\ SameKey(s, v) /\ SameAnswer(s, v)
         /\ v.PTK = s.PTK /\ v.present = s.present /\ v.request = s.request
         /\ v.wpa_ptk_state = s.wpa_ptk_state
         /\ v.TimeoutEvt = s.TimeoutEvt /\ v.TimeoutCtr = s.TimeoutCtr
  BY DEF wpa_send_eapol, Sends, SameKey, SameAnswer, AuthState

\* SM_STATE(WPA_PTK, PTKSTART)
LEMMA StartFields ==
  ASSUME NEW s \in AuthState
  PROVE  Started(s, PTKSTART(s), s.TimeoutCtr)
<1> DEFINE n == [s EXCEPT !.wpa_ptk_state = "PTKSTART", !.request = "none",
                      !.TimeoutEvt = FALSE, !.alt_snonce_valid = FALSE,
                      !.ptkstart_without_success = @ + 1, !.TimeoutCtr = @ + 1]
           v == wpa_send_eapol(n, "1/4", NoPTK)
<1>1. n \in AuthState
  <2>1. s.ptkstart_without_success + 1 \in Nat /\ s.TimeoutCtr + 1 \in Nat
    BY DEF AuthState
  <2> QED BY ZenonT(40), <2>1 DEF AuthState, PtkStates, Requests
<1>2. /\ n.wpa_ptk_state = "PTKSTART" /\ n.request = "none" /\ ~n.TimeoutEvt
      /\ n.TimeoutCtr = s.TimeoutCtr + 1 /\ n.present = s.present
      /\ SameKey(s, n) /\ SameFrames(s, n) /\ SameAnswer(s, n)
      /\ n.timers = s.timers
  BY DEF AuthState, SameKey, SameFrames, SameAnswer
<1>3. PTKSTART(s) = IF n.TimeoutCtr > wpa_pairwise_update_count THEN n ELSE v
  BY DEF PTKSTART
<1> HIDE DEF n
<1>4. /\ Sends(n, v, "1/4", NoPTK) /\ SameKey(n, v) /\ SameAnswer(n, v)
      /\ v.present = n.present /\ v.request = n.request
      /\ v.wpa_ptk_state = n.wpa_ptk_state
      /\ v.TimeoutEvt = n.TimeoutEvt /\ v.TimeoutCtr = n.TimeoutCtr
  BY <1>1, SendFields
<1> HIDE DEF v
<1> QED BY <1>2, <1>3, <1>4 DEF Started, Sends, SameKey, SameFrames, SameAnswer

\* SM_STATE(WPA_PTK, PTKCALCNEGOTIATING)
LEMMA CalcFields ==
  ASSUME NEW s \in AuthState, NEW env
  PROVE  LET v == PTKCALCNEGOTIATING(s, env) IN Calculated(s, v) \/ Gone(s, v)
<1> DEFINE ptk == DerivePTK(ApPMK, s.ANonce, s.SNonce)
           n == [s EXCEPT !.wpa_ptk_state = "PTKCALCNEGOTIATING",
                          !.EAPOLKeyReceived = FALSE, !.update_snonce = FALSE]
           w == [n EXCEPT !.timers = 0, !.pending_1_of_4_timeout = FALSE,
                          !.MICVerified = TRUE, !.PTK = ptk, !.PTK_valid = TRUE]
<1>1. Calculated(s, n)
  BY DEF Calculated, SameKey, SameFrames, SameNonces, AuthState
<1>2. Gone(s, wpa_sta_disconnect(n))
  <2>1. n.tx = s.tx /\ n.installs = s.installs /\ n.nonces = s.nonces
    BY DEF AuthState
  <2> HIDE DEF n
  <2> QED BY <2>1, GoneFields DEF wpa_sta_disconnect, Gone
<1>3. s.rx_mic = ptk => Calculated(s, w)
  BY DEF Calculated, SameKey, SameFrames, SameNonces, AuthState
<1>4. PTKCALCNEGOTIATING(s, env) =
        IF s.rx_mic # ptk THEN n ELSE IF ~env.ie_match THEN wpa_sta_disconnect(n)
        ELSE w
  BY DEF PTKCALCNEGOTIATING
<1> HIDE DEF n, w, ptk
<1> QED BY <1>1, <1>2, <1>3, <1>4

\* SM_STATE(WPA_PTK, PTKINITNEGOTIATING)
LEMMA NegotiateFields ==
  ASSUME NEW s \in AuthState
  PROVE  Negotiates(s, PTKINITNEGOTIATING(s))
<1> DEFINE n == [s EXCEPT !.wpa_ptk_state = "PTKINITNEGOTIATING",
                          !.TimeoutEvt = FALSE, !.TimeoutCtr = @ + 1]
           v == wpa_send_eapol(n, "3/4", n.PTK)
<1>1. n \in AuthState
  <2>1. s.TimeoutCtr + 1 \in Nat BY DEF AuthState
  <2> QED BY <2>1 DEF AuthState, PtkStates
<1>2. /\ n.wpa_ptk_state = "PTKINITNEGOTIATING" /\ n.request = s.request
      /\ ~n.TimeoutEvt /\ n.PTK = s.PTK
      /\ n.TimeoutCtr = s.TimeoutCtr + 1 /\ n.present = s.present
      /\ SameKey(s, n) /\ SameFrames(s, n) /\ SameAnswer(s, n)
      /\ n.timers = s.timers
  BY DEF AuthState, SameKey, SameFrames, SameAnswer
<1>3. PTKINITNEGOTIATING(s) = IF RetryLimitReached(n) THEN n ELSE v
  BY DEF PTKINITNEGOTIATING
<1> HIDE DEF n
<1>4. /\ Sends(n, v, "3/4", n.PTK) /\ SameKey(n, v) /\ SameAnswer(n, v)
      /\ v.present = n.present /\ v.request = n.request
      /\ v.wpa_ptk_state = n.wpa_ptk_state /\ v.PTK = n.PTK
      /\ v.TimeoutEvt = n.TimeoutEvt /\ v.TimeoutCtr = n.TimeoutCtr
  BY <1>1, SendFields
<1>5. RetryLimitReached(v) <=> RetryLimitReached(n)
  BY <1>4 DEF RetryLimitReached
<1> HIDE DEF v
<1> QED BY <1>2, <1>3, <1>4, <1>5
        DEF Negotiates, Sends, SameKey, SameFrames, SameAnswer

\* SM_STATE(WPA_PTK, PTKINITDONE)
LEMMA DoneFields ==
  ASSUME NEW s \in AuthState, NEW env
  PROVE  LET v == PTKINITDONE(s, env) IN Installed(s, v) \/ Gone(s, v)
<1> DEFINE n == [s EXCEPT !.wpa_ptk_state = "PTKINITDONE",
                          !.EAPOLKeyReceived = FALSE]
           w == [n EXCEPT !.pairwise_set = TRUE, !.tk = s.PTK,
                          !.installs = @ \cup {s.PTK},
                          !.reinstalled = @ \/ s.PTK \in s.installs,
                          !.rekey_timer = wpa_ptk_rekey, !.authorized = TRUE,
                          !.ptkstart_without_success = 0]
<1>1. Gone(s, wpa_sta_disconnect(n))
  <2>1. n.tx = s.tx /\ n.installs = s.installs /\ n.nonces = s.nonces
    BY DEF AuthState
  <2> HIDE DEF n
  <2> QED BY <2>1, GoneFields DEF wpa_sta_disconnect, Gone
<1>2. Installed(s, w)
  BY DEF Installed, SameFrames, SameNonces, AuthState
<1>3. PTKINITDONE(s, env) = IF ~env.set_key THEN wpa_sta_disconnect(n) ELSE w
  BY DEF PTKINITDONE
<1> HIDE DEF n, w
<1> QED BY <1>1, <1>2, <1>3
-----------------------------------------------------------------------------
(* One round of the step loop. *)

ByRequest(s, v) ==
  \/ s.request = "Init" /\ Initialized(s, v)
  \/ s.request = "Disconnect" /\ Gone(s, v)
  \/ s.request = "DeauthenticationRequest" /\ Enters(s, v, "DISCONNECTED")
  \/ s.request = "AuthenticationRequest" /\ Enters(s, v, "AUTHENTICATION")
  \/ /\ s.request = "ReAuthenticationRequest"
     /\ Enters(s, v, "AUTHENTICATION2") /\ v.TimeoutCtr = 0
  \/ s.request = "PTKRequest" /\ Started(s, v, 0)

\* The states that wait for an event, and what ends their waiting.
FromPtkStart(s, v) ==
  IF s.EAPOLKeyReceived THEN Calculated(s, v) \/ Gone(s, v)
  ELSE IF s.TimeoutCtr > wpa_pairwise_update_count THEN Gone(s, v)
  ELSE IF s.TimeoutEvt THEN Started(s, v, s.TimeoutCtr) ELSE v = s

FromCalcNegotiating(s, v) ==
  IF s.MICVerified
  THEN /\ Enters(s, v, "PTKCALCNEGOTIATING2")
       /\ v.TimeoutCtr = 0 /\ v.PTK = s.PTK
  ELSE IF s.TimeoutEvt THEN Started(s, v, s.TimeoutCtr) ELSE v = s

FromInitNegotiating(s, v) ==
  IF s.update_snonce THEN Calculated(s, v) \/ Gone(s, v)
  ELSE IF s.EAPOLKeyReceived THEN Installed(s, v) \/ Gone(s, v)
  ELSE IF RetryLimitReached(s) THEN Gone(s, v)
  ELSE IF s.TimeoutEvt THEN Negotiates(s, v) ELSE v = s

ByState(s, v) ==
  \/ s.wpa_ptk_state \in {"INITIALIZE", "PTKINITDONE"} /\ v = s
  \/ s.wpa_ptk_state = "DISCONNECTED" /\ Initialized(s, v)
  \/ /\ s.wpa_ptk_state = "AUTHENTICATION"
     /\ Enters(s, v, "AUTHENTICATION2") /\ v.TimeoutCtr = 0
  \/ /\ s.wpa_ptk_state = "AUTHENTICATION2"
     /\ Enters(s, v, "INITPSK") /\ v.TimeoutCtr = s.TimeoutCtr
  \/ s.wpa_ptk_state = "INITPSK" /\ Started(s, v, s.TimeoutCtr)
  \/ s.wpa_ptk_state = "PTKSTART" /\ FromPtkStart(s, v)
  \/ s.wpa_ptk_state = "PTKCALCNEGOTIATING" /\ FromCalcNegotiating(s, v)
  \/ s.wpa_ptk_state = "PTKCALCNEGOTIATING2" /\ Negotiates(s, v)
  \/ s.wpa_ptk_state = "PTKINITNEGOTIATING" /\ FromInitNegotiating(s, v)

Stepped(s, v) ==
  IF ~s.present THEN v = s
  ELSE IF s.request # "none" THEN ByRequest(s, v) ELSE ByState(s, v)

\* The switch of SM_STEP(WPA_PTK), field by field.
LEMMA SwitchFields ==
  ASSUME NEW s, AuthInv(s), s.request = "none", NEW env
  PROVE  ByState(s, Switch(s, env))
<1> DEFINE v == Switch(s, env)
<1>1. s \in AuthState /\ s.wpa_ptk_state \in PtkStates
  BY DEF AuthInv, AuthState
<1>2. /\ s.EAPOLKeyReceived =>
           s.wpa_ptk_state \in {"PTKSTART", "PTKINITNEGOTIATING"}
      /\ s.EAPOLKeyReceived /\ s.wpa_ptk_state = "PTKINITNEGOTIATING" =>
           s.update_snonce \/ s.MICVerified
      /\ s.update_snonce => s.EAPOLKeyReceived
  BY DEF AuthInv, ReceivedInv
<1>3. Gone(s, DISCONNECT(s)) BY GoneFields DEF DISCONNECT, wpa_sta_disconnect
<1>4. CASE s.wpa_ptk_state \in {"INITIALIZE", "PTKINITDONE"}
  BY <1>4 DEF Switch, ByState
<1>5. CASE s.wpa_ptk_state \in {"DISCONNECTED", "AUTHENTICATION", "AUTHENTICATION2"}
  BY <1>1, <1>5, CourseFields DEF Switch, ByState
<1>6. CASE s.wpa_ptk_state = "INITPSK"
  BY <1>1, <1>6, StartFields DEF Switch, ByState
<1>7. CASE s.wpa_ptk_state = "PTKSTART"
  <2>1. v = IF s.EAPOLKeyReceived THEN PTKCALCNEGOTIATING(s, env)
            ELSE IF s.TimeoutCtr > wpa_pairwise_update_count THEN DISCONNECT(s)
            ELSE IF s.TimeoutEvt THEN PTKSTART(s) ELSE s
    BY <1>7 DEF Switch
  <2>2. FromPtkStart(s, v)
    BY <1>1, <1>3, <2>1, StartFields, CalcFields DEF FromPtkStart
  <2> QED BY <1>7, <2>2 DEF ByState
<1>8. CASE s.wpa_ptk_state = "PTKCALCNEGOTIATING"
  <2>1. v = IF s.MICVerified THEN PTKCALCNEGOTIATING2(s)
            ELSE IF s.TimeoutEvt THEN PTKSTART(s) ELSE s
    BY <1>2, <1>8 DEF Switch
  <2>2. FromCalcNegotiating(s, v)
    BY <1>1, <2>1, StartFields, CourseFields DEF FromCalcNegotiating
  <2> QED BY <1>8, <2>2 DEF ByState
<1>9. CASE s.wpa_ptk_state = "PTKCALCNEGOTIATING2"
  BY <1>1, <1>9, NegotiateFields DEF Switch, ByState
<1>10. CASE s.wpa_ptk_state = "PTKINITNEGOTIATING"
  <2>1. v = IF s.update_snonce THEN PTKCALCNEGOTIATING(s, env)
            ELSE IF s.EAPOLKeyReceived THEN PTKINITDONE(s, env)
            ELSE IF RetryLimitReached(s) THEN DISCONNECT(s)
            ELSE IF s.TimeoutEvt THEN PTKINITNEGOTIATING(s) ELSE s
    BY <1>2, <1>10 DEF Switch
  <2>2. FromInitNegotiating(s, v)
    BY <1>1, <1>3, <2>1, NegotiateFields, CalcFields, DoneFields
       DEF FromInitNegotiating
  <2> QED BY <1>10, <2>2 DEF ByState
<1> QED BY <1>1, <1>4, <1>5, <1>6, <1>7, <1>8, <1>9, <1>10 DEF PtkStates

\* SM_STEP(WPA_PTK), field by field.
LEMMA StepFields ==
  ASSUME NEW s, AuthInv(s), NEW env
  PROVE  Stepped(s, SM_STEP_WPA_PTK(s, env))
<1> DEFINE v == SM_STEP_WPA_PTK(s, env)
<1>1. s \in AuthState /\ s.request \in Requests /\ s.present \in BOOLEAN
  BY DEF AuthInv, AuthState
<1>2. CASE ~s.present BY <1>2 DEF SM_STEP_WPA_PTK, Stepped
<1>3. CASE s.present /\ s.request = "none"
  <2>1. v = Switch(s, env) BY <1>3 DEF SM_STEP_WPA_PTK
  <2> QED BY <1>3, <2>1, SwitchFields DEF Stepped
<1>4. CASE s.present /\ s.request = "PTKRequest"
  <2> DEFINE n == NewANonce(s)
  <2>1. n \in AuthState
    <3>1. s.nonces + 1 \in Nat BY <1>1 DEF AuthState
    <3> QED BY <1>1, <3>1 DEF NewANonce, AuthState
  <2>2. /\ SameKey(s, n) /\ SameFrames(s, n) /\ SameAnswer(s, n)
        /\ n.present = s.present /\ n.TimeoutCtr = 0 /\ n.timers = s.timers
    BY <1>1 DEF NewANonce, AuthState, SameKey, SameFrames, SameAnswer
  <2>3. v = PTKSTART(n) BY <1>4 DEF SM_STEP_WPA_PTK
  <2> HIDE DEF n, v
  <2>4. Started(n, v, 0) BY <2>1, <2>2, <2>3, StartFields
  <2>5. Started(s, v, 0)
    BY <2>2, <2>4 DEF Started, Sends, SameKey, SameFrames, SameAnswer
  <2> QED BY <1>4, <2>5 DEF Stepped, ByRequest, v
<1>5. CASE s.present /\ s.request \notin {"none", "PTKRequest"}
  <2>1. Gone(s, DISCONNECT(s)) BY GoneFields DEF DISCONNECT, wpa_sta_disconnect
  <2>2. ByRequest(s, v)
    BY ZenonT(40), <1>1, <1>5, <2>1, CourseFields DEF SM_STEP_WPA_PTK, ByRequest, Requests
  <2> QED BY <1>5, <2>2 DEF Stepped
<1> QED BY <1>1, <1>2, <1>3, <1>4, <1>5

\* What every round keeps, the loop keeps.
LEMMA LoopKeeps ==
  ASSUME NEW G, NEW env, \A s \in G : SM_STEP_WPA_PTK(s, env) \in G, NEW s \in G
  PROVE  wpa_sm_step(s, env) \in G
  BY DEF wpa_sm_step
-----------------------------------------------------------------------------
(***************************************************************************)
(* What holds between the rounds.  An accepted frame takes every           *)
(* outstanding counter with it, so the counters that a message 2/4 leaves  *)
(* in prev_key_replay are older than any that message 3/4 is sent with.    *)
(* Associating again restarts the counter under a raised request, which is *)
(* why the last two parts speak of a machine without one.                  *)
(***************************************************************************)
CountersInv(s) ==
  /\ \A k \in s.key_replay : k <= s.replay /\ k + RSNA_MAX_EAPOL_RETRIES > s.replay
  /\ \/ s.wpa_ptk_state \in {"PTKCALCNEGOTIATING", "PTKCALCNEGOTIATING2"}
     \/ s.EAPOLKeyReceived
     => s.key_replay = {}
  /\ /\ s.request = "none"
     /\ \/ s.EAPOLKeyReceived
        \/ s.wpa_ptk_state \in {"PTKCALCNEGOTIATING", "PTKCALCNEGOTIATING2",
                                "PTKINITNEGOTIATING"}
     => \A j \in s.prev_key_replay : j <= s.replay
  /\ s.request = "none" /\ s.wpa_ptk_state = "PTKINITNEGOTIATING"
     => \A k \in s.key_replay : \A j \in s.prev_key_replay : j < k

\* C is the set of keys under which the station has sent a message 4/4.
ConfirmedInv(s, C) ==
  /\ s.pairwise_set => s.tk \in C
  /\ s.EAPOLKeyReceived /\ s.wpa_ptk_state = "PTKINITNEGOTIATING"
       /\ ~s.update_snonce => s.PTK \in C

\* Message 3/4 counts its attempts; where replacing a key is denied the driver
\* has one only when the handshake is over.
CourseInv(s) ==
  /\ s.wpa_ptk_state = "PTKINITNEGOTIATING" => s.TimeoutCtr >= 1
  /\ wpa_deny_ptk0_rekey => s.request # "PTKRequest"
  /\ wpa_deny_ptk0_rekey /\ s.tk # NoPTK =>
       s.wpa_ptk_state = "PTKINITDONE" /\ s.request \in {"none", "Disconnect"}

RoundInv(s, C) == CountersInv(s) /\ ConfirmedInv(s, C) /\ CourseInv(s)

\* A round keeps the counters in order.
LEMMA RoundCounters ==
  ASSUME NEW s, NEW v, AuthInv(s), AuthInv(v), CountersInv(s), Stepped(s, v)
  PROVE  CountersInv(v)
<1>1. /\ s.replay \in Nat /\ s.key_replay \in SUBSET Nat
      /\ s.prev_key_replay \in SUBSET Nat
  BY DEF AuthInv, AuthState
<1>2. /\ s.EAPOLKeyReceived =>
           /\ s.wpa_ptk_state \in {"PTKSTART", "PTKINITNEGOTIATING"}
           /\ s.present /\ s.request = "none" /\ s.key_replay = {}
      /\ s.update_snonce => s.EAPOLKeyReceived
  BY DEF AuthInv, ReceivedInv
<1>3. CASE v = s BY <1>3
<1>4. CASE Gone(s, v) BY <1>4 DEF Gone, CountersInv
<1>5. CASE Initialized(s, v) \/ Installed(s, v)
  BY <1>2, <1>5 DEF Initialized, Installed, CountersInv, SameFrames, SameAnswer
<1>6. CASE \E q \in {"DISCONNECTED", "AUTHENTICATION", "AUTHENTICATION2",
                     "INITPSK"} : Enters(s, v, q)
  BY <1>2, <1>6 DEF Enters, CountersInv, SameFrames, SameAnswer
<1>7. ASSUME NEW n \in Nat, Started(s, v, n), ~s.EAPOLKeyReceived
      PROVE  CountersInv(v)
  BY <1>1, <1>7 DEF Started, Sends, CountersInv, SameFrames, SameAnswer,
     RSNA_MAX_EAPOL_RETRIES
<1>8. CASE Calculated(s, v) /\ s.EAPOLKeyReceived
  BY <1>2, <1>8 DEF Calculated, CountersInv, SameFrames
<1>9. CASE s.wpa_ptk_state = "PTKCALCNEGOTIATING" /\ s.request = "none"
             /\ Enters(s, v, "PTKCALCNEGOTIATING2")
  BY <1>9 DEF Enters, CountersInv, SameFrames, SameAnswer
<1>10. CASE /\ s.wpa_ptk_state \in {"PTKCALCNEGOTIATING2", "PTKINITNEGOTIATING"}
            /\ s.request = "none" /\ ~s.EAPOLKeyReceived /\ Negotiates(s, v)
  BY <1>1, <1>10 DEF Negotiates, Sends, CountersInv, SameFrames, SameAnswer,
     RSNA_MAX_EAPOL_RETRIES
<1>11. s.TimeoutCtr \in Nat /\ 0 \in Nat BY DEF AuthInv, AuthState
<1> HIDE DEF CountersInv, Started, Enters, Initialized, Installed, Calculated,
             Negotiates, Gone
<1>12. ByRequest(s, v) => CountersInv(v)
  BY <1>2, <1>4, <1>5, <1>6, <1>7, <1>11 DEF ByRequest
<1>13. s.request = "none" /\ ByState(s, v) => CountersInv(v)
  BY <1>2, <1>3, <1>4, <1>5, <1>6, <1>7, <1>8, <1>9, <1>10, <1>11
     DEF ByState, FromPtkStart, FromCalcNegotiating, FromInitNegotiating
<1> QED BY <1>3, <1>12, <1>13 DEF Stepped

\* The driver is handed a key only for a message 4/4 under it.
LEMMA RoundConfirmed ==
  ASSUME NEW s, NEW v, NEW C, AuthInv(s), Kept(v), ConfirmedInv(s, C), Stepped(s, v)
  PROVE  ConfirmedInv(v, C)
<1>1. ~v.EAPOLKeyReceived BY DEF Kept
<1>2. s.pairwise_set => s.tk \in C BY DEF ConfirmedInv
<1>3. SameKey(s, v) \/ ~v.pairwise_set => ConfirmedInv(v, C)
  BY <1>1, <1>2 DEF SameKey, ConfirmedInv
<1>4. CASE v = s BY <1>4
<1>5. CASE Gone(s, v) \/ Initialized(s, v)
  BY <1>3, <1>5 DEF Gone, Initialized
<1>6. \A q : Enters(s, v, q) => ConfirmedInv(v, C) BY <1>3 DEF Enters
<1>7. \A n : Started(s, v, n) => ConfirmedInv(v, C) BY <1>3 DEF Started
<1>8. CASE Calculated(s, v) \/ Negotiates(s, v)
  BY <1>3, <1>8 DEF Calculated, Negotiates
<1>9. CASE /\ s.wpa_ptk_state = "PTKINITNEGOTIATING" /\ s.EAPOLKeyReceived
           /\ ~s.update_snonce /\ Installed(s, v)
  BY <1>1, <1>9 DEF Installed, ConfirmedInv
<1> HIDE DEF ConfirmedInv, Started, Enters, Initialized, Installed, Calculated,
             Negotiates, Gone
<1>10. ByRequest(s, v) => ConfirmedInv(v, C)
  BY <1>5, <1>6, <1>7 DEF ByRequest
<1>11. ByState(s, v) => ConfirmedInv(v, C)
  BY <1>4, <1>5, <1>6, <1>7, <1>8, <1>9
     DEF ByState, FromPtkStart, FromCalcNegotiating, FromInitNegotiating
<1> QED BY <1>4, <1>10, <1>11 DEF Stepped

\* The course of the handshake.
LEMMA RoundCourse ==
  ASSUME NEW s, NEW v, AuthInv(s), CourseInv(s), Stepped(s, v)
  PROVE  CourseInv(v)
<1>1. s.TimeoutCtr \in Nat BY DEF AuthInv, AuthState
<1>2. CASE v = s BY <1>2
<1>3. CASE Gone(s, v) BY <1>3 DEF Gone, CourseInv
<1>4. CASE Initialized(s, v) BY <1>4 DEF Initialized, CourseInv
<1>5. ASSUME NEW q, q \notin {"PTKINITNEGOTIATING", "PTKINITDONE"}, Enters(s, v, q),
             s.wpa_ptk_state # "PTKINITDONE" \/ s.request \notin {"none", "Disconnect"}
      PROVE  CourseInv(v)
  BY <1>5 DEF Enters, CourseInv, SameKey
<1>6. ASSUME NEW n, Started(s, v, n),
             s.wpa_ptk_state # "PTKINITDONE" \/ s.request = "PTKRequest"
      PROVE  CourseInv(v)
  BY <1>6 DEF Started, CourseInv, SameKey
<1>7. CASE Calculated(s, v) /\ s.request = "none" /\ s.wpa_ptk_state # "PTKINITDONE"
  BY <1>7 DEF Calculated, CourseInv, SameKey
<1>8. CASE Negotiates(s, v) /\ s.request = "none" /\ s.wpa_ptk_state # "PTKINITDONE"
  BY <1>1, <1>8 DEF Negotiates, CourseInv, SameKey
<1>9. CASE Installed(s, v) /\ s.request = "none"
  BY <1>9 DEF Installed, CourseInv
<1> HIDE DEF CourseInv, Started, Enters, Initialized, Installed, Calculated,
             Negotiates, Gone
<1>10. ByRequest(s, v) => CourseInv(v)
  BY <1>3, <1>4, <1>5, <1>6 DEF ByRequest
<1>11. s.request = "none" /\ ByState(s, v) => CourseInv(v)
  BY <1>2, <1>3, <1>4, <1>5, <1>6, <1>7, <1>8, <1>9
     DEF ByState, FromPtkStart, FromCalcNegotiating, FromInitNegotiating
<1> QED BY <1>2, <1>10, <1>11 DEF Stepped
-----------------------------------------------------------------------------
(***************************************************************************)
(* How many rounds are left.  A machine at rest waits for an event, and    *)
(* one in the middle of a handshake for a timeout at the latest.           *)
(***************************************************************************)
Waiting(s) ==
  /\ s.timers > 0 /\ ~s.TimeoutEvt
  /\ \/ s.wpa_ptk_state = "PTKSTART" /\ s.TimeoutCtr <= wpa_pairwise_update_count
     \/ s.wpa_ptk_state = "PTKCALCNEGOTIATING" /\ ~s.MICVerified
     \/ s.wpa_ptk_state = "PTKINITNEGOTIATING" /\ ~RetryLimitReached(s)

AtRest(s) ==
  /\ s.request = "none" /\ ~s.EAPOLKeyReceived
  /\ s.present =>
       s.wpa_ptk_state \in {"INITIALIZE", "PTKINITDONE"} \/ Waiting(s)

GivesUp(s) ==
  /\ ~s.EAPOLKeyReceived
  /\ \/ s.wpa_ptk_state = "PTKSTART" /\ s.TimeoutCtr > wpa_pairwise_update_count
     \/ s.wpa_ptk_state = "PTKINITNEGOTIATING" /\ RetryLimitReached(s)

\* A new count of attempts starts in these.
AboutToSend(s) ==
  s.wpa_ptk_state \in {"INITPSK", "PTKCALCNEGOTIATING2"} /\ s.TimeoutCtr = 0

OneRound(s) ==
  \/ AtRest(s)
  \/ s.present /\ s.request \in {"Disconnect", "PTKRequest"}
  \/ /\ s.present /\ s.request = "none"
     /\ \/ s.wpa_ptk_state = "DISCONNECTED"
        \/ AboutToSend(s) \/ GivesUp(s)
        \/ /\ s.wpa_ptk_state = "PTKINITNEGOTIATING"
           /\ s.EAPOLKeyReceived /\ ~s.update_snonce

TwoRounds(s) ==
  \/ OneRound(s)
  \/ s.present /\ s.request = "DeauthenticationRequest"
  \/ /\ s.present /\ s.request = "none"
     /\ \/ s.wpa_ptk_state = "AUTHENTICATION2" /\ s.TimeoutCtr = 0
        \/ s.wpa_ptk_state = "PTKCALCNEGOTIATING" /\ (s.MICVerified \/ s.TimeoutEvt)
        \/ /\ s.wpa_ptk_state \in {"PTKSTART", "PTKINITNEGOTIATING"}
           /\ s.TimeoutEvt /\ ~s.EAPOLKeyReceived

ThreeRounds(s) ==
  \/ TwoRounds(s)
  \/ s.present /\ s.request = "ReAuthenticationRequest"
  \/ /\ s.present /\ s.request = "none"
     /\ \/ s.wpa_ptk_state = "AUTHENTICATION"
        \/ s.EAPOLKeyReceived /\ (s.MICVerified \/ s.timers > 0)

FourRounds(s) ==
  ThreeRounds(s) \/ (s.present /\ s.request = "AuthenticationRequest")

\* A round changes nothing in a machine at rest.
LEMMA RestStays ==
  ASSUME NEW s, NEW v, AuthInv(s), AtRest(s), Stepped(s, v)
  PROVE  v = s
<1>1. s.TimeoutCtr \in Nat /\ wpa_pairwise_update_count \in Nat
  BY UpdateCountPositive DEF AuthInv, AuthState
<1>2. ~s.update_snonce BY DEF AtRest, AuthInv, ReceivedInv
<1>3. CASE ~s.present BY <1>3 DEF Stepped
<1>4. CASE s.present
  <2>1. s.request = "none" /\ ByState(s, v) BY <1>4 DEF AtRest, Stepped
  <2> QED BY <1>1, <1>2, <1>4, <2>1 DEF AtRest, Waiting, ByState, FromPtkStart,
          FromCalcNegotiating, FromInitNegotiating
<1> QED BY <1>3, <1>4 DEF AuthInv, AuthState

\* PTKSTART has sent message 1/4, or gives up.
LEMMA StartRests ==
  ASSUME NEW s, NEW v, AuthInv(s), Kept(v), NEW n \in Nat, Started(s, v, n)
  PROVE  /\ OneRound(v)
         /\ n = 0 => AtRest(v)
<1>1. wpa_pairwise_update_count \in Nat \ {0} /\ s.timers \in Nat
  BY UpdateCountPositive DEF AuthInv, AuthState
<1>2. ~v.EAPOLKeyReceived BY DEF Kept
<1>3. CASE n + 1 > wpa_pairwise_update_count
  <2>1. v.present => OneRound(v) BY <1>2, <1>3 DEF Started, OneRound, GivesUp
  <2>2. ~v.present => AtRest(v) BY <1>2 DEF Started, AtRest
  <2> QED BY <1>1, <1>3, <2>1, <2>2 DEF OneRound
<1>4. CASE ~(n + 1 > wpa_pairwise_update_count)
  <2>1. v.timers = s.timers + 1 BY <1>4 DEF Started, Sends
  <2>2. v.timers > 0 BY <1>1, <2>1
  <2>3. v.TimeoutCtr <= wpa_pairwise_update_count BY <1>1, <1>4 DEF Started
  <2>4. AtRest(v) BY <1>2, <2>2, <2>3 DEF Started, AtRest, Waiting
  <2> QED BY <2>4 DEF OneRound
<1> QED BY <1>3, <1>4

\* PTKINITNEGOTIATING has sent message 3/4, or gives up.
LEMMA NegotiateRests ==
  ASSUME NEW s, NEW v, AuthInv(s), Kept(v), s.request = "none", Negotiates(s, v)
  PROVE  /\ OneRound(v)
         /\ s.TimeoutCtr = 0 => AtRest(v)
<1>1. wpa_pairwise_update_count \in Nat \ {0} /\ s.timers \in Nat
  BY UpdateCountPositive DEF AuthInv, AuthState
<1>2. ~v.EAPOLKeyReceived /\ v.request = "none" BY DEF Kept, Negotiates
<1>3. CASE RetryLimitReached(v)
  <2>1. s.TimeoutCtr # 0
    BY <1>1, <1>3 DEF Negotiates, RetryLimitReached
  <2>2. v.present => OneRound(v) BY <1>2, <1>3 DEF Negotiates, OneRound, GivesUp
  <2>3. ~v.present => AtRest(v) BY <1>2 DEF AtRest
  <2> QED BY <2>1, <2>2, <2>3 DEF OneRound
<1>4. CASE ~RetryLimitReached(v)
  <2>1. v.timers = s.timers + 1 BY <1>4 DEF Negotiates, Sends
  <2>2. v.timers > 0 BY <1>1, <2>1
  <2>3. AtRest(v) BY <1>2, <1>4, <2>2 DEF Negotiates, AtRest, Waiting
  <2> QED BY <2>3 DEF OneRound
<1> QED BY <1>3, <1>4

\* The last round.
LEMMA OneRoundLeft ==
  ASSUME NEW s, NEW v, AuthInv(s), Kept(v), OneRound(s), Stepped(s, v)
  PROVE  AtRest(v)
<1>1. /\ s.EAPOLKeyReceived =>
           s.wpa_ptk_state \in {"PTKSTART", "PTKINITNEGOTIATING"}
      /\ s.update_snonce => s.EAPOLKeyReceived
      /\ s.TimeoutCtr \in Nat /\ wpa_pairwise_update_count \in Nat /\ 0 \in Nat
  BY UpdateCountPositive DEF AuthInv, AuthState, ReceivedInv
<1>2. ~v.EAPOLKeyReceived BY DEF Kept
<1>3. CASE Gone(s, v) BY <1>2, <1>3 DEF Gone, AtRest
<1>4. CASE s.request = "none" /\ (Initialized(s, v) \/ Installed(s, v))
  BY <1>2, <1>4 DEF Initialized, Installed, AtRest
<1>5. CASE AtRest(s) BY <1>5, RestStays
<1>6. CASE s.present /\ s.request \in {"Disconnect", "PTKRequest"}
  BY <1>1, <1>3, <1>6, StartRests DEF Stepped, ByRequest
<1>7. CASE s.present /\ s.request = "none" /\ ~AtRest(s)
  <2>1. ByState(s, v) BY <1>7 DEF Stepped
  <2>2. CASE s.wpa_ptk_state = "DISCONNECTED"
    BY <1>4, <1>7, <2>1, <2>2 DEF ByState
  <2>3. CASE s.wpa_ptk_state = "INITPSK" /\ s.TimeoutCtr = 0
    BY <1>1, <2>1, <2>3, StartRests DEF ByState
  <2>4. CASE s.wpa_ptk_state = "PTKCALCNEGOTIATING2" /\ s.TimeoutCtr = 0
    BY <1>7, <2>1, <2>4, NegotiateRests DEF ByState
  <2>5. CASE GivesUp(s)
    BY <1>1, <1>3, <2>1, <2>5
       DEF ByState, GivesUp, FromPtkStart, FromInitNegotiating
  <2>6. CASE /\ s.wpa_ptk_state = "PTKINITNEGOTIATING"
             /\ s.EAPOLKeyReceived /\ ~s.update_snonce
    BY <1>3, <1>4, <1>7, <2>1, <2>6 DEF ByState, FromInitNegotiating
  <2> QED BY <1>7, <2>2, <2>3, <2>4, <2>5, <2>6 DEF OneRound, AboutToSend
<1> QED BY <1>5, <1>6, <1>7 DEF OneRound

\* The round before it.
LEMMA TwoRoundsLeft ==
  ASSUME NEW s, NEW v, AuthInv(s), Kept(v), TwoRounds(s), Stepped(s, v)
  PROVE  OneRound(v)
<1>1. /\ s.update_snonce => s.EAPOLKeyReceived
      /\ s.TimeoutCtr \in Nat /\ wpa_pairwise_update_count \in Nat
  BY UpdateCountPositive DEF AuthInv, AuthState, ReceivedInv
<1>2. ~v.EAPOLKeyReceived BY DEF Kept
<1>3. CASE OneRound(s) BY <1>3, OneRoundLeft DEF OneRound
<1>4. CASE s.present /\ s.request = "DeauthenticationRequest"
  BY <1>4 DEF Stepped, ByRequest, Enters, OneRound
<1>5. CASE s.present /\ s.request = "none" /\ ~OneRound(s)
  <2>1. ByState(s, v) BY <1>5 DEF Stepped
  <2>2. CASE s.wpa_ptk_state = "AUTHENTICATION2" /\ s.TimeoutCtr = 0
    BY <1>5, <2>1, <2>2 DEF ByState, Enters, OneRound, AboutToSend
  <2>3. CASE s.wpa_ptk_state = "PTKCALCNEGOTIATING" /\ s.MICVerified
    BY <1>5, <2>1, <2>3 DEF ByState, FromCalcNegotiating, Enters, OneRound,
       AboutToSend
  <2>4. CASE s.wpa_ptk_state = "PTKCALCNEGOTIATING" /\ ~s.MICVerified /\ s.TimeoutEvt
    BY <1>1, <2>1, <2>4, StartRests DEF ByState, FromCalcNegotiating
  <2>5. CASE s.wpa_ptk_state = "PTKSTART" /\ s.TimeoutEvt /\ ~s.EAPOLKeyReceived
    <3>1. ~(s.TimeoutCtr > wpa_pairwise_update_count)
      BY <1>5, <2>5 DEF OneRound, GivesUp
    <3> QED BY <1>1, <2>1, <2>5, <3>1, StartRests DEF ByState, FromPtkStart
  <2>6. CASE s.wpa_ptk_state = "PTKINITNEGOTIATING" /\ s.TimeoutEvt
               /\ ~s.EAPOLKeyReceived
    <3>1. ~RetryLimitReached(s) BY <1>5, <2>6 DEF OneRound, GivesUp
    <3> QED BY <1>1, <1>5, <2>1, <2>6, <3>1, NegotiateRests
            DEF ByState, FromInitNegotiating
  <2>7. s.MICVerified \in BOOLEAN BY DEF AuthInv, AuthState
  <2> QED BY <1>5, <2>2, <2>3, <2>4, <2>5, <2>6, <2>7 DEF TwoRounds
<1> QED BY <1>3, <1>4, <1>5 DEF TwoRounds

\* The first round that processes a frame or draws a nonce.
LEMMA ThreeRoundsLeft ==
  ASSUME NEW s, NEW v, AuthInv(s), Kept(v), ThreeRounds(s), Stepped(s, v)
  PROVE  TwoRounds(v)
<1>1. /\ s.update_snonce => s.EAPOLKeyReceived
      /\ s.EAPOLKeyReceived =>
           s.wpa_ptk_state \in {"PTKSTART", "PTKINITNEGOTIATING"}
  BY DEF AuthInv, AuthState, ReceivedInv
<1>2. ~v.EAPOLKeyReceived BY DEF Kept
<1>3. CASE TwoRounds(s) BY <1>3, TwoRoundsLeft DEF TwoRounds
<1>4. CASE s.present /\ s.request = "ReAuthenticationRequest"
  BY <1>4 DEF Stepped, ByRequest, Enters, TwoRounds
<1>5. CASE s.present /\ s.request = "none" /\ ~TwoRounds(s)
  <2>1. ByState(s, v) BY <1>5 DEF Stepped
  <2>2. CASE s.wpa_ptk_state = "AUTHENTICATION"
    BY <1>5, <2>1, <2>2 DEF ByState, Enters, TwoRounds
  <2>3. CASE s.EAPOLKeyReceived /\ (s.MICVerified \/ s.timers > 0)
    <3>1. Calculated(s, v) \/ Gone(s, v)
      BY <1>1, <1>5, <2>1, <2>3
         DEF ByState, FromPtkStart, FromInitNegotiating, TwoRounds, OneRound
    <3>2. CASE Gone(s, v)
      BY <1>2, <3>2 DEF Gone, AtRest, OneRound, TwoRounds
    <3>3. CASE Calculated(s, v)
      <4>1. /\ v.wpa_ptk_state = "PTKCALCNEGOTIATING" /\ v.present
            /\ v.request = "none" /\ (v.MICVerified \/ v.timers > 0)
        BY <1>5, <2>3, <3>3 DEF Calculated
      <4>2. v.MICVerified \in BOOLEAN /\ v.TimeoutEvt \in BOOLEAN
        BY DEF Kept, AuthInv, AuthState
      <4>3. CASE v.MICVerified \/ v.TimeoutEvt BY <4>1, <4>3 DEF TwoRounds
      <4>4. CASE ~v.MICVerified /\ ~v.TimeoutEvt
        BY <1>2, <4>1, <4>4 DEF TwoRounds, OneRound, AtRest, Waiting
      <4> QED BY <4>2, <4>3, <4>4
    <3> QED BY <3>1, <3>2, <3>3
  <2> QED BY <1>5, <2>2, <2>3 DEF ThreeRounds
<1> QED BY <1>3, <1>4, <1>5 DEF ThreeRounds

\* A first association takes four rounds: AUTHENTICATION, AUTHENTICATION2,
\* INITPSK and PTKSTART.
LEMMA FourRoundsLeft ==
  ASSUME NEW s, NEW v, AuthInv(s), Kept(v), FourRounds(s), Stepped(s, v)
  PROVE  ThreeRounds(v)
<1>1. CASE ThreeRounds(s) BY <1>1, ThreeRoundsLeft DEF ThreeRounds
<1>2. CASE s.present /\ s.request = "AuthenticationRequest"
  BY <1>2 DEF Stepped, ByRequest, Enters, ThreeRounds
<1> QED BY <1>1, <1>2 DEF FourRounds

\* The four rounds of wpa_sm_step() are enough.
LEMMA LoopRests ==
  ASSUME NEW s, AuthInv(s), FourRounds(s), NEW env
  PROVE  AtRest(wpa_sm_step(s, env))
<1> DEFINE a == SM_STEP_WPA_PTK(s, env)
           b == SM_STEP_WPA_PTK(a, env)
           c == SM_STEP_WPA_PTK(b, env)
           d == SM_STEP_WPA_PTK(c, env)
<1>1. Kept(a) /\ Stepped(s, a) BY StepKept, StepFields
<1> HIDE DEF a
<1>2. ThreeRounds(a) BY <1>1, FourRoundsLeft
<1>3. Kept(b) /\ Stepped(a, b) BY <1>1, StepKept, StepFields DEF Kept
<1> HIDE DEF b
<1>4. TwoRounds(b) BY <1>1, <1>2, <1>3, ThreeRoundsLeft DEF Kept
<1>5. Kept(c) /\ Stepped(b, c) BY <1>3, StepKept, StepFields DEF Kept
<1> HIDE DEF c
<1>6. OneRound(c) BY <1>3, <1>4, <1>5, TwoRoundsLeft DEF Kept
<1>7. Kept(d) /\ Stepped(c, d) BY <1>5, StepKept, StepFields DEF Kept
<1> HIDE DEF d
<1>8. AtRest(d) BY <1>5, <1>6, <1>7, OneRoundLeft DEF Kept
<1> QED BY <1>8 DEF a, b, c, d, wpa_sm_step

\* A machine at rest is settled, whatever its environment would answer.
LEMMA RestSettled ==
  ASSUME NEW s, AuthInv(s), AtRest(s), NEW env
  PROVE  Settled(s, env)
  BY StepFields, RestStays DEF Settled, AtRest
-----------------------------------------------------------------------------
(* What the entry points hand to the step loop, for a machine s at rest. *)

Dropped(s, n) == n.tk = NoPTK /\ ~n.pairwise_set /\ n.installs = s.installs

SameCourse(s, n) ==
  /\ n.present = s.present /\ n.wpa_ptk_state = s.wpa_ptk_state
  /\ n.TimeoutCtr = s.TimeoutCtr /\ SameNonces(s, n)

\* Nothing but the PTK goes.
Forgets(s, n) ==
  /\ SameCourse(s, n) /\ SameFrames(s, n) /\ SameAnswer(s, n) /\ Dropped(s, n)
  /\ n.request = s.request /\ n.TimeoutEvt = s.TimeoutEvt /\ n.timers = s.timers

TimesOut(s, n) ==
  /\ SameCourse(s, n) /\ SameFrames(s, n) /\ SameAnswer(s, n) /\ SameKey(s, n)
  /\ n.request = s.request /\ n.TimeoutEvt

\* A new PTK is asked for.
AsksForKey(s, n) ==
  /\ SameCourse(s, n) /\ SameFrames(s, n) /\ SameKey(s, n)
  /\ n.present /\ ~n.EAPOLKeyReceived
  /\ n.request \in {"Disconnect", "PTKRequest"}
  /\ wpa_deny_ptk0_rekey => n.request = "Disconnect"

\* The station leaves, or associates again.
Restarts(s, n) ==
  /\ SameCourse(s, n) /\ Dropped(s, n) /\ n.tx = s.tx
  /\ n.present /\ ~n.EAPOLKeyReceived
  /\ n.request \in {"Disconnect", "DeauthenticationRequest",
                    "ReAuthenticationRequest"}
  /\ SameFrames(s, n) \/ (n.replay = 0 /\ n.key_replay = {})

\* The station associates for the first time.
Begins(s, n) ==
  /\ n.wpa_ptk_state = "INITIALIZE" /\ n.present /\ ~n.EAPOLKeyReceived
  /\ Dropped(s, n) /\ SameFrames(s, n) /\ SameNonces(s, n)
  /\ n.request = "AuthenticationRequest"

\* A message 2/4 or 4/4 is received.
IsAnswered(s, n, m) ==
  /\ SameCourse(s, n) /\ SameKey(s, n)
  /\ n.present /\ n.EAPOLKeyReceived /\ n.request = "none"
  /\ n.wpa_ptk_state \in {"PTKSTART", "PTKINITNEGOTIATING"}
  /\ n.tx = s.tx /\ n.replay = s.replay /\ n.key_replay = {}
  /\ n.prev_key_replay \subseteq s.key_replay
  /\ n.rx_mic = m.mic
  /\ n.MICVerified \/ n.timers = s.timers
  /\ m.type = "4/4" =>
       n.wpa_ptk_state = "PTKINITNEGOTIATING" /\ ~n.update_snonce /\ n.PTK = m.mic
  /\ m.type = "2/4" =>
       /\ m.ctr \in s.key_replay \cup s.prev_key_replay
       /\ n.MICVerified => n.PTK = m.mic
       /\ n.wpa_ptk_state = "PTKINITNEGOTIATING" => n.update_snonce

\* wpa_remove_ptk()
LEMMA ForgetFields ==
  ASSUME NEW s, Idle(s)
  PROVE  LET n == wpa_remove_ptk(s) IN AuthInv(n) /\ Forgets(s, n)
<1>1. AuthInv(wpa_remove_ptk(s)) BY RemovePtk DEF Idle, Kept
<1>2. Forgets(s, wpa_remove_ptk(s))
  BY DEF wpa_remove_ptk, Forgets, SameCourse, SameNonces, SameFrames, SameAnswer,
     Dropped, Idle, Kept, AuthInv, AuthState
<1> QED BY <1>1, <1>2

\* wpa_send_eapol_timeout()
LEMMA TimeoutInput ==
  ASSUME NEW s, Idle(s), s.timers > 0, NEW env
  PROVE  \E n : /\ AuthInv(n) /\ TimesOut(s, n)
               /\ wpa_send_eapol_timeout(s, env) = wpa_sm_step(n, env)
<1> DEFINE t == s.timers - 1
           n == [s EXCEPT !.timers = t, !.pending_1_of_4_timeout = FALSE,
                          !.TimeoutEvt = TRUE]
<1>1. t \in Nat BY DEF Idle, Kept, AuthInv, AuthState
<1>2. wpa_send_eapol_timeout(s, env) = wpa_sm_step(n, env)
  BY DEF wpa_send_eapol_timeout, n, t
<1> HIDE DEF t
<1>3. AuthInv(n)
  BY ZenonT(40), <1>1 DEF Idle, Kept, AuthInv, AuthState, NonceInv, ANonceFresh, RequestInv,
     ReceivedInv
<1>4. TimesOut(s, n)
  BY DEF TimesOut, SameCourse, SameNonces, SameFrames, SameAnswer, SameKey, Idle,
     Kept, AuthInv, AuthState
<1> HIDE DEF n
<1> QED BY <1>2, <1>3, <1>4

\* wpa_request_new_ptk()
LEMMA NewPtkFields ==
  ASSUME NEW s, Idle(s), s.present
  PROVE  AsksForKey(s, wpa_request_new_ptk(s))
  BY DEF wpa_request_new_ptk, AsksForKey, SameCourse, SameNonces, SameFrames,
     SameKey, Idle, Kept, AuthInv, AuthState

\* wpa_rekey_ptk()
LEMMA RekeyInput ==
  ASSUME NEW s, Idle(s), s.present, NEW env
  PROVE  \E n : /\ AuthInv(n) /\ AsksForKey(s, n)
               /\ wpa_rekey_ptk(s, env) = wpa_sm_step(n, env)
<1> DEFINE r == [s EXCEPT !.rekey_timer = FALSE]
           n == wpa_request_new_ptk(r)
<1>1. Idle(r) /\ r.present
  BY ZenonT(40) DEF Idle, Kept, AuthInv, AuthState, NonceInv, ANonceFresh, RequestInv,
     ReceivedInv
<1>2. SameCourse(s, r) /\ SameFrames(s, r) /\ SameKey(s, r)
  BY DEF SameCourse, SameNonces, SameFrames, SameKey, Idle, Kept, AuthInv, AuthState
<1>3. wpa_rekey_ptk(s, env) = wpa_sm_step(n, env) BY DEF wpa_rekey_ptk
<1> HIDE DEF r
<1>4. AuthInv(n) BY <1>1, RequestNewPtk DEF Kept
<1>5. AsksForKey(r, n) BY <1>1, NewPtkFields
<1> HIDE DEF n
<1>6. AsksForKey(s, n)
  BY <1>2, <1>5 DEF AsksForKey, SameCourse, SameNonces, SameFrames, SameKey
<1> QED BY <1>3, <1>4, <1>6

\* A request raised while the PTK is taken.
LEMMA RequestForgets ==
  ASSUME NEW s, Idle(s), s.present,
         NEW q \in {"Disconnect", "DeauthenticationRequest",
                    "ReAuthenticationRequest"}
  PROVE  LET r == [wpa_remove_ptk(s) EXCEPT !.request = q]
         IN  /\ AuthInv(r) /\ Restarts(s, r) /\ r.request = q
             /\ wpa_remove_ptk([s EXCEPT !.request = q]) = r
<1> DEFINE p == wpa_remove_ptk(s)
           r == [p EXCEPT !.request = q]
<1>1. AuthInv(p) /\ Forgets(s, p) /\ ~p.PTK_valid /\ ~p.EAPOLKeyReceived
  BY ForgetFields, RemovePtk DEF Idle, Kept
<1>2. wpa_remove_ptk([s EXCEPT !.request = q]) = r
  BY DEF Idle, Kept, AuthInv, AuthState, wpa_remove_ptk
<1> HIDE DEF p
<1>3. AuthInv(r)
  <2>1. q \in Requests BY DEF Requests
  <2>2. q # "PTKRequest" OBVIOUS
  <2> QED
    BY <1>1, <2>1, <2>2 DEF AuthInv, AuthState, NonceInv, ANonceFresh, RequestInv,
       ReceivedInv
<1>4. Restarts(s, r)
  BY <1>1 DEF Restarts, Forgets, SameCourse, SameNonces, SameFrames, SameAnswer,
     Dropped, AuthInv, AuthState
<1>5. r.request = q BY <1>1 DEF AuthInv, AuthState
<1> HIDE DEF r
<1> QED BY <1>2, <1>3, <1>4, <1>5 DEF r, p

\* A disassociation asks the machine to leave its handshake.
LEMMA DisassocInput ==
  ASSUME NEW s, Idle(s), s.present, NEW env
  PROVE  \E n : /\ AuthInv(n) /\ Restarts(s, n)
               /\ n.request = "DeauthenticationRequest"
               /\ wpa_auth_sm_event(s, "WPA_DISASSOC", env) = wpa_sm_step(n, env)
<1> DEFINE r == [wpa_remove_ptk(s) EXCEPT !.request = "DeauthenticationRequest"]
<1>1. /\ AuthInv(r) /\ Restarts(s, r) /\ r.request = "DeauthenticationRequest"
      /\ wpa_remove_ptk([s EXCEPT !.request = "DeauthenticationRequest"]) = r
  BY RequestForgets
<1>2. wpa_auth_sm_event(s, "WPA_DISASSOC", env) = wpa_sm_step(r, env)
  BY <1>1 DEF wpa_auth_sm_event
<1> HIDE DEF r
<1> QED BY <1>1, <1>2

\* A reassociation starts the handshake anew.
LEMMA ReauthInput ==
  ASSUME NEW s, Idle(s), s.present, NEW env
  PROVE  \E n : /\ AuthInv(n) /\ Restarts(s, n)
               /\ wpa_auth_sm_event(s, "WPA_REAUTH", env) = wpa_sm_step(n, env)
<1> DEFINE r(q) == [wpa_remove_ptk(s) EXCEPT !.request = q]
           Q == {"Disconnect", "DeauthenticationRequest", "ReAuthenticationRequest"}
<1>1. \A q \in Q : /\ AuthInv(r(q)) /\ Restarts(s, r(q))
                  /\ wpa_remove_ptk([s EXCEPT !.request = q]) = r(q)
  BY RequestForgets
<1>2. \E q \in Q : wpa_auth_sm_event(s, "WPA_REAUTH", env) = wpa_sm_step(r(q), env)
  BY <1>1 DEF wpa_auth_sm_event
<1> HIDE DEF r, Q
<1> QED BY <1>1, <1>2

\* wpa_auth_sta_associated() of a machine whose PTK has been removed.
LEMMA AssociatedInput ==
  ASSUME NEW s, Idle(s), s.present, ~s.PTK_valid, s.tk = NoPTK, ~s.pairwise_set,
         NEW env
  PROVE  \E n : /\ AuthInv(n) /\ (Restarts(s, n) \/ Begins(s, n))
               /\ wpa_auth_sta_associated(s, env) = wpa_sm_step(n, env)
<1>1. CASE s.started
  <2> DEFINE n == [s EXCEPT !.replay = 0, !.key_replay = {},
                            !.request = "ReAuthenticationRequest"]
  <2>1. AuthInv(n)
    BY <1>1 DEF Idle, Kept, AuthInv, AuthState, Requests, NonceInv, ANonceFresh,
       RequestInv, ReceivedInv
  <2>2. Restarts(s, n)
    BY DEF Restarts, SameCourse, SameNonces, Dropped, Idle, Kept, AuthInv, AuthState
  <2>3. wpa_auth_sta_associated(s, env) = wpa_sm_step(n, env)
    BY <1>1 DEF wpa_auth_sta_associated
  <2> HIDE DEF n
  <2> QED BY <2>1, <2>2, <2>3
<1>2. CASE ~s.started
  <2> DEFINE r == [s EXCEPT !.started = TRUE, !.request = "Init"]
             i == SM_STEP_WPA_PTK(r, env)
             n == [i EXCEPT !.request = "AuthenticationRequest"]
  <2>1. AuthInv(r)
    BY DEF Idle, Kept, AuthInv, AuthState, Requests, NonceInv, ANonceFresh,
       RequestInv, ReceivedInv
  <2>2. r.present /\ r.request = "Init" /\ SameFrames(s, r) /\ SameKey(s, r)
        /\ ~r.EAPOLKeyReceived /\ SameNonces(s, r)
    BY DEF SameFrames, SameKey, SameNonces, Idle, Kept, AuthInv, AuthState
  <2>3. wpa_auth_sta_associated(s, env) = wpa_sm_step(n, env)
    BY <1>2 DEF wpa_auth_sta_associated
  <2> HIDE DEF r
  <2>4. Kept(i) /\ Initialized(r, i)
    BY <2>1, <2>2, StepKept, StepFields DEF Stepped, ByRequest
  <2>7. SameNonces(r, i)
    BY <2>1, <2>2 DEF SM_STEP_WPA_PTK, INITIALIZE, wpa_remove_ptk, SameNonces,
       AuthInv, AuthState
  <2> HIDE DEF i
  <2>5. AuthInv(n)
    BY <2>4 DEF Kept, AuthInv, AuthState, Requests, NonceInv, ANonceFresh,
       RequestInv, ReceivedInv
  <2>6. Begins(s, n)
    BY <2>2, <2>4, <2>7 DEF Begins, Initialized, SameFrames, SameKey, SameAnswer,
       SameNonces, Dropped, Kept, AuthInv, AuthState
  <2> HIDE DEF n
  <2> QED BY <2>3, <2>5, <2>6
<1> QED BY <1>1, <1>2 DEF Idle, Kept, AuthInv, AuthState

\* wpa_receive() of a message 2/4 or 4/4.
LEMMA AnswerInput ==
  ASSUME NEW s, Idle(s), NEW m \in SuppMsg, Accepts(s, m), m.type # "Request",
         NEW env
  PROVE  \E n : /\ AuthInv(n) /\ IsAnswered(s, n, m)
               /\ wpa_receive(s, m, env) = wpa_sm_step(n, env)
<1> DEFINE r == MarkReceived(s, m)
           n == [r EXCEPT !.rx_mic = m.mic,
                          !.EAPOLKeyReceived = m.type # "Request",
                          !.SNonce = IF m.type = "2/4" THEN m.nonce ELSE @]
<1>1. wpa_receive(s, m, env) = wpa_sm_step(n, env) BY DEF wpa_receive
<1>2. AuthInv(n) /\ n.request = "none" BY ReceiveAnswer
<1>3. /\ s \in AuthState /\ ~s.EAPOLKeyReceived /\ ~s.update_snonce /\ s.present
      /\ m.type \in {"2/4", "4/4"}
      /\ s.wpa_ptk_state = "PTKCALCNEGOTIATING" => s.key_replay = {}
  BY DEF Idle, Kept, AuthInv, ReceivedInv, Accepts, SuppMsg
<1>4. s.wpa_ptk_state \in {"PTKSTART", "PTKINITNEGOTIATING"}
  BY <1>3 DEF Accepts, wpa_auth_valid_counter, ExpectedInState, SNonceUpdate,
     AltMsg4
<1>5. /\ r.present = s.present /\ r.wpa_ptk_state = s.wpa_ptk_state
      /\ r.TimeoutCtr = s.TimeoutCtr /\ r.tx = s.tx /\ r.replay = s.replay
      /\ r.tk = s.tk /\ r.installs = s.installs /\ r.key_replay = {}
      /\ r.timers = TimersLeft(s, m) /\ r.PTK = PtkOf(s, m)
      /\ r.nonces = s.nonces /\ r.ANonce = s.ANonce
  BY <1>3 DEF MarkReceived, AuthState, CountersLeft
<1>6. /\ r.pairwise_set = s.pairwise_set /\ r.MICVerified = MicChecked(s, m)
      /\ r.update_snonce = (s.update_snonce \/ SNonceUpdate(s, m))
  BY <1>3 DEF MarkReceived, AuthState
<1>7. r.prev_key_replay \subseteq s.key_replay
  BY <1>3 DEF MarkReceived, AuthState
<1>8. /\ n.present = r.present /\ n.wpa_ptk_state = r.wpa_ptk_state
      /\ n.TimeoutCtr = r.TimeoutCtr /\ n.tx = r.tx /\ n.replay = r.replay
      /\ n.tk = r.tk /\ n.installs = r.installs /\ n.key_replay = r.key_replay
      /\ n.timers = r.timers /\ n.PTK = r.PTK /\ n.rx_mic = m.mic
      /\ n.EAPOLKeyReceived /\ n.prev_key_replay = r.prev_key_replay
      /\ n.pairwise_set = r.pairwise_set /\ n.MICVerified = r.MICVerified
      /\ n.update_snonce = r.update_snonce
      /\ n.nonces = r.nonces /\ n.ANonce = r.ANonce
  <2>1. r \in {[x EXCEPT !.prev_key_replay = y] :
               x \in {[s EXCEPT
              !.update_snonce = @ \/ SNonceUpdate(s, m),
              !.alt_SNonce = IF SNonceUpdate(s, m) THEN s.SNonce ELSE @,
              !.alt_snonce_valid = (@ \/ SNonceUpdate(s, m)) /\ ~AltUsed(s, m),
              !.alt_replay_counter = IF SNonceUpdate(s, m) THEN s.replay ELSE @,
              !.MICVerified = MicChecked(s, m),
              !.timers = TimersLeft(s, m),
              !.pending_1_of_4_timeout = @ /\ ~MicChecked(s, m),
              !.PTK = PtkOf(s, m),
              !.SNonce = IF AltUsed(s, m) THEN s.alt_SNonce ELSE @,
              !.key_replay = CountersLeft(s, m)]},
               y \in {IF m.type = "2/4" THEN {k \in s.key_replay : k > m.ctr}
                     ELSE {}}}
    BY <1>3 DEF MarkReceived
  <2> QED BY <1>3, <2>1 DEF AuthState
<1> HIDE DEF r, n
<1>9. MicChecked(s, m) \/ n.timers = s.timers
  BY <1>5, <1>8 DEF TimersLeft
<1>10. m.type = "4/4" =>
         /\ s.wpa_ptk_state = "PTKINITNEGOTIATING" /\ ~SNonceUpdate(s, m)
         /\ PtkOf(s, m) = m.mic
  BY DEF Accepts, ExpectedInState, SNonceUpdate, MicChecked, PtkOf, AltUsed
<1>11. m.type = "2/4" =>
         /\ m.ctr \in s.key_replay \cup s.prev_key_replay
         /\ MicChecked(s, m) => PtkOf(s, m) = m.mic
         /\ s.wpa_ptk_state = "PTKINITNEGOTIATING" => SNonceUpdate(s, m)
  BY DEF Accepts, wpa_auth_valid_counter, ExpectedInState, SNonceUpdate, AltMsg4,
     AltMicOk, PtkOf, AltUsed
<1>12. IsAnswered(s, n, m)
  BY ZenonT(40), <1>2, <1>3, <1>4, <1>5, <1>6, <1>7, <1>8, <1>9, <1>10, <1>11
     DEF IsAnswered, SameCourse, SameNonces, SameKey
<1> QED BY <1>1, <1>2, <1>12

\* wpa_receive() of an EAPOL-Key Request.
LEMMA RequestInput ==
  ASSUME NEW s, Idle(s), NEW m \in SuppMsg, Accepts(s, m), m.type = "Request",
         NEW env
  PROVE  \E n : /\ AuthInv(n) /\ AsksForKey(s, n)
               /\ wpa_receive(s, m, env) = wpa_sm_step(n, env)
<1> DEFINE r == MarkReceived(s, m)
           n == [r EXCEPT !.rx_mic = m.mic,
                          !.EAPOLKeyReceived = m.type # "Request",
                          !.SNonce = IF m.type = "2/4" THEN m.nonce ELSE @]
<1>1. wpa_receive(s, m, env) = wpa_sm_step(n, env) BY DEF wpa_receive
<1>2. AuthInv(n) /\ n.present BY ReceiveRequest
<1>3. s \in AuthState BY DEF Idle, Kept, AuthInv
<1>4. /\ SameCourse(s, r) /\ SameKey(s, r) /\ SameFrames(s, r)
      /\ r.request \in {"Disconnect", "PTKRequest"}
      /\ wpa_deny_ptk0_rekey => r.request = "Disconnect"
  BY <1>3 DEF MarkReceived, wpa_request_new_ptk, AuthState, CountersLeft,
     SameCourse, SameNonces, SameKey, SameFrames
<1>5. /\ SameCourse(r, n) /\ SameKey(r, n) /\ SameFrames(r, n)
      /\ n.request = r.request /\ ~n.EAPOLKeyReceived
  <2> DEFINE w == [s EXCEPT
              !.update_snonce = @ \/ SNonceUpdate(s, m),
              !.alt_SNonce = IF SNonceUpdate(s, m) THEN s.SNonce ELSE @,
              !.alt_snonce_valid = (@ \/ SNonceUpdate(s, m)) /\ ~AltUsed(s, m),
              !.alt_replay_counter = IF SNonceUpdate(s, m) THEN s.replay ELSE @,
              !.MICVerified = MicChecked(s, m),
              !.timers = TimersLeft(s, m),
              !.pending_1_of_4_timeout = @ /\ ~MicChecked(s, m),
              !.PTK = PtkOf(s, m),
              !.SNonce = IF AltUsed(s, m) THEN s.alt_SNonce ELSE @,
              !.key_replay = CountersLeft(s, m)]
             x == [w EXCEPT !.req_replay_counter = m.ctr + 1]
             y == [x EXCEPT !.request = "Disconnect"]
             z == [x EXCEPT !.request = "PTKRequest", !.PTK_valid = FALSE]
             After(q) == [q EXCEPT !.rx_mic = m.mic, !.EAPOLKeyReceived = FALSE,
                                   !.SNonce = q.SNonce]
  <2>1. r = y \/ r = z
    BY DEF MarkReceived, wpa_request_new_ptk
  <2>2. n = After(r)
    <3>1. (m.type # "Request") = FALSE OBVIOUS
    <3> HIDE DEF r
    <3> QED BY <3>1
  <2> HIDE DEF r, n
  <2>3. ASSUME NEW q \in {y, z}
        PROVE  /\ SameCourse(q, After(q)) /\ SameKey(q, After(q))
               /\ SameFrames(q, After(q)) /\ After(q).request = q.request
               /\ ~After(q).EAPOLKeyReceived
    BY <1>3 DEF AuthState, SameCourse, SameNonces, SameKey, SameFrames
  <2> HIDE DEF y, z, After
  <2> QED BY <2>1, <2>2, <2>3
<1> HIDE DEF r, n
<1>6. AsksForKey(s, n)
  BY <1>2, <1>4, <1>5 DEF AsksForKey, SameCourse, SameNonces, SameKey, SameFrames
<1> QED BY <1>1, <1>2, <1>6
-----------------------------------------------------------------------------
(* The step loop and the entry points as a whole. *)

\* Between two events, C being the keys the station has confirmed.
Sound(s, C) == Idle(s) /\ AtRest(s) /\ RoundInv(s, C)

\* What an entry point may hand to the step loop.
Ready(n, C) == AuthInv(n) /\ FourRounds(n) /\ RoundInv(n, C)

\* The step loop makes a machine that is ready sound again.
LEMMA LoopSound ==
  ASSUME NEW n, NEW C, Ready(n, C), NEW env
  PROVE  Sound(wpa_sm_step(n, env), C)
<1> DEFINE G == {s \in AuthState : AuthInv(s) /\ RoundInv(s, C)}
           v == wpa_sm_step(n, env)
<1>1. n \in G BY DEF Ready, AuthInv
<1>2. ASSUME NEW s \in G PROVE SM_STEP_WPA_PTK(s, env) \in G
  <2> DEFINE w == SM_STEP_WPA_PTK(s, env)
  <2>1. Kept(w) /\ Stepped(s, w) BY StepKept, StepFields
  <2> HIDE DEF w
  <2>2. AuthInv(w) /\ w \in AuthState BY <2>1 DEF Kept, AuthInv
  <2>3. CountersInv(w) BY <2>1, <2>2, RoundCounters DEF RoundInv
  <2>4. ConfirmedInv(w, C) BY <2>1, RoundConfirmed DEF RoundInv
  <2>5. CourseInv(w) BY <2>1, RoundCourse DEF RoundInv
  <2>6. w \in G BY <2>2, <2>3, <2>4, <2>5 DEF RoundInv
  <2> QED BY <2>6 DEF w
<1>3. v \in G
  <2> HIDE DEF G
  <2> QED BY <1>1, <1>2, LoopKeeps
<1>4. AtRest(v) BY LoopRests DEF Ready
<1> HIDE DEF v
<1>5. Idle(v) BY <1>3, <1>4 DEF Idle, Kept, AtRest
<1>6. Sound(v, C) BY <1>3, <1>4, <1>5 DEF Sound
<1> QED BY <1>6 DEF v

\* A machine at rest comes out of the step loop as it went in.
LEMMA LoopStays ==
  ASSUME NEW n, AuthInv(n), AtRest(n), NEW env
  PROVE  wpa_sm_step(n, env) = n
<1>1. SM_STEP_WPA_PTK(n, env) = n BY StepFields, RestStays
<1> QED BY <1>1 DEF wpa_sm_step

\* Removing the PTK of a machine at rest leaves it sound and at rest.
LEMMA ForgetsSound ==
  ASSUME NEW s, NEW C, Sound(s, C), NEW n, AuthInv(n), Forgets(s, n)
  PROVE  Sound(n, C) /\ Ready(n, C)
<1>1. AtRest(n)
  <2>1. RetryLimitReached(n) <=> RetryLimitReached(s)
    BY DEF Forgets, SameCourse, RetryLimitReached
  <2> QED BY <2>1 DEF Sound, Forgets, SameCourse, SameAnswer, AtRest, Waiting
<1>2. CountersInv(n)
  BY DEF Sound, RoundInv, Forgets, SameCourse, SameFrames, SameAnswer, CountersInv
<1>3. ConfirmedInv(n, C)
  BY <1>1 DEF Forgets, Dropped, ConfirmedInv, AtRest
<1>4. CourseInv(n)
  BY DEF Sound, RoundInv, Forgets, SameCourse, Dropped, CourseInv
<1>5. Idle(n) BY <1>1 DEF Idle, Kept, AtRest
<1> QED BY <1>1, <1>2, <1>3, <1>4, <1>5
        DEF Sound, Ready, RoundInv, FourRounds, ThreeRounds, TwoRounds, OneRound

\* A timeout takes at most two rounds.
LEMMA TimesOutReady ==
  ASSUME NEW s, NEW C, Sound(s, C), NEW n, AuthInv(n), TimesOut(s, n)
  PROVE  Ready(n, C)
<1>1. n.request = "none" /\ ~n.EAPOLKeyReceived
  BY DEF Sound, AtRest, TimesOut, SameAnswer
<1>2. FourRounds(n)
  <2>1. CASE s.present => s.wpa_ptk_state \in {"INITIALIZE", "PTKINITDONE"}
    BY <1>1, <2>1 DEF TimesOut, SameCourse, FourRounds, ThreeRounds, TwoRounds,
       OneRound, AtRest
  <2>2. CASE s.present /\ Waiting(s)
    BY <1>1, <2>2 DEF Waiting, TimesOut, SameCourse, FourRounds, ThreeRounds,
       TwoRounds
  <2> QED BY <2>1, <2>2 DEF Sound, AtRest
<1>3. CountersInv(n)
  BY DEF Sound, RoundInv, TimesOut, SameCourse, SameFrames, SameAnswer, CountersInv
<1>4. ConfirmedInv(n, C)
  BY <1>1 DEF Sound, RoundInv, TimesOut, SameKey, ConfirmedInv
<1>5. CourseInv(n)
  BY DEF Sound, RoundInv, TimesOut, SameCourse, SameKey, CourseInv
<1> QED BY <1>2, <1>3, <1>4, <1>5 DEF Ready, RoundInv

\* So does a request for a new key.
LEMMA AsksReady ==
  ASSUME NEW s, NEW C, Sound(s, C), NEW n, AuthInv(n), AsksForKey(s, n)
  PROVE  Ready(n, C)
<1>1. FourRounds(n)
  BY DEF AsksForKey, FourRounds, ThreeRounds, TwoRounds, OneRound
<1>2. CountersInv(n)
  BY DEF Sound, RoundInv, AsksForKey, SameCourse, SameFrames, CountersInv
<1>3. ConfirmedInv(n, C)
  BY DEF Sound, RoundInv, AsksForKey, SameKey, ConfirmedInv
<1>4. CourseInv(n)
  BY DEF Sound, RoundInv, AsksForKey, SameCourse, SameKey, CourseInv
<1> QED BY <1>1, <1>2, <1>3, <1>4 DEF Ready, RoundInv

\* Leaving and associating restart the counters under a request.
LEMMA RestartsReady ==
  ASSUME NEW s, NEW C, Sound(s, C), NEW n, AuthInv(n),
         Restarts(s, n) \/ Begins(s, n)
  PROVE  Ready(n, C)
<1>1. FourRounds(n)
  BY DEF Restarts, Begins, FourRounds, ThreeRounds, TwoRounds, OneRound
<1>2. CountersInv(n)
  BY DEF Sound, RoundInv, Restarts, Begins, SameCourse, SameFrames, CountersInv
<1>3. ConfirmedInv(n, C)
  BY DEF Restarts, Begins, Dropped, ConfirmedInv
<1>4. CourseInv(n)
  BY DEF Sound, RoundInv, Restarts, Begins, SameCourse, Dropped, CourseInv
<1> QED BY <1>1, <1>2, <1>3, <1>4 DEF Ready, RoundInv

\* An answer: message 4/4 confirms the key that it is made with.
LEMMA AnswerReady ==
  ASSUME NEW s, NEW C, Sound(s, C), NEW n, AuthInv(n), NEW m \in SuppMsg,
         m.type = "4/4" => m.mic \in C, m.type # "Request", IsAnswered(s, n, m)
  PROVE  Ready(n, C)
<1>1. m.type \in {"2/4", "4/4"} BY DEF SuppMsg
<1>2. s.key_replay \in SUBSET Nat /\ s.replay \in Nat
  BY DEF Sound, Idle, Kept, AuthInv, AuthState
<1>3. FourRounds(n)
  <2>1. s.present /\ s.wpa_ptk_state \in {"PTKSTART", "PTKINITNEGOTIATING"}
    BY DEF IsAnswered, SameCourse
  <2>2. s.timers > 0 BY <2>1 DEF Sound, AtRest, Waiting
  <2>3. n.MICVerified \/ n.timers > 0 BY <2>2 DEF IsAnswered
  <2> QED BY <2>3 DEF IsAnswered, FourRounds, ThreeRounds
<1>4. CountersInv(n)
  BY <1>2 DEF Sound, RoundInv, IsAnswered, CountersInv
<1>5. ConfirmedInv(n, C)
  BY <1>1 DEF Sound, RoundInv, IsAnswered, SameKey, ConfirmedInv
<1>6. CourseInv(n)
  BY DEF Sound, RoundInv, IsAnswered, SameCourse, SameKey, CourseInv
<1> QED BY <1>3, <1>4, <1>5, <1>6 DEF Ready, RoundInv

\* A machine that is freed, or just allocated, is sound.
LEMMA FreshSound ==
  ASSUME NEW s, AuthInv(s), NEW C
  PROVE  /\ Sound(wpa_auth_sta_deinit(s), C) /\ Sound(wpa_auth_sta_init(s), C)
         /\ wpa_auth_sta_init(s).present
<1> DEFINE d == wpa_auth_sta_deinit(s)
           i == [d EXCEPT !.present = TRUE]
<1>1. AuthInv(d) /\ Gone(s, d) BY StaDeinit, GoneFields
<1>2. AuthInv(i)
  <2>1. i = wpa_auth_sta_init(s) BY DEF wpa_auth_sta_init
  <2> QED BY <2>1, StaInit
<1>3. i = wpa_auth_sta_init(s) BY DEF wpa_auth_sta_init
<1> HIDE DEF d
<1>4. /\ i.present /\ i.request = "none" /\ i.wpa_ptk_state = "INITIALIZE"
      /\ i.tk = NoPTK /\ ~i.pairwise_set /\ i.key_replay = {} /\ i.prev_key_replay = {}
      /\ ~i.EAPOLKeyReceived
  BY <1>1 DEF Gone, AuthInv, AuthState
<1> HIDE DEF i
<1>5. Sound(d, C)
  BY <1>1 DEF Gone, Sound, Idle, Kept, AtRest, RoundInv, CountersInv,
     ConfirmedInv, CourseInv
<1>6. Sound(i, C)
  BY <1>2, <1>4 DEF Sound, Idle, Kept, AtRest, RoundInv, CountersInv,
     ConfirmedInv, CourseInv
<1> QED BY <1>3, <1>4, <1>5, <1>6 DEF d

\* More confirmed keys do no harm.
LEMMA SoundMore ==
  ASSUME NEW s, NEW C, NEW D, C \subseteq D, Sound(s, C)
  PROVE  Sound(s, D)
  BY DEF Sound, RoundInv, ConfirmedInv
-----------------------------------------------------------------------------
(* What an event may do to the driver's key and when it sends message 3/4. *)

\* The driver gets no key, and no message 3/4 is sent when retries are disabled.
Silent(s, v) ==
  /\ v.tk \in {s.tk, NoPTK} /\ v.installs = s.installs
  /\ wpa_disable_eapol_key_retries => \A m \in v.tx \ s.tx : m.type # "3/4"

\* The messages 3/4 sent since T was the set of frames are under a key of M, and
\* so will be the next one.
Msg3Inv(s, T, M) ==
  /\ \A m \in s.tx \ T : m.type = "3/4" => m.mic \in M
  /\ s.EAPOLKeyReceived /\ (s.wpa_ptk_state = "PTKSTART" \/ s.update_snonce)
     => s.rx_mic \in M /\ (s.MICVerified => s.PTK \in M)
  /\ s.present /\ s.request = "none" =>
       /\ s.wpa_ptk_state = "PTKCALCNEGOTIATING" /\ s.MICVerified => s.PTK \in M
       /\ s.wpa_ptk_state = "PTKCALCNEGOTIATING2" => s.PTK \in M

\* A round without a frame hands the driver nothing.
LEMMA RoundKeepsKey ==
  ASSUME NEW s, NEW v, AuthInv(s), ~s.EAPOLKeyReceived, Stepped(s, v)
  PROVE  v.tk \in {s.tk, NoPTK} /\ v.installs = s.installs
<1>1. ~s.update_snonce BY DEF AuthInv, ReceivedInv
<1>2. /\ Gone(s, v) \/ Initialized(s, v) => v.tk = NoPTK /\ v.installs = s.installs
      /\ Negotiates(s, v) => v.tk = s.tk /\ v.installs = s.installs
      /\ \A q : Enters(s, v, q) => v.tk = s.tk /\ v.installs = s.installs
      /\ \A n : Started(s, v, n) => v.tk = s.tk /\ v.installs = s.installs
  BY DEF Gone, Initialized, Negotiates, Enters, Started, SameKey
<1> HIDE DEF Gone, Initialized, Negotiates, Enters, Started
<1>3. CASE ByRequest(s, v) BY <1>2, <1>3 DEF ByRequest
<1>4. CASE ByState(s, v)
  BY <1>1, <1>2, <1>4 DEF ByState, FromPtkStart, FromCalcNegotiating,
     FromInitNegotiating
<1> QED BY <1>3, <1>4 DEF Stepped

\* Nor does the loop.
LEMMA LoopKeepsKey ==
  ASSUME NEW n, Kept(n), NEW env
  PROVE  LET v == wpa_sm_step(n, env)
         IN  v.tk \in {n.tk, NoPTK} /\ v.installs = n.installs
<1> DEFINE G == {s \in AuthState : /\ Kept(s) /\ s.tk \in {n.tk, NoPTK}
                                   /\ s.installs = n.installs}
<1>1. n \in G BY DEF Kept, AuthInv
<1>2. ASSUME NEW s \in G PROVE SM_STEP_WPA_PTK(s, env) \in G
  <2> DEFINE w == SM_STEP_WPA_PTK(s, env)
  <2>1. Kept(w) /\ Stepped(s, w) BY StepKept, StepFields DEF Kept
  <2> HIDE DEF w
  <2>2. w.tk \in {s.tk, NoPTK} /\ w.installs = s.installs
    BY <2>1, RoundKeepsKey DEF Kept
  <2>3. w \in G BY <2>1, <2>2 DEF Kept, AuthInv
  <2> QED BY <2>3 DEF w
<1>3. wpa_sm_step(n, env) \in G
  <2> HIDE DEF G
  <2> QED BY <1>1, <1>2, LoopKeeps
<1> QED BY <1>3

\* With retries disabled a round sends message 3/4 only right after the round
\* that derived the PTK.
LEMMA RoundMsg3 ==
  ASSUME NEW s, NEW v, NEW T, NEW M, wpa_disable_eapol_key_retries,
         AuthInv(s), Kept(v), CourseInv(s), Msg3Inv(s, T, M), Stepped(s, v)
  PROVE  Msg3Inv(v, T, M)
<1>1. /\ s.update_snonce => s.EAPOLKeyReceived
      /\ s.TimeoutCtr \in Nat /\ ~v.EAPOLKeyReceived
  BY DEF AuthInv, AuthState, ReceivedInv, Kept
<1>2. CASE v = s BY <1>2
<1>3. CASE Gone(s, v) BY <1>1, <1>3 DEF Gone, Msg3Inv
<1>4. CASE Initialized(s, v) \/ Installed(s, v)
  BY <1>1, <1>4 DEF Initialized, Installed, SameFrames, Msg3Inv
<1>5. ASSUME NEW q, q \notin {"PTKCALCNEGOTIATING", "PTKCALCNEGOTIATING2"},
             Enters(s, v, q)
      PROVE  Msg3Inv(v, T, M)
  BY <1>1, <1>5 DEF Enters, SameFrames, Msg3Inv
<1>6. ASSUME NEW n, Started(s, v, n) PROVE Msg3Inv(v, T, M)
  BY <1>1, <1>6 DEF Started, Sends, SameFrames, Msg3Inv
<1>7. CASE Calculated(s, v) /\ s.EAPOLKeyReceived
             /\ (s.wpa_ptk_state = "PTKSTART" \/ s.update_snonce)
  BY <1>1, <1>7 DEF Calculated, SameFrames, Msg3Inv
<1>8. CASE /\ s.wpa_ptk_state = "PTKCALCNEGOTIATING" /\ s.MICVerified
           /\ s.request = "none" /\ s.present
           /\ Enters(s, v, "PTKCALCNEGOTIATING2") /\ v.PTK = s.PTK
  BY <1>1, <1>8 DEF Enters, SameFrames, Msg3Inv
<1>9. CASE /\ s.wpa_ptk_state = "PTKCALCNEGOTIATING2" /\ s.request = "none"
           /\ s.present /\ Negotiates(s, v)
  BY <1>1, <1>9 DEF Negotiates, Sends, SameFrames, Msg3Inv
<1>10. CASE s.wpa_ptk_state = "PTKINITNEGOTIATING" /\ Negotiates(s, v)
  <2>1. v.TimeoutCtr > 1 BY <1>1, <1>10 DEF CourseInv, Negotiates
  <2>2. RetryLimitReached(v) BY <2>1 DEF RetryLimitReached
  <2> QED BY <1>1, <1>10, <2>2 DEF Negotiates, SameFrames, Msg3Inv
<1> HIDE DEF Gone, Initialized, Installed, Negotiates, Enters, Started, Calculated,
             Msg3Inv
<1>11. CASE ByRequest(s, v) BY <1>3, <1>4, <1>5, <1>6, <1>11 DEF ByRequest
<1>12. CASE s.present /\ s.request = "none" /\ ByState(s, v)
  BY <1>1, <1>2, <1>3, <1>4, <1>5, <1>6, <1>7, <1>8, <1>9, <1>10, <1>12
     DEF ByState, FromPtkStart, FromCalcNegotiating, FromInitNegotiating
<1> QED BY <1>2, <1>11, <1>12 DEF Stepped

\* Nor does the loop.
LEMMA LoopMsg3 ==
  ASSUME NEW n, NEW T, NEW M, wpa_disable_eapol_key_retries,
         AuthInv(n), CourseInv(n), Msg3Inv(n, T, M), NEW env
  PROVE  \A m \in wpa_sm_step(n, env).tx \ T : m.type = "3/4" => m.mic \in M
<1> DEFINE G == {s \in AuthState : AuthInv(s) /\ CourseInv(s) /\ Msg3Inv(s, T, M)}
<1>1. n \in G BY DEF AuthInv
<1>2. ASSUME NEW s \in G PROVE SM_STEP_WPA_PTK(s, env) \in G
  <2> DEFINE w == SM_STEP_WPA_PTK(s, env)
  <2>1. Kept(w) /\ Stepped(s, w) BY StepKept, StepFields
  <2> HIDE DEF w
  <2>2. CourseInv(w) BY <2>1, RoundCourse
  <2>3. Msg3Inv(w, T, M) BY <2>1, RoundMsg3
  <2>4. w \in G BY <2>1, <2>2, <2>3 DEF Kept, AuthInv
  <2> QED BY <2>4 DEF w
<1>3. wpa_sm_step(n, env) \in G
  <2> HIDE DEF G
  <2> QED BY <1>1, <1>2, LoopKeeps
<1> QED BY <1>3 DEF Msg3Inv

\* An event other than a message 2/4 or 4/4.
LEMMA EventSound ==
  ASSUME NEW s, NEW C, Sound(s, C), NEW n, AuthInv(n), NEW env,
         \/ Forgets(s, n) \/ TimesOut(s, n) \/ AsksForKey(s, n)
         \/ Restarts(s, n) \/ Begins(s, n)
  PROVE  LET v == wpa_sm_step(n, env) IN Sound(v, C) /\ Silent(s, v)
<1> DEFINE v == wpa_sm_step(n, env)
<1>1. Ready(n, C)
  BY ForgetsSound, TimesOutReady, AsksReady, RestartsReady
<1>2. Sound(v, C) BY <1>1, LoopSound
<1>3. ~n.EAPOLKeyReceived /\ n.tk \in {s.tk, NoPTK} /\ n.installs = s.installs
      /\ n.tx = s.tx
  BY DEF Sound, AtRest, Forgets, TimesOut, AsksForKey, Restarts, Begins,
     SameAnswer, SameKey, SameFrames, Dropped
<1>4. v.tk \in {n.tk, NoPTK} /\ v.installs = n.installs
  BY <1>3, LoopKeepsKey DEF Kept
<1>5. Msg3Inv(n, s.tx, {})
  <2>1. ASSUME s.present, n.request = "none",
               n.wpa_ptk_state \in {"PTKCALCNEGOTIATING", "PTKCALCNEGOTIATING2"}
        PROVE  n.wpa_ptk_state = "PTKCALCNEGOTIATING" /\ ~n.MICVerified
    BY <2>1 DEF Sound, AtRest, Waiting, Forgets, TimesOut, AsksForKey, Restarts,
       Begins, SameCourse, SameAnswer
  <2>2. ASSUME ~s.present, n.request = "none"
        PROVE  n.wpa_ptk_state = s.wpa_ptk_state /\ ~n.present
    BY <2>2 DEF Forgets, TimesOut, AsksForKey, Restarts, Begins, SameCourse
  <2>3. s.present \in BOOLEAN BY DEF Sound, Idle, Kept, AuthInv, AuthState
  <2>4. /\ n.present /\ n.request = "none" /\ n.wpa_ptk_state = "PTKCALCNEGOTIATING"
           => ~n.MICVerified
        /\ n.present /\ n.request = "none"
           => n.wpa_ptk_state # "PTKCALCNEGOTIATING2"
    BY <2>1, <2>2, <2>3
  <2> QED BY <1>3, <2>4 DEF Msg3Inv
<1>6. wpa_disable_eapol_key_retries => \A m \in v.tx \ s.tx : m.type # "3/4"
  BY <1>1, <1>5, LoopMsg3 DEF Ready, RoundInv
<1> HIDE DEF v
<1> QED BY <1>2, <1>3, <1>4, <1>6 DEF Silent, v

\* A message 4/4 may hand the driver the key it is made with.
Installs(s, v, k) ==
  /\ v.wpa_ptk_state = "PTKINITDONE"
  /\ v.tk = k /\ v.installs = s.installs \cup {k}

\* A message 2/4 or 4/4: message 3/4 answers a message 2/4, under its key.
LEMMA AnswerSound ==
  ASSUME NEW s, NEW C, Sound(s, C), NEW n, AuthInv(n), NEW env,
         NEW m \in SuppMsg, m.type = "4/4" => m.mic \in C, m.type # "Request",
         IsAnswered(s, n, m)
  PROVE  LET v == wpa_sm_step(n, env)
         IN  /\ Sound(v, C)
             /\ \/ v.tk \in {s.tk, NoPTK} /\ v.installs = s.installs
                \/ m.type = "4/4" /\ Installs(s, v, m.mic)
             /\ wpa_disable_eapol_key_retries =>
                  \A k \in v.tx \ s.tx :
                    k.type = "3/4" => m.type = "2/4" /\ k.mic = m.mic
<1> DEFINE a == SM_STEP_WPA_PTK(n, env)
           b == SM_STEP_WPA_PTK(SM_STEP_WPA_PTK(SM_STEP_WPA_PTK(a, env), env), env)
           v == wpa_sm_step(n, env)
           M == IF m.type = "2/4" THEN {m.mic} ELSE {}
<1>1. Ready(n, C) BY AnswerReady
<1>2. Sound(v, C) BY <1>1, LoopSound
<1>3. m.type \in {"2/4", "4/4"} BY DEF SuppMsg
<1>4. /\ n.tk = s.tk /\ n.installs = s.installs /\ n.tx = s.tx
      /\ n.present /\ n.request = "none" /\ n.EAPOLKeyReceived
      /\ n.wpa_ptk_state \in {"PTKSTART", "PTKINITNEGOTIATING"}
  BY DEF IsAnswered, SameKey
<1>5. Msg3Inv(n, s.tx, M)
  BY <1>3, <1>4 DEF Msg3Inv, IsAnswered
<1>6. wpa_disable_eapol_key_retries =>
        \A k \in v.tx \ s.tx : k.type = "3/4" => m.type = "2/4" /\ k.mic = m.mic
  BY <1>1, <1>5, LoopMsg3 DEF Ready, RoundInv
<1>7. \/ v.tk \in {s.tk, NoPTK} /\ v.installs = s.installs
      \/ (m.type = "4/4" /\ Installs(s, v, m.mic))
  <2>1. Kept(a) /\ Stepped(n, a) BY StepKept, StepFields
  <2>2. v = SM_STEP_WPA_PTK(SM_STEP_WPA_PTK(SM_STEP_WPA_PTK(a, env), env), env)
    BY DEF wpa_sm_step
  <2> HIDE DEF a, v
  <2>3. ByState(n, a) BY <1>4, <2>1 DEF Stepped
  <2>4. Calculated(n, a) \/ Gone(n, a) \/ (m.type = "4/4" /\ Installed(n, a))
    BY <1>3, <1>4, <2>3 DEF ByState, FromPtkStart, FromInitNegotiating, IsAnswered
  <2>5. CASE Calculated(n, a) \/ Gone(n, a)
    <3> DEFINE G == {x \in AuthState : /\ Kept(x) /\ x.tk \in {s.tk, NoPTK}
                                       /\ x.installs = s.installs}
    <3>1. a \in G
      BY <1>4, <2>1, <2>5 DEF Calculated, Gone, SameKey, Kept, AuthInv
    <3>2. ASSUME NEW x \in G PROVE SM_STEP_WPA_PTK(x, env) \in G
      <4> DEFINE w == SM_STEP_WPA_PTK(x, env)
      <4>1. Kept(w) /\ Stepped(x, w) BY StepKept, StepFields DEF Kept
      <4> HIDE DEF w
      <4>2. w.tk \in {x.tk, NoPTK} /\ w.installs = x.installs
        BY <4>1, RoundKeepsKey DEF Kept
      <4>3. w \in G BY <4>1, <4>2 DEF Kept, AuthInv
      <4> QED BY <4>3 DEF w
    <3>3. v \in G
      <4> HIDE DEF G
      <4> QED BY <2>2, <3>1, <3>2
    <3> QED BY <3>3
  <2>6. CASE m.type = "4/4" /\ Installed(n, a)
    <3>1. AtRest(a) BY <1>4, <2>1, <2>6 DEF Installed, AtRest, Kept
    <3>2. SM_STEP_WPA_PTK(a, env) = a
      BY <2>1, <3>1, StepFields, RestStays DEF Kept
    <3>3. v = a BY <2>2, <3>2
    <3>4. n.PTK = m.mic BY <2>6 DEF IsAnswered
    <3> QED BY <1>4, <2>6, <3>3, <3>4 DEF Installed, Installs
  <2> QED BY <2>4, <2>5, <2>6
<1> HIDE DEF v
<1> QED BY <1>2, <1>6, <1>7 DEF v
-----------------------------------------------------------------------------
(***************************************************************************)
(* Nonces.  A handshake begins with a draw, and the frames of a handshake  *)
(* carry the ANonce drawn for it.                                          *)
(***************************************************************************)
WillDraw(s) ==
  /\ s.present
  /\ \/ s.request \in {"AuthenticationRequest", "ReAuthenticationRequest",
                       "PTKRequest"}
     \/ s.request = "none" /\ s.wpa_ptk_state = "AUTHENTICATION"

InHandshake(s) ==
  s.present /\ s.request = "none" /\ s.wpa_ptk_state \in Handshaking

\* New frames carry the ANonce.
NamesANonce(s, v) == \A m \in v.tx : m \in s.tx \/ m.nonce = v.ANonce

GoesOn(s, v) ==
  /\ SameNonces(s, v) /\ NamesANonce(s, v)
  /\ WillDraw(v) => WillDraw(s)
  /\ InHandshake(v) => InHandshake(s)

Draws(s, v) ==
  /\ v.nonces = s.nonces + 1 /\ v.ANonce = s.nonces + 1 /\ NamesANonce(s, v)
  /\ WillDraw(s) /\ ~WillDraw(v)

Leaves(s, v) == ~v.present /\ v.nonces = s.nonces /\ v.tx = s.tx

NonceStep(s, v) == GoesOn(s, v) \/ Draws(s, v) \/ Leaves(s, v)

\* The states that send nothing and draw nothing.
LEMMA QuietNonces ==
  ASSUME NEW s \in AuthState,
         NEW v \in {INITIALIZE(s), DISCONNECTED(s), AUTHENTICATION(s), INITPSK(s),
                    PTKCALCNEGOTIATING2(s)}
  PROVE  SameNonces(s, v) /\ v.tx = s.tx
  BY DEF INITIALIZE, wpa_remove_ptk, DISCONNECTED, AUTHENTICATION, INITPSK,
     PTKCALCNEGOTIATING2, SameNonces, AuthState

\* The states that send.
LEMMA SendNonces ==
  ASSUME NEW s \in AuthState, NEW v \in {PTKSTART(s), PTKINITNEGOTIATING(s)}
  PROVE  SameNonces(s, v) /\ NamesANonce(s, v)
<1>1. ASSUME NEW r \in AuthState, NEW type, NEW mic
      PROVE  LET w == wpa_send_eapol(r, type, mic)
             IN  SameNonces(r, w) /\ NamesANonce(r, w)
  BY <1>1 DEF wpa_send_eapol, SameNonces, NamesANonce, AuthState
<1>2. CASE v = PTKSTART(s)
  <2> DEFINE p == s.ptkstart_without_success + 1
             c == s.TimeoutCtr + 1
             r == [s EXCEPT !.wpa_ptk_state = "PTKSTART", !.request = "none",
                            !.TimeoutEvt = FALSE, !.alt_snonce_valid = FALSE,
                            !.ptkstart_without_success = p, !.TimeoutCtr = c]
  <2>1. p \in Nat /\ c \in Nat BY DEF AuthState
  <2>2. v \in {r, wpa_send_eapol(r, "1/4", NoPTK)} BY <1>2 DEF PTKSTART, AuthState
  <2> HIDE DEF p, c
  <2>3. r \in AuthState BY ZenonT(40), <2>1 DEF AuthState, PtkStates, Requests
  <2>4. SameNonces(s, r) /\ r.tx = s.tx BY DEF SameNonces, AuthState
  <2> HIDE DEF r
  <2> QED BY <1>1, <2>2, <2>3, <2>4 DEF SameNonces, NamesANonce
<1>3. CASE v = PTKINITNEGOTIATING(s)
  <2> DEFINE c == s.TimeoutCtr + 1
             r == [s EXCEPT !.wpa_ptk_state = "PTKINITNEGOTIATING",
                            !.TimeoutEvt = FALSE, !.TimeoutCtr = c]
  <2>1. c \in Nat BY DEF AuthState
  <2>2. v \in {r, wpa_send_eapol(r, "3/4", r.PTK)}
    BY <1>3 DEF PTKINITNEGOTIATING, AuthState
  <2> HIDE DEF c
  <2>3. r \in AuthState BY <2>1 DEF AuthState, PtkStates
  <2>4. SameNonces(s, r) /\ r.tx = s.tx BY DEF SameNonces, AuthState
  <2> HIDE DEF r
  <2> QED BY <1>1, <2>2, <2>3, <2>4 DEF SameNonces, NamesANonce
<1> QED BY <1>2, <1>3

\* The states that may free the machine.
LEMMA KeyNonces ==
  ASSUME NEW s \in AuthState, NEW env,
         NEW v \in {PTKCALCNEGOTIATING(s, env), PTKINITDONE(s, env)}
  PROVE  Leaves(s, v) \/ (SameNonces(s, v) /\ v.tx = s.tx)
  BY CalcFields, DoneFields DEF Gone, Calculated, Installed, SameFrames, Leaves

\* wpa_free_sta_sm()
LEMMA LeaveNonces ==
  ASSUME NEW s
  PROVE  Leaves(s, wpa_auth_sta_deinit(s))
  BY DEF Leaves, wpa_auth_sta_deinit, AuthInit

\* The draw itself, and the states it happens in.
LEMMA DrawNonces ==
  ASSUME NEW s \in AuthState
  PROVE  LET a == AUTHENTICATION2(s)
             p == PTKSTART(NewANonce(s))
         IN  /\ a.nonces = s.nonces + 1 /\ a.ANonce = s.nonces + 1 /\ a.tx = s.tx
             /\ p.nonces = s.nonces + 1 /\ p.ANonce = s.nonces + 1
             /\ NamesANonce(s, p)
<1> DEFINE c == s.nonces + 1
           r == [s EXCEPT !.nonces = c, !.ANonce = c, !.TimeoutCtr = 0]
<1>1. NewANonce(s) = r BY DEF NewANonce, AuthState
<1>2. c \in Nat BY DEF AuthState
<1> HIDE DEF c
<1>3. r \in AuthState BY <1>2 DEF AuthState
<1>4. r.nonces = c /\ r.ANonce = c /\ r.tx = s.tx BY DEF AuthState
<1> HIDE DEF r
<1>5. /\ AUTHENTICATION2(s).nonces = c /\ AUTHENTICATION2(s).ANonce = c
      /\ AUTHENTICATION2(s).tx = s.tx
  BY <1>1, <1>3, <1>4 DEF AUTHENTICATION2, AuthState
<1>6. SameNonces(r, PTKSTART(r)) /\ NamesANonce(r, PTKSTART(r))
  BY <1>3, SendNonces
<1> QED BY <1>1, <1>4, <1>5, <1>6 DEF c, SameNonces, NamesANonce

\* SM_STEP(WPA_PTK): a round goes on, draws the nonce that it was to draw, or
\* frees the machine.
LEMMA StepNonces ==
  ASSUME NEW s, AuthInv(s), NEW env
  PROVE  NonceStep(s, SM_STEP_WPA_PTK(s, env))
<1> DEFINE v == SM_STEP_WPA_PTK(s, env)
<1>1. s \in AuthState BY DEF AuthInv
<1>2. Stepped(s, v) BY StepFields
<1>3. CASE v = s BY <1>3 DEF NonceStep, GoesOn, SameNonces, NamesANonce
<1>4. CASE ~s.present BY <1>3, <1>4 DEF SM_STEP_WPA_PTK
<1>5. ASSUME s.present, s.request # "none" PROVE NonceStep(s, v)
  <2>1. ByRequest(s, v) BY <1>2, <1>5 DEF Stepped
  <2>2. CASE s.request = "Disconnect"
    BY <1>5, <2>2, LeaveNonces
       DEF SM_STEP_WPA_PTK, DISCONNECT, wpa_sta_disconnect, NonceStep
  <2>3. CASE s.request \in {"Init", "DeauthenticationRequest",
                            "AuthenticationRequest"}
    <3>1. v \in {INITIALIZE(s), DISCONNECTED(s), AUTHENTICATION(s)}
      BY <1>5, <2>3 DEF SM_STEP_WPA_PTK
    <3>2. SameNonces(s, v) /\ v.tx = s.tx BY <1>1, <3>1, QuietNonces
    <3>3. /\ v.wpa_ptk_state \in {"INITIALIZE", "DISCONNECTED", "AUTHENTICATION"}
          /\ WillDraw(v) => s.request = "AuthenticationRequest"
      BY <2>1, <2>3 DEF ByRequest, Initialized, Enters, WillDraw
    <3>4. WillDraw(v) => WillDraw(s) BY <1>5, <3>3 DEF WillDraw
    <3>5. ~InHandshake(v) BY <3>3 DEF InHandshake, Handshaking
    <3> QED BY <3>2, <3>4, <3>5 DEF NonceStep, GoesOn, NamesANonce
  <2>4. CASE s.request \in {"ReAuthenticationRequest", "PTKRequest"}
    <3>1. v \in {AUTHENTICATION2(s), PTKSTART(NewANonce(s))}
      BY <1>5, <2>4 DEF SM_STEP_WPA_PTK
    <3>2. v.request = "none" /\ v.wpa_ptk_state # "AUTHENTICATION"
      BY <2>1, <2>4 DEF ByRequest, Enters, Started
    <3>3. WillDraw(s) /\ ~WillDraw(v) BY <1>5, <2>4, <3>2 DEF WillDraw
    <3> QED BY <1>1, <3>1, <3>3, DrawNonces DEF NonceStep, Draws, NamesANonce
  <2> QED BY <1>1, <1>5, <2>2, <2>3, <2>4 DEF AuthState, Requests
<1>6. ASSUME s.present, s.request = "none", v # s PROVE NonceStep(s, v)
  <2>1. ByState(s, v) BY <1>2, <1>6 DEF Stepped
  <2>2. v = Switch(s, env) BY ZenonT(40), <1>6 DEF SM_STEP_WPA_PTK
  <2> HIDE DEF v
  <2>3. CASE s.wpa_ptk_state = "AUTHENTICATION"
    <3>1. v = AUTHENTICATION2(s) BY <2>2, <2>3 DEF Switch
    <3>2. v.request = "none" /\ v.wpa_ptk_state = "AUTHENTICATION2"
      BY <2>1, <2>3 DEF ByState, Enters
    <3>3. WillDraw(s) /\ ~WillDraw(v) BY <1>6, <2>3, <3>2 DEF WillDraw
    <3> QED BY <1>1, <3>1, <3>3, DrawNonces DEF NonceStep, Draws, NamesANonce
  <2>4. CASE s.wpa_ptk_state = "DISCONNECTED"
    <3>1. v = INITIALIZE(s) BY <2>2, <2>4 DEF Switch
    <3>2. v.wpa_ptk_state = "INITIALIZE" /\ v.request = "none"
      BY <1>6, <2>1, <2>4 DEF ByState, Initialized
    <3>3. ~WillDraw(v) /\ ~InHandshake(v)
      BY <3>2 DEF WillDraw, InHandshake, Handshaking
    <3> QED BY <1>1, <3>1, <3>3, QuietNonces DEF NonceStep, GoesOn, NamesANonce
  <2>5. CASE s.wpa_ptk_state \in Handshaking
    <3>1. InHandshake(s) BY <1>6, <2>5 DEF InHandshake
    <3>2. v.wpa_ptk_state # "AUTHENTICATION" /\ v.request = "none"
      BY <1>6, <2>1, <2>5
         DEF Handshaking, ByState, FromPtkStart, FromCalcNegotiating,
             FromInitNegotiating, Enters, Started, Calculated, Negotiates,
             Installed, Gone
    <3>3. ~WillDraw(v) BY <3>2 DEF WillDraw
    <3>4. \/ v \in {INITPSK(s), PTKCALCNEGOTIATING2(s)}
          \/ v \in {PTKSTART(s), PTKINITNEGOTIATING(s)}
          \/ v \in {PTKCALCNEGOTIATING(s, env), PTKINITDONE(s, env)}
          \/ v = DISCONNECT(s)
      BY <1>6, <2>2, <2>5 DEF Switch, Handshaking
    <3>5. Leaves(s, v) \/ (SameNonces(s, v) /\ NamesANonce(s, v))
      BY <1>1, <3>4, QuietNonces, SendNonces, KeyNonces, LeaveNonces
         DEF DISCONNECT, wpa_sta_disconnect, NamesANonce
    <3> QED BY <3>1, <3>3, <3>5 DEF NonceStep, GoesOn
  <2>6. CASE s.wpa_ptk_state \in {"INITIALIZE", "PTKINITDONE"}
    BY <1>6, <2>2, <2>6 DEF Switch
  <2> QED BY <1>1, <2>3, <2>4, <2>5, <2>6 DEF AuthState, PtkStates, Handshaking
<1> QED BY <1>3, <1>4, <1>5, <1>6

\* The frames carry nonces drawn before, of which there are at most B.
Counted(s, B) ==
  /\ s.nonces <= B
  /\ WillDraw(s) => s.nonces < B
  /\ \A m \in s.tx : m.nonce <= s.nonces

\* A handshake under way has an ANonce of A, or one drawn after the first N.
Current(s, A, N) ==
  /\ N <= s.nonces
  /\ InHandshake(s) => s.ANonce \in A \/ s.ANonce > N

\* A round.
LEMMA RoundNonces ==
  ASSUME NEW s, NEW v, AuthInv(s), AuthInv(v), NonceStep(s, v),
         NEW B \in Nat, Counted(s, B), NEW N \in Nat, NEW A, Current(s, A, N)
  PROVE  Counted(v, B) /\ Current(v, A, N)
<1>1. /\ s.nonces \in Nat /\ v.nonces \in Nat /\ v.ANonce \in Nat
      /\ v.ANonce <= v.nonces /\ (\A m \in s.tx : m.nonce \in Nat)
  BY DEF AuthInv, AuthState, NonceInv, AuthMsg
<1>2. CASE GoesOn(s, v)
  BY <1>1, <1>2 DEF GoesOn, SameNonces, NamesANonce, Counted, Current
<1>3. CASE Draws(s, v)
  <2>1. \A m \in v.tx : m.nonce <= v.nonces
    BY <1>1, <1>3 DEF Draws, NamesANonce, Counted
  <2> QED BY <1>1, <1>3, <2>1 DEF Draws, Counted, Current
<1>4. CASE Leaves(s, v)
  BY <1>1, <1>4 DEF Leaves, Counted, Current, WillDraw, InHandshake
<1> QED BY <1>2, <1>3, <1>4 DEF NonceStep

\* The loop.
LEMMA LoopNonces ==
  ASSUME NEW n, AuthInv(n), NEW env, NEW B \in Nat, Counted(n, B),
         NEW N \in Nat, NEW A, Current(n, A, N)
  PROVE  LET v == wpa_sm_step(n, env) IN Counted(v, B) /\ Current(v, A, N)
<1> DEFINE G == {s \in AuthState : /\ AuthInv(s) /\ Counted(s, B)
                                  /\ Current(s, A, N)}
<1>1. n \in G BY DEF AuthInv
<1>2. ASSUME NEW s \in G PROVE SM_STEP_WPA_PTK(s, env) \in G
  <2>1. AuthInv(s) OBVIOUS
  <2>2. AuthInv(SM_STEP_WPA_PTK(s, env)) BY <2>1, StepKept DEF Kept
  <2>3. NonceStep(s, SM_STEP_WPA_PTK(s, env)) BY <2>1, StepNonces
  <2> QED BY <2>1, <2>2, <2>3, RoundNonces DEF AuthInv
<1>3. wpa_sm_step(n, env) \in G BY <1>1, <1>2, LoopKeeps
<1> QED BY <1>3

\* From one rest to the next: a handshake under way is the one from before or one
\* with an ANonce drawn in between.
Follows(s, v, B) ==
  /\ Counted(v, B) /\ s.nonces <= v.nonces
  /\ InHandshake(v) => \/ InHandshake(s) /\ v.ANonce = s.ANonce
                       \/ v.ANonce > s.nonces

Drawing == {"AuthenticationRequest", "ReAuthenticationRequest", "PTKRequest"}

\* A change outside the course of the handshake.
LEMMA AsideFollows ==
  ASSUME NEW s, NEW v, AuthInv(s), NEW B, Counted(s, B), SameCourse(s, v),
         v.tx = s.tx, v.request = s.request
  PROVE  Follows(s, v, B)
<1>1. s.nonces \in Nat BY DEF AuthInv, AuthState
<1> QED BY <1>1 DEF Follows, Counted, SameCourse, SameNonces, WillDraw, InHandshake

\* An input to the step loop that may draw a nonce only while there is one left.
LEMMA InputFollows ==
  ASSUME NEW s, NEW C, Sound(s, C), NEW B \in Nat, Counted(s, B),
         NEW n, AuthInv(n), NEW env, SameNonces(s, n), n.tx = s.tx,
         n.request = "none" =>
           n.present = s.present /\ n.wpa_ptk_state = s.wpa_ptk_state,
         n.request \in Drawing => s.nonces < B
  PROVE  Follows(s, wpa_sm_step(n, env), B)
<1> DEFINE v == wpa_sm_step(n, env)
           A == IF InHandshake(s) THEN {s.ANonce} ELSE {}
<1>1. s.nonces \in Nat BY DEF Sound, Idle, Kept, AuthInv, AuthState
<1>2. WillDraw(n) => n.request \in Drawing
  BY DEF WillDraw, Drawing, Sound, AtRest, Waiting
<1>3. Counted(n, B) BY <1>2 DEF Counted, SameNonces
<1>4. InHandshake(n) => InHandshake(s)
  BY DEF InHandshake, Sound, AtRest
<1>5. Current(n, A, s.nonces)
  BY <1>1, <1>4 DEF Current, SameNonces
<1>6. Counted(v, B) /\ Current(v, A, s.nonces) BY <1>1, <1>3, <1>5, LoopNonces
<1> HIDE DEF v
<1>7. Follows(s, v, B) BY <1>6 DEF Current, Follows
<1> QED BY <1>7 DEF v
=============================================================================
