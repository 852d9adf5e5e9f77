----------------------- MODULE FourWayHandshakeProofs -----------------------
(***************************************************************************)
(* For every number of retries, nonces, retransmissions and key requests,  *)
(* every order of delivery and either kind of supplicant: both ends of the *)
(* 4-way handshake keep their state well typed, neither ever hands its     *)
(* driver a key a second time, the authenticator comes to rest after every *)
(* event, and the exchange implements the security association of          *)
(* PairwiseSA.                                                             *)
(***************************************************************************)
EXTENDS FourWayHandshake, WpaAuthenticatorProofs

-----------------------------------------------------------------------------
(* The supplicant: its handlers keep its state well typed and never hand the *)
(* driver a key it already had; one lemma per handler.                       *)

SNonceOf(ptk) == ptk[3]

(***************************************************************************)
(* The inductive invariant.  A key is told from every key installed before *)
(* by its SNonce, so it is enough that the SNonce of a temporary PTK, and  *)
(* the one that the next message 1/4 would use again, were never           *)
(* installed; and that the installed flags tell the truth about the        *)
(* current PTK.                                                            *)
(***************************************************************************)
Drawn(s) ==
  /\ s.snonce <= s.nonces
  /\ \A t \in s.tptk : SNonceOf(t) <= s.nonces
  /\ \A i \in s.installs : SNonceOf(i[2]) <= s.nonces
  /\ s.ptk_set => SNonceOf(s.ptk) <= s.nonces

\* n is neither the SNonce of an installed key nor that of the current PTK.
Unused(s, n) ==
  /\ \A i \in s.installs : SNonceOf(i[2]) # n
  /\ s.ptk_set => SNonceOf(s.ptk) # n

TemporaryUnused(s) ==
  /\ ~s.renew_snonce => Unused(s, s.snonce)
  /\ \A t \in s.tptk : Unused(s, SNonceOf(t))
  /\ \A t, u \in s.tptk : SNonceOf(t) = SNonceOf(u) => t = u

FlagsTrue(s) ==
  s.ptk_set /\ ~s.installed =>
    /\ <<"RX_TX", s.ptk>> \notin s.installs
    /\ ~s.installed_rx => <<"RX_NEXT", s.ptk>> \notin s.installs

SuppInv(s) ==
  /\ s \in SuppState
  /\ ~s.reinstalled
  /\ Drawn(s) /\ TemporaryUnused(s) /\ FlagsTrue(s)
-----------------------------------------------------------------------------
\* A zeroed PTK is a PTK.
LEMMA NoPTKType == NoPTK \in PTKs
  BY DEF NoPTK, PTKs, PMKs, DerivePTK

\* The state a supplicant starts in satisfies the invariant.
LEMMA SuppInitInv == SuppInv(SuppInit)
  BY NoPTKType DEF SuppInv, SuppInit, SuppState, WpaStates, Drawn,
     TemporaryUnused, Unused, FlagsTrue

\* wpa_sm_clear_ptk() forgets keys only.
LEMMA ClearPtk ==
  ASSUME NEW s, SuppInv(s)
  PROVE  SuppInv(wpa_sm_clear_ptk(s))
  BY NoPTKType DEF SuppInv, SuppState, Drawn, TemporaryUnused, Unused,
     FlagsTrue, wpa_sm_clear_ptk

\* An association makes the next message 1/4 draw a new SNonce.
LEMMA NotifyAssoc ==
  ASSUME NEW s, SuppInv(s)
  PROVE  SuppInv(wpa_sm_notify_assoc(s))
<1> DEFINE c == wpa_sm_clear_ptk(s)
<1>1. SuppInv(c) BY ClearPtk
<1> HIDE DEF c
<1>2. SuppInv([c EXCEPT !.wpa_state = "ASSOCIATED", !.tk = NoPTK,
                        !.rx_replay_counter = 0, !.renew_snonce = TRUE])
  BY <1>1, NoPTKType DEF SuppInv, SuppState, WpaStates, Drawn,
     TemporaryUnused, Unused, FlagsTrue
<1> QED BY <1>2 DEF c, wpa_sm_notify_assoc

\* wpa_sm_notify_disassoc() clears the keys.
LEMMA NotifyDisassoc ==
  ASSUME NEW s, SuppInv(s)
  PROVE  SuppInv(wpa_sm_notify_disassoc(s))
<1> DEFINE c == wpa_sm_clear_ptk(s)
<1>1. SuppInv(c) BY ClearPtk
<1> HIDE DEF c
<1>2. SuppInv([c EXCEPT !.wpa_state = "DISCONNECTED", !.tk = NoPTK])
  BY <1>1, NoPTKType DEF SuppInv, SuppState, WpaStates, Drawn,
     TemporaryUnused, Unused, FlagsTrue
<1> QED BY <1>2 DEF c, wpa_sm_notify_disassoc

\* wpa_sm_key_request() sends a frame, or disconnects.
LEMMA KeyRequest ==
  ASSUME NEW s, SuppInv(s)
  PROVE  SuppInv(wpa_sm_key_request(s))
<1> DEFINE r == [type |-> "Request", ctr |-> s.request_counter,
                 nonce |-> 0, mic |-> s.ptk]
<1>1. r \in SuppMsg BY DEF SuppInv, SuppState, SuppMsg
<1> HIDE DEF r
<1> DEFINE tx == s.tx \cup {r}
           c == s.request_counter + 1
           n == [s EXCEPT !.request_counter = c, !.tx = tx]
<1>2. tx \in SUBSET SuppMsg /\ c \in Nat
  BY <1>1 DEF SuppInv, SuppState
<1> HIDE DEF tx, c
<1>3. n \in SuppState
  BY <1>2 DEF SuppInv, SuppState
<1>4. SuppInv(n)
  BY <1>3 DEF SuppInv, SuppState, Drawn, TemporaryUnused, Unused, FlagsTrue
<1> QED BY <1>4, NotifyDisassoc DEF n, tx, c, r, wpa_sm_key_request

\* Message 1/4: the temporary PTK it makes has an SNonce no installed key has.
LEMMA Process1 ==
  ASSUME NEW s, SuppInv(s), NEW m \in AuthMsg
  PROVE  SuppInv(wpa_supplicant_process_1_of_4(s, m))
<1> DEFINE renew == s.renew_snonce \/ SnoncePerMsg2
           snonce == IF renew THEN s.nonces + 1 ELSE s.snonce
           ptk == DerivePTK(StaPMK, m.nonce, snonce)
           msg == [type |-> "2/4", ctr |-> m.ctr, nonce |-> snonce, mic |-> ptk]
           tptk == (IF SnoncePerMsg2 THEN s.tptk ELSE {}) \cup {ptk}
           nonces == IF renew THEN s.nonces + 1 ELSE s.nonces
           n == [s EXCEPT !.wpa_state = "4WAY_HANDSHAKE",
                          !.snonce = snonce, !.renew_snonce = FALSE,
                          !.nonces = nonces, !.tptk = tptk,
                          !.anonce = m.nonce, !.tx = s.tx \cup {msg}]
<1>1. snonce \in Nat /\ nonces \in Nat /\ snonce <= nonces /\ s.nonces <= nonces
  BY DEF SuppInv, SuppState, Drawn
<1>2. Unused(s, snonce) /\ (SnoncePerMsg2 => \A t \in s.tptk : SNonceOf(t) # snonce)
  BY DEF SuppInv, SuppState, Drawn, TemporaryUnused, Unused
<1> HIDE DEF snonce, nonces, renew
<1>3. ptk \in PTKs /\ SNonceOf(ptk) = snonce
  BY <1>1 DEF PTKs, PMKs, DerivePTK, SNonceOf, AuthMsg
<1> HIDE DEF ptk
<1>4. msg \in SuppMsg
  BY <1>1, <1>3 DEF SuppMsg, AuthMsg
<1>5. tptk \in SUBSET PTKs
  BY <1>3 DEF SuppInv, SuppState
<1> HIDE DEF msg, tptk
<1>6. n \in SuppState
  BY <1>1, <1>4, <1>5 DEF SuppInv, SuppState, WpaStates, AuthMsg
<1>7. Drawn(n)
  <2>1. \A t \in tptk : SNonceOf(t) <= nonces
    BY <1>1, <1>3 DEF SuppInv, SuppState, Drawn, tptk, SNonceOf, PTKs
  <2>2. \A i \in s.installs : SNonceOf(i[2]) <= nonces
    BY <1>1 DEF SuppInv, SuppState, Drawn, SNonceOf, PTKs
  <2>3. s.ptk_set => SNonceOf(s.ptk) <= nonces
    BY <1>1 DEF SuppInv, SuppState, Drawn, SNonceOf, PTKs
  <2> QED BY <1>1, <2>1, <2>2, <2>3 DEF SuppInv, SuppState, Drawn
<1>8. TemporaryUnused(n)
  BY <1>2, <1>3 DEF SuppInv, SuppState, TemporaryUnused, Unused, tptk
<1>9. SuppInv(n)
  BY <1>6, <1>7, <1>8 DEF SuppInv, SuppState, FlagsTrue
<1> QED BY <1>9, NotifyDisassoc
        DEF n, tptk, msg, ptk, nonces, snonce, renew,
            wpa_supplicant_process_1_of_4, wpa_supplicant_send_2_of_4

\* Message 3/4 with a MIC of the temporary PTK: that PTK becomes the current one
\* and is used up, so that a second message 3/4 finds the installed flags.
LEMMA VerifyMic ==
  ASSUME NEW s, SuppInv(s), NEW m \in AuthMsg, MicOk(s, m)
  PROVE  LET v == wpa_supplicant_verify_eapol_key_mic(s, m)
         IN  SuppInv(v) /\ v.ptk_set
<1> DEFINE tptk == s.tptk \ {m.mic}
           n == [s EXCEPT !.tptk = tptk, !.ptk = m.mic, !.ptk_set = TRUE,
                          !.installed = FALSE, !.installed_rx = FALSE,
                          !.renew_snonce = TRUE, !.rx_replay_counter = m.ctr]
<1>1. CASE m.mic \in s.tptk
  <2>1. tptk \in SUBSET PTKs /\ m.mic \in PTKs /\ m.ctr \in Nat
    BY DEF SuppInv, SuppState, AuthMsg
  <2>2. \A t \in tptk : t \in s.tptk /\ SNonceOf(t) # SNonceOf(m.mic)
    BY <1>1 DEF SuppInv, TemporaryUnused
  <2>3. Unused(s, SNonceOf(m.mic)) /\ SNonceOf(m.mic) <= s.nonces
    BY <1>1 DEF SuppInv, TemporaryUnused, Drawn
  <2> HIDE DEF tptk
  <2>4. n \in SuppState
    BY <2>1 DEF SuppInv, SuppState
  <2>5. Drawn(n)
    BY <2>2, <2>3 DEF SuppInv, SuppState, Drawn
  <2>6. TemporaryUnused(n)
    BY <2>2, <2>3 DEF SuppInv, SuppState, TemporaryUnused, Unused
  <2>7. FlagsTrue(n)
    <3>1. \A f \in KeyFlags : <<f, m.mic>> \notin s.installs
      BY <2>3 DEF Unused
    <3> QED BY <3>1 DEF SuppInv, SuppState, FlagsTrue, KeyFlags
  <2>8. SuppInv(n) /\ n.ptk_set
    BY <2>4, <2>5, <2>6, <2>7 DEF SuppInv, SuppState
  <2>9. wpa_supplicant_verify_eapol_key_mic(s, m) = n
    BY <1>1 DEF wpa_supplicant_verify_eapol_key_mic, wpa_sm_tptk_to_ptk, n,
       tptk, SuppInv, SuppState
  <2> QED BY <2>8, <2>9
<1>2. CASE m.mic \notin s.tptk
  <2>1. s.ptk_set BY <1>2 DEF MicOk
  <2> QED BY <1>2, <2>1 DEF wpa_supplicant_verify_eapol_key_mic, SuppInv,
          SuppState, AuthMsg, Drawn, TemporaryUnused, Unused, FlagsTrue
<1> QED BY <1>1, <1>2

\* The driver is handed the current PTK under a flag only when it was not before.
LEMMA InstallPtk ==
  ASSUME NEW s, SuppInv(s), s.ptk_set, NEW flag \in KeyFlags, NEW ok \in BOOLEAN
  PROVE  LET v == wpa_supplicant_install_ptk(s, flag, ok)
         IN  SuppInv(v) /\ v.ptk_set /\ v.ptk = s.ptk
<1> DEFINE inst == s.installs \cup {<<flag, s.ptk>>}
           n == [s EXCEPT !.installs = inst,
                          !.reinstalled = @ \/ <<flag, s.ptk>> \in s.installs,
                          !.installed_rx = @ \/ flag = "RX_NEXT",
                          !.installed = @ \/ flag = "RX_TX",
                          !.tk = IF flag = "RX_TX" THEN s.ptk ELSE @]
<1>1. CASE s.installed \/ (s.installed_rx /\ flag = "RX_NEXT") \/ ~ok
  BY <1>1 DEF wpa_supplicant_install_ptk
<1>2. CASE ~(s.installed \/ (s.installed_rx /\ flag = "RX_NEXT") \/ ~ok)
  <2>1. <<flag, s.ptk>> \notin s.installs
    BY <1>2 DEF SuppInv, FlagsTrue, KeyFlags
  <2>2. inst \in SUBSET (KeyFlags \X PTKs)
    BY DEF SuppInv, SuppState
  <2>3. \A i \in inst : i \in s.installs \/ i[2] = s.ptk
    OBVIOUS
  <2>4. \A f : <<f, s.ptk>> \in inst => <<f, s.ptk>> \in s.installs \/ f = flag
    OBVIOUS
  <2> HIDE DEF inst
  <2>5. n \in SuppState /\ ~n.reinstalled
    BY ZenonT(40), <2>1, <2>2 DEF SuppInv, SuppState
  <2>6. Drawn(n)
    BY <2>3 DEF SuppInv, SuppState, Drawn
  <2>7. TemporaryUnused(n)
    BY <2>3 DEF SuppInv, SuppState, TemporaryUnused, Unused
  <2>8. FlagsTrue(n)
    BY <1>2, <2>4 DEF SuppInv, SuppState, FlagsTrue, KeyFlags
  <2>9. SuppInv(n) /\ n.ptk_set /\ n.ptk = s.ptk
    BY <2>5, <2>6, <2>7, <2>8 DEF SuppInv, SuppState
  <2> QED BY <1>2, <2>9 DEF wpa_supplicant_install_ptk, n, inst
<1> QED BY <1>1, <1>2

\* Message 3/4 after its MIC was verified.
LEMMA Process3 ==
  ASSUME NEW s, SuppInv(s), s.ptk_set, NEW m \in AuthMsg,
         NEW rxOk \in BOOLEAN, NEW txOk \in BOOLEAN, NEW gtkOk \in BOOLEAN
  PROVE  SuppInv(wpa_supplicant_process_3_of_4(s, m, rxOk, txOk, gtkOk))
<1> DEFINE rx == wpa_supplicant_install_ptk(s, "RX_NEXT", rxOk)
           msg == [type |-> "4/4", ctr |-> m.ctr, nonce |-> 0, mic |-> rx.ptk]
           tx == rx.tx \cup {msg}
           sent == [rx EXCEPT !.tx = tx, !.renew_snonce = TRUE]
           done == wpa_supplicant_install_ptk(sent, "RX_TX", txOk)
<1>1. SuppInv(rx) /\ rx.ptk_set
  BY InstallPtk DEF KeyFlags
<1> HIDE DEF rx
<1>2. msg \in SuppMsg
  BY <1>1 DEF SuppInv, SuppState, SuppMsg, AuthMsg
<1> HIDE DEF msg
<1>3. tx \in SUBSET SuppMsg
  BY <1>1, <1>2 DEF SuppInv, SuppState
<1> HIDE DEF tx
<1>4. SuppInv(sent) /\ sent.ptk_set
  BY <1>1, <1>3 DEF SuppInv, SuppState, Drawn, TemporaryUnused, Unused, FlagsTrue
<1> HIDE DEF sent
<1>5. SuppInv(done)
  BY <1>4, InstallPtk DEF KeyFlags
<1> HIDE DEF done
<1>6. SuppInv([done EXCEPT !.wpa_state = "COMPLETED"])
  BY <1>5 DEF SuppInv, SuppState, WpaStates, Drawn, TemporaryUnused, Unused,
     FlagsTrue
<1> QED BY <1>4, <1>5, <1>6, NotifyDisassoc
        DEF done, sent, tx, msg, rx, wpa_supplicant_process_3_of_4,
            wpa_supplicant_send_4_of_4

\* A frame that is not dropped, whichever it is and however often it was
\* received before, keeps the invariant.
LEMMA RxEapol ==
  ASSUME NEW s, SuppInv(s), NEW m \in AuthMsg, Acceptable(s, m),
         NEW rxOk \in BOOLEAN, NEW txOk \in BOOLEAN, NEW gtkOk \in BOOLEAN
  PROVE  SuppInv(wpa_sm_rx_eapol(s, m, rxOk, txOk, gtkOk))
<1>1. CASE m.type = "1/4"
  BY <1>1, Process1 DEF wpa_sm_rx_eapol
<1>2. CASE m.type = "3/4"
  <2>1. MicOk(s, m) BY <1>2 DEF Acceptable
  <2> DEFINE v == wpa_supplicant_verify_eapol_key_mic(s, m)
  <2>2. SuppInv(v) /\ v.ptk_set
    BY <2>1, VerifyMic
  <2> HIDE DEF v
  <2>3. SuppInv(wpa_supplicant_process_3_of_4(v, m, rxOk, txOk, gtkOk))
    BY <2>2, Process3
  <2> QED BY <1>2, <2>3 DEF v, wpa_sm_rx_eapol
<1> QED BY <1>1, <1>2 DEF AuthMsg
-----------------------------------------------------------------------------
(***************************************************************************)
(* Where replacing the key at index 0 is denied: the driver has a key only *)
(* when the handshake is over, and then no temporary PTK is left that      *)
(* another message 3/4 could turn into the PTK.                            *)
(***************************************************************************)
OneKeyInv(s) ==
  /\ \A t, u \in s.tptk : t = u
  /\ s.ptk_set => s.wpa_state = "COMPLETED"
  /\ s.wpa_state = "COMPLETED" => s.tptk = {} /\ s.installed
  /\ s.tk # NoPTK => s.wpa_state = "COMPLETED"

\* The station goes from one key to none, never to another.
KeyHeld(s, v) ==
  /\ OneKeyInv(v)
  /\ s.tk # NoPTK => v.tk \in {s.tk, NoPTK}

\* The station leaves or associates: it and its driver forget the key.
LEMMA NotifyFields ==
  ASSUME NEW s \in SuppState
  PROVE  LET a == wpa_sm_notify_assoc(s)
             d == wpa_sm_notify_disassoc(s)
         IN  /\ a.tx = s.tx /\ d.tx = s.tx
             /\ a.tk = NoPTK /\ d.tk = NoPTK
             /\ OneKeyInv(a) /\ OneKeyInv(d)
  BY DEF wpa_sm_notify_assoc, wpa_sm_notify_disassoc, wpa_sm_clear_ptk, SuppState,
     OneKeyInv

\* The PTK lifetime ends.
LEMMA KeyRequestFields ==
  ASSUME NEW s \in SuppState
  PROVE  LET v == wpa_sm_key_request(s)
         IN  /\ \A m \in s.tx : m \in v.tx
             /\ OneKeyInv(s) => KeyHeld(s, v)
<1> DEFINE n == [s EXCEPT !.request_counter = @ + 1,
                          !.tx = @ \cup {[type |-> "Request",
                                         ctr |-> s.request_counter,
                                         nonce |-> 0, mic |-> s.ptk]}]
           d == wpa_sm_notify_disassoc(s)
<1>1. wpa_sm_key_request(s) \in {d, s, n} BY DEF wpa_sm_key_request
<1>2. /\ \A m \in s.tx : m \in n.tx
      /\ OneKeyInv(s) => KeyHeld(s, n)
  BY DEF SuppState, OneKeyInv, KeyHeld
<1>3. d.tx = s.tx /\ d.tk = NoPTK /\ OneKeyInv(d) BY NotifyFields
<1>4. OneKeyInv(s) => KeyHeld(s, s) BY DEF KeyHeld
<1> HIDE DEF n, d
<1>5. KeyHeld(s, d) BY <1>3 DEF KeyHeld
<1> QED BY <1>1, <1>2, <1>3, <1>4, <1>5

\* Message 1/4 leaves one temporary PTK, and takes the station out of COMPLETED.
LEMMA Process1Fields ==
  ASSUME NEW s \in SuppState, NEW m \in AuthMsg
  PROVE  LET v == wpa_supplicant_process_1_of_4(s, m)
         IN  /\ \A k \in s.tx : k \in v.tx
             /\ {k \in v.tx : k.type = "4/4"} = {k \in s.tx : k.type = "4/4"}
             /\ wpa_deny_ptk0_rekey /\ ~SnoncePerMsg2 /\ OneKeyInv(s)
                  => KeyHeld(s, v)
<1> DEFINE renew == s.renew_snonce \/ SnoncePerMsg2
           snonce == IF renew THEN s.nonces + 1 ELSE s.snonce
           ptk == DerivePTK(StaPMK, m.nonce, snonce)
           msg == [type |-> "2/4", ctr |-> m.ctr, nonce |-> snonce, mic |-> ptk]
           nonces == IF renew THEN s.nonces + 1 ELSE s.nonces
           tptk == (IF SnoncePerMsg2 THEN s.tptk ELSE {}) \cup {ptk}
           n == [s EXCEPT !.wpa_state = "4WAY_HANDSHAKE",
                          !.snonce = snonce, !.renew_snonce = FALSE,
                          !.nonces = nonces, !.tptk = tptk,
                          !.anonce = m.nonce, !.tx = s.tx \cup {msg}]
           d == wpa_sm_notify_disassoc(s)
<1>1. wpa_supplicant_process_1_of_4(s, m) =
        IF wpa_deny_ptk0_rekey /\ s.wpa_state = "COMPLETED" THEN d ELSE n
  BY DEF wpa_supplicant_process_1_of_4, wpa_supplicant_send_2_of_4
<1>2. d.tx = s.tx /\ d.tk = NoPTK /\ OneKeyInv(d) BY NotifyFields
<1>3. msg.type = "2/4" OBVIOUS
<1>4. ~SnoncePerMsg2 => tptk = {ptk} OBVIOUS
<1> HIDE DEF renew, snonce, ptk, msg, nonces, tptk
<1>5. /\ n.tx = s.tx \cup {msg} /\ n.tptk = tptk /\ n.tk = s.tk
      /\ n.wpa_state = "4WAY_HANDSHAKE" /\ n.ptk_set = s.ptk_set
  BY DEF SuppState
<1> HIDE DEF n, d
<1>6. /\ wpa_deny_ptk0_rekey /\ ~SnoncePerMsg2 /\ OneKeyInv(s)
      /\ s.wpa_state # "COMPLETED"
      => KeyHeld(s, n)
  BY <1>4, <1>5 DEF KeyHeld, OneKeyInv
<1> QED BY <1>1, <1>2, <1>3, <1>5, <1>6 DEF KeyHeld

\* wpa_supplicant_install_ptk() concerns nothing but the driver.
LEMMA InstallFields ==
  ASSUME NEW s \in SuppState, NEW flag \in KeyFlags, NEW ok \in BOOLEAN
  PROVE  LET v == wpa_supplicant_install_ptk(s, flag, ok)
         IN  /\ v.tx = s.tx /\ v.tptk = s.tptk /\ v.ptk_set = s.ptk_set
             /\ v.wpa_state = s.wpa_state /\ v.ptk = s.ptk
             /\ s.installed => v = s
             /\ flag = "RX_NEXT" => v.tk = s.tk /\ v.installed = s.installed
             /\ flag = "RX_TX" /\ ok => v.installed
             /\ v.tk \in {s.tk, s.ptk}
  BY DEF wpa_supplicant_install_ptk, SuppState, KeyFlags

\* The MIC of message 3/4 uses up the temporary PTK, or the station is done and
\* has that PTK installed.
LEMMA VerifyFields ==
  ASSUME NEW s \in SuppState, NEW m \in AuthMsg, MicOk(s, m)
  PROVE  LET v == wpa_supplicant_verify_eapol_key_mic(s, m)
         IN  /\ v.tx = s.tx /\ v.tk = s.tk
             /\ OneKeyInv(s) => /\ v.tptk = {} /\ (s.tk # NoPTK => v.installed)
                                /\ (v.installed => v.wpa_state = "COMPLETED")
<1> DEFINE n == [s EXCEPT !.tptk = @ \ {m.mic}, !.ptk = m.mic, !.ptk_set = TRUE,
                          !.installed = FALSE, !.installed_rx = FALSE,
                          !.renew_snonce = TRUE, !.rx_replay_counter = m.ctr]
           o == [s EXCEPT !.rx_replay_counter = m.ctr]
<1>1. wpa_supplicant_verify_eapol_key_mic(s, m) = IF m.mic \in s.tptk THEN n ELSE o
  BY DEF wpa_supplicant_verify_eapol_key_mic, wpa_sm_tptk_to_ptk, SuppState
<1>2. /\ n.tx = s.tx /\ n.tk = s.tk /\ n.tptk = s.tptk \ {m.mic} /\ ~n.installed
  BY DEF SuppState
<1>3. /\ o.tx = s.tx /\ o.tk = s.tk /\ o.tptk = s.tptk /\ o.installed = s.installed
      /\ o.wpa_state = s.wpa_state
  BY DEF SuppState
<1> HIDE DEF n, o
<1>4. CASE m.mic \in s.tptk
  BY <1>1, <1>2, <1>4 DEF OneKeyInv
<1>5. CASE m.mic \notin s.tptk
  BY <1>1, <1>3, <1>5 DEF OneKeyInv, MicOk
<1> QED BY <1>4, <1>5

\* Message 3/4 ends in COMPLETED with the key installed, or without a key.
LEMMA Process3Fields ==
  ASSUME NEW s, SuppInv(s), s.ptk_set, NEW m \in AuthMsg,
         NEW rxOk \in BOOLEAN, NEW txOk \in BOOLEAN, NEW gtkOk \in BOOLEAN
  PROVE  LET v == wpa_supplicant_process_3_of_4(s, m, rxOk, txOk, gtkOk)
         IN  /\ \A k \in s.tx : k \in v.tx
             /\ s.tptk = {} => OneKeyInv(v)
             /\ s.installed => v.tk \in {s.tk, NoPTK}
<1> DEFINE rx == wpa_supplicant_install_ptk(s, "RX_NEXT", rxOk)
           msg == [type |-> "4/4", ctr |-> m.ctr, nonce |-> 0, mic |-> rx.ptk]
           tx == rx.tx \cup {msg}
           sent == [rx EXCEPT !.tx = tx, !.renew_snonce = TRUE]
           done == wpa_supplicant_install_ptk(sent, "RX_TX", txOk)
           end == [done EXCEPT !.wpa_state = "COMPLETED"]
<1>1. SuppInv(rx) /\ rx.ptk_set BY InstallPtk DEF KeyFlags
<1>2. /\ rx.tx = s.tx /\ rx.tptk = s.tptk /\ rx.ptk_set = s.ptk_set
      /\ rx.tk = s.tk /\ rx.installed = s.installed
  <2>1. s \in SuppState BY DEF SuppInv
  <2> QED BY <2>1 DEF wpa_supplicant_install_ptk, SuppState
<1>3. wpa_supplicant_process_3_of_4(s, m, rxOk, txOk, gtkOk) =
        IF m.nonce # s.anonce THEN wpa_sm_notify_disassoc(s)
        ELSE IF ~sent.installed /\ ~txOk THEN wpa_sm_notify_disassoc(sent)
        ELSE IF ~gtkOk THEN wpa_sm_notify_disassoc(done) ELSE end
  BY DEF wpa_supplicant_process_3_of_4, wpa_supplicant_send_4_of_4
<1> HIDE DEF rx
<1>4. msg \in SuppMsg
  BY <1>1 DEF SuppInv, SuppState, SuppMsg, AuthMsg
<1> HIDE DEF msg
<1>5. tx \in SUBSET SuppMsg /\ (\A k \in s.tx : k \in tx)
  BY <1>1, <1>2, <1>4 DEF SuppInv, SuppState
<1> HIDE DEF tx
<1>6. sent \in SuppState BY <1>1, <1>5 DEF SuppInv, SuppState
<1>7. SuppInv(sent) /\ sent.ptk_set
  BY <1>1, <1>5 DEF SuppInv, SuppState, Drawn, TemporaryUnused, Unused, FlagsTrue
<1>8. /\ sent.tx = tx /\ sent.tptk = s.tptk /\ sent.tk = s.tk
      /\ sent.installed = s.installed
  BY <1>1, <1>2 DEF SuppInv, SuppState
<1> HIDE DEF sent
<1>9. /\ done.tx = tx /\ done.tptk = s.tptk
      /\ s.installed => done.tk = s.tk /\ done.installed
      /\ txOk => done.installed
  BY <1>6, <1>8, InstallFields DEF KeyFlags
<1>10. done \in SuppState BY <1>7, InstallPtk DEF KeyFlags, SuppInv
<1> HIDE DEF done
<1>11. /\ end.tx = tx /\ end.tptk = s.tptk /\ end.tk = done.tk
       /\ end.installed = done.installed /\ end.wpa_state = "COMPLETED"
  BY <1>9, <1>10 DEF SuppState
<1> HIDE DEF end
<1>12. ASSUME NEW x \in {s, sent, done}
       PROVE  LET d == wpa_sm_notify_disassoc(x)
              IN  (\A k \in s.tx : k \in d.tx) /\ OneKeyInv(d) /\ d.tk = NoPTK
  <2>1. x \in SuppState /\ (\A k \in s.tx : k \in x.tx)
    BY <1>5, <1>6, <1>8, <1>9, <1>10 DEF SuppInv
  <2> QED BY <2>1, NotifyFields
<1>13. ASSUME sent.installed \/ txOk
       PROVE  /\ \A k \in s.tx : k \in end.tx
              /\ s.tptk = {} => OneKeyInv(end)
              /\ s.installed => end.tk = s.tk
  <2>1. done.installed BY <1>8, <1>9, <1>13
  <2> QED BY <1>5, <1>9, <1>11, <2>1 DEF OneKeyInv
<1> QED BY <1>3, <1>12, <1>13

\* Whatever is received.
LEMMA RxEapolFields ==
  ASSUME NEW s, SuppInv(s), NEW m \in AuthMsg, Acceptable(s, m),
         NEW rxOk \in BOOLEAN, NEW txOk \in BOOLEAN, NEW gtkOk \in BOOLEAN
  PROVE  LET v == wpa_sm_rx_eapol(s, m, rxOk, txOk, gtkOk)
         IN  /\ \A k \in s.tx : k \in v.tx
             /\ wpa_deny_ptk0_rekey /\ ~SnoncePerMsg2 /\ OneKeyInv(s)
                  => KeyHeld(s, v)
<1>1. s \in SuppState BY DEF SuppInv
<1>2. CASE m.type = "1/4"
  BY <1>1, <1>2, Process1Fields DEF wpa_sm_rx_eapol
<1>3. CASE m.type = "3/4"
  <2> DEFINE r == wpa_supplicant_verify_eapol_key_mic(s, m)
             v == wpa_supplicant_process_3_of_4(r, m, rxOk, txOk, gtkOk)
  <2>1. MicOk(s, m) BY <1>3 DEF Acceptable
  <2>2. SuppInv(r) /\ r.ptk_set BY <2>1, VerifyMic
  <2>3. /\ r.tx = s.tx /\ r.tk = s.tk
        /\ OneKeyInv(s) => r.tptk = {} /\ (s.tk # NoPTK => r.installed)
    BY <1>1, <2>1, VerifyFields
  <2>4. wpa_sm_rx_eapol(s, m, rxOk, txOk, gtkOk) = v
    BY <1>3 DEF wpa_sm_rx_eapol
  <2> HIDE DEF r
  <2>5. /\ \A k \in r.tx : k \in v.tx
        /\ r.tptk = {} => OneKeyInv(v)
        /\ r.installed => v.tk \in {r.tk, NoPTK}
    BY <2>2, Process3Fields
  <2> HIDE DEF v
  <2> QED BY <2>3, <2>4, <2>5 DEF KeyHeld
<1> QED BY <1>2, <1>3 DEF AuthMsg
-----------------------------------------------------------------------------
(***************************************************************************)
(* What the station does with keys, as a whole: what it has confirmed with *)
(* a message 4/4, and what its driver was given to transmit with.          *)
(***************************************************************************)
ConfirmedBy(tx) == {m.mic : m \in {n \in tx : n.type = "4/4"}}

UsedBy(I) == {i[2] : i \in {j \in I : j[1] = "RX_TX"}}

\* The station has no key, and confirmed none.
HasNone(v) ==
  v.tk = NoPTK /\ v.tptk = {} /\ ~v.ptk_set /\ ~v.installed

Forgot(s, v) ==
  /\ HasNone(v) /\ v.installs = s.installs /\ v.tx = s.tx /\ v.nonces = s.nonces

SamePtk(s, v) ==
  /\ v.tk = s.tk /\ v.ptk = s.ptk /\ v.ptk_set = s.ptk_set
  /\ v.installed = s.installed /\ v.installs = s.installs

\* A station that may not replace its key does not ask for another or answer
\* message 1/4 while it has one.
Open(s) == ~(wpa_deny_ptk0_rekey /\ s.wpa_state = "COMPLETED")

Asked(s, v) ==
  /\ Open(s) /\ SamePtk(s, v) /\ v.tptk = s.tptk /\ v.nonces = s.nonces
  /\ v.wpa_state = s.wpa_state /\ ConfirmedBy(v.tx) = ConfirmedBy(s.tx)

Replied(s, v, m) ==
  /\ Open(s) /\ SamePtk(s, v)
  /\ \A t \in v.tptk : t \in s.tptk \/ t[2] = m.nonce
  /\ s.nonces <= v.nonces /\ v.nonces <= s.nonces + 1
  /\ v.wpa_state = "4WAY_HANDSHAKE" /\ ConfirmedBy(v.tx) = ConfirmedBy(s.tx)

\* k is new to the driver, which now has it or has had it.
Takes(s, v, k) ==
  /\ k \in s.tptk \/ ~s.installed
  /\ k \notin UsedBy(s.installs) /\ UsedBy(v.installs) = UsedBy(s.installs) \cup {k}

Uses(s, v, k) ==
  /\ v.wpa_state = "COMPLETED" /\ v.ptk_set /\ v.ptk = k /\ v.installed
  /\ v.tptk \subseteq s.tptk
  /\ \/ Takes(s, v, k) /\ v.tk = k
     \/ /\ k \notin s.tptk /\ s.installed /\ s.ptk = k /\ v.tk = s.tk
        /\ UsedBy(v.installs) = UsedBy(s.installs)

Confirms(s, v, k) ==
  /\ k \in s.tptk \/ (s.ptk_set /\ s.ptk = k)
  /\ ConfirmedBy(v.tx) = ConfirmedBy(s.tx) \cup {k} /\ v.nonces = s.nonces
  /\ \/ Uses(s, v, k)
     \/ /\ HasNone(v) /\ v.wpa_state = "DISCONNECTED"
        /\ Takes(s, v, k) \/ UsedBy(v.installs) = UsedBy(s.installs)

\* Frames of other types confirm nothing.
LEMMA ConfirmedMore ==
  ASSUME NEW tx, NEW m
  PROVE  /\ m.type # "4/4" => ConfirmedBy(tx \cup {m}) = ConfirmedBy(tx)
         /\ m.type = "4/4" => ConfirmedBy(tx \cup {m}) = ConfirmedBy(tx) \cup {m.mic}
  BY DEF ConfirmedBy

\* A key for reception only is not in use.
LEMMA UsedMore ==
  ASSUME NEW I, NEW k
  PROVE  /\ UsedBy(I \cup {<<"RX_NEXT", k>>}) = UsedBy(I)
         /\ UsedBy(I \cup {<<"RX_TX", k>>}) = UsedBy(I) \cup {k}
<1>1. ASSUME NEW p, p[1] # "RX_TX" PROVE UsedBy(I \cup {p}) = UsedBy(I)
  BY <1>1 DEF UsedBy
<1>2. ASSUME NEW p, p[1] = "RX_TX"
      PROVE  UsedBy(I \cup {p}) = UsedBy(I) \cup {p[2]}
  BY <1>2 DEF UsedBy
<1>3. /\ <<"RX_NEXT", k>>[1] # "RX_TX" /\ <<"RX_TX", k>>[1] = "RX_TX"
      /\ <<"RX_TX", k>>[2] = k
  OBVIOUS
<1> QED BY <1>1, <1>2, <1>3

\* The station associates or leaves.
LEMMA NotifyKeys ==
  ASSUME NEW s \in SuppState
  PROVE  LET a == wpa_sm_notify_assoc(s)
             d == wpa_sm_notify_disassoc(s)
         IN  /\ Forgot(s, a) /\ Forgot(s, d)
             /\ a.wpa_state = "ASSOCIATED" /\ d.wpa_state = "DISCONNECTED"
  BY DEF wpa_sm_notify_assoc, wpa_sm_notify_disassoc, wpa_sm_clear_ptk, SuppState,
     Forgot, HasNone

\* wpa_sm_key_request()
LEMMA KeyRequestKeys ==
  ASSUME NEW s \in SuppState, s.ptk_set
  PROVE  LET v == wpa_sm_key_request(s)
         IN  Asked(s, v) \/ (Forgot(s, v) /\ v.wpa_state = "DISCONNECTED")
<1> DEFINE q == [type |-> "Request", ctr |-> s.request_counter, nonce |-> 0,
                 mic |-> s.ptk]
           n == [s EXCEPT !.request_counter = @ + 1, !.tx = @ \cup {q}]
<1>1. wpa_sm_key_request(s) =
        IF Open(s) THEN n ELSE wpa_sm_notify_disassoc(s)
  BY DEF wpa_sm_key_request, Open
<1>2. q.type # "4/4" OBVIOUS
<1> HIDE DEF q
<1>3. SamePtk(s, n) /\ n.tptk = s.tptk /\ n.nonces = s.nonces
        /\ n.wpa_state = s.wpa_state /\ n.tx = s.tx \cup {q}
  BY DEF SuppState, SamePtk
<1> HIDE DEF n
<1>4. ConfirmedBy(n.tx) = ConfirmedBy(s.tx) BY <1>2, <1>3, ConfirmedMore
<1> QED BY <1>1, <1>3, <1>4, NotifyKeys DEF Asked

\* wpa_supplicant_process_1_of_4()
LEMMA Process1Keys ==
  ASSUME NEW s \in SuppState, NEW m \in AuthMsg
  PROVE  LET v == wpa_supplicant_process_1_of_4(s, m)
         IN  Replied(s, v, m) \/ (Forgot(s, v) /\ v.wpa_state = "DISCONNECTED")
<1> DEFINE renew == s.renew_snonce \/ SnoncePerMsg2
           snonce == IF renew THEN s.nonces + 1 ELSE s.snonce
           ptk == DerivePTK(StaPMK, m.nonce, snonce)
           c == IF renew THEN s.nonces + 1 ELSE s.nonces
           q == [type |-> "2/4", ctr |-> m.ctr, nonce |-> snonce, mic |-> ptk]
           T == (IF SnoncePerMsg2 THEN s.tptk ELSE {}) \cup {ptk}
           n == [s EXCEPT !.wpa_state = "4WAY_HANDSHAKE",
                          !.snonce = snonce, !.renew_snonce = FALSE,
                          !.nonces = c, !.tptk = T, !.anonce = m.nonce,
                          !.tx = s.tx \cup {q}]
<1>1. wpa_supplicant_process_1_of_4(s, m) =
        IF Open(s) THEN n ELSE wpa_sm_notify_disassoc(s)
  BY DEF wpa_supplicant_process_1_of_4, wpa_supplicant_send_2_of_4, Open, SuppState
<1>2. q.type # "4/4" OBVIOUS
<1>3. \A t \in T : t \in s.tptk \/ t[2] = m.nonce BY DEF DerivePTK
<1>4. s.nonces <= c /\ c <= s.nonces + 1 BY DEF SuppState
<1> HIDE DEF q, T, c, ptk, snonce
<1>5. SamePtk(s, n) /\ n.tptk = T /\ n.nonces = c
        /\ n.wpa_state = "4WAY_HANDSHAKE" /\ n.tx = s.tx \cup {q}
  BY DEF SuppState, SamePtk
<1> HIDE DEF n
<1>6. ConfirmedBy(n.tx) = ConfirmedBy(s.tx) BY <1>2, <1>5, ConfirmedMore
<1> QED BY <1>1, <1>3, <1>4, <1>5, <1>6, NotifyKeys DEF Replied

\* wpa_supplicant_install_ptk()
LEMMA InstallKeys ==
  ASSUME NEW s \in SuppState, NEW ok \in BOOLEAN
  PROVE  LET r == wpa_supplicant_install_ptk(s, "RX_NEXT", ok)
             v == wpa_supplicant_install_ptk(s, "RX_TX", ok)
         IN  /\ r.tk = s.tk /\ r.ptk = s.ptk /\ r.ptk_set = s.ptk_set
             /\ r.installed = s.installed /\ r.tptk = s.tptk
             /\ r.nonces = s.nonces /\ r.tx = s.tx
             /\ r.installs \in {s.installs, s.installs \cup {<<"RX_NEXT", s.ptk>>}}
             /\ v.ptk = s.ptk /\ v.ptk_set = s.ptk_set /\ v.tptk = s.tptk
             /\ v.nonces = s.nonces /\ v.tx = s.tx
             /\ s.installed \/ ~ok => v = s
             /\ ~s.installed /\ ok =>
                  /\ v.installed /\ v.tk = s.ptk
                  /\ v.installs = s.installs \cup {<<"RX_TX", s.ptk>>}
<1>1. /\ wpa_supplicant_install_ptk(s, "RX_NEXT", ok).installed = s.installed
      /\ wpa_supplicant_install_ptk(s, "RX_NEXT", ok).ptk_set = s.ptk_set
  BY DEF wpa_supplicant_install_ptk, SuppState
<1>2. wpa_supplicant_install_ptk(s, "RX_TX", ok).ptk_set = s.ptk_set
  BY DEF wpa_supplicant_install_ptk, SuppState
<1>3. ASSUME ~s.installed, ok
      PROVE  wpa_supplicant_install_ptk(s, "RX_TX", ok).installed
  BY <1>3 DEF wpa_supplicant_install_ptk, SuppState
<1>4. s.installed \/ ~ok => wpa_supplicant_install_ptk(s, "RX_TX", ok) = s
  BY DEF wpa_supplicant_install_ptk
<1> QED BY <1>1, <1>2, <1>3, <1>4 DEF wpa_supplicant_install_ptk, SuppState

\* A PTK that is not installed was never used, and it is no temporary PTK.
LEMMA PtkNew ==
  ASSUME NEW s, SuppInv(s), s.ptk_set
  PROVE  /\ s.ptk \notin s.tptk
         /\ ~s.installed => s.ptk \notin UsedBy(s.installs)
<1>1. s.ptk \notin s.tptk BY DEF SuppInv, TemporaryUnused, Unused
<1>2. ASSUME ~s.installed PROVE s.ptk \notin UsedBy(s.installs)
  <2>1. \A i \in s.installs : i = <<i[1], i[2]>> BY DEF SuppInv, SuppState
  <2>2. <<"RX_TX", s.ptk>> \notin s.installs BY <1>2 DEF SuppInv, FlagsTrue
  <2> QED BY <2>1, <2>2 DEF UsedBy
<1> QED BY <1>1, <1>2

\* wpa_supplicant_process_3_of_4()
LEMMA Process3Keys ==
  ASSUME NEW s, SuppInv(s), s.ptk_set, NEW m \in AuthMsg,
         NEW rxOk \in BOOLEAN, NEW txOk \in BOOLEAN, NEW gtkOk \in BOOLEAN
  PROVE  LET v == wpa_supplicant_process_3_of_4(s, m, rxOk, txOk, gtkOk)
         IN  \/ Forgot(s, v) /\ v.wpa_state = "DISCONNECTED"
             \/ Confirms(s, v, s.ptk)
<1> DEFINE rx == wpa_supplicant_install_ptk(s, "RX_NEXT", rxOk)
           msg == [type |-> "4/4", ctr |-> m.ctr, nonce |-> 0, mic |-> rx.ptk]
           tx == rx.tx \cup {msg}
           sent == [rx EXCEPT !.tx = tx, !.renew_snonce = TRUE]
           done == wpa_supplicant_install_ptk(sent, "RX_TX", txOk)
           end == [done EXCEPT !.wpa_state = "COMPLETED"]
<1>1. SuppInv(rx) /\ rx.ptk_set BY InstallPtk DEF KeyFlags
<1>2. s \in SuppState BY DEF SuppInv
<1>3. /\ rx.tk = s.tk /\ rx.ptk = s.ptk /\ rx.installed = s.installed
      /\ rx.tptk = s.tptk /\ rx.nonces = s.nonces /\ rx.tx = s.tx
      /\ rx.installs \in {s.installs, s.installs \cup {<<"RX_NEXT", s.ptk>>}}
  BY <1>2, InstallKeys
<1>4. wpa_supplicant_process_3_of_4(s, m, rxOk, txOk, gtkOk) =
        IF m.nonce # s.anonce THEN wpa_sm_notify_disassoc(s)
        ELSE IF ~sent.installed /\ ~txOk THEN wpa_sm_notify_disassoc(sent)
        ELSE IF ~gtkOk THEN wpa_sm_notify_disassoc(done) ELSE end
  BY DEF wpa_supplicant_process_3_of_4, wpa_supplicant_send_4_of_4
<1> HIDE DEF rx
<1>5. UsedBy(rx.installs) = UsedBy(s.installs)
  <2>1. UsedBy(s.installs \cup {<<"RX_NEXT", s.ptk>>}) = UsedBy(s.installs)
    BY UsedMore, Zenon
  <2> QED BY <1>3, <2>1, Zenon
<1>6. msg \in SuppMsg /\ msg.type = "4/4" /\ msg.mic = s.ptk
  BY <1>1, <1>3 DEF SuppInv, SuppState, SuppMsg, AuthMsg
<1> HIDE DEF msg
<1>7. tx \in SUBSET SuppMsg BY <1>1, <1>6 DEF SuppInv, SuppState
<1>8. ConfirmedBy(tx) = ConfirmedBy(s.tx) \cup {s.ptk}
  BY <1>3, <1>6, ConfirmedMore
<1> HIDE DEF tx
<1>9. sent \in SuppState BY <1>1, <1>7 DEF SuppInv, SuppState
<1>10. /\ sent.tk = s.tk /\ sent.ptk = s.ptk /\ sent.installed = s.installed
       /\ sent.tptk = s.tptk /\ sent.nonces = s.nonces /\ sent.tx = tx
       /\ sent.installs = rx.installs /\ sent.ptk_set
  BY <1>1, <1>3 DEF SuppInv, SuppState
<1> HIDE DEF sent
<1>11. /\ done.ptk = s.ptk /\ done.ptk_set /\ done.tptk = s.tptk
       /\ done.nonces = s.nonces /\ done.tx = tx
       /\ s.installed \/ ~txOk => done = sent
       /\ ~s.installed /\ txOk =>
            /\ done.installed /\ done.tk = s.ptk
            /\ done.installs = rx.installs \cup {<<"RX_TX", s.ptk>>}
  BY <1>9, <1>10, InstallKeys
<1>12. done \in SuppState
  <2>1. SuppInv(sent)
    BY <1>1, <1>7, <1>9 DEF sent, SuppInv, SuppState, Drawn, TemporaryUnused, Unused,
       FlagsTrue
  <2> QED BY <1>10, <2>1, InstallPtk DEF KeyFlags, SuppInv
<1> HIDE DEF done
<1>13. /\ s.ptk \notin s.tptk
       /\ ~s.installed => s.ptk \notin UsedBy(s.installs)
  BY PtkNew
<1>14. /\ UsedBy(sent.installs) = UsedBy(s.installs)
       /\ ~s.installed /\ txOk =>
            UsedBy(done.installs) = UsedBy(s.installs) \cup {s.ptk}
  <2>1. UsedBy(rx.installs \cup {<<"RX_TX", s.ptk>>})
          = UsedBy(rx.installs) \cup {s.ptk}
    BY UsedMore, Zenon
  <2> QED BY <1>5, <1>10, <1>11, <2>1
<1>15. CASE m.nonce # s.anonce BY <1>2, <1>4, <1>15, NotifyKeys
<1>16. ASSUME NEW x \in SuppState, x.tx = tx, x.nonces = s.nonces,
              \/ UsedBy(x.installs) = UsedBy(s.installs)
              \/ ~s.installed /\ UsedBy(x.installs) = UsedBy(s.installs) \cup {s.ptk}
       PROVE  Confirms(s, wpa_sm_notify_disassoc(x), s.ptk)
  <2> DEFINE d == wpa_sm_notify_disassoc(x)
  <2>1. Forgot(x, d) /\ d.wpa_state = "DISCONNECTED" BY NotifyKeys
  <2> HIDE DEF d
  <2>2. Takes(s, d, s.ptk) \/ UsedBy(d.installs) = UsedBy(s.installs)
    BY <1>13, <1>16, <2>1 DEF Takes, Forgot
  <2>3. Confirms(s, d, s.ptk)
    BY <1>8, <1>16, <2>1, <2>2 DEF Confirms, Forgot
  <2> QED BY <2>3 DEF d
<1>17. CASE m.nonce = s.anonce /\ ~sent.installed /\ ~txOk
  BY <1>4, <1>9, <1>10, <1>14, <1>16, <1>17
<1>18. CASE m.nonce = s.anonce /\ (sent.installed \/ txOk) /\ ~gtkOk
  <2>1. \/ UsedBy(done.installs) = UsedBy(s.installs)
        \/ ~s.installed /\ UsedBy(done.installs) = UsedBy(s.installs) \cup {s.ptk}
    BY <1>10, <1>11, <1>14, <1>18
  <2> QED BY <1>4, <1>11, <1>12, <1>16, <1>18, <2>1
<1>19. CASE m.nonce = s.anonce /\ (sent.installed \/ txOk) /\ gtkOk
  <2>1. /\ end.tk = done.tk /\ end.ptk = done.ptk /\ end.ptk_set = done.ptk_set
        /\ end.installed = done.installed /\ end.tptk = done.tptk
        /\ end.nonces = done.nonces /\ end.tx = done.tx
        /\ end.installs = done.installs /\ end.wpa_state = "COMPLETED"
    BY <1>12 DEF SuppState
  <2>2. wpa_supplicant_process_3_of_4(s, m, rxOk, txOk, gtkOk) = end
    BY <1>4, <1>19
  <2> HIDE DEF end
  <2>3. CASE s.installed
    BY <1>8, <1>10, <1>11, <1>13, <1>14, <2>1, <2>2, <2>3 DEF Confirms, Uses
  <2>4. CASE ~s.installed
    <3>1. txOk BY <1>10, <1>19, <2>4
    <3>2. Takes(s, end, s.ptk) /\ end.tk = s.ptk
      BY <1>11, <1>13, <1>14, <2>1, <2>4, <3>1 DEF Takes
    <3> QED BY <1>8, <1>11, <2>1, <2>2, <2>4, <3>1, <3>2 DEF Confirms, Uses
  <2> QED BY <2>3, <2>4
<1> QED BY <1>15, <1>17, <1>18, <1>19

\* Whatever is received.
LEMMA RxEapolKeys ==
  ASSUME NEW s, SuppInv(s), NEW m \in AuthMsg, Acceptable(s, m),
         NEW rxOk \in BOOLEAN, NEW txOk \in BOOLEAN, NEW gtkOk \in BOOLEAN
  PROVE  LET v == wpa_sm_rx_eapol(s, m, rxOk, txOk, gtkOk)
         IN  \/ Forgot(s, v) /\ v.wpa_state = "DISCONNECTED"
             \/ m.type = "1/4" /\ Replied(s, v, m)
             \/ Confirms(s, v, m.mic)
<1>1. s \in SuppState BY DEF SuppInv
<1>2. CASE m.type = "1/4" BY <1>1, <1>2, Process1Keys DEF wpa_sm_rx_eapol
<1>3. CASE m.type = "3/4"
  <2> DEFINE r == wpa_supplicant_verify_eapol_key_mic(s, m)
             v == wpa_supplicant_process_3_of_4(r, m, rxOk, txOk, gtkOk)
  <2>1. MicOk(s, m) BY <1>3 DEF Acceptable
  <2>2. SuppInv(r) /\ r.ptk_set BY <2>1, VerifyMic
  <2>3. /\ r.tx = s.tx /\ r.installs = s.installs /\ r.nonces = s.nonces
        /\ r.tk = s.tk /\ r.ptk = m.mic /\ r.tptk = s.tptk \ {m.mic}
    BY <1>1, <2>1 DEF wpa_supplicant_verify_eapol_key_mic, wpa_sm_tptk_to_ptk, MicOk,
       SuppState
  <2>4. /\ m.mic \in s.tptk => ~r.installed
        /\ m.mic \notin s.tptk => r.installed = s.installed /\ s.ptk_set
                                    /\ s.ptk = m.mic
    BY <1>1, <2>1 DEF wpa_supplicant_verify_eapol_key_mic, wpa_sm_tptk_to_ptk, MicOk,
       SuppState
  <2>5. wpa_sm_rx_eapol(s, m, rxOk, txOk, gtkOk) = v
    BY <1>3 DEF wpa_sm_rx_eapol
  <2> HIDE DEF r
  <2>6. \/ Forgot(r, v) /\ v.wpa_state = "DISCONNECTED"
        \/ Confirms(r, v, m.mic)
    BY <2>2, <2>3, Process3Keys
  <2> HIDE DEF v
  <2>7. CASE Forgot(r, v) /\ v.wpa_state = "DISCONNECTED"
    BY <2>3, <2>5, <2>7 DEF Forgot
  <2>8. CASE Confirms(r, v, m.mic)
    <3>1. Takes(r, v, m.mic) => Takes(s, v, m.mic)
      BY <2>3, <2>4 DEF Takes
    <3>2. Uses(r, v, m.mic) => Uses(s, v, m.mic)
      BY <2>3, <2>4, <3>1 DEF Uses
    <3> QED BY <2>3, <2>4, <2>5, <2>8, <3>1, <3>2 DEF Confirms
  <2> QED BY <2>6, <2>7, <2>8
<1> QED BY <1>2, <1>3 DEF AuthMsg

-----------------------------------------------------------------------------
(* The handshake. *)

\* The two sides' invariants together are inductive: each side relies on the
\* other only for frames that are frames.
HandshakeInv == Idle(sm) /\ SuppInv(st)

\* The invariant holds before the station has associated.
LEMMA HandshakeInit == Init => HandshakeInv
<1> SUFFICES ASSUME Init PROVE HandshakeInv OBVIOUS
<1>1. AuthInv(AuthInit) /\ SuppInv(SuppInit)
  BY AuthInitInv, SuppInitInv
<1>2. AuthInit.request = "none" /\ ~AuthInit.EAPOLKeyReceived
  BY DEF AuthInit
<1> QED BY <1>1, <1>2 DEF Init, HandshakeInv, Idle, Kept

\* A first association, and one over an old state machine.
LEMMA AssociateStep ==
  ASSUME HandshakeInv, NEW again \in BOOLEAN, Associate(again)
  PROVE  HandshakeInv'
<1>1. SuppInv(st') BY NotifyAssoc DEF HandshakeInv, Associate
<1>2. PICK env \in Env :
        LET old == IF sm.present THEN sm ELSE wpa_auth_sta_init(sm)
            clr == [old EXCEPT !.authorized = again /\ @]
            s == wpa_auth_sm_event(clr, "WPA_ASSOC", env)
        IN sm' = IF again THEN wpa_auth_sm_event(s, "WPA_REAUTH", env)
                 ELSE wpa_auth_sta_associated(s, env)
  BY DEF Associate
<1> DEFINE old == IF sm.present THEN sm ELSE wpa_auth_sta_init(sm)
           au == again /\ old.authorized
           clr == [old EXCEPT !.authorized = au]
           s == wpa_auth_sm_event(clr, "WPA_ASSOC", env)
<1>3. Idle(old) /\ old.present
  <2>1. CASE sm.present BY <2>1 DEF HandshakeInv
  <2>2. CASE ~sm.present
    <3>1. AuthInv(old) BY <2>2, StaInit DEF HandshakeInv, Idle, Kept
    <3>2. old.request = "none" /\ ~old.EAPOLKeyReceived /\ old.present
      BY <2>2 DEF wpa_auth_sta_init, wpa_auth_sta_deinit, AuthInit
    <3> QED BY <3>1, <3>2 DEF Idle, Kept
  <2> QED BY <2>1, <2>2
<1> HIDE DEF old
<1>4. au \in BOOLEAN BY <1>3 DEF Idle, Kept, AuthInv, AuthState
<1>5. [old EXCEPT !.authorized = again /\ @] = clr
  BY <1>3 DEF Idle, Kept, AuthInv, AuthState
<1> HIDE DEF au
<1>6. Idle(clr) /\ clr.present
  BY <1>3, <1>4 DEF Idle, Kept, AuthInv, AuthState, NonceInv, ANonceFresh,
     RequestInv, ReceivedInv
<1> HIDE DEF clr
<1>7. Idle(s) /\ ~s.PTK_valid BY <1>6, AssocEvent
<1> HIDE DEF s
<1>8. sm' \in {wpa_auth_sm_event(s, "WPA_REAUTH", env),
               wpa_auth_sta_associated(s, env)}
  BY <1>2, <1>5 DEF s, old
<1>9. Idle(sm') BY <1>7, <1>8, SmEvent, StaAssociated
<1> QED BY <1>1, <1>9 DEF HandshakeInv

\* A new authentication leaves the state machine and takes its PTK.
LEMMA AuthenticateStep ==
  ASSUME HandshakeInv, ApAuthenticate
  PROVE  HandshakeInv'
<1> DEFINE clr == [sm EXCEPT !.authorized = FALSE]
<1>1. PICK env \in Env : sm' = wpa_auth_sm_event(clr, "WPA_AUTH", env)
  BY DEF ApAuthenticate
<1>2. Idle(clr) /\ clr.present
  BY ZenonT(40) DEF ApAuthenticate, HandshakeInv, Idle, Kept, AuthInv, AuthState, NonceInv,
     ANonceFresh, RequestInv, ReceivedInv
<1> HIDE DEF clr
<1> QED BY <1>1, <1>2, AssocEvent DEF ApAuthenticate, HandshakeInv

\* Any frame the other side ever sent, received now.
LEMMA ReceiveSteps ==
  ASSUME HandshakeInv, ApReceive \/ StaReceive
  PROVE  HandshakeInv'
<1>1. CASE ApReceive
  <2>1. PICK m \in st.tx, env \in Env :
          Accepts(sm, m) /\ sm' = wpa_receive(sm, m, env) /\ UNCHANGED st
    BY <1>1 DEF ApReceive
  <2>2. m \in SuppMsg BY DEF HandshakeInv, SuppInv, SuppState
  <2>3. Idle(sm') BY <2>1, <2>2, Receive DEF HandshakeInv
  <2> QED BY <2>1, <2>3 DEF HandshakeInv
<1>2. CASE StaReceive
  <2>1. PICK m \in sm.tx, rxOk \in BOOLEAN, txOk \in BOOLEAN, gtkOk \in BOOLEAN :
          Acceptable(st, m) /\ st' = wpa_sm_rx_eapol(st, m, rxOk, txOk, gtkOk)
            /\ UNCHANGED sm
    BY <1>2 DEF StaReceive
  <2>2. m \in AuthMsg BY DEF HandshakeInv, Idle, Kept, AuthInv, AuthState
  <2>3. SuppInv(st') BY <2>1, <2>2, RxEapol DEF HandshakeInv
  <2> QED BY <2>1, <2>3 DEF HandshakeInv
<1> QED BY <1>1, <1>2

\* Every step of either side keeps the invariant.
LEMMA HandshakeStep == HandshakeInv /\ [Next]_vars => HandshakeInv'
<1> SUFFICES ASSUME HandshakeInv, [Next]_vars PROVE HandshakeInv' OBVIOUS
<1>1. CASE \E again \in BOOLEAN : Associate(again) BY <1>1, AssociateStep
<1>2. CASE StaLeave BY <1>2, NotifyDisassoc DEF StaLeave, HandshakeInv
<1>3. CASE ApDeauth
  <2>1. AuthInv(sm') /\ ~sm'.EAPOLKeyReceived
    BY <1>3, StaDeinit DEF ApDeauth, HandshakeInv, Idle, Kept
  <2>2. sm'.request = "none"
    BY <1>3 DEF ApDeauth, wpa_auth_sta_deinit, AuthInit
  <2> QED BY <1>3, <2>1, <2>2 DEF ApDeauth, HandshakeInv, Idle, Kept
<1>4. CASE ApDisassoc BY <1>4, SmEvent DEF ApDisassoc, HandshakeInv
<1>5. CASE ApTimeout
  BY <1>5, EapolTimeout DEF ApTimeout, TimeoutPending, HandshakeInv
<1>6. CASE ApRekeyTimer BY <1>6, RekeyPtk DEF ApRekeyTimer, HandshakeInv
<1>7. CASE ApReceive \/ StaReceive BY <1>7, ReceiveSteps
<1>8. CASE StaKeyRequest BY <1>8, KeyRequest DEF StaKeyRequest, HandshakeInv
<1>9. CASE ApAuthenticate BY <1>9, AuthenticateStep
<1>10. CASE ApTxStatus BY <1>10, TxStatus DEF ApTxStatus, HandshakeInv
<1>11. CASE UNCHANGED vars BY <1>11 DEF vars, HandshakeInv
<1> QED
  BY <1>1, <1>2, <1>3, <1>4, <1>5, <1>6, <1>7, <1>8, <1>9, <1>10, <1>11 DEF Next

\* The invariant holds in every reachable state.
LEMMA HandshakeInvariant == Spec => []HandshakeInv
  BY HandshakeInit, HandshakeStep, PTL DEF Spec

\* Every field of both state machines has its type in every reachable state.
THEOREM TypeCorrect == Spec => []TypeOK
<1>1. HandshakeInv => TypeOK
  BY DEF HandshakeInv, Idle, Kept, AuthInv, SuppInv, TypeOK
<1> QED BY <1>1, HandshakeInvariant, PTL

\* The station's driver is handed no key twice (wpa_supplicant_install_ptk,
\* wpa_supplicant_verify_eapol_key_mic).
THEOREM StaNoReinstallation == Spec => []StaNeverReinstalls
<1>1. HandshakeInv => StaNeverReinstalls
  BY DEF HandshakeInv, SuppInv, StaNeverReinstalls
<1> QED BY <1>1, HandshakeInvariant, PTL

\* The authenticator's driver is handed no key twice (PTKINITDONE).
THEOREM ApNoReinstallation == Spec => []ApNeverReinstalls
<1>1. HandshakeInv => ApNeverReinstalls
  BY DEF HandshakeInv, Idle, Kept, AuthInv, ApNeverReinstalls
<1> QED BY <1>1, HandshakeInvariant, PTL
-----------------------------------------------------------------------------
(***************************************************************************)
(* What the authenticator promises between two events.  The station never  *)
(* takes back a frame, so the keys it has confirmed only grow in number.   *)
(***************************************************************************)
Confirmed == ConfirmedBy(st.tx)

SoundInv ==
  Sound(sm, Confirmed) /\ SuppInv(st) /\ Counted(sm, MaxANonces)

\* What an event that is no answer of the station does to the authenticator.
Handled ==
  Sound(sm', Confirmed) /\ Silent(sm, sm') /\ Follows(sm, sm', MaxANonces)

\* Opening or clearing the port is none of the state machine's business.
LEMMA PortSound ==
  ASSUME NEW s, NEW C, Sound(s, C), NEW b \in BOOLEAN
  PROVE  LET n == [s EXCEPT !.authorized = b]
         IN  Sound(n, C) /\ SameCourse(s, n) /\ SameFrames(s, n) /\ SameKey(s, n)
<1> DEFINE n == [s EXCEPT !.authorized = b]
<1>1. s \in AuthState BY DEF Sound, Idle, Kept, AuthInv
<1>2. Idle(n)
  BY DEF Sound, Idle, Kept, AuthInv, AuthState, NonceInv, ANonceFresh, RequestInv,
     ReceivedInv
<1>3. SameCourse(s, n) /\ SameFrames(s, n) /\ SameKey(s, n)
  BY <1>1 DEF AuthState, SameCourse, SameNonces, SameFrames, SameKey
<1>4. /\ n.request = s.request /\ n.EAPOLKeyReceived = s.EAPOLKeyReceived
      /\ n.timers = s.timers /\ n.TimeoutEvt = s.TimeoutEvt
      /\ n.MICVerified = s.MICVerified
      /\ n.update_snonce = s.update_snonce /\ n.PTK = s.PTK
  BY <1>1 DEF AuthState
<1> HIDE DEF n
<1>5. AtRest(n)
  BY <1>3, <1>4 DEF Sound, AtRest, Waiting, RetryLimitReached, SameCourse
<1>6. CountersInv(n)
  BY <1>3, <1>4 DEF Sound, RoundInv, CountersInv, SameCourse, SameFrames
<1>7. ConfirmedInv(n, C)
  BY <1>3, <1>4 DEF Sound, RoundInv, ConfirmedInv, SameCourse, SameKey
<1>8. CourseInv(n)
  BY <1>3, <1>4 DEF Sound, RoundInv, CourseInv, SameCourse, SameKey
<1> QED BY <1>2, <1>3, <1>5, <1>6, <1>7, <1>8 DEF Sound, RoundInv, n

\* WPA_AUTH and WPA_ASSOC take the PTK and nothing else.
LEMMA TakesPtk ==
  ASSUME NEW s, NEW C, Sound(s, C), s.present, NEW env,
         NEW event \in {"WPA_AUTH", "WPA_ASSOC"}
  PROVE  LET v == wpa_auth_sm_event(s, event, env)
         IN  /\ Sound(v, C) /\ Forgets(s, v)
             /\ v.present /\ ~v.PTK_valid /\ v.tk = NoPTK /\ ~v.pairwise_set
<1> DEFINE n == wpa_remove_ptk(s)
<1>1. wpa_auth_sm_event(s, event, env) = wpa_sm_step(n, env)
  BY DEF wpa_auth_sm_event
<1>2. ~n.PTK_valid BY DEF wpa_remove_ptk, Sound, Idle, Kept, AuthInv, AuthState
<1>3. AuthInv(n) /\ Forgets(s, n) BY ForgetFields DEF Sound
<1> HIDE DEF n
<1>4. Sound(n, C) BY <1>3, ForgetsSound
<1>5. wpa_sm_step(n, env) = n BY <1>3, <1>4, LoopStays DEF Sound
<1>6. n.present /\ n.tk = NoPTK /\ ~n.pairwise_set
  BY <1>3 DEF Forgets, SameCourse, Dropped
<1> QED BY <1>1, <1>2, <1>3, <1>4, <1>5, <1>6

\* A new authentication.
LEMMA AuthenticateSound ==
  ASSUME SoundInv, ApAuthenticate
  PROVE  Handled
<1> DEFINE clr == [sm EXCEPT !.authorized = FALSE]
<1>1. PICK env \in Env : sm' = wpa_auth_sm_event(clr, "WPA_AUTH", env)
  BY DEF ApAuthenticate
<1>2. Sound(clr, Confirmed) /\ SameCourse(sm, clr) /\ SameFrames(sm, clr)
        /\ SameKey(sm, clr)
  BY PortSound DEF SoundInv
<1> HIDE DEF clr
<1>3. clr.present BY <1>2 DEF SameCourse, ApAuthenticate
<1>4. Sound(sm', Confirmed) /\ Forgets(clr, sm')
  BY <1>1, <1>2, <1>3, TakesPtk
<1>5. Silent(sm, sm')
  BY <1>2, <1>4 DEF Silent, Forgets, Dropped, SameFrames, SameKey
<1>6. SameCourse(sm, sm') /\ sm'.tx = sm.tx
  BY <1>2, <1>4 DEF Forgets, SameCourse, SameNonces, SameFrames
<1>7. sm'.request = sm.request BY <1>4 DEF SoundInv, Sound, AtRest
<1>8. Follows(sm, sm', MaxANonces)
  BY <1>6, <1>7, AsideFollows DEF SoundInv, Sound, Idle, Kept
<1> QED BY <1>4, <1>5, <1>8 DEF Handled

\* A first association, and one over an old state machine.
LEMMA AssociateSound ==
  ASSUME SoundInv, NEW again \in BOOLEAN, Associate(again)
  PROVE  /\ Handled /\ sm'.tk = NoPTK
         /\ InHandshake(sm') => sm'.ANonce > sm.nonces
<1>1. PICK env \in Env :
        LET old == IF sm.present THEN sm ELSE wpa_auth_sta_init(sm)
            clr == [old EXCEPT !.authorized = again /\ @]
            s == wpa_auth_sm_event(clr, "WPA_ASSOC", env)
        IN sm' = IF again THEN wpa_auth_sm_event(s, "WPA_REAUTH", env)
                 ELSE wpa_auth_sta_associated(s, env)
  BY DEF Associate
<1> DEFINE old == IF sm.present THEN sm ELSE wpa_auth_sta_init(sm)
           au == again /\ old.authorized
           clr == [old EXCEPT !.authorized = au]
           s == wpa_auth_sm_event(clr, "WPA_ASSOC", env)
<1>2. AuthInv(sm) BY DEF SoundInv, Sound, Idle, Kept
<1>3. /\ Sound(old, Confirmed) /\ old.present
      /\ old.tx = sm.tx /\ old.installs = sm.installs /\ old.nonces = sm.nonces
  <2>1. CASE sm.present BY <2>1 DEF SoundInv
  <2>2. CASE ~sm.present
    <3>1. Sound(old, Confirmed) /\ old.present BY <1>2, <2>2, FreshSound
    <3>2. old.tx = sm.tx /\ old.installs = sm.installs /\ old.nonces = sm.nonces
      BY <2>2 DEF wpa_auth_sta_init, wpa_auth_sta_deinit, AuthInit
    <3> QED BY <3>1, <3>2
  <2> QED BY <2>1, <2>2
<1> HIDE DEF old
<1>4. au \in BOOLEAN BY <1>3 DEF Sound, Idle, Kept, AuthInv, AuthState
<1>5. [old EXCEPT !.authorized = again /\ @] = clr
  BY <1>3 DEF Sound, Idle, Kept, AuthInv, AuthState
<1> HIDE DEF au
<1>6. /\ Sound(clr, Confirmed) /\ SameCourse(old, clr)
      /\ SameFrames(old, clr) /\ SameKey(old, clr)
  BY <1>3, <1>4, PortSound
<1> HIDE DEF clr
<1>7. clr.present BY <1>3, <1>6 DEF SameCourse
<1>8. /\ Sound(s, Confirmed) /\ Forgets(clr, s)
      /\ s.present /\ ~s.PTK_valid /\ s.tk = NoPTK /\ ~s.pairwise_set
  BY <1>6, <1>7, TakesPtk
<1>9. sm' = IF again THEN wpa_auth_sm_event(s, "WPA_REAUTH", env)
            ELSE wpa_auth_sta_associated(s, env)
  BY <1>1, <1>5 DEF s, old
<1> HIDE DEF s
<1>10. Idle(s) BY <1>8 DEF Sound
<1>11. PICK n : /\ AuthInv(n) /\ (Restarts(s, n) \/ Begins(s, n))
                /\ sm' = wpa_sm_step(n, env)
  <2>1. CASE again
    BY <1>8, <1>9, <1>10, <2>1, ReauthInput
  <2>2. CASE ~again
    BY <1>8, <1>9, <1>10, <2>2, AssociatedInput
  <2> QED BY <2>1, <2>2
<1>12. Sound(sm', Confirmed) /\ Silent(s, sm')
  BY <1>8, <1>11, EventSound
<1>13. s.tx = sm.tx /\ s.installs = sm.installs /\ s.nonces = sm.nonces
  BY <1>3, <1>6, <1>8 DEF Forgets, SameCourse, SameNonces, SameFrames, SameKey, Dropped
<1>14. Silent(sm, sm') /\ sm'.tk = NoPTK BY <1>8, <1>12, <1>13 DEF Silent
<1>15. /\ n.nonces = sm.nonces /\ n.tx = sm.tx /\ n.request # "none"
       /\ sm.nonces < MaxANonces /\ sm.nonces \in Nat
  BY <1>2, <1>11, <1>13 DEF Restarts, Begins, SameCourse, SameNonces, SameFrames,
     Associate, AuthInv, AuthState
<1>16. Counted(n, MaxANonces) /\ Current(n, {}, sm.nonces)
  BY <1>15 DEF SoundInv, Counted, Current, InHandshake
<1>17. Counted(sm', MaxANonces) /\ Current(sm', {}, sm.nonces)
  BY <1>11, <1>15, <1>16, LoopNonces, BoundsNat
<1>18. /\ Follows(sm, sm', MaxANonces)
       /\ InHandshake(sm') => sm'.ANonce > sm.nonces
  BY <1>17 DEF Follows, Current
<1> QED BY <1>12, <1>14, <1>18 DEF Handled

\* The driver's report of an acknowledged frame.
LEMMA TxStatusSound ==
  ASSUME SoundInv, ApTxStatus
  PROVE  Handled
<1> DEFINE n == wpa_auth_eapol_key_tx_status(sm)
<1>1. sm \in AuthState BY DEF SoundInv, Sound, Idle, Kept, AuthInv
<1>2. Idle(n) BY TxStatus DEF SoundInv, Sound, ApTxStatus
<1>3. n = [sm EXCEPT !.timers = 1]
  BY DEF ApTxStatus, wpa_auth_eapol_key_tx_status
<1>4. SameCourse(sm, n) /\ SameFrames(sm, n) /\ SameKey(sm, n)
  BY <1>1, <1>3 DEF AuthState, SameCourse, SameNonces, SameFrames, SameKey
<1>5. /\ n.request = sm.request /\ n.EAPOLKeyReceived = sm.EAPOLKeyReceived
      /\ n.timers = 1 /\ n.TimeoutEvt = sm.TimeoutEvt
      /\ n.MICVerified = sm.MICVerified
      /\ n.update_snonce = sm.update_snonce /\ n.PTK = sm.PTK
  BY <1>1, <1>3 DEF AuthState
<1>6. sm' = n BY DEF ApTxStatus
<1> HIDE DEF n
<1>7. AtRest(n)
  BY <1>4, <1>5 DEF SoundInv, Sound, AtRest, Waiting, RetryLimitReached, SameCourse
<1>8. CountersInv(n)
  BY <1>4, <1>5 DEF SoundInv, Sound, RoundInv, CountersInv, SameCourse, SameFrames
<1>9. ConfirmedInv(n, Confirmed)
  BY <1>4, <1>5 DEF SoundInv, Sound, RoundInv, ConfirmedInv, SameCourse, SameKey
<1>10. CourseInv(n)
  BY <1>4, <1>5 DEF SoundInv, Sound, RoundInv, CourseInv, SameCourse, SameKey
<1>11. Silent(sm, n) BY <1>4 DEF Silent, SameFrames, SameKey
<1>12. Follows(sm, n, MaxANonces)
  BY <1>4, <1>5, AsideFollows DEF SoundInv, Sound, Idle, Kept, SameFrames
<1> QED
  BY <1>2, <1>6, <1>7, <1>8, <1>9, <1>10, <1>11, <1>12 DEF Sound, RoundInv, Handled

\* The events that come from the authenticator's own timers and from the driver.
LEMMA EventsSound ==
  ASSUME SoundInv, ApDeauth \/ ApDisassoc \/ ApTimeout \/ ApRekeyTimer
  PROVE  Handled
<1>1. /\ Sound(sm, Confirmed) /\ Idle(sm) /\ AuthInv(sm)
      /\ Counted(sm, MaxANonces) /\ sm.nonces \in Nat
  BY DEF SoundInv, Sound, Idle, Kept, AuthInv, AuthState
<1>2. CASE ApDeauth
  <2>1. Sound(sm', Confirmed) BY <1>1, <1>2, FreshSound DEF ApDeauth
  <2>2. Gone(sm, sm') BY <1>2, GoneFields DEF ApDeauth
  <2>3. Follows(sm, sm', MaxANonces)
    BY <1>1, <2>2 DEF Gone, Follows, Counted, WillDraw, InHandshake
  <2> QED BY <2>1, <2>2, <2>3 DEF Gone, Silent, Handled
<1>3. CASE ApDisassoc
  <2>1. PICK env \in Env : sm' = wpa_auth_sm_event(sm, "WPA_DISASSOC", env)
    BY <1>3 DEF ApDisassoc
  <2>2. PICK n : /\ AuthInv(n) /\ Restarts(sm, n) /\ sm' = wpa_sm_step(n, env)
                 /\ n.request = "DeauthenticationRequest"
    BY <1>1, <1>3, <2>1, DisassocInput DEF ApDisassoc
  <2>3. SameNonces(sm, n) /\ n.tx = sm.tx BY <2>2 DEF Restarts, SameCourse
  <2>4. Follows(sm, sm', MaxANonces)
    BY <1>1, <2>2, <2>3, InputFollows, BoundsNat DEF Drawing
  <2> QED BY <1>1, <2>2, <2>4, EventSound DEF Handled
<1>4. CASE ApTimeout
  <2>1. PICK env \in Env : sm' = wpa_send_eapol_timeout(sm, env)
    BY <1>4 DEF ApTimeout
  <2>2. PICK n : AuthInv(n) /\ TimesOut(sm, n) /\ sm' = wpa_sm_step(n, env)
    BY <1>1, <1>4, <2>1, TimeoutInput DEF ApTimeout, TimeoutPending
  <2>3. /\ SameNonces(sm, n) /\ n.tx = sm.tx /\ n.request = "none"
        /\ n.present = sm.present /\ n.wpa_ptk_state = sm.wpa_ptk_state
    BY <1>1, <2>2 DEF TimesOut, SameCourse, SameFrames, Idle
  <2>4. Follows(sm, sm', MaxANonces)
    BY <1>1, <2>2, <2>3, InputFollows, BoundsNat DEF Drawing
  <2> QED BY <1>1, <2>2, <2>4, EventSound DEF Handled
<1>5. CASE ApRekeyTimer
  <2>1. PICK env \in Env : sm' = wpa_rekey_ptk(sm, env)
    BY <1>5 DEF ApRekeyTimer
  <2>2. PICK n : AuthInv(n) /\ AsksForKey(sm, n) /\ sm' = wpa_sm_step(n, env)
    BY <1>1, <1>5, <2>1, RekeyInput DEF ApRekeyTimer
  <2>3. SameNonces(sm, n) /\ n.tx = sm.tx /\ n.request # "none"
    BY <2>2 DEF AsksForKey, SameCourse, SameFrames
  <2>4. Follows(sm, sm', MaxANonces)
    BY <1>1, <1>5, <2>2, <2>3, InputFollows, BoundsNat DEF ApRekeyTimer
  <2> QED BY <1>1, <2>2, <2>4, EventSound DEF Handled
<1> QED BY <1>2, <1>3, <1>4, <1>5

\* A message 2/4 or 4/4 of the station has been accepted.
Answered(m) ==
  /\ m \in st.tx
  /\ sm.wpa_ptk_state \in {"PTKSTART", "PTKINITNEGOTIATING"}
  /\ \/ sm'.tk \in {sm.tk, NoPTK} /\ sm'.installs = sm.installs
     \/ /\ m.type = "4/4" /\ Installs(sm, sm', m.mic)
        /\ InHandshake(sm) /\ m.mic[2] = sm.ANonce /\ m.mic \notin sm.installs
  /\ wpa_disable_eapol_key_retries =>
       \A k \in sm'.tx \ sm.tx : k.type = "3/4" =>
         /\ m.type = "2/4" /\ k.mic = m.mic
         /\ m.ctr \in sm.key_replay \cup sm.prev_key_replay

\* Any frame the station ever sent, received now.
LEMMA ReceiveSound ==
  ASSUME SoundInv, ApReceive
  PROVE  /\ Sound(sm', Confirmed) /\ Follows(sm, sm', MaxANonces)
         /\ Silent(sm, sm') \/ \E m : Answered(m)
<1>1. PICK m \in st.tx, env \in Env :
        /\ Accepts(sm, m) /\ sm' = wpa_receive(sm, m, env) /\ UNCHANGED st
        /\ m.type = "Request" => sm.nonces < MaxANonces
  BY DEF ApReceive
<1>2. m \in SuppMsg BY DEF SoundInv, SuppInv, SuppState
<1>3. Sound(sm, Confirmed) /\ Idle(sm) /\ Counted(sm, MaxANonces)
  BY DEF SoundInv, Sound
<1>4. CASE m.type = "Request"
  <2>1. PICK n : AuthInv(n) /\ AsksForKey(sm, n) /\ sm' = wpa_sm_step(n, env)
    BY <1>1, <1>2, <1>3, <1>4, RequestInput
  <2>2. SameNonces(sm, n) /\ n.tx = sm.tx /\ n.request # "none"
    BY <2>1 DEF AsksForKey, SameCourse, SameFrames
  <2>3. Follows(sm, sm', MaxANonces)
    BY <1>1, <1>3, <1>4, <2>1, <2>2, InputFollows, BoundsNat
  <2> QED BY <1>3, <2>1, <2>3, EventSound
<1>5. CASE m.type # "Request"
  <2>1. PICK n : AuthInv(n) /\ IsAnswered(sm, n, m) /\ sm' = wpa_sm_step(n, env)
    BY <1>1, <1>2, <1>3, <1>5, AnswerInput
  <2>2. m.type = "4/4" => m.mic \in Confirmed BY DEF Confirmed, ConfirmedBy
  <2>3. /\ Sound(sm', Confirmed)
        /\ \/ sm'.tk \in {sm.tk, NoPTK} /\ sm'.installs = sm.installs
           \/ m.type = "4/4" /\ Installs(sm, sm', m.mic)
        /\ wpa_disable_eapol_key_retries =>
             \A k \in sm'.tx \ sm.tx :
               k.type = "3/4" => m.type = "2/4" /\ k.mic = m.mic
    BY <1>2, <1>3, <1>5, <2>1, <2>2, AnswerSound
  <2>4. /\ sm.wpa_ptk_state \in {"PTKSTART", "PTKINITNEGOTIATING"}
        /\ m.type = "2/4" => m.ctr \in sm.key_replay \cup sm.prev_key_replay
    BY <2>1 DEF IsAnswered, SameCourse
  <2>5. ASSUME m.type = "4/4"
        PROVE  InHandshake(sm) /\ m.mic[2] = sm.ANonce /\ m.mic \notin sm.installs
    <3>1. /\ n.wpa_ptk_state = "PTKINITNEGOTIATING" /\ n.PTK_valid
          /\ n.PTK = m.mic /\ n.present /\ n.installs = sm.installs
          /\ n.ANonce = sm.ANonce /\ sm.present
          /\ sm.wpa_ptk_state = "PTKINITNEGOTIATING"
      BY <2>1, <2>5 DEF IsAnswered, SameCourse, SameNonces, SameKey, AuthInv,
         ReceivedInv
    <3>2. m.mic[2] = n.ANonce /\ ANonceFresh(n)
      BY <2>1, <3>1 DEF AuthInv, NonceInv, ANonceOf, Handshaking
    <3>3. m.mic \notin sm.installs BY <3>1, <3>2 DEF ANonceFresh, ANonceOf
    <3>4. InHandshake(sm) BY <1>3, <3>1 DEF Idle, InHandshake, Handshaking
    <3> QED BY <3>1, <3>2, <3>3, <3>4
  <2>6. Answered(m) BY <2>3, <2>4, <2>5 DEF Answered
  <2>7. /\ SameNonces(sm, n) /\ n.tx = sm.tx /\ n.request = "none"
        /\ n.present = sm.present /\ n.wpa_ptk_state = sm.wpa_ptk_state
    BY <2>1 DEF IsAnswered, SameCourse
  <2>8. Follows(sm, sm', MaxANonces)
    BY <1>3, <2>1, <2>7, InputFollows, BoundsNat DEF Drawing
  <2> QED BY <2>3, <2>6, <2>8
<1> QED BY <1>4, <1>5

\* What a step of the station may do: it sends, and sm stays as it is.
StationStep == StaLeave \/ StaReceive \/ StaKeyRequest

\* The frames and the keys after a step of the station.
LEMMA StationSends ==
  ASSUME HandshakeInv, StationStep
  PROVE  /\ sm' = sm
         /\ \A m \in st.tx : m \in st'.tx
         /\ wpa_deny_ptk0_rekey /\ ~SnoncePerMsg2 /\ OneKeyInv(st)
              => KeyHeld(st, st')
<1>1. st \in SuppState /\ SuppInv(st) BY DEF HandshakeInv, SuppInv
<1>2. CASE StaLeave
  BY <1>1, <1>2, NotifyFields DEF StaLeave, KeyHeld
<1>3. CASE StaReceive
  <2>1. PICK m \in sm.tx, rxOk \in BOOLEAN, txOk \in BOOLEAN, gtkOk \in BOOLEAN :
          Acceptable(st, m) /\ st' = wpa_sm_rx_eapol(st, m, rxOk, txOk, gtkOk)
            /\ UNCHANGED sm
    BY <1>3 DEF StaReceive
  <2>2. m \in AuthMsg BY DEF HandshakeInv, Idle, Kept, AuthInv, AuthState
  <2> QED BY <1>1, <2>1, <2>2, RxEapolFields
<1>4. CASE StaKeyRequest
  BY <1>1, <1>4, KeyRequestFields DEF StaKeyRequest
<1> QED BY <1>2, <1>3, <1>4 DEF StationStep

\* What any step may do to the authenticator.
LEMMA AuthStep ==
  ASSUME SoundInv, [Next]_vars
  PROVE  /\ Sound(sm', Confirmed) /\ Follows(sm, sm', MaxANonces)
         /\ Silent(sm, sm') \/ \E m : Answered(m)
         /\ \A m \in st.tx : m \in st'.tx
<1>1. HandshakeInv BY DEF SoundInv, Sound, HandshakeInv
<1>2. CASE StationStep \/ UNCHANGED vars
  <2>1. sm' = sm /\ (\A m \in st.tx : m \in st'.tx)
    BY <1>1, <1>2, StationSends DEF vars
  <2>2. SameCourse(sm, sm') BY <2>1 DEF SameCourse, SameNonces
  <2>3. Follows(sm, sm', MaxANonces)
    BY <2>1, <2>2, AsideFollows DEF SoundInv, Sound, Idle, Kept
  <2> QED BY <2>1, <2>3 DEF SoundInv, Silent
<1>3. CASE \E again \in BOOLEAN : Associate(again)
  <2>1. PICK again \in BOOLEAN : Associate(again) BY <1>3
  <2>2. st'.tx = st.tx
    BY <1>1, <2>1, NotifyFields DEF Associate, HandshakeInv, SuppInv
  <2> QED BY <2>1, <2>2, AssociateSound DEF Handled
<1>4. CASE ApAuthenticate BY <1>4, AuthenticateSound DEF ApAuthenticate, Handled
<1>5. CASE ApDeauth \/ ApDisassoc \/ ApTimeout \/ ApRekeyTimer
  BY <1>5, EventsSound
     DEF ApDeauth, ApDisassoc, ApTimeout, ApRekeyTimer, Handled
<1>6. CASE ApTxStatus BY <1>6, TxStatusSound DEF ApTxStatus, Handled
<1>7. CASE ApReceive BY <1>7, ReceiveSound DEF ApReceive
<1> QED BY <1>2, <1>3, <1>4, <1>5, <1>6, <1>7 DEF Next, StationStep

\* Every step keeps the authenticator sound.
LEMMA SoundStep == SoundInv /\ [Next]_vars => SoundInv'
<1> SUFFICES ASSUME SoundInv, [Next]_vars PROVE SoundInv' OBVIOUS
<1>1. HandshakeInv BY DEF SoundInv, Sound, HandshakeInv
<1>2. SuppInv(st)' BY <1>1, HandshakeStep DEF HandshakeInv
<1>3. /\ Sound(sm', Confirmed) /\ (\A m \in st.tx : m \in st'.tx)
      /\ Counted(sm', MaxANonces)
  BY AuthStep DEF Follows
<1>4. Confirmed \subseteq Confirmed' BY <1>3 DEF Confirmed, ConfirmedBy
<1>5. Sound(sm', Confirmed') BY <1>3, <1>4, SoundMore
<1> QED BY <1>2, <1>3, <1>5 DEF SoundInv

\* The invariant holds before the station has associated.
LEMMA SoundInit == Init => SoundInv
<1> SUFFICES ASSUME Init PROVE SoundInv OBVIOUS
<1>1. HandshakeInv BY HandshakeInit
<1>2. wpa_auth_sta_deinit(sm) = sm
  <2>1. sm = AuthInit /\ AuthInit \in AuthState
    BY AuthInitInv DEF Init, AuthInv
  <2> QED BY <2>1 DEF wpa_auth_sta_deinit, AuthState
<1>3. Sound(sm, Confirmed) BY <1>1, <1>2, FreshSound DEF HandshakeInv, Idle, Kept
<1>4. Counted(sm, MaxANonces)
  BY BoundsNat DEF Init, AuthInit, Counted, WillDraw
<1> QED BY <1>1, <1>3, <1>4 DEF SoundInv, HandshakeInv

\* The invariant holds in every reachable state.
LEMMA SoundInvariant == Spec => []SoundInv
  BY SoundInit, SoundStep, PTL DEF Spec
-----------------------------------------------------------------------------
\* The four rounds that wpa_sm_step() is modelled with always suffice: the loop
\* of the code ends, and no event leaves the machine with something to do.
THEOREM LoopSettles == Spec => []StepLoopSettles
<1>1. SoundInv => StepLoopSettles
  BY RestSettled DEF SoundInv, Sound, Idle, Kept, StepLoopSettles
<1> QED BY <1>1, SoundInvariant, PTL

\* A key in the authenticator's driver has been confirmed by message 4/4 (the
\* guard of PTKINITDONE and the MIC check of wpa_receive).
THEOREM KeysAreConfirmed == Spec => []KeyConfirmed
<1>1. SoundInv => KeyConfirmed
  BY DEF SoundInv, Sound, RoundInv, ConfirmedInv, Confirmed, ConfirmedBy, KeyConfirmed
<1> QED BY <1>1, SoundInvariant, PTL

\* No order of events leaves a handshake without a retransmission timeout
\* (wpa_send_eapol, and what cancels its timeout).
THEOREM HandshakesAreTimed == Spec => []HandshakeIsTimed
<1>1. SoundInv => HandshakeIsTimed
  BY DEF SoundInv, Sound, AtRest, Waiting, HandshakeIsTimed
<1> QED BY <1>1, SoundInvariant, PTL

\* The acceptable replay counters are among the last ones sent, and those of
\* message 3/4 are later than any that message 2/4 left behind
\* (wpa_replay_counter_mark_invalid and the shift in wpa_send_eapol).
THEOREM CountersAreOutstanding == Spec => []CountersOutstanding
<1>1. SoundInv => CountersOutstanding
  BY DEF SoundInv, Sound, AtRest, RoundInv, CountersInv, CountersOutstanding
<1> QED BY <1>1, SoundInvariant, PTL

\* With wpa_disable_eapol_key_retries a message 3/4 is sent only in answer to an
\* acceptable message 2/4 under the same key (PTKINITNEGOTIATING).
THEOREM Msg3IsAnAnswer == Spec => Msg3AnswersMsg2
<1> DEFINE A == wpa_disable_eapol_key_retries =>
                  \A m \in {k \in sm'.tx \ sm.tx : k.type = "3/4"} :
                    \E n \in st.tx :
                      /\ n.type = "2/4" /\ n.mic = m.mic
                      /\ n.ctr \in sm.key_replay \cup sm.prev_key_replay
<1>1. SoundInv /\ [Next]_vars => [A]_vars
  <2> SUFFICES ASSUME SoundInv, [Next]_vars, wpa_disable_eapol_key_retries,
                      NEW m \in sm'.tx \ sm.tx, m.type = "3/4"
               PROVE  \E n \in st.tx :
                        /\ n.type = "2/4" /\ n.mic = m.mic
                        /\ n.ctr \in sm.key_replay \cup sm.prev_key_replay
    OBVIOUS
  <2>1. PICK n : Answered(n) BY AuthStep DEF Silent
  <2> QED BY <2>1 DEF Answered
<1>2. Spec => [][A]_vars BY <1>1, SoundInvariant, PTL DEF Spec
<1> QED BY <1>2, PTL DEF Msg3AnswersMsg2

\* Where the station may have one temporary PTK and replacing a key is denied,
\* what the station holds.
LEMMA OneKeyStep ==
  ASSUME wpa_deny_ptk0_rekey, ~SnoncePerMsg2
  PROVE  HandshakeInv /\ OneKeyInv(st) /\ [Next]_vars
           => OneKeyInv(st') /\ (st.tk # NoPTK => st'.tk \in {st.tk, NoPTK})
<1> SUFFICES ASSUME HandshakeInv, OneKeyInv(st), [Next]_vars
             PROVE  OneKeyInv(st') /\ (st.tk # NoPTK => st'.tk \in {st.tk, NoPTK})
  OBVIOUS
<1>1. CASE StationStep BY <1>1, StationSends DEF KeyHeld
<1>2. CASE \E again \in BOOLEAN : Associate(again)
  BY <1>2, NotifyFields DEF Associate, HandshakeInv, SuppInv
<1>3. CASE UNCHANGED st BY <1>3
<1> QED
  BY <1>1, <1>2, <1>3 DEF Next, StationStep, ApAuthenticate, ApDeauth, ApDisassoc,
     ApTimeout, ApTxStatus, ApRekeyTimer, ApReceive, vars

\* With wpa_deny_ptk0_rekey and wpa_supplicant, which derives its PTK from one
\* SNonce, neither driver goes from one pairwise key to another
\* (wpa_request_new_ptk, wpa_supplicant_process_1_of_4, wpa_auth_sm_event).
THEOREM PtkIsNeverReplaced ==
  ASSUME wpa_deny_ptk0_rekey, ~SnoncePerMsg2
  PROVE  Spec => PtkNeverReplaced
<1> DEFINE A == /\ sm.tk # NoPTK => sm'.tk \in {sm.tk, NoPTK}
                /\ st.tk # NoPTK => st'.tk \in {st.tk, NoPTK}
           I == SoundInv /\ OneKeyInv(st)
<1>1. Init => I
  <2>1. Init => OneKeyInv(st) BY DEF Init, SuppInit, OneKeyInv
  <2> QED BY <2>1, SoundInit
<1>2. I /\ [Next]_vars => I' /\ [A]_vars
  <2> SUFFICES ASSUME I, [Next]_vars PROVE I' /\ A OBVIOUS
  <2>1. HandshakeInv BY DEF SoundInv, Sound, HandshakeInv
  <2>2. OneKeyInv(st') /\ (st.tk # NoPTK => st'.tk \in {st.tk, NoPTK})
    BY <2>1, OneKeyStep
  <2>3. sm.tk # NoPTK => sm.wpa_ptk_state = "PTKINITDONE"
    BY DEF SoundInv, Sound, RoundInv, CourseInv
  <2>4. sm.tk # NoPTK => sm'.tk \in {sm.tk, NoPTK}
    BY <2>3, AuthStep DEF Silent, Answered
  <2>5. SoundInv' BY SoundStep
  <2> QED BY <2>2, <2>4, <2>5
<1>3. Spec => [][A]_vars BY <1>1, <1>2, PTL DEF Spec
<1> QED BY <1>3, PTL DEF PtkNeverReplaced
-----------------------------------------------------------------------------
(***************************************************************************)
(* The refinement.  Every key belongs to nonces that were drawn, and what  *)
(* the station's driver uses, the station has confirmed.                   *)
(***************************************************************************)
KeysInv ==
  /\ st.nonces <= MaxSNonces
  /\ \A t \in st.tptk : t[2] <= sm.nonces
  /\ st.ptk_set => st.ptk[2] <= sm.nonces
  /\ \A k \in Confirmed : /\ k \in PTKs
                          /\ k[2] <= sm.nonces /\ k[3] <= st.nonces
  /\ st.installed => /\ st.ptk_set /\ st.ptk \in Confirmed
                     /\ st.tk = st.ptk

OneKey == wpa_deny_ptk0_rekey /\ ~SnoncePerMsg2 => OneKeyInv(st)

\* The station has k for its PTK, or has given up.
Settles(k) == st.wpa_state = "DISCONNECTED" \/ (st.ptk_set /\ st.ptk = k)

(***************************************************************************)
(* Where keys are not replaced: of a handshake under way the station has   *)
(* confirmed at most one key, and it still has that key or it has given    *)
(* up.  So it is with the key the authenticator uses.                      *)
(***************************************************************************)
MatchInv ==
  wpa_deny_ptk0_rekey /\ ~SnoncePerMsg2 =>
    /\ OneKeyInv(st)
    /\ InHandshake(sm) =>
         \A k \in Confirmed : k[2] = sm.ANonce => Settles(k)
    /\ sm.tk # NoPTK => Settles(sm.tk)

AgreeInv == SoundInv /\ KeysInv /\ MatchInv

\* The station's steps, by what they do with keys.
GaveUp == Forgot(st, st') /\ st'.wpa_state = "DISCONNECTED"
GaveReply(m) ==
  /\ Replied(st, st', m) /\ m \in sm.tx
  /\ st.nonces < MaxSNonces /\ st.wpa_state # "DISCONNECTED"
GaveProof(k) == Confirms(st, st', k) /\ st.wpa_state # "DISCONNECTED"

\* There are no others.
LEMMA StationKeys ==
  ASSUME AgreeInv, StationStep
  PROVE  /\ sm' = sm
         /\ \/ GaveUp \/ Asked(st, st')
            \/ (\E m : GaveReply(m)) \/ (\E k : GaveProof(k))
<1>1. HandshakeInv /\ SuppInv(st) /\ st \in SuppState
  BY DEF AgreeInv, SoundInv, Sound, HandshakeInv, SuppInv
<1>2. CASE StaLeave BY <1>1, <1>2, NotifyKeys DEF StaLeave, GaveUp
<1>3. CASE StaKeyRequest
  BY <1>1, <1>3, KeyRequestKeys DEF StaKeyRequest, GaveUp
<1>4. CASE StaReceive
  <2>1. PICK m \in sm.tx, rxOk \in BOOLEAN, txOk \in BOOLEAN, gtkOk \in BOOLEAN :
          /\ Acceptable(st, m) /\ st' = wpa_sm_rx_eapol(st, m, rxOk, txOk, gtkOk)
          /\ m.type = "1/4" => st.nonces < MaxSNonces
          /\ UNCHANGED sm
    BY <1>4 DEF StaReceive
  <2>2. m \in AuthMsg BY <1>1 DEF HandshakeInv, Idle, Kept, AuthInv, AuthState
  <2>3. st.wpa_state # "DISCONNECTED" BY <2>1 DEF Acceptable
  <2>4. \/ Forgot(st, st') /\ st'.wpa_state = "DISCONNECTED"
        \/ m.type = "1/4" /\ Replied(st, st', m)
        \/ Confirms(st, st', m.mic)
    BY <1>1, <2>1, <2>2, RxEapolKeys
  <2> QED BY <2>1, <2>3, <2>4 DEF GaveUp, GaveReply, GaveProof
<1> QED BY <1>2, <1>3, <1>4 DEF StationStep

\* What types the numbers have.
LEMMA Numbers ==
  ASSUME AgreeInv
  PROVE  /\ sm.nonces \in Nat /\ st.nonces \in Nat /\ st \in SuppState
         /\ SuppInv(st) /\ Counted(sm, MaxANonces)
  BY DEF AgreeInv, SoundInv, Sound, Idle, Kept, AuthInv, AuthState, SuppInv, SuppState

\* A key of the station is one that PairwiseSA speaks of.
LEMMA StationKeyType ==
  ASSUME AgreeInv, NEW k, k \in st.tptk \/ (st.ptk_set /\ st.ptk = k)
  PROVE  /\ k \in PTKs /\ k[2] <= sm.nonces /\ k[3] <= st.nonces
         /\ k \in PMKs \X (0 .. MaxANonces) \X (0 .. MaxSNonces)
<1>1. k \in PTKs /\ k[3] <= st.nonces
  BY Numbers DEF SuppInv, SuppState, Drawn, SNonceOf
<1>2. k[2] <= sm.nonces BY DEF AgreeInv, KeysInv
<1>3. sm.nonces <= MaxANonces /\ st.nonces <= MaxSNonces
  BY DEF AgreeInv, SoundInv, Counted, KeysInv
<1>4. k[2] \in 0 .. MaxANonces /\ k[3] \in 0 .. MaxSNonces
  BY <1>1, <1>2, <1>3, Numbers, BoundsNat DEF PTKs
<1> QED BY <1>1, <1>2, <1>4 DEF PTKs

\* The drivers keep their keys or lose them, and nothing is confirmed.
LEMMA DropStep ==
  ASSUME sm'.tk \in {sm.tk, NoPTK}, st'.tk \in {st.tk, NoPTK},
         sm'.installs = sm.installs,
         UsedBy(st'.installs) = UsedBy(st.installs), Confirmed' = Confirmed
  PROVE  SA!Next
  BY DEF SA!Next, SA!Drop, Confirmed, ConfirmedBy, UsedBy

\* A station that gives up.
LEMMA GaveUpStep ==
  ASSUME AgreeInv, sm' = sm, GaveUp
  PROVE  KeysInv' /\ MatchInv' /\ SA!Next
<1>1. Confirmed' = Confirmed /\ HasNone(st') /\ st'.nonces = st.nonces
        /\ st'.wpa_state = "DISCONNECTED" /\ st'.installs = st.installs
  BY DEF GaveUp, Forgot, Confirmed
<1>2. KeysInv' BY <1>1 DEF AgreeInv, KeysInv, HasNone
<1>3. OneKeyInv(st') BY <1>1 DEF HasNone, OneKeyInv
<1>4. MatchInv' BY <1>1, <1>3 DEF MatchInv, Settles
<1>5. SA!Next BY <1>1, DropStep DEF HasNone
<1> QED BY <1>2, <1>4, <1>5

\* A request for a new key, from a station that may have one.
LEMMA AskedStep ==
  ASSUME AgreeInv, sm' = sm, OneKey', Asked(st, st')
  PROVE  KeysInv' /\ MatchInv' /\ SA!Next
<1>1. /\ Confirmed' = Confirmed /\ st'.nonces = st.nonces /\ st'.tptk = st.tptk
      /\ st'.wpa_state = st.wpa_state /\ SamePtk(st, st')
  BY DEF Asked, Confirmed
<1>2. KeysInv' BY <1>1 DEF AgreeInv, KeysInv, SamePtk
<1>3. MatchInv' BY <1>1 DEF OneKey, AgreeInv, MatchInv, Settles, SamePtk
<1>4. SA!Next BY <1>1, DropStep DEF SamePtk
<1> QED BY <1>2, <1>3, <1>4

\* An answer to message 1/4.  Where keys are not replaced, the station has none.
LEMMA ReplyStep ==
  ASSUME AgreeInv, sm' = sm, OneKey', st'.nonces \in Nat, NEW m, GaveReply(m)
  PROVE  KeysInv' /\ MatchInv' /\ SA!Next
<1>1. /\ Confirmed' = Confirmed /\ SamePtk(st, st') /\ m \in sm.tx
      /\ \A t \in st'.tptk : t \in st.tptk \/ t[2] = m.nonce
      /\ st.nonces <= st'.nonces /\ st'.nonces <= st.nonces + 1
      /\ st.nonces < MaxSNonces
      /\ st.wpa_state # "DISCONNECTED" /\ Open(st)
  BY DEF GaveReply, Replied, Confirmed
<1>2. m.nonce <= sm.nonces BY <1>1, Numbers DEF Counted
<1>3. KeysInv'
  <2>1. st'.nonces <= MaxSNonces BY <1>1, Numbers, BoundsNat
  <2>2. \A t \in st'.tptk : t[2] <= sm.nonces
    BY <1>1, <1>2 DEF AgreeInv, KeysInv
  <2>3. \A k \in Confirmed : k[3] <= st'.nonces
    <3> SUFFICES ASSUME NEW k \in Confirmed PROVE k[3] <= st'.nonces OBVIOUS
    <3>1. k[3] \in Nat /\ k[3] <= st.nonces BY DEF AgreeInv, KeysInv, PTKs
    <3> QED BY <1>1, <3>1, Numbers
  <2> QED BY <1>1, <2>1, <2>2, <2>3 DEF AgreeInv, KeysInv, SamePtk
<1>4. MatchInv'
  <2> SUFFICES ASSUME wpa_deny_ptk0_rekey, ~SnoncePerMsg2
               PROVE  /\ OneKeyInv(st')
                      /\ InHandshake(sm) => \A k \in Confirmed : k[2] # sm.ANonce
                      /\ sm.tk = NoPTK
    BY <1>1 DEF MatchInv
  <2>1. \A k : ~Settles(k)
    BY <1>1 DEF Settles, Open, AgreeInv, MatchInv, OneKeyInv
  <2> QED BY <2>1 DEF OneKey, AgreeInv, MatchInv
<1>5. SA!Next BY <1>1, DropStep DEF SamePtk
<1> QED BY <1>3, <1>4, <1>5

\* A message 4/4 in answer to message 3/4.
LEMMA ProofStep ==
  ASSUME AgreeInv, sm' = sm, OneKey', NEW k, GaveProof(k)
  PROVE  KeysInv' /\ MatchInv' /\ SA!Next
<1> DEFINE Keys == PMKs \X (0 .. MaxANonces) \X (0 .. MaxSNonces)
<1>1. /\ k \in st.tptk \/ (st.ptk_set /\ st.ptk = k)
      /\ Confirmed' = Confirmed \cup {k} /\ st'.nonces = st.nonces
      /\ st.wpa_state # "DISCONNECTED"
      /\ \/ Uses(st, st', k)
         \/ /\ HasNone(st') /\ st'.wpa_state = "DISCONNECTED"
            /\ \/ Takes(st, st', k)
               \/ UsedBy(st'.installs) = UsedBy(st.installs)
  BY DEF GaveProof, Confirms, Confirmed
<1>2. k \in PTKs /\ k[2] <= sm.nonces /\ k[3] <= st.nonces /\ k \in Keys
  BY <1>1, StationKeyType
<1> HIDE DEF Keys
<1>3. KeysInv'
  <2>1. CASE Uses(st, st', k)
    <3>1. st'.ptk_set /\ st'.ptk = k /\ st'.tptk \subseteq st.tptk
      BY <2>1 DEF Uses
    <3>2. st'.installed => st'.tk = k
      BY <2>1 DEF Uses, Takes, AgreeInv, KeysInv
    <3> QED BY <1>1, <1>2, <3>1, <3>2 DEF AgreeInv, KeysInv
  <2>2. CASE HasNone(st')
    BY <1>1, <1>2, <2>2 DEF HasNone, AgreeInv, KeysInv
  <2> QED BY <1>1, <2>1, <2>2
<1>4. ASSUME wpa_deny_ptk0_rekey, ~SnoncePerMsg2, NEW j, Settles(j)
      PROVE  j = k /\ k \notin st.tptk /\ st.installed
  BY <1>1, <1>4 DEF Settles, AgreeInv, MatchInv, OneKeyInv
<1>5. MatchInv'
  <2> SUFFICES ASSUME wpa_deny_ptk0_rekey, ~SnoncePerMsg2
               PROVE  /\ OneKeyInv(st')
                      /\ InHandshake(sm) =>
                           \A j \in Confirmed' : j[2] = sm.ANonce => Settles(j)'
                      /\ sm.tk # NoPTK => Settles(sm.tk)'
    BY DEF MatchInv
  <2>1. Settles(k)' BY <1>1 DEF Uses, Settles
  <2>2. \A j : Settles(j) => Settles(j)' BY <1>4, <2>1
  <2> QED BY <1>1, <2>1, <2>2 DEF OneKey, AgreeInv, MatchInv
<1>6. SA!Next
  <2>1. CASE Takes(st, st', k)
    <3>1. st'.tk \in {k, NoPTK} BY <1>1, <2>1 DEF Uses, Takes, HasNone
    <3>2. wpa_deny_ptk0_rekey /\ ~SnoncePerMsg2 => sm.tk = NoPTK /\ st.tk = NoPTK
      <4> SUFFICES ASSUME wpa_deny_ptk0_rekey, ~SnoncePerMsg2
                   PROVE  sm.tk = NoPTK /\ st.tk = NoPTK
        OBVIOUS
      <4>1. OneKeyInv(st) /\ (sm.tk # NoPTK => Settles(sm.tk))
        BY DEF AgreeInv, MatchInv
      <4>2. sm.tk = NoPTK BY <1>4, <2>1, <4>1 DEF Takes
      <4>3. st.wpa_state # "COMPLETED"
        BY <1>1, <2>1, <4>1 DEF Takes, OneKeyInv
      <4> QED BY <4>1, <4>2, <4>3 DEF OneKeyInv
    <3>3. SA!StaInstall(k)
      BY <1>1, <2>1, <3>1, <3>2, DenyRekeyBoolean, SnoncePerMsg2Boolean
         DEF SA!StaInstall, Takes, Confirmed, ConfirmedBy, UsedBy
    <3> QED BY <1>2, <3>3 DEF SA!Next, Keys
  <2>2. CASE HasNone(st') /\ UsedBy(st'.installs) = UsedBy(st.installs)
    <3>1. SA!StaFail(k)
      BY <1>1, <2>2 DEF SA!StaFail, HasNone, Confirmed, ConfirmedBy, UsedBy
    <3> QED BY <1>2, <3>1 DEF SA!Next, Keys
  <2>3. CASE Uses(st, st', k) /\ ~Takes(st, st', k)
    <3>1. st.installed /\ st.ptk = k /\ st'.tk = st.tk
            /\ UsedBy(st'.installs) = UsedBy(st.installs)
      BY <2>3 DEF Uses
    <3>2. Confirmed' = Confirmed BY <1>1, <3>1 DEF AgreeInv, KeysInv
    <3> QED BY <3>1, <3>2, DropStep
  <2> QED BY <1>1, <2>1, <2>2, <2>3
<1> QED BY <1>3, <1>5, <1>6

\* A step of the authenticator: the station keeps what it has.
LEMMA AuthKeysStep ==
  ASSUME AgreeInv, [Next]_vars, st' = st
  PROVE  KeysInv' /\ MatchInv' /\ SA!Next
<1>1. /\ Follows(sm, sm', MaxANonces)
      /\ Silent(sm, sm') \/ \E m : Answered(m)
  BY AuthStep DEF AgreeInv
<1>2. sm.nonces <= sm'.nonces /\ sm'.nonces \in Nat
  <2>1. SoundInv' BY SoundStep DEF AgreeInv
  <2> QED
    BY <1>1, <2>1 DEF Follows, SoundInv, Sound, Idle, Kept, AuthInv, AuthState
<1>3. Confirmed' = Confirmed BY DEF Confirmed
<1>4. KeysInv'
  <2>1. ASSUME NEW k \in PTKs, k[2] <= sm.nonces PROVE k[2] <= sm'.nonces
    BY <1>2, <2>1, Numbers DEF PTKs
  <2>2. st.tptk \subseteq PTKs /\ st.ptk \in PTKs BY Numbers DEF SuppState
  <2> QED BY <1>3, <2>1, <2>2 DEF AgreeInv, KeysInv
<1>5. ASSUME NEW m, Answered(m), ~(sm'.tk \in {sm.tk, NoPTK} /\ sm'.installs = sm.installs)
      PROVE  /\ m.mic \in Confirmed /\ m.mic \notin sm.installs
             /\ sm'.tk = m.mic /\ sm'.installs = sm.installs \cup {m.mic}
             /\ InHandshake(sm) /\ m.mic[2] = sm.ANonce
  BY <1>5 DEF Answered, Installs, Confirmed, ConfirmedBy
<1>6. ASSUME wpa_deny_ptk0_rekey, ~SnoncePerMsg2
      PROVE  sm'.tk # NoPTK => Settles(sm'.tk)
  BY <1>1, <1>5, <1>6 DEF Silent, AgreeInv, MatchInv
<1>7. MatchInv'
  <2> SUFFICES ASSUME wpa_deny_ptk0_rekey, ~SnoncePerMsg2, InHandshake(sm'),
                      NEW k \in Confirmed, k[2] = sm'.ANonce
               PROVE  Settles(k)
    BY <1>3, <1>6 DEF AgreeInv, MatchInv, Settles
  <2>1. ~(sm'.ANonce > sm.nonces)
    <3>1. k \in PTKs /\ k[2] <= sm.nonces BY DEF AgreeInv, KeysInv
    <3> QED BY <3>1, Numbers DEF PTKs
  <2>2. InHandshake(sm) /\ sm'.ANonce = sm.ANonce BY <1>1, <2>1 DEF Follows
  <2> QED BY <2>2 DEF AgreeInv, MatchInv
<1>8. SA!Next
  <2>1. CASE sm'.tk \in {sm.tk, NoPTK} /\ sm'.installs = sm.installs
    BY <1>3, <2>1, DropStep
  <2>2. CASE ~(sm'.tk \in {sm.tk, NoPTK} /\ sm'.installs = sm.installs)
    <3>1. PICK m : Answered(m) BY <1>1, <2>2 DEF Silent
    <3> DEFINE k == m.mic
    <3>2. /\ k \in Confirmed /\ k \notin sm.installs
          /\ sm'.tk = k /\ sm'.installs = sm.installs \cup {k}
          /\ InHandshake(sm) /\ k[2] = sm.ANonce
      BY <1>5, <2>2, <3>1
    <3> HIDE DEF k
    <3>3. k \in PMKs \X (0 .. MaxANonces) \X (0 .. MaxSNonces)
      <4>1. k \in PTKs /\ k[2] <= sm.nonces /\ k[3] <= st.nonces
            /\ sm.nonces <= MaxANonces /\ st.nonces <= MaxSNonces
        BY <3>2, Numbers DEF AgreeInv, KeysInv, Counted
      <4>2. k[2] \in 0 .. MaxANonces /\ k[3] \in 0 .. MaxSNonces
        BY <4>1, Numbers, BoundsNat DEF PTKs
      <4> QED BY <4>1, <4>2 DEF PTKs
    <3>4. ASSUME wpa_deny_ptk0_rekey, ~SnoncePerMsg2
          PROVE  sm.tk = NoPTK /\ st.tk \in {k, NoPTK}
      <4>1. sm.tk = NoPTK
        <5>1. sm.wpa_ptk_state # "PTKINITDONE"
          BY <3>1 DEF Answered
        <5> QED
          BY <3>4, <5>1 DEF AgreeInv, SoundInv, Sound, RoundInv, CourseInv
      <4>2. Settles(k) /\ OneKeyInv(st)
        BY <3>2, <3>4 DEF AgreeInv, MatchInv
      <4>3. st.tk \in {k, NoPTK}
        BY <4>2 DEF Settles, OneKeyInv, AgreeInv, KeysInv
      <4> QED BY <4>1, <4>3
    <3>5. SA!ApInstall(k)
      BY <1>3, <3>2, <3>4, DenyRekeyBoolean, SnoncePerMsg2Boolean
         DEF SA!ApInstall, Confirmed, ConfirmedBy
    <3> QED BY <3>3, <3>5 DEF SA!Next
  <2> QED BY <2>1, <2>2
<1> QED BY <1>4, <1>7, <1>8

\* A new association: both ends forget, and the handshake that begins has an
\* ANonce no key has yet.
LEMMA AssociateKeysStep ==
  ASSUME AgreeInv, NEW again \in BOOLEAN, Associate(again)
  PROVE  KeysInv' /\ MatchInv' /\ SA!Next
<1>1. /\ Forgot(st, st') /\ st'.wpa_state = "ASSOCIATED"
  BY Numbers, NotifyKeys DEF Associate
<1>2. /\ sm'.tk = NoPTK /\ sm'.installs = sm.installs
      /\ InHandshake(sm') => sm'.ANonce > sm.nonces
      /\ Follows(sm, sm', MaxANonces) /\ sm'.nonces \in Nat
  <2>1. Handled /\ sm'.tk = NoPTK /\ (InHandshake(sm') => sm'.ANonce > sm.nonces)
    BY AssociateSound DEF AgreeInv
  <2> QED
    BY <2>1 DEF Handled, Silent, Sound, Idle, Kept, AuthInv, AuthState
<1>3. /\ Confirmed' = Confirmed /\ HasNone(st') /\ st'.nonces = st.nonces
      /\ st'.installs = st.installs
  BY <1>1 DEF Forgot, Confirmed
<1>4. ASSUME NEW k \in Confirmed
      PROVE  k \in PTKs /\ k[2] <= sm.nonces /\ k[3] <= st.nonces /\ k[2] \in Nat
  BY DEF AgreeInv, KeysInv, PTKs
<1>5. KeysInv'
  <2>1. \A k \in Confirmed : k[2] <= sm'.nonces
    BY <1>2, <1>4, Numbers DEF Follows
  <2> QED BY <1>3, <1>4, <2>1 DEF AgreeInv, KeysInv, HasNone
<1>6. MatchInv'
  <2>1. InHandshake(sm') => \A k \in Confirmed : k[2] # sm'.ANonce
    BY <1>2, <1>4, Numbers
  <2>2. OneKeyInv(st') BY <1>1, <1>3 DEF HasNone, OneKeyInv
  <2> QED BY <1>2, <1>3, <2>1, <2>2 DEF MatchInv
<1>7. SA!Next BY <1>2, <1>3, DropStep DEF HasNone
<1> QED BY <1>5, <1>6, <1>7

\* Every step keeps the invariant and is a step of PairwiseSA.
LEMMA AgreeStep == AgreeInv /\ [Next]_vars => AgreeInv' /\ SA!Next
<1> SUFFICES ASSUME AgreeInv, [Next]_vars PROVE AgreeInv' /\ SA!Next OBVIOUS
<1>1. SoundInv' BY SoundStep DEF AgreeInv
<1>2. HandshakeInv BY DEF AgreeInv, SoundInv, Sound, HandshakeInv
<1>3. OneKey'
  BY <1>2, OneKeyStep DEF OneKey, AgreeInv, MatchInv
<1>4. CASE StationStep
  <2>1. st'.nonces \in Nat BY <1>1 DEF SoundInv, SuppInv, SuppState
  <2> QED
    BY <1>1, <1>3, <1>4, <2>1, StationKeys, GaveUpStep, AskedStep, ReplyStep,
       ProofStep DEF AgreeInv
<1>5. CASE \E again \in BOOLEAN : Associate(again)
  BY <1>1, <1>5, AssociateKeysStep DEF AgreeInv
<1>6. CASE st' = st BY <1>1, <1>6, AuthKeysStep DEF AgreeInv
<1> QED
  BY <1>4, <1>5, <1>6 DEF Next, StationStep, ApAuthenticate, ApDeauth, ApDisassoc,
     ApTimeout, ApTxStatus, ApRekeyTimer, ApReceive, vars

\* The invariant holds before the station has associated.
LEMMA AgreeInit == Init => AgreeInv /\ SA!Init
<1> SUFFICES ASSUME Init PROVE AgreeInv /\ SA!Init OBVIOUS
<1>1. /\ st.tx = {} /\ st.installs = {} /\ st.tk = NoPTK /\ st.tptk = {}
      /\ ~st.ptk_set /\ ~st.installed /\ st.nonces = 0
      /\ st.wpa_state = "DISCONNECTED"
      /\ sm.tk = NoPTK /\ sm.installs = {}
  BY DEF Init, SuppInit, AuthInit
<1>2. Confirmed = {} /\ UsedBy(st.installs) = {}
  BY <1>1 DEF Confirmed, ConfirmedBy, UsedBy
<1>3. KeysInv BY <1>1, <1>2, BoundsNat DEF KeysInv
<1>4. MatchInv BY <1>1, <1>2 DEF MatchInv, OneKeyInv
<1>5. SA!Init BY <1>1, <1>2 DEF SA!Init, Confirmed, ConfirmedBy, UsedBy
<1> QED BY <1>3, <1>4, <1>5, SoundInit DEF AgreeInv

\* The exchange of frames implements the pairwise security association: keys are
\* given to a driver once, the authenticator uses only what the station has
\* confirmed and, where keys are not replaced, never a key other than the one
\* the station uses (PTKINITDONE, wpa_supplicant_process_3_of_4).
THEOREM HandshakeImplementsSA == Spec => ImplementsSA
<1>1. AgreeInv /\ [Next]_vars => AgreeInv' /\ [SA!Next]_(SA!vars)
  BY AgreeStep
<1> QED BY <1>1, AgreeInit, PTL DEF Spec, ImplementsSA, SA!Spec
=============================================================================
