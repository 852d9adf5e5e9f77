------------------------- MODULE EapolAuthenticator -------------------------
(***************************************************************************)
(* IEEE 802.1X authentication of one station by an access point that uses  *)
(* WPA-Enterprise and an external RADIUS server: the authenticator PAE,    *)
(* backend and reauthentication timer machines of                          *)
(* src/eapol_auth/eapol_auth_sm.c, the EAP server machine in pass-through  *)
(* (src/eap_server/eap_server.c), what ties them to frames, RADIUS and the *)
(* station table (src/ap/ieee802_1x.c, sta_info.c), and as much of the RSN *)
(* authenticator as waits for a PMK (src/ap/wpa_auth.c).                   *)
(*                                                                         *)
(* An exchange is what happens between two entries of EAP's INITIALIZE.    *)
(* Requests to the server, responses of the station and keys are "cur" or  *)
(* "old", of this exchange (for responses: to the last request) or an      *)
(* earlier one, or "none".  A timer is running or has reached 0, and any   *)
(* running timer may reach 0 at the next tick.  portControl is Auto.       *)
(***************************************************************************)
EXTENDS Naturals

CONSTANTS
    reAuthMax,          \* AUTH_PAE_DEFAULT_reAuthMax
    MaxRetrans,         \* retransmissions of an EAP request
    EapolEvents,        \* disturbances the instance has: "logoff", "ctrl_reauth"
    AcceptKeys,         \* may an Access-Accept carry keys (TRUE), no keys (FALSE)
    MaxChallenges,      \* bound: Access-Challenges in an exchange
    MaxStray            \* bound: responses to no outstanding request in an exchange

ASSUME EapolConstants ==
    /\ reAuthMax \in Nat \ {0} /\ MaxRetrans \in Nat
    /\ MaxChallenges \in Nat /\ MaxStray \in Nat
    /\ EapolEvents \subseteq {"logoff", "ctrl_reauth"}
    /\ AcceptKeys \subseteq BOOLEAN /\ AcceptKeys # {}

VARIABLE eapol  \* the station's struct eapol_state_machine, eap_sm, sta_info
                \* and what matters of its wpa_state_machine

PaeStates == {"INITIALIZE", "DISCONNECTED", "RESTART", "CONNECTING", "HELD",
              "AUTHENTICATED", "AUTHENTICATING", "ABORTING"}
BeStates == {"INITIALIZE", "IDLE", "REQUEST", "RESPONSE", "SUCCESS", "FAIL",
             "TIMEOUT", "IGNORE"}
EapStates == {"DISABLED", "INITIALIZE", "SELECT_ACTION", "PROPOSE_METHOD",
              "METHOD_REQUEST", "SEND_REQUEST", "IDLE", "RETRANSMIT", "RECEIVED",
              "DISCARD", "METHOD_RESPONSE", "TIMEOUT_FAILURE",
              "INITIALIZE_PASSTHROUGH", "AAA_REQUEST", "AAA_IDLE", "AAA_RESPONSE",
              "SEND_REQUEST2", "IDLE2", "RETRANSMIT2", "RECEIVED2", "DISCARD2",
              "TIMEOUT_FAILURE2", "FAILURE2", "SUCCESS2"}
Timers == {"aWhile", "quietWhile", "reAuthWhen", "retransWhile"}
Ages == {"none", "cur", "old"}

MaxSteps == 100     \* max_steps of eapol_sm_step_run()

\* present: sta->eapol_sm exists; wpa: sta->wpa_sm and where it waits; steps: the
\* machines a timeout of 0 s is registered for.  answer is what the server said
\* of the current exchange; challenges and stray count for the bounds.
EapolState ==
    [present: BOOLEAN, assoc: BOOLEAN, authorized: BOOLEAN, failTimer: BOOLEAN,
     wpa: {"none", "AUTHENTICATION2", "HANDSHAKE", "PTKINITDONE"}, pmk: Ages,
     steps: SUBSET {"eapol", "wpa"}, settled: BOOLEAN,
     pae: PaeStates, be: BeStates, reauth: {"INITIALIZE", "REAUTHENTICATE"},
     eap: EapStates, timers: SUBSET Timers,
     portEnabled: BOOLEAN, portValid: BOOLEAN, authPortStatus: BOOLEAN,
     eapolStart: BOOLEAN, eapolLogoff: BOOLEAN, eapolEap: BOOLEAN,
     reAuthenticate: BOOLEAN, reAuthCount: Nat, stopped: BOOLEAN,
     authenticated: BOOLEAN, authStart: BOOLEAN, authAbort: BOOLEAN,
     authSuccess: BOOLEAN, authFail: BOOLEAN, authTimeout: BOOLEAN,
     keyRun: BOOLEAN, keyDone: BOOLEAN,
     eapReq: BOOLEAN, eapResp: BOOLEAN, eapNoReq: BOOLEAN, eapRestart: BOOLEAN,
     eapSuccess: BOOLEAN, eapFail: BOOLEAN, eapTimeout: BOOLEAN,
     eapKeyAvailable: BOOLEAN, eapKeyData: Ages, eapRespData: {"cur", "old"},
     idSet: BOOLEAN, identity: BOOLEAN, start_reauth: BOOLEAN, retransCount: Nat,
     aaaEapReq: BOOLEAN, aaaSuccess: BOOLEAN, aaaFail: BOOLEAN,
     aaaEapResp: {"no", "empty", "data"}, aaaEapKeyData: Ages,
     radius: Ages, answer: {"none", "accept", "reject"},
     challenges: Nat, stray: Nat]

\* eapol_auth_alloc() with eapol_auth_initialize(), for a station entry without
\* a machine: the port is still disabled.
FreshEapol ==
    [present |-> TRUE, assoc |-> FALSE, authorized |-> FALSE, failTimer |-> FALSE,
     wpa |-> "none", pmk |-> "none", steps |-> {}, settled |-> TRUE,
     pae |-> "INITIALIZE", be |-> "IDLE", reauth |-> "INITIALIZE",
     eap |-> "DISABLED", timers |-> {"reAuthWhen"},
     portEnabled |-> FALSE, portValid |-> FALSE, authPortStatus |-> FALSE,
     eapolStart |-> FALSE, eapolLogoff |-> FALSE, eapolEap |-> FALSE,
     reAuthenticate |-> FALSE, reAuthCount |-> 0, stopped |-> FALSE,
     authenticated |-> FALSE, authStart |-> FALSE, authAbort |-> FALSE,
     authSuccess |-> FALSE, authFail |-> FALSE, authTimeout |-> FALSE,
     keyRun |-> FALSE, keyDone |-> FALSE,
     eapReq |-> FALSE, eapResp |-> FALSE, eapNoReq |-> FALSE, eapRestart |-> FALSE,
     eapSuccess |-> FALSE, eapFail |-> FALSE, eapTimeout |-> FALSE,
     eapKeyAvailable |-> FALSE, eapKeyData |-> "none", eapRespData |-> "old",
     idSet |-> FALSE, identity |-> FALSE, start_reauth |-> FALSE, retransCount |-> 0,
     aaaEapReq |-> FALSE, aaaSuccess |-> FALSE, aaaFail |-> FALSE,
     aaaEapResp |-> "no", aaaEapKeyData |-> "none",
     radius |-> "none", answer |-> "none", challenges |-> 0, stray |-> 0]

NoEapol == [FreshEapol EXCEPT !.present = FALSE]

EapolInit == eapol = NoEapol

Aged(age) == IF age = "cur" THEN "old" ELSE age
Start(x, timer) == x.timers \cup {timer}

\* eapol_auth_step(), wpa_auth_sm_notify(): run the machine from a timeout.
eapol_auth_step(x) == [x EXCEPT !.steps = @ \cup {"eapol"}]
wpa_auth_sm_notify(x) ==
    IF x.wpa = "none" THEN x ELSE [x EXCEPT !.steps = @ \cup {"wpa"}]

-----------------------------------------------------------------------------
(* The station table and the RSN authenticator. *)

\* ap_sta_disconnect(): WPA_DEAUTH takes WPA_PTK through INITIALIZE (the port is
\* disabled and not valid), then the machine is freed.  The EAPOL machine stays.
ap_sta_disconnect(x) ==
    eapol_auth_step(
        [x EXCEPT !.assoc = FALSE, !.authorized = FALSE, !.portEnabled = FALSE,
                  !.portValid = @ /\ x.wpa = "none",
                  !.wpa = "none", !.pmk = "none", !.steps = @ \ {"wpa"}])

\* SM_STATE(WPA_PTK, INITPMK) with the step out of it: no MSK, or one that was
\* used up (eapKeyAvailable), disconnects the station.
INITPMK(x) ==
    CASE x.eapKeyData = "none" -> ap_sta_disconnect(x)
      [] x.eapKeyData # "none" /\ ~x.eapKeyAvailable ->
            ap_sta_disconnect([x EXCEPT !.keyRun = FALSE])
      [] OTHER -> [x EXCEPT !.wpa = "HANDSHAKE", !.pmk = x.eapKeyData,
                            !.keyRun = FALSE]

\* wpa_sm_step() of a machine that waits for the PMK.
wpa_sm_step_1x(x) ==
    IF x.wpa = "AUTHENTICATION2" /\ x.keyRun THEN INITPMK(x) ELSE x

\* wpa_auth_sm_event(): WPA_REAUTH and WPA_REAUTH_EAPOL, without the disconnections
\* of wpa_deny_ptk0_rekey and after four handshakes without success.
WpaReauth(x) ==
    IF x.wpa = "none" THEN x
    ELSE wpa_sm_step_1x([x EXCEPT !.wpa = "AUTHENTICATION2"])

\* ieee802_1x_finished() after a failure: the station will be disconnected, after
\* 10 ms or, if it logged off, 0 ms.  Only for the latter the result is TRUE.
Finished(x) == [x EXCEPT !.failTimer = TRUE]

-----------------------------------------------------------------------------
(* Authenticator PAE state machine. *)

\* Mutant of PaeInitialize: keyRun is left alone, as IEEE Std 802.1X-2004 has it.
PaeInitialize_KeyRunStays(x) == [x EXCEPT !.pae = "INITIALIZE"]

PaeInitialize(x) == [x EXCEPT !.pae = "INITIALIZE", !.keyRun = FALSE]

PaeDisconnected(x) ==
    LET y == [x EXCEPT !.pae = "DISCONNECTED", !.authPortStatus = FALSE,
                       !.authorized = FALSE, !.reAuthCount = 0, !.eapolLogoff = FALSE]
        preAuthLogoff == x.pae = "ABORTING" /\ x.eapolLogoff /\ ~x.authenticated
    IN IF x.pae = "INITIALIZE" \/ preAuthLogoff THEN y
       ELSE [Finished(y) EXCEPT !.stopped = @ \/ (x.eapolLogoff /\ x.wpa # "none")]

PaeRestart(x) == [x EXCEPT !.pae = "RESTART", !.eapRestart = TRUE]

PaeConnecting(x) ==
    [x EXCEPT !.pae = "CONNECTING", !.reAuthenticate = FALSE, !.reAuthCount = @ + 1]

\* Mutant of PaeHeld: the port stays as it is.
PaeHeld_PortStays(x) ==
    Finished([x EXCEPT !.pae = "HELD", !.timers = Start(x, "quietWhile"),
                       !.eapolLogoff = FALSE])

PaeHeld(x) ==
    Finished([x EXCEPT !.pae = "HELD", !.authPortStatus = FALSE, !.authorized = FALSE,
                       !.timers = Start(x, "quietWhile"), !.eapolLogoff = FALSE])

PaeAuthenticated(x) ==
    [x EXCEPT !.pae = "AUTHENTICATED", !.authPortStatus = TRUE, !.authorized = TRUE,
              !.reAuthCount = 0, !.reAuthenticate = FALSE,
              !.authenticated = @ \/ x.authSuccess]

\* Mutant of PaeAuthenticating: the EAPOL-Start stays pending.
PaeAuthenticating_StartStays(x) ==
    [x EXCEPT !.pae = "AUTHENTICATING", !.authSuccess = FALSE, !.authFail = FALSE,
              !.authTimeout = FALSE, !.authStart = TRUE, !.keyRun = FALSE,
              !.keyDone = FALSE]

PaeAuthenticating(x) ==
    [x EXCEPT !.pae = "AUTHENTICATING", !.eapolStart = FALSE, !.authSuccess = FALSE,
              !.authFail = FALSE, !.authTimeout = FALSE, !.authStart = TRUE,
              !.keyRun = FALSE, !.keyDone = FALSE]

PaeAborting(x) ==
    [x EXCEPT !.pae = "ABORTING", !.authAbort = TRUE, !.keyRun = FALSE, !.keyDone = FALSE]

\* SM_STEP(AUTH_PAE)
PaeStep[x \in EapolState] ==
    CASE ~x.portEnabled -> PaeInitialize(x)
      [] x.portEnabled /\ x.pae = "INITIALIZE" -> PaeDisconnected(x)
      [] x.portEnabled /\ x.pae = "DISCONNECTED" -> IF x.stopped THEN x ELSE PaeRestart(x)
      [] x.portEnabled /\ x.pae = "RESTART" -> IF x.eapRestart THEN x ELSE PaeConnecting(x)
      [] x.portEnabled /\ x.pae = "HELD" ->
            IF "quietWhile" \in x.timers THEN x ELSE PaeRestart(x)
      [] x.portEnabled /\ x.pae = "CONNECTING" ->
            IF x.eapolLogoff \/ x.reAuthCount > reAuthMax THEN PaeDisconnected(x)
            ELSE IF x.eapReq \/ x.eapSuccess \/ x.eapFail THEN PaeAuthenticating(x)
            ELSE x
      [] x.portEnabled /\ x.pae = "AUTHENTICATED" ->
            IF x.eapolStart \/ x.reAuthenticate THEN PaeRestart(x)
            ELSE IF x.eapolLogoff \/ ~x.portValid THEN PaeDisconnected(x) ELSE x
      [] x.portEnabled /\ x.pae = "AUTHENTICATING" ->
            IF x.authSuccess /\ x.portValid THEN PaeAuthenticated(x)
            ELSE IF x.authFail \/ (x.keyDone /\ ~x.portValid) THEN PaeHeld(x)
            ELSE IF x.eapolStart \/ x.eapolLogoff \/ x.authTimeout THEN PaeAborting(x)
            ELSE x
      [] OTHER -> \* ABORTING
            IF x.authAbort THEN x
            ELSE IF x.eapolLogoff THEN PaeDisconnected(x) ELSE PaeRestart(x)

-----------------------------------------------------------------------------
(* Backend authentication and reauthentication timer state machines. *)

\* ieee802_1x_abort_auth(): a station that did not answer EAP is disconnected.
abortAuth(x) ==
    IF x.eapTimeout THEN ap_sta_disconnect([x EXCEPT !.portEnabled = FALSE]) ELSE x

BeInitialize(x) ==
    [abortAuth(x) EXCEPT !.be = "INITIALIZE", !.eapNoReq = FALSE, !.authAbort = FALSE]

BeRequest(x) == [x EXCEPT !.be = "REQUEST", !.eapReq = FALSE, !.eapolEap = FALSE]

BeResponse(x) ==
    [x EXCEPT !.be = "RESPONSE", !.authTimeout = FALSE, !.eapolEap = FALSE,
              !.eapNoReq = FALSE, !.timers = Start(x, "aWhile"), !.eapResp = TRUE]

BeSuccess(x) == [x EXCEPT !.be = "SUCCESS", !.authSuccess = TRUE, !.keyRun = TRUE]
BeFail(x) == [x EXCEPT !.be = "FAIL", !.authFail = TRUE]
BeTimeout(x) == [x EXCEPT !.be = "TIMEOUT", !.authTimeout = TRUE]
BeIdle(x) == [x EXCEPT !.be = "IDLE", !.authStart = FALSE]
BeIgnore(x) == [x EXCEPT !.be = "IGNORE", !.eapNoReq = FALSE]

\* The step of a machine that waits for the station.
BeWaiting(x) ==
    IF x.eapolEap THEN BeResponse(x)
    ELSE IF x.eapReq THEN BeRequest(x)
    ELSE IF x.eapTimeout THEN BeTimeout(x) ELSE x

\* SM_STEP(BE_AUTH).  In RESPONSE the machine enters IGNORE and goes on.
BeStep[x \in EapolState] ==
    CASE x.authAbort -> BeInitialize(x)
      [] ~x.authAbort /\ x.be \in {"INITIALIZE", "SUCCESS", "FAIL", "TIMEOUT"} -> BeIdle(x)
      [] ~x.authAbort /\ x.be \in {"REQUEST", "IGNORE"} -> BeWaiting(x)
      [] ~x.authAbort /\ x.be = "RESPONSE" ->
            LET y == IF x.eapNoReq THEN BeIgnore(x) ELSE x
            IN IF x.eapReq THEN BeRequest(y)
               ELSE IF "aWhile" \notin x.timers THEN BeTimeout(y)
               ELSE IF x.eapFail THEN BeFail(y)
               ELSE IF x.eapSuccess THEN BeSuccess(y) ELSE y
      [] OTHER -> \* IDLE
            IF ~x.authStart THEN x
            ELSE IF x.eapFail THEN BeFail(x)
            ELSE IF x.eapReq THEN BeRequest(x)
            ELSE IF x.eapSuccess THEN BeSuccess(x) ELSE x

\* SM_STEP(REAUTH_TIMER)
ReauthStep[x \in EapolState] ==
    IF ~x.authPortStatus \/ x.reauth = "REAUTHENTICATE"
    THEN [x EXCEPT !.reauth = "INITIALIZE", !.timers = Start(x, "reAuthWhen")]
    ELSE IF "reAuthWhen" \in x.timers THEN x
    ELSE WpaReauth([x EXCEPT !.reauth = "REAUTHENTICATE", !.reAuthenticate = TRUE])

-----------------------------------------------------------------------------
(* EAP server state machine: the Identity method, then pass-through. *)

\* A new exchange.  A restart forgets the identity, so that it is asked for again.
EapInitialize(x) ==
    [x EXCEPT !.eap = "INITIALIZE", !.identity = @ /\ ~x.eapRestart, !.idSet = FALSE,
              !.eapSuccess = FALSE, !.eapFail = FALSE, !.eapTimeout = FALSE,
              !.eapKeyData = "none", !.eapKeyAvailable = FALSE, !.eapRestart = FALSE,
              !.eapRespData = Aged(@), !.radius = Aged(@), !.aaaEapKeyData = Aged(@),
              !.pmk = Aged(@), !.answer = "none", !.challenges = 0, !.stray = 0]

\* SELECT_ACTION with eap_sm_Policy_getDecision(): pass-through once the identity
\* is known, the Identity method before.
EapSelectAction(x) ==
    IF x.identity /\ ~x.start_reauth THEN [x EXCEPT !.eap = "INITIALIZE_PASSTHROUGH"]
    ELSE [x EXCEPT !.eap = "PROPOSE_METHOD", !.start_reauth = FALSE]

EapSendRequest(x, state) ==
    [x EXCEPT !.eap = state, !.retransCount = 0, !.eapResp = FALSE, !.eapReq = TRUE]

EapIdle(x, state) == [x EXCEPT !.eap = state, !.timers = Start(x, "retransWhile")]

\* Mutant of EapRetransmit: retransmissions are not counted.
EapRetransmit_NotCounted(x, state) ==
    [x EXCEPT !.eap = state, !.eapReq = @ \/ x.retransCount + 1 <= MaxRetrans]

EapRetransmit(x, state) ==
    [x EXCEPT !.eap = state, !.retransCount = @ + 1,
              !.eapReq = @ \/ x.retransCount + 1 <= MaxRetrans]

EapDiscard(x, state) == [x EXCEPT !.eap = state, !.eapResp = FALSE, !.eapNoReq = TRUE]
EapTimeout(x, state) == [x EXCEPT !.eap = state, !.eapTimeout = TRUE]

\* A request with a new identifier: the response at hand answers no longer.
NewRequestId(x, state) ==
    [x EXCEPT !.eap = state, !.idSet = TRUE, !.eapRespData = Aged(@)]

\* Mutant of AaaIdle: what the server said before is kept.
AaaIdle_Kept(x, data) == [x EXCEPT !.eap = "AAA_IDLE", !.aaaEapResp = data]

AaaIdle(x, data) ==
    [x EXCEPT !.eap = "AAA_IDLE", !.aaaFail = FALSE, !.aaaSuccess = FALSE,
              !.aaaEapReq = FALSE, !.aaaEapResp = data]

EapSuccess2(x) ==
    [x EXCEPT !.eap = "SUCCESS2", !.eapKeyAvailable = x.aaaEapKeyData # "none",
              !.eapKeyData = x.aaaEapKeyData, !.eapSuccess = TRUE, !.start_reauth = TRUE]

\* SM_STEP(EAP): an unchanged state means that no transition was taken.
EapStep(x) ==
    CASE ~x.portEnabled -> [x EXCEPT !.eap = "DISABLED"]
      [] x.portEnabled /\ (x.eapRestart \/ x.eap = "DISABLED") -> EapInitialize(x)
      [] OTHER ->
        CASE x.eap = "INITIALIZE" -> [x EXCEPT !.eap = "SELECT_ACTION"]
          [] x.eap = "SELECT_ACTION" -> EapSelectAction(x)
          [] x.eap = "PROPOSE_METHOD" -> NewRequestId(x, "METHOD_REQUEST")
          [] x.eap = "METHOD_REQUEST" -> EapSendRequest(x, "SEND_REQUEST")
          [] x.eap \in {"SEND_REQUEST", "DISCARD"} -> EapIdle(x, "IDLE")
          [] x.eap = "IDLE" ->
                IF "retransWhile" \notin x.timers THEN EapRetransmit(x, "RETRANSMIT")
                ELSE IF x.eapResp THEN [x EXCEPT !.eap = "RECEIVED"] ELSE x
          [] x.eap = "RETRANSMIT" ->
                IF x.retransCount > MaxRetrans THEN EapTimeout(x, "TIMEOUT_FAILURE")
                ELSE EapIdle(x, "IDLE")
          [] x.eap = "RECEIVED" ->
                IF x.eapRespData = "cur"
                THEN [x EXCEPT !.eap = "METHOD_RESPONSE", !.identity = TRUE]
                ELSE EapDiscard(x, "DISCARD")
          [] x.eap = "METHOD_RESPONSE" -> [x EXCEPT !.eap = "SELECT_ACTION"]
          [] x.eap = "INITIALIZE_PASSTHROUGH" ->
                IF x.idSet THEN [x EXCEPT !.eap = "AAA_REQUEST"] ELSE AaaIdle(x, "empty")
          [] x.eap = "AAA_REQUEST" -> AaaIdle(x, "data")
          [] x.eap = "AAA_IDLE" ->
                IF x.aaaFail THEN [x EXCEPT !.eap = "FAILURE2", !.eapFail = TRUE]
                ELSE IF x.aaaSuccess THEN EapSuccess2(x)
                ELSE IF x.aaaEapReq THEN NewRequestId(x, "AAA_RESPONSE") ELSE x
          [] x.eap = "AAA_RESPONSE" -> EapSendRequest(x, "SEND_REQUEST2")
          [] x.eap \in {"SEND_REQUEST2", "DISCARD2"} -> EapIdle(x, "IDLE2")
          [] x.eap = "IDLE2" ->
                IF x.eapResp THEN [x EXCEPT !.eap = "RECEIVED2"]
                ELSE IF "retransWhile" \notin x.timers THEN EapRetransmit(x, "RETRANSMIT2")
                ELSE x
          [] x.eap = "RETRANSMIT2" ->
                IF x.retransCount > MaxRetrans THEN EapTimeout(x, "TIMEOUT_FAILURE2")
                ELSE EapIdle(x, "IDLE2")
          [] x.eap = "RECEIVED2" ->
                IF x.eapRespData = "cur" THEN [x EXCEPT !.eap = "AAA_REQUEST"]
                ELSE EapDiscard(x, "DISCARD2")
          [] OTHER -> x    \* FAILURE2, SUCCESS2, TIMEOUT_FAILURE, TIMEOUT_FAILURE2

\* eap_server_sm_step(): step until nothing changes.  settled is FALSE when that
\* takes more than n steps.
eap_server_sm_step[p \in EapolState \X (0 .. MaxSteps)] ==
    LET x == p[1]
        n == p[2]
        y == EapStep(x)
    IN CASE y.eap = x.eap -> x
         [] n = 0 /\ y.eap # x.eap -> [x EXCEPT !.settled = FALSE]
         [] OTHER -> eap_server_sm_step[<<y, n - 1>>]

MachinesStep[x \in EapolState] == ReauthStep[BeStep[PaeStep[x]]]

Moved(x, y) == <<x.pae, x.be, x.reauth>> # <<y.pae, y.be, y.reauth>>

\* A round that took the machines from x to y, for q = <<x, y>>: the loop ends when
\* none of them and not EAP either has moved.  EAP runs when the machines did not move.
RoundEnds[q \in EapolState \X EapolState] ==
    ~Moved(q[1], q[2]) /\ EapStep(q[2]).eap = q[2].eap
RoundGoesOn[q \in EapolState \X EapolState] ==
    IF Moved(q[1], q[2]) THEN q[2] ELSE eap_server_sm_step[<<q[2], MaxSteps>>]

\* The loop of eapol_sm_step_run() from x, in at most n rounds.  settled is FALSE when
\* the rounds were not enough.
StepRounds[p \in EapolState \X (0 .. MaxSteps)] ==
    LET x == p[1]
        n == p[2]
        q == <<x, MachinesStep[x]>>
    IN CASE n = 0 -> eapol_auth_step([x EXCEPT !.settled = FALSE])
         [] n > 0 /\ RoundEnds[q] -> q[2]
         [] OTHER -> StepRounds[<<RoundGoesOn[q], n - 1>>]

\* The timers whose value is read before the next time they are set.
Awaited(x) ==
    {t \in x.timers : CASE t = "aWhile" -> x.be = "RESPONSE"
                         [] t = "quietWhile" -> x.pae = "HELD"
                         [] t = "retransWhile" -> x.eap \in {"IDLE", "IDLE2"}
                         [] t = "reAuthWhen" -> TRUE}

\* After the loop a response goes to the server, if there is one to send
\* (ieee802_1x_encapsulate_radius()), and the RSN authenticator is told.
AfterRounds[x \in EapolState] ==
    LET y == [x EXCEPT !.timers = Awaited(x)]
    IN CASE ~y.settled -> y
         [] y.settled /\ y.aaaEapResp = "empty" -> [y EXCEPT !.aaaEapResp = "no"]
         [] y.settled /\ y.aaaEapResp = "data" ->
                wpa_auth_sm_notify([y EXCEPT !.aaaEapResp = "no", !.radius = "cur"])
         [] OTHER -> wpa_auth_sm_notify(y)

eapol_sm_step_run(x) == AfterRounds[StepRounds[<<x, MaxSteps>>]]

-----------------------------------------------------------------------------
(* Actions. *)

\* The registered timeouts of 0 s.
eapol_sm_step_cb ==
    /\ "eapol" \in eapol.steps
    /\ eapol' = eapol_sm_step_run([eapol EXCEPT !.steps = @ \ {"eapol"}])

wpa_sm_call_step ==
    /\ "wpa" \in eapol.steps
    /\ eapol' = wpa_sm_step_1x([eapol EXCEPT !.steps = @ \ {"wpa"}])

\* eapol_port_timers_tick(): expired are the timers that reach 0 in this second.
\* quietPeriod is 60 s, so the disconnection after 10 ms is over when it ends; a
\* port that is not authorized sets reAuthWhen again in every step.
eapol_port_timers_tick(expired) ==
    /\ eapol.present /\ expired \subseteq eapol.timers
    /\ "quietWhile" \in expired => ~eapol.failTimer
    /\ "reAuthWhen" \in expired => eapol.authPortStatus
    /\ eapol' = eapol_sm_step_run([eapol EXCEPT !.timers = @ \ expired])

\* An association takes several frames: timeouts of 0 s have run before it ends.
Quiet == eapol.steps = {}

\* ieee802_1x_new_station(), without a PMKSA: the machine of an earlier
\* association may still be there and is made to reauthenticate.
ieee802_1x_new_station(x) ==
    eapol_auth_step([IF x.present THEN x ELSE FreshEapol EXCEPT
                        !.portEnabled = TRUE, !.reAuthenticate = x.present])

\* hostapd_new_assoc_sta() for a station that was not associated: a new RSN
\* authenticator goes from INITIALIZE to AUTHENTICATION2.
Associate ==
    /\ ~eapol.assoc /\ Quiet
    /\ eapol' = wpa_sm_step_1x(
                    [ieee802_1x_new_station(eapol) EXCEPT
                        !.assoc = TRUE, !.failTimer = FALSE, !.portValid = FALSE,
                        !.wpa = "AUTHENTICATION2"])

\* The same for one that was: WPA_REAUTH.
Reassociate ==
    /\ eapol.assoc /\ Quiet
    /\ eapol' = WpaReauth([ieee802_1x_new_station(eapol) EXCEPT !.failTimer = FALSE])

\* The station's entry or its EAPOL machine is freed: deauthentication and
\* disassociation by the station, ap_handle_timer() after a disconnection.
FreeStation ==
    /\ eapol.present /\ eapol' = NoEapol

\* ieee802_1x_receive(): EAPOL-Start, EAPOL-Logoff and EAP responses.
ReceiveStart ==
    /\ eapol.assoc /\ eapol.present
    /\ eapol' = eapol_auth_step(
                    WpaReauth([eapol EXCEPT !.eapolStart = TRUE, !.identity = FALSE]))

ReceiveLogoff ==
    /\ "logoff" \in EapolEvents /\ eapol.assoc /\ eapol.present
    /\ eapol' = eapol_auth_step([eapol EXCEPT !.eapolLogoff = TRUE, !.identity = FALSE])

\* handle_eap_response(): the response is to the last request, or a stray one.
ReceiveResponse(age) ==
    /\ eapol.assoc /\ eapol.present
    /\ IF age = "cur" THEN eapol.idSet /\ eapol.eapRespData # "cur"
                      ELSE eapol.stray < MaxStray
    /\ eapol' = eapol_auth_step(
                    [eapol EXCEPT !.eapRespData = age, !.eapolEap = TRUE,
                                  !.stray = IF age = "cur" THEN @ ELSE @ + 1])

\* ieee802_1x_receive_auth(): the reply to the station's outstanding request.  An
\* Accept may carry keys or not, and fails if the station's VLAN cannot be set up:
\* its EAP message is then passed on like that of a Challenge.
ReceiveAuth(reply, keys) ==
    /\ eapol.present /\ eapol.radius # "none"
    /\ LET verdict == IF eapol.radius = "cur" THEN reply ELSE eapol.answer
           y == eapol_auth_step([eapol EXCEPT !.radius = "none"])
       IN \/ /\ reply = "accept"
             /\ eapol' = [y EXCEPT !.aaaSuccess = TRUE, !.aaaEapReq = FALSE,
                                   !.answer = verdict,
                                   !.aaaEapKeyData = IF keys THEN eapol.radius ELSE @]
          \/ /\ reply = "reject"
             /\ eapol' = [y EXCEPT !.aaaFail = TRUE, !.aaaEapReq = FALSE,
                                   !.answer = verdict]
          \/ /\ reply \in {"challenge", "accept_no_vlan"}
             /\ eapol.challenges < MaxChallenges
             /\ eapol' = [y EXCEPT !.aaaEapReq = TRUE, !.challenges = @ + 1]

\* SM_STATE(WPA_PTK, PTKINITDONE), and the end of a failed 4-way handshake.
PtkInitDone ==
    /\ eapol.wpa = "HANDSHAKE"
    /\ eapol' = eapol_auth_step([eapol EXCEPT !.wpa = "PTKINITDONE", !.portValid = TRUE,
                                              !.eapKeyAvailable = FALSE, !.keyDone = TRUE])

HandshakeFails ==
    /\ eapol.wpa = "HANDSHAKE" /\ eapol' = ap_sta_disconnect(eapol)

ap_sta_delayed_1x_auth_fail_cb ==
    /\ eapol.failTimer
    /\ eapol' = ap_sta_disconnect([eapol EXCEPT !.failTimer = FALSE])

\* The control interface command EAPOL_REAUTH.
eapol_auth_reauthenticate ==
    /\ "ctrl_reauth" \in EapolEvents /\ eapol.present
    /\ eapol' = eapol_auth_step([eapol EXCEPT !.reAuthenticate = TRUE])

Replies == {"accept", "reject", "challenge", "accept_no_vlan"}

EapolNext ==
    \/ eapol_sm_step_cb \/ wpa_sm_call_step
    \/ \E expired \in SUBSET Timers : eapol_port_timers_tick(expired)
    \/ Associate \/ Reassociate \/ FreeStation
    \/ ReceiveStart \/ ReceiveLogoff
    \/ \E age \in {"cur", "old"} : ReceiveResponse(age)
    \/ \E reply \in Replies, keys \in AcceptKeys : ReceiveAuth(reply, keys)
    \/ PtkInitDone \/ HandshakeFails \/ ap_sta_delayed_1x_auth_fail_cb
    \/ eapol_auth_reauthenticate

EapolSpec == EapolInit /\ [][EapolNext]_eapol

-----------------------------------------------------------------------------
(* Properties. *)

\* eapol is a record of EapolState and its counters keep to their limits: one more
\* connection attempt than reAuthMax (AUTH_PAE CONNECTING), one more
\* retransmission than MaxRetrans (EAP RETRANSMIT).
EapolTypeOK ==
    /\ eapol \in EapolState
    /\ eapol.reAuthCount <= reAuthMax + 1 /\ eapol.retransCount <= MaxRetrans + 1

\* The 100 rounds of eapol_sm_step_run() are a precaution that is never needed: the
\* machines feed each other (a logoff, an abort, a restart of EAP) but always come
\* to rest in one call, and the loop of eap_server_sm_step() always ends.
EapolSettles == eapol.settled

\* The PAE is in AUTHENTICATED only if the server accepted the exchange that is
\* current, whatever late answer, retransmission, EAPOL-Start, logoff or
\* reassociation came in between: neither an Accept to an earlier exchange nor
\* authSuccess of an earlier run opens the port for a later one.
EapolPortOnAccept == eapol.pae = "AUTHENTICATED" => eapol.answer = "accept"

\* A station the server rejected does not keep an authorized port once the step
\* callbacks have run, even one whose port was open while it reauthenticated.  The
\* one exception is a backend that waits for the station: when retransWhile
\* expires in the very second in which the response arrives, EAP retransmits and
\* sends the response to the server, BE_AUTH goes back to REQUEST, and REQUEST
\* does not look at eapFail.
EapolRejectCloses ==
    eapol.answer = "reject" /\ Quiet /\ eapol.be \notin {"REQUEST", "IGNORE"}
        => ~eapol.authorized

\* A new association starts in AUTHENTICATION2 and never in a 4-way handshake with
\* a PMK of an earlier one: keyRun, which sends WPA_PTK to INITPMK, does not
\* survive a disconnection although the EAPOL machine does (the hazard named in
\* AUTH_PAE INITIALIZE).
EapolNoStalePmk ==
    [][~eapol.assoc /\ eapol'.assoc => eapol'.wpa = "AUTHENTICATION2"]_eapol

\* ieee802_1x_new_station() sets reAuthenticate to "force EAPOL state machines to
\* start re-authentication without having to wait for the Supplicant to send
\* EAPOL-Start": when the machines come to rest with reAuthenticate still set and the
\* RSN authenticator waiting for a PMK, an exchange with the station or the server is
\* going on.
EapolReauthForced ==
    eapol.reAuthenticate /\ eapol.wpa = "AUTHENTICATION2" /\ Quiet /\ ~eapol.failTimer
        => eapol.timers \cap {"aWhile", "quietWhile", "retransWhile"} # {}

\* The event loop runs the timeouts that are registered, every running timer
\* reaches 0, and a 4-way handshake ends.
EapolFairness ==
    /\ WF_eapol(eapol_sm_step_cb) /\ WF_eapol(wpa_sm_call_step)
    /\ \A t \in Timers :
        WF_eapol(\E expired \in SUBSET Timers :
                    t \in expired /\ eapol_port_timers_tick(expired))
    /\ WF_eapol(ap_sta_delayed_1x_auth_fail_cb)
    /\ WF_eapol(PtkInitDone \/ HandshakeFails)

EapolLiveSpec == EapolSpec /\ EapolFairness

\* The server is asked while the backend waits for the station (EapolRejectCloses):
\* neither its verdict nor its silence ends the authentication.
VerdictMissed ==
    /\ eapol.be \in {"REQUEST", "IGNORE"}
    /\ eapol.eap \in {"AAA_IDLE", "SUCCESS2", "FAILURE2"}

\* An authentication ends, by a verdict, a timeout or an abort, although the station
\* and the server may fall silent at any time and the station may go on sending
\* EAPOL-Start: after reAuthMax restarts it is disconnected.  The exceptions are
\* VerdictMissed and a station that reassociates meanwhile (EapolReauthForced).
EapolDecides ==
    eapol.pae = "AUTHENTICATING" ~>
        eapol.pae # "AUTHENTICATING" \/ VerdictMissed \/ eapol.reAuthenticate
=============================================================================
