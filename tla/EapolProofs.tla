---------------------------- MODULE EapolProofs ----------------------------
(***************************************************************************)
(* Proofs about EapolAuthenticator: the machines of a station always come  *)
(* to rest within one call of eapol_sm_step_run(), and what they then      *)
(* leave behind.                                                           *)
(***************************************************************************)
EXTENDS EapolAuthenticator, ListProofs

-----------------------------------------------------------------------------
(* The state as a function of its fields: a record with so many fields is *)
(* best updated one field at a time.                                      *)

\* The fields of EapolState and their types.
FieldType == [present |-> BOOLEAN, assoc |-> BOOLEAN, authorized |-> BOOLEAN, failTimer |-> BOOLEAN,
     wpa |-> {"none", "AUTHENTICATION2", "HANDSHAKE", "PTKINITDONE"}, pmk |-> Ages,
     steps |-> SUBSET {"eapol", "wpa"}, settled |-> BOOLEAN,
     pae |-> PaeStates, be |-> BeStates, reauth |-> {"INITIALIZE", "REAUTHENTICATE"},
     eap |-> EapStates, timers |-> SUBSET Timers,
     portEnabled |-> BOOLEAN, portValid |-> BOOLEAN, authPortStatus |-> BOOLEAN,
     eapolStart |-> BOOLEAN, eapolLogoff |-> BOOLEAN, eapolEap |-> BOOLEAN,
     reAuthenticate |-> BOOLEAN, reAuthCount |-> Nat, stopped |-> BOOLEAN,
     authenticated |-> BOOLEAN, authStart |-> BOOLEAN, authAbort |-> BOOLEAN,
     authSuccess |-> BOOLEAN, authFail |-> BOOLEAN, authTimeout |-> BOOLEAN,
     keyRun |-> BOOLEAN, keyDone |-> BOOLEAN,
     eapReq |-> BOOLEAN, eapResp |-> BOOLEAN, eapNoReq |-> BOOLEAN, eapRestart |-> BOOLEAN,
     eapSuccess |-> BOOLEAN, eapFail |-> BOOLEAN, eapTimeout |-> BOOLEAN,
     eapKeyAvailable |-> BOOLEAN, eapKeyData |-> Ages, eapRespData |-> {"cur", "old"},
     idSet |-> BOOLEAN, identity |-> BOOLEAN, start_reauth |-> BOOLEAN, retransCount |-> Nat,
     aaaEapReq |-> BOOLEAN, aaaSuccess |-> BOOLEAN, aaaFail |-> BOOLEAN,
     aaaEapResp |-> {"no", "empty", "data"}, aaaEapKeyData |-> Ages,
     radius |-> Ages, answer |-> {"none", "accept", "reject"},
     challenges |-> Nat, stray |-> Nat]

\* The names of the fields.
Fields == DOMAIN FieldType

\* x is a record of these fields, each of its type.
WellTyped(x) == x = [f \in Fields |-> x[f]] /\ \A f \in Fields : x[f] \in FieldType[f]

\* A state of the machines is such a record.
LEMMA StateTyped == ASSUME NEW x \in EapolState PROVE WellTyped(x)
BY SMTT(60) DEF EapolState, WellTyped, FieldType, Fields

\* Such a record is a state of the machines.
LEMMA TypedState == ASSUME NEW x, WellTyped(x) PROVE x \in EapolState
BY SMTT(60) DEF EapolState, WellTyped, FieldType, Fields

\* An assignment of a value of the field's type keeps a record well typed.
LEMMA SetField ==
  ASSUME NEW x, WellTyped(x), NEW f \in Fields, NEW v \in FieldType[f]
  PROVE  WellTyped([x EXCEPT ![f] = v])
<1> DEFINE y == [x EXCEPT ![f] = v]
<1>1. x = [g \in Fields |-> x[g]] BY DEF WellTyped
<1>2. DOMAIN x = Fields BY <1>1
<1>3. \A g \in Fields : y[g] = IF g = f THEN v ELSE x[g] BY <1>2
<1>4. y = [g \in Fields |-> y[g]] BY <1>2
<1> QED BY <1>3, <1>4 DEF WellTyped

\* The fields one by one, for the provers to pick from.
LEMMA FieldTypes ==
    /\ "present" \in Fields /\ FieldType["present"] = BOOLEAN
    /\ "assoc" \in Fields /\ FieldType["assoc"] = BOOLEAN
    /\ "authorized" \in Fields /\ FieldType["authorized"] = BOOLEAN
    /\ "failTimer" \in Fields /\ FieldType["failTimer"] = BOOLEAN
    /\ "wpa" \in Fields
           /\ FieldType["wpa"] = {"none", "AUTHENTICATION2", "HANDSHAKE", "PTKINITDONE"}
    /\ "pmk" \in Fields /\ FieldType["pmk"] = Ages
    /\ "steps" \in Fields /\ FieldType["steps"] = SUBSET {"eapol", "wpa"}
    /\ "settled" \in Fields /\ FieldType["settled"] = BOOLEAN
    /\ "pae" \in Fields /\ FieldType["pae"] = PaeStates
    /\ "be" \in Fields /\ FieldType["be"] = BeStates
    /\ "reauth" \in Fields /\ FieldType["reauth"] = {"INITIALIZE", "REAUTHENTICATE"}
    /\ "eap" \in Fields /\ FieldType["eap"] = EapStates
    /\ "timers" \in Fields /\ FieldType["timers"] = SUBSET Timers
    /\ "portEnabled" \in Fields /\ FieldType["portEnabled"] = BOOLEAN
    /\ "portValid" \in Fields /\ FieldType["portValid"] = BOOLEAN
    /\ "authPortStatus" \in Fields /\ FieldType["authPortStatus"] = BOOLEAN
    /\ "eapolStart" \in Fields /\ FieldType["eapolStart"] = BOOLEAN
    /\ "eapolLogoff" \in Fields /\ FieldType["eapolLogoff"] = BOOLEAN
    /\ "eapolEap" \in Fields /\ FieldType["eapolEap"] = BOOLEAN
    /\ "reAuthenticate" \in Fields /\ FieldType["reAuthenticate"] = BOOLEAN
    /\ "reAuthCount" \in Fields /\ FieldType["reAuthCount"] = Nat
    /\ "stopped" \in Fields /\ FieldType["stopped"] = BOOLEAN
    /\ "authenticated" \in Fields /\ FieldType["authenticated"] = BOOLEAN
    /\ "authStart" \in Fields /\ FieldType["authStart"] = BOOLEAN
    /\ "authAbort" \in Fields /\ FieldType["authAbort"] = BOOLEAN
    /\ "authSuccess" \in Fields /\ FieldType["authSuccess"] = BOOLEAN
    /\ "authFail" \in Fields /\ FieldType["authFail"] = BOOLEAN
    /\ "authTimeout" \in Fields /\ FieldType["authTimeout"] = BOOLEAN
    /\ "keyRun" \in Fields /\ FieldType["keyRun"] = BOOLEAN
    /\ "keyDone" \in Fields /\ FieldType["keyDone"] = BOOLEAN
    /\ "eapReq" \in Fields /\ FieldType["eapReq"] = BOOLEAN
    /\ "eapResp" \in Fields /\ FieldType["eapResp"] = BOOLEAN
    /\ "eapNoReq" \in Fields /\ FieldType["eapNoReq"] = BOOLEAN
    /\ "eapRestart" \in Fields /\ FieldType["eapRestart"] = BOOLEAN
    /\ "eapSuccess" \in Fields /\ FieldType["eapSuccess"] = BOOLEAN
    /\ "eapFail" \in Fields /\ FieldType["eapFail"] = BOOLEAN
    /\ "eapTimeout" \in Fields /\ FieldType["eapTimeout"] = BOOLEAN
    /\ "eapKeyAvailable" \in Fields /\ FieldType["eapKeyAvailable"] = BOOLEAN
    /\ "eapKeyData" \in Fields /\ FieldType["eapKeyData"] = Ages
    /\ "eapRespData" \in Fields /\ FieldType["eapRespData"] = {"cur", "old"}
    /\ "idSet" \in Fields /\ FieldType["idSet"] = BOOLEAN
    /\ "identity" \in Fields /\ FieldType["identity"] = BOOLEAN
    /\ "start_reauth" \in Fields /\ FieldType["start_reauth"] = BOOLEAN
    /\ "retransCount" \in Fields /\ FieldType["retransCount"] = Nat
    /\ "aaaEapReq" \in Fields /\ FieldType["aaaEapReq"] = BOOLEAN
    /\ "aaaSuccess" \in Fields /\ FieldType["aaaSuccess"] = BOOLEAN
    /\ "aaaFail" \in Fields /\ FieldType["aaaFail"] = BOOLEAN
    /\ "aaaEapResp" \in Fields /\ FieldType["aaaEapResp"] = {"no", "empty", "data"}
    /\ "aaaEapKeyData" \in Fields /\ FieldType["aaaEapKeyData"] = Ages
    /\ "radius" \in Fields /\ FieldType["radius"] = Ages
    /\ "answer" \in Fields /\ FieldType["answer"] = {"none", "accept", "reject"}
    /\ "challenges" \in Fields /\ FieldType["challenges"] = Nat
    /\ "stray" \in Fields /\ FieldType["stray"] = Nat
<1>1. /\ "present" \in Fields /\ FieldType["present"] = BOOLEAN
      /\ "assoc" \in Fields /\ FieldType["assoc"] = BOOLEAN
      /\ "authorized" \in Fields /\ FieldType["authorized"] = BOOLEAN
      /\ "failTimer" \in Fields /\ FieldType["failTimer"] = BOOLEAN
      /\ "wpa" \in Fields
             /\ FieldType["wpa"] = {"none", "AUTHENTICATION2", "HANDSHAKE", "PTKINITDONE"}
      /\ "pmk" \in Fields /\ FieldType["pmk"] = Ages
      /\ "steps" \in Fields /\ FieldType["steps"] = SUBSET {"eapol", "wpa"}
      /\ "settled" \in Fields /\ FieldType["settled"] = BOOLEAN
      /\ "pae" \in Fields /\ FieldType["pae"] = PaeStates
      /\ "be" \in Fields /\ FieldType["be"] = BeStates
      /\ "reauth" \in Fields /\ FieldType["reauth"] = {"INITIALIZE", "REAUTHENTICATE"}
      /\ "eap" \in Fields /\ FieldType["eap"] = EapStates
      /\ "timers" \in Fields /\ FieldType["timers"] = SUBSET Timers
      /\ "portEnabled" \in Fields /\ FieldType["portEnabled"] = BOOLEAN
      /\ "portValid" \in Fields /\ FieldType["portValid"] = BOOLEAN
      /\ "authPortStatus" \in Fields /\ FieldType["authPortStatus"] = BOOLEAN
      /\ "eapolStart" \in Fields /\ FieldType["eapolStart"] = BOOLEAN
      /\ "eapolLogoff" \in Fields /\ FieldType["eapolLogoff"] = BOOLEAN
  BY DEF Fields, FieldType
<1>2. /\ "eapolEap" \in Fields /\ FieldType["eapolEap"] = BOOLEAN
      /\ "reAuthenticate" \in Fields /\ FieldType["reAuthenticate"] = BOOLEAN
      /\ "reAuthCount" \in Fields /\ FieldType["reAuthCount"] = Nat
      /\ "stopped" \in Fields /\ FieldType["stopped"] = BOOLEAN
      /\ "authenticated" \in Fields /\ FieldType["authenticated"] = BOOLEAN
      /\ "authStart" \in Fields /\ FieldType["authStart"] = BOOLEAN
      /\ "authAbort" \in Fields /\ FieldType["authAbort"] = BOOLEAN
      /\ "authSuccess" \in Fields /\ FieldType["authSuccess"] = BOOLEAN
      /\ "authFail" \in Fields /\ FieldType["authFail"] = BOOLEAN
      /\ "authTimeout" \in Fields /\ FieldType["authTimeout"] = BOOLEAN
      /\ "keyRun" \in Fields /\ FieldType["keyRun"] = BOOLEAN
      /\ "keyDone" \in Fields /\ FieldType["keyDone"] = BOOLEAN
      /\ "eapReq" \in Fields /\ FieldType["eapReq"] = BOOLEAN
      /\ "eapResp" \in Fields /\ FieldType["eapResp"] = BOOLEAN
      /\ "eapNoReq" \in Fields /\ FieldType["eapNoReq"] = BOOLEAN
      /\ "eapRestart" \in Fields /\ FieldType["eapRestart"] = BOOLEAN
      /\ "eapSuccess" \in Fields /\ FieldType["eapSuccess"] = BOOLEAN
      /\ "eapFail" \in Fields /\ FieldType["eapFail"] = BOOLEAN
  BY DEF Fields, FieldType
<1>3. /\ "eapTimeout" \in Fields /\ FieldType["eapTimeout"] = BOOLEAN
      /\ "eapKeyAvailable" \in Fields /\ FieldType["eapKeyAvailable"] = BOOLEAN
      /\ "eapKeyData" \in Fields /\ FieldType["eapKeyData"] = Ages
      /\ "eapRespData" \in Fields /\ FieldType["eapRespData"] = {"cur", "old"}
      /\ "idSet" \in Fields /\ FieldType["idSet"] = BOOLEAN
      /\ "identity" \in Fields /\ FieldType["identity"] = BOOLEAN
      /\ "start_reauth" \in Fields /\ FieldType["start_reauth"] = BOOLEAN
      /\ "retransCount" \in Fields /\ FieldType["retransCount"] = Nat
      /\ "aaaEapReq" \in Fields /\ FieldType["aaaEapReq"] = BOOLEAN
      /\ "aaaSuccess" \in Fields /\ FieldType["aaaSuccess"] = BOOLEAN
      /\ "aaaFail" \in Fields /\ FieldType["aaaFail"] = BOOLEAN
      /\ "aaaEapResp" \in Fields /\ FieldType["aaaEapResp"] = {"no", "empty", "data"}
      /\ "aaaEapKeyData" \in Fields /\ FieldType["aaaEapKeyData"] = Ages
      /\ "radius" \in Fields /\ FieldType["radius"] = Ages
      /\ "answer" \in Fields /\ FieldType["answer"] = {"none", "accept", "reject"}
      /\ "challenges" \in Fields /\ FieldType["challenges"] = Nat
      /\ "stray" \in Fields /\ FieldType["stray"] = Nat
  BY DEF Fields, FieldType
<1> QED BY <1>1, <1>2, <1>3, Zenon

-----------------------------------------------------------------------------
(* The steps of the machines keep to the types. *)

\* A step of AUTH_PAE yields a state of the machines.
LEMMA PaeTyped ==
  ASSUME NEW x \in EapolState
  PROVE  PaeStep[x] \in EapolState
<1>1. WellTyped(x) BY StateTyped
<1>2. /\ x.pae \in PaeStates /\ x.reAuthCount + 1 \in Nat
             /\ Start(x, "quietWhile") \in SUBSET Timers
      /\ \A b \in BOOLEAN : (x.stopped \/ b) \in BOOLEAN
      /\ (x.authenticated \/ x.authSuccess) \in BOOLEAN
      /\ (x.stopped \/ (x.eapolLogoff /\ x.wpa # "none")) \in BOOLEAN
  BY DEF EapolState, Start, Timers
<1> USE <1>1, SetField, FieldTypes
<1>3. WellTyped(PaeInitialize(x)) BY DEF PaeInitialize, PaeStates
<1>4. WellTyped(PaeDisconnected(x))
  <2> DEFINE y == [x EXCEPT !.pae = "DISCONNECTED", !.authPortStatus = FALSE,
                       !.authorized = FALSE, !.reAuthCount = 0, !.eapolLogoff = FALSE]
  <2>1. WellTyped(y) BY DEF PaeStates
  <2>2. y.stopped = x.stopped OBVIOUS
  <2> HIDE DEF y
  <2>3. WellTyped([y EXCEPT !.failTimer = TRUE]) BY <2>1
  <2>4. WellTyped([Finished(y) EXCEPT !.stopped = @ \/ (x.eapolLogoff /\ x.wpa # "none")])
    BY <1>2, <2>1, <2>2, <2>3 DEF Finished
  <2> QED BY <2>1, <2>4 DEF PaeDisconnected, y
<1>5. WellTyped(PaeRestart(x)) BY DEF PaeRestart, PaeStates
<1>6. WellTyped(PaeConnecting(x)) BY <1>2 DEF PaeConnecting, PaeStates
<1>7. WellTyped(PaeHeld(x)) BY <1>2 DEF PaeHeld, PaeStates, Finished
<1>8. WellTyped(PaeAuthenticated(x)) BY <1>2 DEF PaeAuthenticated, PaeStates
<1>9. WellTyped(PaeAuthenticating(x)) BY DEF PaeAuthenticating, PaeStates
<1>10. WellTyped(PaeAborting(x)) BY DEF PaeAborting, PaeStates
<1> QED BY <1>3, <1>4, <1>5, <1>6, <1>7, <1>8, <1>9, <1>10, TypedState DEF PaeStep

\* ap_sta_disconnect() keeps to the types.
LEMMA DisconnectTyped ==
  ASSUME NEW x, WellTyped(x)
  PROVE  WellTyped(ap_sta_disconnect(x))
<1>1. /\ (x.portValid /\ x.wpa = "none") \in BOOLEAN
      /\ x.steps \ {"wpa"} \in SUBSET {"eapol", "wpa"}
      /\ (x.steps \ {"wpa"}) \cup {"eapol"} \in SUBSET {"eapol", "wpa"}
      /\ DOMAIN x = Fields
  BY FieldTypes DEF WellTyped
<1> DEFINE y == [x EXCEPT !.assoc = FALSE, !.authorized = FALSE, !.portEnabled = FALSE,
                  !.portValid = x.portValid /\ x.wpa = "none",
                  !.wpa = "none", !.pmk = "none", !.steps = x.steps \ {"wpa"}]
<1>2. WellTyped(y) BY <1>1, SetField, FieldTypes DEF Ages
<1>3. y.steps = x.steps \ {"wpa"} BY <1>1, FieldTypes
<1> HIDE DEF y
<1>4. WellTyped([y EXCEPT !.steps = y.steps \cup {"eapol"}])
  BY <1>1, <1>2, <1>3, SetField, FieldTypes
<1> QED BY <1>4 DEF ap_sta_disconnect, eapol_auth_step, y

\* A step of BE_AUTH yields a state of the machines.
LEMMA BeTyped ==
  ASSUME NEW x \in EapolState
  PROVE  BeStep[x] \in EapolState
<1>1. WellTyped(x) BY StateTyped
<1>2. x.be \in BeStates /\ Start(x, "aWhile") \in SUBSET Timers
  BY DEF EapolState, Start, Timers
<1> USE <1>1, SetField, FieldTypes
<1>3. WellTyped(BeInitialize(x))
  <2>1. WellTyped(abortAuth(x))
    <3>1. WellTyped([x EXCEPT !.portEnabled = FALSE]) OBVIOUS
    <3> QED BY <3>1, DisconnectTyped DEF abortAuth
  <2> HIDE <1>1
  <2> QED BY <2>1 DEF BeInitialize, BeStates
<1>4. WellTyped(BeRequest(x)) BY DEF BeRequest, BeStates
<1>5. WellTyped(BeResponse(x)) BY <1>2 DEF BeResponse, BeStates
<1>6. WellTyped(BeSuccess(x)) /\ WellTyped(BeFail(x)) /\ WellTyped(BeTimeout(x))
  BY DEF BeSuccess, BeFail, BeTimeout, BeStates
<1>7. WellTyped(BeIdle(x)) /\ WellTyped(BeIgnore(x)) BY DEF BeIdle, BeIgnore, BeStates
<1>8. WellTyped(BeWaiting(x)) BY <1>4, <1>5, <1>6 DEF BeWaiting
<1>9. ASSUME NEW y, WellTyped(y)
      PROVE  /\ WellTyped(BeRequest(y)) /\ WellTyped(BeTimeout(y))
             /\ WellTyped(BeFail(y)) /\ WellTyped(BeSuccess(y))
  BY <1>9 DEF BeRequest, BeSuccess, BeFail, BeTimeout, BeStates
<1> QED BY <1>2, <1>3, <1>4, <1>6, <1>7, <1>8, <1>9, TypedState DEF BeStep, BeStates

\* A step of the RSN authenticator keeps to the types.
LEMMA WpaStepTyped ==
  ASSUME NEW x, WellTyped(x)
  PROVE  WellTyped(wpa_sm_step_1x(x))
<1>1. x.eapKeyData \in Ages BY FieldTypes DEF WellTyped
<1>2. WellTyped([x EXCEPT !.keyRun = FALSE]) BY SetField, FieldTypes
<1>3. WellTyped([x EXCEPT !.wpa = "HANDSHAKE", !.pmk = x.eapKeyData, !.keyRun = FALSE])
  BY <1>1, SetField, FieldTypes
<1>4. WellTyped(INITPMK(x)) BY <1>2, <1>3, DisconnectTyped DEF INITPMK
<1> QED BY <1>4 DEF wpa_sm_step_1x

\* So does its reauthentication.
LEMMA WpaReauthTyped ==
  ASSUME NEW x, WellTyped(x)
  PROVE  WellTyped(WpaReauth(x))
<1>1. WellTyped([x EXCEPT !.wpa = "AUTHENTICATION2"]) BY SetField, FieldTypes
<1> QED BY <1>1, WpaStepTyped DEF WpaReauth

\* A step of REAUTH_TIMER yields a state of the machines.
LEMMA ReauthTyped ==
  ASSUME NEW x \in EapolState
  PROVE  ReauthStep[x] \in EapolState
<1>1. WellTyped(x) BY StateTyped
<1>2. Start(x, "reAuthWhen") \in SUBSET Timers BY DEF EapolState, Start, Timers
<1>3. WellTyped([x EXCEPT !.reauth = "INITIALIZE", !.timers = Start(x, "reAuthWhen")])
  BY <1>1, <1>2, SetField, FieldTypes
<1>4. WellTyped([x EXCEPT !.reauth = "REAUTHENTICATE", !.reAuthenticate = TRUE])
  BY <1>1, SetField, FieldTypes
<1> QED BY <1>1, <1>3, <1>4, WpaReauthTyped, TypedState DEF ReauthStep

\* A step of EAP yields a state of the machines.
LEMMA EapTyped ==
  ASSUME NEW x \in EapolState
  PROVE  EapStep(x) \in EapolState
<1>1. WellTyped(x) BY StateTyped
<1>2. /\ x.eap \in EapStates /\ Start(x, "retransWhile") \in SUBSET Timers
      /\ x.retransCount + 1 \in Nat /\ (x.eapReq \/ x.retransCount + 1 <= MaxRetrans) \in BOOLEAN
      /\ (x.identity /\ ~x.eapRestart) \in BOOLEAN
      /\ Aged(x.eapRespData) \in {"cur", "old"} /\ Aged(x.radius) \in Ages
      /\ Aged(x.aaaEapKeyData) \in Ages /\ Aged(x.pmk) \in Ages
      /\ x.aaaEapKeyData \in Ages /\ (x.aaaEapKeyData # "none") \in BOOLEAN
  BY DEF EapolState, Start, Timers, Aged, Ages
<1> USE <1>1, SetField, FieldTypes
<1>3. WellTyped(EapInitialize(x))
  <2> DEFINE y == [x EXCEPT !.eap = "INITIALIZE", !.identity = @ /\ ~x.eapRestart, !.idSet = FALSE,
                            !.eapSuccess = FALSE, !.eapFail = FALSE, !.eapTimeout = FALSE,
                            !.eapKeyData = "none", !.eapKeyAvailable = FALSE]
             z == [y EXCEPT !.eapRestart = FALSE, !.eapRespData = Aged(x.eapRespData),
                            !.radius = Aged(x.radius), !.aaaEapKeyData = Aged(x.aaaEapKeyData),
                            !.pmk = Aged(x.pmk), !.answer = "none", !.challenges = 0, !.stray = 0]
  <2>1. WellTyped(y) BY <1>2 DEF EapStates, Ages
  <2>2. EapInitialize(x) = z BY DEF EapInitialize
  <2> HIDE DEF y
  <2>3. WellTyped(z) BY <1>2, <2>1 DEF Ages
  <2> QED BY <2>2, <2>3
<1>4. WellTyped(EapSelectAction(x)) BY DEF EapSelectAction, EapStates
<1>5. \A s \in EapStates : WellTyped([x EXCEPT !.eap = s]) OBVIOUS
<1>6. \A s \in EapStates : WellTyped(EapSendRequest(x, s)) BY DEF EapSendRequest
<1>7. \A s \in EapStates : WellTyped(EapIdle(x, s)) BY <1>2 DEF EapIdle
<1>8. \A s \in EapStates : WellTyped(EapRetransmit(x, s)) BY <1>2 DEF EapRetransmit
<1>9. \A s \in EapStates : WellTyped(EapDiscard(x, s)) BY DEF EapDiscard
<1>10. \A s \in EapStates : WellTyped(EapTimeout(x, s)) BY DEF EapTimeout
<1>11. \A s \in EapStates : WellTyped(NewRequestId(x, s)) BY <1>2 DEF NewRequestId
<1>12. WellTyped(AaaIdle(x, "data")) /\ WellTyped(AaaIdle(x, "empty"))
  BY DEF AaaIdle, EapStates
<1>13. WellTyped(EapSuccess2(x)) BY <1>2 DEF EapSuccess2, EapStates
<1>14. WellTyped([x EXCEPT !.eap = "METHOD_RESPONSE", !.identity = TRUE])
       /\ WellTyped([x EXCEPT !.eap = "FAILURE2", !.eapFail = TRUE])
  BY DEF EapStates
<1> HIDE SetField, FieldTypes
<1> QED BY <1>2, <1>3, <1>4, <1>5, <1>6, <1>7, <1>8, <1>9, <1>10, <1>11, <1>12, <1>13, <1>14,
           TypedState DEF EapStep, EapStates
-----------------------------------------------------------------------------
(* The transitions of each machine as a relation. *)

\* SM_STEP(AUTH_PAE)
PaeMoves(x, y) ==
    \/ ~x.portEnabled /\ y = PaeInitialize(x)
    \/ /\ x.portEnabled /\ y = PaeDisconnected(x)
       /\ \/ x.pae = "INITIALIZE"
          \/ x.pae = "CONNECTING" /\ (x.eapolLogoff \/ x.reAuthCount > reAuthMax)
          \/ x.pae = "AUTHENTICATED" /\ (x.eapolLogoff \/ ~x.portValid)
          \/ x.pae = "ABORTING" /\ ~x.authAbort
    \/ /\ x.portEnabled /\ y = PaeRestart(x)
       /\ \/ x.pae = "DISCONNECTED" /\ ~x.stopped
          \/ x.pae = "HELD" /\ "quietWhile" \notin x.timers
          \/ x.pae = "AUTHENTICATED" /\ (x.eapolStart \/ x.reAuthenticate)
          \/ x.pae = "ABORTING" /\ ~x.authAbort
    \/ x.portEnabled /\ x.pae = "RESTART" /\ ~x.eapRestart /\ y = PaeConnecting(x)
    \/ /\ x.portEnabled /\ x.pae = "CONNECTING" /\ y = PaeAuthenticating(x)
       /\ ~x.eapolLogoff /\ x.reAuthCount <= reAuthMax
       /\ x.eapReq \/ x.eapSuccess \/ x.eapFail
    \/ /\ x.portEnabled /\ x.pae = "AUTHENTICATING" /\ y = PaeAuthenticated(x)
       /\ x.authSuccess /\ x.portValid
    \/ /\ x.portEnabled /\ x.pae = "AUTHENTICATING" /\ y = PaeHeld(x)
       /\ x.authFail \/ (x.keyDone /\ ~x.portValid)
    \/ /\ x.portEnabled /\ x.pae = "AUTHENTICATING" /\ y = PaeAborting(x)
       /\ x.eapolStart \/ x.eapolLogoff \/ x.authTimeout

\* A PAE that takes no transition: it is in a state that waits for an event.
PaeWaits(x) ==
    /\ x.portEnabled
    /\ \/ x.pae = "DISCONNECTED" /\ x.stopped
       \/ x.pae = "RESTART" /\ x.eapRestart
       \/ x.pae = "HELD" /\ "quietWhile" \in x.timers
       \/ /\ x.pae = "CONNECTING" /\ ~x.eapolLogoff /\ x.reAuthCount <= reAuthMax
          /\ ~x.eapReq /\ ~x.eapSuccess /\ ~x.eapFail
       \/ /\ x.pae = "AUTHENTICATED" /\ ~x.eapolStart /\ ~x.reAuthenticate
          /\ ~x.eapolLogoff /\ x.portValid
       \/ /\ x.pae = "AUTHENTICATING" /\ ~(x.authSuccess /\ x.portValid) /\ ~x.authFail
          /\ ~(x.keyDone /\ ~x.portValid)
          /\ ~x.eapolStart /\ ~x.eapolLogoff /\ ~x.authTimeout
       \/ x.pae = "ABORTING" /\ x.authAbort

\* AUTH_PAE takes one of its transitions or waits.
LEMMA PaeCases ==
  ASSUME NEW x \in EapolState
  PROVE  PaeMoves(x, PaeStep[x]) \/ (PaeStep[x] = x /\ PaeWaits(x))
<1>1. x.pae \in PaeStates /\ x.reAuthCount \in Nat /\ reAuthMax \in Nat
  BY EapolConstants DEF EapolState
<1> QED BY <1>1 DEF PaeStep, PaeStates, PaeMoves, PaeWaits

\* The states BE_AUTH leaves at once.
Passing == {"INITIALIZE", "SUCCESS", "FAIL", "TIMEOUT"}

\* SM_STEP(BE_AUTH)
BeMoves(x, y) ==
    \/ x.authAbort /\ y = BeInitialize(x)
    \/ ~x.authAbort /\ x.be \in Passing /\ y = BeIdle(x)
    \/ /\ ~x.authAbort /\ x.be \in {"REQUEST", "IGNORE"}
       /\ \/ x.eapolEap /\ y = BeResponse(x)
          \/ ~x.eapolEap /\ x.eapReq /\ y = BeRequest(x)
          \/ ~x.eapolEap /\ ~x.eapReq /\ x.eapTimeout /\ y = BeTimeout(x)
    \/ /\ ~x.authAbort /\ x.be = "RESPONSE"
       /\ \/ x.eapNoReq /\ y = BeIgnore(x)
          \/ \E z \in {x, BeIgnore(x)} :
                \/ x.eapReq /\ y = BeRequest(z)
                \/ ~x.eapReq /\ "aWhile" \notin x.timers /\ y = BeTimeout(z)
                \/ ~x.eapReq /\ x.eapFail /\ y = BeFail(z)
                \/ ~x.eapReq /\ x.eapSuccess /\ y = BeSuccess(z)
    \/ /\ ~x.authAbort /\ x.be = "IDLE" /\ x.authStart
       /\ \/ x.eapFail /\ y = BeFail(x)
          \/ x.eapReq /\ y = BeRequest(x)
          \/ ~x.eapReq /\ x.eapSuccess /\ y = BeSuccess(x)

\* A backend that takes no transition.
BeWaits(x) ==
    /\ ~x.authAbort
    /\ \/ x.be \in {"REQUEST", "IGNORE"} /\ ~x.eapolEap /\ ~x.eapReq /\ ~x.eapTimeout
       \/ /\ x.be = "RESPONSE" /\ ~x.eapNoReq /\ ~x.eapReq /\ "aWhile" \in x.timers
          /\ ~x.eapFail /\ ~x.eapSuccess
       \/ x.be = "IDLE" /\ ~x.authStart
       \/ x.be = "IDLE" /\ ~x.eapFail /\ ~x.eapReq /\ ~x.eapSuccess

\* BE_AUTH takes one of its transitions or waits.
LEMMA BeCases ==
  ASSUME NEW x \in EapolState
  PROVE  BeMoves(x, BeStep[x]) \/ (BeStep[x] = x /\ BeWaits(x))
<1>1. x.be \in BeStates
  BY DEF EapolState
<1> QED BY <1>1 DEF BeStep, BeStates, BeWaiting, BeMoves, BeWaits, Passing

\* SM_STEP(REAUTH_TIMER)
ReauthMoves(x, y) ==
    \/ /\ ~x.authPortStatus \/ x.reauth = "REAUTHENTICATE"
       /\ y = [x EXCEPT !.reauth = "INITIALIZE", !.timers = Start(x, "reAuthWhen")]
    \/ /\ x.authPortStatus /\ x.reauth = "INITIALIZE" /\ "reAuthWhen" \notin x.timers
       /\ y = WpaReauth([x EXCEPT !.reauth = "REAUTHENTICATE", !.reAuthenticate = TRUE])

\* A reauthentication timer that takes no transition.
ReauthWaits(x) == x.reauth = "INITIALIZE" /\ "reAuthWhen" \in x.timers

\* REAUTH_TIMER takes one of its transitions or waits.
LEMMA ReauthCases ==
  ASSUME NEW x \in EapolState
  PROVE  ReauthMoves(x, ReauthStep[x]) \/ (ReauthStep[x] = x /\ ReauthWaits(x))
<1>1. x.reauth \in {"INITIALIZE", "REAUTHENTICATE"}
  BY DEF EapolState
<1> QED BY <1>1 DEF ReauthStep, ReauthMoves, ReauthWaits

\* SM_STEP(EAP), as long as EAP is enabled and not restarted
ExchangeMoves(x, y) ==
    \/ x.eap \in {"INITIALIZE", "METHOD_RESPONSE"} /\ y = [x EXCEPT !.eap = "SELECT_ACTION"]
    \/ x.eap = "SELECT_ACTION" /\ y = EapSelectAction(x)
    \/ x.eap = "PROPOSE_METHOD" /\ y = NewRequestId(x, "METHOD_REQUEST")
    \/ x.eap = "METHOD_REQUEST" /\ y = EapSendRequest(x, "SEND_REQUEST")
    \/ x.eap \in {"SEND_REQUEST", "DISCARD"} /\ y = EapIdle(x, "IDLE")
    \/ x.eap = "IDLE" /\ "retransWhile" \notin x.timers /\ y = EapRetransmit(x, "RETRANSMIT")
    \/ /\ x.eap = "IDLE" /\ "retransWhile" \in x.timers /\ x.eapResp
       /\ y = [x EXCEPT !.eap = "RECEIVED"]
    \/ x.eap = "RETRANSMIT" /\ x.retransCount > MaxRetrans /\ y = EapTimeout(x, "TIMEOUT_FAILURE")
    \/ x.eap = "RETRANSMIT" /\ x.retransCount <= MaxRetrans /\ y = EapIdle(x, "IDLE")
    \/ x.eap = "RECEIVED" /\ y = [x EXCEPT !.eap = "METHOD_RESPONSE", !.identity = TRUE]
    \/ x.eap = "RECEIVED" /\ y = EapDiscard(x, "DISCARD")
    \/ x.eap = "INITIALIZE_PASSTHROUGH" /\ x.idSet /\ y = [x EXCEPT !.eap = "AAA_REQUEST"]
    \/ x.eap = "INITIALIZE_PASSTHROUGH" /\ ~x.idSet /\ y = AaaIdle(x, "empty")
    \/ x.eap = "AAA_REQUEST" /\ y = AaaIdle(x, "data")
    \/ /\ x.eap = "AAA_IDLE" /\ x.aaaFail
       /\ y = [x EXCEPT !.eap = "FAILURE2", !.eapFail = TRUE]
    \/ x.eap = "AAA_IDLE" /\ ~x.aaaFail /\ x.aaaSuccess /\ y = EapSuccess2(x)
    \/ /\ x.eap = "AAA_IDLE" /\ ~x.aaaFail /\ ~x.aaaSuccess /\ x.aaaEapReq
       /\ y = NewRequestId(x, "AAA_RESPONSE")
    \/ x.eap = "AAA_RESPONSE" /\ y = EapSendRequest(x, "SEND_REQUEST2")
    \/ x.eap \in {"SEND_REQUEST2", "DISCARD2"} /\ y = EapIdle(x, "IDLE2")
    \/ x.eap = "IDLE2" /\ x.eapResp /\ y = [x EXCEPT !.eap = "RECEIVED2"]
    \/ /\ x.eap = "IDLE2" /\ ~x.eapResp /\ "retransWhile" \notin x.timers
       /\ y = EapRetransmit(x, "RETRANSMIT2")
    \/ /\ x.eap = "RETRANSMIT2" /\ x.retransCount > MaxRetrans
       /\ y = EapTimeout(x, "TIMEOUT_FAILURE2")
    \/ x.eap = "RETRANSMIT2" /\ x.retransCount <= MaxRetrans /\ y = EapIdle(x, "IDLE2")
    \/ x.eap = "RECEIVED2" /\ y = [x EXCEPT !.eap = "AAA_REQUEST"]
    \/ x.eap = "RECEIVED2" /\ y = EapDiscard(x, "DISCARD2")

\* SM_STEP(EAP) with its global transitions: disabled, enabled, restarted.
EapMoves(x, y) ==
    \/ ~x.portEnabled /\ x.eap # "DISABLED" /\ y = [x EXCEPT !.eap = "DISABLED"]
    \/ x.portEnabled /\ (x.eapRestart \/ x.eap = "DISABLED") /\ y = EapInitialize(x)
    \/ x.portEnabled /\ ~x.eapRestart /\ x.eap # "DISABLED" /\ ExchangeMoves(x, y)

\* EAP that moves takes one of its transitions.
LEMMA EapCases ==
  ASSUME NEW x \in EapolState, EapStep(x).eap # x.eap
  PROVE  EapMoves(x, EapStep(x))
<1>1. x.eap \in EapStates /\ x.retransCount \in Nat /\ MaxRetrans \in Nat
  BY EapolConstants DEF EapolState
<1>2. CASE ~x.portEnabled
  <2>1. x.eap # "DISABLED" /\ EapStep(x) = [x EXCEPT !.eap = "DISABLED"]
    <3>1. EapStep(x) = [x EXCEPT !.eap = "DISABLED"] BY <1>2 DEF EapStep
    <3>2. WellTyped(x) /\ DOMAIN x = Fields BY StateTyped DEF WellTyped
    <3> QED BY <3>1, <3>2, FieldTypes
  <2> QED BY <1>2, <2>1 DEF EapMoves
<1>3. CASE x.portEnabled /\ (x.eapRestart \/ x.eap = "DISABLED")
  BY <1>3 DEF EapStep, EapMoves
<1>4. CASE x.portEnabled /\ ~x.eapRestart /\ x.eap # "DISABLED"
  <2>1. ExchangeMoves(x, EapStep(x))
    <3> DEFINE y == EapStep(x)
    <3>1. ASSUME x.eap \in {"INITIALIZE", "METHOD_RESPONSE"}
          PROVE  y = [x EXCEPT !.eap = "SELECT_ACTION"]
      BY <1>4, <3>1 DEF EapStep
    <3>2. ASSUME x.eap = "SELECT_ACTION"
          PROVE  y = EapSelectAction(x)
      BY <1>4, <3>2 DEF EapStep
    <3>3. ASSUME x.eap = "PROPOSE_METHOD"
          PROVE  y = NewRequestId(x, "METHOD_REQUEST")
      BY <1>4, <3>3 DEF EapStep
    <3>4. ASSUME x.eap = "METHOD_REQUEST"
          PROVE  y = EapSendRequest(x, "SEND_REQUEST")
      BY <1>4, <3>4 DEF EapStep
    <3>5. ASSUME x.eap \in {"SEND_REQUEST", "DISCARD"}
          PROVE  y = EapIdle(x, "IDLE")
      BY <1>4, <3>5 DEF EapStep
    <3>6. ASSUME x.eap = "IDLE"
          PROVE  y = IF "retransWhile" \notin x.timers THEN EapRetransmit(x, "RETRANSMIT")
                     ELSE IF x.eapResp THEN [x EXCEPT !.eap = "RECEIVED"] ELSE x
      BY <1>4, <3>6 DEF EapStep
    <3>7. ASSUME x.eap = "RETRANSMIT"
          PROVE  y = IF x.retransCount > MaxRetrans THEN EapTimeout(x, "TIMEOUT_FAILURE")
                     ELSE EapIdle(x, "IDLE")
      BY <1>4, <3>7 DEF EapStep
    <3>8. ASSUME x.eap = "RECEIVED"
          PROVE  \/ y = [x EXCEPT !.eap = "METHOD_RESPONSE", !.identity = TRUE]
                 \/ y = EapDiscard(x, "DISCARD")
      BY <1>4, <3>8 DEF EapStep
    <3>9. ASSUME x.eap = "INITIALIZE_PASSTHROUGH"
          PROVE  y = IF x.idSet THEN [x EXCEPT !.eap = "AAA_REQUEST"] ELSE AaaIdle(x, "empty")
      BY <1>4, <3>9 DEF EapStep
    <3>10. ASSUME x.eap = "AAA_REQUEST"
          PROVE  y = AaaIdle(x, "data")
      BY <1>4, <3>10 DEF EapStep
    <3>11. ASSUME x.eap = "AAA_IDLE"
          PROVE  y = IF x.aaaFail THEN [x EXCEPT !.eap = "FAILURE2", !.eapFail = TRUE]
                     ELSE IF x.aaaSuccess THEN EapSuccess2(x)
                     ELSE IF x.aaaEapReq THEN NewRequestId(x, "AAA_RESPONSE") ELSE x
      BY <1>4, <3>11 DEF EapStep
    <3>12. ASSUME x.eap = "AAA_RESPONSE"
          PROVE  y = EapSendRequest(x, "SEND_REQUEST2")
      BY <1>4, <3>12 DEF EapStep
    <3>13. ASSUME x.eap \in {"SEND_REQUEST2", "DISCARD2"}
          PROVE  y = EapIdle(x, "IDLE2")
      BY <1>4, <3>13 DEF EapStep
    <3>14. ASSUME x.eap = "IDLE2"
          PROVE  y = IF x.eapResp THEN [x EXCEPT !.eap = "RECEIVED2"]
                     ELSE IF "retransWhile" \notin x.timers
                     THEN EapRetransmit(x, "RETRANSMIT2") ELSE x
      BY <1>4, <3>14 DEF EapStep
    <3>15. ASSUME x.eap = "RETRANSMIT2"
          PROVE  y = IF x.retransCount > MaxRetrans THEN EapTimeout(x, "TIMEOUT_FAILURE2")
                     ELSE EapIdle(x, "IDLE2")
      BY <1>4, <3>15 DEF EapStep
    <3>16. ASSUME x.eap = "RECEIVED2"
          PROVE  y = [x EXCEPT !.eap = "AAA_REQUEST"] \/ y = EapDiscard(x, "DISCARD2")
      BY <1>4, <3>16 DEF EapStep
    <3>17. ASSUME x.eap \in {"FAILURE2", "SUCCESS2", "TIMEOUT_FAILURE", "TIMEOUT_FAILURE2"}
          PROVE  y = x
      BY <1>4, <3>17 DEF EapStep
    <3> HIDE DEF y
    <3>y. y.eap # x.eap BY DEF y
    <3>18. ExchangeMoves(x, y)
      BY SMTT(30), <1>1, <1>4, <3>y, <3>1, <3>2, <3>3, <3>4, <3>5, <3>6, <3>7, <3>8, <3>9,
         <3>10, <3>11, <3>12, <3>13, <3>14, <3>15, <3>16, <3>17
         DEF EapStates, ExchangeMoves
    <3> QED BY <3>18 DEF y
  <2> QED BY <1>4, <2>1 DEF EapMoves
<1> QED BY <1>2, <1>3, <1>4

-----------------------------------------------------------------------------
(* The loop comes to rest: a rank that every transition lowers. *)

\* n where b holds.
If(b, n) == IF b THEN n ELSE 0

\* EAP has come to a verdict the backend has not consumed.
EapDone(x) == x.eapSuccess \/ x.eapFail \/ x.eapTimeout

\* The server has not answered in time: the backend is about to give up.
ResponseLate(x) == x.be = "RESPONSE" /\ "aWhile" \notin x.timers

\* A verdict, a timeout or a retransmission is on its way to the backend.
EapHot(x) ==
    \/ EapDone(x) \/ ResponseLate(x)
    \/ x.eap = "AAA_IDLE" /\ (x.aaaSuccess \/ x.aaaFail)
    \/ x.eap \in {"IDLE", "IDLE2"} /\ "retransWhile" \notin x.timers
    \/ x.eap \in {"RETRANSMIT", "RETRANSMIT2"}

\* Something is on its way to a PAE in AUTHENTICATING that may make it leave.
AuthHot(x) ==
    EapHot(x) \/ x.authSuccess \/ x.authFail \/ x.authTimeout \/ x.keyDone
    \/ x.eapolStart \/ x.eapolLogoff

\* The PAE will go from CONNECTING to DISCONNECTED: a logoff, or too many attempts.
Again(x) == x.eapolLogoff \/ x.reAuthCount + (IF x.pae = "CONNECTING" THEN 0 ELSE 1) > reAuthMax

\* How many transitions the PAE can still cause from its state on.
PaeRank(x) ==
    CASE ~x.portEnabled -> If(x.pae # "INITIALIZE", 1)
      [] x.portEnabled /\ x.pae = "AUTHENTICATING" -> If(AuthHot(x), 30)
      [] x.portEnabled /\ x.pae = "CONNECTING" ->
            IF EapHot(x) THEN 36 ELSE IF Again(x) THEN 16 ELSE 6
      [] x.portEnabled /\ x.pae = "RESTART" ->
            IF EapHot(x) /\ ~x.eapRestart THEN 37 ELSE IF Again(x) THEN 17 ELSE 7
      [] x.portEnabled /\ x.pae = "DISCONNECTED" -> IF Again(x) THEN 25 ELSE 15
      [] x.portEnabled /\ x.pae = "INITIALIZE" -> 16
      [] x.portEnabled /\ x.pae = "HELD" -> If("quietWhile" \notin x.timers, 25)
      [] OTHER -> 25

\* The same for EAP, larger where a verdict is still to be consumed.
EapRank(x) ==
    CASE ~x.portEnabled -> If(x.eap # "DISABLED", 1)
      [] x.portEnabled /\ (x.eapRestart \/ x.eap = "DISABLED") -> 7
      [] OTHER ->
        CASE x.eap \in {"RECEIVED", "RECEIVED2"} -> 7
          [] x.eap \in {"INITIALIZE", "METHOD_RESPONSE"} -> 6
          [] x.eap = "SELECT_ACTION" -> 5
          [] x.eap \in {"PROPOSE_METHOD", "INITIALIZE_PASSTHROUGH"} -> 4
          [] x.eap \in {"METHOD_REQUEST", "AAA_REQUEST", "AAA_RESPONSE"} -> 3
          [] x.eap \in {"SEND_REQUEST", "SEND_REQUEST2", "DISCARD", "DISCARD2",
                        "RETRANSMIT", "RETRANSMIT2"} -> 1 + If(x.eapResp, 8)
          [] x.eap \in {"IDLE", "IDLE2"} -> If(x.eapResp, 8) + If("retransWhile" \notin x.timers, 3)
          [] x.eap = "AAA_IDLE" -> If(x.aaaFail \/ x.aaaSuccess \/ x.aaaEapReq, 4)
          [] OTHER -> 0

\* The same for the backend.
BeRank(x) ==
    If(x.authAbort, 4) +
    CASE x.be = "IDLE" -> If(x.authStart, 5)
      [] x.be \in {"INITIALIZE", "SUCCESS", "FAIL", "TIMEOUT"} -> 1
      [] x.be = "REQUEST" -> 2
      [] x.be = "IGNORE" -> 3
      [] OTHER -> 4

\* The same for the reauthentication timer.
ReauthRank(x) ==
    IF x.reauth = "REAUTHENTICATE" THEN 1 ELSE If("reAuthWhen" \notin x.timers, 5)

\* The rank of a state. A frame that waits for the backend weighs as much as the
\* exchange it can move.
Rank(x) == PaeRank(x) + EapRank(x) + BeRank(x) + ReauthRank(x) + If(x.eapolEap, 12)

\* The rank is a number below the rounds eapol_sm_step_run() allows itself.
LEMMA RankRange ==
  ASSUME NEW x \in EapolState
  PROVE  Rank(x) \in Nat /\ Rank(x) <= 74
<1>1. PaeRank(x) \in 0 .. 37 BY DEF PaeRank, If
<1>2. EapRank(x) \in 0 .. 11 BY DEF EapRank, If
<1>3. BeRank(x) \in 0 .. 9 BY DEF BeRank, If
<1>4. ReauthRank(x) \in 0 .. 5 BY DEF ReauthRank, If
<1>5. If(x.eapolEap, 12) \in 0 .. 12 BY DEF If
<1> QED BY <1>1, <1>2, <1>3, <1>4, <1>5 DEF Rank

\* What the rank depends on.
LEMMA Ranked ==
  ASSUME NEW x \in EapolState
  PROVE  /\ WellTyped(x) /\ DOMAIN x = Fields
         /\ x.reAuthCount \in Nat /\ reAuthMax \in Nat /\ reAuthMax > 0
         /\ x.pae \in PaeStates /\ x.be \in BeStates /\ x.eap \in EapStates
         /\ x.timers \in SUBSET Timers /\ x.eapRestart \in BOOLEAN
         /\ x.eapolLogoff \in BOOLEAN
<1>1. WellTyped(x) /\ DOMAIN x = Fields BY StateTyped DEF WellTyped
<1> QED BY <1>1, EapolConstants DEF EapolState

\* A transition of AUTH_PAE lowers the rank.
LEMMA PaeSinks ==
  ASSUME NEW x \in EapolState, NEW y, PaeMoves(x, y)
  PROVE  Rank(y) <= Rank(x) /\ (y.pae # x.pae => Rank(y) < Rank(x))
<1> DEFINE Sinks == Rank(y) <= Rank(x) /\ (y.pae # x.pae => Rank(y) < Rank(x))
<1> USE Ranked, FieldTypes
<1>1. ASSUME ~x.portEnabled /\ y = PaeInitialize(x) PROVE Sinks
  BY SMTT(60), <1>1 DEF PaeInitialize, Rank, PaeRank, EapRank, BeRank, ReauthRank, If, EapHot,
     EapDone, ResponseLate, AuthHot, Again
<1>2. ASSUME /\ x.portEnabled /\ y = PaeDisconnected(x)
             /\ \/ x.pae = "INITIALIZE"
                \/ x.pae = "CONNECTING" /\ (x.eapolLogoff \/ x.reAuthCount > reAuthMax)
                \/ x.pae = "AUTHENTICATED" /\ (x.eapolLogoff \/ ~x.portValid)
                \/ x.pae = "ABORTING" /\ ~x.authAbort PROVE Sinks
  BY SMTT(60), <1>2 DEF PaeDisconnected, Finished, Rank, PaeRank, EapRank, BeRank, ReauthRank,
     If, EapHot, EapDone, ResponseLate, AuthHot, Again
<1>3. ASSUME /\ x.portEnabled /\ y = PaeRestart(x)
             /\ \/ x.pae = "DISCONNECTED" /\ ~x.stopped
                \/ x.pae = "HELD" /\ "quietWhile" \notin x.timers
                \/ x.pae = "AUTHENTICATED" /\ (x.eapolStart \/ x.reAuthenticate)
                \/ x.pae = "ABORTING" /\ ~x.authAbort PROVE Sinks
  BY SMTT(60), <1>3 DEF PaeRestart, Rank, PaeRank, EapRank, BeRank, ReauthRank, If, EapHot, EapDone,
         ResponseLate, AuthHot, Again
<1>4. ASSUME x.portEnabled /\ x.pae = "RESTART" /\ ~x.eapRestart /\ y = PaeConnecting(x) PROVE Sinks
  BY SMTT(60), <1>4 DEF PaeConnecting, Rank, PaeRank, EapRank, BeRank, ReauthRank, If, EapHot,
     EapDone, ResponseLate, AuthHot, Again
<1>5. ASSUME /\ x.portEnabled /\ x.pae = "CONNECTING" /\ y = PaeAuthenticating(x)
             /\ ~x.eapolLogoff /\ x.reAuthCount <= reAuthMax
             /\ x.eapReq \/ x.eapSuccess \/ x.eapFail PROVE Sinks
  BY SMTT(60), <1>5 DEF PaeAuthenticating, Rank, PaeRank, EapRank, BeRank, ReauthRank, If,
     EapHot, EapDone, ResponseLate, AuthHot, Again
<1>6. ASSUME /\ x.portEnabled /\ x.pae = "AUTHENTICATING" /\ y = PaeAuthenticated(x)
             /\ x.authSuccess /\ x.portValid PROVE Sinks
  BY SMTT(60), <1>6 DEF PaeAuthenticated, Rank, PaeRank, EapRank, BeRank, ReauthRank, If,
     EapHot, EapDone, ResponseLate, AuthHot, Again
<1>7. ASSUME /\ x.portEnabled /\ x.pae = "AUTHENTICATING" /\ y = PaeHeld(x)
             /\ x.authFail \/ (x.keyDone /\ ~x.portValid) PROVE Sinks
  BY SMTT(60), <1>7 DEF PaeHeld, Finished, Start, Rank, PaeRank, EapRank, BeRank, ReauthRank,
     If, EapHot, EapDone, ResponseLate, AuthHot, Again
<1>8. ASSUME /\ x.portEnabled /\ x.pae = "AUTHENTICATING" /\ y = PaeAborting(x)
             /\ x.eapolStart \/ x.eapolLogoff \/ x.authTimeout PROVE Sinks
  BY SMTT(60), <1>8 DEF PaeAborting, Rank, PaeRank, EapRank, BeRank, ReauthRank, If, EapHot,
     EapDone, ResponseLate, AuthHot, Again
<1> QED BY <1>1, <1>2, <1>3, <1>4, <1>5, <1>6, <1>7, <1>8, SMTT(60) DEF PaeMoves

\* A transition of BE_AUTH lowers the rank.
LEMMA BeSinks ==
  ASSUME NEW x \in EapolState, NEW y, BeMoves(x, y)
  PROVE  Rank(y) <= Rank(x) /\ (y.be # x.be => Rank(y) < Rank(x))
<1> DEFINE Sinks == Rank(y) <= Rank(x) /\ (y.be # x.be => Rank(y) < Rank(x))
<1> USE Ranked, FieldTypes
<1>1. ASSUME x.authAbort /\ ~x.eapTimeout /\ y = BeInitialize(x) PROVE Sinks
  BY SMTT(60), <1>1 DEF BeInitialize, abortAuth, ap_sta_disconnect, eapol_auth_step, Rank,
     PaeRank, EapRank, BeRank, ReauthRank, If, EapHot, EapDone, ResponseLate, AuthHot, Again
<1>2. ASSUME x.authAbort /\ x.eapTimeout /\ y = BeInitialize(x) PROVE Sinks
  BY SMTT(60), <1>2 DEF BeInitialize, abortAuth, ap_sta_disconnect, eapol_auth_step, Rank,
     PaeRank, EapRank, BeRank, ReauthRank, If, EapHot, EapDone, ResponseLate, AuthHot, Again
<1>3. ASSUME x.be \in Passing /\ ~x.authAbort /\ y = BeIdle(x) PROVE Sinks
  BY SMTT(60), <1>3 DEF BeIdle, Rank, PaeRank, EapRank, BeRank, ReauthRank, If, EapHot, EapDone,
         ResponseLate, AuthHot, Again
<1>4. ASSUME x.be \in {"REQUEST", "IGNORE"} /\ x.eapolEap /\ y = BeResponse(x) PROVE Sinks
  BY SMTT(60), <1>4 DEF BeResponse, Start, Rank, PaeRank, EapRank, BeRank, ReauthRank, If,
     EapHot, EapDone, ResponseLate, AuthHot, Again
<1>5. ASSUME x.be \in {"REQUEST", "IGNORE"} /\ y = BeRequest(x) PROVE Sinks
  BY SMTT(60), <1>5 DEF BeRequest, Rank, PaeRank, EapRank, BeRank, ReauthRank, If, EapHot, EapDone,
         ResponseLate, AuthHot, Again
<1>6. ASSUME x.be \in {"REQUEST", "IGNORE"} /\ x.eapTimeout /\ y = BeTimeout(x) PROVE Sinks
  BY SMTT(60), <1>6 DEF BeTimeout, Rank, PaeRank, EapRank, BeRank, ReauthRank, If, EapHot, EapDone,
         ResponseLate, AuthHot, Again
<1>7. ASSUME x.be = "RESPONSE" /\ y = BeIgnore(x) PROVE Sinks
  BY SMTT(60), <1>7 DEF BeIgnore, Rank, PaeRank, EapRank, BeRank, ReauthRank, If, EapHot, EapDone,
         ResponseLate, AuthHot, Again
<1>8. ASSUME x.be = "RESPONSE" /\ y = BeRequest(x) PROVE Sinks
  BY SMTT(60), <1>8 DEF BeRequest, Rank, PaeRank, EapRank, BeRank, ReauthRank, If, EapHot, EapDone,
         ResponseLate, AuthHot, Again
<1>9. ASSUME x.be = "RESPONSE" /\ y = BeRequest(BeIgnore(x)) PROVE Sinks
  BY SMTT(60), <1>9 DEF BeRequest, BeIgnore, Rank, PaeRank, EapRank, BeRank, ReauthRank, If,
     EapHot, EapDone, ResponseLate, AuthHot, Again
<1>10. ASSUME x.be = "RESPONSE" /\ "aWhile" \notin x.timers /\ y = BeTimeout(x) PROVE Sinks
  BY SMTT(60), <1>10 DEF BeTimeout, Rank, PaeRank, EapRank, BeRank, ReauthRank, If, EapHot, EapDone,
         ResponseLate, AuthHot, Again
<1>11. ASSUME x.be = "RESPONSE" /\ "aWhile" \notin x.timers
                  /\ y = BeTimeout(BeIgnore(x)) PROVE Sinks
  BY SMTT(60), <1>11 DEF BeTimeout, BeIgnore, Rank, PaeRank, EapRank, BeRank, ReauthRank, If,
     EapHot, EapDone, ResponseLate, AuthHot, Again
<1>12. ASSUME x.be = "RESPONSE" /\ x.eapFail /\ y = BeFail(x) PROVE Sinks
  BY SMTT(60), <1>12 DEF BeFail, Rank, PaeRank, EapRank, BeRank, ReauthRank, If, EapHot, EapDone,
         ResponseLate, AuthHot, Again
<1>13. ASSUME x.be = "RESPONSE" /\ x.eapFail /\ y = BeFail(BeIgnore(x)) PROVE Sinks
  BY SMTT(60), <1>13 DEF BeFail, BeIgnore, Rank, PaeRank, EapRank, BeRank, ReauthRank, If,
     EapHot, EapDone, ResponseLate, AuthHot, Again
<1>14. ASSUME x.be = "RESPONSE" /\ x.eapSuccess /\ y = BeSuccess(x) PROVE Sinks
  BY SMTT(60), <1>14 DEF BeSuccess, Rank, PaeRank, EapRank, BeRank, ReauthRank, If, EapHot, EapDone,
         ResponseLate, AuthHot, Again
<1>15. ASSUME x.be = "RESPONSE" /\ x.eapSuccess /\ y = BeSuccess(BeIgnore(x)) PROVE Sinks
  BY SMTT(60), <1>15 DEF BeSuccess, BeIgnore, Rank, PaeRank, EapRank, BeRank, ReauthRank, If,
     EapHot, EapDone, ResponseLate, AuthHot, Again
<1>16. ASSUME x.be = "IDLE" /\ x.authStart /\ x.eapFail /\ y = BeFail(x) PROVE Sinks
  BY SMTT(60), <1>16 DEF BeFail, Rank, PaeRank, EapRank, BeRank, ReauthRank, If, EapHot, EapDone,
         ResponseLate, AuthHot, Again
<1>17. ASSUME x.be = "IDLE" /\ x.authStart /\ y = BeRequest(x) PROVE Sinks
  BY SMTT(60), <1>17 DEF BeRequest, Rank, PaeRank, EapRank, BeRank, ReauthRank, If, EapHot, EapDone,
         ResponseLate, AuthHot, Again
<1>18. ASSUME x.be = "IDLE" /\ x.authStart /\ x.eapSuccess /\ y = BeSuccess(x) PROVE Sinks
  BY SMTT(60), <1>18 DEF BeSuccess, Rank, PaeRank, EapRank, BeRank, ReauthRank, If, EapHot, EapDone,
         ResponseLate, AuthHot, Again
<1> QED
  BY <1>1, <1>2, <1>3, <1>4, <1>5, <1>6, <1>7, <1>8, <1>9, <1>10, <1>11, <1>12, <1>13, <1>14,
     <1>15, <1>16, <1>17, <1>18, SMTT(60)
     DEF BeMoves

\* A transition of EAP lowers the rank, as long as no response is overdue.
LEMMA ExchangeSinks ==
  ASSUME NEW x \in EapolState, NEW y, ExchangeMoves(x, y),
         x.portEnabled, ~x.eapRestart, x.eap # "DISABLED",
         ~ResponseLate(x)
  PROVE  Rank(y) <= Rank(x) /\ (y.eap # x.eap => Rank(y) < Rank(x))
<1> DEFINE Sinks == Rank(y) <= Rank(x) /\ (y.eap # x.eap => Rank(y) < Rank(x))
<1> USE Ranked, FieldTypes
<1>1. ASSUME x.eap \in {"INITIALIZE", "METHOD_RESPONSE"}
                 /\ y = [x EXCEPT !.eap = "SELECT_ACTION"] PROVE Sinks
  BY SMTT(60), <1>1 DEF Rank, PaeRank, EapRank, BeRank, ReauthRank, If, EapHot, EapDone,
         ResponseLate, AuthHot, Again
<1>2. ASSUME x.eap = "SELECT_ACTION" /\ y = EapSelectAction(x) PROVE Sinks
  BY SMTT(60), <1>2 DEF EapSelectAction, Rank, PaeRank, EapRank, BeRank, ReauthRank, If,
     EapHot, EapDone, ResponseLate, AuthHot, Again
<1>3. ASSUME x.eap = "PROPOSE_METHOD" /\ y = NewRequestId(x, "METHOD_REQUEST") PROVE Sinks
  BY SMTT(60), <1>3 DEF NewRequestId, Rank, PaeRank, EapRank, BeRank, ReauthRank, If, EapHot,
     EapDone, ResponseLate, AuthHot, Again
<1>4. ASSUME x.eap = "METHOD_REQUEST" /\ y = EapSendRequest(x, "SEND_REQUEST") PROVE Sinks
  BY SMTT(60), <1>4 DEF EapSendRequest, Rank, PaeRank, EapRank, BeRank, ReauthRank, If,
     EapHot, EapDone, ResponseLate, AuthHot, Again
<1>5. ASSUME x.eap \in {"SEND_REQUEST", "DISCARD"} /\ y = EapIdle(x, "IDLE") PROVE Sinks
  BY SMTT(60), <1>5 DEF EapIdle, Start, Rank, PaeRank, EapRank, BeRank, ReauthRank, If,
     EapHot, EapDone, ResponseLate, AuthHot, Again
<1>6. ASSUME x.eap = "IDLE" /\ "retransWhile" \notin x.timers
                 /\ y = EapRetransmit(x, "RETRANSMIT") PROVE Sinks
  BY SMTT(60), <1>6 DEF EapRetransmit, Rank, PaeRank, EapRank, BeRank, ReauthRank, If, EapHot,
     EapDone, ResponseLate, AuthHot, Again
<1>7. ASSUME /\ x.eap = "IDLE" /\ "retransWhile" \in x.timers /\ x.eapResp
             /\ y = [x EXCEPT !.eap = "RECEIVED"] PROVE Sinks
  BY SMTT(60), <1>7 DEF Rank, PaeRank, EapRank, BeRank, ReauthRank, If, EapHot, EapDone,
         ResponseLate, AuthHot, Again
<1>8. ASSUME x.eap = "RETRANSMIT" /\ x.retransCount > MaxRetrans
                 /\ y = EapTimeout(x, "TIMEOUT_FAILURE") PROVE Sinks
  BY SMTT(60), <1>8 DEF EapTimeout, Rank, PaeRank, EapRank, BeRank, ReauthRank, If, EapHot, EapDone,
         ResponseLate, AuthHot, Again
<1>9. ASSUME x.eap = "RETRANSMIT" /\ x.retransCount <= MaxRetrans
                 /\ y = EapIdle(x, "IDLE") PROVE Sinks
  BY SMTT(60), <1>9 DEF EapIdle, Start, Rank, PaeRank, EapRank, BeRank, ReauthRank, If,
     EapHot, EapDone, ResponseLate, AuthHot, Again
<1>10. ASSUME x.eap = "RECEIVED"
                  /\ y = [x EXCEPT !.eap = "METHOD_RESPONSE", !.identity = TRUE] PROVE Sinks
  BY SMTT(60), <1>10 DEF Rank, PaeRank, EapRank, BeRank, ReauthRank, If, EapHot, EapDone,
         ResponseLate, AuthHot, Again
<1>11. ASSUME x.eap = "RECEIVED" /\ y = EapDiscard(x, "DISCARD") PROVE Sinks
  BY SMTT(60), <1>11 DEF EapDiscard, Rank, PaeRank, EapRank, BeRank, ReauthRank, If, EapHot,
     EapDone, ResponseLate, AuthHot, Again
<1>12. ASSUME x.eap = "INITIALIZE_PASSTHROUGH" /\ x.idSet
                  /\ y = [x EXCEPT !.eap = "AAA_REQUEST"] PROVE Sinks
  BY SMTT(60), <1>12 DEF Rank, PaeRank, EapRank, BeRank, ReauthRank, If, EapHot, EapDone,
         ResponseLate, AuthHot, Again
<1>13. ASSUME x.eap = "INITIALIZE_PASSTHROUGH" /\ ~x.idSet /\ y = AaaIdle(x, "empty") PROVE Sinks
  BY SMTT(60), <1>13 DEF AaaIdle, Rank, PaeRank, EapRank, BeRank, ReauthRank, If, EapHot, EapDone,
         ResponseLate, AuthHot, Again
<1>14. ASSUME x.eap = "AAA_REQUEST" /\ y = AaaIdle(x, "data") PROVE Sinks
  BY SMTT(60), <1>14 DEF AaaIdle, Rank, PaeRank, EapRank, BeRank, ReauthRank, If, EapHot, EapDone,
         ResponseLate, AuthHot, Again
<1>15. ASSUME /\ x.eap = "AAA_IDLE" /\ x.aaaFail
              /\ y = [x EXCEPT !.eap = "FAILURE2", !.eapFail = TRUE] PROVE Sinks
  BY SMTT(60), <1>15 DEF Rank, PaeRank, EapRank, BeRank, ReauthRank, If, EapHot, EapDone,
         ResponseLate, AuthHot, Again
<1>16. ASSUME x.eap = "AAA_IDLE" /\ ~x.aaaFail /\ x.aaaSuccess /\ y = EapSuccess2(x) PROVE Sinks
  BY SMTT(60), <1>16 DEF EapSuccess2, Rank, PaeRank, EapRank, BeRank, ReauthRank, If, EapHot,
     EapDone, ResponseLate, AuthHot, Again
<1>17. ASSUME /\ x.eap = "AAA_IDLE" /\ ~x.aaaFail /\ ~x.aaaSuccess /\ x.aaaEapReq
              /\ y = NewRequestId(x, "AAA_RESPONSE") PROVE Sinks
  BY SMTT(60), <1>17 DEF NewRequestId, Rank, PaeRank, EapRank, BeRank, ReauthRank, If, EapHot,
     EapDone, ResponseLate, AuthHot, Again
<1>18. ASSUME x.eap = "AAA_RESPONSE" /\ y = EapSendRequest(x, "SEND_REQUEST2") PROVE Sinks
  BY SMTT(60), <1>18 DEF EapSendRequest, Rank, PaeRank, EapRank, BeRank, ReauthRank, If,
     EapHot, EapDone, ResponseLate, AuthHot, Again
<1>19. ASSUME x.eap \in {"SEND_REQUEST2", "DISCARD2"} /\ y = EapIdle(x, "IDLE2") PROVE Sinks
  BY SMTT(60), <1>19 DEF EapIdle, Start, Rank, PaeRank, EapRank, BeRank, ReauthRank, If,
     EapHot, EapDone, ResponseLate, AuthHot, Again
<1>20. ASSUME x.eap = "IDLE2" /\ x.eapResp /\ y = [x EXCEPT !.eap = "RECEIVED2"] PROVE Sinks
  BY SMTT(60), <1>20 DEF Rank, PaeRank, EapRank, BeRank, ReauthRank, If, EapHot, EapDone,
         ResponseLate, AuthHot, Again
<1>21. ASSUME /\ x.eap = "IDLE2" /\ ~x.eapResp /\ "retransWhile" \notin x.timers
              /\ y = EapRetransmit(x, "RETRANSMIT2") PROVE Sinks
  BY SMTT(60), <1>21 DEF EapRetransmit, Rank, PaeRank, EapRank, BeRank, ReauthRank, If,
     EapHot, EapDone, ResponseLate, AuthHot, Again
<1>22. ASSUME /\ x.eap = "RETRANSMIT2" /\ x.retransCount > MaxRetrans
              /\ y = EapTimeout(x, "TIMEOUT_FAILURE2") PROVE Sinks
  BY SMTT(60), <1>22 DEF EapTimeout, Rank, PaeRank, EapRank, BeRank, ReauthRank, If, EapHot,
     EapDone, ResponseLate, AuthHot, Again
<1>23. ASSUME x.eap = "RETRANSMIT2" /\ x.retransCount <= MaxRetrans
                  /\ y = EapIdle(x, "IDLE2") PROVE Sinks
  BY SMTT(60), <1>23 DEF EapIdle, Start, Rank, PaeRank, EapRank, BeRank, ReauthRank, If,
     EapHot, EapDone, ResponseLate, AuthHot, Again
<1>24. ASSUME x.eap = "RECEIVED2" /\ y = [x EXCEPT !.eap = "AAA_REQUEST"] PROVE Sinks
  BY SMTT(60), <1>24 DEF Rank, PaeRank, EapRank, BeRank, ReauthRank, If, EapHot, EapDone,
         ResponseLate, AuthHot, Again
<1>25. ASSUME x.eap = "RECEIVED2" /\ y = EapDiscard(x, "DISCARD2") PROVE Sinks
  BY SMTT(60), <1>25 DEF EapDiscard, Rank, PaeRank, EapRank, BeRank, ReauthRank, If, EapHot,
     EapDone, ResponseLate, AuthHot, Again
<1> QED
  BY <1>1, <1>2, <1>3, <1>4, <1>5, <1>6, <1>7, <1>8, <1>9, <1>10, <1>11, <1>12, <1>13, <1>14,
     <1>15, <1>16, <1>17, <1>18, <1>19, <1>20, <1>21, <1>22, <1>23, <1>24, <1>25, SMTT(60)
     DEF ExchangeMoves

\* The same with the transitions that disable, enable and restart EAP.
LEMMA EapSinks ==
  ASSUME NEW x \in EapolState, NEW y, EapMoves(x, y), ~ResponseLate(x)
  PROVE  Rank(y) <= Rank(x) /\ (y.eap # x.eap => Rank(y) < Rank(x))
<1> DEFINE Sinks == Rank(y) <= Rank(x) /\ (y.eap # x.eap => Rank(y) < Rank(x))
<1> USE Ranked, FieldTypes
<1>1. ASSUME ~x.portEnabled /\ x.eap # "DISABLED" /\ y = [x EXCEPT !.eap = "DISABLED"] PROVE Sinks
  BY SMTT(60), <1>1 DEF Rank, PaeRank, EapRank, BeRank, ReauthRank, If, EapHot, EapDone,
         ResponseLate, AuthHot, Again
<1>2. ASSUME x.portEnabled /\ x.eapRestart /\ y = EapInitialize(x) PROVE Sinks
  BY SMTT(60), <1>2 DEF EapInitialize, Rank, PaeRank, EapRank, BeRank, ReauthRank, If, EapHot,
     EapDone, ResponseLate, AuthHot, Again
<1>3. ASSUME x.portEnabled /\ ~x.eapRestart /\ x.eap = "DISABLED"
                 /\ y = EapInitialize(x) PROVE Sinks
  BY SMTT(60), <1>3 DEF EapInitialize, Rank, PaeRank, EapRank, BeRank, ReauthRank, If, EapHot,
     EapDone, ResponseLate, AuthHot, Again
<1> QED BY <1>1, <1>2, <1>3, ExchangeSinks DEF EapMoves

-----------------------------------------------------------------------------
(* The RSN authenticator, as far as the EAPOL machines see it. *)

\* What the RSN authenticator and the station table may change.
WpaFields ==
    {"assoc", "authorized", "portEnabled", "portValid", "wpa", "pmk", "steps", "keyRun"}

\* The RSN authenticator leaves the port alone or disconnects the station.
WpaEffect(x, y) ==
    /\ y \in EapolState /\ \A f \in Fields \ WpaFields : y[f] = x[f]
    /\ y.keyRun => x.keyRun
    /\ "eapol" \in x.steps => "eapol" \in y.steps
    /\ \/ /\ y.assoc = x.assoc /\ y.authorized = x.authorized
          /\ y.portEnabled = x.portEnabled /\ y.portValid = x.portValid
       \/ ~y.assoc /\ ~y.authorized /\ ~y.portEnabled /\ "eapol" \in y.steps

\* ap_sta_disconnect() disconnects the station.
LEMMA DisconnectEffect ==
  ASSUME NEW x \in EapolState
  PROVE  WpaEffect(x, ap_sta_disconnect(x)) /\ ~ap_sta_disconnect(x).portEnabled
<1> DEFINE y == ap_sta_disconnect(x)
<1>1. WellTyped(x) /\ DOMAIN x = Fields BY StateTyped DEF WellTyped
<1>2. y \in EapolState BY <1>1, DisconnectTyped, TypedState
<1>3. /\ ~y.assoc /\ ~y.authorized /\ ~y.portEnabled /\ "eapol" \in y.steps
      /\ y.keyRun = x.keyRun
  BY <1>1, FieldTypes DEF ap_sta_disconnect, eapol_auth_step
<1>4. \A f \in Fields \ WpaFields : y[f] = x[f]
  BY <1>1, FieldTypes DEF ap_sta_disconnect, eapol_auth_step, WpaFields
<1> HIDE DEF y
<1>5. WpaEffect(x, y) /\ ~y.portEnabled BY <1>2, <1>3, <1>4 DEF WpaEffect
<1> QED BY <1>5 DEF y

\* So does the step of an RSN authenticator that waits for a PMK, if at all.
LEMMA WpaStepEffect ==
  ASSUME NEW x \in EapolState
  PROVE  WpaEffect(x, wpa_sm_step_1x(x))
<1>1. WellTyped(x) /\ DOMAIN x = Fields BY StateTyped DEF WellTyped
<1>2. WpaEffect(x, x) BY DEF WpaEffect
<1>3. WpaEffect(x, ap_sta_disconnect(x)) BY DisconnectEffect
<1>4. WpaEffect(x, ap_sta_disconnect([x EXCEPT !.keyRun = FALSE]))
  <2> DEFINE z == [x EXCEPT !.keyRun = FALSE]
             y == ap_sta_disconnect(z)
  <2>1. z \in EapolState BY <1>1, SetField, FieldTypes, TypedState
  <2>2. /\ \A f \in Fields \ WpaFields : z[f] = x[f]
        /\ ~z.keyRun /\ z.steps = x.steps
    BY <1>1, FieldTypes DEF WpaFields
  <2>3. WpaEffect(z, y) /\ ~y.portEnabled BY <2>1, DisconnectEffect
  <2>4. ~y.assoc /\ ~y.authorized /\ "eapol" \in y.steps
    BY FieldTypes, <2>1, StateTyped DEF ap_sta_disconnect, eapol_auth_step, WellTyped
  <2> HIDE DEF z, y
  <2>5. WpaEffect(x, y) BY <2>2, <2>3, <2>4 DEF WpaEffect
  <2> QED BY <2>5 DEF z, y
<1>5. WpaEffect(x, [x EXCEPT !.wpa = "HANDSHAKE", !.pmk = x.eapKeyData, !.keyRun = FALSE])
  <2> DEFINE y == [x EXCEPT !.wpa = "HANDSHAKE", !.pmk = x.eapKeyData, !.keyRun = FALSE]
  <2>1. x.eapKeyData \in Ages BY DEF EapolState
  <2>2. y \in EapolState BY <1>1, <2>1, SetField, FieldTypes, TypedState
  <2>3. /\ ~y.keyRun /\ y.steps = x.steps /\ y.assoc = x.assoc /\ y.authorized = x.authorized
        /\ y.portEnabled = x.portEnabled /\ y.portValid = x.portValid
        /\ \A f \in Fields \ WpaFields : y[f] = x[f]
    BY <1>1, FieldTypes DEF WpaFields
  <2> HIDE DEF y
  <2>4. WpaEffect(x, y) BY <2>2, <2>3 DEF WpaEffect
  <2> QED BY <2>4 DEF y
<1>6. WpaEffect(x, INITPMK(x)) BY <1>3, <1>4, <1>5 DEF INITPMK
<1> QED BY <1>2, <1>6 DEF wpa_sm_step_1x

\* WPA_REAUTH and WPA_REAUTH_EAPOL have such an effect, too.
LEMMA WpaReauthEffect ==
  ASSUME NEW x \in EapolState
  PROVE  WpaEffect(x, WpaReauth(x))
<1>1. WellTyped(x) /\ DOMAIN x = Fields BY StateTyped DEF WellTyped
<1> DEFINE z == [x EXCEPT !.wpa = "AUTHENTICATION2"]
           y == wpa_sm_step_1x(z)
<1>2. z \in EapolState BY <1>1, SetField, FieldTypes, TypedState
<1>3. /\ z.keyRun = x.keyRun /\ z.steps = x.steps /\ z.assoc = x.assoc
      /\ z.authorized = x.authorized /\ z.portEnabled = x.portEnabled
      /\ z.portValid = x.portValid /\ \A f \in Fields \ WpaFields : z[f] = x[f]
  BY <1>1, FieldTypes DEF WpaFields
<1>4. WpaEffect(z, y) BY <1>2, WpaStepEffect
<1> HIDE DEF z, y
<1>5. WpaEffect(x, y) BY <1>3, <1>4 DEF WpaEffect
<1>6. WpaEffect(x, x) BY DEF WpaEffect
<1> QED BY <1>5, <1>6 DEF WpaReauth, z, y

\* A transition of REAUTH_TIMER lowers the rank, even if it disconnects the station.
LEMMA ReauthSinks ==
  ASSUME NEW x \in EapolState, NEW y, ReauthMoves(x, y)
  PROVE  Rank(y) <= Rank(x) /\ (y.reauth # x.reauth => Rank(y) < Rank(x))
<1> DEFINE Sinks == Rank(y) <= Rank(x) /\ (y.reauth # x.reauth => Rank(y) < Rank(x))
<1>1. x.reauth \in {"INITIALIZE", "REAUTHENTICATE"} BY DEF EapolState
<1>2. ASSUME y = [x EXCEPT !.reauth = "INITIALIZE", !.timers = Start(x, "reAuthWhen")]
      PROVE  Sinks
  BY SMTT(60), <1>1, <1>2, Ranked, FieldTypes
     DEF Start, Rank, PaeRank, EapRank, BeRank, ReauthRank, If, EapHot, EapDone,
         ResponseLate, AuthHot, Again
<1>3. ASSUME x.reauth = "INITIALIZE", "reAuthWhen" \notin x.timers,
             y = WpaReauth([x EXCEPT !.reauth = "REAUTHENTICATE", !.reAuthenticate = TRUE])
      PROVE  Sinks
  <2> DEFINE z == [x EXCEPT !.reauth = "REAUTHENTICATE", !.reAuthenticate = TRUE]
  <2>1. WellTyped(x) /\ DOMAIN x = Fields BY StateTyped DEF WellTyped
  <2>2. z \in EapolState BY <2>1, SetField, FieldTypes, TypedState
  <2>3. WpaEffect(z, y) BY <1>3, <2>2, WpaReauthEffect
  <2>4. /\ z.reauth = "REAUTHENTICATE" /\ z.portEnabled = x.portEnabled
        /\ \A f \in Fields \ {"reauth", "reAuthenticate"} : z[f] = x[f]
    BY <2>1, FieldTypes
  <2> HIDE DEF z
  <2>5. /\ y.reauth = "REAUTHENTICATE"
        /\ \A f \in Fields \ (WpaFields \cup {"reauth", "reAuthenticate"}) : y[f] = x[f]
        /\ y.portEnabled = x.portEnabled \/ ~y.portEnabled
    BY <2>3, <2>4, FieldTypes DEF WpaEffect, WpaFields
  <2>6. ReauthRank(x) = 5 /\ ReauthRank(y) = 1
    BY <1>3, <2>5 DEF ReauthRank, If
  <2>7. BeRank(y) = BeRank(x) /\ If(y.eapolEap, 12) = If(x.eapolEap, 12)
    BY <2>5, FieldTypes DEF BeRank, WpaFields
  <2>8. CASE y.portEnabled = x.portEnabled
    <3>1. EapRank(y) = EapRank(x)
      BY <2>5, <2>8, FieldTypes DEF EapRank, WpaFields
    <3>2. PaeRank(y) = PaeRank(x)
      BY <2>5, <2>8, FieldTypes
         DEF PaeRank, WpaFields, EapHot, EapDone, ResponseLate, AuthHot, Again
    <3>3. PaeRank(x) \in Int /\ EapRank(x) \in Int /\ BeRank(x) \in Int
          /\ If(x.eapolEap, 12) \in Int
      BY DEF PaeRank, EapRank, BeRank, If
    <3> QED BY <2>6, <2>7, <3>1, <3>2, <3>3 DEF Rank
  <2>9. CASE ~y.portEnabled
    <3>1. EapRank(y) <= 1 /\ PaeRank(y) <= 1 /\ EapRank(y) \in Int /\ PaeRank(y) \in Int
      BY <2>9 DEF EapRank, PaeRank, If
    <3>2. PaeRank(x) \in Nat /\ EapRank(x) \in Nat /\ BeRank(x) \in Int
          /\ If(x.eapolEap, 12) \in Int
      BY DEF PaeRank, EapRank, BeRank, If
    <3> QED BY <2>6, <2>7, <3>1, <3>2 DEF Rank
  <2> QED BY <2>5, <2>8, <2>9
<1> QED BY <1>1, <1>2, <1>3 DEF ReauthMoves

-----------------------------------------------------------------------------
(* What holds after every single transition. *)

\* The counters keep to their limits: CONNECTING and RETRANSMIT count, and go on
\* only up to the limit.
Counted(x) ==
    /\ x.reAuthCount <= reAuthMax + 1
    /\ x.pae \notin {"CONNECTING", "INITIALIZE"} => x.reAuthCount <= reAuthMax
    /\ x.retransCount <= MaxRetrans + 1
    /\ x.eap \in {"IDLE", "IDLE2", "RECEIVED", "RECEIVED2", "DISCARD", "DISCARD2",
                  "SEND_REQUEST", "SEND_REQUEST2"} => x.retransCount <= MaxRetrans

\* The PAE will restart EAP before it looks at an exchange again.
Early(x) ==
    x.pae \in {"INITIALIZE", "DISCONNECTED"} \/ (x.pae = "RESTART" /\ x.eapRestart)

\* EAP is restarted and disabled only where the PAE waits for that.
Restarts(x) ==
    /\ x.eapRestart => x.pae \in {"RESTART", "INITIALIZE", "DISCONNECTED"}
    /\ x.eap = "DISABLED" => Early(x)
    /\ x.stopped => x.pae \in {"INITIALIZE", "DISCONNECTED"}
    /\ x.pae = "RESTART" /\ ~x.eapRestart => ~EapDone(x) /\ x.be \notin Passing
    /\ x.authAbort => x.pae = "ABORTING"

\* The server has replied.
Replied(x) == x.aaaFail \/ x.aaaSuccess \/ x.aaaEapReq

\* EAP's verdict is that of the state it is in, and the server is asked once, from
\* AAA_IDLE, in an exchange it has not decided.
Exchanges(x) ==
    /\ x.eapSuccess => x.eap \in {"SUCCESS2", "DISABLED"}
    /\ x.eapFail => x.eap \in {"FAILURE2", "DISABLED"}
    /\ x.eapTimeout => x.eap \in {"TIMEOUT_FAILURE", "TIMEOUT_FAILURE2", "DISABLED"}
    /\ x.eap = "SUCCESS2" => x.eapSuccess
    /\ x.eap = "FAILURE2" => x.eapFail
    /\ x.answer # "none" => /\ x.radius # "cur"
                            /\ x.eap \in {"AAA_IDLE", "SUCCESS2", "FAILURE2", "DISABLED"}
    /\ x.radius = "cur" => x.eap \in {"AAA_IDLE", "DISABLED"}
    /\ x.eap = "AAA_IDLE" =>
        /\ x.answer = "reject" => x.aaaFail
        /\ x.answer = "accept" => x.aaaSuccess
        /\ Replied(x) => x.radius # "cur"

\* What the PAE, the backend and EAP take for a success is one of this exchange:
\* once EAP has been restarted, no reply to an earlier request reaches AAA_IDLE.
Verdicts(x) ==
    /\ x.pae = "AUTHENTICATED" => x.answer = "accept"
    /\ x.pae = "AUTHENTICATING" /\ x.authSuccess => x.answer = "accept"
    /\ ~Early(x) =>
        /\ x.eapSuccess => x.answer = "accept"
        /\ x.eap = "AAA_IDLE" /\ x.aaaSuccess /\ ~x.aaaFail => x.answer = "accept"
        /\ x.eap = "AAA_IDLE" => x.radius # "old" \/ x.aaaEapResp = "data"
        /\ x.eap \in {"INITIALIZE", "SELECT_ACTION"} /\ ~x.idSet => ~x.identity
        /\ x.eap \notin {"INITIALIZE", "SELECT_ACTION", "PROPOSE_METHOD"} => x.idSet

\* A port that is disabled, or whose station is held off, is not authorized.  An
\* associated station has a machine.
Ports(x) ==
    /\ x.assoc => x.present
    /\ ~x.assoc => ~x.portEnabled
    /\ ~x.portEnabled => ~x.authorized
    /\ x.pae \in {"HELD", "DISCONNECTED", "INITIALIZE"} => ~x.authorized

\* The backend ends an authentication only with a verdict for the PAE.
Backends(x) ==
    /\ x.be = "INITIALIZE" => Early(x) \/ x.pae = "ABORTING"
    /\ x.pae = "CONNECTING" /\ x.be \in Passing => ~x.eapReq /\ ~x.eapSuccess /\ ~x.eapFail
    /\ x.pae = "AUTHENTICATING" =>
        /\ x.be = "SUCCESS" => x.authSuccess
        /\ x.be = "FAIL" => x.authFail
        /\ x.be = "TIMEOUT" => x.authTimeout
        /\ x.be = "IDLE" /\ ~x.authStart => x.authSuccess \/ x.authFail \/ x.authTimeout

\* The PAE waits for more than a request: neither EAP nor the backend can make it
\* restart EAP, unless EAP comes to a verdict.
PaeSteady(x) ==
    \/ x.pae = "DISCONNECTED" /\ x.stopped
    \/ x.pae = "HELD" /\ "quietWhile" \in x.timers
    \/ x.pae = "CONNECTING" /\ ~x.eapolLogoff /\ x.reAuthCount <= reAuthMax
    \/ /\ x.pae = "AUTHENTICATED" /\ ~x.eapolStart /\ ~x.reAuthenticate
       /\ ~x.eapolLogoff /\ x.portValid
    \/ /\ x.pae = "AUTHENTICATING" /\ ~(x.authSuccess /\ x.portValid) /\ ~x.authFail
       /\ ~(x.keyDone /\ ~x.portValid)
       /\ ~x.eapolStart /\ ~x.eapolLogoff /\ ~x.authTimeout

\* The port is enabled, and neither the backend nor the reauthentication timer is due.
Steady(x) ==
    /\ x.portEnabled /\ ~x.authAbort /\ x.reauth = "INITIALIZE" /\ ~ResponseLate(x)
    /\ x.authPortStatus => "reAuthWhen" \in x.timers

\* A response that is to go to the server at the end of the loop goes there for the
\* exchange that produced it.
Sends(x) ==
    x.aaaEapResp # "no" =>
        /\ x.eap = "AAA_IDLE" /\ ~x.eapRestart /\ ~Replied(x) /\ x.answer = "none"
        /\ Steady(x) /\ PaeSteady(x)

\* The conjunction: what every single transition keeps.
Sound(x) ==
    /\ Counted(x) /\ Restarts(x) /\ Exchanges(x) /\ Verdicts(x) /\ Ports(x)
    /\ Backends(x) /\ Sends(x)

\* What the PAE's own step leaves: CONNECTING has not met a verdict, and RESTART
\* waits for EAP.
PaeStepped(x) ==
    /\ x.pae = "CONNECTING" => ~x.eapSuccess /\ ~x.eapFail
    /\ x.pae = "RESTART" => x.eapRestart

\* A PAE in RESTART sees EAP ask for the identity, and wait.
AsksIdentity(x) ==
    \/ x.eapRestart
    \/ x.eap \in {"INITIALIZE", "SELECT_ACTION"} /\ ~x.identity
    \/ x.eap \in {"PROPOSE_METHOD", "METHOD_REQUEST"}
    \/ x.eap = "SEND_REQUEST" /\ ~x.eapResp
    \/ x.eap = "IDLE" /\ ~x.eapResp /\ "retransWhile" \in x.timers

\* Where eapol_sm_step_run() lets EAP step: the other machines are at rest.
EapTurn(x) ==
    /\ ~x.authAbort /\ x.be \notin Passing /\ ~ResponseLate(x)
    /\ \/ ~x.portEnabled /\ x.pae = "INITIALIZE"
       \/ Steady(x) /\ PaeSteady(x)
       \/ Steady(x) /\ x.pae = "RESTART" /\ AsksIdentity(x)

\* The types of the fields these facts are about.
LEMMA Fielded ==
  ASSUME NEW x \in EapolState
  PROVE  /\ WellTyped(x) /\ DOMAIN x = Fields
         /\ x.reAuthCount \in Nat /\ reAuthMax \in Nat /\ x.retransCount \in Nat
         /\ MaxRetrans \in Nat
         /\ x.pae \in PaeStates /\ x.be \in BeStates /\ x.eap \in EapStates
         /\ x.timers \in SUBSET Timers /\ x.eapRestart \in BOOLEAN /\ x.stopped \in BOOLEAN
         /\ x.eapolLogoff \in BOOLEAN /\ x.answer \in {"none", "accept", "reject"}
         /\ x.radius \in Ages
<1>1. WellTyped(x) /\ DOMAIN x = Fields BY StateTyped DEF WellTyped
<1> QED BY <1>1, EapolConstants DEF EapolState

\* A transition of AUTH_PAE keeps all of that.
LEMMA PaeKeeps ==
  ASSUME NEW x \in EapolState, Sound(x), NEW y, PaeMoves(x, y), ~x.authAbort
  PROVE  Sound(y)
<1> USE Fielded, FieldTypes
<1>1. ASSUME ~x.portEnabled /\ y = PaeInitialize(x) PROVE Sound(y)
  BY SMTT(60), <1>1 DEF PaeInitialize, Sound, Counted, Restarts, Early, EapDone, Exchanges,
     Replied, Verdicts, Ports, Backends, Passing, Sends, Steady, PaeSteady, ResponseLate
<1>2. ASSUME /\ x.portEnabled /\ y = PaeDisconnected(x)
             /\ \/ x.pae = "INITIALIZE"
                \/ x.pae = "CONNECTING" /\ (x.eapolLogoff \/ x.reAuthCount > reAuthMax)
                \/ x.pae = "AUTHENTICATED" /\ (x.eapolLogoff \/ ~x.portValid)
                \/ x.pae = "ABORTING" /\ ~x.authAbort PROVE Sound(y)
  BY SMTT(60), <1>2 DEF PaeDisconnected, Finished, Sound, Counted, Restarts, Early, EapDone,
     Exchanges, Replied, Verdicts, Ports, Backends, Passing, Sends, Steady, PaeSteady,
     ResponseLate
<1>3. ASSUME /\ x.portEnabled /\ y = PaeRestart(x)
             /\ \/ x.pae = "DISCONNECTED" /\ ~x.stopped
                \/ x.pae = "HELD" /\ "quietWhile" \notin x.timers
                \/ x.pae = "AUTHENTICATED" /\ (x.eapolStart \/ x.reAuthenticate)
                \/ x.pae = "ABORTING" /\ ~x.authAbort PROVE Sound(y)
  BY SMTT(60), <1>3 DEF PaeRestart, Sound, Counted, Restarts, Early, EapDone, Exchanges,
     Replied, Verdicts, Ports, Backends, Passing, Sends, Steady, PaeSteady, ResponseLate
<1>4. ASSUME x.portEnabled /\ x.pae = "RESTART" /\ ~x.eapRestart
                 /\ y = PaeConnecting(x) PROVE Sound(y)
  BY SMTT(60), <1>4 DEF PaeConnecting, Sound, Counted, Restarts, Early, EapDone, Exchanges,
     Replied, Verdicts, Ports, Backends, Passing, Sends, Steady, PaeSteady, ResponseLate
<1>5. ASSUME /\ x.portEnabled /\ x.pae = "CONNECTING" /\ y = PaeAuthenticating(x)
             /\ ~x.eapolLogoff /\ x.reAuthCount <= reAuthMax
             /\ x.eapReq \/ x.eapSuccess \/ x.eapFail PROVE Sound(y)
  BY SMTT(60), <1>5 DEF PaeAuthenticating, Sound, Counted, Restarts, Early, EapDone,
     Exchanges, Replied, Verdicts, Ports, Backends, Passing, Sends, Steady, PaeSteady,
     ResponseLate
<1>6. ASSUME /\ x.portEnabled /\ x.pae = "AUTHENTICATING" /\ y = PaeAuthenticated(x)
             /\ x.authSuccess /\ x.portValid PROVE Sound(y)
  BY SMTT(60), <1>6 DEF PaeAuthenticated, Sound, Counted, Restarts, Early, EapDone, Exchanges,
     Replied, Verdicts, Ports, Backends, Passing, Sends, Steady, PaeSteady, ResponseLate
<1>7. ASSUME /\ x.portEnabled /\ x.pae = "AUTHENTICATING" /\ y = PaeHeld(x)
             /\ x.authFail \/ (x.keyDone /\ ~x.portValid) PROVE Sound(y)
  BY SMTT(60), <1>7 DEF PaeHeld, Finished, Start, Sound, Counted, Restarts, Early, EapDone,
     Exchanges, Replied, Verdicts, Ports, Backends, Passing, Sends, Steady, PaeSteady,
     ResponseLate
<1>8. ASSUME /\ x.portEnabled /\ x.pae = "AUTHENTICATING" /\ y = PaeAborting(x)
             /\ x.eapolStart \/ x.eapolLogoff \/ x.authTimeout PROVE Sound(y)
  BY SMTT(60), <1>8 DEF PaeAborting, Sound, Counted, Restarts, Early, EapDone, Exchanges,
     Replied, Verdicts, Ports, Backends, Passing, Sends, Steady, PaeSteady, ResponseLate
<1> QED BY <1>1, <1>2, <1>3, <1>4, <1>5, <1>6, <1>7, <1>8, SMTT(60) DEF PaeMoves

\* A transition of BE_AUTH keeps it.
LEMMA BeKeeps ==
  ASSUME NEW x \in EapolState, Sound(x), NEW y, BeMoves(x, y), PaeStepped(x)
  PROVE  Sound(y)
<1> USE Fielded, FieldTypes
<1>1. ASSUME x.authAbort /\ ~x.eapTimeout /\ y = BeInitialize(x) PROVE Sound(y)
  BY SMTT(60), <1>1 DEF BeInitialize, abortAuth, ap_sta_disconnect, eapol_auth_step, Sound,
     Counted, Restarts, Early, EapDone, Exchanges, Replied, Verdicts, Ports, Backends,
     Passing, Sends, Steady, PaeSteady, ResponseLate, PaeStepped
<1>2. ASSUME x.authAbort /\ x.eapTimeout /\ y = BeInitialize(x) PROVE Sound(y)
  BY SMTT(60), <1>2 DEF BeInitialize, abortAuth, ap_sta_disconnect, eapol_auth_step, Sound,
     Counted, Restarts, Early, EapDone, Exchanges, Replied, Verdicts, Ports, Backends,
     Passing, Sends, Steady, PaeSteady, ResponseLate, PaeStepped
<1>3. ASSUME x.be \in Passing /\ ~x.authAbort /\ y = BeIdle(x) PROVE Sound(y)
  BY SMTT(60), <1>3 DEF BeIdle, Sound, Counted, Restarts, Early, EapDone, Exchanges, Replied,
     Verdicts, Ports, Backends, Passing, Sends, Steady, PaeSteady, ResponseLate, PaeStepped
<1>4. ASSUME ~x.authAbort /\ x.be \in {"REQUEST", "IGNORE"} /\ x.eapolEap
                 /\ y = BeResponse(x) PROVE Sound(y)
  BY SMTT(60), <1>4 DEF BeResponse, Start, Sound, Counted, Restarts, Early, EapDone,
     Exchanges, Replied, Verdicts, Ports, Backends, Passing, Sends, Steady, PaeSteady,
     ResponseLate, PaeStepped
<1>5. ASSUME ~x.authAbort /\ x.be \in {"REQUEST", "IGNORE"} /\ y = BeRequest(x) PROVE Sound(y)
  BY SMTT(60), <1>5 DEF BeRequest, Sound, Counted, Restarts, Early, EapDone, Exchanges,
     Replied, Verdicts, Ports, Backends, Passing, Sends, Steady, PaeSteady, ResponseLate,
     PaeStepped
<1>6. ASSUME ~x.authAbort /\ x.be \in {"REQUEST", "IGNORE"} /\ ~x.eapReq /\ x.eapTimeout
                 /\ y = BeTimeout(x) PROVE Sound(y)
  BY SMTT(60), <1>6 DEF BeTimeout, Sound, Counted, Restarts, Early, EapDone, Exchanges,
     Replied, Verdicts, Ports, Backends, Passing, Sends, Steady, PaeSteady, ResponseLate,
     PaeStepped
<1>7. ASSUME ~x.authAbort /\ x.be = "RESPONSE" /\ y = BeIgnore(x) PROVE Sound(y)
  BY SMTT(60), <1>7 DEF BeIgnore, Sound, Counted, Restarts, Early, EapDone, Exchanges,
     Replied, Verdicts, Ports, Backends, Passing, Sends, Steady, PaeSteady, ResponseLate,
     PaeStepped
<1>8. ASSUME ~x.authAbort /\ x.be = "RESPONSE" /\ y = BeRequest(x) PROVE Sound(y)
  BY SMTT(60), <1>8 DEF BeRequest, Sound, Counted, Restarts, Early, EapDone, Exchanges,
     Replied, Verdicts, Ports, Backends, Passing, Sends, Steady, PaeSteady, ResponseLate,
     PaeStepped
<1>9. ASSUME ~x.authAbort /\ x.be = "RESPONSE" /\ y = BeRequest(BeIgnore(x)) PROVE Sound(y)
  BY SMTT(60), <1>9 DEF BeRequest, BeIgnore, Sound, Counted, Restarts, Early, EapDone,
     Exchanges, Replied, Verdicts, Ports, Backends, Passing, Sends, Steady, PaeSteady,
     ResponseLate, PaeStepped
<1>10. ASSUME ~x.authAbort /\ x.be = "RESPONSE" /\ ~x.eapReq /\ "aWhile" \notin x.timers
                  /\ y = BeTimeout(x) PROVE Sound(y)
  BY SMTT(60), <1>10 DEF BeTimeout, Sound, Counted, Restarts, Early, EapDone, Exchanges,
     Replied, Verdicts, Ports, Backends, Passing, Sends, Steady, PaeSteady, ResponseLate,
     PaeStepped
<1>11. ASSUME ~x.authAbort /\ x.be = "RESPONSE" /\ ~x.eapReq /\ "aWhile" \notin x.timers
                  /\ y = BeTimeout(BeIgnore(x)) PROVE Sound(y)
  BY SMTT(60), <1>11 DEF BeTimeout, BeIgnore, Sound, Counted, Restarts, Early, EapDone,
     Exchanges, Replied, Verdicts, Ports, Backends, Passing, Sends, Steady, PaeSteady,
     ResponseLate, PaeStepped
<1>12. ASSUME ~x.authAbort /\ x.be = "RESPONSE" /\ x.eapFail /\ y = BeFail(x) PROVE Sound(y)
  BY SMTT(60), <1>12 DEF BeFail, Sound, Counted, Restarts, Early, EapDone, Exchanges, Replied,
     Verdicts, Ports, Backends, Passing, Sends, Steady, PaeSteady, ResponseLate, PaeStepped
<1>13. ASSUME ~x.authAbort /\ x.be = "RESPONSE" /\ x.eapFail
                  /\ y = BeFail(BeIgnore(x)) PROVE Sound(y)
  BY SMTT(60), <1>13 DEF BeFail, BeIgnore, Sound, Counted, Restarts, Early, EapDone,
     Exchanges, Replied, Verdicts, Ports, Backends, Passing, Sends, Steady, PaeSteady,
     ResponseLate, PaeStepped
<1>14. ASSUME ~x.authAbort /\ x.be = "RESPONSE" /\ x.eapSuccess /\ y = BeSuccess(x) PROVE Sound(y)
  BY SMTT(60), <1>14 DEF BeSuccess, Sound, Counted, Restarts, Early, EapDone, Exchanges,
     Replied, Verdicts, Ports, Backends, Passing, Sends, Steady, PaeSteady, ResponseLate,
     PaeStepped
<1>15. ASSUME ~x.authAbort /\ x.be = "RESPONSE" /\ x.eapSuccess
                  /\ y = BeSuccess(BeIgnore(x)) PROVE Sound(y)
  BY SMTT(60), <1>15 DEF BeSuccess, BeIgnore, Sound, Counted, Restarts, Early, EapDone,
     Exchanges, Replied, Verdicts, Ports, Backends, Passing, Sends, Steady, PaeSteady,
     ResponseLate, PaeStepped
<1>16. ASSUME ~x.authAbort /\ x.be = "IDLE" /\ x.authStart /\ x.eapFail
                  /\ y = BeFail(x) PROVE Sound(y)
  BY SMTT(60), <1>16 DEF BeFail, Sound, Counted, Restarts, Early, EapDone, Exchanges, Replied,
     Verdicts, Ports, Backends, Passing, Sends, Steady, PaeSteady, ResponseLate, PaeStepped
<1>17. ASSUME ~x.authAbort /\ x.be = "IDLE" /\ x.authStart /\ y = BeRequest(x) PROVE Sound(y)
  BY SMTT(60), <1>17 DEF BeRequest, Sound, Counted, Restarts, Early, EapDone, Exchanges,
     Replied, Verdicts, Ports, Backends, Passing, Sends, Steady, PaeSteady, ResponseLate,
     PaeStepped
<1>18. ASSUME ~x.authAbort /\ x.be = "IDLE" /\ x.authStart /\ x.eapSuccess
                  /\ y = BeSuccess(x) PROVE Sound(y)
  BY SMTT(60), <1>18 DEF BeSuccess, Sound, Counted, Restarts, Early, EapDone, Exchanges,
     Replied, Verdicts, Ports, Backends, Passing, Sends, Steady, PaeSteady, ResponseLate,
     PaeStepped
<1> QED
  BY <1>1, <1>2, <1>3, <1>4, <1>5, <1>6, <1>7, <1>8, <1>9, <1>10, <1>11, <1>12, <1>13, <1>14,
     <1>15, <1>16, <1>17, <1>18, SMTT(60)
     DEF BeMoves

\* A transition of EAP keeps it, and leaves the other machines at rest.
LEMMA ExchangeKeeps ==
  ASSUME NEW x \in EapolState, Sound(x), NEW y, ExchangeMoves(x, y), EapTurn(x),
         x.portEnabled, ~x.eapRestart, x.eap # "DISABLED"
  PROVE  Sound(y) /\ EapTurn(y)
<1> USE Fielded, FieldTypes
<1>1. ASSUME x.eap \in {"INITIALIZE", "METHOD_RESPONSE"}
                 /\ y = [x EXCEPT !.eap = "SELECT_ACTION"] PROVE Sound(y) /\ EapTurn(y)
  BY SMTT(60), <1>1 DEF Sound, Counted, Restarts, Early, EapDone, Exchanges, Replied, Verdicts,
         Ports, Backends, Passing, Sends, Steady, PaeSteady, ResponseLate, EapTurn, AsksIdentity
<1>2. ASSUME x.eap = "SELECT_ACTION" /\ y = EapSelectAction(x) PROVE Sound(y) /\ EapTurn(y)
  BY SMTT(60), <1>2 DEF EapSelectAction, Sound, Counted, Restarts, Early, EapDone, Exchanges,
     Replied, Verdicts, Ports, Backends, Passing, Sends, Steady, PaeSteady, ResponseLate,
     EapTurn, AsksIdentity
<1>3. ASSUME x.eap = "PROPOSE_METHOD" /\ y = NewRequestId(x, "METHOD_REQUEST") PROVE Sound(y)
                 /\ EapTurn(y)
  BY SMTT(60), <1>3 DEF NewRequestId, Sound, Counted, Restarts, Early, EapDone, Exchanges,
     Replied, Verdicts, Ports, Backends, Passing, Sends, Steady, PaeSteady, ResponseLate,
     EapTurn, AsksIdentity
<1>4. ASSUME x.eap = "METHOD_REQUEST" /\ y = EapSendRequest(x, "SEND_REQUEST") PROVE Sound(y)
                 /\ EapTurn(y)
  BY SMTT(60), <1>4 DEF EapSendRequest, Sound, Counted, Restarts, Early, EapDone, Exchanges,
     Replied, Verdicts, Ports, Backends, Passing, Sends, Steady, PaeSteady, ResponseLate,
     EapTurn, AsksIdentity
<1>5. ASSUME x.eap \in {"SEND_REQUEST", "DISCARD"} /\ y = EapIdle(x, "IDLE") PROVE Sound(y)
                 /\ EapTurn(y)
  BY SMTT(60), <1>5 DEF EapIdle, Start, Sound, Counted, Restarts, Early, EapDone, Exchanges,
     Replied, Verdicts, Ports, Backends, Passing, Sends, Steady, PaeSteady, ResponseLate,
     EapTurn, AsksIdentity
<1>6. ASSUME x.eap = "IDLE" /\ "retransWhile" \notin x.timers
                 /\ y = EapRetransmit(x, "RETRANSMIT") PROVE Sound(y) /\ EapTurn(y)
  BY SMTT(60), <1>6 DEF EapRetransmit, Sound, Counted, Restarts, Early, EapDone, Exchanges,
     Replied, Verdicts, Ports, Backends, Passing, Sends, Steady, PaeSteady, ResponseLate,
     EapTurn, AsksIdentity
<1>7. ASSUME /\ x.eap = "IDLE" /\ "retransWhile" \in x.timers /\ x.eapResp
             /\ y = [x EXCEPT !.eap = "RECEIVED"] PROVE Sound(y) /\ EapTurn(y)
  BY SMTT(60), <1>7 DEF Sound, Counted, Restarts, Early, EapDone, Exchanges, Replied, Verdicts,
         Ports, Backends, Passing, Sends, Steady, PaeSteady, ResponseLate, EapTurn, AsksIdentity
<1>8. ASSUME x.eap = "RETRANSMIT" /\ x.retransCount > MaxRetrans
                 /\ y = EapTimeout(x, "TIMEOUT_FAILURE") PROVE Sound(y) /\ EapTurn(y)
  BY SMTT(60), <1>8 DEF EapTimeout, Sound, Counted, Restarts, Early, EapDone, Exchanges,
     Replied, Verdicts, Ports, Backends, Passing, Sends, Steady, PaeSteady, ResponseLate,
     EapTurn, AsksIdentity
<1>9. ASSUME x.eap = "RETRANSMIT" /\ x.retransCount <= MaxRetrans
                 /\ y = EapIdle(x, "IDLE") PROVE Sound(y) /\ EapTurn(y)
  BY SMTT(60), <1>9 DEF EapIdle, Start, Sound, Counted, Restarts, Early, EapDone, Exchanges,
     Replied, Verdicts, Ports, Backends, Passing, Sends, Steady, PaeSteady, ResponseLate,
     EapTurn, AsksIdentity
<1>10. ASSUME x.eap = "RECEIVED"
                  /\ y = [x EXCEPT !.eap = "METHOD_RESPONSE", !.identity = TRUE] PROVE Sound(y)
                         /\ EapTurn(y)
  BY SMTT(60), <1>10 DEF Sound, Counted, Restarts, Early, EapDone, Exchanges, Replied, Verdicts,
         Ports, Backends, Passing, Sends, Steady, PaeSteady, ResponseLate, EapTurn, AsksIdentity
<1>11. ASSUME x.eap = "RECEIVED" /\ y = EapDiscard(x, "DISCARD") PROVE Sound(y) /\ EapTurn(y)
  BY SMTT(60), <1>11 DEF EapDiscard, Sound, Counted, Restarts, Early, EapDone, Exchanges,
     Replied, Verdicts, Ports, Backends, Passing, Sends, Steady, PaeSteady, ResponseLate,
     EapTurn, AsksIdentity
<1>12. ASSUME x.eap = "INITIALIZE_PASSTHROUGH" /\ x.idSet
                  /\ y = [x EXCEPT !.eap = "AAA_REQUEST"] PROVE Sound(y) /\ EapTurn(y)
  BY SMTT(60), <1>12 DEF Sound, Counted, Restarts, Early, EapDone, Exchanges, Replied, Verdicts,
         Ports, Backends, Passing, Sends, Steady, PaeSteady, ResponseLate, EapTurn, AsksIdentity
<1>13. ASSUME x.eap = "INITIALIZE_PASSTHROUGH" /\ ~x.idSet
                  /\ y = AaaIdle(x, "empty") PROVE Sound(y) /\ EapTurn(y)
  BY SMTT(60), <1>13 DEF AaaIdle, Sound, Counted, Restarts, Early, EapDone, Exchanges,
     Replied, Verdicts, Ports, Backends, Passing, Sends, Steady, PaeSteady, ResponseLate,
     EapTurn, AsksIdentity
<1>14. ASSUME x.eap = "AAA_REQUEST" /\ y = AaaIdle(x, "data") PROVE Sound(y) /\ EapTurn(y)
  BY SMTT(60), <1>14 DEF AaaIdle, Sound, Counted, Restarts, Early, EapDone, Exchanges,
     Replied, Verdicts, Ports, Backends, Passing, Sends, Steady, PaeSteady, ResponseLate,
     EapTurn, AsksIdentity
<1>15. ASSUME /\ x.eap = "AAA_IDLE" /\ x.aaaFail
              /\ y = [x EXCEPT !.eap = "FAILURE2", !.eapFail = TRUE] PROVE Sound(y) /\ EapTurn(y)
  BY SMTT(60), <1>15 DEF Sound, Counted, Restarts, Early, EapDone, Exchanges, Replied, Verdicts,
         Ports, Backends, Passing, Sends, Steady, PaeSteady, ResponseLate, EapTurn, AsksIdentity
<1>16. ASSUME x.eap = "AAA_IDLE" /\ ~x.aaaFail /\ x.aaaSuccess
                  /\ y = EapSuccess2(x) PROVE Sound(y) /\ EapTurn(y)
  BY SMTT(60), <1>16 DEF EapSuccess2, Sound, Counted, Restarts, Early, EapDone, Exchanges,
     Replied, Verdicts, Ports, Backends, Passing, Sends, Steady, PaeSteady, ResponseLate,
     EapTurn, AsksIdentity
<1>17. ASSUME /\ x.eap = "AAA_IDLE" /\ ~x.aaaFail /\ ~x.aaaSuccess /\ x.aaaEapReq
              /\ y = NewRequestId(x, "AAA_RESPONSE") PROVE Sound(y) /\ EapTurn(y)
  BY SMTT(60), <1>17 DEF NewRequestId, Sound, Counted, Restarts, Early, EapDone, Exchanges,
     Replied, Verdicts, Ports, Backends, Passing, Sends, Steady, PaeSteady, ResponseLate,
     EapTurn, AsksIdentity
<1>18. ASSUME x.eap = "AAA_RESPONSE" /\ y = EapSendRequest(x, "SEND_REQUEST2") PROVE Sound(y)
                  /\ EapTurn(y)
  BY SMTT(60), <1>18 DEF EapSendRequest, Sound, Counted, Restarts, Early, EapDone, Exchanges,
     Replied, Verdicts, Ports, Backends, Passing, Sends, Steady, PaeSteady, ResponseLate,
     EapTurn, AsksIdentity
<1>19. ASSUME x.eap \in {"SEND_REQUEST2", "DISCARD2"} /\ y = EapIdle(x, "IDLE2") PROVE Sound(y)
                  /\ EapTurn(y)
  BY SMTT(60), <1>19 DEF EapIdle, Start, Sound, Counted, Restarts, Early, EapDone, Exchanges,
     Replied, Verdicts, Ports, Backends, Passing, Sends, Steady, PaeSteady, ResponseLate,
     EapTurn, AsksIdentity
<1>20. ASSUME x.eap = "IDLE2" /\ x.eapResp /\ y = [x EXCEPT !.eap = "RECEIVED2"] PROVE Sound(y)
                  /\ EapTurn(y)
  BY SMTT(60), <1>20 DEF Sound, Counted, Restarts, Early, EapDone, Exchanges, Replied, Verdicts,
         Ports, Backends, Passing, Sends, Steady, PaeSteady, ResponseLate, EapTurn, AsksIdentity
<1>21. ASSUME /\ x.eap = "IDLE2" /\ ~x.eapResp /\ "retransWhile" \notin x.timers
              /\ y = EapRetransmit(x, "RETRANSMIT2") PROVE Sound(y) /\ EapTurn(y)
  BY SMTT(60), <1>21 DEF EapRetransmit, Sound, Counted, Restarts, Early, EapDone, Exchanges,
     Replied, Verdicts, Ports, Backends, Passing, Sends, Steady, PaeSteady, ResponseLate,
     EapTurn, AsksIdentity
<1>22. ASSUME /\ x.eap = "RETRANSMIT2" /\ x.retransCount > MaxRetrans
              /\ y = EapTimeout(x, "TIMEOUT_FAILURE2") PROVE Sound(y) /\ EapTurn(y)
  BY SMTT(60), <1>22 DEF EapTimeout, Sound, Counted, Restarts, Early, EapDone, Exchanges,
     Replied, Verdicts, Ports, Backends, Passing, Sends, Steady, PaeSteady, ResponseLate,
     EapTurn, AsksIdentity
<1>23. ASSUME x.eap = "RETRANSMIT2" /\ x.retransCount <= MaxRetrans
                  /\ y = EapIdle(x, "IDLE2") PROVE Sound(y) /\ EapTurn(y)
  BY SMTT(60), <1>23 DEF EapIdle, Start, Sound, Counted, Restarts, Early, EapDone, Exchanges,
     Replied, Verdicts, Ports, Backends, Passing, Sends, Steady, PaeSteady, ResponseLate,
     EapTurn, AsksIdentity
<1>24. ASSUME x.eap = "RECEIVED2" /\ y = [x EXCEPT !.eap = "AAA_REQUEST"] PROVE Sound(y)
                  /\ EapTurn(y)
  BY SMTT(60), <1>24 DEF Sound, Counted, Restarts, Early, EapDone, Exchanges, Replied, Verdicts,
         Ports, Backends, Passing, Sends, Steady, PaeSteady, ResponseLate, EapTurn, AsksIdentity
<1>25. ASSUME x.eap = "RECEIVED2" /\ y = EapDiscard(x, "DISCARD2") PROVE Sound(y) /\ EapTurn(y)
  BY SMTT(60), <1>25 DEF EapDiscard, Sound, Counted, Restarts, Early, EapDone, Exchanges,
     Replied, Verdicts, Ports, Backends, Passing, Sends, Steady, PaeSteady, ResponseLate,
     EapTurn, AsksIdentity
<1> QED
  BY <1>1, <1>2, <1>3, <1>4, <1>5, <1>6, <1>7, <1>8, <1>9, <1>10, <1>11, <1>12, <1>13, <1>14,
     <1>15, <1>16, <1>17, <1>18, <1>19, <1>20, <1>21, <1>22, <1>23, <1>24, <1>25, SMTT(60)
     DEF ExchangeMoves

\* So does one that disables, enables or restarts EAP.
LEMMA EapKeeps ==
  ASSUME NEW x \in EapolState, Sound(x), NEW y, EapMoves(x, y), EapTurn(x)
  PROVE  Sound(y) /\ EapTurn(y)
<1> USE Fielded, FieldTypes
<1>1. ASSUME ~x.portEnabled /\ y = [x EXCEPT !.eap = "DISABLED"] PROVE Sound(y) /\ EapTurn(y)
  BY SMTT(60), <1>1 DEF Sound, Counted, Restarts, Early, EapDone, Exchanges, Replied,
     Verdicts, Ports, Backends, Passing, Sends, Steady, PaeSteady, ResponseLate, EapTurn,
     AsksIdentity, Aged, Ages
<1>2. ASSUME x.portEnabled /\ x.eapRestart /\ y = EapInitialize(x) PROVE Sound(y) /\ EapTurn(y)
  BY SMTT(60), <1>2 DEF EapInitialize, Sound, Counted, Restarts, Early, EapDone, Exchanges,
     Replied, Verdicts, Ports, Backends, Passing, Sends, Steady, PaeSteady, ResponseLate,
     EapTurn, AsksIdentity, Aged, Ages
<1>3. ASSUME x.portEnabled /\ ~x.eapRestart /\ x.eap = "DISABLED"
                 /\ y = EapInitialize(x) PROVE Sound(y) /\ EapTurn(y)
  BY SMTT(60), <1>3 DEF EapInitialize, Sound, Counted, Restarts, Early, EapDone, Exchanges,
     Replied, Verdicts, Ports, Backends, Passing, Sends, Steady, PaeSteady, ResponseLate,
     EapTurn, AsksIdentity, Aged, Ages
<1> QED BY <1>1, <1>2, <1>3, ExchangeKeeps DEF EapMoves

\* REAUTHENTICATE of REAUTH_TIMER assigns these two fields.
LEMMA ReauthAssigns ==
  ASSUME NEW x, DOMAIN x = Fields, NEW v, NEW w
  PROVE  \A f \in Fields \ {"reauth", "reAuthenticate"} :
           [x EXCEPT !.reauth = v, !.reAuthenticate = w][f] = x[f]
  OBVIOUS

\* And one of REAUTH_TIMER.
LEMMA ReauthKeeps ==
  ASSUME NEW x \in EapolState, Sound(x), NEW y, ReauthMoves(x, y)
  PROVE  Sound(y) /\ y.authAbort = x.authAbort
<1>1. ASSUME y = [x EXCEPT !.reauth = "INITIALIZE", !.timers = Start(x, "reAuthWhen")]
      PROVE  Sound(y) /\ y.authAbort = x.authAbort
  BY SMTT(60), <1>1, Fielded, FieldTypes DEF Start, Sound, Counted, Restarts, Early, EapDone,
     Exchanges, Replied, Verdicts, Ports, Backends, Passing, Sends, Steady, PaeSteady,
     ResponseLate
<1>2. ASSUME x.authPortStatus, "reAuthWhen" \notin x.timers,
             y = WpaReauth([x EXCEPT !.reauth = "REAUTHENTICATE", !.reAuthenticate = TRUE])
      PROVE  Sound(y) /\ y.authAbort = x.authAbort
  <2> DEFINE z == [x EXCEPT !.reauth = "REAUTHENTICATE", !.reAuthenticate = TRUE]
  <2>2. z \in EapolState BY Fielded, FieldTypes, SetField, TypedState
  <2>3. WpaEffect(z, y) BY <1>2, <2>2, WpaReauthEffect
  <2>1. x.aaaEapResp = "no" BY <1>2 DEF Sound, Sends, Steady
  <2>4. \A f \in Fields \ {"reauth", "reAuthenticate"} : z[f] = x[f]
    BY Fielded, ReauthAssigns
  <2> HIDE DEF z
  <2>5. /\ \A f \in Fields \ (WpaFields \cup {"reauth", "reAuthenticate"}) : y[f] = x[f]
        /\ \/ y.portEnabled = x.portEnabled /\ y.assoc = x.assoc /\ y.authorized = x.authorized
           \/ ~y.portEnabled /\ ~y.assoc /\ ~y.authorized
    <3>1. z.portEnabled = x.portEnabled /\ z.assoc = x.assoc /\ z.authorized = x.authorized
      BY <2>4, FieldTypes
    <3>2. \A f \in Fields \ (WpaFields \cup {"reauth", "reAuthenticate"}) : y[f] = x[f]
      BY <2>3, <2>4 DEF WpaEffect
    <3> QED BY <2>3, <3>1, <3>2 DEF WpaEffect
  <2> QED
    BY SMTT(60), <2>1, <2>5, Fielded, FieldTypes DEF WpaFields, Sound, Counted, Restarts,
       Early, EapDone, Exchanges, Replied, Verdicts, Ports, Backends, Passing, Sends
<1> QED BY <1>1, <1>2 DEF ReauthMoves

-----------------------------------------------------------------------------
(* One round of the loop: the machines, each once. *)

\* A sound state between the rounds of the loop.
Good(x) == x \in EapolState /\ Sound(x) /\ ~x.authAbort /\ x.settled

\* What a step of each machine leaves alone.
LEMMA PaeFrame ==
  ASSUME NEW x \in EapolState
  PROVE  /\ \A f \in {"be", "reauth", "settled", "portEnabled", "assoc"} : PaeStep[x][f] = x[f]
         /\ PaeStep[x].pae = x.pae =>
               \/ ~x.portEnabled /\ x.pae = "INITIALIZE" /\ PaeStep[x] = PaeInitialize(x)
               \/ PaeStep[x] = x /\ PaeWaits(x)
<1> DEFINE Frame(y, state) ==
              /\ y.pae = state
              /\ \A f \in {"be", "reauth", "settled", "portEnabled", "assoc"} : y[f] = x[f]
<1> USE Fielded, FieldTypes
<1>1. Frame(PaeInitialize(x), "INITIALIZE") BY DEF PaeInitialize
<1>2. Frame(PaeDisconnected(x), "DISCONNECTED") BY DEF PaeDisconnected, Finished
<1>3. Frame(PaeRestart(x), "RESTART") BY DEF PaeRestart
<1>4. Frame(PaeConnecting(x), "CONNECTING") BY DEF PaeConnecting
<1>5. Frame(PaeHeld(x), "HELD") BY DEF PaeHeld, Finished, Start
<1>6. Frame(PaeAuthenticated(x), "AUTHENTICATED") BY DEF PaeAuthenticated
<1>7. Frame(PaeAuthenticating(x), "AUTHENTICATING") BY DEF PaeAuthenticating
<1>8. Frame(PaeAborting(x), "ABORTING") BY DEF PaeAborting
<1>9. PaeMoves(x, PaeStep[x]) \/ (PaeStep[x] = x /\ PaeWaits(x)) BY PaeCases
<1> QED BY <1>1, <1>2, <1>3, <1>4, <1>5, <1>6, <1>7, <1>8, <1>9 DEF PaeMoves

\* The same for BE_AUTH, which ends with no abort pending and no answer overdue.
LEMMA BeFrame ==
  ASSUME NEW x \in EapolState
  PROVE  /\ \A f \in {"pae", "reauth", "settled"} : BeStep[x][f] = x[f]
         /\ ~BeStep[x].authAbort /\ ~ResponseLate(BeStep[x]) /\ (BeStep[x].assoc => x.assoc)
         /\ BeStep[x].be = x.be /\ ~x.authAbort =>
               \/ x.be = "REQUEST" /\ BeStep[x] = BeRequest(x)
               \/ BeStep[x] = x /\ BeWaits(x)
<1> DEFINE Frame(y) == /\ \A f \in {"pae", "reauth", "settled"} : y[f] = x[f]
                       /\ y.assoc => x.assoc
           Enters(y, state) == y.be = state /\ y.authAbort = x.authAbort
<1> USE Fielded, FieldTypes
<1>1. Frame(BeRequest(x)) /\ Enters(BeRequest(x), "REQUEST") BY DEF BeRequest
<1>2. Frame(BeResponse(x)) /\ Enters(BeResponse(x), "RESPONSE") BY DEF BeResponse, Start
<1>3. Frame(BeSuccess(x)) /\ Enters(BeSuccess(x), "SUCCESS") BY DEF BeSuccess
<1>4. Frame(BeFail(x)) /\ Enters(BeFail(x), "FAIL") BY DEF BeFail
<1>5. Frame(BeTimeout(x)) /\ Enters(BeTimeout(x), "TIMEOUT") BY DEF BeTimeout
<1>6. Frame(BeIdle(x)) /\ Enters(BeIdle(x), "IDLE") BY DEF BeIdle
<1>7. Frame(BeIgnore(x)) /\ Enters(BeIgnore(x), "IGNORE") BY DEF BeIgnore
<1>8. "aWhile" \in BeResponse(x).timers BY DEF BeResponse, Start
<1>9. Frame(BeInitialize(x)) /\ BeInitialize(x).be = "INITIALIZE" /\ ~BeInitialize(x).authAbort
  BY DEF BeInitialize, abortAuth, ap_sta_disconnect, eapol_auth_step
<1>10. LET z == BeIgnore(x)
       IN /\ Frame(BeRequest(z)) /\ Frame(BeTimeout(z)) /\ Frame(BeFail(z)) /\ Frame(BeSuccess(z))
          /\ Enters(BeRequest(z), "REQUEST") /\ Enters(BeTimeout(z), "TIMEOUT")
          /\ Enters(BeFail(z), "FAIL") /\ Enters(BeSuccess(z), "SUCCESS")
  BY DEF BeIgnore, BeRequest, BeTimeout, BeFail, BeSuccess
<1>11. BeMoves(x, BeStep[x]) \/ (BeStep[x] = x /\ BeWaits(x)) BY BeCases
<1> HIDE Fielded, FieldTypes
<1> QED BY SMTT(30), <1>1, <1>2, <1>3, <1>4, <1>5, <1>6, <1>7, <1>8, <1>9, <1>10, <1>11
        DEF BeMoves, BeWaits, ResponseLate, Passing

\* The same for REAUTH_TIMER.
LEMMA ReauthFrame ==
  ASSUME NEW x \in EapolState
  PROVE  LET y == ReauthStep[x]
         IN /\ \A f \in {"pae", "be", "settled", "authAbort"} : y[f] = x[f]
            /\ x.timers \subseteq y.timers /\ (y.assoc => x.assoc)
            /\ y.reauth = x.reauth =>
                  /\ x.reauth = "INITIALIZE" /\ "reAuthWhen" \in y.timers
                  /\ \A f \in Fields \ {"timers"} : y[f] = x[f]
<1> DEFINE y == ReauthStep[x]
           Frame == (\A f \in {"pae", "be", "settled", "authAbort"} : y[f] = x[f])
                    /\ x.timers \subseteq y.timers /\ (y.assoc => x.assoc)
           Still == y.reauth = x.reauth =>
                    /\ x.reauth = "INITIALIZE" /\ "reAuthWhen" \in y.timers
                    /\ \A f \in Fields \ {"timers"} : y[f] = x[f]
<1>1. ReauthMoves(x, y) \/ (y = x /\ ReauthWaits(x)) BY ReauthCases
<1>2. ASSUME y = [x EXCEPT !.reauth = "INITIALIZE", !.timers = Start(x, "reAuthWhen")]
      PROVE  Frame /\ Still
  <2> HIDE DEF y
  <2>1. y.reauth = "INITIALIZE" /\ y.timers = x.timers \cup {"reAuthWhen"}
    BY <1>2, Fielded, FieldTypes DEF Start
  <2>2. \A f \in Fields \ {"reauth", "timers"} : y[f] = x[f]
    BY <1>2, Fielded
  <2> QED BY <2>1, <2>2, FieldTypes
<1>3. ASSUME x.reauth = "INITIALIZE",
             y = WpaReauth([x EXCEPT !.reauth = "REAUTHENTICATE", !.reAuthenticate = TRUE])
      PROVE  Frame /\ Still
  <2> DEFINE z == [x EXCEPT !.reauth = "REAUTHENTICATE", !.reAuthenticate = TRUE]
  <2>1. z \in EapolState BY Fielded, SetField, FieldTypes, TypedState
  <2>2. WpaEffect(z, y) BY <1>3, <2>1, WpaReauthEffect
  <2>3. z.reauth = "REAUTHENTICATE" BY Fielded, FieldTypes
  <2>5. \A f \in Fields \ {"reauth", "reAuthenticate"} : z[f] = x[f] BY Fielded
  <2> HIDE DEF z, y
  <2>4. y.reauth = "REAUTHENTICATE" /\ y.timers = x.timers /\ (y.assoc => x.assoc)
        /\ \A f \in {"pae", "be", "settled", "authAbort"} : y[f] = x[f]
    BY <2>2, <2>3, <2>5, FieldTypes DEF WpaEffect, WpaFields
  <2> QED BY <1>3, <2>4
<1>4. ASSUME y = x, ReauthWaits(x) PROVE Frame /\ Still
  <2> HIDE DEF y
  <2> QED BY <1>4 DEF ReauthWaits
<1> QED BY <1>1, <1>2, <1>3, <1>4 DEF ReauthMoves

\* A round keeps the state good, and lowers its rank if a machine moved.  It may
\* disconnect the station, but never associates it.
LEMMA RoundKeeps ==
  ASSUME NEW x, Good(x)
  PROVE  LET y == MachinesStep[x]
         IN /\ Good(y) /\ Rank(y) <= Rank(x) /\ (y.assoc => x.assoc)
            /\ Moved(x, y) => Rank(y) < Rank(x)
<1> DEFINE a == PaeStep[x]
           b == BeStep[a]
           y == ReauthStep[b]
<1>1. x \in EapolState /\ Sound(x) /\ ~x.authAbort /\ x.settled BY DEF Good
<1>2. a \in EapolState BY <1>1, PaeTyped
<1>3. b \in EapolState BY <1>2, BeTyped
<1>4. y \in EapolState BY <1>3, ReauthTyped
<1>5. MachinesStep[x] = y BY <1>1 DEF MachinesStep
<1>6. PaeMoves(x, a) \/ (a = x /\ PaeWaits(x)) BY <1>1, PaeCases
<1>7. BeMoves(a, b) \/ b = a BY <1>2, BeCases
<1>8. ReauthMoves(b, y) \/ y = b BY <1>3, ReauthCases
<1>9. a.be = x.be /\ a.reauth = x.reauth /\ a.settled = x.settled /\ a.assoc = x.assoc
  BY <1>1, PaeFrame
<1>10. /\ b.pae = a.pae /\ b.reauth = a.reauth /\ b.settled = a.settled /\ ~b.authAbort
       /\ b.assoc => a.assoc
  BY <1>2, BeFrame
<1>11. /\ y.pae = b.pae /\ y.be = b.be /\ y.settled = b.settled /\ y.authAbort = b.authAbort
       /\ y.assoc => b.assoc
  BY <1>3, ReauthFrame
<1>12. PaeStepped(a)
  <2>1. CASE PaeMoves(x, a)
    <3> USE Fielded, FieldTypes
    <3>1. PaeInitialize(x).pae = "INITIALIZE" BY <1>1 DEF PaeInitialize
    <3>2. PaeDisconnected(x).pae = "DISCONNECTED" BY <1>1 DEF PaeDisconnected, Finished
    <3>3. PaeHeld(x).pae = "HELD" BY <1>1 DEF PaeHeld, Finished
    <3>4. /\ PaeAuthenticated(x).pae = "AUTHENTICATED"
          /\ PaeAuthenticating(x).pae = "AUTHENTICATING"
          /\ PaeAborting(x).pae = "ABORTING"
      BY <1>1 DEF PaeAuthenticated, PaeAuthenticating, PaeAborting
    <3>5. PaeRestart(x).pae = "RESTART" /\ PaeRestart(x).eapRestart
      BY <1>1 DEF PaeRestart
    <3>6. x.pae = "RESTART" /\ ~x.eapRestart => PaeStepped(PaeConnecting(x))
      BY <1>1 DEF PaeConnecting, PaeStepped, Sound, Restarts, EapDone
    <3> HIDE Fielded, FieldTypes
    <3> HIDE DEF a
    <3> QED BY <2>1, <3>1, <3>2, <3>3, <3>4, <3>5, <3>6 DEF PaeMoves, PaeStepped
  <2>2. CASE a = x /\ PaeWaits(x)
    BY <2>2 DEF PaeWaits, PaeStepped
  <2> QED BY <1>6, <2>1, <2>2
<1> HIDE DEF a, b, y
<1>13. Rank(x) \in Nat /\ Rank(a) \in Nat /\ Rank(b) \in Nat /\ Rank(y) \in Nat
  BY <1>1, <1>2, <1>3, <1>4, RankRange
<1>14. Rank(a) <= Rank(x) /\ (a.pae # x.pae => Rank(a) < Rank(x))
  BY <1>1, <1>6, <1>13, PaeSinks
<1>15. Rank(b) <= Rank(a) /\ (b.be # a.be => Rank(b) < Rank(a))
  BY <1>2, <1>7, <1>13, BeSinks
<1>16. Rank(y) <= Rank(b) /\ (y.reauth # b.reauth => Rank(y) < Rank(b))
  BY <1>3, <1>8, <1>13, ReauthSinks
<1>17. Sound(a) BY <1>1, <1>6, PaeKeeps
<1>18. Sound(b) BY <1>2, <1>7, <1>12, <1>17, BeKeeps
<1>19. Sound(y) BY <1>3, <1>8, <1>18, ReauthKeeps
<1>20. Good(y) BY <1>1, <1>4, <1>9, <1>10, <1>11, <1>19 DEF Good
<1>21. Moved(x, y) => a.pae # x.pae \/ b.be # a.be \/ y.reauth # b.reauth
  BY <1>9, <1>10, <1>11 DEF Moved
<1>22. Rank(y) <= Rank(x) /\ (Moved(x, y) => Rank(y) < Rank(x))
  BY <1>13, <1>14, <1>15, <1>16, <1>21
<1> QED BY <1>5, <1>9, <1>10, <1>11, <1>20, <1>22

\* What the machines leave when none of them moved.
AtRest(x) ==
    /\ EapTurn(x)
    /\ ~x.portEnabled => ~x.keyRun
    /\ x.pae = "CONNECTING" => ~x.eapFail
    /\ x.be = "RESPONSE" => ~x.eapFail
    /\ x.be = "IDLE" /\ x.authStart => ~x.eapFail

\* A round in which no machine moves leaves the machines at rest.
LEMMA RoundRests ==
  ASSUME NEW x, Good(x), ~Moved(x, MachinesStep[x])
  PROVE  AtRest(MachinesStep[x])
<1> DEFINE a == PaeStep[x]
           b == BeStep[a]
           y == ReauthStep[b]
<1>1. x \in EapolState /\ Sound(x) /\ ~x.authAbort BY DEF Good
<1>2. a \in EapolState BY <1>1, PaeTyped
<1>3. b \in EapolState BY <1>2, BeTyped
<1>4. y \in EapolState BY <1>3, ReauthTyped
<1>5. MachinesStep[x] = y BY <1>1 DEF MachinesStep
<1>6. /\ a.be = x.be /\ a.reauth = x.reauth
      /\ a.pae = x.pae => \/ ~x.portEnabled /\ x.pae = "INITIALIZE" /\ a = PaeInitialize(x)
                          \/ a = x /\ PaeWaits(x)
  BY <1>1, PaeFrame
<1>7. /\ b.pae = a.pae /\ b.reauth = a.reauth /\ ~ResponseLate(b) /\ ~b.authAbort
      /\ b.be = a.be /\ ~a.authAbort => \/ a.be = "REQUEST" /\ b = BeRequest(a)
                                        \/ b = a /\ BeWaits(a)
  BY <1>2, BeFrame
<1>8. /\ y.pae = b.pae /\ y.be = b.be /\ b.timers \subseteq y.timers
      /\ y.reauth = b.reauth =>
            /\ b.reauth = "INITIALIZE" /\ "reAuthWhen" \in y.timers
            /\ \A f \in Fields \ {"timers"} : y[f] = b[f]
  BY <1>3, ReauthFrame
<1>9. a.pae = x.pae /\ b.be = a.be /\ y.reauth = b.reauth
  BY <1>5, <1>6, <1>7, <1>8 DEF Moved
<1> HIDE DEF a, b, y
<1>10. /\ ~PaeInitialize(x).keyRun
       /\ PaeInitialize(x).portEnabled = x.portEnabled
       /\ PaeInitialize(x).authAbort = x.authAbort
       /\ PaeInitialize(x).pae = "INITIALIZE"
  BY <1>1, Fielded, FieldTypes DEF PaeInitialize
<1>11. /\ ~a.authAbort
       /\ \/ ~a.portEnabled /\ a.pae = "INITIALIZE" /\ ~a.keyRun
          \/ PaeWaits(a)
  BY <1>1, <1>6, <1>9, <1>10
<1>12. \/ a.be = "REQUEST" /\ \A f \in Fields \ {"eapReq", "eapolEap"} : b[f] = a[f]
       \/ b = a /\ BeWaits(a)
  <2>1. a.be = "REQUEST" => \A f \in Fields \ {"be", "eapReq", "eapolEap"} : BeRequest(a)[f] = a[f]
    BY <1>2, Fielded DEF BeRequest
  <2>2. a.be = "REQUEST" => BeRequest(a).be = a.be
    BY <1>2, Fielded, FieldTypes DEF BeRequest
  <2> QED BY <1>7, <1>9, <1>11, <2>1, <2>2
<1>13. /\ \A f \in Fields \ {"eapReq", "eapolEap", "timers"} : y[f] = a[f]
       /\ a.timers \subseteq y.timers
  <2>1. \A f \in Fields \ {"eapReq", "eapolEap"} : b[f] = a[f] BY <1>12
  <2> QED BY <1>8, <1>9, <2>1, FieldTypes
<1>14. y.be = a.be /\ y.be \notin Passing
  BY <1>8, <1>9, <1>12 DEF BeWaits, Passing
<1>15. ~ResponseLate(y)
  BY <1>7, <1>8 DEF ResponseLate
<1>16. /\ y.be = "RESPONSE" => ~y.eapFail
       /\ y.be = "IDLE" /\ y.authStart => ~y.eapFail
  BY <1>12, <1>13, <1>14, FieldTypes DEF BeWaits
<1>17. y.reauth = "INITIALIZE" /\ "reAuthWhen" \in y.timers
  BY <1>8, <1>9
<1>18. CASE ~a.portEnabled /\ a.pae = "INITIALIZE" /\ ~a.keyRun
  <2>1. ~y.portEnabled /\ y.pae = "INITIALIZE" /\ ~y.keyRun /\ ~y.authAbort
    BY <1>11, <1>13, <1>18, FieldTypes
  <2> QED BY <1>5, <1>14, <1>15, <1>16, <2>1 DEF AtRest, EapTurn
<1>19. CASE PaeWaits(a)
  <2>1. y.portEnabled /\ ~y.authAbort
    BY <1>11, <1>13, <1>19, FieldTypes DEF PaeWaits
  <2>2. Steady(y) BY <1>15, <1>17, <2>1 DEF Steady
  <2>3. PaeSteady(y) \/ (y.pae = "RESTART" /\ AsksIdentity(y))
    BY <1>11, <1>13, <1>19, FieldTypes DEF PaeWaits, PaeSteady, AsksIdentity
  <2>4. y.pae = "CONNECTING" => ~y.eapFail
    BY <1>13, <1>19, FieldTypes DEF PaeWaits
  <2> QED BY <1>5, <1>14, <1>15, <1>16, <2>1, <2>2, <2>3, <2>4 DEF AtRest, EapTurn
<1> QED BY <1>11, <1>18, <1>19

\* What one call of the loop leaves behind: a rejected station has no authorized port,
\* unless the backend waits for the station, and one that is gone no key to run.
Rested(x) ==
    /\ x.answer = "reject" /\ x.be \notin {"REQUEST", "IGNORE"} => ~x.authorized
    /\ ~x.assoc => ~x.keyRun

\* Machines at rest, EAP included, keep the promises of Rested.
LEMMA RestKeepsPromises ==
  ASSUME NEW x, Good(x), AtRest(x), EapStep(x).eap = x.eap
  PROVE  Rested(x)
<1>1. x \in EapolState /\ Sound(x) BY DEF Good
<1>2. ~x.assoc => ~x.keyRun BY <1>1 DEF Sound, Ports, AtRest
<1>3. ASSUME x.answer = "reject", x.be \notin {"REQUEST", "IGNORE"}, x.authorized PROVE FALSE
  <2>1. x.portEnabled /\ x.pae \notin {"HELD", "DISCONNECTED", "INITIALIZE"}
    BY <1>1, <1>3 DEF Sound, Ports
  <2>2. x.eap \in {"AAA_IDLE", "SUCCESS2", "FAILURE2", "DISABLED"}
    BY <1>1, <1>3 DEF Sound, Exchanges
  <2>3. ~x.eapRestart /\ x.eap # "DISABLED"
    <3>1. EapInitialize(x).eap = "INITIALIZE"
      BY <1>1, Fielded, FieldTypes DEF EapInitialize
    <3>2. ASSUME x.eapRestart \/ x.eap = "DISABLED" PROVE FALSE
      <4>1. EapStep(x) = EapInitialize(x) BY <2>1, <3>2 DEF EapStep
      <4> QED BY <2>2, <3>1, <4>1
    <3> QED BY <3>2
  <2>4. x.pae \in {"CONNECTING", "AUTHENTICATED", "AUTHENTICATING"}
    BY <2>1, <2>2, <2>3, <1>1 DEF AtRest, EapTurn, PaeSteady, AsksIdentity
  <2>5. ~Early(x) BY <2>4 DEF Early
  <2>6. x.eap # "AAA_IDLE"
    <3>1. ASSUME x.eap = "AAA_IDLE" PROVE FALSE
      <4>1. x.aaaFail BY <1>1, <1>3, <3>1 DEF Sound, Exchanges
      <4>2. EapStep(x) = [x EXCEPT !.eap = "FAILURE2", !.eapFail = TRUE]
        BY <2>1, <2>3, <3>1, <4>1 DEF EapStep
      <4>3. EapStep(x).eap = "FAILURE2" BY <1>1, <4>2, Fielded, FieldTypes
      <4> QED BY <3>1, <4>3
    <3> QED BY <3>1
  <2>7. x.eapFail
    BY <1>1, <1>3, <2>2, <2>3, <2>5, <2>6 DEF Sound, Exchanges, Verdicts
  <2>8. x.pae = "AUTHENTICATING"
    BY <1>1, <1>3, <2>4, <2>7 DEF Sound, Verdicts, AtRest
  <2>9. x.be = "IDLE" /\ ~x.authStart
    <3>1. x.be \in BeStates BY <1>1 DEF EapolState
    <3> QED BY <1>3, <2>7, <3>1 DEF AtRest, EapTurn, Passing, BeStates
  <2>10. x.authFail \/ x.authTimeout
    BY <1>1, <1>3, <2>8, <2>9 DEF Sound, Backends, Verdicts
  <2> QED BY <2>8, <2>10, <2>1 DEF AtRest, EapTurn, PaeSteady, AsksIdentity
<1> QED BY <1>2, <1>3 DEF Rested

-----------------------------------------------------------------------------
(* The loops. *)

\* EAP takes no transition.
EapRests(x) == EapStep(x).eap = x.eap

\* The states where it takes none.
EapResting == {x \in EapolState : EapRests(x)}

\* The loop gives up.
Unsettled(x) == [x EXCEPT !.settled = FALSE]

\* It is a state still.
LEMMA UnsettledTyped ==
  ASSUME NEW x \in EapolState
  PROVE  WellTyped(Unsettled(x)) /\ Unsettled(x).steps = x.steps
<1>1. WellTyped(x) /\ DOMAIN x = Fields BY Fielded
<1>2. "settled" \in Fields /\ FieldType["settled"] = BOOLEAN /\ "steps" \in Fields BY FieldTypes
<1> QED BY <1>1, <1>2, SetField DEF Unsettled

\* The result of a loop that ends where it is.
Same == [x \in EapolState |-> x]

\* What is left when the loop of EAP has no steps left.
EapEnd == [x \in EapolState |-> IF x \in EapResting THEN x ELSE Unsettled(x)]

\* One step of EAP.
EapRound == [x \in EapolState |-> EapStep(x)]

\* The rank as a function.
Ranks == [x \in EapolState |-> Rank(x)]

\* eap_server_sm_step() is a loop over the steps of EAP.
LEMMA EapLoop ==
  /\ eap_server_sm_step \in [EapolState \X (0 .. MaxSteps) -> EapolState]
  /\ IsLoop(eap_server_sm_step, EapolState, MaxSteps, EapResting, Same, EapEnd, EapRound)
<1> DEFINE X == EapolState
           D == X \X (0 .. MaxSteps)
           Body(f, x, n) == IF EapRests(x) THEN x
                            ELSE IF n = 0 THEN Unsettled(x) ELSE f[<<EapStep(x), n - 1>>]
           G(f) == f = [p \in D |->
                          LET x == p[1]
                              n == p[2]
                              y == EapStep(x)
                          IN CASE y.eap = x.eap -> x
                               [] n = 0 /\ y.eap # x.eap -> [x EXCEPT !.settled = FALSE]
                               [] OTHER -> f[<<y, n - 1>>]]
           F == eap_server_sm_step
<1>1. MaxSteps \in Nat BY DEF MaxSteps
<1>2. ASSUME NEW x \in X PROVE Unsettled(x) \in X
  BY Fielded, SetField, FieldTypes, TypedState DEF Unsettled
<1>3. Same \in [X -> X] /\ EapEnd \in [X -> X] /\ EapRound \in [X -> X]
  BY <1>2, EapTyped DEF Same, EapEnd, EapRound
<1>4. PICK h \in [D -> X] : IsLoop(h, X, MaxSteps, EapResting, Same, EapEnd, EapRound)
  BY <1>1, <1>3, LoopExists
<1>5. ASSUME NEW f
      PROVE  IsLoop(f, X, MaxSteps, EapResting, Same, EapEnd, EapRound)
                <=> \A x \in X : \A n \in 0 .. MaxSteps : f[<<x, n>>] = Body(f, x, n)
  <2>1. ASSUME NEW x \in X
        PROVE  /\ Same[x] = x /\ EapRound[x] = EapStep(x)
               /\ (x \in EapResting) <=> EapRests(x)
               /\ EapEnd[x] = IF EapRests(x) THEN x ELSE Unsettled(x)
    BY DEF Same, EapRound, EapEnd, EapResting
  <2> DEFINE Eq(x, n) == f[<<x, n>>] = Body(f, x, n)
             First(x) == f[<<x, 0>>] = EapEnd[x]
             Later(x, n) == f[<<x, n>>] = IF x \in EapResting THEN Same[x]
                                          ELSE f[<<EapRound[x], n - 1>>]
  <2>2. ASSUME NEW x \in X PROVE First(x) <=> Eq(x, 0) BY <2>1
  <2>3. ASSUME NEW x \in X, NEW n \in 1 .. MaxSteps PROVE Later(x, n) <=> Eq(x, n)
    <3>1. n # 0 BY <1>1
    <3> QED BY <2>1, <3>1
  <2>4. IsLoop(f, X, MaxSteps, EapResting, Same, EapEnd, EapRound)
           <=> \A x \in X : First(x) /\ \A n \in 1 .. MaxSteps : Later(x, n)
    BY DEF IsLoop
  <2>5. /\ 0 \in 0 .. MaxSteps /\ \A n \in 1 .. MaxSteps : n \in 0 .. MaxSteps
        /\ \A n \in 0 .. MaxSteps : n = 0 \/ n \in 1 .. MaxSteps
    BY <1>1
  <2>6. (\A x \in X : \A n \in 0 .. MaxSteps : f[<<x, n>>] = Body(f, x, n))
           <=> \A x \in X : \A n \in 0 .. MaxSteps : Eq(x, n)
    OBVIOUS
  <2> HIDE DEF X, Body, Eq, First, Later
  <2> QED BY <2>2, <2>3, <2>4, <2>5, <2>6
<1>6. G(h)
  <2>1. \A x \in X : \A n \in 0 .. MaxSteps : h[<<x, n>>] = Body(h, x, n)
    BY <1>4, <1>5
  <2>2. ASSUME NEW p \in D PROVE h[p] = Body(h, p[1], p[2])
    <3>1. p = <<p[1], p[2]>> /\ p[1] \in X /\ p[2] \in 0 .. MaxSteps OBVIOUS
    <3> QED BY <2>1, <3>1
  <2>3. h = [p \in D |-> Body(h, p[1], p[2])] BY <1>4, <2>2
  <2> QED BY <2>3 DEF EapRests, Unsettled
<1>7. G(F)
  <2>1. F = CHOOSE f : G(f) BY Zenon DEF eap_server_sm_step
  <2> HIDE DEF G, F
  <2> QED BY <1>6, <2>1, Zenon
<1>8. F = [p \in D |-> Body(F, p[1], p[2])]
  BY <1>7 DEF EapRests, Unsettled
<1> HIDE DEF F
<1>9. \A x \in X : \A n \in 0 .. MaxSteps : F[<<x, n>>] = Body(F, x, n)
  <2> HIDE DEF Body
  <2>1. ASSUME NEW x \in X, NEW n \in 0 .. MaxSteps PROVE F[<<x, n>>] = Body(F, x, n)
    <3>1. <<x, n>> \in D /\ <<x, n>>[1] = x /\ <<x, n>>[2] = n OBVIOUS
    <3> QED BY <1>8, <3>1
  <2> QED BY <2>1
<1>10. IsLoop(F, X, MaxSteps, EapResting, Same, EapEnd, EapRound)
  BY <1>5, <1>9
<1>11. \A x \in X : \A n \in 0 .. MaxSteps : F[<<x, n>>] \in X
  BY <1>1, <1>3, <1>10, LoopStays
<1>12. F \in [D -> X]
  <2> HIDE DEF Body
  <2>1. ASSUME NEW p \in D PROVE F[p] \in X
    <3>1. p = <<p[1], p[2]>> /\ p[1] \in X /\ p[2] \in 0 .. MaxSteps OBVIOUS
    <3> QED BY <1>11, <3>1
  <2> QED BY <1>8, <2>1
<1> QED BY <1>10, <1>12 DEF F

\* EAP touches neither settled nor the association.
LEMMA EapFrame ==
  ASSUME NEW x \in EapolState
  PROVE  EapStep(x).settled = x.settled /\ EapStep(x).assoc = x.assoc
<1> DEFINE Framed(y) == y.settled = x.settled /\ y.assoc = x.assoc
<1> USE Fielded, FieldTypes
<1>1. Framed(EapInitialize(x)) BY DEF EapInitialize
<1>2. Framed(EapSelectAction(x)) BY DEF EapSelectAction
<1>3. \A s \in EapStates : Framed([x EXCEPT !.eap = s]) OBVIOUS
<1>4. /\ Framed(NewRequestId(x, "METHOD_REQUEST")) /\ Framed(NewRequestId(x, "AAA_RESPONSE"))
      /\ Framed(EapSendRequest(x, "SEND_REQUEST")) /\ Framed(EapSendRequest(x, "SEND_REQUEST2"))
  BY DEF NewRequestId, EapSendRequest
<1>5. /\ Framed(EapIdle(x, "IDLE")) /\ Framed(EapIdle(x, "IDLE2"))
      /\ Framed(EapRetransmit(x, "RETRANSMIT")) /\ Framed(EapRetransmit(x, "RETRANSMIT2"))
  BY DEF EapIdle, EapRetransmit
<1>6. /\ Framed(EapTimeout(x, "TIMEOUT_FAILURE")) /\ Framed(EapTimeout(x, "TIMEOUT_FAILURE2"))
      /\ Framed(EapDiscard(x, "DISCARD")) /\ Framed(EapDiscard(x, "DISCARD2"))
  BY DEF EapTimeout, EapDiscard
<1>7. Framed(AaaIdle(x, "empty")) /\ Framed(AaaIdle(x, "data")) /\ Framed(EapSuccess2(x))
  BY DEF AaaIdle, EapSuccess2
<1>8. Framed([x EXCEPT !.eap = "METHOD_RESPONSE", !.identity = TRUE])
      /\ Framed([x EXCEPT !.eap = "FAILURE2", !.eapFail = TRUE])
  OBVIOUS
<1> HIDE Fielded, FieldTypes
<1>9. \A s \in {"DISABLED", "SELECT_ACTION", "RECEIVED", "AAA_REQUEST", "RECEIVED2"} :
         Framed([x EXCEPT !.eap = s])
  BY <1>3 DEF EapStates
<1> QED BY SMTT(60), <1>1, <1>2, <1>4, <1>5, <1>6, <1>7, <1>8, <1>9 DEF EapStep

\* The loop of EAP ends, in a state of lower rank if it moved at all.
LEMMA EapEnds ==
  ASSUME NEW x, Good(x), EapTurn(x), ~EapRests(x)
  PROVE  LET y == eap_server_sm_step[<<x, MaxSteps>>]
         IN Good(y) /\ Rank(y) < Rank(x) /\ (y.assoc => x.assoc)
<1> DEFINE J == {z \in EapolState : /\ Good(z) /\ EapTurn(z) /\ Rank(z) <= Rank(x)
                                    /\ z.assoc => x.assoc
                                    /\ EapRests(z) => Rank(z) < Rank(x)}
           K == {z \in EapolState : Good(z) /\ Rank(z) < Rank(x) /\ (z.assoc => x.assoc)}
<1>1. IsLoop(eap_server_sm_step, EapolState, MaxSteps, EapResting, Same, EapEnd, EapRound)
  BY EapLoop
<1>2. x \in EapolState BY DEF Good
<1>3. \A z \in EapolState : Rank(z) \in Nat /\ Rank(z) <= 74 BY RankRange
<1>4. Ranks \in [EapolState -> Nat] /\ \A z \in EapolState : Ranks[z] = Rank(z)
  BY <1>3 DEF Ranks
<1>5. ASSUME NEW z \in J PROVE z \in EapResting => Same[z] \in K
  <2>1. z \in EapolState OBVIOUS
  <2>2. Same[z] = z BY <2>1 DEF Same
  <2> QED BY <2>2 DEF EapResting
<1>6. ASSUME NEW z \in J, z \notin EapResting
      PROVE  EapRound[z] \in J /\ Ranks[EapRound[z]] < Ranks[z]
  <2> DEFINE w == EapStep(z)
  <2>1. z \in EapolState /\ Good(z) /\ EapTurn(z) /\ Rank(z) <= Rank(x)
        /\ (z.assoc => x.assoc)
    OBVIOUS
  <2>2. EapRound[z] = w BY <2>1 DEF EapRound
  <2>3. w \in EapolState BY <2>1, EapTyped
  <2>4. w.eap # z.eap BY <1>6, <2>1 DEF EapResting, EapRests
  <2>5. EapMoves(z, w) BY <2>1, <2>4, EapCases
  <2>6. Sound(w) /\ EapTurn(w) BY <2>1, <2>5, EapKeeps DEF Good
  <2>7. ~ResponseLate(z) BY <2>1 DEF EapTurn
  <2>8. Rank(w) < Rank(z) BY <2>1, <2>4, <2>5, <2>7, EapSinks
  <2>9. w.settled = z.settled /\ w.assoc = z.assoc BY <2>1, EapFrame
  <2> HIDE DEF w
  <2>10. Good(w) BY <2>1, <2>3, <2>6, <2>9 DEF Good, EapTurn
  <2>11. Rank(w) < Rank(x) /\ Rank(w) <= Rank(x) BY <1>2, <1>3, <2>1, <2>3, <2>8
  <2> QED BY <1>4, <2>1, <2>2, <2>3, <2>6, <2>8, <2>9, <2>10, <2>11
<1>7. x \in J BY <1>2, <1>3
<1>8. J \subseteq EapolState OBVIOUS
<1>9. MaxSteps \in 0 .. MaxSteps /\ Ranks[x] < MaxSteps /\ MaxSteps \in Nat
  BY <1>2, <1>3, <1>4 DEF MaxSteps
<1>11. Descends(J, K, Ranks, EapolState, EapResting, Same, EapRound)
  BY <1>4, <1>5, <1>6, <1>8 DEF Descends
<1> HIDE DEF J, K
<1>10. \A z \in J : \A n \in 0 .. MaxSteps : Ranks[z] < n => eap_server_sm_step[<<z, n>>] \in K
  BY <1>1, <1>9, <1>11, LoopEnds
<1> QED BY <1>7, <1>9, <1>10 DEF K

\* One round of eapol_sm_step_run(): where it ends, and where it goes on.
RoundsResting ==
    {x \in EapolState : ~Moved(x, MachinesStep[x]) /\ EapRests(MachinesStep[x])}

\* What is left when eapol_sm_step_run() has no rounds left.
RoundsEnd == [x \in EapolState |-> eapol_auth_step(Unsettled(x))]

\* What the next round starts from.
NextRound ==
    [x \in EapolState |->
        IF Moved(x, MachinesStep[x]) THEN MachinesStep[x]
        ELSE eap_server_sm_step[<<MachinesStep[x], MaxSteps>>]]

\* The rounds of eapol_sm_step_run() are a loop.
LEMMA RoundsLoop ==
  IsLoop(StepRounds, EapolState, MaxSteps, RoundsResting, MachinesStep, RoundsEnd, NextRound)
<1> DEFINE X == EapolState
           D == X \X (0 .. MaxSteps)
           Y(x) == MachinesStep[x]
           Body(f, x, n) == IF n = 0 THEN RoundsEnd[x]
                            ELSE IF x \in RoundsResting THEN Y(x) ELSE f[<<NextRound[x], n - 1>>]
           G(f) == f = [p \in D |->
                          LET x == p[1]
                              n == p[2]
                              q == <<x, MachinesStep[x]>>
                          IN CASE n = 0 -> eapol_auth_step([x EXCEPT !.settled = FALSE])
                               [] n > 0 /\ RoundEnds[q] -> q[2]
                               [] OTHER -> f[<<RoundGoesOn[q], n - 1>>]]
           Case(f, x, n) == CASE n = 0 -> eapol_auth_step([x EXCEPT !.settled = FALSE])
                              [] n > 0 /\ RoundEnds[<<x, Y(x)>>] -> <<x, Y(x)>>[2]
                              [] OTHER -> f[<<RoundGoesOn[<<x, Y(x)>>], n - 1>>]
           F == StepRounds
<1>1. MaxSteps \in Nat BY DEF MaxSteps
<1>2. ASSUME NEW x \in X PROVE eapol_auth_step(Unsettled(x)) \in X
  <2>1. x.steps \cup {"eapol"} \in SUBSET {"eapol", "wpa"} BY DEF EapolState
  <2>2. WellTyped(Unsettled(x)) /\ Unsettled(x).steps = x.steps BY UnsettledTyped
  <2>3. WellTyped(eapol_auth_step(Unsettled(x)))
    BY <2>1, <2>2, SetField, FieldTypes DEF eapol_auth_step
  <2> QED BY <2>3, TypedState
<1>3. ASSUME NEW x \in X PROVE MachinesStep[x] \in X
  <2>1. PaeStep[x] \in X BY PaeTyped
  <2>2. BeStep[PaeStep[x]] \in X BY <2>1, BeTyped
  <2>3. ReauthStep[BeStep[PaeStep[x]]] \in X BY <2>2, ReauthTyped
  <2> QED BY <2>3 DEF MachinesStep
<1>4. MachinesStep \in [X -> X] BY <1>3 DEF MachinesStep
<1>5. ASSUME NEW x \in X PROVE eap_server_sm_step[<<x, MaxSteps>>] \in X
  <2>1. <<x, MaxSteps>> \in D BY <1>1
  <2> QED BY <2>1, EapLoop
<1>6. RoundsEnd \in [X -> X] /\ NextRound \in [X -> X]
  BY <1>2, <1>3, <1>5 DEF RoundsEnd, NextRound
<1>7. PICK h \in [D -> X] :
         IsLoop(h, X, MaxSteps, RoundsResting, MachinesStep, RoundsEnd, NextRound)
  BY <1>1, <1>4, <1>6, LoopExists
<1>8. ASSUME NEW f
      PROVE  IsLoop(f, X, MaxSteps, RoundsResting, MachinesStep, RoundsEnd, NextRound)
                <=> \A x \in X : \A n \in 0 .. MaxSteps : f[<<x, n>>] = Body(f, x, n)
  <2> DEFINE Eq(x, n) == f[<<x, n>>] = Body(f, x, n)
             First(x) == f[<<x, 0>>] = RoundsEnd[x]
             Later(x, n) == f[<<x, n>>] = IF x \in RoundsResting THEN MachinesStep[x]
                                          ELSE f[<<NextRound[x], n - 1>>]
  <2>1. ASSUME NEW x \in X PROVE First(x) <=> Eq(x, 0) OBVIOUS
  <2>2. ASSUME NEW x \in X, NEW n \in 1 .. MaxSteps PROVE Later(x, n) <=> Eq(x, n)
    <3>1. n # 0 BY <1>1
    <3> QED BY <3>1
  <2>3. IsLoop(f, X, MaxSteps, RoundsResting, MachinesStep, RoundsEnd, NextRound)
           <=> \A x \in X : First(x) /\ \A n \in 1 .. MaxSteps : Later(x, n)
    BY DEF IsLoop
  <2>4. /\ 0 \in 0 .. MaxSteps /\ \A n \in 1 .. MaxSteps : n \in 0 .. MaxSteps
        /\ \A n \in 0 .. MaxSteps : n = 0 \/ n \in 1 .. MaxSteps
    BY <1>1
  <2>5. (\A x \in X : \A n \in 0 .. MaxSteps : f[<<x, n>>] = Body(f, x, n))
           <=> \A x \in X : \A n \in 0 .. MaxSteps : Eq(x, n)
    OBVIOUS
  <2> HIDE DEF X, Body, Eq, First, Later
  <2> QED BY <2>1, <2>2, <2>3, <2>4, <2>5
<1>9. ASSUME NEW f, NEW x \in X, NEW n \in 0 .. MaxSteps
      PROVE  Case(f, x, n) = Body(f, x, n)
  <2>1. RoundsEnd[x] = eapol_auth_step([x EXCEPT !.settled = FALSE])
    BY DEF RoundsEnd, Unsettled
  <2>0. <<x, Y(x)>> \in X \X X /\ <<x, Y(x)>>[1] = x /\ <<x, Y(x)>>[2] = Y(x) BY <1>3
  <2>2. NextRound[x] = RoundGoesOn[<<x, Y(x)>>]
    BY <2>0 DEF NextRound, RoundGoesOn
  <2>3. (x \in RoundsResting) <=> RoundEnds[<<x, Y(x)>>]
    BY <2>0 DEF RoundsResting, EapRests, RoundEnds
  <2>4. n = 0 \/ (n # 0 /\ n > 0) BY <1>1
  <2> HIDE DEF X, Y
  <2>5. CASE n = 0 BY <2>1, <2>5
  <2>6. CASE n # 0 /\ n > 0 /\ x \notin RoundsResting BY <2>2, <2>3, <2>6
  <2>8. CASE n # 0 /\ n > 0 /\ x \in RoundsResting BY <2>0, <2>3, <2>8
  <2> QED BY <2>3, <2>4, <2>5, <2>6, <2>8
<1>10. ASSUME NEW f PROVE G(f) <=> f = [p \in D |-> Case(f, p[1], p[2])]
  OBVIOUS
<1>11. ASSUME NEW f
       PROVE  (f = [p \in D |-> Case(f, p[1], p[2])]) <=> (f = [p \in D |-> Body(f, p[1], p[2])])
  <2>1. ASSUME NEW p \in D PROVE p[1] \in X /\ p[2] \in 0 .. MaxSteps OBVIOUS
  <2> HIDE DEF D, X, Case, Body
  <2>2. ASSUME NEW p \in D PROVE Case(f, p[1], p[2]) = Body(f, p[1], p[2])
    <3>1. p[1] \in X /\ p[2] \in 0 .. MaxSteps BY <2>1
    <3> QED BY <1>9, <3>1
  <2> QED BY <2>2
<1>c. F = CHOOSE f : G(f) BY Zenon DEF StepRounds
<1> HIDE DEF G, Case
<1>12. G(h)
  <2>1. \A x \in X : \A n \in 0 .. MaxSteps : h[<<x, n>>] = Body(h, x, n)
    BY <1>7, <1>8
  <2>2. ASSUME NEW p \in D PROVE h[p] = Body(h, p[1], p[2])
    <3>1. p = <<p[1], p[2]>> /\ p[1] \in X /\ p[2] \in 0 .. MaxSteps OBVIOUS
    <3> QED BY <2>1, <3>1
  <2> HIDE DEF Body
  <2>3. h = [p \in D |-> Body(h, p[1], p[2])] BY <1>7, <2>2
  <2> QED BY <2>3, <1>10, <1>11
<1>13. G(F)
  <2> HIDE DEF F
  <2> QED BY <1>12, <1>c, Zenon
<1> HIDE DEF F, Body
<1>14. F = [p \in D |-> Body(F, p[1], p[2])] BY <1>10, <1>11, <1>13
<1>15. \A x \in X : \A n \in 0 .. MaxSteps : F[<<x, n>>] = Body(F, x, n)
  <2>1. ASSUME NEW x \in X, NEW n \in 0 .. MaxSteps PROVE F[<<x, n>>] = Body(F, x, n)
    <3>1. <<x, n>> \in D /\ <<x, n>>[1] = x /\ <<x, n>>[2] = n OBVIOUS
    <3> QED BY <1>14, <3>1
  <2> QED BY <2>1
<1> QED BY <1>8, <1>15 DEF F

\* The machines come to rest before the rounds are used up, and at rest.
LEMMA RoundsEnds ==
  ASSUME NEW x, Good(x)
  PROVE  LET y == StepRounds[<<x, MaxSteps>>]
         IN Good(y) /\ Rested(y) /\ (y.assoc => x.assoc)
<1> DEFINE J == {z \in EapolState : Good(z) /\ (z.assoc => x.assoc)}
           K == {z \in EapolState : Good(z) /\ Rested(z) /\ (z.assoc => x.assoc)}
<1>1. x \in J BY DEF Good
<1>2. \A z \in EapolState : Rank(z) \in Nat /\ Rank(z) <= 74 BY RankRange
<1>3. Ranks \in [EapolState -> Nat] /\ \A z \in EapolState : Ranks[z] = Rank(z)
  BY <1>2 DEF Ranks
<1>4. ASSUME NEW z \in J PROVE z \in RoundsResting => MachinesStep[z] \in K
  <2>1. Good(MachinesStep[z]) /\ (MachinesStep[z].assoc => z.assoc) BY RoundKeeps
  <2>2. ASSUME z \in RoundsResting PROVE Rested(MachinesStep[z])
    <3>1. ~Moved(z, MachinesStep[z]) /\ EapStep(MachinesStep[z]).eap = MachinesStep[z].eap
      BY <2>2 DEF RoundsResting, EapRests
    <3>2. AtRest(MachinesStep[z]) BY <3>1, RoundRests
    <3> QED BY <2>1, <3>1, <3>2, RestKeepsPromises
  <2> QED BY <2>1, <2>2 DEF Good
<1>5. ASSUME NEW z \in J, z \notin RoundsResting
      PROVE  NextRound[z] \in J /\ Ranks[NextRound[z]] < Ranks[z]
  <2> DEFINE y == MachinesStep[z]
             w == eap_server_sm_step[<<y, MaxSteps>>]
  <2>1. z \in EapolState /\ Good(z) /\ (z.assoc => x.assoc) OBVIOUS
  <2>2. /\ Good(y) /\ Rank(y) <= Rank(z) /\ (y.assoc => z.assoc)
        /\ Moved(z, y) => Rank(y) < Rank(z)
    BY <2>1, RoundKeeps
  <2>3. NextRound[z] = IF Moved(z, y) THEN y ELSE w BY <2>1 DEF NextRound
  <2>4. y \in EapolState BY <2>2 DEF Good
  <2>5. ASSUME ~Moved(z, y) PROVE Good(w) /\ Rank(w) < Rank(y) /\ (w.assoc => y.assoc)
    <3>1. AtRest(y) BY <2>1, <2>5, RoundRests
    <3>2. ~EapRests(y) BY <1>5, <2>1, <2>5 DEF RoundsResting
    <3>3. EapTurn(y) BY <3>1 DEF AtRest
    <3> QED BY <2>2, <3>2, <3>3, EapEnds
  <2> HIDE DEF y, w
  <2>6. CASE Moved(z, y) BY <1>3, <2>1, <2>2, <2>3, <2>4, <2>6
  <2>7. CASE ~Moved(z, y)
    <3>1. w \in EapolState BY <2>5, <2>7 DEF Good
    <3>2. Rank(w) < Rank(z) BY <1>2, <2>1, <2>2, <2>4, <2>5, <2>7, <3>1
    <3> QED BY <1>3, <2>1, <2>2, <2>3, <2>5, <2>7, <3>1, <3>2
  <2> QED BY <2>6, <2>7
<1>6. J \subseteq EapolState OBVIOUS
<1>7. MaxSteps \in 0 .. MaxSteps /\ Ranks[x] < MaxSteps /\ MaxSteps \in Nat
  BY <1>1, <1>2, <1>3 DEF MaxSteps
<1>9. Descends(J, K, Ranks, EapolState, RoundsResting, MachinesStep, NextRound)
  BY <1>3, <1>4, <1>5, <1>6 DEF Descends
<1> HIDE DEF J, K
<1>8. \A z \in J : \A n \in 0 .. MaxSteps : Ranks[z] < n => StepRounds[<<z, n>>] \in K
  BY RoundsLoop, <1>7, <1>9, LoopEnds
<1> QED BY <1>1, <1>7, <1>8 DEF K

\* The end of eapol_sm_step_run(): a response goes to the server for the exchange that
\* is current, and the machines stay at rest.
LEMMA RunSettles ==
  ASSUME NEW x, Good(x)
  PROVE  LET y == eapol_sm_step_run(x)
         IN Good(y) /\ Rested(y) /\ y.aaaEapResp = "no" /\ (y.assoc => x.assoc)
<1> DEFINE r == StepRounds[<<x, MaxSteps>>]
           w == [r EXCEPT !.timers = Awaited(r)]
           v == IF r.aaaEapResp = "empty" THEN [w EXCEPT !.aaaEapResp = "no"]
                ELSE wpa_auth_sm_notify(IF r.aaaEapResp = "data"
                                        THEN [w EXCEPT !.aaaEapResp = "no", !.radius = "cur"]
                                        ELSE w)
           Frame == Fields \ {"timers", "aaaEapResp", "radius", "steps"}
<1>1. Good(r) /\ Rested(r) /\ (r.assoc => x.assoc) BY RoundsEnds
<1> HIDE DEF r
<1>2. r \in EapolState /\ Sound(r) /\ ~r.authAbort /\ r.settled BY <1>1 DEF Good
<1>3. /\ WellTyped(w) /\ DOMAIN w = Fields /\ w.settled = r.settled
      /\ w.aaaEapResp = r.aaaEapResp /\ w.radius = r.radius
      /\ \A f \in Fields \ {"timers"} : w[f] = r[f]
  <2>1. Awaited(r) \in SUBSET Timers BY <1>2 DEF Awaited, EapolState
  <2>2. WellTyped(r) /\ DOMAIN r = Fields BY <1>2, Fielded
  <2>3. WellTyped(w) BY <2>1, <2>2, SetField, FieldTypes
  <2>4. \A f \in Fields \ {"timers"} : w[f] = r[f] BY <2>2
  <2> HIDE DEF w
  <2> QED BY <2>2, <2>3, <2>4, FieldTypes DEF WellTyped
<1>4. eapol_sm_step_run(x) = v
  <2>1. eapol_sm_step_run(x) = AfterRounds[r] BY DEF eapol_sm_step_run, r
  <2>2. AfterRounds[r] =
           CASE ~w.settled -> w
             [] w.settled /\ w.aaaEapResp = "empty" -> [w EXCEPT !.aaaEapResp = "no"]
             [] w.settled /\ w.aaaEapResp = "data" ->
                    wpa_auth_sm_notify([w EXCEPT !.aaaEapResp = "no", !.radius = "cur"])
             [] OTHER -> wpa_auth_sm_notify(w)
    BY <1>2 DEF AfterRounds
  <2> HIDE DEF w
  <2> QED BY <1>2, <1>3, <2>1, <2>2
<1> HIDE DEF w
<1>5. ASSUME NEW z, WellTyped(z)
      PROVE  LET u == wpa_auth_sm_notify(z)
             IN WellTyped(u) /\ \A f \in Fields \ {"steps"} : u[f] = z[f]
  <2>1. DOMAIN z = Fields /\ z.steps \in SUBSET {"eapol", "wpa"} BY <1>5, FieldTypes DEF WellTyped
  <2>2. z.steps \cup {"wpa"} \in SUBSET {"eapol", "wpa"} BY <2>1
  <2>3. WellTyped(wpa_auth_sm_notify(z)) BY <1>5, <2>2, SetField, FieldTypes DEF wpa_auth_sm_notify
  <2>4. \A f \in Fields \ {"steps"} : wpa_auth_sm_notify(z)[f] = z[f]
    BY <2>1 DEF wpa_auth_sm_notify
  <2> QED BY <2>3, <2>4
<1>6. /\ v \in EapolState /\ v.aaaEapResp = "no" /\ (\A f \in Frame : v[f] = r[f])
      /\ v.radius = IF r.aaaEapResp = "data" THEN "cur" ELSE r.radius
  <2>1. CASE r.aaaEapResp = "empty"
    <3> DEFINE u == [w EXCEPT !.aaaEapResp = "no"]
    <3>1. WellTyped(u) /\ u.aaaEapResp = "no" BY <1>3, SetField, FieldTypes
    <3>2. \A f \in Fields \ {"aaaEapResp"} : u[f] = w[f] BY <1>3
    <3> HIDE DEF u
    <3>3. (\A f \in Frame : u[f] = r[f]) /\ u.radius = r.radius
      BY <1>3, <3>2, FieldTypes
    <3>4. v = u BY <2>1 DEF u
    <3> HIDE DEF v
    <3> QED BY <2>1, <3>1, <3>3, <3>4, TypedState
  <2>2. CASE r.aaaEapResp = "data"
    <3> DEFINE t == [w EXCEPT !.aaaEapResp = "no", !.radius = "cur"]
               u == wpa_auth_sm_notify(t)
    <3>1. WellTyped(t) /\ t.aaaEapResp = "no" /\ t.radius = "cur"
      BY <1>3, SetField, FieldTypes DEF Ages
    <3>2. \A f \in Fields \ {"aaaEapResp", "radius"} : t[f] = w[f] BY <1>3
    <3> HIDE DEF t
    <3>3. WellTyped(u) /\ \A f \in Fields \ {"steps"} : u[f] = t[f] BY <1>5, <3>1
    <3>4. v = u BY <2>2 DEF t
    <3> HIDE DEF u, v
    <3>5. (\A f \in Frame : u[f] = r[f]) /\ u.radius = "cur" /\ u.aaaEapResp = "no"
      BY <1>3, <3>1, <3>2, <3>3, FieldTypes
    <3> QED BY <2>2, <3>3, <3>4, <3>5, TypedState
  <2>3. CASE r.aaaEapResp = "no"
    <3> DEFINE u == wpa_auth_sm_notify(w)
    <3>1. WellTyped(u) /\ \A f \in Fields \ {"steps"} : u[f] = w[f] BY <1>3, <1>5
    <3>2. v = u BY <2>3
    <3> HIDE DEF u, v
    <3>3. (\A f \in Frame : u[f] = r[f]) /\ u.radius = r.radius /\ u.aaaEapResp = "no"
      BY <1>3, <2>3, <3>1, FieldTypes
    <3> QED BY <2>3, <3>1, <3>2, <3>3, TypedState
  <2>4. r.aaaEapResp \in {"no", "empty", "data"} BY <1>2 DEF EapolState
  <2> QED BY <2>1, <2>2, <2>3, <2>4
<1> HIDE DEF v
<1>7. Sound(v)
  BY SMTT(60), <1>2, <1>6, FieldTypes
     DEF Sound, Counted, Restarts, Early, EapDone, Exchanges, Replied, Verdicts, Ports, Backends,
         Passing, Sends
<1>8. Good(v) /\ Rested(v) /\ (v.assoc => x.assoc)
  <2>1. /\ v.authAbort = r.authAbort /\ v.settled = r.settled /\ v.answer = r.answer
        /\ v.be = r.be /\ v.authorized = r.authorized /\ v.assoc = r.assoc /\ v.keyRun = r.keyRun
    BY <1>6, FieldTypes
  <2> QED BY <1>1, <1>2, <1>6, <1>7, <2>1 DEF Good, Rested
<1> QED BY <1>4, <1>6, <1>8

-----------------------------------------------------------------------------
(* The inductive invariant, and what the actions keep of it. *)

\* Between two events the machines have settled, and as long as no step is pending
\* they are at rest.
Settled(x) == Good(x) /\ x.aaaEapResp = "no" /\ ("eapol" \notin x.steps => Rested(x))

\* The inductive invariant.
EapolInv == Settled(eapol)

\* The fields the invariant does not depend on between two events.
Unread ==
    {"failTimer", "portValid", "wpa", "pmk", "steps", "timers", "keyDone", "keyRun",
     "reAuthenticate", "eapolStart", "eapolLogoff", "eapolEap", "eapKeyAvailable",
     "eapRespData", "aaaEapKeyData", "challenges", "stray"}

\* A change of those fields, or an identity that is forgotten, keeps the state good.
LEMMA UnreadKeeps ==
  ASSUME NEW x, Good(x), x.aaaEapResp = "no", NEW y \in EapolState,
         \A f \in Fields \ (Unread \cup {"identity"}) : y[f] = x[f],
         y.identity => x.identity
  PROVE  Good(y) /\ y.aaaEapResp = "no"
<1>1. x \in EapolState /\ Sound(x) BY DEF Good
<1>2. Sound(y)
  BY SMTT(60), <1>1, FieldTypes DEF Unread, Sound, Counted, Restarts, Early, EapDone,
     Exchanges, Replied, Verdicts, Ports, Backends, Passing, Sends
<1>3. y.authAbort = x.authAbort /\ y.settled = x.settled /\ y.aaaEapResp = x.aaaEapResp
  BY FieldTypes DEF Unread
<1> QED BY <1>2, <1>3 DEF Good

\* What the RSN authenticator does to the station keeps the invariant.
LEMMA WpaKeeps ==
  ASSUME NEW x, Settled(x), NEW y, WpaEffect(x, y)
  PROVE  Settled(y)
<1>1. x \in EapolState /\ Sound(x) /\ x.aaaEapResp = "no" BY DEF Settled, Good
<1>2. y \in EapolState BY DEF WpaEffect
<1>3. /\ \A f \in Fields \ WpaFields : y[f] = x[f]
      /\ \/ y.portEnabled = x.portEnabled /\ y.assoc = x.assoc /\ y.authorized = x.authorized
         \/ ~y.portEnabled /\ ~y.assoc /\ ~y.authorized
  BY DEF WpaEffect
<1>4. Sound(y)
  BY SMTT(60), <1>1, <1>3, FieldTypes DEF WpaFields, Sound, Counted, Restarts, Early, EapDone,
     Exchanges, Replied, Verdicts, Ports, Backends, Passing, Sends
<1>5. /\ y.authAbort = x.authAbort /\ y.settled = x.settled /\ y.aaaEapResp = x.aaaEapResp
      /\ y.answer = x.answer /\ y.be = x.be
  BY <1>3, FieldTypes DEF WpaFields
<1>6. "eapol" \notin y.steps => Rested(y)
  BY <1>5 DEF WpaEffect, Settled, Rested
<1> QED BY <1>2, <1>4, <1>5, <1>6 DEF Settled, Good

\* A station without a machine, and one whose machine is new.
LEMMA FreshSettled == Settled(FreshEapol) /\ Settled(NoEapol)
<1>1. FreshEapol \in EapolState
  BY DEF FreshEapol, EapolState, PaeStates, BeStates, EapStates, Timers, Ages
<1>2. Settled(FreshEapol)
  <2>1. Sound(FreshEapol)
    BY EapolConstants DEF FreshEapol, Sound, Counted, Restarts, Early, EapDone, Exchanges, Replied,
       Verdicts, Ports, Backends, Passing, Sends
  <2>2. ~FreshEapol.authAbort /\ FreshEapol.settled /\ FreshEapol.aaaEapResp = "no"
        /\ Rested(FreshEapol)
    BY DEF FreshEapol, Rested
  <2> QED BY <1>1, <2>1, <2>2 DEF Settled, Good
<1> HIDE DEF FreshEapol
<1>3. NoEapol \in EapolState /\ \A f \in Fields \ {"present"} : NoEapol[f] = FreshEapol[f]
  <2>1. WellTyped(FreshEapol) /\ DOMAIN FreshEapol = Fields BY <1>1, Fielded
  <2>2. WellTyped(NoEapol) BY <2>1, SetField, FieldTypes DEF NoEapol
  <2>3. \A f \in Fields \ {"present"} : NoEapol[f] = FreshEapol[f] BY <2>1 DEF NoEapol
  <2> QED BY <2>2, <2>3, TypedState
<1>4. Good(NoEapol) /\ NoEapol.aaaEapResp = "no"
  <2>1. Sound(FreshEapol) /\ FreshEapol.aaaEapResp = "no" /\ ~FreshEapol.authAbort
        /\ FreshEapol.settled /\ ~FreshEapol.assoc
    BY <1>2 DEF Settled, Good, FreshEapol
  <2>2. Sound(NoEapol)
    BY SMTT(60), <1>3, <2>1, FieldTypes
       DEF Sound, Counted, Restarts, Early, EapDone, Exchanges, Replied, Verdicts, Ports,
           Backends, Passing, Sends
  <2>3. /\ NoEapol.authAbort = FreshEapol.authAbort /\ NoEapol.settled = FreshEapol.settled
        /\ NoEapol.aaaEapResp = FreshEapol.aaaEapResp
    BY <1>3, FieldTypes
  <2> QED BY <1>3, <2>1, <2>2, <2>3 DEF Good
<1>5. Settled(NoEapol)
  <2>1. /\ NoEapol.assoc = FreshEapol.assoc /\ NoEapol.keyRun = FreshEapol.keyRun
        /\ NoEapol.answer = FreshEapol.answer /\ NoEapol.be = FreshEapol.be
        /\ NoEapol.authorized = FreshEapol.authorized /\ NoEapol.steps = FreshEapol.steps
    BY <1>3, FieldTypes
  <2> QED BY <1>2, <1>4, <2>1 DEF Settled, Rested
<1> QED BY <1>2, <1>5

\* An event that registers a step of the machines, and changes only what the invariant
\* does not depend on.
LEMMA EventKeeps ==
  ASSUME NEW x, Good(x), x.aaaEapResp = "no", NEW y \in EapolState,
         \A f \in Fields \ (Unread \cup {"identity"}) : y[f] = x[f],
         y.identity => x.identity, "eapol" \in y.steps
  PROVE  Settled(y)
BY UnreadKeeps DEF Settled

\* eapol_auth_step() only registers a step.
LEMMA StepRegistered ==
  ASSUME NEW x, WellTyped(x)
  PROVE  LET y == eapol_auth_step(x)
         IN /\ WellTyped(y) /\ "eapol" \in y.steps
            /\ \A f \in Fields \ {"steps"} : y[f] = x[f]
<1>1. DOMAIN x = Fields /\ x.steps \in SUBSET {"eapol", "wpa"} BY FieldTypes DEF WellTyped
<1>2. x.steps \cup {"eapol"} \in SUBSET {"eapol", "wpa"} BY <1>1
<1>3. WellTyped(eapol_auth_step(x)) BY <1>2, SetField, FieldTypes DEF eapol_auth_step
<1>4. eapol_auth_step(x).steps = x.steps \cup {"eapol"} BY <1>1, FieldTypes DEF eapol_auth_step
<1>5. \A f \in Fields \ {"steps"} : eapol_auth_step(x)[f] = x[f] BY <1>1 DEF eapol_auth_step
<1> QED BY <1>3, <1>4, <1>5

\* The machine a new association finds or gets.
LEMMA NewStation ==
  ASSUME NEW x, Settled(x), "eapol" \notin x.steps,
         NEW y, y = ieee802_1x_new_station(x)
  PROVE  /\ WellTyped(y) /\ DOMAIN y = Fields /\ "eapol" \in y.steps /\ y.portEnabled
         /\ \E z \in EapolState :
               /\ Settled(z) /\ "eapol" \notin z.steps /\ z.assoc = x.assoc /\ z.present
               /\ \A f \in Fields \ {"portEnabled", "reAuthenticate", "steps"} : y[f] = z[f]
<1> DEFINE z == IF x.present THEN x ELSE FreshEapol
           u == [z EXCEPT !.portEnabled = TRUE, !.reAuthenticate = x.present]
<1>1. x \in EapolState BY DEF Settled, Good
<1>2. Settled(z) /\ z \in EapolState BY FreshSettled DEF Settled, Good
<1>3. "eapol" \notin z.steps /\ z.assoc = x.assoc /\ z.present
  <2>1. x.assoc \in BOOLEAN /\ (x.assoc => x.present)
    BY <1>1 DEF Settled, Good, Sound, Ports, EapolState
  <2> QED BY <2>1 DEF FreshEapol
<1> HIDE DEF z
<1>4. WellTyped(z) /\ DOMAIN z = Fields BY <1>2, Fielded
<1>5. x.present \in BOOLEAN BY <1>1 DEF EapolState
<1>6. WellTyped(u) /\ u.portEnabled BY <1>4, <1>5, SetField, FieldTypes
<1>7. \A f \in Fields \ {"portEnabled", "reAuthenticate"} : u[f] = z[f] BY <1>4
<1>8. y = eapol_auth_step(u) BY DEF ieee802_1x_new_station, z
<1> HIDE DEF u
<1>9. WellTyped(y) /\ "eapol" \in y.steps /\ \A f \in Fields \ {"steps"} : y[f] = u[f]
  BY <1>6, <1>8, StepRegistered
<1>10. y.portEnabled = u.portEnabled BY <1>9, FieldTypes
<1>11. \A f \in Fields \ {"portEnabled", "reAuthenticate", "steps"} : y[f] = z[f]
  BY <1>7, <1>9
<1>12. DOMAIN y = Fields BY <1>9 DEF WellTyped
<1> QED BY <1>2, <1>3, <1>6, <1>9, <1>10, <1>11, <1>12

\* A station with a port that is just enabled.
LEMMA EnabledKeeps ==
  ASSUME NEW x, Settled(x), x.present, NEW y \in EapolState, y.portEnabled, y.assoc,
         "eapol" \in y.steps,
         \A f \in Fields \ (Unread \cup {"portEnabled", "assoc"}) : y[f] = x[f]
  PROVE  Settled(y)
<1>1. x \in EapolState /\ Sound(x) /\ x.aaaEapResp = "no" BY DEF Settled, Good
<1>2. Sound(y)
  BY SMTT(60), <1>1, FieldTypes DEF Unread, Sound, Counted, Restarts, Early, EapDone,
     Exchanges, Replied, Verdicts, Ports, Backends, Passing, Sends
<1>3. y.authAbort = x.authAbort /\ y.settled = x.settled /\ y.aaaEapResp = x.aaaEapResp
  BY FieldTypes DEF Unread
<1> QED BY <1>2, <1>3 DEF Settled, Good

\* A new association keeps the invariant, and its RSN authenticator waits for a PMK.
LEMMA AssociateKeeps ==
  ASSUME EapolInv, Associate
  PROVE  EapolInv' /\ eapol'.wpa = "AUTHENTICATION2"
<1> DEFINE x == eapol
           y == ieee802_1x_new_station(x)
           w == [y EXCEPT !.assoc = TRUE, !.failTimer = FALSE, !.portValid = FALSE,
                          !.wpa = "AUTHENTICATION2"]
<1>1. Settled(x) /\ ~x.assoc /\ "eapol" \notin x.steps BY DEF EapolInv, Associate, Quiet
<1>2. eapol' = wpa_sm_step_1x(w) BY DEF Associate
<1> HIDE DEF x
<1>3. /\ WellTyped(y) /\ DOMAIN y = Fields /\ "eapol" \in y.steps /\ y.portEnabled
      /\ \E z \in EapolState :
            /\ Settled(z) /\ "eapol" \notin z.steps /\ z.assoc = x.assoc /\ z.present
            /\ \A f \in Fields \ {"portEnabled", "reAuthenticate", "steps"} : y[f] = z[f]
  BY <1>1, NewStation
<1> HIDE DEF y
<1>4. PICK z \in EapolState :
         /\ Settled(z) /\ "eapol" \notin z.steps /\ z.assoc = x.assoc /\ z.present
         /\ \A f \in Fields \ {"portEnabled", "reAuthenticate", "steps"} : y[f] = z[f]
  BY <1>3
<1>5. WellTyped(w) BY <1>3, SetField, FieldTypes
<1>6. /\ w.assoc /\ w.wpa = "AUTHENTICATION2" /\ w.portEnabled = y.portEnabled
      /\ w.steps = y.steps /\ w.keyRun = y.keyRun
  BY <1>3, FieldTypes
<1>7. \A f \in Fields \ {"assoc", "failTimer", "portValid", "wpa"} : w[f] = y[f] BY <1>3
<1> HIDE DEF w
<1>8. w \in EapolState BY <1>5, TypedState
<1>9. \A f \in Fields \ (Unread \cup {"portEnabled", "assoc"}) : w[f] = z[f]
  BY <1>4, <1>7 DEF Unread
<1>10. Settled(w) BY <1>3, <1>4, <1>6, <1>8, <1>9, EnabledKeeps
<1>11. ~w.keyRun
  <2>1. y.keyRun = z.keyRun BY <1>4, FieldTypes
  <2> QED BY <1>1, <1>4, <1>6, <2>1 DEF Settled, Rested
<1>12. wpa_sm_step_1x(w) = w BY <1>11 DEF wpa_sm_step_1x
<1>13. eapol' = w BY <1>2, <1>12
<1> QED BY <1>6, <1>10, <1>13 DEF EapolInv

\* A reassociation keeps the invariant.
LEMMA ReassociateKeeps ==
  ASSUME EapolInv, Reassociate
  PROVE  EapolInv'
<1> DEFINE x == eapol
           y == ieee802_1x_new_station(x)
           w == [y EXCEPT !.failTimer = FALSE]
<1>1. Settled(x) /\ x.assoc /\ "eapol" \notin x.steps BY DEF EapolInv, Reassociate, Quiet
<1>2. eapol' = WpaReauth(w) BY DEF Reassociate
<1> HIDE DEF x
<1>3. /\ WellTyped(y) /\ DOMAIN y = Fields /\ "eapol" \in y.steps /\ y.portEnabled
      /\ \E z \in EapolState :
            /\ Settled(z) /\ "eapol" \notin z.steps /\ z.assoc = x.assoc /\ z.present
            /\ \A f \in Fields \ {"portEnabled", "reAuthenticate", "steps"} : y[f] = z[f]
  BY <1>1, NewStation
<1> HIDE DEF y
<1>4. PICK z \in EapolState :
         /\ Settled(z) /\ z.assoc = x.assoc /\ z.present
         /\ \A f \in Fields \ {"portEnabled", "reAuthenticate", "steps"} : y[f] = z[f]
  BY <1>3
<1>5. WellTyped(w) BY <1>3, SetField, FieldTypes
<1>6. w.portEnabled = y.portEnabled /\ w.steps = y.steps BY <1>3, FieldTypes
<1>7. \A f \in Fields \ {"failTimer"} : w[f] = y[f] BY <1>3
<1> HIDE DEF w
<1>8. w \in EapolState BY <1>5, TypedState
<1>9. \A f \in Fields \ (Unread \cup {"portEnabled", "assoc"}) : w[f] = z[f]
  BY <1>4, <1>7 DEF Unread
<1>10. "assoc" \in Fields BY FieldTypes
<1>11. w.assoc BY <1>1, <1>4, <1>7, <1>10
<1>12. Settled(w) BY <1>3, <1>4, <1>6, <1>8, <1>9, <1>11, EnabledKeeps
<1>13. WpaEffect(w, eapol') BY <1>2, <1>8, WpaReauthEffect
<1>14. Settled(eapol') BY <1>12, <1>13, WpaKeeps
<1> QED BY <1>14 DEF EapolInv

\* The callbacks of the event loop keep the invariant.
LEMMA StepCbKeeps ==
  ASSUME EapolInv, eapol_sm_step_cb
  PROVE  EapolInv'
<1> DEFINE x == eapol
           y == [x EXCEPT !.steps = @ \ {"eapol"}]
<1>1. Settled(x) /\ eapol' = eapol_sm_step_run(y) BY DEF EapolInv, eapol_sm_step_cb
<1> HIDE DEF x
<1>2. x \in EapolState /\ WellTyped(x) /\ DOMAIN x = Fields BY <1>1, Fielded DEF Settled, Good
<1>3. x.steps \ {"eapol"} \in SUBSET {"eapol", "wpa"} BY <1>2 DEF EapolState
<1>4. WellTyped(y) BY <1>2, <1>3, SetField, FieldTypes
<1>5. \A f \in Fields \ {"steps"} : y[f] = x[f] BY <1>2
<1> HIDE DEF y
<1>6. y \in EapolState /\ y.identity = x.identity BY <1>4, <1>5, TypedState, FieldTypes
<1>7. Good(y) BY <1>1, <1>5, <1>6, UnreadKeeps DEF Settled, Unread
<1>8. Settled(eapol') BY <1>1, <1>7, RunSettles DEF Settled
<1> QED BY <1>8 DEF EapolInv

\* A second that passes keeps it, whichever timers end.
LEMMA TickKeeps ==
  ASSUME EapolInv, NEW expired, eapol_port_timers_tick(expired)
  PROVE  EapolInv'
<1> DEFINE x == eapol
           y == [x EXCEPT !.timers = @ \ expired]
<1>1. Settled(x) /\ eapol' = eapol_sm_step_run(y) BY DEF EapolInv, eapol_port_timers_tick
<1> HIDE DEF x
<1>2. x \in EapolState /\ WellTyped(x) /\ DOMAIN x = Fields BY <1>1, Fielded DEF Settled, Good
<1>3. x.timers \ expired \in SUBSET Timers BY <1>2 DEF EapolState
<1>4. WellTyped(y) BY <1>2, <1>3, SetField, FieldTypes
<1>5. \A f \in Fields \ {"timers"} : y[f] = x[f] BY <1>2
<1> HIDE DEF y
<1>6. y \in EapolState /\ y.identity = x.identity BY <1>4, <1>5, TypedState, FieldTypes
<1>7. Good(y) BY <1>1, <1>5, <1>6, UnreadKeeps DEF Settled, Unread
<1>8. Settled(eapol') BY <1>1, <1>7, RunSettles DEF Settled
<1> QED BY <1>8 DEF EapolInv

\* So does the step the RSN authenticator has registered.
LEMMA WpaCallKeeps ==
  ASSUME EapolInv, wpa_sm_call_step
  PROVE  EapolInv'
<1> DEFINE x == eapol
           y == [x EXCEPT !.steps = @ \ {"wpa"}]
<1>1. Settled(x) /\ eapol' = wpa_sm_step_1x(y) BY DEF EapolInv, wpa_sm_call_step
<1> HIDE DEF x
<1>2. x \in EapolState /\ WellTyped(x) /\ DOMAIN x = Fields BY <1>1, Fielded DEF Settled, Good
<1>3. x.steps \ {"wpa"} \in SUBSET {"eapol", "wpa"} BY <1>2 DEF EapolState
<1>4. WellTyped(y) BY <1>2, <1>3, SetField, FieldTypes
<1>5. (\A f \in Fields \ {"steps"} : y[f] = x[f]) /\ y.steps = x.steps \ {"wpa"}
  BY <1>2, FieldTypes
<1> HIDE DEF y
<1>6. /\ y \in EapolState /\ y.identity = x.identity /\ y.assoc = x.assoc /\ y.keyRun = x.keyRun
      /\ y.answer = x.answer /\ y.be = x.be /\ y.authorized = x.authorized
  BY <1>4, <1>5, TypedState, FieldTypes
<1>7. Good(y) /\ y.aaaEapResp = "no" BY <1>1, <1>5, <1>6, UnreadKeeps DEF Settled, Unread
<1>8. Settled(y) BY <1>1, <1>5, <1>6, <1>7 DEF Settled, Rested
<1>9. WpaEffect(y, eapol') BY <1>1, <1>6, WpaStepEffect
<1>10. Settled(eapol') BY <1>8, <1>9, WpaKeeps
<1> QED BY <1>10 DEF EapolInv

\* So does the delayed disconnection of a station that failed.
LEMMA FailTimerKeeps ==
  ASSUME EapolInv, ap_sta_delayed_1x_auth_fail_cb
  PROVE  EapolInv'
<1> DEFINE x == eapol
           y == [x EXCEPT !.failTimer = FALSE]
<1>1. Settled(x) /\ eapol' = ap_sta_disconnect(y)
  BY DEF EapolInv, ap_sta_delayed_1x_auth_fail_cb
<1> HIDE DEF x
<1>2. x \in EapolState /\ WellTyped(x) /\ DOMAIN x = Fields BY <1>1, Fielded DEF Settled, Good
<1>4. WellTyped(y) BY <1>2, SetField, FieldTypes
<1>5. \A f \in Fields \ {"failTimer"} : y[f] = x[f] BY <1>2
<1> HIDE DEF y
<1>6. /\ y \in EapolState /\ y.identity = x.identity /\ y.assoc = x.assoc /\ y.keyRun = x.keyRun
      /\ y.answer = x.answer /\ y.be = x.be /\ y.authorized = x.authorized /\ y.steps = x.steps
  BY <1>4, <1>5, TypedState, FieldTypes
<1>7. Good(y) /\ y.aaaEapResp = "no" BY <1>1, <1>5, <1>6, UnreadKeeps DEF Settled, Unread
<1>8. Settled(y) BY <1>1, <1>6, <1>7 DEF Settled, Rested
<1>9. WpaEffect(y, eapol') BY <1>1, <1>6, DisconnectEffect
<1>10. Settled(eapol') BY <1>8, <1>9, WpaKeeps
<1> QED BY <1>10 DEF EapolInv

\* The frames of the station keep it.
LEMMA StartKeeps ==
  ASSUME EapolInv, ReceiveStart
  PROVE  EapolInv'
<1> DEFINE x == eapol
           y == [x EXCEPT !.eapolStart = TRUE, !.identity = FALSE]
           w == WpaReauth(y)
<1>1. Settled(x) /\ eapol' = eapol_auth_step(w) BY DEF EapolInv, ReceiveStart
<1> HIDE DEF x
<1>2. x \in EapolState /\ WellTyped(x) /\ DOMAIN x = Fields BY <1>1, Fielded DEF Settled, Good
<1>4. WellTyped(y) /\ ~y.identity BY <1>2, SetField, FieldTypes
<1>5. \A f \in Fields \ {"eapolStart", "identity"} : y[f] = x[f] BY <1>2
<1> HIDE DEF y
<1>6. /\ y \in EapolState /\ y.assoc = x.assoc /\ y.keyRun = x.keyRun
      /\ y.answer = x.answer /\ y.be = x.be /\ y.authorized = x.authorized /\ y.steps = x.steps
  BY <1>4, <1>5, TypedState, FieldTypes
<1>7. Good(y) /\ y.aaaEapResp = "no"
  BY <1>1, <1>4, <1>5, <1>6, UnreadKeeps DEF Settled, Unread
<1>8. Settled(y) BY <1>1, <1>6, <1>7 DEF Settled, Rested
<1>9. WpaEffect(y, w) BY <1>6, WpaReauthEffect
<1> HIDE DEF w
<1>10. Settled(w) BY <1>8, <1>9, WpaKeeps
<1>11. WellTyped(w) BY <1>10, StateTyped DEF Settled, Good
<1>12. /\ WellTyped(eapol') /\ "eapol" \in eapol'.steps
       /\ \A f \in Fields \ {"steps"} : eapol'[f] = w[f]
  BY <1>1, <1>11, StepRegistered
<1>13. eapol' \in EapolState /\ eapol'.identity = w.identity BY <1>12, TypedState, FieldTypes
<1>14. Settled(eapol') BY <1>10, <1>12, <1>13, EventKeeps DEF Settled, Unread
<1> QED BY <1>14 DEF EapolInv

\* An event that sets some of the fields the invariant does not depend on, and
\* registers a step.
LEMMA SetsKeeps ==
  ASSUME EapolInv, NEW y, WellTyped(y), eapol' = eapol_auth_step(y),
         \A f \in Fields \ (Unread \cup {"identity"}) : y[f] = eapol[f],
         y.identity => eapol.identity
  PROVE  EapolInv'
<1>1. Settled(eapol) BY DEF EapolInv
<1>2. /\ WellTyped(eapol') /\ "eapol" \in eapol'.steps
      /\ \A f \in Fields \ {"steps"} : eapol'[f] = y[f]
  BY StepRegistered
<1>3. \A f \in Fields \ (Unread \cup {"identity"}) : eapol'[f] = eapol[f]
  BY <1>2 DEF Unread
<1>4. eapol' \in EapolState /\ eapol'.identity = y.identity BY <1>2, TypedState, FieldTypes
<1>5. Settled(eapol') BY <1>1, <1>2, <1>3, <1>4, EventKeeps DEF Settled
<1> QED BY <1>5 DEF EapolInv

\* An EAPOL-Logoff keeps it.
LEMMA LogoffKeeps ==
  ASSUME EapolInv, ReceiveLogoff
  PROVE  EapolInv'
<1> DEFINE y == [eapol EXCEPT !.eapolLogoff = TRUE, !.identity = FALSE]
<1>1. WellTyped(eapol) /\ DOMAIN eapol = Fields BY Fielded DEF EapolInv, Settled, Good
<1>2. WellTyped(y) /\ ~y.identity BY <1>1, SetField, FieldTypes
<1>3. \A f \in Fields \ (Unread \cup {"identity"}) : y[f] = eapol[f] BY <1>1 DEF Unread
<1>4. eapol' = eapol_auth_step(y) BY DEF ReceiveLogoff
<1> HIDE DEF y
<1> QED BY <1>2, <1>3, <1>4, SetsKeeps

\* So does the control interface's EAPOL_REAUTH.
LEMMA ReauthenticateKeeps ==
  ASSUME EapolInv, eapol_auth_reauthenticate
  PROVE  EapolInv'
<1> DEFINE y == [eapol EXCEPT !.reAuthenticate = TRUE]
<1>1. WellTyped(eapol) /\ DOMAIN eapol = Fields BY Fielded DEF EapolInv, Settled, Good
<1>2. WellTyped(y) /\ y.identity = eapol.identity BY <1>1, SetField, FieldTypes
<1>3. \A f \in Fields \ (Unread \cup {"identity"}) : y[f] = eapol[f] BY <1>1 DEF Unread
<1>4. eapol' = eapol_auth_step(y) BY DEF eapol_auth_reauthenticate
<1> HIDE DEF y
<1> QED BY <1>2, <1>3, <1>4, SetsKeeps

\* So does an EAP response, a stray one too.
LEMMA ResponseKeeps ==
  ASSUME EapolInv, NEW age \in {"cur", "old"}, ReceiveResponse(age)
  PROVE  EapolInv'
<1> DEFINE n == IF age = "cur" THEN eapol.stray ELSE eapol.stray + 1
           y == [eapol EXCEPT !.eapRespData = age, !.eapolEap = TRUE, !.stray = n]
<1>1. WellTyped(eapol) /\ DOMAIN eapol = Fields /\ n \in Nat
  BY Fielded DEF EapolInv, Settled, Good, EapolState
<1>4. eapol' = eapol_auth_step(y)
  BY DEF ReceiveResponse
<1> HIDE DEF n
<1>2. WellTyped(y) /\ y.identity = eapol.identity BY <1>1, SetField, FieldTypes
<1>3. \A f \in Fields \ (Unread \cup {"identity"}) : y[f] = eapol[f] BY <1>1 DEF Unread
<1> HIDE DEF y
<1> QED BY <1>2, <1>3, <1>4, SetsKeeps

\* So does the end of the 4-way handshake.
LEMMA PtkInitDoneKeeps ==
  ASSUME EapolInv, PtkInitDone
  PROVE  EapolInv'
<1> DEFINE y == [eapol EXCEPT !.wpa = "PTKINITDONE", !.portValid = TRUE,
                              !.eapKeyAvailable = FALSE, !.keyDone = TRUE]
<1>1. WellTyped(eapol) /\ DOMAIN eapol = Fields BY Fielded DEF EapolInv, Settled, Good
<1>2. WellTyped(y) /\ y.identity = eapol.identity BY <1>1, SetField, FieldTypes
<1>3. \A f \in Fields \ (Unread \cup {"identity"}) : y[f] = eapol[f] BY <1>1 DEF Unread
<1>4. eapol' = eapol_auth_step(y) BY DEF PtkInitDone
<1> HIDE DEF y
<1> QED BY <1>2, <1>3, <1>4, SetsKeeps

\* The reply of the server keeps it: in AAA_IDLE it is one to the current exchange.
LEMMA AuthKeeps ==
  ASSUME EapolInv, NEW reply, NEW keys, ReceiveAuth(reply, keys)
  PROVE  EapolInv'
<1> DEFINE x == eapol
           verdict == IF x.radius = "cur" THEN reply ELSE x.answer
           u == [x EXCEPT !.radius = "none"]
           y == eapol_auth_step(u)
           key == IF keys THEN x.radius ELSE x.aaaEapKeyData
           w == eapol'
           Frame == Fields \ {"radius", "steps", "aaaSuccess", "aaaFail", "aaaEapReq", "answer",
                              "aaaEapKeyData", "challenges"}
<1>1. Settled(x) BY DEF EapolInv
<1>2. /\ x.radius # "none"
      /\ \/ /\ reply = "accept"
            /\ w = [y EXCEPT !.aaaSuccess = TRUE, !.aaaEapReq = FALSE, !.answer = verdict,
                             !.aaaEapKeyData = IF keys THEN x.radius ELSE @]
         \/ /\ reply = "reject"
            /\ w = [y EXCEPT !.aaaFail = TRUE, !.aaaEapReq = FALSE, !.answer = verdict]
         \/ w = [y EXCEPT !.aaaEapReq = TRUE, !.challenges = @ + 1]
  BY DEF ReceiveAuth
<1> HIDE DEF x, w
<1>3. x \in EapolState /\ WellTyped(x) /\ DOMAIN x = Fields /\ Sound(x) /\ x.aaaEapResp = "no"
  BY <1>1, Fielded DEF Settled, Good
<1>4. WellTyped(u) BY <1>3, SetField, FieldTypes DEF Ages
<1>5. u.radius = "none" /\ \A f \in Fields \ {"radius"} : u[f] = x[f] BY <1>3, FieldTypes
<1> HIDE DEF u
<1>6. WellTyped(y) /\ "eapol" \in y.steps /\ \A f \in Fields \ {"steps"} : y[f] = u[f]
  BY <1>4, StepRegistered
<1> HIDE DEF y
<1>7. /\ y.radius = "none" /\ DOMAIN y = Fields
      /\ \A f \in Fields \ {"radius", "steps"} : y[f] = x[f]
  BY <1>5, <1>6, FieldTypes DEF WellTyped
<1>8. /\ x.radius \in Ages /\ x.aaaEapKeyData \in Ages /\ x.challenges + 1 \in Nat
      /\ x.answer \in {"none", "accept", "reject"}
      /\ y.aaaEapKeyData = x.aaaEapKeyData /\ y.challenges = x.challenges
  BY <1>3, <1>7, FieldTypes DEF EapolState
<1>9. ASSUME reply = "accept",
             w = [y EXCEPT !.aaaSuccess = TRUE, !.aaaEapReq = FALSE, !.answer = verdict,
                           !.aaaEapKeyData = IF keys THEN x.radius ELSE @]
      PROVE  Settled(w)
  <2>1. w = [y EXCEPT !.aaaSuccess = TRUE, !.aaaEapReq = FALSE, !.answer = verdict,
                      !.aaaEapKeyData = key]
    BY <1>8, <1>9
  <2>2. key \in Ages /\ verdict \in {"none", "accept", "reject"} BY <1>8, <1>9
  <2> HIDE DEF key
  <2>3. WellTyped(w) BY <1>6, <2>1, <2>2, SetField, FieldTypes
  <2>4. /\ w.aaaSuccess /\ ~w.aaaEapReq /\ w.answer = verdict /\ w.steps = y.steps
        /\ w.radius = y.radius /\ w.aaaFail = y.aaaFail
    BY <1>7, <2>1, FieldTypes
  <2>5. \A f \in Frame : w[f] = y[f] BY <1>7, <2>1
  <2>6. \A f \in Frame : w[f] = x[f] BY <1>7, <2>5
  <2>7. w.aaaFail = x.aaaFail /\ w.radius = "none" BY <1>7, <2>4, FieldTypes
  <2>8. Sound(w)
    <3>1. Counted(w) /\ Restarts(w) /\ Ports(w) /\ Backends(w) /\ Sends(w)
      BY SMTT(60), <1>3, <2>6, FieldTypes
         DEF Sound, Counted, Restarts, Early, EapDone, Ports, Backends, Passing, Sends
    <3>2. /\ w.eap = x.eap /\ w.pae = x.pae /\ w.authSuccess = x.authSuccess
          /\ w.eapSuccess = x.eapSuccess /\ w.eapFail = x.eapFail /\ w.eapTimeout = x.eapTimeout
          /\ w.eapRestart = x.eapRestart /\ w.idSet = x.idSet /\ w.identity = x.identity
      BY <2>6, FieldTypes
    <3>3. Exchanges(x) /\ Verdicts(x) BY <1>3 DEF Sound
    <3>4. Exchanges(w)
      BY SMTT(60), <1>2, <1>8, <1>9, <2>4, <2>7, <3>2, <3>3 DEF Ages, Exchanges, Replied
    <3>5. Verdicts(w)
      BY SMTT(60), <1>2, <1>3, <1>8, <1>9, <2>4, <2>7, <3>2, <3>3
         DEF Ages, Exchanges, Verdicts, Early
    <3> QED BY <3>1, <3>4, <3>5 DEF Sound
  <2>9. w.authAbort = x.authAbort /\ w.settled = x.settled /\ w.aaaEapResp = x.aaaEapResp
    BY <2>6, FieldTypes
  <2> QED BY <1>1, <1>6, <2>3, <2>4, <2>8, <2>9, TypedState DEF Settled, Good
<1>10. ASSUME reply = "reject",
              w = [y EXCEPT !.aaaFail = TRUE, !.aaaEapReq = FALSE, !.answer = verdict]
       PROVE  Settled(w)
  <2>2. verdict \in {"none", "accept", "reject"} BY <1>8, <1>10
  <2>3. WellTyped(w) BY <1>6, <1>10, <2>2, SetField, FieldTypes
  <2>4. /\ w.aaaFail /\ ~w.aaaEapReq /\ w.answer = verdict /\ w.steps = y.steps
        /\ w.radius = y.radius /\ w.aaaSuccess = y.aaaSuccess
    BY <1>7, <1>10, FieldTypes
  <2>5. \A f \in Frame : w[f] = y[f] BY <1>7, <1>10
  <2>6. \A f \in Frame : w[f] = x[f] BY <1>7, <2>5
  <2>7. w.aaaSuccess = x.aaaSuccess /\ w.radius = "none" BY <1>7, <2>4, FieldTypes
  <2>8. Sound(w)
    <3>1. Counted(w) /\ Restarts(w) /\ Ports(w) /\ Backends(w) /\ Sends(w)
      BY SMTT(60), <1>3, <2>6, FieldTypes
         DEF Sound, Counted, Restarts, Early, EapDone, Ports, Backends, Passing, Sends
    <3>2. /\ w.eap = x.eap /\ w.pae = x.pae /\ w.authSuccess = x.authSuccess
          /\ w.eapSuccess = x.eapSuccess /\ w.eapFail = x.eapFail /\ w.eapTimeout = x.eapTimeout
          /\ w.eapRestart = x.eapRestart /\ w.idSet = x.idSet /\ w.identity = x.identity
      BY <2>6, FieldTypes
    <3>3. Exchanges(x) /\ Verdicts(x) BY <1>3 DEF Sound
    <3>4. Exchanges(w)
      BY SMTT(60), <1>2, <1>8, <1>10, <2>4, <2>7, <3>2, <3>3 DEF Ages, Exchanges, Replied
    <3>5. Verdicts(w)
      BY SMTT(60), <1>2, <1>3, <1>8, <1>10, <2>4, <2>7, <3>2, <3>3
         DEF Ages, Exchanges, Verdicts, Early
    <3> QED BY <3>1, <3>4, <3>5 DEF Sound
  <2>9. w.authAbort = x.authAbort /\ w.settled = x.settled /\ w.aaaEapResp = x.aaaEapResp
    BY <2>6, FieldTypes
  <2> QED BY <1>1, <1>6, <2>3, <2>4, <2>8, <2>9, TypedState DEF Settled, Good
<1>11. ASSUME w = [y EXCEPT !.aaaEapReq = TRUE, !.challenges = @ + 1]
       PROVE  Settled(w)
  <2>3. WellTyped(w) BY <1>6, <1>8, <1>11, SetField, FieldTypes
  <2>4. w.aaaEapReq /\ w.steps = y.steps /\ w.radius = y.radius
    BY <1>7, <1>11, FieldTypes
  <2>1. "aaaSuccess" \in Fields /\ "aaaFail" \in Fields /\ "answer" \in Fields BY FieldTypes
  <2>5. \A f \in Frame \cup {"aaaSuccess", "aaaFail", "answer"} : w[f] = y[f]
    BY <1>7, <1>11, <2>1
  <2>6. (\A f \in Frame \cup {"aaaSuccess", "aaaFail", "answer"} : w[f] = x[f])
        /\ w.radius = "none"
    BY <1>7, <2>4, <2>5, FieldTypes
  <2>8. Sound(w)
    BY SMTT(60), <1>2, <1>3, <1>8, <2>4, <2>6, FieldTypes
       DEF Ages, Sound, Counted, Restarts, Early, EapDone, Exchanges, Replied, Verdicts, Ports,
           Backends, Passing, Sends
  <2>9. w.authAbort = x.authAbort /\ w.settled = x.settled /\ w.aaaEapResp = x.aaaEapResp
    BY <2>6, FieldTypes
  <2> QED BY <1>1, <1>6, <2>3, <2>4, <2>8, <2>9, TypedState DEF Settled, Good
<1>12. Settled(w) BY <1>2, <1>9, <1>10, <1>11
<1> QED BY <1>12 DEF w, EapolInv

-----------------------------------------------------------------------------
(* The theorems. *)

\* The invariant holds initially.
LEMMA EapolInitInv == EapolInit => EapolInv
BY FreshSettled DEF EapolInit, EapolInv

\* Every step of the specification keeps it.
LEMMA EapolNextInv == EapolInv /\ [EapolNext]_eapol => EapolInv'
<1> SUFFICES ASSUME EapolInv, [EapolNext]_eapol PROVE EapolInv' OBVIOUS
<1>1. CASE eapol_sm_step_cb BY <1>1, StepCbKeeps
<1>2. CASE wpa_sm_call_step BY <1>2, WpaCallKeeps
<1>3. CASE \E expired \in SUBSET Timers : eapol_port_timers_tick(expired) BY <1>3, TickKeeps
<1>4. CASE Associate BY <1>4, AssociateKeeps
<1>5. CASE Reassociate BY <1>5, ReassociateKeeps
<1>6. CASE FreeStation BY <1>6, FreshSettled DEF FreeStation, EapolInv
<1>7. CASE ReceiveStart BY <1>7, StartKeeps
<1>8. CASE ReceiveLogoff BY <1>8, LogoffKeeps
<1>9. CASE \E age \in {"cur", "old"} : ReceiveResponse(age) BY <1>9, ResponseKeeps
<1>10. CASE \E reply \in Replies, keys \in AcceptKeys : ReceiveAuth(reply, keys)
  BY <1>10, AuthKeeps
<1>11. CASE PtkInitDone BY <1>11, PtkInitDoneKeeps
<1>12. CASE HandshakeFails
  <2>1. Settled(eapol) /\ eapol \in EapolState BY DEF EapolInv, Settled, Good
  <2>2. WpaEffect(eapol, eapol') BY <1>12, <2>1, DisconnectEffect DEF HandshakeFails
  <2>3. Settled(eapol') BY <2>1, <2>2, WpaKeeps
  <2> QED BY <2>3 DEF EapolInv
<1>13. CASE ap_sta_delayed_1x_auth_fail_cb BY <1>13, FailTimerKeeps
<1>14. CASE eapol_auth_reauthenticate BY <1>14, ReauthenticateKeeps
<1>15. CASE UNCHANGED eapol BY <1>15 DEF EapolInv
<1> QED BY <1>1, <1>2, <1>3, <1>4, <1>5, <1>6, <1>7, <1>8, <1>9, <1>10, <1>11, <1>12, <1>13,
           <1>14, <1>15 DEF EapolNext

\* Between any two events the machines have settled in a sound state, and as long as
\* no step is registered they are at rest (eapol_sm_step_run()).
THEOREM EapolInvariant == EapolSpec => []EapolInv
BY EapolInitInv, EapolNextInv, PTL DEF EapolSpec

\* The state keeps to its types, and reAuthCount and retransCount to their limits,
\* whatever reAuthMax and MaxRetrans are (AUTH_PAE CONNECTING, EAP RETRANSMIT).
THEOREM EapolTypes == EapolSpec => []EapolTypeOK
<1>1. EapolInv => EapolTypeOK
  BY DEF EapolInv, Settled, Good, Sound, Counted, EapolTypeOK
<1> QED BY <1>1, EapolInvariant, PTL

\* eapol_sm_step_run() never runs out of its 100 rounds, and eap_server_sm_step()
\* always ends: every transition of the four machines lowers a rank of at most 74.
THEOREM EapolAlwaysSettles == EapolSpec => []EapolSettles
<1>1. EapolInv => EapolSettles
  BY DEF EapolInv, Settled, Good, EapolSettles
<1> QED BY <1>1, EapolInvariant, PTL

\* AUTH_PAE enters AUTHENTICATED only for an exchange the server accepted, whatever
\* arrives late, twice or out of order.
THEOREM EapolAcceptOpens == EapolSpec => []EapolPortOnAccept
<1>1. EapolInv => EapolPortOnAccept
  BY DEF EapolInv, Settled, Good, Sound, Verdicts, EapolPortOnAccept
<1> QED BY <1>1, EapolInvariant, PTL

\* Once the registered steps have run, a station the server rejected has no
\* authorized port, unless BE_AUTH is waiting for the station.
THEOREM EapolRejectTakesPort == EapolSpec => []EapolRejectCloses
<1>1. EapolInv => EapolRejectCloses
  BY DEF EapolInv, Settled, Rested, EapolRejectCloses, Quiet
<1> QED BY <1>1, EapolInvariant, PTL

\* Only an association associates the station, and its RSN authenticator then waits
\* for a PMK.
LEMMA EapolNextStalePmk ==
  EapolInv /\ [EapolNext]_eapol
     => (~eapol.assoc /\ eapol'.assoc => eapol'.wpa = "AUTHENTICATION2")
<1> SUFFICES ASSUME EapolInv, [EapolNext]_eapol, ~eapol.assoc, eapol'.assoc
             PROVE  eapol'.wpa = "AUTHENTICATION2"
  OBVIOUS
<1>1. Settled(eapol) /\ Good(eapol) /\ eapol \in EapolState /\ eapol.aaaEapResp = "no"
      /\ WellTyped(eapol) /\ DOMAIN eapol = Fields
  BY Fielded DEF EapolInv, Settled, Good
<1>2. ASSUME NEW z \in EapolState, WpaEffect(z, eapol'), z.assoc = eapol.assoc PROVE FALSE
  BY <1>2 DEF WpaEffect
<1>3. CASE Associate BY <1>3, AssociateKeeps
<1>4. CASE eapol_sm_step_cb
  <2> DEFINE y == [eapol EXCEPT !.steps = @ \ {"eapol"}]
  <2>1. eapol.steps \ {"eapol"} \in SUBSET {"eapol", "wpa"} BY <1>1 DEF EapolState
  <2>2. WellTyped(y) BY <1>1, <2>1, SetField, FieldTypes
  <2>3. \A f \in Fields \ {"steps"} : y[f] = eapol[f] BY <1>1
  <2>4. eapol' = eapol_sm_step_run(y) BY <1>4 DEF eapol_sm_step_cb
  <2> HIDE DEF y
  <2>5. y \in EapolState /\ y.identity = eapol.identity /\ y.assoc = eapol.assoc
    BY <2>2, <2>3, TypedState, FieldTypes
  <2>6. Good(y) BY <1>1, <2>3, <2>5, UnreadKeeps DEF Unread
  <2> QED BY <2>4, <2>5, <2>6, RunSettles
<1>5. ASSUME NEW expired, eapol_port_timers_tick(expired) PROVE FALSE
  <2> DEFINE y == [eapol EXCEPT !.timers = @ \ expired]
  <2>1. eapol.timers \ expired \in SUBSET Timers BY <1>1 DEF EapolState
  <2>2. WellTyped(y) BY <1>1, <2>1, SetField, FieldTypes
  <2>3. \A f \in Fields \ {"timers"} : y[f] = eapol[f] BY <1>1
  <2>4. eapol' = eapol_sm_step_run(y) BY <1>5 DEF eapol_port_timers_tick
  <2> HIDE DEF y
  <2>5. y \in EapolState /\ y.identity = eapol.identity /\ y.assoc = eapol.assoc
    BY <2>2, <2>3, TypedState, FieldTypes
  <2>6. Good(y) BY <1>1, <2>3, <2>5, UnreadKeeps DEF Unread
  <2> QED BY <2>4, <2>5, <2>6, RunSettles
<1>6. CASE wpa_sm_call_step
  <2> DEFINE y == [eapol EXCEPT !.steps = @ \ {"wpa"}]
  <2>1. eapol.steps \ {"wpa"} \in SUBSET {"eapol", "wpa"} BY <1>1 DEF EapolState
  <2>2. WellTyped(y) /\ y.assoc = eapol.assoc BY <1>1, <2>1, SetField, FieldTypes
  <2>3. eapol' = wpa_sm_step_1x(y) BY <1>6 DEF wpa_sm_call_step
  <2> HIDE DEF y
  <2> QED BY <1>2, <2>2, <2>3, TypedState, WpaStepEffect
<1>7. CASE FreeStation
  <2>1. ~NoEapol.assoc BY DEF NoEapol, FreshEapol
  <2> QED BY <1>7, <2>1 DEF FreeStation
<1>8. CASE Reassociate \/ ReceiveStart \/ ReceiveLogoff
  BY <1>8 DEF Reassociate, ReceiveStart, ReceiveLogoff
<1>9. ASSUME NEW age, ReceiveResponse(age) PROVE FALSE BY <1>9 DEF ReceiveResponse
<1>10. ASSUME NEW reply, NEW keys, ReceiveAuth(reply, keys) PROVE FALSE
  <2> DEFINE u == [eapol EXCEPT !.radius = "none"]
             y == eapol_auth_step(u)
             verdict == IF eapol.radius = "cur" THEN reply ELSE eapol.answer
  <2>4. \/ eapol' = [y EXCEPT !.aaaSuccess = TRUE, !.aaaEapReq = FALSE, !.answer = verdict,
                              !.aaaEapKeyData = IF keys THEN eapol.radius ELSE @]
        \/ eapol' = [y EXCEPT !.aaaFail = TRUE, !.aaaEapReq = FALSE, !.answer = verdict]
        \/ eapol' = [y EXCEPT !.aaaEapReq = TRUE, !.challenges = @ + 1]
    BY <1>10 DEF ReceiveAuth
  <2>1. WellTyped(u) /\ u.assoc = eapol.assoc BY <1>1, SetField, FieldTypes DEF Ages
  <2> HIDE DEF u
  <2>2. WellTyped(y) /\ \A f \in Fields \ {"steps"} : y[f] = u[f] BY <2>1, StepRegistered
  <2> HIDE DEF y
  <2>3. y.assoc = eapol.assoc /\ DOMAIN y = Fields BY <2>1, <2>2, FieldTypes DEF WellTyped
  <2> HIDE DEF verdict
  <2>5. eapol'.assoc = y.assoc
    <3>1. CASE eapol' = [y EXCEPT !.aaaSuccess = TRUE, !.aaaEapReq = FALSE, !.answer = verdict,
                                  !.aaaEapKeyData = IF keys THEN eapol.radius ELSE @]
      BY <2>3, <3>1, FieldTypes
    <3>2. CASE eapol' = [y EXCEPT !.aaaFail = TRUE, !.aaaEapReq = FALSE, !.answer = verdict]
      BY <2>3, <3>2, FieldTypes
    <3>3. CASE eapol' = [y EXCEPT !.aaaEapReq = TRUE, !.challenges = @ + 1]
      BY <2>3, <3>3, FieldTypes
    <3> QED BY <2>4, <3>1, <3>2, <3>3
  <2> QED BY <2>3, <2>5
<1>11. CASE PtkInitDone
  <2> DEFINE y == [eapol EXCEPT !.wpa = "PTKINITDONE", !.portValid = TRUE,
                                !.eapKeyAvailable = FALSE, !.keyDone = TRUE]
  <2>1. WellTyped(y) /\ y.assoc = eapol.assoc BY <1>1, SetField, FieldTypes
  <2>2. eapol' = eapol_auth_step(y) BY <1>11 DEF PtkInitDone
  <2> HIDE DEF y
  <2>3. eapol'.assoc = y.assoc BY <2>1, <2>2, StepRegistered, FieldTypes
  <2> QED BY <2>1, <2>3
<1>12. CASE HandshakeFails
  BY <1>1, <1>2, <1>12, DisconnectEffect DEF HandshakeFails
<1>13. CASE ap_sta_delayed_1x_auth_fail_cb
  <2> DEFINE y == [eapol EXCEPT !.failTimer = FALSE]
  <2>1. WellTyped(y) /\ y.assoc = eapol.assoc BY <1>1, SetField, FieldTypes
  <2>2. eapol' = ap_sta_disconnect(y) BY <1>13 DEF ap_sta_delayed_1x_auth_fail_cb
  <2> HIDE DEF y
  <2> QED BY <1>2, <2>1, <2>2, TypedState, DisconnectEffect
<1>14. CASE eapol_auth_reauthenticate
  <2> DEFINE y == [eapol EXCEPT !.reAuthenticate = TRUE]
  <2>1. WellTyped(y) /\ y.assoc = eapol.assoc BY <1>1, SetField, FieldTypes
  <2>2. eapol' = eapol_auth_step(y) BY <1>14 DEF eapol_auth_reauthenticate
  <2> HIDE DEF y
  <2>3. eapol'.assoc = y.assoc BY <2>1, <2>2, StepRegistered, FieldTypes
  <2> QED BY <2>1, <2>3
<1>15. CASE UNCHANGED eapol BY <1>15
<1> QED BY <1>3, <1>4, <1>5, <1>6, <1>7, <1>8, <1>9, <1>10, <1>11, <1>12, <1>13, <1>14, <1>15
        DEF EapolNext

\* No association starts in a 4-way handshake: keyRun of an earlier one does not
\* survive the disconnection (AUTH_PAE INITIALIZE).
THEOREM EapolFreshPmk == EapolSpec => EapolNoStalePmk
BY EapolInvariant, EapolNextStalePmk, PTL DEF EapolSpec, EapolNoStalePmk
====
