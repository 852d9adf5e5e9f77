----------------------------- MODULE GroupRekey -----------------------------
(***************************************************************************)
(* The group key machines of src/ap/wpa_auth.c: one WPA_GROUP machine per  *)
(* BSS, and for every station its WPA_PTK_GROUP machine and what it shares *)
(* with the pairwise machine: the retransmission timeouts, the replay      *)
(* counters and PTK_valid.  WPA2-PSK, no management frame protection.      *)
(*                                                                         *)
(* The pairwise machine is the one of WpaAuthenticator, seen from here:    *)
(* the states it only passes through are left out, PTKSTART stands for     *)
(* PTKCALCNEGOTIATING (a message 2/4 with a bad MIC) too, and NONE for a   *)
(* station that has no state machine.                                      *)
(***************************************************************************)
EXTENDS Integers, FiniteSets

CONSTANTS STA,                               \* the stations
          wpa_group_update_count,            \* attempts for message 1/2
          wpa_pairwise_update_count,         \* attempts for 1/4 and 3/4
          wpa_disable_eapol_key_retries,
          no_disconnect_on_group_keyerror,
          wpa_strict_rekey,
          Events,                            \* what stations do besides
                                             \* joining and leaving
          MaxGtk, MaxTimers                  \* bounds of the instance

ASSUME StationsFinite == IsFiniteSet(STA)
ASSUME GroupCounts == /\ wpa_group_update_count \in Nat \ {0}
                      /\ wpa_pairwise_update_count \in Nat \ {0}
                      /\ MaxGtk \in Nat /\ MaxTimers \in Nat
ASSUME GroupBooleans == /\ wpa_disable_eapol_key_retries \in BOOLEAN
                        /\ no_disconnect_on_group_keyerror \in BOOLEAN
                        /\ wpa_strict_rekey \in BOOLEAN

(***************************************************************************)
(* Events may contain: "reassoc", a station authenticates or associates    *)
(* again while the AP still has its state machine; "ptk_rekey", pairwise   *)
(* keys are replaced; "gtk_request", a station asks for a new GTK;         *)
(* "overlap", a GTK rekeying starts before the last one ended;             *)
(* "wnm_sleep", stations use WNM-Sleep Mode.                               *)
(***************************************************************************)
ASSUME EventKinds == Events \subseteq {"reassoc", "ptk_rekey", "gtk_request",
                                       "overlap", "wnm_sleep"}

VARIABLES wpa_group_state,
          GKeyDoneStations,   \* a C int that is only ever stepped by one
          gtk,                \* generation of the GTK in GTK[GN]
          txGtk,              \* generation the driver transmits with
          rekeyTimer,         \* a wpa_rekey_gtk timeout is registered
          sm                  \* the stations' state machines

vars == <<wpa_group_state, GKeyDoneStations, gtk, txGtk, rekeyTimer, sm>>

\* A message that carries a GTK: 3/4 of the pairwise handshake, and 1/2 of the
\* group key handshake.
GtkMsg == [type : {"3/4", "1/2"}, gtk : Nat]

(***************************************************************************)
(* acc is the set of messages whose replay counter is still acceptable in  *)
(* an answer, got those of them the station has processed, staGtk the      *)
(* newest GTK it holds.  A message that arrives when its answer is no      *)
(* longer acceptable is taken as lost: it could only make staGtk newer.    *)
(* TimeoutEvt and the received frame are inputs of the step: a settled     *)
(* machine has no use for them.                                            *)
(***************************************************************************)
StaState ==
  [wpa_ptk_state : {"NONE", "INITIALIZE", "PTKSTART", "PTKINITNEGOTIATING",
                    "PTKINITDONE"},
   TimeoutCtr : Nat, PTK_valid : BOOLEAN, timers : Nat,
   pending_1_of_4_timeout : BOOLEAN,
   wpa_ptk_group_state : {"IDLE", "REKEYNEGOTIATING"}, GTimeoutCtr : Nat,
   GUpdateStationKeys : BOOLEAN, has_GTK : BOOLEAN, Disconnect : BOOLEAN,
   is_wnmsleep : BOOLEAN, WNM_SLEEP_MODE : BOOLEAN,
   acc : SUBSET GtkMsg, got : SUBSET GtkMsg, staGtk : Nat]

NoSta ==
  [wpa_ptk_state |-> "NONE",
   TimeoutCtr |-> 0, PTK_valid |-> FALSE, timers |-> 0,
   pending_1_of_4_timeout |-> FALSE,
   wpa_ptk_group_state |-> "IDLE", GTimeoutCtr |-> 0,
   GUpdateStationKeys |-> FALSE, has_GTK |-> FALSE, Disconnect |-> FALSE,
   is_wnmsleep |-> FALSE, WNM_SLEEP_MODE |-> FALSE,
   acc |-> {}, got |-> {}, staGtk |-> 0]

Present(s) == sm[s].wpa_ptk_state # "NONE"

\* wpa_init_keys(): GTK_INIT, then SETKEYSDONE with the first GTK.
Init == /\ wpa_group_state = "SETKEYSDONE" /\ GKeyDoneStations = 0
        /\ gtk = 1 /\ txGtk = 1 /\ rekeyTimer = TRUE
        /\ sm = [s \in STA |-> NoSta]
-----------------------------------------------------------------------------
(* The station's machines: from its record to its record. *)

\* wpa_gkeydone_sta() where GUpdateStationKeys is set: the station's part, and
\* the counter's.
wpa_gkeydone_sta(r) == [r EXCEPT !.GUpdateStationKeys = FALSE]
Done(r) == IF r.GUpdateStationKeys THEN 1 ELSE 0

\* Mutant: only the pairwise handshake is timed.
wpa_send_eapol_PairwiseTimed(r, type, g) ==
  [r EXCEPT !.timers = IF type = "3/4" THEN @ + 1 ELSE @,
            !.acc = IF r.PTK_valid THEN @ \cup {[type |-> type, gtk |-> g]}
                    ELSE @]

\* wpa_send_eapol() of a message with a MIC: lost without a PTK, timed anyway.
wpa_send_eapol(r, type, g) ==
  [r EXCEPT !.timers = @ + 1,
            !.acc = IF r.PTK_valid THEN @ \cup {[type |-> type, gtk |-> g]}
                    ELSE @]

RetryLimit(ctr, limit) ==
  ctr > limit \/ (wpa_disable_eapol_key_retries /\ ctr > 1)

\* INITPSK and PTKSTART, entered with a new ANonce: message 1/4 goes out.
PTKSTART(r) ==
  [r EXCEPT !.wpa_ptk_state = "PTKSTART", !.PTK_valid = FALSE,
            !.TimeoutCtr = 1, !.timers = @ + 1,
            !.pending_1_of_4_timeout = TRUE]

\* PTKSTART, message 1/4 again.
PTKSTART_again(r) == [r EXCEPT !.TimeoutCtr = @ + 1, !.timers = @ + 1]

PTKINITNEGOTIATING(r, g) ==
  wpa_send_eapol([r EXCEPT !.wpa_ptk_state = "PTKINITNEGOTIATING",
                           !.TimeoutCtr = @ + 1], "3/4", g)

\* wpa_remove_ptk(): no answer to an earlier message can be verified any more.
wpa_remove_ptk(r) == [r EXCEPT !.PTK_valid = FALSE, !.acc = {}, !.got = {}]

INITIALIZE(r) ==
  [wpa_remove_ptk(wpa_gkeydone_sta(r)) EXCEPT !.wpa_ptk_state = "INITIALIZE",
                                              !.TimeoutCtr = 0]

PTKINITDONE(r) == [r EXCEPT !.wpa_ptk_state = "PTKINITDONE", !.has_GTK = TRUE]

REKEYNEGOTIATING(r, g) ==
  wpa_send_eapol([r EXCEPT !.wpa_ptk_group_state = "REKEYNEGOTIATING",
                           !.GTimeoutCtr = @ + 1], "1/2", g)

\* Message 2/2 has come.
REKEYESTABLISHED(r) == [wpa_gkeydone_sta(r) EXCEPT !.has_GTK = TRUE]

\* The station is given up for this rekeying and stays connected.
KEYERROR(r) == wpa_gkeydone_sta(r)

\* Mutant: KEYERROR and REKEYESTABLISHED are never left.
IDLE_Never(r) == [r EXCEPT !.wpa_ptk_group_state = "KEYERROR", !.GTimeoutCtr = 0]

IDLE(r) == [r EXCEPT !.wpa_ptk_group_state = "IDLE", !.GTimeoutCtr = 0]

\* wpa_group_update_sta(): a station whose group machine is not idle is marked,
\* and sent nothing.
wpa_group_update_sta(r, g) ==
  IF r.wpa_ptk_state # "PTKINITDONE"
  THEN wpa_gkeydone_sta(r)
  ELSE IF r.is_wnmsleep
  THEN r
  ELSE LET m == [r EXCEPT !.GUpdateStationKeys = TRUE]
       IN IF m.wpa_ptk_group_state = "IDLE" THEN REKEYNEGOTIATING(m, g) ELSE m

Counted(r) == r.wpa_ptk_state = "PTKINITDONE" /\ ~r.is_wnmsleep

\* wpa_receive(): a frame whose MIC verified cancels every retransmission
\* timeout, and an answer makes all outstanding replay counters invalid.
MicVerified(r) ==
  [r EXCEPT !.timers = 0, !.pending_1_of_4_timeout = FALSE]

\* Mutant: the replay counters stay valid.
Answered_CountersKept(r) == MicVerified(r)

Answered(r) == [MicVerified(r) EXCEPT !.acc = {}, !.got = {}]
-----------------------------------------------------------------------------
(* The group machine, and how a station's event runs it. *)

\* wpa_group_fatal_failure(): every station is marked for disconnection.  The
\* one whose step loop runs (S: at most one) notices at once, the others at
\* their next event.  m are the stations, n of them left to answer.
wpa_group_fatal_failure(m, S, n) ==
  /\ wpa_group_state' = "FATAL_FAILURE"
  /\ sm' = [s \in STA |->
              IF s \in S THEN NoSta
              ELSE [m[s] EXCEPT !.Disconnect = m[s].wpa_ptk_state # "NONE"]]
  /\ GKeyDoneStations' = n - Cardinality({s \in S : m[s].GUpdateStationKeys})

\* wpa_auth_sta_deinit() under wpa_strict_rekey: a station that has the GTK goes.
StrictRekey(s, r) ==
  /\ wpa_strict_rekey
  /\ sm'[s].wpa_ptk_state = "NONE"
  /\ sm[s].has_GTK \/ r.has_GTK

\* Mutant: a station that goes stays counted.
Freed_Counted(s, r, n) ==
  /\ sm' = [sm EXCEPT ![s] = NoSta]
  /\ GKeyDoneStations' = n
  /\ rekeyTimer' = (rekeyTimer \/ StrictRekey(s, r))
  /\ UNCHANGED <<wpa_group_state, gtk, txGtk>>

\* wpa_free_sta_sm() at the end of the step loop: the group machine is not run.
Freed(s, r, n) ==
  /\ sm' = [sm EXCEPT ![s] = NoSta]
  /\ GKeyDoneStations' = n - Done(r)
  /\ rekeyTimer' = (rekeyTimer \/ StrictRekey(s, r))
  /\ UNCHANGED <<wpa_group_state, gtk, txGtk>>

\* Mutant: the group machine does not wait for the last station.
GroupStep_OneLeft(s, r, n) ==
  /\ UNCHANGED gtk
  /\ sm' = [sm EXCEPT ![s] = r] /\ GKeyDoneStations' = n
  /\ IF wpa_group_state = "SETKEYS" /\ n <= 1
     THEN wpa_group_state' = "SETKEYSDONE" /\ txGtk' = gtk
     ELSE UNCHANGED <<wpa_group_state, txGtk>>
  /\ rekeyTimer' = (rekeyTimer \/ StrictRekey(s, r))

\* wpa_group_sm_step() in the step loop of station s, whose machines have
\* settled to r, with n stations left to answer.  The driver may refuse the new
\* key.
GroupStep(s, r, n) ==
  /\ UNCHANGED gtk
  /\ \/ /\ ~(wpa_group_state = "SETKEYS" /\ n = 0)
        /\ sm' = [sm EXCEPT ![s] = r] /\ GKeyDoneStations' = n
        /\ UNCHANGED <<wpa_group_state, txGtk>>
     \/ /\ wpa_group_state = "SETKEYS" /\ n = 0
        /\ sm' = [sm EXCEPT ![s] = r] /\ GKeyDoneStations' = n
        /\ wpa_group_state' = "SETKEYSDONE" /\ txGtk' = gtk
     \/ /\ wpa_group_state = "SETKEYS" /\ n = 0
        /\ wpa_group_fatal_failure([sm EXCEPT ![s] = r], {s}, n)
        /\ UNCHANGED txGtk
  /\ rekeyTimer' = (rekeyTimer \/ StrictRekey(s, r))

\* wpa_sm_step() of station s: a station marked for disconnection goes now.
StaStep(s, r, n) ==
  IF sm[s].Disconnect THEN Freed(s, r, n) ELSE GroupStep(s, r, n)

\* The same where the station's own machine disconnects it.
StaDisconnect(s) == Freed(s, sm[s], GKeyDoneStations)
-----------------------------------------------------------------------------
(* Association *)

\* A station the AP has no state machine for associates.
Associate(s) ==
  /\ ~Present(s)
  /\ StaStep(s, PTKSTART(NoSta), GKeyDoneStations)

\* The station authenticates again (WPA_AUTH): only the PTK goes.
Authenticate(s) ==
  /\ "reassoc" \in Events
  /\ Present(s)
  /\ StaStep(s, [wpa_remove_ptk(sm[s]) EXCEPT !.staGtk = 0], GKeyDoneStations)

\* What association itself changes: the station forgets its keys.
Associated(r) ==
  [wpa_remove_ptk(r) EXCEPT !.staGtk = 0, !.WNM_SLEEP_MODE = FALSE]

\* The station associates again after it has authenticated or disassociated:
\* wpa_auth_sta_associated() finds the machine started.
AssociateAgain(s) ==
  /\ "reassoc" \in Events
  /\ Present(s) /\ sm[s].timers < MaxTimers
  /\ StaStep(s, PTKSTART(Associated(sm[s])), GKeyDoneStations)

\* Mutant: the pending update is cancelled and stays counted.
Reassociate_Counted(s) ==
  /\ "reassoc" \in Events
  /\ Present(s) /\ sm[s].wpa_ptk_state # "INITIALIZE" /\ sm[s].timers < MaxTimers
  /\ StaStep(s, PTKSTART(Associated(IDLE(wpa_gkeydone_sta(sm[s])))),
             GKeyDoneStations)

\* An associated station associates again without authenticating (WPA_REAUTH):
\* a pending group key update is cancelled.  (The AP disconnects it instead after
\* too many handshakes that were not completed: that is Remove.)
Reassociate(s) ==
  LET r == sm[s]
      q == IF r.GUpdateStationKeys THEN IDLE(wpa_gkeydone_sta(r)) ELSE r
  IN /\ "reassoc" \in Events
     /\ Present(s) /\ r.wpa_ptk_state # "INITIALIZE" /\ r.timers < MaxTimers
     /\ StaStep(s, PTKSTART(Associated(q)), GKeyDoneStations - Done(r))

\* A Disassociation frame (WPA_DISASSOC): DISCONNECTED, then INITIALIZE.
Disassociate(s) ==
  /\ Present(s) /\ sm[s].wpa_ptk_state # "INITIALIZE"
  /\ StaStep(s, INITIALIZE(sm[s]), GKeyDoneStations - Done(sm[s]))

\* A Deauthentication frame (WPA_DEAUTH): the same, and the machine is freed.
Deauthenticate(s) ==
  /\ Present(s)
  /\ StaStep(s, NoSta, GKeyDoneStations - Done(sm[s]))

\* The AP frees the station without a WPA_DEAUTH event: ap_handle_timer().
Remove(s) == Present(s) /\ StaDisconnect(s)
-----------------------------------------------------------------------------
(* Pairwise handshake *)

\* Message 2/4: PTKCALCNEGOTIATING to PTKINITNEGOTIATING.
ReceiveMsg2(s) ==
  /\ sm[s].wpa_ptk_state = "PTKSTART"
  /\ StaStep(s, PTKINITNEGOTIATING([Answered(sm[s]) EXCEPT
                                      !.PTK_valid = TRUE, !.TimeoutCtr = 0],
                                   gtk), GKeyDoneStations)

\* Message 4/4, the answer to a message 3/4 the station has processed.
ReceiveMsg4(s) ==
  /\ sm[s].wpa_ptk_state = "PTKINITNEGOTIATING" /\ sm[s].PTK_valid
  /\ \E f \in sm[s].got : f.type = "3/4"
  /\ StaStep(s, PTKINITDONE(Answered(sm[s])), GKeyDoneStations)

\* The PTK lifetime ends at the AP (wpa_rekey_ptk), or the station asks for a new
\* one (wpa_receive() of a Request, which cancels the timeouts).
RekeyPtk(s) ==
  /\ "ptk_rekey" \in Events
  /\ sm[s].wpa_ptk_state = "PTKINITDONE" /\ sm[s].PTK_valid
  /\ sm[s].timers < MaxTimers
  /\ \E r \in {sm[s], MicVerified(sm[s])} :
       StaStep(s, PTKSTART(r), GKeyDoneStations)
-----------------------------------------------------------------------------
(* Group handshake *)

\* The station processes a message that carries a GTK.
StaReceive(s) ==
  /\ \E f \in sm[s].acc \ sm[s].got :
       /\ f.gtk >= sm[s].staGtk
       /\ sm' = [sm EXCEPT ![s] = [sm[s] EXCEPT !.got = @ \cup {f},
                                                !.staGtk = f.gtk]]
  /\ UNCHANGED <<wpa_group_state, GKeyDoneStations, gtk, txGtk, rekeyTimer>>

\* Message 2/2: REKEYESTABLISHED, then IDLE.
ReceiveGroupMsg2(s) ==
  /\ sm[s].wpa_ptk_group_state = "REKEYNEGOTIATING" /\ sm[s].PTK_valid
  /\ \E f \in sm[s].got : f.type = "1/2"
  /\ StaStep(s, IDLE(REKEYESTABLISHED(Answered(sm[s]))),
             GKeyDoneStations - Done(sm[s]))

\* A retransmission timeout.  The pairwise machine runs first and takes it.
Timeout(s) ==
  LET r == [sm[s] EXCEPT !.timers = @ - 1, !.pending_1_of_4_timeout = FALSE]
      n == GKeyDoneStations
  IN /\ Present(s) /\ sm[s].timers > 0
     /\ \/ /\ r.wpa_ptk_state = "PTKSTART"
           /\ IF r.TimeoutCtr + 1 > wpa_pairwise_update_count
              THEN StaDisconnect(s)
              ELSE StaStep(s, PTKSTART_again(r), n)
        \/ /\ r.wpa_ptk_state = "PTKINITNEGOTIATING"
           /\ IF RetryLimit(r.TimeoutCtr + 1, wpa_pairwise_update_count)
              THEN StaDisconnect(s)
              ELSE StaStep(s, PTKINITNEGOTIATING(r, gtk), n)
        \/ /\ r.wpa_ptk_state \in {"INITIALIZE", "PTKINITDONE"}
           /\ IF r.wpa_ptk_group_state = "IDLE"
              THEN StaStep(s, r, n)
              ELSE IF ~RetryLimit(r.GTimeoutCtr + 1, wpa_group_update_count)
              THEN StaStep(s, REKEYNEGOTIATING(r, gtk), n)
              ELSE IF no_disconnect_on_group_keyerror
              THEN StaStep(s, IDLE(KEYERROR(r)), n - Done(r))
              ELSE StaDisconnect(s)

\* wpa_auth_eapol_key_tx_status(): the first message 1/4 was acknowledged.
TxStatus(s) ==
  /\ sm[s].pending_1_of_4_timeout
  /\ sm' = [sm EXCEPT ![s] = [sm[s] EXCEPT !.timers = 1]]
  /\ UNCHANGED <<wpa_group_state, GKeyDoneStations, gtk, txGtk, rekeyTimer>>
-----------------------------------------------------------------------------
(* Rekeying the GTK *)

\* wpa_group_setkeys(): a new GTK, and every station in PTKINITDONE is marked.
\* Where there is none, SETKEYSDONE follows at once.  A rekeying whose stations
\* have all answered or left ends first.
wpa_group_setkeys(m, S) ==
  LET count == Cardinality({s \in STA : Counted(m[s])})
      marked == [s \in STA |-> wpa_group_update_sta(m[s], gtk + 1)]
  IN /\ gtk' = gtk + 1
     /\ \/ /\ count > 0
           /\ wpa_group_state' = "SETKEYS" /\ sm' = marked
           /\ GKeyDoneStations' = count
           /\ txGtk' = IF wpa_group_state = "SETKEYS" /\ GKeyDoneStations = 0
                       THEN gtk ELSE txGtk
        \/ /\ count = 0
           /\ wpa_group_state' = "SETKEYSDONE" /\ sm' = marked
           /\ GKeyDoneStations' = count
           /\ txGtk' = gtk + 1
        \/ /\ count = 0
           /\ wpa_group_fatal_failure(marked, S, count)
           /\ UNCHANGED txGtk

\* The driver refuses the GTK of the rekeying that ends first.
wpa_group_setkeysdone_fails(m, S) ==
  /\ wpa_group_state = "SETKEYS" /\ GKeyDoneStations = 0
  /\ wpa_group_fatal_failure(m, S, GKeyDoneStations)
  /\ UNCHANGED <<gtk, txGtk>>

\* The stations are m, the handler is that of the station in S, if any.
wpa_rekey_all_groups(m, S) ==
  /\ wpa_group_state # "FATAL_FAILURE" /\ gtk < MaxGtk
  /\ \/ "overlap" \in Events
     \/ wpa_group_state = "SETKEYSDONE" \/ GKeyDoneStations = 0
  /\ wpa_group_setkeys(m, S) \/ wpa_group_setkeysdone_fails(m, S)

\* wpa_rekey_gtk(): the timeout registers itself again.
RekeyGtk == rekeyTimer /\ rekeyTimer' = TRUE /\ wpa_rekey_all_groups(sm, {})

\* wpa_receive() of a station's Request for a new GTK: the timeout is cancelled,
\* and the rekeying skipped if one is in process.  (A station marked for
\* disconnection just goes, as in Remove.)
ReceiveGtkRequest(s) ==
  LET m == [sm EXCEPT ![s] = MicVerified(@)]
  IN /\ "gtk_request" \in Events
     /\ sm[s].wpa_ptk_state = "PTKINITDONE" /\ sm[s].PTK_valid
     /\ ~sm[s].Disconnect
     /\ \/ /\ GKeyDoneStations # 0
           /\ sm' = m /\ rekeyTimer' = FALSE
           /\ UNCHANGED <<wpa_group_state, GKeyDoneStations, gtk, txGtk>>
        \/ /\ GKeyDoneStations = 0
           /\ rekeyTimer' = TRUE /\ wpa_rekey_all_groups(m, {s})
-----------------------------------------------------------------------------
(* WNM-Sleep Mode *)

WnmSleepEnter(s) ==
  /\ "wnm_sleep" \in Events
  /\ Present(s) /\ sm[s].wpa_ptk_state # "INITIALIZE"
  /\ sm' = [sm EXCEPT ![s] = [@ EXCEPT !.is_wnmsleep = TRUE,
                                       !.WNM_SLEEP_MODE = TRUE]]
  /\ UNCHANGED <<wpa_group_state, GKeyDoneStations, gtk, txGtk, rekeyTimer>>

\* wpa_wnmsleep_rekey_gtk().  The frame is taken from a station that is awake as
\* well.
WnmSleepExit(s) ==
  LET r == [sm[s] EXCEPT !.is_wnmsleep = FALSE, !.WNM_SLEEP_MODE = FALSE]
  IN /\ "wnm_sleep" \in Events
     /\ Present(s) /\ r.wpa_ptk_state # "INITIALIZE"
     /\ GKeyDoneStations <= Cardinality(STA)
     /\ IF Counted(r)
        THEN StaStep(s, wpa_group_update_sta(r, gtk), GKeyDoneStations + 1)
        ELSE /\ sm' = [sm EXCEPT ![s] = wpa_group_update_sta(r, gtk)]
             /\ UNCHANGED <<wpa_group_state, GKeyDoneStations, gtk, txGtk,
                            rekeyTimer>>
-----------------------------------------------------------------------------
StaEvent(s) ==
  \/ Associate(s) \/ Authenticate(s) \/ AssociateAgain(s) \/ Reassociate(s)
  \/ Disassociate(s) \/ Deauthenticate(s) \/ Remove(s)
  \/ ReceiveMsg2(s) \/ ReceiveMsg4(s) \/ RekeyPtk(s)
  \/ StaReceive(s) \/ ReceiveGroupMsg2(s) \/ Timeout(s) \/ TxStatus(s)
  \/ ReceiveGtkRequest(s) \/ WnmSleepEnter(s) \/ WnmSleepExit(s)

Next == RekeyGtk \/ \E s \in STA : StaEvent(s)

Spec == Init /\ [][Next]_vars

\* eloop runs every registered timeout; nothing else has to happen.
FairSpec == Spec /\ \A s \in STA : WF_vars(Timeout(s))
-----------------------------------------------------------------------------
TypeOK ==
  /\ wpa_group_state \in {"SETKEYS", "SETKEYSDONE", "FATAL_FAILURE"}
  /\ GKeyDoneStations \in Int /\ gtk \in Nat /\ txGtk \in Nat
  /\ rekeyTimer \in BOOLEAN
  /\ sm \in [STA -> StaState]

Marked == {s \in STA : sm[s].GUpdateStationKeys}

\* GKeyDoneStations, which is stepped by one in eight places and reset in one,
\* is the number of stations marked with GUpdateStationKeys
\* (wpa_group_update_gtk()).
DoneCount == GKeyDoneStations = Cardinality(Marked)

\* The driver goes over to a new GTK only when no station is left that was sent
\* the GTK and has not answered (wpa_group_sm_step()).
SwitchWaits ==
  [][txGtk' # txGtk => Marked' = {} \/ (txGtk' = gtk /\ Marked = {})]_vars

\* A station that has yet to answer a message 1/2 has a retransmission timeout
\* pending, so that it answers or is given up
\* (SM_STATE(WPA_PTK_GROUP, REKEYNEGOTIATING)).
UpdateIsTimed ==
  \A s \in Marked : sm[s].wpa_ptk_state = "PTKINITDONE" => sm[s].timers > 0

\* A station that is counted as done holds the GTK the group is changing to
\* (SM_STATE(WPA_PTK_GROUP, REKEYESTABLISHED)).
DoneMeansHasKey ==
  [][\A s \in STA : ReceiveGroupMsg2(s) => sm[s].staGtk = gtk]_vars

\* The GTK is rekeyed at an interval: the timeout is always registered
\* (wpa_rekey_gtk()).
RekeyScheduled == rekeyTimer

\* A station the authenticator leaves out of GTK rekeyings is in WNM-Sleep Mode
\* (wpa_set_wnmsleep()).
SleepMarkCurrent == \A s \in STA : sm[s].is_wnmsleep => sm[s].WNM_SLEEP_MODE

\* A rekeying ends: no station is left to answer (wpa_group_sm_step()).
RekeyEnds ==
  (wpa_group_state = "SETKEYS")
    ~> (wpa_group_state # "SETKEYS" \/ GKeyDoneStations = 0)
=============================================================================
