---------------------------- MODULE RsnGroupKeys ----------------------------
(***************************************************************************)
(* How a station of src/rsn_supp/wpa.c comes by its group keys: GTK, IGTK  *)
(* and, with beacon protection, BIGTK.  They arrive in message 3/4, in     *)
(* message 1/2 of the group key handshake, and in the response that ends   *)
(* WNM-Sleep Mode, all protected with the pairwise key (management frame   *)
(* protection is in use).  The access point may rekey, repeat a message or *)
(* let a response follow at any time, so that one key comes several times  *)
(* and in several kinds of frames.                                         *)
(*                                                                         *)
(* A key is the number of the rekeying that drew it.  Frames of one        *)
(* association are received in the order they were sent, if at all.        *)
(***************************************************************************)
EXTENDS Naturals

CONSTANTS beacon_prot,              \* whether BIGTKs are in use
          MaxKey, MaxFrames         \* bounds of the instance

ASSUME GroupKeyConstants == /\ beacon_prot \in BOOLEAN
                            /\ MaxKey \in Nat /\ MaxFrames \in Nat

GroupKeyKinds == {"GTK", "IGTK"} \cup (IF beacon_prot THEN {"BIGTK"} ELSE {})

\* Where the supplicant remembers a key: sm->gtk, igtk, bigtk, or the
\* corresponding *_wnm_sleep.
KeySlots == {"eapol", "wnm_sleep"}

GroupKeyFrame == [seq : Nat, type : {"3/4", "1/2", "wnm_exit"}, key : Nat]

VARIABLES groupKey,      \* the access point's current group keys (GTK[GN], ...)
          groupFrames,   \* what it sent in this association
          groupSta       \* the station

groupKeyVars == <<groupKey, groupFrames, groupSta>>

(***************************************************************************)
(* driver is the key of each kind the driver was given last, given all it  *)
(* was given in this association, again whether one of them came twice.    *)
(* answered is the key of the last message 3/4 or 1/2 that was answered.   *)
(***************************************************************************)
GroupKeySta ==
  [wpa_state : {"ASSOCIATED", "COMPLETED", "DISCONNECTED"},
   msg_3_of_4_ok : BOOLEAN, wnm_sleep_mode : BOOLEAN,
   known : [GroupKeyKinds -> [KeySlots -> Nat]],
   rx_seq : Nat,                         \* frames up to this one are past
   driver : [GroupKeyKinds -> Nat], given : [GroupKeyKinds -> SUBSET Nat],
   again : BOOLEAN, answered : Nat]

\* wpa_sm_notify_assoc() of a first association, wpa_sm_clear_ptk() included.
GroupKeyAssociation ==
  [wpa_state |-> "ASSOCIATED", msg_3_of_4_ok |-> FALSE, wnm_sleep_mode |-> FALSE,
   known |-> [k \in GroupKeyKinds |-> [s \in KeySlots |-> 0]], rx_seq |-> 0,
   driver |-> [k \in GroupKeyKinds |-> 0], given |-> [k \in GroupKeyKinds |-> {}],
   again |-> FALSE, answered |-> 0]

GroupKeysInit ==
  groupKey = 1 /\ groupFrames = {} /\ groupSta = GroupKeyAssociation

\* wpa_sm_deauthenticate(), and what the disconnection leaves.
GroupKeyDeauthenticated(s) ==
  [GroupKeyAssociation EXCEPT !.wpa_state = "DISCONNECTED", !.again = s.again]
-----------------------------------------------------------------------------
(* Installation of one key; ok are the driver's answers. *)

\* Mutant: only the key of the last EAPOL-Key frame is compared.
InUse_EapolOnly(s, k, g) == s.known[k]["eapol"] = g

\* "Detect possible key reinstallation".
InUse(s, k, g) == \E slot \in KeySlots : s.known[k][slot] = g

Installs(s, k, g, ok) == InUse(s, k, g) \/ ok[k]

\* wpa_supplicant_install_gtk(), _igtk() and _bigtk(), which do not fail.
wpa_supplicant_install_gtk(s, k, g, slot) ==
  IF InUse(s, k, g)
  THEN s
  ELSE [s EXCEPT !.known[k][slot] = g, !.driver[k] = g,
                 !.given[k] = @ \cup {g},
                 !.again = @ \/ g \in s.given[k]]

\* ieee80211w_set_keys(): the IGTK, then the BIGTK unless the IGTK failed.
SetKeysOk(s, g, ok) == \A k \in GroupKeyKinds \ {"GTK"} : Installs(s, k, g, ok)

ieee80211w_set_keys(s, g, ok) ==
  LET igtk == wpa_supplicant_install_gtk(s, "IGTK", g, "eapol")
  IN IF ~Installs(s, "IGTK", g, ok)
     THEN s
     ELSE IF ~beacon_prot \/ ~Installs(s, "BIGTK", g, ok)
     THEN igtk
     ELSE wpa_supplicant_install_gtk(igtk, "BIGTK", g, "eapol")
-----------------------------------------------------------------------------
(* The frames, in the order the handlers go through them. *)

\* Message 4/4 has gone out.  Each key has to be configured.
process_3_of_4(s, g, ok) ==
  IF ~(Installs(s, "GTK", g, ok) /\ SetKeysOk(s, g, ok))
  THEN GroupKeyDeauthenticated(s)
  ELSE [ieee80211w_set_keys(wpa_supplicant_install_gtk(s, "GTK", g, "eapol"),
                            g, ok)
        EXCEPT !.wpa_state = "COMPLETED", !.msg_3_of_4_ok = TRUE, !.answered = g]

\* Mutant: message 2/2 is sent before the driver is asked.
process_1_of_2_AnswerFirst(s, g, ok) ==
  LET m == ieee80211w_set_keys(s, g, ok)
  IN [(IF Installs(m, "GTK", g, ok)
       THEN wpa_supplicant_install_gtk(m, "GTK", g, "eapol") ELSE m)
      EXCEPT !.wpa_state = "COMPLETED", !.answered = g]

\* Only the GTK has to be configured; then message 2/2 goes out.
process_1_of_2(s, g, ok) ==
  LET m == ieee80211w_set_keys(s, g, ok)
  IN IF ~s.msg_3_of_4_ok \/ ~Installs(m, "GTK", g, ok)
     THEN GroupKeyDeauthenticated(s)
     ELSE [wpa_supplicant_install_gtk(m, "GTK", g, "eapol")
           EXCEPT !.wpa_state = "COMPLETED", !.answered = g]

\* wpa_wnmsleep_install_key() for every key of the response; a failure of one
\* is ignored.
wpa_wnmsleep_install_key(s, g, ok) ==
  LET One(r, k) == IF k \in GroupKeyKinds /\ Installs(r, k, g, ok)
                   THEN wpa_supplicant_install_gtk(r, k, g, "wnm_sleep") ELSE r
  IN One(One(One([s EXCEPT !.wnm_sleep_mode = FALSE], "GTK"), "IGTK"), "BIGTK")

\* A group key handshake in WNM-Sleep Mode is discarded, after its replay
\* counter was taken.
wpa_sm_rx_eapol(s, f, ok) ==
  CASE f.type = "3/4" -> process_3_of_4(s, f.key, ok)
    [] f.type = "1/2" -> IF s.wnm_sleep_mode THEN s
                         ELSE process_1_of_2(s, f.key, ok)
    [] f.type = "wnm_exit" -> IF s.wnm_sleep_mode
                              THEN wpa_wnmsleep_install_key(s, f.key, ok) ELSE s
-----------------------------------------------------------------------------
\* wpa_gtk_update(): all group keys of the access point are new.
GroupKeyRekey ==
  /\ groupKey < MaxKey
  /\ groupKey' = groupKey + 1
  /\ UNCHANGED <<groupFrames, groupSta>>

\* The access point sends its current keys, in any kind of frame; messages of
\* the group key handshake and WNM-Sleep Mode follow a message 3/4.
GroupKeySend(type) ==
  LET seq == 1 + (CHOOSE n \in 0 .. MaxFrames :
                    /\ \A f \in groupFrames : f.seq <= n
                    /\ n = 0 \/ \E f \in groupFrames : f.seq = n)
  IN /\ groupSta.wpa_state # "DISCONNECTED"
     /\ seq <= MaxFrames
     /\ type # "3/4" => \E f \in groupFrames : f.type = "3/4"
     /\ groupFrames' = groupFrames
                        \cup {[seq |-> seq, type |-> type, key |-> groupKey]}
     /\ UNCHANGED <<groupKey, groupSta>>

GroupKeyReceive ==
  \E f \in groupFrames, ok \in [GroupKeyKinds -> BOOLEAN] :
    /\ groupSta.wpa_state # "DISCONNECTED"
    /\ f.seq > groupSta.rx_seq
    /\ groupSta' = [wpa_sm_rx_eapol(groupSta, f, ok) EXCEPT !.rx_seq = f.seq]
    /\ UNCHANGED <<groupKey, groupFrames>>

\* wpa_sm_notify_wnm_sleep_mode(): the station falls asleep.
GroupKeySleep ==
  /\ groupSta.wpa_state = "COMPLETED" /\ ~groupSta.wnm_sleep_mode
  /\ groupSta' = [groupSta EXCEPT !.wnm_sleep_mode = TRUE]
  /\ UNCHANGED <<groupKey, groupFrames>>

\* The station associates again and forgets all keys; what was sent before is
\* under another pairwise key.
GroupKeyAssociate ==
  /\ groupFrames # {}
  /\ groupFrames' = {}
  /\ groupSta' = [GroupKeyAssociation EXCEPT !.again = groupSta.again]
  /\ UNCHANGED groupKey

GroupKeysNext ==
  \/ GroupKeyRekey \/ GroupKeyReceive \/ GroupKeySleep \/ GroupKeyAssociate
  \/ \E type \in {"3/4", "1/2", "wnm_exit"} : GroupKeySend(type)

GroupKeysSpec == GroupKeysInit /\ [][GroupKeysNext]_groupKeyVars
-----------------------------------------------------------------------------
\* No group key is handed to the driver a second time in an association, which
\* would reset its receive counters (wpa_supplicant_install_gtk()), whatever
\* mixture of handshakes and WNM-Sleep Mode exits brings it.
GroupKeyNotReinstalled == ~groupSta.again

\* When a station has answered with message 2/2, which lets the access point go
\* over to the GTK, its driver has that GTK or a later one
\* (wpa_supplicant_process_1_of_2()), and a station whose connection is complete
\* has a key of each kind (wpa_supplicant_process_3_of_4()), whichever key the
\* driver refused on the way.
AnsweredIsInstalled ==
  /\ groupSta.driver["GTK"] >= groupSta.answered
  /\ groupSta.wpa_state = "COMPLETED" =>
       \A k \in GroupKeyKinds : groupSta.driver[k] > 0
=============================================================================
