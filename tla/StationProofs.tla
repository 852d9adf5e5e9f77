--------------------------- MODULE StationProofs ----------------------------
(***************************************************************************)
(* For every number of rekeyings and frames, every mixture of message 3/4, *)
(* group key handshakes and WNM-Sleep Mode exits, and every answer of the  *)
(* driver: no group key is handed to the driver a second time, and what    *)
(* the station has answered is installed.                                  *)
(*                                                                         *)
(* InUse compares a key with the two last ones only, so it is no reason    *)
(* by itself that a key is new to the driver.  The reason is that keys     *)
(* only get newer: among all keys the driver was given only the newest can *)
(* come again, and one of the two slots always holds that one.             *)
(***************************************************************************)
EXTENDS RsnGroupKeys, SaQuery, Sae, TLAPS

\* The newest key the driver has of a kind is in one of the two slots, the
\* other slot is no newer, and nothing newer was ever given.
NewestKnown(s, k) ==
  /\ \E slot \in KeySlots : s.known[k][slot] = s.driver[k]
  /\ \A slot \in KeySlots : s.known[k][slot] <= s.driver[k]
  /\ \A g \in s.given[k] : g <= s.driver[k]

\* The station's own part of the invariant.
StaKeysInv(s) ==
  /\ s \in GroupKeySta
  /\ ~s.again
  /\ \A k \in GroupKeyKinds : NewestKnown(s, k)
  /\ s.driver["GTK"] >= s.answered
  /\ s.wpa_state = "COMPLETED" \/ s.msg_3_of_4_ok =>
       \A k \in GroupKeyKinds : s.driver[k] > 0

\* No key of the station is newer than g.
NoneNewer(s, g) == \A k \in GroupKeyKinds : s.driver[k] <= g

\* Later frames carry the same key or a later one.
FramesInOrder ==
  \A e, f \in groupFrames : e.seq <= f.seq => e.key <= f.key

\* What GroupKeySend numbers its frame after.
LastFrame(n) ==
  /\ \A f \in groupFrames : f.seq <= n
  /\ n = 0 \/ \E f \in groupFrames : f.seq = n

GroupKeysInv ==
  /\ groupKey \in Nat \ {0}
  /\ groupFrames \subseteq GroupKeyFrame
  /\ \A f \in groupFrames : f.key \in 1 .. groupKey
  /\ FramesInOrder
  /\ \E n \in 0 .. MaxFrames : LastFrame(n)
  /\ StaKeysInv(groupSta)
  /\ NoneNewer(groupSta, groupKey)
  /\ \A f \in groupFrames : f.seq > groupSta.rx_seq => NoneNewer(groupSta, f.key)
-----------------------------------------------------------------------------
\* What one installation keeps: it is applied to a key that nothing is newer
\* than.  r is the state after it.
Grown(s, r, g) ==
  /\ StaKeysInv(r) /\ NoneNewer(r, g)
  /\ \A k \in GroupKeyKinds : r.driver[k] >= s.driver[k]
  /\ r.rx_seq = s.rx_seq /\ r.wpa_state = s.wpa_state
  /\ r.msg_3_of_4_ok = s.msg_3_of_4_ok /\ r.wnm_sleep_mode = s.wnm_sleep_mode

\* Which kinds of keys there are.
LEMMA KindsFact == /\ "GTK" \in GroupKeyKinds /\ "IGTK" \in GroupKeyKinds
                   /\ beacon_prot <=> "BIGTK" \in GroupKeyKinds
  BY GroupKeyConstants DEF GroupKeyKinds

\* The functions an installation updates keep their types.
LEMMA InstallTyped ==
  ASSUME NEW s \in GroupKeySta, NEW k \in GroupKeyKinds, NEW g \in Nat,
         NEW slot \in KeySlots
  PROVE  wpa_supplicant_install_gtk(s, k, g, slot) \in GroupKeySta
<1>1. CASE InUse(s, k, g) BY <1>1 DEF wpa_supplicant_install_gtk
<1>2. CASE ~InUse(s, k, g)
  <2> DEFINE kn == [s.known EXCEPT ![k][slot] = g]
             dr == [s.driver EXCEPT ![k] = g]
             gi == [s.given EXCEPT ![k] = @ \cup {g}]
             ag == s.again \/ g \in s.given[k]
  <2>1. kn \in [GroupKeyKinds -> [KeySlots -> Nat]] BY DEF GroupKeySta
  <2>2. dr \in [GroupKeyKinds -> Nat] BY DEF GroupKeySta
  <2>3. gi \in [GroupKeyKinds -> SUBSET Nat] BY DEF GroupKeySta
  <2>4. ag \in BOOLEAN BY DEF GroupKeySta
  <2>5. wpa_supplicant_install_gtk(s, k, g, slot)
          = [s EXCEPT !.known = kn, !.driver = dr, !.given = gi, !.again = ag]
    BY <1>2 DEF wpa_supplicant_install_gtk, GroupKeySta
  <2> HIDE DEF kn, dr, gi, ag
  <2> QED BY <2>1, <2>2, <2>3, <2>4, <2>5 DEF GroupKeySta
<1> QED BY <1>1, <1>2

\* A key nothing is newer than is installed once: if the driver was given it
\* before, it is the newest, and a slot holds it.
LEMMA Install ==
  ASSUME NEW s, StaKeysInv(s), NEW k \in GroupKeyKinds, NEW g \in Nat \ {0},
         NEW slot \in KeySlots, NoneNewer(s, g)
  PROVE  LET r == wpa_supplicant_install_gtk(s, k, g, slot)
         IN /\ Grown(s, r, g) /\ r.driver[k] >= g
            /\ \A j \in GroupKeyKinds \ {k} : r.known[j] = s.known[j]
<1> DEFINE r == wpa_supplicant_install_gtk(s, k, g, slot)
<1> SUFFICES /\ Grown(s, r, g) /\ r.driver[k] >= g
             /\ \A j \in GroupKeyKinds \ {k} : r.known[j] = s.known[j]
  OBVIOUS
<1>1. s \in GroupKeySta BY DEF StaKeysInv
<1>2. r \in GroupKeySta BY <1>1, InstallTyped
<1>3. CASE InUse(s, k, g)
  <2>1. r = s BY <1>3 DEF wpa_supplicant_install_gtk
  <2>2. s.driver[k] >= g
    BY <1>1, <1>3 DEF InUse, StaKeysInv, NewestKnown, GroupKeySta
  <2> HIDE DEF r
  <2> QED BY <1>1, <2>1, <2>2 DEF Grown, GroupKeySta
<1>4. CASE ~InUse(s, k, g)
  <2>1. g \notin s.given[k]
    <3> SUFFICES ASSUME g \in s.given[k] PROVE FALSE OBVIOUS
    <3>1. s.driver[k] = g
      BY <1>1 DEF StaKeysInv, NewestKnown, NoneNewer, GroupKeySta
    <3> QED BY <3>1, <1>4 DEF InUse, StaKeysInv, NewestKnown
  <2>2. /\ r.known[k] = [s.known[k] EXCEPT ![slot] = g]
        /\ r.driver = [s.driver EXCEPT ![k] = g]
        /\ r.given[k] = s.given[k] \cup {g}
        /\ \A j \in GroupKeyKinds \ {k} : /\ r.known[j] = s.known[j]
                                           /\ r.given[j] = s.given[j]
        /\ r.again = (s.again \/ g \in s.given[k])
        /\ r.rx_seq = s.rx_seq /\ r.wpa_state = s.wpa_state
        /\ r.msg_3_of_4_ok = s.msg_3_of_4_ok
        /\ r.wnm_sleep_mode = s.wnm_sleep_mode /\ r.answered = s.answered
    BY <1>1, <1>4 DEF wpa_supplicant_install_gtk, GroupKeySta
  <2> HIDE DEF r
  <2>3. ~r.again BY <2>1, <2>2 DEF StaKeysInv
  <2>4. \A j \in GroupKeyKinds : /\ r.driver[j] >= s.driver[j]
                                 /\ r.driver[j] <= g
                                 /\ r.driver[j] \in Nat
    BY <1>1, <2>2 DEF NoneNewer, GroupKeySta
  <2>5. r.driver[k] = g BY <1>1, <2>2 DEF GroupKeySta
  <2>6. ASSUME NEW j \in GroupKeyKinds PROVE NewestKnown(r, j)
    <3>1. CASE j = k
      <4>1. r.known[k][slot] = g /\ \A z \in KeySlots \ {slot} : r.known[k][z] = s.known[k][z]
        BY <1>1, <2>2 DEF GroupKeySta
      <4>2. \A z \in KeySlots : s.known[k][z] \in Nat /\ s.known[k][z] <= g
        BY <1>1 DEF GroupKeySta, StaKeysInv, NewestKnown, NoneNewer
      <4>3. \A h \in s.given[k] : h <= g
        BY <1>1 DEF GroupKeySta, StaKeysInv, NewestKnown, NoneNewer
      <4> QED BY <3>1, <4>1, <4>2, <4>3, <2>2, <2>5 DEF NewestKnown
    <3>2. CASE j # k
      <4>1. r.driver[j] = s.driver[j] BY <1>1, <2>2, <3>2 DEF GroupKeySta
      <4> QED BY <2>2, <3>2, <4>1 DEF NewestKnown, StaKeysInv
    <3> QED BY <3>1, <3>2
  <2>7. r.driver["GTK"] >= r.answered
    BY <1>1, <2>2, <2>4, KindsFact DEF StaKeysInv, GroupKeySta
  <2>8. r.wpa_state = "COMPLETED" \/ r.msg_3_of_4_ok =>
          \A j \in GroupKeyKinds : r.driver[j] > 0
    BY <1>1, <2>2, <2>4 DEF StaKeysInv, GroupKeySta
  <2>9. StaKeysInv(r) BY <1>2, <2>3, <2>6, <2>7, <2>8 DEF StaKeysInv
  <2> QED BY <2>2, <2>4, <2>5, <2>9 DEF Grown, NoneNewer
<1> QED BY <1>3, <1>4

\* IGTK and BIGTK; when the function succeeds both are in the driver.
LEMMA SetKeys ==
  ASSUME NEW s, StaKeysInv(s), NEW g \in Nat \ {0}, NoneNewer(s, g),
         NEW ok \in [GroupKeyKinds -> BOOLEAN]
  PROVE  LET r == ieee80211w_set_keys(s, g, ok)
         IN /\ Grown(s, r, g)
            /\ SetKeysOk(s, g, ok) =>
                 \A k \in GroupKeyKinds \ {"GTK"} : r.driver[k] >= g
<1> DEFINE igtk == wpa_supplicant_install_gtk(s, "IGTK", g, "eapol")
           bigtk == wpa_supplicant_install_gtk(igtk, "BIGTK", g, "eapol")
           r == ieee80211w_set_keys(s, g, ok)
<1> SUFFICES /\ Grown(s, r, g)
             /\ SetKeysOk(s, g, ok) =>
                  \A k \in GroupKeyKinds \ {"GTK"} : r.driver[k] >= g
  OBVIOUS
<1>1. "eapol" \in KeySlots BY DEF KeySlots
<1>2. Grown(s, igtk, g) /\ igtk.driver["IGTK"] >= g
  BY <1>1, Install, KindsFact
<1>3. r = IF ~Installs(s, "IGTK", g, ok) THEN s
          ELSE IF ~beacon_prot \/ ~Installs(s, "BIGTK", g, ok) THEN igtk ELSE bigtk
  BY DEF ieee80211w_set_keys
<1>4. Grown(s, s, g) BY DEF Grown, StaKeysInv, GroupKeySta
<1> HIDE DEF r, igtk
<1>5. CASE ~Installs(s, "IGTK", g, ok)
  BY <1>3, <1>4, <1>5, KindsFact DEF SetKeysOk
<1>6. CASE Installs(s, "IGTK", g, ok) /\ (~beacon_prot \/ ~Installs(s, "BIGTK", g, ok))
  <2>1. r = igtk BY <1>3, <1>6
  <2>2. ~beacon_prot => GroupKeyKinds \ {"GTK"} = {"IGTK"}
    BY DEF GroupKeyKinds
  <2>3. beacon_prot => ~SetKeysOk(s, g, ok) BY <1>6, KindsFact DEF SetKeysOk
  <2> QED BY <1>2, <2>1, <2>2, <2>3
<1>7. CASE Installs(s, "IGTK", g, ok) /\ beacon_prot /\ Installs(s, "BIGTK", g, ok)
  <2>1. r = bigtk BY <1>3, <1>7
  <2>2. Grown(igtk, bigtk, g) /\ bigtk.driver["BIGTK"] >= g
    BY <1>1, <1>2, <1>7, Install, KindsFact DEF Grown
  <2> HIDE DEF bigtk
  <2>3. GroupKeyKinds \ {"GTK"} = {"IGTK", "BIGTK"}
    BY <1>7 DEF GroupKeyKinds
  <2>4. \A k \in GroupKeyKinds : /\ s.driver[k] \in Nat /\ igtk.driver[k] \in Nat
                                 /\ bigtk.driver[k] \in Nat
    BY <1>2, <2>2 DEF Grown, StaKeysInv, GroupKeySta
  <2>5. \A k \in GroupKeyKinds : bigtk.driver[k] >= s.driver[k]
    BY <1>2, <2>2, <2>4 DEF Grown
  <2>6. bigtk.driver["IGTK"] >= g
    BY <1>2, <2>2, <2>4, KindsFact DEF Grown
  <2>7. Grown(s, bigtk, g) BY <1>2, <2>2, <2>5 DEF Grown
  <2> QED BY <2>1, <2>2, <2>3, <2>6, <2>7
<1> QED BY <1>5, <1>6, <1>7

\* A disconnection leaves nothing behind.
LEMMA Deauthenticated ==
  ASSUME NEW s, StaKeysInv(s), NEW g \in Nat
  PROVE  /\ StaKeysInv(GroupKeyDeauthenticated(s))
         /\ NoneNewer(GroupKeyDeauthenticated(s), g)
         /\ StaKeysInv([GroupKeyAssociation EXCEPT !.again = s.again])
         /\ NoneNewer([GroupKeyAssociation EXCEPT !.again = s.again], g)
<1> DEFINE Fresh(state) ==
             [GroupKeyAssociation EXCEPT !.wpa_state = state, !.again = s.again]
<1>1. s.again = FALSE BY DEF StaKeysInv, GroupKeySta
<1>2. ASSUME NEW state \in {"ASSOCIATED", "DISCONNECTED"}
      PROVE  StaKeysInv(Fresh(state)) /\ NoneNewer(Fresh(state), g)
  <2> DEFINE r == Fresh(state)
  <2>1. /\ r.known = [k \in GroupKeyKinds |-> [z \in KeySlots |-> 0]]
        /\ r.driver = [k \in GroupKeyKinds |-> 0]
        /\ r.given = [k \in GroupKeyKinds |-> {}]
        /\ r.again = FALSE /\ r.answered = 0 /\ r.wpa_state = state
        /\ r.msg_3_of_4_ok = FALSE
    BY <1>1 DEF GroupKeyAssociation
  <2>2. r \in GroupKeySta BY <1>1 DEF GroupKeyAssociation, GroupKeySta
  <2> HIDE DEF r
  <2>3. \A k \in GroupKeyKinds : NewestKnown(r, k)
    BY <2>1 DEF NewestKnown, KeySlots
  <2>4. StaKeysInv(r) BY <2>1, <2>2, <2>3, KindsFact DEF StaKeysInv
  <2>5. NoneNewer(r, g) BY <2>1 DEF NoneNewer
  <2> QED BY <2>4, <2>5 DEF r
<1>3. GroupKeyDeauthenticated(s) = Fresh("DISCONNECTED")
  BY DEF GroupKeyDeauthenticated
<1>4. [GroupKeyAssociation EXCEPT !.again = s.again] = Fresh("ASSOCIATED")
  <2>1. /\ GroupKeyAssociation.wpa_state = "ASSOCIATED"
        /\ GroupKeyAssociation \in GroupKeySta
    BY DEF GroupKeyAssociation, GroupKeySta
  <2> QED BY <2>1 DEF GroupKeySta
<1> HIDE DEF Fresh
<1> QED BY <1>2, <1>3, <1>4

\* What is left of a handler once the keys are in the driver.
Answered(s, g) ==
  [s EXCEPT !.wpa_state = "COMPLETED", !.msg_3_of_4_ok = TRUE, !.answered = g]

\* The answer may go out when every key is in the driver.
LEMMA Answer ==
  ASSUME NEW s, StaKeysInv(s), NEW g \in Nat, NoneNewer(s, g),
         s.driver["GTK"] >= g, \A k \in GroupKeyKinds : s.driver[k] > 0
  PROVE  StaKeysInv(Answered(s, g)) /\ NoneNewer(Answered(s, g), g)
  BY DEF Answered, StaKeysInv, NoneNewer, NewestKnown, GroupKeySta

\* Message 3/4: all keys are in the driver or the connection is torn down.
LEMMA Process3 ==
  ASSUME NEW s, StaKeysInv(s), NEW g \in Nat \ {0}, NoneNewer(s, g),
         NEW ok \in [GroupKeyKinds -> BOOLEAN]
  PROVE  /\ StaKeysInv(process_3_of_4(s, g, ok))
         /\ NoneNewer(process_3_of_4(s, g, ok), g)
<1>1. CASE ~(Installs(s, "GTK", g, ok) /\ SetKeysOk(s, g, ok))
  BY <1>1, Deauthenticated DEF process_3_of_4
<1>2. CASE Installs(s, "GTK", g, ok) /\ SetKeysOk(s, g, ok)
  <2> DEFINE a == wpa_supplicant_install_gtk(s, "GTK", g, "eapol")
             b == ieee80211w_set_keys(a, g, ok)
  <2>1. /\ Grown(s, a, g) /\ a.driver["GTK"] >= g
        /\ \A j \in GroupKeyKinds \ {"GTK"} : a.known[j] = s.known[j]
    BY Install, KindsFact DEF KeySlots
  <2>2. process_3_of_4(s, g, ok) = Answered(b, g)
    BY <1>2 DEF process_3_of_4, Answered
  <2> HIDE DEF a
  <2>3. SetKeysOk(a, g, ok) BY <1>2, <2>1 DEF SetKeysOk, Installs, InUse
  <2>4. Grown(a, b, g) /\ \A k \in GroupKeyKinds \ {"GTK"} : b.driver[k] >= g
    BY <2>1, <2>3, SetKeys DEF Grown
  <2> HIDE DEF b
  <2>5. \A k \in GroupKeyKinds : a.driver[k] \in Nat /\ b.driver[k] \in Nat
    BY <2>1, <2>4 DEF Grown, StaKeysInv, GroupKeySta
  <2>6. b.driver["GTK"] >= g BY <2>1, <2>4, <2>5, KindsFact DEF Grown
  <2>7. \A k \in GroupKeyKinds : b.driver[k] > 0 BY <2>4, <2>5, <2>6
  <2>8. StaKeysInv(b) /\ NoneNewer(b, g) BY <2>4 DEF Grown
  <2> QED BY <2>2, <2>6, <2>7, <2>8, Answer
<1> QED BY <1>1, <1>2

\* Message 1/2 of the group key handshake: the GTK is in the driver before the
\* answer goes out.
LEMMA Process1 ==
  ASSUME NEW s, StaKeysInv(s), NEW g \in Nat \ {0}, NoneNewer(s, g),
         NEW ok \in [GroupKeyKinds -> BOOLEAN]
  PROVE  /\ StaKeysInv(process_1_of_2(s, g, ok))
         /\ NoneNewer(process_1_of_2(s, g, ok), g)
<1> DEFINE m == ieee80211w_set_keys(s, g, ok)
           a == wpa_supplicant_install_gtk(m, "GTK", g, "eapol")
<1>1. CASE ~s.msg_3_of_4_ok \/ ~Installs(m, "GTK", g, ok)
  BY <1>1, Deauthenticated DEF process_1_of_2
<1>2. CASE s.msg_3_of_4_ok /\ Installs(m, "GTK", g, ok)
  <2>1. process_1_of_2(s, g, ok) = [a EXCEPT !.wpa_state = "COMPLETED", !.answered = g]
    BY <1>2 DEF process_1_of_2
  <2>2. Grown(s, m, g) BY SetKeys
  <2> HIDE DEF m
  <2>3. Grown(m, a, g) /\ a.driver["GTK"] >= g
    BY <2>2, Install, KindsFact DEF KeySlots, Grown
  <2> HIDE DEF a
  <2>4. StaKeysInv(a) /\ NoneNewer(a, g) /\ a.msg_3_of_4_ok
    BY <1>2, <2>2, <2>3 DEF Grown
  <2>5. a.msg_3_of_4_ok \in BOOLEAN /\ a \in GroupKeySta
    BY <2>4 DEF StaKeysInv, GroupKeySta
  <2>6. [a EXCEPT !.wpa_state = "COMPLETED", !.answered = g]
          = Answered(a, g)
    BY <2>4, <2>5 DEF GroupKeySta, Answered
  <2>7. \A k \in GroupKeyKinds : a.driver[k] > 0 BY <2>4 DEF StaKeysInv
  <2> QED BY <2>1, <2>3, <2>4, <2>6, <2>7, Answer
<1> QED BY <1>1, <1>2

\* The response that ends WNM-Sleep Mode: each key by itself.
LEMMA SleepExit ==
  ASSUME NEW s, StaKeysInv(s), NEW g \in Nat \ {0}, NoneNewer(s, g),
         NEW ok \in [GroupKeyKinds -> BOOLEAN]
  PROVE  /\ StaKeysInv(wpa_wnmsleep_install_key(s, g, ok))
         /\ NoneNewer(wpa_wnmsleep_install_key(s, g, ok), g)
<1> DEFINE One(q, k) ==
             IF k \in GroupKeyKinds /\ Installs(q, k, g, ok)
             THEN wpa_supplicant_install_gtk(q, k, g, "wnm_sleep") ELSE q
           Good(q) == StaKeysInv(q) /\ NoneNewer(q, g)
           awake == [s EXCEPT !.wnm_sleep_mode = FALSE]
<1>1. Good(awake)
  BY DEF StaKeysInv, NoneNewer, NewestKnown, GroupKeySta
<1>2. ASSUME NEW q, Good(q), NEW k PROVE Good(One(q, k))
  <2>1. CASE k \in GroupKeyKinds /\ Installs(q, k, g, ok)
    BY <1>2, <2>1, Install DEF KeySlots, Grown
  <2> QED BY <1>2, <2>1
<1>3. wpa_wnmsleep_install_key(s, g, ok)
        = One(One(One(awake, "GTK"), "IGTK"), "BIGTK")
  BY DEF wpa_wnmsleep_install_key
<1> HIDE DEF One, Good, awake
<1>4. Good(One(awake, "GTK")) BY <1>1, <1>2
<1>5. Good(One(One(awake, "GTK"), "IGTK")) BY <1>2, <1>4
<1>6. Good(One(One(One(awake, "GTK"), "IGTK"), "BIGTK")) BY <1>2, <1>5
<1> QED BY <1>3, <1>6 DEF Good

\* Every frame.
LEMMA RxFrame ==
  ASSUME NEW s, StaKeysInv(s), NEW f \in GroupKeyFrame, f.key # 0,
         NoneNewer(s, f.key), NEW ok \in [GroupKeyKinds -> BOOLEAN]
  PROVE  /\ StaKeysInv(wpa_sm_rx_eapol(s, f, ok))
         /\ NoneNewer(wpa_sm_rx_eapol(s, f, ok), f.key)
<1>1. f.key \in Nat \ {0} BY DEF GroupKeyFrame
<1>2. CASE f.type = "3/4" BY <1>1, <1>2, Process3 DEF wpa_sm_rx_eapol
<1>3. CASE f.type = "1/2" BY <1>1, <1>3, Process1 DEF wpa_sm_rx_eapol
<1>4. CASE f.type = "wnm_exit" BY <1>1, <1>4, SleepExit DEF wpa_sm_rx_eapol
<1> QED BY <1>2, <1>3, <1>4 DEF GroupKeyFrame
-----------------------------------------------------------------------------
\* Nothing was sent or received yet.
LEMMA KeysInit == GroupKeysInit => GroupKeysInv
<1> SUFFICES ASSUME GroupKeysInit PROVE GroupKeysInv OBVIOUS
<1>1. StaKeysInv(GroupKeyAssociation) /\ NoneNewer(GroupKeyAssociation, 1)
  <2> DEFINE r == GroupKeyAssociation
  <2>1. r \in GroupKeySta BY DEF GroupKeyAssociation, GroupKeySta
  <2>2. /\ r.known = [k \in GroupKeyKinds |-> [z \in KeySlots |-> 0]]
        /\ r.driver = [k \in GroupKeyKinds |-> 0]
        /\ r.given = [k \in GroupKeyKinds |-> {}]
        /\ r.again = FALSE /\ r.answered = 0 /\ r.wpa_state = "ASSOCIATED"
        /\ r.msg_3_of_4_ok = FALSE
    BY DEF GroupKeyAssociation
  <2> HIDE DEF r
  <2>3. \A k \in GroupKeyKinds : NewestKnown(r, k)
    BY <2>2 DEF NewestKnown, KeySlots
  <2>4. StaKeysInv(r) BY <2>1, <2>2, <2>3, KindsFact DEF StaKeysInv
  <2> QED BY <2>2, <2>4 DEF NoneNewer, r
<1>2. LastFrame(0) /\ 0 \in 0 .. MaxFrames
  BY GroupKeyConstants DEF GroupKeysInit, LastFrame
<1> QED BY <1>1, <1>2 DEF GroupKeysInit, GroupKeysInv, FramesInOrder

\* A new frame comes after all others and carries the newest key.
LEMMA SendStep ==
  ASSUME GroupKeysInv, NEW type \in {"3/4", "1/2", "wnm_exit"}, GroupKeySend(type)
  PROVE  GroupKeysInv'
<1> DEFINE n == CHOOSE i \in 0 .. MaxFrames : LastFrame(i)
           e == [seq |-> 1 + n, type |-> type, key |-> groupKey]
<1>1. n \in 0 .. MaxFrames /\ LastFrame(n) BY DEF GroupKeysInv
<1>2. /\ 1 + n <= MaxFrames /\ groupFrames' = groupFrames \cup {e}
      /\ groupKey' = groupKey /\ groupSta' = groupSta
  BY DEF GroupKeySend, LastFrame
<1> HIDE DEF n
<1>3. n \in Nat /\ groupKey \in Nat BY <1>1, GroupKeyConstants DEF GroupKeysInv
<1>4. \A f \in groupFrames : f.seq \in Nat /\ f.seq < e.seq /\ f.key <= e.key
                             /\ f.key \in Nat
  BY <1>1, <1>3 DEF LastFrame, GroupKeysInv, GroupKeyFrame
<1>5. FramesInOrder' BY <1>2, <1>3, <1>4 DEF FramesInOrder, GroupKeysInv
<1>6. (\E i \in 0 .. MaxFrames : LastFrame(i))'
  <2>1. 1 + n \in 0 .. MaxFrames BY <1>2, <1>3, GroupKeyConstants
  <2>2. \A f \in groupFrames' : f.seq <= 1 + n BY <1>2, <1>3, <1>4
  <2>3. e \in groupFrames' /\ e.seq = 1 + n BY <1>2
  <2> QED BY <2>1, <2>2, <2>3 DEF LastFrame
<1>7. groupFrames' \subseteq GroupKeyFrame /\ \A f \in groupFrames' : f.key \in 1 .. groupKey'
  BY <1>2, <1>3 DEF GroupKeysInv, GroupKeyFrame
<1>8. \A f \in groupFrames' : f.seq > groupSta'.rx_seq => NoneNewer(groupSta', f.key)
  BY <1>2 DEF GroupKeysInv
<1> QED BY <1>2, <1>5, <1>6, <1>7, <1>8 DEF GroupKeysInv

\* The frames after the one received are no older than what it brought.
LEMMA ReceiveStep ==
  ASSUME GroupKeysInv, GroupKeyReceive
  PROVE  GroupKeysInv'
<1>1. PICK f \in groupFrames, ok \in [GroupKeyKinds -> BOOLEAN] :
        /\ f.seq > groupSta.rx_seq
        /\ groupSta' = [wpa_sm_rx_eapol(groupSta, f, ok) EXCEPT !.rx_seq = f.seq]
        /\ UNCHANGED <<groupKey, groupFrames>>
  BY DEF GroupKeyReceive
<1> DEFINE r == wpa_sm_rx_eapol(groupSta, f, ok)
<1>2. f \in GroupKeyFrame /\ f.key \in 1 .. groupKey /\ NoneNewer(groupSta, f.key)
  BY <1>1 DEF GroupKeysInv
<1>3. StaKeysInv(r) /\ NoneNewer(r, f.key)
  BY <1>2, RxFrame DEF GroupKeysInv
<1>4. groupSta' = [r EXCEPT !.rx_seq = f.seq] BY <1>1
<1> HIDE DEF r
<1>5. /\ StaKeysInv(groupSta') /\ NoneNewer(groupSta', f.key)
      /\ groupSta'.rx_seq = f.seq
  BY <1>2, <1>3, <1>4 DEF StaKeysInv, NoneNewer, NewestKnown, GroupKeySta, GroupKeyFrame
<1>6. ASSUME NEW g \in Nat, f.key <= g PROVE NoneNewer(groupSta', g)
  BY <1>2, <1>5, <1>6 DEF NoneNewer, StaKeysInv, GroupKeySta, GroupKeyFrame
<1>7. NoneNewer(groupSta', groupKey') BY <1>1, <1>2, <1>6 DEF GroupKeysInv
<1>8. \A e \in groupFrames' : e.seq > groupSta'.rx_seq => NoneNewer(groupSta', e.key)
  BY <1>1, <1>2, <1>5, <1>6 DEF GroupKeysInv, FramesInOrder, GroupKeyFrame
<1>9. FramesInOrder' /\ (\E n \in 0 .. MaxFrames : LastFrame(n))'
  BY <1>1 DEF GroupKeysInv, FramesInOrder, LastFrame
<1> QED BY <1>1, <1>5, <1>7, <1>8, <1>9 DEF GroupKeysInv

\* Every step keeps the invariant.
LEMMA KeysStep == GroupKeysInv /\ [GroupKeysNext]_groupKeyVars => GroupKeysInv'
<1> SUFFICES ASSUME GroupKeysInv, [GroupKeysNext]_groupKeyVars PROVE GroupKeysInv'
  OBVIOUS
<1>1. CASE GroupKeyRekey
  <2>1. NoneNewer(groupSta, groupKey + 1)
    BY DEF GroupKeysInv, NoneNewer, StaKeysInv, GroupKeySta
  <2> QED BY <1>1, <2>1 DEF GroupKeyRekey, GroupKeysInv, FramesInOrder, LastFrame
<1>2. CASE GroupKeyReceive BY <1>2, ReceiveStep
<1>3. CASE GroupKeySleep
  <2>1. /\ groupSta' = [groupSta EXCEPT !.wnm_sleep_mode = TRUE]
        /\ groupKey' = groupKey /\ groupFrames' = groupFrames
    BY <1>3 DEF GroupKeySleep
  <2>2. /\ StaKeysInv(groupSta') /\ groupSta'.rx_seq = groupSta.rx_seq
        /\ groupSta'.driver = groupSta.driver
    BY <2>1 DEF GroupKeysInv, StaKeysInv, NewestKnown, GroupKeySta
  <2> QED BY <2>1, <2>2 DEF GroupKeysInv, NoneNewer, FramesInOrder, LastFrame
<1>4. CASE GroupKeyAssociate
  <2>1. StaKeysInv(groupSta') /\ NoneNewer(groupSta', groupKey')
    BY <1>4, Deauthenticated DEF GroupKeyAssociate, GroupKeysInv
  <2>2. LastFrame(0)' /\ 0 \in 0 .. MaxFrames
    BY <1>4, GroupKeyConstants DEF GroupKeyAssociate, LastFrame
  <2> QED BY <1>4, <2>1, <2>2 DEF GroupKeyAssociate, GroupKeysInv, FramesInOrder
<1>5. CASE \E type \in {"3/4", "1/2", "wnm_exit"} : GroupKeySend(type)
  BY <1>5, SendStep
<1>6. CASE UNCHANGED groupKeyVars
  BY <1>6 DEF groupKeyVars, GroupKeysInv, FramesInOrder, LastFrame
<1> QED BY <1>1, <1>2, <1>3, <1>4, <1>5, <1>6 DEF GroupKeysNext

\* The invariant holds in every reachable state.
LEMMA KeysInvariant == GroupKeysSpec => []GroupKeysInv
  BY KeysInit, KeysStep, PTL DEF GroupKeysSpec

\* The driver is given no group key twice in one association
\* (wpa_supplicant_install_gtk, _igtk, _bigtk), though the code remembers only
\* the two last keys of each kind.
THEOREM GroupKeysNotReinstalled == GroupKeysSpec => []GroupKeyNotReinstalled
<1>1. GroupKeysInv => GroupKeyNotReinstalled
  BY DEF GroupKeysInv, StaKeysInv, GroupKeyNotReinstalled
<1> QED BY <1>1, KeysInvariant, PTL

\* What the station answered is in the driver, and a complete connection has a
\* key of every kind (wpa_supplicant_process_3_of_4, _process_1_of_2).
THEOREM AnswersAreInstalled == GroupKeysSpec => []AnsweredIsInstalled
<1>1. GroupKeysInv => AnsweredIsInstalled
  BY DEF GroupKeysInv, StaKeysInv, AnsweredIsInstalled
<1> QED BY <1>1, KeysInvariant, PTL

-----------------------------------------------------------------------------
(***************************************************************************)
(* For every number of retries, disturbances and frames in flight: an      *)
(* association request displaces the keys of a station that has them too   *)
(* only after an SA Query about these keys timed out, and a query that is  *)
(* running always has its retry timer.                                     *)
(*                                                                         *)
(* The code keeps one flag, sta->sa_query_timed_out, for whatever          *)
(* association the station has.  The invariant says what the flag stands   *)
(* for: the verdict about the association that is in force.                *)
(***************************************************************************)

SaNumbers == 0 .. MaxSa
QueryCounts == 0 .. SaQueryRounds

ApSaState == [sa : SaNumbers, count : QueryCounts, proc : Nat,
              timer : BOOLEAN, timed_out : BOOLEAN, verdict : SaNumbers]

StaSaState == [sa : SaNumbers, count : QueryCounts, proc : Nat, timer : BOOLEAN]

\* A flag that is set is about the SA in force.
VerdictInForce(a) == a.timed_out /\ a.sa # 0 => a.verdict = a.sa

\* A query that is running has its timer: check_sa_query() and
\* sme_event_unprot_disconnect() start no other.
QueryTimed(q) == q.count > 0 => q.timer

ApSaInv(a) == a \in ApSaState /\ VerdictInForce(a) /\ QueryTimed(a)

StaSaInv(s) == s \in StaSaState /\ QueryTimed(s)

SaQueryInv ==
    /\ ApSaInv(apSa) /\ StaSaInv(staSa)
    /\ disturbances \in 0 .. MaxDisturbances

\* Both ends' queries have their timers.
QueriesTimed == QueryTimed(apSa) /\ QueryTimed(staSa)
-----------------------------------------------------------------------------
\* The bounds are numbers.
LEMMA SaBounds ==
    /\ 0 \in SaNumbers /\ 0 \in QueryCounts
    /\ \A n \in QueryCounts : n \in Nat /\ (n # SaQueryRounds => n + 1 \in QueryCounts)
    /\ \A n \in 0 .. MaxDisturbances : n + 1 \in SaNumbers
    /\ 0 \in 0 .. MaxDisturbances
  BY SaQueryConstants DEF MaxSa, SaNumbers, QueryCounts

\* What the access point's helpers keep.
LEMMA ApHelpers ==
    ASSUME NEW a, ApSaInv(a)
    PROVE  /\ ApSaInv(NoQuery(a))
           /\ ApSaInv(ap_sta_query_timed_out(a))
           /\ ~QueryOver(a) => ApSaInv(NextQuery(a))
           /\ \A sa \in SaNumbers : ApSaInv(Associated(a, sa))
           /\ ApSaInv([a EXCEPT !.sa = 0])
           /\ ApSaInv([NoQuery(a) EXCEPT !.sa = 0, !.timed_out = FALSE])
<1> USE SaBounds DEF ApSaInv
<1>0. a \in ApSaState OBVIOUS
<1>1. ApSaInv(NoQuery(a))
  <2>1. NoQuery(a) \in ApSaState BY <1>0, Zenon DEF ApSaState, NoQuery
  <2> QED BY <1>0, <2>1 DEF ApSaState, NoQuery, VerdictInForce, QueryTimed
<1>2. ApSaInv(ap_sta_query_timed_out(a))
  <2>1. ap_sta_query_timed_out(a) \in ApSaState
    BY <1>0, Zenon DEF ApSaState, NoQuery, ap_sta_query_timed_out
  <2> QED BY <1>0, <2>1 DEF ApSaState, NoQuery, ap_sta_query_timed_out,
             VerdictInForce, QueryTimed
<1>3. ASSUME ~QueryOver(a) PROVE ApSaInv(NextQuery(a))
  <2> DEFINE p == IF a.count = 0 THEN a.proc + 1 ELSE a.proc
             c == a.count + 1
  <2>1. p \in Nat /\ c \in QueryCounts BY <1>0, <1>3 DEF ApSaState, QueryOver
  <2>2. NextQuery(a) = [a EXCEPT !.count = c, !.timer = TRUE, !.proc = p]
    BY <1>0 DEF NextQuery, ApSaState
  <2> HIDE DEF p, c
  <2>3. NextQuery(a) \in ApSaState BY <1>0, <2>1, <2>2, Zenon DEF ApSaState
  <2> QED BY <1>0, <2>2, <2>3 DEF ApSaState, VerdictInForce, QueryTimed
<1>4. ASSUME NEW sa \in SaNumbers PROVE ApSaInv(Associated(a, sa))
  <2>1. Associated(a, sa) \in ApSaState BY <1>0, Zenon DEF ApSaState, Associated
  <2> QED BY <1>0, <2>1 DEF ApSaState, Associated, VerdictInForce, QueryTimed
<1>5. ApSaInv([a EXCEPT !.sa = 0])
  <2>1. [a EXCEPT !.sa = 0] \in ApSaState BY <1>0, Zenon DEF ApSaState
  <2> QED BY <1>0, <2>1 DEF ApSaState, VerdictInForce, QueryTimed
<1>6. ApSaInv([NoQuery(a) EXCEPT !.sa = 0, !.timed_out = FALSE])
  <2>1. [NoQuery(a) EXCEPT !.sa = 0, !.timed_out = FALSE] \in ApSaState
    BY <1>0, Zenon DEF ApSaState, NoQuery
  <2> QED BY <1>0, <2>1 DEF ApSaState, NoQuery, VerdictInForce, QueryTimed
<1> QED BY <1>1, <1>2, <1>3, <1>4, <1>5, <1>6

\* What the station's helpers keep.
LEMMA StaHelpers ==
    ASSUME NEW s, StaSaInv(s)
    PROVE  /\ StaSaInv(NoQuery(s)) /\ StaSaInv(StationLeft(s))
           /\ ~QueryOver(s) => StaSaInv(NextQuery(s))
           /\ \A sa \in SaNumbers : StaSaInv([s EXCEPT !.sa = sa])
           /\ StaSaInv([NoQuery(s) EXCEPT !.timer = TRUE])
           /\ s.sa # 0 => StationLeft(s).sa # s.sa
<1> USE SaBounds DEF StaSaInv
<1>0. s \in StaSaState OBVIOUS
<1>1. StaSaInv(NoQuery(s))
  <2>1. NoQuery(s) \in StaSaState BY <1>0, Zenon DEF StaSaState, NoQuery
  <2> QED BY <1>0, <2>1 DEF StaSaState, NoQuery, QueryTimed
<1>2. StaSaInv(StationLeft(s)) /\ StationLeft(s).sa = 0
  <2>1. StationLeft(s) \in StaSaState BY <1>0, Zenon DEF StaSaState, NoQuery, StationLeft
  <2> QED BY <1>0, <2>1 DEF StaSaState, NoQuery, StationLeft, QueryTimed
<1>3. ASSUME ~QueryOver(s) PROVE StaSaInv(NextQuery(s))
  <2> DEFINE p == IF s.count = 0 THEN s.proc + 1 ELSE s.proc
             c == s.count + 1
  <2>1. p \in Nat /\ c \in QueryCounts BY <1>0, <1>3 DEF StaSaState, QueryOver
  <2>2. NextQuery(s) = [s EXCEPT !.count = c, !.timer = TRUE, !.proc = p]
    BY <1>0 DEF NextQuery, StaSaState
  <2> HIDE DEF p, c
  <2>3. NextQuery(s) \in StaSaState BY <1>0, <2>1, <2>2, Zenon DEF StaSaState
  <2> QED BY <1>0, <2>2, <2>3 DEF StaSaState, QueryTimed
<1>4. ASSUME NEW sa \in SaNumbers PROVE StaSaInv([s EXCEPT !.sa = sa])
  <2>1. [s EXCEPT !.sa = sa] \in StaSaState BY <1>0, Zenon DEF StaSaState
  <2> QED BY <1>0, <2>1 DEF StaSaState, QueryTimed
<1>5. StaSaInv([NoQuery(s) EXCEPT !.timer = TRUE])
  <2>1. [NoQuery(s) EXCEPT !.timer = TRUE] \in StaSaState
    BY <1>0, Zenon DEF StaSaState, NoQuery
  <2> QED BY <1>0, <2>1 DEF StaSaState, NoQuery, QueryTimed
<1> QED BY <1>1, <1>2, <1>3, <1>4, <1>5

\* The state after a request that came late or in time.  It makes no query only
\* when the SA in force has its verdict.
LEMMA Checked ==
    ASSUME ApSaInv(apSa), NEW late \in BOOLEAN, SaQueryLate(late)
    PROVE  /\ ApSaInv(CheckedSa(late)) /\ CheckedSa(late).sa = apSa.sa
           /\ ~MustQuery(CheckedSa(late)) /\ apSa.sa # 0
                => CheckedSa(late).verdict = apSa.sa
           /\ CheckedSa(late).count = 0 => ~QueryOver(CheckedSa(late))
<1>1. ApSaInv(CheckedSa(late)) BY ApHelpers DEF CheckedSa
<1>2. CheckedSa(late).sa = apSa.sa
  BY DEF CheckedSa, ApSaInv, ApSaState, ap_sta_query_timed_out, NoQuery
<1>3. ~MustQuery(CheckedSa(late)) /\ apSa.sa # 0 => CheckedSa(late).verdict = apSa.sa
  BY <1>1, <1>2 DEF MustQuery, ApSaInv, VerdictInForce
<1>4. CheckedSa(late).count = 0 => ~QueryOver(CheckedSa(late))
  BY SaQueryConstants DEF QueryOver
<1> QED BY <1>1, <1>2, <1>3, <1>4
-----------------------------------------------------------------------------
\* An association request under the station's address: the state afterwards.
LEMMA AssociationRequest ==
    ASSUME SaQueryInv, NEW late \in BOOLEAN,
           AssociateStation(late) \/ AssociateOther(late)
    PROVE  SaQueryInv'
<1> DEFINE a == CheckedSa(late)
<1>1. SaQueryLate(late) BY DEF AssociateStation, AssociateOther
<1>2. ApSaInv(a) /\ (a.count = 0 => ~QueryOver(a)) BY <1>1, Checked DEF SaQueryInv
<1>3. ApSaInv(a) /\ (a.count = 0 => ApSaInv(NextQuery(a)))
      /\ \A sa \in SaNumbers : ApSaInv(Associated(a, sa)) /\ ApSaInv(NoQuery(Associated(a, sa)))
  BY <1>2, ApHelpers
<1>4. disturbances + 1 \in SaNumbers /\ 0 \in SaNumbers BY SaBounds DEF SaQueryInv
<1>5. CASE AssociateStation(late)
  <2>1. \/ apSa' = a \/ (a.count = 0 /\ apSa' = NextQuery(a))
        \/ apSa' = Associated(a, disturbances + 1)
    BY <1>5 DEF AssociateStation, ap_send_sa_query
  <2>2. staSa' = staSa \/ staSa' = [staSa EXCEPT !.sa = disturbances + 1]
    BY <1>5 DEF AssociateStation
  <2>3. disturbances' = disturbances BY <1>5 DEF AssociateStation
  <2> HIDE DEF a
  <2>4. ApSaInv(apSa') BY <1>3, <1>4, <2>1
  <2>5. StaSaInv(staSa') BY ZenonT(40), <1>4, <2>2, StaHelpers DEF SaQueryInv
  <2> QED BY <2>3, <2>4, <2>5 DEF SaQueryInv
<1>6. CASE AssociateOther(late)
  <2>1. \/ apSa' = a \/ (a.count = 0 /\ apSa' = NextQuery(a))
        \/ apSa' = NoQuery(Associated(a, 0))
    BY <1>6 DEF AssociateOther, ap_send_sa_query
  <2>2. disturbances' \in 0 .. MaxDisturbances /\ staSa' = staSa
    BY <1>6, SaQueryConstants DEF AssociateOther, Disturb, SaQueryInv
  <2> HIDE DEF a
  <2> QED BY <1>3, <1>4, <2>1, <2>2 DEF SaQueryInv
<1> QED BY <1>5, <1>6

\* The retry timers, of which the last one ends the query.
LEMMA RetryTimers ==
    ASSUME SaQueryInv, ap_sa_query_timer \/ sme_sa_query_timer
    PROVE  SaQueryInv'
<1>1. CASE ap_sa_query_timer
  <2> DEFINE a == [apSa EXCEPT !.timer = FALSE]
  <2>1. ~QueryOver(apSa) => apSa' = NextQuery(a) BY <1>1 DEF ap_sa_query_timer, ap_send_sa_query
  <2>2. NextQuery(a) = NextQuery(apSa)
    BY DEF SaQueryInv, ApSaInv, ApSaState, NextQuery
  <2>3. apSa' = ap_sta_query_timed_out(apSa) \/ (~QueryOver(apSa) /\ apSa' = NextQuery(apSa))
    BY <1>1, <2>1, <2>2 DEF ap_sa_query_timer
  <2>4. ApSaInv(apSa') BY <2>3, ApHelpers DEF SaQueryInv
  <2> QED BY <1>1, <2>4 DEF ap_sa_query_timer, SaQueryInv
<1>2. CASE sme_sa_query_timer
  <2>1. /\ staSa' = StationLeft(staSa) \/ (~QueryOver(staSa) /\ staSa' = NextQuery(staSa))
        /\ apSa' = apSa \/ apSa' = [NoQuery(apSa) EXCEPT !.sa = 0, !.timed_out = FALSE]
        /\ disturbances' = disturbances
    BY <1>2 DEF sme_sa_query_timer, DeauthHeard
  <2> QED BY <2>1, ApHelpers, StaHelpers DEF SaQueryInv
<1> QED BY <1>1, <1>2

\* A station that doubts its access point asks once.
LEMMA DisconnectStep ==
    ASSUME SaQueryInv, UnprotDisconnect, disturbances' \in 0 .. MaxDisturbances
    PROVE  SaQueryInv'
<1>1. staSa' = NextQuery(staSa) /\ apSa' = apSa /\ ~QueryOver(staSa)
  BY SaQueryConstants DEF UnprotDisconnect, QueryOver
<1> QED BY <1>1, StaHelpers DEF SaQueryInv

\* Every step keeps the invariant.
LEMMA SaQueryStep == SaQueryInv /\ [SaQueryNext]_saQueryVars => SaQueryInv'
<1> SUFFICES ASSUME SaQueryInv, [SaQueryNext]_saQueryVars PROVE SaQueryInv' OBVIOUS
<1>1. CASE ap_sa_query_timer \/ sme_sa_query_timer BY <1>1, RetryTimers
<1>2. CASE \E late \in BOOLEAN : AssociateStation(late) \/ AssociateOther(late)
  BY <1>2, AssociationRequest
<1>3. Disturb => disturbances' \in 0 .. MaxDisturbances
  BY SaQueryConstants DEF Disturb, SaQueryInv
<1>4. CASE Class3Error \/ ForgedDisconnect
  BY <1>3, <1>4, DisconnectStep DEF Class3Error, ForgedDisconnect, SaQueryInv
<1>5. CASE sme_event_ch_switch
  BY <1>3, <1>5, StaHelpers DEF sme_event_ch_switch, SaQueryInv
<1>6. CASE \E f \in saAir : LoseSaFrame(f) \/ RxSaRequest(f) \/ RxSaResponse(f)
  <2>1. /\ apSa' = apSa \/ apSa' = NoQuery(apSa)
        /\ staSa' = staSa \/ staSa' = NoQuery(staSa)
        /\ disturbances' = disturbances
    BY <1>6 DEF LoseSaFrame, RxSaRequest, RxSaResponse
  <2> QED BY <2>1, ApHelpers, StaHelpers DEF SaQueryInv
<1>7. CASE RestartAp \/ RestartStation
  BY <1>3, <1>7, ApHelpers, StaHelpers DEF RestartAp, RestartStation, SaQueryInv
<1>8. CASE \E heard \in BOOLEAN : Deauthenticate(heard)
  <2>1. /\ apSa' = apSa \/ apSa' = [NoQuery(apSa) EXCEPT !.sa = 0, !.timed_out = FALSE]
        /\ staSa' = StationLeft(staSa) /\ disturbances' \in 0 .. MaxDisturbances
    BY <1>3, <1>8 DEF Deauthenticate, DeauthHeard
  <2> QED BY <2>1, ApHelpers, StaHelpers DEF SaQueryInv
<1>9. CASE Disassociate
  BY <1>3, <1>9, ApHelpers, StaHelpers DEF Disassociate, SaQueryInv
<1>10. CASE UNCHANGED saQueryVars BY <1>10 DEF saQueryVars, SaQueryInv
<1> QED BY <1>1, <1>2, <1>4, <1>5, <1>6, <1>7, <1>8, <1>9, <1>10 DEF SaQueryNext

\* The two ends start with a common SA and no query.
LEMMA SaQueryStart == SaQueryInit => SaQueryInv
<1> SUFFICES ASSUME SaQueryInit PROVE SaQueryInv OBVIOUS
<1>1. 1 \in SaNumbers BY SaQueryConstants DEF SaNumbers, MaxSa
<1> QED BY <1>1, SaBounds DEF SaQueryInit, SaQueryInv, ApSaInv, StaSaInv, ApSaState,
           StaSaState, VerdictInForce, QueryTimed

\* The invariant holds in every reachable state.
LEMMA SaQueryInvariant == SaQuerySpec => []SaQueryInv
  BY SaQueryStart, SaQueryStep, PTL DEF SaQuerySpec

\* A step that takes the keys of both ends from the access point alone, other
\* than its restart, is an association request that found a verdict about them.
LEMMA DisplacingStep ==
    ASSUME SaQueryInv, SaQueryNext, apSa'.sa # apSa.sa, apSa.sa # 0,
           apSa.sa = staSa.sa, staSa' = staSa, ~RestartAp
    PROVE  apSa'.verdict = apSa.sa
<1>1. StationLeft(staSa).sa # staSa.sa BY StaHelpers DEF SaQueryInv
<1>2. NoQuery(apSa).sa = apSa.sa /\ NextQuery(apSa).sa = apSa.sa
      /\ ap_sta_query_timed_out(apSa).sa = apSa.sa
      /\ NextQuery([apSa EXCEPT !.timer = FALSE]).sa = apSa.sa
  BY DEF NoQuery, NextQuery, ap_sta_query_timed_out, SaQueryInv, ApSaInv, ApSaState
<1>3. CASE \E late \in BOOLEAN : AssociateStation(late) \/ AssociateOther(late)
  <2>1. PICK late \in BOOLEAN : AssociateOther(late)
    BY <1>3 DEF AssociateStation
  <2> DEFINE a == CheckedSa(late)
  <2>2. /\ ApSaInv(a) /\ a.sa = apSa.sa
        /\ ~MustQuery(a) /\ apSa.sa # 0 => a.verdict = apSa.sa
    BY <2>1, Checked DEF AssociateOther, SaQueryInv
  <2>3. \/ apSa' = a \/ (a.count = 0 /\ apSa' = NextQuery(a))
        \/ (~MustQuery(a) /\ apSa' = NoQuery(Associated(a, 0)))
    BY <2>1 DEF AssociateOther, ap_send_sa_query
  <2> HIDE DEF a
  <2>4. NextQuery(a).sa = a.sa /\ NoQuery(Associated(a, 0)).verdict = a.verdict
    BY <2>2 DEF ApSaInv, ApSaState, NextQuery, NoQuery, Associated
  <2> QED BY <2>2, <2>3, <2>4
<1>4. ~ap_sa_query_timer BY <1>2 DEF ap_sa_query_timer, ap_send_sa_query
<1>5. ~(sme_sa_query_timer \/ Disassociate \/ \E heard \in BOOLEAN : Deauthenticate(heard))
  BY <1>1 DEF sme_sa_query_timer, Disassociate, Deauthenticate
<1>6. ~(Class3Error \/ ForgedDisconnect \/ sme_event_ch_switch \/ RestartStation)
  BY DEF Class3Error, ForgedDisconnect, UnprotDisconnect, sme_event_ch_switch,
     RestartStation
<1>7. ~\E f \in saAir : LoseSaFrame(f) \/ RxSaRequest(f) \/ RxSaResponse(f)
  BY <1>2 DEF LoseSaFrame, RxSaRequest, RxSaResponse
<1> QED BY <1>3, <1>4, <1>5, <1>6, <1>7 DEF SaQueryNext

\* Keys both ends have are taken from the access point by an association request
\* only after an SA Query about these very keys timed out (check_sa_query,
\* ap_check_sa_query_timeout), unless it restarts.
THEOREM DisplacedOnVerdict == SaQuerySpec => SaDisplacedOnVerdict
<1>1. SaQueryInv /\ [SaQueryNext]_saQueryVars =>
        [apSa'.sa # apSa.sa /\ apSa.sa # 0 /\ apSa.sa = staSa.sa /\ staSa' = staSa
         /\ ~RestartAp => apSa'.verdict = apSa.sa]_saQueryVars
  BY DisplacingStep
<1> QED BY <1>1, SaQueryInvariant, PTL DEF SaQuerySpec, SaDisplacedOnVerdict

\* The ranges of both ends' state, the limit of sa_query_count among them.
THEOREM SaQueryTyped == SaQuerySpec => []SaQueryTypeOK
<1>1. SaQueryInv => SaQueryTypeOK
  BY DEF SaQueryInv, ApSaInv, StaSaInv, ApSaState, StaSaState, SaQueryTypeOK,
     SaNumbers, QueryCounts
<1> QED BY <1>1, SaQueryInvariant, PTL

\* No query is left without its retry timer, at either end (ap_sa_query_timer,
\* sme_sa_query_timer), which SaQueryHeals rests on.
THEOREM QueriesHaveTimers == SaQuerySpec => []QueriesTimed
<1>1. SaQueryInv => QueriesTimed
  BY DEF SaQueryInv, ApSaInv, StaSaInv, QueriesTimed
<1> QED BY <1>1, SaQueryInvariant, PTL
-----------------------------------------------------------------------------
(***************************************************************************)
(* For every number of scalars, retries, token requests and frames in      *)
(* flight, in a mesh and in an infrastructure BSS: two ends that have both *)
(* accepted hold the same key, ends with different passwords never accept, *)
(* a mesh end in the middle of an exchange has its timer, and the counters *)
(* stay within one of their limits.                                        *)
(*                                                                         *)
(* That one end accepted shows that the other had the same key when it     *)
(* sent its Confirm, not that it has it still.  The argument is about      *)
(* order: an end numbers its scalars, sends them in ascending order, and   *)
(* answers the latest it has received.  When both have accepted, neither   *)
(* can have gone on to a later scalar of its own.                          *)
(***************************************************************************)
SaeStates == {"NOTHING", "COMMITTED", "CONFIRMED", "ACCEPTED"}

\* The scalars end e may draw, and what is kept of one that may be missing.
Drawable(e) == {e} \X (Nat \ {0})
MaybeDrawn(e) == Drawable(e) \cup {NoScalar}

SaeKeysOf(e) == {SaeKey(e, own, y) : own \in Drawable(e), y \in Drawable(OtherSide(e))}

CommitFrames(e) == [type : {"commit"}, scalar : Drawable(e), token : BOOLEAN]
ConfirmFrames(e) ==
    [type : {"confirm"}, key : SaeKeysOf(e), sender : Drawable(e),
     receiver : MaybeDrawn(OtherSide(e))]
OtherFrames == [type : {"token_request"}] \cup [type : {"reject"}, of : {"commit", "confirm"}]

\* The key of a Confirm is about its sender's scalar.
KeyOfSender(e, f) ==
    \E y \in Drawable(OtherSide(e)) : f.key = SaeKey(e, f.sender, y)

SaeFrames(e) ==
    CommitFrames(e) \cup {f \in ConfirmFrames(e) : KeyOfSender(e, f)} \cup OtherFrames

SaeEnd(e) ==
    [present : BOOLEAN, state : SaeStates, own : MaybeDrawn(e),
     peer : MaybeDrawn(OtherSide(e)), accepted : MaybeDrawn(OtherSide(e)),
     key : SaeKeysOf(e) \cup {NoScalar}, sync : Nat, disabled : BOOLEAN,
     timer : BOOLEAN, auth_timer : BOOLEAN, retry : Nat, drawn : Nat, tokens : Nat,
     tx : Seq(SaeFrames(e))]

\* The number of the scalar a frame carries.
Carries(f) == f.type \in {"commit", "confirm"}
Scal(f) == IF f.type = "commit" THEN f.scalar[2] ELSE f.sender[2]
Answers(f) == f.type = "confirm" /\ f.receiver # NoScalar

\* An end sends its scalars in ascending order, none beyond the last drawn.
Ascending(tx) == \A i, j \in 1 .. Len(tx) :
    i <= j /\ Carries(tx[i]) /\ Carries(tx[j]) => Scal(tx[i]) <= Scal(tx[j])
SentUpTo(tx, n) == \A i \in 1 .. Len(tx) : Carries(tx[i]) => Scal(tx[i]) <= n
SentFrom(tx, n) == \A i \in 1 .. Len(tx) : Carries(tx[i]) => n <= Scal(tx[i])
AnswersUpTo(tx, n) == \A i \in 1 .. Len(tx) : Answers(tx[i]) => tx[i].receiver[2] <= n

\* The scalar of the other end that an end has accepted.
Partner(e, s) == IF RunsAp(e) THEN s.accepted ELSE s.peer

\* In these states the key is about the end's current scalar.
KeyIsCurrent(e, s) ==
    \/ s.state \in {"CONFIRMED", "ACCEPTED"}
    \/ ~saeConf.mesh /\ e = "ap" /\ s.state = "COMMITTED"

\* What an end knows by itself, apart from the frames it sent.
EndCore(e, s) ==
    /\ s.own # NoScalar => s.own = <<e, s.drawn>>
    /\ s.state # "NOTHING" => s.own # NoScalar
    /\ KeyIsCurrent(e, s) =>
         \E y \in Drawable(OtherSide(e)) : s.key = SaeKey(e, s.own, y)
    /\ s.state = "ACCEPTED" =>
         /\ Partner(e, s) # NoScalar
         /\ s.key = SaeKey(e, s.own, Partner(e, s))
         /\ saeConf.samePassword
    /\ saeConf.mesh /\ s.state \in {"COMMITTED", "CONFIRMED"} => s.timer

\* The frames it sent: it answered nothing later than the scalar it has from the
\* other end; when it has accepted, the other end has seen its last scalar.
EndSent(e, s) ==
    /\ Ascending(s.tx) /\ SentUpTo(s.tx, s.drawn)
    /\ s.peer # NoScalar => AnswersUpTo(s.tx, s.peer[2])
    /\ s.state = "ACCEPTED" =>
         AnswersUpTo(s.tx, Partner(e, s)[2]) /\ SentFrom(s.tx, s.drawn)

EndInv(e, s) == s \in SaeEnd(e) /\ EndCore(e, s) /\ EndSent(e, s)

\* The other end, t, is at its scalar n or beyond, and so is all that is still to
\* come from it.
Beyond(t, n) == n <= t.drawn /\ SentFrom(t.tx, n)

\* Nothing end s has from the other end, or has answered, is later than what is
\* still to come.
InOrder(s, t) ==
    /\ s.peer # NoScalar => Beyond(t, s.peer[2])
    /\ s.accepted # NoScalar => Beyond(t, s.accepted[2])
    /\ \A i \in 1 .. Len(s.tx) : Answers(s.tx[i]) => Beyond(t, s.tx[i].receiver[2])

SaeInv ==
    /\ saeConf \in SaeConfs
    /\ sae = [e \in SaeSides |-> sae[e]]
    /\ \A e \in SaeSides : EndInv(e, sae[e]) /\ InOrder(sae[e], sae[OtherSide(e)])
    /\ (\A e \in SaeSides : sae[e].state = "ACCEPTED") => sae["ap"].key = sae["peer"].key
-----------------------------------------------------------------------------
(* Scalars and keys. *)

\* The two ends are different, and each is the other's other.
LEMMA Sides == \A e \in SaeSides : /\ OtherSide(e) \in SaeSides /\ OtherSide(e) # e
                                   /\ OtherSide(OtherSide(e)) = e
  BY DEF SaeSides, OtherSide

\* No scalar is one that was drawn.
LEMMA NotDrawn ==
    ASSUME NEW e, NEW x \in Drawable(e)
    PROVE  x # NoScalar /\ x[1] = e /\ x[2] \in Nat /\ x = <<e, x[2]>>
  BY DEF Drawable, NoScalar

\* A drawn scalar is one that may be missing.
LEMMA Maybe ==
    ASSUME NEW e, NEW x
    PROVE  /\ x \in MaybeDrawn(e) /\ x # NoScalar => x \in Drawable(e)
           /\ x \in Drawable(e) => x \in MaybeDrawn(e)
           /\ NoScalar \in MaybeDrawn(e)
           /\ \A n \in Nat \ {0} : <<e, n>> \in Drawable(e)
  BY DEF MaybeDrawn, Drawable

\* Equal keys have equal scalars, and equal passwords.
LEMMA KeysAgree ==
    ASSUME NEW e \in SaeSides, NEW a \in Drawable(e), NEW b \in Drawable(OtherSide(e)),
           NEW f \in SaeSides, NEW c \in Drawable(f), NEW d \in Drawable(OtherSide(f)),
           SaeKey(e, a, b) = SaeKey(f, c, d)
    PROVE  /\ f = e => a = c /\ b = d
           /\ f # e => a = d /\ b = c /\ SaePassword(e) = SaePassword(f)
<1>1. {a, b} = {c, d} /\ SaePassword(e) = SaePassword(f)
  <2>1. SaeKey(e, a, b).scalars = {a, b} /\ SaeKey(f, c, d).scalars = {c, d}
        /\ SaeKey(e, a, b).pw = SaePassword(e) /\ SaeKey(f, c, d).pw = SaePassword(f)
    BY DEF SaeKey
  <2> QED BY <2>1
<1>2. OtherSide(e) # e /\ OtherSide(f) # f /\ (f # e => f = OtherSide(e) /\ OtherSide(f) = e)
  BY DEF SaeSides, OtherSide
<1>3. a[1] = e /\ b[1] = OtherSide(e) /\ c[1] = f /\ d[1] = OtherSide(f)
  BY NotDrawn
<1> QED BY <1>1, <1>2, <1>3

\* Ends with different passwords have no key in common.
LEMMA PasswordsAgree ==
    ASSUME NEW e \in SaeSides, saeConf \in SaeConfs,
           SaePassword(e) = SaePassword(OtherSide(e))
    PROVE  saeConf.samePassword
  BY Sides DEF SaePassword, SaeSides

\* Both ends compute the same key from the same scalars.
LEMMA KeySymmetric ==
    ASSUME NEW e, NEW a, NEW b, saeConf.samePassword
    PROVE  SaeKey(e, a, b) = SaeKey(OtherSide(e), b, a)
<1>1. {a, b} = {b, a} OBVIOUS
<1> QED BY <1>1 DEF SaeKey, SaePassword

\* A key is a key.
LEMMA KeyTyped ==
    ASSUME NEW e, NEW a \in Drawable(e), NEW b \in Drawable(OtherSide(e))
    PROVE  SaeKey(e, a, b) \in SaeKeysOf(e)
  BY DEF SaeKeysOf
-----------------------------------------------------------------------------
(* The frames an end sends. *)

\* From tx to q: frames were added that carry n, or nothing, and answer p.
TxGrown(tx, q, n, p) ==
    /\ Len(tx) <= Len(q)
    /\ \A i \in 1 .. Len(q) :
         \/ i <= Len(tx) /\ q[i] = tx[i]
         \/ /\ i > Len(tx)
            /\ Carries(q[i]) => Scal(q[i]) = n
            /\ Answers(q[i]) => q[i].receiver = p

\* The link takes the frame or loses it.
LEMMA Sent ==
    ASSUME NEW S, NEW tx \in Seq(S), NEW f \in S
    PROVE  /\ SaeSent(tx, f) \in Seq(S)
           /\ SaeSent(tx, f) = tx \/ (/\ Len(SaeSent(tx, f)) = Len(tx) + 1
                                      /\ SaeSent(tx, f)[Len(tx) + 1] = f
                                      /\ \A i \in 1 .. Len(tx) : SaeSent(tx, f)[i] = tx[i])
  BY DEF SaeSent

\* What the rest of a sequence holds.
LEMMA Rest ==
    ASSUME NEW S, NEW tx \in Seq(S), tx # <<>>
    PROVE  /\ Tail(tx) \in Seq(S) /\ Len(Tail(tx)) = Len(tx) - 1 /\ Len(tx) \in Nat \ {0}
           /\ \A i \in 1 .. Len(Tail(tx)) : Tail(tx)[i] = tx[i + 1] /\ i + 1 \in 1 .. Len(tx)
           /\ Head(tx) = tx[1] /\ Head(tx) \in S /\ 1 \in 1 .. Len(tx)
  OBVIOUS

\* Nothing sent, one frame sent, and one more.
LEMMA SentGrows ==
    ASSUME NEW S, NEW tx \in Seq(S), NEW q \in Seq(S), NEW n, NEW p, NEW f \in S,
           TxGrown(tx, q, n, p),
           Carries(f) => Scal(f) = n, Answers(f) => f.receiver = p
    PROVE  TxGrown(tx, SaeSent(q, f), n, p) /\ SaeSent(q, f) \in Seq(S)
<1> DEFINE z == SaeSent(q, f)
<1>1. z \in Seq(S) /\ (z = q \/ (/\ Len(z) = Len(q) + 1 /\ z[Len(q) + 1] = f
                                /\ \A i \in 1 .. Len(q) : z[i] = q[i]))
  BY Sent
<1> HIDE DEF z
<1>2. Len(tx) \in Nat /\ Len(q) \in Nat OBVIOUS
<1>3. CASE z = q BY <1>1, <1>3 DEF z
<1>4. CASE /\ Len(z) = Len(q) + 1 /\ z[Len(q) + 1] = f
           /\ \A i \in 1 .. Len(q) : z[i] = q[i]
  <2>1. Len(tx) <= Len(z) BY <1>2, <1>4 DEF TxGrown
  <2>2. ASSUME NEW i \in 1 .. Len(z)
        PROVE  \/ i <= Len(tx) /\ z[i] = tx[i]
               \/ /\ i > Len(tx)
                  /\ Carries(z[i]) => Scal(z[i]) = n
                  /\ Answers(z[i]) => z[i].receiver = p
    <3>1. CASE i = Len(q) + 1 BY <1>2, <1>4, <3>1 DEF TxGrown
    <3>2. CASE i # Len(q) + 1
      <4>1. i \in 1 .. Len(q) /\ z[i] = q[i] BY <1>2, <1>4, <3>2
      <4> QED BY <4>1 DEF TxGrown
    <3> QED BY <3>1, <3>2
  <2> QED BY <1>1, <2>1, <2>2 DEF TxGrown, z
<1> QED BY <1>1, <1>3, <1>4

\* No frame is sent.
LEMMA NotGrown ==
    ASSUME NEW S, NEW tx \in Seq(S), NEW n, NEW p
    PROVE  TxGrown(tx, tx, n, p)
  BY DEF TxGrown

\* What a step of end e from s to r, on receipt of scalar x or of none, is worth
\* to the invariant.
Advances(e, s, r, x) ==
    /\ EndInv(e, r)
    /\ \A n \in Nat : Beyond(s, n) => Beyond(r, n)
    /\ \A t : InOrder(s, t) /\ (x # NoScalar => Beyond(t, x[2])) => InOrder(r, t)

\* The same for a step with which it does not come to accept.
Evolves(e, s, r, x) ==
    Advances(e, s, r, x) /\ (r.state = "ACCEPTED" => s.state = "ACCEPTED" /\ r.key = s.key)

\* Every step of an end adds frames that carry its last scalar and answer p.
LEMMA Evolved ==
    ASSUME NEW e \in SaeSides, NEW s, EndInv(e, s), NEW r \in SaeEnd(e), EndCore(e, r),
           s.drawn <= r.drawn,
           NEW p \in MaybeDrawn(OtherSide(e)), TxGrown(s.tx, r.tx, r.drawn, p),
           NEW x \in MaybeDrawn(OtherSide(e)),
           x # NoScalar => AnswersUpTo(s.tx, x[2]),
           p \in {s.peer, x, NoScalar},
           r.peer \in {s.peer, x, NoScalar},
           r.accepted \in {s.accepted, s.peer, NoScalar},
           p # NoScalar /\ r.peer # NoScalar => p[2] <= r.peer[2],
           r.state = "ACCEPTED" =>
             /\ SentFrom(s.tx, r.drawn) /\ AnswersUpTo(s.tx, Partner(e, r)[2])
             /\ p # NoScalar => p[2] <= Partner(e, r)[2]
    PROVE  Advances(e, s, r, x)
<1> DEFINE o == OtherSide(e)
<1>1. /\ s \in SaeEnd(e) /\ s.tx \in Seq(SaeFrames(e)) /\ r.tx \in Seq(SaeFrames(e))
      /\ s.drawn \in Nat /\ r.drawn \in Nat
      /\ s.peer \in MaybeDrawn(o) /\ s.accepted \in MaybeDrawn(o)
      /\ r.peer \in MaybeDrawn(o) /\ r.accepted \in MaybeDrawn(o)
  BY DEF EndInv, SaeEnd
<1>2. /\ \A f \in SaeFrames(e) : Carries(f) => Scal(f) \in Nat
      /\ \A f \in SaeFrames(e) : Answers(f) => f.receiver \in Drawable(o)
  <2>1. ASSUME NEW f \in SaeFrames(e), Carries(f) PROVE Scal(f) \in Nat
    <3>1. CASE f \in CommitFrames(e)
      BY <3>1, NotDrawn DEF CommitFrames, Scal
    <3>2. CASE f \in ConfirmFrames(e)
      BY <3>2, NotDrawn DEF ConfirmFrames, Scal
    <3> QED BY <2>1, <3>1, <3>2 DEF SaeFrames, OtherFrames, Carries
  <2>2. ASSUME NEW f \in SaeFrames(e), Answers(f) PROVE f.receiver \in Drawable(o)
    BY <2>2, Maybe DEF SaeFrames, OtherFrames, CommitFrames, ConfirmFrames, Answers
  <2> QED BY <2>1, <2>2
<1>3. \A y \in MaybeDrawn(o) : y # NoScalar => y[2] \in Nat BY Maybe, NotDrawn
<1>4. /\ Len(s.tx) \in Nat /\ Len(r.tx) \in Nat
      /\ \A i \in 1 .. Len(s.tx) : s.tx[i] \in SaeFrames(e)
      /\ \A i \in 1 .. Len(r.tx) : r.tx[i] \in SaeFrames(e)
  BY <1>1
<1>5. \A i \in 1 .. Len(r.tx) :
        \/ i \in 1 .. Len(s.tx) /\ r.tx[i] = s.tx[i]
        \/ /\ i > Len(s.tx)
           /\ Carries(r.tx[i]) => Scal(r.tx[i]) = r.drawn
           /\ Answers(r.tx[i]) => r.tx[i].receiver = p
  BY <1>4 DEF TxGrown
<1>6. Ascending(r.tx) /\ SentUpTo(r.tx, r.drawn)
  <2>1. Ascending(s.tx) /\ SentUpTo(s.tx, s.drawn) BY DEF EndInv, EndSent
  <2>2. SentUpTo(r.tx, r.drawn) BY <1>1, <1>2, <1>4, <1>5, <2>1 DEF SentUpTo
  <2>3. ASSUME NEW i \in 1 .. Len(r.tx), NEW j \in 1 .. Len(r.tx), i <= j,
               Carries(r.tx[i]), Carries(r.tx[j])
        PROVE  Scal(r.tx[i]) <= Scal(r.tx[j])
    <3>1. CASE j > Len(s.tx) BY <1>4, <1>5, <2>2, <2>3, <3>1 DEF SentUpTo
    <3>2. CASE ~(j > Len(s.tx))
      <4>1. r.tx[i] = s.tx[i] /\ r.tx[j] = s.tx[j] /\ i \in 1 .. Len(s.tx) /\ j \in 1 .. Len(s.tx)
        BY <1>4, <1>5, <2>3, <3>2
      <4> QED BY <2>1, <2>3, <4>1 DEF Ascending
    <3> QED BY <3>1, <3>2
  <2> QED BY <2>2, <2>3 DEF Ascending
<1>7. ASSUME NEW n \in Nat, AnswersUpTo(s.tx, n), p # NoScalar => p[2] <= n
      PROVE  AnswersUpTo(r.tx, n)
  <2> SUFFICES ASSUME NEW i \in 1 .. Len(r.tx), Answers(r.tx[i])
               PROVE  r.tx[i].receiver[2] <= n
    BY DEF AnswersUpTo
  <2> QED BY <1>5, <1>7 DEF AnswersUpTo, Answers
<1>8. ASSUME NEW n \in Nat, SentFrom(s.tx, n), n <= r.drawn
      PROVE  SentFrom(r.tx, n)
  BY <1>5, <1>8 DEF SentFrom
<1>9. ASSUME r.peer # NoScalar PROVE AnswersUpTo(r.tx, r.peer[2])
  <2>1. r.peer[2] \in Nat BY <1>1, <1>3, <1>9
  <2>2. AnswersUpTo(s.tx, r.peer[2]) BY <1>9 DEF EndInv, EndSent
  <2> QED BY <1>7, <1>9, <2>1, <2>2
<1>10. ASSUME r.state = "ACCEPTED"
       PROVE  AnswersUpTo(r.tx, Partner(e, r)[2]) /\ SentFrom(r.tx, r.drawn)
  <2>1. Partner(e, r)[2] \in Nat BY <1>1, <1>3, <1>10 DEF EndCore, Partner
  <2> QED BY <1>1, <1>7, <1>8, <1>10, <2>1
<1>11. EndInv(e, r) BY <1>6, <1>9, <1>10 DEF EndInv, EndSent
<1>12. ASSUME NEW n \in Nat, Beyond(s, n) PROVE Beyond(r, n)
  BY <1>1, <1>8, <1>12 DEF Beyond
<1>13. ASSUME NEW t, InOrder(s, t), x # NoScalar => Beyond(t, x[2]) PROVE InOrder(r, t)
  <2>1. p # NoScalar => Beyond(t, p[2]) BY <1>13 DEF InOrder
  <2>2. /\ r.peer # NoScalar => Beyond(t, r.peer[2])
        /\ r.accepted # NoScalar => Beyond(t, r.accepted[2])
    BY <1>13 DEF InOrder
  <2>3. ASSUME NEW i \in 1 .. Len(r.tx), Answers(r.tx[i])
        PROVE  Beyond(t, r.tx[i].receiver[2])
    BY <1>5, <1>13, <2>1, <2>3 DEF InOrder, Answers
  <2> QED BY <2>2, <2>3 DEF InOrder
<1> QED BY <1>11, <1>12, <1>13 DEF Advances

\* A step into an exchange about x.
LEMMA IntoExchange ==
    ASSUME NEW e \in SaeSides, NEW s, EndInv(e, s), NEW r \in SaeEnd(e),
           NEW x \in Drawable(OtherSide(e)), AnswersUpTo(s.tx, x[2]),
           r.state \in {"COMMITTED", "CONFIRMED"}, s.drawn <= r.drawn,
           r.own = <<e, r.drawn>>, r.peer = x, r.key = SaeKey(e, r.own, x),
           r.accepted = s.accepted, saeConf.mesh => r.timer,
           TxGrown(s.tx, r.tx, r.drawn, x)
    PROVE  Evolves(e, s, r, x)
<1>1. r.own # NoScalar /\ x # NoScalar /\ x[2] \in Nat /\ x \in MaybeDrawn(OtherSide(e))
  <2>1. r.own \in MaybeDrawn(e) /\ r.own # NoScalar BY SMTT(30) DEF SaeEnd, NoScalar
  <2> QED BY <2>1, NotDrawn, Maybe
<1>2. EndCore(e, r) BY <1>1 DEF EndCore, KeyIsCurrent
<1> QED BY <1>1, <1>2, Evolved DEF Evolves

\* A step out of an exchange.
LEMMA OutOfExchange ==
    ASSUME NEW e \in SaeSides, NEW s, EndInv(e, s), NEW r \in SaeEnd(e),
           NEW x \in MaybeDrawn(OtherSide(e)), x # NoScalar => AnswersUpTo(s.tx, x[2]),
           r.state = "NOTHING", r.drawn = s.drawn, r.own \in {s.own, NoScalar},
           r.peer \in {s.peer, x, NoScalar}, r.accepted \in {s.accepted, NoScalar},
           TxGrown(s.tx, r.tx, r.drawn, NoScalar)
    PROVE  Evolves(e, s, r, x)
<1>1. EndCore(e, r) BY DEF EndCore, KeyIsCurrent, EndInv
<1>2. NoScalar \in MaybeDrawn(OtherSide(e)) BY Maybe
<1>3. s.drawn <= r.drawn BY DEF SaeEnd
<1> QED BY <1>1, <1>2, <1>3, Evolved DEF Evolves

\* A step that leaves the state of the exchange alone.  What it sends answers p.
LEMMA WithinExchange ==
    ASSUME NEW e \in SaeSides, NEW s, EndInv(e, s), NEW r \in SaeEnd(e),
           NEW x \in MaybeDrawn(OtherSide(e)), x # NoScalar => AnswersUpTo(s.tx, x[2]),
           NEW p \in {NoScalar, s.peer},
           r.state = s.state, r.drawn = s.drawn, r.own = s.own, r.key = s.key,
           r.accepted = s.accepted,
           r.peer \in {s.peer, x}, RunsAp(e) \/ r.peer = s.peer,
           p = NoScalar \/ r.peer = s.peer,
           s.state = "ACCEPTED" => p \in {NoScalar, Partner(e, s)},
           saeConf.mesh => (r.timer <=> s.timer)
                           \/ r.state \notin {"COMMITTED", "CONFIRMED"},
           TxGrown(s.tx, r.tx, r.drawn, p)
    PROVE  Evolves(e, s, r, x)
<1>1. s.state = "ACCEPTED" => Partner(e, r) = Partner(e, s) BY DEF Partner
<1>2. EndCore(e, r)
  <2>1. EndCore(e, s) BY DEF EndInv
  <2> QED BY <1>1, <2>1 DEF EndCore, KeyIsCurrent
<1>3. NoScalar \in MaybeDrawn(OtherSide(e)) /\ p \in MaybeDrawn(OtherSide(e))
  BY Maybe DEF EndInv, SaeEnd
<1>4. s.drawn <= r.drawn BY DEF SaeEnd
<1>5. \A y \in MaybeDrawn(OtherSide(e)) : y # NoScalar => y[2] \in Nat BY Maybe, NotDrawn
<1>6. p # NoScalar /\ r.peer # NoScalar => p[2] <= r.peer[2] BY <1>3, <1>5
<1>7. ASSUME r.state = "ACCEPTED"
      PROVE  /\ SentFrom(s.tx, r.drawn) /\ AnswersUpTo(s.tx, Partner(e, r)[2])
             /\ p # NoScalar => p[2] <= Partner(e, r)[2]
  BY <1>1, <1>3, <1>5, <1>7 DEF EndInv, EndSent
<1> QED BY <1>2, <1>3, <1>4, <1>6, <1>7, Evolved DEF Evolves
-----------------------------------------------------------------------------
(* What goes out. *)

\* A Commit carries the scalar and answers nothing.
LEMMA CommitTyped ==
    ASSUME NEW e \in SaeSides, NEW w \in Drawable(e), NEW token \in BOOLEAN
    PROVE  /\ CommitFrame(w, token) \in SaeFrames(e) /\ ~Answers(CommitFrame(w, token))
           /\ Scal(CommitFrame(w, token)) = w[2]
  BY DEF CommitFrame, SaeFrames, CommitFrames, Answers, Scal

\* A Confirm carries the scalar and answers the other end's.
LEMMA ConfirmTyped ==
    ASSUME NEW e \in SaeSides, NEW s, s.own \in Drawable(e),
           s.peer \in MaybeDrawn(OtherSide(e)),
           NEW y \in Drawable(OtherSide(e)), s.key = SaeKey(e, s.own, y)
    PROVE  /\ ConfirmFrame(s) \in SaeFrames(e) /\ Scal(ConfirmFrame(s)) = s.own[2]
           /\ ConfirmFrame(s).receiver = s.peer
<1>1. s.key \in SaeKeysOf(e) BY KeyTyped
<1>2. ConfirmFrame(s) \in ConfirmFrames(e) BY <1>1 DEF ConfirmFrame, ConfirmFrames
<1>3. KeyOfSender(e, ConfirmFrame(s)) BY DEF KeyOfSender, ConfirmFrame
<1> QED BY <1>2, <1>3 DEF SaeFrames, Scal, ConfirmFrame

\* The other frames carry and answer nothing.
LEMMA OtherTyped ==
    ASSUME NEW e \in SaeSides, NEW of \in {"commit", "confirm"}
    PROVE  /\ TokenRequest \in SaeFrames(e) /\ RejectFrame(of) \in SaeFrames(e)
           /\ ~Carries(TokenRequest) /\ ~Carries(RejectFrame(of))
           /\ ~Answers(TokenRequest) /\ ~Answers(RejectFrame(of))
  BY DEF TokenRequest, RejectFrame, SaeFrames, OtherFrames, Carries, Answers
-----------------------------------------------------------------------------
(* The handlers. *)

\* The scalar an end goes on with: a new one, or the one it has.
LEMMA OwnScalar ==
    ASSUME NEW e \in SaeSides, NEW s, EndInv(e, s)
    PROVE  /\ s \in SaeEnd(e) /\ s.drawn \in Nat /\ s.tx \in Seq(SaeFrames(e))
           /\ <<e, s.drawn + 1>> \in Drawable(e) /\ s.drawn + 1 \in Nat \ {0}
           /\ s.own # NoScalar => /\ s.own = <<e, s.drawn>> /\ s.own \in Drawable(e)
                                  /\ s.drawn \in Nat \ {0}
<1>1. s \in SaeEnd(e) /\ s.drawn \in Nat /\ s.tx \in Seq(SaeFrames(e)) BY DEF EndInv, SaeEnd
<1>2. s.drawn + 1 \in Nat \ {0} BY <1>1
<1>3. s.own # NoScalar => s.own = <<e, s.drawn>> /\ s.own \in Drawable(e)
  BY Maybe DEF EndInv, EndCore, SaeEnd
<1>4. s.own # NoScalar => s.drawn # 0 BY <1>3 DEF Drawable
<1> QED BY <1>1, <1>2, <1>3, <1>4, Maybe

\* A Commit, and after it a Confirm about the scalar that is answered.
LEMMA Exchange ==
    ASSUME NEW e \in SaeSides, NEW s, EndInv(e, s), NEW d \in Nat \ {0}, NEW w, w = <<e, d>>,
           NEW x \in Drawable(OtherSide(e)), NEW c, c.own = w, c.peer = x,
           c.key = SaeKey(e, w, x)
    PROVE  LET q == SaeSent(s.tx, CommitFrame(w, FALSE))
           IN /\ q \in Seq(SaeFrames(e)) /\ TxGrown(s.tx, q, d, x)
              /\ SaeSent(q, ConfirmFrame(c)) \in Seq(SaeFrames(e))
              /\ TxGrown(s.tx, SaeSent(q, ConfirmFrame(c)), d, x)
              /\ SaeSent(s.tx, ConfirmFrame(c)) \in Seq(SaeFrames(e))
              /\ TxGrown(s.tx, SaeSent(s.tx, ConfirmFrame(c)), d, x)
<1> DEFINE f == CommitFrame(w, FALSE)
           g == ConfirmFrame(c)
           q == SaeSent(s.tx, f)
<1>1. w \in Drawable(e) /\ w[2] = d BY DEF Drawable
<1>2. f \in SaeFrames(e) /\ ~Answers(f) /\ Scal(f) = d BY <1>1, CommitTyped
<1>3. g \in SaeFrames(e) /\ Scal(g) = d /\ g.receiver = x
  BY <1>1, ConfirmTyped, Maybe
<1> HIDE DEF f, g
<1>4. s.tx \in Seq(SaeFrames(e)) /\ TxGrown(s.tx, s.tx, d, x) BY OwnScalar, NotGrown
<1>5. q \in Seq(SaeFrames(e)) /\ TxGrown(s.tx, q, d, x) BY <1>2, <1>4, SentGrows
<1> HIDE DEF q
<1>6. SaeSent(q, g) \in Seq(SaeFrames(e)) /\ TxGrown(s.tx, SaeSent(q, g), d, x)
  BY <1>3, <1>4, <1>5, SentGrows
<1>7. SaeSent(s.tx, g) \in Seq(SaeFrames(e)) /\ TxGrown(s.tx, SaeSent(s.tx, g), d, x)
  BY <1>3, <1>4, SentGrows
<1> QED BY <1>5, <1>6, <1>7 DEF q, f, g

\* The record after a step into an exchange.
Exchanging(s, state, d, w, x, k, sync, timer, q) ==
    [s EXCEPT !.state = state, !.drawn = d, !.own = w, !.peer = x, !.key = k,
              !.sync = sync, !.timer = timer, !.tx = q]

\* It is typed, and it is a step into an exchange.
LEMMA ExchangingEvolves ==
    ASSUME NEW e \in SaeSides, NEW s, EndInv(e, s),
           NEW state \in {"COMMITTED", "CONFIRMED"}, NEW d \in Nat \ {0}, s.drawn <= d,
           NEW x \in Drawable(OtherSide(e)), AnswersUpTo(s.tx, x[2]),
           NEW sync \in Nat, NEW timer \in BOOLEAN, saeConf.mesh => timer,
           NEW q \in Seq(SaeFrames(e)), TxGrown(s.tx, q, d, x)
    PROVE  LET w == <<e, d>>
           IN Evolves(e, s, Exchanging(s, state, d, w, x, SaeKey(e, w, x), sync, timer, q), x)
<1> DEFINE w == <<e, d>>
           k == SaeKey(e, w, x)
           r == Exchanging(s, state, d, w, x, k, sync, timer, q)
<1>1. w \in MaybeDrawn(e) /\ x \in MaybeDrawn(OtherSide(e)) /\ k \in SaeKeysOf(e)
      /\ state \in SaeStates
  BY Maybe, KeyTyped DEF SaeStates
<1>2. s \in SaeEnd(e) BY DEF EndInv
<1>w. w = <<e, d>> OBVIOUS
<1>k. k = SaeKey(e, w, x) OBVIOUS
<1> HIDE DEF w, k
<1>3. r \in SaeEnd(e) BY <1>1, <1>2, Zenon DEF SaeEnd, Exchanging
<1>4. /\ r.state = state /\ r.drawn = d /\ r.own = w /\ r.peer = x /\ r.key = k
      /\ r.timer = timer /\ r.tx = q /\ r.accepted = s.accepted
  BY <1>2 DEF SaeEnd, Exchanging
<1> HIDE DEF r
<1>5. Evolves(e, s, r, x) BY <1>3, <1>4, <1>w, <1>k, IntoExchange
<1> QED BY <1>5 DEF r, k, w

\* A Commit when there is no exchange, or when the access point has committed.
LEMMA InNothing ==
    ASSUME NEW e \in SaeSides, saeConf \in SaeConfs, NEW s, EndInv(e, s),
           NEW x \in Drawable(OtherSide(e)), AnswersUpTo(s.tx, x[2]),
           NEW reuse \in BOOLEAN, reuse => s.own # NoScalar
    PROVE  Evolves(e, s, CommitInNothing([s EXCEPT !.state = "NOTHING", !.peer = x], e, reuse), x)
<1> DEFINE p == [s EXCEPT !.state = "NOTHING", !.peer = x]
           d == IF reuse THEN s.drawn ELSE s.drawn + 1
           w == <<e, d>>
           q == SaeSent(s.tx, CommitFrame(w, FALSE))
           k == SaeKey(e, w, x)
           c == [s EXCEPT !.state = "COMMITTED", !.peer = x, !.drawn = d, !.own = w, !.tx = q,
                          !.key = k]
           tm == IF saeConf.mesh THEN TRUE ELSE s.timer
           imm == saeConf.mesh \/ saeConf.confirm_immediate
           r == CommitInNothing(p, e, reuse)
<1>1. s \in SaeEnd(e) /\ s.drawn \in Nat BY OwnScalar
<1>t. tm \in BOOLEAN /\ (saeConf.mesh => tm)
  <2>1. s.timer \in BOOLEAN BY <1>1, Zenon DEF SaeEnd
  <2> QED BY <2>1, Zenon
<1>2. d \in Nat \ {0} /\ s.drawn <= d
  <2>1. CASE reuse
    <3>1. s.own # NoScalar BY <2>1
    <3>2. s.drawn \in Nat \ {0} BY <3>1, OwnScalar
    <3> QED BY <2>1, <3>2
  <2>2. CASE ~reuse BY <1>1, <2>2
  <2> QED BY <2>1, <2>2
<1>3. reuse => s.own = <<e, s.drawn>> BY OwnScalar
<1>4. auth_sae_send_commit(p, e, ~reuse, FALSE)
        = [s EXCEPT !.state = "NOTHING", !.peer = x, !.drawn = d, !.own = w, !.tx = q]
  BY <1>1, <1>3 DEF auth_sae_send_commit, SaeEnd
<1>5. sae_process_commit([auth_sae_send_commit(p, e, ~reuse, FALSE)
                            EXCEPT !.state = "COMMITTED"], e) = c
  <2> HIDE DEF d, w, q
  <2>1. k = SaeKey(e, w, x) OBVIOUS
  <2> HIDE DEF k
  <2> QED BY <1>1, <1>4, <2>1 DEF sae_process_commit, SaeEnd
<1>6. c.own = w /\ c.peer = x /\ c.key = k /\ c.tx = q
  BY <1>1 DEF SaeEnd
<1>7. r = IF imm THEN Exchanging(s, "CONFIRMED", d, w, x, k, 0, tm, SaeSent(q, ConfirmFrame(c)))
          ELSE Exchanging(s, "COMMITTED", d, w, x, k, 0, tm, q)
  <2>1. r = sae_set_retransmit_timer(
              [IF imm THEN [auth_sae_send_confirm(c) EXCEPT !.state = "CONFIRMED"] ELSE c
                 EXCEPT !.sync = 0])
    BY <1>5 DEF CommitInNothing
  <2>2. auth_sae_send_confirm(c) = [c EXCEPT !.tx = SaeSent(q, ConfirmFrame(c))]
    BY <1>6 DEF auth_sae_send_confirm
  <2> DEFINE z == SaeSent(q, ConfirmFrame(c))
  <2>3. auth_sae_send_confirm(c) = [c EXCEPT !.tx = z] BY <2>2
  <2> HIDE DEF r, d, w, q, k, z
  <2>4. CASE imm
    BY ZenonT(40), <1>1, <2>1, <2>3, <2>4 DEF sae_set_retransmit_timer, Exchanging, SaeEnd, z
  <2>5. CASE ~imm
    BY ZenonT(40), <1>1, <2>1, <2>5 DEF sae_set_retransmit_timer, Exchanging, SaeEnd
  <2> QED BY <2>4, <2>5
<1> HIDE DEF c, r
<1>8. /\ q \in Seq(SaeFrames(e)) /\ TxGrown(s.tx, q, d, x)
      /\ SaeSent(q, ConfirmFrame(c)) \in Seq(SaeFrames(e))
      /\ TxGrown(s.tx, SaeSent(q, ConfirmFrame(c)), d, x)
  BY <1>2, <1>6, Exchange
<1> HIDE DEF d, q, tm, imm
<1>9. Evolves(e, s, r, x) BY <1>t, <1>2, <1>7, <1>8, ExchangingEvolves
<1> QED BY <1>9 DEF r

\* An end gives up, or the other end is forgotten; x is what it received last.
LEMMA Resets ==
    ASSUME NEW e \in SaeSides, NEW s, EndInv(e, s), NEW x \in MaybeDrawn(OtherSide(e)),
           x # NoScalar => AnswersUpTo(s.tx, x[2]),
           NEW z, z = s \/ z = [s EXCEPT !.peer = x]
    PROVE  /\ Evolves(e, s, SaeFreed(z), x)
           /\ Evolves(e, s, GiveUp(sae_clear_retransmit_timer(z)), x)
           /\ Evolves(e, s, GiveUp(z), x)
<1> DEFINE a == SaeFreed(z)
           b == GiveUp(sae_clear_retransmit_timer(z))
           c == GiveUp(z)
<1>0. s \in SaeEnd(e) BY DEF EndInv
<1>1. z \in SaeEnd(e)
  <2>1. CASE z = s BY <1>0, <2>1
  <2>2. CASE z = [s EXCEPT !.peer = x] BY <1>0, <2>2, Zenon DEF SaeEnd
  <2> QED BY <2>1, <2>2
<1>2. /\ z.drawn = s.drawn /\ z.own = s.own /\ z.peer \in {s.peer, x}
      /\ z.accepted = s.accepted /\ z.tx = s.tx
  BY <1>0 DEF SaeEnd
<1>3. "NOTHING" \in SaeStates /\ NoScalar \in MaybeDrawn(OtherSide(e))
      /\ NoScalar \in MaybeDrawn(e) /\ 0 \in Nat
  BY Maybe DEF SaeStates
<1>4. a \in SaeEnd(e) BY <1>1, <1>3, Zenon DEF SaeEnd, SaeFreed, SaeCleared
<1>5. b \in SaeEnd(e)
  BY <1>1, <1>3, Zenon DEF SaeEnd, GiveUp, sae_clear_retransmit_timer
<1>6. c \in SaeEnd(e) BY <1>1, <1>3, Zenon DEF SaeEnd, GiveUp
<1>7. /\ a.state = "NOTHING" /\ a.drawn = z.drawn /\ a.own = NoScalar /\ a.peer = NoScalar
      /\ a.accepted = NoScalar /\ a.tx = z.tx
  BY <1>1 DEF SaeEnd, SaeFreed, SaeCleared
<1>8. /\ b.state = "NOTHING" /\ b.drawn = z.drawn /\ b.own = z.own /\ b.peer = z.peer
      /\ b.accepted = z.accepted /\ b.tx = z.tx
  BY <1>1 DEF SaeEnd, GiveUp, sae_clear_retransmit_timer
<1>9. /\ c.state = "NOTHING" /\ c.drawn = z.drawn /\ c.own = z.own /\ c.peer = z.peer
      /\ c.accepted = z.accepted /\ c.tx = z.tx
  BY <1>1 DEF SaeEnd, GiveUp
<1>10. TxGrown(s.tx, s.tx, s.drawn, NoScalar) BY OwnScalar, NotGrown
<1> HIDE DEF a, b, c
<1>11. Evolves(e, s, a, x) BY <1>2, <1>4, <1>7, <1>10, OutOfExchange
<1>12. Evolves(e, s, b, x) BY <1>2, <1>5, <1>8, <1>10, OutOfExchange
<1>13. Evolves(e, s, c, x) BY <1>2, <1>6, <1>9, <1>10, OutOfExchange
<1> QED BY <1>11, <1>12, <1>13 DEF a, b, c

\* A Commit when the end has committed: it confirms.
LEMMA InCommitted ==
    ASSUME NEW e \in SaeSides, saeConf \in SaeConfs, NEW s, EndInv(e, s),
           s.own # NoScalar,
           NEW x \in Drawable(OtherSide(e)), AnswersUpTo(s.tx, x[2])
    PROVE  Evolves(e, s, CommitInCommitted([s EXCEPT !.peer = x], e), x)
<1> DEFINE d == s.drawn
           w == <<e, d>>
           k == SaeKey(e, w, x)
           c == [s EXCEPT !.peer = x, !.timer = FALSE, !.key = k]
           q == SaeSent(s.tx, ConfirmFrame(c))
           tm == IF saeConf.mesh THEN TRUE ELSE FALSE
           r == CommitInCommitted([s EXCEPT !.peer = x], e)
<1>1. s \in SaeEnd(e) /\ d \in Nat \ {0} /\ s.own = w BY OwnScalar
<1>2. c.own = w /\ c.peer = x /\ c.key = k /\ c.tx = s.tx BY <1>1 DEF SaeEnd
<1>3. sae_process_commit(sae_clear_retransmit_timer([s EXCEPT !.peer = x]), e) = c
  BY <1>1 DEF sae_process_commit, sae_clear_retransmit_timer, SaeEnd
<1>4. auth_sae_send_confirm(c) = [c EXCEPT !.tx = q] BY <1>2 DEF auth_sae_send_confirm
<1>5. r = Exchanging(s, "CONFIRMED", d, w, x, k, 0, tm, q)
  <2>1. r = sae_set_retransmit_timer([[c EXCEPT !.tx = q] EXCEPT !.state = "CONFIRMED", !.sync = 0])
    BY <1>3, <1>4 DEF CommitInCommitted
  <2> HIDE DEF r, k, q
  <2> QED BY <1>1, <2>1 DEF sae_set_retransmit_timer, Exchanging, SaeEnd
<1>6. tm \in BOOLEAN /\ (saeConf.mesh => tm) BY Zenon
<1>7. q \in Seq(SaeFrames(e)) /\ TxGrown(s.tx, q, d, x)
  <2> HIDE DEF c
  <2> QED BY <1>1, <1>2, Exchange
<1>8. s.drawn <= d BY <1>1
<1> HIDE DEF r, q, tm, d
<1>9. Evolves(e, s, r, x) BY <1>1, <1>5, <1>6, <1>7, <1>8, ExchangingEvolves DEF d
<1> QED BY <1>9 DEF r

\* A Commit when the end has confirmed: it starts over with a new scalar, or
\* gives up.
LEMMA InConfirmed ==
    ASSUME NEW e \in SaeSides, saeConf \in SaeConfs, NEW s, EndInv(e, s),
           s.state = "CONFIRMED",
           NEW x \in Drawable(OtherSide(e)), AnswersUpTo(s.tx, x[2])
    PROVE  Evolves(e, s, CommitInConfirmed([s EXCEPT !.peer = x], e), x)
<1> DEFINE d == s.drawn + 1
           w == <<e, d>>
           k == SaeKey(e, w, x)
           y == sae_clear_retransmit_timer([s EXCEPT !.peer = x])
           n == s.sync + 1
           q == SaeSent(s.tx, CommitFrame(w, FALSE))
           c == [s EXCEPT !.peer = x, !.timer = FALSE, !.sync = n, !.drawn = d, !.own = w,
                          !.tx = q, !.key = k]
           z == SaeSent(q, ConfirmFrame(c))
           tm == IF saeConf.mesh THEN TRUE ELSE FALSE
           r == CommitInConfirmed([s EXCEPT !.peer = x], e)
<1>0. s \in SaeEnd(e) /\ s.drawn \in Nat BY OwnScalar
<1>1. s \in SaeEnd(e) /\ s.drawn \in Nat /\ d \in Nat \ {0} /\ s.drawn <= d BY <1>0
<1>2. n \in Nat BY <1>1 DEF SaeEnd
<1>3. CASE BigSync(y)
  <2>1. r = GiveUp(y) BY <1>3 DEF CommitInConfirmed
  <2>2. x \in MaybeDrawn(OtherSide(e)) BY Maybe
  <2>3. Evolves(e, s, GiveUp(y), x) BY <2>2, Resets, Zenon
  <2> QED BY <2>1, <2>3, Zenon
<1>4. CASE ~BigSync(y)
  <2>1. c.own = w /\ c.peer = x /\ c.key = k /\ c.tx = q BY <1>1 DEF SaeEnd
  <2>2. r = sae_set_retransmit_timer(auth_sae_send_confirm(sae_process_commit(
              auth_sae_send_commit([y EXCEPT !.sync = @ + 1], e, TRUE, FALSE), e)))
    BY <1>4 DEF CommitInConfirmed
  <2>3. [y EXCEPT !.sync = @ + 1] = [s EXCEPT !.peer = x, !.timer = FALSE, !.sync = n]
    BY <1>1 DEF sae_clear_retransmit_timer, SaeEnd
  <2>4. auth_sae_send_commit([s EXCEPT !.peer = x, !.timer = FALSE, !.sync = n], e, TRUE, FALSE)
          = [s EXCEPT !.peer = x, !.timer = FALSE, !.sync = n, !.drawn = d, !.own = w, !.tx = q]
    BY <1>1 DEF auth_sae_send_commit, SaeEnd
  <2>5. sae_process_commit([s EXCEPT !.peer = x, !.timer = FALSE, !.sync = n, !.drawn = d,
                                     !.own = w, !.tx = q], e) = c
    <3> HIDE DEF d, w, q, n
    <3>1. k = SaeKey(e, w, x) OBVIOUS
    <3> HIDE DEF k
    <3> QED BY <1>1, <3>1 DEF sae_process_commit, SaeEnd
  <2>6. auth_sae_send_confirm(c) = [c EXCEPT !.tx = z] BY <2>1 DEF auth_sae_send_confirm
  <2>7. r = sae_set_retransmit_timer([c EXCEPT !.tx = z]) BY <2>2, <2>3, <2>4, <2>5, <2>6
  <2>8. r = Exchanging(s, "CONFIRMED", d, w, x, k, n, tm, z)
    <3> HIDE DEF r, k, q, z, n, d, w
    <3> QED BY <1>1, <2>7 DEF sae_set_retransmit_timer, Exchanging, SaeEnd
  <2>9. tm \in BOOLEAN /\ (saeConf.mesh => tm) BY Zenon
  <2>10. z \in Seq(SaeFrames(e)) /\ TxGrown(s.tx, z, d, x)
    <3> HIDE DEF c
    <3> QED BY <1>1, <2>1, Exchange
  <2> HIDE DEF r, z, tm, d, n
  <2>11. Evolves(e, s, r, x) BY <1>1, <1>2, <2>8, <2>9, <2>10, ExchangingEvolves
  <2> QED BY <2>11 DEF r
<1> QED BY <1>3, <1>4

\* A Commit of a peer that was accepted: a mesh forgets it, an access point
\* starts over.
LEMMA InAccepted ==
    ASSUME NEW e \in SaeSides, saeConf \in SaeConfs, NEW s, EndInv(e, s),
           NEW x \in Drawable(OtherSide(e)), AnswersUpTo(s.tx, x[2])
    PROVE  Evolves(e, s, CommitInAccepted([s EXCEPT !.peer = x], e), x)
<1> DEFINE d == s.drawn + 1
           w == <<e, d>>
           k == SaeKey(e, w, x)
           q == SaeSent(s.tx, CommitFrame(w, FALSE))
           c == [own |-> w, peer |-> x, key |-> k]
           r == CommitInAccepted([s EXCEPT !.peer = x], e)
<1>0. s \in SaeEnd(e) /\ s.drawn \in Nat BY OwnScalar
<1>1. s \in SaeEnd(e) /\ s.drawn \in Nat /\ d \in Nat \ {0} /\ s.drawn <= d BY <1>0
<1>2. CASE saeConf.mesh
  <2>1. r = SaeFreed([s EXCEPT !.peer = x]) BY <1>2 DEF CommitInAccepted
  <2>2. x \in MaybeDrawn(OtherSide(e)) BY Maybe
  <2>3. Evolves(e, s, SaeFreed([s EXCEPT !.peer = x]), x) BY <2>2, Resets, Zenon
  <2> QED BY <2>1, <2>3, Zenon
<1>3. CASE ~saeConf.mesh
  <2>1. auth_sae_send_commit([s EXCEPT !.peer = x], e, TRUE, FALSE)
          = [s EXCEPT !.peer = x, !.drawn = d, !.own = w, !.tx = q]
    BY <1>1 DEF auth_sae_send_commit, SaeEnd
  <2>2. r = sae_process_commit([[s EXCEPT !.peer = x, !.drawn = d, !.own = w, !.tx = q]
                                 EXCEPT !.state = "COMMITTED", !.sync = 0], e)
    BY <1>3, <2>1 DEF CommitInAccepted
  <2>3. r = Exchanging(s, "COMMITTED", d, w, x, k, 0, s.timer, q)
    <3> HIDE DEF r, q, d, w
    <3>1. k = SaeKey(e, w, x) OBVIOUS
    <3> HIDE DEF k
    <3> QED BY <1>1, <2>2, <3>1 DEF sae_process_commit, Exchanging, SaeEnd
  <2>4. s.timer \in BOOLEAN BY <1>1, Zenon DEF SaeEnd
  <2>5. q \in Seq(SaeFrames(e)) /\ TxGrown(s.tx, q, d, x)
    <3>1. c.own = w /\ c.peer = x /\ c.key = k OBVIOUS
    <3> HIDE DEF c
    <3> QED BY <1>1, <3>1, Exchange
  <2> HIDE DEF r, q, d
  <2>6. Evolves(e, s, r, x) BY <1>1, <1>3, <2>3, <2>4, <2>5, ExchangingEvolves
  <2> QED BY <2>6 DEF r
<1> QED BY <1>2, <1>3

\* Two steps, the first of which received nothing.
LEMMA Composed ==
    ASSUME NEW e, NEW s, NEW r, NEW z, NEW x,
           Evolves(e, s, r, NoScalar), Advances(e, r, z, x)
    PROVE  Advances(e, s, z, x) /\ (Evolves(e, r, z, x) => Evolves(e, s, z, x))
  BY DEF Evolves, Advances

\* Nothing changes but what the invariant does not look at.
LEMMA SideFields ==
    ASSUME NEW e \in SaeSides, NEW s, EndInv(e, s), NEW x \in MaybeDrawn(OtherSide(e)),
           x # NoScalar => AnswersUpTo(s.tx, x[2]),
           NEW present \in BOOLEAN, NEW auth \in BOOLEAN, NEW disabled \in BOOLEAN,
           NEW retry \in Nat,
           NEW r, r = [s EXCEPT !.present = present, !.auth_timer = auth,
                                !.disabled = disabled, !.retry = retry]
    PROVE  Evolves(e, s, r, x)
<1>1. s \in SaeEnd(e) BY DEF EndInv
<1>2. r \in SaeEnd(e) BY <1>1, Zenon DEF SaeEnd
<1>3. /\ r.state = s.state /\ r.drawn = s.drawn /\ r.own = s.own /\ r.key = s.key
      /\ r.accepted = s.accepted /\ r.peer = s.peer /\ r.tx = s.tx
      /\ r.timer = s.timer
  BY <1>1 DEF SaeEnd
<1>4. TxGrown(s.tx, r.tx, r.drawn, NoScalar) BY <1>3, OwnScalar, NotGrown
<1> QED BY <1>2, <1>3, <1>4, WithinExchange

\* Nothing changes at all.
LEMMA NothingHappens ==
    ASSUME NEW e \in SaeSides, NEW s, EndInv(e, s), NEW x
    PROVE  Evolves(e, s, s, x)
  BY DEF Evolves, Advances

\* A rejection carries nothing.
LEMMA Rejection ==
    ASSUME NEW e \in SaeSides, NEW s, EndInv(e, s), NEW x \in MaybeDrawn(OtherSide(e)),
           x # NoScalar => AnswersUpTo(s.tx, x[2]), NEW of \in {"commit", "confirm"}
    PROVE  Evolves(e, s, SaeRejected(s, of), x)
<1> DEFINE q == SaeSent(s.tx, RejectFrame(of))
           r == [s EXCEPT !.tx = q]
<1>1. s \in SaeEnd(e) /\ s.tx \in Seq(SaeFrames(e)) BY OwnScalar
<1>2. TxGrown(s.tx, q, s.drawn, NoScalar) /\ q \in Seq(SaeFrames(e))
  BY <1>1, NotGrown, SentGrows, OtherTyped
<1> HIDE DEF q
<1>3. r \in SaeEnd(e) BY <1>1, <1>2, Zenon DEF SaeEnd
<1>4. /\ r.state = s.state /\ r.drawn = s.drawn /\ r.own = s.own /\ r.key = s.key
      /\ r.accepted = s.accepted /\ r.peer = s.peer /\ r.tx = q /\ r.timer = s.timer
  BY <1>1 DEF SaeEnd
<1>5. SaeRejected(s, of) \in {s, r} BY DEF SaeRejected, q
<1> HIDE DEF r
<1>6. Evolves(e, s, r, x) BY <1>2, <1>3, <1>4, WithinExchange
<1>7. Evolves(e, s, s, x) BY NothingHappens
<1> QED BY <1>5, <1>6, <1>7

\* handle_auth_sae() of a Commit.
LEMMA Commit ==
    ASSUME NEW e \in SaeSides, saeConf \in SaeConfs, NEW s, EndInv(e, s), RunsAp(e),
           NEW f \in SaeFrames(OtherSide(e)), f.type = "commit",
           AnswersUpTo(s.tx, f.scalar[2]), NEW clogged \in BOOLEAN
    PROVE  Evolves(e, s, RxCommit(s, e, f, clogged), f.scalar)
<1> DEFINE x == f.scalar
           reuse == ~saeConf.mesh /\ s.state = "COMMITTED"
           r0 == IF reuse THEN [s EXCEPT !.state = "NOTHING"] ELSE s
           p == [r0 EXCEPT !.peer = x]
           py == [s EXCEPT !.peer = x]
           r == RxCommit(s, e, f, clogged)
<1>1. x \in Drawable(OtherSide(e))
  BY DEF SaeFrames, CommitFrames, ConfirmFrames, OtherFrames
<1>2. x \in MaybeDrawn(OtherSide(e)) /\ x # NoScalar BY <1>1, Maybe, NotDrawn
<1>3. s \in SaeEnd(e) BY DEF EndInv
<1>4. CASE s.disabled BY <1>4, NothingHappens DEF RxCommit
<1>5. CASE ~s.disabled /\ ScalarReused(r0, f)
  <2>1. r = SaeRejected(s, "commit") BY <1>5 DEF RxCommit
  <2> QED BY <1>2, <2>1, Rejection
<1>6. CASE ~s.disabled /\ ~ScalarReused(r0, f) /\ ~f.token /\ clogged /\ ~reuse
  <2> DEFINE q == SaeSent(s.tx, TokenRequest)
             n == s.tokens + 1
             st == IF saeConf.mesh THEN "NOTHING" ELSE s.state
             z == [s EXCEPT !.peer = x, !.tx = q, !.tokens = n, !.state = st]
  <2>1. r = z BY <1>3, <1>6 DEF RxCommit, SaeEnd
  <2>2. s.tx \in Seq(SaeFrames(e)) /\ n \in Nat /\ st \in SaeStates
    BY <1>3 DEF SaeEnd, SaeStates
  <2>3. TxGrown(s.tx, q, s.drawn, NoScalar) /\ q \in Seq(SaeFrames(e))
    BY <2>2, NotGrown, SentGrows, OtherTyped
  <2> HIDE DEF r, q, n, st
  <2>4. z \in SaeEnd(e) BY <1>2, <1>3, <2>2, <2>3, Zenon DEF SaeEnd
  <2>5. /\ z.state = st /\ z.drawn = s.drawn /\ z.own = s.own /\ z.key = s.key
        /\ z.accepted = s.accepted /\ z.peer = x /\ z.tx = q /\ z.timer = s.timer
    BY <1>3 DEF SaeEnd
  <2> HIDE DEF z
  <2>6. CASE saeConf.mesh
    <3>1. z.state = "NOTHING" BY <2>5, <2>6 DEF st
    <3>2. Evolves(e, s, z, x) BY <1>2, <2>3, <2>4, <2>5, <3>1, OutOfExchange
    <3> QED BY <2>1, <3>2 DEF r
  <2>7. CASE ~saeConf.mesh
    <3>1. z.state = s.state BY <2>5, <2>7 DEF st
    <3>2. Evolves(e, s, z, x) BY <1>2, <2>3, <2>4, <2>5, <2>7, <3>1, WithinExchange
    <3> QED BY <2>1, <3>2 DEF r
  <2> QED BY <2>6, <2>7
<1>7. CASE ~s.disabled /\ ~ScalarReused(r0, f) /\ ~(~f.token /\ clogged /\ ~reuse)
  <2>1. r = StepCommit(p, e, reuse) BY <1>7 DEF RxCommit
  <2>2. reuse => p = [s EXCEPT !.state = "NOTHING", !.peer = x] BY <1>3 DEF SaeEnd
  <2>3. ~reuse => p = py OBVIOUS
  <2>4. s.state # "NOTHING" => s.own # NoScalar BY DEF EndInv, EndCore
  <2>5. reuse \in BOOLEAN /\ py.state = s.state BY <1>3 DEF SaeEnd
  <2> HIDE DEF r, p
  <2>6. CASE reuse
    <3>1. p.state = "NOTHING" BY <1>3, <2>2, <2>6 DEF SaeEnd
    <3>2. r = CommitInNothing([s EXCEPT !.state = "NOTHING", !.peer = x], e, reuse)
      BY <2>1, <2>2, <2>6, <3>1 DEF StepCommit
    <3>3. Evolves(e, s, CommitInNothing([s EXCEPT !.state = "NOTHING", !.peer = x], e, reuse), x)
      BY <1>1, <2>4, <2>5, <2>6, InNothing
    <3> QED BY <3>2, <3>3 DEF r
  <2>7. CASE ~reuse /\ s.state = "NOTHING"
    <3>1. py = [s EXCEPT !.state = "NOTHING", !.peer = x] BY <1>3, <2>7 DEF SaeEnd
    <3>2. r = CommitInNothing([s EXCEPT !.state = "NOTHING", !.peer = x], e, reuse)
      BY <2>1, <2>3, <2>5, <2>7, <3>1 DEF StepCommit
    <3>3. Evolves(e, s, CommitInNothing([s EXCEPT !.state = "NOTHING", !.peer = x], e, reuse), x)
      BY <1>1, <2>5, <2>7, InNothing
    <3> QED BY <3>2, <3>3 DEF r
  <2>8. CASE ~reuse /\ s.state = "COMMITTED"
    <3>1. r = CommitInCommitted(py, e) BY <2>1, <2>3, <2>5, <2>8 DEF StepCommit
    <3>2. Evolves(e, s, CommitInCommitted(py, e), x)
      BY <1>1, <2>4, <2>8, InCommitted
    <3> QED BY <3>1, <3>2 DEF r
  <2>9. CASE ~reuse /\ s.state = "CONFIRMED"
    <3>1. r = CommitInConfirmed(py, e) BY <2>1, <2>3, <2>5, <2>9 DEF StepCommit
    <3>2. Evolves(e, s, CommitInConfirmed(py, e), x) BY <1>1, <2>9, InConfirmed
    <3> QED BY <3>1, <3>2 DEF r
  <2>10. CASE ~reuse /\ s.state = "ACCEPTED"
    <3>1. r = CommitInAccepted(py, e) BY <2>1, <2>3, <2>5, <2>10 DEF StepCommit
    <3>2. Evolves(e, s, CommitInAccepted(py, e), x) BY <1>1, InAccepted
    <3> QED BY <3>1, <3>2 DEF r
  <2> QED BY <1>3, <2>6, <2>7, <2>8, <2>9, <2>10 DEF SaeEnd, SaeStates
<1> QED BY <1>4, <1>5, <1>6, <1>7
-----------------------------------------------------------------------------
(* A Confirm. *)

\* With a step from s to r the end accepts on Confirm f.
Accepts(e, s, r, f) ==
    /\ Advances(e, s, r, NoScalar)
    /\ r.state = "ACCEPTED" /\ r.key = s.key /\ r.own = s.own /\ Partner(e, r) = s.peer
    /\ f.type = "confirm" /\ sae_check_confirm(s, f)

\* A Confirm that is verified is about the scalars and the key of both ends.
LEMMA Verified ==
    ASSUME NEW e \in SaeSides, saeConf \in SaeConfs, NEW s, EndInv(e, s), KeyIsCurrent(e, s),
           NEW f \in SaeFrames(OtherSide(e)), f.type = "confirm", sae_check_confirm(s, f)
    PROVE  /\ s.own \in Drawable(e) /\ s.own = <<e, s.drawn>> /\ s.peer \in Drawable(OtherSide(e))
           /\ s.key = SaeKey(e, s.own, s.peer) /\ saeConf.samePassword
           /\ f.receiver = s.own
<1> DEFINE o == OtherSide(e)
<1>1. o \in SaeSides /\ o # e /\ OtherSide(o) = e BY Sides
<1>2. s.own # NoScalar /\ s.peer # NoScalar /\ f.key = s.key /\ f.sender = s.peer
      /\ f.receiver = s.own
  BY DEF sae_check_confirm
<1>3. s.own \in Drawable(e) /\ s.own = <<e, s.drawn>> BY <1>2, OwnScalar
<1>4. s.peer \in Drawable(o) BY <1>2, Maybe DEF EndInv, SaeEnd
<1>5. PICK y \in Drawable(o) : s.key = SaeKey(e, s.own, y) BY DEF EndInv, EndCore
<1>6. KeyOfSender(o, f) BY DEF SaeFrames, CommitFrames, OtherFrames
<1>7. PICK z \in Drawable(e) : f.key = SaeKey(o, f.sender, z) BY <1>1, <1>6 DEF KeyOfSender
<1>8. SaeKey(e, s.own, y) = SaeKey(o, s.peer, z) BY <1>2, <1>5, <1>7
<1> HIDE DEF o
<1>9. o = OtherSide(e) BY DEF o
<1>10. y = s.peer /\ SaePassword(e) = SaePassword(o)
  <2>1. y \in Drawable(OtherSide(e)) /\ z \in Drawable(OtherSide(o)) BY <1>1, <1>9
  <2> QED BY <1>1, <1>3, <1>4, <1>8, <2>1, KeysAgree
<1>11. saeConf.samePassword BY <1>9, <1>10, PasswordsAgree
<1> QED BY <1>2, <1>3, <1>4, <1>5, <1>9, <1>10, <1>11

\* An end that accepts on a verified Confirm.
LEMMA Accepting ==
    ASSUME NEW e \in SaeSides, saeConf \in SaeConfs, NEW s, EndInv(e, s), KeyIsCurrent(e, s),
           NEW f \in SaeFrames(OtherSide(e)), f.type = "confirm", sae_check_confirm(s, f),
           Beyond(s, f.receiver[2]),
           NEW r \in SaeEnd(e), r.state = "ACCEPTED", r.own = s.own, r.drawn = s.drawn,
           r.key = s.key, Partner(e, r) = s.peer, r.accepted \in {s.accepted, s.peer},
           r.peer \in {s.peer, NoScalar}, TxGrown(s.tx, r.tx, s.drawn, s.peer)
    PROVE  Accepts(e, s, r, f)
<1> DEFINE o == OtherSide(e)
<1>1. /\ s.own \in Drawable(e) /\ s.own = <<e, s.drawn>> /\ s.peer \in Drawable(o)
      /\ s.key = SaeKey(e, s.own, s.peer) /\ saeConf.samePassword
      /\ f.receiver = s.own
  BY Verified
<1>2. s.own # NoScalar /\ s.peer # NoScalar /\ s.peer[2] \in Nat /\ s.peer \in MaybeDrawn(o)
      /\ NoScalar \in MaybeDrawn(o)
  BY <1>1, NotDrawn, Maybe
<1>3. EndCore(e, r) BY <1>1, <1>2 DEF EndCore
<1>4. SentFrom(s.tx, s.drawn) BY <1>1 DEF Beyond
<1>5. AnswersUpTo(s.tx, s.peer[2]) BY <1>2 DEF EndInv, EndSent
<1>6. s.drawn <= r.drawn BY DEF SaeEnd
<1>7. Advances(e, s, r, NoScalar)
  <2>1. s.peer[2] <= s.peer[2] BY <1>2
  <2> QED BY <1>2, <1>3, <1>4, <1>5, <1>6, <2>1, Evolved
<1> QED BY <1>7 DEF Accepts

\* A Confirm sent again, and a Commit sent again.
LEMMA SendsConfirm ==
    ASSUME NEW e \in SaeSides, NEW s, EndInv(e, s), s.own # NoScalar,
           NEW y \in Drawable(OtherSide(e)), s.key = SaeKey(e, s.own, y),
           NEW c, c.own = s.own, c.peer = s.peer, c.key = s.key
    PROVE  /\ SaeSent(s.tx, ConfirmFrame(c)) \in Seq(SaeFrames(e))
           /\ TxGrown(s.tx, SaeSent(s.tx, ConfirmFrame(c)), s.drawn, s.peer)
<1> DEFINE g == ConfirmFrame(c)
<1>1. s.own = <<e, s.drawn>> /\ s.own \in Drawable(e) /\ s.tx \in Seq(SaeFrames(e)) BY OwnScalar
<1>2. s.own[2] = s.drawn BY <1>1
<1>3. s.peer \in MaybeDrawn(OtherSide(e)) BY DEF EndInv, SaeEnd
<1>4. g \in SaeFrames(e) /\ Scal(g) = s.drawn /\ g.receiver = s.peer
  BY <1>1, <1>2, <1>3, ConfirmTyped
<1> HIDE DEF g
<1>5. TxGrown(s.tx, s.tx, s.drawn, s.peer) BY <1>1, NotGrown
<1>6. SaeSent(s.tx, g) \in Seq(SaeFrames(e)) /\ TxGrown(s.tx, SaeSent(s.tx, g), s.drawn, s.peer)
  BY <1>1, <1>4, <1>5, SentGrows
<1> QED BY <1>6 DEF g

\* A Commit with scalar number d.
LEMMA SendsCommit ==
    ASSUME NEW e \in SaeSides, NEW s, EndInv(e, s), NEW d \in Nat \ {0}, NEW token \in BOOLEAN
    PROVE  /\ SaeSent(s.tx, CommitFrame(<<e, d>>, token)) \in Seq(SaeFrames(e))
           /\ TxGrown(s.tx, SaeSent(s.tx, CommitFrame(<<e, d>>, token)), d, NoScalar)
<1> DEFINE w == <<e, d>>
           g == CommitFrame(w, token)
<1>1. w \in Drawable(e) /\ w[2] = d BY DEF Drawable
<1>2. g \in SaeFrames(e) /\ Scal(g) = d /\ ~Answers(g) BY <1>1, CommitTyped
<1> HIDE DEF g
<1>3. s.tx \in Seq(SaeFrames(e)) /\ TxGrown(s.tx, s.tx, d, NoScalar) BY OwnScalar, NotGrown
<1>4. SaeSent(s.tx, g) \in Seq(SaeFrames(e)) /\ TxGrown(s.tx, SaeSent(s.tx, g), d, NoScalar)
  BY <1>2, <1>3, SentGrows
<1> QED BY <1>4 DEF g

\* An end that sends a Commit or a Confirm again, and counts it.
LEMMA SendsAgain ==
    ASSUME NEW e \in SaeSides, saeConf \in SaeConfs, NEW s, EndInv(e, s),
           NEW p \in {NoScalar, s.peer}, s.state = "ACCEPTED" => p \in {NoScalar, Partner(e, s)},
           NEW q \in Seq(SaeFrames(e)), TxGrown(s.tx, q, s.drawn, p),
           NEW n \in Nat, NEW timer \in BOOLEAN, saeConf.mesh => (timer <=> s.timer)
                           \/ s.state \notin {"COMMITTED", "CONFIRMED"},
           NEW auth \in BOOLEAN
    PROVE  Evolves(e, s, [s EXCEPT !.sync = n, !.timer = timer, !.auth_timer = auth,
                                   !.tx = q], NoScalar)
<1> DEFINE r == [s EXCEPT !.sync = n, !.timer = timer, !.auth_timer = auth, !.tx = q]
<1>1. s \in SaeEnd(e) /\ NoScalar \in MaybeDrawn(OtherSide(e)) BY Maybe DEF EndInv
<1>2. r \in SaeEnd(e) BY <1>1, Zenon DEF SaeEnd
<1>3. /\ r.state = s.state /\ r.drawn = s.drawn /\ r.own = s.own /\ r.key = s.key
      /\ r.accepted = s.accepted /\ r.peer = s.peer /\ r.tx = q
  BY <1>1 DEF SaeEnd
<1>4. r.timer = timer BY <1>1, Zenon DEF SaeEnd
<1> HIDE DEF r
<1>5. Evolves(e, s, r, NoScalar) BY <1>1, <1>2, <1>3, <1>4, WithinExchange
<1> QED BY <1>5 DEF r

\* What becomes of a Confirm: the end accepts on it, or it does not come to accept.
Settles(e, s, r, f) == Evolves(e, s, r, NoScalar) \/ Accepts(e, s, r, f)

\* sae_sm_step() of a Confirm when the end has committed.
LEMMA ConfirmCommitted ==
    ASSUME NEW e \in SaeSides, saeConf \in SaeConfs, NEW s, EndInv(e, s), RunsAp(e),
           s.state = "COMMITTED",
           NEW f \in SaeFrames(OtherSide(e)), f.type = "confirm",
           f.receiver # NoScalar => Beyond(s, f.receiver[2]),
           saeConf.mesh \/ sae_check_confirm(s, f)
    PROVE  Settles(e, s, ConfirmInCommitted(s, e), f)
<1> DEFINE c == sae_clear_retransmit_timer(s)
           r == ConfirmInCommitted(s, e)
<1>1. s \in SaeEnd(e) /\ s.tx \in Seq(SaeFrames(e)) /\ s.drawn \in Nat
      /\ s.own = <<e, s.drawn>> /\ s.own # NoScalar
  BY OwnScalar DEF EndInv, EndCore
<1>2. CASE ~saeConf.mesh
  <2> DEFINE q == SaeSent(s.tx, ConfirmFrame(c))
             z == [s EXCEPT !.state = "ACCEPTED", !.accepted = s.peer, !.peer = NoScalar,
                            !.timer = FALSE, !.tx = q]
  <2>1. /\ e = "ap" /\ KeyIsCurrent(e, s) /\ sae_check_confirm(s, f)
        /\ Beyond(s, f.receiver[2])
    BY <1>2 DEF RunsAp, KeyIsCurrent, sae_check_confirm
  <2>2. s.key = SaeKey(e, s.own, s.peer) /\ s.peer \in Drawable(OtherSide(e))
    BY <1>2, <2>1, Verified
  <2>3. c.own = s.own /\ c.peer = s.peer /\ c.key = s.key /\ c.tx = s.tx
    BY <1>1 DEF sae_clear_retransmit_timer, SaeEnd
  <2>4. q \in Seq(SaeFrames(e)) /\ TxGrown(s.tx, q, s.drawn, s.peer)
    <3> HIDE DEF c
    <3> QED BY <1>1, <2>2, <2>3, SendsConfirm
  <2>5. r = z
    <3>1. r = sae_accept_sta([c EXCEPT !.tx = q])
      BY <1>2, <2>3 DEF ConfirmInCommitted, auth_sae_send_confirm
    <3> HIDE DEF q, r
    <3> QED BY <1>1, <3>1 DEF sae_accept_sta, sae_clear_retransmit_timer, SaeEnd
  <2> HIDE DEF q, r
  <2>6. "ACCEPTED" \in SaeStates /\ NoScalar \in MaybeDrawn(OtherSide(e))
        /\ s.peer \in MaybeDrawn(OtherSide(e))
    BY <2>2, Maybe DEF SaeStates
  <2>7. z \in SaeEnd(e) BY <1>1, <2>4, <2>6, Zenon DEF SaeEnd
  <2>8. /\ z.state = "ACCEPTED" /\ z.drawn = s.drawn /\ z.own = s.own /\ z.key = s.key
        /\ z.accepted = s.peer /\ z.peer = NoScalar /\ z.tx = q
    BY <1>1 DEF SaeEnd
  <2> HIDE DEF z
  <2>9. Partner(e, z) = s.peer BY <2>8 DEF Partner
  <2>10. Accepts(e, s, z, f) BY <1>2, <2>1, <2>4, <2>7, <2>8, <2>9, Accepting
  <2> QED BY <2>5, <2>10 DEF Settles, r
<1>3. CASE saeConf.mesh /\ BigSync(c)
  <2>1. r = GiveUp(c) BY <1>3 DEF ConfirmInCommitted
  <2>2. NoScalar \in MaybeDrawn(OtherSide(e)) BY Maybe
  <2>3. Evolves(e, s, GiveUp(c), NoScalar) BY <2>2, Resets, Zenon
  <2> QED BY <2>1, <2>3, Zenon DEF Settles
<1>4. CASE saeConf.mesh /\ ~BigSync(c)
  <2> DEFINE n == s.sync + 1
             q == SaeSent(s.tx, CommitFrame(<<e, s.drawn>>, FALSE))
             z == [s EXCEPT !.sync = n, !.timer = TRUE, !.auth_timer = s.auth_timer, !.tx = q]
  <2>1. r = sae_set_retransmit_timer(
              auth_sae_send_commit([c EXCEPT !.sync = @ + 1], e, FALSE, FALSE))
    BY <1>4 DEF ConfirmInCommitted
  <2>2. [c EXCEPT !.sync = @ + 1] = [s EXCEPT !.timer = FALSE, !.sync = n]
    BY <1>1 DEF sae_clear_retransmit_timer, SaeEnd
  <2>3. auth_sae_send_commit([s EXCEPT !.timer = FALSE, !.sync = n], e, FALSE, FALSE)
          = [s EXCEPT !.timer = FALSE, !.sync = n, !.tx = q]
    BY <1>1 DEF auth_sae_send_commit, SaeEnd
  <2>4. r = z
    <3>1. r = sae_set_retransmit_timer([s EXCEPT !.timer = FALSE, !.sync = n, !.tx = q])
      BY <2>1, <2>2, <2>3
    <3> HIDE DEF r, q, n
    <3> QED BY <1>1, <1>4, <3>1 DEF sae_set_retransmit_timer, SaeEnd
  <2>5. q \in Seq(SaeFrames(e)) /\ TxGrown(s.tx, q, s.drawn, NoScalar) 
    BY <1>1, OwnScalar, SendsCommit
  <2>6. n \in Nat BY <1>1 DEF SaeEnd
  <2>7. s.timer /\ s.auth_timer \in BOOLEAN
    <3>1. s.timer BY <1>4 DEF EndInv, EndCore
    <3>2. s.auth_timer \in BOOLEAN BY <1>1, Zenon DEF SaeEnd
    <3> QED BY <3>1, <3>2
  <2> HIDE DEF r, q, n
  <2>8. Evolves(e, s, z, NoScalar)
    <3>1. TRUE <=> s.timer BY <2>7
    <3> QED BY <2>5, <2>6, <2>7, <3>1, SendsAgain
  <2> QED BY <2>4, <2>8 DEF r, Settles
<1> QED BY <1>2, <1>3, <1>4

\* When it has confirmed, and when it has accepted.
LEMMA ConfirmConfirmed ==
    ASSUME NEW e \in SaeSides, saeConf \in SaeConfs, NEW s, EndInv(e, s), RunsAp(e),
           s.state = "CONFIRMED",
           NEW f \in SaeFrames(OtherSide(e)), f.type = "confirm",
           Beyond(s, f.receiver[2]), sae_check_confirm(s, f)
    PROVE  Accepts(e, s, sae_accept_sta(sae_clear_retransmit_timer(s)), f)
<1> DEFINE z == [s EXCEPT !.state = "ACCEPTED", !.accepted = s.peer, !.peer = NoScalar,
                          !.timer = FALSE]
<1>1. s \in SaeEnd(e) /\ s.tx \in Seq(SaeFrames(e)) BY OwnScalar
<1>2. sae_accept_sta(sae_clear_retransmit_timer(s)) = z
  BY <1>1 DEF sae_accept_sta, sae_clear_retransmit_timer, SaeEnd
<1>3. KeyIsCurrent(e, s) BY DEF KeyIsCurrent
<1>4. "ACCEPTED" \in SaeStates /\ NoScalar \in MaybeDrawn(OtherSide(e))
      /\ s.peer \in MaybeDrawn(OtherSide(e))
  BY <1>1, Maybe DEF SaeStates, SaeEnd
<1>5. z \in SaeEnd(e) BY <1>1, <1>4, Zenon DEF SaeEnd
<1>6. /\ z.state = "ACCEPTED" /\ z.drawn = s.drawn /\ z.own = s.own /\ z.key = s.key
      /\ z.accepted = s.peer /\ z.peer = NoScalar /\ z.tx = s.tx
  BY <1>1 DEF SaeEnd
<1> HIDE DEF z
<1>7. Partner(e, z) = s.peer BY <1>6 DEF Partner
<1>8. TxGrown(s.tx, s.tx, s.drawn, s.peer) BY <1>1, NotGrown
<1>9. Accepts(e, s, z, f) BY <1>3, <1>5, <1>6, <1>7, <1>8, Accepting
<1> QED BY <1>2, <1>9

\* When it has accepted: the Confirm is answered again.
LEMMA ConfirmAccepted ==
    ASSUME NEW e \in SaeSides, saeConf \in SaeConfs, NEW s, EndInv(e, s), RunsAp(e),
           s.state = "ACCEPTED",
           NEW f \in SaeFrames(OtherSide(e)), f.type = "confirm", sae_check_confirm(s, f)
    PROVE  Evolves(e, s, IF BigSync(s) THEN GiveUp(s)
                         ELSE auth_sae_send_confirm([s EXCEPT !.sync = @ + 1]), NoScalar)
<1> DEFINE n == s.sync + 1
           t == [s EXCEPT !.sync = n]
           q == SaeSent(s.tx, ConfirmFrame(t))
           z == [s EXCEPT !.sync = n, !.timer = s.timer, !.auth_timer = s.auth_timer, !.tx = q]
<1>1. s \in SaeEnd(e) BY DEF EndInv
<1>2. KeyIsCurrent(e, s) BY DEF KeyIsCurrent
<1>3. /\ s.own \in Drawable(e) /\ s.peer \in Drawable(OtherSide(e))
      /\ s.key = SaeKey(e, s.own, s.peer)
  BY <1>2, Verified
<1>4. Partner(e, s) = s.peer
  <2>1. Partner(e, s) # NoScalar /\ s.key = SaeKey(e, s.own, Partner(e, s))
    BY DEF EndInv, EndCore
  <2>2. Partner(e, s) \in Drawable(OtherSide(e)) BY <1>1, <2>1, Maybe DEF Partner, SaeEnd
  <2>3. SaeKey(e, s.own, s.peer) = SaeKey(e, s.own, Partner(e, s)) BY <1>3, <2>1
  <2>4. \A y \in Drawable(OtherSide(e)) :
          SaeKey(e, s.own, s.peer) = SaeKey(e, s.own, y) => s.peer = y
    BY <1>3, KeysAgree
  <2> QED BY <2>2, <2>3, <2>4
<1>5. CASE BigSync(s)
  <2>1. NoScalar \in MaybeDrawn(OtherSide(e)) BY Maybe
  <2>2. Evolves(e, s, GiveUp(s), NoScalar) BY <2>1, Resets, Zenon
  <2> QED BY <1>5, <2>2, Zenon
<1>6. CASE ~BigSync(s)
  <2>1. t.own = s.own /\ t.peer = s.peer /\ t.key = s.key /\ t.tx = s.tx BY <1>1 DEF SaeEnd
  <2>2. auth_sae_send_confirm([s EXCEPT !.sync = @ + 1]) = [t EXCEPT !.tx = q]
    BY <2>1 DEF auth_sae_send_confirm
  <2>3. q \in Seq(SaeFrames(e)) /\ TxGrown(s.tx, q, s.drawn, s.peer)
    <3> HIDE DEF t
    <3>1. s.own # NoScalar BY <1>3, NotDrawn
    <3> QED BY <1>3, <2>1, <3>1, SendsConfirm
  <2>4. n \in Nat BY <1>1 DEF SaeEnd
  <2>5. s.timer \in BOOLEAN /\ s.auth_timer \in BOOLEAN BY <1>1, Zenon DEF SaeEnd
  <2>6. [t EXCEPT !.tx = q] = z
    <3> HIDE DEF q, n
    <3> QED BY <1>1 DEF SaeEnd
  <2> HIDE DEF q, n
  <2>7. Evolves(e, s, z, NoScalar) BY <1>4, <2>3, <2>4, <2>5, SendsAgain
  <2> QED BY <1>6, <2>2, <2>6, <2>7
<1> QED BY <1>5, <1>6

\* handle_auth_sae() of a Confirm.
LEMMA Confirm ==
    ASSUME NEW e \in SaeSides, saeConf \in SaeConfs, NEW s, EndInv(e, s), RunsAp(e),
           NEW f \in SaeFrames(OtherSide(e)), f.type = "confirm",
           f.receiver # NoScalar => Beyond(s, f.receiver[2]), NEW ignored \in BOOLEAN
    PROVE  Settles(e, s, RxConfirm(s, e, f, ignored), f)
<1> DEFINE r == RxConfirm(s, e, f, ignored)
<1>1. s \in SaeEnd(e) /\ NoScalar \in MaybeDrawn(OtherSide(e)) BY Maybe DEF EndInv
<1>2. Evolves(e, s, s, NoScalar) BY NothingHappens
<1>3. Evolves(e, s, SaeRejected(s, "confirm"), NoScalar) BY <1>1, Rejection
<1>4. CASE r \in {s, SaeRejected(s, "confirm")} BY <1>2, <1>3, <1>4 DEF Settles
<1>5. CASE r \notin {s, SaeRejected(s, "confirm")}
  <2>1. r = StepConfirm(s, e) /\ \/ saeConf.mesh /\ s.state = "COMMITTED"
                                 \/ sae_check_confirm(s, f)
    BY <1>5 DEF RxConfirm, StepConfirm
  <2>2. s.state # "NOTHING" BY <1>5, <2>1 DEF StepConfirm
  <2>3. sae_check_confirm(s, f) => f.receiver # NoScalar BY DEF sae_check_confirm
  <2> HIDE DEF r
  <2>4. CASE s.state = "COMMITTED"
    <3>1. r = ConfirmInCommitted(s, e) BY <2>1, <2>4 DEF StepConfirm
    <3>2. Settles(e, s, ConfirmInCommitted(s, e), f) BY <2>1, <2>4, ConfirmCommitted
    <3> QED BY <3>1, <3>2 DEF r
  <2>5. CASE s.state = "CONFIRMED"
    <3>1. r = sae_accept_sta(sae_clear_retransmit_timer(s)) BY <2>1, <2>5 DEF StepConfirm
    <3>2. Accepts(e, s, sae_accept_sta(sae_clear_retransmit_timer(s)), f)
      BY <2>1, <2>3, <2>5, ConfirmConfirmed
    <3> QED BY <3>1, <3>2 DEF Settles, r
  <2>6. CASE s.state = "ACCEPTED"
    <3>1. r = IF BigSync(s) THEN GiveUp(s)
              ELSE auth_sae_send_confirm([s EXCEPT !.sync = @ + 1])
      BY <2>1, <2>6 DEF StepConfirm
    <3>2. Evolves(e, s, IF BigSync(s) THEN GiveUp(s)
                        ELSE auth_sae_send_confirm([s EXCEPT !.sync = @ + 1]), NoScalar)
      BY <2>1, <2>6, ConfirmAccepted
    <3> QED BY <3>1, <3>2 DEF Settles, r
  <2> QED BY <1>1, <2>2, <2>4, <2>5, <2>6 DEF SaeEnd, SaeStates
<1> QED BY <1>4, <1>5
-----------------------------------------------------------------------------
(* Timers, the start of an exchange, and the station. *)

\* An end other than an access point sends a Commit, with a scalar that it has or
\* with a new one.
LEMMA Starts ==
    ASSUME NEW e \in SaeSides, NEW s, EndInv(e, s), NEW r \in SaeEnd(e),
           saeConf.mesh \/ e # "ap",
           r.state = "COMMITTED", s.drawn <= r.drawn, r.own = <<e, r.drawn>>,
           r.peer \in {s.peer, NoScalar}, r.accepted \in {s.accepted, NoScalar},
           saeConf.mesh => r.timer, TxGrown(s.tx, r.tx, r.drawn, NoScalar)
    PROVE  Evolves(e, s, r, NoScalar)
<1>1. r.own # NoScalar /\ NoScalar \in MaybeDrawn(OtherSide(e))
  <2>1. r.own \in MaybeDrawn(e) /\ r.own # NoScalar BY SMTT(30) DEF SaeEnd, NoScalar
  <2> QED BY <2>1, NotDrawn, Maybe
<1>2. EndCore(e, r) BY <1>1 DEF EndCore, KeyIsCurrent
<1> QED BY <1>1, <1>2, Evolved DEF Evolves

\* mesh_rsn_auth_sae_sta().
LEMMA MeshStarts ==
    ASSUME NEW e \in SaeSides, saeConf \in SaeConfs, saeConf.mesh, NEW s, EndInv(e, s)
    PROVE  Evolves(e, s, mesh_rsn_auth_sae_sta(s, e), NoScalar)
<1> DEFINE d == s.drawn + 1
           w == <<e, d>>
           q == SaeSent(s.tx, CommitFrame(<<e, d>>, FALSE))
           z == [s EXCEPT !.state = "COMMITTED", !.own = w, !.peer = NoScalar,
                          !.accepted = NoScalar, !.key = NoScalar, !.sync = 0,
                          !.disabled = FALSE, !.drawn = d, !.timer = TRUE,
                          !.auth_timer = TRUE, !.tx = q]
<1>1. s \in SaeEnd(e) /\ s.drawn \in Nat BY OwnScalar
<1>2. d \in Nat \ {0} /\ s.drawn <= d BY <1>1
<1>3. q \in Seq(SaeFrames(e)) /\ TxGrown(s.tx, q, d, NoScalar) BY <1>2, SendsCommit
<1>4. mesh_rsn_auth_sae_sta(s, e) = z
  <2>1. auth_sae_send_commit(SaeCleared(s), e, TRUE, FALSE)
          = [s EXCEPT !.state = "NOTHING", !.own = w, !.peer = NoScalar,
                      !.accepted = NoScalar, !.key = NoScalar, !.sync = 0,
                      !.disabled = FALSE, !.drawn = d, !.tx = q]
    BY ZenonT(40), <1>1 DEF auth_sae_send_commit, SaeCleared, SaeEnd
  <2> HIDE DEF d, w, q
  <2> QED BY ZenonT(40), <1>1, <2>1 DEF mesh_rsn_auth_sae_sta, sae_set_retransmit_timer, SaeEnd
<1>5. /\ w \in MaybeDrawn(e) /\ NoScalar \in MaybeDrawn(OtherSide(e))
      /\ "COMMITTED" \in SaeStates
  BY <1>2, Maybe DEF SaeStates
<1>w. w = <<e, d>> OBVIOUS
<1> HIDE DEF d, w, q
<1>6. z \in SaeEnd(e) BY <1>1, <1>2, <1>3, <1>5, Zenon DEF SaeEnd
<1>7. /\ z.state = "COMMITTED" /\ z.drawn = d /\ z.own = w /\ z.peer = NoScalar
      /\ z.accepted = NoScalar /\ z.timer /\ z.tx = q
  BY <1>1 DEF SaeEnd
<1> HIDE DEF z
<1>8. Evolves(e, s, z, NoScalar) BY <1>2, <1>3, <1>6, <1>7, <1>w, Starts
<1> QED BY <1>4, <1>8

\* A token request in a mesh.
LEMMA TokenAsked ==
    ASSUME NEW e \in SaeSides, saeConf \in SaeConfs, saeConf.mesh, NEW s, EndInv(e, s),
           s.own # NoScalar
    PROVE  Evolves(e, s, RxTokenRequest(s, e), NoScalar)
<1> DEFINE q == SaeSent(s.tx, CommitFrame(<<e, s.drawn>>, TRUE))
           z == [s EXCEPT !.state = "COMMITTED", !.sync = 0, !.timer = TRUE, !.tx = q]
<1>1. s \in SaeEnd(e) /\ s.drawn \in Nat \ {0} /\ s.own = <<e, s.drawn>> BY OwnScalar
<1>2. s.drawn <= s.drawn BY <1>1
<1>3. q \in Seq(SaeFrames(e)) /\ TxGrown(s.tx, q, s.drawn, NoScalar) BY <1>1, SendsCommit
<1>4. RxTokenRequest(s, e) = z
  <2>1. auth_sae_send_commit(s, e, FALSE, TRUE) = [s EXCEPT !.tx = q]
    BY <1>1 DEF auth_sae_send_commit
  <2> HIDE DEF q
  <2> QED BY <1>1, <2>1 DEF RxTokenRequest, sae_set_retransmit_timer, SaeEnd
<1>5. "COMMITTED" \in SaeStates BY DEF SaeStates
<1> HIDE DEF q
<1>6. z \in SaeEnd(e) BY <1>1, <1>3, <1>5, Zenon DEF SaeEnd
<1>7. /\ z.state = "COMMITTED" /\ z.drawn = s.drawn /\ z.own = s.own /\ z.peer = s.peer
      /\ z.accepted = s.accepted /\ z.timer /\ z.tx = q
  BY <1>1 DEF SaeEnd
<1> HIDE DEF z
<1>8. Evolves(e, s, z, NoScalar) BY <1>1, <1>2, <1>3, <1>6, <1>7, Starts
<1> QED BY <1>4, <1>8

\* auth_sae_retransmit_timer().
LEMMA Retransmits ==
    ASSUME NEW e \in SaeSides, saeConf \in SaeConfs, NEW s, EndInv(e, s)
    PROVE  Evolves(e, s, Retransmitted(s, e), NoScalar)
<1> DEFINE n == s.sync + 1
           t == [s EXCEPT !.sync = n]
           r == Retransmitted(s, e)
<1>1. s \in SaeEnd(e) /\ s.tx \in Seq(SaeFrames(e)) /\ s.drawn \in Nat
      /\ (s.own # NoScalar => s.own = <<e, s.drawn>>)
  BY OwnScalar
<1>2. n \in Nat BY <1>1 DEF SaeEnd
<1>3. s.timer \in BOOLEAN /\ s.auth_timer \in BOOLEAN BY <1>1, Zenon DEF SaeEnd
<1>4. t.own = s.own /\ t.peer = s.peer /\ t.key = s.key /\ t.tx = s.tx BY <1>1 DEF SaeEnd
<1>5. s.state # "NOTHING" => s.own # NoScalar BY DEF EndInv, EndCore
<1>6. CASE BigSync(s)
  <2>1. r = GiveUp(sae_clear_retransmit_timer(s))
    BY <1>6 DEF Retransmitted, sae_clear_retransmit_timer
  <2>2. NoScalar \in MaybeDrawn(OtherSide(e)) BY Maybe
  <2>3. Evolves(e, s, GiveUp(sae_clear_retransmit_timer(s)), NoScalar) BY <2>2, Resets, Zenon
  <2> QED BY <2>1, <2>3, Zenon
<1>7. CASE ~BigSync(s) /\ s.state = "COMMITTED"
  <2> DEFINE q == SaeSent(s.tx, CommitFrame(<<e, s.drawn>>, FALSE))
             z == [s EXCEPT !.sync = n, !.timer = s.timer, !.auth_timer = s.auth_timer, !.tx = q]
  <2>1. r = auth_sae_send_commit(t, e, FALSE, FALSE) BY <1>7 DEF Retransmitted
  <2>2. auth_sae_send_commit(t, e, FALSE, FALSE) = [t EXCEPT !.tx = q]
    BY <1>1, <1>4, <1>5, <1>7 DEF auth_sae_send_commit
  <2>3. q \in Seq(SaeFrames(e)) /\ TxGrown(s.tx, q, s.drawn, NoScalar)
    BY <1>5, <1>7, OwnScalar, SendsCommit
  <2> HIDE DEF q, n, r
  <2>4. [t EXCEPT !.tx = q] = z BY <1>1 DEF SaeEnd
  <2>5. Evolves(e, s, z, NoScalar) BY <1>2, <1>3, <1>7, <2>3, SendsAgain
  <2> QED BY <2>1, <2>2, <2>4, <2>5 DEF r
<1>8. CASE ~BigSync(s) /\ s.state = "CONFIRMED"
  <2> DEFINE q == SaeSent(s.tx, ConfirmFrame(t))
             z == [s EXCEPT !.sync = n, !.timer = s.timer, !.auth_timer = s.auth_timer, !.tx = q]
  <2>1. r = auth_sae_send_confirm(t) BY <1>8 DEF Retransmitted
  <2>2. auth_sae_send_confirm(t) = [t EXCEPT !.tx = q] BY <1>4 DEF auth_sae_send_confirm
  <2>3. PICK y \in Drawable(OtherSide(e)) : s.key = SaeKey(e, s.own, y)
    BY <1>8 DEF EndInv, EndCore, KeyIsCurrent
  <2>4. q \in Seq(SaeFrames(e)) /\ TxGrown(s.tx, q, s.drawn, s.peer)
    <3> HIDE DEF t
    <3> QED BY <1>4, <1>5, <1>8, <2>3, SendsConfirm
  <2> HIDE DEF q, n, r
  <2>5. [t EXCEPT !.tx = q] = z BY <1>1 DEF SaeEnd
  <2>6. Evolves(e, s, z, NoScalar) BY <1>2, <1>3, <1>8, <2>4, SendsAgain
  <2> QED BY <2>1, <2>2, <2>5, <2>6 DEF r
<1>9. CASE ~BigSync(s) /\ s.state \notin {"COMMITTED", "CONFIRMED"}
  <2> DEFINE z == [s EXCEPT !.sync = n, !.timer = FALSE, !.auth_timer = s.auth_timer, !.tx = s.tx]
  <2>1. r = [t EXCEPT !.timer = FALSE] BY <1>9 DEF Retransmitted
  <2>2. TxGrown(s.tx, s.tx, s.drawn, NoScalar) BY <1>1, NotGrown
  <2> HIDE DEF n, r
  <2>3. [t EXCEPT !.timer = FALSE] = z BY <1>1 DEF SaeEnd
  <2>4. Evolves(e, s, z, NoScalar) BY <1>1, <1>2, <1>3, <1>9, <2>2, SendsAgain
  <2> QED BY <2>1, <2>3, <2>4 DEF r
<1> QED BY <1>6, <1>7, <1>8, <1>9

\* mesh_auth_timer(): try again, give up for now, or forget the peer.
LEMMA MeshTimer ==
    ASSUME NEW e \in SaeSides, saeConf \in SaeConfs, saeConf.mesh, NEW a, EndInv(e, a)
    PROVE  LET s == [a EXCEPT !.auth_timer = FALSE]
               n == [s EXCEPT !.retry = @ + 1]
           IN Evolves(e, a, IF s.state = "ACCEPTED" THEN s
                            ELSE IF s.retry < MeshAuthRetry THEN mesh_rsn_auth_sae_sta(n, e)
                            ELSE IF s.retry > MeshAuthRetry THEN SaeFreed(s)
                            ELSE [n EXCEPT !.state = "NOTHING"], NoScalar)
<1> DEFINE s == [a EXCEPT !.auth_timer = FALSE]
           n == [s EXCEPT !.retry = @ + 1]
           z == [n EXCEPT !.state = "NOTHING"]
           k == a.retry + 1
<1>1. a \in SaeEnd(e) /\ NoScalar \in MaybeDrawn(OtherSide(e)) BY Maybe DEF EndInv
<1>2. a.present \in BOOLEAN /\ a.disabled \in BOOLEAN BY <1>1, Zenon DEF SaeEnd
<1>3. a.retry \in Nat /\ k \in Nat BY <1>1 DEF SaeEnd
<1>4. s = [a EXCEPT !.present = a.present, !.auth_timer = FALSE, !.disabled = a.disabled,
                    !.retry = a.retry]
  BY <1>1 DEF SaeEnd
<1>5. n = [a EXCEPT !.present = a.present, !.auth_timer = FALSE, !.disabled = a.disabled,
                    !.retry = k]
  BY <1>1 DEF SaeEnd
<1>6. /\ z \in SaeEnd(e) /\ z.state = "NOTHING" /\ z.drawn = a.drawn /\ z.own = a.own
      /\ z.peer = a.peer /\ z.accepted = a.accepted /\ z.tx = a.tx
  <2>1. z = [a EXCEPT !.auth_timer = FALSE, !.retry = k, !.state = "NOTHING"]
    BY <1>1 DEF SaeEnd
  <2>2. "NOTHING" \in SaeStates BY DEF SaeStates
  <2> HIDE DEF k, z, n
  <2>3. [a EXCEPT !.auth_timer = FALSE, !.retry = k, !.state = "NOTHING"] \in SaeEnd(e)
    BY <1>1, <1>3, <2>2, Zenon DEF SaeEnd
  <2>4. z \in SaeEnd(e) BY <2>1, <2>3
  <2>5. /\ z.state = "NOTHING" /\ z.drawn = a.drawn /\ z.own = a.own
        /\ z.peer = a.peer /\ z.accepted = a.accepted /\ z.tx = a.tx
    BY <1>1, <2>1 DEF SaeEnd
  <2> QED BY <2>4, <2>5
<1> HIDE DEF s, n, z, k
<1>7. Evolves(e, a, s, NoScalar) BY <1>1, <1>2, <1>3, <1>4, SideFields
<1>8. Evolves(e, a, n, NoScalar) BY <1>1, <1>2, <1>3, <1>5, SideFields
<1>9. EndInv(e, s) /\ EndInv(e, n) BY <1>7, <1>8 DEF Evolves, Advances
<1>10. Evolves(e, a, mesh_rsn_auth_sae_sta(n, e), NoScalar)
  <2>1. Evolves(e, n, mesh_rsn_auth_sae_sta(n, e), NoScalar) BY <1>9, MeshStarts
  <2> QED BY <1>8, <2>1, Composed DEF Evolves
<1>11. Evolves(e, a, SaeFreed(s), NoScalar)
  <2>1. Evolves(e, s, SaeFreed(s), NoScalar) BY <1>1, <1>9, Resets, Zenon
  <2> QED BY <1>7, <2>1, Composed DEF Evolves
<1>12. Evolves(e, a, z, NoScalar)
  <2>1. TxGrown(a.tx, a.tx, a.drawn, NoScalar) BY OwnScalar, NotGrown
  <2> QED BY <1>1, <1>6, <2>1, OutOfExchange
<1> QED BY <1>7, <1>10, <1>11, <1>12 DEF s, n, z

\* sme_authenticate().
LEMMA StationStarts ==
    ASSUME saeConf \in SaeConfs, ~saeConf.mesh, NEW s, EndInv("peer", s)
    PROVE  Evolves("peer", s, [auth_sae_send_commit(s, "peer", TRUE, FALSE)
                                EXCEPT !.present = TRUE, !.state = "COMMITTED",
                                       !.auth_timer = TRUE], NoScalar)
<1> DEFINE e == "peer"
           d == s.drawn + 1
           w == <<"peer", d>>
           q == SaeSent(s.tx, CommitFrame(<<"peer", d>>, FALSE))
           z == [s EXCEPT !.state = "COMMITTED", !.own = w, !.drawn = d, !.present = TRUE,
                          !.auth_timer = TRUE, !.tx = q]
<1>0. e \in SaeSides /\ e # "ap" BY DEF SaeSides
<1>1. s \in SaeEnd(e) /\ s.drawn \in Nat BY <1>0, OwnScalar
<1>2. d \in Nat \ {0} /\ s.drawn <= d BY <1>1
<1>3. q \in Seq(SaeFrames(e)) /\ TxGrown(s.tx, q, d, NoScalar) BY <1>0, <1>2, SendsCommit
<1>4. [auth_sae_send_commit(s, "peer", TRUE, FALSE)
         EXCEPT !.present = TRUE, !.state = "COMMITTED", !.auth_timer = TRUE] = z
  <2>1. auth_sae_send_commit(s, "peer", TRUE, FALSE)
          = [s EXCEPT !.own = w, !.drawn = d, !.tx = q]
    BY <1>1 DEF auth_sae_send_commit, SaeEnd
  <2> HIDE DEF d, w, q
  <2> QED BY <1>1, <2>1 DEF SaeEnd
<1>5. w \in MaybeDrawn(e) /\ "COMMITTED" \in SaeStates BY <1>2, Maybe DEF SaeStates
<1>w. w = <<e, d>> OBVIOUS
<1> HIDE DEF d, w, q
<1>6. z \in SaeEnd(e) BY <1>1, <1>2, <1>3, <1>5, Zenon DEF SaeEnd
<1>7. /\ z.state = "COMMITTED" /\ z.drawn = d /\ z.own = w /\ z.peer = s.peer
      /\ z.accepted = s.accepted /\ z.tx = q
  BY <1>1 DEF SaeEnd
<1> HIDE DEF z
<1>8. Evolves(e, s, z, NoScalar) BY <1>0, <1>2, <1>3, <1>6, <1>7, <1>w, Starts
<1> QED BY <1>4, <1>8

\* wpas_connection_failed().
LEMMA StationFails ==
    ASSUME NEW e \in SaeSides, NEW s, EndInv(e, s)
    PROVE  /\ Evolves(e, s, SmeFailed(s), NoScalar)
           /\ Evolves(e, s, SmeFailed([s EXCEPT !.auth_timer = FALSE]), NoScalar)
<1> DEFINE z == [s EXCEPT !.present = FALSE, !.auth_timer = FALSE, !.disabled = s.disabled,
                          !.retry = s.retry]
<1>1. s \in SaeEnd(e) /\ NoScalar \in MaybeDrawn(OtherSide(e)) BY Maybe DEF EndInv
<1>2. s.disabled \in BOOLEAN BY <1>1, Zenon DEF SaeEnd
<1>3. s.retry \in Nat BY <1>1 DEF SaeEnd
<1>4. SmeFailed(s) = z /\ SmeFailed([s EXCEPT !.auth_timer = FALSE]) = z
  BY <1>1 DEF SmeFailed, SaeEnd
<1>z. z = [s EXCEPT !.present = FALSE, !.auth_timer = FALSE, !.disabled = s.disabled,
                    !.retry = s.retry]
  OBVIOUS
<1> HIDE DEF z
<1>5. Evolves(e, s, z, NoScalar) BY <1>1, <1>2, <1>3, <1>z, SideFields
<1> QED BY <1>4, <1>5

\* What becomes of a frame: a Commit is answered, a Confirm settles the exchange.
Handles(e, s, r, f) ==
    IF f.type = "commit" THEN Evolves(e, s, r, f.scalar) ELSE Settles(e, s, r, f)

\* A step that needs nothing received.
LEMMA HandlesAny ==
    ASSUME NEW e, NEW s, NEW r, NEW f, Evolves(e, s, r, NoScalar)
    PROVE  Handles(e, s, r, f)
  BY DEF Handles, Settles, Evolves, Advances

\* sme_event_auth().
LEMMA StationReceives ==
    ASSUME saeConf \in SaeConfs, ~saeConf.mesh, NEW s, EndInv("peer", s),
           NEW f \in SaeFrames("ap"),
           f.type = "commit" => AnswersUpTo(s.tx, f.scalar[2]),
           Answers(f) => Beyond(s, f.receiver[2])
    PROVE  Handles("peer", s, SmeRx(s, f), f)
<1> DEFINE e == "peer"
           c == [s EXCEPT !.auth_timer = FALSE]
           r == SmeRx(s, f)
<1>1. e \in SaeSides /\ OtherSide(e) = "ap" BY DEF SaeSides, OtherSide
<1>2. /\ s \in SaeEnd(e) /\ NoScalar \in MaybeDrawn(OtherSide(e)) /\ s.tx \in Seq(SaeFrames(e))
      /\ s.drawn \in Nat
      /\ s.own # NoScalar => /\ s.own = <<e, s.drawn>> /\ s.own \in Drawable(e)
                             /\ s.drawn \in Nat \ {0}
  BY <1>1, Maybe, OwnScalar
<1>n. s.drawn <= s.drawn BY <1>2
<1>3. s.present \in BOOLEAN /\ s.disabled \in BOOLEAN /\ s.timer \in BOOLEAN
  BY <1>2, Zenon DEF SaeEnd
<1>4. s.retry \in Nat /\ s.sync \in Nat BY <1>2 DEF SaeEnd
<1>5. s.state # "NOTHING" => s.own # NoScalar BY DEF EndInv, EndCore
<1>6. CASE f.type = "commit" /\ s.state = "COMMITTED"
  <2> DEFINE x == f.scalar
             k == SaeKey(e, s.own, x)
             g == [s EXCEPT !.auth_timer = FALSE, !.peer = x, !.key = k]
             q == SaeSent(s.tx, ConfirmFrame(g))
             z == [s EXCEPT !.auth_timer = TRUE, !.peer = x, !.key = k, !.state = "CONFIRMED",
                            !.tx = q]
  <2>1. x \in Drawable(OtherSide(e))
    BY <1>1, <1>6 DEF SaeFrames, CommitFrames, ConfirmFrames, OtherFrames
  <2>2. g.own = s.own /\ g.peer = x /\ g.key = k /\ g.tx = s.tx BY <1>2 DEF SaeEnd
  <2>3. s.own = <<e, s.drawn>> /\ s.own \in Drawable(e) /\ s.drawn \in Nat \ {0}
    BY <1>2, <1>5, <1>6
  <2>4. q \in Seq(SaeFrames(e)) /\ TxGrown(s.tx, q, s.drawn, x)
    <3> HIDE DEF g
    <3> QED BY <1>1, <1>2, <2>1, <2>2, <2>3, Exchange
  <2>5. sae_process_commit([c EXCEPT !.peer = f.scalar], "peer") = g
    BY <1>2 DEF sae_process_commit, SaeEnd
  <2>6. auth_sae_send_confirm(g) = [g EXCEPT !.tx = q] BY <2>2 DEF auth_sae_send_confirm
  <2>7. r = [[g EXCEPT !.tx = q] EXCEPT !.state = "CONFIRMED", !.auth_timer = TRUE]
    BY <1>6, <2>5, <2>6 DEF SmeRx
  <2>8. k \in SaeKeysOf(e) /\ x \in MaybeDrawn(OtherSide(e)) /\ "CONFIRMED" \in SaeStates
    BY <2>1, <2>3, KeyTyped, Maybe DEF SaeStates
  <2>k. k = SaeKey(e, s.own, x) OBVIOUS
  <2> HIDE DEF q, k, r
  <2>9. r = z BY <1>2, <2>7 DEF SaeEnd
  <2>10. z \in SaeEnd(e) BY <1>2, <2>4, <2>8, Zenon DEF SaeEnd
  <2>11. /\ z.state = "CONFIRMED" /\ z.drawn = s.drawn /\ z.own = s.own /\ z.peer = x
         /\ z.key = k /\ z.accepted = s.accepted /\ z.tx = q
    BY <1>2 DEF SaeEnd
  <2> HIDE DEF z
  <2>12. Evolves(e, s, z, x)
    BY <1>1, <1>2, <1>n, <1>6, <2>1, <2>3, <2>4, <2>10, <2>11, <2>k, IntoExchange
  <2> QED BY <1>6, <2>9, <2>12 DEF Handles, r
<1>7. CASE f.type = "commit" /\ s.state # "COMMITTED"
  <2>1. r = c BY <1>7 DEF SmeRx
  <2>2. c = [s EXCEPT !.present = s.present, !.auth_timer = FALSE, !.disabled = s.disabled,
                      !.retry = s.retry]
    BY <1>2 DEF SaeEnd
  <2> HIDE DEF c, r
  <2>3. Evolves(e, s, c, NoScalar) BY <1>1, <1>2, <1>3, <1>4, <2>2, SideFields
  <2> QED BY <2>1, <2>3, HandlesAny DEF r
<1>8. CASE f.type = "confirm" /\ s.state = "CONFIRMED" /\ sae_check_confirm(s, f)
  <2> DEFINE z == [s EXCEPT !.auth_timer = FALSE, !.state = "ACCEPTED", !.present = FALSE]
  <2>1. r = z BY <1>2, <1>8 DEF SmeRx, SaeEnd
  <2>2. KeyIsCurrent(e, s) BY <1>8 DEF KeyIsCurrent
  <2>3. Beyond(s, f.receiver[2]) BY <1>8 DEF sae_check_confirm, Answers
  <2>4. "ACCEPTED" \in SaeStates BY DEF SaeStates
  <2>5. z \in SaeEnd(e) BY <1>2, <2>4, Zenon DEF SaeEnd
  <2>6. /\ z.state = "ACCEPTED" /\ z.drawn = s.drawn /\ z.own = s.own /\ z.peer = s.peer
        /\ z.key = s.key /\ z.accepted = s.accepted /\ z.tx = s.tx
    BY <1>2 DEF SaeEnd
  <2> HIDE DEF z, r
  <2>7. Partner(e, z) = s.peer BY <2>6 DEF Partner, RunsAp
  <2>8. TxGrown(s.tx, s.tx, s.drawn, s.peer) BY <1>2, NotGrown
  <2>9. Accepts(e, s, z, f)
    BY <1>1, <1>8, <2>2, <2>3, <2>5, <2>6, <2>7, <2>8, Accepting
  <2> QED BY <1>8, <2>1, <2>9 DEF r, Handles, Settles
<1>9. CASE f.type = "token_request" /\ s.state = "COMMITTED"
  <2> DEFINE q == SaeSent(s.tx, CommitFrame(<<e, s.drawn>>, TRUE))
             z == [s EXCEPT !.sync = s.sync, !.timer = s.timer, !.auth_timer = TRUE, !.tx = q]
  <2>1. auth_sae_send_commit(c, "peer", FALSE, TRUE) = [c EXCEPT !.tx = q]
    BY <1>2, <1>5, <1>9 DEF auth_sae_send_commit, SaeEnd
  <2>2. r = [[c EXCEPT !.tx = q] EXCEPT !.auth_timer = TRUE] BY <1>9, <2>1 DEF SmeRx
  <2>3. q \in Seq(SaeFrames(e)) /\ TxGrown(s.tx, q, s.drawn, NoScalar)
    BY <1>1, <1>2, <1>5, <1>9, SendsCommit
  <2> HIDE DEF q, r
  <2>4. r = z BY <1>2, <2>2 DEF SaeEnd
  <2>5. Evolves(e, s, z, NoScalar) BY <1>1, <1>3, <1>4, <1>9, <2>3, SendsAgain
  <2> QED BY <2>4, <2>5, HandlesAny DEF r
<1>10. CASE /\ f.type # "commit"
            /\ ~(f.type = "confirm" /\ s.state = "CONFIRMED" /\ sae_check_confirm(s, f))
            /\ ~(f.type = "token_request" /\ s.state = "COMMITTED")
  <2>1. r = SmeFailed(c) BY <1>10 DEF SmeRx
  <2>2. Evolves(e, s, SmeFailed(c), NoScalar) BY <1>1, StationFails
  <2> HIDE DEF r, c
  <2> QED BY <2>1, <2>2, HandlesAny DEF r
<1> QED BY <1>6, <1>7, <1>8, <1>9, <1>10
-----------------------------------------------------------------------------
(* The two ends together. *)

\* The first frame an end sent is taken from the link.
LEMMA Taken ==
    ASSUME NEW e \in SaeSides, NEW t, EndInv(e, t), t.tx # <<>>
    PROVE  LET z == [t EXCEPT !.tx = Tail(@)]
           IN /\ EndInv(e, z)
              /\ z.state = t.state /\ z.key = t.key
              /\ \A n \in Nat : Beyond(t, n) => Beyond(z, n)
              /\ \A s : InOrder(t, s) => InOrder(z, s)
              /\ Head(t.tx).type = "commit" => Beyond(z, Head(t.tx).scalar[2])
<1> DEFINE q == Tail(t.tx)
           z == [t EXCEPT !.tx = q]
<1>1. t \in SaeEnd(e) /\ t.tx \in Seq(SaeFrames(e)) BY OwnScalar
<1>2. /\ q \in Seq(SaeFrames(e)) /\ Len(q) = Len(t.tx) - 1 /\ Len(t.tx) \in Nat \ {0}
      /\ \A i \in 1 .. Len(q) : q[i] = t.tx[i + 1] /\ i + 1 \in 1 .. Len(t.tx)
      /\ Head(t.tx) = t.tx[1] /\ Head(t.tx) \in SaeFrames(e) /\ 1 \in 1 .. Len(t.tx)
  BY <1>1, Rest
<1> HIDE DEF q
<1>3. z \in SaeEnd(e) BY <1>1, <1>2, Zenon DEF SaeEnd
<1>4. /\ z.state = t.state /\ z.drawn = t.drawn /\ z.own = t.own /\ z.key = t.key
      /\ z.accepted = t.accepted /\ z.peer = t.peer /\ z.tx = q
  BY <1>1 DEF SaeEnd
<1>5. z.timer = t.timer BY <1>1, Zenon DEF SaeEnd
<1>t. z = [t EXCEPT !.tx = Tail(@)] BY DEF q
<1> HIDE DEF z
<1>6. Partner(e, z) = Partner(e, t) BY <1>4 DEF Partner
<1>7. EndCore(e, z)
  <2>1. EndCore(e, t) BY DEF EndInv
  <2> QED BY <1>4, <1>5, <1>6, <2>1 DEF EndCore, KeyIsCurrent
<1>8. ASSUME NEW n, SentFrom(t.tx, n) PROVE SentFrom(q, n) BY <1>2, <1>8 DEF SentFrom
<1>9. ASSUME NEW n, AnswersUpTo(t.tx, n) PROVE AnswersUpTo(q, n)
  BY <1>2, <1>9 DEF AnswersUpTo
<1>10. Ascending(t.tx) /\ SentUpTo(t.tx, t.drawn) BY DEF EndInv, EndSent
<1>11. SentUpTo(q, t.drawn) BY <1>2, <1>10 DEF SentUpTo
<1>12. Ascending(q)
  <2> SUFFICES ASSUME NEW i \in 1 .. Len(q), NEW j \in 1 .. Len(q), i <= j,
                      Carries(q[i]), Carries(q[j])
               PROVE  Scal(q[i]) <= Scal(q[j])
    BY DEF Ascending
  <2>1. q[i] = t.tx[i + 1] /\ i + 1 \in 1 .. Len(t.tx) BY <1>2
  <2>2. q[j] = t.tx[j + 1] /\ j + 1 \in 1 .. Len(t.tx) BY <1>2
  <2>3. i + 1 <= j + 1 BY <1>2
  <2> QED BY <1>10, <2>1, <2>2, <2>3 DEF Ascending
<1>13. EndSent(e, z)
  BY <1>4, <1>6, <1>8, <1>9, <1>11, <1>12 DEF EndInv, EndSent
<1>14. EndInv(e, z) BY <1>3, <1>7, <1>13 DEF EndInv
<1>15. \A n \in Nat : Beyond(t, n) => Beyond(z, n) BY <1>4, <1>8 DEF Beyond
<1>16. ASSUME NEW s, InOrder(t, s) PROVE InOrder(z, s)
  <2>1. /\ z.peer # NoScalar => Beyond(s, z.peer[2])
        /\ z.accepted # NoScalar => Beyond(s, z.accepted[2])
    BY <1>4, <1>16 DEF InOrder
  <2>2. ASSUME NEW i \in 1 .. Len(z.tx), Answers(z.tx[i])
        PROVE  Beyond(s, z.tx[i].receiver[2])
    BY <1>2, <1>4, <1>16, <2>2 DEF InOrder
  <2> QED BY <2>1, <2>2 DEF InOrder
<1>17. ASSUME Head(t.tx).type = "commit" PROVE Beyond(z, Head(t.tx).scalar[2])
  <2> DEFINE x == t.tx[1]
  <2>1. Carries(x) /\ Scal(x) = Head(t.tx).scalar[2]
    BY <1>2, <1>17 DEF Carries, Scal
  <2>2. Scal(x) <= t.drawn BY <1>2, <1>10, <2>1 DEF SentUpTo
  <2>3. ASSUME NEW i \in 1 .. Len(q), Carries(q[i]) PROVE Scal(x) <= Scal(q[i])
    <3>1. q[i] = t.tx[i + 1] /\ i + 1 \in 1 .. Len(t.tx) BY <1>2
    <3>2. 1 <= i + 1 OBVIOUS
    <3> QED BY <1>2, <1>10, <2>1, <2>3, <3>1, <3>2 DEF Ascending
  <2> QED BY <1>4, <2>1, <2>2, <2>3 DEF Beyond, SentFrom
<1> QED BY <1>t, <1>4, <1>14, <1>15, <1>16, <1>17

\* What an end has from the other is still in order when the other goes on.
LEMMA Follows ==
    ASSUME NEW e \in SaeSides, NEW t, EndInv(e, t), NEW s, NEW r, InOrder(t, s),
           \A n \in Nat : Beyond(s, n) => Beyond(r, n)
    PROVE  InOrder(t, r)
<1> DEFINE o == OtherSide(e)
<1>1. /\ t.peer \in MaybeDrawn(o) /\ t.accepted \in MaybeDrawn(o)
      /\ \A i \in 1 .. Len(t.tx) : t.tx[i] \in SaeFrames(e)
  BY DEF EndInv, SaeEnd
<1>2. \A y \in MaybeDrawn(o) : y # NoScalar => y[2] \in Nat BY Maybe, NotDrawn
<1>3. \A f \in SaeFrames(e) : Answers(f) => f.receiver \in MaybeDrawn(o) /\ f.receiver # NoScalar
  BY DEF SaeFrames, OtherFrames, CommitFrames, ConfirmFrames, Answers
<1>4. /\ t.peer # NoScalar => Beyond(r, t.peer[2])
      /\ t.accepted # NoScalar => Beyond(r, t.accepted[2])
  BY <1>1, <1>2 DEF InOrder
<1>5. ASSUME NEW i \in 1 .. Len(t.tx), Answers(t.tx[i]) PROVE Beyond(r, t.tx[i].receiver[2])
  <2>1. t.tx[i].receiver[2] \in Nat BY <1>1, <1>2, <1>3, <1>5
  <2> QED BY <1>5, <2>1 DEF InOrder
<1> QED BY <1>4, <1>5 DEF InOrder

\* What the order of frames says of the next one.
LEMMA Arrives ==
    ASSUME NEW e \in SaeSides, NEW s, EndInv(e, s), NEW t, EndInv(OtherSide(e), t),
           InOrder(s, t), InOrder(t, s), t.tx # <<>>, NEW f, f = Head(t.tx)
    PROVE  /\ f \in SaeFrames(OtherSide(e))
           /\ f.type = "commit" => AnswersUpTo(s.tx, f.scalar[2])
           /\ Answers(f) => Beyond(s, f.receiver[2])
<1>1. t.tx \in Seq(SaeFrames(OtherSide(e))) BY Sides, OwnScalar
<1>2. f = t.tx[1] /\ f \in SaeFrames(OtherSide(e)) /\ 1 \in 1 .. Len(t.tx) BY <1>1, Rest
<1>3. ASSUME f.type = "commit" PROVE AnswersUpTo(s.tx, f.scalar[2])
  <2> SUFFICES ASSUME NEW i \in 1 .. Len(s.tx), Answers(s.tx[i])
               PROVE  s.tx[i].receiver[2] <= f.scalar[2]
    BY DEF AnswersUpTo
  <2>1. SentFrom(t.tx, s.tx[i].receiver[2]) BY DEF InOrder, Beyond
  <2>2. Carries(f) /\ Scal(f) = f.scalar[2] BY <1>3 DEF Carries, Scal
  <2> QED BY <1>2, <2>1, <2>2 DEF SentFrom
<1>4. Answers(f) => Beyond(s, f.receiver[2]) BY <1>2 DEF InOrder
<1> QED BY <1>2, <1>3, <1>4

\* When the other end has accepted, an end that accepts on its Confirm has the
\* same key: neither has gone on.
LEMMA Agree ==
    ASSUME NEW e \in SaeSides, saeConf \in SaeConfs, NEW s, EndInv(e, s),
           NEW t, EndInv(OtherSide(e), t), InOrder(t, s), t.tx # <<>>, t.state = "ACCEPTED",
           NEW f, f = Head(t.tx), f.type = "confirm", NEW r, Accepts(e, s, r, f)
    PROVE  r.key = t.key
<1> DEFINE o == OtherSide(e)
           p == Partner(o, t)
<1>1. o \in SaeSides /\ OtherSide(o) = e BY Sides
<1>2. t \in SaeEnd(o) /\ t.tx \in Seq(SaeFrames(o)) /\ t.drawn \in Nat BY <1>1, OwnScalar
<1>3. f = t.tx[1] /\ f \in SaeFrames(o) /\ 1 \in 1 .. Len(t.tx) BY <1>2, Rest
<1>4. /\ s.own # NoScalar /\ s.peer # NoScalar /\ f.sender = s.peer /\ f.receiver = s.own
      /\ r.own = s.own /\ Partner(e, r) = s.peer /\ r.state = "ACCEPTED" /\ EndInv(e, r)
  BY DEF Accepts, Advances, sae_check_confirm
<1>5. s.own = <<e, s.drawn>> /\ s.drawn \in Nat BY <1>4, OwnScalar
<1>6. /\ t.own = <<o, t.drawn>> /\ t.key = SaeKey(o, t.own, p) /\ p # NoScalar
      /\ saeConf.samePassword
      /\ AnswersUpTo(t.tx, p[2]) /\ SentFrom(t.tx, t.drawn) /\ SentUpTo(t.tx, t.drawn)
  BY DEF EndInv, EndCore, EndSent
<1>7. s.peer = t.own
  <2>1. f.sender \in Drawable(o)
    BY <1>3 DEF SaeFrames, CommitFrames, ConfirmFrames, OtherFrames
  <2>2. Carries(f) /\ Scal(f) = f.sender[2] BY DEF Carries, Scal
  <2>3. f.sender[2] <= t.drawn /\ t.drawn <= f.sender[2]
    BY <1>3, <1>6, <2>2 DEF SentFrom, SentUpTo
  <2>4. f.sender[2] \in Nat /\ f.sender = <<o, f.sender[2]>> BY <2>1, NotDrawn
  <2>5. f.sender[2] = t.drawn BY <1>2, <2>3, <2>4
  <2> QED BY <1>4, <1>6, <2>4, <2>5
<1>8. p = s.own
  <2>1. p \in MaybeDrawn(e) BY <1>1, <1>2 DEF SaeEnd, Partner
  <2>2. p[2] \in Nat /\ p = <<e, p[2]>> BY <1>6, <2>1, Maybe, NotDrawn
  <2>3. f.receiver[2] <= p[2] BY <1>3, <1>4, <1>6 DEF AnswersUpTo, Answers
  <2>4. Beyond(s, p[2]) BY <1>6 DEF InOrder, Partner
  <2>5. s.drawn <= p[2] /\ p[2] <= s.drawn BY <1>4, <1>5, <2>3, <2>4 DEF Beyond
  <2>6. p[2] = s.drawn BY <1>5, <2>2, <2>5
  <2> QED BY <1>5, <2>2, <2>6
<1>9. r.key = SaeKey(e, s.own, t.own) BY <1>4, <1>7 DEF EndInv, EndCore
<1>10. SaeKey(e, s.own, t.own) = SaeKey(o, t.own, s.own) BY <1>6, KeySymmetric
<1> QED BY <1>6, <1>8, <1>9, <1>10
-----------------------------------------------------------------------------
(* The invariant. *)

\* The configuration does not change, so that what is known of an end is known of
\* the same record in the next state.
LEMMA EndKept ==
    ASSUME NEW e \in SaeSides, UNCHANGED saeConf, NEW r, EndInv(e, r), sae'[e] = r
    PROVE  EndInv(e, sae[e])'
<1>1. ASSUME NEW i PROVE SaePassword(i)' = SaePassword(i) BY DEF SaePassword
<1>2. ASSUME NEW i, NEW a, NEW b PROVE SaeKey(i, a, b)' = SaeKey(i, a, b)
  BY <1>1 DEF SaeKey
<1>3. SaeKeysOf(e)' = SaeKeysOf(e) BY <1>2 DEF SaeKeysOf
<1>4. ASSUME NEW f PROVE KeyOfSender(e, f)' = KeyOfSender(e, f) BY <1>2 DEF KeyOfSender
<1>5. SaeFrames(e)' = SaeFrames(e) BY <1>3, <1>4 DEF SaeFrames, ConfirmFrames
<1>6. SaeEnd(e)' = SaeEnd(e) BY <1>3, <1>5 DEF SaeEnd
<1>7. Partner(e, sae[e])' = Partner(e, r) BY DEF Partner, RunsAp
<1>8. EndCore(e, sae[e])'
  <2>1. EndCore(e, r) BY DEF EndInv
  <2> QED BY <1>2, <1>7, <2>1 DEF EndCore, KeyIsCurrent
<1>9. EndSent(e, sae[e])'
  <2>1. EndSent(e, r) BY DEF EndInv
  <2> QED BY <1>7, <2>1 DEF EndSent
<1> QED BY <1>6, <1>8, <1>9 DEF EndInv

\* A step after which one end is r and the other z.
LEMMA Together ==
    ASSUME SaeInv, NEW e \in SaeSides, UNCHANGED saeConf,
           NEW r, EndInv(e, r), NEW z, EndInv(OtherSide(e), z),
           sae' = [i \in SaeSides |-> IF i = e THEN r ELSE z],
           InOrder(r, z), InOrder(z, r),
           r.state = "ACCEPTED" /\ z.state = "ACCEPTED" => r.key = z.key
    PROVE  SaeInv'
<1> DEFINE o == OtherSide(e)
<1>1. /\ o \in SaeSides /\ o # e /\ OtherSide(o) = e /\ SaeSides = {e, o}
      /\ (e = "ap" /\ o = "peer") \/ (e = "peer" /\ o = "ap")
  BY DEF SaeSides, OtherSide
<1>2. sae'[e] = r /\ sae'[o] = z BY <1>1
<1>3. EndInv(e, sae[e])' /\ EndInv(o, sae[o])'
  <2>1. EndInv(e, sae[e])' BY <1>2, EndKept
  <2>2. EndInv(o, sae[o])' BY <1>1, <1>2, EndKept
  <2> QED BY <2>1, <2>2
<1> HIDE DEF o
<1>4. \A i \in SaeSides : EndInv(i, sae[i])' BY <1>1, <1>3
<1>5. InOrder(sae[e], sae[o])' /\ InOrder(sae[o], sae[e])' BY <1>2
<1>6. \A i \in SaeSides : InOrder(sae[i], sae[OtherSide(i)])' BY <1>1, <1>5 DEF o
<1>7. (sae = [i \in SaeSides |-> sae[i]])' BY DEF SaeSides
<1>8. (saeConf \in SaeConfs)' BY DEF SaeInv, SaeConfs
<1>9. ((\A i \in SaeSides : sae[i].state = "ACCEPTED") => sae["ap"].key = sae["peer"].key)'
  BY <1>1, <1>2
<1> QED BY <1>4, <1>6, <1>7, <1>8, <1>9 DEF SaeInv

\* What the invariant says of an end and of the other one.
LEMMA OfEnd ==
    ASSUME SaeInv, NEW e \in SaeSides
    PROVE  /\ saeConf \in SaeConfs /\ OtherSide(e) \in SaeSides /\ OtherSide(e) # e
           /\ EndInv(e, sae[e]) /\ EndInv(OtherSide(e), sae[OtherSide(e)])
           /\ InOrder(sae[e], sae[OtherSide(e)]) /\ InOrder(sae[OtherSide(e)], sae[e])
           /\ sae[e].state = "ACCEPTED" /\ sae[OtherSide(e)].state = "ACCEPTED"
                => sae[e].key = sae[OtherSide(e)].key
           /\ sae = [i \in SaeSides |-> sae[i]]
<1>1. OtherSide(e) \in SaeSides /\ OtherSide(e) # e /\ OtherSide(OtherSide(e)) = e BY Sides
<1>2. /\ EndInv(e, sae[e]) /\ EndInv(OtherSide(e), sae[OtherSide(e)])
      /\ InOrder(sae[e], sae[OtherSide(e)]) /\ InOrder(sae[OtherSide(e)], sae[e])
  BY <1>1 DEF SaeInv
<1>3. sae[e].state = "ACCEPTED" /\ sae[OtherSide(e)].state = "ACCEPTED"
        => sae[e].key = sae[OtherSide(e)].key
  BY <1>1 DEF SaeInv, SaeSides, OtherSide
<1> QED BY <1>1, <1>2, <1>3 DEF SaeInv

\* A step of one end alone.
LEMMA Becomes ==
    ASSUME SaeInv, NEW e \in SaeSides, NEW r, Evolves(e, sae[e], r, NoScalar),
           SaeBecomes(e, r)
    PROVE  SaeInv'
<1> DEFINE o == OtherSide(e)
           s == sae[e]
           t == sae[o]
<1>1. /\ saeConf \in SaeConfs /\ o \in SaeSides /\ o # e /\ EndInv(e, s) /\ EndInv(o, t)
      /\ InOrder(s, t) /\ InOrder(t, s)
      /\ s.state = "ACCEPTED" /\ t.state = "ACCEPTED" => s.key = t.key
      /\ sae = [i \in SaeSides |-> sae[i]]
  BY OfEnd
<1>2. sae' = [i \in SaeSides |-> IF i = e THEN r ELSE t] /\ UNCHANGED saeConf
  <2>1. sae' = [sae EXCEPT ![e] = r] /\ UNCHANGED saeConf BY DEF SaeBecomes
  <2>2. \A i \in SaeSides : i # e => i = o BY DEF SaeSides, OtherSide
  <2> QED BY <1>1, <2>1, <2>2
<1> HIDE DEF s, t, o
<1>3. /\ EndInv(e, r) /\ \A n \in Nat : Beyond(s, n) => Beyond(r, n)
      /\ InOrder(s, t) => InOrder(r, t)
      /\ r.state = "ACCEPTED" => s.state = "ACCEPTED" /\ r.key = s.key
  BY DEF Evolves, Advances, s
<1>4. InOrder(t, r) BY <1>1, <1>3, Follows
<1> QED BY <1>1, <1>2, <1>3, <1>4, Together DEF o

\* A step of one end with a frame of the other.
LEMMA Takes ==
    ASSUME SaeInv, NEW e \in SaeSides, SaeInFlight(e) # <<>>, NEW r,
           Handles(e, sae[e], r, Head(SaeInFlight(e))), SaeTakes(e, r)
    PROVE  SaeInv'
<1> DEFINE o == OtherSide(e)
           s == sae[e]
           t == sae[o]
           f == Head(t.tx)
           z == [t EXCEPT !.tx = Tail(@)]
<1>1. /\ saeConf \in SaeConfs /\ o \in SaeSides /\ o # e /\ EndInv(e, s) /\ EndInv(o, t)
      /\ InOrder(s, t) /\ InOrder(t, s)
      /\ s.state = "ACCEPTED" /\ t.state = "ACCEPTED" => s.key = t.key
      /\ sae = [i \in SaeSides |-> sae[i]]
  BY OfEnd
<1>2. sae' = [i \in SaeSides |-> IF i = e THEN r ELSE z] /\ UNCHANGED saeConf
  <2>1. sae' = [sae EXCEPT ![e] = r, ![o].tx = Tail(@)] /\ UNCHANGED saeConf BY DEF SaeTakes
  <2>2. \A i \in SaeSides : i # e => i = o BY DEF SaeSides, OtherSide
  <2> QED BY <1>1, <2>1, <2>2
<1>3. t.tx # <<>> /\ Handles(e, s, r, f) BY DEF SaeInFlight
<1> HIDE DEF s, t, o
<1>4. /\ EndInv(o, z) /\ z.state = t.state /\ z.key = t.key
      /\ \A n \in Nat : Beyond(t, n) => Beyond(z, n)
      /\ \A u : InOrder(t, u) => InOrder(z, u)
      /\ f.type = "commit" => Beyond(z, f.scalar[2])
  BY <1>1, <1>3, Taken
<1> HIDE DEF z
<1>5. InOrder(s, z) BY <1>1, <1>4, Follows
<1>6. /\ EndInv(e, r) /\ \A n \in Nat : Beyond(s, n) => Beyond(r, n)
      /\ InOrder(r, z)
  <2>1. CASE f.type = "commit" /\ Evolves(e, s, r, f.scalar)
    BY <1>4, <1>5, <2>1 DEF Evolves, Advances
  <2>2. CASE Advances(e, s, r, NoScalar) BY <1>5, <2>2 DEF Advances
  <2> QED BY <1>3, <2>1, <2>2 DEF Handles, Settles, Evolves, Accepts
<1>7. InOrder(z, r)
  <2>1. InOrder(z, s) BY <1>1, <1>4
  <2> QED BY <1>1, <1>4, <1>6, <2>1, Follows
<1>8. r.state = "ACCEPTED" /\ z.state = "ACCEPTED" => r.key = z.key
  <2>1. CASE \E x : Evolves(e, s, r, x) BY <1>1, <1>4, <2>1 DEF Evolves
  <2>2. CASE Accepts(e, s, r, f) /\ f.type = "confirm"
    <3>1. t.state = "ACCEPTED" => r.key = t.key
      BY <1>1, <1>3, <2>2, Agree DEF o
    <3> QED BY <1>4, <3>1
  <2> QED BY <1>3, <2>1, <2>2 DEF Handles, Settles, Accepts
<1> QED BY <1>1, <1>2, <1>4, <1>6, <1>7, <1>8, Together DEF o

\* At the start nothing is known and nothing is on its way.
LEMMA SaeStarts == SaeInit => SaeInv
<1> SUFFICES ASSUME SaeInit PROVE SaeInv
  OBVIOUS
<1>1. saeConf \in SaeConfs BY DEF SaeInit
<1>2. sae = [e \in SaeSides |-> sae[e]] BY DEF SaeInit
<1>3. ASSUME NEW e \in SaeSides
      PROVE  /\ sae[e].tx = <<>> /\ sae[e].own = NoScalar /\ sae[e].peer = NoScalar
             /\ sae[e].accepted = NoScalar /\ sae[e].state = "NOTHING"
  BY DEF SaeInit
<1>4. ASSUME NEW e \in SaeSides PROVE sae[e] \in SaeEnd(e)
  <2>1. /\ NoScalar \in MaybeDrawn(e) /\ NoScalar \in MaybeDrawn(OtherSide(e))
        /\ "NOTHING" \in SaeStates /\ 0 \in Nat /\ <<>> \in Seq(SaeFrames(e))
    BY Maybe DEF SaeStates
  <2>2. sae[e] = [present |-> FALSE, state |-> "NOTHING", own |-> NoScalar, peer |-> NoScalar,
                  accepted |-> NoScalar, key |-> NoScalar, sync |-> 0, disabled |-> FALSE,
                  timer |-> FALSE, auth_timer |-> FALSE, retry |-> 0, drawn |-> 0,
                  tokens |-> 0, tx |-> <<>>]
    BY DEF SaeInit
  <2> QED BY <2>1, <2>2 DEF SaeEnd
<1>5. ASSUME NEW e \in SaeSides PROVE EndInv(e, sae[e])
  <2>1. EndCore(e, sae[e]) BY <1>3 DEF EndCore, KeyIsCurrent
  <2>2. EndSent(e, sae[e])
    BY <1>3 DEF EndSent, Ascending, SentUpTo, AnswersUpTo
  <2> QED BY <1>4, <2>1, <2>2 DEF EndInv
<1>6. ASSUME NEW e \in SaeSides PROVE InOrder(sae[e], sae[OtherSide(e)])
  BY <1>3 DEF InOrder
<1>7. ~(\A e \in SaeSides : sae[e].state = "ACCEPTED") BY <1>3 DEF SaeSides
<1> QED BY <1>1, <1>2, <1>5, <1>6, <1>7 DEF SaeInv

\* A Commit or a Confirm for an end that runs the machine of the access point.
LEMMA ApReceives ==
    ASSUME SaeInv, NEW e \in SaeSides, ReceiveCommit(e) \/ ReceiveConfirm(e)
    PROVE  SaeInv'
<1> DEFINE s == sae[e]
           t == sae[OtherSide(e)]
           f == Head(t.tx)
<1>1. /\ saeConf \in SaeConfs /\ EndInv(e, s) /\ EndInv(OtherSide(e), t)
      /\ InOrder(s, t) /\ InOrder(t, s)
  BY OfEnd
<1>2. RunsAp(e) /\ SaeInFlight(e) # <<>> /\ t.tx # <<>> /\ f = Head(SaeInFlight(e))
  BY DEF ReceiveCommit, ReceiveConfirm, SaeNextIs, SaeInFlight
<1>3. CASE ReceiveCommit(e)
  <2> DEFINE u == [s EXCEPT !.present = TRUE]
  <2>1. PICK clogged \in BOOLEAN : SaeTakes(e, RxCommit(u, e, f, clogged))
    BY <1>2, <1>3 DEF ReceiveCommit
  <2>2. f.type = "commit" BY <1>2, <1>3 DEF ReceiveCommit, SaeNextIs
  <2>3. f \in SaeFrames(OtherSide(e)) /\ AnswersUpTo(s.tx, f.scalar[2])
    <3> HIDE DEF s, t, f
    <3>1. f = Head(t.tx) BY DEF f
    <3> QED BY <1>1, <1>2, <2>2, <3>1, Arrives
  <2> HIDE DEF s, t, f
  <2>4. s \in SaeEnd(e) /\ NoScalar \in MaybeDrawn(OtherSide(e)) BY <1>1, Maybe DEF EndInv
  <2>5. s.auth_timer \in BOOLEAN /\ s.disabled \in BOOLEAN BY <2>4, Zenon DEF SaeEnd
  <2>6. s.retry \in Nat BY <2>4 DEF SaeEnd
  <2>7. u = [s EXCEPT !.present = TRUE, !.auth_timer = s.auth_timer,
                      !.disabled = s.disabled, !.retry = s.retry] /\ u.tx = s.tx
    BY <2>4 DEF SaeEnd
  <2> HIDE DEF u
  <2>8. Evolves(e, s, u, NoScalar) BY <1>1, <2>4, <2>5, <2>6, <2>7, SideFields
  <2>9. EndInv(e, u) BY <2>8 DEF Evolves, Advances
  <2>10. Evolves(e, u, RxCommit(u, e, f, clogged), f.scalar)
    BY <1>1, <1>2, <2>2, <2>3, <2>7, <2>9, Commit
  <2>11. Evolves(e, s, RxCommit(u, e, f, clogged), f.scalar)
    BY <2>8, <2>10, Composed DEF Evolves
  <2>12. Handles(e, s, RxCommit(u, e, f, clogged), f) BY <2>2, <2>11 DEF Handles
  <2> QED BY <1>2, <2>1, <2>12, Takes DEF s
<1>4. CASE ReceiveConfirm(e)
  <2>1. PICK ignored \in BOOLEAN : SaeTakes(e, RxConfirm(s, e, f, ignored))
    BY <1>2, <1>4 DEF ReceiveConfirm
  <2>2. f.type = "confirm" BY <1>2, <1>4 DEF ReceiveConfirm, SaeNextIs
  <2>3. f \in SaeFrames(OtherSide(e)) /\ (Answers(f) => Beyond(s, f.receiver[2]))
    <3> HIDE DEF s, t, f
    <3>1. f = Head(t.tx) BY DEF f
    <3> QED BY <1>1, <1>2, <3>1, Arrives
  <2> HIDE DEF s, t, f
  <2>4. f.receiver # NoScalar => Beyond(s, f.receiver[2]) BY <2>2, <2>3 DEF Answers
  <2>5. Settles(e, s, RxConfirm(s, e, f, ignored), f)
    BY <1>1, <1>2, <2>2, <2>3, <2>4, Confirm
  <2>6. Handles(e, s, RxConfirm(s, e, f, ignored), f) BY <2>2, <2>5 DEF Handles
  <2> QED BY <1>2, <2>1, <2>6, Takes DEF s
<1> QED BY <1>3, <1>4

\* The other frames, and frames that are lost or have no receiver.
LEMMA OthersReceive ==
    ASSUME SaeInv, NEW e \in SaeSides,
           ReceiveTokenRequest(e) \/ SaeLose(e) \/ ReceiveConfirmUnknown \/ sme_event_auth
    PROVE  SaeInv'
<1>1. CASE ReceiveTokenRequest(e)
  <2>1. /\ saeConf.mesh /\ SaeInFlight(e) # <<>> /\ sae[e].own # NoScalar
        /\ SaeTakes(e, RxTokenRequest(sae[e], e))
    BY <1>1 DEF ReceiveTokenRequest, SaeNextIs
  <2>2. saeConf \in SaeConfs /\ EndInv(e, sae[e]) BY OfEnd
  <2>3. Evolves(e, sae[e], RxTokenRequest(sae[e], e), NoScalar) BY <2>1, <2>2, TokenAsked
  <2>4. Handles(e, sae[e], RxTokenRequest(sae[e], e), Head(SaeInFlight(e))) BY <2>3, HandlesAny
  <2> QED BY <2>1, <2>4, Takes
<1>2. CASE SaeLose(e)
  <2>1. SaeInFlight(e) # <<>> /\ SaeTakes(e, sae[e]) BY <1>2 DEF SaeLose
  <2>2. Evolves(e, sae[e], sae[e], NoScalar) BY OfEnd, NothingHappens
  <2>3. Handles(e, sae[e], sae[e], Head(SaeInFlight(e))) BY <2>2, HandlesAny
  <2> QED BY <2>1, <2>3, Takes
<1>3. CASE ReceiveConfirmUnknown
  <2> DEFINE r == SaeRejected(sae["ap"], "confirm")
  <2>1. /\ "ap" \in SaeSides /\ SaeInFlight("ap") # <<>> /\ SaeTakes("ap", r)
        /\ NoScalar \in MaybeDrawn(OtherSide("ap"))
    BY <1>3, Maybe DEF ReceiveConfirmUnknown, SaeNextIs, SaeSides
  <2>2. EndInv("ap", sae["ap"]) BY <2>1, OfEnd
  <2>3. Evolves("ap", sae["ap"], r, NoScalar) BY <2>1, <2>2, Rejection
  <2> HIDE DEF r
  <2>4. Handles("ap", sae["ap"], r, Head(SaeInFlight("ap"))) BY <2>3, HandlesAny
  <2> QED BY <2>1, <2>4, Takes
<1>4. CASE sme_event_auth
  <2> DEFINE s == sae["peer"]
             t == sae["ap"]
             f == Head(t.tx)
             r == SmeRx(s, f)
  <2>1. /\ "peer" \in SaeSides /\ OtherSide("peer") = "ap" /\ SaeInFlight("peer") # <<>>
        /\ t.tx # <<>> /\ f = Head(SaeInFlight("peer")) /\ ~saeConf.mesh
        /\ SaeTakes("peer", r)
    BY <1>4 DEF sme_event_auth, SaeInFlight, SaeSides, OtherSide
  <2>2. /\ saeConf \in SaeConfs /\ EndInv("peer", s) /\ EndInv("ap", t)
        /\ InOrder(s, t) /\ InOrder(t, s)
    BY <2>1, OfEnd
  <2>3. /\ f \in SaeFrames("ap")
        /\ f.type = "commit" => AnswersUpTo(s.tx, f.scalar[2])
        /\ Answers(f) => Beyond(s, f.receiver[2])
    <3>1. f = Head(t.tx) OBVIOUS
    <3> HIDE DEF s, t, f, r
    <3> QED BY <2>1, <2>2, <3>1, Arrives
  <2>4. Handles("peer", s, r, f)
    <3> HIDE DEF s, f
    <3> QED BY <2>1, <2>2, <2>3, StationReceives
  <2> HIDE DEF r
  <2> QED BY <2>1, <2>4, Takes
<1> QED BY <1>1, <1>2, <1>3, <1>4

\* The timers, a new peer, a peer that is forgotten.
LEMMA EndsMove ==
    ASSUME SaeInv, NEW e \in SaeSides,
           \/ auth_sae_retransmit_timer(e) \/ DisabledEnds(e) \/ NewMeshPeer(e)
           \/ mesh_auth_timer(e) \/ SaeFreeSta(e)
    PROVE  SaeInv'
<1> DEFINE s == sae[e]
<1>1. saeConf \in SaeConfs /\ EndInv(e, s) BY OfEnd
<1>2. s \in SaeEnd(e) /\ NoScalar \in MaybeDrawn(OtherSide(e)) BY <1>1, Maybe DEF EndInv
<1>3. s.auth_timer \in BOOLEAN /\ s.disabled \in BOOLEAN /\ s.present \in BOOLEAN
  BY <1>2, Zenon DEF SaeEnd
<1>4. s.retry \in Nat BY <1>2 DEF SaeEnd
<1> HIDE DEF s
<1>5. CASE auth_sae_retransmit_timer(e)
  <2>1. SaeBecomes(e, Retransmitted(s, e)) BY <1>5 DEF auth_sae_retransmit_timer, s
  <2>2. Evolves(e, s, Retransmitted(s, e), NoScalar) BY <1>1, Retransmits
  <2> QED BY <2>1, <2>2, Becomes DEF s
<1>6. CASE DisabledEnds(e)
  <2> DEFINE r == [s EXCEPT !.disabled = FALSE]
  <2>1. SaeBecomes(e, r) BY <1>6 DEF DisabledEnds, s
  <2>2. r = [s EXCEPT !.present = s.present, !.auth_timer = s.auth_timer,
                      !.disabled = FALSE, !.retry = s.retry]
    BY <1>2 DEF SaeEnd
  <2> HIDE DEF r
  <2>3. Evolves(e, s, r, NoScalar) BY <1>1, <1>2, <1>3, <1>4, <2>2, SideFields
  <2> QED BY <2>1, <2>3, Becomes DEF s
<1>7. CASE NewMeshPeer(e)
  <2> DEFINE u == [s EXCEPT !.present = TRUE]
  <2>1. saeConf.mesh /\ (SaeBecomes(e, mesh_rsn_auth_sae_sta(u, e)) \/ SaeBecomes(e, u))
    BY <1>7 DEF NewMeshPeer, s
  <2>2. u = [s EXCEPT !.present = TRUE, !.auth_timer = s.auth_timer,
                      !.disabled = s.disabled, !.retry = s.retry]
    BY <1>2 DEF SaeEnd
  <2> HIDE DEF u
  <2>3. Evolves(e, s, u, NoScalar) BY <1>1, <1>2, <1>3, <1>4, <2>2, SideFields
  <2>4. EndInv(e, u) BY <2>3 DEF Evolves, Advances
  <2>5. Evolves(e, u, mesh_rsn_auth_sae_sta(u, e), NoScalar) BY <1>1, <2>1, <2>4, MeshStarts
  <2>6. Evolves(e, s, mesh_rsn_auth_sae_sta(u, e), NoScalar)
    BY <2>3, <2>5, Composed DEF Evolves
  <2> QED BY <2>1, <2>3, <2>6, Becomes DEF s
<1>8. CASE mesh_auth_timer(e)
  <2> DEFINE u == [s EXCEPT !.auth_timer = FALSE]
             n == [u EXCEPT !.retry = @ + 1]
             r == IF u.state = "ACCEPTED" THEN u
                  ELSE IF u.retry < MeshAuthRetry THEN mesh_rsn_auth_sae_sta(n, e)
                  ELSE IF u.retry > MeshAuthRetry THEN SaeFreed(u)
                  ELSE [n EXCEPT !.state = "NOTHING"]
  <2>1. saeConf.mesh /\ SaeBecomes(e, r) BY <1>8 DEF mesh_auth_timer, s
  <2>2. Evolves(e, s, r, NoScalar) BY <1>1, <2>1, MeshTimer
  <2> HIDE DEF r
  <2> QED BY <2>1, <2>2, Becomes DEF s
<1>9. CASE SaeFreeSta(e)
  <2>1. SaeBecomes(e, SaeFreed(s)) BY <1>9 DEF SaeFreeSta, s
  <2>2. Evolves(e, s, SaeFreed(s), NoScalar) BY <1>1, <1>2, Resets, Zenon
  <2> QED BY <2>1, <2>2, Becomes DEF s
<1> QED BY <1>5, <1>6, <1>7, <1>8, <1>9

\* The station starts and its timer ends the attempt.
LEMMA StationMoves ==
    ASSUME SaeInv, sme_authenticate \/ sme_auth_timer
    PROVE  SaeInv'
<1> DEFINE s == sae["peer"]
           a == [auth_sae_send_commit(s, "peer", TRUE, FALSE)
                   EXCEPT !.present = TRUE, !.state = "COMMITTED", !.auth_timer = TRUE]
<1>1. "peer" \in SaeSides BY DEF SaeSides
<1>2. saeConf \in SaeConfs /\ EndInv("peer", s) BY <1>1, OfEnd
<1>3. ~saeConf.mesh /\ (SaeBecomes("peer", a) \/ SaeBecomes("peer", SmeFailed(s)))
  BY DEF sme_authenticate, sme_auth_timer
<1> HIDE DEF s
<1>4. Evolves("peer", s, a, NoScalar) BY <1>2, <1>3, StationStarts
<1> HIDE DEF a
<1>5. Evolves("peer", s, SmeFailed(s), NoScalar) BY <1>1, <1>2, StationFails
<1> QED BY <1>1, <1>3, <1>4, <1>5, Becomes DEF s

\* Every step keeps the invariant.
LEMMA SaeStep == SaeInv /\ [SaeNext]_saeVars => SaeInv'
<1> SUFFICES ASSUME SaeInv, [SaeNext]_saeVars PROVE SaeInv'
  OBVIOUS
<1>1. CASE SaeNext
  <2>1. ASSUME NEW e \in SaeSides, ReceiveCommit(e) \/ ReceiveConfirm(e) PROVE SaeInv'
    BY <2>1, ApReceives
  <2>2. ASSUME NEW e \in SaeSides, ReceiveTokenRequest(e) \/ SaeLose(e) PROVE SaeInv'
    BY <2>2, OthersReceive
  <2>3. ASSUME NEW e \in SaeSides,
               \/ auth_sae_retransmit_timer(e) \/ DisabledEnds(e) \/ NewMeshPeer(e)
               \/ mesh_auth_timer(e) \/ SaeFreeSta(e)
        PROVE  SaeInv'
    BY <2>3, EndsMove
  <2>4. CASE ReceiveConfirmUnknown \/ sme_event_auth
    <3>1. "ap" \in SaeSides BY DEF SaeSides
    <3> QED BY <2>4, <3>1, OthersReceive
  <2>5. CASE sme_authenticate \/ sme_auth_timer BY <2>5, StationMoves
  <2> QED BY <1>1, <2>1, <2>2, <2>3, <2>4, <2>5 DEF SaeNext
<1>2. CASE UNCHANGED saeVars
  <2> DEFINE s == sae["ap"]
             t == sae["peer"]
  <2>0. "ap" \in SaeSides /\ OtherSide("ap") = "peer" BY DEF SaeSides, OtherSide
  <2>1. /\ EndInv("ap", s) /\ EndInv("peer", t) /\ InOrder(s, t) /\ InOrder(t, s)
        /\ s.state = "ACCEPTED" /\ t.state = "ACCEPTED" => s.key = t.key
        /\ sae = [i \in SaeSides |-> sae[i]]
    BY <2>0, OfEnd
  <2>2. sae' = [i \in SaeSides |-> IF i = "ap" THEN s ELSE t] /\ UNCHANGED saeConf
    BY <1>2, <2>1 DEF saeVars, SaeSides
  <2> HIDE DEF s, t
  <2> QED BY <2>0, <2>1, <2>2, Together
<1> QED BY <1>1, <1>2

\* The invariant of both ends and of the link between them.
LEMMA SaeInvariant == SaeSpec => []SaeInv
  BY SaeStarts, SaeStep, PTL DEF SaeSpec

\* sae_check_confirm(), sae_accept_sta(): for every number of scalars, retries and
\* frames, two ends that have both accepted hold the same PMK, and ends with
\* different passwords never accept.
THEOREM KeysAreAgreed == SaeSpec => []SaeAgreement
<1>1. SaeInv => SaeAgreement
  <2> SUFFICES ASSUME SaeInv PROVE SaeAgreement
    OBVIOUS
  <2>1. ASSUME NEW e \in SaeSides, sae[e].state = "ACCEPTED" PROVE saeConf.samePassword
    BY <2>1, OfEnd DEF EndInv, EndCore
  <2> QED BY <2>1 DEF SaeAgreement, SaeInv
<1> QED BY <1>1, SaeInvariant, PTL

\* sae_set_retransmit_timer(): a mesh end in the middle of an exchange has the
\* retransmission timer, for every number of retries and frames.
THEOREM ExchangesAreTimed == SaeSpec => []SaeTimed
<1>1. SaeInv => SaeTimed
  BY OfEnd DEF SaeTimed, EndInv, EndCore
<1> QED BY <1>1, SaeInvariant, PTL
-----------------------------------------------------------------------------
(* The counters. *)

\* A record of an end whose counters are within their limits.
SaeFields == {"present", "state", "own", "peer", "accepted", "key", "sync", "disabled",
              "timer", "auth_timer", "retry", "drawn", "tokens", "tx"}
Limited(s) ==
    /\ DOMAIN s = SaeFields
    /\ s.sync \in 0 .. SaeSync + 1 /\ s.retry \in 0 .. MeshAuthRetry + 1

\* Fields that are not counters, and counters that start over.
LEMMA Assigned ==
    ASSUME NEW s, Limited(s), NEW v, NEW w
    PROVE  /\ Limited([s EXCEPT !.present = v]) /\ Limited([s EXCEPT !.state = v])
           /\ Limited([s EXCEPT !.peer = v]) /\ Limited([s EXCEPT !.timer = v])
           /\ Limited([s EXCEPT !.auth_timer = v]) /\ Limited([s EXCEPT !.disabled = v])
           /\ Limited([s EXCEPT !.tx = v]) /\ Limited([s EXCEPT !.key = v])
           /\ Limited([s EXCEPT !.present = v, !.auth_timer = w])
           /\ Limited([s EXCEPT !.state = v, !.auth_timer = w])
           /\ Limited([s EXCEPT !.state = v, !.present = w])
           /\ Limited([s EXCEPT !.state = v, !.sync = 0])
           /\ Limited([s EXCEPT !.sync = 0])
  BY SaeConstants DEF Limited, SaeFields

\* What a handler is made of: sending, deriving the key, timers, accepting, giving
\* up, starting over.
LEMMA Parts ==
    ASSUME NEW s, Limited(s), NEW e, NEW update \in BOOLEAN, NEW token, NEW of
    PROVE  /\ Limited(auth_sae_send_commit(s, e, update, token))
           /\ Limited(auth_sae_send_confirm(s)) /\ Limited(SaeRejected(s, of))
           /\ Limited(sae_process_commit(s, e))
           /\ Limited(sae_set_retransmit_timer(s)) /\ Limited(sae_clear_retransmit_timer(s))
           /\ Limited(GiveUp(s)) /\ Limited(sae_accept_sta(s))
           /\ Limited(SaeCleared(s)) /\ Limited(SaeFreed(s))
<1>1. Limited(auth_sae_send_commit(s, e, update, token))
  <2>1. CASE update
    <3> DEFINE u == [s EXCEPT !.drawn = @ + 1, !.own = <<e, s.drawn + 1>>]
               q == SaeSent(u.tx, CommitFrame(u.own, token))
    <3>1. Limited(u) BY DEF Limited, SaeFields
    <3>2. auth_sae_send_commit(s, e, update, token) = [u EXCEPT !.tx = q]
      BY <2>1 DEF auth_sae_send_commit
    <3> HIDE DEF u, q
    <3>3. Limited([u EXCEPT !.tx = q]) BY <3>1, Assigned
    <3> QED BY <3>2, <3>3
  <2>2. CASE ~update
    <3> DEFINE q == SaeSent(s.tx, CommitFrame(s.own, token))
    <3>1. auth_sae_send_commit(s, e, update, token) = [s EXCEPT !.tx = q]
      BY <2>2 DEF auth_sae_send_commit
    <3> HIDE DEF q
    <3>2. Limited([s EXCEPT !.tx = q]) BY Assigned
    <3> QED BY <3>1, <3>2
  <2> QED BY <2>1, <2>2
<1>2. Limited(auth_sae_send_confirm(s)) BY Assigned DEF auth_sae_send_confirm
<1>3. Limited(SaeRejected(s, of)) BY Assigned DEF SaeRejected
<1>4. Limited(sae_process_commit(s, e)) BY Assigned DEF sae_process_commit
<1>5. Limited(sae_set_retransmit_timer(s)) /\ Limited(sae_clear_retransmit_timer(s))
  BY Assigned DEF sae_set_retransmit_timer, sae_clear_retransmit_timer
<1>6. Limited(GiveUp(s)) BY SaeConstants DEF GiveUp, Limited, SaeFields
<1>7. Limited(sae_accept_sta(s)) BY DEF sae_accept_sta, Limited, SaeFields
<1>8. Limited(SaeCleared(s)) BY SaeConstants DEF SaeCleared, Limited, SaeFields
<1>9. Limited(SaeFreed(s))
  <2> DEFINE c == SaeCleared(s)
  <2>1. Limited(c) BY <1>8
  <2> HIDE DEF c
  <2>2. Limited([c EXCEPT !.present = FALSE, !.timer = FALSE, !.auth_timer = FALSE, !.retry = 0])
    BY <2>1, SaeConstants DEF Limited, SaeFields
  <2> QED BY <2>2 DEF SaeFreed, c
<1> QED BY <1>1, <1>2, <1>3, <1>4, <1>5, <1>6, <1>7, <1>8, <1>9

\* sae_check_big_sync() comes before every increment of the counter.
LEMMA SyncCounted ==
    ASSUME NEW s, Limited(s), ~BigSync(s)
    PROVE  Limited([s EXCEPT !.sync = @ + 1])
  BY SaeConstants DEF BigSync, Limited, SaeFields

\* sae_sm_step() for a Commit.
LEMMA StepCommitLimited ==
    ASSUME NEW s, Limited(s), NEW e, NEW reuse \in BOOLEAN
    PROVE  /\ Limited(CommitInNothing(s, e, reuse)) /\ Limited(CommitInCommitted(s, e))
           /\ Limited(CommitInConfirmed(s, e)) /\ Limited(CommitInAccepted(s, e))
<1> DEFINE c == sae_clear_retransmit_timer(s)
<1>0. Limited(c) BY Parts
<1>1. Limited(CommitInNothing(s, e, reuse))
  <2> DEFINE a == auth_sae_send_commit(s, e, ~reuse, FALSE)
             b == sae_process_commit([a EXCEPT !.state = "COMMITTED"], e)
             d == IF saeConf.mesh \/ saeConf.confirm_immediate
                  THEN [auth_sae_send_confirm(b) EXCEPT !.state = "CONFIRMED"] ELSE b
  <2>1. Limited(a) BY Parts
  <2> HIDE DEF a
  <2>2. Limited(b) BY <2>1, Assigned, Parts
  <2> HIDE DEF b
  <2>3. Limited(d) BY <2>2, Assigned, Parts
  <2>4. CommitInNothing(s, e, reuse) = sae_set_retransmit_timer([d EXCEPT !.sync = 0])
    BY DEF CommitInNothing, d, b, a
  <2> HIDE DEF d
  <2>5. Limited([d EXCEPT !.sync = 0]) BY <2>3, Assigned
  <2> QED BY <2>4, <2>5, Parts
<1>2. Limited(CommitInCommitted(s, e))
  <2> DEFINE a == auth_sae_send_confirm(sae_process_commit(c, e))
  <2>1. Limited(a) BY <1>0, Parts
  <2>2. CommitInCommitted(s, e)
          = sae_set_retransmit_timer([a EXCEPT !.state = "CONFIRMED", !.sync = 0])
    BY DEF CommitInCommitted
  <2> HIDE DEF a
  <2>3. Limited([a EXCEPT !.state = "CONFIRMED", !.sync = 0]) BY <2>1, Assigned
  <2> QED BY <2>2, <2>3, Parts
<1>3. Limited(CommitInConfirmed(s, e))
  <2>1. CASE BigSync(c)
    <3>1. CommitInConfirmed(s, e) = GiveUp(c) BY <2>1 DEF CommitInConfirmed
    <3> QED BY <1>0, <3>1, Parts
  <2>2. CASE ~BigSync(c)
    <3> DEFINE a == [c EXCEPT !.sync = @ + 1]
               b == auth_sae_send_commit(a, e, TRUE, FALSE)
    <3>1. CommitInConfirmed(s, e)
            = sae_set_retransmit_timer(auth_sae_send_confirm(sae_process_commit(b, e)))
      BY <2>2 DEF CommitInConfirmed
    <3> HIDE DEF c
    <3>2. Limited(a) BY <1>0, <2>2, SyncCounted
    <3> HIDE DEF a
    <3>3. Limited(b) BY <3>2, Parts
    <3> HIDE DEF b
    <3> QED BY <3>1, <3>3, Parts
  <2> QED BY <2>1, <2>2
<1>4. Limited(CommitInAccepted(s, e))
  <2> DEFINE a == auth_sae_send_commit(s, e, TRUE, FALSE)
             b == [a EXCEPT !.state = "COMMITTED", !.sync = 0]
  <2>1. CommitInAccepted(s, e) \in {SaeFreed(s), sae_process_commit(b, e)}
    BY DEF CommitInAccepted
  <2>2. Limited(a) BY Parts
  <2> HIDE DEF a
  <2>3. Limited(b) BY <2>2, Assigned
  <2> HIDE DEF b
  <2> QED BY <2>1, <2>3, Parts
<1> QED BY <1>1, <1>2, <1>3, <1>4

\* sae_sm_step() for a Confirm.
LEMMA StepConfirmLimited ==
    ASSUME NEW s, Limited(s), NEW e, s.state \in SaeStates
    PROVE  Limited(StepConfirm(s, e))
<1> DEFINE c == sae_clear_retransmit_timer(s)
<1>0. Limited(c) BY Parts
<1>1. CASE s.state = "NOTHING"
  <2>1. StepConfirm(s, e) = s BY <1>1 DEF StepConfirm
  <2> QED BY <2>1
<1>2. CASE s.state = "COMMITTED"
  <2> DEFINE a == [c EXCEPT !.sync = @ + 1]
  <2>1. StepConfirm(s, e) = ConfirmInCommitted(s, e) BY <1>2 DEF StepConfirm
  <2>2. CASE ~saeConf.mesh
    <3>1. ConfirmInCommitted(s, e) = sae_accept_sta(auth_sae_send_confirm(c))
      BY <2>2 DEF ConfirmInCommitted
    <3> HIDE DEF c
    <3> QED BY <1>0, <2>1, <3>1, Parts
  <2>3. CASE saeConf.mesh /\ BigSync(c)
    <3>1. ConfirmInCommitted(s, e) = GiveUp(c) BY <2>3 DEF ConfirmInCommitted
    <3> HIDE DEF c
    <3> QED BY <1>0, <2>1, <3>1, Parts
  <2>4. CASE saeConf.mesh /\ ~BigSync(c)
    <3>1. ConfirmInCommitted(s, e)
            = sae_set_retransmit_timer(auth_sae_send_commit(a, e, FALSE, FALSE))
      BY <2>4 DEF ConfirmInCommitted
    <3> HIDE DEF c
    <3>2. Limited(a) BY <1>0, <2>4, SyncCounted
    <3> HIDE DEF a
    <3>3. Limited(auth_sae_send_commit(a, e, FALSE, FALSE)) BY <3>2, Parts
    <3> QED BY <2>1, <3>1, <3>3, Parts
  <2> QED BY <2>2, <2>3, <2>4
<1>3. CASE s.state = "CONFIRMED"
  <2>1. StepConfirm(s, e) = sae_accept_sta(c) BY <1>3 DEF StepConfirm
  <2> HIDE DEF c
  <2> QED BY <1>0, <2>1, Parts
<1>4. CASE s.state = "ACCEPTED"
  <2> DEFINE a == [s EXCEPT !.sync = @ + 1]
  <2>1. CASE BigSync(s)
    <3>1. StepConfirm(s, e) = GiveUp(s) BY <1>4, <2>1 DEF StepConfirm
    <3> QED BY <3>1, Parts
  <2>2. CASE ~BigSync(s)
    <3>1. StepConfirm(s, e) = auth_sae_send_confirm(a) BY <1>4, <2>2 DEF StepConfirm
    <3>2. Limited(a) BY <2>2, SyncCounted
    <3> HIDE DEF a
    <3> QED BY <3>1, <3>2, Parts
  <2> QED BY <2>1, <2>2
<1> QED BY <1>1, <1>2, <1>3, <1>4 DEF SaeStates

\* handle_auth_sae() for a Commit and for a Confirm.
LEMMA RxLimited ==
    ASSUME NEW s, Limited(s), NEW e, NEW f, NEW b \in BOOLEAN, s.state \in SaeStates
    PROVE  Limited(RxCommit(s, e, f, b)) /\ Limited(RxConfirm(s, e, f, b))
<1>1. Limited(RxCommit(s, e, f, b))
  <2> DEFINE reuse == ~saeConf.mesh /\ s.state = "COMMITTED"
             r == IF reuse THEN [s EXCEPT !.state = "NOTHING"] ELSE s
             p == [r EXCEPT !.peer = f.scalar]
             q == [p EXCEPT !.tx = SaeSent(@, TokenRequest), !.tokens = @ + 1,
                            !.state = IF saeConf.mesh THEN "NOTHING" ELSE @]
  <2>1. RxCommit(s, e, f, b) \in {s, SaeRejected(s, "commit"), q, StepCommit(p, e, reuse)}
    <3> HIDE DEF q
    <3>1. \/ RxCommit(s, e, f, b) = s \/ RxCommit(s, e, f, b) = SaeRejected(s, "commit")
          \/ RxCommit(s, e, f, b) = q \/ RxCommit(s, e, f, b) = StepCommit(p, e, reuse)
      BY Zenon DEF RxCommit, q
    <3> QED BY <3>1
  <2>2. reuse \in BOOLEAN BY Zenon
  <2>3. Limited(r) /\ r.state \in SaeStates
    <3>1. CASE reuse
      <4>1. r = [s EXCEPT !.state = "NOTHING"] BY <3>1
      <4>2. r.state = "NOTHING" BY <4>1 DEF Limited, SaeFields
      <4> QED BY <4>1, <4>2, Assigned DEF SaeStates
    <3>2. CASE ~reuse
      <4>1. r = s BY <3>2
      <4> QED BY <4>1
    <3> QED BY <3>1, <3>2
  <2> HIDE DEF r, reuse
  <2>4. Limited(p) /\ p.state \in SaeStates
    <3>1. p.state = r.state BY <2>3 DEF Limited, SaeFields
    <3> QED BY <2>3, <3>1, Assigned
  <2> HIDE DEF p
  <2>5. Limited(q) BY <2>4 DEF Limited, SaeFields
  <2> HIDE DEF q
  <2>6. StepCommit(p, e, reuse) \in {CommitInNothing(p, e, reuse), CommitInCommitted(p, e),
                                     CommitInConfirmed(p, e), CommitInAccepted(p, e)}
    BY <2>4 DEF StepCommit, SaeStates
  <2>7. Limited(StepCommit(p, e, reuse)) BY <2>2, <2>4, <2>6, StepCommitLimited
  <2>8. Limited(SaeRejected(s, "commit")) BY Parts
  <2> QED BY <2>1, <2>5, <2>7, <2>8
<1>2. Limited(RxConfirm(s, e, f, b))
  <2>1. \/ RxConfirm(s, e, f, b) = s \/ RxConfirm(s, e, f, b) = SaeRejected(s, "confirm")
        \/ RxConfirm(s, e, f, b) = StepConfirm(s, e)
    BY Zenon DEF RxConfirm
  <2> QED BY <2>1, StepConfirmLimited, Parts
<1> QED BY <1>1, <1>2

\* The timers of a mesh, and a token request.
LEMMA MeshLimited ==
    ASSUME NEW s, Limited(s), NEW e
    PROVE  /\ Limited(Retransmitted(s, e)) /\ Limited(mesh_rsn_auth_sae_sta(s, e))
           /\ Limited(RxTokenRequest(s, e))
<1>1. Limited(Retransmitted(s, e))
  <2> DEFINE t == [s EXCEPT !.sync = @ + 1]
             u == [s EXCEPT !.timer = FALSE]
  <2>1. CASE BigSync(s)
    <3>1. Retransmitted(s, e) = GiveUp(u) BY <2>1 DEF Retransmitted
    <3>2. Limited(u) BY Assigned
    <3> HIDE DEF u
    <3> QED BY <3>1, <3>2, Parts
  <2>2. CASE ~BigSync(s)
    <3>1. Retransmitted(s, e) \in {auth_sae_send_commit(t, e, FALSE, FALSE),
                                   auth_sae_send_confirm(t), [t EXCEPT !.timer = FALSE]}
      <4> HIDE DEF t
      <4> QED BY <2>2 DEF Retransmitted, t
    <3>2. Limited(t) BY <2>2, SyncCounted
    <3> HIDE DEF t
    <3>3. Limited([t EXCEPT !.timer = FALSE]) BY <3>2, Assigned
    <3> QED BY <3>1, <3>2, <3>3, Parts
  <2> QED BY <2>1, <2>2
<1>2. Limited(mesh_rsn_auth_sae_sta(s, e))
  <2> DEFINE c == SaeCleared(s)
             a == auth_sae_send_commit(c, e, TRUE, FALSE)
             b == [a EXCEPT !.state = "COMMITTED"]
             d == sae_set_retransmit_timer(b)
  <2>1. mesh_rsn_auth_sae_sta(s, e) = [d EXCEPT !.auth_timer = TRUE]
    BY DEF mesh_rsn_auth_sae_sta
  <2>2. Limited(c) BY Parts
  <2> HIDE DEF c
  <2>3. Limited(a) BY <2>2, Parts
  <2> HIDE DEF a
  <2>4. Limited(b) BY <2>3, Assigned
  <2> HIDE DEF b
  <2>5. Limited(d) BY <2>4, Parts
  <2> HIDE DEF d
  <2>6. Limited([d EXCEPT !.auth_timer = TRUE]) BY <2>5, Assigned
  <2> QED BY <2>1, <2>6
<1>3. Limited(RxTokenRequest(s, e))
  <2> DEFINE a == auth_sae_send_commit(s, e, FALSE, TRUE)
             b == [a EXCEPT !.state = "COMMITTED", !.sync = 0]
  <2>1. RxTokenRequest(s, e) = sae_set_retransmit_timer(b) BY DEF RxTokenRequest
  <2>2. Limited(a) BY Parts
  <2> HIDE DEF a
  <2>3. Limited(b) BY <2>2, Assigned
  <2> HIDE DEF b
  <2> QED BY <2>1, <2>3, Parts
<1> QED BY <1>1, <1>2, <1>3

\* sme_event_auth() of the station.
LEMMA SmeLimited ==
    ASSUME NEW s, Limited(s), NEW f
    PROVE  Limited(SmeFailed(s)) /\ Limited(SmeRx(s, f))
<1> DEFINE c == [s EXCEPT !.auth_timer = FALSE]
           x == [c EXCEPT !.peer = f.scalar]
           a == auth_sae_send_confirm(sae_process_commit(x, "peer"))
           b == auth_sae_send_commit(c, "peer", FALSE, TRUE)
<1>1. SmeRx(s, f) \in {[a EXCEPT !.state = "CONFIRMED", !.auth_timer = TRUE], c,
                       [c EXCEPT !.state = "ACCEPTED", !.present = FALSE],
                       [b EXCEPT !.auth_timer = TRUE], SmeFailed(c)}
  <2> HIDE DEF a, b, c
  <2> QED BY DEF SmeRx, a, b, c, x
<1>2. Limited(c) BY Assigned
<1> HIDE DEF c
<1>3. Limited(x) /\ Limited(b) BY <1>2, Assigned, Parts
<1> HIDE DEF x, b
<1>4. Limited(sae_process_commit(x, "peer")) BY <1>3, Parts
<1>5. Limited(a) BY <1>4, Parts
<1> HIDE DEF a
<1>6. ASSUME NEW u, Limited(u) PROVE Limited(SmeFailed(u)) BY <1>6, Assigned DEF SmeFailed
<1>7. /\ Limited([a EXCEPT !.state = "CONFIRMED", !.auth_timer = TRUE])
      /\ Limited([c EXCEPT !.state = "ACCEPTED", !.present = FALSE])
      /\ Limited([b EXCEPT !.auth_timer = TRUE])
  BY <1>2, <1>3, <1>5, Assigned
<1> QED BY <1>1, <1>2, <1>6, <1>7
-----------------------------------------------------------------------------
\* The counters of both ends, and the scalars they have drawn.
SaeWithin == \A e \in SaeSides : Limited(sae[e]) /\ sae[e].drawn <= MaxScalars

\* A step after which one end is r; of the other at most the link has changed.
LEMMA WithinStep ==
    ASSUME SaeInv, SaeWithin, NEW e \in SaeSides, NEW r, Limited(r),
           SaeBecomes(e, r) \/ SaeTakes(e, r)
    PROVE  SaeWithin'
<1> DEFINE o == OtherSide(e)
           t == sae[o]
           z == [t EXCEPT !.tx = Tail(@)]
<1>1. o \in SaeSides /\ o # e /\ \A i \in SaeSides : i = e \/ i = o
  BY DEF SaeSides, OtherSide
<1>2. Limited(t) /\ t.drawn <= MaxScalars BY <1>1 DEF SaeWithin
<1>3. Limited(z) /\ z.drawn = t.drawn
  BY <1>2 DEF Limited, SaeFields
<1>4. r.drawn <= MaxScalars BY DEF SaeBecomes, SaeTakes, SaeBounded
<1>5. sae = [i \in SaeSides |-> sae[i]] BY DEF SaeInv
<1>6. sae'[e] = r /\ (sae'[o] = t \/ sae'[o] = z)
  BY <1>1, <1>5 DEF SaeBecomes, SaeTakes
<1> HIDE DEF o, t, z
<1>7. Limited(sae'[e]) /\ sae'[e].drawn <= MaxScalars BY <1>4, <1>6
<1>8. Limited(sae'[o]) /\ sae'[o].drawn <= MaxScalars BY <1>2, <1>3, <1>6
<1>9. ASSUME NEW i \in SaeSides PROVE Limited(sae[i])' /\ (sae[i].drawn <= MaxScalars)'
  <2>1. Limited(sae'[i]) /\ sae'[i].drawn <= MaxScalars BY <1>1, <1>7, <1>8
  <2> QED BY <2>1 DEF Limited
<1> QED BY <1>9 DEF SaeWithin

\* Every step keeps them.
LEMMA WithinNext == SaeInv /\ SaeWithin /\ [SaeNext]_saeVars => SaeWithin'
<1> SUFFICES ASSUME SaeInv, SaeWithin, [SaeNext]_saeVars PROVE SaeWithin'
  OBVIOUS
<1>0. ASSUME NEW e \in SaeSides PROVE Limited(sae[e]) /\ sae[e].state \in SaeStates
  BY OfEnd DEF SaeWithin, EndInv, SaeEnd
<1>s. "ap" \in SaeSides /\ "peer" \in SaeSides BY DEF SaeSides
<1>1. ASSUME NEW e \in SaeSides, ReceiveCommit(e) PROVE SaeWithin'
  <2> DEFINE u == [sae[e] EXCEPT !.present = TRUE]
             f == Head(SaeInFlight(e))
  <2>1. PICK b \in BOOLEAN : SaeTakes(e, RxCommit(u, e, f, b)) BY <1>1 DEF ReceiveCommit
  <2>2. Limited(u) /\ u.state \in SaeStates
    <3>1. u.state = sae[e].state BY <1>0 DEF Limited, SaeFields
    <3> QED BY <1>0, <3>1, Assigned
  <2> HIDE DEF u, f
  <2> QED BY <2>1, <2>2, RxLimited, WithinStep
<1>2. ASSUME NEW e \in SaeSides, ReceiveConfirm(e) PROVE SaeWithin'
  <2> DEFINE f == Head(SaeInFlight(e))
  <2>1. PICK b \in BOOLEAN : SaeTakes(e, RxConfirm(sae[e], e, f, b)) BY <1>2 DEF ReceiveConfirm
  <2> HIDE DEF f
  <2> QED BY <1>0, <2>1, RxLimited, WithinStep
<1>3. ASSUME NEW e \in SaeSides, ReceiveTokenRequest(e) \/ auth_sae_retransmit_timer(e)
      PROVE  SaeWithin'
  BY <1>0, <1>3, MeshLimited, WithinStep DEF ReceiveTokenRequest, auth_sae_retransmit_timer
<1>4. ASSUME NEW e \in SaeSides, DisabledEnds(e) \/ SaeFreeSta(e) \/ SaeLose(e)
      PROVE  SaeWithin'
  <2>1. Limited([sae[e] EXCEPT !.disabled = FALSE]) /\ Limited(SaeFreed(sae[e]))
    BY <1>0, Assigned, Parts
  <2> QED BY <1>0, <1>4, <2>1, WithinStep DEF DisabledEnds, SaeFreeSta, SaeLose
<1>5. ASSUME NEW e \in SaeSides, NewMeshPeer(e) PROVE SaeWithin'
  <2> DEFINE s == [sae[e] EXCEPT !.present = TRUE]
  <2>1. SaeBecomes(e, mesh_rsn_auth_sae_sta(s, e)) \/ SaeBecomes(e, s)
    BY <1>5 DEF NewMeshPeer
  <2>2. Limited(s) BY <1>0, Assigned
  <2> HIDE DEF s
  <2> QED BY <2>1, <2>2, MeshLimited, WithinStep
<1>6. ASSUME NEW e \in SaeSides, mesh_auth_timer(e) PROVE SaeWithin'
  <2> DEFINE s == [sae[e] EXCEPT !.auth_timer = FALSE]
             n == [s EXCEPT !.retry = @ + 1]
             p == [n EXCEPT !.state = "NOTHING"]
             r == IF s.state = "ACCEPTED" THEN s
                  ELSE IF s.retry < MeshAuthRetry THEN mesh_rsn_auth_sae_sta(n, e)
                  ELSE IF s.retry > MeshAuthRetry THEN SaeFreed(s) ELSE p
  <2>1. SaeBecomes(e, r) BY <1>6 DEF mesh_auth_timer
  <2>2. Limited(s) BY <1>0, Assigned
  <2> HIDE DEF s
  <2>3. s.retry \in Nat BY <2>2 DEF Limited
  <2>4. ~(s.retry > MeshAuthRetry) => Limited(n)
    BY <2>2, SaeConstants DEF Limited, SaeFields
  <2> HIDE DEF n
  <2>5. Limited(n) => Limited(p) /\ Limited(mesh_rsn_auth_sae_sta(n, e))
    BY Assigned, MeshLimited
  <2> HIDE DEF p
  <2>6. Limited(SaeFreed(s)) BY <2>2, Parts
  <2>7. Limited(r)
    <3>1. CASE s.state = "ACCEPTED" BY <2>2, <3>1
    <3>2. CASE s.state # "ACCEPTED" /\ s.retry > MeshAuthRetry
      <4>1. ~(s.retry < MeshAuthRetry) BY <2>3, <3>2, SaeConstants
      <4> QED BY <2>6, <3>2, <4>1
    <3>3. CASE s.state # "ACCEPTED" /\ ~(s.retry > MeshAuthRetry)
      BY <2>4, <2>5, <3>3
    <3> QED BY <3>1, <3>2, <3>3
  <2> HIDE DEF r
  <2> QED BY <2>1, <2>7, WithinStep
<1>7. CASE ReceiveConfirmUnknown
  BY <1>0, <1>s, <1>7, Parts, WithinStep DEF ReceiveConfirmUnknown
<1>8. CASE sme_authenticate
  <2> DEFINE a == auth_sae_send_commit(sae["peer"], "peer", TRUE, FALSE)
             r == [a EXCEPT !.present = TRUE, !.state = "COMMITTED", !.auth_timer = TRUE]
  <2>1. SaeBecomes("peer", r) BY <1>8 DEF sme_authenticate
  <2>2. Limited(a) BY <1>0, <1>s, Parts
  <2> HIDE DEF a
  <2>3. Limited(r) BY <2>2 DEF Limited, SaeFields
  <2> HIDE DEF r
  <2> QED BY <1>s, <2>1, <2>3, WithinStep
<1>9. CASE sme_event_auth \/ sme_auth_timer
  <2> DEFINE f == Head(SaeInFlight("peer"))
  <2>1. SaeTakes("peer", SmeRx(sae["peer"], f)) \/ SaeBecomes("peer", SmeFailed(sae["peer"]))
    BY <1>9 DEF sme_event_auth, sme_auth_timer
  <2> HIDE DEF f
  <2> QED BY <1>0, <1>s, <2>1, SmeLimited, WithinStep
<1>10. CASE UNCHANGED saeVars
  BY <1>10 DEF saeVars, SaeWithin, Limited
<1> QED BY <1>1, <1>2, <1>3, <1>4, <1>5, <1>6, <1>7, <1>8, <1>9, <1>10 DEF SaeNext

\* At the start the counters are zero.
LEMMA WithinStart == SaeInit => SaeWithin
  BY SaeConstants DEF SaeInit, SaeWithin, Limited, SaeFields

\* The scalars an end has, its own and those of the other end, are among the ones
\* that were drawn.
LEMMA SaeTyped == SaeInv /\ SaeWithin => SaeTypeOK
<1> SUFFICES ASSUME SaeInv, SaeWithin PROVE SaeTypeOK
  OBVIOUS
<1>1. ASSUME NEW e \in SaeSides, NEW x \in MaybeDrawn(e),
             x # NoScalar => x[2] <= sae[e].drawn
      PROVE  x \in SaeScalars
  <2>1. sae[e].drawn \in Nat /\ sae[e].drawn <= MaxScalars
    BY OfEnd, OwnScalar DEF SaeWithin
  <2>2. CASE x = NoScalar BY <2>2 DEF SaeScalars
  <2>3. CASE x # NoScalar
    <3>1. x = <<e, x[2]>> /\ x[2] \in Nat \ {0}
      BY <2>3, Maybe, NotDrawn DEF Drawable
    <3>2. x[2] \in 1 .. MaxScalars BY <1>1, <2>1, <2>3, <3>1, SaeConstants
    <3> QED BY <3>1, <3>2 DEF SaeScalars
  <2> QED BY <2>2, <2>3
<1>2. ASSUME NEW e \in SaeSides
      PROVE  {sae[e].own, sae[e].peer, sae[e].accepted} \subseteq SaeScalars
  <2> DEFINE s == sae[e]
             o == OtherSide(e)
             t == sae[o]
  <2>1. o \in SaeSides /\ EndInv(e, s) /\ InOrder(s, t) BY OfEnd
  <2>2. s \in SaeEnd(e) /\ s.drawn \in Nat
        /\ (s.own # NoScalar => s.own = <<e, s.drawn>>)
    BY <2>1, OwnScalar
  <2>3. /\ s.own \in MaybeDrawn(e) /\ s.peer \in MaybeDrawn(o)
        /\ s.accepted \in MaybeDrawn(o)
    BY <2>2 DEF SaeEnd
  <2>4. s.own # NoScalar => s.own[2] <= s.drawn BY <2>2
  <2>5. /\ s.peer # NoScalar => s.peer[2] <= t.drawn
        /\ s.accepted # NoScalar => s.accepted[2] <= t.drawn
    BY <2>1 DEF InOrder, Beyond
  <2>6. s.own \in SaeScalars BY <1>1, <2>3, <2>4
  <2>7. s.peer \in SaeScalars /\ s.accepted \in SaeScalars BY <1>1, <2>1, <2>3, <2>5
  <2> QED BY <2>6, <2>7
<1>3. ASSUME NEW e \in SaeSides
      PROVE  /\ sae[e].state \in SaeStates
             /\ {sae[e].present, sae[e].disabled, sae[e].timer, sae[e].auth_timer}
                  \subseteq BOOLEAN
  <2>1. sae[e] \in SaeEnd(e) BY OfEnd, OwnScalar
  <2>2. sae[e].state \in SaeStates BY <2>1 DEF SaeEnd
  <2>3. /\ sae[e].present \in BOOLEAN /\ sae[e].disabled \in BOOLEAN
        /\ sae[e].timer \in BOOLEAN /\ sae[e].auth_timer \in BOOLEAN
    BY <2>1, Zenon DEF SaeEnd
  <2> QED BY <2>2, <2>3, Zenon
<1>4. ASSUME NEW e \in SaeSides
      PROVE  /\ sae[e].sync \in 0 .. SaeSync + 1 /\ sae[e].drawn \in 0 .. MaxScalars
             /\ sae[e].retry \in 0 .. MeshAuthRetry + 1
  <2>1. sae[e].drawn \in Nat BY OfEnd, OwnScalar
  <2> QED BY <2>1, SaeConstants DEF SaeWithin, Limited
<1>5. saeConf \in SaeConfs BY DEF SaeInv
<1> QED BY <1>2, <1>3, <1>4, <1>5, Zenon DEF SaeTypeOK, SaeStates

\* sae_check_big_sync(), mesh_auth_timer(): for every limit, whatever frames an end
\* gets, its synchronisation counter and its retry counter stay within one of
\* their limits, it draws no more scalars than it may and has none of the other
\* end that was not drawn.
THEOREM SaeTypesHold == SaeSpec => []SaeTypeOK
  BY WithinStart, WithinNext, SaeTyped, SaeInvariant, PTL DEF SaeSpec
=============================================================================
