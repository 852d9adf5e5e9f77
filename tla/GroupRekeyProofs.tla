-------------------------- MODULE GroupRekeyProofs --------------------------
(***************************************************************************)
(* For every finite set of stations, every retry limit and every order of  *)
(* events, as long as no station uses WNM-Sleep Mode: GKeyDoneStations is  *)
(* the number of stations that have yet to answer, so that the driver does *)
(* not go over to a new GTK before they have.                              *)
(***************************************************************************)
EXTENDS GroupRekey, FiniteSetTheorems, TLAPS

\* What every station's record is at any time.  The counter is right only if no
\* station is skipped while it is marked, and none is marked that is not there.
StaOK(r) ==
  /\ r \in StaState
  /\ ~r.is_wnmsleep
  /\ r.wpa_ptk_state = "NONE" => ~r.GUpdateStationKeys

GroupInv ==
  /\ TypeOK
  /\ \A s \in STA : StaOK(sm[s])
  /\ DoneCount

MarkedIn(f) == {s \in STA : f[s].GUpdateStationKeys}
-----------------------------------------------------------------------------
\* A change to one station changes the number of marked stations by its mark.
LEMMA MarkCount ==
  ASSUME NEW f \in [STA -> StaState], NEW g \in [STA -> StaState], NEW s \in STA,
         \A t \in STA \ {s} : g[t].GUpdateStationKeys = f[t].GUpdateStationKeys
  PROVE  /\ Cardinality(MarkedIn(f)) \in Nat
         /\ Cardinality(MarkedIn(g)) =
              Cardinality(MarkedIn(f)) - Done(f[s]) + Done(g[s])
<1>1. IsFiniteSet(MarkedIn(f)) /\ IsFiniteSet(MarkedIn(g))
  BY StationsFinite, FS_Subset DEF MarkedIn
<1>2. Cardinality(MarkedIn(f)) \in Nat /\ Cardinality(MarkedIn(g)) \in Nat
  BY <1>1, FS_CardinalityType
<1>3. f[s].GUpdateStationKeys \in BOOLEAN /\ g[s].GUpdateStationKeys \in BOOLEAN
  BY DEF StaState
<1>4. CASE f[s].GUpdateStationKeys /\ g[s].GUpdateStationKeys
  <2>1. MarkedIn(f) = MarkedIn(g) BY <1>4 DEF MarkedIn
  <2> QED BY <1>2, <1>4, <2>1 DEF Done
<1>5. CASE ~f[s].GUpdateStationKeys /\ ~g[s].GUpdateStationKeys
  <2>1. MarkedIn(f) = MarkedIn(g) BY <1>5 DEF MarkedIn
  <2> QED BY <1>2, <1>5, <2>1 DEF Done
<1>6. CASE f[s].GUpdateStationKeys /\ ~g[s].GUpdateStationKeys
  <2>1. s \in MarkedIn(f) /\ MarkedIn(g) = MarkedIn(f) \ {s}
    BY <1>6 DEF MarkedIn
  <2>2. Cardinality(MarkedIn(g)) = Cardinality(MarkedIn(f)) - 1
    BY <1>1, <2>1, FS_RemoveElement
  <2> QED BY <1>2, <1>6, <2>2 DEF Done
<1>7. CASE ~f[s].GUpdateStationKeys /\ g[s].GUpdateStationKeys
  <2>1. s \notin MarkedIn(f) /\ MarkedIn(g) = MarkedIn(f) \cup {s}
    BY <1>7 DEF MarkedIn
  <2>2. Cardinality(MarkedIn(g)) = Cardinality(MarkedIn(f)) + 1
    BY <1>1, <2>1, FS_AddElement
  <2> QED BY <1>2, <1>7, <2>2 DEF Done
<1> QED BY <1>2, <1>3, <1>4, <1>5, <1>6, <1>7

\* A station that is not there is not marked.
LEMMA NoStaOK == StaOK(NoSta) /\ ~NoSta.GUpdateStationKeys
  BY DEF StaOK, NoSta, StaState

\* wpa_free_sta_sm() uncounts the station it frees.
LEMMA FreedStep ==
  ASSUME GroupInv, NEW s \in STA, NEW r, StaOK(r), NEW n \in Int,
         n = GKeyDoneStations - Done(sm[s]) + Done(r), Freed(s, r, n)
  PROVE  GroupInv'
<1>1. sm' = [sm EXCEPT ![s] = NoSta] BY DEF Freed
<1>2. sm \in [STA -> StaState] /\ sm' \in [STA -> StaState]
  BY <1>1, NoStaOK DEF GroupInv, TypeOK, StaOK
<1>3. Done(r) \in Int /\ Done(sm[s]) \in Int /\ Done(sm'[s]) = 0
  BY <1>1, <1>2, NoStaOK DEF Done
<1>4. \A t \in STA \ {s} : sm'[t] = sm[t] BY <1>1, <1>2
<1>5. DoneCount'
  <2>1. Cardinality(MarkedIn(sm')) = Cardinality(MarkedIn(sm)) - Done(sm[s])
    BY <1>2, <1>3, <1>4, MarkCount
  <2>2. GKeyDoneStations' = n - Done(r) BY DEF Freed
  <2>3. GKeyDoneStations = Cardinality(MarkedIn(sm)) /\ GKeyDoneStations \in Int
    BY DEF GroupInv, TypeOK, DoneCount, Marked, MarkedIn
  <2>4. GKeyDoneStations' = Cardinality(MarkedIn(sm'))
    BY <1>3, <2>1, <2>2, <2>3
  <2> QED BY <2>4 DEF DoneCount, Marked, MarkedIn
<1>6. \A t \in STA : StaOK(sm'[t])
  BY <1>1, <1>2, <1>4, NoStaOK DEF GroupInv
<1>7. TypeOK'
  <2>1. (rekeyTimer \/ StrictRekey(s, r)) \in BOOLEAN
    BY DEF GroupInv, TypeOK, StrictRekey
  <2>2. rekeyTimer' \in BOOLEAN BY <2>1 DEF Freed
  <2>3. GKeyDoneStations' \in Int BY <1>3 DEF Freed
  <2> QED BY <1>2, <2>2, <2>3 DEF Freed, GroupInv, TypeOK
<1> QED BY <1>5, <1>6, <1>7 DEF GroupInv
-----------------------------------------------------------------------------
\* The records the operations of a station's machines make of a record.
LEMMA SendOK ==
  ASSUME NEW r, StaOK(r), NEW type \in {"3/4", "1/2"}, NEW g \in Nat
  PROVE  /\ StaOK(wpa_send_eapol(r, type, g))
         /\ Done(wpa_send_eapol(r, type, g)) = Done(r)
<1> DEFINE a == IF r.PTK_valid THEN r.acc \cup {[type |-> type, gtk |-> g]}
                ELSE r.acc
<1>1. r \in StaState BY DEF StaOK
<1>2. a \in SUBSET GtkMsg BY <1>1 DEF StaState, GtkMsg
<1>3. r.timers + 1 \in Nat BY <1>1 DEF StaState
<1>4. wpa_send_eapol(r, type, g) = [r EXCEPT !.timers = r.timers + 1, !.acc = a]
  BY <1>1 DEF wpa_send_eapol, StaState
<1> HIDE DEF a
<1> QED BY <1>1, <1>2, <1>3, <1>4 DEF StaOK, StaState, Done

\* PTKSTART, which a station's first association enters too.
LEMMA StartOK ==
  ASSUME NEW r, StaOK(r)
  PROVE  StaOK(PTKSTART(r)) /\ Done(PTKSTART(r)) = Done(r)
<1>1. r \in StaState BY DEF StaOK
<1>2. r.timers + 1 \in Nat BY <1>1 DEF StaState
<1> QED BY <1>1, <1>2 DEF StaOK, StaState, Done, PTKSTART

\* The other states, of a station that is there.
LEMMA StepsOK ==
  ASSUME NEW r, StaOK(r), r.wpa_ptk_state # "NONE", NEW g \in Nat
  PROVE  /\ StaOK(PTKSTART(r)) /\ Done(PTKSTART(r)) = Done(r)
         /\ StaOK(PTKSTART_again(r)) /\ Done(PTKSTART_again(r)) = Done(r)
         /\ StaOK(PTKINITNEGOTIATING(r, g)) /\ Done(PTKINITNEGOTIATING(r, g)) = Done(r)
         /\ StaOK(REKEYNEGOTIATING(r, g)) /\ Done(REKEYNEGOTIATING(r, g)) = Done(r)
         /\ StaOK(PTKINITDONE(r)) /\ Done(PTKINITDONE(r)) = Done(r)
         /\ StaOK(IDLE(r)) /\ Done(IDLE(r)) = Done(r)
         /\ StaOK(MicVerified(r)) /\ Done(MicVerified(r)) = Done(r)
         /\ StaOK(Answered(r)) /\ Done(Answered(r)) = Done(r)
         /\ StaOK(wpa_remove_ptk(r)) /\ Done(wpa_remove_ptk(r)) = Done(r)
         /\ StaOK(wpa_gkeydone_sta(r)) /\ Done(wpa_gkeydone_sta(r)) = 0
<1>1. r \in StaState BY DEF StaOK
<1>2. /\ r.timers + 1 \in Nat /\ r.TimeoutCtr + 1 \in Nat
      /\ r.GTimeoutCtr + 1 \in Nat
  BY <1>1 DEF StaState
<1>3. StaOK(PTKSTART(r)) /\ Done(PTKSTART(r)) = Done(r)
  BY StartOK
<1>4. StaOK(PTKSTART_again(r)) /\ Done(PTKSTART_again(r)) = Done(r)
  BY <1>1, <1>2 DEF StaOK, StaState, Done, PTKSTART_again
<1>5. StaOK(PTKINITNEGOTIATING(r, g)) /\ Done(PTKINITNEGOTIATING(r, g)) = Done(r)
  <2> DEFINE q == [r EXCEPT !.wpa_ptk_state = "PTKINITNEGOTIATING",
                            !.TimeoutCtr = @ + 1]
  <2>1. StaOK(q) /\ Done(q) = Done(r) BY <1>1, <1>2 DEF StaOK, StaState, Done
  <2> HIDE DEF q
  <2>2. StaOK(wpa_send_eapol(q, "3/4", g)) /\ Done(wpa_send_eapol(q, "3/4", g)) = Done(q)
    BY <2>1, SendOK
  <2> QED BY <2>1, <2>2 DEF PTKINITNEGOTIATING, q
<1>6. StaOK(REKEYNEGOTIATING(r, g)) /\ Done(REKEYNEGOTIATING(r, g)) = Done(r)
  <2> DEFINE q == [r EXCEPT !.wpa_ptk_group_state = "REKEYNEGOTIATING",
                            !.GTimeoutCtr = @ + 1]
  <2>1. StaOK(q) /\ Done(q) = Done(r) BY <1>1, <1>2 DEF StaOK, StaState, Done
  <2> HIDE DEF q
  <2>2. StaOK(wpa_send_eapol(q, "1/2", g)) /\ Done(wpa_send_eapol(q, "1/2", g)) = Done(q)
    BY <2>1, SendOK
  <2> QED BY <2>1, <2>2 DEF REKEYNEGOTIATING, q
<1>7. StaOK(PTKINITDONE(r)) /\ Done(PTKINITDONE(r)) = Done(r)
  BY <1>1 DEF StaOK, StaState, Done, PTKINITDONE
<1>8. StaOK(IDLE(r)) /\ Done(IDLE(r)) = Done(r)
  BY <1>1 DEF StaOK, StaState, Done, IDLE
<1>9. StaOK(MicVerified(r)) /\ Done(MicVerified(r)) = Done(r)
  BY <1>1 DEF StaOK, StaState, Done, MicVerified
<1>10. StaOK(Answered(r)) /\ Done(Answered(r)) = Done(r)
  BY <1>1 DEF StaOK, StaState, Done, MicVerified, Answered
<1>11. StaOK(wpa_remove_ptk(r)) /\ Done(wpa_remove_ptk(r)) = Done(r)
  BY <1>1 DEF StaOK, StaState, Done, wpa_remove_ptk
<1>12. StaOK(wpa_gkeydone_sta(r)) /\ Done(wpa_gkeydone_sta(r)) = 0
  BY <1>1 DEF StaOK, StaState, Done, wpa_gkeydone_sta
<1> QED BY <1>3, <1>4, <1>5, <1>6, <1>7, <1>8, <1>9, <1>10, <1>11, <1>12
-----------------------------------------------------------------------------
\* The stations and the counter a handler leaves agree.
Agree(m, n) == /\ m \in [STA -> StaState]
               /\ \A t \in STA : StaOK(m[t])
               /\ n = Cardinality(MarkedIn(m))

\* What a step does: the invariant, and no early change of the transmit key.
StepOK ==
  /\ GroupInv'
  /\ txGtk' # txGtk => \/ GKeyDoneStations' = 0
                       \/ txGtk' = gtk /\ GKeyDoneStations = 0

\* The group's variables keep their types.
GroupTypes ==
  /\ wpa_group_state \in {"SETKEYS", "SETKEYSDONE", "FATAL_FAILURE"}
  /\ gtk \in Nat /\ txGtk \in Nat /\ rekeyTimer \in BOOLEAN

\* The number of marked stations is a number.
LEMMA CountIsNat ==
  ASSUME NEW m, NEW n, Agree(m, n)
  PROVE  n \in Nat /\ IsFiniteSet(MarkedIn(m))
<1>1. IsFiniteSet(MarkedIn(m)) BY StationsFinite, FS_Subset DEF MarkedIn
<1> QED BY <1>1, FS_CardinalityType DEF Agree

\* The invariant is that the current stations and the current counter agree.
LEMMA InvIsAgree ==
  /\ GroupInv => Agree(sm, GKeyDoneStations) /\ GroupTypes
  /\ (Agree(sm, GKeyDoneStations) /\ GroupTypes)' => GroupInv'
<1>1. GroupInv => Agree(sm, GKeyDoneStations) /\ GroupTypes
  BY DEF GroupInv, TypeOK, DoneCount, Marked, MarkedIn, Agree, GroupTypes
<1>2. ASSUME (Agree(sm, GKeyDoneStations) /\ GroupTypes)' PROVE GroupInv'
  <2>1. Agree(sm', GKeyDoneStations') BY <1>2 DEF Agree, StaOK, MarkedIn
  <2>2. GKeyDoneStations' \in Nat BY <2>1, CountIsNat
  <2> QED BY <1>2, <2>1, <2>2
          DEF GroupInv, TypeOK, DoneCount, Marked, MarkedIn, Agree, GroupTypes
<1> QED BY <1>1, <1>2

\* A station's record and the counter change together.
LEMMA Replace ==
  ASSUME NEW m, NEW c, Agree(m, c), NEW s \in STA, NEW r, StaOK(r),
         NEW n, n = c - Done(m[s]) + Done(r)
  PROVE  Agree([m EXCEPT ![s] = r], n)
<1> DEFINE g == [m EXCEPT ![s] = r]
<1>1. m \in [STA -> StaState] /\ g \in [STA -> StaState] /\ g[s] = r
  BY DEF Agree, StaOK
<1>2. \A t \in STA \ {s} : g[t] = m[t] BY <1>1
<1>3. \A t \in STA : StaOK(g[t]) BY <1>1, <1>2 DEF Agree
<1> HIDE DEF g
<1>4. Cardinality(MarkedIn(g)) = Cardinality(MarkedIn(m)) - Done(m[s]) + Done(g[s])
  BY <1>1, <1>2, MarkCount
<1>5. Agree(g, n) BY <1>1, <1>3, <1>4 DEF Agree
<1> QED BY <1>5 DEF g

\* wpa_group_fatal_failure() marks stations for disconnection and frees the one
\* whose step loop runs.
LEMMA FatalStep ==
  ASSUME NEW m, NEW n, Agree(m, n), NEW S \in SUBSET STA,
         wpa_group_fatal_failure(m, S, n)
  PROVE  Agree(sm', GKeyDoneStations') /\ wpa_group_state' = "FATAL_FAILURE"
<1> DEFINE B == {s \in S : m[s].GUpdateStationKeys}
           d(s) == [m[s] EXCEPT !.Disconnect = m[s].wpa_ptk_state # "NONE"]
<1>1. sm' = [s \in STA |-> IF s \in S THEN NoSta ELSE d(s)]
  BY DEF wpa_group_fatal_failure
<1>2. ASSUME NEW s \in STA
      PROVE  StaOK(d(s)) /\ d(s).GUpdateStationKeys = m[s].GUpdateStationKeys
  <2>1. StaOK(m[s]) /\ (m[s].wpa_ptk_state # "NONE") \in BOOLEAN BY DEF Agree
  <2> DEFINE r == m[s]
             b == m[s].wpa_ptk_state # "NONE"
  <2> HIDE DEF r, b
  <2>2. StaOK(r) /\ b \in BOOLEAN BY <2>1 DEF r, b
  <2>3. StaOK([r EXCEPT !.Disconnect = b])
    BY <2>2 DEF StaOK, StaState
  <2>4. [r EXCEPT !.Disconnect = b].GUpdateStationKeys = r.GUpdateStationKeys
    BY <2>2 DEF StaOK, StaState
  <2> QED BY <2>3, <2>4 DEF r, b
<1> HIDE DEF d
<1>3. \A s \in STA : StaOK(sm'[s]) BY <1>1, <1>2, NoStaOK
<1>4. sm' \in [STA -> StaState] BY <1>1, <1>2, NoStaOK DEF StaOK
<1>5. MarkedIn(sm') = MarkedIn(m) \ B
  BY <1>1, <1>2, NoStaOK DEF MarkedIn
<1>6. MarkedIn(m) \cap B = B BY DEF MarkedIn
<1>7. Cardinality(MarkedIn(sm')) = n - Cardinality(B)
  BY ZenonT(40), <1>5, <1>6, CountIsNat, FS_Difference DEF Agree
<1> QED BY <1>3, <1>4, <1>7 DEF Agree, wpa_group_fatal_failure

\* A step loop that ends in the group machine.
LEMMA GroupStepOK ==
  ASSUME GroupInv, NEW s \in STA, NEW r, StaOK(r), NEW n,
         n = GKeyDoneStations - Done(sm[s]) + Done(r), GroupStep(s, r, n)
  PROVE  StepOK
<1> DEFINE m == [sm EXCEPT ![s] = r]
<1>1. Agree(m, n) BY InvIsAgree, Replace
<1>2. (rekeyTimer \/ StrictRekey(s, r)) \in BOOLEAN
  BY DEF GroupInv, TypeOK, StrictRekey
<1>3. gtk' \in Nat /\ gtk' = gtk /\ rekeyTimer' \in BOOLEAN
  BY <1>2 DEF GroupStep, GroupInv, TypeOK
<1>4. CASE wpa_group_state = "SETKEYS" /\ n = 0 /\ wpa_group_fatal_failure(m, {s}, n)
            /\ UNCHANGED txGtk
  <2>1. Agree(sm', GKeyDoneStations') /\ wpa_group_state' = "FATAL_FAILURE"
    BY <1>1, <1>4, FatalStep
  <2>2. (Agree(sm, GKeyDoneStations) /\ GroupTypes)'
    BY <1>3, <1>4, <2>1 DEF GroupTypes, GroupInv, TypeOK, Agree, StaOK, MarkedIn
  <2> QED BY <1>4, <2>2, InvIsAgree DEF StepOK
<1>5. CASE /\ sm' = m /\ GKeyDoneStations' = n
           /\ \/ UNCHANGED <<wpa_group_state, txGtk>>
              \/ n = 0 /\ wpa_group_state' = "SETKEYSDONE" /\ txGtk' = gtk
  <2>1. Agree(sm', GKeyDoneStations') BY <1>1, <1>5
  <2> HIDE DEF m
  <2>2. (Agree(sm, GKeyDoneStations) /\ GroupTypes)'
    BY <1>3, <1>5, <2>1 DEF GroupTypes, GroupInv, TypeOK, Agree, StaOK, MarkedIn
  <2> QED BY <1>5, <2>2, InvIsAgree DEF StepOK
<1> QED BY <1>4, <1>5 DEF GroupStep

\* A step loop, whether or not the station goes at its end.
LEMMA StaStepOK ==
  ASSUME GroupInv, NEW s \in STA, NEW r, StaOK(r), NEW n,
         n = GKeyDoneStations - Done(sm[s]) + Done(r),
         StaStep(s, r, n) \/ Freed(s, r, n)
  PROVE  StepOK
<1>1. n \in Int
  BY DEF GroupInv, TypeOK, Done
<1>2. CASE Freed(s, r, n)
  <2>1. GroupInv' BY <1>1, <1>2, FreedStep
  <2> QED BY <1>2, <2>1 DEF StepOK, Freed
<1>3. CASE GroupStep(s, r, n) BY <1>3, GroupStepOK
<1> QED BY <1>2, <1>3 DEF StaStep

\* A step loop that disconnects its station.
LEMMA StaDisconnectOK ==
  ASSUME GroupInv, NEW s \in STA, StaDisconnect(s)
  PROVE  StepOK
<1>1. StaOK(sm[s]) BY DEF GroupInv
<1>2. GKeyDoneStations = GKeyDoneStations - Done(sm[s]) + Done(sm[s])
  BY DEF GroupInv, TypeOK, Done
<1> QED BY <1>1, <1>2, StaStepOK DEF StaDisconnect
-----------------------------------------------------------------------------
\* wpa_group_update_sta() leaves exactly the counted stations marked.
LEMMA UpdateOK ==
  ASSUME NEW r, StaOK(r), NEW g \in Nat
  PROVE  /\ StaOK(wpa_group_update_sta(r, g))
         /\ wpa_group_update_sta(r, g).GUpdateStationKeys <=> Counted(r)
<1>1. CASE r.wpa_ptk_state # "PTKINITDONE"
  <2>1. StaOK(wpa_gkeydone_sta(r)) /\ ~wpa_gkeydone_sta(r).GUpdateStationKeys
    BY DEF StaOK, StaState, wpa_gkeydone_sta
  <2> QED BY <1>1, <2>1 DEF wpa_group_update_sta, Counted
<1>2. CASE r.wpa_ptk_state = "PTKINITDONE"
  <2> DEFINE m == [r EXCEPT !.GUpdateStationKeys = TRUE]
  <2>1. StaOK(m) /\ m.wpa_ptk_state = "PTKINITDONE" /\ m.GUpdateStationKeys
    BY <1>2 DEF StaOK, StaState
  <2>2. wpa_group_update_sta(r, g) \in {m, REKEYNEGOTIATING(m, g)} /\ Counted(r)
    BY <1>2 DEF wpa_group_update_sta, StaOK, Counted
  <2> HIDE DEF m
  <2>3. StaOK(REKEYNEGOTIATING(m, g)) /\ Done(REKEYNEGOTIATING(m, g)) = Done(m)
    BY <2>1, StepsOK
  <2>4. REKEYNEGOTIATING(m, g).GUpdateStationKeys BY <2>1, <2>3 DEF Done
  <2> QED BY <2>1, <2>2, <2>3, <2>4
<1> QED BY <1>1, <1>2

\* wpa_group_update_gtk() marks the stations it counts.
LEMMA CountedAgree ==
  ASSUME NEW m, NEW n, Agree(m, n), NEW g \in Nat
  PROVE  Agree([s \in STA |-> wpa_group_update_sta(m[s], g)],
               Cardinality({s \in STA : Counted(m[s])}))
<1> DEFINE k == [s \in STA |-> wpa_group_update_sta(m[s], g)]
           C == {s \in STA : Counted(m[s])}
<1>1. \A s \in STA : StaOK(k[s]) BY UpdateOK DEF Agree
<1>2. k \in [STA -> StaState] BY <1>1 DEF StaOK
<1>3. ASSUME NEW s \in STA PROVE s \in MarkedIn(k) <=> s \in C
  <2>1. k[s].GUpdateStationKeys <=> Counted(m[s]) BY UpdateOK DEF Agree
  <2>2. s \in MarkedIn(k) <=> k[s].GUpdateStationKeys BY DEF MarkedIn
  <2> QED BY <2>1, <2>2
<1>4. MarkedIn(k) \subseteq STA /\ C \subseteq STA BY DEF MarkedIn
<1>5. MarkedIn(k) = C
  <2> HIDE DEF k, C
  <2> QED BY <1>3, <1>4
<1> QED BY <1>1, <1>2, <1>5 DEF Agree

\* wpa_group_update_gtk() resets the counter to what it has marked.
LEMMA RekeyStepOK ==
  ASSUME GroupInv, NEW m, Agree(m, GKeyDoneStations), NEW S \in SUBSET STA,
         wpa_rekey_all_groups(m, S), rekeyTimer' = TRUE
  PROVE  StepOK
<1> DEFINE count == Cardinality({s \in STA : Counted(m[s])})
           marked == [s \in STA |-> wpa_group_update_sta(m[s], gtk + 1)]
<1>1. gtk \in Nat /\ gtk + 1 \in Nat /\ txGtk \in Nat /\ GKeyDoneStations \in Int
  BY DEF GroupInv, TypeOK
<1>2. Agree(marked, count) BY <1>1, CountedAgree
<1> HIDE DEF count, marked
<1>3. CASE /\ sm' = marked /\ GKeyDoneStations' = count
           /\ wpa_group_state' \in {"SETKEYS", "SETKEYSDONE"}
           /\ gtk' = gtk + 1 /\ txGtk' \in Nat
           /\ txGtk' # txGtk => \/ count = 0
                                \/ txGtk' = gtk /\ GKeyDoneStations = 0
  <2>1. Agree(sm', GKeyDoneStations') BY <1>2, <1>3
  <2>2. (Agree(sm, GKeyDoneStations) /\ GroupTypes)'
    BY <1>1, <1>3, <2>1 DEF GroupTypes, Agree, StaOK, MarkedIn
  <2> QED BY <1>3, <2>2, InvIsAgree DEF StepOK
<1>4. CASE /\ \/ wpa_group_fatal_failure(marked, S, count)
              \/ wpa_group_fatal_failure(m, S, GKeyDoneStations)
           /\ gtk' \in {gtk, gtk + 1} /\ txGtk' = txGtk
  <2>1. Agree(sm', GKeyDoneStations') /\ wpa_group_state' = "FATAL_FAILURE"
    BY <1>2, <1>4, FatalStep
  <2>2. (Agree(sm, GKeyDoneStations) /\ GroupTypes)'
    BY <1>1, <1>4, <2>1 DEF GroupTypes, Agree, StaOK, MarkedIn
  <2> QED BY <1>4, <2>2, InvIsAgree DEF StepOK
<1>5. CASE wpa_group_setkeys(m, S)
  BY <1>1, <1>3, <1>4, <1>5 DEF wpa_group_setkeys, count, marked
<1>6. CASE wpa_group_setkeysdone_fails(m, S)
  BY <1>4, <1>6 DEF wpa_group_setkeysdone_fails
<1> QED BY <1>5, <1>6 DEF wpa_rekey_all_groups
-----------------------------------------------------------------------------
\* Stations join, leave and join again.
LEMMA AssociationOK ==
  ASSUME GroupInv, NEW s \in STA,
         \/ Associate(s) \/ Authenticate(s) \/ AssociateAgain(s)
         \/ Reassociate(s) \/ Disassociate(s) \/ Deauthenticate(s) \/ Remove(s)
  PROVE  StepOK
<1> DEFINE r == sm[s]
           c == GKeyDoneStations
<1>1. StaOK(r) /\ c \in Int /\ Done(r) \in {0, 1}
  BY DEF GroupInv, TypeOK, Done
<1>2. c = c - Done(r) + Done(r) /\ c - Done(r) = c - Done(r) + 0 BY <1>1
<1>3. CASE Associate(s)
  <2>1. StaOK(PTKSTART(NoSta)) /\ Done(PTKSTART(NoSta)) = 0
    BY NoStaOK, StartOK DEF Done
  <2>2. Done(r) = 0 BY <1>1, <1>3 DEF Associate, Present, StaOK, Done
  <2>3. c = c - Done(r) + Done(PTKSTART(NoSta)) BY <1>1, <2>1, <2>2
  <2> QED BY <1>3, <2>1, <2>3, StaStepOK DEF Associate
<1>4. CASE Authenticate(s)
  <2> DEFINE q == [wpa_remove_ptk(r) EXCEPT !.staGtk = 0]
  <2>1. StaOK(q) /\ Done(q) = Done(r)
    BY <1>1 DEF StaOK, StaState, wpa_remove_ptk, Done
  <2> HIDE DEF q
  <2>2. c = c - Done(r) + Done(q) BY <1>1, <2>1
  <2>3. StaStep(s, q, c) BY <1>4 DEF Authenticate, q
  <2> QED BY <2>1, <2>2, <2>3, StaStepOK
<1>5. ASSUME NEW q, StaOK(q), q.wpa_ptk_state # "NONE"
      PROVE  /\ StaOK(PTKSTART(Associated(q)))
             /\ Done(PTKSTART(Associated(q))) = Done(q)
  <2>1. /\ StaOK(Associated(q)) /\ Done(Associated(q)) = Done(q)
        /\ Associated(q).wpa_ptk_state # "NONE"
    BY <1>5 DEF StaOK, StaState, wpa_remove_ptk, Done, Associated
  <2> QED BY <2>1, StepsOK, 0 \in Nat
<1>6. CASE AssociateAgain(s)
  <2> DEFINE q == PTKSTART(Associated(r))
  <2>1. StaOK(q) /\ Done(q) = Done(r)
    BY <1>1, <1>5, <1>6 DEF AssociateAgain, Present
  <2> HIDE DEF q
  <2>2. c = c - Done(r) + Done(q) BY <1>1, <2>1
  <2>3. StaStep(s, q, c) BY <1>6 DEF AssociateAgain, q
  <2> QED BY <2>1, <2>2, <2>3, StaStepOK
<1>7. CASE Reassociate(s)
  <2> DEFINE p == IF r.GUpdateStationKeys THEN IDLE(wpa_gkeydone_sta(r)) ELSE r
             q == PTKSTART(Associated(p))
  <2>1. StaOK(p) /\ Done(p) = 0 /\ p.wpa_ptk_state # "NONE"
    BY <1>1, <1>7 DEF Reassociate, Present, StaOK, StaState, IDLE,
                      wpa_gkeydone_sta, Done
  <2>2. StaOK(q) /\ Done(q) = 0 BY <1>5, <2>1
  <2>3. StaStep(s, q, c - Done(r)) BY <1>7 DEF Reassociate
  <2> HIDE DEF q
  <2>4. c - Done(r) = c - Done(r) + Done(q) BY <1>1, <2>2
  <2> QED BY <2>2, <2>3, <2>4, StaStepOK
<1>8. CASE Disassociate(s)
  <2>1. StaOK(INITIALIZE(r)) /\ Done(INITIALIZE(r)) = 0
    BY <1>1 DEF StaOK, StaState, INITIALIZE, wpa_remove_ptk, wpa_gkeydone_sta, Done
  <2>2. c - Done(r) = c - Done(r) + Done(INITIALIZE(r)) BY <1>1, <2>1
  <2> QED BY <1>8, <2>1, <2>2, StaStepOK DEF Disassociate
<1>9. CASE Deauthenticate(s)
  <2>1. StaOK(NoSta) /\ Done(NoSta) = 0 BY NoStaOK DEF Done
  <2>2. c - Done(r) = c - Done(r) + Done(NoSta) BY <1>1, <2>1
  <2> QED BY <1>9, <2>1, <2>2, StaStepOK DEF Deauthenticate
<1>10. CASE Remove(s) BY <1>10, StaDisconnectOK DEF Remove
<1> QED BY <1>3, <1>4, <1>6, <1>7, <1>8, <1>9, <1>10

\* The pairwise handshake leaves the marks alone.
LEMMA PairwiseOK ==
  ASSUME GroupInv, NEW s \in STA,
         ReceiveMsg2(s) \/ ReceiveMsg4(s) \/ RekeyPtk(s)
  PROVE  StepOK
<1> DEFINE r == sm[s]
           c == GKeyDoneStations
<1>1. StaOK(r) /\ c \in Int /\ Done(r) \in {0, 1} /\ gtk \in Nat
  BY DEF GroupInv, TypeOK, Done
<1>2. r.wpa_ptk_state # "NONE" BY DEF ReceiveMsg2, ReceiveMsg4, RekeyPtk
<1>3. ASSUME NEW q, StaOK(q), Done(q) = Done(r), StaStep(s, q, c)
      PROVE  StepOK
  <2>1. c = c - Done(r) + Done(q) BY <1>1, <1>3
  <2> QED BY <1>3, <2>1, StaStepOK
<1>4. StaOK(Answered(r)) /\ Done(Answered(r)) = Done(r) BY <1>1, <1>2, StepsOK
<1>5. CASE ReceiveMsg2(s)
  <2> DEFINE a == Answered(r)
             q == [a EXCEPT !.PTK_valid = TRUE, !.TimeoutCtr = 0]
  <2>1. a.wpa_ptk_state # "NONE"
    BY <1>1, <1>2 DEF Answered, MicVerified, StaOK, StaState
  <2>2. StaStep(s, PTKINITNEGOTIATING(q, gtk), c) BY <1>5 DEF ReceiveMsg2
  <2> HIDE DEF a
  <2>3. StaOK(q) /\ Done(q) = Done(r) /\ q.wpa_ptk_state # "NONE"
    BY <1>4, <2>1 DEF StaOK, StaState, Done, a
  <2> HIDE DEF q
  <2>4. StaOK(PTKINITNEGOTIATING(q, gtk)) /\ Done(PTKINITNEGOTIATING(q, gtk)) = Done(r)
    BY <1>1, <2>3, StepsOK
  <2> QED BY <1>3, <2>2, <2>4
<1>6. CASE ReceiveMsg4(s)
  <2> DEFINE q == PTKINITDONE(Answered(r))
  <2>1. Answered(r).wpa_ptk_state # "NONE"
    BY <1>1, <1>2 DEF Answered, MicVerified, StaOK, StaState
  <2>2. StaOK(q) /\ Done(q) = Done(r) BY <1>4, <2>1, StepsOK, 0 \in Nat
  <2>3. StaStep(s, q, c) BY <1>6 DEF ReceiveMsg4
  <2> QED BY <1>3, <2>2, <2>3
<1>7. CASE RekeyPtk(s)
  <2>1. PICK p \in {r, MicVerified(r)} : StaStep(s, PTKSTART(p), c)
    BY <1>7 DEF RekeyPtk
  <2>2. StaOK(MicVerified(r)) /\ Done(MicVerified(r)) = Done(r)
    BY <1>1, <1>2, StepsOK
  <2>3. StaOK(PTKSTART(p)) /\ Done(PTKSTART(p)) = Done(r)
    BY <1>1, <2>1, <2>2, StartOK
  <2> QED BY <1>3, <2>1, <2>3
<1> QED BY <1>5, <1>6, <1>7

\* A retransmission timeout.
LEMMA TimeoutOK ==
  ASSUME GroupInv, NEW s \in STA, Timeout(s)
  PROVE  StepOK
<1> DEFINE c == GKeyDoneStations
           r == [sm[s] EXCEPT !.timers = @ - 1, !.pending_1_of_4_timeout = FALSE]
<1>1. /\ StaOK(sm[s]) /\ c \in Int /\ Done(sm[s]) \in {0, 1} /\ gtk \in Nat
      /\ sm[s].wpa_ptk_state # "NONE" /\ sm[s].timers - 1 \in Nat
  BY DEF GroupInv, TypeOK, Done, Timeout, Present, StaOK, StaState
<1>2. StaOK(r) /\ Done(r) = Done(sm[s]) /\ r.wpa_ptk_state # "NONE"
  BY <1>1 DEF StaOK, StaState, Done
<1>3. ASSUME NEW q, StaOK(q), Done(q) = Done(sm[s]), StaStep(s, q, c)
      PROVE  StepOK
  <2>1. c = c - Done(sm[s]) + Done(q) BY <1>1, <1>3
  <2> QED BY <1>3, <2>1, StaStepOK
<1>4. \/ StaDisconnect(s)
      \/ \E q \in {r, PTKSTART_again(r), PTKINITNEGOTIATING(r, gtk),
                   REKEYNEGOTIATING(r, gtk)} : StaStep(s, q, c)
      \/ StaStep(s, IDLE(KEYERROR(r)), c - Done(r))
  BY DEF Timeout
<1> HIDE DEF r
<1>5. CASE StaDisconnect(s) BY <1>5, StaDisconnectOK
<1>6. CASE \E q \in {r, PTKSTART_again(r), PTKINITNEGOTIATING(r, gtk),
                     REKEYNEGOTIATING(r, gtk)} : StaStep(s, q, c)
  <2>1. PICK q \in {r, PTKSTART_again(r), PTKINITNEGOTIATING(r, gtk),
                    REKEYNEGOTIATING(r, gtk)} : StaStep(s, q, c)
    BY <1>6
  <2>2. StaOK(q) /\ Done(q) = Done(sm[s]) BY <1>1, <1>2, <2>1, StepsOK
  <2> QED BY <1>3, <2>1, <2>2
<1>7. CASE StaStep(s, IDLE(KEYERROR(r)), c - Done(r))
  <2> DEFINE q == IDLE(KEYERROR(r))
  <2>1. StaOK(q) /\ Done(q) = 0
    BY <1>2 DEF IDLE, KEYERROR, wpa_gkeydone_sta, StaOK, StaState, Done
  <2> HIDE DEF q
  <2>2. c - Done(r) = c - Done(sm[s]) + Done(q) BY <1>1, <1>2, <2>1
  <2> QED BY <1>7, <2>1, <2>2, StaStepOK DEF q
<1> QED BY <1>4, <1>5, <1>6, <1>7

\* The group handshake, and a station's Request.
LEMMA GroupHandshakeOK ==
  ASSUME GroupInv, NEW s \in STA,
         \/ StaReceive(s) \/ ReceiveGroupMsg2(s) \/ ReceiveGtkRequest(s)
         \/ TxStatus(s)
  PROVE  StepOK
<1> DEFINE r == sm[s]
           c == GKeyDoneStations
<1>1. /\ StaOK(r) /\ c \in Int /\ Done(r) \in {0, 1}
      /\ Agree(sm, c) /\ GroupTypes /\ sm \in [STA -> StaState]
  BY InvIsAgree DEF GroupInv, TypeOK, Done
<1>2. ASSUME NEW m, Agree(m, c), sm' = m, rekeyTimer' \in BOOLEAN,
             UNCHANGED <<wpa_group_state, GKeyDoneStations, gtk, txGtk>>
      PROVE  StepOK
  <2>1. (Agree(sm, GKeyDoneStations) /\ GroupTypes)'
    BY <1>1, <1>2 DEF GroupTypes, Agree, StaOK, MarkedIn
  <2> QED BY <1>2, <2>1, InvIsAgree DEF StepOK
<1>3. CASE StaReceive(s)
  <2>1. PICK f \in r.acc \ r.got :
          sm' = [sm EXCEPT ![s] = [sm[s] EXCEPT !.got = sm[s].got \cup {f},
                                                !.staGtk = f.gtk]]
    BY <1>3 DEF StaReceive
  <2> DEFINE q == [r EXCEPT !.got = r.got \cup {f}, !.staGtk = f.gtk]
  <2>2. f \in GtkMsg BY <1>1, <2>1 DEF StaOK, StaState
  <2>3. f.gtk \in Nat BY <2>2 DEF GtkMsg
  <2>4. r.got \cup {f} \in SUBSET GtkMsg BY <1>1, <2>2 DEF StaOK, StaState
  <2>5. StaOK(q) /\ Done(q) = Done(r)
    BY <1>1, <2>3, <2>4 DEF StaOK, StaState, Done
  <2>6. sm' = [sm EXCEPT ![s] = q] BY <2>1
  <2> HIDE DEF q
  <2>7. c = c - Done(r) + Done(q) BY <1>1, <2>5
  <2>8. Agree([sm EXCEPT ![s] = q], c) BY <1>1, <2>5, <2>7, Replace
  <2> QED BY <1>1, <1>2, <1>3, <2>6, <2>8 DEF StaReceive, GroupTypes
<1>4. CASE ReceiveGroupMsg2(s)
  <2> DEFINE q == IDLE(REKEYESTABLISHED(Answered(r)))
  <2>1. StaOK(q) /\ Done(q) = 0
    BY <1>1 DEF IDLE, REKEYESTABLISHED, wpa_gkeydone_sta, Answered, MicVerified,
                StaOK, StaState, Done
  <2>2. StaStep(s, q, c - Done(r)) BY <1>4 DEF ReceiveGroupMsg2
  <2> HIDE DEF q
  <2>3. c - Done(r) = c - Done(r) + Done(q) BY <1>1, <2>1
  <2> QED BY <2>1, <2>2, <2>3, StaStepOK
<1>5. CASE ReceiveGtkRequest(s)
  <2> DEFINE q == MicVerified(r)
             m == [sm EXCEPT ![s] = q]
  <2>1. StaOK(q) /\ Done(q) = Done(r)
    BY <1>1, <1>5, StepsOK, 0 \in Nat DEF ReceiveGtkRequest
  <2>2. \/ /\ sm' = m /\ rekeyTimer' = FALSE
           /\ UNCHANGED <<wpa_group_state, GKeyDoneStations, gtk, txGtk>>
        \/ rekeyTimer' = TRUE /\ wpa_rekey_all_groups(m, {s})
    BY <1>1, <1>5 DEF ReceiveGtkRequest
  <2> HIDE DEF q
  <2>3. c = c - Done(r) + Done(q) BY <1>1, <2>1
  <2>4. Agree(m, c) BY <1>1, <2>1, <2>3, Replace
  <2> HIDE DEF m
  <2> QED BY <1>2, <2>2, <2>4, RekeyStepOK
<1>6. CASE TxStatus(s)
  <2> DEFINE q == [r EXCEPT !.timers = 1]
  <2>1. StaOK(q) /\ Done(q) = Done(r) BY <1>1 DEF StaOK, StaState, Done
  <2>2. sm' = [sm EXCEPT ![s] = q] BY <1>6 DEF TxStatus
  <2> HIDE DEF q
  <2>3. c = c - Done(r) + Done(q) BY <1>1, <2>1
  <2>4. Agree([sm EXCEPT ![s] = q], c) BY <1>1, <2>1, <2>3, Replace
  <2> QED BY <1>1, <1>2, <1>6, <2>2, <2>4 DEF TxStatus, GroupTypes
<1> QED BY <1>3, <1>4, <1>5, <1>6
-----------------------------------------------------------------------------
\* The invariant holds before any station has associated.
LEMMA InitInv == Init => GroupInv
<1> SUFFICES ASSUME Init PROVE GroupInv OBVIOUS
<1>1. sm \in [STA -> StaState] /\ \A s \in STA : StaOK(sm[s])
  BY NoStaOK DEF Init, StaOK
<1>2. Marked = {} BY NoStaOK DEF Init, Marked
<1> QED BY <1>1, <1>2, FS_EmptySet DEF Init, GroupInv, TypeOK, DoneCount

\* One step, when no station uses WNM-Sleep Mode.
LEMMA NextOK ==
  ASSUME "wnm_sleep" \notin Events, GroupInv, Next
  PROVE  StepOK
<1>1. CASE RekeyGtk
  <2>1. Agree(sm, GKeyDoneStations) BY InvIsAgree
  <2> QED BY <1>1, <2>1, RekeyStepOK DEF RekeyGtk
<1>2. ASSUME NEW s \in STA, StaEvent(s) PROVE StepOK
  BY <1>2, AssociationOK, PairwiseOK, TimeoutOK, GroupHandshakeOK
     DEF StaEvent, WnmSleepEnter, WnmSleepExit
<1> QED BY <1>1, <1>2 DEF Next

\* Nothing happens.
LEMMA StutterOK == GroupInv /\ UNCHANGED vars => GroupInv'
  BY DEF GroupInv, TypeOK, DoneCount, Marked, vars, StaOK

\* GKeyDoneStations is the number of stations marked with GUpdateStationKeys.
THEOREM CounterIsRight ==
  ASSUME "wnm_sleep" \notin Events
  PROVE  Spec => []DoneCount
<1>1. GroupInv /\ [Next]_vars => GroupInv' BY NextOK, StutterOK DEF StepOK
<1>2. GroupInv => DoneCount BY DEF GroupInv
<1> QED BY <1>1, <1>2, InitInv, PTL DEF Spec

\* The driver goes over to a new GTK only when no station is left that was sent
\* the GTK and has not answered.
THEOREM SwitchIsSafe ==
  ASSUME "wnm_sleep" \notin Events
  PROVE  Spec => SwitchWaits
<1>1. GroupInv /\ [Next]_vars => GroupInv' BY NextOK, StutterOK DEF StepOK
<1>2. ASSUME GroupInv, GroupInv', Next, txGtk' # txGtk
      PROVE  Marked' = {} \/ (txGtk' = gtk /\ Marked = {})
  <2>1. IsFiniteSet(Marked) /\ IsFiniteSet(Marked')
    BY StationsFinite, FS_Subset DEF Marked
  <2>2. StepOK BY <1>2, NextOK
  <2>3. GKeyDoneStations' = 0 \/ (txGtk' = gtk /\ GKeyDoneStations = 0)
    BY <1>2, <2>2 DEF StepOK
  <2> QED BY <1>2, <2>1, <2>3, FS_EmptySet DEF GroupInv, DoneCount
<1>3. GroupInv /\ GroupInv' /\ [Next]_vars =>
        [txGtk' # txGtk => Marked' = {} \/ (txGtk' = gtk /\ Marked = {})]_vars
  BY <1>2
<1> QED BY <1>1, <1>3, InitInv, PTL DEF Spec, SwitchWaits
-----------------------------------------------------------------------------
(***************************************************************************)
(* What may become of a station's record, whatever its event, and sets of  *)
(* records that it does not leave.                                         *)
(***************************************************************************)

\* A retransmission timeout is taken from those that are registered.
TimedOut(r) == [r EXCEPT !.timers = @ - 1, !.pending_1_of_4_timeout = FALSE]

\* r becomes q with an event of the station, while the group's GTK is g.
StaMoves(r, q, g) ==
  \/ q = r \/ q = NoSta
  \/ r.wpa_ptk_state = "NONE" /\ q = PTKSTART(NoSta)
  \/ /\ "reassoc" \in Events
     /\ \/ q = [wpa_remove_ptk(r) EXCEPT !.staGtk = 0]
        \/ q = PTKSTART(Associated(r))
        \/ r.GUpdateStationKeys /\ q = PTKSTART(Associated(IDLE(wpa_gkeydone_sta(r))))
  \/ q = INITIALIZE(r)
  \/ /\ r.wpa_ptk_state = "PTKSTART"
     /\ q = PTKINITNEGOTIATING([Answered(r) EXCEPT !.PTK_valid = TRUE, !.TimeoutCtr = 0], g)
  \/ r.wpa_ptk_state = "PTKINITNEGOTIATING" /\ q = PTKINITDONE(Answered(r))
  \/ "ptk_rekey" \in Events /\ (q = PTKSTART(r) \/ q = PTKSTART(MicVerified(r)))
  \/ \E f \in r.acc : f.gtk >= r.staGtk /\ q = [r EXCEPT !.got = @ \cup {f}, !.staGtk = f.gtk]
  \/ q = IDLE(REKEYESTABLISHED(Answered(r)))
  \/ /\ r.timers > 0
     /\ \/ r.wpa_ptk_state = "PTKSTART" /\ q = PTKSTART_again(TimedOut(r))
        \/ /\ r.wpa_ptk_state = "PTKINITNEGOTIATING"
           /\ q = PTKINITNEGOTIATING(TimedOut(r), g)
        \/ /\ r.wpa_ptk_state \in {"INITIALIZE", "PTKINITDONE"}
           /\ r.wpa_ptk_group_state = "IDLE" /\ q = TimedOut(r)
        \/ /\ r.wpa_ptk_state \in {"INITIALIZE", "PTKINITDONE"}
           /\ r.wpa_ptk_group_state # "IDLE" /\ q = REKEYNEGOTIATING(TimedOut(r), g)
        \/ no_disconnect_on_group_keyerror /\ q = IDLE(KEYERROR(TimedOut(r)))
  \/ r.pending_1_of_4_timeout /\ q = [r EXCEPT !.timers = 1]
  \/ "gtk_request" \in Events /\ q = MicVerified(r)
  \/ /\ "wnm_sleep" \in Events
     /\ \/ q = [r EXCEPT !.is_wnmsleep = TRUE, !.WNM_SLEEP_MODE = TRUE]
        \/ q = wpa_group_update_sta([r EXCEPT !.is_wnmsleep = FALSE,
                                              !.WNM_SLEEP_MODE = FALSE], g)

\* How the event of station s, which leaves q, ends.
Ends(s, q) ==
  \/ \E n \in Int : /\ StaStep(s, q, n) \/ Freed(s, q, n)
                    /\ n <= GKeyDoneStations \/ "wnm_sleep" \in Events
  \/ /\ sm' = [sm EXCEPT ![s] = q] /\ rekeyTimer' \in {rekeyTimer, FALSE}
     /\ UNCHANGED <<wpa_group_state, GKeyDoneStations, gtk, txGtk>>
  \/ /\ wpa_rekey_all_groups([sm EXCEPT ![s] = q], {s}) /\ rekeyTimer' = TRUE
     /\ q.GUpdateStationKeys = sm[s].GUpdateStationKeys

\* Every event of a station is one of these.
LEMMA EventMoves ==
  ASSUME NEW s \in STA, StaEvent(s), GKeyDoneStations \in Int, sm \in [STA -> StaState]
  PROVE  \E q : StaMoves(sm[s], q, gtk) /\ Ends(s, q)
<1> DEFINE r == sm[s]
           c == GKeyDoneStations
<1>1. Done(r) \in {0, 1} /\ c \in Int BY DEF Done
<1>2. c <= c /\ c - Done(r) <= c /\ c - Done(r) \in Int /\ c + 1 \in Int BY <1>1
<1>3. ASSUME NEW q, NEW n \in Int, StaMoves(r, q, gtk), StaStep(s, q, n) \/ Freed(s, q, n),
             n <= c \/ "wnm_sleep" \in Events
      PROVE  \E p : StaMoves(sm[s], p, gtk) /\ Ends(s, p)
  <2>1. Ends(s, q) BY <1>3 DEF Ends
  <2> QED BY <1>3, <2>1
<1>4. ASSUME NEW q, StaMoves(r, q, gtk), sm' = [sm EXCEPT ![s] = q],
             rekeyTimer' \in {rekeyTimer, FALSE},
             UNCHANGED <<wpa_group_state, GKeyDoneStations, gtk, txGtk>>
      PROVE  \E p : StaMoves(sm[s], p, gtk) /\ Ends(s, p)
  <2>1. Ends(s, q) BY <1>4 DEF Ends
  <2> QED BY <1>4, <2>1
<1>5. CASE Associate(s)
  <2>1. StaMoves(r, PTKSTART(NoSta), gtk) BY <1>5 DEF Associate, Present, StaMoves
  <2> QED BY <1>2, <1>3, <1>5, <2>1 DEF Associate
<1>6. CASE Authenticate(s)
  <2> DEFINE q == [wpa_remove_ptk(r) EXCEPT !.staGtk = 0]
  <2>1. StaMoves(r, q, gtk) /\ StaStep(s, q, c) BY <1>6 DEF Authenticate, StaMoves
  <2> HIDE DEF q
  <2> QED BY <1>2, <1>3, <2>1
<1>7. CASE AssociateAgain(s)
  <2>1. StaMoves(r, PTKSTART(Associated(r)), gtk) /\ StaStep(s, PTKSTART(Associated(r)), c)
    BY <1>7 DEF AssociateAgain, StaMoves
  <2> QED BY <1>2, <1>3, <2>1
<1>8. CASE Reassociate(s)
  <2> DEFINE p == IF r.GUpdateStationKeys THEN IDLE(wpa_gkeydone_sta(r)) ELSE r
             q == PTKSTART(Associated(p))
  <2>1. StaStep(s, q, c - Done(r)) /\ "reassoc" \in Events BY <1>8 DEF Reassociate
  <2>2. StaMoves(r, q, gtk) BY <2>1 DEF StaMoves
  <2> HIDE DEF q
  <2> QED BY <1>2, <1>3, <2>1, <2>2
<1>9. CASE Disassociate(s)
  <2>1. StaMoves(r, INITIALIZE(r), gtk) /\ StaStep(s, INITIALIZE(r), c - Done(r))
    BY <1>9 DEF Disassociate, StaMoves
  <2> QED BY <1>2, <1>3, <2>1
<1>10. CASE Deauthenticate(s)
  <2>1. StaMoves(r, NoSta, gtk) /\ StaStep(s, NoSta, c - Done(r))
    BY <1>10 DEF Deauthenticate, StaMoves
  <2> QED BY <1>2, <1>3, <2>1
<1>11. CASE StaDisconnect(s)
  <2>1. StaMoves(r, r, gtk) /\ Freed(s, r, c) BY <1>11 DEF StaDisconnect, StaMoves
  <2> QED BY <1>2, <1>3, <2>1
<1>12. CASE ReceiveMsg2(s)
  <2> DEFINE q == PTKINITNEGOTIATING([Answered(r) EXCEPT !.PTK_valid = TRUE,
                                                         !.TimeoutCtr = 0], gtk)
  <2>1. StaMoves(r, q, gtk) /\ StaStep(s, q, c) BY <1>12 DEF ReceiveMsg2, StaMoves
  <2> HIDE DEF q
  <2> QED BY <1>2, <1>3, <2>1
<1>13. CASE ReceiveMsg4(s)
  <2>1. /\ StaMoves(r, PTKINITDONE(Answered(r)), gtk)
        /\ StaStep(s, PTKINITDONE(Answered(r)), c)
    BY <1>13 DEF ReceiveMsg4, StaMoves
  <2> QED BY <1>2, <1>3, <2>1
<1>14. CASE RekeyPtk(s)
  <2>1. PICK p \in {r, MicVerified(r)} : StaStep(s, PTKSTART(p), c) BY <1>14 DEF RekeyPtk
  <2>2. StaMoves(r, PTKSTART(p), gtk) BY <1>14, <2>1 DEF StaMoves, RekeyPtk
  <2> QED BY <1>2, <1>3, <2>1, <2>2
<1>15. CASE StaReceive(s)
  <2>1. PICK f \in r.acc \ r.got :
          /\ f.gtk >= r.staGtk
          /\ sm' = [sm EXCEPT ![s] = [sm[s] EXCEPT !.got = @ \cup {f}, !.staGtk = f.gtk]]
    BY <1>15 DEF StaReceive
  <2> DEFINE q == [r EXCEPT !.got = @ \cup {f}, !.staGtk = f.gtk]
  <2>2. StaMoves(r, q, gtk) BY <2>1 DEF StaMoves
  <2>3. sm' = [sm EXCEPT ![s] = q] BY <2>1
  <2> HIDE DEF q
  <2> QED BY <1>4, <1>15, <2>2, <2>3 DEF StaReceive
<1>16. CASE ReceiveGroupMsg2(s)
  <2> DEFINE q == IDLE(REKEYESTABLISHED(Answered(r)))
  <2>1. StaMoves(r, q, gtk) /\ StaStep(s, q, c - Done(r))
    BY <1>16 DEF ReceiveGroupMsg2, StaMoves
  <2> QED BY <1>2, <1>3, <2>1
<1>17. CASE Timeout(s)
  <2> DEFINE t == TimedOut(r)
  <2>1. /\ t.wpa_ptk_state = r.wpa_ptk_state
        /\ t.wpa_ptk_group_state = r.wpa_ptk_group_state
        /\ t.GUpdateStationKeys = r.GUpdateStationKeys
    BY DEF TimedOut, StaState
  <2>2. Done(t) = Done(r) BY <2>1 DEF Done
  <2>3. r.timers > 0 /\
        \/ StaDisconnect(s)
        \/ r.wpa_ptk_state = "PTKSTART" /\ StaStep(s, PTKSTART_again(t), c)
        \/ r.wpa_ptk_state = "PTKINITNEGOTIATING" /\ StaStep(s, PTKINITNEGOTIATING(t, gtk), c)
        \/ /\ r.wpa_ptk_state \in {"INITIALIZE", "PTKINITDONE"}
           /\ r.wpa_ptk_group_state = "IDLE" /\ StaStep(s, t, c)
        \/ /\ r.wpa_ptk_state \in {"INITIALIZE", "PTKINITDONE"}
           /\ r.wpa_ptk_group_state # "IDLE" /\ StaStep(s, REKEYNEGOTIATING(t, gtk), c)
        \/ no_disconnect_on_group_keyerror /\ StaStep(s, IDLE(KEYERROR(t)), c - Done(t))
    BY <1>17, <2>1 DEF Timeout, TimedOut
  <2> HIDE DEF r
  <2>4. CASE StaDisconnect(s) BY <1>11, <2>4
  <2>5. CASE r.wpa_ptk_state = "PTKSTART" /\ StaStep(s, PTKSTART_again(t), c)
    <3>1. StaMoves(r, PTKSTART_again(t), gtk) BY <2>3, <2>5 DEF StaMoves
    <3> QED BY <1>2, <1>3, <2>5, <3>1
  <2>6. CASE r.wpa_ptk_state = "PTKINITNEGOTIATING" /\ StaStep(s, PTKINITNEGOTIATING(t, gtk), c)
    <3>1. StaMoves(r, PTKINITNEGOTIATING(t, gtk), gtk) BY <2>3, <2>6 DEF StaMoves
    <3> QED BY <1>2, <1>3, <2>6, <3>1
  <2>7. CASE /\ r.wpa_ptk_state \in {"INITIALIZE", "PTKINITDONE"}
             /\ r.wpa_ptk_group_state = "IDLE" /\ StaStep(s, t, c)
    <3>1. StaMoves(r, t, gtk) BY <2>3, <2>7 DEF StaMoves
    <3> QED BY <1>2, <1>3, <2>7, <3>1
  <2>8. CASE /\ r.wpa_ptk_state \in {"INITIALIZE", "PTKINITDONE"}
             /\ r.wpa_ptk_group_state # "IDLE" /\ StaStep(s, REKEYNEGOTIATING(t, gtk), c)
    <3>1. StaMoves(r, REKEYNEGOTIATING(t, gtk), gtk) BY <2>3, <2>8 DEF StaMoves
    <3> QED BY <1>2, <1>3, <2>8, <3>1
  <2>9. CASE no_disconnect_on_group_keyerror /\ StaStep(s, IDLE(KEYERROR(t)), c - Done(t))
    <3>1. StaMoves(r, IDLE(KEYERROR(t)), gtk) BY <2>3, <2>9 DEF StaMoves
    <3> QED BY <1>2, <1>3, <2>2, <2>9, <3>1
  <2> QED BY <2>3, <2>4, <2>5, <2>6, <2>7, <2>8, <2>9
<1>18. CASE TxStatus(s)
  <2> DEFINE q == [r EXCEPT !.timers = 1]
  <2>1. StaMoves(r, q, gtk) /\ sm' = [sm EXCEPT ![s] = q] BY <1>18 DEF StaMoves, TxStatus
  <2> HIDE DEF q
  <2> QED BY <1>4, <1>18, <2>1 DEF TxStatus
<1>19. CASE ReceiveGtkRequest(s)
  <2> DEFINE q == MicVerified(r)
             m == [sm EXCEPT ![s] = q]
  <2>1. StaMoves(r, q, gtk) BY <1>19 DEF StaMoves, ReceiveGtkRequest
  <2>2. \/ /\ sm' = m /\ rekeyTimer' = FALSE
           /\ UNCHANGED <<wpa_group_state, GKeyDoneStations, gtk, txGtk>>
        \/ rekeyTimer' = TRUE /\ wpa_rekey_all_groups(m, {s})
    BY <1>19 DEF ReceiveGtkRequest
  <2>3. q.GUpdateStationKeys = sm[s].GUpdateStationKeys BY DEF MicVerified, StaState
  <2> HIDE DEF q
  <2>4. Ends(s, q) BY <2>2, <2>3 DEF Ends
  <2> QED BY <2>1, <2>4
<1>20. CASE WnmSleepEnter(s)
  <2> DEFINE q == [r EXCEPT !.is_wnmsleep = TRUE, !.WNM_SLEEP_MODE = TRUE]
  <2>1. StaMoves(r, q, gtk) /\ sm' = [sm EXCEPT ![s] = q]
    BY <1>20 DEF StaMoves, WnmSleepEnter
  <2> HIDE DEF q
  <2> QED BY <1>4, <1>20, <2>1 DEF WnmSleepEnter
<1>21. CASE WnmSleepExit(s)
  <2> DEFINE q == wpa_group_update_sta([r EXCEPT !.is_wnmsleep = FALSE,
                                                 !.WNM_SLEEP_MODE = FALSE], gtk)
  <2>1. StaMoves(r, q, gtk) /\ "wnm_sleep" \in Events BY <1>21 DEF StaMoves, WnmSleepExit
  <2>2. \/ StaStep(s, q, c + 1)
        \/ /\ sm' = [sm EXCEPT ![s] = q]
           /\ UNCHANGED <<wpa_group_state, GKeyDoneStations, gtk, txGtk, rekeyTimer>>
    BY <1>21 DEF WnmSleepExit
  <2> HIDE DEF q
  <2> QED BY <1>2, <1>3, <1>4, <2>1, <2>2
<1> QED BY <1>5, <1>6, <1>7, <1>8, <1>9, <1>10, <1>11, <1>12, <1>13, <1>14, <1>15, <1>16,
           <1>17, <1>18, <1>19, <1>20, <1>21 DEF StaEvent, Remove

\* A set of records that wpa_group_fatal_failure() and wpa_free_sta_sm() do not
\* leave.
Closed(G) == /\ G \subseteq StaState /\ NoSta \in G
             /\ \A r \in G, b \in BOOLEAN : [r EXCEPT !.Disconnect = b] \in G

\* The variables have their types, and the stations' records are in G: now, and
\* after the step.
Within(G) == GroupTypes /\ GKeyDoneStations \in Int /\ sm \in [STA -> G]
Stays(G) == GroupTypes' /\ GKeyDoneStations' \in Int /\ sm' \in [STA -> G]

\* A failed group machine marks records for disconnection and does no more.
LEMMA FatalIn ==
  ASSUME NEW G, Closed(G), NEW m \in [STA -> G], NEW S \in SUBSET STA, NEW n \in Int,
         wpa_group_fatal_failure(m, S, n)
  PROVE  sm' \in [STA -> G] /\ GKeyDoneStations' \in Int
<1> DEFINE d(s) == [m[s] EXCEPT !.Disconnect = m[s].wpa_ptk_state # "NONE"]
           B == {s \in S : m[s].GUpdateStationKeys}
<1>1. ASSUME NEW s \in STA PROVE d(s) \in G
  <2>1. m[s] \in G /\ (m[s].wpa_ptk_state # "NONE") \in BOOLEAN OBVIOUS
  <2> QED BY <2>1, Zenon DEF Closed
<1>2. sm' = [s \in STA |-> IF s \in S THEN NoSta ELSE d(s)]
  BY DEF wpa_group_fatal_failure
<1>3. NoSta \in G BY DEF Closed
<1> HIDE DEF d
<1>4. sm' \in [STA -> G] BY <1>1, <1>2, <1>3
<1>5. IsFiniteSet(B) BY StationsFinite, FS_Subset
<1>6. Cardinality(B) \in Nat BY <1>5, FS_CardinalityType
<1>7. GKeyDoneStations' = n - Cardinality(B) BY DEF wpa_group_fatal_failure
<1> QED BY <1>4, <1>6, <1>7

\* A step loop leaves the station's record in G if its machines do, and the GTK
\* as it is.
LEMMA StepIn ==
  ASSUME NEW G, Closed(G), Within(G), NEW s \in STA, NEW r \in G, NEW n \in Int,
         StaStep(s, r, n) \/ Freed(s, r, n)
  PROVE  Stays(G) /\ gtk' = gtk
<1>1. (rekeyTimer \/ StrictRekey(s, r)) \in BOOLEAN
  BY DEF Within, GroupTypes, StrictRekey
<1>2. NoSta \in G BY DEF Closed
<1>3. CASE Freed(s, r, n)
  <2>1. sm' \in [STA -> G] BY <1>2, <1>3 DEF Freed, Within
  <2>2. GKeyDoneStations' \in Int BY <1>3 DEF Freed, Done
  <2>3. GroupTypes' BY <1>1, <1>3 DEF Freed, Within, GroupTypes
  <2> QED BY <1>3, <2>1, <2>2, <2>3 DEF Freed, Stays
<1>4. CASE GroupStep(s, r, n)
  <2> DEFINE m == [sm EXCEPT ![s] = r]
  <2>1. m \in [STA -> G] BY DEF Within
  <2>2. rekeyTimer' \in BOOLEAN /\ gtk' = gtk BY <1>1, <1>4 DEF GroupStep
  <2>3. \/ wpa_group_fatal_failure(m, {s}, n) /\ UNCHANGED txGtk
        \/ /\ sm' = m /\ GKeyDoneStations' = n
           /\ \/ UNCHANGED <<wpa_group_state, txGtk>>
              \/ wpa_group_state' = "SETKEYSDONE" /\ txGtk' = gtk
    BY <1>4 DEF GroupStep
  <2> HIDE DEF m
  <2>4. sm' \in [STA -> G] /\ GKeyDoneStations' \in Int BY <2>1, <2>3, FatalIn
  <2>5. GroupTypes' BY <2>2, <2>3 DEF Within, GroupTypes, wpa_group_fatal_failure
  <2> QED BY <2>2, <2>4, <2>5 DEF Stays
<1> QED BY <1>3, <1>4 DEF StaStep

\* A GTK rekeying takes the stations' records from G to H, or changes no GTK.
LEMMA RekeyIn ==
  ASSUME NEW G, Closed(G), NEW H, Closed(H), Within(G), NEW m \in [STA -> G],
         NEW S \in SUBSET STA, wpa_rekey_all_groups(m, S), rekeyTimer' = TRUE,
         \A s \in STA : wpa_group_update_sta(m[s], gtk + 1) \in H
  PROVE  (Stays(H) /\ gtk' = gtk + 1) \/ (Stays(G) /\ gtk' = gtk)
<1>1. CASE wpa_group_setkeys(m, S)
  <2> DEFINE C == {s \in STA : Counted(m[s])}
             k == [s \in STA |-> wpa_group_update_sta(m[s], gtk + 1)]
  <2>1. IsFiniteSet(C) BY StationsFinite, FS_Subset
  <2>2. Cardinality(C) \in Int BY <2>1, FS_CardinalityType
  <2>3. k \in [STA -> H] OBVIOUS
  <2>4. /\ gtk' = gtk + 1
        /\ \/ wpa_group_fatal_failure(k, S, Cardinality(C)) /\ UNCHANGED txGtk
           \/ /\ sm' = k /\ GKeyDoneStations' = Cardinality(C)
              /\ wpa_group_state' \in {"SETKEYS", "SETKEYSDONE"}
              /\ txGtk' \in {gtk, txGtk, gtk + 1}
    BY <1>1 DEF wpa_group_setkeys
  <2> HIDE DEF C, k
  <2>5. sm' \in [STA -> H] /\ GKeyDoneStations' \in Int BY <2>2, <2>3, <2>4, FatalIn
  <2>6. gtk \in Nat /\ txGtk \in Nat BY DEF Within, GroupTypes
  <2>7. gtk' \in Nat /\ txGtk' \in Nat BY <2>4, <2>6
  <2>8. wpa_group_state' \in {"SETKEYS", "SETKEYSDONE", "FATAL_FAILURE"}
    BY <2>4 DEF wpa_group_fatal_failure
  <2> QED BY <2>4, <2>5, <2>7, <2>8 DEF Stays, GroupTypes
<1>2. CASE wpa_group_setkeysdone_fails(m, S)
  <2>1. /\ wpa_group_fatal_failure(m, S, GKeyDoneStations) /\ UNCHANGED <<gtk, txGtk>>
        /\ GKeyDoneStations \in Int
    BY <1>2 DEF wpa_group_setkeysdone_fails, Within
  <2>2. sm' \in [STA -> G] /\ GKeyDoneStations' \in Int BY <2>1, FatalIn
  <2>3. GroupTypes' BY <2>1 DEF wpa_group_fatal_failure, GroupTypes, Within
  <2> QED BY <2>1, <2>2, <2>3 DEF Stays
<1> QED BY <1>1, <1>2 DEF wpa_rekey_all_groups

\* How an event ends that leaves the station's record in G.
LEMMA EndsIn ==
  ASSUME NEW G, Closed(G), Within(G), NEW s \in STA, NEW q \in G, Ends(s, q)
  PROVE  \/ Stays(G) /\ gtk' = gtk
         \/ /\ wpa_rekey_all_groups([sm EXCEPT ![s] = q], {s}) /\ rekeyTimer' = TRUE
            /\ [sm EXCEPT ![s] = q] \in [STA -> G]
            /\ q.GUpdateStationKeys = sm[s].GUpdateStationKeys
<1>1. [sm EXCEPT ![s] = q] \in [STA -> G] BY DEF Within
<1>2. CASE \E n \in Int : StaStep(s, q, n) \/ Freed(s, q, n) BY <1>2, StepIn
<1>3. CASE /\ sm' = [sm EXCEPT ![s] = q] /\ rekeyTimer' \in {rekeyTimer, FALSE}
           /\ UNCHANGED <<wpa_group_state, GKeyDoneStations, gtk, txGtk>>
  <2>1. rekeyTimer' \in BOOLEAN BY <1>3 DEF Within, GroupTypes
  <2> QED BY <1>1, <1>3, <2>1 DEF Within, Stays, GroupTypes
<1> QED BY <1>1, <1>2, <1>3 DEF Ends

\* A set that no event of a station and no GTK rekeying leaves holds the records
\* for good.
LEMMA NextIn ==
  ASSUME NEW G, Closed(G), Within(G), Next,
         \A r \in G : \A q : StaMoves(r, q, gtk) => q \in G,
         \A r \in G : wpa_group_update_sta(r, gtk + 1) \in G
  PROVE  Stays(G)
<1>1. ASSUME NEW m \in [STA -> G], NEW S \in SUBSET STA, wpa_rekey_all_groups(m, S),
             rekeyTimer' = TRUE
      PROVE  Stays(G)
  BY <1>1, RekeyIn
<1>2. CASE RekeyGtk BY <1>1, <1>2 DEF RekeyGtk, Within
<1>3. ASSUME NEW s \in STA, StaEvent(s) PROVE Stays(G)
  <2>1. GKeyDoneStations \in Int /\ sm \in [STA -> StaState] /\ sm[s] \in G
    BY DEF Within, Closed
  <2>2. PICK q : StaMoves(sm[s], q, gtk) /\ Ends(s, q) BY <1>3, <2>1, EventMoves
  <2>3. q \in G BY <2>1, <2>2
  <2>4. CASE Stays(G) BY <2>4
  <2>5. CASE /\ wpa_rekey_all_groups([sm EXCEPT ![s] = q], {s}) /\ rekeyTimer' = TRUE
             /\ [sm EXCEPT ![s] = q] \in [STA -> G]
    <3> DEFINE m == [sm EXCEPT ![s] = q]
    <3>1. m \in [STA -> G] /\ {s} \in SUBSET STA BY <2>5
    <3>2. wpa_rekey_all_groups(m, {s}) /\ rekeyTimer' = TRUE BY <2>5
    <3> HIDE DEF m
    <3> QED BY <1>1, <3>1, <3>2
  <2> QED BY <2>2, <2>3, <2>4, <2>5, EndsIn
<1> QED BY <1>2, <1>3 DEF Next
-----------------------------------------------------------------------------
\* wpa_send_eapol() makes a record of a record.
LEMMA SendTyped ==
  ASSUME NEW r \in StaState, NEW type \in {"3/4", "1/2"}, NEW g \in Nat
  PROVE  wpa_send_eapol(r, type, g) \in StaState
<1> DEFINE a == IF r.PTK_valid THEN r.acc \cup {[type |-> type, gtk |-> g]}
                ELSE r.acc
<1>1. a \in SUBSET GtkMsg BY DEF StaState, GtkMsg
<1>2. r.timers + 1 \in Nat BY DEF StaState
<1>3. wpa_send_eapol(r, type, g) = [r EXCEPT !.timers = r.timers + 1, !.acc = a]
  BY DEF wpa_send_eapol, StaState
<1> HIDE DEF a
<1> QED BY <1>1, <1>2, <1>3 DEF StaState

\* The states of a station's machines make records of records.
LEMMA OpsTyped ==
  ASSUME NEW r \in StaState, NEW g \in Nat
  PROVE  /\ PTKSTART(r) \in StaState /\ PTKSTART_again(r) \in StaState
         /\ PTKINITNEGOTIATING(r, g) \in StaState /\ PTKINITDONE(r) \in StaState
         /\ wpa_remove_ptk(r) \in StaState /\ INITIALIZE(r) \in StaState
         /\ REKEYNEGOTIATING(r, g) \in StaState /\ REKEYESTABLISHED(r) \in StaState
         /\ KEYERROR(r) \in StaState /\ IDLE(r) \in StaState
         /\ wpa_gkeydone_sta(r) \in StaState
         /\ MicVerified(r) \in StaState /\ Answered(r) \in StaState
         /\ Associated(r) \in StaState
         /\ [r EXCEPT !.GUpdateStationKeys = TRUE] \in StaState
         /\ [r EXCEPT !.staGtk = 0] \in StaState
         /\ [r EXCEPT !.PTK_valid = TRUE, !.TimeoutCtr = 0] \in StaState
         /\ [r EXCEPT !.timers = 1] \in StaState
         /\ [r EXCEPT !.is_wnmsleep = TRUE, !.WNM_SLEEP_MODE = TRUE] \in StaState
         /\ [r EXCEPT !.is_wnmsleep = FALSE, !.WNM_SLEEP_MODE = FALSE] \in StaState
<1>1. /\ r.timers + 1 \in Nat /\ r.TimeoutCtr + 1 \in Nat
      /\ r.GTimeoutCtr + 1 \in Nat
  BY DEF StaState
<1>2. PTKSTART(r) \in StaState BY <1>1 DEF StaState, PTKSTART
<1>3. PTKSTART_again(r) \in StaState BY <1>1 DEF StaState, PTKSTART_again
<1>4. PTKINITDONE(r) \in StaState BY DEF StaState, PTKINITDONE
<1>5. wpa_remove_ptk(r) \in StaState BY DEF StaState, wpa_remove_ptk
<1>6. wpa_gkeydone_sta(r) \in StaState BY DEF StaState, wpa_gkeydone_sta
<1>7. INITIALIZE(r) \in StaState
  BY DEF StaState, INITIALIZE, wpa_remove_ptk, wpa_gkeydone_sta
<1>8. REKEYESTABLISHED(r) \in StaState
  BY DEF StaState, REKEYESTABLISHED, wpa_gkeydone_sta
<1>9. IDLE(r) \in StaState BY DEF StaState, IDLE
<1>10. MicVerified(r) \in StaState BY DEF StaState, MicVerified
<1>11. Answered(r) \in StaState BY DEF StaState, MicVerified, Answered
<1>12. Associated(r) \in StaState BY DEF StaState, Associated, wpa_remove_ptk
<1>13. PTKINITNEGOTIATING(r, g) \in StaState
  <2> DEFINE q == [r EXCEPT !.wpa_ptk_state = "PTKINITNEGOTIATING",
                            !.TimeoutCtr = @ + 1]
  <2>1. q \in StaState BY <1>1 DEF StaState
  <2> HIDE DEF q
  <2>2. wpa_send_eapol(q, "3/4", g) \in StaState BY <2>1, SendTyped
  <2> QED BY <2>2 DEF PTKINITNEGOTIATING, q
<1>14. REKEYNEGOTIATING(r, g) \in StaState
  <2> DEFINE q == [r EXCEPT !.wpa_ptk_group_state = "REKEYNEGOTIATING",
                            !.GTimeoutCtr = @ + 1]
  <2>1. q \in StaState BY <1>1 DEF StaState
  <2> HIDE DEF q
  <2>2. wpa_send_eapol(q, "1/2", g) \in StaState BY <2>1, SendTyped
  <2> QED BY <2>2 DEF REKEYNEGOTIATING, q
<1>15. /\ [r EXCEPT !.GUpdateStationKeys = TRUE] \in StaState
       /\ [r EXCEPT !.staGtk = 0] \in StaState
       /\ [r EXCEPT !.PTK_valid = TRUE, !.TimeoutCtr = 0] \in StaState
       /\ [r EXCEPT !.timers = 1] \in StaState
       /\ [r EXCEPT !.is_wnmsleep = TRUE, !.WNM_SLEEP_MODE = TRUE] \in StaState
       /\ [r EXCEPT !.is_wnmsleep = FALSE, !.WNM_SLEEP_MODE = FALSE] \in StaState
  BY DEF StaState
<1> QED BY <1>2, <1>3, <1>4, <1>5, <1>6, <1>7, <1>8, <1>9, <1>10, <1>11, <1>12,
           <1>13, <1>14, <1>15 DEF KEYERROR

\* A timeout that is registered can be taken.
LEMMA TimedOutTyped ==
  ASSUME NEW r \in StaState, r.timers > 0
  PROVE  TimedOut(r) \in StaState
<1>1. r.timers - 1 \in Nat BY DEF StaState
<1> QED BY <1>1 DEF TimedOut, StaState

\* wpa_group_update_sta() makes a record of a record.
LEMMA UpdateTyped ==
  ASSUME NEW r \in StaState, NEW g \in Nat
  PROVE  wpa_group_update_sta(r, g) \in StaState
<1> DEFINE m == [r EXCEPT !.GUpdateStationKeys = TRUE]
<1>1. m \in StaState BY OpsTyped
<1>2. wpa_group_update_sta(r, g) \in {wpa_gkeydone_sta(r), r, m, REKEYNEGOTIATING(m, g)}
  BY DEF wpa_group_update_sta
<1> HIDE DEF m
<1> QED BY <1>1, <1>2, OpsTyped

\* Whatever the event, a record becomes a record.
LEMMA MovesTyped ==
  ASSUME NEW r \in StaState, NEW q, NEW g \in Nat, StaMoves(r, q, g)
  PROVE  q \in StaState
<1>1. NoSta \in StaState BY NoStaOK DEF StaOK
<1>2. ASSUME NEW f \in r.acc,
             q = [r EXCEPT !.got = @ \cup {f}, !.staGtk = f.gtk]
      PROVE  q \in StaState
  <2>1. f \in GtkMsg BY DEF StaState
  <2>2. f.gtk \in Nat BY <2>1 DEF GtkMsg
  <2>3. r.got \cup {f} \in SUBSET GtkMsg BY <2>1 DEF StaState
  <2> QED BY <1>2, <2>2, <2>3 DEF StaState
<1>3. ASSUME r.timers > 0
      PROVE  /\ TimedOut(r) \in StaState /\ PTKSTART_again(TimedOut(r)) \in StaState
             /\ PTKINITNEGOTIATING(TimedOut(r), g) \in StaState
             /\ REKEYNEGOTIATING(TimedOut(r), g) \in StaState
             /\ IDLE(KEYERROR(TimedOut(r))) \in StaState
  <2>1. TimedOut(r) \in StaState BY <1>3, TimedOutTyped
  <2>2. KEYERROR(TimedOut(r)) \in StaState BY <2>1, OpsTyped
  <2> QED BY <2>1, <2>2, OpsTyped
<1>4. [wpa_remove_ptk(r) EXCEPT !.staGtk = 0] \in StaState
  <2>1. wpa_remove_ptk(r) \in StaState BY OpsTyped
  <2> QED BY <2>1, OpsTyped, Zenon
<1>5. /\ PTKSTART(Associated(r)) \in StaState /\ PTKSTART(NoSta) \in StaState
      /\ PTKSTART(r) \in StaState /\ PTKSTART(MicVerified(r)) \in StaState
  <2>1. Associated(r) \in StaState /\ MicVerified(r) \in StaState BY OpsTyped
  <2> QED BY <1>1, <2>1, OpsTyped
<1>6. PTKSTART(Associated(IDLE(wpa_gkeydone_sta(r)))) \in StaState
  <2>1. wpa_gkeydone_sta(r) \in StaState BY OpsTyped
  <2>2. IDLE(wpa_gkeydone_sta(r)) \in StaState BY <2>1, OpsTyped
  <2>3. Associated(IDLE(wpa_gkeydone_sta(r))) \in StaState BY <2>2, OpsTyped
  <2> QED BY <2>3, OpsTyped
<1>7. PTKINITNEGOTIATING([Answered(r) EXCEPT !.PTK_valid = TRUE, !.TimeoutCtr = 0], g)
        \in StaState
  <2> DEFINE p == [Answered(r) EXCEPT !.PTK_valid = TRUE, !.TimeoutCtr = 0]
  <2>1. Answered(r) \in StaState BY OpsTyped
  <2>2. p \in StaState BY <2>1, OpsTyped, Zenon
  <2> HIDE DEF p
  <2>3. PTKINITNEGOTIATING(p, g) \in StaState BY <2>2, OpsTyped
  <2> QED BY <2>3 DEF p
<1>8. /\ PTKINITDONE(Answered(r)) \in StaState
      /\ IDLE(REKEYESTABLISHED(Answered(r))) \in StaState
  <2>1. Answered(r) \in StaState BY OpsTyped
  <2>2. REKEYESTABLISHED(Answered(r)) \in StaState BY <2>1, OpsTyped
  <2> QED BY <2>1, <2>2, OpsTyped
<1>9. wpa_group_update_sta([r EXCEPT !.is_wnmsleep = FALSE, !.WNM_SLEEP_MODE = FALSE], g)
        \in StaState
  <2> DEFINE p == [r EXCEPT !.is_wnmsleep = FALSE, !.WNM_SLEEP_MODE = FALSE]
  <2>1. p \in StaState BY OpsTyped, Zenon
  <2> HIDE DEF p
  <2>2. wpa_group_update_sta(p, g) \in StaState BY <2>1, UpdateTyped
  <2> QED BY <2>2 DEF p
<1>10. /\ INITIALIZE(r) \in StaState /\ MicVerified(r) \in StaState
       /\ [r EXCEPT !.timers = 1] \in StaState
       /\ [r EXCEPT !.is_wnmsleep = TRUE, !.WNM_SLEEP_MODE = TRUE] \in StaState
  BY OpsTyped, Zenon
<1> QED BY <1>1, <1>2, <1>3, <1>4, <1>5, <1>6, <1>7, <1>8, <1>9, <1>10, Zenon DEF StaMoves

\* Every variable has its type, whatever the events: the retransmission timeouts
\* that are cancelled and taken are never more than were registered.
THEOREM GroupTypeCorrect == Spec => []TypeOK
<1>1. Closed(StaState)
  <2>1. \A r \in StaState, b \in BOOLEAN : [r EXCEPT !.Disconnect = b] \in StaState
    BY DEF StaState
  <2> QED BY <2>1, NoStaOK DEF Closed, StaOK
<1>2. TypeOK <=> Within(StaState) BY DEF TypeOK, Within, GroupTypes
<1>3. Stays(StaState) => TypeOK' BY DEF TypeOK, Stays, GroupTypes
<1>4. ASSUME TypeOK, Next PROVE TypeOK'
  <2>1. gtk \in Nat /\ gtk + 1 \in Nat BY <1>4 DEF TypeOK
  <2>2. /\ \A r \in StaState : \A q : StaMoves(r, q, gtk) => q \in StaState
        /\ \A r \in StaState : wpa_group_update_sta(r, gtk + 1) \in StaState
    BY <2>1, MovesTyped, UpdateTyped
  <2> QED BY <1>1, <1>2, <1>3, <1>4, <2>2, NextIn
<1>5. TypeOK /\ UNCHANGED vars => TypeOK' BY DEF TypeOK, vars
<1>6. Init => TypeOK BY InitInv DEF GroupInv
<1> QED BY <1>4, <1>5, <1>6, PTL DEF Spec
-----------------------------------------------------------------------------
(***************************************************************************)
(* A station that has a message 1/2 to answer has a timeout registered, as *)
(* long as nothing else makes its pairwise machine run: a group machine    *)
(* that negotiates has one, also when the station is not marked.           *)
(***************************************************************************)
TimedSta ==
  {r \in StaState :
     /\ r.GUpdateStationKeys => r.wpa_ptk_state = "PTKINITDONE"
     /\ r.GUpdateStationKeys => r.wpa_ptk_group_state = "REKEYNEGOTIATING"
     /\ r.wpa_ptk_group_state = "REKEYNEGOTIATING" => r.timers > 0
     /\ r.wpa_ptk_group_state = "REKEYNEGOTIATING"
          => r.wpa_ptk_state \in {"INITIALIZE", "PTKINITDONE"}}

\* What sending a message 1/2 makes of a record.
LEMMA RekeyFields ==
  ASSUME NEW r \in StaState, NEW g \in Nat
  PROVE  LET q == REKEYNEGOTIATING(r, g)
         IN /\ q.wpa_ptk_state = r.wpa_ptk_state /\ q.timers = r.timers + 1
            /\ q.wpa_ptk_group_state = "REKEYNEGOTIATING"
            /\ q.GUpdateStationKeys = r.GUpdateStationKeys
            /\ q.pending_1_of_4_timeout = r.pending_1_of_4_timeout
            /\ q.PTK_valid = r.PTK_valid /\ q.got = r.got /\ q.staGtk = r.staGtk
            /\ q.acc = IF r.PTK_valid THEN r.acc \cup {[type |-> "1/2", gtk |-> g]}
                       ELSE r.acc
  BY DEF REKEYNEGOTIATING, wpa_send_eapol, StaState

\* What sending a message 3/4 makes of a record.
LEMMA NegotiateFields ==
  ASSUME NEW r \in StaState, NEW g \in Nat
  PROVE  LET q == PTKINITNEGOTIATING(r, g)
         IN /\ q.wpa_ptk_state = "PTKINITNEGOTIATING"
            /\ q.wpa_ptk_group_state = r.wpa_ptk_group_state
            /\ q.GUpdateStationKeys = r.GUpdateStationKeys
            /\ q.PTK_valid = r.PTK_valid /\ q.got = r.got /\ q.staGtk = r.staGtk
            /\ q.acc = IF r.PTK_valid THEN r.acc \cup {[type |-> "3/4", gtk |-> g]}
                       ELSE r.acc
  BY DEF PTKINITNEGOTIATING, wpa_send_eapol, StaState

\* What a timeout makes of a record.
LEMMA TimedOutFields ==
  ASSUME NEW r \in StaState
  PROVE  LET q == TimedOut(r)
         IN /\ q.wpa_ptk_state = r.wpa_ptk_state /\ q.timers = r.timers - 1
            /\ q.wpa_ptk_group_state = r.wpa_ptk_group_state
            /\ q.GUpdateStationKeys = r.GUpdateStationKeys
            /\ q.pending_1_of_4_timeout = FALSE
            /\ q.PTK_valid = r.PTK_valid /\ q.got = r.got /\ q.staGtk = r.staGtk
            /\ q.acc = r.acc
  BY DEF TimedOut, StaState

\* A GTK rekeying marks a station whose timeout is registered, or registers one.
LEMMA UpdateTimed ==
  ASSUME NEW r \in TimedSta, NEW g \in Nat
  PROVE  wpa_group_update_sta(r, g) \in TimedSta
<1> DEFINE m == [r EXCEPT !.GUpdateStationKeys = TRUE]
           q == wpa_group_update_sta(r, g)
<1>1. r \in StaState /\ m \in StaState BY OpsTyped DEF TimedSta
<1>2. q \in StaState BY <1>1, UpdateTyped
<1>3. CASE r.wpa_ptk_state # "PTKINITDONE"
  BY <1>1, <1>2, <1>3 DEF wpa_group_update_sta, wpa_gkeydone_sta, TimedSta, StaState
<1>4. CASE r.wpa_ptk_state = "PTKINITDONE" /\ r.is_wnmsleep
  BY <1>4 DEF wpa_group_update_sta
<1>5. CASE r.wpa_ptk_state = "PTKINITDONE" /\ ~r.is_wnmsleep
  <2>1. /\ m.wpa_ptk_state = "PTKINITDONE" /\ m.timers = r.timers
        /\ m.wpa_ptk_group_state = r.wpa_ptk_group_state
    BY <1>1, <1>5 DEF StaState
  <2>2. CASE r.wpa_ptk_group_state = "IDLE"
    <3>1. q = REKEYNEGOTIATING(m, g) BY <1>5, <2>1, <2>2 DEF wpa_group_update_sta
    <3> HIDE DEF m, q
    <3>2. /\ q.wpa_ptk_state = "PTKINITDONE" /\ q.timers = r.timers + 1
          /\ q.wpa_ptk_group_state = "REKEYNEGOTIATING"
      BY <1>1, <2>1, <3>1, RekeyFields
    <3>3. q.timers > 0 BY <1>1, <3>2 DEF StaState
    <3>4. q \in TimedSta BY <1>2, <3>2, <3>3 DEF TimedSta
    <3> QED BY <3>4 DEF q
  <2>3. CASE r.wpa_ptk_group_state # "IDLE"
    <3>1. q = m BY <1>5, <2>1, <2>3 DEF wpa_group_update_sta
    <3>2. r.wpa_ptk_group_state = "REKEYNEGOTIATING" BY <1>1, <2>3 DEF StaState
    <3>3. m.timers > 0 BY <2>1, <3>2 DEF TimedSta
    <3> QED BY <1>1, <2>1, <3>1, <3>2, <3>3 DEF TimedSta
  <2> QED BY <2>2, <2>3
<1> QED BY <1>3, <1>4, <1>5

\* No event of a station takes the last timeout of one that negotiates.
LEMMA MovesTimed ==
  ASSUME Events \subseteq {"wnm_sleep", "overlap"},
         NEW r \in TimedSta, NEW q, NEW g \in Nat, StaMoves(r, q, g)
  PROVE  q \in TimedSta
<1>1. r \in StaState /\ q \in StaState BY MovesTyped DEF TimedSta
<1>2. ASSUME q.wpa_ptk_group_state = "IDLE", ~q.GUpdateStationKeys PROVE q \in TimedSta
  BY <1>1, <1>2 DEF TimedSta
<1>3. ASSUME r.wpa_ptk_state \notin {"INITIALIZE", "PTKINITDONE"}
      PROVE  r.wpa_ptk_group_state = "IDLE" /\ ~r.GUpdateStationKeys
  BY <1>1, <1>3 DEF TimedSta, StaState
<1>4. ASSUME q.wpa_ptk_state = r.wpa_ptk_state, q.timers = r.timers,
             q.wpa_ptk_group_state = r.wpa_ptk_group_state,
             q.GUpdateStationKeys = r.GUpdateStationKeys
      PROVE  q \in TimedSta
  BY <1>1, <1>4 DEF TimedSta
<1>5. CASE q = r \/ q = NoSta
  BY <1>2, <1>5 DEF NoSta
<1>6. CASE q = PTKSTART(NoSta)
  <2>1. q.wpa_ptk_group_state = "IDLE" /\ ~q.GUpdateStationKeys
    BY <1>6 DEF PTKSTART, NoSta
  <2> QED BY <1>2, <2>1
<1>7. CASE q = INITIALIZE(r)
  <2>1. /\ q.wpa_ptk_state = "INITIALIZE" /\ ~q.GUpdateStationKeys
        /\ q.timers = r.timers /\ q.wpa_ptk_group_state = r.wpa_ptk_group_state
    BY <1>1, <1>7 DEF INITIALIZE, wpa_remove_ptk, wpa_gkeydone_sta, StaState
  <2> QED BY <1>1, <2>1 DEF TimedSta
<1>8. CASE /\ r.wpa_ptk_state = "PTKSTART"
           /\ q = PTKINITNEGOTIATING([Answered(r) EXCEPT !.PTK_valid = TRUE,
                                                         !.TimeoutCtr = 0], g)
  <2> DEFINE p == [Answered(r) EXCEPT !.PTK_valid = TRUE, !.TimeoutCtr = 0]
  <2>1. Answered(r) \in StaState BY <1>1, OpsTyped
  <2>2. p \in StaState BY <2>1, OpsTyped, Zenon
  <2>3. /\ p.wpa_ptk_group_state = r.wpa_ptk_group_state
        /\ p.GUpdateStationKeys = r.GUpdateStationKeys
    BY <1>1 DEF Answered, MicVerified, StaState
  <2>4. q = PTKINITNEGOTIATING(p, g) BY <1>8
  <2> HIDE DEF p
  <2>5. /\ q.wpa_ptk_group_state = p.wpa_ptk_group_state
        /\ q.GUpdateStationKeys = p.GUpdateStationKeys
    BY <2>2, <2>4, NegotiateFields
  <2>6. q.wpa_ptk_group_state = "IDLE" /\ ~q.GUpdateStationKeys
    BY <1>3, <1>8, <2>3, <2>5
  <2> QED BY <1>2, <2>6
<1>9. CASE r.wpa_ptk_state = "PTKINITNEGOTIATING" /\ q = PTKINITDONE(Answered(r))
  <2>1. /\ q.wpa_ptk_group_state = r.wpa_ptk_group_state
        /\ q.GUpdateStationKeys = r.GUpdateStationKeys
    BY <1>1, <1>9 DEF PTKINITDONE, Answered, MicVerified, StaState
  <2> QED BY <1>2, <1>3, <1>9, <2>1
<1>10. CASE \E f \in r.acc : q = [r EXCEPT !.got = @ \cup {f}, !.staGtk = f.gtk]
  BY <1>1, <1>4, <1>10 DEF StaState
<1>11. CASE q = IDLE(REKEYESTABLISHED(Answered(r)))
  <2>1. q.wpa_ptk_group_state = "IDLE" /\ ~q.GUpdateStationKeys
    BY <1>1, <1>11 DEF IDLE, REKEYESTABLISHED, wpa_gkeydone_sta, Answered, MicVerified,
                       StaState
  <2> QED BY <1>2, <2>1
<1>12. ASSUME r.timers > 0 PROVE TimedOut(r) \in StaState BY <1>1, <1>12, TimedOutTyped
<1>13. CASE /\ r.timers > 0 /\ r.wpa_ptk_state = "PTKSTART"
            /\ q = PTKSTART_again(TimedOut(r))
  <2>1. /\ q.wpa_ptk_group_state = r.wpa_ptk_group_state
        /\ q.GUpdateStationKeys = r.GUpdateStationKeys
    BY <1>1, <1>13 DEF PTKSTART_again, TimedOut, StaState
  <2> QED BY <1>2, <1>3, <1>13, <2>1
<1>14. CASE /\ r.timers > 0 /\ r.wpa_ptk_state = "PTKINITNEGOTIATING"
            /\ q = PTKINITNEGOTIATING(TimedOut(r), g)
  <2> DEFINE t == TimedOut(r)
  <2>1. /\ t \in StaState /\ t.wpa_ptk_group_state = r.wpa_ptk_group_state
        /\ t.GUpdateStationKeys = r.GUpdateStationKeys
    BY <1>1, <1>12, <1>14, TimedOutFields
  <2>2. q = PTKINITNEGOTIATING(t, g) BY <1>14
  <2> HIDE DEF t
  <2>3. /\ q.wpa_ptk_group_state = t.wpa_ptk_group_state
        /\ q.GUpdateStationKeys = t.GUpdateStationKeys
    BY <2>1, <2>2, NegotiateFields
  <2>4. q.wpa_ptk_group_state = "IDLE" /\ ~q.GUpdateStationKeys
    BY <1>3, <1>14, <2>1, <2>3
  <2> QED BY <1>2, <2>4
<1>15. CASE r.timers > 0 /\ r.wpa_ptk_group_state = "IDLE" /\ q = TimedOut(r)
  <2>1. /\ q.wpa_ptk_group_state = r.wpa_ptk_group_state
        /\ q.GUpdateStationKeys = r.GUpdateStationKeys
    BY <1>1, <1>15, TimedOutFields
  <2>2. ~r.GUpdateStationKeys BY <1>15 DEF TimedSta
  <2> QED BY <1>2, <1>15, <2>1, <2>2
<1>16. CASE /\ r.timers > 0 /\ r.wpa_ptk_state \in {"INITIALIZE", "PTKINITDONE"}
            /\ r.wpa_ptk_group_state # "IDLE" /\ q = REKEYNEGOTIATING(TimedOut(r), g)
  <2> DEFINE t == TimedOut(r)
  <2>1. /\ t \in StaState /\ t.wpa_ptk_state = r.wpa_ptk_state
        /\ t.GUpdateStationKeys = r.GUpdateStationKeys
    BY <1>1, <1>12, <1>16, TimedOutFields
  <2>2. q = REKEYNEGOTIATING(t, g) BY <1>16
  <2> HIDE DEF t
  <2>3. /\ q.wpa_ptk_state = t.wpa_ptk_state /\ q.timers = t.timers + 1
        /\ q.wpa_ptk_group_state = "REKEYNEGOTIATING"
        /\ q.GUpdateStationKeys = t.GUpdateStationKeys
    BY <2>1, <2>2, RekeyFields
  <2>4. q.timers > 0 BY <2>1, <2>3 DEF StaState
  <2> QED BY <1>1, <1>16, <2>1, <2>3, <2>4 DEF TimedSta
<1>17. CASE q = IDLE(KEYERROR(TimedOut(r)))
  <2>1. q.wpa_ptk_group_state = "IDLE" /\ ~q.GUpdateStationKeys
    BY <1>1, <1>17 DEF IDLE, KEYERROR, wpa_gkeydone_sta, TimedOut, StaState
  <2> QED BY <1>2, <2>1
<1>18. CASE q = [r EXCEPT !.timers = 1]
  <2>1. /\ q.wpa_ptk_state = r.wpa_ptk_state /\ q.timers = 1
        /\ q.wpa_ptk_group_state = r.wpa_ptk_group_state
        /\ q.GUpdateStationKeys = r.GUpdateStationKeys
    BY <1>1, <1>18 DEF StaState
  <2>2. q.timers > 0 BY <2>1
  <2> QED BY <1>1, <2>1, <2>2 DEF TimedSta
<1>19. CASE q = [r EXCEPT !.is_wnmsleep = TRUE, !.WNM_SLEEP_MODE = TRUE]
  BY <1>1, <1>4, <1>19 DEF StaState
<1>20. CASE q = wpa_group_update_sta([r EXCEPT !.is_wnmsleep = FALSE,
                                               !.WNM_SLEEP_MODE = FALSE], g)
  <2> DEFINE p == [r EXCEPT !.is_wnmsleep = FALSE, !.WNM_SLEEP_MODE = FALSE]
  <2>1. p \in StaState BY <1>1, OpsTyped, Zenon
  <2>2. /\ p.wpa_ptk_state = r.wpa_ptk_state /\ p.timers = r.timers
        /\ p.wpa_ptk_group_state = r.wpa_ptk_group_state
        /\ p.GUpdateStationKeys = r.GUpdateStationKeys
    BY <1>1 DEF StaState
  <2>3. q = wpa_group_update_sta(p, g) BY <1>20
  <2> HIDE DEF p
  <2>4. p \in TimedSta BY <2>1, <2>2 DEF TimedSta
  <2> QED BY <2>3, <2>4, UpdateTimed
<1>21. /\ "reassoc" \notin Events /\ "ptk_rekey" \notin Events
       /\ "gtk_request" \notin Events
  OBVIOUS
<1> QED BY <1>5, <1>6, <1>7, <1>8, <1>9, <1>10, <1>11, <1>13, <1>14, <1>15, <1>16,
           <1>17, <1>18, <1>19, <1>20, <1>21, Zenon DEF StaMoves

\* A station that has yet to answer a message 1/2 has a retransmission timeout
\* pending, for every number of stations that come, go, sleep and miss messages, and
\* with rekeyings that overlap.
THEOREM UpdatesAreTimed ==
  ASSUME Events \subseteq {"wnm_sleep", "overlap"}
  PROVE  Spec => []UpdateIsTimed
<1>1. Closed(TimedSta)
  <2>1. ASSUME NEW r \in TimedSta, NEW b \in BOOLEAN
        PROVE  [r EXCEPT !.Disconnect = b] \in TimedSta
    <3> DEFINE q == [r EXCEPT !.Disconnect = b]
    <3>1. q \in StaState BY DEF TimedSta, StaState
    <3>2. /\ q.wpa_ptk_state = r.wpa_ptk_state /\ q.timers = r.timers
          /\ q.wpa_ptk_group_state = r.wpa_ptk_group_state
          /\ q.GUpdateStationKeys = r.GUpdateStationKeys
      BY DEF TimedSta, StaState
    <3> HIDE DEF q
    <3>3. q \in TimedSta BY <3>1, <3>2 DEF TimedSta
    <3> QED BY <3>3 DEF q
  <2>2. NoSta \in StaState BY NoStaOK DEF StaOK
  <2>3. NoSta \in TimedSta BY <2>2 DEF NoSta, TimedSta
  <2> QED BY <2>1, <2>3 DEF Closed, TimedSta
<1>2. Stays(TimedSta) => Within(TimedSta)' BY DEF Stays, Within
<1>3. ASSUME Within(TimedSta), Next PROVE Within(TimedSta)'
  <2>1. gtk \in Nat /\ gtk + 1 \in Nat BY <1>3 DEF Within, GroupTypes
  <2>2. /\ \A r \in TimedSta : \A q : StaMoves(r, q, gtk) => q \in TimedSta
        /\ \A r \in TimedSta : wpa_group_update_sta(r, gtk + 1) \in TimedSta
    BY <2>1, MovesTimed, UpdateTimed
  <2> QED BY <1>1, <1>2, <1>3, <2>2, NextIn
<1>4. Within(TimedSta) /\ UNCHANGED vars => Within(TimedSta)'
  BY DEF Within, GroupTypes, vars
<1>5. Init => Within(TimedSta)
  BY <1>1 DEF Init, Within, GroupTypes, Closed
<1>6. Within(TimedSta) => UpdateIsTimed BY DEF Within, TimedSta, UpdateIsTimed, Marked
<1> QED BY <1>3, <1>4, <1>5, <1>6, PTL DEF Spec
-----------------------------------------------------------------------------
(***************************************************************************)
(* A station that answers a message 1/2 holds the GTK of the rekeying the  *)
(* answer is counted for.  The answers that are still acceptable are to    *)
(* messages with no later GTK, and a message 1/2 can be answered only      *)
(* while the station is marked and the GTK is the one it carries.  That    *)
(* needs rekeyings that do not overlap, and stations that are disconnected *)
(* when they are given up: one that stays can still answer the message it  *)
(* was given up for when it is marked again.                               *)
(***************************************************************************)
KeysHeld(r, g) ==
  /\ r.got \subseteq r.acc
  /\ \A f \in r.acc : f.gtk <= g
  /\ \A f \in r.acc : f.type = "1/2" => f.gtk = g
  /\ \A f \in r.acc : f.type = "1/2" => r.GUpdateStationKeys
  /\ \A f \in r.got : f.gtk <= r.staGtk
  /\ r.staGtk <= g

\* When the group machine of a station that is not marked negotiates, it does not
\* send.
Quiet(r) ==
  /\ r.wpa_ptk_state \in {"NONE", "INITIALIZE"} => ~r.PTK_valid
  /\ r.wpa_ptk_state = "PTKINITDONE" => ~r.pending_1_of_4_timeout
  /\ r.wpa_ptk_state = "PTKINITDONE" =>
       (r.wpa_ptk_group_state = "IDLE" \/ r.GUpdateStationKeys \/ r.timers = 0)

HeldSta(g) == {r \in StaState : KeysHeld(r, g) /\ Quiet(r)}

\* No answer is acceptable.
LEMMA NoAnswers ==
  ASSUME NEW q, q.acc = {}, q.got = {}, NEW g \in Nat, q.staGtk <= g
  PROVE  KeysHeld(q, g)
  BY DEF KeysHeld

\* The answers that are acceptable stay the same.
LEMMA SameAnswers ==
  ASSUME NEW r, NEW q, NEW g \in Nat, KeysHeld(r, g), q.acc = r.acc, q.got = r.got,
         q.staGtk = r.staGtk, q.GUpdateStationKeys = r.GUpdateStationKeys
  PROVE  KeysHeld(q, g)
  BY DEF KeysHeld

\* A message is sent with the group's GTK, a message 1/2 to a marked station.
LEMMA OneMoreAnswer ==
  ASSUME NEW r, NEW q, NEW g \in Nat, KeysHeld(r, g), NEW t \in {"3/4", "1/2"},
         t = "1/2" => r.GUpdateStationKeys,
         q.acc = r.acc \cup {[type |-> t, gtk |-> g]}, q.got = r.got,
         q.staGtk = r.staGtk, q.GUpdateStationKeys = r.GUpdateStationKeys
  PROVE  KeysHeld(q, g)
<1>1. \A f \in q.acc : f \in r.acc \/ (f.gtk = g /\ f.type = t) OBVIOUS
<1>2. g <= g OBVIOUS
<1> QED BY <1>1, <1>2 DEF KeysHeld

\* The station takes a GTK that is no older than the one it holds.
LEMMA TakesKey ==
  ASSUME NEW r \in StaState, NEW q, NEW g \in Nat, KeysHeld(r, g),
         NEW f \in r.acc, f.gtk >= r.staGtk,
         q.acc = r.acc, q.got = r.got \cup {f}, q.staGtk = f.gtk,
         q.GUpdateStationKeys = r.GUpdateStationKeys
  PROVE  KeysHeld(q, g)
<1>1. \A h \in r.acc : h.gtk \in Nat BY DEF StaState, GtkMsg
<1>2. r.staGtk \in Nat BY DEF StaState
<1>3. \A h \in q.got : h.gtk <= q.staGtk BY <1>1, <1>2 DEF KeysHeld
<1> QED BY <1>3 DEF KeysHeld

\* Every event of a station keeps the relation to the group's GTK.
LEMMA MovesHeld ==
  ASSUME "wnm_sleep" \notin Events, ~no_disconnect_on_group_keyerror,
         NEW g \in Nat, NEW r \in HeldSta(g), NEW q, StaMoves(r, q, g)
  PROVE  q \in HeldSta(g)
<1>1. r \in StaState /\ q \in StaState BY MovesTyped DEF HeldSta
<1>2. KeysHeld(r, g) /\ Quiet(r) BY DEF HeldSta
<1>3. SUFFICES KeysHeld(q, g) /\ Quiet(q) BY <1>1 DEF HeldSta
<1>4. r.staGtk <= g /\ 0 <= g BY <1>2 DEF KeysHeld
<1>5. CASE q = r \/ q = NoSta
  <2>1. CASE q = NoSta
    <3>1. q.acc = {} /\ q.got = {} /\ q.staGtk = 0 BY <2>1 DEF NoSta
    <3>2. Quiet(q) BY <2>1 DEF NoSta, Quiet
    <3> QED BY <1>4, <3>1, <3>2, NoAnswers
  <2> QED BY <1>2, <1>5, <2>1
<1>6. CASE q = PTKSTART(NoSta)
  <2>1. q.acc = {} /\ q.got = {} /\ q.staGtk = 0 /\ q.wpa_ptk_state = "PTKSTART"
    BY <1>6 DEF PTKSTART, NoSta
  <2>2. Quiet(q) BY <2>1 DEF Quiet
  <2> QED BY <1>4, <2>1, <2>2, NoAnswers
<1>7. CASE q = [wpa_remove_ptk(r) EXCEPT !.staGtk = 0]
  <2>1. /\ q.acc = {} /\ q.got = {} /\ q.staGtk = 0 /\ q.PTK_valid = FALSE
        /\ q.wpa_ptk_state = r.wpa_ptk_state /\ q.timers = r.timers
        /\ q.wpa_ptk_group_state = r.wpa_ptk_group_state
        /\ q.GUpdateStationKeys = r.GUpdateStationKeys
        /\ q.pending_1_of_4_timeout = r.pending_1_of_4_timeout
    BY <1>1, <1>7 DEF wpa_remove_ptk, StaState
  <2>2. Quiet(q) BY <1>2, <2>1 DEF Quiet
  <2> QED BY <1>4, <2>1, <2>2, NoAnswers
<1>8. ASSUME NEW p \in StaState, q = PTKSTART(Associated(p)) PROVE KeysHeld(q, g) /\ Quiet(q)
  <2>1. q.acc = {} /\ q.got = {} /\ q.staGtk = 0 /\ q.wpa_ptk_state = "PTKSTART"
    BY <1>8 DEF PTKSTART, Associated, wpa_remove_ptk, StaState
  <2>2. Quiet(q) BY <2>1 DEF Quiet
  <2> QED BY <1>4, <2>1, <2>2, NoAnswers
<1>9. IDLE(wpa_gkeydone_sta(r)) \in StaState
  <2>1. wpa_gkeydone_sta(r) \in StaState BY <1>1, OpsTyped
  <2> QED BY <2>1, OpsTyped
<1>10. CASE q = INITIALIZE(r)
  <2>1. /\ q.acc = {} /\ q.got = {} /\ q.staGtk = r.staGtk
        /\ q.wpa_ptk_state = "INITIALIZE" /\ q.PTK_valid = FALSE
    BY <1>1, <1>10 DEF INITIALIZE, wpa_remove_ptk, wpa_gkeydone_sta, StaState
  <2>2. Quiet(q) BY <2>1 DEF Quiet
  <2> QED BY <1>4, <2>1, <2>2, NoAnswers
<1>11. ASSUME NEW p \in StaState, KeysHeld(p, g), q = PTKINITNEGOTIATING(p, g)
       PROVE  KeysHeld(q, g) /\ Quiet(q)
  <2>1. /\ q.wpa_ptk_state = "PTKINITNEGOTIATING" /\ q.got = p.got
        /\ q.GUpdateStationKeys = p.GUpdateStationKeys /\ q.staGtk = p.staGtk
        /\ q.acc = IF p.PTK_valid THEN p.acc \cup {[type |-> "3/4", gtk |-> g]}
                   ELSE p.acc
    BY <1>11, NegotiateFields
  <2>2. CASE p.PTK_valid
    <3>1. q.acc = p.acc \cup {[type |-> "3/4", gtk |-> g]} BY <2>1, <2>2
    <3>2. KeysHeld(q, g) BY <1>11, <2>1, <3>1, OneMoreAnswer
    <3> QED BY <2>1, <3>2 DEF Quiet
  <2>3. CASE ~p.PTK_valid
    <3>1. KeysHeld(q, g) BY <1>11, <2>1, <2>3, SameAnswers
    <3> QED BY <2>1, <3>1 DEF Quiet
  <2> QED BY <2>2, <2>3
<1>12. CASE q = PTKINITNEGOTIATING([Answered(r) EXCEPT !.PTK_valid = TRUE,
                                                       !.TimeoutCtr = 0], g)
  <2> DEFINE p == [Answered(r) EXCEPT !.PTK_valid = TRUE, !.TimeoutCtr = 0]
  <2>1. Answered(r) \in StaState BY <1>1, OpsTyped
  <2>2. p \in StaState BY <2>1, OpsTyped, Zenon
  <2>3. p.acc = {} /\ p.got = {} /\ p.staGtk = r.staGtk
    BY <1>1 DEF Answered, MicVerified, StaState
  <2>4. q = PTKINITNEGOTIATING(p, g) BY <1>12
  <2> HIDE DEF p
  <2>5. KeysHeld(p, g) BY <1>4, <2>3, NoAnswers
  <2> QED BY <1>11, <2>2, <2>4, <2>5
<1>13. CASE q = PTKINITDONE(Answered(r))
  <2>1. /\ q.acc = {} /\ q.got = {} /\ q.staGtk = r.staGtk /\ q.timers = 0
        /\ q.wpa_ptk_state = "PTKINITDONE" /\ q.pending_1_of_4_timeout = FALSE
    BY <1>1, <1>13 DEF PTKINITDONE, Answered, MicVerified, StaState
  <2>2. Quiet(q) BY <2>1 DEF Quiet
  <2> QED BY <1>4, <2>1, <2>2, NoAnswers
<1>14. CASE q = PTKSTART(r) \/ q = PTKSTART(MicVerified(r))
  <2>1. /\ q.acc = r.acc /\ q.got = r.got /\ q.staGtk = r.staGtk
        /\ q.GUpdateStationKeys = r.GUpdateStationKeys /\ q.wpa_ptk_state = "PTKSTART"
    BY <1>1, <1>14 DEF PTKSTART, MicVerified, StaState
  <2>2. Quiet(q) BY <2>1 DEF Quiet
  <2> QED BY <1>2, <2>1, <2>2, SameAnswers
<1>15. ASSUME NEW f \in r.acc, f.gtk >= r.staGtk,
              q = [r EXCEPT !.got = @ \cup {f}, !.staGtk = f.gtk]
       PROVE  KeysHeld(q, g) /\ Quiet(q)
  <2>1. /\ q.acc = r.acc /\ q.got = r.got \cup {f} /\ q.staGtk = f.gtk
        /\ q.GUpdateStationKeys = r.GUpdateStationKeys
        /\ q.wpa_ptk_state = r.wpa_ptk_state /\ q.timers = r.timers
        /\ q.wpa_ptk_group_state = r.wpa_ptk_group_state
        /\ q.pending_1_of_4_timeout = r.pending_1_of_4_timeout
        /\ q.PTK_valid = r.PTK_valid
    BY <1>1, <1>15 DEF StaState
  <2>2. Quiet(q) BY <1>2, <2>1 DEF Quiet
  <2> QED BY <1>1, <1>2, <1>15, <2>1, <2>2, TakesKey
<1>16. CASE q = IDLE(REKEYESTABLISHED(Answered(r)))
  <2>1. /\ q.acc = {} /\ q.got = {} /\ q.staGtk = r.staGtk
        /\ q.wpa_ptk_state = r.wpa_ptk_state /\ q.wpa_ptk_group_state = "IDLE"
        /\ q.pending_1_of_4_timeout = FALSE /\ q.PTK_valid = r.PTK_valid
    BY <1>1, <1>16 DEF IDLE, REKEYESTABLISHED, wpa_gkeydone_sta, Answered, MicVerified,
                       StaState
  <2>2. Quiet(q) BY <1>2, <2>1 DEF Quiet
  <2> QED BY <1>4, <2>1, <2>2, NoAnswers
<1>17. ASSUME r.timers > 0
       PROVE  /\ TimedOut(r) \in StaState /\ KeysHeld(TimedOut(r), g)
              /\ TimedOut(r).wpa_ptk_state = r.wpa_ptk_state
              /\ TimedOut(r).wpa_ptk_group_state = r.wpa_ptk_group_state
              /\ TimedOut(r).GUpdateStationKeys = r.GUpdateStationKeys
              /\ TimedOut(r).pending_1_of_4_timeout = FALSE
              /\ TimedOut(r).PTK_valid = r.PTK_valid
  <2>1. TimedOut(r) \in StaState BY <1>1, <1>17, TimedOutTyped
  <2> QED BY <1>1, <1>2, <2>1, TimedOutFields, SameAnswers
<1>18. CASE r.timers > 0 /\ r.wpa_ptk_state = "PTKSTART" /\ q = PTKSTART_again(TimedOut(r))
  <2>1. /\ q.acc = r.acc /\ q.got = r.got /\ q.staGtk = r.staGtk
        /\ q.GUpdateStationKeys = r.GUpdateStationKeys /\ q.wpa_ptk_state = "PTKSTART"
    BY <1>1, <1>18 DEF PTKSTART_again, TimedOut, StaState
  <2>2. Quiet(q) BY <2>1 DEF Quiet
  <2> QED BY <1>2, <2>1, <2>2, SameAnswers
<1>19. CASE r.timers > 0 /\ q = PTKINITNEGOTIATING(TimedOut(r), g)
  BY <1>11, <1>17, <1>19
<1>20. CASE r.timers > 0 /\ r.wpa_ptk_group_state = "IDLE" /\ q = TimedOut(r)
  BY <1>2, <1>17, <1>20 DEF Quiet
<1>21. CASE /\ r.timers > 0 /\ r.wpa_ptk_state \in {"INITIALIZE", "PTKINITDONE"}
            /\ r.wpa_ptk_group_state # "IDLE" /\ q = REKEYNEGOTIATING(TimedOut(r), g)
  <2> DEFINE t == TimedOut(r)
  <2>1. /\ t \in StaState /\ KeysHeld(t, g) /\ t.wpa_ptk_state = r.wpa_ptk_state
        /\ t.GUpdateStationKeys = r.GUpdateStationKeys
        /\ t.pending_1_of_4_timeout = FALSE /\ t.PTK_valid = r.PTK_valid
    BY <1>17, <1>21
  <2>2. q = REKEYNEGOTIATING(t, g) BY <1>21
  <2> HIDE DEF t
  <2>3. /\ q.wpa_ptk_state = t.wpa_ptk_state
        /\ q.GUpdateStationKeys = t.GUpdateStationKeys
        /\ q.pending_1_of_4_timeout = t.pending_1_of_4_timeout
        /\ q.PTK_valid = t.PTK_valid /\ q.got = t.got /\ q.staGtk = t.staGtk
        /\ q.acc = IF t.PTK_valid THEN t.acc \cup {[type |-> "1/2", gtk |-> g]}
                   ELSE t.acc
    BY <2>1, <2>2, RekeyFields
  <2>4. r.timers # 0 BY <1>1, <1>21 DEF StaState
  <2>5. r.wpa_ptk_state = "PTKINITDONE" => r.GUpdateStationKeys
    BY <1>2, <1>21, <2>4 DEF Quiet
  <2>6. r.PTK_valid => r.GUpdateStationKeys BY <1>2, <1>21, <2>5 DEF Quiet
  <2>7. Quiet(q) BY <1>2, <2>1, <2>3, <2>5 DEF Quiet
  <2>8. CASE t.PTK_valid
    <3>1. q.acc = t.acc \cup {[type |-> "1/2", gtk |-> g]} BY <2>3, <2>8
    <3>2. t.GUpdateStationKeys BY <2>1, <2>6, <2>8
    <3>3. KeysHeld(q, g) BY <2>1, <2>3, <3>1, <3>2, OneMoreAnswer
    <3> QED BY <2>7, <3>3
  <2>9. CASE ~t.PTK_valid BY <2>1, <2>3, <2>7, <2>9, SameAnswers
  <2> QED BY <2>8, <2>9
<1>22. CASE r.pending_1_of_4_timeout /\ q = [r EXCEPT !.timers = 1]
  <2>1. /\ q.acc = r.acc /\ q.got = r.got /\ q.staGtk = r.staGtk
        /\ q.GUpdateStationKeys = r.GUpdateStationKeys
        /\ q.wpa_ptk_state = r.wpa_ptk_state /\ q.PTK_valid = r.PTK_valid
    BY <1>1, <1>22 DEF StaState
  <2>2. r.wpa_ptk_state # "PTKINITDONE" BY <1>2, <1>22 DEF Quiet
  <2>3. Quiet(q) BY <1>2, <2>1, <2>2 DEF Quiet
  <2> QED BY <1>2, <2>1, <2>3, SameAnswers
<1>23. CASE q = MicVerified(r)
  <2>1. /\ q.acc = r.acc /\ q.got = r.got /\ q.staGtk = r.staGtk
        /\ q.GUpdateStationKeys = r.GUpdateStationKeys
        /\ q.wpa_ptk_state = r.wpa_ptk_state /\ q.PTK_valid = r.PTK_valid
        /\ q.timers = 0 /\ q.pending_1_of_4_timeout = FALSE
    BY <1>1, <1>23 DEF MicVerified, StaState
  <2>2. Quiet(q) BY <1>2, <2>1 DEF Quiet
  <2> QED BY <1>2, <2>1, <2>2, SameAnswers
<1> QED BY <1>1, <1>5, <1>6, <1>7, <1>8, <1>9, <1>10, <1>12, <1>13, <1>14, <1>15, <1>16,
           <1>18, <1>19, <1>20, <1>21, <1>22, <1>23, Zenon DEF StaMoves

\* A GTK rekeying finds no station marked, and so no message 1/2 that can still be
\* answered.
LEMMA UpdateHeld ==
  ASSUME NEW g \in Nat, NEW r \in HeldSta(g), ~r.GUpdateStationKeys
  PROVE  wpa_group_update_sta(r, g + 1) \in HeldSta(g + 1)
<1> DEFINE h == g + 1
           m == [r EXCEPT !.GUpdateStationKeys = TRUE]
           q == wpa_group_update_sta(r, h)
<1>1. r \in StaState /\ KeysHeld(r, g) /\ Quiet(r) BY DEF HeldSta
<1>2. h \in Nat /\ q \in StaState /\ m \in StaState
  <2>1. h \in Nat OBVIOUS
  <2>2. m \in StaState BY <1>1, OpsTyped, 0 \in Nat, Zenon
  <2> HIDE DEF h, m
  <2> QED BY <1>1, <2>1, <2>2, UpdateTyped
<1>3. ASSUME NEW p, p.acc = r.acc, p.got = r.got, p.staGtk = r.staGtk PROVE KeysHeld(p, h)
  <2>1. \A f \in r.acc : f.gtk \in Nat /\ f.gtk <= g /\ f.type # "1/2"
    BY <1>1 DEF KeysHeld, StaState, GtkMsg
  <2>2. \A f \in r.acc : f.gtk <= h BY <2>1
  <2>3. r.staGtk <= h BY <1>1 DEF KeysHeld, StaState
  <2> HIDE DEF h
  <2> QED BY <1>1, <1>3, <2>1, <2>2, <2>3 DEF KeysHeld
<1>4. SUFFICES KeysHeld(q, h) /\ Quiet(q) BY <1>2 DEF HeldSta
<1>5. CASE r.wpa_ptk_state # "PTKINITDONE"
  <2>1. q = [r EXCEPT !.GUpdateStationKeys = FALSE]
    BY <1>5 DEF wpa_group_update_sta, wpa_gkeydone_sta
  <2>2. /\ q.acc = r.acc /\ q.got = r.got /\ q.staGtk = r.staGtk
        /\ q.wpa_ptk_state = r.wpa_ptk_state /\ q.PTK_valid = r.PTK_valid
    BY <1>1, <2>1 DEF StaState
  <2> HIDE DEF q
  <2>3. Quiet(q) BY <1>1, <1>5, <2>2 DEF Quiet
  <2> QED BY <1>3, <2>2, <2>3
<1>6. CASE r.wpa_ptk_state = "PTKINITDONE" /\ r.is_wnmsleep
  <2>1. q = r BY <1>6 DEF wpa_group_update_sta
  <2> QED BY <1>1, <1>3, <2>1
<1>7. CASE r.wpa_ptk_state = "PTKINITDONE" /\ ~r.is_wnmsleep
  <2>1. /\ m.acc = r.acc /\ m.got = r.got /\ m.staGtk = r.staGtk
        /\ m.wpa_ptk_state = "PTKINITDONE" /\ m.GUpdateStationKeys = TRUE
        /\ m.pending_1_of_4_timeout = r.pending_1_of_4_timeout
    BY <1>1, <1>7 DEF StaState
  <2>2. q = m \/ q = REKEYNEGOTIATING(m, h) BY <1>7 DEF wpa_group_update_sta
  <2>3. ~r.pending_1_of_4_timeout BY <1>1, <1>7 DEF Quiet
  <2> HIDE DEF m, q, h
  <2>4. KeysHeld(m, h) BY <1>3, <2>1
  <2>5. CASE q = m BY <2>1, <2>3, <2>4, <2>5 DEF Quiet
  <2>6. CASE q = REKEYNEGOTIATING(m, h)
    <3>1. /\ q.wpa_ptk_state = "PTKINITDONE" /\ q.GUpdateStationKeys
          /\ q.GUpdateStationKeys = m.GUpdateStationKeys
          /\ q.pending_1_of_4_timeout = m.pending_1_of_4_timeout
          /\ q.got = m.got /\ q.staGtk = m.staGtk
          /\ q.acc = IF m.PTK_valid THEN m.acc \cup {[type |-> "1/2", gtk |-> h]}
                     ELSE m.acc
      BY <1>2, <2>1, <2>6, RekeyFields
    <3>2. Quiet(q) BY <2>1, <2>3, <3>1 DEF Quiet
    <3>3. CASE m.PTK_valid
      <4>1. q.acc = m.acc \cup {[type |-> "1/2", gtk |-> h]} BY <3>1, <3>3
      <4>2. KeysHeld(q, h) BY <1>2, <2>1, <2>4, <3>1, <4>1, OneMoreAnswer
      <4> QED BY <3>2, <4>2
    <3>4. CASE ~m.PTK_valid BY <1>2, <2>4, <3>1, <3>2, <3>4, SameAnswers
    <3> QED BY <3>3, <3>4
  <2> QED BY <2>2, <2>5, <2>6
<1> QED BY <1>5, <1>6, <1>7

\* Records whose stations are not marked.
LEMMA HeldClosed ==
  ASSUME NEW g \in Nat
  PROVE  Closed(HeldSta(g)) /\ Closed({r \in HeldSta(g) : ~r.GUpdateStationKeys})
<1>1. ASSUME NEW r \in HeldSta(g), NEW b \in BOOLEAN
      PROVE  /\ [r EXCEPT !.Disconnect = b] \in HeldSta(g)
             /\ [r EXCEPT !.Disconnect = b].GUpdateStationKeys = r.GUpdateStationKeys
  <2> DEFINE q == [r EXCEPT !.Disconnect = b]
  <2>1. r \in StaState /\ KeysHeld(r, g) /\ Quiet(r) BY DEF HeldSta
  <2>2. q \in StaState BY <2>1 DEF StaState
  <2>3. /\ q.acc = r.acc /\ q.got = r.got /\ q.staGtk = r.staGtk
        /\ q.GUpdateStationKeys = r.GUpdateStationKeys
        /\ q.wpa_ptk_state = r.wpa_ptk_state /\ q.timers = r.timers
        /\ q.wpa_ptk_group_state = r.wpa_ptk_group_state
        /\ q.pending_1_of_4_timeout = r.pending_1_of_4_timeout
        /\ q.PTK_valid = r.PTK_valid
    BY <2>1 DEF StaState
  <2> HIDE DEF q
  <2>4. Quiet(q) BY <2>1, <2>3 DEF Quiet
  <2>5. KeysHeld(q, g) BY <2>1, <2>3, SameAnswers
  <2>6. q \in HeldSta(g) BY <2>2, <2>4, <2>5 DEF HeldSta
  <2> QED BY <2>3, <2>6 DEF q
<1>2. NoSta \in HeldSta(g)
  <2>1. NoSta \in StaState BY NoStaOK DEF StaOK
  <2>2. NoSta.acc = {} /\ NoSta.got = {} /\ NoSta.staGtk = 0 /\ Quiet(NoSta)
    BY DEF NoSta, Quiet
  <2>3. KeysHeld(NoSta, g) BY <2>2, NoAnswers
  <2> QED BY <2>1, <2>2, <2>3 DEF HeldSta
<1>3. Closed(HeldSta(g)) BY <1>1, <1>2 DEF Closed, HeldSta
<1> DEFINE U == {r \in HeldSta(g) : ~r.GUpdateStationKeys}
<1>4. U \subseteq StaState /\ NoSta \in U BY <1>2, NoStaOK DEF HeldSta
<1>5. \A r \in U, b \in BOOLEAN : [r EXCEPT !.Disconnect = b] \in U
  <2> SUFFICES ASSUME NEW r \in U, NEW b \in BOOLEAN
               PROVE  [r EXCEPT !.Disconnect = b] \in U
    OBVIOUS
  <2> DEFINE q == [r EXCEPT !.Disconnect = b]
  <2>1. q \in HeldSta(g) /\ q.GUpdateStationKeys = r.GUpdateStationKeys BY <1>1
  <2> HIDE DEF q
  <2>2. q \in U BY <2>1
  <2> QED BY <2>2 DEF q
<1> QED BY <1>3, <1>4, <1>5 DEF Closed

\* A rekeying that has ended has no station left to answer.
EndedIsDone == wpa_group_state = "SETKEYSDONE" => GKeyDoneStations = 0

HeldInv == GroupInv /\ EndedIsDone /\ sm \in [STA -> HeldSta(gtk)]

\* The group goes to SETKEYSDONE with no station left, and stays so.
LEMMA EndedStep ==
  ASSUME "wnm_sleep" \notin Events, GroupInv, GroupInv', EndedIsDone, Next
  PROVE  EndedIsDone'
<1>1. GKeyDoneStations' \in Nat /\ GKeyDoneStations \in Nat
  <2>1. Agree(sm, GKeyDoneStations) BY InvIsAgree
  <2>2. GKeyDoneStations \in Nat BY <2>1, CountIsNat
  <2>3. IsFiniteSet(Marked') BY StationsFinite, FS_Subset DEF Marked
  <2>4. Cardinality(Marked') \in Nat BY <2>3, FS_CardinalityType
  <2>5. GKeyDoneStations' = Cardinality(Marked') BY DEF GroupInv, DoneCount
  <2> QED BY <2>2, <2>4, <2>5
<1>2. ASSUME NEW m, NEW S, wpa_rekey_all_groups(m, S) PROVE EndedIsDone'
  BY <1>2 DEF wpa_rekey_all_groups, wpa_group_setkeys, wpa_group_setkeysdone_fails,
              wpa_group_fatal_failure, EndedIsDone
<1>3. CASE RekeyGtk BY <1>2, <1>3 DEF RekeyGtk
<1>4. ASSUME NEW s \in STA, StaEvent(s) PROVE EndedIsDone'
  <2>1. GKeyDoneStations \in Int /\ sm \in [STA -> StaState] BY DEF GroupInv, TypeOK
  <2>2. PICK q : StaMoves(sm[s], q, gtk) /\ Ends(s, q) BY <1>4, <2>1, EventMoves
  <2>3. ASSUME NEW n \in Int, StaStep(s, q, n) \/ Freed(s, q, n), n <= GKeyDoneStations
        PROVE  EndedIsDone'
    <3>1. CASE Freed(s, q, n)
      <4>1. /\ GKeyDoneStations' = n - Done(q) /\ Done(q) \in {0, 1}
            /\ wpa_group_state' = wpa_group_state
        BY <3>1 DEF Freed, Done
      <4>2. GKeyDoneStations' <= GKeyDoneStations BY <1>1, <2>3, <4>1
      <4> QED BY <1>1, <4>1, <4>2 DEF EndedIsDone
    <3>2. CASE GroupStep(s, q, n)
      <4>1. \/ wpa_group_state' = wpa_group_state /\ GKeyDoneStations' = n
            \/ n = 0 /\ GKeyDoneStations' = n
            \/ wpa_group_state' = "FATAL_FAILURE"
        BY <3>2 DEF GroupStep, wpa_group_fatal_failure
      <4> QED BY <1>1, <2>3, <4>1 DEF EndedIsDone
    <3> QED BY <2>3, <3>1, <3>2 DEF StaStep
  <2>4. CASE UNCHANGED <<wpa_group_state, GKeyDoneStations>> BY <2>4 DEF EndedIsDone
  <2> QED BY <1>2, <2>2, <2>3, <2>4 DEF Ends
<1> QED BY <1>3, <1>4 DEF Next

\* One step keeps the relation of the stations' keys to the group's.
LEMMA HeldStep ==
  ASSUME "wnm_sleep" \notin Events, "overlap" \notin Events,
         ~no_disconnect_on_group_keyerror, HeldInv, Next
  PROVE  HeldInv'
<1>1. GroupInv' BY NextOK DEF HeldInv, StepOK
<1>2. EndedIsDone' BY <1>1, EndedStep DEF HeldInv
<1>3. SUFFICES sm' \in [STA -> HeldSta(gtk')] BY <1>1, <1>2 DEF HeldInv
<1>4. PICK g \in Nat : g = gtk BY DEF HeldInv, GroupInv, TypeOK
<1> DEFINE U == {r \in HeldSta(g) : ~r.GUpdateStationKeys}
<1>5. Closed(HeldSta(g)) /\ Closed(U) /\ Closed(HeldSta(g + 1))
  BY HeldClosed, g + 1 \in Nat
<1>6. Within(HeldSta(g)) BY <1>4 DEF HeldInv, GroupInv, TypeOK, Within, GroupTypes
<1>7. ASSUME NEW m \in [STA -> HeldSta(g)], NEW S \in SUBSET STA,
             wpa_rekey_all_groups(m, S), rekeyTimer' = TRUE,
             \A s \in STA : m[s].GUpdateStationKeys = sm[s].GUpdateStationKeys
      PROVE  sm' \in [STA -> HeldSta(gtk')]
  <2>1. GKeyDoneStations = 0
    BY <1>7 DEF wpa_rekey_all_groups, HeldInv, EndedIsDone
  <2>2. IsFiniteSet(Marked) BY StationsFinite, FS_Subset DEF Marked
  <2>3. Marked = {} BY <2>1, <2>2, FS_EmptySet DEF HeldInv, GroupInv, DoneCount
  <2>4. \A s \in STA : ~m[s].GUpdateStationKeys BY <1>7, <2>3 DEF Marked
  <2>5. \A s \in STA : wpa_group_update_sta(m[s], gtk + 1) \in HeldSta(g + 1)
    BY <1>4, <2>4, UpdateHeld
  <2>6. \/ Stays(HeldSta(g + 1)) /\ gtk' = gtk + 1
        \/ Stays(HeldSta(g)) /\ gtk' = gtk
    BY <1>5, <1>6, <1>7, <2>5, RekeyIn
  <2> QED BY <1>4, <2>6 DEF Stays
<1>8. CASE RekeyGtk
  <2>1. sm \in [STA -> HeldSta(g)] BY <1>6 DEF Within
  <2> QED BY <1>7, <1>8, <2>1 DEF RekeyGtk
<1>9. ASSUME NEW s \in STA, StaEvent(s) PROVE sm' \in [STA -> HeldSta(gtk')]
  <2>1. GKeyDoneStations \in Int /\ sm \in [STA -> StaState] /\ sm[s] \in HeldSta(g)
    BY <1>6 DEF Within, HeldInv, GroupInv, TypeOK
  <2>2. PICK q : StaMoves(sm[s], q, gtk) /\ Ends(s, q) BY <1>9, <2>1, EventMoves
  <2>3. q \in HeldSta(g) BY <1>4, <2>1, <2>2, MovesHeld
  <2>4. CASE Stays(HeldSta(g)) /\ gtk' = gtk BY <1>4, <2>4 DEF Stays
  <2>5. CASE /\ wpa_rekey_all_groups([sm EXCEPT ![s] = q], {s}) /\ rekeyTimer' = TRUE
             /\ [sm EXCEPT ![s] = q] \in [STA -> HeldSta(g)]
             /\ q.GUpdateStationKeys = sm[s].GUpdateStationKeys
    <3> DEFINE m == [sm EXCEPT ![s] = q]
    <3>1. m \in [STA -> HeldSta(g)] /\ {s} \in SUBSET STA BY <2>5
    <3>2. wpa_rekey_all_groups(m, {s}) /\ rekeyTimer' = TRUE BY <2>5
    <3>3. \A t \in STA : m[t].GUpdateStationKeys = sm[t].GUpdateStationKeys
      BY <2>1, <2>5
    <3> HIDE DEF m
    <3> QED BY <1>7, <3>1, <3>2, <3>3
  <2> QED BY ZenonT(40), <1>5, <1>6, <2>2, <2>3, <2>4, <2>5, EndsIn
<1> QED BY <1>8, <1>9 DEF Next

\* A station that is counted as done holds the GTK the group is changing to, for
\* every number of stations and whether or not they associate again, replace their
\* pairwise keys or ask for new GTKs.
THEOREM DoneStationsHoldKey ==
  ASSUME "wnm_sleep" \notin Events, "overlap" \notin Events,
         ~no_disconnect_on_group_keyerror
  PROVE  Spec => DoneMeansHasKey
<1>1. HeldInv /\ UNCHANGED vars => HeldInv'
  <2> SUFFICES ASSUME HeldInv, UNCHANGED vars PROVE HeldInv' OBVIOUS
  <2>1. GroupInv' BY StutterOK DEF HeldInv
  <2>2. EndedIsDone' BY DEF HeldInv, EndedIsDone, vars
  <2>3. sm' = sm /\ gtk' = gtk BY DEF vars
  <2> QED BY <2>1, <2>2, <2>3 DEF HeldInv
<1>2. HeldInv /\ [Next]_vars => HeldInv' BY <1>1, HeldStep
<1>3. Init => HeldInv
  <2> SUFFICES ASSUME Init PROVE HeldInv OBVIOUS
  <2>1. gtk = 1 /\ NoSta \in HeldSta(1) BY HeldClosed DEF Closed, Init
  <2>2. sm \in [STA -> HeldSta(gtk)] BY <2>1 DEF Init
  <2>3. EndedIsDone BY DEF Init, EndedIsDone
  <2> QED BY <2>2, <2>3, InitInv DEF HeldInv
<1>4. ASSUME HeldInv, NEW s \in STA, ReceiveGroupMsg2(s) PROVE sm[s].staGtk = gtk
  <2>1. PICK f \in sm[s].got : f.type = "1/2" BY <1>4 DEF ReceiveGroupMsg2
  <2>2. sm[s] \in StaState /\ KeysHeld(sm[s], gtk) BY <1>4 DEF HeldInv, HeldSta
  <2>3. f \in sm[s].acc BY <2>1, <2>2 DEF KeysHeld
  <2>4. f.gtk = gtk /\ f.gtk <= sm[s].staGtk /\ sm[s].staGtk <= gtk
    BY <2>1, <2>2, <2>3 DEF KeysHeld
  <2>5. gtk \in Nat /\ sm[s].staGtk \in Nat
    BY <1>4, <2>2 DEF HeldInv, GroupInv, TypeOK, StaState
  <2> QED BY <2>4, <2>5
<1>5. HeldInv => [\A s \in STA : ReceiveGroupMsg2(s) => sm[s].staGtk = gtk]_vars
  BY <1>4
<1> QED BY <1>2, <1>3, <1>5, PTL DEF Spec, DoneMeansHasKey
=============================================================================
