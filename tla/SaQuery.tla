------------------------------ MODULE SaQuery ------------------------------
(***************************************************************************)
(* SA Query between an access point and a station that uses management     *)
(* frame protection.  Each end that doubts the other still has the keys    *)
(* asks for a protected answer: the access point when an associated        *)
(* station seems to associate again (src/ap/ieee802_11.c, sta_info.c), the *)
(* station when an unprotected disconnection arrives (wpa_supplicant's     *)
(* sme.c).  Either end may lose its keys in a restart, frames get lost,    *)
(* and association requests and disconnections may come from others.       *)
(*                                                                         *)
(* An SA is a number; SA Query frames reach the other end only under an SA *)
(* both have.  Association, 4-way handshake included, is one step.  Time   *)
(* is counted in retry timeouts: a query has timed out after               *)
(* SaQueryRounds of them.                                                  *)
(***************************************************************************)
EXTENDS Naturals, FiniteSets

CONSTANTS
    SaQueryRounds,      \* sa_query_max_timeout in sa_query_retry_timeouts
    MaxDisturbances,    \* bound: restarts, departures and frames of others
    MaxSaAir            \* bound: SA Query frames in flight

ASSUME SaQueryConstants ==
    /\ SaQueryRounds \in 1 .. 999       \* the limit of sa_query_count is 1000
    /\ MaxDisturbances \in Nat /\ MaxSaAir \in Nat

VARIABLES
    apSa,           \* the access point's struct sta_info for the station
    staSa,          \* the station's struct wpa_supplicant, sme
    saAir,          \* SA Query frames in flight
    disturbances    \* disturbances so far

saQueryVars == <<apSa, staSa, saAir, disturbances>>

MaxSa == MaxDisturbances + 1

\* A query that is not running.  proc counts the procedures, so that the
\* transaction identifiers of different ones differ.
NoQuery(q) == [q EXCEPT !.count = 0, !.timer = FALSE]

\* verdict is the SA in force when the last query timed out.
SaQueryInit ==
    /\ apSa = [sa |-> 1, count |-> 0, proc |-> 0, timer |-> FALSE,
               timed_out |-> FALSE, verdict |-> 0]
    /\ staSa = [sa |-> 1, count |-> 0, proc |-> 0, timer |-> FALSE]
    /\ saAir = {}
    /\ disturbances = 0

\* ap_check_sa_query_timeout(), sme_check_sa_query_timeout(): all requests are
\* sent, and the retry timeout of the last one is over.
QueryOver(q) == q.count = SaQueryRounds

SaFrame(type, to, sa, id) == [type |-> type, to |-> to, sa |-> sa, id |-> id]

\* The medium takes MaxSaAir frames and loses any more.
Transmit(frames, f) ==
    IF Cardinality(frames \cup {f}) > MaxSaAir THEN frames ELSE frames \cup {f}

Disturb == disturbances < MaxDisturbances /\ disturbances' = disturbances + 1

-----------------------------------------------------------------------------
(* The access point. *)

\* ap_check_sa_query_timeout() when the time is over.
ap_sta_query_timed_out(a) == [NoQuery(a) EXCEPT !.timed_out = TRUE, !.verdict = a.sa]

\* The next request of ap_sa_query_timer().
NextQuery(q) == [q EXCEPT !.count = @ + 1, !.timer = TRUE,
                          !.proc = IF q.count = 0 THEN @ + 1 ELSE @]

ap_send_sa_query(a) ==
    /\ apSa' = NextQuery(a)
    /\ saAir' = Transmit(saAir, SaFrame("request", "sta", a.sa,
                                        <<NextQuery(a).proc, NextQuery(a).count>>))

ap_sa_query_timer ==
    /\ apSa.timer
    /\ IF QueryOver(apSa)
       THEN apSa' = ap_sta_query_timed_out(apSa) /\ UNCHANGED saAir
       ELSE ap_send_sa_query([apSa EXCEPT !.timer = FALSE])
    /\ UNCHANGED <<staSa, disturbances>>

\* check_sa_query() with a request that comes when the time is over or not:
\* past the last retry a query may have timed out before its timer expires.
SaQueryLate(late) == late => QueryOver(apSa)
CheckedSa(late) == IF late THEN ap_sta_query_timed_out(apSa) ELSE apSa
MustQuery(a) == a.sa # 0 /\ ~a.timed_out

\* Mutant of Associated: the verdict about the last SA stays.
Associated_KeepVerdict(a, sa) == [a EXCEPT !.sa = sa]

\* handle_assoc_cb(): the flag is cleared; a query that is running goes on.
Associated(a, sa) == [a EXCEPT !.sa = sa, !.timed_out = FALSE]

\* handle_assoc() of a request the station sent without keys, up to the end of
\* the 4-way handshake, or the rejection and the query.  An SA has the number of
\* the disturbance after which it was set up.
AssociateStation(late) ==
    LET a == CheckedSa(late)
        new == disturbances + 1
    IN /\ staSa.sa = 0 /\ SaQueryLate(late)
       /\ IF MustQuery(a)
          THEN /\ IF a.count = 0 THEN ap_send_sa_query(a) ELSE apSa' = a /\ UNCHANGED saAir
               /\ UNCHANGED staSa
          ELSE /\ apSa' = Associated(a, new)
               /\ staSa' = [staSa EXCEPT !.sa = new]
               /\ UNCHANGED saAir
       /\ UNCHANGED disturbances

\* The same for a request from someone else under the station's address.  The
\* 4-way handshake fails then, and the access point removes the station.
AssociateOther(late) ==
    LET a == CheckedSa(late)
    IN /\ Disturb /\ apSa.sa # 0 /\ SaQueryLate(late)
       /\ IF MustQuery(a)
          THEN IF a.count = 0 THEN ap_send_sa_query(a) ELSE apSa' = a /\ UNCHANGED saAir
          ELSE apSa' = NoQuery(Associated(a, 0)) /\ UNCHANGED saAir
       /\ UNCHANGED staSa

-----------------------------------------------------------------------------
(* The station. *)

\* sme_stop_sa_query() and the loss of the keys, sme_clear_on_disassoc().
StationLeft(s) == [NoQuery(s) EXCEPT !.sa = 0]

\* The access point hears the protected Deauthentication frame or not:
\* hostapd_deauth_sta(), ap_free_sta().
DeauthHeard(heard) ==
    apSa' = IF heard /\ apSa.sa = staSa.sa
            THEN [NoQuery(apSa) EXCEPT !.sa = 0, !.timed_out = FALSE] ELSE apSa

\* Mutant of sme_sa_query_timer: the retry timer is not registered again.
sme_sa_query_timer_Once ==
    /\ staSa.timer /\ ~QueryOver(staSa)
    /\ staSa' = [NextQuery(staSa) EXCEPT !.timer = FALSE]
    /\ UNCHANGED <<apSa, saAir, disturbances>>

sme_sa_query_timer ==
    /\ staSa.timer
    /\ IF QueryOver(staSa)
       THEN /\ staSa' = StationLeft(staSa)
            /\ \E heard \in BOOLEAN : DeauthHeard(heard)
            /\ UNCHANGED saAir
       ELSE /\ staSa' = NextQuery(staSa)
            /\ saAir' = Transmit(saAir, SaFrame("request", "ap", staSa.sa,
                                    <<NextQuery(staSa).proc, NextQuery(staSa).count>>))
            /\ UNCHANGED apSa
    /\ UNCHANGED disturbances

\* sme_event_unprot_disconnect(): no second query while one is running.
UnprotDisconnect ==
    /\ staSa.sa # 0 /\ staSa.count = 0
    /\ staSa' = NextQuery(staSa)
    /\ saAir' = Transmit(saAir, SaFrame("request", "ap", staSa.sa,
                            <<NextQuery(staSa).proc, NextQuery(staSa).count>>))
    /\ UNCHANGED apSa

\* The access point answers the data of a station it does not know with an
\* unprotected Deauthentication frame; or the frame comes from someone else.
Class3Error == apSa.sa = 0 /\ UnprotDisconnect /\ UNCHANGED disturbances
ForgedDisconnect == UnprotDisconnect /\ Disturb

\* sme_event_ch_switch(): the query runs again, after a short delay.
sme_event_ch_switch ==
    /\ Disturb /\ staSa.sa # 0
    /\ staSa' = [NoQuery(staSa) EXCEPT !.timer = TRUE]
    /\ UNCHANGED <<apSa, saAir>>

-----------------------------------------------------------------------------
(* SA Query frames: ieee802_11_sa_query_action(), sme_sa_query_rx(). *)

LoseSaFrame(f) ==
    /\ saAir' = saAir \ {f}
    /\ UNCHANGED <<apSa, staSa, disturbances>>

RxSaRequest(f) ==
    LET receiver == IF f.to = "ap" THEN apSa ELSE staSa
    IN /\ f.type = "request" /\ receiver.sa = f.sa /\ f.sa # 0
       /\ saAir' = Transmit(saAir \ {f},
                            SaFrame("response", IF f.to = "ap" THEN "sta" ELSE "ap",
                                    f.sa, f.id))
       /\ UNCHANGED <<apSa, staSa, disturbances>>

\* A response with any of the transaction identifiers of the running query.
AnswersQuery(q, f) == \E i \in 1 .. q.count : f.id = <<q.proc, i>>

RxSaResponse(f) ==
    /\ f.type = "response" /\ saAir' = saAir \ {f} /\ f.sa # 0
    /\ \/ /\ f.to = "ap" /\ apSa.sa = f.sa
          /\ apSa' = IF AnswersQuery(apSa, f) THEN NoQuery(apSa) ELSE apSa
          /\ UNCHANGED staSa
       \/ /\ f.to = "sta" /\ staSa.sa = f.sa
          /\ staSa' = IF AnswersQuery(staSa, f) THEN NoQuery(staSa) ELSE staSa
          /\ UNCHANGED apSa
    /\ UNCHANGED disturbances

-----------------------------------------------------------------------------
(* Restarts and departures. *)

\* hostapd restarts: every station is gone.
RestartAp ==
    /\ Disturb /\ apSa.sa # 0
    /\ apSa' = [NoQuery(apSa) EXCEPT !.sa = 0, !.timed_out = FALSE]
    /\ UNCHANGED <<staSa, saAir>>

RestartStation ==
    /\ Disturb /\ staSa.sa # 0
    /\ staSa' = StationLeft(staSa)
    /\ UNCHANGED <<apSa, saAir>>

\* The station leaves with a protected Deauthentication frame, heard or not.
Deauthenticate(heard) ==
    /\ Disturb /\ staSa.sa # 0
    /\ DeauthHeard(heard) /\ staSa' = StationLeft(staSa)
    /\ UNCHANGED saAir

\* A protected Disassociation frame, hostapd_disassoc_sta(): the station's entry
\* stays, and so does a query that is running.
Disassociate ==
    /\ Disturb /\ staSa.sa # 0 /\ apSa.sa = staSa.sa
    /\ apSa' = [apSa EXCEPT !.sa = 0]
    /\ staSa' = StationLeft(staSa)
    /\ UNCHANGED saAir

SaQueryNext ==
    \/ ap_sa_query_timer \/ sme_sa_query_timer
    \/ \E late \in BOOLEAN : AssociateStation(late) \/ AssociateOther(late)
    \/ Class3Error \/ ForgedDisconnect \/ sme_event_ch_switch
    \/ \E f \in saAir : LoseSaFrame(f) \/ RxSaRequest(f) \/ RxSaResponse(f)
    \/ RestartAp \/ RestartStation
    \/ \E heard \in BOOLEAN : Deauthenticate(heard)
    \/ Disassociate

\* Timers expire; a station without keys tries again to associate, and one with
\* keys has data to send.  Nothing is assumed of the medium.
SaQueryFairness ==
    /\ WF_saQueryVars(ap_sa_query_timer) /\ WF_saQueryVars(sme_sa_query_timer)
    /\ WF_saQueryVars(\E late \in BOOLEAN : AssociateStation(late))
    /\ WF_saQueryVars(Class3Error)

SaQuerySpec == SaQueryInit /\ [][SaQueryNext]_saQueryVars /\ SaQueryFairness

-----------------------------------------------------------------------------
(* Properties. *)

SaQueryTypeOK ==
    /\ apSa.sa \in 0 .. MaxSa /\ apSa.verdict \in 0 .. MaxSa /\ staSa.sa \in 0 .. MaxSa
    /\ apSa.count \in 0 .. SaQueryRounds /\ staSa.count \in 0 .. SaQueryRounds
    /\ apSa.proc \in Nat /\ staSa.proc \in Nat
    /\ {apSa.timer, apSa.timed_out, staSa.timer} \subseteq BOOLEAN

\* An association request takes the keys of a station that has them too only if
\* an SA Query timed out while these very keys were in force: the verdict of an
\* earlier association never counts, nor a query that is still running.
SaDisplacedOnVerdict ==
    [][apSa'.sa # apSa.sa /\ apSa.sa # 0 /\ apSa.sa = staSa.sa /\ staSa' = staSa
       /\ ~RestartAp => apSa'.verdict = apSa.sa]_saQueryVars

\* When one end has lost the keys of the other, the two have a common SA again
\* in the end, whatever frames are lost: no query is left without its timer, which
\* would block every later one (sa_query_count > 0 in check_sa_query() and
\* sme_event_unprot_disconnect()).
SaQueryHeals == []<>(apSa.sa = staSa.sa /\ apSa.sa # 0)
=============================================================================
