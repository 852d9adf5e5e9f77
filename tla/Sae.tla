-------------------------------- MODULE Sae --------------------------------
(***************************************************************************)
(* SAE between two ends over a link that loses and delays Authentication   *)
(* frames but keeps their order.  In a mesh both ends run the machine of   *)
(* src/ap/ieee802_11.c with its retransmission timer; in an infrastructure *)
(* BSS "ap" runs it and "peer" is the station of wpa_supplicant/sme.c.     *)
(*                                                                         *)
(* A commit scalar stands for scalar and element.  A key is what the       *)
(* dragonfly exchange derives: the password and the two scalars.  The      *)
(* group is never in dispute and PMKSA caching is off.                     *)
(***************************************************************************)
EXTENDS Naturals, Sequences

CONSTANTS
    SaeSync,        \* sae_sync, dot11RSNASAESync
    MeshAuthRetry,  \* MESH_AUTH_RETRY
    MaxScalars,     \* bound: commit scalars an end draws
    MaxTokens,      \* bound: anti-clogging token requests sent
    MaxAir          \* bound: frames in flight from an end

ASSUME SaeConstants == /\ SaeSync \in Nat /\ MeshAuthRetry \in Nat
                       /\ MaxScalars \in Nat /\ MaxTokens \in Nat /\ MaxAir \in Nat

VARIABLES
    saeConf,        \* configuration, fixed in a behaviour
    sae             \* sae[e]: what end e keeps of the other end

saeVars == <<saeConf, sae>>

SaeSides == {"ap", "peer"}
OtherSide(e) == IF e = "ap" THEN "peer" ELSE "ap"

SaeConfs == [mesh : BOOLEAN, confirm_immediate : BOOLEAN, samePassword : BOOLEAN]

NoScalar == <<>>
SaeScalars == {NoScalar} \cup (SaeSides \X (1 .. MaxScalars))

\* The password end e is configured with.
SaePassword(e) == IF saeConf.samePassword THEN "pw" ELSE e

\* sae_derive_keys(): both scalars and the password go into KCK and PMK.
SaeKey(e, own, peer) == [pw |-> SaePassword(e), scalars |-> {own, peer}]

CommitFrame(scalar, token) == [type |-> "commit", scalar |-> scalar, token |-> token]
ConfirmFrame(s) == [type |-> "confirm", key |-> s.key, sender |-> s.own, receiver |-> s.peer]
TokenRequest == [type |-> "token_request"]
RejectFrame(of) == [type |-> "reject", of |-> of]

\* struct sae_data of a new peer, with the timers of the peer and the number
\* of scalars drawn and token requests sent so far.
SaeCleared(s) == [s EXCEPT !.state = "NOTHING", !.own = NoScalar, !.peer = NoScalar,
                      !.accepted = NoScalar, !.key = NoScalar, !.sync = 0,
                       !.disabled = FALSE]

SaeFreed(s) == [SaeCleared(s) EXCEPT !.present = FALSE, !.timer = FALSE,
                              !.auth_timer = FALSE, !.retry = 0]

SaeInit ==
    /\ saeConf \in {c \in SaeConfs : c.mesh => c.samePassword /\ ~c.confirm_immediate}
    /\ sae = [e \in SaeSides |->
                [present |-> FALSE, state |-> "NOTHING", own |-> NoScalar, peer |-> NoScalar,
                 accepted |-> NoScalar, key |-> NoScalar,
                 sync |-> 0, disabled |-> FALSE, timer |-> FALSE,
                 auth_timer |-> FALSE, retry |-> 0, drawn |-> 0, tokens |-> 0,
                 tx |-> <<>>]]

-----------------------------------------------------------------------------
(* Sending. *)

\* The link takes MaxAir frames in each direction and loses any more.
SaeSent(tx, f) == IF Len(tx) < MaxAir THEN Append(tx, f) ELSE tx

\* auth_sae_send_commit(), auth_build_sae_commit(): a new scalar if update is
\* set, the one of before otherwise.
auth_sae_send_commit(s, e, update, token) ==
    LET u == IF update THEN [s EXCEPT !.drawn = @ + 1, !.own = <<e, s.drawn + 1>>]
                       ELSE s
    IN [u EXCEPT !.tx = SaeSent(@, CommitFrame(u.own, token))]

\* auth_sae_send_confirm(), sae_write_confirm().
auth_sae_send_confirm(s) == [s EXCEPT !.tx = SaeSent(@, ConfirmFrame(s))]

\* The reply with a status code.  A mesh end does nothing with it on receipt.
SaeRejected(s, of) == IF saeConf.mesh THEN s ELSE [s EXCEPT !.tx = SaeSent(@, RejectFrame(of))]

\* sae_process_commit().
sae_process_commit(s, e) == [s EXCEPT !.key = SaeKey(e, s.own, s.peer)]

\* sae_set_retransmit_timer(): in a mesh only.
sae_set_retransmit_timer(s) == [s EXCEPT !.timer = IF saeConf.mesh THEN TRUE ELSE @]
sae_clear_retransmit_timer(s) == [s EXCEPT !.timer = FALSE]

\* Mutant of BigSync: dot11RSNASAESync has no effect.
BigSync_Never(s) == FALSE

\* sae_check_big_sync(): the instance ends and is disabled for ten seconds.
BigSync(s) == s.sync > SaeSync
GiveUp(s) == [s EXCEPT !.state = "NOTHING", !.sync = 0, !.disabled = TRUE]

\* sae_accept_sta().
sae_accept_sta(s) ==
    [s EXCEPT !.state = "ACCEPTED", !.accepted = s.peer, !.peer = NoScalar]

-----------------------------------------------------------------------------
(* sae_sm_step() *)

CommitInNothing(s, e, reuse) ==
    LET c == sae_process_commit([auth_sae_send_commit(s, e, ~reuse, FALSE)
                                    EXCEPT !.state = "COMMITTED"], e)
        d == IF saeConf.mesh \/ saeConf.confirm_immediate
             THEN [auth_sae_send_confirm(c) EXCEPT !.state = "CONFIRMED"]
             ELSE c
    IN sae_set_retransmit_timer([d EXCEPT !.sync = 0])

CommitInCommitted(s, e) ==
    sae_set_retransmit_timer(
        [auth_sae_send_confirm(sae_process_commit(sae_clear_retransmit_timer(s), e))
            EXCEPT !.state = "CONFIRMED", !.sync = 0])

\* Mutant of CommitInConfirmed: the timer is not registered again.
CommitInConfirmed_Untimed(s, e) ==
    LET c == sae_clear_retransmit_timer(s)
    IN IF BigSync(c) THEN GiveUp(c)
       ELSE auth_sae_send_confirm(sae_process_commit(
                auth_sae_send_commit([c EXCEPT !.sync = @ + 1], e, TRUE, FALSE), e))

CommitInConfirmed(s, e) ==
    LET c == sae_clear_retransmit_timer(s)
    IN IF BigSync(c) THEN GiveUp(c)
       ELSE sae_set_retransmit_timer(auth_sae_send_confirm(sae_process_commit(
                auth_sae_send_commit([c EXCEPT !.sync = @ + 1], e, TRUE, FALSE), e)))

\* In a mesh ap_free_sta(), in an infrastructure BSS reauthentication.
CommitInAccepted(s, e) ==
    IF saeConf.mesh THEN SaeFreed(s)
    ELSE sae_process_commit([auth_sae_send_commit(s, e, TRUE, FALSE)
                                EXCEPT !.state = "COMMITTED", !.sync = 0], e)

StepCommit(s, e, reuse) ==
    CASE s.state = "NOTHING"   -> CommitInNothing(s, e, reuse)
      [] s.state = "COMMITTED" -> CommitInCommitted(s, e)
      [] s.state = "CONFIRMED" -> CommitInConfirmed(s, e)
      [] s.state = "ACCEPTED"  -> CommitInAccepted(s, e)

ConfirmInCommitted(s, e) ==
    LET c == sae_clear_retransmit_timer(s)
    IN IF ~saeConf.mesh
       THEN sae_accept_sta(auth_sae_send_confirm(c))
       ELSE IF BigSync(c) THEN GiveUp(c)
       ELSE sae_set_retransmit_timer(
                auth_sae_send_commit([c EXCEPT !.sync = @ + 1], e, FALSE, FALSE))

StepConfirm(s, e) ==
    CASE s.state = "NOTHING"   -> s
      [] s.state = "COMMITTED" -> ConfirmInCommitted(s, e)
      [] s.state = "CONFIRMED" -> sae_accept_sta(sae_clear_retransmit_timer(s))
      [] s.state = "ACCEPTED"  ->
            IF BigSync(s) THEN GiveUp(s)
            ELSE auth_sae_send_confirm([s EXCEPT !.sync = @ + 1])

-----------------------------------------------------------------------------
(* handle_auth_sae() *)

\* sae_parse_commit_scalar(): an accepted scalar is not accepted again.
ScalarReused(s, f) == s.state = "ACCEPTED" /\ s.accepted = f.scalar

\* The answer to a Commit; clogged is use_anti_clogging().
RxCommit(s, e, f, clogged) ==
    LET reuse == ~saeConf.mesh /\ s.state = "COMMITTED"
        r == IF reuse THEN [s EXCEPT !.state = "NOTHING"] ELSE s
        p == [r EXCEPT !.peer = f.scalar]
    IN IF s.disabled THEN s
       ELSE IF ScalarReused(r, f) THEN SaeRejected(s, "commit")
       ELSE IF ~f.token /\ clogged /\ ~reuse
       THEN [p EXCEPT !.tx = SaeSent(@, TokenRequest), !.tokens = @ + 1,
                      !.state = IF saeConf.mesh THEN "NOTHING" ELSE @]
       ELSE StepCommit(p, e, reuse)

\* Mutant of sae_check_confirm: the scalars are not part of the verifier and
\* the password is not part of the key.
sae_check_confirm_AnyKey(s, f) == s.own # NoScalar /\ s.peer # NoScalar

\* sae_check_confirm(): the verifier covers KCK and both scalars.
sae_check_confirm(s, f) ==
    /\ s.own # NoScalar /\ s.peer # NoScalar
    /\ f.key = s.key /\ f.sender = s.peer /\ f.receiver = s.own

\* The answer to a Confirm of status 0.  In a mesh an end that has not yet
\* sent a Confirm does not verify it.  Whether an end that has accepted ignores
\* a Confirm (peer_send_confirm <= rc) or goes on to reject it is left open.
RxConfirm(s, e, f, ignored) ==
    IF saeConf.mesh /\ s.state \in {"NOTHING", "COMMITTED"} THEN StepConfirm(s, e)
    ELSE IF s.state = "ACCEPTED" /\ ignored THEN s
    ELSE IF ~sae_check_confirm(s, f) THEN SaeRejected(s, "confirm")
    ELSE StepConfirm(s, e)

\* A token request in a mesh: the Commit of before goes out with the token.
RxTokenRequest(s, e) ==
    sae_set_retransmit_timer([auth_sae_send_commit(s, e, FALSE, TRUE)
                                EXCEPT !.state = "COMMITTED", !.sync = 0])

\* The ends that run this machine.
RunsAp(e) == saeConf.mesh \/ e = "ap"

\* An end keeps to the bounds of the instance.
SaeBounded(e, s) ==
    /\ s.drawn <= MaxScalars
    /\ s.tokens + sae[OtherSide(e)].tokens <= MaxTokens

SaeBecomes(e, s) == SaeBounded(e, s) /\ sae' = [sae EXCEPT ![e] = s] /\ UNCHANGED saeConf

\* End e takes the next frame from the link and becomes s.
SaeInFlight(e) == sae[OtherSide(e)].tx
SaeTakes(e, s) ==
    /\ SaeBounded(e, s)
    /\ sae' = [sae EXCEPT ![e] = s, ![OtherSide(e)].tx = Tail(@)]
    /\ UNCHANGED saeConf

SaeNextIs(e, type) == SaeInFlight(e) # <<>> /\ Head(SaeInFlight(e)).type = type

\* auth_sae_process_commit() hands the frame over.  A mesh knows its peers; an
\* access point allocates sta->sae for a Commit.
ReceiveCommit(e) ==
    /\ RunsAp(e) /\ SaeNextIs(e, "commit")
    /\ saeConf.mesh => sae[e].present
    /\ \E clogged \in BOOLEAN :
        SaeTakes(e, RxCommit([sae[e] EXCEPT !.present = TRUE], e, Head(SaeInFlight(e)), clogged))

ReceiveConfirm(e) ==
    /\ RunsAp(e) /\ SaeNextIs(e, "confirm") /\ sae[e].present
    /\ \E ignored \in BOOLEAN : SaeTakes(e, RxConfirm(sae[e], e, Head(SaeInFlight(e)), ignored))

\* A Confirm for a station without sta->sae.
ReceiveConfirmUnknown ==
    /\ ~saeConf.mesh /\ SaeNextIs("ap", "confirm") /\ ~sae["ap"].present
    /\ SaeTakes("ap", SaeRejected(sae["ap"], "confirm"))

ReceiveTokenRequest(e) ==
    /\ saeConf.mesh /\ SaeNextIs(e, "token_request")
    /\ sae[e].present /\ sae[e].own # NoScalar
    /\ SaeTakes(e, RxTokenRequest(sae[e], e))

\* A frame is lost, or the receiver has no use for it: a mesh end that does
\* not know the sender, a station not authenticating.
SaeLose(e) == SaeInFlight(e) # <<>> /\ SaeTakes(e, sae[e])

\* Mutant of Retransmitted: retransmissions are not counted.
Retransmitted_Uncounted(s, e) ==
    CASE s.state = "COMMITTED" -> auth_sae_send_commit(s, e, FALSE, FALSE)
      [] s.state = "CONFIRMED" -> auth_sae_send_confirm(s)
      [] OTHER                 -> [s EXCEPT !.timer = FALSE]

\* auth_sae_retransmit_timer().
Retransmitted(s, e) ==
    IF BigSync(s) THEN GiveUp([s EXCEPT !.timer = FALSE])
    ELSE LET t == [s EXCEPT !.sync = @ + 1]
         IN CASE s.state = "COMMITTED" -> auth_sae_send_commit(t, e, FALSE, FALSE)
              [] s.state = "CONFIRMED" -> auth_sae_send_confirm(t)
              [] OTHER                 -> [t EXCEPT !.timer = FALSE]

auth_sae_retransmit_timer(e) == sae[e].timer /\ SaeBecomes(e, Retransmitted(sae[e], e))

\* disabled_until passes.
DisabledEnds(e) == sae[e].disabled /\ SaeBecomes(e, [sae[e] EXCEPT !.disabled = FALSE])

\* mesh_rsn_auth_sae_sta(): sae_set_group() clears all data, then Commit.
mesh_rsn_auth_sae_sta(s, e) ==
    [sae_set_retransmit_timer([auth_sae_send_commit(SaeCleared(s), e, TRUE, FALSE)
                                EXCEPT !.state = "COMMITTED"])
        EXCEPT !.auth_timer = TRUE]

\* wpa_mesh_new_mesh_peer(): with no_auto_peer the other end has to start.
NewMeshPeer(e) ==
    /\ saeConf.mesh /\ ~sae[e].present
    /\ \E auto \in BOOLEAN :
        LET s == [sae[e] EXCEPT !.present = TRUE]
        IN SaeBecomes(e, IF auto THEN mesh_rsn_auth_sae_sta(s, e) ELSE s)

\* mesh_auth_timer().
mesh_auth_timer(e) ==
    /\ saeConf.mesh /\ sae[e].auth_timer
    /\ LET s == [sae[e] EXCEPT !.auth_timer = FALSE]
           n == [s EXCEPT !.retry = @ + 1]
       IN SaeBecomes(e, IF s.state = "ACCEPTED" THEN s
                 ELSE IF s.retry < MeshAuthRetry THEN mesh_rsn_auth_sae_sta(n, e)
                 ELSE IF s.retry > MeshAuthRetry THEN SaeFreed(s)
                 ELSE [n EXCEPT !.state = "NOTHING"])

\* ap_free_sta(): inactivity, deauthentication, a closed peer link.
SaeFreeSta(e) == RunsAp(e) /\ sae[e].present /\ SaeBecomes(e, SaeFreed(sae[e]))

-----------------------------------------------------------------------------
(* The station of an infrastructure BSS, wpa_supplicant/sme.c.  present is  *)
(* WPA_AUTHENTICATING, auth_timer is sme_auth_timer.                        *)

\* sme_authenticate(), sme_send_authentication().
sme_authenticate ==
    /\ ~saeConf.mesh /\ ~sae["peer"].present
    /\ SaeBecomes("peer", [auth_sae_send_commit(sae["peer"], "peer", TRUE, FALSE)
                        EXCEPT !.present = TRUE, !.state = "COMMITTED",
                               !.auth_timer = TRUE])

\* wpas_connection_failed().
SmeFailed(s) == [s EXCEPT !.present = FALSE, !.auth_timer = FALSE]

\* sme_event_auth(), sme_sae_auth(): the timer is cancelled by every frame and
\* registered again with the next one that goes out.
SmeRx(s, f) ==
    LET c == [s EXCEPT !.auth_timer = FALSE]
    IN CASE f.type = "commit" /\ s.state = "COMMITTED" ->
              [auth_sae_send_confirm(sae_process_commit([c EXCEPT !.peer = f.scalar], "peer"))
                    EXCEPT !.state = "CONFIRMED", !.auth_timer = TRUE]
         [] f.type = "commit" /\ s.state # "COMMITTED" -> c
         [] f.type = "confirm" /\ s.state = "CONFIRMED" /\ sae_check_confirm(s, f) ->
              [c EXCEPT !.state = "ACCEPTED", !.present = FALSE]
         [] f.type = "token_request" /\ s.state = "COMMITTED" ->
              [auth_sae_send_commit(c, "peer", FALSE, TRUE) EXCEPT !.auth_timer = TRUE]
         [] OTHER -> SmeFailed(c)

sme_event_auth ==
    /\ ~saeConf.mesh /\ sae["peer"].present /\ SaeInFlight("peer") # <<>>
    /\ SaeTakes("peer", SmeRx(sae["peer"], Head(SaeInFlight("peer"))))

\* sme_auth_timer() and EVENT_AUTH_TIMED_OUT of the driver.
sme_auth_timer ==
    /\ ~saeConf.mesh /\ sae["peer"].present
    /\ SaeBecomes("peer", SmeFailed(sae["peer"]))

SaeNext ==
    \/ \E e \in SaeSides : \/ ReceiveCommit(e)
                       \/ ReceiveConfirm(e)
                       \/ ReceiveTokenRequest(e)
                       \/ auth_sae_retransmit_timer(e)
                       \/ DisabledEnds(e)
                       \/ NewMeshPeer(e)
                       \/ mesh_auth_timer(e)
                       \/ SaeFreeSta(e)
                       \/ SaeLose(e)
    \/ ReceiveConfirmUnknown
    \/ sme_authenticate
    \/ sme_event_auth
    \/ sme_auth_timer

SaeSpec == SaeInit /\ [][SaeNext]_saeVars

\* eloop runs a registered retransmission timer.
SaeFairness == \A e \in SaeSides : WF_saeVars(auth_sae_retransmit_timer(e))

-----------------------------------------------------------------------------
(* Properties *)

\* Types, and the synchronisation counter stays within one of its limit.
SaeTypeOK ==
    /\ saeConf \in SaeConfs
    /\ \A e \in SaeSides :
        /\ sae[e].state \in {"NOTHING", "COMMITTED", "CONFIRMED", "ACCEPTED"}
        /\ {sae[e].own, sae[e].peer, sae[e].accepted} \subseteq SaeScalars
        /\ sae[e].sync \in 0 .. SaeSync + 1
        /\ sae[e].drawn \in 0 .. MaxScalars /\ sae[e].retry \in 0 .. MeshAuthRetry + 1
        /\ {sae[e].present, sae[e].disabled, sae[e].timer, sae[e].auth_timer} \subseteq BOOLEAN

\* sae_check_confirm(), sae_accept_sta(): whatever frames cross, are repeated
\* or come from an earlier attempt, two ends that have both accepted hold the
\* same PMK, and ends with different passwords never accept.
SaeAgreement ==
    /\ (\A e \in SaeSides : sae[e].state = "ACCEPTED") => sae["ap"].key = sae["peer"].key
    /\ ~saeConf.samePassword => \A e \in SaeSides : sae[e].state # "ACCEPTED"

\* sae_set_retransmit_timer(): a mesh end in the middle of an exchange always
\* has the retransmission timer registered, whatever it has received, since
\* in a mesh nobody else would ever move it on.
SaeTimed ==
    saeConf.mesh => \A e \in SaeSides :
        sae[e].present /\ sae[e].state \in {"COMMITTED", "CONFIRMED"} => sae[e].timer

\* auth_sae_retransmit_timer(), sae_check_big_sync(): under the retransmission
\* timer alone no mesh end stays in an exchange for ever, whatever is lost and
\* whatever the other end does.
SaeEnds ==
    \A e \in SaeSides : saeConf.mesh /\ sae[e].state \in {"COMMITTED", "CONFIRMED"}
                        ~> sae[e].state \in {"NOTHING", "ACCEPTED"}

=============================================================================
