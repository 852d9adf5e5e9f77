----------------------------- MODULE PmksaCache -----------------------------
(***************************************************************************)
(* The PMKSA cache of the supplicant (src/rsn_supp/pmksa_cache.c) with the *)
(* parts of src/rsn_supp/wpa.c, src/rsn_supp/preauth.c and                 *)
(* wpa_supplicant/sme.c that fill it, select an entry and drop entries.    *)
(*                                                                         *)
(* All access points are of one network.  Those in SaeAAs use SAE and the  *)
(* others IEEE 802.1X; opportunistic key caching is enabled.  Times are    *)
(* relative to now and no timer runs late.  An expiration in the past is   *)
(* kept down to LongPast, below which nothing tells two values apart.      *)
(* A PMKID names a PMK and an AA.  FILS, FT, external entries and          *)
(* driver-based BSS selection are left out.                                *)
(***************************************************************************)
EXTENDS Integers, Sequences, SequencesExt, Lists

CONSTANTS
    AAs,                \* addresses of the access points
    SaeAAs,             \* the ones that use SAE
    PmksaMaxEntries,    \* pmksa_cache_max_entries
    PmkLifetime,        \* dot11RSNAConfigPMKLifetime
    PmkReauth,          \* the share of it after which PMKs are renewed
    SaePoll,            \* the 600 s of pmksa_cache_set_expiration()
    MaxPmks             \* bound: PMKs derived in a behaviour

ASSUME PmksaConstants ==
    /\ SaeAAs \subseteq AAs
    /\ PmksaMaxEntries \in Nat \ {0, 1}
    /\ PmkReauth \in Nat /\ PmkLifetime \in Nat /\ PmkReauth <= PmkLifetime
    /\ SaePoll \in Nat /\ SaePoll <= PmkLifetime
    /\ MaxPmks \in Nat

VARIABLE pmksa

NoTimer == -1
LongPast == -2
NoAA == "none"

Pmks == 1 .. MaxPmks

\* A pointer to an entry: no two entries have the same AA and PMK.
EntryIds == AAs \X Pmks
Null == <<>>

\* phase is that of the association; "cached" is "associating" with
\* sae_pmksa_caching.  eap is the key the EAPOL state machines hold.
PmksaInit ==
    pmksa = [list |-> <<>>, pmksa_count |-> 0, cur_pmksa |-> Null,
             expire |-> NoTimer, reauth |-> NoTimer,
             pmk |-> 0, eap |-> 0, derived |-> 0,
             phase |-> "idle", target |-> NoAA, bssid |-> NoAA,
             preauth_bssid |-> NoAA]

-----------------------------------------------------------------------------
(* struct rsn_pmksa_cache_entry, struct rsn_pmksa_cache and struct wpa_sm. *)

PmksaEntries ==
    [aa : AAs, pmk : Pmks, sae : BOOLEAN,
     expiration : LongPast .. PmkLifetime, reauth_time : LongPast .. PmkLifetime,
     opportunistic : BOOLEAN, clone : BOOLEAN]

PmksaState ==
    [list : Seq(PmksaEntries), pmksa_count : Int, cur_pmksa : EntryIds \cup {Null},
     expire : NoTimer .. (PmkLifetime + 1), reauth : NoTimer .. (PmkLifetime + 1),
     pmk : Pmks \cup {0}, eap : Pmks \cup {0}, derived : Pmks \cup {0},
     phase : {"idle", "associating", "cached", "handshake", "msg1", "done"},
     target : AAs \cup {NoAA}, bssid : AAs \cup {NoAA}, preauth_bssid : AAs \cup {NoAA}]

Ptr(e) == <<e.aa, e.pmk>>
ToSetOf(q) == ListEntries(q.list)
Listed(q, id) == \E e \in ToSetOf(q) : Ptr(e) = id
Current(q) == CHOOSE e \in ToSetOf(q) : Ptr(e) = q.cur_pmksa
NotBelow0(n) == IF n < 0 THEN 0 ELSE n

\* The first entry of the list in K, as a sequence of at most one.
First(q, K) ==
    LET at == {i \in DOMAIN q.list : q.list[i] \in K}
    IN IF at = {} THEN <<>> ELSE <<q.list[CHOOSE i \in at : \A j \in at : i <= j]>>

\* pmksa_cache_get() for an AA.
pmksa_cache_get(q, aa) == First(q, {e \in ToSetOf(q) : e.aa = aa})

FreshPmk(q) == q.derived + 1

-----------------------------------------------------------------------------
(* Timers and removal. *)

\* Mutant of ExpirationWait: behind an entry that is passed over nothing is due.
ExpirationWait_Poll(q) ==
    LET head == q.list[1]
        postponed == head.expiration < 0 /\ head.sae /\ Ptr(head) = q.cur_pmksa
    IN IF postponed THEN SaePoll ELSE NotBelow0(head.expiration)

\* The seconds pmksa_cache_set_expiration() waits for a non-empty list.
ExpirationWait(q) ==
    LET head == q.list[1]
        postponed == head.expiration < 0 /\ head.sae /\ Ptr(head) = q.cur_pmksa
    IN IF ~postponed THEN NotBelow0(head.expiration)
       ELSE IF Len(q.list) > 1 /\ q.list[2].expiration <= SaePoll
       THEN NotBelow0(q.list[2].expiration)
       ELSE SaePoll

\* pmksa_cache_set_expiration(): the reauthentication timer follows the head
\* of the list and not the entry it is for.
pmksa_cache_set_expiration(q) ==
    IF q.list = <<>> THEN [q EXCEPT !.expire = NoTimer, !.reauth = NoTimer]
    ELSE LET used == IF Listed(q, q.cur_pmksa) THEN <<Current(q)>>
                     ELSE pmksa_cache_get(q, q.bssid)
         IN [q EXCEPT !.expire = ExpirationWait(q) + 1,
                      !.reauth = IF used # <<>> /\ ~used[1].sae
                                 THEN NotBelow0(q.list[1].reauth_time)
                                 ELSE NoTimer]

\* wpa_sm_notify_disassoc() after the driver's event, or after
\* wpa_supplicant_deauthenticate() has made one.
wpa_sm_notify_disassoc(q) ==
    [q EXCEPT !.cur_pmksa = Null, !.pmk = 0, !.eap = 0, !.phase = "idle",
              !.target = NoAA, !.bssid = NoAA, !.preauth_bssid = NoAA]

\* Mutant of wpa_sm_pmksa_free_cb: a replaced entry stays current.
wpa_sm_pmksa_free_cb_Replace(q, e, reason) ==
    IF reason # "REPLACE" /\ (q.cur_pmksa = Ptr(e) \/ (reason = "EXPIRE" /\ q.pmk = e.pmk))
    THEN IF q.phase = "idle" THEN [q EXCEPT !.cur_pmksa = Null, !.pmk = 0]
         ELSE wpa_sm_notify_disassoc(q)
    ELSE q

\* wpa_sm_pmksa_free_cb().
wpa_sm_pmksa_free_cb(q, e, reason) ==
    LET current == q.cur_pmksa = Ptr(e)
        deauth == \/ current /\ reason # "REPLACE"
                  \/ reason = "EXPIRE" /\ q.pmk = e.pmk
    IN IF deauth
       THEN IF q.phase = "idle" THEN [q EXCEPT !.cur_pmksa = Null, !.pmk = 0]
            ELSE wpa_sm_notify_disassoc(q)
       ELSE IF current THEN [q EXCEPT !.cur_pmksa = Null] ELSE q

\* The list without the entry.
Unlink(q, e) == [q EXCEPT !.list = Kept(@, {f \in ToSetOf(q) : Ptr(f) # Ptr(e)})]

\* Unlinks an entry and frees it with pmksa_cache_free_entry().
pmksa_cache_free_entry(q, e, reason) ==
    wpa_sm_pmksa_free_cb([Unlink(q, e) EXCEPT !.pmksa_count = @ - 1], e, reason)

\* Frees the entries es one after the other.
FreeAll(q, es, reason) ==
    LET freed[i \in 0 .. Len(es)] ==
            IF i = 0 THEN q ELSE pmksa_cache_free_entry(freed[i - 1], es[i], reason)
    IN freed[Len(es)]

\* pmksa_cache_flush() for the network; pmk is 0 for all PMKs.  The function
\* does not look at addr.
pmksa_cache_flush(q, pmk, addr) ==
    LET hit == Kept(q.list, {e \in ToSetOf(q) : pmk \in {0, e.pmk}})
    IN IF hit = <<>> THEN q ELSE pmksa_cache_set_expiration(FreeAll(q, hit, "FREE"))

\* Mutant of Expired: the walk ends at the SAE entry in use.
Expired_Stop(q) ==
    LET stay == {i \in DOMAIN q.list : \/ q.list[i].expiration > 0
                                       \/ q.list[i].sae /\ Ptr(q.list[i]) = q.cur_pmksa}
    IN IF stay = {} THEN q.list
       ELSE SubSeq(q.list, 1, (CHOOSE i \in stay : \A j \in stay : i <= j) - 1)

\* The walk of pmksa_cache_expire(): it ends at the first entry that has not
\* expired and passes over the current entry when that is for SAE.
Expired(q) ==
    LET fresh == {i \in DOMAIN q.list : q.list[i].expiration > 0}
        end == IF fresh = {} THEN Len(q.list)
               ELSE (CHOOSE i \in fresh : \A j \in fresh : i <= j) - 1
    IN Kept(SubSeq(q.list, 1, end), {e \in ToSetOf(q) : ~(e.sae /\ Ptr(e) = q.cur_pmksa)})

-----------------------------------------------------------------------------
(* Adding entries. *)

\* The old entry for the AA makes room, with every entry that has its PMK
\* when that PMK is known to work.
ReplaceEntry(q, old) ==
    LET flushed == IF old.opportunistic THEN Unlink(q, old)
                   ELSE pmksa_cache_flush(Unlink(q, old), old.pmk, NoAA)
    IN pmksa_cache_free_entry(flushed, old, "REPLACE")

\* Mutant of DropOldest: the limit is tested with the new entry not counted.
DropOldest_Late(q) ==
    IF q.pmksa_count <= PmksaMaxEntries \/ q.list = <<>> THEN q
    ELSE pmksa_cache_free_entry(q, q.list[1], "FREE")

\* At the limit the oldest entry that is not the current one is dropped.
DropOldest(q) ==
    IF q.pmksa_count < PmksaMaxEntries \/ q.list = <<>> THEN q
    ELSE IF Ptr(q.list[1]) # q.cur_pmksa THEN pmksa_cache_free_entry(q, q.list[1], "FREE")
    ELSE IF Len(q.list) > 1 THEN pmksa_cache_free_entry(q, q.list[2], "FREE") ELSE q

\* The new entry is linked in the order of the expiration times.
LinkEntry(q, e) ==
    LET later == {i \in DOMAIN q.list : q.list[i].expiration > e.expiration}
        at == IF later = {} THEN Len(q.list) + 1
              ELSE CHOOSE i \in later : \A j \in later : i <= j
        linked == [q EXCEPT !.list = InsertAt(@, at, e)]
    IN [IF at = 1 THEN pmksa_cache_set_expiration(linked) ELSE linked
            EXCEPT !.pmksa_count = @ + 1]

\* pmksa_cache_add() and pmksa_cache_add_entry(): the cache and the entry.
pmksa_cache_add(q, pmk, aa, sae) ==
    LET new == [aa |-> aa, pmk |-> pmk, sae |-> sae,
                expiration |-> PmkLifetime, reauth_time |-> PmkReauth,
                opportunistic |-> FALSE, clone |-> FALSE]
        old == pmksa_cache_get(q, aa)
    IN IF old # <<>> /\ old[1].pmk = pmk THEN [cache |-> q, sa |-> Ptr(old[1])]
       ELSE [cache |-> LinkEntry(DropOldest(IF old = <<>> THEN q ELSE ReplaceEntry(q, old[1])),
                                 new),
             sa |-> Ptr(new)]

\* pmksa_cache_clone_entry(): the clone is linked as a new entry is and takes
\* the times of the old entry afterwards, wherever it stands.
pmksa_cache_clone_entry(q, old, aa) ==
    LET added == pmksa_cache_add(q, old.pmk, aa, old.sae)
    IN [cache |-> [added.cache EXCEPT !.list =
                   [i \in DOMAIN @ |->
                       IF Ptr(@[i]) = added.sa
                       THEN [@[i] EXCEPT !.expiration = old.expiration,
                                         !.reauth_time = old.reauth_time,
                                         !.opportunistic = TRUE, !.clone = TRUE]
                       ELSE @[i]]],
        sa |-> added.sa]

\* pmksa_cache_get_opportunistic() for any AKMP.
pmksa_cache_get_opportunistic(q, aa) ==
    LET old == First(q, {e \in ToSetOf(q) : ~(e.sae /\ e.reauth_time < 0)})
    IN IF old = <<>> THEN [cache |-> q, sa |-> Null] ELSE pmksa_cache_clone_entry(q, old[1], aa)

\* pmksa_cache_set_current() of a station that is not associated: an SAE
\* entry past its reauthentication threshold is not used.
pmksa_cache_set_current(q, aa, akmps, try_opportunistic) ==
    LET found == First(q, {e \in ToSetOf(q) : e.aa = aa /\ e.sae \in akmps})
        none == [q EXCEPT !.cur_pmksa = Null]
        pick == IF found # <<>> THEN [cache |-> none, sa |-> Ptr(found[1])]
                ELSE IF try_opportunistic THEN pmksa_cache_get_opportunistic(none, aa)
                ELSE [cache |-> none, sa |-> Null]
    IN IF \E e \in ToSetOf(pick.cache) : Ptr(e) = pick.sa /\ ~(e.sae /\ e.reauth_time < 0)
       THEN [pick.cache EXCEPT !.cur_pmksa = pick.sa] ELSE pick.cache

-----------------------------------------------------------------------------
(* Joining an access point. *)

\* wpa_sm_set_pmk_from_pmksa() with an entry that is current.
wpa_sm_set_pmk_from_pmksa(q) == [q EXCEPT !.pmk = Current(q).pmk]

\* wpa_supplicant_set_suites(): an entry of another AKMP is not used.
CompatibleAkmp(q, aa) ==
    IF q.cur_pmksa # Null /\ Current(q).sae # (aa \in SaeAAs)
    THEN [q EXCEPT !.cur_pmksa = Null] ELSE q

\* sme_send_authentication().
sme_send_authentication(aa) ==
    LET any == CompatibleAkmp(pmksa_cache_set_current(pmksa, aa, BOOLEAN, TRUE), aa)
        sae == IF aa \in SaeAAs THEN pmksa_cache_set_current(any, aa, {TRUE}, FALSE) ELSE any
        cached == aa \in SaeAAs /\ sae.cur_pmksa # Null
    IN /\ pmksa.phase \in {"idle", "done"}
       /\ pmksa' = [IF cached THEN wpa_sm_set_pmk_from_pmksa(sae) ELSE sae
                    EXCEPT !.phase = IF cached THEN "cached" ELSE "associating",
                           !.target = aa]

\* The SAE exchange ends well: sme_sae_auth() and wpa_sm_set_pmk().
SaeAccepted ==
    LET q == [pmksa EXCEPT !.pmk = FreshPmk(pmksa), !.derived = @ + 1]
        added == pmksa_cache_add(q, q.pmk, q.target, TRUE)
    IN /\ pmksa.phase = "associating" /\ pmksa.target \in SaeAAs
       /\ pmksa.cur_pmksa = Null /\ pmksa.derived < MaxPmks
       /\ pmksa' = [added.cache EXCEPT !.cur_pmksa = added.sa]

\* wpa_sm_notify_assoc(); an SAE association needs the SAE exchange or a
\* cached PMKSA.
wpa_sm_notify_assoc ==
    /\ pmksa.phase \in {"associating", "cached"}
    /\ pmksa.target \in SaeAAs => pmksa.cur_pmksa # Null
    /\ pmksa' = [pmksa EXCEPT !.phase = "handshake", !.bssid = pmksa.target,
                              !.target = NoAA, !.eap = 0,
                              !.preauth_bssid = IF @ = pmksa.target THEN NoAA ELSE @]

\* sme_event_assoc_reject() and sme_event_deauth() for a cached SAE PMKSA.
PmksaRejected(aa) ==
    LET aborted == [pmksa EXCEPT !.cur_pmksa = Null]
    IN /\ pmksa.phase = "cached" /\ pmksa.target = aa
       /\ pmksa' = [pmksa_cache_flush(aborted, 0, aa)
                    EXCEPT !.phase = "idle", !.target = NoAA]

\* Any other association reject.
AssocRejected ==
    /\ pmksa.phase = "associating"
    /\ pmksa' = [pmksa EXCEPT !.phase = "idle", !.target = NoAA]

\* An EAP authentication with the access point succeeds; message 1/4 has
\* followed the one before.
EapSuccess ==
    /\ pmksa.phase \in {"handshake", "done"} /\ pmksa.bssid \notin SaeAAs
    /\ pmksa.eap \in {0, pmksa.pmk} /\ pmksa.derived < MaxPmks
    /\ pmksa' = [pmksa EXCEPT !.eap = FreshPmk(pmksa), !.derived = @ + 1]

\* wpa_supplicant_get_pmk() with a key from the EAPOL state machines.
PmkFromEapol(q, pmkid) ==
    LET added == pmksa_cache_add([q EXCEPT !.pmk = q.eap], q.eap, q.bssid, FALSE)
        mismatch == pmkid \notin {0, q.eap}
    IN IF added.cache.cur_pmksa # Null \/ mismatch THEN added.cache
       ELSE [added.cache EXCEPT !.cur_pmksa = added.sa]

\* wpa_supplicant_get_pmk() for message 1/4; pmkid is the PMK the PMKID in it
\* names, and 0 for none.  Without a key a caching attempt is given up.
wpa_supplicant_get_pmk(pmkid) ==
    LET sae == pmksa.bssid \in SaeAAs
        found == First(pmksa, {e \in ToSetOf(pmksa) :
                                   e.aa = pmksa.bssid /\ e.pmk = pmkid /\ e.sae = sae})
        q == IF pmkid # 0 /\ pmksa.cur_pmksa = Null /\ found # <<>>
             THEN [pmksa EXCEPT !.cur_pmksa = Ptr(found[1])] ELSE pmksa
        match == pmkid # 0 /\ q.cur_pmksa # Null /\ Current(q).pmk = pmkid
    IN /\ pmksa.phase \in {"handshake", "msg1", "done"}
       /\ pmksa' = [IF match THEN wpa_sm_set_pmk_from_pmksa(q)
                    ELSE IF sae THEN q
                    ELSE IF q.eap # 0 THEN PmkFromEapol(q, pmkid)
                    ELSE [q EXCEPT !.cur_pmksa = Null]
                    EXCEPT !.phase = IF @ = "idle" THEN @
                                     ELSE IF match \/ sae \/ (q.eap # 0 /\ pmkid \in {0, q.eap})
                                     THEN "msg1" ELSE "handshake"]

\* wpa_supplicant_key_neg_complete(): the access point has the same PMK.
wpa_supplicant_key_neg_complete ==
    /\ pmksa.phase = "msg1" /\ pmksa.pmk # 0
    /\ pmksa' = [pmksa EXCEPT !.phase = "done",
                     !.list = [i \in DOMAIN @ |->
                         IF Ptr(@[i]) = pmksa.cur_pmksa
                         THEN [@[i] EXCEPT !.opportunistic = FALSE] ELSE @[i]]]

PmksaDisassociated ==
    /\ pmksa.phase # "idle"
    /\ pmksa' = wpa_sm_notify_disassoc(pmksa)

\* wpa_sm_pmksa_cache_flush() when the network changes.
NetworkChanged ==
    /\ pmksa.list # <<>>
    /\ pmksa' = pmksa_cache_flush(pmksa, 0, NoAA)

-----------------------------------------------------------------------------
(* Preauthentication. *)

\* Mutant of rsn_preauth_candidate_process: an access point whose PMK works
\* is a candidate, too.
rsn_preauth_candidate_process_Any(aa) ==
    /\ pmksa.phase = "done" /\ pmksa.preauth_bssid = NoAA
    /\ aa # pmksa.bssid /\ {aa, pmksa.bssid} \cap SaeAAs = {}
    /\ pmksa' = [pmksa EXCEPT !.preauth_bssid = aa]

\* rsn_preauth_candidate_process().
rsn_preauth_candidate_process(aa) ==
    /\ pmksa.phase = "done" /\ pmksa.preauth_bssid = NoAA
    /\ aa # pmksa.bssid /\ {aa, pmksa.bssid} \cap SaeAAs = {}
    /\ \A e \in ToSetOf(pmksa) : e.aa = aa => e.opportunistic
    /\ pmksa' = [pmksa EXCEPT !.preauth_bssid = aa]

\* rsn_preauth_eapol_cb(), or rsn_preauth_timeout() without success.
rsn_preauth_eapol_cb(success) ==
    /\ pmksa.preauth_bssid # NoAA
    /\ success => pmksa.derived < MaxPmks
    /\ pmksa' = [IF success
                 THEN pmksa_cache_add(pmksa, FreshPmk(pmksa), pmksa.preauth_bssid, FALSE).cache
                 ELSE pmksa
                 EXCEPT !.preauth_bssid = NoAA,
                        !.derived = IF success THEN @ + 1 ELSE @]

-----------------------------------------------------------------------------
(* Time. *)

\* pmksa_cache_expire().
pmksa_cache_expire ==
    /\ pmksa.expire = 0
    /\ pmksa' = pmksa_cache_set_expiration(
                    FreeAll([pmksa EXCEPT !.expire = NoTimer], Expired(pmksa), "EXPIRE"))

\* pmksa_cache_reauth().
pmksa_cache_reauth ==
    /\ pmksa.reauth = 0
    /\ pmksa' = [pmksa EXCEPT !.reauth = NoTimer, !.cur_pmksa = Null]

\* A second less, down to least.
Earlier(n, least) == IF n <= least THEN least ELSE n - 1
Older(e) == [e EXCEPT !.expiration = Earlier(@, LongPast), !.reauth_time = Earlier(@, LongPast)]

PmksaTick ==
    /\ pmksa.expire # 0 /\ pmksa.reauth # 0 /\ pmksa.list # <<>>
    /\ pmksa' = [pmksa EXCEPT
                    !.expire = Earlier(@, NoTimer), !.reauth = Earlier(@, NoTimer),
                    !.list = [i \in DOMAIN @ |-> Older(@[i])]]

PmksaNext ==
    \/ \E aa \in AAs : \/ sme_send_authentication(aa)
                       \/ PmksaRejected(aa)
                       \/ rsn_preauth_candidate_process(aa)
    \/ SaeAccepted
    \/ wpa_sm_notify_assoc
    \/ AssocRejected
    \/ EapSuccess
    \/ \E pmkid \in Pmks \cup {0} : wpa_supplicant_get_pmk(pmkid)
    \/ wpa_supplicant_key_neg_complete
    \/ PmksaDisassociated
    \/ NetworkChanged
    \/ \E success \in BOOLEAN : rsn_preauth_eapol_cb(success)
    \/ pmksa_cache_expire
    \/ pmksa_cache_reauth
    \/ PmksaTick

PmksaSpec == PmksaInit /\ [][PmksaNext]_pmksa

-----------------------------------------------------------------------------
(* Properties *)

\* The types of the cache and of the state machine's part in it.
PmksaTypeOK == pmksa \in PmksaState

\* An access point has one entry, and pmksa_count is the length of the list
\* and within pmksa_cache_max_entries, also when the list changes under a
\* replacement that flushes other entries.
PmksaCounted ==
    /\ pmksa.pmksa_count = Len(pmksa.list)
    /\ Len(pmksa.list) <= PmksaMaxEntries
    /\ \A e, f \in ToSetOf(pmksa) : e.aa = f.aa => e = f

\* While the list holds a PMK from IEEE 802.1X the timer that drops it is
\* registered, for a second after its expiration at the latest and within a
\* second once it has expired, even though only a change of the head of the
\* list and a flush move the timer, a flush may come when it is due, and an SAE
\* entry in use is passed over; clones excepted, which stand out of order.
PmksaExpires ==
    \A e \in ToSetOf(pmksa) :
        ~e.sae /\ ~e.clone => pmksa.expire \in 0 .. NotBelow0(e.expiration) + 1

\* When the timer has run no PMK from IEEE 802.1X whose lifetime is over is
\* left, also behind an SAE entry that stays because it is in use; clones
\* excepted, which stand out of order and which the walk may not reach.
PmksaExpiryDrops ==
    [][pmksa_cache_expire =>
           \A e \in ToSetOf(pmksa)' : ~e.sae /\ ~e.clone => e.expiration > 0]_pmksa

\* sm->cur_pmksa never points to an entry that was freed: whichever of the
\* replacement, the limit, a flush or the expiration removes the current
\* entry, wpa_sm_pmksa_free_cb() takes the selection back.  And the key of a
\* completed connection is that of the current entry, so that the entry whose
\* opportunistic mark was cleared is the one that worked.
PmksaCurrentIsUsed ==
    pmksa.cur_pmksa # Null =>
        /\ Listed(pmksa, pmksa.cur_pmksa)
        /\ pmksa.phase = "done" => Current(pmksa).pmk = pmksa.pmk

\* The end of a preauthentication, however much later than its start, does
\* not cost the connection: the entry it replaces is one whose PMK no other
\* entry depends on.
PmksaPreauthHarmless ==
    [][(\E success \in BOOLEAN : rsn_preauth_eapol_cb(success))
           => pmksa'.phase = pmksa.phase]_pmksa
=============================================================================
