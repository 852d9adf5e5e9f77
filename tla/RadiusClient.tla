---------------------------- MODULE RadiusClient ----------------------------
(***************************************************************************)
(* The RADIUS client of src/radius/radius_client.c over UDP: the list of   *)
(* requests waiting for an answer, their retransmission, the failover      *)
(* between the configured servers and the return to the primary one.       *)
(*                                                                         *)
(* Time is abstracted: when the retransmission timer expires, any of the   *)
(* pending requests may have reached their next_try.  In one run of a      *)
(* handler a socket to a server can be opened iff the server is in reach.  *)
(* Statistics are left out, and so is RADIUS/TLS.                          *)
(***************************************************************************)
EXTENDS Naturals, Sequences, SequencesExt, Lists

CONSTANTS
    NumServers,         \* conf->num_auth_servers, conf->num_acct_servers
    RadiusIds,          \* values of the 8-bit identifier
    NumFailover,        \* RADIUS_CLIENT_NUM_FAILOVER
    MaxFailover,        \* RADIUS_CLIENT_MAX_FAILOVER
    RadiusMaxEntries,   \* RADIUS_CLIENT_MAX_ENTRIES
    RadiusStations,     \* addresses requests are sent for
    MaxRequests         \* bound: requests built in a behaviour

ASSUME RadiusConstants ==
    /\ NumServers \in Nat \ {0} /\ RadiusIds \in Nat
    /\ NumFailover \in Nat \ {0} /\ MaxFailover \in Nat \ {0}
    /\ RadiusMaxEntries \in Nat \ {0} /\ RadiusMaxEntries < RadiusIds
    /\ MaxRequests \in Nat

VARIABLES
    sameSecret,     \* all servers have one shared secret
    radius          \* struct radius_client_data

radiusVars == <<sameSecret, radius>>

RadiusServers == 1 .. NumServers
RadiusKinds == {"auth", "acct"}
RadiusTypes == {"AUTH", "ACCT", "ACCT_INTERIM"}
RadiusKind(type) == IF type = "AUTH" THEN "auth" ELSE "acct"

SharedSecret(k) == IF sameSecret THEN 1 ELSE k

\* radius_client_init(): both sockets are open, to the first servers.  sock is
\* 0 for a closed socket and otherwise the server it is connected to.
RadiusInit ==
    /\ sameSecret \in BOOLEAN
    /\ radius = [msgs |-> <<>>, num_msgs |-> 0, next_id |-> 0, built |-> 0,
                 server |-> [k \in RadiusKinds |-> 1],
                 sock |-> [k \in RadiusKinds |-> 1],
                 timer |-> FALSE, freed |-> FALSE]

-----------------------------------------------------------------------------
(* struct radius_msg_list and struct radius_client_data. *)

\* What RADIUS_CLIENT_MAX_FAILOVER rounds over all servers allow.
MaxAttempts == MaxFailover * NumFailover * NumServers

RadiusEntries ==
    [n : 1 .. MaxRequests, type : RadiusTypes, sta : RadiusStations,
     id : 0 .. RadiusIds - 1, attempts : 0 .. MaxAttempts,
     accu_attempts : 1 .. MaxAttempts, secret : RadiusServers]

RadiusState ==
    [msgs : Seq(RadiusEntries), num_msgs : Nat, next_id : 0 .. RadiusIds - 1,
     built : 0 .. MaxRequests, server : [RadiusKinds -> RadiusServers],
     sock : [RadiusKinds -> {0} \cup RadiusServers], timer : BOOLEAN, freed : BOOLEAN]

-----------------------------------------------------------------------------
(* The list, the newest request first. *)

Pending(r, n) == \E i \in DOMAIN r.msgs : r.msgs[i].n = n
PendingRequests(r) == {r.msgs[i].n : i \in DOMAIN r.msgs}
Entry(r, n) == r.msgs[CHOOSE i \in DOMAIN r.msgs : r.msgs[i].n = n]

\* Changes every entry, or the one of request n.
EachEntry(r, Op(_)) == [r EXCEPT !.msgs = [i \in DOMAIN @ |-> Op(@[i])]]
ChangeEntry(r, n, Op(_)) == EachEntry(r, LAMBDA m : IF m.n = n THEN Op(m) ELSE m)

AuthRequests(r) == {n \in PendingRequests(r) : Entry(r, n).type = "AUTH"}

\* Removal of the given requests, which num_msgs follows.
RemoveEntries(r, requests) ==
    LET left == Kept(r.msgs, {m \in ListEntries(r.msgs) : m.n \notin requests})
    IN [r EXCEPT !.msgs = left, !.num_msgs = @ - (Len(r.msgs) - Len(left))]

\* radius_client_flush().
radius_client_flush(r, only_auth) ==
    LET u == RemoveEntries(r, IF only_auth THEN AuthRequests(r) ELSE PendingRequests(r))
    IN [u EXCEPT !.timer = IF u.msgs = <<>> THEN FALSE ELSE @]

\* Mutant of radius_client_get_id: the old request with the identifier stays.
radius_client_get_id_Keep(r) == [r EXCEPT !.next_id = (@ + 1) % RadiusIds]

\* radius_client_get_id(): a pending request with the identifier that is
\* handed out leaves the list; num_msgs is not changed.
radius_client_get_id(r) ==
    [r EXCEPT !.next_id = (@ + 1) % RadiusIds,
              !.msgs = Kept(@, {m \in ListEntries(@) : m.id # r.next_id})]

\* Mutant of radius_client_list_add: the oldest entry is not removed.
radius_client_list_add_Unbounded(r, m) ==
    [r EXCEPT !.msgs = <<m>> \o @, !.timer = TRUE,
              !.num_msgs = IF @ >= RadiusMaxEntries THEN @ ELSE @ + 1]

\* Mutant of radius_client_list_add: the timer is seen to before the entry is
\* linked.
radius_client_list_add_TimerFirst(r, m) ==
    LET msgs == <<m>> \o r.msgs
        full == r.num_msgs >= RadiusMaxEntries
    IN [r EXCEPT !.timer = r.msgs # <<>>,
                 !.msgs = IF full /\ Len(msgs) > 1 THEN Front(msgs) ELSE msgs,
                 !.num_msgs = IF full THEN @ ELSE @ + 1]

\* radius_client_list_add(): at the limit the oldest entry is removed, unless
\* the new one is the only one.
radius_client_list_add(r, m) ==
    LET msgs == <<m>> \o r.msgs
    IN IF r.num_msgs >= RadiusMaxEntries
       THEN [r EXCEPT !.timer = TRUE,
                      !.msgs = IF Len(msgs) > 1 THEN Front(msgs) ELSE msgs]
       ELSE [r EXCEPT !.timer = TRUE, !.msgs = msgs, !.num_msgs = @ + 1]

-----------------------------------------------------------------------------
(* Servers. *)

\* radius_client_update_acct_msgs(): ACCT_INTERIM messages keep their secret.
radius_client_update_acct_msgs(r, secret) ==
    EachEntry(r, LAMBDA m : IF m.type = "ACCT" THEN [m EXCEPT !.secret = secret] ELSE m)

\* Mutant of NewSecret: Access-Requests stay for the new server.
NewSecret_KeepAuth(r, kind, new, old) ==
    IF kind = "auth" THEN r
    ELSE radius_client_update_acct_msgs(r, SharedSecret(new))

\* The pending messages when old is replaced by new.
NewSecret(r, kind, new, old) ==
    IF kind = "auth"
    THEN IF new = old \/ SharedSecret(new) # SharedSecret(old)
         THEN radius_client_flush(r, TRUE) ELSE r
    ELSE IF SharedSecret(new) # SharedSecret(old)
         THEN radius_client_update_acct_msgs(r, SharedSecret(new)) ELSE r

\* Mutant of ResetRetries: the attempts with all servers start over, too.
ResetRetries_All(r, kind) ==
    EachEntry(r, LAMBDA m : IF m.type = (IF kind = "auth" THEN "AUTH" ELSE "ACCT")
                            THEN [m EXCEPT !.attempts = 0, !.accu_attempts = 1] ELSE m)

ResetRetries(r, kind) ==
    EachEntry(r, LAMBDA m : IF m.type = (IF kind = "auth" THEN "AUTH" ELSE "ACCT")
                            THEN [m EXCEPT !.attempts = 0] ELSE m)

\* The tail of radius_change_server(): the timer, then the socket.  When it
\* cannot be opened the old socket stays as it is.
OpenSocket(r, kind, new, reach) ==
    LET u == [r EXCEPT !.timer = IF r.msgs # <<>> THEN TRUE ELSE @]
    IN IF new \in reach THEN [u EXCEPT !.sock[kind] = new] ELSE u

\* radius_change_server() with an old server.
radius_change_server(r, kind, new, old, reach) ==
    OpenSocket(ResetRetries(NewSecret(r, kind, new, old), kind), kind, new, reach)

\* radius_client_init_auth(), radius_client_init_acct(): the socket is closed
\* first and the pending messages are left alone.
radius_client_init_sock(r, kind, reach) ==
    OpenSocket([r EXCEPT !.sock[kind] = 0], kind, r.server[kind], reach)

\* The socket is opened if it is closed.
EnsureSocket(r, kind, reach) ==
    IF r.sock[kind] = 0 THEN radius_client_init_sock(r, kind, reach) ELSE r

\* radius_client_auth_failover(), radius_client_acct_failover().
radius_client_failover(r, kind, reach) ==
    LET old == r.server[kind]
        new == IF old = NumServers THEN 1 ELSE old + 1
    IN radius_change_server([r EXCEPT !.server[kind] = new], kind, new, old, reach)

\* send() and radius_client_handle_send_error().
SendDatagram(r, kind, fails, reach) ==
    IF fails THEN radius_client_init_sock(r, kind, reach) ELSE r

-----------------------------------------------------------------------------
(* Retransmission. *)

TooManyAttempts(m) == m.accu_attempts >= MaxAttempts

ResendEntry(r, n, kind, fails, reach) ==
    IF TooManyAttempts(Entry(r, n))
    THEN RemoveEntries(r, {n})
    ELSE SendDatagram(ChangeEntry(r, n, LAMBDA m : [m EXCEPT !.attempts = @ + 1,
                                                             !.accu_attempts = @ + 1]),
                      kind, fails, reach)

\* An ACCT message gets a new identifier, for its Acct-Delay-Time changes.  If
\* the identifier is its own the entry is freed while it is in use (freed).
NewIdentifier(r, n) ==
    IF r.next_id = Entry(r, n).id
    THEN [radius_client_get_id(r) EXCEPT !.freed = TRUE]
    ELSE LET u == radius_client_get_id(r)
         IN ChangeEntry(u, n, LAMBDA m : [m EXCEPT !.id = r.next_id])

\* radius_client_retransmit() and the removal of the entry by its caller.  A
\* failover that flushed the entry ends it.
radius_client_retransmit(r, n, fails, reach) ==
    LET type == Entry(r, n).type
        kind == RadiusKind(type)
        opened == EnsureSocket(r, kind, reach)
        resend[u \in RadiusState] ==
            IF u.freed THEN u ELSE ResendEntry(u, n, kind, fails, reach)
        send[u \in RadiusState] ==
            IF u.num_msgs # r.num_msgs THEN u
            ELSE IF type = "ACCT_INTERIM" \/ u.sock[kind] = 0 THEN RemoveEntries(u, {n})
            ELSE resend[IF type = "ACCT" THEN NewIdentifier(u, n) ELSE u]
    IN send[IF opened.sock[kind] = 0 /\ NumServers > 1
            THEN radius_client_failover(opened, kind, reach) ELSE opened]

\* An entry whose server has not answered.
ServerSilent(r, m) ==
    \/ m.attempts >= NumFailover
    \/ r.sock[RadiusKind(m.type)] = 0 /\ m.attempts > 0

\* The pass over the list of r: each entry, if it is due and still there.
RetryAll(r, due, fails, reach) ==
    LET retry[p \in RadiusState \X DOMAIN r.msgs] ==
            LET u == p[1]
                n == r.msgs[p[2]].n
            IN IF u.freed \/ n \notin due \/ ~Pending(u, n) THEN u
               ELSE radius_client_retransmit(u, n, fails, reach)
        pass[i \in 0 .. Len(r.msgs)] == IF i = 0 THEN r ELSE retry[<<pass[i - 1], i>>]
    IN pass[Len(r.msgs)]

\* A failover if a due entry found its server silent.
TimerFailover(r, kind, due, reach) ==
    IF \E i \in DOMAIN radius.msgs : /\ radius.msgs[i].n \in due
                                     /\ RadiusKind(radius.msgs[i].type) = kind
                                     /\ ServerSilent(radius, radius.msgs[i])
    THEN radius_client_failover(r, kind, reach) ELSE r

\* radius_client_timer() with the requests in due at their next_try.  The pass
\* over the list may start again after a flush: the entries it meets twice have
\* a later next_try by then, or are due when the timer expires at once.
radius_client_timer(due, fails, reach) ==
    /\ radius.timer /\ ~radius.freed /\ radius.msgs # <<>>
    /\ \E auth \in {TimerFailover([radius EXCEPT !.timer = FALSE], "auth", due, reach)} :
       \E acct \in {TimerFailover(auth, "acct", due, reach)} :
       \E u \in {RetryAll(acct, due, fails, reach)} :
          radius' = [u EXCEPT !.timer = IF u.msgs # <<>> THEN TRUE ELSE @]
    /\ UNCHANGED sameSecret

-----------------------------------------------------------------------------
(* Requests and answers. *)

\* A new request: radius_client_get_id() and radius_client_send() of
\* accounting.c and ieee802_1x.c.
radius_client_send(type, sta, fails, reach) ==
    LET kind == RadiusKind(type)
        new == [n |-> radius.built + 1, type |-> type, sta |-> sta, id |-> radius.next_id,
                attempts |-> 1, accu_attempts |-> 1,
                secret |-> SharedSecret(radius.server[kind])]
        r == EnsureSocket([radius_client_get_id(radius) EXCEPT !.built = @ + 1], kind, reach)
    IN /\ radius.built < MaxRequests /\ ~radius.freed
       /\ radius' = IF r.sock[kind] = 0 THEN r
                    ELSE radius_client_list_add(SendDatagram(r, kind, fails, reach), new)
       /\ UNCHANGED sameSecret

\* radius_client_receive(): an answer that matches a pending request and
\* verifies with its secret.  Any other answer changes nothing.
radius_client_receive(n) ==
    /\ Pending(radius, n) /\ ~radius.freed
    /\ radius.sock[RadiusKind(Entry(radius, n).type)] # 0
    /\ radius' = RemoveEntries(radius, {n})
    /\ UNCHANGED sameSecret

\* radius_client_flush_auth(): the station is removed (ap_free_sta()).
radius_client_flush_auth(sta) ==
    /\ ~radius.freed
    /\ radius' = RemoveEntries(radius, {n \in AuthRequests(radius) :
                                         Entry(radius, n).sta = sta})
    /\ UNCHANGED sameSecret

\* radius_client_flush() of hostapd_clear_old_bss().
ClearOldBss ==
    /\ ~radius.freed
    /\ radius' = radius_client_flush(radius, FALSE)
    /\ UNCHANGED sameSecret

\* One kind of server in radius_retry_primary_timer().  On failure the old
\* server is current again when radius_change_server() is called for it, so it
\* is called with the same server twice.
RetryPrimary(r, kind, reach) ==
    LET old == r.server[kind]
        a == radius_change_server([r EXCEPT !.server[kind] = 1], kind, 1, old, reach)
    IN IF r.sock[kind] = 0 \/ old = 1 THEN r
       ELSE IF 1 \in reach THEN a
            ELSE radius_change_server([a EXCEPT !.server[kind] = old], kind, old, old, reach)

radius_retry_primary_timer(reach) ==
    /\ ~radius.freed
    /\ radius' = RetryPrimary(RetryPrimary(radius, "auth", reach), "acct", reach)
    /\ UNCHANGED sameSecret

RadiusNext ==
    \/ \E type \in RadiusTypes, sta \in RadiusStations, fails \in BOOLEAN,
          reach \in SUBSET RadiusServers : radius_client_send(type, sta, fails, reach)
    \/ \E due \in SUBSET PendingRequests(radius), fails \in BOOLEAN,
          reach \in SUBSET RadiusServers : radius_client_timer(due, fails, reach)
    \/ \E n \in PendingRequests(radius) : radius_client_receive(n)
    \/ \E sta \in RadiusStations : radius_client_flush_auth(sta)
    \/ ClearOldBss
    \/ \E reach \in SUBSET RadiusServers : radius_retry_primary_timer(reach)

\* The timer is an eloop timeout and next_try is at most 120 s away, so every
\* pending request is due again and again.
RadiusDue(n) ==
    \E due \in SUBSET PendingRequests(radius), fails \in BOOLEAN,
       reach \in SUBSET RadiusServers :
        n \in due /\ radius_client_timer(due, fails, reach)

RadiusFairness == \A n \in 1 .. MaxRequests : WF_radiusVars(RadiusDue(n))

RadiusSpec == RadiusInit /\ [][RadiusNext]_radiusVars /\ RadiusFairness

-----------------------------------------------------------------------------
(* Properties. *)

\* The types.  No request is sent more often than RADIUS_CLIENT_MAX_FAILOVER
\* rounds over all servers allow.
RadiusTypeOK == sameSecret \in BOOLEAN /\ radius \in RadiusState

\* radius_client_timer() is registered as long as a request is pending: the
\* list is changed in eight places and the timer cancelled in three.
RadiusTimed == radius.msgs # <<>> /\ ~radius.freed => radius.timer

\* "a unique (among pending requests) identifier": also after the identifier
\* wrapped around and after retransmissions took new ones.
RadiusIdsUnique ==
    \A i, j \in DOMAIN radius.msgs : radius.msgs[i].id = radius.msgs[j].id => i = j

\* The list never exceeds num_msgs, num_msgs never the limit, in spite of the
\* entries that leave without being counted: the list stays bounded and
\* num_msgs never wraps below zero.
RadiusBounded ==
    Len(radius.msgs) <= radius.num_msgs /\ radius.num_msgs <= RadiusMaxEntries

\* A pending Access-Request was built with the shared secret of the server that
\* is current, through failovers that succeed or not.
RadiusAuthSecretCurrent ==
    \A i \in DOMAIN radius.msgs :
        radius.msgs[i].type = "AUTH" =>
            radius.msgs[i].secret = SharedSecret(radius.server["auth"])

\* Every request is answered, given up or removed in the end, whatever fails.
RadiusServed ==
    \A n \in 1 .. MaxRequests : Pending(radius, n) ~> (~Pending(radius, n) \/ radius.freed)
=============================================================================
