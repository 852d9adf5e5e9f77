------------------------- MODULE RadiusPmksaProofs --------------------------
(***************************************************************************)
(* For every number of requests, servers, identifiers and entries, and     *)
(* whichever sends and sockets fail: the RADIUS client's pending requests  *)
(* have a timer, their own identifiers and the secret of the server they   *)
(* would be sent to, and their list stays within its limit.                *)
(*                                                                         *)
(* Each function on the way from an entry point to the list is shown to    *)
(* keep a list sound for a secret; a change of server is the one place     *)
(* where that secret changes, and there only accounting requests survive   *)
(* as they are.                                                            *)
(***************************************************************************)
EXTENDS RadiusClient, PmksaCache, ListProofs

Numbered(s) == \A i, j \in 1 .. Len(s) : s[i].n = s[j].n => i = j
Identified(s) == \A i, j \in 1 .. Len(s) : s[i].id = s[j].id => i = j
Attempted(s) == \A i \in 1 .. Len(s) : s[i].attempts <= s[i].accu_attempts
Built(s, b) == \A i \in 1 .. Len(s) : s[i].n <= b
Secret(s, k) == \A i \in 1 .. Len(s) : s[i].type = "AUTH" => s[i].secret = k
Within(s, n) == Len(s) <= n /\ n <= RadiusMaxEntries

\* A list as the client keeps it, with k the secret of the current server.
RadiusSound(r, k) ==
    /\ r \in RadiusState
    /\ Numbered(r.msgs) /\ Identified(r.msgs) /\ Attempted(r.msgs)
    /\ Built(r.msgs, r.built) /\ Within(r.msgs, r.num_msgs)
    /\ Secret(r.msgs, k)

\* Nothing but the list, its count and the timer differ.
SameRest(r, u) ==
    /\ u.next_id = r.next_id /\ u.built = r.built
    /\ u.server = r.server /\ u.sock = r.sock /\ u.freed = r.freed

\* The fields of a client's state and their types.
LEMMA StateFields ==
  ASSUME NEW r \in RadiusState
  PROVE  /\ r.msgs \in Seq(RadiusEntries) /\ Len(r.msgs) \in Nat
         /\ DOMAIN r.msgs = 1 .. Len(r.msgs)
         /\ r.num_msgs \in Nat /\ r.next_id \in 0 .. RadiusIds - 1 /\ r.built \in 0 .. MaxRequests
         /\ r.server \in [RadiusKinds -> RadiusServers]
         /\ r.sock \in [RadiusKinds -> {0} \cup RadiusServers]
         /\ r.timer \in BOOLEAN /\ r.freed \in BOOLEAN
         /\ \A i \in 1 .. Len(r.msgs) : r.msgs[i] \in RadiusEntries
BY DEF RadiusState

\* Unlinking entries keeps what holds of a list, since it renumbers none.
LEMMA SublistSound ==
  ASSUME NEW S, NEW s \in Seq(S), NEW K, NEW b, NEW k
  PROVE  LET t == Kept(s, K)
         IN /\ Numbered(s) => Numbered(t)
            /\ Identified(s) => Identified(t)
            /\ Attempted(s) => Attempted(t)
            /\ Built(s, b) => Built(t, b)
            /\ Secret(s, k) => Secret(t, k)
<1> DEFINE t == Kept(s, K)
<1>1. PICK h : Places(t, s, h)
  BY KeptSublist
<1>2. h \in [1 .. Len(t) -> 1 .. Len(s)] /\ \A i \in 1 .. Len(t) : t[i] = s[h[i]]
  BY <1>1 DEF Places
<1>3. t \in Seq(S) /\ Len(t) \in Nat
  BY KeptSublist
<1>4. \A i, j \in 1 .. Len(t) : h[i] = h[j] => i = j
  <2> SUFFICES ASSUME NEW i \in 1 .. Len(t), NEW j \in 1 .. Len(t), h[i] = h[j], i # j
               PROVE  FALSE
    OBVIOUS
  <2>1. i < j \/ j < i
    BY <1>3
  <2>2. h[i] < h[j] \/ h[j] < h[i]
    BY <1>1, <2>1 DEF Places
  <2> QED BY <1>2, <2>2
<1> HIDE DEF t
<1>5. Numbered(s) => Numbered(t)
  BY <1>2, <1>4 DEF Numbered
<1>6. Identified(s) => Identified(t)
  BY <1>2, <1>4 DEF Identified
<1>7. Attempted(s) => Attempted(t)
  BY <1>2 DEF Attempted
<1>8. Built(s, b) => Built(t, b)
  BY <1>2 DEF Built
<1>9. Secret(s, k) => Secret(t, k)
  BY <1>2 DEF Secret
<1> QED BY <1>5, <1>6, <1>7, <1>8, <1>9 DEF t

\* Taking requests off the list leaves a list without them and the rest alone.
LEMMA RemoveEntriesSound ==
  ASSUME NEW k, NEW r, RadiusSound(r, k), NEW requests
  PROVE  LET u == RemoveEntries(r, requests)
         IN /\ RadiusSound(u, k) /\ SameRest(r, u) /\ u.timer = r.timer
            /\ Len(u.msgs) <= Len(r.msgs)
            /\ \A i \in 1 .. Len(u.msgs) : u.msgs[i].n \notin requests
            /\ \A i \in 1 .. Len(u.msgs) : \E j \in 1 .. Len(r.msgs) : u.msgs[i] = r.msgs[j]
<1> DEFINE K == {m \in ListEntries(r.msgs) : m.n \notin requests}
           t == Kept(r.msgs, K)
           u == RemoveEntries(r, requests)
<1>1. r \in RadiusState BY DEF RadiusSound
<1>2. t \in Seq(RadiusEntries) /\ Len(t) <= Len(r.msgs) /\ Len(t) \in Nat
      /\ (\A i \in 1 .. Len(t) : t[i] \in K) /\ (\E h : Places(t, r.msgs, h))
  <2> HIDE DEF K
  <2>1. r.msgs \in Seq(RadiusEntries) BY <1>1, StateFields
  <2>2. t \in Seq(RadiusEntries) /\ Len(t) <= Len(r.msgs)
        /\ (\A i \in 1 .. Len(t) : t[i] \in K) /\ (\E h : Places(t, r.msgs, h))
    BY <2>1, KeptSublist
  <2> HIDE DEF t
  <2> QED BY <2>2
<1>3. /\ Numbered(t) /\ Identified(t) /\ Attempted(t) /\ Built(t, r.built) /\ Secret(t, k)
  BY <1>1, StateFields, SublistSound DEF RadiusSound
<1>4. \A i \in 1 .. Len(t) : t[i].n \notin requests
  BY <1>2
<1>5. \A i \in 1 .. Len(t) : \E j \in 1 .. Len(r.msgs) : t[i] = r.msgs[j]
  BY <1>2 DEF Places
<1>6. u = [r EXCEPT !.msgs = t, !.num_msgs = @ - (Len(r.msgs) - Len(t))]
  BY DEF RemoveEntries
<1> HIDE DEF t, u, K
<1>7. r.num_msgs - (Len(r.msgs) - Len(t)) \in Nat
      /\ Within(t, r.num_msgs - (Len(r.msgs) - Len(t)))
  BY <1>1, <1>2, StateFields, RadiusConstants DEF RadiusSound, Within
<1>8. u \in RadiusState
  BY <1>1, <1>2, <1>6, <1>7 DEF RadiusState
<1>9. u.msgs = t /\ u.num_msgs = r.num_msgs - (Len(r.msgs) - Len(t)) /\ SameRest(r, u)
      /\ u.timer = r.timer /\ u.built = r.built
  BY <1>1, <1>6 DEF RadiusState, SameRest
<1>10. RadiusSound(u, k)
  BY <1>3, <1>7, <1>8, <1>9 DEF RadiusSound
<1> QED BY <1>2, <1>4, <1>5, <1>9, <1>10 DEF u

\* The identifier handed out is free: whoever still held it is removed.
LEMMA GetIdSound ==
  ASSUME NEW k, NEW r, RadiusSound(r, k)
  PROVE  LET u == radius_client_get_id(r)
         IN /\ RadiusSound(u, k) /\ u.timer = r.timer /\ u.built = r.built
             /\ u.num_msgs = r.num_msgs
            /\ u.server = r.server /\ u.sock = r.sock /\ u.freed = r.freed
            /\ Len(u.msgs) <= Len(r.msgs)
            /\ \A i \in 1 .. Len(u.msgs) : u.msgs[i].id # r.next_id
            /\ \A i \in 1 .. Len(u.msgs) : \E j \in 1 .. Len(r.msgs) : u.msgs[i] = r.msgs[j]
<1> DEFINE K == {m \in ListEntries(r.msgs) : m.id # r.next_id}
           t == Kept(r.msgs, K)
           d == (r.next_id + 1) % RadiusIds
           u == radius_client_get_id(r)
<1>1. r \in RadiusState BY DEF RadiusSound
<1>2. t \in Seq(RadiusEntries) /\ Len(t) <= Len(r.msgs) /\ Len(t) \in Nat
      /\ (\A i \in 1 .. Len(t) : t[i] \in K) /\ (\E h : Places(t, r.msgs, h))
  <2> HIDE DEF K
  <2>1. r.msgs \in Seq(RadiusEntries) BY <1>1, StateFields
  <2>2. t \in Seq(RadiusEntries) /\ Len(t) <= Len(r.msgs)
        /\ (\A i \in 1 .. Len(t) : t[i] \in K) /\ (\E h : Places(t, r.msgs, h))
    BY <2>1, KeptSublist
  <2> HIDE DEF t
  <2> QED BY <2>2
<1>3. /\ Numbered(t) /\ Identified(t) /\ Attempted(t) /\ Built(t, r.built) /\ Secret(t, k)
  BY <1>1, StateFields, SublistSound DEF RadiusSound
<1>4. \A i \in 1 .. Len(t) : t[i].id # r.next_id
  BY <1>2
<1>5. \A i \in 1 .. Len(t) : \E j \in 1 .. Len(r.msgs) : t[i] = r.msgs[j]
  BY <1>2 DEF Places
<1>6. u = [r EXCEPT !.next_id = d, !.msgs = t]
  BY DEF radius_client_get_id
<1>7. d \in 0 .. RadiusIds - 1
  BY <1>1, StateFields, RadiusConstants
<1> HIDE DEF t, u, K, d
<1>8. Within(t, r.num_msgs)
  BY <1>1, <1>2, StateFields, RadiusConstants DEF RadiusSound, Within
<1>9. u \in RadiusState
  BY <1>1, <1>2, <1>6, <1>7 DEF RadiusState
<1>10. u.msgs = t /\ u.num_msgs = r.num_msgs /\ u.timer = r.timer /\ u.built = r.built
      /\ u.server = r.server /\ u.sock = r.sock /\ u.freed = r.freed
  BY <1>1, <1>6 DEF RadiusState
<1>11. RadiusSound(u, k)
  BY <1>3, <1>8, <1>9, <1>10 DEF RadiusSound
<1> QED BY <1>2, <1>4, <1>5, <1>10, <1>11 DEF u

\* The entries of a list change and keep their requests.
LEMMA EntriesChanged ==
  ASSUME NEW k, NEW l, NEW r, RadiusSound(r, k), NEW s,
         s \in Seq(RadiusEntries), Len(s) = Len(r.msgs),
         \A i \in 1 .. Len(s) : s[i].n = r.msgs[i].n,
         Identified(s), Attempted(s), Secret(s, l)
  PROVE  LET u == [r EXCEPT !.msgs = s]
         IN RadiusSound(u, l) /\ SameRest(r, u) /\ u.msgs = s /\ u.num_msgs = r.num_msgs
            /\ u.timer = r.timer
<1> DEFINE u == [r EXCEPT !.msgs = s]
<1>1. r \in RadiusState BY DEF RadiusSound
<1>2. u \in RadiusState /\ SameRest(r, u) /\ u.msgs = s /\ u.num_msgs = r.num_msgs
      /\ u.timer = r.timer /\ u.built = r.built
  BY <1>1 DEF RadiusState, SameRest
<1> HIDE DEF u
<1>3. Numbered(s)
  BY DEF RadiusSound, Numbered
<1>4. Built(s, r.built) /\ Within(s, r.num_msgs)
  BY DEF RadiusSound, Built, Within
<1>5. RadiusSound(u, l)
  BY <1>2, <1>3, <1>4 DEF RadiusSound
<1> QED BY <1>2, <1>5 DEF u

\* The fields of a list entry and their types.
LEMMA EntryFields ==
  ASSUME NEW m \in RadiusEntries
  PROVE  /\ m.n \in 1 .. MaxRequests /\ m.type \in RadiusTypes /\ m.id \in 0 .. RadiusIds - 1
         /\ m.attempts \in 0 .. MaxAttempts /\ m.accu_attempts \in 1 .. MaxAttempts
         /\ m.secret \in RadiusServers
BY DEF RadiusEntries

\* The larger of the two retry limits is a positive natural.
LEMMA MaxAttemptsNat == MaxAttempts \in Nat \ {0}
<1>1. \A a, b \in Nat \ {0} : a * b \in Nat \ {0}
  OBVIOUS
<1>2. MaxFailover * NumFailover \in Nat \ {0}
  BY <1>1, RadiusConstants
<1> QED BY <1>1, <1>2, RadiusConstants DEF MaxAttempts

\* The secret shared with a server is that of a server.
LEMMA SharedSecretType ==
  ASSUME sameSecret \in BOOLEAN, NEW j \in RadiusServers
  PROVE  SharedSecret(j) \in RadiusServers
BY RadiusConstants DEF SharedSecret, RadiusServers

\* Re-signing the accounting requests changes no authentication request.
LEMMA UpdateAcctSound ==
  ASSUME NEW k, NEW r, RadiusSound(r, k), NEW j \in RadiusServers
  PROVE  LET u == radius_client_update_acct_msgs(r, j)
         IN RadiusSound(u, k) /\ SameRest(r, u) /\ Len(u.msgs) = Len(r.msgs) /\ u.timer = r.timer
<1> DEFINE C(m) == IF m.type = "ACCT" THEN [m EXCEPT !.secret = j] ELSE m
           s == [i \in DOMAIN r.msgs |-> C(r.msgs[i])]
<1>1. r \in RadiusState BY DEF RadiusSound
<1>2. \A m \in RadiusEntries : /\ C(m) \in RadiusEntries /\ C(m).n = m.n /\ C(m).id = m.id
          /\ C(m).attempts = m.attempts /\ C(m).accu_attempts = m.accu_attempts
          /\ C(m).type = m.type /\ (m.type = "AUTH" => C(m).secret = m.secret)
  BY DEF RadiusEntries
<1>3. radius_client_update_acct_msgs(r, j) = [r EXCEPT !.msgs = s]
  BY DEF radius_client_update_acct_msgs, EachEntry
<1> HIDE DEF C
<1>4. s \in Seq(RadiusEntries) /\ Len(s) = Len(r.msgs) /\ \A i \in 1 .. Len(s) : s[i] = C(r.msgs[i])
  BY <1>1, <1>2, StateFields
<1>5. \A i \in 1 .. Len(s) : r.msgs[i] \in RadiusEntries
  BY <1>1, <1>4, StateFields
<1> HIDE DEF s
<1>6. Identified(s) /\ Attempted(s) /\ Secret(s, k) /\ \A i \in 1 .. Len(s) : s[i].n = r.msgs[i].n
  BY <1>2, <1>4, <1>5 DEF RadiusSound, Identified, Attempted, Secret
<1> QED BY <1>3, <1>4, <1>6, EntriesChanged

\* A new server starts the retries again and keeps every request.
LEMMA ResetRetriesSound ==
  ASSUME NEW k, NEW r, RadiusSound(r, k), NEW kind
  PROVE  LET u == ResetRetries(r, kind)
         IN RadiusSound(u, k) /\ SameRest(r, u) /\ Len(u.msgs) = Len(r.msgs) /\ u.timer = r.timer
<1> DEFINE C(m) == IF m.type = (IF kind = "auth" THEN "AUTH" ELSE "ACCT")
                   THEN [m EXCEPT !.attempts = 0] ELSE m
           s == [i \in DOMAIN r.msgs |-> C(r.msgs[i])]
<1>1. r \in RadiusState BY DEF RadiusSound
<1>2. \A m \in RadiusEntries : /\ C(m) \in RadiusEntries /\ C(m).n = m.n /\ C(m).id = m.id
          /\ C(m).attempts \in {0, m.attempts} /\ C(m).accu_attempts = m.accu_attempts
          /\ C(m).type = m.type /\ C(m).secret = m.secret
  BY MaxAttemptsNat DEF RadiusEntries
<1>3. ResetRetries(r, kind) = [r EXCEPT !.msgs = s]
  BY DEF ResetRetries, EachEntry
<1> HIDE DEF C
<1>4. s \in Seq(RadiusEntries) /\ Len(s) = Len(r.msgs) /\ \A i \in 1 .. Len(s) : s[i] = C(r.msgs[i])
  BY <1>1, <1>2, StateFields
<1>5. \A i \in 1 .. Len(s) : r.msgs[i] \in RadiusEntries
  BY <1>1, <1>4, StateFields
<1> HIDE DEF s
<1>6. Identified(s) /\ Secret(s, k) /\ \A i \in 1 .. Len(s) : s[i].n = r.msgs[i].n
  BY <1>2, <1>4, <1>5 DEF RadiusSound, Identified, Secret
<1>7. Attempted(s)
  <2> SUFFICES ASSUME NEW i \in 1 .. Len(s) PROVE s[i].attempts <= s[i].accu_attempts
    BY DEF Attempted
  <2>1. r.msgs[i] \in RadiusEntries /\ r.msgs[i].attempts <= r.msgs[i].accu_attempts
    BY <1>4, <1>5 DEF RadiusSound, Attempted
  <2>2. r.msgs[i].accu_attempts \in 1 .. MaxAttempts
    BY <2>1, EntryFields
  <2> QED BY <1>2, <1>4, <2>1, <2>2, MaxAttemptsNat
<1> QED BY <1>3, <1>4, <1>6, <1>7, EntriesChanged

Timed(r) == r.msgs # <<>> => r.timer

\* A sequence is empty exactly when it has no entries.
LEMMA EmptyLen ==
  ASSUME NEW S, NEW s \in Seq(S)
  PROVE  s = <<>> <=> Len(s) = 0
OBVIOUS

\* A flush of the authentication requests leaves no stale secret behind.
LEMMA FlushSound ==
  ASSUME NEW k, NEW l, NEW r, RadiusSound(r, k), NEW only_auth \in BOOLEAN, only_auth \/ l = k
  PROVE  LET u == radius_client_flush(r, only_auth)
         IN RadiusSound(u, l) /\ SameRest(r, u) /\ Len(u.msgs) <= Len(r.msgs) /\ (Timed(r)
             => Timed(u))
<1> DEFINE requests == IF only_auth THEN AuthRequests(r) ELSE PendingRequests(r)
           v == RemoveEntries(r, requests)
           u == radius_client_flush(r, only_auth)
<1>1. r \in RadiusState BY DEF RadiusSound
<1>2. /\ RadiusSound(v, k) /\ SameRest(r, v) /\ v.timer = r.timer
      /\ Len(v.msgs) <= Len(r.msgs)
      /\ \A i \in 1 .. Len(v.msgs) : v.msgs[i].n \notin requests
      /\ \A i \in 1 .. Len(v.msgs) : \E j \in 1 .. Len(r.msgs) : v.msgs[i] = r.msgs[j]
  <2> HIDE DEF requests
  <2> QED BY RemoveEntriesSound
<1>3. u = [v EXCEPT !.timer = IF v.msgs = <<>> THEN FALSE ELSE @]
  BY DEF radius_client_flush
<1>4. v \in RadiusState BY <1>2 DEF RadiusSound
<1>5. ASSUME only_auth, NEW i \in 1 .. Len(v.msgs) PROVE v.msgs[i].type # "AUTH"
  <2>1. PICK j \in 1 .. Len(r.msgs) : v.msgs[i] = r.msgs[j]
    BY <1>2, <1>5
  <2> DEFINE n == r.msgs[j].n
  <2>2. DOMAIN r.msgs = 1 .. Len(r.msgs) BY <1>1, StateFields
  <2>3. n \in PendingRequests(r)
    BY <2>2 DEF PendingRequests
  <2>4. (CHOOSE x \in DOMAIN r.msgs : r.msgs[x].n = n) = j
    BY <2>2 DEF RadiusSound, Numbered
  <2>5. Entry(r, n) = r.msgs[j]
    BY <2>4 DEF Entry
  <2>6. n \notin AuthRequests(r)
    BY <1>2, <1>5, <2>1
  <2> QED BY <2>1, <2>3, <2>5, <2>6 DEF AuthRequests
<1> HIDE DEF u, v, requests
<1>6. Secret(v.msgs, l)
  BY <1>2, <1>5 DEF RadiusSound, Secret
<1>7. RadiusSound(v, l)
  BY <1>2, <1>6 DEF RadiusSound
<1>8. u \in RadiusState /\ SameRest(v, u) /\ u.msgs = v.msgs /\ u.num_msgs = v.num_msgs
      /\ u.timer = (IF v.msgs = <<>> THEN FALSE ELSE v.timer)
  BY <1>3, <1>4 DEF RadiusState, SameRest
<1>9. RadiusSound(u, l)
  BY <1>7, <1>8 DEF RadiusSound, SameRest
<1>10. Timed(r) => Timed(u)
  <2>1. v.msgs # <<>> => r.msgs # <<>>
    BY <1>1, <1>2, <1>4, StateFields, EmptyLen
  <2> QED BY <1>2, <1>8, <2>1 DEF Timed
<1>11. SameRest(r, u)
  BY <1>2, <1>8 DEF SameRest
<1> QED BY <1>2, <1>8, <1>9, <1>10, <1>11 DEF u

\* After a change of server the pending requests carry the new secret.
LEMMA NewSecretSound ==
  ASSUME sameSecret \in BOOLEAN, NEW kind \in RadiusKinds, NEW new \in RadiusServers,
         NEW old \in RadiusServers, NEW k, NEW r, RadiusSound(r, k),
         kind = "auth" /\ new # old => k = SharedSecret(old)
  PROVE  LET u == NewSecret(r, kind, new, old)
         IN RadiusSound(u, IF kind = "auth" THEN SharedSecret(new) ELSE k)
            /\ SameRest(r, u) /\ Len(u.msgs) <= Len(r.msgs) /\ (Timed(r) => Timed(u))
<1> DEFINE u == NewSecret(r, kind, new, old)
           l == SharedSecret(new)
<1>0. r \in RadiusState /\ Len(r.msgs) \in Nat BY StateFields DEF RadiusSound
<1>1. l \in RadiusServers BY SharedSecretType
<1>2. SameRest(r, r) /\ Len(r.msgs) <= Len(r.msgs) BY <1>0 DEF SameRest
<1>3. CASE kind = "auth" /\ (new = old \/ l # SharedSecret(old))
  <2>1. u = radius_client_flush(r, TRUE) BY <1>3 DEF NewSecret
  <2> HIDE DEF u, l
  <2> QED BY <1>3, <2>1, FlushSound DEF u, l
<1>4. CASE kind = "auth" /\ ~(new = old \/ l # SharedSecret(old))
  <2>1. u = r BY <1>4 DEF NewSecret
  <2> QED BY <1>2, <1>4, <2>1
<1>5. CASE kind # "auth" /\ l # SharedSecret(old)
  <2>1. u = radius_client_update_acct_msgs(r, l) BY <1>5 DEF NewSecret
  <2> HIDE DEF u, l
  <2>2. RadiusSound(u, k) /\ SameRest(r, u) /\ Len(u.msgs) = Len(r.msgs) /\ u.timer = r.timer
    BY <1>1, <2>1, UpdateAcctSound
  <2>3. u \in RadiusState BY <2>2 DEF RadiusSound
  <2>4. Timed(r) => Timed(u)
    BY <1>0, <2>2, <2>3, StateFields, EmptyLen DEF Timed
  <2> QED BY <1>0, <1>5, <2>2, <2>4 DEF u
<1>6. CASE kind # "auth" /\ l = SharedSecret(old)
  <2>1. u = r BY <1>6 DEF NewSecret
  <2> QED BY <1>2, <1>6, <2>1
<1> QED BY <1>3, <1>4, <1>5, <1>6

\* What the steps with sockets leave alone.
Kin(r, u) ==
    /\ u.next_id = r.next_id /\ u.built = r.built /\ u.freed = r.freed /\ u.server = r.server
    /\ Len(u.msgs) <= Len(r.msgs) /\ (Timed(r) => Timed(u))

\* Opening a socket changes no request.
LEMMA OpenSocketSound ==
  ASSUME NEW k, NEW r, RadiusSound(r, k), NEW kind \in RadiusKinds,
         NEW new \in RadiusServers, NEW reach
  PROVE  LET u == OpenSocket(r, kind, new, reach)
         IN RadiusSound(u, k) /\ Kin(r, u) /\ u.msgs = r.msgs /\ u.num_msgs = r.num_msgs
<1> DEFINE v == [r EXCEPT !.timer = IF r.msgs # <<>> THEN TRUE ELSE @]
           u == OpenSocket(r, kind, new, reach)
<1>1. r \in RadiusState /\ Len(r.msgs) \in Nat BY StateFields DEF RadiusSound
<1>2. u = IF new \in reach THEN [v EXCEPT !.sock[kind] = new] ELSE v
  BY DEF OpenSocket
<1>3. v \in RadiusState /\ v.msgs = r.msgs /\ v.num_msgs = r.num_msgs /\ v.next_id = r.next_id
      /\ v.built = r.built /\ v.server = r.server /\ v.freed = r.freed /\ Timed(v)
  BY <1>1 DEF RadiusState, Timed
<1> HIDE DEF v, u
<1>4. u \in RadiusState /\ u.msgs = v.msgs /\ u.num_msgs = v.num_msgs /\ u.next_id = v.next_id
      /\ u.built = v.built /\ u.server = v.server /\ u.freed = v.freed /\ u.timer = v.timer
  BY <1>2, <1>3 DEF RadiusState
<1>5. RadiusSound(u, k)
  BY <1>3, <1>4 DEF RadiusSound
<1>6. Kin(r, u)
  BY <1>1, <1>3, <1>4 DEF Kin, Timed
<1> QED BY <1>3, <1>4, <1>5, <1>6 DEF u

\* A change of server ends in a list that is sound for the new secret.
LEMMA ChangeServerSound ==
  ASSUME sameSecret \in BOOLEAN, NEW kind \in RadiusKinds, NEW new \in RadiusServers,
         NEW old \in RadiusServers, NEW reach, NEW k, NEW r, RadiusSound(r, k),
         kind = "auth" /\ new # old => k = SharedSecret(old)
  PROVE  LET u == radius_change_server(r, kind, new, old, reach)
         IN RadiusSound(u, IF kind = "auth" THEN SharedSecret(new) ELSE k) /\ Kin(r, u)
<1> DEFINE l == IF kind = "auth" THEN SharedSecret(new) ELSE k
           a == NewSecret(r, kind, new, old)
           b == ResetRetries(a, kind)
           u == OpenSocket(b, kind, new, reach)
<1>1. RadiusSound(a, l) /\ SameRest(r, a) /\ Len(a.msgs) <= Len(r.msgs) /\ (Timed(r) => Timed(a))
  BY NewSecretSound
<1> HIDE DEF l, a
<1>2. RadiusSound(b, l) /\ SameRest(a, b) /\ Len(b.msgs) = Len(a.msgs) /\ b.timer = a.timer
  BY <1>1, ResetRetriesSound
<1> HIDE DEF b
<1>3. RadiusSound(u, l) /\ Kin(b, u)
  BY <1>2, OpenSocketSound
<1> HIDE DEF u
<1>4. a \in RadiusState /\ b \in RadiusState /\ r \in RadiusState /\ u \in RadiusState
  BY <1>1, <1>2, <1>3 DEF RadiusSound
<1>5. Timed(a) => Timed(b)
  BY <1>2, <1>4, StateFields, EmptyLen DEF Timed
<1>6. Len(u.msgs) <= Len(r.msgs)
  BY <1>1, <1>2, <1>3, <1>4, StateFields DEF Kin
<1>7. Kin(r, u)
  BY <1>1, <1>2, <1>3, <1>5, <1>6 DEF Kin, SameRest
<1> QED BY <1>3, <1>7 DEF radius_change_server, u, b, a, l

\* Trying the servers for a first socket changes no request.
LEMMA InitSockSound ==
  ASSUME NEW k, NEW r, RadiusSound(r, k), NEW kind \in RadiusKinds, NEW reach
  PROVE  LET u == radius_client_init_sock(r, kind, reach)
         IN RadiusSound(u, k) /\ Kin(r, u) /\ u.msgs = r.msgs /\ u.num_msgs = r.num_msgs
<1> DEFINE v == [r EXCEPT !.sock[kind] = 0]
           u == radius_client_init_sock(r, kind, reach)
<1>1. r \in RadiusState /\ Len(r.msgs) \in Nat /\ r.server[kind] \in RadiusServers
  BY StateFields DEF RadiusSound
<1>2. v \in RadiusState /\ v.msgs = r.msgs /\ v.num_msgs = r.num_msgs /\ v.next_id = r.next_id
      /\ v.built = r.built /\ v.server = r.server /\ v.freed = r.freed /\ v.timer = r.timer
  BY <1>1 DEF RadiusState
<1>3. u = OpenSocket(v, kind, r.server[kind], reach)
  BY DEF radius_client_init_sock
<1> HIDE DEF v, u
<1>4. RadiusSound(v, k)
  BY <1>2 DEF RadiusSound
<1>5. RadiusSound(u, k) /\ Kin(v, u) /\ u.msgs = v.msgs /\ u.num_msgs = v.num_msgs
  BY <1>1, <1>3, <1>4, OpenSocketSound
<1>6. Kin(r, u)
  BY <1>2, <1>5 DEF Kin, Timed
<1> QED BY <1>2, <1>5, <1>6 DEF u

\* Opening a socket on demand changes no request.
LEMMA EnsureSocketSound ==
  ASSUME NEW k, NEW r, RadiusSound(r, k), NEW kind \in RadiusKinds, NEW reach
  PROVE  LET u == EnsureSocket(r, kind, reach)
         IN RadiusSound(u, k) /\ Kin(r, u) /\ u.msgs = r.msgs /\ u.num_msgs = r.num_msgs
<1>1. r \in RadiusState /\ Len(r.msgs) \in Nat BY StateFields DEF RadiusSound
<1>2. Kin(r, r) BY <1>1 DEF Kin
<1> QED BY <1>2, InitSockSound DEF EnsureSocket

\* A send, failed or not, changes no request.
LEMMA SendDatagramSound ==
  ASSUME NEW k, NEW r, RadiusSound(r, k), NEW kind \in RadiusKinds, NEW fails, NEW reach
  PROVE  LET u == SendDatagram(r, kind, fails, reach)
         IN RadiusSound(u, k) /\ Kin(r, u) /\ u.msgs = r.msgs /\ u.num_msgs = r.num_msgs
<1>1. r \in RadiusState /\ Len(r.msgs) \in Nat BY StateFields DEF RadiusSound
<1>2. Kin(r, r) BY <1>1 DEF Kin
<1> QED BY <1>2, InitSockSound DEF SendDatagram

\* The state between two events, with the secret of the current server.
RadiusGood(r) == RadiusSound(r, SharedSecret(r.server["auth"]))

\* What a step leaves alone that may change the server.
Mate(r, u) == u.built = r.built /\ u.freed = r.freed /\ (Timed(r) => Timed(u))

\* Making another server current keeps the list sound for that server.
LEMMA SwitchSound ==
  ASSUME sameSecret \in BOOLEAN, NEW kind \in RadiusKinds, NEW new \in RadiusServers,
         NEW reach, NEW r, RadiusGood(r)
  PROVE  LET u == radius_change_server([r EXCEPT !.server[kind] = new], kind, new,
                                       r.server[kind], reach)
         IN RadiusGood(u) /\ Mate(r, u) /\ u.server = [r.server EXCEPT ![kind] = new]
<1> DEFINE v == [r EXCEPT !.server[kind] = new]
           old == r.server[kind]
           k == SharedSecret(r.server["auth"])
           u == radius_change_server(v, kind, new, old, reach)
<1>1. r \in RadiusState /\ old \in RadiusServers /\ r.server \in [RadiusKinds -> RadiusServers]
  BY StateFields DEF RadiusGood, RadiusSound
<1>2. v \in RadiusState /\ v.msgs = r.msgs /\ v.num_msgs = r.num_msgs /\ v.next_id = r.next_id
      /\ v.built = r.built /\ v.server = [r.server EXCEPT ![kind] = new]
      /\ v.freed = r.freed /\ v.timer = r.timer
  BY <1>1 DEF RadiusState
<1>3. kind = "auth" => k = SharedSecret(old)
  OBVIOUS
<1> HIDE DEF v
<1>4. RadiusSound(v, k)
  BY <1>2 DEF RadiusSound, RadiusGood
<1> HIDE DEF k, old, u
<1>5. RadiusSound(u, IF kind = "auth" THEN SharedSecret(new) ELSE k) /\ Kin(v, u)
  BY <1>1, <1>3, <1>4, ChangeServerSound DEF u
<1>6. u.server = [r.server EXCEPT ![kind] = new]
  BY <1>2, <1>5 DEF Kin
<1>7. SharedSecret(u.server["auth"]) = IF kind = "auth" THEN SharedSecret(new) ELSE k
  <2>1. u.server["auth"] = IF kind = "auth" THEN new ELSE r.server["auth"]
    BY <1>1, <1>6 DEF RadiusKinds
  <2> QED BY <2>1 DEF k
<1>8. RadiusGood(u)
  BY <1>5, <1>7 DEF RadiusGood
<1>9. Mate(r, u)
  BY <1>2, <1>5 DEF Mate, Kin, Timed
<1> QED BY <1>6, <1>8, <1>9 DEF u, v, old

\* So does the failover to the next server.
LEMMA FailoverSound ==
  ASSUME sameSecret \in BOOLEAN, NEW kind \in RadiusKinds, NEW reach, NEW r, RadiusGood(r)
  PROVE  LET u == radius_client_failover(r, kind, reach) IN RadiusGood(u) /\ Mate(r, u)
<1> DEFINE old == r.server[kind]
           new == IF old = NumServers THEN 1 ELSE old + 1
<1>1. old \in RadiusServers
  BY StateFields DEF RadiusGood, RadiusSound
<1>2. new \in RadiusServers
  BY <1>1, RadiusConstants DEF RadiusServers
<1>3. radius_client_failover(r, kind, reach) =
        radius_change_server([r EXCEPT !.server[kind] = new], kind, new, old, reach)
  BY DEF radius_client_failover
<1> DEFINE u == radius_change_server([r EXCEPT !.server[kind] = new], kind, new,
                                     r.server[kind], reach)
<1> HIDE DEF new
<1>4. RadiusGood(u) /\ Mate(r, u)
  BY <1>2, SwitchSound
<1> QED BY <1>3, <1>4

\* A request number finds its own entry.
LEMMA EntryIs ==
  ASSUME NEW r \in RadiusState, Numbered(r.msgs), NEW j \in 1 .. Len(r.msgs)
  PROVE  Entry(r, r.msgs[j].n) = r.msgs[j]
<1>1. DOMAIN r.msgs = 1 .. Len(r.msgs) BY StateFields
<1>2. (CHOOSE x \in DOMAIN r.msgs : r.msgs[x].n = r.msgs[j].n) = j
  BY <1>1 DEF Numbered
<1> QED BY <1>2 DEF Entry

\* A retransmission raises the counters of one entry and no other's.
LEMMA ResendSound ==
  ASSUME NEW r, RadiusGood(r), NEW n, NEW kind \in RadiusKinds, NEW fails, NEW reach
  PROVE  LET u == ResendEntry(r, n, kind, fails, reach) IN RadiusGood(u) /\ u.built = r.built
<1> DEFINE C(m) == IF m.n = n THEN [m EXCEPT !.attempts = @ + 1, !.accu_attempts = @ + 1] ELSE m
           s == [i \in DOMAIN r.msgs |-> C(r.msgs[i])]
           k == SharedSecret(r.server["auth"])
           v == [r EXCEPT !.msgs = s]
           u == ResendEntry(r, n, kind, fails, reach)
<1>1. r \in RadiusState /\ RadiusSound(r, k) BY DEF RadiusSound, RadiusGood
<1>2. CASE TooManyAttempts(Entry(r, n))
  <2>1. u = RemoveEntries(r, {n}) BY <1>2 DEF ResendEntry
  <2> HIDE DEF u, k
  <2>2. RadiusSound(u, k) /\ SameRest(r, u) BY <1>1, <2>1, RemoveEntriesSound
  <2> QED BY <2>2 DEF RadiusGood, SameRest, u, k
<1>3. CASE ~TooManyAttempts(Entry(r, n))
  <2>1. u = SendDatagram(v, kind, fails, reach)
    BY <1>3 DEF ResendEntry, ChangeEntry, EachEntry
  <2>2. ASSUME NEW i \in 1 .. Len(r.msgs)
        PROVE  /\ r.msgs[i] \in RadiusEntries
               /\ r.msgs[i].n = n => r.msgs[i].accu_attempts + 1 <= MaxAttempts
               /\ r.msgs[i].attempts <= r.msgs[i].accu_attempts
    <3>1. r.msgs[i] \in RadiusEntries BY <1>1, StateFields
    <3>2. r.msgs[i].n = n => Entry(r, n) = r.msgs[i]
      BY <1>1, EntryIs DEF RadiusSound
    <3>3. r.msgs[i].attempts <= r.msgs[i].accu_attempts
      BY <1>1 DEF RadiusSound, Attempted
    <3> QED BY <1>3, <3>1, <3>2, <3>3, EntryFields, MaxAttemptsNat DEF TooManyAttempts
  <2>3. \A m \in RadiusEntries :
          (m.n = n => m.accu_attempts + 1 <= MaxAttempts) /\ m.attempts <= m.accu_attempts =>
          /\ C(m) \in RadiusEntries /\ C(m).n = m.n /\ C(m).id = m.id
          /\ C(m).attempts <= C(m).accu_attempts
          /\ C(m).type = m.type /\ C(m).secret = m.secret
    <3> SUFFICES ASSUME NEW m \in RadiusEntries, m.n = n => m.accu_attempts + 1 <= MaxAttempts,
                        m.attempts <= m.accu_attempts
                 PROVE  /\ C(m) \in RadiusEntries /\ C(m).n = m.n /\ C(m).id = m.id
                        /\ C(m).attempts <= C(m).accu_attempts
                        /\ C(m).type = m.type /\ C(m).secret = m.secret
      OBVIOUS
    <3>1. CASE m.n # n
      <4>1. C(m) = m BY <3>1
      <4> QED BY <4>1
    <3>2. CASE m.n = n
      <4> DEFINE a == m.attempts + 1
                 b == m.accu_attempts + 1
      <4>1. C(m) = [m EXCEPT !.attempts = a, !.accu_attempts = b]
        BY <3>2
      <4>2. a \in 0 .. MaxAttempts /\ b \in 1 .. MaxAttempts /\ a <= b
        BY <3>2, EntryFields, MaxAttemptsNat
      <4> HIDE DEF a, b, C
      <4> QED BY <4>1, <4>2 DEF RadiusEntries
    <3> QED BY <3>1, <3>2
  <2> HIDE DEF C
  <2>4. \A i \in 1 .. Len(r.msgs) : C(r.msgs[i]) \in RadiusEntries
    BY <2>2, <2>3
  <2>5. s \in Seq(RadiusEntries) /\ Len(s) = Len(r.msgs)
        /\ \A i \in 1 .. Len(s) : s[i] = C(r.msgs[i])
    BY <1>1, <2>4, StateFields
  <2> HIDE DEF s, k
  <2>6. Identified(s) /\ Secret(s, k) /\ \A i \in 1 .. Len(s) : s[i].n = r.msgs[i].n
    BY SMTT(30), <1>1, <2>2, <2>3, <2>5 DEF RadiusSound, Identified, Secret
  <2>7. Attempted(s)
    BY <1>1, <2>2, <2>3, <2>5 DEF Attempted
  <2>8. RadiusSound(v, k) /\ SameRest(r, v)
    BY <1>1, <2>5, <2>6, <2>7, EntriesChanged
  <2> HIDE DEF v, u
  <2>9. RadiusSound(u, k) /\ Kin(v, u)
    BY <2>1, <2>8, SendDatagramSound
  <2> QED BY <2>8, <2>9 DEF RadiusGood, SameRest, Kin, u, k
<1> QED BY <1>2, <1>3
\* Moving a request to a new identifier leaves identifiers unique.
LEMMA NewIdentifierSound ==
  ASSUME NEW r, RadiusGood(r), NEW n
  PROVE  LET u == NewIdentifier(r, n) IN RadiusGood(u) /\ u.built = r.built
<1> DEFINE g == radius_client_get_id(r)
           k == SharedSecret(r.server["auth"])
           C(m) == IF m.n = n THEN [m EXCEPT !.id = r.next_id] ELSE m
           s == [i \in DOMAIN g.msgs |-> C(g.msgs[i])]
           u == NewIdentifier(r, n)
<1>1. r \in RadiusState /\ RadiusSound(r, k) BY DEF RadiusSound, RadiusGood
<1>2. /\ RadiusSound(g, k) /\ g.built = r.built /\ g.server = r.server
      /\ \A i \in 1 .. Len(g.msgs) : g.msgs[i].id # r.next_id
  <2> HIDE DEF k
  <2> QED BY <1>1, GetIdSound
<1>3. g \in RadiusState BY <1>2 DEF RadiusSound
<1> HIDE DEF g, k
<1>4. CASE r.next_id = Entry(r, n).id
  <2>1. u = [g EXCEPT !.freed = TRUE] BY <1>4 DEF NewIdentifier, g
  <2> HIDE DEF u
  <2>2. u \in RadiusState /\ u.msgs = g.msgs /\ u.num_msgs = g.num_msgs /\ u.built = g.built
        /\ u.server = g.server
    BY <1>3, <2>1 DEF RadiusState
  <2>3. RadiusSound(u, k)
    BY <1>2, <2>2 DEF RadiusSound
  <2> QED BY <1>2, <2>2, <2>3 DEF RadiusGood, u, k
<1>5. CASE r.next_id # Entry(r, n).id
  <2>1. u = [g EXCEPT !.msgs = s]
    BY <1>5 DEF NewIdentifier, ChangeEntry, EachEntry, g
  <2>2. \A m \in RadiusEntries :
          /\ C(m) \in RadiusEntries /\ C(m).n = m.n
          /\ C(m).id = (IF m.n = n THEN r.next_id ELSE m.id)
          /\ C(m).attempts = m.attempts /\ C(m).accu_attempts = m.accu_attempts
          /\ C(m).type = m.type /\ C(m).secret = m.secret
    BY <1>1, StateFields DEF RadiusEntries
  <2> HIDE DEF C
  <2>3. s \in Seq(RadiusEntries) /\ Len(s) = Len(g.msgs)
        /\ \A i \in 1 .. Len(s) : s[i] = C(g.msgs[i])
    BY <1>3, <2>2, StateFields
  <2>4. \A i \in 1 .. Len(s) : g.msgs[i] \in RadiusEntries
    BY <1>3, <2>3, StateFields
  <2> HIDE DEF s
  <2>5. Attempted(s) /\ Secret(s, k) /\ \A i \in 1 .. Len(s) : s[i].n = g.msgs[i].n
    BY <1>2, <2>2, <2>3, <2>4 DEF RadiusSound, Attempted, Secret
  <2>6. Identified(s)
    <3> SUFFICES ASSUME NEW i \in 1 .. Len(s), NEW j \in 1 .. Len(s), s[i].id = s[j].id
                 PROVE  i = j
      BY DEF Identified
    <3>1. s[i].id = (IF g.msgs[i].n = n THEN r.next_id ELSE g.msgs[i].id)
          /\ s[j].id = (IF g.msgs[j].n = n THEN r.next_id ELSE g.msgs[j].id)
      BY <2>2, <2>3, <2>4
    <3>2. g.msgs[i].id # r.next_id /\ g.msgs[j].id # r.next_id
      BY <1>2, <2>3
    <3>3. g.msgs[i].n = g.msgs[j].n \/ g.msgs[i].id = g.msgs[j].id
      BY <3>1, <3>2
    <3> QED BY <1>2, <2>3, <3>3 DEF RadiusSound, Numbered, Identified
  <2>7. RadiusSound(u, k) /\ SameRest(g, u)
    BY <1>2, <2>1, <2>3, <2>5, <2>6, EntriesChanged
  <2> QED BY <1>2, <2>7 DEF RadiusGood, SameRest, k
<1> QED BY <1>4, <1>5

\* Removing requests keeps the invariant and the timer's cover.
LEMMA RemoveGood ==
  ASSUME NEW r, RadiusGood(r), NEW requests
  PROVE  LET u == RemoveEntries(r, requests) IN RadiusGood(u) /\ u.built = r.built /\ (Timed(r)
             => Timed(u))
<1> DEFINE k == SharedSecret(r.server["auth"])
           u == RemoveEntries(r, requests)
<1> HIDE DEF k
<1>1. RadiusSound(r, k) BY DEF RadiusGood, k
<1>2. RadiusSound(u, k) /\ SameRest(r, u) /\ u.timer = r.timer /\ Len(u.msgs) <= Len(r.msgs)
  BY <1>1, RemoveEntriesSound
<1>3. r \in RadiusState /\ u \in RadiusState BY <1>1, <1>2 DEF RadiusSound
<1>4. u.msgs # <<>> => r.msgs # <<>>
  BY <1>2, <1>3, StateFields, EmptyLen
<1> QED BY <1>2, <1>4 DEF RadiusGood, SameRest, Timed, k

\* So does opening a socket.
LEMMA EnsureGood ==
  ASSUME NEW r, RadiusGood(r), NEW kind \in RadiusKinds, NEW reach
  PROVE  LET u == EnsureSocket(r, kind, reach)
         IN RadiusGood(u) /\ Mate(r, u)
<1> DEFINE k == SharedSecret(r.server["auth"])
           u == EnsureSocket(r, kind, reach)
<1> HIDE DEF k
<1>1. RadiusSound(r, k) BY DEF RadiusGood, k
<1>2. RadiusSound(u, k) /\ Kin(r, u)
  BY <1>1, EnsureSocketSound
<1> QED BY <1>2 DEF RadiusGood, Kin, Mate, k

\* The states a run of the timer handler goes through.
Stage(b) == {u \in RadiusState : RadiusGood(u) /\ u.built = b}

\* One entry's turn in the timer's walk keeps the invariant.
LEMMA RetransmitSound ==
  ASSUME sameSecret \in BOOLEAN, NEW b, NEW r \in Stage(b), NEW n, NEW fails, NEW reach
  PROVE  radius_client_retransmit(r, n, fails, reach) \in Stage(b)
<1> DEFINE type == Entry(r, n).type
           kind == RadiusKind(type)
           opened == EnsureSocket(r, kind, reach)
           resend == [u \in RadiusState |->
                        IF u.freed THEN u ELSE ResendEntry(u, n, kind, fails, reach)]
           send == [u \in RadiusState |->
                      IF u.num_msgs # r.num_msgs THEN u
                      ELSE IF type = "ACCT_INTERIM" \/ u.sock[kind] = 0 THEN RemoveEntries(u, {n})
                      ELSE resend[IF type = "ACCT" THEN NewIdentifier(u, n) ELSE u]]
           v == IF opened.sock[kind] = 0 /\ NumServers > 1
                THEN radius_client_failover(opened, kind, reach) ELSE opened
<1>0. \A u : RadiusGood(u) => u \in RadiusState BY DEF RadiusGood, RadiusSound
<1>1. kind \in RadiusKinds BY DEF RadiusKind, RadiusKinds
<1>2. radius_client_retransmit(r, n, fails, reach) = send[v]
  BY DEF radius_client_retransmit
<1> HIDE DEF type, kind
<1>3. RadiusGood(opened) /\ opened.built = b
  BY <1>1, EnsureGood DEF Stage, Mate
<1> HIDE DEF opened
<1>4. RadiusGood(v) /\ v.built = b
  BY <1>1, <1>3, FailoverSound DEF Mate
<1> HIDE DEF v
<1>5. ASSUME NEW u, RadiusGood(u), u.built = b PROVE resend[u] \in Stage(b)
  <2>1. resend[u] = IF u.freed THEN u ELSE ResendEntry(u, n, kind, fails, reach)
    BY <1>0, <1>5
  <2> HIDE DEF resend
  <2>2. RadiusGood(ResendEntry(u, n, kind, fails, reach))
            /\ ResendEntry(u, n, kind, fails, reach).built = u.built
    BY <1>1, <1>5, ResendSound
  <2> QED BY <1>0, <1>5, <2>1, <2>2 DEF Stage
<1> HIDE DEF resend
<1>6. send[v] = IF v.num_msgs # r.num_msgs THEN v
                ELSE IF type = "ACCT_INTERIM" \/ v.sock[kind] = 0 THEN RemoveEntries(v, {n})
                ELSE resend[IF type = "ACCT" THEN NewIdentifier(v, n) ELSE v]
  BY <1>0, <1>4
<1> HIDE DEF send
<1>7. RemoveEntries(v, {n}) \in Stage(b)
  BY <1>0, <1>4, RemoveGood DEF Stage
<1>8. resend[IF type = "ACCT" THEN NewIdentifier(v, n) ELSE v] \in Stage(b)
  BY <1>4, <1>5, NewIdentifierSound
<1>9. v \in Stage(b) BY <1>0, <1>4 DEF Stage
<1> QED BY <1>2, <1>6, <1>7, <1>8, <1>9

\* So does the whole walk over the requests that are due.
LEMMA RetryAllSound ==
  ASSUME sameSecret \in BOOLEAN, NEW b, NEW r \in Stage(b), NEW due, NEW fails, NEW reach
  PROVE  RetryAll(r, due, fails, reach) \in Stage(b)
<1> DEFINE n == Len(r.msgs)
           A(u, i) == IF u.freed \/ r.msgs[i].n \notin due \/ ~Pending(u, r.msgs[i].n) THEN u
                      ELSE radius_client_retransmit(u, r.msgs[i].n, fails, reach)
           retry == [p \in RadiusState \X DOMAIN r.msgs |-> A(p[1], p[2])]
           G(f) == f = [i \in 0 .. n |-> IF i = 0 THEN r ELSE retry[<<f[i-1], i>>]]
           F == CHOOSE f : G(f)
           T == Stage(b)
<1>1. RetryAll(r, due, fails, reach) = F[n]
  BY Zenon DEF RetryAll
<1>2. n \in Nat /\ DOMAIN r.msgs = 1 .. n /\ r \in T
  BY StateFields DEF Stage
<1>3. ASSUME NEW u \in T, NEW i \in 1 .. n PROVE retry[<<u, i>>] \in T
  <2>1. u \in RadiusState BY DEF Stage
  <2>2. retry[<<u, i>>] = A(u, i)
    <3> HIDE DEF A
    <3> QED BY <1>2, <2>1
  <2> HIDE DEF retry, T
  <2>3. radius_client_retransmit(u, r.msgs[i].n, fails, reach) \in T
    BY RetransmitSound DEF T
  <2> QED BY <2>2, <2>3
<1>4. DefinedBy(F, r, n, retry)
  <2> HIDE DEF retry, n
  <2> QED BY Zenon DEF DefinedBy
<1> HIDE DEF F, T, retry, n, G
<1>5. Iterates(F, T, r, n, retry)
  BY <1>2, <1>3, <1>4, ChosenRecursion
<1>6. F[n] \in T
  BY <1>2, <1>5 DEF Iterates
<1> QED BY <1>1, <1>6 DEF T

\* s is a list with the new entry m in front of entries of t.
LEMMA FrontOfList ==
  ASSUME NEW k, NEW b \in Nat, NEW m \in RadiusEntries, NEW t \in Seq(RadiusEntries),
         NEW s \in Seq(RadiusEntries), Len(s) >= 1, Len(s) <= Len(t) + 1, s[1] = m,
         \A i \in 2 .. Len(s) : s[i] = t[i-1],
         Numbered(t), Identified(t), Attempted(t), Secret(t, k), Built(t, b),
         m.n = b + 1, \A i \in 1 .. Len(t) : t[i].id # m.id, m.attempts <= m.accu_attempts,
         m.type = "AUTH" => m.secret = k
  PROVE  Numbered(s) /\ Identified(s) /\ Attempted(s) /\ Secret(s, k) /\ Built(s, b + 1)
<1>1. Len(s) \in Nat /\ Len(t) \in Nat OBVIOUS
<1>2. \A i \in 2 .. Len(s) : i - 1 \in 1 .. Len(t) BY <1>1
<1>3. \A i \in 1 .. Len(t) : t[i].n \in Nat /\ t[i].n <= b
  BY EntryFields DEF Built
<1>4. \A i \in 1 .. Len(s) : i = 1 \/ i \in 2 .. Len(s) BY <1>1
<1>5. Numbered(s)
  <2> SUFFICES ASSUME NEW i \in 1 .. Len(s), NEW j \in 1 .. Len(s), s[i].n = s[j].n
               PROVE  i = j
    BY DEF Numbered
  <2>1. CASE i = 1 /\ j \in 2 .. Len(s) BY <1>2, <1>3, <2>1
  <2>2. CASE j = 1 /\ i \in 2 .. Len(s) BY <1>2, <1>3, <2>2
  <2>3. CASE i \in 2 .. Len(s) /\ j \in 2 .. Len(s)
    <3>1. i - 1 = j - 1 BY <1>2, <2>3 DEF Numbered
    <3> QED BY <3>1, <2>3
  <2> QED BY <1>4, <2>1, <2>2, <2>3
<1>6. Identified(s)
  <2> SUFFICES ASSUME NEW i \in 1 .. Len(s), NEW j \in 1 .. Len(s), s[i].id = s[j].id
               PROVE  i = j
    BY DEF Identified
  <2>1. CASE i = 1 /\ j \in 2 .. Len(s) BY <1>2, <2>1
  <2>2. CASE j = 1 /\ i \in 2 .. Len(s) BY <1>2, <2>2
  <2>3. CASE i \in 2 .. Len(s) /\ j \in 2 .. Len(s)
    <3>1. i - 1 = j - 1 BY <1>2, <2>3 DEF Identified
    <3> QED BY <3>1, <2>3
  <2> QED BY <1>4, <2>1, <2>2, <2>3
<1>7. Attempted(s)
  BY <1>2, <1>4 DEF Attempted
<1>8. Secret(s, k)
  BY <1>2, <1>4 DEF Secret
<1>9. Built(s, b + 1)
  <2> SUFFICES ASSUME NEW i \in 1 .. Len(s) PROVE s[i].n <= b + 1
    BY DEF Built
  <2>1. CASE i = 1 BY <2>1
  <2>2. CASE i \in 2 .. Len(s)
    <3>1. i - 1 \in 1 .. Len(t) /\ s[i] = t[i-1] BY <1>2, <2>2
    <3>2. t[i-1].n \in Nat /\ t[i-1].n <= b BY <1>3, <3>1
    <3> QED BY <3>1, <3>2
  <2> QED BY <1>4, <2>1, <2>2
<1> QED BY <1>5, <1>6, <1>7, <1>8, <1>9

\* A request with a free identifier can join the list.
LEMMA ListAddSound ==
  ASSUME NEW k, NEW r, RadiusSound(r, k), NEW b \in Nat, r.built = b + 1, Built(r.msgs, b),
         NEW m \in RadiusEntries, m.n = b + 1, \A i \in 1 .. Len(r.msgs) : r.msgs[i].id # m.id,
         m.attempts <= m.accu_attempts, m.type = "AUTH" => m.secret = k
  PROVE  LET u == radius_client_list_add(r, m)
         IN RadiusSound(u, k) /\ u.timer /\ u.server = r.server
<1> DEFINE t == <<m>> \o r.msgs
           full == r.num_msgs >= RadiusMaxEntries
           s == IF full /\ Len(t) > 1 THEN Front(t) ELSE t
           c == IF full THEN r.num_msgs ELSE r.num_msgs + 1
           u == radius_client_list_add(r, m)
<1>1. r \in RadiusState /\ r.msgs \in Seq(RadiusEntries) /\ Len(r.msgs) \in Nat
          /\ r.num_msgs \in Nat
  BY StateFields DEF RadiusSound
<1>2. u = [r EXCEPT !.timer = TRUE, !.msgs = s, !.num_msgs = c]
  BY <1>1 DEF radius_client_list_add, RadiusState
<1>3. t \in Seq(RadiusEntries) /\ Len(t) = Len(r.msgs) + 1 /\ t[1] = m
      /\ \A i \in 2 .. Len(t) : t[i] = r.msgs[i-1]
  BY <1>1
<1> HIDE DEF t, full
<1>4. /\ s \in Seq(RadiusEntries) /\ Len(s) >= 1 /\ Len(s) <= Len(t) /\ s[1] = m
      /\ (\A i \in 2 .. Len(s) : s[i] = r.msgs[i-1])
      /\ Len(s) = (IF full /\ Len(t) > 1 THEN Len(r.msgs) ELSE Len(r.msgs) + 1)
  <2>1. CASE full /\ Len(t) > 1
    <3>1. s = SubSeq(t, 1, Len(t) - 1) BY <2>1 DEF Front
    <3> HIDE DEF s
    <3>2. s \in Seq(RadiusEntries) /\ Len(s) = Len(t) - 1 /\ \A i \in 1 .. Len(s) : s[i] = t[i]
      BY <1>1, <1>3, <2>1, <3>1
    <3>3. Len(s) >= 1 /\ Len(s) <= Len(t) /\ Len(s) = Len(r.msgs) /\ s[1] = m
      BY <1>1, <1>3, <2>1, <3>2
    <3>4. ASSUME NEW i \in 2 .. Len(s) PROVE s[i] = r.msgs[i-1]
      <4>1. i \in 1 .. Len(s) /\ i \in 2 .. Len(t) BY <1>1, <1>3, <3>3
      <4> QED BY <1>3, <3>2, <4>1
    <3> QED BY <2>1, <3>2, <3>3, <3>4
  <2>2. CASE ~(full /\ Len(t) > 1)
    <3>1. s = t BY <2>2
    <3> HIDE DEF s
    <3> QED BY <1>1, <1>3, <2>2, <3>1
  <2> QED BY <2>1, <2>2
<1>5. Within(s, c)
  <2> HIDE DEF s
  <2>1. r.num_msgs <= RadiusMaxEntries /\ Len(r.msgs) <= r.num_msgs BY DEF RadiusSound, Within
  <2> QED BY <1>1, <1>3, <1>4, <2>1, RadiusConstants DEF Within, full
<1> HIDE DEF s
<1>6. Numbered(s) /\ Identified(s) /\ Attempted(s) /\ Secret(s, k) /\ Built(s, b + 1)
  <2>1. Numbered(r.msgs) /\ Identified(r.msgs) /\ Attempted(r.msgs) /\ Secret(r.msgs, k)
    BY DEF RadiusSound
  <2> DEFINE q == r.msgs
  <2>2. q \in Seq(RadiusEntries) /\ Len(s) <= Len(q) + 1 BY <1>1, <1>3, <1>4
  <2>3. Built(q, b) /\ (\A i \in 1 .. Len(q) : q[i].id # m.id)
        /\ \A i \in 2 .. Len(s) : s[i] = q[i-1]
    BY <1>4
  <2> HIDE DEF q
  <2> QED BY <1>4, <2>1, <2>2, <2>3, FrontOfList DEF q
<1>7. c \in Nat BY <1>1
<1> HIDE DEF u, c
<1>8. u \in RadiusState /\ u.msgs = s /\ u.num_msgs = c /\ u.built = b + 1 /\ u.timer
      /\ u.server = r.server
  BY <1>1, <1>2, <1>4, <1>7 DEF RadiusState
<1>9. RadiusSound(u, k)
  BY <1>5, <1>6, <1>8 DEF RadiusSound
<1> QED BY <1>8, <1>9 DEF u

\* Going back to the primary server keeps the invariant.
LEMMA RetryPrimarySound ==
  ASSUME sameSecret \in BOOLEAN, NEW kind \in RadiusKinds, NEW reach, NEW r, RadiusGood(r)
  PROVE  LET u == RetryPrimary(r, kind, reach) IN RadiusGood(u) /\ Mate(r, u)
<1> DEFINE old == r.server[kind]
           a == radius_change_server([r EXCEPT !.server[kind] = 1], kind, 1, r.server[kind], reach)
           c == radius_change_server([a EXCEPT !.server[kind] = old], kind, old, old, reach)
           u == RetryPrimary(r, kind, reach)
<1>1. r \in RadiusState /\ old \in RadiusServers /\ 1 \in RadiusServers
  BY StateFields, RadiusConstants DEF RadiusGood, RadiusSound, RadiusServers
<1>2. u = IF r.sock[kind] = 0 \/ old = 1 THEN r ELSE IF 1 \in reach THEN a ELSE c
  BY DEF RetryPrimary
<1>3. RadiusGood(a) /\ Mate(r, a) /\ a.server = [r.server EXCEPT ![kind] = 1]
  BY <1>1, SwitchSound
<1>4. Mate(r, r) BY DEF Mate
<1> HIDE DEF u, a
\* The change back starts from the secret of the primary server, but is made as
\* if the old one had never been left: it flushes.
<1>5. RadiusGood(c) /\ Mate(a, c)
  <2> DEFINE v == [a EXCEPT !.server[kind] = old]
             k == SharedSecret(a.server["auth"])
  <2>1. a \in RadiusState /\ a.server \in [RadiusKinds -> RadiusServers]
    BY <1>3, StateFields DEF RadiusGood, RadiusSound
  <2>2. v \in RadiusState /\ v.msgs = a.msgs /\ v.num_msgs = a.num_msgs /\ v.next_id = a.next_id
        /\ v.built = a.built /\ v.server = [a.server EXCEPT ![kind] = old]
        /\ v.freed = a.freed /\ v.timer = a.timer
    BY <1>1, <2>1 DEF RadiusState
  <2>3. c = radius_change_server(v, kind, old, old, reach)
    OBVIOUS
  <2> HIDE DEF v, c, k, old
  <2>4. RadiusSound(v, k)
    BY <1>3, <2>2 DEF RadiusSound, RadiusGood, k
  <2>5. RadiusSound(c, IF kind = "auth" THEN SharedSecret(old) ELSE k) /\ Kin(v, c)
    BY <1>1, <2>3, <2>4, ChangeServerSound
  <2>6. c.server["auth"] = IF kind = "auth" THEN old ELSE a.server["auth"]
    BY <2>1, <2>2, <2>5 DEF Kin, RadiusKinds
  <2>7. RadiusGood(c)
    BY <2>5, <2>6 DEF RadiusGood, k
  <2> QED BY <2>2, <2>5, <2>7 DEF Mate, Kin, Timed
<1>6. Mate(r, a) /\ Mate(a, c) => Mate(r, c) BY DEF Mate
<1> QED BY <1>2, <1>3, <1>4, <1>5, <1>6 DEF u
-----------------------------------------------------------------------------
(* The inductive invariant and the theorems. *)

RadiusInv == sameSecret \in BOOLEAN /\ RadiusGood(radius) /\ Timed(radius)

\* A step to a good and timed state keeps the invariant.
LEMMA StepTo ==
  ASSUME RadiusInv, NEW u, RadiusGood(u), Timed(u), radius' = u, UNCHANGED sameSecret
  PROVE  RadiusInv'
BY DEF RadiusInv, RadiusGood, Timed, SharedSecret, RadiusSound, Numbered, Identified,
   Attempted, Built, Within, Secret, RadiusState, RadiusEntries, MaxAttempts, RadiusServers

\* radius_client_send keeps the invariant, whichever send fails.
LEMMA RadiusSendStep ==
  ASSUME RadiusInv, NEW type \in RadiusTypes, NEW sta \in RadiusStations, NEW fails, NEW reach,
         radius_client_send(type, sta, fails, reach)
  PROVE  RadiusInv'
<1> DEFINE kind == RadiusKind(type)
           b == radius.built
           k == SharedSecret(radius.server["auth"])
           m == [n |-> b + 1, type |-> type, sta |-> sta, id |-> radius.next_id,
                 attempts |-> 1, accu_attempts |-> 1,
                 secret |-> SharedSecret(radius.server[kind])]
           g == radius_client_get_id(radius)
           v == [g EXCEPT !.built = @ + 1]
           r == EnsureSocket(v, kind, reach)
           d == SendDatagram(r, kind, fails, reach)
           l == radius_client_list_add(d, m)
<1>1. sameSecret \in BOOLEAN /\ RadiusSound(radius, k) /\ Timed(radius) /\ radius \in RadiusState
  BY DEF RadiusInv, RadiusGood, RadiusSound
<1>2. b < MaxRequests /\ radius' = (IF r.sock[kind] = 0 THEN r ELSE l) /\ UNCHANGED sameSecret
  BY DEF radius_client_send
<1>3. kind \in RadiusKinds /\ (type = "AUTH" => kind = "auth")
  BY DEF RadiusKind, RadiusKinds
<1>4. b \in Nat /\ b + 1 \in 1 .. MaxRequests
  BY <1>1, <1>2, StateFields, RadiusConstants
<1>5. m \in RadiusEntries /\ m.n = b + 1 /\ m.id = radius.next_id /\ m.attempts <= m.accu_attempts
      /\ (m.type = "AUTH" => m.secret = k)
  <2>1. SharedSecret(radius.server[kind]) \in RadiusServers
    BY <1>1, <1>3, StateFields, SharedSecretType
  <2> QED BY <1>1, <1>3, <1>4, <2>1, StateFields, MaxAttemptsNat DEF RadiusEntries
<1> HIDE DEF m, k, kind
<1>6. /\ RadiusSound(g, k) /\ g.timer = radius.timer /\ g.built = b
      /\ g.server = radius.server /\ Len(g.msgs) <= Len(radius.msgs)
      /\ \A i \in 1 .. Len(g.msgs) : g.msgs[i].id # radius.next_id
  BY <1>1, GetIdSound
<1> HIDE DEF g
<1>7. g \in RadiusState /\ Built(g.msgs, b) /\ Timed(g)
  <2>1. g \in RadiusState /\ Built(g.msgs, b) BY <1>6 DEF RadiusSound
  <2> QED BY <1>1, <1>6, <2>1, StateFields, EmptyLen DEF Timed
<1>8. /\ v \in RadiusState /\ v.msgs = g.msgs /\ v.num_msgs = g.num_msgs
      /\ v.built = b + 1 /\ v.server = g.server /\ v.timer = g.timer
  BY <1>4, <1>6, <1>7 DEF RadiusState
<1> HIDE DEF v
<1>9. RadiusSound(v, k)
  <2>1. \A i \in 1 .. Len(g.msgs) : g.msgs[i].n \in Nat
    BY <1>7, StateFields, EntryFields
  <2>2. Built(g.msgs, b + 1) BY <1>4, <1>7, <2>1 DEF Built
  <2> QED BY <1>6, <1>8, <2>2 DEF RadiusSound
<1> HIDE DEF b
<1>10. RadiusSound(r, k) /\ Kin(v, r) /\ r.msgs = v.msgs
  BY <1>3, <1>9, EnsureSocketSound
<1> HIDE DEF r
<1>11. RadiusSound(d, k) /\ Kin(r, d) /\ d.msgs = r.msgs
  BY <1>3, <1>10, SendDatagramSound
<1> HIDE DEF d
<1>12. RadiusSound(l, k) /\ l.timer /\ l.server = d.server
  <2>1. d.built = b + 1 /\ Built(d.msgs, b) /\ \A i \in 1 .. Len(d.msgs) : d.msgs[i].id # m.id
    BY <1>5, <1>6, <1>7, <1>8, <1>10, <1>11 DEF Kin
  <2> QED BY <1>4, <1>5, <1>11, <2>1, ListAddSound
<1> HIDE DEF l
<1>13. RadiusGood(r) /\ Timed(r)
  BY <1>6, <1>7, <1>8, <1>10 DEF RadiusGood, Kin, Timed, k
<1>14. RadiusGood(l) /\ Timed(l)
  BY <1>6, <1>8, <1>10, <1>11, <1>12 DEF RadiusGood, Kin, Timed, k
<1> QED BY <1>2, <1>13, <1>14, StepTo

\* radius_client_timer keeps it, with its walk and its failovers.
LEMMA TimerStep ==
  ASSUME RadiusInv, NEW due, NEW fails, NEW reach, radius_client_timer(due, fails, reach)
  PROVE  RadiusInv'
<1> DEFINE b == radius.built
           o == [radius EXCEPT !.timer = FALSE]
           auth == TimerFailover(o, "auth", due, reach)
           acct == TimerFailover(auth, "acct", due, reach)
           u == RetryAll(acct, due, fails, reach)
           v == [u EXCEPT !.timer = IF u.msgs # <<>> THEN TRUE ELSE @]
<1>1. sameSecret \in BOOLEAN /\ RadiusGood(radius) /\ radius \in RadiusState
  BY DEF RadiusInv, RadiusGood, RadiusSound
<1>2. radius' = v /\ UNCHANGED sameSecret
  BY DEF radius_client_timer
<1>3. o \in RadiusState /\ o.msgs = radius.msgs /\ o.num_msgs = radius.num_msgs
      /\ o.built = b /\ o.server = radius.server
  BY <1>1 DEF RadiusState
<1> HIDE DEF o
<1>4. RadiusGood(o)
  BY <1>1, <1>3 DEF RadiusGood, RadiusSound
<1>5. "auth" \in RadiusKinds /\ "acct" \in RadiusKinds BY DEF RadiusKinds
<1>6. ASSUME NEW kind \in RadiusKinds, NEW r, RadiusGood(r)
      PROVE  RadiusGood(TimerFailover(r, kind, due, reach))
                 /\ TimerFailover(r, kind, due, reach).built = r.built
  BY <1>1, <1>6, FailoverSound DEF TimerFailover, Mate
<1>7. RadiusGood(auth) /\ auth.built = b
  BY <1>3, <1>4, <1>5, <1>6
<1> HIDE DEF auth
<1>8. RadiusGood(acct) /\ acct.built = b
  BY <1>5, <1>6, <1>7
<1> HIDE DEF acct
<1>9. acct \in Stage(b)
  BY <1>8 DEF Stage, RadiusGood, RadiusSound
<1>10. u \in Stage(b)
  BY <1>1, <1>9, RetryAllSound
<1> HIDE DEF u
<1>11. u \in RadiusState /\ RadiusGood(u)
  BY <1>10 DEF Stage
<1>12. v \in RadiusState /\ v.msgs = u.msgs /\ v.num_msgs = u.num_msgs
      /\ v.built = u.built /\ v.server = u.server /\ Timed(v)
  BY <1>11 DEF RadiusState, Timed
<1> HIDE DEF v
<1>13. RadiusGood(v)
  BY <1>11, <1>12 DEF RadiusGood, RadiusSound
<1> QED BY <1>2, <1>12, <1>13, StepTo

\* Removing requests, an answered one or a station's, keeps it.
LEMMA RemoveStep ==
  ASSUME RadiusInv, NEW requests, radius' = RemoveEntries(radius, requests), UNCHANGED sameSecret
  PROVE  RadiusInv'
<1> DEFINE u == RemoveEntries(radius, requests)
<1>1. RadiusGood(u) /\ Timed(u)
  BY RemoveGood DEF RadiusInv
<1> HIDE DEF u
<1> QED BY <1>1, StepTo DEF u

\* So does clearing the requests of a removed BSS.
LEMMA ClearStep ==
  ASSUME RadiusInv, ClearOldBss
  PROVE  RadiusInv'
<1> DEFINE u == radius_client_flush(radius, FALSE)
           k == SharedSecret(radius.server["auth"])
<1>1. RadiusSound(radius, k) /\ Timed(radius) BY DEF RadiusInv, RadiusGood
<1> HIDE DEF k
<1>2. RadiusSound(u, k) /\ SameRest(radius, u) /\ Timed(u)
  BY <1>1, FlushSound
<1> HIDE DEF u
<1>3. RadiusGood(u) BY <1>2 DEF RadiusGood, SameRest, k
<1>4. radius' = u /\ UNCHANGED sameSecret BY DEF ClearOldBss, u
<1> QED BY <1>2, <1>3, <1>4, StepTo

\* So does the timer that goes back to the primary servers.
LEMMA PrimaryStep ==
  ASSUME RadiusInv, NEW reach, radius_retry_primary_timer(reach)
  PROVE  RadiusInv'
<1> DEFINE a == RetryPrimary(radius, "auth", reach)
           u == RetryPrimary(a, "acct", reach)
<1>1. sameSecret \in BOOLEAN /\ RadiusGood(radius) /\ Timed(radius) BY DEF RadiusInv
<1>2. "auth" \in RadiusKinds /\ "acct" \in RadiusKinds BY DEF RadiusKinds
<1>3. RadiusGood(a) /\ Timed(a)
  BY <1>1, <1>2, RetryPrimarySound DEF Mate
<1> HIDE DEF a
<1>4. RadiusGood(u) /\ Timed(u)
  BY <1>1, <1>2, <1>3, RetryPrimarySound DEF Mate
<1> HIDE DEF u
<1>5. radius' = u /\ UNCHANGED sameSecret BY DEF radius_retry_primary_timer, u, a
<1> QED BY <1>4, <1>5, StepTo

\* The invariant holds when the client starts.
LEMMA RadiusInitInv == RadiusInit => RadiusInv
<1> SUFFICES ASSUME RadiusInit PROVE RadiusInv OBVIOUS
<1>1. radius \in RadiusState
  BY RadiusConstants DEF RadiusInit, RadiusState, RadiusServers, RadiusKinds
<1>2. radius.msgs = <<>> /\ Len(radius.msgs) = 0 /\ radius.num_msgs = 0
  BY DEF RadiusInit
<1>3. RadiusGood(radius)
  BY <1>1, <1>2, RadiusConstants DEF RadiusGood, RadiusSound, Numbered, Identified, Attempted,
     Built, Within, Secret
<1> QED BY <1>2, <1>3 DEF RadiusInit, RadiusInv, Timed

\* Every step keeps it.
LEMMA RadiusInvInductive == RadiusInv /\ [RadiusNext]_radiusVars => RadiusInv'
<1> SUFFICES ASSUME RadiusInv, [RadiusNext]_radiusVars PROVE RadiusInv'
  OBVIOUS
<1>1. ASSUME NEW type \in RadiusTypes, NEW sta \in RadiusStations, NEW fails \in BOOLEAN,
             NEW reach \in SUBSET RadiusServers, radius_client_send(type, sta, fails, reach)
      PROVE  RadiusInv'
  BY <1>1, RadiusSendStep
<1>2. ASSUME NEW due \in SUBSET PendingRequests(radius), NEW fails \in BOOLEAN,
             NEW reach \in SUBSET RadiusServers, radius_client_timer(due, fails, reach)
      PROVE  RadiusInv'
  BY <1>2, TimerStep
<1>3. ASSUME NEW n \in PendingRequests(radius), radius_client_receive(n)
      PROVE  RadiusInv'
  BY <1>3, RemoveStep DEF radius_client_receive
<1>4. ASSUME NEW sta \in RadiusStations, radius_client_flush_auth(sta)
      PROVE  RadiusInv'
  <2> DEFINE gone == {n \in AuthRequests(radius) : Entry(radius, n).sta = sta}
  <2>1. radius' = RemoveEntries(radius, gone) /\ UNCHANGED sameSecret
    BY <1>4 DEF radius_client_flush_auth
  <2> HIDE DEF gone
  <2> QED BY <2>1, RemoveStep
<1>5. CASE ClearOldBss
  BY <1>5, ClearStep
<1>6. ASSUME NEW reach \in SUBSET RadiusServers, radius_retry_primary_timer(reach)
      PROVE  RadiusInv'
  BY <1>6, PrimaryStep
<1>7. CASE UNCHANGED radiusVars
  <2>1. RadiusGood(radius) /\ Timed(radius) /\ radius' = radius /\ UNCHANGED sameSecret
    BY <1>7 DEF radiusVars, RadiusInv
  <2> QED BY <2>1, StepTo
<1> QED BY <1>1, <1>2, <1>3, <1>4, <1>5, <1>6, <1>7 DEF RadiusNext

\* The invariant of the RADIUS client holds throughout: the list is numbered,
\* bounded and signed for the current server, and a timer covers it.
THEOREM RadiusInvariant == RadiusSpec => []RadiusInv
BY RadiusInitInv, RadiusInvInductive, PTL DEF RadiusSpec

\* The client's fields keep their types.
THEOREM RadiusTypesHold == RadiusSpec => []RadiusTypeOK
<1>1. RadiusInv => RadiusTypeOK
  BY DEF RadiusInv, RadiusGood, RadiusSound, RadiusTypeOK
<1> QED BY <1>1, RadiusInvariant, PTL

\* A pending request always has the retransmission timer behind it.
THEOREM RadiusAlwaysTimed == RadiusSpec => []RadiusTimed
<1>1. RadiusInv => RadiusTimed
  BY DEF RadiusInv, Timed, RadiusTimed
<1> QED BY <1>1, RadiusInvariant, PTL

\* No two pending requests ever share an identifier, though identifiers wrap
\* around.
THEOREM RadiusIdentifiersUnique == RadiusSpec => []RadiusIdsUnique
<1>1. RadiusInv => RadiusIdsUnique
  BY StateFields DEF RadiusInv, RadiusGood, RadiusSound, Identified, RadiusIdsUnique
<1> QED BY <1>1, RadiusInvariant, PTL

\* The list never exceeds its limit and its counter never undercounts it.
THEOREM RadiusListBounded == RadiusSpec => []RadiusBounded
<1>1. RadiusInv => RadiusBounded
  BY DEF RadiusInv, RadiusGood, RadiusSound, Within, RadiusBounded
<1> QED BY <1>1, RadiusInvariant, PTL

\* Every pending authentication request is signed for the server it would go
\* to, across every failover.
THEOREM RadiusSecretsCurrent == RadiusSpec => []RadiusAuthSecretCurrent
<1>1. RadiusInv => RadiusAuthSecretCurrent
  BY StateFields DEF RadiusInv, RadiusGood, RadiusSound, Secret, RadiusAuthSecretCurrent
<1> QED BY <1>1, RadiusInvariant, PTL

-----------------------------------------------------------------------------
(***************************************************************************)
(* For every number of authenticators, keys and entries and every PMK      *)
(* lifetime: the supplicant's PMKSA cache counts its entries, its timer    *)
(* covers them, and the entry the association uses is in it.               *)
(*                                                                         *)
(* The invariant has two halves.  Cache is about the list: one entry for   *)
(* each authenticator, sorted by expiration among the entries that are no  *)
(* clones, counted, within the limit and covered by the timer.  Assoc ties *)
(* the association to it: which entry is selected in which phase, and whom *)
(* preauthentication may be about.                                         *)
(***************************************************************************)

OneEach(s) == \A i, j \in 1 .. Len(s) : s[i].aa = s[j].aa => i = j
Ordered(s) == \A i, j \in 1 .. Len(s) :
                  i < j /\ ~s[j].clone => s[i].expiration <= s[j].expiration

\* A list as the cache keeps it.
Core(q) == q \in PmksaState /\ OneEach(q.list) /\ Ordered(q.list)

\* The expiration timer covers the entries.
Covered(q) ==
    /\ q.list # <<>> => q.expire >= 0
    /\ \A e \in ToSetOf(q) :
           ~e.sae /\ ~e.clone => q.expire <= NotBelow0(e.expiration) + 1

\* What stays when entries are freed: the association with at most the
\* selected entry lost, or no association.
CacheQuiet(q, u) ==
    /\ u.cur_pmksa \in {Null, q.cur_pmksa} /\ u.pmk = q.pmk /\ u.eap = q.eap
    /\ u.phase = q.phase /\ u.target = q.target /\ u.bssid = q.bssid
    /\ u.preauth_bssid = q.preauth_bssid /\ u.derived = q.derived
Broken(q, u) ==
    /\ u.cur_pmksa = Null /\ u.phase = "idle" /\ u.derived = q.derived
    /\ \/ u.preauth_bssid = NoAA
       \/ u.preauth_bssid = q.preauth_bssid /\ u.bssid = q.bssid
Lost(q, u) == CacheQuiet(q, u) \/ Broken(q, u)

\* Losses compose.
LEMMA LostTrans ==
  ASSUME NEW p, NEW q, NEW r, Lost(p, q), Lost(q, r)
  PROVE  Lost(p, r)
BY DEF Lost, CacheQuiet, Broken

\* So do the changes that leave the association alone.
LEMMA QuietTrans ==
  ASSUME NEW p, NEW q, NEW r, CacheQuiet(p, q), CacheQuiet(q, r)
  PROVE  CacheQuiet(p, r)
BY DEF CacheQuiet

\* The fields of the cache's state and their types.
LEMMA PmksaFields ==
  ASSUME NEW q \in PmksaState
  PROVE  /\ q.list \in Seq(PmksaEntries) /\ Len(q.list) \in Nat
         /\ DOMAIN q.list = 1 .. Len(q.list)
         /\ q.pmksa_count \in Int /\ q.cur_pmksa \in EntryIds \cup {Null}
         /\ q.expire \in NoTimer .. (PmkLifetime + 1) /\ q.reauth \in NoTimer .. (PmkLifetime + 1)
         /\ q.pmk \in Pmks \cup {0} /\ q.eap \in Pmks \cup {0} /\ q.derived \in Pmks \cup {0}
         /\ q.phase \in {"idle", "associating", "cached", "handshake", "msg1", "done"}
         /\ q.target \in AAs \cup {NoAA} /\ q.bssid \in AAs \cup {NoAA}
         /\ q.preauth_bssid \in AAs \cup {NoAA}
         /\ \A i \in 1 .. Len(q.list) : q.list[i] \in PmksaEntries
BY DEF PmksaState

\* The fields of an entry and their types.
LEMMA PmksaEntryFields ==
  ASSUME NEW e \in PmksaEntries
  PROVE  /\ e.aa \in AAs /\ e.pmk \in Pmks /\ e.sae \in BOOLEAN
         /\ e.expiration \in LongPast .. PmkLifetime /\ e.reauth_time \in LongPast .. PmkLifetime
         /\ e.opportunistic \in BOOLEAN /\ e.clone \in BOOLEAN
         /\ Ptr(e) \in EntryIds
BY DEF PmksaEntries, Ptr, EntryIds

\* An entry is known by its authenticator and PMK.
LEMMA PtrIs ==
  ASSUME NEW e, NEW f
  PROVE  Ptr(e) = Ptr(f) <=> e.aa = f.aa /\ e.pmk = f.pmk
BY DEF Ptr

\* An entry's identity is never the null pointer.
LEMMA PtrNotNull ==
  ASSUME NEW e
  PROVE  Ptr(e) # Null /\ Ptr(e)[1] = e.aa /\ Ptr(e)[2] = e.pmk
BY DEF Ptr, Null

\* The entries of a cache are those of its list, one for each authenticator.
LEMMA Entries ==
  ASSUME NEW q \in PmksaState
  PROVE  /\ \A e : e \in ToSetOf(q) <=> \E i \in 1 .. Len(q.list) : e = q.list[i]
         /\ ToSetOf(q) \subseteq PmksaEntries
         /\ OneEach(q.list) => \A e, f \in ToSetOf(q) : e.aa = f.aa => e = f
<1>1. \A e : e \in ToSetOf(q) <=> \E i \in 1 .. Len(q.list) : e = q.list[i]
  BY PmksaFields DEF ToSetOf, ListEntries
<1>2. ToSetOf(q) \subseteq PmksaEntries
  BY <1>1, PmksaFields
<1>3. OneEach(q.list) => \A e, f \in ToSetOf(q) : e.aa = f.aa => e = f
  BY <1>1 DEF OneEach
<1> QED BY <1>1, <1>2, <1>3

\* Unlinking entries keeps the order and one entry for each authenticator.
LEMMA SublistCore ==
  ASSUME NEW s \in Seq(PmksaEntries), NEW K
  PROVE  LET t == Kept(s, K)
         IN /\ t \in Seq(PmksaEntries) /\ Len(t) <= Len(s) /\ Len(t) \in Nat
            /\ OneEach(s) => OneEach(t)
            /\ Ordered(s) => Ordered(t)
<1> DEFINE t == Kept(s, K)
<1>1. PICK h : Places(t, s, h)
  BY KeptSublist
<1>2. h \in [1 .. Len(t) -> 1 .. Len(s)] /\ (\A i \in 1 .. Len(t) : t[i] = s[h[i]])
      /\ \A i, j \in 1 .. Len(t) : i < j => h[i] < h[j]
  BY <1>1 DEF Places
<1>3. t \in Seq(PmksaEntries) /\ Len(t) \in Nat /\ Len(t) <= Len(s) /\ Len(s) \in Nat
  <2>1. t \in Seq(PmksaEntries) /\ Len(t) <= Len(s) BY KeptSublist
  <2> HIDE DEF t
  <2> QED BY <2>1
<1> HIDE DEF t
<1>4. \A i, j \in 1 .. Len(t) : h[i] = h[j] => i = j
  <2> SUFFICES ASSUME NEW i \in 1 .. Len(t), NEW j \in 1 .. Len(t), h[i] = h[j], i # j
               PROVE  FALSE
    OBVIOUS
  <2>1. i < j \/ j < i BY <1>3
  <2>2. h[i] < h[j] \/ h[j] < h[i] BY <1>2, <2>1
  <2> QED BY <1>2, <2>2
<1>5. OneEach(s) => OneEach(t)
  BY <1>2, <1>4 DEF OneEach
<1>6. Ordered(s) => Ordered(t)
  <2> SUFFICES ASSUME Ordered(s), NEW i \in 1 .. Len(t), NEW j \in 1 .. Len(t), i < j, ~t[j].clone
               PROVE  t[i].expiration <= t[j].expiration
    BY DEF Ordered
  <2>1. h[i] < h[j] /\ h[i] \in 1 .. Len(s) /\ h[j] \in 1 .. Len(s) /\ t[i] = s[h[i]]
            /\ t[j] = s[h[j]]
    BY <1>2
  <2> QED BY <2>1 DEF Ordered
<1> QED BY <1>3, <1>5, <1>6 DEF t

\* Unlink takes exactly its entry off the list.
LEMMA UnlinkCore ==
  ASSUME NEW q, Core(q), NEW e
  PROVE  LET u == Unlink(q, e)
         IN /\ Core(u) /\ CacheQuiet(q, u) /\ u.cur_pmksa = q.cur_pmksa
             /\ u.pmksa_count = q.pmksa_count
            /\ u.expire = q.expire /\ u.reauth = q.reauth
            /\ ToSetOf(u) = {f \in ToSetOf(q) : Ptr(f) # Ptr(e)}
            /\ e \in ToSetOf(q) => Len(u.list) = Len(q.list) - 1
            /\ (\A f \in ToSetOf(q) : Ptr(f) # Ptr(e)) => u.list = q.list
<1> DEFINE K == {f \in ToSetOf(q) : Ptr(f) # Ptr(e)}
           s == q.list
           t == Kept(s, K)
           u == Unlink(q, e)
<1>1. q \in PmksaState /\ s \in Seq(PmksaEntries) /\ OneEach(s) /\ Ordered(s)
  BY PmksaFields DEF Core
<1>2. u = [q EXCEPT !.list = t] BY DEF Unlink
<1>3. t \in Seq(PmksaEntries) /\ Len(t) <= Len(s) /\ Len(t) \in Nat /\ OneEach(t) /\ Ordered(t)
  <2> HIDE DEF s, K
  <2> QED BY <1>1, SublistCore
<1>4. ListEntries(t) = ListEntries(s) \cap K
  <2> HIDE DEF s, K
  <2> QED BY <1>1, KeptEntries
<1>5. e \in ToSetOf(q) => Len(t) = Len(s) - 1
  <2> SUFFICES ASSUME e \in ToSetOf(q) PROVE Len(t) = Len(s) - 1 OBVIOUS
  <2>1. PICK p \in 1 .. Len(s) : e = s[p] BY <1>1, Entries
  <2>2. ASSUME NEW i \in 1 .. Len(s) PROVE s[i] \in K <=> i # p
    <3>1. s[i] \in ToSetOf(q) BY <1>1, Entries
    <3>2. s[i].aa = e.aa => i = p BY <1>1, <2>1 DEF OneEach
    <3> QED BY <2>1, <3>1, <3>2, PtrIs
  <2> HIDE DEF K
  <2> QED BY <1>1, <2>2, KeptOne
<1>6. (\A f \in ToSetOf(q) : Ptr(f) # Ptr(e)) => t = s
  <2> SUFFICES ASSUME \A f \in ToSetOf(q) : Ptr(f) # Ptr(e) PROVE t = s OBVIOUS
  <2>1. \A i \in 1 .. Len(s) : s[i] \in K BY <1>1, Entries
  <2> HIDE DEF K
  <2> QED BY <1>1, <2>1, KeptAll
<1>7. K \subseteq ListEntries(s) BY DEF ToSetOf
<1> HIDE DEF t, u
<1>8. u \in PmksaState /\ u.list = t /\ u.pmksa_count = q.pmksa_count
      /\ u.expire = q.expire /\ u.reauth = q.reauth /\ u.cur_pmksa = q.cur_pmksa
      /\ u.pmk = q.pmk /\ u.eap = q.eap /\ u.phase = q.phase /\ u.target = q.target
      /\ u.bssid = q.bssid /\ u.preauth_bssid = q.preauth_bssid /\ u.derived = q.derived
  BY <1>1, <1>2, <1>3 DEF PmksaState
<1>9. ToSetOf(u) = K BY <1>4, <1>7, <1>8 DEF ToSetOf
<1> QED BY <1>3, <1>5, <1>6, <1>8, <1>9 DEF Core, CacheQuiet, u
\* The free callback drops the association only for the entry in use.
LEMMA FreeCb ==
  ASSUME NEW q, Core(q), NEW e, NEW reason
  PROVE  LET u == wpa_sm_pmksa_free_cb(q, e, reason)
         IN /\ Core(u) /\ Lost(q, u) /\ u.list = q.list /\ u.pmksa_count = q.pmksa_count
            /\ u.expire = q.expire /\ u.reauth = q.reauth
            /\ u.cur_pmksa # Null => u.cur_pmksa = q.cur_pmksa /\ u.cur_pmksa # Ptr(e)
            /\ reason = "REPLACE" \/ (reason = "FREE" /\ q.cur_pmksa # Ptr(e)) =>
                 CacheQuiet(q, u)
            /\ reason = "FREE" /\ q.cur_pmksa # Ptr(e) => u = q
<1> DEFINE u == wpa_sm_pmksa_free_cb(q, e, reason)
           current == q.cur_pmksa = Ptr(e)
           deauth == \/ current /\ reason # "REPLACE"
                     \/ reason = "EXPIRE" /\ q.pmk = e.pmk
           a == [q EXCEPT !.cur_pmksa = Null, !.pmk = 0]
           b == wpa_sm_notify_disassoc(q)
           c == [q EXCEPT !.cur_pmksa = Null]
<1>1. q \in PmksaState BY DEF Core
<1>2. u = IF deauth THEN (IF q.phase = "idle" THEN a ELSE b) ELSE IF current THEN c ELSE q
  BY DEF wpa_sm_pmksa_free_cb
<1>3. Core(q) /\ Lost(q, q) /\ CacheQuiet(q, q) BY DEF Lost, CacheQuiet
<1>4. Core(c) /\ CacheQuiet(q, c) /\ c.list = q.list /\ c.pmksa_count = q.pmksa_count
      /\ c.expire = q.expire /\ c.reauth = q.reauth /\ c.cur_pmksa = Null
  BY <1>1 DEF Core, PmksaState, CacheQuiet
<1>5. /\ Core(a) /\ (q.phase = "idle" => Broken(q, a))
      /\ a.list = q.list /\ a.pmksa_count = q.pmksa_count
      /\ a.expire = q.expire /\ a.reauth = q.reauth /\ a.cur_pmksa = Null
  BY ZenonT(40), <1>1 DEF Core, PmksaState, Broken
<1>6. /\ Core(b) /\ Broken(q, b)
      /\ b.list = q.list /\ b.pmksa_count = q.pmksa_count
      /\ b.expire = q.expire /\ b.reauth = q.reauth /\ b.cur_pmksa = Null
  BY <1>1 DEF Core, PmksaState, Broken, wpa_sm_notify_disassoc
<1> HIDE DEF u, a, b, c
<1>7. CASE deauth
  <2>1. u \in {a, b} /\ (q.phase = "idle" => u = a) /\ (q.phase # "idle" => u = b)
    BY <1>2, <1>7
  <2>2. ~(reason = "REPLACE" \/ (reason = "FREE" /\ q.cur_pmksa # Ptr(e)))
    BY <1>7
  <2> QED BY <1>5, <1>6, <2>1, <2>2 DEF Lost, u
<1>8. CASE ~deauth /\ current
  <2>1. u = c BY <1>2, <1>8
  <2> QED BY <1>4, <1>8, <2>1 DEF Lost, u
<1>9. CASE ~deauth /\ ~current
  <2>1. u = q BY <1>2, <1>9
  <2> QED BY <1>3, <1>9, <2>1 DEF u
<1> QED BY <1>7, <1>8, <1>9

\* Freeing an entry takes it off the list, counts it and deselects it.
LEMMA FreeEntry ==
  ASSUME NEW q, Core(q), NEW e, NEW reason
  PROVE  LET u == pmksa_cache_free_entry(q, e, reason)
         IN /\ Core(u) /\ Lost(q, u) /\ u.pmksa_count = q.pmksa_count - 1
            /\ u.expire = q.expire /\ u.reauth = q.reauth
            /\ ToSetOf(u) = {f \in ToSetOf(q) : Ptr(f) # Ptr(e)}
            /\ e \in ToSetOf(q) => Len(u.list) = Len(q.list) - 1
            /\ (\A f \in ToSetOf(q) : Ptr(f) # Ptr(e)) => u.list = q.list
            /\ u.cur_pmksa # Null => u.cur_pmksa = q.cur_pmksa /\ u.cur_pmksa # Ptr(e)
            /\ reason = "REPLACE" \/ (reason = "FREE" /\ q.cur_pmksa # Ptr(e)) => CacheQuiet(q, u)
            /\ reason = "FREE" /\ q.cur_pmksa # Ptr(e) => u.cur_pmksa = q.cur_pmksa
<1> DEFINE v == Unlink(q, e)
           w == [v EXCEPT !.pmksa_count = @ - 1]
           u == pmksa_cache_free_entry(q, e, reason)
<1>1. /\ Core(v) /\ CacheQuiet(q, v) /\ v.cur_pmksa = q.cur_pmksa /\ v.pmksa_count = q.pmksa_count
      /\ v.expire = q.expire /\ v.reauth = q.reauth
      /\ ToSetOf(v) = {f \in ToSetOf(q) : Ptr(f) # Ptr(e)}
      /\ e \in ToSetOf(q) => Len(v.list) = Len(q.list) - 1
      /\ (\A f \in ToSetOf(q) : Ptr(f) # Ptr(e)) => v.list = q.list
  BY UnlinkCore
<1> HIDE DEF v
<1>2. v \in PmksaState BY <1>1 DEF Core
<1>3. w \in PmksaState /\ w.list = v.list /\ w.pmksa_count = v.pmksa_count - 1
      /\ w.expire = v.expire /\ w.reauth = v.reauth /\ CacheQuiet(v, w) /\ w.cur_pmksa = v.cur_pmksa
  BY <1>2 DEF PmksaState, CacheQuiet
<1> HIDE DEF w
<1>4. Core(w) BY <1>1, <1>3 DEF Core
<1>5. u = wpa_sm_pmksa_free_cb(w, e, reason) BY DEF pmksa_cache_free_entry, w, v
<1> HIDE DEF u
<1>6. /\ Core(u) /\ Lost(w, u) /\ u.list = w.list /\ u.pmksa_count = w.pmksa_count
      /\ u.expire = w.expire /\ u.reauth = w.reauth
      /\ u.cur_pmksa # Null => u.cur_pmksa = w.cur_pmksa /\ u.cur_pmksa # Ptr(e)
      /\ reason = "REPLACE" \/ (reason = "FREE" /\ w.cur_pmksa # Ptr(e)) => CacheQuiet(w, u)
      /\ reason = "FREE" /\ w.cur_pmksa # Ptr(e) => u = w
  BY <1>4, <1>5, FreeCb
<1>7. Lost(q, u) /\ (CacheQuiet(w, u) => CacheQuiet(q, u))
  <2>1. CacheQuiet(q, w) BY <1>1, <1>3, QuietTrans
  <2>2. Lost(q, w) BY <2>1 DEF Lost
  <2> QED BY <1>6, <2>1, <2>2, LostTrans, QuietTrans
<1>8. ToSetOf(u) = ToSetOf(v) BY <1>3, <1>6 DEF ToSetOf
<1> QED BY <1>1, <1>3, <1>6, <1>7, <1>8 DEF u

\* Entries es that are in the list, each once.
FromList(q, es) ==
    /\ es \in Seq(PmksaEntries) /\ Len(es) \in Nat
    /\ \A i \in 1 .. Len(es) : es[i] \in ToSetOf(q)
    /\ \A i, j \in 1 .. Len(es) : Ptr(es[i]) = Ptr(es[j]) => i = j

\* u is q with the first k entries of es freed.
FreedTo(q, u, es, k) ==
    /\ Core(u) /\ Lost(q, u) /\ u.expire = q.expire /\ u.reauth = q.reauth
    /\ u.pmksa_count - Len(u.list) = q.pmksa_count - Len(q.list) /\ Len(u.list) <= Len(q.list)
    /\ ToSetOf(u) = {f \in ToSetOf(q) : \A i \in 1 .. k : Ptr(f) # Ptr(es[i])}
    /\ u.cur_pmksa # Null => u.cur_pmksa = q.cur_pmksa /\ \A i \in 1 .. k : u.cur_pmksa # Ptr(es[i])

\* One pass of a loop that frees entries.
LEMMA FreedOne ==
  ASSUME NEW q, Core(q), NEW es, FromList(q, es), NEW k \in Nat, k + 1 \in 1 .. Len(es),
         NEW u, FreedTo(q, u, es, k), NEW reason
  PROVE  FreedTo(q, pmksa_cache_free_entry(u, es[k+1], reason), es, k + 1)
<1> DEFINE e == es[k+1]
           v == pmksa_cache_free_entry(u, e, reason)
<1>1. Core(u) /\ u \in PmksaState /\ q \in PmksaState /\ Len(u.list) \in Nat /\ Len(q.list) \in Nat
      /\ u.pmksa_count \in Int /\ q.pmksa_count \in Int
  BY PmksaFields DEF FreedTo, Core
<1>2. e \in ToSetOf(u)
  <2>1. e \in ToSetOf(q) /\ \A i \in 1 .. k : Ptr(e) # Ptr(es[i])
    BY DEF FromList
  <2> QED BY <2>1 DEF FreedTo
<1> HIDE DEF e
<1>3. /\ Core(v) /\ Lost(u, v) /\ v.pmksa_count = u.pmksa_count - 1
      /\ v.expire = u.expire /\ v.reauth = u.reauth
      /\ ToSetOf(v) = {f \in ToSetOf(u) : Ptr(f) # Ptr(e)}
      /\ e \in ToSetOf(u) => Len(v.list) = Len(u.list) - 1
      /\ v.cur_pmksa # Null => v.cur_pmksa = u.cur_pmksa /\ v.cur_pmksa # Ptr(e)
  BY <1>1, FreeEntry
<1> HIDE DEF v
<1>4. Lost(q, v) BY <1>3, LostTrans DEF FreedTo
<1>5. v.pmksa_count - Len(v.list) = q.pmksa_count - Len(q.list) /\ Len(v.list) <= Len(q.list)
  BY <1>1, <1>2, <1>3 DEF FreedTo
<1>6. \A i \in 1 .. k + 1 : i \in 1 .. k \/ i = k + 1 OBVIOUS
<1>7. ToSetOf(v) = {f \in ToSetOf(q) : \A i \in 1 .. k + 1 : Ptr(f) # Ptr(es[i])}
  BY <1>3, <1>6 DEF FreedTo, e
<1>8. v.cur_pmksa # Null => v.cur_pmksa = q.cur_pmksa
                            /\ \A i \in 1 .. k + 1 : v.cur_pmksa # Ptr(es[i])
  BY <1>3, <1>6 DEF FreedTo, e
<1>9. v.expire = q.expire /\ v.reauth = q.reauth BY <1>3 DEF FreedTo
<1>10. FreedTo(q, v, es, k + 1)
  BY <1>3, <1>4, <1>5, <1>7, <1>8, <1>9 DEF FreedTo
<1> QED BY <1>10 DEF v, e

\* The loop frees exactly its entries.
LEMMA FreeAllSound ==
  ASSUME NEW q, Core(q), NEW es, FromList(q, es), NEW reason
  PROVE  FreedTo(q, FreeAll(q, es, reason), es, Len(es))
<1> DEFINE n == Len(es)
           T == {u \in PmksaState : Core(u)}
           D == [p \in T \X (1 .. n) |-> pmksa_cache_free_entry(p[1], es[p[2]], reason)]
           G(f) == f = [i \in 0 .. n |-> IF i = 0 THEN q
                                         ELSE pmksa_cache_free_entry(f[i-1], es[i], reason)]
           F == CHOOSE f : G(f)
<1>1. FreeAll(q, es, reason) = F[n] BY Zenon DEF FreeAll
<1>2. n \in Nat /\ q \in T BY DEF FromList, Core
<1>3. \A u \in T : \A i \in 1 .. n : pmksa_cache_free_entry(u, es[i], reason) \in T
  BY FreeEntry DEF Core
<1> HIDE DEF n, T
<1>4. D \in [T \X (1 .. n) -> T] BY <1>3
<1>5. PICK h \in [0 .. n -> T] : h[0] = q /\ \A i \in 1 .. n : h[i] = D[<<h[i-1], i>>]
  <2> HIDE DEF D
  <2>1. PICK h : Iterates(h, T, q, n, D) BY <1>2, <1>4, Recursion
  <2> QED BY <2>1 DEF Iterates
<1>6. ASSUME NEW i \in 1 .. n PROVE h[i] = pmksa_cache_free_entry(h[i-1], es[i], reason)
  <2>1. h[i-1] \in T BY <1>2
  <2>2. D[<<h[i-1], i>>] = pmksa_cache_free_entry(h[i-1], es[i], reason) BY <2>1
  <2> QED BY <1>5, <2>2
<1>7. G(h)
  <2> HIDE DEF D
  <2> QED BY <1>5, <1>6
<1>8. G(F)
  <2> HIDE DEF G
  <2> QED BY <1>7, Zenon
<1> HIDE DEF F
<1>9. F[0] = q /\ \A i \in 1 .. n : F[i] = pmksa_cache_free_entry(F[i-1], es[i], reason)
  BY <1>2, <1>8
<1> DEFINE S == {k \in Nat : k <= n => FreedTo(q, F[k], es, k)}
<1>10. 0 \in S
  <2>1. q \in PmksaState /\ Len(q.list) \in Nat /\ q.pmksa_count \in Int BY PmksaFields DEF Core
  <2>2. FreedTo(q, q, es, 0) BY <2>1 DEF FreedTo, Lost, CacheQuiet
  <2> QED BY <1>9, <2>2
<1>11. ASSUME NEW k \in Nat, k \in S PROVE k + 1 \in S
  <2> SUFFICES ASSUME k + 1 <= n PROVE FreedTo(q, F[k+1], es, k + 1) OBVIOUS
  <2>1. k + 1 \in 1 .. n /\ (k + 1) - 1 = k BY <1>2
  <2>2. FreedTo(q, F[k], es, k) BY <1>2, <1>11
  <2>3. F[k+1] = pmksa_cache_free_entry(F[k], es[k+1], reason) BY <1>9, <2>1
  <2>4. k + 1 \in 1 .. Len(es) BY <2>1 DEF n
  <2> QED BY <2>2, <2>3, <2>4, FreedOne
<1> HIDE DEF S
<1>12. n \in S BY <1>2, <1>10, <1>11, NatInd
<1>13. FreedTo(q, F[n], es, n) BY <1>2, <1>12 DEF S
<1> QED BY <1>1, <1>13 DEF n

\* Nothing but the list and the timers differ.
CacheSame(q, u) ==
    /\ u.cur_pmksa = q.cur_pmksa /\ u.pmk = q.pmk /\ u.eap = q.eap
    /\ u.phase = q.phase /\ u.target = q.target /\ u.bssid = q.bssid
    /\ u.preauth_bssid = q.preauth_bssid /\ u.derived = q.derived

\* The wait until the head expires is no longer than any entry's remaining
\* life.
LEMMA ExpirationWaitSound ==
  ASSUME NEW q, Core(q), q.list # <<>>
  PROVE  /\ ExpirationWait(q) \in 0 .. PmkLifetime
         /\ \A e \in ToSetOf(q) : ~e.sae /\ ~e.clone =>
                ExpirationWait(q) <= NotBelow0(e.expiration)
<1> DEFINE s == q.list
           head == s[1]
           postponed == head.expiration < 0 /\ head.sae /\ Ptr(head) = q.cur_pmksa
           w == ExpirationWait(q)
<1>1. q \in PmksaState /\ s \in Seq(PmksaEntries) /\ Len(s) \in Nat /\ Len(s) >= 1 /\ Ordered(s)
  BY PmksaFields DEF Core
<1>2. w = IF ~postponed THEN NotBelow0(head.expiration)
          ELSE IF Len(s) > 1 /\ s[2].expiration <= SaePoll THEN NotBelow0(s[2].expiration)
          ELSE SaePoll
  BY DEF ExpirationWait
<1>3. \A i \in 1 .. Len(s) : s[i] \in PmksaEntries /\ s[i].expiration \in LongPast .. PmkLifetime
  BY <1>1, PmksaFields, PmksaEntryFields
<1>4. head.expiration \in LongPast .. PmkLifetime
  BY <1>1, <1>3
<1>5. Len(s) > 1 => s[2].expiration \in LongPast .. PmkLifetime
  BY <1>1, <1>3
<1>6. w \in 0 .. PmkLifetime
  <2> HIDE DEF s, head, postponed, w
  <2> QED BY <1>2, <1>4, <1>5, PmksaConstants DEF NotBelow0, LongPast
<1>7. ASSUME NEW e \in ToSetOf(q), ~e.sae, ~e.clone PROVE w <= NotBelow0(e.expiration)
  <2>1. PICK j \in 1 .. Len(s) : e = s[j] BY <1>1, Entries
  <2>2. s[j].expiration \in LongPast .. PmkLifetime BY <1>3
  <2>3. \A i \in 1 .. Len(s) : i <= j => s[i].expiration <= s[j].expiration
    <3> SUFFICES ASSUME NEW i \in 1 .. Len(s), i <= j PROVE s[i].expiration <= s[j].expiration
      OBVIOUS
    <3>1. CASE i = j BY <2>2, <3>1 DEF LongPast
    <3>2. CASE i < j BY <1>1, <1>7, <2>1, <3>2 DEF Ordered
    <3> QED BY <3>1, <3>2
  <2>4. head.expiration <= e.expiration BY <1>1, <2>1, <2>3
  <2>5. CASE ~postponed
    <3>1. w = NotBelow0(head.expiration) BY <1>2, <2>5
    <3> HIDE DEF w, head
    <3> QED BY <1>4, <2>1, <2>2, <2>4, <3>1, PmksaConstants DEF NotBelow0, LongPast
  <2>6. CASE postponed
    <3>1. j # 1 BY <1>7, <2>1, <2>6
    <3>2. Len(s) > 1 /\ 2 \in 1 .. Len(s) /\ 2 <= j BY <1>1, <3>1
    <3>3. s[2].expiration <= e.expiration BY <2>1, <2>3, <3>2
    <3>4. w = IF s[2].expiration <= SaePoll THEN NotBelow0(s[2].expiration) ELSE SaePoll
      BY <1>2, <2>6, <3>2
    <3> HIDE DEF w
    <3> QED BY <1>5, <2>1, <2>2, <3>2, <3>3, <3>4, PmksaConstants DEF NotBelow0, LongPast
  <2> QED BY <2>5, <2>6
<1> QED BY <1>6, <1>7

\* Setting the timer covers the entries, whatever it was before.
LEMMA SetExpirationSound ==
  ASSUME NEW q, Core(q)
  PROVE  LET u == pmksa_cache_set_expiration(q)
         IN /\ Core(u) /\ Covered(u) /\ CacheSame(q, u)
            /\ u.list = q.list /\ u.pmksa_count = q.pmksa_count
<1> DEFINE u == pmksa_cache_set_expiration(q)
<1>1. q \in PmksaState /\ Len(q.list) \in Nat BY PmksaFields DEF Core
<1>2. ASSUME NEW x \in NoTimer .. PmkLifetime + 1, NEW r \in NoTimer .. PmkLifetime + 1,
             u = [q EXCEPT !.expire = x, !.reauth = r]
      PROVE  /\ Core(u) /\ CacheSame(q, u) /\ u.list = q.list /\ u.pmksa_count = q.pmksa_count
             /\ u.expire = x
  <2> HIDE DEF u
  <2> QED BY <1>1, <1>2 DEF Core, PmksaState, CacheSame
<1>3. CASE q.list = <<>>
  <2>1. u = [q EXCEPT !.expire = NoTimer, !.reauth = NoTimer]
    BY <1>3 DEF pmksa_cache_set_expiration
  <2>2. NoTimer \in NoTimer .. PmkLifetime + 1 BY PmksaConstants DEF NoTimer
  <2>3. /\ Core(u) /\ CacheSame(q, u) /\ u.list = q.list /\ u.pmksa_count = q.pmksa_count
    BY <1>2, <2>1, <2>2
  <2>4. u.list = <<>> /\ ToSetOf(u) = {} BY <1>3, <2>3 DEF ToSetOf, ListEntries
  <2> HIDE DEF u
  <2> QED BY <2>3, <2>4 DEF Covered, u
<1>4. CASE q.list # <<>>
  <2> DEFINE used == IF Listed(q, q.cur_pmksa) THEN <<Current(q)>> ELSE pmksa_cache_get(q, q.bssid)
             x == ExpirationWait(q) + 1
             r == IF used # <<>> /\ ~used[1].sae THEN NotBelow0(q.list[1].reauth_time) ELSE NoTimer
  <2>1. u = [q EXCEPT !.expire = x, !.reauth = r]
    BY <1>4 DEF pmksa_cache_set_expiration
  <2>2. ExpirationWait(q) \in 0 .. PmkLifetime
        /\ \A e \in ToSetOf(q) : ~e.sae /\ ~e.clone =>
                ExpirationWait(q) <= NotBelow0(e.expiration)
    BY <1>4, ExpirationWaitSound
  <2>3. x \in 1 .. PmkLifetime + 1 BY <2>2, PmksaConstants
  <2>4. r \in NoTimer .. PmkLifetime + 1
    <3>1. 1 \in 1 .. Len(q.list) BY <1>1, <1>4, PmksaFields
    <3>2. q.list[1].reauth_time \in LongPast .. PmkLifetime
      BY <1>1, <3>1, PmksaFields, PmksaEntryFields
    <3> HIDE DEF used
    <3> QED BY <3>2, PmksaConstants DEF NotBelow0, NoTimer, LongPast
  <2> HIDE DEF used, r, u
  <2>5. /\ Core(u) /\ CacheSame(q, u) /\ u.list = q.list /\ u.pmksa_count = q.pmksa_count
        /\ u.expire = x
    <3>1. x \in NoTimer .. PmkLifetime + 1 BY <2>3, PmksaConstants DEF NoTimer
    <3> HIDE DEF x
    <3> QED BY <1>2, <2>1, <2>4, <3>1
  <2>6. Covered(u)
    <3>1. ToSetOf(u) = ToSetOf(q) BY <2>5 DEF ToSetOf
    <3>2. \A e \in ToSetOf(q) : NotBelow0(e.expiration) \in Int
      BY <1>1, Entries, PmksaEntryFields DEF NotBelow0, LongPast
    <3> QED BY <2>2, <2>3, <2>5, <3>1, <3>2 DEF Covered
  <2> QED BY <2>5, <2>6 DEF u
<1> QED BY <1>3, <1>4

\* The search returns an entry of the list that matches, if there is one.
LEMMA FirstSound ==
  ASSUME NEW q \in PmksaState, NEW K
  PROVE  LET r == First(q, K)
         IN \/ r = <<>> /\ \A e \in ToSetOf(q) : e \notin K
            \/ \E e \in ToSetOf(q) : e \in K /\ r = <<e>>
<1> DEFINE at == {i \in DOMAIN q.list : q.list[i] \in K}
           p == CHOOSE i \in at : \A j \in at : i <= j
<1>0. First(q, K) = IF at = {} THEN <<>> ELSE <<q.list[p]>> BY DEF First
<1>1. DOMAIN q.list = 1 .. Len(q.list) /\ at \in SUBSET Nat BY PmksaFields
<1>2. CASE at = {}
  BY <1>0, <1>1, <1>2, Entries
<1>3. CASE at # {}
  <2>1. p \in at
    <3>1. \E m \in at : \A k \in at : m <= k
      <4> HIDE DEF at
      <4> QED BY <1>1, <1>3, NatMin
    <3> HIDE DEF at
    <3> QED BY <3>1
  <2> HIDE DEF p
  <2>2. q.list[p] \in ToSetOf(q) /\ q.list[p] \in K BY <1>1, <2>1, Entries
  <2> QED BY <1>0, <1>3, <2>2
<1> QED BY <1>2, <1>3

\* A timer that covers entries covers fewer of them.
LEMMA CoveredLess ==
  ASSUME NEW q \in PmksaState, NEW u \in PmksaState, Covered(q), ToSetOf(u) \subseteq ToSetOf(q),
         u.expire = q.expire
  PROVE  Covered(u)
<1>1. u.list # <<>> => q.list # <<>>
  <2>1. u.list # <<>> => 1 \in 1 .. Len(u.list) BY PmksaFields
  <2>2. u.list # <<>> => u.list[1] \in ToSetOf(u) BY <2>1, Entries
  <2>3. q.list = <<>> => ToSetOf(q) = {} BY DEF ToSetOf, ListEntries
  <2> QED BY <2>2, <2>3
<1> QED BY <1>1 DEF Covered

\* Entries picked off the list are entries of the list, each once.
LEMMA FromListKept ==
  ASSUME NEW q, Core(q), NEW s \in Seq(PmksaEntries), OneEach(s),
         ListEntries(s) \subseteq ToSetOf(q), NEW K
  PROVE  FromList(q, Kept(s, K))
<1> DEFINE t == Kept(s, K)
<1>1. t \in Seq(PmksaEntries) /\ Len(t) \in Nat /\ OneEach(t) BY SublistCore
<1>2. ListEntries(t) \subseteq ListEntries(s) BY KeptEntries
<1> HIDE DEF t
<1>3. \A i \in 1 .. Len(t) : t[i] \in ToSetOf(q)
  <2>1. \A i \in 1 .. Len(t) : t[i] \in ListEntries(t) BY <1>1 DEF ListEntries
  <2> QED BY <1>2, <2>1
<1>4. \A i, j \in 1 .. Len(t) : Ptr(t[i]) = Ptr(t[j]) => i = j
  BY <1>1, PtrIs DEF OneEach
<1> QED BY <1>1, <1>3, <1>4 DEF FromList, t

\* A flush keeps the count, the timer's cover and the selection.
LEMMA FlushPmksa ==
  ASSUME NEW q, Core(q), Covered(q), NEW pmk, NEW addr
  PROVE  LET u == pmksa_cache_flush(q, pmk, addr)
         IN /\ Core(u) /\ Covered(u) /\ Lost(q, u)
            /\ u.pmksa_count - Len(u.list) = q.pmksa_count - Len(q.list)
                   /\ Len(u.list) <= Len(q.list)
            /\ ToSetOf(u) \subseteq ToSetOf(q)
            /\ u.cur_pmksa # Null => u.cur_pmksa = q.cur_pmksa
                                     /\ (Listed(q, q.cur_pmksa) => Listed(u, u.cur_pmksa))
<1> DEFINE K == {e \in ToSetOf(q) : pmk \in {0, e.pmk}}
           hit == Kept(q.list, K)
           v == FreeAll(q, hit, "FREE")
           u == pmksa_cache_flush(q, pmk, addr)
<1>1. q \in PmksaState /\ q.list \in Seq(PmksaEntries) /\ OneEach(q.list) /\ Len(q.list) \in Nat
      /\ q.pmksa_count \in Int /\ ListEntries(q.list) = ToSetOf(q)
  BY PmksaFields DEF Core, ToSetOf
<1>2. u = IF hit = <<>> THEN q ELSE pmksa_cache_set_expiration(v)
  BY DEF pmksa_cache_flush
<1>3. FromList(q, hit)
  <2> HIDE DEF K
  <2> QED BY <1>1, FromListKept
<1> HIDE DEF hit
<1>4. FreedTo(q, v, hit, Len(hit)) BY <1>3, FreeAllSound
<1> HIDE DEF v, u
<1>5. CASE hit = <<>>
  <2>1. u = q BY <1>2, <1>5
  <2> QED BY <1>1, <2>1 DEF Lost, CacheQuiet, u
<1>6. CASE hit # <<>>
  <2>1. Core(v) BY <1>4 DEF FreedTo
  <2>2. /\ Core(u) /\ Covered(u) /\ CacheSame(v, u)
        /\ u.list = v.list /\ u.pmksa_count = v.pmksa_count
    BY <1>2, <1>6, <2>1, SetExpirationSound
  <2>3. Lost(q, v) BY <1>4 DEF FreedTo
  <2>4. Lost(v, u) BY <2>2 DEF CacheSame, Lost, CacheQuiet
  <2>5. Lost(q, u) BY <2>3, <2>4, LostTrans
  <2>6. ToSetOf(u) = ToSetOf(v) BY <2>2 DEF ToSetOf
  <2>7. /\ u.pmksa_count - Len(u.list) = q.pmksa_count - Len(q.list) /\ Len(u.list) <= Len(q.list)
        /\ ToSetOf(u) \subseteq ToSetOf(q)
    BY <1>4, <2>2, <2>6 DEF FreedTo
  <2>8. ASSUME u.cur_pmksa # Null
        PROVE  u.cur_pmksa = q.cur_pmksa /\ (Listed(q, q.cur_pmksa) => Listed(u, u.cur_pmksa))
    <3>1. u.cur_pmksa = q.cur_pmksa /\ \A i \in 1 .. Len(hit) : u.cur_pmksa # Ptr(hit[i])
      BY <1>4, <2>2, <2>8 DEF FreedTo, CacheSame
    <3>2. \A f \in ToSetOf(q) : Ptr(f) = q.cur_pmksa => f \in ToSetOf(v)
      BY <1>4, <3>1 DEF FreedTo
    <3> QED BY <2>6, <3>1, <3>2 DEF Listed
  <2> QED BY <2>2, <2>5, <2>7, <2>8 DEF u
<1> QED BY <1>5, <1>6

\* The cache between two calls.
Cache(q) ==
    /\ Core(q) /\ Covered(q)
    /\ q.pmksa_count = Len(q.list) /\ Len(q.list) <= PmksaMaxEntries
    /\ q.cur_pmksa # Null => Listed(q, q.cur_pmksa)

\* What an intact cache consists of.
LEMMA CacheFields ==
  ASSUME NEW q, Cache(q)
  PROVE  /\ Core(q) /\ Covered(q) /\ q \in PmksaState /\ Len(q.list) \in Nat
                /\ q.pmksa_count \in Int
         /\ q.pmksa_count = Len(q.list) /\ Len(q.list) <= PmksaMaxEntries
         /\ q.cur_pmksa # Null => Listed(q, q.cur_pmksa)
         /\ OneEach(q.list) /\ Ordered(q.list)
BY PmksaFields DEF Cache, Core

\* Replacing an authenticator's entry leaves an intact cache without one for
\* it.
LEMMA ReplaceSound ==
  ASSUME NEW q, Cache(q), NEW old \in ToSetOf(q)
  PROVE  LET u == ReplaceEntry(q, old)
         IN /\ Cache(u) /\ Lost(q, u)
            /\ ToSetOf(u) \subseteq {f \in ToSetOf(q) : f.aa # old.aa}
            /\ old.opportunistic => CacheQuiet(q, u)
<1> DEFINE v == Unlink(q, old)
           w == IF old.opportunistic THEN v ELSE pmksa_cache_flush(v, old.pmk, NoAA)
           u == ReplaceEntry(q, old)
<1>1. /\ Core(q) /\ Covered(q) /\ q \in PmksaState /\ Len(q.list) \in Nat /\ q.pmksa_count \in Int
      /\ q.pmksa_count = Len(q.list) /\ Len(q.list) <= PmksaMaxEntries
      /\ q.cur_pmksa # Null => Listed(q, q.cur_pmksa)
      /\ OneEach(q.list)
  BY CacheFields
<1>2. /\ Core(v) /\ CacheQuiet(q, v) /\ v.cur_pmksa = q.cur_pmksa /\ v.pmksa_count = q.pmksa_count
      /\ v.expire = q.expire /\ v.reauth = q.reauth
      /\ ToSetOf(v) = {f \in ToSetOf(q) : Ptr(f) # Ptr(old)}
      /\ Len(v.list) = Len(q.list) - 1
  BY <1>1, UnlinkCore
<1> HIDE DEF v
<1>3. v \in PmksaState /\ Covered(v)
  BY <1>1, <1>2, CoveredLess DEF Core
<1>4. /\ Core(w) /\ Covered(w) /\ Lost(v, w)
      /\ w.pmksa_count - Len(w.list) = v.pmksa_count - Len(v.list) /\ Len(w.list) <= Len(v.list)
      /\ ToSetOf(w) \subseteq ToSetOf(v)
      /\ w.cur_pmksa # Null => w.cur_pmksa = v.cur_pmksa
                               /\ (Listed(v, v.cur_pmksa) => Listed(w, w.cur_pmksa))
      /\ old.opportunistic => CacheQuiet(v, w)
  <2>1. CASE old.opportunistic
    <3>1. w = v BY <2>1
    <3>2. Len(v.list) \in Nat /\ v.pmksa_count \in Int BY <1>3, PmksaFields
    <3> HIDE DEF w
    <3> QED BY <1>2, <1>3, <3>1, <3>2 DEF Lost, CacheQuiet
  <2>2. CASE ~old.opportunistic
    <3>1. w = pmksa_cache_flush(v, old.pmk, NoAA) BY <2>2
    <3> HIDE DEF w
    <3> QED BY <1>2, <1>3, <2>2, <3>1, FlushPmksa
  <2> QED BY <2>1, <2>2
<1> HIDE DEF w
<1>5. w \in PmksaState /\ Len(w.list) \in Nat /\ w.pmksa_count \in Int /\ Len(v.list) \in Nat
      /\ w.pmksa_count = Len(w.list) + 1
  <2>1. w \in PmksaState BY <1>4 DEF Core
  <2>2. Len(w.list) \in Nat /\ w.pmksa_count \in Int /\ Len(v.list) \in Nat
    BY <1>3, <2>1, PmksaFields
  <2> QED BY <1>1, <1>2, <1>4, <2>1, <2>2
<1>6. \A f \in ToSetOf(w) : Ptr(f) # Ptr(old) BY <1>2, <1>4
<1>7. u = pmksa_cache_free_entry(w, old, "REPLACE") BY DEF ReplaceEntry, w, v
<1> HIDE DEF u
<1>8. /\ Core(u) /\ Lost(w, u) /\ u.pmksa_count = w.pmksa_count - 1
      /\ u.expire = w.expire /\ u.reauth = w.reauth
      /\ ToSetOf(u) = {f \in ToSetOf(w) : Ptr(f) # Ptr(old)}
      /\ u.list = w.list
      /\ u.cur_pmksa # Null => u.cur_pmksa = w.cur_pmksa /\ u.cur_pmksa # Ptr(old)
      /\ CacheQuiet(w, u)
  BY <1>4, <1>6, <1>7, FreeEntry
<1>9. Lost(q, u) /\ (old.opportunistic => CacheQuiet(q, u))
  <2>1. Lost(q, v) BY <1>2 DEF Lost
  <2>2. Lost(q, w) BY <1>4, <2>1, LostTrans
  <2> QED BY <1>2, <1>4, <1>8, <2>2, LostTrans, QuietTrans
<1>10. Covered(u)
  <2>1. u \in PmksaState BY <1>8 DEF Core
  <2> QED BY <1>4, <1>5, <1>8, <2>1, CoveredLess
<1>11. ASSUME u.cur_pmksa # Null PROVE Listed(u, u.cur_pmksa)
  <2>1. u.cur_pmksa = w.cur_pmksa /\ u.cur_pmksa # Ptr(old) BY <1>8, <1>11
  <2>2. w.cur_pmksa = q.cur_pmksa BY <1>2, <1>4, <1>11, <2>1
  <2>3. Listed(q, q.cur_pmksa) BY <1>1, <1>11, <2>1, <2>2
  <2>4. Listed(v, v.cur_pmksa) BY <1>2, <2>1, <2>2, <2>3 DEF Listed
  <2>5. Listed(w, w.cur_pmksa) BY <1>4, <1>11, <2>1, <2>4
  <2> QED BY <1>8, <2>1, <2>5 DEF Listed, ToSetOf
<1>12. u.pmksa_count = Len(u.list) /\ Len(u.list) <= PmksaMaxEntries
  BY <1>1, <1>2, <1>4, <1>5, <1>8, PmksaConstants
<1>13. ToSetOf(u) \subseteq {f \in ToSetOf(q) : f.aa # old.aa}
  <2>1. ToSetOf(u) \subseteq {f \in ToSetOf(q) : Ptr(f) # Ptr(old)} BY <1>2, <1>4, <1>8
  <2>2. \A f \in ToSetOf(q) : f.aa = old.aa => f = old BY <1>1, Entries
  <2> QED BY <2>1, <2>2
<1>14. Cache(u) BY <1>8, <1>10, <1>11, <1>12 DEF Cache
<1> QED BY <1>9, <1>13, <1>14 DEF u

\* Dropping the oldest entry of a full cache makes room for one.
LEMMA DropOldestSound ==
  ASSUME NEW q, Cache(q)
  PROVE  LET u == DropOldest(q)
         IN Cache(u) /\ CacheQuiet(q, u) /\ Len(u.list) <= PmksaMaxEntries - 1
            /\ ToSetOf(u) \subseteq ToSetOf(q)
<1> DEFINE u == DropOldest(q)
<1>1. /\ Core(q) /\ Covered(q) /\ q \in PmksaState /\ Len(q.list) \in Nat /\ q.pmksa_count \in Int
      /\ q.pmksa_count = Len(q.list) /\ Len(q.list) <= PmksaMaxEntries
      /\ q.cur_pmksa # Null => Listed(q, q.cur_pmksa)
      /\ OneEach(q.list)
  BY CacheFields
<1>2. ASSUME NEW e \in ToSetOf(q), Ptr(e) # q.cur_pmksa, u = pmksa_cache_free_entry(q, e, "FREE")
      PROVE  Cache(u) /\ CacheQuiet(q, u) /\ Len(u.list) <= PmksaMaxEntries - 1
             /\ ToSetOf(u) \subseteq ToSetOf(q)
  <2> HIDE DEF u
  <2>1. /\ Core(u) /\ u.pmksa_count = q.pmksa_count - 1
        /\ u.expire = q.expire /\ u.reauth = q.reauth
        /\ ToSetOf(u) = {f \in ToSetOf(q) : Ptr(f) # Ptr(e)}
        /\ Len(u.list) = Len(q.list) - 1
        /\ CacheQuiet(q, u) /\ u.cur_pmksa = q.cur_pmksa
    BY <1>1, <1>2, FreeEntry
  <2>2. Covered(u)
    <3>1. u \in PmksaState BY <2>1 DEF Core
    <3> QED BY <1>1, <2>1, <3>1, CoveredLess
  <2>3. u.cur_pmksa # Null => Listed(u, u.cur_pmksa)
    BY <1>1, <1>2, <2>1 DEF Listed
  <2>4. u.pmksa_count = Len(u.list) /\ Len(u.list) <= PmksaMaxEntries - 1
        /\ Len(u.list) <= PmksaMaxEntries
    BY <1>1, <2>1, PmksaConstants
  <2> QED BY <2>1, <2>2, <2>3, <2>4 DEF Cache
<1>3. CASE q.pmksa_count < PmksaMaxEntries \/ q.list = <<>>
  <2>1. u = q BY <1>3 DEF DropOldest
  <2>2. Len(q.list) <= PmksaMaxEntries - 1 BY <1>1, <1>3, PmksaConstants, PmksaFields
  <2> QED BY <2>1, <2>2 DEF CacheQuiet
<1>4. CASE ~(q.pmksa_count < PmksaMaxEntries \/ q.list = <<>>)
  <2>1. Len(q.list) > 1 /\ 1 \in 1 .. Len(q.list) /\ 2 \in 1 .. Len(q.list)
    BY <1>1, <1>4, PmksaConstants
  <2>2. q.list[1] \in ToSetOf(q) /\ q.list[2] \in ToSetOf(q) BY <1>1, <2>1, Entries
  <2>3. CASE Ptr(q.list[1]) # q.cur_pmksa
    <3>1. u = pmksa_cache_free_entry(q, q.list[1], "FREE") BY <1>4, <2>3 DEF DropOldest
    <3> QED BY <1>2, <2>2, <2>3, <3>1
  <2>4. CASE Ptr(q.list[1]) = q.cur_pmksa
    <3>1. u = pmksa_cache_free_entry(q, q.list[2], "FREE") BY <1>4, <2>1, <2>4 DEF DropOldest
    <3>2. Ptr(q.list[2]) # q.cur_pmksa
      <4>1. q.list[1].aa # q.list[2].aa BY <1>1, <2>1 DEF OneEach
      <4> QED BY <2>4, <4>1, PtrIs
    <3> QED BY <1>2, <2>2, <3>1, <3>2
  <2> QED BY <2>3, <2>4
<1> QED BY <1>3, <1>4

\* A fresh entry can be linked in where its expiration belongs.
LEMMA LinkSound ==
  ASSUME NEW q, Cache(q), Len(q.list) <= PmksaMaxEntries - 1,
         NEW e \in PmksaEntries, e.expiration = PmkLifetime, \A f \in ToSetOf(q) : f.aa # e.aa
  PROVE  LET u == LinkEntry(q, e)
         IN Cache(u) /\ CacheSame(q, u) /\ ToSetOf(u) = ToSetOf(q) \cup {e}
<1> DEFINE s == q.list
           later == {i \in DOMAIN s : s[i].expiration > e.expiration}
           at == IF later = {} THEN Len(s) + 1 ELSE CHOOSE i \in later : \A j \in later : i <= j
           t == InsertAt(s, at, e)
           v == [q EXCEPT !.list = t]
           w == IF at = 1 THEN pmksa_cache_set_expiration(v) ELSE v
           u == LinkEntry(q, e)
<1>1. /\ Core(q) /\ Covered(q) /\ q \in PmksaState /\ Len(s) \in Nat /\ q.pmksa_count \in Int
      /\ q.pmksa_count = Len(s) /\ Len(s) <= PmksaMaxEntries
      /\ q.cur_pmksa # Null => Listed(q, q.cur_pmksa)
      /\ OneEach(s) /\ Ordered(s) /\ s \in Seq(PmksaEntries) /\ DOMAIN s = 1 .. Len(s)
  BY CacheFields, PmksaFields
<1>2. \A i \in 1 .. Len(s) : s[i] \in PmksaEntries /\ s[i].expiration \in LongPast .. PmkLifetime
                             /\ s[i].aa # e.aa /\ s[i] \in ToSetOf(q)
  BY <1>1, PmksaFields, PmksaEntryFields, Entries
<1>3. later = {} BY <1>1, <1>2, PmksaConstants DEF LongPast
<1>4. at = Len(s) + 1 BY <1>3
<1>5. u = [w EXCEPT !.pmksa_count = @ + 1]
  BY DEF LinkEntry
<1> HIDE DEF later, at, u
<1>6. t \in Seq(PmksaEntries) /\ Len(t) = Len(s) + 1 /\ t[Len(s) + 1] = e
      /\ \A i \in 1 .. Len(s) : t[i] = s[i]
  <2> HIDE DEF s
  <2>1. SubSeq(s, 1, at - 1) = s BY <1>1, <1>4
  <2>2. SubSeq(s, at, Len(s)) = <<>> BY <1>1, <1>4
  <2>3. t = s \o <<e>> \o <<>> BY <2>1, <2>2 DEF InsertAt
  <2>4. s \o <<e>> \in Seq(PmksaEntries) /\ s \o <<e>> \o <<>> = s \o <<e>> BY <1>1
  <2> HIDE DEF t
  <2> QED BY <1>1, <2>3, <2>4
<1> HIDE DEF t
<1>7. \A i \in 1 .. Len(t) : i \in 1 .. Len(s) \/ i = Len(s) + 1 BY <1>1, <1>6
<1>8. OneEach(t)
  <2> SUFFICES ASSUME NEW i \in 1 .. Len(t), NEW j \in 1 .. Len(t), t[i].aa = t[j].aa PROVE i = j
    BY DEF OneEach
  <2>1. CASE i \in 1 .. Len(s) /\ j \in 1 .. Len(s) BY <1>1, <1>6, <2>1 DEF OneEach
  <2>2. CASE i = Len(s) + 1 /\ j \in 1 .. Len(s) BY <1>2, <1>6, <2>2
  <2>3. CASE j = Len(s) + 1 /\ i \in 1 .. Len(s) BY <1>2, <1>6, <2>3
  <2> QED BY <1>7, <2>1, <2>2, <2>3
<1>9. Ordered(t)
  <2> SUFFICES ASSUME NEW i \in 1 .. Len(t), NEW j \in 1 .. Len(t), i < j, ~t[j].clone
               PROVE  t[i].expiration <= t[j].expiration
    BY DEF Ordered
  <2>1. i \in 1 .. Len(s) BY <1>1, <1>6
  <2>2. CASE j \in 1 .. Len(s) BY <1>1, <1>6, <2>1, <2>2 DEF Ordered
  <2>3. CASE j = Len(s) + 1 BY <1>2, <1>6, <2>1, <2>3, PmksaConstants DEF LongPast
  <2> QED BY <1>7, <2>2, <2>3
<1>10. /\ Core(v) /\ v.list = t /\ CacheSame(q, v) /\ v.expire = q.expire
              /\ v.pmksa_count = q.pmksa_count
  BY <1>1, <1>6, <1>8, <1>9 DEF Core, PmksaState, CacheSame
<1> HIDE DEF v
<1>11. ToSetOf(v) = ToSetOf(q) \cup {e}
  <2>0. v \in PmksaState BY <1>10 DEF Core
  <2>1. \A f : f \in ToSetOf(v) <=> \E i \in 1 .. Len(t) : f = t[i] BY <1>10, <2>0, Entries
  <2>2. \A f : f \in ToSetOf(q) <=> \E i \in 1 .. Len(s) : f = s[i] BY <1>1, Entries
  <2>3. \A i \in 1 .. Len(s) : i \in 1 .. Len(t) BY <1>1, <1>6
  <2>4. Len(s) + 1 \in 1 .. Len(t) BY <1>1, <1>6
  <2> HIDE DEF s
  <2>5. ASSUME NEW f \in ToSetOf(v) PROVE f \in ToSetOf(q) \cup {e}
    <3>1. PICK i \in 1 .. Len(t) : f = t[i] BY <2>1
    <3> QED BY <1>6, <1>7, <2>2, <3>1
  <2>6. ASSUME NEW f \in ToSetOf(q) \cup {e} PROVE f \in ToSetOf(v)
    BY <1>6, <2>1, <2>2, <2>3, <2>4
  <2> QED BY <2>5, <2>6
<1>12. /\ Core(w) /\ Covered(w) /\ w.list = t /\ CacheSame(q, w) /\ w.pmksa_count = q.pmksa_count
  <2>1. CASE at = 1
    <3>1. w = pmksa_cache_set_expiration(v) BY <2>1
    <3> HIDE DEF w
    <3>2. /\ Core(w) /\ Covered(w) /\ CacheSame(v, w) /\ w.list = v.list
                 /\ w.pmksa_count = v.pmksa_count
      BY <1>10, <3>1, SetExpirationSound
    <3> QED BY <1>10, <3>2 DEF CacheSame
  <2>2. CASE at # 1
    <3>1. w = v BY <2>2
    <3>2. s # <<>> BY <1>1, <1>4, <2>2
    <3>3. q.expire >= 0 /\ q.expire <= PmkLifetime + 1
      <4>1. q.expire >= 0 BY <1>1, <3>2 DEF Covered
      <4>2. q.expire \in NoTimer .. (PmkLifetime + 1) BY <1>1, PmksaFields
      <4> QED BY <4>1, <4>2, PmksaConstants DEF NoTimer
    <3>4. Covered(v)
      <4>1. v.expire <= NotBelow0(e.expiration) + 1
        BY <1>10, <3>3, PmksaConstants DEF NotBelow0
      <4> QED BY <1>1, <1>10, <1>11, <3>3, <4>1 DEF Covered
    <3> HIDE DEF w
    <3> QED BY <1>10, <3>1, <3>4
  <2> QED BY <2>1, <2>2
<1> HIDE DEF w
<1>13. /\ u \in PmksaState /\ u.list = t /\ CacheSame(w, u) /\ u.pmksa_count = w.pmksa_count + 1
       /\ u.expire = w.expire
  <2>1. w \in PmksaState BY <1>12 DEF Core
  <2> QED BY <1>5, <1>12, <2>1 DEF PmksaState, CacheSame
<1>14. ToSetOf(u) = ToSetOf(q) \cup {e} /\ ToSetOf(w) = ToSetOf(u)
  BY <1>10, <1>11, <1>12, <1>13 DEF ToSetOf
<1>15. Covered(u)
  <2>1. w \in PmksaState BY <1>12 DEF Core
  <2> QED BY <1>12, <1>13, <1>14, <2>1, CoveredLess
<1>16. CacheSame(q, u) BY <1>12, <1>13 DEF CacheSame
<1>17. u.cur_pmksa # Null => Listed(u, u.cur_pmksa)
  BY <1>1, <1>14, <1>16 DEF CacheSame, Listed
<1>18. u.pmksa_count = Len(u.list) /\ Len(u.list) <= PmksaMaxEntries
  BY <1>1, <1>6, <1>12, <1>13, PmksaConstants
<1>19. Core(u) BY <1>8, <1>9, <1>13 DEF Core
<1>20. Cache(u) BY <1>15, <1>17, <1>18, <1>19 DEF Cache
<1> QED BY <1>14, <1>16, <1>20 DEF u

NewEntry(pmk, aa, sae) ==
    [aa |-> aa, pmk |-> pmk, sae |-> sae, expiration |-> PmkLifetime,
     reauth_time |-> PmkReauth, opportunistic |-> FALSE, clone |-> FALSE]

\* pmksa_cache_add leaves an intact cache with the new entry in it.
LEMMA AddSound ==
  ASSUME NEW q, Cache(q), NEW pmk \in Pmks, NEW aa \in AAs, NEW sae \in BOOLEAN
  PROVE  LET a == pmksa_cache_add(q, pmk, aa, sae)
         IN /\ Cache(a.cache) /\ Lost(q, a.cache)
            /\ a.sa = <<aa, pmk>> /\ Listed(a.cache, a.sa)
            /\ \A f \in ToSetOf(a.cache) : f \in ToSetOf(q) \/ f = NewEntry(pmk, aa, sae)
            /\ (\A f \in ToSetOf(q) : f.aa = aa => f.opportunistic) => CacheQuiet(q, a.cache)
<1> DEFINE new == NewEntry(pmk, aa, sae)
           old == pmksa_cache_get(q, aa)
           r == IF old = <<>> THEN q ELSE ReplaceEntry(q, old[1])
           d == DropOldest(r)
           l == LinkEntry(d, new)
           a == pmksa_cache_add(q, pmk, aa, sae)
<1>1. a = IF old # <<>> /\ old[1].pmk = pmk THEN [cache |-> q, sa |-> Ptr(old[1])]
          ELSE [cache |-> l, sa |-> Ptr(new)]
  BY DEF pmksa_cache_add, NewEntry
<1>2. new \in PmksaEntries /\ new.expiration = PmkLifetime /\ new.aa = aa /\ new.pmk = pmk
      /\ Ptr(new) = <<aa, pmk>>
  BY PmksaConstants DEF NewEntry, PmksaEntries, LongPast, Ptr
<1> HIDE DEF new
<1>3. q \in PmksaState /\ OneEach(q.list) BY CacheFields
<1>4. \/ old = <<>> /\ \A e \in ToSetOf(q) : e.aa # aa
      \/ \E e \in ToSetOf(q) : e.aa = aa /\ old = <<e>>
  <2> DEFINE K == {e \in ToSetOf(q) : e.aa = aa}
  <2>1. old = First(q, K) BY DEF pmksa_cache_get
  <2>2. \A e \in ToSetOf(q) : e \in K <=> e.aa = aa OBVIOUS
  <2> HIDE DEF K, old
  <2>3. \/ old = <<>> /\ \A e \in ToSetOf(q) : e \notin K
        \/ \E e \in ToSetOf(q) : e \in K /\ old = <<e>>
    BY <1>3, <2>1, FirstSound
  <2> QED BY <2>2, <2>3
<1> HIDE DEF old, a
<1>5. CASE old # <<>> /\ old[1].pmk = pmk
  <2>1. PICK e \in ToSetOf(q) : e.aa = aa /\ old = <<e>> BY <1>4, <1>5
  <2>2. old[1] = e /\ e.pmk = pmk BY <1>5, <2>1
  <2>3. Ptr(e) = <<aa, pmk>> BY <2>1, <2>2 DEF Ptr
  <2>4. a.cache = q /\ a.sa = Ptr(e) BY <1>1, <1>5, <2>2
  <2>5. Listed(q, Ptr(e)) BY DEF Listed
  <2> QED BY <2>3, <2>4, <2>5 DEF Lost, CacheQuiet, a
<1>6. CASE ~(old # <<>> /\ old[1].pmk = pmk)
  <2>1. a.cache = l /\ a.sa = Ptr(new) BY <1>1, <1>6
  <2>2. /\ Cache(r) /\ Lost(q, r) /\ ToSetOf(r) \subseteq ToSetOf(q)
        /\ \A f \in ToSetOf(r) : f.aa # aa
        /\ (\A f \in ToSetOf(q) : f.aa = aa => f.opportunistic) => CacheQuiet(q, r)
    <3>1. CASE old = <<>>
      <4>1. r = q /\ \A e \in ToSetOf(q) : e.aa # aa BY <1>4, <3>1
      <4> HIDE DEF r
      <4> QED BY <4>1 DEF Lost, CacheQuiet
    <3>2. CASE old # <<>>
      <4>1. PICK e \in ToSetOf(q) : e.aa = aa /\ old = <<e>> BY <1>4, <3>2
      <4>2. r = ReplaceEntry(q, e) BY <3>2, <4>1
      <4> HIDE DEF r
      <4>3. /\ Cache(r) /\ Lost(q, r)
            /\ ToSetOf(r) \subseteq {f \in ToSetOf(q) : f.aa # e.aa}
            /\ e.opportunistic => CacheQuiet(q, r)
        BY <4>2, ReplaceSound
      <4> QED BY <4>1, <4>3
    <3> QED BY <3>1, <3>2
  <2> HIDE DEF r
  <2>3. Cache(d) /\ CacheQuiet(r, d) /\ Len(d.list) <= PmksaMaxEntries - 1
        /\ ToSetOf(d) \subseteq ToSetOf(r)
    BY <2>2, DropOldestSound
  <2> HIDE DEF d
  <2>4. Cache(l) /\ CacheSame(d, l) /\ ToSetOf(l) = ToSetOf(d) \cup {new}
    <3>1. \A f \in ToSetOf(d) : f.aa # new.aa BY <1>2, <2>2, <2>3
    <3> QED BY <1>2, <2>3, <3>1, LinkSound
  <2> HIDE DEF l
  <2>5. CacheQuiet(d, l) BY <2>4 DEF CacheSame, CacheQuiet
  <2>6. CacheQuiet(r, l) BY <2>3, <2>5, QuietTrans
  <2>7. Lost(q, l)
    <3>1. Lost(r, l) BY <2>6 DEF Lost
    <3> QED BY <2>2, <3>1, LostTrans
  <2>8. (\A f \in ToSetOf(q) : f.aa = aa => f.opportunistic) => CacheQuiet(q, l)
    BY <2>2, <2>6, QuietTrans
  <2>9. Listed(l, Ptr(new)) BY <2>4 DEF Listed
  <2>10. \A f \in ToSetOf(l) : f \in ToSetOf(q) \/ f = new BY <2>2, <2>3, <2>4
  <2> QED BY <1>2, <2>1, <2>4, <2>7, <2>8, <2>9, <2>10 DEF a, new
<1> QED BY <1>5, <1>6

\* A list whose entries change and keep their AA and PMK.
LEMMA EntriesMarked ==
  ASSUME NEW q, Cache(q), NEW t \in Seq(PmksaEntries), Len(t) = Len(q.list),
         \A i \in 1 .. Len(t) : Ptr(t[i]) = Ptr(q.list[i]), Ordered(t),
         \A i \in 1 .. Len(t) : ~t[i].sae /\ ~t[i].clone =>
             q.expire <= NotBelow0(t[i].expiration) + 1
  PROVE  LET u == [q EXCEPT !.list = t]
         IN Cache(u) /\ CacheSame(q, u) /\ u.list = t
            /\ \A p : Listed(q, p) <=> Listed(u, p)
<1> DEFINE u == [q EXCEPT !.list = t]
<1>1. /\ Core(q) /\ Covered(q) /\ q \in PmksaState /\ Len(q.list) \in Nat /\ q.pmksa_count \in Int
      /\ q.pmksa_count = Len(q.list) /\ Len(q.list) <= PmksaMaxEntries
      /\ q.cur_pmksa # Null => Listed(q, q.cur_pmksa)
      /\ OneEach(q.list)
  BY CacheFields
<1>2. u \in PmksaState /\ u.list = t /\ CacheSame(q, u) /\ u.pmksa_count = q.pmksa_count
      /\ u.expire = q.expire
  BY <1>1 DEF PmksaState, CacheSame
<1> HIDE DEF u
<1>3. OneEach(t)
  <2>1. \A i \in 1 .. Len(t) : t[i].aa = q.list[i].aa BY PtrIs
  <2> QED BY <1>1, <2>1 DEF OneEach
<1>4. Covered(u)
  <2>1. t # <<>> => q.list # <<>> BY <1>1
  <2>2. \A e \in ToSetOf(u) : \E i \in 1 .. Len(t) : e = t[i] BY <1>2, Entries
  <2> QED BY <1>1, <1>2, <2>1, <2>2 DEF Covered
<1>5. ASSUME NEW p PROVE Listed(q, p) <=> Listed(u, p)
  <2>1. \A e : e \in ToSetOf(u) <=> \E i \in 1 .. Len(t) : e = t[i] BY <1>2, Entries
  <2>2. \A e : e \in ToSetOf(q) <=> \E i \in 1 .. Len(t) : e = q.list[i] BY <1>1, Entries
  <2>3. Listed(u, p) <=> \E i \in 1 .. Len(t) : Ptr(t[i]) = p BY <2>1 DEF Listed
  <2>4. Listed(q, p) <=> \E i \in 1 .. Len(t) : Ptr(q.list[i]) = p BY <2>2 DEF Listed
  <2> QED BY <2>3, <2>4
<1>6. Cache(u)
  <2>1. u.cur_pmksa # Null => Listed(u, u.cur_pmksa) BY <1>1, <1>2, <1>5 DEF CacheSame
  <2> QED BY <1>1, <1>2, <1>3, <1>4, <2>1 DEF Cache, Core
<1> QED BY <1>2, <1>5, <1>6 DEF u

\* pmksa_cache_clone_entry adds an opportunistic entry and leaves the
\* association alone.
LEMMA CloneSound ==
  ASSUME NEW q, Cache(q), NEW old \in ToSetOf(q), NEW aa \in AAs,
         \A f \in ToSetOf(q) : f.aa # aa
  PROVE  LET a == pmksa_cache_clone_entry(q, old, aa)
         IN /\ Cache(a.cache) /\ CacheQuiet(q, a.cache)
            /\ a.sa = <<aa, old.pmk>> /\ Listed(a.cache, a.sa)
            /\ \A f \in ToSetOf(a.cache) : f \in ToSetOf(q) \/ f.opportunistic
<1> DEFINE b == pmksa_cache_add(q, old.pmk, aa, old.sae)
           s == b.cache.list
           C(f) == IF Ptr(f) = b.sa
                   THEN [f EXCEPT !.expiration = old.expiration, !.reauth_time = old.reauth_time,
                                  !.opportunistic = TRUE, !.clone = TRUE]
                   ELSE f
           t == [i \in DOMAIN s |-> C(s[i])]
           v == [b.cache EXCEPT !.list = t]
           a == pmksa_cache_clone_entry(q, old, aa)
<1>1. a.cache = v /\ a.sa = b.sa BY DEF pmksa_cache_clone_entry
<1>2. q \in PmksaState BY CacheFields
<1>3. old \in PmksaEntries /\ old.pmk \in Pmks /\ old.sae \in BOOLEAN
      /\ old.expiration \in LongPast .. PmkLifetime /\ old.reauth_time \in LongPast .. PmkLifetime
  BY <1>2, Entries, PmksaEntryFields
<1>4. /\ Cache(b.cache) /\ b.sa = <<aa, old.pmk>> /\ Listed(b.cache, b.sa)
      /\ (\A f \in ToSetOf(b.cache) : f \in ToSetOf(q) \/ f = NewEntry(old.pmk, aa, old.sae))
      /\ CacheQuiet(q, b.cache)
  BY <1>3, AddSound
<1> HIDE DEF b
<1>5. b.cache \in PmksaState /\ s \in Seq(PmksaEntries) /\ Len(s) \in Nat /\ DOMAIN s = 1 .. Len(s)
      /\ Ordered(s) /\ Covered(b.cache)
      /\ \A i \in 1 .. Len(s) : s[i] \in PmksaEntries /\ s[i] \in ToSetOf(b.cache)
  BY <1>4, CacheFields, PmksaFields, Entries
<1>6. \A f \in PmksaEntries :
         /\ C(f) \in PmksaEntries /\ C(f).sae = f.sae /\ C(f).aa = f.aa /\ C(f).pmk = f.pmk
         /\ Ptr(f) # b.sa => C(f) = f
         /\ Ptr(f) = b.sa => C(f).clone /\ C(f).opportunistic /\ C(f).expiration = old.expiration
  BY <1>3 DEF PmksaEntries
<1> HIDE DEF C
<1>7. t \in Seq(PmksaEntries) /\ Len(t) = Len(s) /\ \A i \in 1 .. Len(t) : t[i] = C(s[i])
  BY <1>5, <1>6
<1> HIDE DEF t
<1>8. \A i \in 1 .. Len(t) : Ptr(t[i]) = Ptr(s[i])
  BY <1>5, <1>6, <1>7, PtrIs
\* The entry the clone takes its times from has the earlier ones.
<1>9. \A i \in 1 .. Len(s) : Ptr(s[i]) = b.sa => s[i].expiration = PmkLifetime
  <2> SUFFICES ASSUME NEW i \in 1 .. Len(s), Ptr(s[i]) = b.sa PROVE s[i].expiration = PmkLifetime
    OBVIOUS
  <2>1. s[i].aa = aa BY <1>4, PtrNotNull
  <2>2. s[i] = NewEntry(old.pmk, aa, old.sae) BY <1>4, <1>5, <2>1
  <2> QED BY <2>2 DEF NewEntry
<1>10. \A i \in 1 .. Len(s) : t[i].expiration <= s[i].expiration /\ (t[i].clone \/ t[i] = s[i])
                              /\ s[i].expiration \in Int /\ t[i].expiration \in Int
  <2> SUFFICES ASSUME NEW i \in 1 .. Len(s)
               PROVE  t[i].expiration <= s[i].expiration /\ (t[i].clone \/ t[i] = s[i])
                      /\ s[i].expiration \in Int /\ t[i].expiration \in Int
    OBVIOUS
  <2>1. s[i] \in PmksaEntries /\ s[i].expiration \in LongPast .. PmkLifetime
    BY <1>5, PmksaEntryFields
  <2>2. CASE Ptr(s[i]) # b.sa
    <3>1. t[i] = s[i] BY <1>6, <1>7, <2>1, <2>2
    <3> QED BY <2>1, <3>1 DEF LongPast
  <2>3. CASE Ptr(s[i]) = b.sa
    <3>1. t[i].clone /\ t[i].expiration = old.expiration BY <1>6, <1>7, <2>1, <2>3
    <3> QED BY <1>3, <1>9, <2>1, <2>3, <3>1, PmksaConstants DEF LongPast
  <2> QED BY <2>2, <2>3
<1>11. Ordered(t)
  <2> SUFFICES ASSUME NEW i \in 1 .. Len(t), NEW j \in 1 .. Len(t), i < j, ~t[j].clone
               PROVE  t[i].expiration <= t[j].expiration
    BY DEF Ordered
  <2>1. t[j] = s[j] /\ t[i].expiration <= s[i].expiration
        /\ s[i].expiration \in Int /\ t[i].expiration \in Int /\ s[j].expiration \in Int
    BY <1>7, <1>10
  <2>2. s[i].expiration <= s[j].expiration BY <1>5, <1>7, <2>1 DEF Ordered
  <2> QED BY <2>1, <2>2
<1>12. \A i \in 1 .. Len(t) : ~t[i].sae /\ ~t[i].clone =>
             b.cache.expire <= NotBelow0(t[i].expiration) + 1
  BY <1>5, <1>7, <1>10 DEF Covered
<1>13. Cache(v) /\ CacheSame(b.cache, v) /\ v.list = t /\ \A p : Listed(b.cache, p) <=> Listed(v, p)
  BY <1>4, <1>7, <1>8, <1>11, <1>12, EntriesMarked
<1> HIDE DEF v
<1>14. CacheQuiet(q, v) BY <1>4, <1>13 DEF CacheQuiet, CacheSame
<1>15. ASSUME NEW f \in ToSetOf(v) PROVE f \in ToSetOf(q) \/ f.opportunistic
  <2>0. v \in PmksaState BY <1>13, CacheFields
  <2>1. PICK i \in 1 .. Len(t) : f = t[i] BY <1>13, <2>0, Entries
  <2>2. s[i] \in PmksaEntries /\ s[i] \in ToSetOf(b.cache) BY <1>5, <1>7
  <2>3. CASE Ptr(s[i]) = b.sa BY <1>6, <1>7, <2>1, <2>2, <2>3
  <2>4. CASE Ptr(s[i]) # b.sa
    <3>1. f = s[i] BY <1>6, <1>7, <2>1, <2>2, <2>4
    <3>2. s[i] # NewEntry(old.pmk, aa, old.sae) BY <1>4, <2>4 DEF NewEntry, Ptr
    <3> QED BY <1>4, <2>2, <3>1, <3>2
  <2> QED BY <2>3, <2>4
<1> QED BY <1>1, <1>4, <1>13, <1>14, <1>15

\* u is q with a selection made for aa, and with clones added.
Selected(q, u, aa) ==
    /\ Cache(u) /\ u.pmk = q.pmk /\ u.eap = q.eap
    /\ u.phase = q.phase /\ u.target = q.target /\ u.bssid = q.bssid
    /\ u.preauth_bssid = q.preauth_bssid /\ u.derived = q.derived
    /\ u.cur_pmksa # Null => u.cur_pmksa[1] = aa
    /\ \A f \in ToSetOf(u) : f \in ToSetOf(q) \/ f.opportunistic

\* Taking the selection back leaves the rest of the cache alone.
LEMMA Deselected ==
  ASSUME NEW q, Cache(q)
  PROVE  LET u == [q EXCEPT !.cur_pmksa = Null]
         IN /\ Cache(u) /\ CacheQuiet(q, u) /\ u.cur_pmksa = Null /\ u.list = q.list
            /\ ToSetOf(u) = ToSetOf(q) /\ \A aa : Selected(q, u, aa)
<1> DEFINE u == [q EXCEPT !.cur_pmksa = Null]
<1>1. /\ Core(q) /\ Covered(q) /\ q \in PmksaState
      /\ q.pmksa_count = Len(q.list) /\ Len(q.list) <= PmksaMaxEntries
  BY CacheFields
<1>2. /\ u \in PmksaState /\ CacheQuiet(q, u) /\ u.cur_pmksa = Null /\ u.list = q.list
      /\ u.pmksa_count = q.pmksa_count /\ u.expire = q.expire
  BY <1>1 DEF PmksaState, CacheQuiet
<1> HIDE DEF u
<1>3. ToSetOf(u) = ToSetOf(q) BY <1>2 DEF ToSetOf
<1>4. Cache(u) BY <1>1, <1>2, <1>3 DEF Cache, Core, Covered
<1> QED BY <1>2, <1>3, <1>4 DEF Selected, CacheQuiet, u

\* A listed entry may be selected.
LEMMA SelectedEntry ==
  ASSUME NEW q, Cache(q), NEW p \in EntryIds, Listed(q, p)
  PROVE  LET u == [q EXCEPT !.cur_pmksa = p]
         IN /\ Cache(u) /\ u.cur_pmksa = p /\ u.list = q.list /\ ToSetOf(u) = ToSetOf(q)
            /\ u.pmk = q.pmk /\ u.eap = q.eap
            /\ u.phase = q.phase /\ u.target = q.target /\ u.bssid = q.bssid
            /\ u.preauth_bssid = q.preauth_bssid /\ u.derived = q.derived
<1> DEFINE u == [q EXCEPT !.cur_pmksa = p]
<1>1. /\ Core(q) /\ Covered(q) /\ q \in PmksaState
      /\ q.pmksa_count = Len(q.list) /\ Len(q.list) <= PmksaMaxEntries
  BY CacheFields
<1>2. /\ u \in PmksaState /\ u.cur_pmksa = p /\ u.list = q.list
      /\ u.pmksa_count = q.pmksa_count /\ u.expire = q.expire
      /\ u.pmk = q.pmk /\ u.eap = q.eap
      /\ u.phase = q.phase /\ u.target = q.target /\ u.bssid = q.bssid
      /\ u.preauth_bssid = q.preauth_bssid /\ u.derived = q.derived
  BY <1>1 DEF PmksaState
<1> HIDE DEF u
<1>3. ToSetOf(u) = ToSetOf(q) BY <1>2 DEF ToSetOf
<1>4. Listed(u, u.cur_pmksa) BY <1>2, <1>3 DEF Listed
<1>5. Cache(u) BY <1>1, <1>2, <1>3, <1>4 DEF Cache, Core, Covered
<1> QED BY <1>2, <1>3, <1>5 DEF u

\* The selection names the entry that Current() finds.
LEMMA CurrentIs ==
  ASSUME NEW q, Cache(q), q.cur_pmksa # Null
  PROVE  /\ Current(q) \in ToSetOf(q) /\ Ptr(Current(q)) = q.cur_pmksa
         /\ Current(q) \in PmksaEntries
         /\ Current(q).aa = q.cur_pmksa[1] /\ Current(q).pmk = q.cur_pmksa[2]
<1>1. \E e \in ToSetOf(q) : Ptr(e) = q.cur_pmksa BY CacheFields DEF Listed
<1>2. Current(q) \in ToSetOf(q) /\ Ptr(Current(q)) = q.cur_pmksa
  BY <1>1 DEF Current
<1>3. q \in PmksaState BY CacheFields
<1> QED BY <1>2, <1>3, PtrNotNull, Entries

\* pmksa_cache_get_opportunistic() for an AA without an entry.
LEMMA OpportunisticSound ==
  ASSUME NEW q, Cache(q), NEW aa \in AAs, \A f \in ToSetOf(q) : f.aa # aa
  PROVE  LET a == pmksa_cache_get_opportunistic(q, aa)
         IN /\ Cache(a.cache) /\ CacheQuiet(q, a.cache)
            /\ a.sa # Null => a.sa[1] = aa /\ Listed(a.cache, a.sa)
            /\ \A f \in ToSetOf(a.cache) : f \in ToSetOf(q) \/ f.opportunistic
<1> DEFINE K == {e \in ToSetOf(q) : ~(e.sae /\ e.reauth_time < 0)}
           old == First(q, K)
           a == pmksa_cache_get_opportunistic(q, aa)
<1>1. a = IF old = <<>> THEN [cache |-> q, sa |-> Null]
          ELSE pmksa_cache_clone_entry(q, old[1], aa)
  BY DEF pmksa_cache_get_opportunistic
<1> HIDE DEF K, a
<1>2. q \in PmksaState BY CacheFields
<1>3. old = <<>> \/ \E e \in ToSetOf(q) : old = <<e>> BY <1>2, FirstSound
<1> HIDE DEF old
<1>4. CASE old = <<>>
  <2>1. a.cache = q /\ a.sa = Null BY <1>1, <1>4
  <2> QED BY <2>1 DEF CacheQuiet, a
<1>5. CASE old # <<>>
  <2>1. PICK e \in ToSetOf(q) : old = <<e>> BY <1>3, <1>5
  <2>2. a = pmksa_cache_clone_entry(q, e, aa) BY <1>1, <1>5, <2>1
  <2>3. /\ Cache(a.cache) /\ CacheQuiet(q, a.cache)
        /\ a.sa = <<aa, e.pmk>> /\ Listed(a.cache, a.sa)
        /\ \A f \in ToSetOf(a.cache) : f \in ToSetOf(q) \/ f.opportunistic
    BY <2>2, CloneSound
  <2> QED BY <2>3 DEF a
<1> QED BY <1>4, <1>5

\* pmksa_cache_set_current() selects an entry of the AA, or none.
LEMMA SetCurrentSound ==
  ASSUME NEW q, Cache(q), NEW aa \in AAs, NEW akmps, NEW try \in BOOLEAN, try => akmps = BOOLEAN
  PROVE  Selected(q, pmksa_cache_set_current(q, aa, akmps, try), aa)
<1> DEFINE K == {e \in ToSetOf(q) : e.aa = aa /\ e.sae \in akmps}
           found == First(q, K)
           none == [q EXCEPT !.cur_pmksa = Null]
           pick == IF found # <<>> THEN [cache |-> none, sa |-> Ptr(found[1])]
                   ELSE IF try THEN pmksa_cache_get_opportunistic(none, aa)
                   ELSE [cache |-> none, sa |-> Null]
           usable == \E e \in ToSetOf(pick.cache) :
                         Ptr(e) = pick.sa /\ ~(e.sae /\ e.reauth_time < 0)
           u == pmksa_cache_set_current(q, aa, akmps, try)
<1>1. u = IF usable THEN [pick.cache EXCEPT !.cur_pmksa = pick.sa] ELSE pick.cache
  BY DEF pmksa_cache_set_current
<1>2. q \in PmksaState BY CacheFields
<1>3. \/ found = <<>> /\ \A e \in ToSetOf(q) : e \notin K
      \/ \E e \in ToSetOf(q) : e \in K /\ found = <<e>>
  <2> HIDE DEF K
  <2> QED BY <1>2, FirstSound
<1>4. \/ found = <<>> /\ (try => \A e \in ToSetOf(q) : e.aa # aa)
      \/ \E e \in ToSetOf(q) : e.aa = aa /\ found = <<e>>
  <2>1. \A e \in ToSetOf(q) : e.sae \in BOOLEAN BY <1>2, Entries, PmksaEntryFields
  <2> HIDE DEF found
  <2> QED BY <1>3, <2>1
<1> HIDE DEF found, K
<1>5. Cache(none) /\ CacheQuiet(q, none) /\ none.cur_pmksa = Null /\ ToSetOf(none) = ToSetOf(q)
  BY Deselected
<1> HIDE DEF none
<1>6. /\ Cache(pick.cache) /\ CacheQuiet(none, pick.cache)
      /\ pick.sa # Null => pick.sa[1] = aa /\ Listed(pick.cache, pick.sa)
      /\ \A f \in ToSetOf(pick.cache) : f \in ToSetOf(q) \/ f.opportunistic
  <2>1. CASE found # <<>>
    <3>1. PICK e \in ToSetOf(q) : e.aa = aa /\ found = <<e>> BY <1>4, <2>1
    <3>2. pick.cache = none /\ pick.sa = Ptr(e) BY <2>1, <3>1
    <3> HIDE DEF pick
    <3>3. Listed(none, Ptr(e)) BY <1>5 DEF Listed
    <3> QED BY <1>5, <3>1, <3>2, <3>3, PtrNotNull DEF CacheQuiet
  <2>2. CASE found = <<>> /\ try
    <3>1. pick = pmksa_cache_get_opportunistic(none, aa) BY <2>2
    <3> HIDE DEF pick
    <3>2. \A f \in ToSetOf(none) : f.aa # aa BY <1>4, <1>5, <2>2
    <3>3. /\ Cache(pick.cache) /\ CacheQuiet(none, pick.cache)
          /\ pick.sa # Null => pick.sa[1] = aa /\ Listed(pick.cache, pick.sa)
          /\ \A f \in ToSetOf(pick.cache) : f \in ToSetOf(none) \/ f.opportunistic
      BY <1>5, <3>1, <3>2, OpportunisticSound
    <3> QED BY <1>5, <3>3
  <2>3. CASE found = <<>> /\ ~try
    <3>1. pick.cache = none /\ pick.sa = Null BY <2>3
    <3> HIDE DEF pick
    <3> QED BY <1>5, <3>1 DEF CacheQuiet
  <2> QED BY <2>1, <2>2, <2>3
<1> HIDE DEF pick, u
<1>7. CASE ~usable
  <2>1. u = pick.cache BY <1>1, <1>7
  <2>2. u.cur_pmksa = Null BY <1>5, <1>6, <2>1 DEF CacheQuiet
  <2> QED BY <1>5, <1>6, <2>1, <2>2 DEF Selected, CacheQuiet, u
<1>8. CASE usable
  <2>1. u = [pick.cache EXCEPT !.cur_pmksa = pick.sa] BY <1>1, <1>8
  <2>2. PICK e \in ToSetOf(pick.cache) : Ptr(e) = pick.sa BY <1>8
  <2>3. pick.cache \in PmksaState BY <1>6, CacheFields
  <2>4. Ptr(e) \in EntryIds /\ Ptr(e) # Null BY <2>3, Entries, PmksaEntryFields, PtrNotNull
  <2>5. pick.sa[1] = aa /\ Listed(pick.cache, pick.sa) /\ pick.sa \in EntryIds
    BY <1>6, <2>2, <2>4
  <2>6. /\ Cache(u) /\ u.cur_pmksa = pick.sa /\ ToSetOf(u) = ToSetOf(pick.cache)
        /\ u.pmk = pick.cache.pmk /\ u.eap = pick.cache.eap
        /\ u.phase = pick.cache.phase /\ u.target = pick.cache.target /\ u.bssid = pick.cache.bssid
        /\ u.preauth_bssid = pick.cache.preauth_bssid /\ u.derived = pick.cache.derived
    BY <1>6, <2>1, <2>5, SelectedEntry
  <2> QED BY <1>5, <1>6, <2>5, <2>6 DEF Selected, CacheQuiet, u
<1> QED BY <1>7, <1>8

\* An entry of another AKMP is given up.
LEMMA CompatibleSound ==
  ASSUME NEW q, NEW u, NEW aa, Selected(q, u, aa)
  PROVE  Selected(q, CompatibleAkmp(u, aa), aa)
<1> DEFINE n == [u EXCEPT !.cur_pmksa = Null]
           c == CompatibleAkmp(u, aa)
<1>1. c = n \/ c = u BY DEF CompatibleAkmp
<1>2. Cache(u) BY DEF Selected
<1>3. CacheQuiet(u, n) /\ Cache(n) /\ n.cur_pmksa = Null /\ ToSetOf(n) = ToSetOf(u)
  BY <1>2, Deselected
<1> HIDE DEF n, c
<1>4. Selected(q, n, aa) BY <1>3 DEF Selected, CacheQuiet
<1> QED BY <1>1, <1>4 DEF c


\* The selected entry is one of the access point that is being joined or is
\* joined, and has the PMK in use once a key was taken from it.
AssocSelection(q) ==
    q.cur_pmksa # Null =>
        /\ q.phase \in {"associating", "cached"} => q.cur_pmksa[1] = q.target
        /\ q.phase \in {"handshake", "msg1", "done"} => q.cur_pmksa[1] = q.bssid
        /\ \/ q.phase \in {"msg1", "done", "cached"}
           \/ q.phase = "associating" /\ q.target \in SaeAAs
           \/ q.phase = "handshake" /\ q.bssid \in SaeAAs
           => q.cur_pmksa[2] = q.pmk

\* Preauthentication is with another access point, whose entry was cloned.
AssocPreauth(q) ==
    q.preauth_bssid # NoAA =>
        /\ q.preauth_bssid \notin SaeAAs /\ q.preauth_bssid # q.bssid
        /\ \A e \in ToSetOf(q) : e.aa = q.preauth_bssid => e.opportunistic

Assoc(q) ==
    /\ q.phase \in {"associating", "cached"} => q.target \in AAs
    /\ q.phase \in {"handshake", "msg1", "done"} => q.bssid \in AAs
    /\ AssocSelection(q) /\ AssocPreauth(q)

PmksaInv == Cache(pmksa) /\ Assoc(pmksa)

\* An association loses entries and gains ones that do not matter to it.
LEMMA LostAssoc ==
  ASSUME NEW q, Assoc(q), NEW u, Lost(q, u),
         \A f \in ToSetOf(u) : f \in ToSetOf(q) \/ f.opportunistic \/ f.aa # q.preauth_bssid
  PROVE  Assoc(u)
<1>1. CASE CacheQuiet(q, u) BY <1>1 DEF CacheQuiet, Assoc, AssocSelection, AssocPreauth
<1>2. CASE Broken(q, u) BY <1>2 DEF Broken, Assoc, AssocSelection, AssocPreauth
<1> QED BY <1>1, <1>2 DEF Lost

\* The cache when nothing of it changes but the selection is taken back.
LEMMA CacheKept ==
  ASSUME NEW q, Cache(q), NEW u \in PmksaState, u.list = q.list, u.pmksa_count = q.pmksa_count,
         u.expire = q.expire, u.cur_pmksa \in {Null, q.cur_pmksa}
  PROVE  Cache(u) /\ ToSetOf(u) = ToSetOf(q)
<1>1. ToSetOf(u) = ToSetOf(q) BY DEF ToSetOf
<1>2. u.cur_pmksa # Null => Listed(u, u.cur_pmksa) BY <1>1, CacheFields DEF Listed
<1> QED BY <1>1, <1>2, CacheFields DEF Cache, Core, Covered

\* sme_send_authentication keeps the invariant.
LEMMA SendAuthentication ==
  ASSUME PmksaInv, NEW aa \in AAs, sme_send_authentication(aa)
  PROVE  PmksaInv'
<1> DEFINE q == pmksa
           c == pmksa_cache_set_current(q, aa, BOOLEAN, TRUE)
           any == CompatibleAkmp(c, aa)
           sae == IF aa \in SaeAAs THEN pmksa_cache_set_current(any, aa, {TRUE}, FALSE) ELSE any
           cached == aa \in SaeAAs /\ sae.cur_pmksa # Null
           v == IF cached THEN wpa_sm_set_pmk_from_pmksa(sae) ELSE sae
           u == [v EXCEPT !.phase = IF cached THEN "cached" ELSE "associating", !.target = aa]
<1>1. Cache(q) /\ Assoc(q) /\ q \in PmksaState BY CacheFields DEF PmksaInv
<1>2. pmksa' = u BY DEF sme_send_authentication
<1>3. Selected(q, c, aa) BY <1>1, SetCurrentSound
<1> HIDE DEF c
<1>4. Selected(q, any, aa) BY <1>3, CompatibleSound
<1> HIDE DEF any
<1>5. Selected(q, sae, aa)
  <2>1. CASE aa \in SaeAAs
    <3>1. sae = pmksa_cache_set_current(any, aa, {TRUE}, FALSE) BY <2>1
    <3>2. Cache(any) BY <1>4 DEF Selected
    <3> HIDE DEF sae
    <3>3. Selected(any, sae, aa) BY <3>1, <3>2, SetCurrentSound
    <3> QED BY <1>4, <3>3 DEF Selected
  <2>2. CASE aa \notin SaeAAs
    <3>1. sae = any BY <2>2
    <3> QED BY <1>4, <3>1
  <2> QED BY <2>1, <2>2
<1> HIDE DEF sae
<1>6. Cache(sae) /\ sae \in PmksaState BY <1>5, CacheFields DEF Selected
<1>7. /\ v \in PmksaState /\ v.list = sae.list /\ v.pmksa_count = sae.pmksa_count
      /\ v.expire = sae.expire /\ v.cur_pmksa = sae.cur_pmksa /\ v.bssid = sae.bssid
      /\ v.preauth_bssid = sae.preauth_bssid
      /\ cached => v.pmk = sae.cur_pmksa[2]
  <2>1. CASE cached
    <3>1. v = [sae EXCEPT !.pmk = Current(sae).pmk] BY <2>1 DEF wpa_sm_set_pmk_from_pmksa
    <3>2. Current(sae).pmk = sae.cur_pmksa[2] /\ Current(sae).pmk \in Pmks
      BY <1>6, <2>1, CurrentIs, PmksaEntryFields
    <3> HIDE DEF v
    <3> QED BY <1>6, <3>1, <3>2 DEF PmksaState
  <2>2. CASE ~cached
    <3>1. v = sae BY <2>2
    <3> HIDE DEF v
    <3> QED BY <1>6, <2>2, <3>1
  <2> QED BY <2>1, <2>2
<1> HIDE DEF v
<1>8. /\ u \in PmksaState /\ u.list = v.list /\ u.pmksa_count = v.pmksa_count
      /\ u.expire = v.expire /\ u.cur_pmksa = v.cur_pmksa /\ u.pmk = v.pmk
      /\ u.target = aa /\ u.bssid = v.bssid /\ u.preauth_bssid = v.preauth_bssid
      /\ u.phase = IF cached THEN "cached" ELSE "associating"
  <2>1. CASE cached
    <3>1. u = [v EXCEPT !.phase = "cached", !.target = aa] BY <2>1
    <3> HIDE DEF u
    <3> QED BY <1>7, <2>1, <3>1 DEF PmksaState
  <2>2. CASE ~cached
    <3>1. u = [v EXCEPT !.phase = "associating", !.target = aa] BY <2>2
    <3> HIDE DEF u
    <3> QED BY <1>7, <2>2, <3>1 DEF PmksaState
  <2> QED BY <2>1, <2>2
<1> HIDE DEF u
<1>9. Cache(u) /\ ToSetOf(u) = ToSetOf(sae)
  BY <1>6, <1>7, <1>8, CacheKept
<1>10. AssocSelection(u)
  BY <1>5, <1>7, <1>8 DEF AssocSelection, Selected
<1>11. AssocPreauth(u)
  BY <1>1, <1>5, <1>7, <1>8, <1>9 DEF AssocPreauth, Selected, Assoc
<1>12. Assoc(u) BY <1>8, <1>10, <1>11 DEF Assoc
<1> QED BY <1>2, <1>9, <1>12 DEF PmksaInv

\* A PMKSA that was just added is selected.
SelectAdded(a) == [a.cache EXCEPT !.cur_pmksa = a.sa]

\* Adding an entry and selecting it leaves it selected in an intact cache.
LEMMA AddSelected ==
  ASSUME NEW q, Cache(q), NEW pmk \in Pmks, NEW aa \in AAs, NEW sae \in BOOLEAN,
         NEW a, a = pmksa_cache_add(q, pmk, aa, sae),
         NEW u, u = SelectAdded(a)
  PROVE  /\ Cache(u) /\ u.cur_pmksa = <<aa, pmk>>
         /\ \A f \in ToSetOf(u) : f \in ToSetOf(q) \/ f = NewEntry(pmk, aa, sae)
         /\ u.pmk = a.cache.pmk /\ u.eap = a.cache.eap
         /\ u.phase = a.cache.phase /\ u.target = a.cache.target /\ u.bssid = a.cache.bssid
         /\ u.preauth_bssid = a.cache.preauth_bssid /\ u.derived = a.cache.derived
<1>1. /\ Cache(a.cache) /\ a.sa = <<aa, pmk>> /\ Listed(a.cache, a.sa)
      /\ \A f \in ToSetOf(a.cache) : f \in ToSetOf(q) \/ f = NewEntry(pmk, aa, sae)
  BY AddSound
<1>2. a.sa \in EntryIds BY <1>1 DEF EntryIds
<1>3. /\ Cache(u) /\ u.cur_pmksa = a.sa /\ ToSetOf(u) = ToSetOf(a.cache)
      /\ u.pmk = a.cache.pmk /\ u.eap = a.cache.eap
      /\ u.phase = a.cache.phase /\ u.target = a.cache.target /\ u.bssid = a.cache.bssid
      /\ u.preauth_bssid = a.cache.preauth_bssid /\ u.derived = a.cache.derived
  BY <1>1, <1>2, SelectedEntry DEF SelectAdded
<1> QED BY <1>1, <1>3

\* A PMK is derived: the counter stays within its bound.
LEMMA FreshIs ==
  ASSUME NEW q \in PmksaState, q.derived < MaxPmks
  PROVE  FreshPmk(q) \in Pmks
BY PmksaConstants, PmksaFields DEF FreshPmk, Pmks

\* An accepted SAE exchange keeps the invariant.
LEMMA SaeAcceptedInv ==
  ASSUME PmksaInv, SaeAccepted
  PROVE  PmksaInv'
<1> DEFINE q == [pmksa EXCEPT !.pmk = FreshPmk(pmksa), !.derived = @ + 1]
           yes == TRUE
           a == pmksa_cache_add(q, q.pmk, q.target, yes)
           u == [a.cache EXCEPT !.cur_pmksa = a.sa]
<1>1. /\ Cache(pmksa) /\ Assoc(pmksa) /\ pmksa \in PmksaState
      /\ pmksa.phase = "associating" /\ pmksa.target \in SaeAAs /\ pmksa.target \in AAs
      /\ pmksa.cur_pmksa = Null /\ pmksa.derived < MaxPmks
  BY CacheFields DEF PmksaInv, SaeAccepted, Assoc
<1>2. pmksa' = u BY DEF SaeAccepted
<1>3. FreshPmk(pmksa) \in Pmks /\ pmksa.derived + 1 \in Pmks BY <1>1, FreshIs DEF FreshPmk
<1>4. /\ q \in PmksaState /\ q.list = pmksa.list /\ q.pmksa_count = pmksa.pmksa_count
      /\ q.expire = pmksa.expire /\ q.cur_pmksa = Null /\ q.phase = "associating"
      /\ q.target = pmksa.target /\ q.bssid = pmksa.bssid
      /\ q.preauth_bssid = pmksa.preauth_bssid /\ q.pmk \in Pmks
  BY <1>1, <1>3 DEF PmksaState
<1> HIDE DEF q
<1>5. Cache(q) /\ ToSetOf(q) = ToSetOf(pmksa) BY <1>1, <1>4, CacheKept
<1>a. a = pmksa_cache_add(q, q.pmk, q.target, yes) /\ q.target \in AAs /\ yes \in BOOLEAN
      /\ u = SelectAdded(a)
  BY <1>1, <1>4 DEF SelectAdded
<1>7. Lost(q, a.cache) BY <1>1, <1>4, <1>5, AddSound
<1> HIDE DEF a, u, yes
<1>6. /\ Cache(u) /\ u.cur_pmksa = <<q.target, q.pmk>>
      /\ \A f \in ToSetOf(u) : f \in ToSetOf(q) \/ f = NewEntry(q.pmk, q.target, yes)
      /\ u.pmk = a.cache.pmk /\ u.eap = a.cache.eap
      /\ u.phase = a.cache.phase /\ u.target = a.cache.target /\ u.bssid = a.cache.bssid
      /\ u.preauth_bssid = a.cache.preauth_bssid /\ u.derived = a.cache.derived
  BY <1>4, <1>5, <1>a, AddSelected
<1>8. AssocSelection(u)
  BY <1>4, <1>6, <1>7 DEF AssocSelection, Lost, CacheQuiet, Broken
<1>9. AssocPreauth(u)
  <2>1. \A f \in ToSetOf(u) : f \in ToSetOf(pmksa) \/ f.aa = pmksa.target
    BY <1>4, <1>5, <1>6 DEF NewEntry
  <2>2. u.preauth_bssid = NoAA \/ (u.preauth_bssid = pmksa.preauth_bssid /\ u.bssid = pmksa.bssid)
    BY <1>4, <1>6, <1>7 DEF Lost, CacheQuiet, Broken
  <2> QED BY <1>1, <2>1, <2>2 DEF Assoc, AssocPreauth
<1>10. Assoc(u)
  BY <1>1, <1>4, <1>6, <1>7, <1>8, <1>9 DEF Assoc, Lost, CacheQuiet, Broken
<1> QED BY <1>2, <1>6, <1>10 DEF PmksaInv


\* So does wpa_sm_notify_assoc.
LEMMA NotifyAssocInv ==
  ASSUME PmksaInv, wpa_sm_notify_assoc
  PROVE  PmksaInv'
<1> DEFINE q == pmksa
           u == pmksa'
<1>1. /\ Cache(q) /\ Assoc(q) /\ q \in PmksaState /\ q.phase \in {"associating", "cached"}
      /\ q.target \in AAs
  BY CacheFields DEF PmksaInv, wpa_sm_notify_assoc, Assoc
<1>2. u = [q EXCEPT !.phase = "handshake", !.bssid = q.target, !.target = NoAA, !.eap = 0,
                    !.preauth_bssid = IF @ = q.target THEN NoAA ELSE @]
  BY DEF wpa_sm_notify_assoc
<1>3. /\ u \in PmksaState /\ u.list = q.list /\ u.pmksa_count = q.pmksa_count
      /\ u.expire = q.expire /\ u.cur_pmksa = q.cur_pmksa /\ u.pmk = q.pmk
      /\ u.phase = "handshake" /\ u.bssid = q.target
      /\ u.preauth_bssid = IF q.preauth_bssid = q.target THEN NoAA ELSE q.preauth_bssid
  BY <1>1, <1>2 DEF PmksaState
<1>4. Cache(u) /\ ToSetOf(u) = ToSetOf(q) BY <1>1, <1>3, CacheKept
<1> HIDE DEF q, u
<1>5. AssocSelection(u) BY <1>1, <1>3 DEF Assoc, AssocSelection
<1>6. AssocPreauth(u) BY <1>1, <1>3, <1>4 DEF Assoc, AssocPreauth
<1>7. Assoc(u) BY <1>1, <1>3, <1>5, <1>6 DEF Assoc
<1> QED BY <1>4, <1>7 DEF PmksaInv, u

\* An association attempt ends: the phase and the target are reset.
LEMMA AttemptEnded ==
  ASSUME NEW q, Cache(q), Assoc(q), NEW u, u = [q EXCEPT !.phase = "idle", !.target = NoAA]
  PROVE  Cache(u) /\ Assoc(u)
<1>1. q \in PmksaState BY CacheFields
<1>2. /\ u \in PmksaState /\ u.list = q.list /\ u.pmksa_count = q.pmksa_count
      /\ u.expire = q.expire /\ u.cur_pmksa = q.cur_pmksa /\ u.pmk = q.pmk
      /\ u.phase = "idle" /\ u.bssid = q.bssid /\ u.preauth_bssid = q.preauth_bssid
  BY <1>1 DEF PmksaState
<1>3. Cache(u) /\ ToSetOf(u) = ToSetOf(q) BY <1>2, CacheKept
<1> QED BY <1>2, <1>3 DEF Assoc, AssocSelection, AssocPreauth

\* pmksa_cache_flush() keeps the invariant of the cache.
LEMMA FlushInv ==
  ASSUME NEW q, Cache(q), Assoc(q), NEW pmk, NEW addr
  PROVE  Cache(pmksa_cache_flush(q, pmk, addr)) /\ Assoc(pmksa_cache_flush(q, pmk, addr))
<1> DEFINE u == pmksa_cache_flush(q, pmk, addr)
<1>1. /\ Core(q) /\ Covered(q) /\ q \in PmksaState /\ Len(q.list) \in Nat /\ q.pmksa_count \in Int
      /\ q.pmksa_count = Len(q.list) /\ Len(q.list) <= PmksaMaxEntries
      /\ q.cur_pmksa # Null => Listed(q, q.cur_pmksa)
  BY CacheFields
<1>2. /\ Core(u) /\ Covered(u) /\ Lost(q, u)
      /\ u.pmksa_count - Len(u.list) = q.pmksa_count - Len(q.list) /\ Len(u.list) <= Len(q.list)
      /\ ToSetOf(u) \subseteq ToSetOf(q)
      /\ u.cur_pmksa # Null => u.cur_pmksa = q.cur_pmksa
                               /\ (Listed(q, q.cur_pmksa) => Listed(u, u.cur_pmksa))
  BY <1>1, FlushPmksa
<1> HIDE DEF u
<1>3. u \in PmksaState BY <1>2 DEF Core
<1>4. Len(u.list) \in Nat /\ u.pmksa_count \in Int BY <1>3, PmksaFields
<1>5. u.pmksa_count = Len(u.list) /\ Len(u.list) <= PmksaMaxEntries
  BY <1>1, <1>2, <1>4, PmksaConstants
<1>6. Cache(u) BY <1>1, <1>2, <1>5 DEF Cache
<1>7. Assoc(u) BY <1>2, LostAssoc
<1> QED BY <1>6, <1>7 DEF u

\* So does the refusal of a cached PMKSA.
LEMMA RejectedInv ==
  ASSUME PmksaInv, NEW aa \in AAs, PmksaRejected(aa)
  PROVE  PmksaInv'
<1> DEFINE n == [pmksa EXCEPT !.cur_pmksa = Null]
           f == pmksa_cache_flush(n, 0, aa)
<1>1. Cache(pmksa) /\ Assoc(pmksa) BY DEF PmksaInv
<1>2. pmksa' = [f EXCEPT !.phase = "idle", !.target = NoAA] BY DEF PmksaRejected
<1>3. Cache(n) /\ CacheQuiet(pmksa, n) /\ ToSetOf(n) = ToSetOf(pmksa) BY <1>1, Deselected
<1> HIDE DEF n
<1>4. Assoc(n) BY <1>1, <1>3, LostAssoc DEF Lost
<1>5. Cache(f) /\ Assoc(f) BY <1>3, <1>4, FlushInv
<1> HIDE DEF f
<1> QED BY <1>2, <1>5, AttemptEnded DEF PmksaInv

\* So does a refused association.
LEMMA AssocRejectedInv ==
  ASSUME PmksaInv, AssocRejected
  PROVE  PmksaInv'
BY AttemptEnded DEF PmksaInv, AssocRejected

\* So does an EAP success.
LEMMA EapSuccessInv ==
  ASSUME PmksaInv, EapSuccess
  PROVE  PmksaInv'
<1> DEFINE q == pmksa
           u == pmksa'
<1>1. Cache(q) /\ Assoc(q) /\ q \in PmksaState /\ q.derived < MaxPmks
  BY CacheFields DEF PmksaInv, EapSuccess
<1>2. FreshPmk(q) \in Pmks /\ q.derived + 1 \in Pmks BY <1>1, FreshIs DEF FreshPmk
<1>3. u = [q EXCEPT !.eap = FreshPmk(q), !.derived = @ + 1] BY DEF EapSuccess
<1>4. /\ u \in PmksaState /\ u.list = q.list /\ u.pmksa_count = q.pmksa_count
      /\ u.expire = q.expire /\ u.cur_pmksa = q.cur_pmksa /\ u.pmk = q.pmk
      /\ u.phase = q.phase /\ u.bssid = q.bssid /\ u.target = q.target
      /\ u.preauth_bssid = q.preauth_bssid
  BY <1>1, <1>2, <1>3 DEF PmksaState
<1>5. Cache(u) /\ ToSetOf(u) = ToSetOf(q) BY <1>1, <1>4, CacheKept
<1> HIDE DEF q, u
<1>6. Assoc(u) BY <1>1, <1>4, <1>5 DEF Assoc, AssocSelection, AssocPreauth
<1> QED BY <1>5, <1>6 DEF PmksaInv, u

\* So does a disassociation.
LEMMA DisassociatedInv ==
  ASSUME PmksaInv, PmksaDisassociated
  PROVE  PmksaInv'
<1> DEFINE q == pmksa
           u == pmksa'
<1>1. Cache(q) /\ q \in PmksaState BY CacheFields DEF PmksaInv
<1>2. u = wpa_sm_notify_disassoc(q) BY DEF PmksaDisassociated
<1>3. /\ u \in PmksaState /\ u.list = q.list /\ u.pmksa_count = q.pmksa_count
      /\ u.expire = q.expire /\ u.cur_pmksa = Null /\ u.phase = "idle" /\ u.preauth_bssid = NoAA
  BY <1>1, <1>2 DEF PmksaState, wpa_sm_notify_disassoc
<1>4. Cache(u) BY <1>1, <1>3, CacheKept
<1> HIDE DEF q, u
<1>5. Assoc(u) BY <1>3 DEF Assoc, AssocSelection, AssocPreauth
<1> QED BY <1>4, <1>5 DEF PmksaInv, u

\* So does a change of network.
LEMMA NetworkChangedInv ==
  ASSUME PmksaInv, NetworkChanged
  PROVE  PmksaInv'
BY FlushInv DEF PmksaInv, NetworkChanged

\* So does starting to preauthenticate with a candidate.
LEMMA CandidateInv ==
  ASSUME PmksaInv, NEW aa \in AAs, rsn_preauth_candidate_process(aa)
  PROVE  PmksaInv'
<1> DEFINE q == pmksa
           u == pmksa'
<1>1. /\ Cache(q) /\ Assoc(q) /\ q \in PmksaState
      /\ aa # q.bssid /\ aa \notin SaeAAs
      /\ \A e \in ToSetOf(q) : e.aa = aa => e.opportunistic
  BY CacheFields DEF PmksaInv, rsn_preauth_candidate_process
<1>2. u = [q EXCEPT !.preauth_bssid = aa] BY DEF rsn_preauth_candidate_process
<1>3. /\ u \in PmksaState /\ u.list = q.list /\ u.pmksa_count = q.pmksa_count
      /\ u.expire = q.expire /\ u.cur_pmksa = q.cur_pmksa /\ u.pmk = q.pmk
      /\ u.phase = q.phase /\ u.bssid = q.bssid /\ u.target = q.target
      /\ u.preauth_bssid = aa
  BY <1>1, <1>2 DEF PmksaState
<1>4. Cache(u) /\ ToSetOf(u) = ToSetOf(q) BY <1>1, <1>3, CacheKept
<1> HIDE DEF q, u
<1>5. Assoc(u) BY <1>1, <1>3, <1>4 DEF Assoc, AssocSelection, AssocPreauth
<1> QED BY <1>4, <1>5 DEF PmksaInv, u

\* So does the reauthentication timer.
LEMMA ReauthInv ==
  ASSUME PmksaInv, pmksa_cache_reauth
  PROVE  PmksaInv'
<1> DEFINE q == pmksa
           u == pmksa'
<1>1. Cache(q) /\ Assoc(q) /\ q \in PmksaState BY CacheFields DEF PmksaInv
<1>2. u = [q EXCEPT !.reauth = NoTimer, !.cur_pmksa = Null] BY DEF pmksa_cache_reauth
<1>3. /\ u \in PmksaState /\ u.list = q.list /\ u.pmksa_count = q.pmksa_count
      /\ u.expire = q.expire /\ u.cur_pmksa = Null
      /\ u.phase = q.phase /\ u.bssid = q.bssid /\ u.target = q.target
      /\ u.preauth_bssid = q.preauth_bssid
  <2>1. NoTimer \in NoTimer .. PmkLifetime + 1 BY PmksaConstants DEF NoTimer
  <2> QED BY <1>1, <1>2, <2>1 DEF PmksaState
<1>4. Cache(u) /\ ToSetOf(u) = ToSetOf(q) BY <1>1, <1>3, CacheKept
<1> HIDE DEF q, u
<1>5. Assoc(u) BY <1>1, <1>3, <1>4 DEF Assoc, AssocSelection, AssocPreauth
<1> QED BY <1>4, <1>5 DEF PmksaInv, u

\* The opportunistic mark of the entry in use is cleared.
LEMMA KeyNegCompleteInv ==
  ASSUME PmksaInv, wpa_supplicant_key_neg_complete
  PROVE  PmksaInv'
<1> DEFINE q == pmksa
           s == q.list
           C(f) == IF Ptr(f) = q.cur_pmksa THEN [f EXCEPT !.opportunistic = FALSE] ELSE f
           t == [i \in DOMAIN s |-> C(s[i])]
           v == [q EXCEPT !.list = t]
           u == pmksa'
<1>1. /\ Cache(q) /\ Assoc(q) /\ q \in PmksaState /\ q.phase = "msg1" /\ Covered(q) /\ Ordered(s)
      /\ s \in Seq(PmksaEntries) /\ Len(s) \in Nat /\ DOMAIN s = 1 .. Len(s)
      /\ \A i \in 1 .. Len(s) : s[i] \in PmksaEntries /\ s[i] \in ToSetOf(q)
  BY CacheFields, PmksaFields, Entries DEF PmksaInv, wpa_supplicant_key_neg_complete
<1>2. u = [q EXCEPT !.phase = "done", !.list = t]
  BY DEF wpa_supplicant_key_neg_complete
<1>3. \A f \in PmksaEntries :
         /\ C(f) \in PmksaEntries /\ C(f).sae = f.sae /\ C(f).aa = f.aa /\ C(f).pmk = f.pmk
         /\ C(f).expiration = f.expiration /\ C(f).clone = f.clone
         /\ Ptr(f) # q.cur_pmksa => C(f) = f
  BY DEF PmksaEntries
<1> HIDE DEF C
<1>4. t \in Seq(PmksaEntries) /\ Len(t) = Len(s) /\ \A i \in 1 .. Len(t) : t[i] = C(s[i])
  BY <1>1, <1>3
<1>5. \A i \in 1 .. Len(t) :
         /\ t[i].sae = s[i].sae /\ t[i].aa = s[i].aa /\ t[i].pmk = s[i].pmk
         /\ t[i].expiration = s[i].expiration /\ t[i].clone = s[i].clone
         /\ Ptr(s[i]) # q.cur_pmksa => t[i] = s[i]
  BY <1>1, <1>3, <1>4
<1> HIDE DEF t, u
<1>6. \A i \in 1 .. Len(t) : Ptr(t[i]) = Ptr(s[i]) BY <1>5, PtrIs
<1>7. Ordered(t) BY <1>1, <1>4, <1>5 DEF Ordered
<1>8. \A i \in 1 .. Len(t) : ~t[i].sae /\ ~t[i].clone => q.expire <= NotBelow0(t[i].expiration) + 1
  BY <1>1, <1>4, <1>5 DEF Covered
<1>9. Cache(v) /\ CacheSame(q, v) /\ v.list = t
  BY <1>1, <1>4, <1>6, <1>7, <1>8, EntriesMarked
<1>10. u = [v EXCEPT !.phase = "done"]
  BY <1>1, <1>2 DEF PmksaState
<1> HIDE DEF v
<1>11. v \in PmksaState BY <1>9, CacheFields
<1>12. /\ u \in PmksaState /\ u.list = v.list /\ u.pmksa_count = v.pmksa_count
       /\ u.expire = v.expire /\ u.cur_pmksa = v.cur_pmksa /\ u.pmk = v.pmk
       /\ u.phase = "done" /\ u.bssid = v.bssid /\ u.preauth_bssid = v.preauth_bssid
  BY <1>10, <1>11 DEF PmksaState
<1>13. Cache(u) BY <1>9, <1>12, CacheKept
<1> HIDE DEF q
<1>14. AssocSelection(u) BY <1>1, <1>9, <1>12 DEF CacheSame, Assoc, AssocSelection
<1>15. AssocPreauth(u)
  <2> SUFFICES ASSUME u.preauth_bssid # NoAA,
                      NEW e \in ToSetOf(u), e.aa = u.preauth_bssid
               PROVE  e.opportunistic
    BY <1>1, <1>9, <1>12 DEF CacheSame, Assoc, AssocPreauth
  <2>1. q.preauth_bssid = u.preauth_bssid /\ q.preauth_bssid # q.bssid
        /\ \A f \in ToSetOf(q) : f.aa = q.preauth_bssid => f.opportunistic
    BY <1>1, <1>9, <1>12 DEF CacheSame, Assoc, AssocPreauth
  <2>2. PICK i \in 1 .. Len(t) : e = t[i] BY <1>9, <1>12, Entries
  <2>3. s[i].aa = q.preauth_bssid /\ s[i] \in ToSetOf(q) BY <1>1, <1>4, <1>5, <2>1, <2>2
  <2>4. Ptr(s[i]) # q.cur_pmksa
    <3>1. Ptr(s[i]) # Null /\ Ptr(s[i])[1] = s[i].aa BY PtrNotNull
    <3>2. q.cur_pmksa # Null => q.cur_pmksa[1] = q.bssid BY <1>1 DEF Assoc, AssocSelection
    <3> QED BY <2>1, <2>3, <3>1, <3>2
  <2> QED BY <1>5, <2>1, <2>2, <2>3, <2>4
<1>16. Assoc(u) BY <1>1, <1>9, <1>12, <1>14, <1>15 DEF Assoc, CacheSame
<1> QED BY <1>13, <1>16 DEF PmksaInv, u


\* What wpa_supplicant_get_pmk() leaves of the state p: the selection is one
\* of the access point, with the PMK in use when known.
Keyed(p, r, known) ==
    /\ Cache(r)
    /\ r.phase = "idle" \/ (r.phase = p.phase /\ r.bssid = p.bssid)
    /\ r.preauth_bssid = NoAA \/ (r.preauth_bssid = p.preauth_bssid /\ r.bssid = p.bssid)
    /\ r.cur_pmksa # Null => r.cur_pmksa[1] = p.bssid
                             /\ (known /\ r.phase # "idle" => r.cur_pmksa[2] = r.pmk)
    /\ \A f \in ToSetOf(r) : f \in ToSetOf(p) \/ f.aa = p.bssid

\* The PMK of the EAP authentication is cached and selected.
LEMMA PmkFromEapolSound ==
  ASSUME NEW q, Cache(q), q.eap # 0, NEW pmkid, q.bssid \in AAs,
         q.cur_pmksa # Null => q.cur_pmksa[1] = q.bssid
  PROVE  Keyed(q, PmkFromEapol(q, pmkid), TRUE)
<1> DEFINE b == [q EXCEPT !.pmk = q.eap]
           no == FALSE
           a == pmksa_cache_add(b, q.eap, q.bssid, no)
           mismatch == pmkid \notin {0, q.eap}
           r == PmkFromEapol(q, pmkid)
<1>1. r = IF a.cache.cur_pmksa # Null \/ mismatch THEN a.cache ELSE SelectAdded(a)
  BY DEF PmkFromEapol, SelectAdded
<1>2. q \in PmksaState /\ q.eap \in Pmks BY CacheFields, PmksaFields
<1>3. /\ b \in PmksaState /\ b.list = q.list /\ b.pmksa_count = q.pmksa_count
      /\ b.expire = q.expire /\ b.cur_pmksa = q.cur_pmksa /\ b.pmk = q.eap
      /\ b.phase = q.phase /\ b.bssid = q.bssid /\ b.preauth_bssid = q.preauth_bssid
  BY <1>2 DEF PmksaState
<1> HIDE DEF b
<1>4. Cache(b) /\ ToSetOf(b) = ToSetOf(q) BY <1>3, CacheKept
<1>5. no \in BOOLEAN OBVIOUS
<1> HIDE DEF no
<1>6. /\ Cache(a.cache) /\ Lost(b, a.cache)
      /\ a.sa = <<q.bssid, q.eap>> /\ Listed(a.cache, a.sa)
      /\ \A f \in ToSetOf(a.cache) : f \in ToSetOf(b) \/ f = NewEntry(q.eap, q.bssid, no)
  BY <1>2, <1>4, <1>5, AddSound
<1>7. a = pmksa_cache_add(b, q.eap, q.bssid, no) OBVIOUS
<1> HIDE DEF a, r
<1>8. \A f : f = NewEntry(q.eap, q.bssid, no) => f.aa = q.bssid BY DEF NewEntry
<1>9. CASE r = a.cache
  <2>1. ASSUME r.cur_pmksa # Null
        PROVE  r.cur_pmksa = <<q.bssid, q.eap>> /\ r.pmk = q.eap
    <3>1. r.cur_pmksa = q.cur_pmksa /\ r.pmk = q.eap
      BY <1>3, <1>6, <1>9, <2>1 DEF Lost, CacheQuiet, Broken
    <3>2. Listed(r, r.cur_pmksa) /\ r \in PmksaState /\ OneEach(r.list)
      BY <1>6, <1>9, <2>1, CacheFields
    <3>3. PICK e \in ToSetOf(r) : Ptr(e) = r.cur_pmksa BY <3>2 DEF Listed
    <3>4. PICK f \in ToSetOf(r) : Ptr(f) = a.sa BY <1>6, <1>9 DEF Listed
    <3>5. e.aa = q.bssid BY <2>1, <3>1, <3>3, PtrNotNull
    <3>6. f.aa = q.bssid BY <1>6, <3>4, PtrNotNull
    <3>7. e = f BY <3>2, <3>5, <3>6, Entries
    <3> QED BY <1>6, <3>1, <3>3, <3>4, <3>7
  <2> QED BY <1>3, <1>4, <1>6, <1>8, <1>9, <2>1 DEF Keyed, Lost, CacheQuiet, Broken, r
<1>10. CASE r = SelectAdded(a) /\ a.cache.cur_pmksa = Null
  <2>1. /\ Cache(r) /\ r.cur_pmksa = <<q.bssid, q.eap>>
        /\ \A f \in ToSetOf(r) : f \in ToSetOf(b) \/ f = NewEntry(q.eap, q.bssid, no)
        /\ r.pmk = a.cache.pmk /\ r.phase = a.cache.phase /\ r.bssid = a.cache.bssid
        /\ r.preauth_bssid = a.cache.preauth_bssid
    BY <1>2, <1>4, <1>5, <1>7, <1>10, AddSelected
  <2> QED BY <1>3, <1>4, <1>6, <1>8, <2>1 DEF Keyed, Lost, CacheQuiet, Broken, r
<1> QED BY <1>1, <1>9, <1>10

\* So does wpa_supplicant_get_pmk, with the key it takes and the entry it adds.
LEMMA GetPmkInv ==
  ASSUME PmksaInv, NEW pmkid \in Pmks \cup {0}, wpa_supplicant_get_pmk(pmkid)
  PROVE  PmksaInv'
<1> DEFINE p == pmksa
           sae == p.bssid \in SaeAAs
           K == {e \in ToSetOf(p) : e.aa = p.bssid /\ e.pmk = pmkid /\ e.sae = sae}
           found == First(p, K)
           pick == pmkid # 0 /\ p.cur_pmksa = Null /\ found # <<>>
           q == IF pick THEN [p EXCEPT !.cur_pmksa = Ptr(found[1])] ELSE p
           match == pmkid # 0 /\ q.cur_pmksa # Null /\ Current(q).pmk = pmkid
           r == IF match THEN wpa_sm_set_pmk_from_pmksa(q)
                ELSE IF sae THEN q
                ELSE IF q.eap # 0 THEN PmkFromEapol(q, pmkid)
                ELSE [q EXCEPT !.cur_pmksa = Null]
           ok == match \/ sae \/ (q.eap # 0 /\ pmkid \in {0, q.eap})
           ph == IF r.phase = "idle" THEN r.phase ELSE IF ok THEN "msg1" ELSE "handshake"
           u == [r EXCEPT !.phase = ph]
<1>1. /\ Cache(p) /\ Assoc(p) /\ p \in PmksaState /\ p.phase \in {"handshake", "msg1", "done"}
      /\ p.bssid \in AAs
  BY CacheFields DEF PmksaInv, wpa_supplicant_get_pmk, Assoc
<1>2. pmksa' = u BY DEF wpa_supplicant_get_pmk
<1>3. found = <<>> \/ \E e \in ToSetOf(p) : e.aa = p.bssid /\ e.pmk = pmkid /\ found = <<e>>
  <2>1. \A e \in K : e.aa = p.bssid /\ e.pmk = pmkid OBVIOUS
  <2> HIDE DEF K
  <2> QED BY <1>1, <2>1, FirstSound
<1> HIDE DEF found
<1>4. /\ Cache(q) /\ ToSetOf(q) = ToSetOf(p) /\ q.pmk = p.pmk /\ q.eap = p.eap
      /\ q.phase = p.phase /\ q.bssid = p.bssid /\ q.preauth_bssid = p.preauth_bssid
      /\ q.cur_pmksa # Null => q.cur_pmksa[1] = p.bssid
      /\ q.cur_pmksa # Null => q.cur_pmksa = p.cur_pmksa \/ (pmkid # 0 /\ q.cur_pmksa[2] = pmkid)
  <2>1. CASE pick
    <3>1. PICK e \in ToSetOf(p) : e.aa = p.bssid /\ e.pmk = pmkid /\ found = <<e>> BY <1>3, <2>1
    <3>2. q = [p EXCEPT !.cur_pmksa = Ptr(e)] BY <2>1, <3>1
    <3>3. Ptr(e) \in EntryIds /\ Listed(p, Ptr(e)) /\ Ptr(e)[1] = p.bssid /\ Ptr(e)[2] = pmkid
      BY <1>1, <3>1, Entries, PmksaEntryFields, PtrNotNull DEF Listed
    <3> HIDE DEF q
    <3>4. /\ Cache(q) /\ q.cur_pmksa = Ptr(e) /\ q.list = p.list /\ ToSetOf(q) = ToSetOf(p)
          /\ q.pmk = p.pmk /\ q.eap = p.eap
          /\ q.phase = p.phase /\ q.bssid = p.bssid /\ q.preauth_bssid = p.preauth_bssid
      BY <1>1, <3>2, <3>3, SelectedEntry
    <3> QED BY <2>1, <3>3, <3>4
  <2>2. CASE ~pick
    <3>1. q = p BY <2>2
    <3> HIDE DEF q
    <3> QED BY <1>1, <3>1 DEF Assoc, AssocSelection
  <2> QED BY <2>1, <2>2
<1>5. q \in PmksaState /\ (q.cur_pmksa # Null => Current(q).pmk = q.cur_pmksa[2])
      /\ (q.cur_pmksa # Null => Current(q).pmk \in Pmks)
  BY <1>4, CacheFields, CurrentIs, PmksaEntryFields
<1> HIDE DEF q
<1>6. Keyed(p, r, ok)
  <2>1. CASE match
    <3>1. r = [q EXCEPT !.pmk = Current(q).pmk] BY <2>1 DEF wpa_sm_set_pmk_from_pmksa
    <3> HIDE DEF r
    <3>2. /\ r \in PmksaState /\ r.list = q.list /\ r.pmksa_count = q.pmksa_count
          /\ r.expire = q.expire /\ r.cur_pmksa = q.cur_pmksa /\ r.pmk = Current(q).pmk
          /\ r.phase = q.phase /\ r.bssid = q.bssid /\ r.preauth_bssid = q.preauth_bssid
      BY <1>5, <2>1, <3>1 DEF PmksaState
    <3>3. Cache(r) /\ ToSetOf(r) = ToSetOf(q) BY <1>4, <3>2, CacheKept
    <3> QED BY <1>4, <1>5, <2>1, <3>2, <3>3 DEF Keyed
  <2>2. CASE ~match /\ sae
    <3>1. r = q BY <2>2
    <3> HIDE DEF r
    <3>2. q.cur_pmksa # Null => q.cur_pmksa = p.cur_pmksa BY <1>4, <1>5, <2>2
    <3>3. q.cur_pmksa # Null => q.cur_pmksa[2] = q.pmk
      BY <1>1, <1>4, <2>2, <3>2 DEF Assoc, AssocSelection
    <3> QED BY <1>4, <3>1, <3>3 DEF Keyed
  <2>3. CASE ~match /\ ~sae /\ q.eap # 0
    <3>1. r = PmkFromEapol(q, pmkid) BY <2>3
    <3> HIDE DEF r
    <3>2. Keyed(q, r, TRUE) BY <1>1, <1>4, <2>3, <3>1, PmkFromEapolSound
    <3> QED BY <1>4, <3>2 DEF Keyed
  <2>4. CASE ~match /\ ~sae /\ q.eap = 0
    <3>1. r = [q EXCEPT !.cur_pmksa = Null] BY <2>4
    <3> HIDE DEF r
    <3>2. Cache(r) /\ CacheQuiet(q, r) /\ r.cur_pmksa = Null /\ ToSetOf(r) = ToSetOf(q)
      BY <1>4, <3>1, Deselected
    <3> QED BY <1>4, <3>2 DEF Keyed, CacheQuiet
  <2> QED BY <2>1, <2>2, <2>3, <2>4
<1>7. ok \/ ~sae OBVIOUS
<1> HIDE DEF r, ok
<1>8. Cache(r) /\ r \in PmksaState BY <1>6, CacheFields DEF Keyed
<1>9. /\ u \in PmksaState /\ u.list = r.list /\ u.pmksa_count = r.pmksa_count
      /\ u.expire = r.expire /\ u.cur_pmksa = r.cur_pmksa /\ u.pmk = r.pmk
      /\ u.phase = ph /\ u.bssid = r.bssid /\ u.preauth_bssid = r.preauth_bssid
  BY <1>8 DEF PmksaState
<1> HIDE DEF u, p
<1>10. Cache(u) /\ ToSetOf(u) = ToSetOf(r) BY <1>8, <1>9, CacheKept
<1>11. AssocSelection(u) BY <1>6, <1>7, <1>9 DEF Keyed, AssocSelection
<1>12. AssocPreauth(u)
  BY <1>1, <1>6, <1>9, <1>10 DEF Keyed, Assoc, AssocPreauth
<1>13. Assoc(u) BY <1>1, <1>6, <1>9, <1>11, <1>12 DEF Keyed, Assoc
<1> QED BY <1>2, <1>10, <1>13 DEF PmksaInv

\* The end of a preauthentication keeps the association.
LEMMA PreauthCb ==
  ASSUME PmksaInv, NEW success \in BOOLEAN, rsn_preauth_eapol_cb(success)
  PROVE  PmksaInv' /\ pmksa'.phase = pmksa.phase
<1> DEFINE q == pmksa
           no == FALSE
           a == pmksa_cache_add(q, FreshPmk(q), q.preauth_bssid, no)
           x == IF success THEN a.cache ELSE q
           d == IF success THEN x.derived + 1 ELSE x.derived
           u == [x EXCEPT !.preauth_bssid = NoAA, !.derived = d]
<1>1. /\ Cache(q) /\ Assoc(q) /\ q \in PmksaState /\ q.preauth_bssid \in AAs
      /\ success => q.derived < MaxPmks
      /\ q.preauth_bssid \notin SaeAAs
      /\ \A e \in ToSetOf(q) : e.aa = q.preauth_bssid => e.opportunistic
  BY CacheFields, PmksaFields DEF PmksaInv, rsn_preauth_eapol_cb, Assoc, AssocPreauth
<1>2. pmksa' = u BY DEF rsn_preauth_eapol_cb
<1>3. no \in BOOLEAN OBVIOUS
<1> HIDE DEF no
<1>4. Cache(x) /\ CacheQuiet(q, x)
  <2>1. CASE success
    <3>1. FreshPmk(q) \in Pmks BY <1>1, <2>1, FreshIs
    <3>2. Cache(a.cache) /\ CacheQuiet(q, a.cache) BY <1>1, <1>3, <3>1, AddSound
    <3>3. x = a.cache BY <2>1
    <3> HIDE DEF x, a
    <3> QED BY <3>2, <3>3
  <2>2. CASE ~success
    <3>1. x = q BY <2>2
    <3> QED BY <1>1, <3>1 DEF CacheQuiet
  <2> QED BY <2>1, <2>2
<1> HIDE DEF x
<1>5. x \in PmksaState /\ d \in Pmks \cup {0}
  <2>1. x \in PmksaState BY <1>4, CacheFields
  <2>2. success => q.derived + 1 \in Pmks BY <1>1, FreshIs DEF FreshPmk
  <2> QED BY <1>4, <2>1, <2>2, PmksaFields DEF CacheQuiet
<1> HIDE DEF d
<1>6. /\ u \in PmksaState /\ u.list = x.list /\ u.pmksa_count = x.pmksa_count
      /\ u.expire = x.expire /\ u.cur_pmksa = x.cur_pmksa /\ u.pmk = x.pmk
      /\ u.phase = x.phase /\ u.target = x.target /\ u.bssid = x.bssid /\ u.preauth_bssid = NoAA
  BY ZenonT(40), <1>5 DEF PmksaState
<1> HIDE DEF u
<1>7. Cache(u) BY <1>4, <1>6, CacheKept
<1>8. u.phase = q.phase BY <1>4, <1>6 DEF CacheQuiet
<1>9. Assoc(u) BY <1>1, <1>4, <1>6 DEF CacheQuiet, Assoc, AssocSelection, AssocPreauth
<1> QED BY <1>2, <1>7, <1>8, <1>9 DEF PmksaInv


\* The walk of pmksa_cache_expire() frees entries of the list, and every
\* entry of IEEE 802.1X in order whose lifetime is over.
LEMMA ExpiredSound ==
  ASSUME NEW q, Core(q)
  PROVE  /\ FromList(q, Expired(q))
         /\ \A e \in ToSetOf(q) : ~e.sae /\ ~e.clone /\ ~(e.expiration > 0) =>
                \E i \in 1 .. Len(Expired(q)) : Expired(q)[i] = e
<1> DEFINE s == q.list
           fresh == {i \in DOMAIN s : s[i].expiration > 0}
           min == CHOOSE i \in fresh : \A j \in fresh : i <= j
           end == IF fresh = {} THEN Len(s) ELSE min - 1
           K == {e \in ToSetOf(q) : ~(e.sae /\ Ptr(e) = q.cur_pmksa)}
           h == SubSeq(s, 1, end)
           es == Kept(h, K)
<1>1. /\ q \in PmksaState /\ s \in Seq(PmksaEntries) /\ Len(s) \in Nat /\ DOMAIN s = 1 .. Len(s)
      /\ OneEach(s) /\ Ordered(s)
      /\ \A i \in 1 .. Len(s) : s[i] \in PmksaEntries /\ s[i].expiration \in LongPast .. PmkLifetime
  BY PmksaFields, PmksaEntryFields DEF Core
<1>2. Expired(q) = es BY DEF Expired
<1>3. fresh # {} => min \in fresh
  <2> SUFFICES ASSUME fresh # {} PROVE min \in fresh OBVIOUS
  <2>1. fresh \in SUBSET Nat BY <1>1
  <2> HIDE DEF fresh
  <2>2. \E m \in fresh : \A k \in fresh : m <= k BY <2>1, NatMin
  <2> QED BY <2>2
<1>4. end \in 0 .. Len(s) /\ \A j \in 1 .. Len(s) : (\A i \in 1 .. j : ~(s[i].expiration > 0))
          => j <= end
  <2>1. CASE fresh = {} BY <1>1, <2>1
  <2>2. CASE fresh # {}
    <3>1. min \in 1 .. Len(s) /\ s[min].expiration > 0 BY <1>1, <1>3, <2>2
    <3>2. end = min - 1 BY <2>2
    <3> HIDE DEF min, end
    <3>3. ASSUME NEW j \in 1 .. Len(s), \A i \in 1 .. j : ~(s[i].expiration > 0) PROVE j < min
      <4>1. min \notin 1 .. j BY <3>1, <3>3
      <4> QED BY <1>1, <3>1, <4>1
    <3> QED BY SMTT(30), <1>1, <3>1, <3>2, <3>3
  <2> QED BY <2>1, <2>2
<1> HIDE DEF end, min, fresh
<1>5. h \in Seq(PmksaEntries) /\ Len(h) = end /\ \A i \in 1 .. end : h[i] = s[i]
  <2> HIDE DEF s
  <2>1. \A i \in 1 .. end : s[i] \in PmksaEntries BY <1>1, <1>4
  <2> QED BY <1>1, <1>4, <2>1
<1> HIDE DEF h
<1>6. OneEach(h) BY <1>1, <1>4, <1>5 DEF OneEach
<1>7. ListEntries(h) \subseteq ToSetOf(q)
  <2>1. \A i \in 1 .. end : i \in 1 .. Len(s) BY <1>1, <1>4
  <2>2. \A i \in 1 .. end : h[i] \in ToSetOf(q) BY <1>1, <1>5, <2>1, Entries
  <2>3. DOMAIN h = 1 .. end BY <1>4, <1>5
  <2> QED BY <2>2, <2>3 DEF ListEntries
<1>8. FromList(q, es)
  <2> HIDE DEF K
  <2> QED BY <1>5, <1>6, <1>7, FromListKept
<1>9. ASSUME NEW e \in ToSetOf(q), ~e.sae, ~e.clone, ~(e.expiration > 0)
      PROVE  \E i \in 1 .. Len(es) : es[i] = e
  <2>1. PICK j \in 1 .. Len(s) : e = s[j] BY <1>1, Entries
  <2>2. ASSUME NEW i \in 1 .. j PROVE ~(s[i].expiration > 0)
    <3>1. i \in 1 .. Len(s) /\ i <= j BY <1>1
    <3>2. s[i].expiration \in Int /\ s[j].expiration \in Int BY <1>1, <3>1 DEF LongPast
    <3>3. CASE i = j BY <1>9, <2>1, <3>3
    <3>4. CASE i < j
      <4>1. s[i].expiration <= s[j].expiration BY <1>1, <1>9, <2>1, <3>1, <3>4 DEF Ordered
      <4> QED BY <1>9, <2>1, <3>2, <4>1
    <3> QED BY <3>1, <3>3, <3>4
  <2>3. j \in 1 .. end BY <1>1, <1>4, <2>2
  <2>4. h[j] = e /\ e \in K BY <1>5, <1>9, <2>1, <2>3
  <2> HIDE DEF K
  <2>5. \E i \in 1 .. Len(es) : es[i] = h[j] BY <1>5, <2>3, <2>4, KeptSublist
  <2> QED BY <2>4, <2>5
<1> HIDE DEF es
<1> QED BY <1>2, <1>8, <1>9

\* So does the expiration timer, which leaves no expired entry behind.
LEMMA ExpireInv ==
  ASSUME PmksaInv, pmksa_cache_expire
  PROVE  /\ PmksaInv'
         /\ \A e \in ToSetOf(pmksa)' : ~e.sae /\ ~e.clone => e.expiration > 0
<1> DEFINE q == pmksa
           v == [q EXCEPT !.expire = NoTimer]
           es == Expired(q)
           f == FreeAll(v, es, "EXPIRE")
           u == pmksa_cache_set_expiration(f)
<1>1. /\ Cache(q) /\ Assoc(q) /\ Core(q) /\ q \in PmksaState
      /\ Len(q.list) \in Nat /\ q.pmksa_count \in Int
      /\ q.pmksa_count = Len(q.list) /\ Len(q.list) <= PmksaMaxEntries
      /\ q.cur_pmksa # Null => Listed(q, q.cur_pmksa)
  BY CacheFields DEF PmksaInv
<1>2. pmksa' = u BY DEF pmksa_cache_expire
<1>3. v \in PmksaState /\ v.list = q.list /\ v.pmksa_count = q.pmksa_count /\ CacheSame(q, v)
  <2>1. NoTimer \in NoTimer .. PmkLifetime + 1 BY PmksaConstants DEF NoTimer
  <2> QED BY <1>1, <2>1 DEF PmksaState, CacheSame
<1> HIDE DEF v
<1>4. Core(v) /\ ToSetOf(v) = ToSetOf(q) BY <1>1, <1>3 DEF Core, ToSetOf
<1>5. /\ FromList(q, es)
      /\ \A e \in ToSetOf(q) : ~e.sae /\ ~e.clone /\ ~(e.expiration > 0) =>
             \E i \in 1 .. Len(es) : es[i] = e
  BY <1>1, ExpiredSound
<1> HIDE DEF es
<1>6. FromList(v, es) BY <1>4, <1>5 DEF FromList
<1>7. FreedTo(v, f, es, Len(es)) BY <1>4, <1>6, FreeAllSound
<1> HIDE DEF f
<1>8. /\ Core(f) /\ Lost(v, f)
      /\ f.pmksa_count - Len(f.list) = v.pmksa_count - Len(v.list) /\ Len(f.list) <= Len(v.list)
      /\ ToSetOf(f) = {g \in ToSetOf(v) : \A i \in 1 .. Len(es) : Ptr(g) # Ptr(es[i])}
      /\ f.cur_pmksa # Null => f.cur_pmksa = v.cur_pmksa
                               /\ \A i \in 1 .. Len(es) : f.cur_pmksa # Ptr(es[i])
  BY <1>7 DEF FreedTo
<1>9. /\ Core(u) /\ Covered(u) /\ CacheSame(f, u) /\ u.list = f.list
             /\ u.pmksa_count = f.pmksa_count
  BY <1>8, SetExpirationSound
<1> HIDE DEF u
<1>10. ToSetOf(u) = ToSetOf(f) BY <1>9 DEF ToSetOf
<1>11. u.pmksa_count = Len(u.list) /\ Len(u.list) <= PmksaMaxEntries
  <2>1. f \in PmksaState BY <1>8 DEF Core
  <2>2. Len(f.list) \in Nat /\ f.pmksa_count \in Int BY <2>1, PmksaFields
  <2> QED BY <1>1, <1>3, <1>8, <1>9, <2>2, PmksaConstants
<1>12. u.cur_pmksa # Null => Listed(u, u.cur_pmksa)
  BY <1>1, <1>3, <1>4, <1>8, <1>9, <1>10 DEF CacheSame, Listed
<1>13. Cache(u) BY <1>9, <1>11, <1>12 DEF Cache
<1>14. Lost(q, u)
  <2>1. Lost(q, v) BY <1>3 DEF Lost, CacheQuiet, CacheSame
  <2>2. Lost(f, u) BY <1>9 DEF Lost, CacheQuiet, CacheSame
  <2> QED BY <1>8, <2>1, <2>2, LostTrans
<1>15. Assoc(u) BY <1>1, <1>4, <1>8, <1>10, <1>14, LostAssoc
<1>16. ASSUME NEW e \in ToSetOf(u), ~e.sae, ~e.clone PROVE e.expiration > 0
  <2>1. e \in ToSetOf(q) /\ \A i \in 1 .. Len(es) : Ptr(e) # Ptr(es[i])
    BY <1>4, <1>8, <1>10
  <2>2. ~\E i \in 1 .. Len(es) : es[i] = e BY <2>1
  <2> QED BY <1>5, <1>16, <2>1, <2>2
<1> QED BY <1>2, <1>13, <1>15, <1>16 DEF PmksaInv

\* So does the passing of time.
LEMMA TickInv ==
  ASSUME PmksaInv, PmksaTick
  PROVE  PmksaInv'
<1> DEFINE q == pmksa
           s == q.list
           C(f) == Older(f)
           t == [i \in DOMAIN s |-> C(s[i])]
           v == [q EXCEPT !.expire = Earlier(@, NoTimer), !.reauth = Earlier(@, NoTimer)]
           u == [v EXCEPT !.list = t]
<1>1. /\ Cache(q) /\ Assoc(q) /\ q \in PmksaState /\ Covered(q) /\ Ordered(s) /\ Core(q)
      /\ q.expire # 0 /\ s # <<>>
      /\ q.expire \in NoTimer .. PmkLifetime + 1 /\ q.reauth \in NoTimer .. PmkLifetime + 1
      /\ s \in Seq(PmksaEntries) /\ Len(s) \in Nat /\ DOMAIN s = 1 .. Len(s)
      /\ \A i \in 1 .. Len(s) : /\ s[i] \in PmksaEntries /\ s[i] \in ToSetOf(q)
                                /\ s[i].expiration \in LongPast .. PmkLifetime
  BY CacheFields, PmksaFields, PmksaEntryFields, Entries DEF PmksaInv, PmksaTick
<1>2. pmksa' = u
  BY <1>1 DEF PmksaTick, PmksaState
<1>3. /\ \A n \in LongPast .. PmkLifetime : Earlier(n, LongPast) \in LongPast .. PmkLifetime
      /\ \A n \in NoTimer .. PmkLifetime + 1 : Earlier(n, NoTimer) \in NoTimer .. PmkLifetime + 1
      /\ \A m, n \in LongPast .. PmkLifetime : m <= n
             => Earlier(m, LongPast) <= Earlier(n, LongPast)
  BY PmksaConstants DEF Earlier, LongPast, NoTimer
<1>4. /\ v \in PmksaState /\ v.list = s /\ v.pmksa_count = q.pmksa_count /\ CacheSame(q, v)
      /\ v.expire = Earlier(q.expire, NoTimer)
  BY <1>1, <1>3 DEF PmksaState, CacheSame
<1>5. v.expire = q.expire - 1 /\ v.expire >= 0 /\ v.expire \in Int /\ q.expire \in Int
  BY <1>1, <1>4 DEF Covered, Earlier, NoTimer
<1>6. \A f \in PmksaEntries :
         /\ C(f) \in PmksaEntries /\ C(f).sae = f.sae /\ C(f).aa = f.aa /\ C(f).pmk = f.pmk
         /\ C(f).expiration = Earlier(f.expiration, LongPast) /\ C(f).clone = f.clone
         /\ C(f).opportunistic = f.opportunistic
  BY <1>3 DEF PmksaEntries, Older
<1> HIDE DEF v, C
<1>7. ToSetOf(v) = ToSetOf(q) BY <1>4 DEF ToSetOf
<1>8. Cache(v)
  <2>1. Covered(v)
    <3>1. \A e \in ToSetOf(q) : NotBelow0(e.expiration) \in Int
      BY <1>1, Entries, PmksaEntryFields DEF NotBelow0, LongPast
    <3> QED BY <1>1, <1>5, <1>7, <3>1 DEF Covered
  <2>2. v.cur_pmksa # Null => Listed(v, v.cur_pmksa)
    BY <1>1, <1>4, <1>7, CacheFields DEF Listed, CacheSame
  <2> QED BY <1>1, <1>4, <2>1, <2>2 DEF Cache, Core
<1>9. t \in Seq(PmksaEntries) /\ Len(t) = Len(s) /\ \A i \in 1 .. Len(t) : t[i] = C(s[i])
  BY <1>1, <1>6
<1>10. \A i \in 1 .. Len(t) :
         /\ t[i].sae = s[i].sae /\ t[i].aa = s[i].aa /\ t[i].pmk = s[i].pmk
         /\ t[i].expiration = Earlier(s[i].expiration, LongPast) /\ t[i].clone = s[i].clone
         /\ t[i].opportunistic = s[i].opportunistic
  BY <1>1, <1>6, <1>9
<1> HIDE DEF t
<1>11. \A i \in 1 .. Len(t) : Ptr(t[i]) = Ptr(v.list[i]) BY <1>4, <1>10, PtrIs
<1>12. Ordered(t)
  <2> SUFFICES ASSUME NEW i \in 1 .. Len(t), NEW j \in 1 .. Len(t), i < j, ~t[j].clone
               PROVE  t[i].expiration <= t[j].expiration
    BY DEF Ordered
  <2>1. s[i].expiration <= s[j].expiration BY <1>1, <1>9, <1>10 DEF Ordered
  <2>2. s[i].expiration \in LongPast .. PmkLifetime /\ s[j].expiration \in LongPast .. PmkLifetime
    BY <1>1, <1>9
  <2>3. t[i].expiration = Earlier(s[i].expiration, LongPast)
        /\ t[j].expiration = Earlier(s[j].expiration, LongPast)
    BY <1>10
  <2> HIDE DEF s
  <2> QED BY <1>3, <2>1, <2>2, <2>3
<1>13. ASSUME NEW i \in 1 .. Len(t), ~t[i].sae, ~t[i].clone
       PROVE  v.expire <= NotBelow0(t[i].expiration) + 1
  <2>1. q.expire <= NotBelow0(s[i].expiration) + 1 BY <1>1, <1>9, <1>10, <1>13 DEF Covered
  <2>2. s[i].expiration \in LongPast .. PmkLifetime BY <1>1, <1>9
  <2>3. t[i].expiration = Earlier(s[i].expiration, LongPast) BY <1>10
  <2> DEFINE x == s[i].expiration
             y == t[i].expiration
  <2>4. x \in Int /\ x >= -2 /\ y = (IF x <= -2 THEN -2 ELSE x - 1)
    BY <2>2, <2>3 DEF Earlier, LongPast
  <2>5. q.expire <= (IF x < 0 THEN 0 ELSE x) + 1 BY <2>1 DEF NotBelow0
  <2> HIDE DEF x, y
  <2>6. v.expire <= (IF y < 0 THEN 0 ELSE y) + 1 BY <1>5, <2>4, <2>5
  <2> QED BY <2>6 DEF y, NotBelow0
<1>14. Cache(u) /\ CacheSame(v, u) /\ u.list = t
  BY <1>4, <1>8, <1>9, <1>11, <1>12, <1>13, EntriesMarked
<1> HIDE DEF u
<1>15. CacheSame(q, u) BY <1>4, <1>14 DEF CacheSame
<1>16. ASSUME NEW e \in ToSetOf(u) PROVE \E f \in ToSetOf(q) : e.aa = f.aa
                  /\ e.opportunistic = f.opportunistic
  <2>1. u \in PmksaState BY <1>14, CacheFields
  <2>2. PICK i \in 1 .. Len(t) : e = t[i] BY <1>14, <2>1, Entries
  <2> QED BY <1>1, <1>9, <1>10, <2>2
<1> HIDE DEF q
<1>17. Assoc(u) BY <1>1, <1>15, <1>16 DEF CacheSame, Assoc, AssocSelection, AssocPreauth
<1> QED BY <1>2, <1>14, <1>17 DEF PmksaInv

\* The invariant holds at the start.
LEMMA PmksaInitInv ==
  ASSUME PmksaInit
  PROVE  PmksaInv
<1>1. pmksa \in PmksaState /\ pmksa.list = <<>> /\ pmksa.pmksa_count = 0 /\ pmksa.cur_pmksa = Null
      /\ pmksa.phase = "idle" /\ pmksa.preauth_bssid = NoAA
  BY PmksaConstants DEF PmksaInit, PmksaState, NoTimer
<1>2. ToSetOf(pmksa) = {} BY <1>1 DEF ToSetOf, ListEntries
<1>3. Core(pmksa) BY <1>1 DEF Core, OneEach, Ordered
<1>4. Cache(pmksa) BY <1>1, <1>2, <1>3, PmksaConstants DEF Cache, Covered
<1> QED BY <1>1, <1>2, <1>4 DEF PmksaInv, Assoc, AssocSelection, AssocPreauth

\* Every step keeps it.
LEMMA PmksaStep ==
  ASSUME PmksaInv, [PmksaNext]_pmksa
  PROVE  PmksaInv'
<1>1. CASE UNCHANGED pmksa
  BY <1>1 DEF PmksaInv
<1>2. ASSUME NEW aa \in AAs, sme_send_authentication(aa) PROVE PmksaInv' BY <1>2, SendAuthentication
<1>3. ASSUME NEW aa \in AAs, PmksaRejected(aa) PROVE PmksaInv' BY <1>3, RejectedInv
<1>4. ASSUME NEW aa \in AAs, rsn_preauth_candidate_process(aa) PROVE PmksaInv' BY <1>4, CandidateInv
<1>5. CASE SaeAccepted BY <1>5, SaeAcceptedInv
<1>6. CASE wpa_sm_notify_assoc BY <1>6, NotifyAssocInv
<1>7. CASE AssocRejected BY <1>7, AssocRejectedInv
<1>8. CASE EapSuccess BY <1>8, EapSuccessInv
<1>9. ASSUME NEW pmkid \in Pmks \cup {0}, wpa_supplicant_get_pmk(pmkid) PROVE PmksaInv'
  BY <1>9, GetPmkInv
<1>10. CASE wpa_supplicant_key_neg_complete BY <1>10, KeyNegCompleteInv
<1>11. CASE PmksaDisassociated BY <1>11, DisassociatedInv
<1>12. CASE NetworkChanged BY <1>12, NetworkChangedInv
<1>13. ASSUME NEW success \in BOOLEAN, rsn_preauth_eapol_cb(success) PROVE PmksaInv'
  BY <1>13, PreauthCb
<1>14. CASE pmksa_cache_expire BY <1>14, ExpireInv
<1>15. CASE pmksa_cache_reauth BY <1>15, ReauthInv
<1>16. CASE PmksaTick BY <1>16, TickInv
<1> QED
  BY <1>1, <1>2, <1>3, <1>4, <1>5, <1>6, <1>7, <1>8, <1>9, <1>10, <1>11, <1>12, <1>13, <1>14,
     <1>15, <1>16 DEF PmksaNext

\* The inductive invariant of the cache holds in every reachable state: the
\* list is in order and counted, the timer covers it, the selection is listed
\* and of the access point that is joined.
THEOREM PmksaInvariant == PmksaSpec => []PmksaInv
<1>1. PmksaInit => PmksaInv BY PmksaInitInv
<1>2. PmksaInv /\ [PmksaNext]_pmksa => PmksaInv' BY PmksaStep
<1> QED BY <1>1, <1>2, PTL DEF PmksaSpec

\* The cache and the state machine's part in it keep their types.
THEOREM PmksaTypesHold == PmksaSpec => []PmksaTypeOK
<1>1. PmksaInv => PmksaTypeOK BY CacheFields DEF PmksaInv, PmksaTypeOK
<1> QED BY <1>1, PmksaInvariant, PTL

\* pmksa_count is the length of the list, within pmksa_cache_max_entries, and
\* an access point has one entry: for any number of access points, PMKs and
\* entries.
THEOREM PmksaCountHolds == PmksaSpec => []PmksaCounted
<1>1. PmksaInv => PmksaCounted
  BY CacheFields, Entries DEF PmksaInv, PmksaCounted
<1> QED BY <1>1, PmksaInvariant, PTL

\* While the list holds a PMK from IEEE 802.1X the expiration timer is
\* registered for it.
THEOREM PmksaTimerCovers == PmksaSpec => []PmksaExpires
<1>1. PmksaInv => PmksaExpires
  <2> SUFFICES ASSUME PmksaInv, NEW e \in ToSetOf(pmksa), ~e.sae, ~e.clone
               PROVE  pmksa.expire \in 0 .. NotBelow0(e.expiration) + 1
    BY DEF PmksaExpires
  <2>1. pmksa \in PmksaState /\ Covered(pmksa) BY CacheFields DEF PmksaInv
  <2>2. pmksa.expire \in Int BY <2>1, PmksaFields DEF NoTimer
  <2>3. pmksa.list # <<>> BY DEF ToSetOf, ListEntries
  <2>4. e.expiration \in Int BY <2>1, Entries, PmksaEntryFields DEF LongPast
  <2> QED BY <2>1, <2>2, <2>3, <2>4 DEF Covered, NotBelow0
<1> QED BY <1>1, PmksaInvariant, PTL

\* sm->cur_pmksa points to an entry of the list, and to the one whose PMK is
\* in use once the connection is complete.
THEOREM PmksaSelectionHolds == PmksaSpec => []PmksaCurrentIsUsed
<1>1. PmksaInv => PmksaCurrentIsUsed
  <2> SUFFICES ASSUME PmksaInv, pmksa.cur_pmksa # Null
               PROVE  /\ Listed(pmksa, pmksa.cur_pmksa)
                      /\ pmksa.phase = "done" => Current(pmksa).pmk = pmksa.pmk
    BY DEF PmksaCurrentIsUsed
  <2>1. Cache(pmksa) /\ AssocSelection(pmksa) BY DEF PmksaInv, Assoc
  <2>2. Listed(pmksa, pmksa.cur_pmksa) BY <2>1, CacheFields
  <2>3. Current(pmksa).pmk = pmksa.cur_pmksa[2] BY <2>1, CurrentIs
  <2> QED BY <2>1, <2>2, <2>3 DEF AssocSelection
<1> QED BY <1>1, PmksaInvariant, PTL

\* The end of a preauthentication, with or without success, leaves the
\* association in its phase: the entry it replaces in the cache is a clone,
\* for which nothing else is flushed.
THEOREM PmksaPreauthKeeps == PmksaSpec => PmksaPreauthHarmless
<1>1. PmksaInv /\ [PmksaNext]_pmksa =>
        [(\E success \in BOOLEAN : rsn_preauth_eapol_cb(success))
             => pmksa'.phase = pmksa.phase]_pmksa
  BY PreauthCb
<1> QED BY <1>1, PmksaInvariant, PTL DEF PmksaSpec, PmksaPreauthHarmless

\* pmksa_cache_expire() leaves no PMK from IEEE 802.1X whose lifetime is over.
THEOREM PmksaExpiryComplete == PmksaSpec => PmksaExpiryDrops
<1>1. PmksaInv /\ [PmksaNext]_pmksa =>
        [pmksa_cache_expire =>
             \A e \in ToSetOf(pmksa)' : ~e.sae /\ ~e.clone => e.expiration > 0]_pmksa
  BY ExpireInv
<1> QED BY <1>1, PmksaInvariant, PTL DEF PmksaSpec, PmksaExpiryDrops
=============================================================================
