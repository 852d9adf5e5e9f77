----------------------------- MODULE PairwiseSA -----------------------------
(***************************************************************************)
(* What the 4-way handshake promises, without saying how: neither driver   *)
(* of an association is ever handed a pairwise key a second time (which    *)
(* would restart its packet numbers), and the authenticator starts to use  *)
(* a key only when the station has confirmed it.  Where keys are not       *)
(* replaced during an association, the two drivers also never use          *)
(* different ones.                                                         *)
(***************************************************************************)
CONSTANTS Keys, NoKey,
          Replaces    \* whether a driver may go from one key to another

VARIABLES apKey,      \* the key the authenticator's driver uses
          staKey,     \* the key the station's driver uses
          apUsed,     \* every key the authenticator's driver was ever given
          staUsed,    \* every key the station's driver was ever given
          confirmed   \* the keys the station proved to hold

vars == <<apKey, staKey, apUsed, staUsed, confirmed>>

Init == /\ apKey = NoKey /\ staKey = NoKey
        /\ apUsed = {} /\ staUsed = {} /\ confirmed = {}

\* The station confirms a key and starts to use it, or gives up right after.
StaInstall(k) ==
  /\ k \notin staUsed
  /\ Replaces \/ (apKey = NoKey /\ staKey = NoKey)
  /\ staKey' \in {k, NoKey} /\ staUsed' = staUsed \cup {k}
  /\ confirmed' = confirmed \cup {k}
  /\ UNCHANGED <<apKey, apUsed>>

\* The station confirms a key that it cannot use, and gives up.
StaFail(k) ==
  /\ staKey' = NoKey
  /\ confirmed' = confirmed \cup {k}
  /\ UNCHANGED <<apKey, apUsed, staUsed>>

\* The authenticator starts to use a key.  A station that does not replace keys
\* is using the same one, or has left.
ApInstall(k) ==
  /\ k \in confirmed \ apUsed
  /\ Replaces \/ (apKey = NoKey /\ staKey \in {k, NoKey})
  /\ apKey' = k /\ apUsed' = apUsed \cup {k}
  /\ UNCHANGED <<staKey, staUsed, confirmed>>

\* One side, or both in a new association, forget the key.
Drop ==
  /\ apKey' \in {apKey, NoKey} /\ staKey' \in {staKey, NoKey}
  /\ UNCHANGED <<apUsed, staUsed, confirmed>>

Next == Drop \/ \E k \in Keys : StaInstall(k) \/ StaFail(k) \/ ApInstall(k)

Spec == Init /\ [][Next]_vars
=============================================================================
