------------------------------- MODULE Lists -------------------------------
(***************************************************************************)
(* Linked lists (struct dl_list, and the next pointers of the caches) as   *)
(* sequences: what a walk over a list leaves of it.                        *)
(***************************************************************************)
EXTENDS Naturals, Sequences

ListEntries(s) == {s[i] : i \in DOMAIN s}

\* The list s after a walk that unlinks the entries outside K.
Kept(s, K) ==
    LET walk[i \in 0 .. Len(s)] ==
            IF i = 0 THEN <<>>
            ELSE IF s[i] \in K THEN Append(walk[i - 1], s[i]) ELSE walk[i - 1]
    IN walk[Len(s)]
=============================================================================
