---------------------------- MODULE MCComponents ----------------------------
(***************************************************************************)
(* The components that share no state, checked side by side: a behaviour   *)
(* picks one of them and runs it while the others stay as they start.      *)
(* Their invariants and properties are those of the components' modules.   *)
(***************************************************************************)
EXTENDS RsnGroupKeys, Sae, RadiusClient, SaQuery, PmksaCache, EapolAuthenticator,
        TLC

CONSTANT Components     \* the components the run is about

VARIABLE component      \* the one this behaviour is about

componentVars ==
    <<component, groupKeyVars, saeVars, radiusVars, saQueryVars, pmksa, eapol>>

\* The configurations of a component differ only where it is the one that runs.
MCInit ==
    /\ component \in Components
    /\ GroupKeysInit /\ SaeInit /\ RadiusInit /\ SaQueryInit /\ PmksaInit
    /\ EapolInit
    /\ component # "sae" => saeConf = [mesh |-> TRUE, confirm_immediate |-> FALSE,
                                       samePassword |-> TRUE]
    /\ component # "radius" => sameSecret

GroupKeys == /\ component = "group_keys" /\ GroupKeysNext
             /\ UNCHANGED <<component, saeVars, radiusVars, saQueryVars, pmksa, eapol>>
SaeRuns == /\ component = "sae" /\ SaeNext
           /\ UNCHANGED <<component, groupKeyVars, radiusVars, saQueryVars, pmksa, eapol>>
RadiusRuns == /\ component = "radius" /\ RadiusNext
              /\ UNCHANGED <<component, groupKeyVars, saeVars, saQueryVars, pmksa, eapol>>
SaQueryRuns == /\ component = "sa_query" /\ SaQueryNext
               /\ UNCHANGED <<component, groupKeyVars, saeVars, radiusVars, pmksa, eapol>>
PmksaRuns == /\ component = "pmksa" /\ PmksaNext
             /\ UNCHANGED <<component, groupKeyVars, saeVars, radiusVars, saQueryVars, eapol>>
EapolRuns == /\ component = "eapol" /\ EapolNext
             /\ UNCHANGED <<component, groupKeyVars, saeVars, radiusVars, saQueryVars, pmksa>>

MCNext == GroupKeys \/ SaeRuns \/ RadiusRuns \/ SaQueryRuns \/ PmksaRuns \/ EapolRuns

\* The access points that do not use SAE are interchangeable.
AASymmetry == Permutations(AAs \ SaeAAs)

MCSpec == MCInit /\ [][MCNext]_componentVars

\* The fairness of the modules, each where its component runs.
MCFairness ==
    /\ \A e \in SaeSides :
        WF_saeVars(component = "sae" /\ auth_sae_retransmit_timer(e))
    /\ \A n \in 1 .. MaxRequests : WF_radiusVars(component = "radius" /\ RadiusDue(n))
    /\ WF_saQueryVars(component = "sa_query" /\ ap_sa_query_timer)
    /\ WF_saQueryVars(component = "sa_query" /\ sme_sa_query_timer)
    /\ WF_saQueryVars(component = "sa_query"
                      /\ \E late \in BOOLEAN : AssociateStation(late))
    /\ WF_saQueryVars(component = "sa_query" /\ Class3Error)
    /\ EapolFairness      \* no station, nothing to be fair to, in the other behaviours

\* Every component keeps to its types and counters to their limits: sync of SAE,
\* the attempts of a RADIUS request, the rounds of an SA Query, reAuthCount
\* and retransCount (sae_check_big_sync(), radius_client_retransmit(),
\* ap_check_sa_query_timeout(), AUTH_PAE CONNECTING, EAP RETRANSMIT).
ComponentsTypeOK ==
    SaeTypeOK /\ RadiusTypeOK /\ SaQueryTypeOK /\ PmksaTypeOK /\ EapolTypeOK

MCLiveSpec == MCSpec /\ MCFairness
=============================================================================
