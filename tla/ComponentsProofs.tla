-------------------------- MODULE ComponentsProofs --------------------------
(***************************************************************************)
(* The components side by side: in a behaviour of MCSpec every component   *)
(* behaves as its own module says, whether it is the one that runs or not, *)
(* so that what is proved of each alone holds of them together.            *)
(***************************************************************************)
EXTENDS MCComponents, StationProofs, RadiusPmksaProofs, EapolProofs

\* The components share no state: every behaviour of MCSpec is, for each of them,
\* a behaviour of its own specification, fairness apart, so that a run about all of
\* them at once checks each as a run about it alone would.
THEOREM ComponentsApart ==
    MCSpec => /\ GroupKeysSpec /\ SaeSpec /\ PmksaSpec /\ EapolSpec
              /\ RadiusInit /\ [][RadiusNext]_radiusVars
              /\ SaQueryInit /\ [][SaQueryNext]_saQueryVars
<1>1. MCInit => /\ GroupKeysInit /\ SaeInit /\ RadiusInit /\ SaQueryInit
                /\ PmksaInit /\ EapolInit
  BY DEF MCInit
<1>2. [MCNext]_componentVars =>
        /\ [GroupKeysNext]_groupKeyVars /\ [SaeNext]_saeVars /\ [RadiusNext]_radiusVars
        /\ [SaQueryNext]_saQueryVars /\ [PmksaNext]_pmksa /\ [EapolNext]_eapol
  BY DEF MCNext, GroupKeys, SaeRuns, RadiusRuns, SaQueryRuns, PmksaRuns, EapolRuns,
     componentVars
<1> QED BY <1>1, <1>2, PTL DEF MCSpec, GroupKeysSpec, SaeSpec, PmksaSpec, EapolSpec

\* The limits and types of all components together, for every limit: sync of SAE,
\* the attempts of a RADIUS request, the rounds of an SA Query, the entries of the
\* PMKSA cache, reAuthCount and retransCount (sae_check_big_sync(),
\* radius_client_retransmit(), ap_check_sa_query_timeout(), pmksa_cache_add_entry(),
\* AUTH_PAE CONNECTING, EAP RETRANSMIT).
THEOREM ComponentsTyped == MCSpec => []ComponentsTypeOK
<1>1. MCSpec => []SaeTypeOK BY ComponentsApart, SaeTypesHold, PTL
<1>2. MCSpec => []PmksaTypeOK BY ComponentsApart, PmksaTypesHold, PTL
<1>3. MCSpec => []EapolTypeOK BY ComponentsApart, EapolTypes, PTL
<1>4. MCSpec => []RadiusTypeOK
  <2>1. RadiusInv => RadiusTypeOK
    BY DEF RadiusInv, RadiusGood, RadiusSound, RadiusTypeOK
  <2> QED BY <2>1, ComponentsApart, RadiusInitInv, RadiusInvInductive, PTL
<1>5. MCSpec => []SaQueryTypeOK
  <2>1. SaQueryInv => SaQueryTypeOK
    BY DEF SaQueryInv, ApSaInv, StaSaInv, ApSaState, StaSaState, SaQueryTypeOK,
       SaNumbers, QueryCounts
  <2> QED BY <2>1, ComponentsApart, SaQueryStart, SaQueryStep, PTL
<1>6. SaeTypeOK /\ RadiusTypeOK /\ SaQueryTypeOK /\ PmksaTypeOK /\ EapolTypeOK
        => ComponentsTypeOK
  BY DEF ComponentsTypeOK
<1> QED BY <1>1, <1>2, <1>3, <1>4, <1>5, <1>6, PTL
=============================================================================
