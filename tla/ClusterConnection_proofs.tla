---------------------- MODULE ClusterConnection_proofs ----------------------
(***************************************************************************)
(* A cluster connection is each of its parts: what Lifetime_proofs,        *)
(* Crossing_proofs, IntraProxy_proofs and Shards_proofs show of a part by  *)
(* itself is so of the part within the connection.                         *)
(***************************************************************************)
EXTENDS ClusterConnection, TLAPS

(* A step of the connection is, for every part, a step of that part or     *)
(* none of its variables changes.                                          *)
LEMMA PartSteps ==
  ASSUME [ConnectionNext]_connectionVars
  PROVE  /\ [HandlersNext]_handlerVars
         /\ [ForwarderNext]_forwarderVars
         /\ [MappingNext]_mappingVars
         /\ [ForwardingNext]_routedVars
         /\ [MembershipNext]_memberVars
         /\ [TranslationNext]_translationVars
         /\ [NamesNext]_nameVars
         /\ [SealingNext]_sealingVars
         /\ [ResourcesNext \/ ProxyStops]_<<resourceVars, lifetime>>
<1>1. CASE StopStep
  BY Zenon, <1>1 DEF StopStep
<1>2. CASE HandlersStep
  BY Zenon, <1>2 DEF HandlersStep
<1>3. CASE ForwarderStep
  BY Zenon, <1>3 DEF ForwarderStep
<1>4. CASE MappingStep
  BY Zenon, <1>4 DEF MappingStep
<1>5. CASE ForwardingStep
  BY Zenon, <1>5 DEF ForwardingStep
<1>6. CASE MembershipStep
  BY Zenon, <1>6 DEF MembershipStep
<1>7. CASE TranslationStep
  BY Zenon, <1>7 DEF TranslationStep
<1>8. CASE NamesStep
  BY Zenon, <1>8 DEF NamesStep
<1>9. CASE SealingStep
  BY Zenon, <1>9 DEF SealingStep
<1>10. CASE ResourcesStep
  BY Zenon, <1>10 DEF ResourcesStep
<1>11. CASE UNCHANGED connectionVars
  BY Zenon, <1>11 DEF connectionVars
<1> QED
  BY Zenon, <1>1, <1>2, <1>3, <1>4, <1>5, <1>6, <1>7, <1>8, <1>9, <1>10, <1>11
     DEF ConnectionNext

(* newClusterConnection puts the parts together so that nothing of one is  *)
(* changed by another: the only thing they share is the lifetime, which    *)
(* ProxyStops and a failing construction end.  Every behaviour of the      *)
(* connection is a behaviour of each part.                                 *)
THEOREM ConnectionParts ==
  ConnectionSpec => /\ HandlersSpec
                    /\ ForwarderSpec
                    /\ MappingSpec
                    /\ ForwardingSpec
                    /\ MembershipSpec
                    /\ TranslationSpec
                    /\ NamesSpec
                    /\ SealingSpec
                    /\ ResourcesSpec
<1>1. ConnectionInit => /\ HandlersInit /\ ForwarderInit /\ MappingInit /\ ForwardingInit
                        /\ MembershipInit /\ TranslationInit /\ NamesInit /\ SealingInit
                        /\ LifetimeInit /\ ResourcesInit
  BY Zenon DEF ConnectionInit
<1> QED
  BY <1>1, PartSteps, PTL DEF ConnectionSpec, HandlersSpec, ForwarderSpec, MappingSpec,
     ForwardingSpec, MembershipSpec, TranslationSpec, NamesSpec, SealingSpec, ResourcesSpec
=============================================================================
