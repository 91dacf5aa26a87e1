------------------------- MODULE ClusterConnection -------------------------
(***************************************************************************)
(* A cluster connection (src/proxy/cluster_connection.go): the parts that  *)
(* are not about where tasks go or who owns a shard.  A stream of the      *)
(* target cluster becomes a handler of StreamHandlers or a                 *)
(* StreamForwarder, by the shard count mode, which ShardMapping is about;  *)
(* what a handler has for a shard of another node goes through             *)
(* IntraForwarding; MembershipJoin has the node join the other proxies,    *)
(* NameTranslation has the names in what the servers pass on, and          *)
(* PayloadSealing the encryptors, with NamespaceNames to find the names    *)
(* they bind it to.  ProxyResources builds the connection and closes what  *)
(* it has open.  The handlers, the membership and the resources end with   *)
(* the lifetime, and the parts share nothing else.                         *)
(***************************************************************************)
EXTENDS StreamHandlers, StreamForwarder, ShardMapping, IntraForwarding, MembershipJoin,
        NameTranslation, NamespaceNames, PayloadSealing, ProxyResources

connectionVars == <<lifetime, handlerVars, forwarderVars, mappingVars, routedVars, memberVars,
                    translationVars, nameVars, sealingVars, resourceVars>>

ConnectionInit ==
  /\ LifetimeInit
  /\ HandlersInit
  /\ ForwarderInit
  /\ MappingInit
  /\ ForwardingInit
  /\ MembershipInit
  /\ TranslationInit
  /\ NamesInit
  /\ SealingInit
  /\ ResourcesInit

StopStep ==
  /\ ProxyStops
  /\ UNCHANGED <<handlerVars, forwarderVars, mappingVars, routedVars, memberVars,
                 translationVars, nameVars, sealingVars>>

HandlersStep ==
  /\ HandlersNext
  /\ UNCHANGED <<lifetime, forwarderVars, mappingVars, routedVars, memberVars,
                 translationVars, nameVars, sealingVars, resourceVars>>

ForwarderStep ==
  /\ ForwarderNext
  /\ UNCHANGED <<lifetime, handlerVars, mappingVars, routedVars, memberVars,
                 translationVars, nameVars, sealingVars, resourceVars>>

MappingStep ==
  /\ MappingNext
  /\ UNCHANGED <<lifetime, handlerVars, forwarderVars, routedVars, memberVars,
                 translationVars, nameVars, sealingVars, resourceVars>>

ForwardingStep ==
  /\ ForwardingNext
  /\ UNCHANGED <<lifetime, handlerVars, forwarderVars, mappingVars, memberVars,
                 translationVars, nameVars, sealingVars, resourceVars>>

MembershipStep ==
  /\ MembershipNext
  /\ UNCHANGED <<lifetime, handlerVars, forwarderVars, mappingVars, routedVars,
                 translationVars, nameVars, sealingVars, resourceVars>>

TranslationStep ==
  /\ TranslationNext
  /\ UNCHANGED <<lifetime, handlerVars, forwarderVars, mappingVars, routedVars,
                 memberVars, nameVars, sealingVars, resourceVars>>

NamesStep ==
  /\ NamesNext
  /\ UNCHANGED <<lifetime, handlerVars, forwarderVars, mappingVars, routedVars,
                 memberVars, translationVars, sealingVars, resourceVars>>

SealingStep ==
  /\ SealingNext
  /\ UNCHANGED <<lifetime, handlerVars, forwarderVars, mappingVars, routedVars,
                 memberVars, translationVars, nameVars, resourceVars>>

ResourcesStep ==
  /\ ResourcesNext
  /\ UNCHANGED <<handlerVars, forwarderVars, mappingVars, routedVars, memberVars,
                 translationVars, nameVars, sealingVars>>

ConnectionNext ==
  \/ StopStep
  \/ HandlersStep \/ ForwarderStep \/ MappingStep \/ ForwardingStep
  \/ MembershipStep \/ TranslationStep \/ NamesStep \/ SealingStep \/ ResourcesStep

ConnectionSpec == ConnectionInit /\ [][ConnectionNext]_connectionVars

ConnectionFairness ==
  HandlersFairness /\ ForwarderFairness /\ ForwardingFairness /\ MembershipFairness
    /\ ResourcesFairness
=============================================================================
