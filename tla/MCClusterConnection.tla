------------------------ MODULE MCClusterConnection ------------------------
(* The instance of ClusterConnection for TLC.  Its parts share only the    *)
(* lifetime and every property is about one of them, so the environment    *)
(* drives one part at a time, any, and the others stay as they began.      *)
EXTENDS ClusterConnection

CONSTANTS name1, name2, name3

VARIABLE driven      \* the part that is driven

(* What is on its way between two nodes is driven in one direction at a    *)
(* time: the two share only the streams.                                   *)
Parts == {"handlers", "forwarder", "mapping", "tasks", "acks", "membership",
          "translation", "names", "sealing", "resources"}

KVars == <<driven, connectionVars>>

(* The translations of namespaces and of search attributes do not meet, so *)
(* both have the same mappings; and the names are interchangeable: the     *)
(* first mapping is of name1, to itself or to name2.  A call that is not   *)
(* translated is looked at with names only.                                *)
TranslationCases ==
  /\ nsMappings \in {m \in Mappings : m = <<>> \/ m[1] \in {name1} \X {name1, name2}}
  /\ saMappings = nsMappings
  /\ aclPolicy \in [enabled : {TRUE}, namespaces : {{name1}, {name2}}, methods : {FALSE}]
                    \cup [enabled : BOOLEAN, namespaces : {{}}, methods : {TRUE}]
  /\ aliased = {name1}

TranslationIdle ==
  /\ nsMappings = <<>>
  /\ saMappings = <<>>
  /\ aliased = {}
  /\ aclPolicy = [enabled |-> FALSE, namespaces |-> {}, methods |-> FALSE]
  /\ sent = [public |-> FALSE, disabled |-> FALSE, parts |-> <<NamePart(name1)>>]

(* Only the part that is driven is looked at in all its initial states.    *)
KInit ==
  /\ driven \in Parts
  /\ IF driven = "translation" THEN TranslationCases ELSE TranslationIdle
  /\ IF driven = "mapping" THEN TRUE
     ELSE shardCountConfig = [mode |-> "default", local |-> 1, remote |-> 1]
  /\ IF driven = "names" THEN TRUE ELSE renamedAt = <<0>>
  /\ IF driven = "sealing" THEN TRUE
     ELSE /\ original = [kind |-> "opaque", text |-> "none", payloads |-> <<>>]
          /\ encryption = [Enabled |-> FALSE, Failures |-> FALSE, AllowOpaquePlaintext |-> FALSE,
                           NamespaceBinding |-> "off"]
  /\ ConnectionInit
  /\ sent.disabled => IsList(sent.parts)

(* Bound: the forwarder receives MaxForwarded messages but one ack; its    *)
(* two loops and listeners share only the shutdown.                        *)
FewAcks == received'["acks"] <= 1

(* The steps of ConnectionNext, each for its part.                         *)
KNext ==
  /\ UNCHANGED driven
  /\ \/ driven \in {"handlers", "membership", "resources"} /\ StopStep
     \/ driven = "handlers" /\ HandlersStep
     \/ driven = "forwarder" /\ ForwarderStep /\ FewAcks
     \/ driven = "mapping" /\ MappingStep
     \/ driven = "tasks" /\ UNCHANGED <<nextAck, ackChanOpen>> /\ ForwardingStep
     \/ driven = "acks" /\ UNCHANGED <<nextMsg, using, chans>> /\ ForwardingStep
     \/ driven = "membership" /\ MembershipStep
     \/ driven = "translation" /\ TranslationStep
     \/ driven = "names" /\ NamesStep
     \/ driven = "sealing" /\ SealingStep
     \/ driven = "resources" /\ ResourcesStep

KSpec == KInit /\ [][KNext]_KVars

KFairSpec == KSpec /\ ConnectionFairness
=============================================================================
