--------------------------- MODULE PayloadSealing ---------------------------
(***************************************************************************)
(* The encryptors of a cluster connection (src/interceptor, built by       *)
(* newEncryptors in src/proxy/cluster_connection.go).  Something of the    *)
(* local cluster crosses to the peer, which keeps it, and comes back, by   *)
(* another call and perhaps after a restart with another configuration.    *)
(* It crosses in a request of the outbound client or a response of the     *)
(* inbound one, which is the "reverse" side, and comes back the other way; *)
(* each has a payload encryptor, for workflow and operator calls, and an   *)
(* admin encryptor, for admin calls and replication.                       *)
(*                                                                         *)
(* A message is a payload, a failure, whose encoded attributes are a       *)
(* payload, or opaque data.  A payload is its encoding, the marker of      *)
(* encodeFailure, and what it is sealed with, one binding for each layer.  *)
(* A visit returns the set of its results: one, or none if it failed.  The *)
(* keys stay configured.  The vault, codec.EncodeFailure and the visiting  *)
(* of public messages are external; search attributes are never visited.   *)
(***************************************************************************)
EXTENDS Integers, Sequences

CONSTANT MaxRestarts      \* bound: restarts with another configuration

ASSUME SealingAssumption == MaxRestarts \in Nat

VARIABLES
  encryption,          \* the EncryptionConfig in use
  original,            \* what the local cluster has
  message,             \* what became of it
  place,               \* "local", "peer", "back", or "unsent" or "refused" by a failed visit
  sealedBy,            \* the configuration it crossed under
  named,               \* what the calls named, and what it was sealed for before
  restarts

sealingVars == <<encryption, original, message, place, sealedBy, named, restarts>>

(* The configurations that pass Validate.                                  *)
EncryptionConfigs ==
  {c \in [Enabled : BOOLEAN, Failures : BOOLEAN, AllowOpaquePlaintext : BOOLEAN,
          NamespaceBinding : {"off", "permissive", "strict"}] :
     c.Failures => c.Enabled}

Routes == {"payload", "admin"}

(* What a call names its namespace by: an ID, which resolves or not, only  *)
(* in an admin call.                                                       *)
Contexts(route) ==
  {"nothing", "stamped"} \cup IF route = "admin" THEN {"id", "unresolved"} ELSE {}

(* Payload encodings: "listed" is in AlreadySealedEncodings, "lookalike"   *)
(* has the name of ours and no key material.                               *)
Payload(encoding, marked) == [encoding |-> encoding, marked |-> marked, seals |-> <<>>]

PayloadMessage(p) == [kind |-> "payload", text |-> "none", payloads |-> <<p>>]
FailureMessage(t, ps) == [kind |-> "failure", text |-> t, payloads |-> ps]

(* A failure has its text, or was encoded by the SDK.  A payload may have  *)
(* come from the peer while no keys were configured, still sealed.         *)
Originals ==
  {PayloadMessage(Payload(e, FALSE)) : e \in {"json/plain", "listed", "lookalike"}}
    \cup {PayloadMessage([Payload("json/plain", FALSE) EXCEPT !.seals = <<"theirs">>])}
    \cup {FailureMessage("own", <<>>),
          FailureMessage("placeholder", <<Payload("json/plain", FALSE)>>)}
    \cup {[kind |-> "opaque", text |-> "none", payloads |-> <<>>]}
----------------------------------------------------------------------------
(* The two namespaces have each other's name on the peer: the most a       *)
(* translation can confuse.                                                *)
nsTranslations == [mine |-> "theirs", theirs |-> "mine"]

Namespaces == DOMAIN nsTranslations

ToLocal(name) == CHOOSE n \in DOMAIN nsTranslations : nsTranslations[n] = name

(* Mutant: the stamp always comes first.                                   *)
StampFirst(callerNamesLocalNamespaces, name) == name

(* The name that is stamped: the call's own, or, of a call of the peer,    *)
(* translated.                                                             *)
stampAndTranslate(callerNamesLocalNamespaces, name) ==
  IF callerNamesLocalNamespaces THEN name ELSE ToLocal(name)

label(ns) == IF ns \in Namespaces THEN nsTranslations[ns] ELSE ns

(* What a call of namespace ns names, "empty" if nothing; LocalName        *)
(* resolves an ID, in NamespaceNames.                                      *)
NameOf(context, reverse, ns) ==
  CASE context = "stamped" -> stampAndTranslate(~reverse, IF reverse THEN label(ns) ELSE ns)
    [] context = "id"      -> ns
    [] OTHER               -> "empty"

Named(name) == {[label |-> name, check |-> TRUE]}
ByKey       == {[label |-> "replication", check |-> FALSE]}

(* labelBinder, and namespaceBinder, which newEncryptors gives no names    *)
(* when nothing is bound.                                                  *)
labelBinder(ns) == Named(label(ns))

namespaceBinder(context, ns) ==
  IF encryption.NamespaceBinding # "off" /\ ns # "empty" THEN Named(label(ns))
  ELSE IF encryption.NamespaceBinding = "strict" /\ context = "unresolved" THEN {}
  ELSE ByKey

binding(route, context, ns) ==
  IF route = "payload" THEN labelBinder(ns) ELSE namespaceBinder(context, ns)

(* External: Seal binds to the label unless binding is off, and Open       *)
(* refuses, in "strict", what is not bound or bound to another label than  *)
(* the expected.                                                           *)
VaultSeal(b) == IF encryption.NamespaceBinding = "off" THEN "unbound" ELSE b.label
VaultOpens(b, bound) ==
  encryption.NamespaceBinding = "strict" => bound # "unbound" /\ (b.check => bound = b.label)

(* Encrypt and Decrypt of one payload.                                     *)
Encrypt(p, bs) == {[p EXCEPT !.seals = <<VaultSeal(b)>> \o @] : b \in bs}
Decrypt(p, bs) == {[p EXCEPT !.seals = Tail(@)] : b \in {c \in bs : VaultOpens(c, Head(p.seals))}}

(* The encoding is ours and there is key material.                         *)
isSealed(p) == p.seals # <<>>

alreadySealed(p) == isSealed(p) \/ p.encoding = "listed"

sealUnlessSealed(p, bs) == IF alreadySealed(p) THEN {p} ELSE Encrypt(p, bs)
Decode(p, bs)           == IF isSealed(p) THEN Decrypt(p, bs) ELSE {p}

(* The results of a visit of the message's payload, if it has one.         *)
VisitPayload(m, work, bs) ==
  IF m.payloads = <<>> THEN {m}
  ELSE {[m EXCEPT !.payloads = <<p>>] :
          p \in IF work = "seal" THEN sealUnlessSealed(m.payloads[1], bs)
                ELSE Decode(m.payloads[1], bs)}
----------------------------------------------------------------------------
encodeFailure(m) ==
  IF m.kind = "failure" /\ m.payloads = <<>>
  THEN FailureMessage("placeholder", <<Payload("json/plain", TRUE)>>)
  ELSE m

restoreFailure(m) ==
  IF /\ m.kind = "failure" /\ m.payloads # <<>>
     /\ ~isSealed(m.payloads[1])
     /\ m.payloads[1].marked /\ m.payloads[1].encoding = "json/plain"
  THEN FailureMessage("own", <<>>)
  ELSE m

(* sealOpaque; openOpaque lets everything through.  Only admin messages    *)
(* have such data.                                                         *)
sealOpaque(m) == IF encryption.AllowOpaquePlaintext THEN {m} ELSE {}

(* One visit of a message; the ones that seal, only as configured.         *)
Visit(work, m, bs) ==
  CASE work = "encode"  -> {IF encryption.Failures THEN encodeFailure(m) ELSE m}
    [] work = "restore" -> {restoreFailure(m)}
    [] work = "seal"    ->
         IF ~encryption.Enabled THEN {m}
         ELSE IF m.kind = "opaque" THEN sealOpaque(m)
         ELSE VisitPayload(m, work, bs)
    [] work = "open"    -> VisitPayload(m, work, bs)
----------------------------------------------------------------------------
(* The interceptors of NewEncryptor, the outer one first.                  *)
unary(reverse) ==
  IF reverse THEN [Inbound |-> "seal", Outbound |-> "open"]
  ELSE [Inbound |-> "open", Outbound |-> "seal"]
failures(reverse) ==
  IF reverse THEN [Inbound |-> "encode", Outbound |-> "restore"]
  ELSE [Inbound |-> "restore", Outbound |-> "encode"]

(* Mutant: the failures are always outside.                                *)
FailuresOutside(reverse) == <<failures(reverse), unary(reverse)>>

NewEncryptor(reverse) ==
  IF reverse THEN <<unary(TRUE), failures(TRUE)>> ELSE <<failures(FALSE), unary(FALSE)>>

(* chainUnary: the outer sees a request first and a response last.         *)
chainUnary(chain, way) ==
  IF way = "request" THEN <<chain[1].Outbound, chain[2].Outbound>>
  ELSE <<chain[2].Inbound, chain[1].Inbound>>

(* NewAdminEncryptor's visits, of a message or an error's details.         *)
NewAdminEncryptor(reverse, way) ==
  IF reverse = (way = "response") THEN <<"encode", "seal">> ELSE <<"open", "restore">>

Works(route, reverse, way) ==
  IF route = "payload" THEN chainUnary(NewEncryptor(reverse), way)
  ELSE NewAdminEncryptor(reverse, way)

Intercept(route, reverse, way, context, ns) ==
  LET bs    == binding(route, context, NameOf(context, reverse, ns))
      works == Works(route, reverse, way)
  IN  UNION {Visit(works[2], m, bs) : m \in Visit(works[1], message, bs)}
----------------------------------------------------------------------------
SealingInit ==
  /\ encryption \in EncryptionConfigs
  /\ original \in Originals
  /\ message = original
  /\ place = "local"
  /\ sealedBy = encryption
  /\ named = {ns \in Namespaces :
                \E i \in 1..Len(original.payloads) : original.payloads[i].seals = <<label(ns)>>}
  /\ restarts = 0

(* A call, or a message of a stream, is visited and goes on, or fails; a   *)
(* payload may cross in a call of another namespace than it came by.       *)
Pass(reverse, way, to, failed) ==
  \E route \in Routes : \E context \in Contexts(route), ns \in Namespaces :
    /\ message.kind = "opaque" => route = "admin"
    /\ LET out == Intercept(route, reverse, way, context, ns)
       IN  \/ message' \in out /\ place' = to
           \/ out = {} /\ place' = failed /\ UNCHANGED message
    /\ named' = named \cup {IF context \in {"nothing", "unresolved"} THEN "empty" ELSE ns}

(* To the peer: what the local cluster sends, or returns.                  *)
CrossToPeer ==
  /\ place = "local"
  /\ \/ Pass(FALSE, "request", "peer", "unsent")
     \/ Pass(TRUE, "response", "peer", "unsent")
  /\ sealedBy' = encryption
  /\ UNCHANGED <<encryption, original, restarts>>

(* Back: what the peer returns, or sends.                                  *)
CrossBack ==
  /\ place = "peer"
  /\ \/ Pass(FALSE, "response", "back", "refused")
     \/ Pass(TRUE, "request", "back", "refused")
  /\ UNCHANGED <<encryption, original, sealedBy, restarts>>

(* The proxy is restarted with another configuration.                      *)
NewEncryptors ==
  /\ place = "peer"
  /\ restarts < MaxRestarts
  /\ restarts' = restarts + 1
  /\ encryption' \in EncryptionConfigs
  /\ UNCHANGED <<original, message, place, sealedBy, named>>

SealingNext == CrossToPeer \/ CrossBack \/ NewEncryptors

SealingSpec == SealingInit /\ [][SealingNext]_sealingVars
----------------------------------------------------------------------------
(* newEncryptors' "the peer only ever sees sealed payloads", and           *)
(* sealUnlessSealed's one layer: what crossed while encryption was enabled *)
(* is sealed once, whatever call it crossed in and whatever it was, unless *)
(* another codec sealed it; the text of a failure is not beside it when    *)
(* failures are included, and opaque data is there only if allowed.        *)
PeerHoldsSealed ==
  place = "peer" /\ sealedBy.Enabled =>
    /\ \A i \in 1..Len(message.payloads) :
         LET p == message.payloads[i]
         IN  IF p.encoding = "listed" THEN p.seals = <<>> ELSE Len(p.seals) = 1
    /\ sealedBy.Failures => message.text # "own"
    /\ message.kind = "opaque" => sealedBy.AllowOpaquePlaintext

(* What the local cluster should see of a message.                         *)
Opened(m) == [m EXCEPT !.payloads = [i \in DOMAIN @ |-> [@[i] EXCEPT !.seals = <<>>]]]

(* newEncryptors' "switching encryption off does not strand what was       *)
(* sealed while it was on", and restoreFailure's "exactly what it was      *)
(* before it crossed": what comes back is what was sent, opened, by        *)
(* whatever call and under whatever configuration.  It is refused only     *)
(* where binding is strict, and only if it was sealed while nothing was    *)
(* bound or the calls did not all name the same namespace: otherwise they  *)
(* see its local name, "so both agree".  Calls that name none, Nexus       *)
(* payloads that cross namespaces and children in another one "are not     *)
(* exempt" (src/config/encryption.go).                                     *)
NothingStranded ==
  /\ place = "back" => message = Opened(original)
  /\ place = "refused" =>
       /\ encryption.NamespaceBinding = "strict"
       /\ sealedBy.NamespaceBinding = "off" \/ \A ns \in Namespaces : named # {ns}
=============================================================================
