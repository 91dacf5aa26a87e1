-------------------------- MODULE NameTranslation --------------------------
(***************************************************************************)
(* The names in what passes the servers of a cluster connection            *)
(* (src/proxy/cluster_connection.go): the two clusters may name a          *)
(* namespace or a search attribute differently.  The translation           *)
(* interceptor renames them in calls and streams (src/interceptor), the    *)
(* access control interceptor of the inbound server decides by them, and   *)
(* so do two handlers.                                                     *)
(*                                                                         *)
(* Something of the local cluster crosses to the peer, in a request of the *)
(* outbound server or a response or a stream of the inbound one, and comes *)
(* back the other way, by another call.  It is a sequence of parts, in the *)
(* order they are visited: a name, the indexed fields of some search       *)
(* attributes, or a blob of history events.  The value of an indexed field *)
(* is the set of those it may have: where two keys become one, one of      *)
(* their values is kept, any.  The reflection of the visit and the         *)
(* serialization are external.                                             *)
(***************************************************************************)
EXTENDS Integers, Sequences

CONSTANTS
  Names,               \* of namespaces and of search attributes
  MaxMappings          \* bound: configured mappings

ASSUME TranslationAssumption ==
  /\ MaxMappings \in Nat
  /\ "absent" \notin Names

VARIABLES
  nsMappings, saMappings,  \* the configured pairs of a local and a remote name
  biMaps,              \* what they become: nsTranslations and saTranslations
  aclPolicy,           \* of the inbound server
  aliased,             \* the namespaces in CustomSearchAttributeAliases
  sent,                \* what the local cluster has, and how it crosses
  parts,               \* what became of it
  whereabouts,         \* "config", "refused", "local", "peer", "back", "denied" or "listed"
  checked,             \* it came back in a call of the peer
  listed               \* the namespaces in a list the peer got

translationVars == <<nsMappings, saMappings, biMaps, aclPolicy, aliased, sent, parts,
                     whereabouts, checked, listed>>

Absent == "absent"
Empty  == "empty"        \* a field that names no namespace

Mappings == UNION {[1..n -> Names \X Names] : n \in 0..MaxMappings}

NamePart(n)     == [kind |-> "name", name |-> n]
FieldsPart(f)   == [kind |-> "fields", fields |-> f]
BlobPart(d, es) == [kind |-> "blob", data |-> d, events |-> es]

(* An event with a namespace field, with a link, or with neither.  The     *)
(* types without the field are the skippable ones.                         *)
NoFields == <<>>
Event(name, link, fields) == [name |-> name, link |-> link, fields |-> fields]
Plain == Event(Absent, Absent, NoFields)

Events ==
  {Event(n, Absent, NoFields) : n \in Names} \cup {Event(Absent, n, NoFields) : n \in Names}
    \cup {Event(Absent, Absent, [k \in {n} |-> {n}]) : n \in Names}

(* The data of a blob is valid, invalid UTF-8 that is repaired, invalid    *)
(* UTF-8 in which the repair finds nothing to do, or not to be read.       *)
BlobData == {"valid", "repairable", "unrepaired", "corrupt"}

Blobs ==
  {BlobPart(d, <<e>>) : d \in BlobData, e \in Events}
    \cup {BlobPart("valid", <<Plain, e>>) : e \in Events}

NameParts == {NamePart(n) : n \in Names}

(* What may cross, one or two parts of it.                                 *)
Crossing ==
  {<<p>> : p \in NameParts \cup {NamePart(Empty)} \cup Blobs
                   \cup {FieldsPart([k \in K |-> {k}]) : K \in SUBSET Names}}
    \cup (NameParts \X NameParts)
    \cup ({BlobPart(d, <<Plain>>) : d \in {"unrepaired", "corrupt"}} \X NameParts)
----------------------------------------------------------------------------
(* The partner of x, on the given side of the pairs: the last that was put *)
(* into the map.                                                           *)
Partner(pairs, side, x) ==
  LET i == CHOOSE i \in DOMAIN pairs :
             pairs[i][side] = x /\ \A j \in DOMAIN pairs : j > i => pairs[j][side] # x
  IN  pairs[i][3 - side]

Contents(pairs, side) ==
  [x \in {pairs[i][side] : i \in DOMAIN pairs} |-> Partner(pairs, side, x)]

Repeated(pairs, side) ==
  \E i, j \in DOMAIN pairs : i # j /\ pairs[i][side] = pairs[j][side]

BiMap(pairs) == [contents |-> Contents(pairs, 1), inverse |-> Contents(pairs, 2)]

(* Mutant: only the keys are looked at.                                    *)
KeysOnly(pairs) == IF Repeated(pairs, 1) THEN {} ELSE {BiMap(pairs)}

(* The map, or none if a name is there twice on one side.                  *)
NewStaticBiMap(pairs) ==
  IF Repeated(pairs, 1) \/ Repeated(pairs, 2) THEN {} ELSE {BiMap(pairs)}

(* The translations of requests; those of responses are inverse.           *)
requestMap(server, biMap) == IF server = "outbound" THEN biMap.contents ELSE biMap.inverse
responseMap(server, biMap) == IF server = "outbound" THEN biMap.inverse ELSE biMap.contents
----------------------------------------------------------------------------
createStringMatcher(mapping, name) ==
  IF name \in DOMAIN mapping THEN mapping[name] ELSE name

translateIndexedFields(fields, mapping) ==
  [k \in {createStringMatcher(mapping, o) : o \in DOMAIN fields} |->
     UNION {fields[o] : o \in {p \in DOMAIN fields : createStringMatcher(mapping, p) = k}}]

isSkippableForNamespaceTranslation(events) ==
  \A i \in DOMAIN events : events[i].name = Absent /\ events[i].link = Absent

visitEvents(events, mapping) ==
  IF isSkippableForNamespaceTranslation(events) THEN events
  ELSE [i \in DOMAIN events |->
          [events[i] EXCEPT !.name = createStringMatcher(mapping, @),
                            !.link = createStringMatcher(mapping, @)]]

visitEventFields(events, mapping) ==
  [i \in DOMAIN events |-> [events[i] EXCEPT !.fields = translateIndexedFields(@, mapping)]]

(* A visit stops at the first blob it cannot read.                         *)
Visited(m, i) == \A j \in 1..i : m[j].kind = "blob" => m[j].data # "corrupt"

(* The events are visited and encoded anew.  Where the repair changed      *)
(* nothing there are no events to visit, and the blob passes as it is.     *)
translateOneDataBlob(blob, events) ==
  IF blob.data = "unrepaired" THEN blob
  ELSE [blob EXCEPT !.data = "valid", !.events = events]

visitNamespace(m, mapping) ==
  [i \in DOMAIN m |->
     CASE Visited(m, i) /\ m[i].kind = "name" ->
            [m[i] EXCEPT !.name = createStringMatcher(mapping, @)]
       [] Visited(m, i) /\ m[i].kind = "blob" ->
            translateOneDataBlob(m[i], visitEvents(m[i].events, mapping))
       [] OTHER -> m[i]]

visitSearchAttributes(m, mapping) ==
  [i \in DOMAIN m |->
     CASE Visited(m, i) /\ m[i].kind = "fields" ->
            [m[i] EXCEPT !.fields = translateIndexedFields(@, mapping)]
       [] Visited(m, i) /\ m[i].kind = "blob" ->
            translateOneDataBlob(m[i], visitEventFields(m[i].events, mapping))
       [] OTHER -> m[i]]

(* The two translators, each there if it has a mapping, the second only    *)
(* for the messages that have fields, not their aliases.                   *)
namespaceTranslator(m, mapping) == IF mapping = <<>> THEN m ELSE visitNamespace(m, mapping)

saTranslator(m, service, mapping) ==
  IF mapping = <<>> \/ service = "workflow" THEN m ELSE visitSearchAttributes(m, mapping)

TranslateRequest(server, service, m) ==
  saTranslator(namespaceTranslator(m, requestMap(server, biMaps.ns)),
               service, requestMap(server, biMaps.sa))

TranslateResponse(server, service, m) ==
  saTranslator(namespaceTranslator(m, responseMap(server, biMaps.ns)),
               service, responseMap(server, biMaps.sa))
----------------------------------------------------------------------------
(* TranslationInterceptor.Intercept: the request, and the response,        *)
(* whatever the translators could not read.                                *)
InterceptRequest(server, service, m) ==
  IF sent.disabled THEN m ELSE TranslateRequest(server, service, m)

InterceptResponse(server, service, m) ==
  IF sent.disabled THEN m ELSE TranslateResponse(server, service, m)

(* SendMsg of a stream, but not one between two proxies.  (RecvMsg         *)
(* translates the message before it is received, so nothing of it; those   *)
(* messages have no names.)                                                *)
InterceptStream(server, intraProxy, m) ==
  IF intraProxy THEN m ELSE TranslateResponse(server, "admin", m)

IsAllowed(name) == aclPolicy.namespaces = {} \/ name \in aclPolicy.namespaces

HasEvents(part) == part.kind = "blob" /\ part.data # "unrepaired"

(* The names a visit comes to.                                             *)
NamesAt(part) ==
  CASE part.kind = "name" -> {part.name}
    [] HasEvents(part) ->
         (UNION {{part.events[i].name, part.events[i].link} : i \in DOMAIN part.events}) \ {Absent}
    [] OTHER -> {}

isNamespaceAccessAllowed(m) ==
  \A i \in DOMAIN m : Visited(m, i) /\ \A n \in NamesAt(m[i]) : IsAllowed(n)

(* A method that no list of the policy has: of the workflow service, one   *)
(* of the disallowed ones.                                                 *)
MethodAllowed(service, inList) ==
  inList \/ (service # "workflow" /\ ~aclPolicy.methods)

(* AccessControlInterceptor.Intercept lets a request pass or not, and the  *)
(* visit repairs what it reads.                                            *)
AccessControl(service, inList, m) ==
  IF ~aclPolicy.enabled THEN {m}
  ELSE IF MethodAllowed(service, inList) /\ isNamespaceAccessAllowed(m)
       THEN {visitNamespace(m, <<>>)}
  ELSE {}

(* StreamIntercept: the stream is there.                                   *)
StreamIntercept(inList) == aclPolicy.enabled => MethodAllowed("admin", inList)

(* Mutant: the access control comes first.                                 *)
AccessControlFirst(service, inList, m) ==
  {InterceptRequest("inbound", service, n) : n \in AccessControl(service, inList, m)}

(* makeServerOptions: the interceptors of the inbound server.              *)
InboundRequest(service, inList, m) ==
  AccessControl(service, inList, InterceptRequest("inbound", service, m))

(* The handlers but those below call the same method of the client, with   *)
(* the request as it is, and return its response.  Headers are left out.   *)
workflowServiceProxyServer(m) == m
adminServiceProxyServer(m)    == m
operatorServiceProxyServer(m) == m

Handler(service, m) ==
  CASE service = "workflow" -> workflowServiceProxyServer(m)
    [] service = "admin"    -> adminServiceProxyServer(m)
    [] service = "operator" -> operatorServiceProxyServer(m)
----------------------------------------------------------------------------
NoBiMap == [contents |-> <<>>, inverse |-> <<>>]

(* "disabled" is the header that switches the translation of a call off.   *)
TranslationInit ==
  /\ nsMappings \in Mappings
  /\ saMappings \in Mappings
  /\ biMaps = [ns |-> NoBiMap, sa |-> NoBiMap]
  /\ aclPolicy \in [enabled : BOOLEAN, namespaces : SUBSET Names, methods : BOOLEAN]
  /\ aliased \in SUBSET Names
  /\ sent \in [public : BOOLEAN, disabled : BOOLEAN, parts : Crossing]
  /\ parts = sent.parts
  /\ whereabouts = "config"
  /\ checked = FALSE
  /\ listed = {}

(* The maps of newClusterConnection, which fails if one cannot be built.   *)
BuildTranslations ==
  /\ whereabouts = "config"
  /\ \/ /\ \E ns \in NewStaticBiMap(nsMappings), sa \in NewStaticBiMap(saMappings) :
             biMaps' = [ns |-> ns, sa |-> sa]
        /\ whereabouts' = "local"
     \/ /\ NewStaticBiMap(nsMappings) = {} \/ NewStaticBiMap(saMappings) = {}
        /\ whereabouts' = "refused"
        /\ UNCHANGED biMaps
  /\ UNCHANGED <<nsMappings, saMappings, aclPolicy, aliased, sent, parts, checked, listed>>

(* What has the aliases of search attributes goes by workflow calls.       *)
Services == IF sent.public THEN {"workflow"} ELSE {"admin", "operator"}

(* Streams have no such header: what goes by one is translated both ways.  *)
Streamed == ~sent.public /\ ~sent.disabled

(* A stream's message may go through another proxy first.                  *)
Stream(server) ==
  \E relayed \in BOOLEAN :
    parts' = InterceptStream(server, FALSE,
               IF relayed THEN InterceptStream(server, TRUE, parts) ELSE parts)

CallPeer ==
  /\ whereabouts = "local"
  /\ \/ \E s \in Services : parts' = Handler(s, InterceptRequest("outbound", s, parts))
     \/ \E s \in Services, inList \in BOOLEAN :
          /\ aclPolicy.enabled => MethodAllowed(s, inList)
          /\ parts' = InterceptResponse("inbound", s, Handler(s, parts))
     \/ \E inList \in BOOLEAN : Streamed /\ StreamIntercept(inList) /\ Stream("inbound")
  /\ whereabouts' = "peer"
  /\ UNCHANGED <<nsMappings, saMappings, biMaps, aclPolicy, aliased, sent, checked, listed>>

(* Back, as what the peer returns, or in a call of the peer ...            *)
PeerReturns ==
  /\ whereabouts = "peer"
  /\ \/ \E s \in Services : parts' = InterceptResponse("outbound", s, Handler(s, parts))
     \/ Streamed /\ Stream("outbound")
  /\ whereabouts' = "back"
  /\ UNCHANGED <<nsMappings, saMappings, biMaps, aclPolicy, aliased, sent, checked, listed>>

PeerCalls ==
  /\ whereabouts = "peer"
  /\ \E s \in Services, inList \in BOOLEAN :
       LET passed == InboundRequest(s, inList, parts)
       IN  \/ \E m \in passed : parts' = Handler(s, m) /\ whereabouts' = "back"
           \/ passed = {} /\ whereabouts' = "denied" /\ UNCHANGED parts
  /\ checked' = TRUE
  /\ UNCHANGED <<nsMappings, saMappings, biMaps, aclPolicy, aliased, sent, listed>>
----------------------------------------------------------------------------
(* A list of namespaces is names only.                                     *)
IsList(m) == \A i \in DOMAIN m : m[i].kind = "name" /\ m[i].name # Empty

NamesIn(m) == UNION {NamesAt(m[i]) : i \in DOMAIN m}

PeerName(n) == IF sent.disabled THEN n ELSE createStringMatcher(biMaps.ns.contents, n)

Entry(n, aliases) == [name |-> PeerName(n), aliases |-> aliases]

(* ListNamespaces returns the allowed ones of the local cluster's.         *)
ListNamespaces ==
  /\ whereabouts = "local"
  /\ sent.public
  /\ IsList(parts)
  /\ listed' = {Entry(n, FALSE) : n \in {l \in NamesIn(parts) : aclPolicy.enabled => IsAllowed(l)}}
  /\ whereabouts' = "listed"
  /\ UNCHANGED <<nsMappings, saMappings, biMaps, aclPolicy, aliased, sent, parts, checked>>

(* The tasks of namespaces with configured aliases of search attributes    *)
(* get those.                                                              *)
GetNamespaceReplicationMessages ==
  /\ whereabouts = "local"
  /\ ~sent.public
  /\ IsList(parts)
  /\ listed' = {Entry(n, n \in aliased) : n \in NamesIn(parts)}
  /\ whereabouts' = "listed"
  /\ UNCHANGED <<nsMappings, saMappings, biMaps, aclPolicy, aliased, sent, parts, checked>>

TranslationNext ==
  \/ BuildTranslations \/ CallPeer \/ PeerReturns \/ PeerCalls
  \/ ListNamespaces \/ GetNamespaceReplicationMessages

TranslationSpec == TranslationInit /\ [][TranslationNext]_translationVars
----------------------------------------------------------------------------
(* A name that is not mapped but that another name is mapped to comes back *)
(* as that name.                                                           *)
Unambiguous(biMap, n) == n \in DOMAIN biMap.contents \/ n \notin DOMAIN biMap.inverse

FieldsAt(part) ==
  CASE part.kind = "fields" -> DOMAIN part.fields
    [] HasEvents(part)      -> UNION {DOMAIN part.events[i].fields : i \in DOMAIN part.events}
    [] OTHER                -> {}

Repaired(m) ==
  [i \in DOMAIN m |->
     IF m[i].kind = "blob" /\ m[i].data = "repairable"
     THEN [m[i] EXCEPT !.data = "valid"]
     ELSE m[i]]

(* NewStaticBiMap's "so that values can be easily looked up in either      *)
(* direction", and what the two servers' inverse maps are for: what        *)
(* crossed to the peer and comes back has its namespaces and its search    *)
(* attributes under their local names, none lost, by whatever calls or     *)
(* streams it went, through another proxy or not, and even if a blob in it *)
(* cannot be read.  The one exception: a name that is not mapped, while    *)
(* another is mapped to it.                                                *)
NamesReturn ==
  whereabouts = "back" =>
    \/ ~sent.disabled
       /\ \E i \in DOMAIN sent.parts :
            \/ \E n \in NamesAt(sent.parts[i]) : ~Unambiguous(biMaps.ns, n)
            \/ \E n \in FieldsAt(sent.parts[i]) : ~Unambiguous(biMaps.sa, n)
    \/ Repaired(parts) = Repaired(sent.parts)

(* What is decided by the name of a namespace is decided by its local one: *)
(* a call of the peer that gets to the local cluster names only allowed    *)
(* namespaces, in the blobs too ("a request is allowed or not"), and none  *)
(* of its blobs is one that cannot be read; ListNamespaces is "not         *)
(* returning disallowed namespaces"; and the aliases are those of          *)
(* "namespaces configured with custom search attribute aliases".  The one  *)
(* exception: a blob whose invalid UTF-8 the repair leaves as it is, which *)
(* passes whatever it names.                                               *)
LocalNamesDecide ==
  /\ whereabouts = "back" /\ checked /\ aclPolicy.enabled =>
       \A i \in DOMAIN parts :
         /\ parts[i].kind = "blob" => parts[i].data \in {"valid", "unrepaired"}
         /\ \A n \in NamesAt(parts[i]) : IsAllowed(n)
  /\ \A e \in listed :
       \E n \in NamesIn(sent.parts) :
         /\ e.name = PeerName(n)
         /\ sent.public /\ aclPolicy.enabled => IsAllowed(n)
         /\ e.aliases => n \in aliased
=============================================================================
