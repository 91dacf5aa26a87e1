-------------------------- MODULE Crossing_proofs ---------------------------
(***************************************************************************)
(* Proofs about what crosses a cluster connection: the names a namespace's *)
(* ID resolves to, the payloads that are sealed on the way to the peer and *)
(* opened on the way back, and the names that are translated. Each part    *)
(* has its own inductive invariant and its own specification, as in        *)
(* Lifetime_proofs.                                                        *)
(***************************************************************************)
EXTENDS NamespaceNames, PayloadSealing, NameTranslation, TLAPS

USE SMTT(30)
----------------------------------------------------------------------------
(* NamesTypes: the shape of the state.  No name was given in the future,   *)
(* and nobody has a name that was not given.                               *)
NamesTypes ==
  /\ now \in Nat
  /\ renamedAt \in Seq(Nat)
  /\ \A i \in 1..Current : renamedAt[i] <= now
  /\ names \in [name : 0..Current, expires : Nat]
  /\ caller \in [Callers -> {"idle", "miss", "wait"}]
  /\ answer \in [Callers -> 0..Current]
  /\ call \in {"none", "asked", "read", "back", "cached"}
  /\ callName \in 0..Current
  /\ deadline \in Nat

(* A call is made at deadline - Timeout and given up at deadline; what it  *)
(* read was the name at some time since.                                   *)
CallRecent ==
  /\ call \in {"none", "asked"} => callName = NoName
  /\ call # "none" =>
       /\ now <= deadline /\ deadline <= now + Timeout
       /\ callName \in 1..(Current - 1) => renamedAt[callName + 1] >= deadline - Timeout

(* What is in the cache was the name at some time not longer before it was *)
(* cached than a call may take.                                            *)
EntryRecent ==
  /\ names.expires <= now + TTL
  /\ names.name \in 1..(Current - 1) =>
       renamedAt[names.name + 1] + TTL + Timeout >= names.expires

(* The inductive invariant of the names.                                   *)
NamesInv == NamesTypes /\ CallRecent /\ EntryRecent /\ NameFresh

(* The invariant holds when the cache is empty.                            *)
LEMMA NamesInitInv == NamesInit => NamesInv
<1> SUFFICES ASSUME NamesInit PROVE NamesInv
  BY Zenon
<1> USE NamesAssumption DEF NamesInit, Current, NoName
<1>1. renamedAt \in Seq(Nat) /\ \A i \in 1..Len(renamedAt) : renamedAt[i] = 0
  <2>1. CASE renamedAt = <<>>
    BY <2>1
  <2>2. CASE renamedAt = <<0>>
    BY <2>2
  <2> QED
    BY Zenon, <2>1, <2>2
<1>2. NamesTypes
  BY <1>1 DEF NamesTypes
<1>3. CallRecent /\ EntryRecent /\ NameFresh
  BY <1>1 DEF CallRecent, EntryRecent, NameFresh
<1> QED
  BY Zenon, <1>2, <1>3 DEF NamesInv

(* Every step of a caller, of the call and of the clock preserves it.      *)
LEMMA NamesStepInv ==
  NamesInv /\ [NamesNext]_nameVars => NamesInv'
<1> SUFFICES ASSUME NamesInv, [NamesNext]_nameVars PROVE NamesInv'
  BY Zenon
<1> USE NamesAssumption
    DEF NamesInv, NamesTypes, CallRecent, EntryRecent, NameFresh, Current, NoName
<1>1. names.name \in 0..Current /\ names.expires \in Nat
  BY Zenon DEF NamesTypes
<1> DEFINE Given(i) == renamedAt[i + 1]
<1>2. /\ renamedAt \in Seq(Nat) /\ now \in Nat /\ deadline \in Nat
      /\ TTL \in Nat \ {0} /\ Timeout \in Nat \ {0}
  BY Zenon
<1>3. /\ Len(renamedAt) \in Nat /\ 0 \notin 1..(Len(renamedAt) - 1)
      /\ \A i \in 1..(Len(renamedAt) - 1) : i + 1 \in 1..Len(renamedAt) /\ Given(i) \in Nat
  BY ONLY <1>2
<1>4. ASSUME NEW c \in Callers, LocalName(c) PROVE NamesInv'
  <2>1. UNCHANGED <<now, renamedAt, names, call, callName, deadline>>
    BY Zenon, <1>4 DEF LocalName
  <2>2. CallRecent' /\ EntryRecent'
    BY Zenon, <2>1
  <2>3. CASE cached
    <3>1. answer' = [answer EXCEPT ![c] = names.name] /\ caller' = caller
      BY Zenon, <1>4, <2>3 DEF LocalName
    <3>2. NamesTypes'
      BY Zenon, <1>1, <2>1, <3>1
    <3>3. NameFresh'
      <4> SUFFICES ASSUME NEW e \in Callers, answer'[e] \in 1..(Current - 1)
                   PROVE  now - renamedAt[answer'[e] + 1] < TTL + Timeout
        BY Zenon, <2>1
      <4>1. CASE e = c
        <5>1. answer'[e] = names.name
          BY Zenon, <3>1, <4>1
        <5>2. /\ now \in Nat /\ names.expires \in Nat
              /\ TTL \in Nat /\ Timeout \in Nat
          BY <1>1, Zenon
        <5>3. renamedAt \in Seq(Nat) /\ names.name \in 1..(Len(renamedAt) - 1)
          BY <5>1, Zenon
        <5>4. names.name + 1 \in 1..Len(renamedAt)
          BY ONLY <5>3
        <5>5. renamedAt[names.name + 1] \in Nat
          BY ONLY <5>3, <5>4
        <5>6. /\ renamedAt[names.name + 1] + TTL + Timeout >= names.expires
              /\ now < names.expires
          BY <2>3, <5>3, Zenon DEF cached
        <5>7. now - renamedAt[names.name + 1] < TTL + Timeout
          BY ONLY <5>2, <5>5, <5>6
        <5> QED
          BY ONLY <5>1, <5>7, Zenon
      <4>2. CASE e # c
        BY Zenon, <3>1, <4>2
      <4> QED
        BY Zenon, <4>1, <4>2
    <3> QED
      BY <2>2, <3>2, <3>3, Zenon DEF NamesInv
  <2>4. CASE ~cached
    <3>1. caller' = [caller EXCEPT ![c] = "miss"] /\ answer' = answer
      BY Zenon, <1>4, <2>4 DEF LocalName
    <3>2. NamesTypes'
      <4>1. caller' \in [Callers -> {"idle", "miss", "wait"}]
        BY Zenon, <3>1
      <4> QED
        BY Zenon, <2>1, <3>1, <4>1
    <3>3. NameFresh'
      BY <2>1, <3>1, Zenon
    <3> QED
      BY <2>2, <3>2, <3>3, Zenon DEF NamesInv
  <2> QED
    BY <2>3, <2>4, Zenon
<1>5. ASSUME NEW c \in Callers, Do(c) PROVE NamesInv'
  <2>1. NamesTypes'
    BY <1>5 DEF Do
  <2>2. CallRecent'
    <3>1. CASE call = "none"
      <4>1. deadline' = now + Timeout /\ UNCHANGED <<now, renamedAt, callName>>
        BY Zenon, <1>5, <3>1 DEF Do
      <4>2. callName = 0 /\ now \in Nat /\ Timeout \in Nat
        BY Zenon, <3>1
      <4> QED
        BY <4>1, <4>2
    <3>2. CASE call # "none"
      BY Zenon, <1>5, <3>2 DEF Do
    <3> QED
      BY <3>1, <3>2, Zenon
  <2>3. EntryRecent' /\ NameFresh'
    BY Zenon, <1>5 DEF Do
  <2> QED
    BY <2>1, <2>2, <2>3, Zenon DEF NamesInv
<1>6. CASE Lookup
  BY <1>6 DEF Lookup
<1>7. CASE Describe
  <2>1. /\ call \in {"asked", "read"} /\ call' = "back"
        /\ callName' = callName \/ callName' = 0
        /\ UNCHANGED <<now, renamedAt, names, caller, answer, deadline>>
    BY <1>7, Zenon DEF Describe
  <2>2. NamesTypes'
    BY <2>1
  <2>3. CallRecent'
    <3>1. CASE callName' = callName
      BY Zenon, <2>1, <3>1
    <3>2. CASE callName' = 0
      BY Zenon, <1>3, <2>1, <3>2
    <3> QED
      BY Zenon, <2>1, <3>1, <3>2
  <2>4. EntryRecent' /\ NameFresh'
    BY <2>1, Zenon
  <2> QED
    BY <2>2, <2>3, <2>4, Zenon DEF NamesInv
<1>8. CASE CacheName
  <2>1. /\ call = "back" /\ call' = "cached"
        /\ UNCHANGED <<now, renamedAt, caller, answer, callName, deadline>>
    BY <1>8, Zenon DEF CacheName
  <2>2. CallRecent'
    BY Zenon, <2>1
  <2>3. NameFresh'
    BY <2>1, Zenon
  <2>4. CASE names' = names
    BY Zenon, <2>1, <2>2, <2>3, <2>4
  <2>5. CASE names' = [name |-> callName, expires |-> now + TTL]
    <3>1. names'.name = callName /\ names'.expires = now + TTL
      BY Zenon, <2>5
    <3>2. NamesTypes'
      BY <2>1, <2>5
    <3>3. ASSUME callName \in 1..(Len(renamedAt) - 1) PROVE EntryRecent'
      <4>1. now <= deadline /\ Given(callName) >= deadline - Timeout /\ Given(callName) \in Nat
        BY Zenon, <1>3, <2>1, <3>3
      <4> HIDE DEF Given
      <4>2. Given(callName) + TTL + Timeout >= now + TTL /\ now + TTL <= now + TTL
        BY ONLY <1>2, <4>1
      <4> QED
        BY Zenon, <2>1, <3>1, <4>2 DEF Given
    <3>4. ASSUME callName \notin 1..(Len(renamedAt) - 1) PROVE EntryRecent'
      <4>1. now + TTL <= now + TTL
        BY ONLY <1>2
      <4> QED
        BY Zenon, <2>1, <3>1, <3>4, <4>1
    <3>5. EntryRecent'
      BY Zenon, <3>3, <3>4
    <3> QED
      BY <2>2, <2>3, <3>2, <3>5, Zenon DEF NamesInv
  <2> QED
    BY <1>8, <2>4, <2>5, Zenon DEF CacheName
<1>9. CASE Deliver
  <2>1. /\ call = "cached" /\ call' = "none" /\ callName' = 0 /\ deadline' = 0
        /\ caller' = [c \in Callers |-> IF caller[c] = "wait" THEN "idle" ELSE caller[c]]
        /\ answer' = [c \in Callers |-> IF caller[c] = "wait" THEN callName ELSE answer[c]]
        /\ UNCHANGED <<now, renamedAt, names>>
    BY Zenon, <1>9 DEF Deliver
  <2>2. NamesTypes'
    <3>1. 0 \in Nat /\ 0 \in 0..Len(renamedAt)
      BY ONLY <1>3
    <3>2. caller' \in [Callers -> {"idle", "miss", "wait"}] /\ answer' \in [Callers -> 0..Current]
      BY Zenon, <2>1
    <3> QED
      BY Zenon, <2>1, <3>1, <3>2
  <2>3. CallRecent' /\ EntryRecent'
    BY Zenon, <2>1
  <2>4. NameFresh'
    <3> SUFFICES ASSUME NEW e \in Callers, answer'[e] \in 1..(Len(renamedAt) - 1)
                 PROVE  now - Given(answer'[e]) < TTL + Timeout
      BY Zenon, <2>1
    <3>1. CASE answer'[e] = callName
      <4>1. /\ now <= deadline /\ Given(callName) >= deadline - Timeout
            /\ Given(callName) \in Nat
        BY Zenon, <1>3, <2>1, <3>1
      <4> HIDE DEF Given
      <4>2. now - Given(callName) < TTL + Timeout
        BY ONLY <1>2, <4>1
      <4> QED
        BY Zenon, <3>1, <4>2
    <3>2. CASE answer'[e] = answer[e]
      BY Zenon, <3>2
    <3> QED
      BY Zenon, <2>1, <3>1, <3>2
  <2> QED
    BY Zenon, <2>2, <2>3, <2>4 DEF NamesInv
<1>10. CASE Rename
  <2>1. /\ renamedAt' = Append(renamedAt, now)
        /\ UNCHANGED <<now, names, caller, answer, call, callName, deadline>>
    BY <1>10, Zenon DEF Rename
  <2>2. /\ renamedAt' \in Seq(Nat) /\ Len(renamedAt') = Len(renamedAt) + 1
        /\ \A i \in 1..Len(renamedAt) : renamedAt'[i] = renamedAt[i]
        /\ renamedAt'[Len(renamedAt) + 1] = now
    BY <2>1
  <2>3. NamesTypes'
    BY <2>1, <2>2
  <2>4. CallRecent'
    BY <2>1, <2>2
  <2>5. EntryRecent'
    <3>1. names.expires <= now + TTL
      BY Zenon
    <3>2. CASE names.name \in 1..(Len(renamedAt) - 1)
      <4>1. Given(names.name) + TTL + Timeout >= names.expires
        BY Zenon, <3>2
      <4>2. renamedAt'[names.name + 1] = Given(names.name)
        BY Zenon, <1>3, <2>2, <3>2
      <4> QED
        BY Zenon, <2>1, <3>1, <4>1, <4>2
    <3>3. CASE names.name = Len(renamedAt)
      <4>1. now + TTL + Timeout >= names.expires
        BY ONLY <1>1, <1>2, <3>1
      <4> QED
        BY Zenon, <2>1, <2>2, <3>1, <3>3, <4>1
    <3>4. CASE names.name \notin 1..Len(renamedAt)
      <4>1. Len(renamedAt') - 1 = Len(renamedAt)
        BY ONLY <1>3, <2>2
      <4> QED
        BY Zenon, <2>1, <3>1, <3>4, <4>1
    <3> QED
      <4>1. \/ names.name \in 1..(Len(renamedAt) - 1) \/ names.name = Len(renamedAt)
            \/ names.name \notin 1..Len(renamedAt)
        BY ONLY <1>3
      <4> QED
        BY Zenon, <3>2, <3>3, <3>4, <4>1
  <2>6. NameFresh'
    <3> SUFFICES ASSUME NEW e \in Callers, answer[e] \in 1..Len(renamedAt)
                 PROVE  now - renamedAt'[answer[e] + 1] < TTL + Timeout
      <4>1. Len(renamedAt') - 1 = Len(renamedAt)
        BY ONLY <1>3, <2>2
      <4> QED
        BY Zenon, <2>1, <4>1
    <3>1. CASE answer[e] = Len(renamedAt)
      BY <2>2, <3>1
    <3>2. CASE answer[e] < Len(renamedAt)
      <4>1. answer[e] \in 1..(Len(renamedAt) - 1) /\ answer[e] + 1 \in 1..Len(renamedAt)
        <5>1. answer[e] \in 1..Len(renamedAt)
          BY Zenon
        <5> QED
          BY ONLY <1>3, <3>2, <5>1
      <4>2. now - renamedAt[answer[e] + 1] < TTL + Timeout
        BY <4>1, Zenon
      <4> QED
        BY ONLY <2>2, <4>1, <4>2, Zenon
    <3> QED
      BY <3>1, <3>2
  <2> QED
    BY <2>3, <2>4, <2>5, <2>6, Zenon DEF NamesInv
<1>11. CASE Tick
  BY <1>11 DEF Tick
<1>12. CASE UNCHANGED nameVars
  BY Zenon, <1>12 DEF nameVars
<1> QED
  BY <1>4, <1>5, <1>6, <1>7, <1>8, <1>9, <1>10, <1>11, <1>12, Zenon DEF NamesNext

(* NameFresh holds for every TTL and Timeout and any number of callers: a  *)
(* name that localName gives out was the namespace's less than TTL +       *)
(* Timeout ago.                                                            *)
THEOREM NamesAreFresh == NamesSpec => []NameFresh
<1>1. NamesInv => NameFresh
  BY Zenon DEF NamesInv
<1> QED
  BY <1>1, NamesInitInv, NamesStepInv, PTL DEF NamesSpec

----------------------------------------------------------------------------
(* Both clients seal what goes to the peer, in either direction of a call, *)
(* and open what comes back.                                               *)
LEMMA WorksOut ==
  ASSUME NEW route \in Routes
  PROVE  /\ Works(route, FALSE, "request") = <<"encode", "seal">>
         /\ Works(route, TRUE, "response") = <<"encode", "seal">>
         /\ Works(route, FALSE, "response") = <<"open", "restore">>
         /\ Works(route, TRUE, "request") = <<"open", "restore">>
  BY Zenon DEF Works, Routes, chainUnary, NewEncryptor, NewAdminEncryptor, unary, failures

(* The label of a layer is the peer's name of the namespace.               *)
LEMMA LabelIs ==
  /\ Namespaces = {"mine", "theirs"}
  /\ label("mine") = "theirs" /\ label("theirs") = "mine" /\ label("empty") = "empty"
<1>1. /\ DOMAIN nsTranslations = {"mine", "theirs"}
      /\ nsTranslations["mine"] = "theirs" /\ nsTranslations["theirs"] = "mine"
  BY Zenon DEF nsTranslations
<1>2. "empty" \notin {"mine", "theirs"}
  BY Zenon
<1> QED
  BY Zenon, <1>1, <1>2 DEF label, Namespaces

(* The translations give the local name back for the peer's.               *)
LEMMA LocalNameFound == ASSUME NEW ns \in Namespaces PROVE ToLocal(label(ns)) = ns
<1>1. /\ DOMAIN nsTranslations = {"mine", "theirs"}
      /\ nsTranslations["mine"] = "theirs" /\ nsTranslations["theirs"] = "mine"
  BY Zenon DEF nsTranslations
<1>2. \A n \in DOMAIN nsTranslations : nsTranslations[n] = "theirs" <=> n = "mine"
  BY Zenon, <1>1
<1>3. \A n \in DOMAIN nsTranslations : nsTranslations[n] = "mine" <=> n = "theirs"
  BY Zenon, <1>1
<1>4. ToLocal("theirs") = "mine"
  BY Zenon, <1>1, <1>2 DEF ToLocal
<1>5. ToLocal("mine") = "theirs"
  BY Zenon, <1>1, <1>3 DEF ToLocal
<1> QED
  BY Zenon, <1>4, <1>5, LabelIs

(* The contexts of a call that do not tell the namespace.                  *)
Unknown(context) == context \in {"nothing", "unresolved"}

(* What a call of namespace ns tells of it.                                *)
Told(context, ns) == IF Unknown(context) THEN "empty" ELSE ns

(* The local name a call has, in either direction.                         *)
LEMMA NamedIs ==
  ASSUME NEW route \in Routes, NEW context \in Contexts(route), NEW reverse \in BOOLEAN,
         NEW ns \in Namespaces
  PROVE  NameOf(context, reverse, ns) = IF Unknown(context) THEN "empty" ELSE ns
<1>1. stampAndTranslate(~reverse, IF reverse THEN label(ns) ELSE ns) = ns
  BY Zenon, LocalNameFound DEF stampAndTranslate
<1> QED
  BY Zenon, <1>1 DEF Routes, Contexts, NameOf, Unknown

(* What a call seals with, or opens by.                                    *)
LEMMA BindingIs ==
  ASSUME NEW route \in Routes, NEW context \in Contexts(route), NEW reverse \in BOOLEAN,
         NEW ns \in Namespaces, encryption \in EncryptionConfigs
  PROVE  LET bs == binding(route, context, NameOf(context, reverse, ns))
         IN  /\ bs = {} => encryption.NamespaceBinding = "strict" /\ Unknown(context)
             /\ \A b \in bs :
                  /\ b.label \in {"mine", "theirs", "empty", "replication"}
                  /\ encryption.NamespaceBinding # "off" /\ ~Unknown(context) => b.label = label(ns)
<1> DEFINE name == NameOf(context, reverse, ns)
           bs == binding(route, context, name)
<1>0. name = IF Unknown(context) THEN "empty" ELSE ns
  BY NamedIs, Zenon
<1>9. label(name) \in {"mine", "theirs", "empty"} /\ (~Unknown(context) => label(name) = label(ns))
  BY Zenon, <1>0, LabelIs
<1>10. name # "empty" <=> ~Unknown(context)
  BY Zenon, <1>0, LabelIs
<1> HIDE DEF name
<1>1. CASE route = "payload"
  <2>1. bs = {[label |-> label(name), check |-> TRUE]}
    BY <1>1, Zenon DEF binding, labelBinder, Named
  <2> HIDE DEF bs
  <2>2. bs # {} /\ \A b \in bs : b.label = label(name)
    BY <2>1
  <2> QED
    BY Zenon, <1>9, <2>2 DEF name, bs
<1>2. CASE route # "payload"
  <2>1. \/ /\ encryption.NamespaceBinding # "off" /\ name # "empty"
           /\ bs = {[label |-> label(name), check |-> TRUE]}
        \/ /\ encryption.NamespaceBinding = "strict" /\ Unknown(context) /\ bs = {}
        \/ /\ encryption.NamespaceBinding = "off" \/ Unknown(context)
           /\ bs = {[label |-> "replication", check |-> FALSE]}
    BY Zenon, <1>10, <1>2 DEF binding, namespaceBinder, Named, ByKey, Unknown
  <2> HIDE DEF bs
  <2>3. /\ bs = {} => encryption.NamespaceBinding = "strict" /\ Unknown(context)
        /\ \A b \in bs :
             /\ b.label \in {"mine", "theirs", "empty", "replication"}
             /\ encryption.NamespaceBinding # "off" /\ ~Unknown(context) => b.label = label(ns)
    <3>1. CASE name # "empty" /\ bs = {[label |-> label(name), check |-> TRUE]}
      <4>1. bs # {} /\ \A b \in bs : b.label = label(name)
        BY <3>1
      <4> QED
        BY <1>9, <1>10, <3>1, <4>1, Zenon
    <3>2. CASE encryption.NamespaceBinding = "strict" /\ Unknown(context) /\ bs = {}
      BY Zenon, <3>2
    <3>3. CASE /\ encryption.NamespaceBinding = "off" \/ Unknown(context)
               /\ bs = {[label |-> "replication", check |-> FALSE]}
      <4>1. bs # {} /\ \A b \in bs : b.label = "replication"
        BY <3>3
      <4> QED
        BY <3>3, <4>1, Zenon
    <3> QED
      BY <2>1, <3>1, <3>2, <3>3, Zenon
  <2> QED
    BY <2>3, Zenon DEF name, bs
<1> QED
  BY Zenon, <1>1, <1>2

(* The request of a call that goes to the peer, and the response of one    *)
(* that came from there.                                                   *)
Outwards(reverse, way) ==
  (reverse = FALSE /\ way = "request") \/ (reverse = TRUE /\ way = "response")

(* The response of a call that went to the peer, and the request of one    *)
(* that came from there.                                                   *)
Inwards(reverse, way) ==
  (reverse = FALSE /\ way = "response") \/ (reverse = TRUE /\ way = "request")

(* What a message goes through on its way to the peer.                     *)
LEMMA InterceptOut ==
  ASSUME NEW route \in Routes, NEW context, NEW ns,
         NEW reverse, NEW way, Outwards(reverse, way)
  PROVE  Intercept(route, reverse, way, context, ns) =
           Visit("seal", IF encryption.Failures THEN encodeFailure(message) ELSE message,
                 binding(route, context, NameOf(context, reverse, ns)))
<1> DEFINE bs == binding(route, context, NameOf(context, reverse, ns))
           base == IF encryption.Failures THEN encodeFailure(message) ELSE message
<1>1. Works(route, reverse, way) = <<"encode", "seal">>
  BY WorksOut, Zenon DEF Outwards
<1>2. Visit("encode", message, bs) = {base}
  BY Zenon DEF Visit
<1>3. Intercept(route, reverse, way, context, ns) =
        UNION {Visit("seal", m, bs) : m \in Visit("encode", message, bs)}
  BY <1>1 DEF Intercept
<1>4. UNION {Visit("seal", m, bs) : m \in {base}} = Visit("seal", base, bs)
  <2> DEFINE sealed == Visit("seal", base, bs)
  <2>1. {Visit("seal", m, bs) : m \in {base}} = {sealed}
    <3> HIDE DEF bs, base
    <3> QED
      BY Zenon
  <2> HIDE DEF sealed
  <2>2. UNION {sealed} = sealed
    BY Zenon
  <2> QED
    BY <2>1, <2>2, Zenon DEF sealed
<1> QED
  BY <1>2, <1>3, <1>4, Zenon

(* What a message goes through on its way back.                            *)
LEMMA InterceptIn ==
  ASSUME NEW route \in Routes, NEW context, NEW ns, NEW reverse, NEW way, Inwards(reverse, way)
  PROVE  Intercept(route, reverse, way, context, ns) =
           {restoreFailure(m) :
              m \in VisitPayload(message, "open",
                                 binding(route, context, NameOf(context, reverse, ns)))}
<1> DEFINE bs == binding(route, context, NameOf(context, reverse, ns))
           open == VisitPayload(message, "open", bs)
<1>1. Works(route, reverse, way) = <<"open", "restore">>
  BY WorksOut, Zenon DEF Inwards
<1>2. Visit("open", message, bs) = open
  BY Zenon DEF Visit
<1>3. Intercept(route, reverse, way, context, ns) =
        UNION {Visit("restore", m, bs) : m \in Visit("open", message, bs)}
  BY <1>1 DEF Intercept
<1>4. \A m : Visit("restore", m, bs) = {restoreFailure(m)}
  BY Zenon DEF Visit
<1> HIDE DEF bs, open
<1>5. UNION {Visit("restore", m, bs) : m \in open} = {restoreFailure(m) : m \in open}
  <2>1. \A x : x \in UNION {Visit("restore", m, bs) : m \in open}
                 <=> \E m \in open : x \in Visit("restore", m, bs)
    BY ONLY Zenon
  <2>2. \A x, m : x \in Visit("restore", m, bs) <=> x = restoreFailure(m)
    BY ONLY <1>4, Zenon
  <2> QED
    BY ONLY <2>1, <2>2, Zenon
<1> QED
  BY <1>2, <1>3, <1>5, Zenon DEF bs, open

(* A payload, field by field.                                              *)
Pay(e, marked, seals) == [encoding |-> e, marked |-> marked, seals |-> seals]
(* A message, field by field.                                              *)
Msg(k, t, ps) == [kind |-> k, text |-> t, payloads |-> ps]

(* Sealing a payload nobody has sealed gives it one layer.                 *)
LEMMA SealPayload ==
  ASSUME NEW k, NEW t, NEW e, NEW marked, NEW bs, e # "listed", encryption.Enabled, k # "opaque",
         NEW m \in Visit("seal", Msg(k, t, <<Pay(e, marked, <<>>)>>), bs)
  PROVE  \E b \in bs : m = Msg(k, t, <<Pay(e, marked, <<VaultSeal(b)>>)>>)
<1> DEFINE p == Pay(e, marked, <<>>)
           n == Msg(k, t, <<p>>)
<1>1. n.kind = k /\ n.payloads = <<p>> /\ <<p>> # <<>> /\ <<p>>[1] = p /\ n.payloads[1] = p
  BY Zenon DEF Msg
<1>2. ~alreadySealed(p)
  BY Zenon DEF alreadySealed, isSealed, Pay
<1>3. Visit("seal", n, bs) = VisitPayload(n, "seal", bs)
  BY <1>1, Zenon DEF Visit
<1>4. VisitPayload(n, "seal", bs) = {[n EXCEPT !.payloads = <<q>>] : q \in Encrypt(p, bs)}
  BY <1>1, <1>2, Zenon DEF VisitPayload, sealUnlessSealed
<1>5. PICK q \in Encrypt(p, bs) : m = [n EXCEPT !.payloads = <<q>>]
  BY <1>3, <1>4, Zenon
<1>6. PICK b \in bs : q = [p EXCEPT !.seals = <<VaultSeal(b)>> \o @]
  BY <1>5, Zenon DEF Encrypt
<1>7. q = Pay(e, marked, <<VaultSeal(b)>>)
  BY <1>6 DEF Pay
<1>8. m = Msg(k, t, <<q>>)
  BY Zenon, <1>5 DEF Msg
<1> QED
  BY Zenon, <1>7, <1>8

(* The other payloads are left as they are.                                *)
LEMMA SealNothing ==
  ASSUME NEW k, NEW t, NEW ps, NEW bs, k # "opaque",
         \/ ~encryption.Enabled
         \/ ps = <<>>
         \/ \E e, marked : ps = <<Pay(e, marked, <<"theirs">>)>>
         \/ \E marked : ps = <<Pay("listed", marked, <<>>)>>
  PROVE  Visit("seal", Msg(k, t, ps), bs) = {Msg(k, t, ps)}
<1> DEFINE n == Msg(k, t, ps)
<1>1. n.kind = k /\ n.payloads = ps
  BY Zenon DEF Msg
<1>2. CASE ~encryption.Enabled
  BY <1>2, Zenon DEF Visit
<1>3. CASE encryption.Enabled
  <2>1. Visit("seal", n, bs) = VisitPayload(n, "seal", bs)
    BY <1>1, <1>3, Zenon DEF Visit
  <2>2. CASE ps = <<>>
    BY <1>1, <2>1, <2>2, Zenon DEF VisitPayload
  <2>3. ASSUME NEW q, ps = <<q>>, alreadySealed(q) PROVE Visit("seal", n, bs) = {n}
    <3>1. ps # <<>> /\ ps[1] = q
      BY Zenon, <2>3
    <3>2. VisitPayload(n, "seal", bs) = {[n EXCEPT !.payloads = <<r>>] : r \in {q}}
      BY <1>1, <2>3, <3>1, Zenon DEF VisitPayload, sealUnlessSealed
    <3>3. [n EXCEPT !.payloads = <<q>>] = n
      BY <2>3 DEF Msg
    <3> HIDE DEF n
    <3>4. {[n EXCEPT !.payloads = <<r>>] : r \in {q}} = {n}
      BY <3>3, Zenon
    <3> QED
      BY <2>1, <3>2, <3>4, Zenon
  <2>4. \A e, marked : alreadySealed(Pay(e, marked, <<"theirs">>))
    BY Zenon DEF alreadySealed, isSealed, Pay
  <2>5. \A marked : alreadySealed(Pay("listed", marked, <<>>))
    BY Zenon DEF alreadySealed, isSealed, Pay
  <2> QED
    BY <1>3, <2>2, <2>3, <2>4, <2>5, Zenon
<1> QED
  BY Zenon, <1>2, <1>3

(* Opening takes a layer off, where the vault lets it.                     *)
LEMMA OpenPayload ==
  ASSUME NEW k, NEW t, NEW e, NEW marked, NEW x, NEW bs
  PROVE  LET open == VisitPayload(Msg(k, t, <<Pay(e, marked, <<x>>)>>), "open", bs)
         IN  /\ \A m \in open : m = Msg(k, t, <<Pay(e, marked, <<>>)>>)
             /\ open = {} => \A b \in bs : ~VaultOpens(b, x)
<1> DEFINE p == Pay(e, marked, <<x>>)
           n == Msg(k, t, <<p>>)
           open == VisitPayload(n, "open", bs)
<1>1. n.payloads = <<p>> /\ <<p>> # <<>> /\ <<p>>[1] = p /\ n.payloads[1] = p
  BY Zenon DEF Msg
<1>2. isSealed(p) /\ Head(p.seals) = x
  BY DEF isSealed, Pay
<1>3. open = {[n EXCEPT !.payloads = <<q>>] : q \in Decrypt(p, bs)}
  BY <1>1, <1>2, Zenon DEF VisitPayload, Decode
<1>4. Decrypt(p, bs) = {[p EXCEPT !.seals = Tail(@)] : b \in {c \in bs : VaultOpens(c, x)}}
  BY <1>2, Zenon DEF Decrypt
<1>5. [p EXCEPT !.seals = Tail(@)] = Pay(e, marked, <<>>)
  BY DEF Pay
<1>6. \A q : [n EXCEPT !.payloads = <<q>>] = Msg(k, t, <<q>>)
  BY DEF Msg
<1> HIDE DEF n, p, open
<1>7. ASSUME NEW m \in open PROVE m = Msg(k, t, <<Pay(e, marked, <<>>)>>)
  <2>1. PICK q \in Decrypt(p, bs) : m = [n EXCEPT !.payloads = <<q>>]
    BY <1>3, Zenon
  <2>2. q = Pay(e, marked, <<>>)
    BY <1>4, <1>5, Zenon
  <2> QED
    BY <1>6, <2>1, <2>2, Zenon
<1>8. ASSUME NEW b \in bs, VaultOpens(b, x) PROVE open # {}
  <2>1. Pay(e, marked, <<>>) \in Decrypt(p, bs)
    BY <1>4, <1>5, <1>8, Zenon
  <2>2. [n EXCEPT !.payloads = <<Pay(e, marked, <<>>)>>] \in open
    BY <1>3, <2>1, Zenon
  <2> QED
    BY <2>2, Zenon
<1> QED
  BY <1>7, <1>8, Zenon DEF open, n, p

(* What has no layer is left as it is.                                     *)
LEMMA OpenNothing ==
  ASSUME NEW k, NEW t, NEW ps, NEW bs, ps = <<>> \/ \E e, marked : ps = <<Pay(e, marked, <<>>)>>
  PROVE  VisitPayload(Msg(k, t, ps), "open", bs) = {Msg(k, t, ps)}
<1> DEFINE n == Msg(k, t, ps)
<1>1. n.payloads = ps
  BY Zenon DEF Msg
<1>2. CASE ps = <<>>
  BY <1>1, <1>2, Zenon DEF VisitPayload
<1>3. ASSUME NEW e, NEW marked, ps = <<Pay(e, marked, <<>>)>>
      PROVE  VisitPayload(n, "open", bs) = {n}
  <2> DEFINE q == Pay(e, marked, <<>>)
  <2>1. ps # <<>> /\ ps[1] = q /\ ~isSealed(q)
    BY Zenon, <1>3 DEF isSealed, Pay
  <2>2. VisitPayload(n, "open", bs) = {[n EXCEPT !.payloads = <<r>>] : r \in {q}}
    BY <1>1, <2>1, Zenon DEF VisitPayload, Decode
  <2>3. [n EXCEPT !.payloads = <<q>>] = n
    BY <1>3 DEF Msg
  <2> HIDE DEF n, q
  <2>4. {[n EXCEPT !.payloads = <<r>>] : r \in {q}} = {n}
    BY <2>3, Zenon
  <2> QED
    BY <2>2, <2>4, Zenon
<1> QED
  BY <1>2, <1>3, Zenon

(* Opened takes all layers off.                                            *)
LEMMA OpenedIs ==
  ASSUME NEW k, NEW t
  PROVE  /\ Opened(Msg(k, t, <<>>)) = Msg(k, t, <<>>)
         /\ \A e, marked, seals :
              Opened(Msg(k, t, <<Pay(e, marked, seals)>>)) = Msg(k, t, <<Pay(e, marked, <<>>)>>)
<1>1. ASSUME NEW ps
      PROVE  Opened(Msg(k, t, ps)) = Msg(k, t, [i \in DOMAIN ps |-> [ps[i] EXCEPT !.seals = <<>>]])
  BY DEF Opened, Msg
<1>2. [i \in DOMAIN <<>> |-> [<<>>[i] EXCEPT !.seals = <<>>]] = <<>>
  OBVIOUS
<1>3. ASSUME NEW p PROVE [i \in DOMAIN <<p>> |-> [<<p>>[i] EXCEPT !.seals = <<>>]]
                           = <<[p EXCEPT !.seals = <<>>]>>
  OBVIOUS
<1>4. ASSUME NEW e, NEW marked, NEW seals
      PROVE  Opened(Msg(k, t, <<Pay(e, marked, seals)>>)) = Msg(k, t, <<Pay(e, marked, <<>>)>>)
  <2> DEFINE p == Pay(e, marked, seals)
  <2>1. [p EXCEPT !.seals = <<>>] = Pay(e, marked, <<>>)
    BY DEF Pay
  <2> HIDE DEF p
  <2>2. Opened(Msg(k, t, <<p>>)) = Msg(k, t, <<[p EXCEPT !.seals = <<>>]>>)
    BY <1>1, <1>3, Zenon
  <2> QED
    BY <2>1, <2>2, Zenon DEF p
<1>5. Opened(Msg(k, t, <<>>)) = Msg(k, t, <<>>)
  BY <1>1, <1>2, Zenon
<1> QED
  BY <1>4, <1>5, Zenon

(* restoreFailure restores the text of a failure from the payload the      *)
(* proxy marked, and changes nothing else.                                 *)
LEMMA RestoreIs ==
  /\ \A k, t, ps : k # "failure" => restoreFailure(Msg(k, t, ps)) = Msg(k, t, ps)
  /\ \A k, t : restoreFailure(Msg(k, t, <<>>)) = Msg(k, t, <<>>)
  /\ \A t : restoreFailure(Msg("failure", t, <<Pay("json/plain", TRUE, <<>>)>>))
              = Msg("failure", "own", <<>>)
  /\ \A k, t, e : restoreFailure(Msg(k, t, <<Pay(e, FALSE, <<>>)>>))
       = Msg(k, t, <<Pay(e, FALSE, <<>>)>>)
<1>1. ASSUME NEW k, NEW t, NEW ps, k # "failure" \/ ps = <<>>
      PROVE  restoreFailure(Msg(k, t, ps)) = Msg(k, t, ps)
  <2> DEFINE n == Msg(k, t, ps)
  <2>1. n.kind = k /\ n.payloads = ps
    BY Zenon DEF Msg
  <2> HIDE DEF n
  <2>2. restoreFailure(n) = n
    BY <1>1, <2>1, Zenon DEF restoreFailure
  <2> QED
    BY <2>2, Zenon DEF n
<1>2. ASSUME NEW k, NEW t, NEW e, NEW marked
      PROVE  restoreFailure(Msg(k, t, <<Pay(e, marked, <<>>)>>)) =
               IF k = "failure" /\ marked /\ e = "json/plain" THEN Msg("failure", "own", <<>>)
               ELSE Msg(k, t, <<Pay(e, marked, <<>>)>>)
  <2> DEFINE p == Pay(e, marked, <<>>)
             n == Msg(k, t, <<p>>)
  <2>1. n.kind = k /\ n.payloads # <<>> /\ n.payloads[1] = p
    BY Zenon DEF Msg
  <2>2. ~isSealed(p) /\ p.marked = marked /\ p.encoding = e
    BY Zenon DEF Pay, isSealed
  <2> HIDE DEF n, p
  <2>3. restoreFailure(n) = IF k = "failure" /\ marked /\ e = "json/plain"
                            THEN FailureMessage("own", <<>>) ELSE n
    BY <2>1, <2>2, Zenon DEF restoreFailure
  <2> QED
    BY <2>3, Zenon DEF n, p, FailureMessage, Msg
<1>3. ASSUME NEW t
      PROVE  restoreFailure(Msg("failure", t, <<Pay("json/plain", TRUE, <<>>)>>))
               = Msg("failure", "own", <<>>)
  BY <1>2, Zenon
<1>4. ASSUME NEW k, NEW t, NEW e
      PROVE  restoreFailure(Msg(k, t, <<Pay(e, FALSE, <<>>)>>)) = Msg(k, t, <<Pay(e, FALSE, <<>>)>>)
  BY <1>2, Zenon
<1> QED
  BY <1>1, <1>3, <1>4, Zenon

(* encodeFailure puts the text of a failure into a marked payload, unless  *)
(* the failure has a payload already.                                      *)
LEMMA EncodeIs ==
  /\ \A k, t, ps : k # "failure" => encodeFailure(Msg(k, t, ps)) = Msg(k, t, ps)
  /\ \A k, t, p : encodeFailure(Msg(k, t, <<p>>)) = Msg(k, t, <<p>>)
  /\ encodeFailure(Msg("failure", "own", <<>>))
       = Msg("failure", "placeholder", <<Pay("json/plain", TRUE, <<>>)>>)
<1>1. ASSUME NEW k, NEW t, NEW ps, k # "failure" \/ ps # <<>>
      PROVE  encodeFailure(Msg(k, t, ps)) = Msg(k, t, ps)
  <2> DEFINE n == Msg(k, t, ps)
  <2>1. n.kind = k /\ n.payloads = ps
    BY Zenon DEF Msg
  <2> HIDE DEF n
  <2>2. encodeFailure(n) = n
    BY <1>1, <2>1, Zenon DEF encodeFailure
  <2> QED
    BY <2>2, Zenon DEF n
<1>2. \A p : <<p>> # <<>>
  BY Zenon
<1>3. encodeFailure(Msg("failure", "own", <<>>))
        = FailureMessage("placeholder", <<Payload("json/plain", TRUE)>>)
  <2> DEFINE n == Msg("failure", "own", <<>>)
  <2>1. n.kind = "failure" /\ n.payloads = <<>>
    BY Zenon DEF Msg
  <2> HIDE DEF n
  <2>2. encodeFailure(n) = FailureMessage("placeholder", <<Payload("json/plain", TRUE)>>)
    BY <2>1, Zenon DEF encodeFailure
  <2> QED
    BY <2>2, Zenon DEF n
<1>4. FailureMessage("placeholder", <<Payload("json/plain", TRUE)>>)
        = Msg("failure", "placeholder", <<Pay("json/plain", TRUE, <<>>)>>)
  BY Zenon DEF FailureMessage, Payload, Msg, Pay
<1> QED
  BY <1>1, <1>2, <1>3, <1>4, Zenon

(* What a layer that was sealed in the first crossing is bound to: to the  *)
(* namespace, if only one was named so far.                                *)
BoundTo(x) ==
  sealedBy.NamespaceBinding # "off" =>
    x # "unbound" /\ \A ns \in Namespaces : named \subseteq {ns} => x = label(ns)

(* What the peer sealed before is sealed for "mine".                       *)
SealedForMine ==
  original = Msg("payload", "none", <<Pay("json/plain", FALSE, <<"theirs">>)>>) => "mine" \in named

(* The layers of a payload that had none in the original.                  *)
Layers(seals) ==
  IF sealedBy.Enabled THEN \E x : seals = <<x>> /\ BoundTo(x) ELSE seals = <<>>

(* What the peer has of the original, for each of them.                    *)
Crossed ==
  \/ /\ original = Msg("opaque", "none", <<>>)
     /\ message = original
     /\ sealedBy.Enabled => sealedBy.AllowOpaquePlaintext
  \/ \E e \in {"json/plain", "lookalike"} : \E seals :
       /\ original = Msg("payload", "none", <<Pay(e, FALSE, <<>>)>>)
       /\ message = Msg("payload", "none", <<Pay(e, FALSE, seals)>>)
       /\ Layers(seals)
  \/ /\ original = Msg("payload", "none", <<Pay("listed", FALSE, <<>>)>>)
     /\ message = original
  \/ /\ original = Msg("payload", "none", <<Pay("json/plain", FALSE, <<"theirs">>)>>)
     /\ message = original
  \/ /\ original = Msg("failure", "own", <<>>)
     /\ ~sealedBy.Failures
     /\ message = original
  \/ /\ original = Msg("failure", "own", <<>>)
     /\ sealedBy.Failures
     /\ \E seals : /\ message = Msg("failure", "placeholder", <<Pay("json/plain", TRUE, seals)>>)
                   /\ Layers(seals)
  \/ \E seals :
       /\ original = Msg("failure", "placeholder", <<Pay("json/plain", FALSE, <<>>)>>)
       /\ message = Msg("failure", "placeholder", <<Pay("json/plain", FALSE, seals)>>)
       /\ Layers(seals)

(* The inductive invariant of the sealing.                                 *)
SealingInv ==
  /\ encryption \in EncryptionConfigs
  /\ sealedBy \in EncryptionConfigs
  /\ original \in Originals
  /\ SealedForMine
  /\ place = "local" => message = original
  /\ place = "peer" => Crossed
  /\ NothingStranded

(* The originals, one by one.                                              *)
LEMMA OriginalsAre ==
  ASSUME NEW o \in Originals
  PROVE  \/ o = Msg("opaque", "none", <<>>)
         \/ \E e \in {"json/plain", "lookalike"} : o
              = Msg("payload", "none", <<Pay(e, FALSE, <<>>)>>)
         \/ o = Msg("payload", "none", <<Pay("listed", FALSE, <<>>)>>)
         \/ o = Msg("payload", "none", <<Pay("json/plain", FALSE, <<"theirs">>)>>)
         \/ o = Msg("failure", "own", <<>>)
         \/ o = Msg("failure", "placeholder", <<Pay("json/plain", FALSE, <<>>)>>)
<1>1. [Payload("json/plain", FALSE) EXCEPT !.seals = <<"theirs">>]
        = Pay("json/plain", FALSE, <<"theirs">>)
  <2>1. ASSUME NEW e, NEW marked
        PROVE  [Payload(e, marked) EXCEPT !.seals = <<"theirs">>] = Pay(e, marked, <<"theirs">>)
    BY DEF Payload, Pay
  <2> QED
    BY <2>1, Zenon
<1>2. \A e : Payload(e, FALSE) = Pay(e, FALSE, <<>>)
  BY Zenon DEF Payload, Pay
<1>3. /\ \A p : PayloadMessage(p) = Msg("payload", "none", <<p>>)
      /\ \A t, ps : FailureMessage(t, ps) = Msg("failure", t, ps)
      /\ [kind |-> "opaque", text |-> "none", payloads |-> <<>>] = Msg("opaque", "none", <<>>)
  BY Zenon DEF PayloadMessage, FailureMessage, Msg
<1>4. CASE \E e \in {"json/plain", "listed", "lookalike"} : o = PayloadMessage(Payload(e, FALSE))
  BY <1>2, <1>3, <1>4, Zenon
<1>5. CASE o = PayloadMessage([Payload("json/plain", FALSE) EXCEPT !.seals = <<"theirs">>])
  BY <1>1, <1>3, <1>5, Zenon
<1>6. CASE \/ o = FailureMessage("own", <<>>)
           \/ o = FailureMessage("placeholder", <<Payload("json/plain", FALSE)>>)
           \/ o = [kind |-> "opaque", text |-> "none", payloads |-> <<>>]
  BY <1>2, <1>3, <1>6, Zenon
<1> QED
  BY <1>4, <1>5, <1>6, Zenon DEF Originals

(* The invariant holds before the first crossing.                          *)
LEMMA SealingInitInv == SealingInit => SealingInv
<1> SUFFICES ASSUME SealingInit PROVE SealingInv
  BY Zenon
<1>1. ASSUME original = Msg("payload", "none", <<Pay("json/plain", FALSE, <<"theirs">>)>>)
      PROVE  "mine" \in named
  <2>1. original.payloads = <<Pay("json/plain", FALSE, <<"theirs">>)>>
    BY Zenon, <1>1 DEF Msg
  <2>2. /\ 1 \in 1..Len(original.payloads)
        /\ original.payloads[1] = Pay("json/plain", FALSE, <<"theirs">>)
    BY <2>1
  <2>3. Pay("json/plain", FALSE, <<"theirs">>).seals = <<"theirs">>
    BY Zenon DEF Pay
  <2>4. original.payloads[1].seals = <<label("mine")>> /\ "mine" \in Namespaces
    BY Zenon, <2>2, <2>3, LabelIs
  <2> QED
    BY Zenon, <2>2, <2>4 DEF SealingInit
<1> QED
  BY Zenon, <1>1 DEF SealingInit, SealingInv, NothingStranded, SealedForMine

(* In each of its cases Crossed says what PeerHoldsSealed says.            *)
LEMMA SealedAtPeer == SealingInv => PeerHoldsSealed
<1> SUFFICES ASSUME SealingInv, place = "peer", sealedBy.Enabled
             PROVE  /\ \A i \in 1..Len(message.payloads) :
                         LET p == message.payloads[i]
                         IN  IF p.encoding = "listed" THEN p.seals = <<>> ELSE Len(p.seals) = 1
                    /\ sealedBy.Failures => message.text # "own"
                    /\ message.kind = "opaque" => sealedBy.AllowOpaquePlaintext
  BY Zenon DEF PeerHoldsSealed
<1>1. Crossed
  BY Zenon DEF SealingInv
<1>2. \A seals : Layers(seals) => Len(seals) = 1
  BY DEF Layers
<1>3. ASSUME NEW k, NEW t, NEW ps, message = Msg(k, t, ps)
      PROVE  message.kind = k /\ message.text = t /\ message.payloads = ps
  BY Zenon, <1>3 DEF Msg
<1>4. ASSUME NEW k, NEW t, NEW e, NEW marked, NEW seals, message
               = Msg(k, t, <<Pay(e, marked, seals)>>),
             k # "opaque", t # "own", IF e = "listed" THEN seals = <<>> ELSE Len(seals) = 1
      PROVE  /\ \A i \in 1..Len(message.payloads) :
                  LET p == message.payloads[i]
                  IN  IF p.encoding = "listed" THEN p.seals = <<>> ELSE Len(p.seals) = 1
             /\ sealedBy.Failures => message.text # "own"
             /\ message.kind = "opaque" => sealedBy.AllowOpaquePlaintext
  BY <1>3, <1>4 DEF Pay
<1>5. ASSUME NEW k, NEW t, message = Msg(k, t, <<>>),
             t = "own" => ~sealedBy.Failures, k = "opaque" => sealedBy.AllowOpaquePlaintext
      PROVE  /\ \A i \in 1..Len(message.payloads) :
                  LET p == message.payloads[i]
                  IN  IF p.encoding = "listed" THEN p.seals = <<>> ELSE Len(p.seals) = 1
             /\ sealedBy.Failures => message.text # "own"
             /\ message.kind = "opaque" => sealedBy.AllowOpaquePlaintext
  <2>1. message.kind = k /\ message.text = t /\ message.payloads = <<>>
    BY <1>3, <1>5, Zenon
  <2>2. 1..Len(message.payloads) = {}
    BY <2>1
  <2> QED
    BY <1>5, <2>1, <2>2, Zenon
<1>6. Len(<<"theirs">>) = 1
  BY Zenon
<1> QED
  BY <1>1, <1>2, <1>4, <1>5, <1>6, Zenon DEF Crossed

(* A layer is bound to the name the peer has for the namespace, unless the *)
(* call does not name one.                                                 *)
LEMMA SealBinds ==
  ASSUME encryption \in EncryptionConfigs, sealedBy' = encryption,
         NEW route \in Routes, NEW context \in Contexts(route), NEW reverse \in BOOLEAN,
         NEW ns \in Namespaces, named' = named \cup {Told(context, ns)},
         NEW b \in binding(route, context, NameOf(context, reverse, ns)),
         NEW x, x = VaultSeal(b)
  PROVE  BoundTo(x)'
<1>1. /\ b.label \in {"mine", "theirs", "empty", "replication"}
      /\ encryption.NamespaceBinding # "off" /\ ~Unknown(context) => b.label = label(ns)
  BY BindingIs, Zenon
<1>2. encryption.NamespaceBinding # "off" => x = b.label
  BY Zenon DEF VaultSeal
<1>3. encryption.NamespaceBinding # "off" => x # "unbound"
  BY Zenon, <1>1, <1>2
<1>4. ASSUME NEW n \in Namespaces, named' \subseteq {n} PROVE n = ns /\ ~Unknown(context)
  <2>1. Told(context, ns) = n
    BY Zenon, <1>4
  <2>2. n # "empty"
    BY Zenon, LabelIs
  <2> QED
    BY <2>1, <2>2, Zenon DEF Told
<1> QED
  BY <1>1, <1>2, <1>3, <1>4, Zenon DEF BoundTo

(* A layer is refused only if the two crossings disagree about the name.   *)
LEMMA RefusalExplained ==
  ASSUME encryption \in EncryptionConfigs,
         NEW route \in Routes, NEW context \in Contexts(route), NEW reverse \in BOOLEAN,
         NEW ns \in Namespaces, NEW x, BoundTo(x),
         \A b \in binding(route, context, NameOf(context, reverse, ns)) : ~VaultOpens(b, x)
  PROVE  /\ encryption.NamespaceBinding = "strict"
         /\ \/ sealedBy.NamespaceBinding = "off"
            \/ \A n \in Namespaces : named \cup {Told(context, ns)} # {n}
<1> DEFINE bs == binding(route, context, NameOf(context, reverse, ns))
<1>1. /\ bs = {} => encryption.NamespaceBinding = "strict" /\ Unknown(context)
      /\ \A b \in bs :
           encryption.NamespaceBinding # "off" /\ ~Unknown(context) => b.label = label(ns)
  BY BindingIs, Zenon
<1> HIDE DEF bs
<1>2. ASSUME NEW b \in bs
      PROVE  /\ encryption.NamespaceBinding = "strict"
             /\ x = "unbound" \/ x # b.label
  BY Zenon DEF VaultOpens, bs
<1>3. ASSUME NEW n \in Namespaces, named \cup {Told(context, ns)} = {n}
      PROVE  sealedBy.NamespaceBinding = "off"
  <2>1. Told(context, ns) = n /\ named \subseteq {n}
    BY Zenon, <1>3
  <2>2. n # "empty"
    BY Zenon, LabelIs
  <2>3. n = ns /\ ~Unknown(context)
    BY <2>1, <2>2, Zenon DEF Told
  <2>4. PICK b \in bs : TRUE
    BY <1>1, <2>3, Zenon
  <2>5. encryption.NamespaceBinding # "off"
    BY Zenon, <1>2, <2>4
  <2>6. b.label = label(n)
    BY <1>1, <2>3, <2>4, <2>5, Zenon
  <2> QED
    BY <1>2, <2>1, <2>6, Zenon DEF BoundTo
<1> QED
  BY <1>1, <1>2, <1>3, Zenon

(* A message that crosses to the peer becomes one of Crossed.              *)
LEMMA ToPeerInv ==
  ASSUME SealingInv, CrossToPeer PROVE SealingInv'
<1>1. PICK reverse \in BOOLEAN, way \in {"request", "response"} :
        Outwards(reverse, way) /\ Pass(reverse, way, "peer", "unsent")
  BY Zenon DEF CrossToPeer, Outwards
<1>2. PICK route \in Routes : \E context \in Contexts(route), ns \in Namespaces :
        /\ \/ message' \in Intercept(route, reverse, way, context, ns) /\ place' = "peer"
           \/ place' = "unsent"
        /\ named' = named \cup {Told(context, ns)}
  BY <1>1, Zenon DEF Pass, Told, Unknown
<1>3. PICK context \in Contexts(route), ns \in Namespaces :
        /\ \/ message' \in Intercept(route, reverse, way, context, ns) /\ place' = "peer"
           \/ place' = "unsent"
        /\ named' = named \cup {Told(context, ns)}
  BY <1>2, Zenon
<1>4. /\ message = original /\ sealedBy' = encryption /\ encryption' = encryption
      /\ original' = original /\ encryption \in EncryptionConfigs /\ original \in Originals
  BY Zenon DEF CrossToPeer, SealingInv
<1>5. NothingStranded' /\ place' # "local"
  BY Zenon, <1>3 DEF NothingStranded
<1>7. SealedForMine'
  BY Zenon, <1>3, <1>4 DEF SealingInv, SealedForMine
<1>6. ASSUME place' = "peer" PROVE Crossed'
  <2> DEFINE base == IF encryption.Failures THEN encodeFailure(original) ELSE original
             bs   == binding(route, context, NameOf(context, reverse, ns))
  <2>0. message' \in Visit("seal", base, bs)
    BY <1>1, <1>3, <1>4, <1>6, InterceptOut
  <2>1. \A b \in bs : \A x : x = VaultSeal(b) => BoundTo(x)'
    BY <1>3, <1>4, SealBinds, Zenon
  <2> HIDE DEF bs
  <2> HIDE DEF base
  <2> DEFINE GetsLayers(k, t, e, marked) ==
               base = Msg(k, t, <<Pay(e, marked, <<>>)>>) =>
                 \E seals : message' = Msg(k, t, <<Pay(e, marked, seals)>>) /\ Layers(seals)'
  <2>2. ASSUME NEW k, NEW t, NEW marked, NEW e \in {"json/plain", "lookalike"}, k # "opaque"
        PROVE  GetsLayers(k, t, e, marked)
    <3>0. SUFFICES ASSUME base = Msg(k, t, <<Pay(e, marked, <<>>)>>)
                   PROVE  \E seals : message' = Msg(k, t, <<Pay(e, marked, seals)>>)
                            /\ Layers(seals)'
      BY Zenon
    <3>1. CASE encryption.Enabled
      <4>1. PICK b \in bs : message' = Msg(k, t, <<Pay(e, marked, <<VaultSeal(b)>>)>>)
        <5>1. message' \in Visit("seal", Msg(k, t, <<Pay(e, marked, <<>>)>>), bs)
          BY <2>0, <3>0, Zenon
        <5> QED
          BY <2>2, <3>1, <5>1, SealPayload
      <4>2. PICK x : x = VaultSeal(b)
        BY Zenon
      <4>3. Layers(<<x>>)'
        BY <1>4, <2>1, <3>1, <4>2, Zenon DEF Layers
      <4> QED
        BY <4>1, <4>2, <4>3, Zenon
    <3>2. CASE ~encryption.Enabled
      <4>1. message' = Msg(k, t, <<Pay(e, marked, <<>>)>>)
        <5>1. message' \in Visit("seal", Msg(k, t, <<Pay(e, marked, <<>>)>>), bs)
          BY <2>0, <3>0, Zenon
        <5>2. Visit("seal", Msg(k, t, <<Pay(e, marked, <<>>)>>), bs)
                = {Msg(k, t, <<Pay(e, marked, <<>>)>>)}
          BY Zenon, <2>2, <3>2, SealNothing
        <5> QED
          BY <5>1, <5>2, Zenon
      <4>2. Layers(<<>>)'
        BY <1>4, <3>2, Zenon DEF Layers
      <4> QED
        BY <4>1, <4>2, Zenon
    <3> QED
      BY Zenon, <3>1, <3>2
  <2>3. /\ GetsLayers("payload", "none", "json/plain", FALSE)
         /\ GetsLayers("payload", "none", "lookalike", FALSE)
         /\ GetsLayers("failure", "placeholder", "json/plain", TRUE)
         /\ GetsLayers("failure", "placeholder", "json/plain", FALSE)
    <3> HIDE DEF GetsLayers
    <3> QED
      BY ONLY <2>2, Zenon
  <2>4. ASSUME NEW k, NEW t, NEW ps, base = Msg(k, t, ps), k # "opaque",
               \/ ps = <<>>
               \/ \E e, marked : ps = <<Pay(e, marked, <<"theirs">>)>>
               \/ \E marked : ps = <<Pay("listed", marked, <<>>)>>
        PROVE  message' = base
    <3>1. Visit("seal", Msg(k, t, ps), bs) = {Msg(k, t, ps)}
      BY Zenon, <2>4, SealNothing
    <3> QED
      BY <2>0, <2>4, <3>1, Zenon
  <2>5. CASE original = Msg("opaque", "none", <<>>)
    <3>1. base = original
      BY <2>5, EncodeIs, Zenon DEF base
    <3>2. original.kind = "opaque"
      BY Zenon, <2>5 DEF Msg
    <3>3. message' = original /\ (encryption.Enabled => encryption.AllowOpaquePlaintext)
      <4>1. Visit("seal", original, bs) \subseteq {original}
        BY <3>2, Zenon DEF Visit, sealOpaque
      <4>2. encryption.Enabled /\ ~encryption.AllowOpaquePlaintext
              => Visit("seal", original, bs) = {}
        BY <3>2, Zenon DEF Visit, sealOpaque
      <4> QED
        BY <2>0, <3>1, <4>1, <4>2, Zenon
    <3> QED
      BY <1>4, <2>5, <3>3, Zenon DEF Crossed
  <2>6. ASSUME NEW e \in {"json/plain", "lookalike"},
               original = Msg("payload", "none", <<Pay(e, FALSE, <<>>)>>)
        PROVE  Crossed'
    <3>1. base = Msg("payload", "none", <<Pay(e, FALSE, <<>>)>>)
      BY <2>6, EncodeIs, Zenon DEF base
    <3>2. e # "listed" /\ "payload" # "opaque"
      BY Zenon
    <3>3. PICK seals : message' = Msg("payload", "none", <<Pay(e, FALSE, seals)>>) /\ Layers(seals)'
      <4>1. CASE e = "json/plain"
        <5>1. base = Msg("payload", "none", <<Pay("json/plain", FALSE, <<>>)>>)
          BY <3>1, <4>1, Zenon
        <5>2. \E seals : /\ message' = Msg("payload", "none", <<Pay("json/plain", FALSE, seals)>>)
                         /\ Layers(seals)'
          BY ONLY <2>3, <5>1, Zenon
        <5> QED
          BY <4>1, <5>2, Zenon
      <4>2. CASE e = "lookalike"
        <5>1. base = Msg("payload", "none", <<Pay("lookalike", FALSE, <<>>)>>)
          BY <3>1, <4>2, Zenon
        <5>2. \E seals : /\ message' = Msg("payload", "none", <<Pay("lookalike", FALSE, seals)>>)
                         /\ Layers(seals)'
          BY ONLY <2>3, <5>1, Zenon
        <5> QED
          BY <4>2, <5>2, Zenon
      <4> QED
        BY <4>1, <4>2, Zenon
    <3> QED
      BY <1>4, <2>6, <3>3, Zenon DEF Crossed
  <2>7. CASE original = Msg("payload", "none", <<Pay("listed", FALSE, <<>>)>>)
    <3>1. base = original
      BY <2>7, EncodeIs, Zenon DEF base
    <3> QED
      BY <1>4, <2>4, <2>7, <3>1, Zenon DEF Crossed
  <2>8. CASE original = Msg("payload", "none", <<Pay("json/plain", FALSE, <<"theirs">>)>>)
    <3>1. base = original
      BY <2>8, EncodeIs, Zenon DEF base
    <3> QED
      BY <1>4, <2>4, <2>8, <3>1, Zenon DEF Crossed
  <2>9. CASE original = Msg("failure", "own", <<>>)
    <3>1. CASE encryption.Failures
      <4>1. base = Msg("failure", "placeholder", <<Pay("json/plain", TRUE, <<>>)>>)
        BY <2>9, <3>1, EncodeIs, Zenon DEF base
      <4>2. PICK seals :
              /\ message' = Msg("failure", "placeholder", <<Pay("json/plain", TRUE, seals)>>)
              /\ Layers(seals)'
        BY ONLY <2>3, <4>1, Zenon
      <4> QED
        BY <1>4, <2>9, <3>1, <4>2, Zenon DEF Crossed
    <3>2. CASE ~encryption.Failures
      <4>1. base = original
        BY <3>2, Zenon DEF base
      <4>2. message' = original
        BY <2>4, <2>9, <4>1, Zenon
      <4> QED
        BY <1>4, <2>9, <3>2, <4>2, Zenon DEF Crossed
    <3> QED
      BY Zenon, <3>1, <3>2
  <2>10. CASE original = Msg("failure", "placeholder", <<Pay("json/plain", FALSE, <<>>)>>)
    <3>1. base = original
      BY <2>10, EncodeIs, Zenon DEF base
    <3>2. PICK seals :
            /\ message' = Msg("failure", "placeholder", <<Pay("json/plain", FALSE, seals)>>)
            /\ Layers(seals)'
      BY ONLY <2>3, <2>10, <3>1, Zenon
    <3> QED
      BY <1>4, <2>10, <3>2, Zenon DEF Crossed
  <2> QED
    BY <1>4, <2>5, <2>6, <2>7, <2>8, <2>9, <2>10, OriginalsAre, Zenon
<1> QED
  BY <1>4, <1>5, <1>6, <1>7, Zenon DEF SealingInv

(* A payload the proxy did not mark comes back as it was.                  *)
LEMMA PlainReturns ==
  ASSUME NEW k, NEW t, NEW e, NEW seals
  PROVE  /\ restoreFailure(Msg(k, t, <<Pay(e, FALSE, <<>>)>>)) = Msg(k, t, <<Pay(e, FALSE, <<>>)>>)
         /\ Opened(Msg(k, t, <<Pay(e, FALSE, seals)>>)) = Msg(k, t, <<Pay(e, FALSE, <<>>)>>)
<1>1. restoreFailure(Msg(k, t, <<Pay(e, FALSE, <<>>)>>)) = Msg(k, t, <<Pay(e, FALSE, <<>>)>>)
  BY RestoreIs, Zenon
<1>2. Opened(Msg(k, t, <<Pay(e, FALSE, seals)>>)) = Msg(k, t, <<Pay(e, FALSE, <<>>)>>)
  BY OpenedIs, Zenon
<1> QED
  BY Zenon, <1>1, <1>2

(* A message that crosses back is the original, or was refused for a       *)
(* reason NothingStranded allows.                                          *)
LEMMA BackInv ==
  ASSUME SealingInv, CrossBack PROVE SealingInv'
<1>1. PICK reverse \in BOOLEAN, way \in {"request", "response"} :
        Inwards(reverse, way) /\ Pass(reverse, way, "back", "refused")
  BY Zenon DEF CrossBack, Inwards
<1>2. PICK route \in Routes : \E context \in Contexts(route), ns \in Namespaces :
        /\ \/ message' \in Intercept(route, reverse, way, context, ns) /\ place' = "back"
           \/ Intercept(route, reverse, way, context, ns) = {} /\ place' = "refused"
        /\ named' = named \cup {Told(context, ns)}
  BY <1>1, Zenon DEF Pass, Told, Unknown
<1>3. PICK context \in Contexts(route), ns \in Namespaces :
        /\ \/ message' \in Intercept(route, reverse, way, context, ns) /\ place' = "back"
           \/ Intercept(route, reverse, way, context, ns) = {} /\ place' = "refused"
        /\ named' = named \cup {Told(context, ns)}
  BY <1>2, Zenon
<1>4. /\ Crossed /\ sealedBy' = sealedBy /\ encryption' = encryption /\ original' = original
      /\ encryption \in EncryptionConfigs /\ sealedBy \in EncryptionConfigs
      /\ original \in Originals
  BY Zenon DEF CrossBack, SealingInv
<1>13. SealedForMine /\ SealedForMine'
  BY Zenon, <1>3, <1>4 DEF SealingInv, SealedForMine
<1> DEFINE bs == binding(route, context, NameOf(context, reverse, ns))
           open == VisitPayload(message, "open", bs)
<1>5. Intercept(route, reverse, way, context, ns) = {restoreFailure(m) : m \in open}
  BY <1>1, InterceptIn, Zenon
<1>6. ASSUME NEW x, BoundTo(x), \A b \in bs : ~VaultOpens(b, x)
      PROVE  /\ encryption.NamespaceBinding = "strict"
             /\ sealedBy.NamespaceBinding = "off" \/ \A n \in Namespaces : named' # {n}
  BY <1>3, <1>4, <1>6, RefusalExplained, Zenon
<1> DEFINE Explained == open = {} => /\ encryption.NamespaceBinding = "strict"
                                     /\ \/ sealedBy.NamespaceBinding = "off"
                                        \/ \A n \in Namespaces : named' # {n}
<1>7. ASSUME NEW k, NEW t, NEW e, NEW marked, NEW x, BoundTo(x),
             message = Msg(k, t, <<Pay(e, marked, <<x>>)>>)
      PROVE  (\A n \in open : n = Msg(k, t, <<Pay(e, marked, <<>>)>>)) /\ Explained
  <2>1. /\ \A n \in open : n = Msg(k, t, <<Pay(e, marked, <<>>)>>)
        /\ open = {} => \A b \in bs : ~VaultOpens(b, x)
    <3> HIDE DEF bs
    <3>1. message = Msg(k, t, <<Pay(e, marked, <<x>>)>>)
      BY Zenon, <1>7
    <3> QED
      BY Zenon, <3>1, OpenPayload
  <2> QED
    BY <1>6, <1>7, <2>1, Zenon
<1>8. ASSUME NEW k, NEW t, NEW ps, message = Msg(k, t, ps),
             ps = <<>> \/ \E e, marked : ps = <<Pay(e, marked, <<>>)>>
      PROVE  (\A n \in open : n = message) /\ Explained
  <2>1. open = {message}
    <3> HIDE DEF bs
    <3>1. VisitPayload(Msg(k, t, ps), "open", bs) = {Msg(k, t, ps)}
      BY Zenon, <1>8, OpenNothing
    <3> QED
      BY <1>8, <3>1, Zenon
  <2> QED
    BY <2>1, Zenon
<1> HIDE DEF bs, open, Explained
<1>9. ASSUME NEW k, NEW t, NEW e, NEW marked, NEW seals, Layers(seals),
             message = Msg(k, t, <<Pay(e, marked, seals)>>)
      PROVE  (\A n \in open : n = Msg(k, t, <<Pay(e, marked, <<>>)>>)) /\ Explained
  <2>1. CASE sealedBy.Enabled
    <3>1. PICK x : seals = <<x>> /\ BoundTo(x)
      BY <1>9, <2>1, Zenon DEF Layers
    <3>2. message = Msg(k, t, <<Pay(e, marked, <<x>>)>>)
      BY <1>9, <3>1, Zenon
    <3> QED
      BY Zenon, <1>7, <3>1, <3>2
  <2>2. CASE ~sealedBy.Enabled
    <3>1. seals = <<>>
      BY <1>9, <2>2, Zenon DEF Layers
    <3>2. message = Msg(k, t, <<Pay(e, marked, <<>>)>>)
      BY <1>9, <3>1, Zenon
    <3>3. (\A n \in open : n = message) /\ Explained
      BY Zenon, <1>8, <3>2
    <3> QED
      BY <3>2, <3>3, Zenon
  <2> QED
    BY Zenon, <2>1, <2>2
<1>10. (\A n \in open : restoreFailure(n) = Opened(original)) /\ Explained
  <2>1. CASE original = Msg("opaque", "none", <<>>) /\ message = original
    <3>1. (\A n \in open : n = Msg("opaque", "none", <<>>)) /\ Explained
      BY <1>8, <2>1, Zenon
    <3>2. /\ restoreFailure(Msg("opaque", "none", <<>>)) = Msg("opaque", "none", <<>>)
          /\ Opened(original) = Msg("opaque", "none", <<>>)
      BY <2>1, RestoreIs, OpenedIs, Zenon
    <3> QED
      BY <3>1, <3>2, Zenon
  <2>2. ASSUME NEW e \in {"json/plain", "lookalike"}, NEW seals, Layers(seals),
               original = Msg("payload", "none", <<Pay(e, FALSE, <<>>)>>),
               message = Msg("payload", "none", <<Pay(e, FALSE, seals)>>)
        PROVE  (\A n \in open : restoreFailure(n) = Opened(original)) /\ Explained
    <3> DEFINE m == Msg("payload", "none", <<Pay(e, FALSE, <<>>)>>)
    <3>1. (\A n \in open : n = m) /\ Explained
      <4>1. CASE e = "json/plain"
        <5>1. Layers(seals) /\ message = Msg("payload", "none", <<Pay("json/plain", FALSE, seals)>>)
          BY <2>2, <4>1, Zenon
        <5>2. /\ \A n \in open : n = Msg("payload", "none", <<Pay("json/plain", FALSE, <<>>)>>)
              /\ Explained
          BY ONLY <1>9, <5>1, Zenon
        <5> QED
          BY <4>1, <5>2, Zenon
      <4>2. CASE e = "lookalike"
        <5>1. Layers(seals) /\ message = Msg("payload", "none", <<Pay("lookalike", FALSE, seals)>>)
          BY <2>2, <4>2, Zenon
        <5>2. /\ \A n \in open : n = Msg("payload", "none", <<Pay("lookalike", FALSE, <<>>)>>)
              /\ Explained
          BY ONLY <1>9, <5>1, Zenon
        <5> QED
          BY <4>2, <5>2, Zenon
      <4> QED
        BY <4>1, <4>2, Zenon
    <3>2. restoreFailure(m) = m /\ Opened(original) = m
      BY <2>2, PlainReturns, Zenon
    <3> QED
      BY <3>1, <3>2, Zenon
  <2>3. CASE /\ original = Msg("payload", "none", <<Pay("listed", FALSE, <<>>)>>)
             /\ message = original
    <3> DEFINE m == Msg("payload", "none", <<Pay("listed", FALSE, <<>>)>>)
    <3>1. (\A n \in open : n = m) /\ Explained
      BY <1>8, <2>3, Zenon
    <3>2. restoreFailure(m) = m /\ Opened(original) = m
      BY <2>3, PlainReturns, Zenon
    <3> QED
      BY <3>1, <3>2, Zenon
  <2>4. CASE /\ original = Msg("payload", "none", <<Pay("json/plain", FALSE, <<"theirs">>)>>)
             /\ message = original
    <3> DEFINE m == Msg("payload", "none", <<Pay("json/plain", FALSE, <<>>)>>)
    <3>1. BoundTo("theirs")
      <4>1. "theirs" # "unbound"
        BY Zenon
      <4>2. "mine" \in named
        BY <1>13, <2>4, Zenon DEF SealedForMine
      <4>3. \A n \in Namespaces : named \subseteq {n} => label(n) = "theirs"
        BY <4>2, LabelIs, Zenon
      <4> QED
        BY <4>1, <4>3, Zenon DEF BoundTo
    <3>2. (\A n \in open : n = m) /\ Explained
      BY <1>7, <2>4, <3>1, Zenon
    <3>3. restoreFailure(m) = m /\ Opened(original) = m
      BY <2>4, PlainReturns, Zenon
    <3> QED
      BY <3>2, <3>3, Zenon
  <2>5. CASE original = Msg("failure", "own", <<>>) /\ message = original
    <3>1. (\A n \in open : n = Msg("failure", "own", <<>>)) /\ Explained
      BY <1>8, <2>5, Zenon
    <3>2. /\ restoreFailure(Msg("failure", "own", <<>>)) = Msg("failure", "own", <<>>)
          /\ Opened(original) = Msg("failure", "own", <<>>)
      BY <2>5, RestoreIs, OpenedIs, Zenon
    <3> QED
      BY <3>1, <3>2, Zenon
  <2>6. ASSUME NEW seals, Layers(seals), original = Msg("failure", "own", <<>>),
               message = Msg("failure", "placeholder", <<Pay("json/plain", TRUE, seals)>>)
        PROVE  (\A n \in open : restoreFailure(n) = Opened(original)) /\ Explained
    <3> DEFINE m == Msg("failure", "placeholder", <<Pay("json/plain", TRUE, <<>>)>>)
    <3>1. (\A n \in open : n = m) /\ Explained
      BY <1>9, <2>6, Zenon
    <3>2. restoreFailure(m) = Msg("failure", "own", <<>>)
            /\ Opened(original) = Msg("failure", "own", <<>>)
      BY <2>6, RestoreIs, OpenedIs, Zenon
    <3> QED
      BY <3>1, <3>2, Zenon
  <2>7. ASSUME NEW seals, Layers(seals),
               original = Msg("failure", "placeholder", <<Pay("json/plain", FALSE, <<>>)>>),
               message = Msg("failure", "placeholder", <<Pay("json/plain", FALSE, seals)>>)
        PROVE  (\A n \in open : restoreFailure(n) = Opened(original)) /\ Explained
    <3> DEFINE m == Msg("failure", "placeholder", <<Pay("json/plain", FALSE, <<>>)>>)
    <3>1. (\A n \in open : n = m) /\ Explained
      BY <1>9, <2>7, Zenon
    <3>2. restoreFailure(m) = m /\ Opened(original) = m
      BY <2>7, PlainReturns, Zenon
    <3> QED
      BY <3>1, <3>2, Zenon
  <2> QED
    BY <1>4, <2>1, <2>2, <2>3, <2>4, <2>5, <2>6, <2>7, Zenon DEF Crossed
<1>11. CASE message' \in {restoreFailure(m) : m \in open} /\ place' = "back"
  <2>1. message' = Opened(original)
    BY <1>10, <1>11, Zenon
  <2>2. Opened(original)' = Opened(original)
    BY <1>4, Zenon DEF Opened
  <2>3. place' # "refused" /\ place' # "local" /\ place' # "peer"
    BY Zenon, <1>11
  <2> QED
    BY <1>4, <1>13, <2>1, <2>2, <2>3, Zenon DEF SealingInv, NothingStranded
<1>12. CASE {restoreFailure(m) : m \in open} = {} /\ place' = "refused"
  <2>1. open = {}
    BY <1>12, Zenon
  <2>2. /\ encryption.NamespaceBinding = "strict"
        /\ sealedBy.NamespaceBinding = "off" \/ \A n \in Namespaces : named' # {n}
    BY <1>10, <2>1, Zenon DEF Explained
  <2>3. place' # "back" /\ place' # "local" /\ place' # "peer"
    BY Zenon, <1>12
  <2> QED
    BY <1>4, <1>13, <2>2, <2>3, Zenon DEF SealingInv, NothingStranded
<1> QED
  BY <1>3, <1>5, <1>11, <1>12, Zenon

(* Every step of the sealing preserves the invariant.                      *)
LEMMA SealingStepInv == SealingInv /\ [SealingNext]_sealingVars => SealingInv'
<1> SUFFICES ASSUME SealingInv, [SealingNext]_sealingVars PROVE SealingInv'
  BY Zenon
<1>1. CASE CrossToPeer
  BY Zenon, <1>1, ToPeerInv
<1>2. CASE CrossBack
  BY Zenon, <1>2, BackInv
<1>3. ASSUME UNCHANGED <<original, message, place, sealedBy, named>>,
             encryption' \in EncryptionConfigs, place = "peer" \/ encryption' = encryption
      PROVE  SealingInv'
  <2>1. /\ original' = original /\ message' = message /\ place' = place /\ sealedBy' = sealedBy
        /\ named' = named
    BY <1>3, Zenon
  <2>2. Crossed => Crossed'
    <3>1. \A x : BoundTo(x) => BoundTo(x)'
      BY <2>1, Zenon DEF BoundTo
    <3>2. \A seals : Layers(seals) => Layers(seals)'
      BY <2>1, <3>1, Zenon DEF Layers
    <3> QED
      BY <2>1, <3>2, Zenon DEF Crossed
  <2>3. NothingStranded'
    <3>1. Opened(original)' = Opened(original)
      BY <2>1, Zenon DEF Opened
    <3>2. "peer" # "back" /\ "peer" # "refused"
      BY Zenon
    <3>3. place = "refused" => encryption' = encryption
      BY <1>3, <3>2, Zenon
    <3>4. NothingStranded
      BY Zenon DEF SealingInv
    <3> QED
      BY <2>1, <3>1, <3>3, <3>4, Zenon DEF NothingStranded
  <2>4. SealedForMine'
    BY <2>1, Zenon DEF SealingInv, SealedForMine
  <2> QED
    BY <1>3, <2>1, <2>2, <2>3, <2>4, Zenon DEF SealingInv
<1>4. CASE NewEncryptors
  BY <1>3, <1>4, Zenon DEF NewEncryptors
<1>5. CASE UNCHANGED sealingVars
  BY <1>3, <1>5, Zenon DEF sealingVars, SealingInv
<1> QED
  BY <1>1, <1>2, <1>4, <1>5, Zenon DEF SealingNext

(* PeerHoldsSealed holds for every configuration, every call and any       *)
(* number of restarts with another one.                                    *)
THEOREM SealedOnce == SealingSpec => []PeerHoldsSealed
BY SealingInitInv, SealingStepInv, SealedAtPeer, PTL DEF SealingSpec

(* NothingStranded holds: whatever crossed comes back as it was, unless    *)
(* the vault, told to be strict, refuses what was sealed unbound or what   *)
(* the two calls named no namespace for, or not the same one.              *)
THEOREM NoneStranded == SealingSpec => []NothingStranded
<1>1. SealingInv => NothingStranded
  BY Zenon DEF SealingInv
<1> QED
  BY <1>1, SealingInitInv, SealingStepInv, PTL DEF SealingSpec

----------------------------------------------------------------------------
(* A renaming is a function on what may stand in the place of a name.      *)
NameLike == Names \cup {Absent, Empty}

(* Where there is no name there is none afterwards.                        *)
Renamings == {F \in [NameLike -> NameLike] : F[Absent] = Absent}

(* The renaming of a translator that is not there.                         *)
NoRenaming == [x \in NameLike |-> x]

(* The renaming a map of names stands for.                                 *)
ByMapping(mapping) == [x \in NameLike |-> createStringMatcher(mapping, x)]

(* One renaming after another.                                             *)
Then(F, G) == [x \in NameLike |-> G[F[x]]]

(* A map of names to names.                                                *)
IsMapping(mapping) ==
  DOMAIN mapping \subseteq Names /\ \A x \in DOMAIN mapping : mapping[x] \in Names

(* Renamings are closed under what the proxy does with them.               *)
LEMMA RenamingsAre ==
  /\ NoRenaming \in Renamings
  /\ \A mapping : IsMapping(mapping) => ByMapping(mapping) \in Renamings
  /\ \A F, G \in Renamings : Then(F, G) \in Renamings
<1>0. Names \subseteq NameLike /\ Absent \in NameLike /\ Absent \notin Names
  BY Zenon, TranslationAssumption DEF NameLike, Absent
<1>1. NoRenaming \in Renamings
  BY Zenon, <1>0 DEF NoRenaming, Renamings
<1>2. ASSUME NEW mapping, IsMapping(mapping) PROVE ByMapping(mapping) \in Renamings
  BY Zenon, <1>0, <1>2 DEF ByMapping, Renamings, IsMapping, createStringMatcher
<1>3. ASSUME NEW F \in Renamings, NEW G \in Renamings PROVE Then(F, G) \in Renamings
  BY Zenon, <1>0 DEF Renamings, Then
<1> QED
  BY Zenon, <1>1, <1>2, <1>3

(* The indexed fields, renamed.                                            *)
IsFields(f) == DOMAIN f \subseteq NameLike /\ f = [k \in DOMAIN f |-> f[k]]

(* Fields that get the same name are merged.                               *)
FieldsRenamed(f, G) ==
  [k \in {G[o] : o \in DOMAIN f} |-> UNION {f[o] : o \in {p \in DOMAIN f : G[p] = k}}]

(* translateIndexedFields renames the fields by its map.                   *)
LEMMA RenameByMapping ==
  ASSUME NEW f, IsFields(f), NEW mapping
  PROVE  translateIndexedFields(f, mapping) = FieldsRenamed(f, ByMapping(mapping))
<1>1. \A o \in DOMAIN f : ByMapping(mapping)[o] = createStringMatcher(mapping, o)
  BY Zenon DEF ByMapping, IsFields, NameLike
<1>2. {createStringMatcher(mapping, o) : o \in DOMAIN f} = {ByMapping(mapping)[o] : o \in DOMAIN f}
  BY Zenon, <1>1
<1>3. \A k : {p \in DOMAIN f : createStringMatcher(mapping, p) = k}
               = {p \in DOMAIN f : ByMapping(mapping)[p] = k}
  BY Zenon, <1>1
<1> QED
  BY <1>2, <1>3, Zenon DEF translateIndexedFields, FieldsRenamed

(* A renaming that keeps the names of the fields keeps the fields.         *)
LEMMA RenameFixed ==
  ASSUME NEW f, IsFields(f), NEW G, \A k \in DOMAIN f : G[k] = k
  PROVE  FieldsRenamed(f, G) = f
<1>1. {G[o] : o \in DOMAIN f} = DOMAIN f
  BY Zenon
<1>2. ASSUME NEW k \in DOMAIN f
      PROVE  UNION {f[o] : o \in {p \in DOMAIN f : G[p] = k}} = f[k]
  <2>1. {p \in DOMAIN f : G[p] = k} = {k}
    BY Zenon
  <2>2. {f[o] : o \in {k}} = {f[k]}
    BY Zenon
  <2>3. UNION {f[k]} = f[k]
    BY Zenon
  <2> QED
    BY <2>1, <2>2, <2>3, Zenon
<1>3. FieldsRenamed(f, G) = [k \in DOMAIN f |-> f[k]]
  BY <1>1, <1>2, Zenon DEF FieldsRenamed
<1> QED
  BY Zenon, <1>3 DEF IsFields

(* Renaming fields twice is renaming them once.                            *)
LEMMA RenameTwice ==
  ASSUME NEW f, IsFields(f), NEW F \in Renamings, NEW G \in Renamings
  PROVE  FieldsRenamed(FieldsRenamed(f, F), G) = FieldsRenamed(f, Then(F, G))
<1> DEFINE r == FieldsRenamed(f, F)
           FG == Then(F, G)
<1>1. \A o \in DOMAIN f : FG[o] = G[F[o]]
  BY Zenon DEF Then, IsFields, NameLike
<1>2. /\ DOMAIN r = {F[o] : o \in DOMAIN f}
      /\ \A k \in DOMAIN r : r[k] = UNION {f[o] : o \in {p \in DOMAIN f : F[p] = k}}
  BY Zenon DEF FieldsRenamed
<1> HIDE DEF r, FG
<1>3. {G[o] : o \in DOMAIN r} = {FG[o] : o \in DOMAIN f}
  BY <1>1, <1>2
<1>4. ASSUME NEW k
      PROVE  UNION {r[o] : o \in {p \in DOMAIN r : G[p] = k}}
               = UNION {f[o] : o \in {p \in DOMAIN f : FG[p] = k}}
  <2>1. ASSUME NEW x PROVE x \in UNION {r[o] : o \in {p \in DOMAIN r : G[p] = k}}
                             <=> \E o \in DOMAIN r : G[o] = k /\ x \in r[o]
    BY Zenon
  <2>2. ASSUME NEW x PROVE x \in UNION {f[o] : o \in {p \in DOMAIN f : FG[p] = k}}
                             <=> \E o \in DOMAIN f : FG[o] = k /\ x \in f[o]
    BY Zenon
  <2>3. ASSUME NEW x, NEW j \in DOMAIN r
        PROVE  x \in r[j] <=> \E o \in DOMAIN f : F[o] = j /\ x \in f[o]
    <3>1. x \in UNION {f[o] : o \in {p \in DOMAIN f : F[p] = j}}
            <=> \E o \in DOMAIN f : F[o] = j /\ x \in f[o]
      BY Zenon
    <3>2. r[j] = UNION {f[o] : o \in {p \in DOMAIN f : F[p] = j}}
      BY <1>2, Zenon
    <3> QED
      BY <3>1, <3>2, Zenon
  <2>4. ASSUME NEW x PROVE (\E o \in DOMAIN r : G[o] = k /\ x \in r[o])
                             <=> \E o \in DOMAIN f : FG[o] = k /\ x \in f[o]
    BY <1>1, <1>2, <2>3
  <2> QED
    BY Zenon, <2>1, <2>2, <2>4
<1> QED
  BY <1>3, <1>4, Zenon DEF r, FG, FieldsRenamed

(* Renamed fields are fields.                                              *)
LEMMA RenameIsFields ==
  ASSUME NEW f, IsFields(f), NEW G \in Renamings
  PROVE  IsFields(FieldsRenamed(f, G))
<1> DEFINE r == FieldsRenamed(f, G)
<1>1. DOMAIN r = {G[o] : o \in DOMAIN f} /\ r = [k \in DOMAIN r |-> r[k]]
  BY Zenon DEF FieldsRenamed
<1>2. \A o \in DOMAIN f : G[o] \in NameLike
  BY Zenon DEF Renamings, IsFields
<1> HIDE DEF r
<1>3. DOMAIN r \subseteq NameLike
  BY Zenon, <1>1, <1>2
<1> QED
  BY <1>1, <1>3, Zenon DEF IsFields, r

(* Events, the parts of a message, and what renaming makes of them.        *)
IsEvent(e) ==
  \E n, l \in NameLike : \E f : IsFields(f) /\ e = Event(n, l, f)

(* A history of events.                                                    *)
IsEvents(es) == es = [i \in DOMAIN es |-> es[i]] /\ \A i \in DOMAIN es : IsEvent(es[i])

(* A history with its names renamed by F and its fields by G.              *)
RenameEvents(es, F, G) ==
  [i \in DOMAIN es |-> Event(F[es[i].name], F[es[i].link], FieldsRenamed(es[i].fields, G))]

(* The fields of an event.                                                 *)
LEMMA EventFields ==
  ASSUME NEW n, NEW l, NEW f
  PROVE  Event(n, l, f).name = n /\ Event(n, l, f).link = l /\ Event(n, l, f).fields = f
  BY Zenon DEF Event

(* An event is what its fields say.                                        *)
LEMMA EventIs ==
  ASSUME NEW e, IsEvent(e)
  PROVE  /\ e.name \in NameLike /\ e.link \in NameLike /\ IsFields(e.fields)
         /\ e = Event(e.name, e.link, e.fields)
  <1>1. PICK n \in NameLike, l \in NameLike : \E f : IsFields(f) /\ e = Event(n, l, f)
    BY Zenon DEF IsEvent
  <1>2. PICK f : IsFields(f) /\ e = Event(n, l, f)
    BY Zenon, <1>1
  <1>3. e.name = n /\ e.link = l /\ e.fields = f
    BY <1>2, EventFields
  <1> QED
    BY Zenon, <1>2, <1>3

(* Renamed events are events.                                              *)
LEMMA RenamedAreEvents ==
  ASSUME NEW es, IsEvents(es), NEW F \in Renamings, NEW G \in Renamings
  PROVE  IsEvents(RenameEvents(es, F, G))
<1> DEFINE rs == RenameEvents(es, F, G)
<1>1. /\ DOMAIN rs = DOMAIN es /\ rs = [i \in DOMAIN rs |-> rs[i]]
      /\ \A i \in DOMAIN es : rs[i]
           = Event(F[es[i].name], F[es[i].link], FieldsRenamed(es[i].fields, G))
  BY Zenon DEF RenameEvents
<1>2. ASSUME NEW i \in DOMAIN es PROVE IsEvent(rs[i])
  <2>1. es[i].name \in NameLike /\ es[i].link \in NameLike /\ IsFields(es[i].fields)
    BY Zenon, EventIs DEF IsEvents
  <2>2. F[es[i].name] \in NameLike /\ F[es[i].link] \in NameLike
    BY Zenon, <2>1 DEF Renamings
  <2>3. IsFields(FieldsRenamed(es[i].fields, G))
    BY Zenon, <2>1, RenameIsFields
  <2>4. rs[i] = Event(F[es[i].name], F[es[i].link], FieldsRenamed(es[i].fields, G))
    BY <1>1, Zenon
  <2> HIDE DEF rs
  <2> QED
    BY Zenon, <2>2, <2>3, <2>4 DEF IsEvent
<1> QED
  BY <1>1, <1>2, Zenon DEF IsEvents

(* A renaming that keeps every name in it keeps a history.                 *)
LEMMA RenameEventsFixed ==
  ASSUME NEW es, IsEvents(es), NEW F \in Renamings, NEW G \in Renamings,
         \A i \in DOMAIN es : /\ F[es[i].name] = es[i].name
                              /\ F[es[i].link] = es[i].link
                              /\ \A k \in DOMAIN es[i].fields : G[k] = k
  PROVE  RenameEvents(es, F, G) = es
<1>1. ASSUME NEW i \in DOMAIN es
      PROVE  Event(F[es[i].name], F[es[i].link], FieldsRenamed(es[i].fields, G)) = es[i]
  <2>1. /\ IsFields(es[i].fields) /\ es[i] = Event(es[i].name, es[i].link, es[i].fields)
    BY Zenon, EventIs DEF IsEvents
  <2>2. FieldsRenamed(es[i].fields, G) = es[i].fields
    BY Zenon, <2>1, RenameFixed
  <2> QED
    BY <2>1, <2>2, Zenon
<1>2. RenameEvents(es, F, G) = [i \in DOMAIN es |-> es[i]]
  BY <1>1, Zenon DEF RenameEvents
<1> QED
  BY <1>2, Zenon DEF IsEvents

(* Renaming a history twice is renaming it once.                           *)
LEMMA RenameEventsTwice ==
  ASSUME NEW es, IsEvents(es), NEW F \in Renamings, NEW G \in Renamings,
         NEW F2 \in Renamings, NEW G2 \in Renamings
  PROVE  RenameEvents(RenameEvents(es, F, G), F2, G2)
           = RenameEvents(es, Then(F, F2), Then(G, G2))
<1> DEFINE rs == RenameEvents(es, F, G)
<1>1. /\ DOMAIN rs = DOMAIN es
      /\ \A i \in DOMAIN es : rs[i]
           = Event(F[es[i].name], F[es[i].link], FieldsRenamed(es[i].fields, G))
  BY Zenon DEF RenameEvents
<1> HIDE DEF rs
<1>2. ASSUME NEW i \in DOMAIN es
      PROVE  Event(F2[rs[i].name], F2[rs[i].link], FieldsRenamed(rs[i].fields, G2))
               = Event(Then(F, F2)[es[i].name], Then(F, F2)[es[i].link],
                       FieldsRenamed(es[i].fields, Then(G, G2)))
  <2>1. es[i].name \in NameLike /\ es[i].link \in NameLike /\ IsFields(es[i].fields)
    BY Zenon, EventIs DEF IsEvents
  <2>2. /\ rs[i].name = F[es[i].name] /\ rs[i].link = F[es[i].link]
        /\ rs[i].fields = FieldsRenamed(es[i].fields, G)
    BY <1>1, EventFields
  <2>3. FieldsRenamed(FieldsRenamed(es[i].fields, G), G2) = FieldsRenamed(es[i].fields, Then(G, G2))
    BY <2>1, RenameTwice
  <2>4. /\ Then(F, F2)[es[i].name] = F2[F[es[i].name]]
        /\ Then(F, F2)[es[i].link] = F2[F[es[i].link]]
    BY Zenon, <2>1 DEF Then
  <2> QED
    BY <2>2, <2>3, <2>4, Zenon
<1>3. RenameEvents(rs, F2, G2) = RenameEvents(es, Then(F, F2), Then(G, G2))
  BY <1>1, <1>2, Zenon DEF RenameEvents
<1> QED
  BY <1>3, Zenon DEF rs

(* A part of a message: a name, indexed fields, or a blob of events.       *)
IsPart(p) ==
  \/ \E n \in NameLike : p = NamePart(n)
  \/ \E f : IsFields(f) /\ p = FieldsPart(f)
  \/ \E d \in BlobData : \E es : IsEvents(es) /\ p = BlobPart(d, es)

(* q is p with its names renamed; a blob may have been repaired, and one   *)
(* that has no events is as it was.                                        *)
PartRenamed(p, q, F, G) ==
  /\ p.kind = "name" => q = NamePart(F[p.name])
  /\ p.kind = "fields" => q = FieldsPart(FieldsRenamed(p.fields, G))
  /\ p.kind = "blob" => IF p.data = "unrepaired" THEN q = p
                        ELSE \E d \in {"valid", p.data} :
                               q = BlobPart(d, RenameEvents(p.events, F, G))

(* The fields of a part.                                                   *)
LEMMA PartFields ==
  /\ \A n : NamePart(n).kind = "name" /\ NamePart(n).name = n
  /\ \A f : FieldsPart(f).kind = "fields" /\ FieldsPart(f).fields = f
  /\ \A d, es : /\ BlobPart(d, es).kind = "blob" /\ BlobPart(d, es).data = d
                /\ BlobPart(d, es).events = es
  BY Zenon DEF NamePart, FieldsPart, BlobPart

(* A part is what its fields say.                                          *)
LEMMA PartIs ==
  ASSUME NEW p, IsPart(p)
  PROVE  /\ p.kind \in {"name", "fields", "blob"}
         /\ p.kind = "name" => p.name \in NameLike /\ p = NamePart(p.name)
         /\ p.kind = "fields" => IsFields(p.fields) /\ p = FieldsPart(p.fields)
         /\ p.kind = "blob" => /\ p.data \in BlobData
                               /\ IsEvents(p.events) /\ p = BlobPart(p.data, p.events)
<1>1. CASE \E n \in NameLike : p = NamePart(n)
  BY Zenon, <1>1, PartFields
<1>2. CASE \E f : IsFields(f) /\ p = FieldsPart(f)
  BY <1>2, PartFields
<1>3. CASE \E d \in BlobData : \E es : IsEvents(es) /\ p = BlobPart(d, es)
  BY <1>3, PartFields
<1> QED
  BY Zenon, <1>1, <1>2, <1>3 DEF IsPart

(* A renamed part is a part of the same kind.                              *)
LEMMA RenamedIsPart ==
  ASSUME NEW p, IsPart(p), NEW q, NEW F \in Renamings, NEW G \in Renamings,
         PartRenamed(p, q, F, G)
  PROVE  /\ IsPart(q) /\ q.kind = p.kind
         /\ p.kind = "blob" => q.data \in {"valid", p.data}
<1>1. CASE p.kind = "name"
  <2>1. p.name \in NameLike
    BY Zenon, <1>1, PartIs
  <2>2. q = NamePart(F[p.name]) /\ F[p.name] \in NameLike
    BY Zenon, <1>1, <2>1 DEF PartRenamed, Renamings
  <2> QED
    BY Zenon, <1>1, <2>2, PartFields DEF IsPart
<1>2. CASE p.kind = "fields"
  <2>1. IsFields(p.fields) /\ q = FieldsPart(FieldsRenamed(p.fields, G))
    BY Zenon, <1>2, PartIs DEF PartRenamed
  <2>2. IsFields(FieldsRenamed(p.fields, G))
    BY Zenon, <2>1, RenameIsFields
  <2> QED
    BY Zenon, <1>2, <2>1, <2>2, PartFields DEF IsPart
<1>3. CASE p.kind = "blob"
  <2>1. IsEvents(p.events) /\ p.data \in BlobData
    BY Zenon, <1>3, PartIs
  <2>2. CASE p.data = "unrepaired"
    BY Zenon, <1>3, <2>2 DEF PartRenamed
  <2>3. CASE p.data # "unrepaired"
    <3>1. PICK d \in {"valid", p.data} : q = BlobPart(d, RenameEvents(p.events, F, G))
      BY Zenon, <1>3, <2>3 DEF PartRenamed
    <3>2. IsEvents(RenameEvents(p.events, F, G))
      BY Zenon, <2>1, RenamedAreEvents
    <3>3. d \in BlobData
      BY Zenon, <2>1, <3>1 DEF BlobData
    <3> QED
      BY <1>3, <3>1, <3>2, <3>3, PartFields DEF IsPart
  <2> QED
    BY Zenon, <2>2, <2>3
<1> QED
  BY Zenon, <1>1, <1>2, <1>3, PartIs

(* Renaming a part twice is renaming it once.                              *)
LEMMA PartRenamedTwice ==
  ASSUME NEW p, IsPart(p), NEW q, NEW r,
         NEW F \in Renamings, NEW G \in Renamings,
         NEW F2 \in Renamings, NEW G2 \in Renamings,
         PartRenamed(p, q, F, G), PartRenamed(q, r, F2, G2)
  PROVE  PartRenamed(p, r, Then(F, F2), Then(G, G2))
<1>0. q.kind = p.kind
  BY Zenon, RenamedIsPart
<1>1. CASE p.kind = "name"
  <2>1. p.name \in NameLike
    BY Zenon, <1>1, PartIs
  <2>2. q = NamePart(F[p.name]) /\ r = NamePart(F2[q.name])
    BY Zenon, <1>0, <1>1 DEF PartRenamed
  <2>3. r = NamePart(F2[F[p.name]]) /\ Then(F, F2)[p.name] = F2[F[p.name]]
    BY Zenon, <2>1, <2>2, PartFields DEF Then
  <2> QED
    BY Zenon, <1>1, <2>3 DEF PartRenamed
<1>2. CASE p.kind = "fields"
  <2>1. IsFields(p.fields) /\ q = FieldsPart(FieldsRenamed(p.fields, G))
          /\ r = FieldsPart(FieldsRenamed(q.fields, G2))
    BY Zenon, <1>0, <1>2, PartIs DEF PartRenamed
  <2>2. q.fields = FieldsRenamed(p.fields, G)
    BY Zenon, <2>1, PartFields
  <2>3. FieldsRenamed(FieldsRenamed(p.fields, G), G2) = FieldsRenamed(p.fields, Then(G, G2))
    BY <2>1, RenameTwice
  <2>4. r = FieldsPart(FieldsRenamed(p.fields, Then(G, G2)))
    BY Zenon, <2>1, <2>2, <2>3
  <2> QED
    BY Zenon, <1>2, <2>4 DEF PartRenamed
<1>3. CASE p.kind = "blob" /\ p.data = "unrepaired"
  BY Zenon, <1>3 DEF PartRenamed
<1>4. CASE p.kind = "blob" /\ p.data # "unrepaired"
  <2>1. IsEvents(p.events)
    BY Zenon, <1>4, PartIs
  <2>2. PICK d \in {"valid", p.data} : q = BlobPart(d, RenameEvents(p.events, F, G))
    BY Zenon, <1>4 DEF PartRenamed
  <2>7. q.data # "unrepaired"
    BY <1>4, <2>2, PartFields
  <2>3. PICK c \in {"valid", q.data} : r = BlobPart(c, RenameEvents(q.events, F2, G2))
    BY Zenon, <1>0, <1>4, <2>7 DEF PartRenamed
  <2>4. q.data = d /\ q.events = RenameEvents(p.events, F, G)
    BY <2>2, PartFields
  <2>5. RenameEvents(RenameEvents(p.events, F, G), F2, G2)
          = RenameEvents(p.events, Then(F, F2), Then(G, G2))
    BY <2>1, RenameEventsTwice
  <2>6. c \in {"valid", p.data} /\ r = BlobPart(c, RenameEvents(p.events, Then(F, F2), Then(G, G2)))
    BY Zenon, <2>2, <2>3, <2>4, <2>5
  <2> QED
    BY Zenon, <1>4, <2>6 DEF PartRenamed
<1> QED
  BY Zenon, <1>1, <1>2, <1>3, <1>4, PartIs

(* What Repaired makes of a part.                                          *)
RepairedPart(p) ==
  IF p.kind = "blob" /\ p.data = "repairable" THEN [p EXCEPT !.data = "valid"] ELSE p

(* A blob that can be decoded is repaired.                                 *)
LEMMA RepairedBlob ==
  ASSUME NEW d \in {"valid", "repairable"}, NEW es
  PROVE  RepairedPart(BlobPart(d, es)) = BlobPart("valid", es)
  BY Zenon DEF RepairedPart, BlobPart

(* A renaming that keeps every name in it keeps a part, up to repair.      *)
LEMMA PartFixed ==
  ASSUME NEW p, IsPart(p), NEW q, NEW F \in Renamings, NEW G \in Renamings,
         PartRenamed(p, q, F, G),
         p.kind = "blob" => p.data # "corrupt",
         \A n \in NamesAt(p) : F[n] = n,
         \A k \in FieldsAt(p) : G[k] = k
  PROVE  RepairedPart(q) = RepairedPart(p)
<1>1. CASE p.kind = "name"
  <2>1. p.name \in NamesAt(p)
    BY Zenon, <1>1 DEF NamesAt, HasEvents
  <2> QED
    BY Zenon, <1>1, <2>1, PartIs DEF PartRenamed
<1>2. CASE p.kind = "fields"
  <2>1. FieldsAt(p) = DOMAIN p.fields
    BY Zenon, <1>2 DEF FieldsAt, HasEvents
  <2>2. IsFields(p.fields) /\ p = FieldsPart(p.fields) /\ q = FieldsPart(FieldsRenamed(p.fields, G))
    BY Zenon, <1>2, PartIs DEF PartRenamed
  <2>3. FieldsRenamed(p.fields, G) = p.fields
    BY Zenon, <2>1, <2>2, RenameFixed
  <2> QED
    BY <2>2, <2>3, Zenon
<1>3. CASE p.kind = "blob" /\ p.data = "unrepaired"
  BY Zenon, <1>3 DEF PartRenamed
<1>4. CASE p.kind = "blob" /\ p.data # "unrepaired"
  <2> DEFINE es == p.events
  <2>1. IsEvents(es) /\ p.data \in {"valid", "repairable"} /\ p = BlobPart(p.data, es)
    BY Zenon, <1>4, PartIs DEF BlobData
  <2>2. PICK d \in {"valid", p.data} : q = BlobPart(d, RenameEvents(es, F, G))
    BY Zenon, <1>4 DEF PartRenamed
  <2>3. ASSUME NEW i \in DOMAIN es
        PROVE  /\ F[es[i].name] = es[i].name /\ F[es[i].link] = es[i].link
               /\ \A k \in DOMAIN es[i].fields : G[k] = k
    <3> DEFINE U == UNION {{es[j].name, es[j].link} : j \in DOMAIN es}
    <3>1. NamesAt(p) = U \ {Absent}
      BY <1>4, Zenon DEF NamesAt, HasEvents
    <3>2. \A x \in {es[i].name, es[i].link} : x \in U
      BY Zenon
    <3>3. FieldsAt(p) = UNION {DOMAIN es[j].fields : j \in DOMAIN es}
      BY <1>4, Zenon DEF FieldsAt, HasEvents
    <3>4. \A k \in DOMAIN es[i].fields : k \in UNION {DOMAIN es[j].fields : j \in DOMAIN es}
      BY Zenon
    <3>5. F[Absent] = Absent
      BY Zenon DEF Renamings
    <3> HIDE DEF es, U
    <3>6. F[es[i].name] = es[i].name
      BY Zenon, <3>1, <3>2, <3>5
    <3>7. F[es[i].link] = es[i].link
      BY Zenon, <3>1, <3>2, <3>5
    <3>8. \A k \in DOMAIN es[i].fields : G[k] = k
      BY <3>3, <3>4, Zenon
    <3> QED
      BY Zenon, <3>6, <3>7, <3>8
  <2> HIDE DEF es
  <2>4. RenameEvents(es, F, G) = es
    BY <2>1, <2>3, RenameEventsFixed
  <2>5. d \in {"valid", "repairable"}
    BY Zenon, <2>1, <2>2
  <2> QED
    BY Zenon, <2>1, <2>2, <2>4, <2>5, RepairedBlob
<1> QED
  BY Zenon, <1>1, <1>2, <1>3, <1>4, PartIs

(* A message is a sequence of parts.                                       *)
IsMessage(m) ==
  /\ m = [i \in DOMAIN m |-> m[i]]
  /\ \A i \in DOMAIN m : IsPart(m[i]) /\ i \in Nat \ {0} /\ 1..i \subseteq DOMAIN m

(* n is m with the parts that are visited renamed.                         *)
Renamed(m, n, F, G) ==
  /\ n = [i \in DOMAIN m |-> n[i]]
  /\ \A i \in DOMAIN m : IF Visited(m, i) THEN PartRenamed(m[i], n[i], F, G) ELSE n[i] = m[i]

(* A renamed message is a message, and the same parts of it are visited.   *)
LEMMA RenamedVisited ==
  ASSUME NEW m, IsMessage(m), NEW n, NEW F \in Renamings, NEW G \in Renamings,
         Renamed(m, n, F, G)
  PROVE  /\ DOMAIN n = DOMAIN m
         /\ \A i \in DOMAIN m : Visited(n, i) <=> Visited(m, i)
         /\ IsMessage(n)
<1>1. DOMAIN n = DOMAIN m /\ n = [i \in DOMAIN n |-> n[i]]
  BY Zenon DEF Renamed
<1>2. ASSUME NEW i \in DOMAIN m, Visited(m, i) PROVE Visited(n, i)
  <2>1. ASSUME NEW j \in 1..i PROVE n[j].kind = "blob" => n[j].data # "corrupt"
    <3>1. j \in DOMAIN m /\ i \in Nat
      BY Zenon DEF IsMessage
    <3>2. Visited(m, j)
      BY <1>2, <3>1 DEF Visited
    <3>3. IsPart(m[j]) /\ PartRenamed(m[j], n[j], F, G)
      BY Zenon, <3>1, <3>2 DEF IsMessage, Renamed
    <3>4. /\ n[j].kind = m[j].kind
          /\ m[j].kind = "blob" => n[j].data \in {"valid", m[j].data}
      BY Zenon, <3>3, RenamedIsPart
    <3>5. m[j].kind = "blob" => m[j].data # "corrupt"
      BY Zenon, <1>2 DEF Visited
    <3> QED
      BY Zenon, <3>4, <3>5
  <2> QED
    BY Zenon, <2>1 DEF Visited
<1>3. ASSUME NEW i \in DOMAIN m, ~Visited(m, i) PROVE ~Visited(n, i)
  <2>1. PICK j \in 1..i : m[j].kind = "blob" /\ m[j].data = "corrupt"
    BY Zenon, <1>3 DEF Visited
  <2>2. j \in DOMAIN m /\ j \in 1..j
    BY DEF IsMessage
  <2>3. ~Visited(m, j)
    BY Zenon, <2>1, <2>2 DEF Visited
  <2>4. n[j] = m[j]
    BY Zenon, <2>2, <2>3 DEF Renamed
  <2> QED
    BY Zenon, <2>1, <2>4 DEF Visited
<1>4. ASSUME NEW i \in DOMAIN m PROVE IsPart(n[i])
  <2>1. CASE Visited(m, i)
    <3>1. IsPart(m[i]) /\ PartRenamed(m[i], n[i], F, G)
      BY Zenon, <2>1 DEF IsMessage, Renamed
    <3> QED
      BY Zenon, <3>1, RenamedIsPart
  <2>2. CASE ~Visited(m, i)
    BY Zenon, <2>2 DEF IsMessage, Renamed
  <2> QED
    BY Zenon, <2>1, <2>2
<1>5. IsMessage(n)
  BY Zenon, <1>1, <1>4 DEF IsMessage
<1>6. \A i \in DOMAIN m : Visited(n, i) <=> Visited(m, i)
  BY <1>2, <1>3, Zenon
<1> QED
  BY Zenon, <1>1, <1>5, <1>6

(* Renaming a message twice is renaming it once.                           *)
LEMMA RenamedTwice ==
  ASSUME NEW m, IsMessage(m), NEW n, NEW o,
         NEW F \in Renamings, NEW G \in Renamings, NEW F2 \in Renamings, NEW G2 \in Renamings,
         Renamed(m, n, F, G), Renamed(n, o, F2, G2)
  PROVE  Renamed(m, o, Then(F, F2), Then(G, G2))
<1>1. DOMAIN n = DOMAIN m /\ \A i \in DOMAIN m : Visited(n, i) <=> Visited(m, i)
  BY Zenon, RenamedVisited
<1>2. o = [i \in DOMAIN m |-> o[i]]
  BY Zenon, <1>1 DEF Renamed
<1>3. ASSUME NEW i \in DOMAIN m, Visited(m, i)
      PROVE  PartRenamed(m[i], o[i], Then(F, F2), Then(G, G2))
  <2>1. IsPart(m[i]) /\ PartRenamed(m[i], n[i], F, G) /\ PartRenamed(n[i], o[i], F2, G2)
    BY Zenon, <1>1, <1>3 DEF IsMessage, Renamed
  <2> QED
    BY Zenon, <2>1, PartRenamedTwice
<1>4. ASSUME NEW i \in DOMAIN m, ~Visited(m, i) PROVE o[i] = m[i]
  BY Zenon, <1>1, <1>4 DEF Renamed
<1> QED
  BY <1>2, <1>3, <1>4, Zenon DEF Renamed

(* A renaming that keeps every name in it keeps a message, up to repair.   *)
LEMMA RenamedFixed ==
  ASSUME NEW m, IsMessage(m), NEW n, NEW F \in Renamings, NEW G \in Renamings,
         Renamed(m, n, F, G),
         \A i \in DOMAIN m : /\ \A x \in NamesAt(m[i]) : F[x] = x
                             /\ \A k \in FieldsAt(m[i]) : G[k] = k
  PROVE  Repaired(n) = Repaired(m)
<1>1. DOMAIN n = DOMAIN m
  BY Zenon, RenamedVisited
<1>2. ASSUME NEW i \in DOMAIN m PROVE RepairedPart(n[i]) = RepairedPart(m[i])
  <2>1. CASE Visited(m, i)
    <3>1. IsPart(m[i]) /\ PartRenamed(m[i], n[i], F, G)
      BY Zenon, <2>1 DEF IsMessage, Renamed
    <3>2. m[i].kind = "blob" => m[i].data # "corrupt"
      BY <2>1 DEF Visited, IsMessage
    <3> QED
      BY Zenon, <3>1, <3>2, PartFixed
  <2>2. CASE ~Visited(m, i)
    BY Zenon, <2>2 DEF Renamed
  <2> QED
    BY Zenon, <2>1, <2>2
<1> QED
  BY <1>1, <1>2, Zenon DEF Repaired, RepairedPart

(* What the visits do.                                                     *)
LEMMA VisitEvents ==
  ASSUME NEW es, IsEvents(es), NEW mapping, IsMapping(mapping)
  PROVE  /\ visitEvents(es, mapping) = RenameEvents(es, ByMapping(mapping), NoRenaming)
         /\ visitEventFields(es, mapping) = RenameEvents(es, NoRenaming, ByMapping(mapping))
<1> DEFINE F == ByMapping(mapping)
<1>1. F \in Renamings /\ NoRenaming \in Renamings
  BY Zenon, RenamingsAre
<1>2. \A x \in NameLike : F[x] = createStringMatcher(mapping, x) /\ NoRenaming[x] = x
  BY Zenon DEF ByMapping, NoRenaming
<1>3. ASSUME NEW i \in DOMAIN es
      PROVE  /\ es[i].name \in NameLike /\ es[i].link \in NameLike /\ IsFields(es[i].fields)
             /\ es[i] = Event(es[i].name, es[i].link, es[i].fields)
             /\ FieldsRenamed(es[i].fields, NoRenaming) = es[i].fields
             /\ FieldsRenamed(es[i].fields, F) = translateIndexedFields(es[i].fields, mapping)
  <2>1. /\ es[i].name \in NameLike /\ es[i].link \in NameLike /\ IsFields(es[i].fields)
        /\ es[i] = Event(es[i].name, es[i].link, es[i].fields)
    BY Zenon, EventIs DEF IsEvents
  <2>2. FieldsRenamed(es[i].fields, NoRenaming) = es[i].fields
    <3>1. \A k \in DOMAIN es[i].fields : NoRenaming[k] = k
      BY Zenon, <1>2, <2>1 DEF IsFields
    <3> QED
      BY Zenon, <2>1, <3>1, RenameFixed
  <2>3. FieldsRenamed(es[i].fields, F) = translateIndexedFields(es[i].fields, mapping)
    BY Zenon, <2>1, RenameByMapping
  <2> QED
    BY Zenon, <2>1, <2>2, <2>3
<1> HIDE DEF F
<1>4. visitEvents(es, mapping) = RenameEvents(es, F, NoRenaming)
  <2>1. CASE isSkippableForNamespaceTranslation(es)
    <3>1. \A i \in DOMAIN es : F[es[i].name] = es[i].name /\ F[es[i].link] = es[i].link
      BY Zenon, <1>1, <2>1 DEF isSkippableForNamespaceTranslation, Renamings
    <3>2. \A i \in DOMAIN es : \A k \in DOMAIN es[i].fields : NoRenaming[k] = k
      <4> SUFFICES ASSUME NEW i \in DOMAIN es, NEW k \in DOMAIN es[i].fields PROVE NoRenaming[k] = k
        BY Zenon
      <4>1. IsFields(es[i].fields)
        BY Zenon, <1>3
      <4> QED
        BY Zenon, <1>2, <4>1 DEF IsFields
    <3>3. RenameEvents(es, F, NoRenaming) = es
      BY <1>1, <3>1, <3>2, RenameEventsFixed
    <3> QED
      BY Zenon, <2>1, <3>3 DEF visitEvents
  <2>2. CASE ~isSkippableForNamespaceTranslation(es)
    <3>1. ASSUME NEW i \in DOMAIN es
          PROVE  [es[i] EXCEPT !.name = createStringMatcher(mapping, @),
                               !.link = createStringMatcher(mapping, @)]
                   = Event(F[es[i].name], F[es[i].link], FieldsRenamed(es[i].fields, NoRenaming))
      <4> DEFINE a == es[i].name
                 b == es[i].link
                 c == es[i].fields
      <4>1. /\ F[a] = createStringMatcher(mapping, a) /\ F[b] = createStringMatcher(mapping, b)
            /\ FieldsRenamed(c, NoRenaming) = c /\ es[i] = Event(a, b, c)
        BY Zenon, <1>2, <1>3
      <4>2. [es[i] EXCEPT !.name = createStringMatcher(mapping, @),
                          !.link = createStringMatcher(mapping, @)]
              = [[es[i] EXCEPT !.name = F[a]] EXCEPT !.link = F[b]]
        BY <4>1, Zenon
      <4> HIDE DEF a, b, c
      <4>3. [Event(a, b, c) EXCEPT !.name = F[a]] = Event(F[a], b, c)
        BY DEF Event
      <4>4. [Event(F[a], b, c) EXCEPT !.link = F[b]] = Event(F[a], F[b], c)
        BY DEF Event
      <4>5. [es[i] EXCEPT !.name = createStringMatcher(mapping, @),
                          !.link = createStringMatcher(mapping, @)]
              = Event(F[a], F[b], FieldsRenamed(c, NoRenaming))
        BY <4>1, <4>2, <4>3, <4>4, Zenon
      <4> QED
        BY Zenon, <4>5 DEF a, b, c
    <3>2. visitEvents(es, mapping)
            = [i \in DOMAIN es |-> [es[i] EXCEPT !.name = createStringMatcher(mapping, @),
                                                 !.link = createStringMatcher(mapping, @)]]
      BY Zenon, <2>2 DEF visitEvents
    <3> QED
      BY <3>1, <3>2, Zenon DEF RenameEvents
  <2> QED
    BY Zenon, <2>1, <2>2
<1>5. visitEventFields(es, mapping) = RenameEvents(es, NoRenaming, F)
  <2>1. ASSUME NEW i \in DOMAIN es
        PROVE  [es[i] EXCEPT !.fields = translateIndexedFields(@, mapping)]
                 = Event(NoRenaming[es[i].name], NoRenaming[es[i].link],
                   FieldsRenamed(es[i].fields, F))
    <3> DEFINE a == es[i].name
               b == es[i].link
               c == es[i].fields
    <3>1. /\ NoRenaming[a] = a /\ NoRenaming[b] = b
          /\ FieldsRenamed(c, F) = translateIndexedFields(c, mapping) /\ es[i] = Event(a, b, c)
      BY Zenon, <1>2, <1>3
    <3> HIDE DEF a, b, c
    <3> QED
      BY <3>1 DEF Event, a, b, c
  <2> QED
    BY <2>1, Zenon DEF visitEventFields, RenameEvents
<1> QED
  BY Zenon, <1>4, <1>5 DEF F

(* A blob that was translated is encoded anew.                             *)
LEMMA VisitBlob ==
  ASSUME NEW d, d # "unrepaired", NEW es, NEW new
  PROVE  translateOneDataBlob(BlobPart(d, es), new) = BlobPart("valid", new)
<1>0. BlobPart(d, es).data = d
  BY Zenon, PartFields
<1>1. translateOneDataBlob(BlobPart(d, es), new)
        = [[BlobPart(d, es) EXCEPT !.data = "valid"] EXCEPT !.events = new]
  BY Zenon, <1>0 DEF translateOneDataBlob
<1>2. [BlobPart(d, es) EXCEPT !.data = "valid"] = BlobPart("valid", es)
  BY DEF BlobPart
<1>3. [BlobPart("valid", es) EXCEPT !.events = new] = BlobPart("valid", new)
  BY DEF BlobPart
<1> QED
  BY <1>1, <1>2, <1>3, Zenon

(* visitNamespace renames the names of namespaces, and no field.           *)
LEMMA VisitNamespace ==
  ASSUME NEW m, IsMessage(m), NEW mapping, IsMapping(mapping)
  PROVE  Renamed(m, visitNamespace(m, mapping), ByMapping(mapping), NoRenaming)
<1> DEFINE n == visitNamespace(m, mapping)
           F == ByMapping(mapping)
<1>0. \A x \in NameLike : F[x] = createStringMatcher(mapping, x) /\ NoRenaming[x] = x
  BY Zenon DEF ByMapping, NoRenaming
<1>1. n = [i \in DOMAIN m |-> n[i]]
  BY Zenon DEF visitNamespace
<1> DEFINE X(i) == [m[i] EXCEPT !.name = createStringMatcher(mapping, @)]
           Y(i) == translateOneDataBlob(m[i], visitEvents(m[i].events, mapping))
<1>2. ASSUME NEW i \in DOMAIN m
      PROVE  n[i] = CASE Visited(m, i) /\ m[i].kind = "name" -> X(i)
                      [] Visited(m, i) /\ m[i].kind = "blob" -> Y(i)
                      [] OTHER -> m[i]
  BY Zenon DEF visitNamespace
<1> HIDE DEF n, F, X, Y
<1>3. ASSUME NEW i \in DOMAIN m
      PROVE  /\ Visited(m, i) /\ m[i].kind = "name" => n[i] = X(i)
             /\ Visited(m, i) /\ m[i].kind = "blob" => n[i] = Y(i)
             /\ ~Visited(m, i) \/ m[i].kind = "fields" => n[i] = m[i]
  BY Zenon, <1>2
<1>4. \A i \in DOMAIN m : IsPart(m[i])
  BY Zenon DEF IsMessage
<1>5. ASSUME NEW i \in DOMAIN m, Visited(m, i) PROVE PartRenamed(m[i], n[i], F, NoRenaming)
  <2>1. CASE m[i].kind = "name"
    <3>1. n[i] = [m[i] EXCEPT !.name = createStringMatcher(mapping, @)]
      BY Zenon, <1>3, <1>5, <2>1 DEF X
    <3>2. m[i].name \in NameLike /\ m[i] = NamePart(m[i].name)
      BY Zenon, <1>4, <2>1, PartIs
    <3>3. n[i] = NamePart(createStringMatcher(mapping, m[i].name))
      BY <3>1, <3>2 DEF NamePart
    <3> QED
      BY Zenon, <1>0, <2>1, <3>2, <3>3 DEF PartRenamed
  <2>2. CASE m[i].kind = "fields"
    <3>1. n[i] = m[i]
      BY Zenon, <1>3, <2>2
    <3>2. IsFields(m[i].fields) /\ m[i] = FieldsPart(m[i].fields)
      BY Zenon, <1>4, <2>2, PartIs
    <3>3. \A k \in DOMAIN m[i].fields : NoRenaming[k] = k
      BY Zenon, <1>0, <3>2 DEF IsFields
    <3>4. FieldsRenamed(m[i].fields, NoRenaming) = m[i].fields
      BY Zenon, <3>2, <3>3, RenameFixed
    <3> QED
      BY Zenon, <2>2, <3>1, <3>2, <3>4 DEF PartRenamed
  <2>3. CASE m[i].kind = "blob" /\ m[i].data = "unrepaired"
    <3>1. n[i] = translateOneDataBlob(m[i], visitEvents(m[i].events, mapping))
      BY Zenon, <1>3, <1>5, <2>3 DEF Y
    <3>2. n[i] = m[i]
      BY Zenon, <2>3, <3>1 DEF translateOneDataBlob
    <3> QED
      BY Zenon, <2>3, <3>2 DEF PartRenamed
  <2>4. CASE m[i].kind = "blob" /\ m[i].data # "unrepaired"
    <3>1. n[i] = translateOneDataBlob(m[i], visitEvents(m[i].events, mapping))
      BY Zenon, <1>3, <1>5, <2>4 DEF Y
    <3>2. IsEvents(m[i].events) /\ m[i] = BlobPart(m[i].data, m[i].events)
      BY Zenon, <1>4, <2>4, PartIs
    <3>3. visitEvents(m[i].events, mapping) = RenameEvents(m[i].events, F, NoRenaming)
      BY Zenon, <3>2, VisitEvents DEF F
    <3>4. n[i] = BlobPart("valid", RenameEvents(m[i].events, F, NoRenaming))
      BY <3>1, <3>2, <3>3, <2>4, VisitBlob
    <3> QED
      BY Zenon, <2>4, <3>4 DEF PartRenamed
  <2> QED
    BY Zenon, <1>4, <2>1, <2>2, <2>3, <2>4, PartIs
<1>6. ASSUME NEW i \in DOMAIN m, ~Visited(m, i) PROVE n[i] = m[i]
  BY Zenon, <1>3, <1>6
<1>7. Renamed(m, n, F, NoRenaming)
  BY <1>1, <1>5, <1>6, Zenon DEF Renamed
<1> QED
  BY Zenon, <1>7 DEF n, F

(* visitSearchAttributes renames the fields, and no name.                  *)
LEMMA VisitSearchAttributes ==
  ASSUME NEW m, IsMessage(m), NEW mapping, IsMapping(mapping)
  PROVE  Renamed(m, visitSearchAttributes(m, mapping), NoRenaming, ByMapping(mapping))
<1> DEFINE n == visitSearchAttributes(m, mapping)
           G == ByMapping(mapping)
<1>0. \A x \in NameLike : NoRenaming[x] = x
  BY Zenon DEF NoRenaming
<1>1. n = [i \in DOMAIN m |-> n[i]]
  BY Zenon DEF visitSearchAttributes
<1> DEFINE X(i) == [m[i] EXCEPT !.fields = translateIndexedFields(@, mapping)]
           Y(i) == translateOneDataBlob(m[i], visitEventFields(m[i].events, mapping))
<1>2. ASSUME NEW i \in DOMAIN m
      PROVE  n[i] = CASE Visited(m, i) /\ m[i].kind = "fields" -> X(i)
                      [] Visited(m, i) /\ m[i].kind = "blob" -> Y(i)
                      [] OTHER -> m[i]
  BY Zenon DEF visitSearchAttributes
<1> HIDE DEF n, G, X, Y
<1>3. ASSUME NEW i \in DOMAIN m
      PROVE  /\ Visited(m, i) /\ m[i].kind = "fields" => n[i] = X(i)
             /\ Visited(m, i) /\ m[i].kind = "blob" => n[i] = Y(i)
             /\ ~Visited(m, i) \/ m[i].kind = "name" => n[i] = m[i]
  BY Zenon, <1>2
<1>4. \A i \in DOMAIN m : IsPart(m[i])
  BY Zenon DEF IsMessage
<1>5. ASSUME NEW i \in DOMAIN m, Visited(m, i) PROVE PartRenamed(m[i], n[i], NoRenaming, G)
  <2>1. CASE m[i].kind = "name"
    <3>1. n[i] = m[i]
      BY Zenon, <1>3, <2>1
    <3>2. m[i].name \in NameLike /\ m[i] = NamePart(m[i].name)
      BY Zenon, <1>4, <2>1, PartIs
    <3> QED
      BY Zenon, <1>0, <2>1, <3>1, <3>2 DEF PartRenamed
  <2>2. CASE m[i].kind = "fields"
    <3>1. n[i] = [m[i] EXCEPT !.fields = translateIndexedFields(@, mapping)]
      BY Zenon, <1>3, <1>5, <2>2 DEF X
    <3>2. IsFields(m[i].fields) /\ m[i] = FieldsPart(m[i].fields)
      BY Zenon, <1>4, <2>2, PartIs
    <3>3. n[i] = FieldsPart(translateIndexedFields(m[i].fields, mapping))
      BY <3>1, <3>2 DEF FieldsPart
    <3>4. translateIndexedFields(m[i].fields, mapping) = FieldsRenamed(m[i].fields, G)
      BY Zenon, <3>2, RenameByMapping DEF G
    <3> QED
      BY Zenon, <2>2, <3>3, <3>4 DEF PartRenamed
  <2>3. CASE m[i].kind = "blob" /\ m[i].data = "unrepaired"
    <3>1. n[i] = translateOneDataBlob(m[i], visitEventFields(m[i].events, mapping))
      BY Zenon, <1>3, <1>5, <2>3 DEF Y
    <3>2. n[i] = m[i]
      BY Zenon, <2>3, <3>1 DEF translateOneDataBlob
    <3> QED
      BY Zenon, <2>3, <3>2 DEF PartRenamed
  <2>4. CASE m[i].kind = "blob" /\ m[i].data # "unrepaired"
    <3>1. n[i] = translateOneDataBlob(m[i], visitEventFields(m[i].events, mapping))
      BY Zenon, <1>3, <1>5, <2>4 DEF Y
    <3>2. IsEvents(m[i].events) /\ m[i] = BlobPart(m[i].data, m[i].events)
      BY Zenon, <1>4, <2>4, PartIs
    <3>3. visitEventFields(m[i].events, mapping) = RenameEvents(m[i].events, NoRenaming, G)
      BY Zenon, <3>2, VisitEvents DEF G
    <3>4. n[i] = BlobPart("valid", RenameEvents(m[i].events, NoRenaming, G))
      BY <3>1, <3>2, <3>3, <2>4, VisitBlob
    <3> QED
      BY Zenon, <2>4, <3>4 DEF PartRenamed
  <2> QED
    BY Zenon, <1>4, <2>1, <2>2, <2>3, <2>4, PartIs
<1>6. ASSUME NEW i \in DOMAIN m, ~Visited(m, i) PROVE n[i] = m[i]
  BY Zenon, <1>3, <1>6
<1>7. Renamed(m, n, NoRenaming, G)
  BY <1>1, <1>5, <1>6, Zenon DEF Renamed
<1> QED
  BY Zenon, <1>7 DEF n, G

(* No renaming changes no history.                                         *)
LEMMA EventsUntouched ==
  ASSUME NEW es, IsEvents(es)
  PROVE  RenameEvents(es, NoRenaming, NoRenaming) = es
<1>1. NoRenaming \in Renamings /\ \A x \in NameLike : NoRenaming[x] = x
  BY Zenon, RenamingsAre DEF NoRenaming
<1>2. ASSUME NEW j \in DOMAIN es
      PROVE  /\ NoRenaming[es[j].name] = es[j].name /\ NoRenaming[es[j].link] = es[j].link
             /\ \A k \in DOMAIN es[j].fields : NoRenaming[k] = k
  <2>1. IsEvent(es[j])
    BY Zenon DEF IsEvents
  <2>2. es[j].name \in NameLike /\ es[j].link \in NameLike /\ IsFields(es[j].fields)
    BY Zenon, <2>1, EventIs
  <2> QED
    BY Zenon, <1>1, <2>2 DEF IsFields
<1> QED
  BY <1>1, <1>2, RenameEventsFixed

(* No renaming changes no message.                                         *)
LEMMA UntouchedIsRenamed ==
  ASSUME NEW m, IsMessage(m)
  PROVE  Renamed(m, m, NoRenaming, NoRenaming)
<1>1. m = [i \in DOMAIN m |-> m[i]]
  BY Zenon DEF IsMessage
<1>2. ASSUME NEW i \in DOMAIN m PROVE PartRenamed(m[i], m[i], NoRenaming, NoRenaming)
  <2>0. \A x \in NameLike : NoRenaming[x] = x
    BY Zenon DEF NoRenaming
  <2>1. IsPart(m[i]) /\ NoRenaming \in Renamings
    BY Zenon, RenamingsAre DEF IsMessage
  <2>2. m[i].kind = "name" => m[i] = NamePart(NoRenaming[m[i].name])
    BY Zenon, <2>0, <2>1, PartIs
  <2>3. m[i].kind = "fields" => m[i] = FieldsPart(FieldsRenamed(m[i].fields, NoRenaming))
    <3> SUFFICES ASSUME m[i].kind = "fields"
                 PROVE  m[i] = FieldsPart(FieldsRenamed(m[i].fields, NoRenaming))
      BY Zenon
    <3>1. IsFields(m[i].fields) /\ m[i] = FieldsPart(m[i].fields)
      BY Zenon, <2>1, PartIs
    <3>2. \A k \in DOMAIN m[i].fields : NoRenaming[k] = k
      BY Zenon, <2>0, <3>1 DEF IsFields
    <3>3. FieldsRenamed(m[i].fields, NoRenaming) = m[i].fields
      BY Zenon, <3>1, <3>2, RenameFixed
    <3> QED
      BY Zenon, <3>1, <3>3
  <2>4. m[i].kind = "blob" =>
          m[i] = BlobPart(m[i].data, RenameEvents(m[i].events, NoRenaming, NoRenaming))
    <3> SUFFICES ASSUME m[i].kind = "blob"
                 PROVE  m[i] = BlobPart(m[i].data, RenameEvents(m[i].events, NoRenaming,
                          NoRenaming))
      BY Zenon
    <3>1. IsEvents(m[i].events) /\ m[i] = BlobPart(m[i].data, m[i].events)
      BY Zenon, <2>1, PartIs
    <3> QED
      BY Zenon, <3>1, EventsUntouched
  <2> QED
    BY Zenon, <2>2, <2>3, <2>4 DEF PartRenamed
<1> QED
  BY <1>1, <1>2, Zenon DEF Renamed

(* No renaming before or after changes no renaming.                        *)
LEMMA ThenNothing ==
  ASSUME NEW F \in Renamings
  PROVE  Then(F, NoRenaming) = F /\ Then(NoRenaming, F) = F
<1>1. F = [x \in NameLike |-> F[x]] /\ \A x \in NameLike : F[x] \in NameLike
  BY Zenon DEF Renamings
<1>2. \A x \in NameLike : NoRenaming[F[x]] = F[x] /\ F[NoRenaming[x]] = F[x]
  BY Zenon, <1>1 DEF NoRenaming
<1>3. Then(F, NoRenaming) = [x \in NameLike |-> F[x]]
  BY <1>2, Zenon DEF Then
<1>4. Then(NoRenaming, F) = [x \in NameLike |-> F[x]]
  BY <1>2, Zenon DEF Then
<1> QED
  BY <1>1, <1>3, <1>4, Zenon

(* The empty map renames nothing.                                          *)
LEMMA EmptyMapping ==
  IsMapping(<<>>) /\ ByMapping(<<>>) = NoRenaming
<1>1. \A x : createStringMatcher(<<>>, x) = x
  BY DEF createStringMatcher
<1> QED
  BY <1>1 DEF IsMapping, ByMapping, NoRenaming

(* The workflow service's messages keep their search attributes.           *)
BySearchAttributes(service, mapping) ==
  IF service = "workflow" THEN NoRenaming ELSE ByMapping(mapping)

(* The two translators, one after the other.                               *)
LEMMA Translated ==
  ASSUME NEW m, IsMessage(m), NEW ns, IsMapping(ns), NEW sa, IsMapping(sa), NEW service
  PROVE  /\ Renamed(m, saTranslator(namespaceTranslator(m, ns), service, sa),
                    ByMapping(ns), BySearchAttributes(service, sa))
         /\ ByMapping(ns) \in Renamings /\ BySearchAttributes(service, sa) \in Renamings
<1> DEFINE n == namespaceTranslator(m, ns)
           o == saTranslator(n, service, sa)
           F == ByMapping(ns)
           G == BySearchAttributes(service, sa)
<1>1. F \in Renamings /\ G \in Renamings /\ NoRenaming \in Renamings
  BY Zenon, RenamingsAre DEF BySearchAttributes
<1>2. Renamed(m, n, F, NoRenaming)
  <2>1. CASE ns = <<>>
    <3>1. n = m /\ F = NoRenaming
      BY Zenon, <2>1, EmptyMapping DEF namespaceTranslator
    <3> QED
      BY Zenon, <3>1, UntouchedIsRenamed
  <2>2. CASE ns # <<>>
    <3>1. n = visitNamespace(m, ns)
      BY Zenon, <2>2 DEF namespaceTranslator
    <3> QED
      BY Zenon, <3>1, VisitNamespace
  <2> QED
    BY Zenon, <2>1, <2>2
<1>3. IsMessage(n)
  <2> HIDE DEF n, F
  <2> QED
    BY Zenon, <1>1, <1>2, RenamedVisited
<1>4. Renamed(n, o, NoRenaming, G)
  <2> HIDE DEF n
  <2>1. CASE service = "workflow" \/ sa = <<>>
    <3>1. o = n /\ G = NoRenaming
      BY Zenon, <2>1, EmptyMapping DEF saTranslator, BySearchAttributes
    <3> QED
      BY Zenon, <1>3, <3>1, UntouchedIsRenamed
  <2>2. CASE service # "workflow" /\ sa # <<>>
    <3>1. o = visitSearchAttributes(n, sa) /\ G = ByMapping(sa)
      BY Zenon, <2>2 DEF saTranslator, BySearchAttributes
    <3> QED
      BY Zenon, <1>3, <3>1, VisitSearchAttributes
  <2> QED
    BY Zenon, <2>1, <2>2
<1> HIDE DEF n, o, F, G
<1>5. Renamed(m, o, Then(F, NoRenaming), Then(NoRenaming, G))
  BY Zenon, <1>1, <1>2, <1>4, RenamedTwice
<1>6. Renamed(m, o, F, G)
  BY Zenon, <1>1, <1>5, ThenNothing
<1> QED
  BY Zenon, <1>1, <1>6 DEF n, o, F, G

(* A map of names and its inverse.                                         *)
IsBiMap(biMap) ==
  /\ IsMapping(biMap.contents) /\ IsMapping(biMap.inverse)
  /\ \A x \in DOMAIN biMap.contents :
       /\ biMap.contents[x] \in DOMAIN biMap.inverse
       /\ biMap.inverse[biMap.contents[x]] = x

(* In a list of pairs without repetitions each name has one partner.       *)
LEMMA PartnerIs ==
  ASSUME NEW pairs, NEW side, NEW i \in DOMAIN pairs, DOMAIN pairs \subseteq Int,
         ~Repeated(pairs, side)
  PROVE  Partner(pairs, side, pairs[i][side]) = pairs[i][3 - side]
<1> DEFINE Last(k) == /\ pairs[k][side] = pairs[i][side]
                      /\ \A j \in DOMAIN pairs : j > k => pairs[j][side] # pairs[i][side]
           c == CHOOSE k \in DOMAIN pairs : Last(k)
<1>1. \A j \in DOMAIN pairs : pairs[j][side] = pairs[i][side] => j = i
  BY Zenon DEF Repeated
<1>2. Last(i)
  BY <1>1
<1>3. c \in DOMAIN pairs /\ Last(c)
  <2> HIDE DEF Last
  <2> QED
    BY Zenon, <1>2
<1>4. c = i
  BY Zenon, <1>1, <1>3
<1>5. Partner(pairs, side, pairs[i][side]) = pairs[c][3 - side]
  BY Zenon DEF Partner
<1> QED
  BY <1>4, <1>5, Zenon

(* NewStaticBiMap builds a map and its inverse, or nothing.                *)
LEMMA BuiltIsBiMap ==
  ASSUME NEW pairs \in Mappings, NEW b \in NewStaticBiMap(pairs)
  PROVE  IsBiMap(b)
<1>1. /\ DOMAIN pairs \subseteq Int
      /\ \A i \in DOMAIN pairs : pairs[i] \in Names \X Names
  <2>1. PICK n \in 0..MaxMappings : pairs \in [1..n -> Names \X Names]
    BY Zenon DEF Mappings
  <2> QED
    BY <2>1, TranslationAssumption
<1>2. ~Repeated(pairs, 1) /\ ~Repeated(pairs, 2) /\ b = BiMap(pairs)
  BY Zenon DEF NewStaticBiMap
<1>3. \A i \in DOMAIN pairs : /\ Partner(pairs, 1, pairs[i][1]) = pairs[i][2]
                              /\ Partner(pairs, 2, pairs[i][2]) = pairs[i][1]
  <2>1. 3 - 1 = 2 /\ 3 - 2 = 1
    OBVIOUS
  <2>2. ASSUME NEW i \in DOMAIN pairs PROVE Partner(pairs, 1, pairs[i][1]) = pairs[i][3 - 1]
    BY Zenon, <1>1, <1>2, PartnerIs
  <2>3. ASSUME NEW i \in DOMAIN pairs PROVE Partner(pairs, 2, pairs[i][2]) = pairs[i][3 - 2]
    BY Zenon, <1>1, <1>2, PartnerIs
  <2> QED
    BY Zenon, <2>1, <2>2, <2>3
<1>4. \A i \in DOMAIN pairs : pairs[i][1] \in Names /\ pairs[i][2] \in Names
  BY Zenon, <1>1
<1>5. /\ b.contents = [x \in {pairs[i][1] : i \in DOMAIN pairs} |-> Partner(pairs, 1, x)]
      /\ b.inverse = [x \in {pairs[i][2] : i \in DOMAIN pairs} |-> Partner(pairs, 2, x)]
  BY Zenon, <1>2 DEF BiMap, Contents
<1> QED
  BY <1>3, <1>4, <1>5 DEF IsBiMap, IsMapping

(* A name that is not ambiguous comes back.                                *)
LEMMA ThereAndBack ==
  ASSUME NEW b, IsBiMap(b), NEW n \in NameLike, Unambiguous(b, n)
  PROVE  Then(ByMapping(b.contents), ByMapping(b.inverse))[n] = n
<1> DEFINE o == createStringMatcher(b.contents, n)
<1>1. Then(ByMapping(b.contents), ByMapping(b.inverse))[n] = ByMapping(b.inverse)[o]
  BY Zenon DEF Then, ByMapping
<1>2. o \in NameLike
  BY Zenon DEF IsBiMap, IsMapping, createStringMatcher, NameLike
<1>3. ByMapping(b.inverse)[o] = createStringMatcher(b.inverse, o)
  BY Zenon, <1>2 DEF ByMapping
<1>4. createStringMatcher(b.inverse, o) = n
  BY Zenon DEF createStringMatcher, IsBiMap, Unambiguous
<1> QED
  BY <1>1, <1>3, <1>4, Zenon

(* What may cross is a message.                                            *)
LEMMA OneOrTwo ==
  /\ \A p : IsPart(p) => IsMessage(<<p>>)
  /\ \A p, q : IsPart(p) /\ IsPart(q) => IsMessage(<<p, q>>)
<1>1. ASSUME NEW p, IsPart(p) PROVE IsMessage(<<p>>)
  <2> DEFINE m == <<p>>
  <2>1. DOMAIN m = 1..1 /\ m[1] = p /\ m = [i \in DOMAIN m |-> m[i]]
    OBVIOUS
  <2> HIDE DEF m
  <2>2. IsMessage(m)
    BY <1>1, <2>1 DEF IsMessage
  <2> QED
    BY Zenon, <2>2 DEF m
<1>2. ASSUME NEW p, NEW q, IsPart(p), IsPart(q) PROVE IsMessage(<<p, q>>)
  <2> DEFINE m == <<p, q>>
  <2>1. DOMAIN m = 1..2 /\ m[1] = p /\ m[2] = q /\ m = [i \in DOMAIN m |-> m[i]]
    OBVIOUS
  <2> HIDE DEF m
  <2>2. \A i \in 1..2 : i = 1 \/ i = 2
    OBVIOUS
  <2>3. IsMessage(m)
    BY <1>2, <2>1, <2>2 DEF IsMessage
  <2> QED
    BY Zenon, <2>3 DEF m
<1> QED
  BY Zenon, <1>1, <1>2

(* The histories that may cross.                                           *)
LEMMA EventsAre ==
  /\ \A e \in Events : IsEvents(<<e>>) /\ IsEvents(<<Plain, e>>)
  /\ IsEvents(<<Plain>>)
<1>0. Names \subseteq NameLike /\ Absent \in NameLike
  BY Zenon DEF NameLike
<1>1. IsFields(NoFields)
  <2>1. DOMAIN NoFields = {} /\ NoFields = [k \in DOMAIN NoFields |-> NoFields[k]]
    BY DEF NoFields
  <2> QED
    BY Zenon, <2>1 DEF IsFields
<1>2. IsEvent(Plain)
  BY Zenon, <1>0, <1>1 DEF IsEvent, Plain
<1>3. ASSUME NEW e \in Events PROVE IsEvent(e)
  <2>1. CASE \E n \in Names : e = Event(n, Absent, NoFields)
    BY Zenon, <1>0, <1>1, <2>1 DEF IsEvent
  <2>2. CASE \E n \in Names : e = Event(Absent, n, NoFields)
    BY Zenon, <1>0, <1>1, <2>2 DEF IsEvent
  <2>3. CASE \E n \in Names : e = Event(Absent, Absent, [k \in {n} |-> {n}])
    <3>1. PICK n \in Names : e = Event(Absent, Absent, [k \in {n} |-> {n}])
      BY Zenon, <2>3
    <3> DEFINE f == [k \in {n} |-> {n}]
    <3>2. DOMAIN f = {n} /\ f = [k \in DOMAIN f |-> f[k]] /\ e = Event(Absent, Absent, f)
      BY <3>1, Zenon
    <3> HIDE DEF f
    <3>3. IsFields(f)
      BY Zenon, <1>0, <3>2 DEF IsFields
    <3> QED
      BY Zenon, <1>0, <3>2, <3>3 DEF IsEvent
  <2>4. \/ \E n \in Names : e = Event(n, Absent, NoFields)
        \/ \E n \in Names : e = Event(Absent, n, NoFields)
        \/ \E n \in Names : e = Event(Absent, Absent, [k \in {n} |-> {n}])
    <3> DEFINE A == {Event(n, Absent, NoFields) : n \in Names}
               B == {Event(Absent, n, NoFields) : n \in Names}
               C == {Event(Absent, Absent, [k \in {n} |-> {n}]) : n \in Names}
    <3>1. e \in A \/ e \in B \/ e \in C
      BY Zenon DEF Events
    <3>2. e \in A => \E n \in Names : e = Event(n, Absent, NoFields)
      BY Zenon
    <3>3. e \in B => \E n \in Names : e = Event(Absent, n, NoFields)
      BY Zenon
    <3>4. e \in C => \E n \in Names : e = Event(Absent, Absent, [k \in {n} |-> {n}])
      BY Zenon
    <3> HIDE DEF A, B, C
    <3> QED
      BY <3>1, <3>2, <3>3, <3>4, Zenon
  <2> QED
    BY <2>1, <2>2, <2>3, <2>4, Zenon
<1>4. ASSUME NEW e, IsEvent(e) PROVE IsEvents(<<e>>)
  <2> DEFINE es == <<e>>
  <2>1. DOMAIN es = 1..1 /\ es[1] = e /\ es = [i \in DOMAIN es |-> es[i]]
    OBVIOUS
  <2> HIDE DEF es
  <2>2. IsEvents(es)
    BY <1>4, <2>1 DEF IsEvents
  <2> QED
    BY Zenon, <2>2 DEF es
<1>5. ASSUME NEW e, NEW f, IsEvent(e), IsEvent(f) PROVE IsEvents(<<e, f>>)
  <2> DEFINE es == <<e, f>>
  <2>1. DOMAIN es = 1..2 /\ es[1] = e /\ es[2] = f /\ es = [i \in DOMAIN es |-> es[i]]
    OBVIOUS
  <2> HIDE DEF es
  <2>2. \A i \in 1..2 : i = 1 \/ i = 2
    OBVIOUS
  <2>3. IsEvents(es)
    BY Zenon, <1>5, <2>1, <2>2 DEF IsEvents
  <2> QED
    BY Zenon, <2>3 DEF es
<1> QED
  BY Zenon, <1>2, <1>3, <1>4, <1>5

(* Whatever may cross is a message.                                        *)
LEMMA CrossingAreMessages == \A m \in Crossing : IsMessage(m)
<1>0. Names \subseteq NameLike /\ Empty \in NameLike
  BY Zenon DEF NameLike
<1>1. \A p \in NameParts \cup {NamePart(Empty)} : IsPart(p)
  BY Zenon, <1>0 DEF IsPart, NameParts
<1>2. \A d \in BlobData : \A es : IsEvents(es) => IsPart(BlobPart(d, es))
  BY Zenon DEF IsPart
<1>3. \A p \in Blobs : IsPart(p)
  <2> SUFFICES ASSUME NEW p \in Blobs PROVE IsPart(p)
    BY Zenon
  <2> DEFINE A == {BlobPart(d, <<e>>) : d \in BlobData, e \in Events}
             B == {BlobPart("valid", <<Plain, e>>) : e \in Events}
  <2>1. p \in A \/ p \in B
    BY DEF Blobs
  <2>2. CASE p \in A
    <3>1. PICK d \in BlobData, e \in Events : p = BlobPart(d, <<e>>)
      BY <2>2
    <3> QED
      BY <1>2, <3>1, EventsAre, Zenon
  <2>3. CASE p \in B
    <3>1. PICK e \in Events : p = BlobPart("valid", <<Plain, e>>)
      BY <2>3, Zenon
    <3> QED
      BY <1>2, <3>1, EventsAre, Zenon DEF BlobData
  <2> HIDE DEF A, B
  <2> QED
    BY <2>1, <2>2, <2>3, Zenon
<1>4. ASSUME NEW K \in SUBSET Names PROVE IsPart(FieldsPart([k \in K |-> {k}]))
  <2> DEFINE f == [k \in K |-> {k}]
  <2>1. DOMAIN f = K /\ f = [k \in DOMAIN f |-> f[k]]
    BY Zenon
  <2> HIDE DEF f
  <2>2. IsFields(f)
    BY Zenon, <1>0, <2>1 DEF IsFields
  <2>3. IsPart(FieldsPart(f))
    BY Zenon, <2>2 DEF IsPart
  <2> QED
    BY Zenon, <2>3 DEF f
<1>5. \A d \in {"unrepaired", "corrupt"} : IsPart(BlobPart(d, <<Plain>>))
  BY Zenon, <1>2, EventsAre DEF BlobData
<1> SUFFICES ASSUME NEW m \in Crossing PROVE IsMessage(m)
  BY Zenon
<1> DEFINE FP == {FieldsPart([k \in K |-> {k}]) : K \in SUBSET Names}
           PP == NameParts \cup {NamePart(Empty)} \cup Blobs \cup FP
           A  == {<<p>> : p \in PP}
           B  == NameParts \X NameParts
           D  == {BlobPart(d, <<Plain>>) : d \in {"unrepaired", "corrupt"}}
           C  == D \X NameParts
<1>6. m \in A \/ m \in B \/ m \in C
  BY Zenon DEF Crossing
<1>7. \A p \in PP : IsPart(p)
  <2>1. \A p \in FP : IsPart(p)
    BY <1>4, Zenon
  <2> HIDE DEF FP
  <2> QED
    BY Zenon, <1>1, <1>3, <2>1
<1>8. CASE m \in A
  <2> HIDE DEF PP
  <2>1. PICK p \in PP : m = <<p>>
    BY Zenon, <1>8
  <2> QED
    BY Zenon, <1>7, <2>1, OneOrTwo
<1>9. CASE m \in B
  <2>1. \E p, q \in NameParts : m = <<p, q>>
    BY <1>9
  <2> QED
    BY Zenon, <1>1, <2>1, OneOrTwo
<1>10. CASE m \in C
  <2>1. \A p \in D : IsPart(p)
    BY Zenon, <1>5
  <2> HIDE DEF D
  <2>2. \E p \in D, q \in NameParts : m = <<p, q>>
    BY <1>10
  <2> QED
    BY Zenon, <1>1, <2>1, <2>2, OneOrTwo
<1> QED
  BY <1>6, <1>8, <1>9, <1>10, Zenon

(* How the names of namespaces are renamed on the way to the peer.         *)
NsThere == IF sent.disabled THEN NoRenaming ELSE ByMapping(biMaps.ns.contents)
(* The same of the search attributes.                                      *)
SaThere == IF sent.disabled \/ sent.public THEN NoRenaming ELSE ByMapping(biMaps.sa.contents)
(* The names on the way back.                                              *)
NsBack  == IF sent.disabled THEN NoRenaming ELSE ByMapping(biMaps.ns.inverse)
(* The search attributes on the way back.                                  *)
SaBack  == IF sent.disabled \/ sent.public THEN NoRenaming ELSE ByMapping(biMaps.sa.inverse)

(* The parts at the peer are what was sent, with its names renamed.        *)
TranslationInv ==
  /\ nsMappings \in Mappings /\ saMappings \in Mappings
  /\ IsBiMap(biMaps.ns) /\ IsBiMap(biMaps.sa)
  /\ IsMessage(sent.parts)
  /\ whereabouts \in {"config", "local"} => parts = sent.parts
  /\ whereabouts = "peer" => Renamed(sent.parts, parts, NsThere, SaThere)
  /\ whereabouts # "listed" => listed = {}
  /\ checked => whereabouts \in {"back", "denied"}
  /\ NamesReturn
  /\ LocalNamesDecide

(* The invariant holds before the proxy is configured.                     *)
LEMMA TranslationInitInv == TranslationInit => TranslationInv
<1> SUFFICES ASSUME TranslationInit PROVE TranslationInv
  BY Zenon
<1> USE DEF TranslationInit
<1>1. IsBiMap(NoBiMap)
  BY DEF IsBiMap, IsMapping, NoBiMap
<1>2. IsBiMap(biMaps.ns) /\ IsBiMap(biMaps.sa)
  BY Zenon, <1>1
<1>3. IsMessage(sent.parts)
  <2>1. sent.parts \in Crossing
    BY Zenon
  <2> QED
    BY Zenon, <2>1, CrossingAreMessages
<1>4. NamesReturn /\ LocalNamesDecide
  BY Zenon DEF NamesReturn, LocalNamesDecide
<1> QED
  BY Zenon, <1>2, <1>3, <1>4 DEF TranslationInv

(* The renamings of the connection are renamings.                          *)
LEMMA RenamingsNow ==
  ASSUME TranslationInv
  PROVE  /\ NsThere \in Renamings /\ SaThere \in Renamings
         /\ NsBack \in Renamings /\ SaBack \in Renamings
<1>1. /\ IsMapping(biMaps.ns.contents) /\ IsMapping(biMaps.ns.inverse)
      /\ IsMapping(biMaps.sa.contents) /\ IsMapping(biMaps.sa.inverse)
  BY Zenon DEF TranslationInv, IsBiMap
<1> QED
  BY Zenon, <1>1, RenamingsAre DEF NsThere, SaThere, NsBack, SaBack

(* A call or a stream towards the peer, and one back.                      *)
LEMMA Outbound ==
  ASSUME TranslationInv, NEW m, IsMessage(m), NEW s \in Services
  PROVE  /\ Renamed(m, InterceptRequest("outbound", s, m), NsThere, SaThere)
         /\ Renamed(m, InterceptResponse("inbound", s, m), NsThere, SaThere)
         /\ Streamed => Renamed(m, InterceptStream("inbound", FALSE, m), NsThere, SaThere)
<1>1. IsMapping(biMaps.ns.contents) /\ IsMapping(biMaps.sa.contents)
  BY Zenon DEF TranslationInv, IsBiMap
<1>2. CASE sent.disabled
  <2>1. /\ InterceptRequest("outbound", s, m) = m /\ InterceptResponse("inbound", s, m) = m
        /\ NsThere = NoRenaming /\ SaThere = NoRenaming /\ ~Streamed
    BY Zenon, <1>2 DEF InterceptRequest, InterceptResponse, NsThere, SaThere, Streamed
  <2>2. Renamed(m, m, NoRenaming, NoRenaming)
    BY Zenon, UntouchedIsRenamed
  <2> QED
    BY <2>1, <2>2, Zenon
<1>3. CASE ~sent.disabled
  <2> DEFINE T(service) ==
               saTranslator(namespaceTranslator(m, biMaps.ns.contents), service, biMaps.sa.contents)
  <2>1. /\ InterceptRequest("outbound", s, m) = T(s)
        /\ InterceptResponse("inbound", s, m) = T(s)
        /\ InterceptStream("inbound", FALSE, m) = T("admin")
    BY Zenon, <1>3 DEF InterceptRequest, InterceptResponse, InterceptStream, TranslateRequest,
                TranslateResponse, requestMap, responseMap
  <2>2. \A service : Renamed(m, T(service), ByMapping(biMaps.ns.contents),
                             BySearchAttributes(service, biMaps.sa.contents))
    BY Zenon, <1>1, Translated
  <2> HIDE DEF T
  <2>3. NsThere = ByMapping(biMaps.ns.contents)
          /\ SaThere = BySearchAttributes(s, biMaps.sa.contents)
    BY Zenon, <1>3 DEF NsThere, SaThere, BySearchAttributes, Services
  <2>4. Streamed => SaThere = BySearchAttributes("admin", biMaps.sa.contents)
    BY Zenon, <1>3 DEF Streamed, SaThere, BySearchAttributes
  <2> QED
    BY <2>1, <2>2, <2>3, <2>4, Zenon
<1> QED
  BY <1>2, <1>3, Zenon

(* A call or a stream from the peer, and the answer to one towards it.     *)
LEMMA Inbound ==
  ASSUME TranslationInv, NEW m, IsMessage(m), NEW s \in Services
  PROVE  /\ Renamed(m, InterceptResponse("outbound", s, m), NsBack, SaBack)
         /\ Renamed(m, InterceptRequest("inbound", s, m), NsBack, SaBack)
         /\ Streamed => Renamed(m, InterceptStream("outbound", FALSE, m), NsBack, SaBack)
<1>1. IsMapping(biMaps.ns.inverse) /\ IsMapping(biMaps.sa.inverse)
  BY Zenon DEF TranslationInv, IsBiMap
<1>2. CASE sent.disabled
  <2>1. /\ InterceptResponse("outbound", s, m) = m /\ InterceptRequest("inbound", s, m) = m
        /\ NsBack = NoRenaming /\ SaBack = NoRenaming /\ ~Streamed
    BY Zenon, <1>2 DEF InterceptRequest, InterceptResponse, NsBack, SaBack, Streamed
  <2>2. Renamed(m, m, NoRenaming, NoRenaming)
    BY Zenon, UntouchedIsRenamed
  <2> QED
    BY <2>1, <2>2, Zenon
<1>3. CASE ~sent.disabled
  <2> DEFINE T(service) ==
               saTranslator(namespaceTranslator(m, biMaps.ns.inverse), service, biMaps.sa.inverse)
  <2>1. /\ InterceptResponse("outbound", s, m) = T(s)
        /\ InterceptRequest("inbound", s, m) = T(s)
        /\ InterceptStream("outbound", FALSE, m) = T("admin")
    BY Zenon, <1>3 DEF InterceptRequest, InterceptResponse, InterceptStream, TranslateRequest,
                TranslateResponse, requestMap, responseMap
  <2>2. \A service : Renamed(m, T(service), ByMapping(biMaps.ns.inverse),
                             BySearchAttributes(service, biMaps.sa.inverse))
    BY Zenon, <1>1, Translated
  <2> HIDE DEF T
  <2>3. NsBack = ByMapping(biMaps.ns.inverse) /\ SaBack = BySearchAttributes(s, biMaps.sa.inverse)
    BY Zenon, <1>3 DEF NsBack, SaBack, BySearchAttributes, Services
  <2>4. Streamed => SaBack = BySearchAttributes("admin", biMaps.sa.inverse)
    BY Zenon, <1>3 DEF Streamed, SaBack, BySearchAttributes
  <2> QED
    BY <2>1, <2>2, <2>3, <2>4, Zenon
<1> QED
  BY <1>2, <1>3, Zenon

(* What went there and back is as it was, unless a name is ambiguous.      *)
Ambiguous ==
  /\ ~sent.disabled
  /\ \E i \in DOMAIN sent.parts :
       \/ \E n \in NamesAt(sent.parts[i]) : ~Unambiguous(biMaps.ns, n)
       \/ \E n \in FieldsAt(sent.parts[i]) : ~Unambiguous(biMaps.sa, n)

(* The names in a part may stand in the place of a name.                   *)
LEMMA NamesAre ==
  ASSUME NEW p, IsPart(p)
  PROVE  NamesAt(p) \subseteq NameLike /\ FieldsAt(p) \subseteq NameLike
<1>1. CASE p.kind = "name"
  BY Zenon, <1>1, PartIs DEF NamesAt, FieldsAt, HasEvents
<1>2. CASE p.kind = "fields"
  <2>1. NamesAt(p) = {} /\ FieldsAt(p) = DOMAIN p.fields
    BY Zenon, <1>2 DEF NamesAt, FieldsAt, HasEvents
  <2>2. IsFields(p.fields)
    BY <1>2, PartIs, Zenon
  <2> QED
    BY Zenon, <2>1, <2>2 DEF IsFields
<1>3. CASE p.kind = "blob" /\ p.data = "unrepaired"
  BY Zenon, <1>3 DEF NamesAt, FieldsAt, HasEvents
<1>4. CASE p.kind = "blob" /\ p.data # "unrepaired"
  <2> DEFINE es == p.events
             U == UNION {{es[j].name, es[j].link} : j \in DOMAIN es}
             V == UNION {DOMAIN es[j].fields : j \in DOMAIN es}
  <2>1. NamesAt(p) = U \ {Absent} /\ FieldsAt(p) = V
    BY <1>4, Zenon DEF NamesAt, FieldsAt, HasEvents
  <2>2. \A x \in U : \E j \in DOMAIN es : x \in {es[j].name, es[j].link}
    BY Zenon
  <2>3. \A x \in V : \E j \in DOMAIN es : x \in DOMAIN es[j].fields
    BY Zenon
  <2>4. IsEvents(es)
    BY Zenon, <1>4, PartIs
  <2> HIDE DEF es, U, V
  <2>5. ASSUME NEW j \in DOMAIN es
        PROVE  /\ es[j].name \in NameLike /\ es[j].link \in NameLike
               /\ DOMAIN es[j].fields \subseteq NameLike
    <3>1. IsEvent(es[j])
      BY Zenon, <2>4 DEF IsEvents
    <3>2. es[j].name \in NameLike /\ es[j].link \in NameLike /\ IsFields(es[j].fields)
      BY <3>1, EventIs, Zenon
    <3> QED
      BY Zenon, <3>2 DEF IsFields
  <2> QED
    BY <2>1, <2>2, <2>3, <2>5
<1> QED
  BY Zenon, <1>1, <1>2, <1>3, <1>4, PartIs

(* What was renamed there and back is as it was.                           *)
LEMMA CameBack ==
  ASSUME TranslationInv, NEW m, Renamed(sent.parts, m, Then(NsThere, NsBack), Then(SaThere,
           SaBack)),
         ~Ambiguous
  PROVE  Repaired(m) = Repaired(sent.parts)
<1> DEFINE F == Then(NsThere, NsBack)
           G == Then(SaThere, SaBack)
<1>1. F \in Renamings /\ G \in Renamings
  BY Zenon, RenamingsNow, RenamingsAre
<1>2. IsMessage(sent.parts)
  BY Zenon DEF TranslationInv
<1>3. \A x \in NameLike : Then(NoRenaming, NoRenaming)[x] = x
  BY Zenon DEF Then, NoRenaming
<1>4. ASSUME NEW i \in DOMAIN sent.parts
      PROVE  /\ \A x \in NamesAt(sent.parts[i]) : F[x] = x
             /\ \A k \in FieldsAt(sent.parts[i]) : G[k] = k
  <2>1. NamesAt(sent.parts[i]) \subseteq NameLike /\ FieldsAt(sent.parts[i]) \subseteq NameLike
    BY Zenon, <1>2, NamesAre DEF IsMessage
  <2>2. IsBiMap(biMaps.ns) /\ IsBiMap(biMaps.sa)
    BY Zenon DEF TranslationInv
  <2>3. CASE sent.disabled
    <3>1. F = Then(NoRenaming, NoRenaming) /\ G = Then(NoRenaming, NoRenaming)
      BY Zenon, <2>3 DEF NsThere, NsBack, SaThere, SaBack
    <3> HIDE DEF F, G
    <3> QED
      BY Zenon, <1>3, <2>1, <3>1
  <2>4. CASE ~sent.disabled
    <3>1. /\ \A x \in NamesAt(sent.parts[i]) : Unambiguous(biMaps.ns, x)
          /\ \A k \in FieldsAt(sent.parts[i]) : Unambiguous(biMaps.sa, k)
      BY Zenon, <2>4 DEF Ambiguous
    <3>2. F = Then(ByMapping(biMaps.ns.contents), ByMapping(biMaps.ns.inverse))
      BY Zenon, <2>4 DEF NsThere, NsBack
    <3>3. \A x \in NamesAt(sent.parts[i]) : F[x] = x
      <4> HIDE DEF F
      <4> QED
        BY Zenon, <2>1, <2>2, <3>1, <3>2, ThereAndBack
    <3>4. \A k \in FieldsAt(sent.parts[i]) : G[k] = k
      <4>1. CASE sent.public
        <5>1. G = Then(NoRenaming, NoRenaming)
          BY Zenon, <4>1 DEF SaThere, SaBack
        <5> HIDE DEF G
        <5> QED
          BY Zenon, <1>3, <2>1, <5>1
      <4>2. CASE ~sent.public
        <5>1. G = Then(ByMapping(biMaps.sa.contents), ByMapping(biMaps.sa.inverse))
          BY Zenon, <2>4, <4>2 DEF SaThere, SaBack
        <5> HIDE DEF G
        <5> QED
          BY Zenon, <2>1, <2>2, <3>1, <5>1, ThereAndBack
      <4> QED
        BY Zenon, <4>1, <4>2
    <3> QED
      BY Zenon, <3>3, <3>4
  <2> QED
    BY Zenon, <2>3, <2>4
<1> HIDE DEF F, G
<1>5. Renamed(sent.parts, m, F, G)
  BY Zenon DEF F, G
<1> QED
  BY <1>1, <1>2, <1>4, <1>5, RenamedFixed

(* So is what comes back from the peer.                                    *)
LEMMA ReturnInv ==
  ASSUME TranslationInv, whereabouts = "peer", NEW m, Renamed(parts, m, NsBack, SaBack)
  PROVE  Ambiguous \/ Repaired(m) = Repaired(sent.parts)
<1>1. IsMessage(sent.parts) /\ Renamed(sent.parts, parts, NsThere, SaThere)
  BY Zenon DEF TranslationInv
<1>2. /\ NsThere \in Renamings /\ SaThere \in Renamings
      /\ NsBack \in Renamings /\ SaBack \in Renamings
  BY Zenon, RenamingsNow
<1>3. Renamed(sent.parts, m, Then(NsThere, NsBack), Then(SaThere, SaBack))
  BY Zenon, <1>1, <1>2, RenamedTwice
<1> QED
  BY Zenon, <1>3, CameBack

(* The handler passes a message on.                                        *)
LEMMA HandlerPasses ==
  ASSUME NEW s \in Services, NEW m
  PROVE  Handler(s, m) = m
  BY Zenon DEF Services, Handler, workflowServiceProxyServer, adminServiceProxyServer,
         operatorServiceProxyServer

(* A request that passes the access control.                               *)
LEMMA AccessControlled ==
  ASSUME NEW m, IsMessage(m), NEW s, NEW inList, NEW n \in AccessControl(s, inList, m)
  PROVE  /\ Renamed(m, n, NoRenaming, NoRenaming)
         /\ aclPolicy.enabled =>
              \A i \in DOMAIN n : /\ n[i].kind = "blob" => n[i].data \in {"valid", "unrepaired"}
                                  /\ \A x \in NamesAt(n[i]) : IsAllowed(x)
<1>1. CASE ~aclPolicy.enabled
  <2>1. n = m
    BY Zenon, <1>1 DEF AccessControl
  <2> QED
    BY <1>1, <2>1, UntouchedIsRenamed, Zenon
<1>2. CASE aclPolicy.enabled
  <2>1. isNamespaceAccessAllowed(m) /\ n = visitNamespace(m, <<>>)
    BY Zenon, <1>2 DEF AccessControl
  <2>2. Renamed(m, n, NoRenaming, NoRenaming)
    BY <2>1, EmptyMapping, VisitNamespace, Zenon
  <2>3. DOMAIN n = DOMAIN m
    BY <2>2, Zenon DEF Renamed
  <2>4. ASSUME NEW i \in DOMAIN m
        PROVE  /\ n[i].kind = "blob" => n[i].data \in {"valid", "unrepaired"}
               /\ \A x \in NamesAt(n[i]) : IsAllowed(x)
    <3>1. Visited(m, i) /\ \A x \in NamesAt(m[i]) : IsAllowed(x)
      BY <2>1, Zenon DEF isNamespaceAccessAllowed
    <3>2. IsPart(m[i]) /\ \A x : createStringMatcher(<<>>, x) = x
      BY DEF IsMessage, createStringMatcher
    <3>3. CASE m[i].kind = "name"
      <4>1. m[i] = NamePart(m[i].name)
        BY <3>2, <3>3, PartIs, Zenon
      <4>2. n[i] = [m[i] EXCEPT !.name = createStringMatcher(<<>>, @)]
        BY <2>1, <3>1, <3>3, Zenon DEF visitNamespace
      <4>3. n[i] = NamePart(m[i].name)
        BY Zenon, <3>2, <4>1, <4>2 DEF NamePart
      <4> QED
        BY Zenon, <3>1, <3>3, <4>1, <4>3
    <3>4. CASE m[i].kind = "fields"
      <4>1. n[i] = m[i]
        <5> DEFINE X == [m[i] EXCEPT !.name = createStringMatcher(<<>>, @)]
                   Y == translateOneDataBlob(m[i], visitEvents(m[i].events, <<>>))
        <5>1. n[i] = CASE Visited(m, i) /\ m[i].kind = "name" -> X
                       [] Visited(m, i) /\ m[i].kind = "blob" -> Y
                       [] OTHER -> m[i]
          BY <2>1, Zenon DEF visitNamespace
        <5> HIDE DEF X, Y
        <5> QED
          BY Zenon, <3>4, <5>1
      <4> QED
        BY Zenon, <3>1, <3>4, <4>1
    <3>5. CASE m[i].kind = "blob" /\ m[i].data = "unrepaired"
      <4>1. n[i] = m[i]
        <5> DEFINE X == [m[i] EXCEPT !.name = createStringMatcher(<<>>, @)]
                   Y == translateOneDataBlob(m[i], visitEvents(m[i].events, <<>>))
        <5>1. n[i] = CASE Visited(m, i) /\ m[i].kind = "name" -> X
                       [] Visited(m, i) /\ m[i].kind = "blob" -> Y
                       [] OTHER -> m[i]
          BY <2>1, Zenon DEF visitNamespace
        <5>2. Y = m[i]
          BY Zenon, <3>5 DEF translateOneDataBlob
        <5> HIDE DEF X, Y
        <5> QED
          BY Zenon, <3>5, <5>1, <5>2
      <4> QED
        BY Zenon, <3>1, <3>5, <4>1
    <3>6. CASE m[i].kind = "blob" /\ m[i].data # "unrepaired"
      <4> DEFINE es == visitEvents(m[i].events, <<>>)
      <4>1. IsEvents(m[i].events) /\ m[i] = BlobPart(m[i].data, m[i].events)
        BY <3>2, <3>6, PartIs, Zenon
      <4>2. n[i] = translateOneDataBlob(m[i], es)
        <5> DEFINE X == [m[i] EXCEPT !.name = createStringMatcher(<<>>, @)]
                   Y == translateOneDataBlob(m[i], es)
        <5>1. n[i] = CASE Visited(m, i) /\ m[i].kind = "name" -> X
                       [] Visited(m, i) /\ m[i].kind = "blob" -> Y
                       [] OTHER -> m[i]
          BY <2>1, Zenon DEF visitNamespace
        <5> HIDE DEF X, Y
        <5>2. n[i] = Y
          BY Zenon, <3>1, <3>6, <5>1
        <5> QED
          BY Zenon, <5>2 DEF Y
      <4>3. n[i] = BlobPart("valid", es)
        <5> HIDE DEF es
        <5> QED
          BY <3>6, <4>1, <4>2, VisitBlob
      <4>4. es = RenameEvents(m[i].events, NoRenaming, NoRenaming)
        BY <4>1, EmptyMapping, VisitEvents, Zenon
      <4>5. es = m[i].events
        BY <4>1, <4>4, EventsUntouched, Zenon
      <4> HIDE DEF es
      <4>6. NamesAt(n[i]) = NamesAt(m[i])
        <5> DEFINE Of(events) ==
                     (UNION {{events[j].name, events[j].link} : j \in DOMAIN events}) \ {Absent}
        <5>1. n[i].kind = "blob" /\ n[i].data # "unrepaired" /\ n[i].events = m[i].events
          BY <4>3, <4>5, PartFields
        <5>2. NamesAt(m[i]) = Of(m[i].events)
          BY <3>6, Zenon DEF NamesAt, HasEvents
        <5>3. NamesAt(n[i]) = Of(n[i].events)
          BY <5>1, Zenon DEF NamesAt, HasEvents
        <5> HIDE DEF Of
        <5> QED
          BY Zenon, <5>1, <5>2, <5>3
      <4> QED
        BY <3>1, <4>3, <4>6, PartFields
    <3> QED
      BY Zenon, <3>2, <3>3, <3>4, <3>5, <3>6, PartIs
  <2> QED
    BY <2>2, <2>3, <2>4, Zenon
<1> QED
  BY <1>1, <1>2, Zenon

(* Every step of the translation preserves the invariant.                  *)
LEMMA TranslationStepInv == TranslationInv /\ [TranslationNext]_translationVars => TranslationInv'
<1> SUFFICES ASSUME TranslationInv, [TranslationNext]_translationVars PROVE TranslationInv'
  BY Zenon
<1>0. /\ IsMessage(sent.parts)
      /\ NamesReturn = (whereabouts = "back" => Ambiguous \/ Repaired(parts) = Repaired(sent.parts))
  BY Zenon DEF TranslationInv, NamesReturn, Ambiguous
<1>1. CASE BuildTranslations
  <2> USE <1>1 DEF BuildTranslations
  <2>1. /\ whereabouts = "config" /\ whereabouts' \in {"local", "refused"}
        /\ UNCHANGED <<nsMappings, saMappings, sent, parts, checked, listed>>
    BY Zenon
  <2>2. IsBiMap(biMaps'.ns) /\ IsBiMap(biMaps'.sa)
    <3>1. nsMappings \in Mappings /\ saMappings \in Mappings /\ IsBiMap(biMaps.ns)
            /\ IsBiMap(biMaps.sa)
      BY Zenon DEF TranslationInv
    <3>2. CASE \E ns \in NewStaticBiMap(nsMappings), sa \in NewStaticBiMap(saMappings) :
                 biMaps' = [ns |-> ns, sa |-> sa]
      <4>1. PICK ns \in NewStaticBiMap(nsMappings), sa \in NewStaticBiMap(saMappings) :
                   biMaps' = [ns |-> ns, sa |-> sa]
        BY Zenon, <3>2
      <4>2. IsBiMap(ns) /\ IsBiMap(sa)
        BY Zenon, <3>1, BuiltIsBiMap
      <4> QED
        BY Zenon, <4>1, <4>2
    <3>3. CASE UNCHANGED biMaps
      BY Zenon, <3>1, <3>3
    <3> QED
      BY Zenon, <3>2, <3>3
  <2>3. listed = {} /\ ~checked
    BY Zenon, <2>1 DEF TranslationInv
  <2>4. NamesReturn' /\ LocalNamesDecide'
    BY Zenon, <2>1, <2>3 DEF NamesReturn, LocalNamesDecide
  <2> QED
    BY <2>1, <2>2, <2>3, <2>4 DEF TranslationInv
<1>2. ASSUME UNCHANGED <<nsMappings, saMappings, biMaps, aclPolicy, aliased, sent>>
      PROVE  /\ nsMappings' \in Mappings /\ saMappings' \in Mappings
             /\ IsBiMap(biMaps.ns)' /\ IsBiMap(biMaps.sa)' /\ IsMessage(sent.parts)'
             /\ NsThere' = NsThere /\ SaThere' = SaThere
             /\ Ambiguous' = Ambiguous
             /\ \A n : IsAllowed(n)' = IsAllowed(n)
             /\ \A n : PeerName(n)' = PeerName(n)
  BY <1>2, Zenon DEF TranslationInv, NsThere, SaThere, Ambiguous, IsAllowed, PeerName,
     Unambiguous
<1>3. CASE CallPeer
  <2> USE <1>3 DEF CallPeer
  <2>1. /\ whereabouts = "local" /\ whereabouts' = "peer"
        /\ UNCHANGED <<nsMappings, saMappings, biMaps, aclPolicy, aliased, sent, checked, listed>>
    BY Zenon
  <2>2. parts = sent.parts /\ ~checked /\ listed = {}
    BY Zenon, <2>1 DEF TranslationInv
  <2>3. \E s \in Services : \/ parts' = InterceptRequest("outbound", s, parts)
                            \/ parts' = InterceptResponse("inbound", s, parts)
                            \/ Streamed /\ parts' = InterceptStream("inbound", FALSE, parts)
    <3>1. CASE \E s \in Services : parts' = Handler(s, InterceptRequest("outbound", s, parts))
      <4>1. PICK s \in Services : parts' = Handler(s, InterceptRequest("outbound", s, parts))
        BY ONLY <3>1
      <4>2. parts' = InterceptRequest("outbound", s, parts)
        BY ONLY <4>1, HandlerPasses, Zenon
      <4> QED
        BY ONLY <4>2, Zenon
    <3>2. CASE \E s \in Services : parts' = InterceptResponse("inbound", s, Handler(s, parts))
      <4>1. PICK s \in Services : parts' = InterceptResponse("inbound", s, Handler(s, parts))
        BY ONLY <3>2
      <4>2. parts' = InterceptResponse("inbound", s, parts)
        BY ONLY <4>1, HandlerPasses, Zenon
      <4> QED
        BY ONLY <4>2, Zenon
    <3>3. CASE Streamed /\ Stream("inbound")
      <4>1. "admin" \in Services
        BY Zenon, <3>3 DEF Streamed, Services
      <4>2. parts' = InterceptStream("inbound", FALSE, parts)
        BY Zenon, <3>3 DEF Stream, InterceptStream
      <4> QED
        BY Zenon, <3>3, <4>1, <4>2
    <3> QED
      BY <3>1, <3>2, <3>3, Zenon
  <2>4. Renamed(sent.parts, parts', NsThere, SaThere)
    BY <1>0, <2>2, <2>3, Outbound, Zenon
  <2>5. NamesReturn' /\ LocalNamesDecide'
    BY Zenon, <2>1, <2>2 DEF NamesReturn, LocalNamesDecide
  <2>6. Renamed(sent.parts, parts, NsThere, SaThere)'
    BY Zenon, <1>2, <2>1, <2>4
  <2> QED
    <3>1. ~checked' /\ listed' = {}
      BY ONLY <2>1, <2>2
    <3> QED
      BY Zenon, <1>2, <2>1, <2>5, <2>6, <3>1 DEF TranslationInv
<1>4. ASSUME whereabouts = "peer", whereabouts' = "back",
             UNCHANGED <<nsMappings, saMappings, biMaps, aclPolicy, aliased, sent, listed>>,
             Renamed(parts, parts', NsBack, SaBack),
             checked' /\ aclPolicy.enabled =>
               \A i \in DOMAIN parts' :
                 /\ parts'[i].kind = "blob" => parts'[i].data \in {"valid", "unrepaired"}
                 /\ \A n \in NamesAt(parts'[i]) : IsAllowed(n)
      PROVE  TranslationInv'
  <2>1. listed = {}
    BY Zenon, <1>4 DEF TranslationInv
  <2>2. Ambiguous \/ Repaired(parts') = Repaired(sent.parts)
    BY Zenon, <1>4, ReturnInv
  <2>3. NamesReturn'
    BY <1>2, <1>4, <2>2, Zenon DEF NamesReturn, Ambiguous
  <2>4. LocalNamesDecide'
    BY Zenon, <1>2, <1>4, <2>1 DEF LocalNamesDecide
  <2> QED
    BY Zenon, <1>2, <1>4, <2>1, <2>3, <2>4 DEF TranslationInv
<1>5. IsMessage(parts) \/ whereabouts # "peer"
  <2> SUFFICES ASSUME whereabouts = "peer" PROVE IsMessage(parts)
    BY Zenon
  <2>1. Renamed(sent.parts, parts, NsThere, SaThere) /\ NsThere \in Renamings
          /\ SaThere \in Renamings
    <3>1. Renamed(sent.parts, parts, NsThere, SaThere)
      BY Zenon DEF TranslationInv
    <3> QED
      BY Zenon, <3>1, RenamingsNow
  <2> QED
    BY Zenon, <1>0, <2>1, RenamedVisited
<1>6. CASE PeerReturns
  <2> USE <1>6 DEF PeerReturns
  <2>1. /\ whereabouts = "peer" /\ whereabouts' = "back"
        /\ UNCHANGED <<nsMappings, saMappings, biMaps, aclPolicy, aliased, sent, checked, listed>>
    BY Zenon
  <2>2. ~checked /\ IsMessage(parts)
    BY Zenon, <1>5, <2>1 DEF TranslationInv
  <2>3. \E s \in Services : \/ parts' = InterceptResponse("outbound", s, parts)
                            \/ Streamed /\ parts' = InterceptStream("outbound", FALSE, parts)
    <3>1. CASE \E s \in Services : parts' = InterceptResponse("outbound", s, Handler(s, parts))
      <4>1. PICK s \in Services : parts' = InterceptResponse("outbound", s, Handler(s, parts))
        BY ONLY <3>1
      <4>2. parts' = InterceptResponse("outbound", s, parts)
        BY ONLY <4>1, HandlerPasses, Zenon
      <4> QED
        BY ONLY <4>2, Zenon
    <3>2. CASE Streamed /\ Stream("outbound")
      <4>1. "admin" \in Services
        BY Zenon, <3>2 DEF Streamed, Services
      <4>2. parts' = InterceptStream("outbound", FALSE, parts)
        BY Zenon, <3>2 DEF Stream, InterceptStream
      <4> QED
        BY Zenon, <3>2, <4>1, <4>2
    <3> QED
      BY <3>1, <3>2, Zenon
  <2>4. Renamed(parts, parts', NsBack, SaBack)
    BY <2>2, <2>3, Inbound, Zenon
  <2> QED
    BY <1>4, <2>1, <2>2, <2>4
<1>7. CASE PeerCalls
  <2> USE <1>7 DEF PeerCalls
  <2>1. /\ whereabouts = "peer" /\ checked' = TRUE
        /\ UNCHANGED <<nsMappings, saMappings, biMaps, aclPolicy, aliased, sent, listed>>
    BY Zenon
  <2>2. IsMessage(parts) /\ listed = {}
    BY Zenon, <1>5, <2>1 DEF TranslationInv
  <2>3. PICK s \in Services, inList \in BOOLEAN :
               \/ \E m \in InboundRequest(s, inList, parts) : parts' = Handler(s, m)
                    /\ whereabouts' = "back"
               \/ whereabouts' = "denied" /\ UNCHANGED parts
    BY Zenon
  <2>4. CASE \E m \in InboundRequest(s, inList, parts) : parts' = Handler(s, m)
               /\ whereabouts' = "back"
    <3> DEFINE r == InterceptRequest("inbound", s, parts)
    <3>1. parts' \in AccessControl(s, inList, r) /\ whereabouts' = "back"
      BY Zenon, <2>4, HandlerPasses DEF InboundRequest
    <3>2. Renamed(parts, r, NsBack, SaBack) /\ NsBack \in Renamings /\ SaBack \in Renamings
      BY <2>2, Inbound, RenamingsNow, Zenon
    <3> HIDE DEF r
    <3>3. IsMessage(r)
      BY Zenon, <2>2, <3>2, RenamedVisited
    <3>4. /\ Renamed(r, parts', NoRenaming, NoRenaming)
          /\ aclPolicy.enabled =>
               \A i \in DOMAIN parts' :
                 /\ parts'[i].kind = "blob" => parts'[i].data \in {"valid", "unrepaired"}
                 /\ \A x \in NamesAt(parts'[i]) : IsAllowed(x)
      BY Zenon, <3>1, <3>3, AccessControlled
    <3>5. Renamed(parts, parts', Then(NsBack, NoRenaming), Then(SaBack, NoRenaming))
      BY Zenon, <2>2, <3>2, <3>4, RenamedTwice, RenamingsAre
    <3>6. Renamed(parts, parts', NsBack, SaBack)
      BY Zenon, <3>2, <3>5, ThenNothing
    <3> QED
      BY Zenon, <1>4, <2>1, <3>1, <3>4, <3>6
  <2>5. CASE whereabouts' = "denied" /\ UNCHANGED parts
    <3>1. NamesReturn' /\ LocalNamesDecide'
      <4>1. whereabouts' # "back" /\ listed' = {}
        BY Zenon, <2>1, <2>2, <2>5
      <4> QED
        BY ONLY <4>1, Zenon DEF NamesReturn, LocalNamesDecide
    <3> QED
      BY Zenon, <1>2, <2>1, <2>2, <2>5, <3>1 DEF TranslationInv
  <2> QED
    BY Zenon, <2>3, <2>4, <2>5
<1>8. CASE ListNamespaces
  <2> USE <1>8 DEF ListNamespaces
  <2>1. /\ whereabouts = "local" /\ whereabouts' = "listed" /\ sent.public
        /\ UNCHANGED <<nsMappings, saMappings, biMaps, aclPolicy, aliased, sent, parts, checked>>
        /\ listed' = {Entry(n, FALSE) : n \in {l \in NamesIn(parts) : aclPolicy.enabled
             => IsAllowed(l)}}
    BY Zenon
  <2>2. parts = sent.parts /\ ~checked
    BY Zenon, <2>1 DEF TranslationInv
  <2>3. ASSUME NEW e \in listed'
        PROVE  \E n \in NamesIn(sent.parts) :
                 e.name = PeerName(n) /\ (aclPolicy.enabled => IsAllowed(n)) /\ e.aliases = FALSE
    <3>1. PICK n \in NamesIn(parts) : (aclPolicy.enabled => IsAllowed(n)) /\ e = Entry(n, FALSE)
      BY <2>1, Zenon
    <3>2. e.name = PeerName(n) /\ e.aliases = FALSE
      BY Zenon, <3>1 DEF Entry
    <3> QED
      BY <2>2, <3>1, <3>2, Zenon
  <2>4. LocalNamesDecide'
    <3>1. ASSUME NEW e \in listed'
          PROVE  \E n \in NamesIn(sent'.parts) :
                   /\ e.name = PeerName(n)'
                   /\ sent'.public /\ aclPolicy'.enabled => IsAllowed(n)'
                   /\ e.aliases => n \in aliased'
      <4>1. PICK n \in NamesIn(sent.parts) :
                   e.name = PeerName(n) /\ (aclPolicy.enabled => IsAllowed(n)) /\ e.aliases = FALSE
        BY ONLY <2>3, Zenon
      <4>2. /\ n \in NamesIn(sent'.parts) /\ PeerName(n)' = PeerName(n)
                 /\ IsAllowed(n)' = IsAllowed(n)
            /\ aclPolicy' = aclPolicy
        BY Zenon, <1>2, <2>1
      <4> QED
        BY ONLY <4>1, <4>2, Zenon
    <3>2. ~checked'
      BY <2>1, <2>2
    <3> QED
      BY ONLY <3>1, <3>2, Zenon DEF LocalNamesDecide
  <2>5. NamesReturn'
    BY Zenon, <2>1 DEF NamesReturn
  <2> QED
    <3>1. ~checked'
      BY ONLY <2>1, <2>2
    <3> QED
      BY Zenon, <1>2, <2>1, <2>4, <2>5, <3>1 DEF TranslationInv
<1>9. CASE GetNamespaceReplicationMessages
  <2> USE <1>9 DEF GetNamespaceReplicationMessages
  <2>1. /\ whereabouts = "local" /\ whereabouts' = "listed" /\ ~sent.public
        /\ UNCHANGED <<nsMappings, saMappings, biMaps, aclPolicy, aliased, sent, parts, checked>>
        /\ listed' = {Entry(n, n \in aliased) : n \in NamesIn(parts)}
    BY Zenon
  <2>2. parts = sent.parts /\ ~checked
    BY Zenon, <2>1 DEF TranslationInv
  <2>3. ASSUME NEW e \in listed'
        PROVE  \E n \in NamesIn(sent.parts) : e.name = PeerName(n) /\ (e.aliases => n \in aliased)
    <3>1. PICK n \in NamesIn(parts) : e = Entry(n, n \in aliased)
      BY <2>1, Zenon
    <3>2. e.name = PeerName(n) /\ e.aliases = (n \in aliased)
      BY Zenon, <3>1 DEF Entry
    <3> QED
      BY <2>2, <3>2, Zenon
  <2>4. LocalNamesDecide'
    BY Zenon, <1>2, <2>1, <2>2, <2>3 DEF LocalNamesDecide
  <2>5. NamesReturn'
    BY Zenon, <2>1 DEF NamesReturn
  <2> QED
    <3>1. ~checked'
      BY ONLY <2>1, <2>2
    <3> QED
      BY Zenon, <1>2, <2>1, <2>4, <2>5, <3>1 DEF TranslationInv
<1>10. CASE UNCHANGED translationVars
  <2>1. UNCHANGED <<nsMappings, saMappings, biMaps, aclPolicy, aliased, sent, parts,
                    whereabouts, checked, listed>>
    BY Zenon, <1>10 DEF translationVars
  <2>2. NamesReturn' = NamesReturn /\ LocalNamesDecide' = LocalNamesDecide
    BY <2>1, Zenon DEF NamesReturn, LocalNamesDecide, Unambiguous, IsAllowed, PeerName
  <2>3. Renamed(sent.parts, parts, NsThere, SaThere)' = Renamed(sent.parts, parts, NsThere, SaThere)
    BY <1>2, <2>1, Zenon
  <2> QED
    BY <1>2, <2>1, <2>2, <2>3, Zenon DEF TranslationInv
<1> QED
  BY <1>1, <1>3, <1>6, <1>7, <1>8, <1>9, <1>10, Zenon DEF TranslationNext

(* NamesReturn holds for every set of names, every mapping of namespaces   *)
(* and search attributes, and every message built of the parts of          *)
(* Crossing.                                                               *)
THEOREM NamesComeBack == TranslationSpec => []NamesReturn
<1>1. TranslationInv => NamesReturn
  BY Zenon DEF TranslationInv
<1> QED
  BY <1>1, TranslationInitInv, TranslationStepInv, PTL DEF TranslationSpec

(* LocalNamesDecide holds: what passes the access control, and what is     *)
(* listed, was decided on by the local name.                               *)
THEOREM AccessByLocalName == TranslationSpec => []LocalNamesDecide
<1>1. TranslationInv => LocalNamesDecide
  BY Zenon DEF TranslationInv
<1> QED
  BY <1>1, TranslationInitInv, TranslationStepInv, PTL DEF TranslationSpec
=============================================================================
