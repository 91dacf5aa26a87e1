--------------------------- MODULE NamespaceNames ---------------------------
(***************************************************************************)
(* namespaceNames (src/proxy/namespace_names.go): resolves the ID of a     *)
(* namespace to its name, for the encryption of admin payloads.  Names are *)
(* cached for a while, and callers that miss the cache share one call to   *)
(* the local cluster.                                                      *)
(*                                                                         *)
(* One ID.  Names are numbered as the namespace is renamed, 0 is none yet. *)
(* Time is counted in units; a goroutine that can run does so within the   *)
(* unit, so the clock does not move past one, nor past the deadline of a   *)
(* call.  A step is a critical section of the cache or of the group.       *)
(***************************************************************************)
EXTENDS Integers, Sequences

CONSTANTS
  Callers,
  TTL, Timeout,        \* namespaceNameTTL and namespaceLookupTimeout
  MaxTime,             \* bound: the clock
  MaxRenames           \* bound: renames of the namespace

ASSUME NamesAssumption ==
  /\ TTL \in Nat \ {0}
  /\ Timeout \in Nat \ {0}
  /\ MaxTime \in Nat
  /\ MaxRenames \in Nat

VARIABLES
  now,                 \* the clock
  renamedAt,           \* external: the names so far, as the times they were given
  names,               \* the cache's entry: [name, expires]
  caller,              \* caller -> "idle", "miss" or "wait"
  answer,              \* caller -> the name it got last, 0 for an error
  call,                \* the group's call: "none", "asked", "read", "back" or "cached"
  callName,            \* what the local cluster read, 0 for an error
  deadline             \* when the call is given up

nameVars == <<now, renamedAt, names, caller, answer, call, callName, deadline>>

NoName  == 0
Current == Len(renamedAt)

NamesInit ==
  /\ now = 0
  /\ renamedAt \in {<<>>, <<0>>}
  /\ names = [name |-> NoName, expires |-> 0]
  /\ caller = [c \in Callers |-> "idle"]
  /\ answer = [c \in Callers |-> NoName]
  /\ call = "none"
  /\ callName = NoName
  /\ deadline = 0
----------------------------------------------------------------------------
(* Mutant: an entry is good up to and at the time it expires.              *)
CachedAtExpiry == names.name # NoName /\ now <= names.expires

cached == names.name # NoName /\ now < names.expires

(* LocalName: the cache ...                                                *)
LocalName(c) ==
  /\ caller[c] = "idle"
  /\ IF cached
     THEN answer' = [answer EXCEPT ![c] = names.name] /\ UNCHANGED caller
     ELSE caller' = [caller EXCEPT ![c] = "miss"] /\ UNCHANGED answer
  /\ UNCHANGED <<now, renamedAt, names, call, callName, deadline>>

(* ... and the group: join the call in flight or make one.                 *)
Do(c) ==
  /\ caller[c] = "miss"
  /\ caller' = [caller EXCEPT ![c] = "wait"]
  /\ IF call = "none"
     THEN call' = "asked" /\ deadline' = now + Timeout
     ELSE UNCHANGED <<call, deadline>>
  /\ UNCHANGED <<now, renamedAt, names, answer, callName>>

(* External: the local cluster looks the name up.                          *)
Lookup ==
  /\ call = "asked"
  /\ call' = "read"
  /\ callName' = Current
  /\ UNCHANGED <<now, renamedAt, names, caller, answer, deadline>>

(* describe: DescribeNamespace returns the name, or an error, which it     *)
(* does at the deadline.                                                   *)
Describe ==
  /\ call \in {"asked", "read"}
  /\ call' = "back"
  /\ \/ call = "read" /\ UNCHANGED callName
     \/ callName' = NoName
  /\ UNCHANGED <<now, renamedAt, names, caller, answer, deadline>>

(* describe: a name is cached, an error is not.                            *)
CacheName ==
  /\ call = "back"
  /\ call' = "cached"
  /\ names' = IF callName = NoName THEN names
              ELSE [name |-> callName, expires |-> now + TTL]
  /\ UNCHANGED <<now, renamedAt, caller, answer, callName, deadline>>

(* The group forgets the call, and everybody who waits has its result.     *)
Deliver ==
  /\ call = "cached"
  /\ call' = "none"
  /\ caller' = [c \in Callers |-> IF caller[c] = "wait" THEN "idle" ELSE caller[c]]
  /\ answer' = [c \in Callers |-> IF caller[c] = "wait" THEN callName ELSE answer[c]]
  /\ callName' = NoName
  /\ deadline' = 0
  /\ UNCHANGED <<now, renamedAt, names>>
----------------------------------------------------------------------------
(* External: the namespace is made or renamed, and time passes.            *)
Rename ==
  /\ Current < MaxRenames
  /\ renamedAt' = Append(renamedAt, now)
  /\ UNCHANGED <<now, names, caller, answer, call, callName, deadline>>

(* What callers got is forgotten as time passes.                           *)
Tick ==
  /\ now < MaxTime
  /\ call \in {"none", "asked", "read"}
  /\ \A c \in Callers : caller[c] # "miss"
  /\ call # "none" => now < deadline
  /\ now' = now + 1
  /\ answer' = [c \in Callers |-> NoName]
  /\ UNCHANGED <<renamedAt, names, caller, call, callName, deadline>>

NamesNext ==
  \/ \E c \in Callers : LocalName(c) \/ Do(c)
  \/ Lookup \/ Describe \/ CacheName \/ Deliver \/ Rename \/ Tick

NamesSpec == NamesInit /\ [][NamesNext]_nameVars
----------------------------------------------------------------------------
(* namespaceNameTTL "bounds how long the old name is used for": a name a   *)
(* caller gets was the namespace's at some time less than TTL + Timeout    *)
(* ago, although it may have been looked up before the caller asked, its   *)
(* answer may have taken the whole of the timeout, and only then was it    *)
(* cached.                                                                 *)
NameFresh ==
  \A c \in Callers :
    answer[c] \in 1..(Current - 1) => now - renamedAt[answer[c] + 1] < TTL + Timeout
=============================================================================
