-------------------------- MODULE Lifetime_proofs ---------------------------
(***************************************************************************)
(* Proofs about the parts of a cluster connection that the lifetime or a   *)
(* stream ends: the resources the proxy has open, the membership, the      *)
(* handlers of a shard's streams and the stream forwarder. Each part has   *)
(* its own inductive invariant and its own specification, which the        *)
(* connection implements (ClusterConnection_proofs).                       *)
(***************************************************************************)
EXTENDS ProxyResources, MembershipJoin, StreamHandlers, StreamForwarder, TLAPS

USE SMTT(30)
----------------------------------------------------------------------------
(* What the concatenation of two sequences is.                             *)
LEMMA ConcatIs ==
  ASSUME NEW S, NEW s \in Seq(S), NEW t \in Seq(S)
  PROVE  /\ s \o t \in Seq(S)
         /\ Len(s \o t) = Len(s) + Len(t)
         /\ \A i \in 1..(Len(s) + Len(t)) :
              (s \o t)[i] = IF i <= Len(s) THEN s[i] ELSE t[i - Len(s)]
  OBVIOUS

(* Division with a remainder.                                              *)
LEMMA Division ==
  ASSUME NEW n \in Nat, NEW b \in Nat \ {0}
  PROVE  \E d \in Nat, m \in 0..(b - 1) : n \div b = d /\ n % b = m /\ n = b * d + m
<1>1. PICK d \in Int, m \in Int : n \div b = d /\ n % b = m /\ n = b * d + m
  OBVIOUS
<1>2. n % b \in 0..(b - 1) /\ n \div b \in Nat
  OBVIOUS
<1> QED
  BY <1>1, <1>2, Zenon

(* A number has one quotient and one remainder.                            *)
LEMMA QuotientUnique ==
  ASSUME NEW b \in Nat \ {0}, NEW d \in Nat, NEW e \in Nat,
         NEW m \in 0..(b - 1), NEW o \in 0..(b - 1), b * d + m = b * e + o
  PROVE  d = e /\ m = o
<1>1. ASSUME NEW x \in Nat, NEW y \in Nat, x < y PROVE b * x + b <= b * y
  <2>1. y = x + 1 + (y - x - 1) /\ y - x - 1 \in Nat
    BY <1>1
  <2>2. PICK z \in Nat : y = x + 1 + z
    BY Zenon, <2>1
  <2>3. b * y = b * x + b + b * z /\ b * z >= 0
    BY <2>2
  <2> QED
    BY <2>3
<1>2. ~(d < e)
  BY <1>1
<1>3. ~(e < d)
  BY <1>1
<1> QED
  BY <1>2, <1>3

(* The calls that open the keys of a connection's vault.                   *)
KeyCalls == MaxPolicies * MaxKeys

(* How many calls a connection takes.                                      *)
LEMMA KeyCallsNat == KeyCalls \in Nat /\ CallsEach = KeyCalls + 8 /\ (KeyCalls # 0 => MaxKeys # 0)
  BY ResourcesAssumption DEF KeyCalls, CallsEach

(* The calls that build a connection, in their order.                      *)
LEMMA CallsAre ==
  ASSUME NEW c \in Nat, NEW k \in 1..CallsEach
  PROVE  /\ k <= 2 => Calls(c)[k] = Call("client", c, k)
         /\ k > 2 /\ k <= 2 + KeyCalls =>
              Calls(c)[k] = Key(c, ((k - 3) \div MaxKeys) + 1, ((k - 3) % MaxKeys) + 1)
         /\ k = KeyCalls + 3 => Calls(c)[k] = Call("vault", c, 0)
         /\ k = KeyCalls + 4 => Calls(c)[k] = Call("side", c, 1)
         /\ k = KeyCalls + 5 => Calls(c)[k] = Call("side", c, 2)
         /\ k = KeyCalls + 6 => Calls(c)[k] = Call("own", c, 0)
         /\ k = KeyCalls + 7 => Calls(c)[k] = Call("server", c, 1)
         /\ k = KeyCalls + 8 => Calls(c)[k] = Call("server", c, 2)
<1> DEFINE cs == <<Call("client", c, 1), Call("client", c, 2)>>
           K(i) == Key(c, ((i - 1) \div MaxKeys) + 1, ((i - 1) % MaxKeys) + 1)
           ks == [i \in 1..KeyCalls |-> K(i)]
           vs == <<Call("vault", c, 0), Call("side", c, 1), Call("side", c, 2), Call("own", c, 0),
                   Call("server", c, 1), Call("server", c, 2)>>
           S  == {K(i) : i \in 1..KeyCalls} \cup {cs[i] : i \in 1..2} \cup {vs[i] : i \in 1..6}
<1>1. Calls(c) = cs \o ks \o vs
  BY Zenon DEF Calls, KeyCalls
<1>2. Len(cs) = 2 /\ Len(vs) = 6 /\ cs[1] = Call("client", c, 1) /\ cs[2] = Call("client", c, 2)
      /\ vs[1] = Call("vault", c, 0) /\ vs[2] = Call("side", c, 1) /\ vs[3] = Call("side", c, 2)
      /\ vs[4] = Call("own", c, 0) /\ vs[5] = Call("server", c, 1) /\ vs[6] = Call("server", c, 2)
  BY Zenon
<1>3. ks \in Seq(S) /\ Len(ks) = KeyCalls /\ \A i \in 1..KeyCalls : ks[i] = K(i)
  <2> HIDE DEF K, cs, vs
  <2> QED
    BY KeyCallsNat
<1>4. cs \in Seq(S) /\ vs \in Seq(S)
  <2>1. cs \in Seq(S)
    <3> HIDE DEF K, vs
    <3> QED
      OBVIOUS
  <2>2. vs \in Seq(S)
    <3> HIDE DEF K, cs
    <3> QED
      OBVIOUS
  <2> QED
    BY Zenon, <2>1, <2>2
<1> HIDE DEF cs, ks, vs, S
<1>5. /\ cs \o ks \in Seq(S) /\ Len(cs \o ks) = 2 + KeyCalls
      /\ \A i \in 1..(2 + KeyCalls) :
           (cs \o ks)[i] = IF i <= 2 THEN cs[i] ELSE ks[i - 2]
  <2>1. cs \in Seq(S) /\ ks \in Seq(S) /\ Len(cs) = 2 /\ Len(ks) = KeyCalls
    BY Zenon, <1>2, <1>3, <1>4
  <2>2. /\ cs \o ks \in Seq(S) /\ Len(cs \o ks) = Len(cs) + Len(ks)
        /\ \A i \in 1..(Len(cs) + Len(ks)) :
             (cs \o ks)[i] = IF i <= Len(cs) THEN cs[i] ELSE ks[i - Len(cs)]
    BY ONLY <2>1, ConcatIs, Zenon
  <2> QED
    BY ONLY <2>1, <2>2
<1>6. \A i \in 1..CallsEach :
        Calls(c)[i] = IF i <= 2 + KeyCalls THEN (cs \o ks)[i] ELSE vs[i - 2 - KeyCalls]
  <2>1. /\ Len(cs \o ks) + Len(vs) = CallsEach /\ KeyCalls \in Nat
        /\ \A i \in 1..CallsEach : i - (2 + KeyCalls) = i - 2 - KeyCalls
    <3>1. Len(cs \o ks) = 2 + KeyCalls /\ Len(vs) = 6
      BY Zenon, <1>2, <1>5
    <3> QED
      BY ONLY <3>1, KeyCallsNat
  <2>2. \A i \in 1..(Len(cs \o ks) + Len(vs)) :
          (cs \o ks \o vs)[i] = IF i <= Len(cs \o ks) THEN (cs \o ks)[i] ELSE vs[i - Len(cs \o ks)]
    <3> DEFINE a == cs \o ks
    <3>1. a \in Seq(S) /\ vs \in Seq(S)
      BY Zenon, <1>4, <1>5
    <3> HIDE DEF a
    <3>2. \A i \in 1..(Len(a) + Len(vs)) :
            (a \o vs)[i] = IF i <= Len(a) THEN a[i] ELSE vs[i - Len(a)]
      BY ONLY <3>1, ConcatIs, Zenon
    <3> QED
      BY Zenon, <3>2 DEF a
  <2>3. Len(cs \o ks) = 2 + KeyCalls
    BY Zenon, <1>5
  <2> SUFFICES ASSUME NEW i \in 1..CallsEach
               PROVE  (cs \o ks \o vs)[i] = IF i <= 2 + KeyCalls THEN (cs \o ks)[i]
                                             ELSE vs[i - 2 - KeyCalls]
    BY Zenon, <1>1
  <2>4. (cs \o ks \o vs)[i] = IF i <= Len(cs \o ks) THEN (cs \o ks)[i]
                               ELSE vs[i - Len(cs \o ks)]
    BY Zenon, <2>1, <2>2
  <2>5. i - (2 + KeyCalls) = i - 2 - KeyCalls
    BY Zenon, <2>1
  <2> QED
    BY ONLY <2>3, <2>4, <2>5, Zenon
<1>7. k > 2 /\ k <= 2 + KeyCalls => Calls(c)[k] = K(k - 2) /\ (k - 2) - 1 = k - 3
  <2> HIDE DEF K
  <2> QED
    BY <1>3, <1>5, <1>6, KeyCallsNat
<1>8. k \in Nat /\ k >= 1 /\ k <= KeyCalls + 8
  BY KeyCallsNat
<1>9. k <= 2 => Calls(c)[k] = Call("client", c, k)
  <2>1. k <= 2 => k = 1 \/ k = 2
    BY <1>8
  <2>2. k <= 2 => k <= 2 + KeyCalls /\ k \in 1..(2 + KeyCalls)
    BY ONLY <1>8, KeyCallsNat
  <2>3. k <= 2 => Calls(c)[k] = (cs \o ks)[k] /\ (cs \o ks)[k] = cs[k]
    BY Zenon, <1>5, <1>6, <2>2
  <2> QED
    BY Zenon, <1>2, <2>1, <2>3
<1>10. \A j \in 1..6 : k = KeyCalls + 2 + j => Calls(c)[k] = vs[j]
  <2> SUFFICES ASSUME NEW j \in 1..6, k = KeyCalls + 2 + j PROVE Calls(c)[k] = vs[j]
    BY Zenon
  <2>1. ~(k <= 2 + KeyCalls) /\ k - 2 - KeyCalls = j
    BY KeyCallsNat
  <2> QED
    BY Zenon, <1>6, <2>1
<1>11. k > 2 /\ k <= 2 + KeyCalls =>
         Calls(c)[k] = Key(c, ((k - 3) \div MaxKeys) + 1, ((k - 3) % MaxKeys) + 1)
  BY <1>7, Zenon
<1> QED
  BY <1>2, <1>8, <1>9, <1>10, <1>11, KeyCallsNat

(* After the extensions the plan is the calls of the connections, one      *)
(* connection after the other.                                             *)
LEMMA PlanAt ==
  ASSUME NEW i \in 1..Len(Plan), i > MaxExtensions
  PROVE  \E c \in 1..MaxConnections, k \in 1..CallsEach :
           i = MaxExtensions + CallsEach * (c - 1) + k /\ Plan[i] = Calls(c)[k]
<1>1. /\ CallsEach \in Nat \ {0} /\ MaxExtensions \in Nat /\ MaxConnections \in Nat
      /\ MaxConnections * CallsEach \in Nat
  BY KeyCallsNat, ResourcesAssumption
<1>2. Len(Plan) = MaxExtensions + MaxConnections * CallsEach
  <2> DEFINE F(j) == IF j <= MaxExtensions THEN Extension(j)
                     ELSE LET m == j - MaxExtensions - 1
                          IN  Calls((m \div CallsEach) + 1)[(m % CallsEach) + 1]
  <2>1. Plan = [j \in 1..(MaxExtensions + MaxConnections * CallsEach) |-> F(j)]
    BY Zenon DEF Plan
  <2> HIDE DEF F
  <2> QED
    BY <1>1, <2>1
<1> DEFINE n == i - MaxExtensions - 1
<1>3. n \in Nat
  BY <1>1, <1>2
<1>4. PICK d \in Nat, m \in 0..(CallsEach - 1) :
        n \div CallsEach = d /\ n % CallsEach = m /\ n = CallsEach * d + m
  <2> HIDE DEF n
  <2> QED
    BY <1>1, <1>3, Division, Zenon
<1>5. Plan[i] = Calls(d + 1)[m + 1]
  <2>1. i \in 1..(MaxExtensions + MaxConnections * CallsEach) /\ ~(i <= MaxExtensions)
    BY <1>1, <1>2
  <2> QED
    BY <1>4, <2>1, Zenon DEF Plan
<1>6. d + 1 \in 1..MaxConnections
  <2>1. n < MaxConnections * CallsEach
    BY <1>1, <1>2
  <2>2. ASSUME d >= MaxConnections PROVE FALSE
    <3>1. PICK e \in Nat : d = MaxConnections + e
      BY <1>1, <2>2
    <3>2. CallsEach * d = MaxConnections * CallsEach + CallsEach * e /\ CallsEach * e >= 0
      BY <1>1, <3>1
    <3> QED
      BY <1>1, <1>3, <1>4, <2>1, <3>2
  <2> QED
    BY <1>1, <2>2
<1>7. i = MaxExtensions + CallsEach * ((d + 1) - 1) + (m + 1) /\ m + 1 \in 1..CallsEach
  <2>1. (d + 1) - 1 = d /\ i = MaxExtensions + n + 1 /\ m + 1 \in 1..CallsEach
    BY <1>1, <1>3
  <2>2. CallsEach * d \in Nat
    BY <1>1
  <2> QED
    BY <1>1, <1>4, <2>1, <2>2
<1> QED
  BY Zenon, <1>5, <1>6, <1>7

(* Where the plan has a call of a connection.                              *)
LEMMA PlanHas ==
  ASSUME NEW c \in 1..MaxConnections, NEW k \in 1..CallsEach
  PROVE  /\ MaxExtensions + CallsEach * (c - 1) + k \in 1..Len(Plan)
         /\ Plan[MaxExtensions + CallsEach * (c - 1) + k] = Calls(c)[k]
<1> DEFINE i == MaxExtensions + CallsEach * (c - 1) + k
<1>1. /\ CallsEach \in Nat \ {0} /\ MaxExtensions \in Nat /\ MaxConnections \in Nat
      /\ c - 1 \in Nat /\ CallsEach * (c - 1) \in Nat
  BY KeyCallsNat, ResourcesAssumption
<1>2. CallsEach * (c - 1) + CallsEach <= MaxConnections * CallsEach
  <2>1. PICK e \in Nat : MaxConnections = (c - 1) + 1 + e
    BY <1>1
  <2>2. MaxConnections * CallsEach = CallsEach * (c - 1) + CallsEach + CallsEach * e
        /\ CallsEach * e >= 0
    BY <1>1, <2>1
  <2> QED
    BY <1>1, <2>2
<1>3. /\ i \in 1..(MaxExtensions + MaxConnections * CallsEach) /\ i > MaxExtensions
      /\ MaxConnections * CallsEach \in Nat
  BY <1>1, <1>2
<1>4. i \in 1..Len(Plan)
  BY <1>1, <1>3 DEF Plan
<1>5. PICK e \in 1..MaxConnections, l \in 1..CallsEach :
        i = MaxExtensions + CallsEach * (e - 1) + l /\ Plan[i] = Calls(e)[l]
  BY Zenon, <1>3, <1>4, PlanAt
<1>6. CallsEach * (c - 1) + (k - 1) = CallsEach * (e - 1) + (l - 1)
  <2>1. CallsEach * (e - 1) \in Nat
    BY <1>1
  <2> QED
    BY <1>1, <1>5, <2>1
<1>7. c - 1 = e - 1 /\ k - 1 = l - 1
  <2>1. k - 1 \in 0..(CallsEach - 1) /\ l - 1 \in 0..(CallsEach - 1) /\ e - 1 \in Nat
    BY <1>1
  <2> QED
    BY <1>1, <1>6, <2>1, QuotientUnique
<1>8. c = e /\ k = l
  BY <1>1, <1>7
<1> QED
  BY Zenon, <1>4, <1>5, <1>8

(* The calls from the first key of a vault to its hand-over.               *)
VaultCalls == {"key", "vault", "side", "own"}

(* The numbers of an interval from 1 are natural numbers.                  *)
LEMMA NatRange == \A n \in Nat : \A i \in 1..n : i \in Nat
  OBVIOUS

(* The operation of a call, by its place.                                  *)
LEMMA CallNames ==
  ASSUME NEW c \in Nat, NEW k \in 1..CallsEach
  PROVE  /\ Calls(c)[k][2] = c
         /\ k <= 2 => Calls(c)[k][1] = "client"
         /\ k > 2 /\ k <= 2 + KeyCalls => Calls(c)[k][1] = "key"
         /\ k > 2 + KeyCalls /\ k < 6 + KeyCalls => Calls(c)[k][1] \in {"vault", "side"}
         /\ k = 6 + KeyCalls => Calls(c)[k][1] = "own"
         /\ k > 6 + KeyCalls => Calls(c)[k][1] = "server"
         /\ Calls(c)[k][1] # "dial"
         /\ Calls(c)[k][1] \in {"key", "vault", "side"} => k > 2 /\ k < 6 + KeyCalls
         /\ Calls(c)[k][1] = "own" => k = 6 + KeyCalls
         /\ Calls(c)[k][1] \in VaultCalls => k <= 6 + KeyCalls
<1> DEFINE op == Calls(c)[k][1]
<1>1. /\ KeyCalls \in Nat /\ k \in Nat /\ k >= 1
      /\ \/ k <= 2 \/ (k > 2 /\ k <= 2 + KeyCalls) \/ k = KeyCalls + 3 \/ k = KeyCalls + 4
         \/ k = KeyCalls + 5 \/ k = KeyCalls + 6 \/ k = KeyCalls + 7 \/ k = KeyCalls + 8
  BY KeyCallsNat
<1>2. /\ Calls(c)[k][2] = c
      /\ k <= 2 => op = "client"
      /\ k > 2 /\ k <= 2 + KeyCalls => op = "key"
      /\ k > 2 + KeyCalls /\ k < 6 + KeyCalls => op \in {"vault", "side"}
      /\ k = 6 + KeyCalls => op = "own"
      /\ k > 6 + KeyCalls => op = "server"
  BY <1>1, CallsAre DEF Call, Key
<1> HIDE DEF op
<1>3. /\ op # "dial"
      /\ op \in {"key", "vault", "side"} => k > 2 /\ k < 6 + KeyCalls
      /\ op = "own" => k = 6 + KeyCalls
      /\ op \in VaultCalls => k <= 6 + KeyCalls
  BY ONLY <1>1, <1>2 DEF VaultCalls
<1> QED
  BY Zenon, <1>2, <1>3 DEF op

(* No call of a connection is made twice.                                  *)
LEMMA CallsDistinct ==
  ASSUME NEW c \in Nat, NEW k \in 1..CallsEach, NEW l \in 1..CallsEach, Calls(c)[k] = Calls(c)[l]
  PROVE  k = l
<1>0. KeyCalls \in Nat /\ k \in Nat /\ l \in Nat /\ CallsEach = KeyCalls + 8
      /\ 1 <= k /\ k <= KeyCalls + 8 /\ 1 <= l /\ l <= KeyCalls + 8
  BY KeyCallsNat
<1>1. CASE k > 2 /\ k <= 2 + KeyCalls /\ l > 2 /\ l <= 2 + KeyCalls
  <2>1. MaxKeys \in Nat \ {0} /\ k - 3 \in Nat /\ l - 3 \in Nat
    BY <1>0, <1>1, KeyCallsNat, ResourcesAssumption
  <2>2. PICK d \in Nat, m \in 0..(MaxKeys - 1) :
          (k - 3) \div MaxKeys = d /\ (k - 3) % MaxKeys = m /\ k - 3 = MaxKeys * d + m
    BY <2>1, Division, Zenon
  <2>3. PICK e \in Nat, o \in 0..(MaxKeys - 1) :
          (l - 3) \div MaxKeys = e /\ (l - 3) % MaxKeys = o /\ l - 3 = MaxKeys * e + o
    BY <2>1, Division, Zenon
  <2>4. Calls(c)[k] = <<"key", c, d + 1, m + 1>> /\ Calls(c)[l] = <<"key", c, e + 1, o + 1>>
    <3>1. /\ Calls(c)[k] = Key(c, ((k - 3) \div MaxKeys) + 1, ((k - 3) % MaxKeys) + 1)
          /\ Calls(c)[l] = Key(c, ((l - 3) \div MaxKeys) + 1, ((l - 3) % MaxKeys) + 1)
      BY <1>1, CallsAre, Zenon
    <3> QED
      BY <2>2, <2>3, <3>1, Zenon DEF Key
  <2>5. d + 1 = e + 1 /\ m + 1 = o + 1
    <3>1. <<"key", c, d + 1, m + 1>> = <<"key", c, e + 1, o + 1>>
      BY <2>4, Zenon
    <3> QED
      BY ONLY <3>1
  <2>6. d = e /\ m = o
    BY <2>1, <2>5
  <2>7. k - 3 = l - 3
    BY <2>2, <2>3, <2>6, Zenon
  <2> QED
    BY <1>0, <2>7
<1>2. CASE ~(k > 2 /\ k <= 2 + KeyCalls) /\ ~(l > 2 /\ l <= 2 + KeyCalls)
  <2> DEFINE n(j) == IF j <= 2 THEN j ELSE j - KeyCalls
  <2>1. ASSUME NEW j \in 1..CallsEach, ~(j > 2 /\ j <= 2 + KeyCalls)
        PROVE  /\ n(j) \in 1..8 /\ (n(j) <= 2 <=> j <= 2)
               /\ n(j) = 1 => Calls(c)[j] = <<"client", c, 1, 0>>
               /\ n(j) = 2 => Calls(c)[j] = <<"client", c, 2, 0>>
               /\ n(j) = 3 => Calls(c)[j] = <<"vault", c, 0, 0>>
               /\ n(j) = 4 => Calls(c)[j] = <<"side", c, 1, 0>>
               /\ n(j) = 5 => Calls(c)[j] = <<"side", c, 2, 0>>
               /\ n(j) = 6 => Calls(c)[j] = <<"own", c, 0, 0>>
               /\ n(j) = 7 => Calls(c)[j] = <<"server", c, 1, 0>>
               /\ n(j) = 8 => Calls(c)[j] = <<"server", c, 2, 0>>
    BY <2>1, CallsAre, KeyCallsNat DEF Call
  <2>2. n(k) = n(l) /\ (k <= 2 <=> l <= 2)
    <3> HIDE DEF n
    <3> QED
      BY <1>2, <2>1
  <2> QED
    BY <1>0, <2>2
<1>3. CASE \/ k > 2 /\ k <= 2 + KeyCalls /\ ~(l > 2 /\ l <= 2 + KeyCalls)
           \/ l > 2 /\ l <= 2 + KeyCalls /\ ~(k > 2 /\ k <= 2 + KeyCalls)
  BY <1>0, <1>3, CallNames
<1> QED
  BY <1>1, <1>2, <1>3, Zenon

(* What the proof needs to know of the plan: no call is made twice, the    *)
(* extensions come first, the calls of a vault follow each other, and      *)
(* nothing of a vault comes after its hand-over.                           *)
LEMMA PlanFacts ==
  /\ Len(Plan) \in Nat
  /\ \A i, j \in 1..Len(Plan) : Plan[i] = Plan[j] => i = j
  /\ \A i, j \in 1..Len(Plan) : Plan[j][1] = "dial" /\ i < j => Plan[i][1] = "dial"
  /\ \A i \in 1..Len(Plan) :
       Plan[i][1] \in {"key", "vault", "side"} =>
         /\ i + 1 \in 1..Len(Plan)
         /\ Plan[i + 1][1] \in VaultCalls
         /\ Plan[i + 1][2] = Plan[i][2]
  /\ \A i, j \in 1..Len(Plan) :
       Plan[i][1] = "own" /\ Plan[j][1] \in VaultCalls /\ i < j => Plan[j][2] # Plan[i][2]
<1>0. /\ KeyCalls \in Nat /\ CallsEach \in Nat \ {0} /\ CallsEach = KeyCalls + 8
      /\ MaxExtensions \in Nat /\ MaxConnections \in Nat /\ MaxConnections * CallsEach \in Nat
  BY KeyCallsNat, ResourcesAssumption
<1>1. /\ Len(Plan) = MaxExtensions + MaxConnections * CallsEach
      /\ \A i \in 1..MaxExtensions : Plan[i] = Extension(i)
  <2> DEFINE F(j) == IF j <= MaxExtensions THEN Extension(j)
                     ELSE LET m == j - MaxExtensions - 1
                          IN  Calls((m \div CallsEach) + 1)[(m % CallsEach) + 1]
  <2>1. Plan = [j \in 1..(MaxExtensions + MaxConnections * CallsEach) |-> F(j)]
    BY Zenon DEF Plan
  <2>2. \A i \in 1..MaxExtensions : F(i) = Extension(i)
    BY <1>0
  <2> HIDE DEF F
  <2> QED
    BY <1>0, <2>1, <2>2
<1>2. Len(Plan) \in Nat
  BY <1>0, <1>1
<1>3. ASSUME NEW i \in 1..MaxExtensions PROVE Plan[i][1] = "dial" /\ Plan[i][3] = i
  BY <1>1 DEF Extension
<1>4. ASSUME NEW i \in 1..Len(Plan), i > MaxExtensions PROVE Plan[i][1] # "dial"
  <2>1. PICK c \in 1..MaxConnections, k \in 1..CallsEach : Plan[i] = Calls(c)[k]
    BY Zenon, <1>4, PlanAt
  <2> QED
    <3>1. c \in Nat
      BY Zenon, <1>0, NatRange
    <3> QED
      <4>1. Calls(c)[k][1] # "dial"
        BY Zenon, <3>1, CallNames
      <4> QED
        BY Zenon, <2>1, <4>1
<1>5. \A i \in 1..Len(Plan) : i \in 1..MaxExtensions \/ i > MaxExtensions
  BY ONLY <1>0, <1>2
<1>6. ASSUME NEW i \in 1..Len(Plan)
      PROVE  Plan[i][1] = "dial" <=> i \in 1..MaxExtensions
  BY Zenon, <1>3, <1>4, <1>5
<1>7. ASSUME NEW i \in 1..Len(Plan), NEW j \in 1..Len(Plan), Plan[i] = Plan[j] PROVE i = j
  <2>1. CASE i \in 1..MaxExtensions \/ j \in 1..MaxExtensions
    BY Zenon, <1>3, <1>6, <1>7, <2>1
  <2>2. CASE i > MaxExtensions /\ j > MaxExtensions
    <3>1. PICK c \in 1..MaxConnections, k \in 1..CallsEach :
            i = MaxExtensions + CallsEach * (c - 1) + k /\ Plan[i] = Calls(c)[k]
      BY Zenon, <2>2, PlanAt
    <3>2. PICK e \in 1..MaxConnections, l \in 1..CallsEach :
            j = MaxExtensions + CallsEach * (e - 1) + l /\ Plan[j] = Calls(e)[l]
      BY Zenon, <2>2, PlanAt
    <3>3. c \in Nat /\ e \in Nat
      OBVIOUS
    <3>4. c = e
      <4>1. Calls(c)[k][2] = c /\ Calls(e)[l][2] = e
        BY Zenon, <3>3, CallNames
      <4> QED
        BY Zenon, <1>7, <3>1, <3>2, <4>1
    <3>5. k = l
      BY <1>7, <3>1, <3>2, <3>3, <3>4, CallsDistinct, Zenon
    <3> QED
      BY <3>1, <3>2, <3>4, <3>5, Zenon
  <2> QED
    BY Zenon, <1>5, <2>1, <2>2
<1>8. ASSUME NEW i \in 1..Len(Plan), NEW j \in 1..Len(Plan), Plan[j][1] = "dial", i < j
      PROVE  Plan[i][1] = "dial"
  <2>1. j \in 1..MaxExtensions
    BY Zenon, <1>6, <1>8
  <2>2. i \in 1..MaxExtensions
    BY ONLY <1>0, <1>2, <1>8, <2>1
  <2> QED
    BY Zenon, <1>3, <2>2
<1>9. ASSUME NEW i \in 1..Len(Plan), Plan[i][1] \in {"key", "vault", "side"}
      PROVE  /\ i + 1 \in 1..Len(Plan)
             /\ Plan[i + 1][1] \in VaultCalls
             /\ Plan[i + 1][2] = Plan[i][2]
  <2>1. i > MaxExtensions
    BY Zenon, <1>5, <1>6, <1>9
  <2>2. PICK c \in 1..MaxConnections, k \in 1..CallsEach :
          i = MaxExtensions + CallsEach * (c - 1) + k /\ Plan[i] = Calls(c)[k]
    BY Zenon, <2>1, PlanAt
  <2>3. c \in Nat /\ k \in Nat /\ CallsEach * (c - 1) \in Nat
    BY <1>0
  <2>4. k > 2 /\ k < 6 + KeyCalls
    <3>1. Calls(c)[k][1] \in {"key", "vault", "side"}
      BY Zenon, <1>9, <2>2
    <3>2. Calls(c)[k][1] \in {"key", "vault", "side"} => k > 2 /\ k < 6 + KeyCalls
      BY Zenon, <2>3, CallNames
    <3> QED
      BY Zenon, <3>1, <3>2
  <2>5. k + 1 \in 1..CallsEach /\ k + 1 > 2 /\ k + 1 <= 6 + KeyCalls
        /\ i + 1 = MaxExtensions + CallsEach * (c - 1) + (k + 1)
    BY <1>0, <2>2, <2>3, <2>4
  <2>6. i + 1 \in 1..Len(Plan) /\ Plan[i + 1] = Calls(c)[k + 1]
    BY <2>5, PlanHas
  <2>7. Calls(c)[k + 1][1] \in VaultCalls /\ Calls(c)[k + 1][2] = c /\ Calls(c)[k][2] = c
    BY <1>0, <2>3, <2>5, CallNames DEF VaultCalls
  <2> QED
    BY Zenon, <2>2, <2>6, <2>7
<1>10. ASSUME NEW i \in 1..Len(Plan), NEW j \in 1..Len(Plan), i < j,
              Plan[i][1] = "own", Plan[j][1] \in VaultCalls, Plan[j][2] = Plan[i][2]
       PROVE  FALSE
  <2>1. i > MaxExtensions /\ j > MaxExtensions
    BY Zenon, <1>5, <1>6, <1>10 DEF VaultCalls
  <2>2. PICK c \in 1..MaxConnections, k \in 1..CallsEach :
          i = MaxExtensions + CallsEach * (c - 1) + k /\ Plan[i] = Calls(c)[k]
    BY Zenon, <2>1, PlanAt
  <2>3. PICK e \in 1..MaxConnections, l \in 1..CallsEach :
          j = MaxExtensions + CallsEach * (e - 1) + l /\ Plan[j] = Calls(e)[l]
    BY Zenon, <2>1, PlanAt
  <2>4. c \in Nat /\ e \in Nat /\ k \in Nat /\ l \in Nat /\ CallsEach * (c - 1) \in Nat
    BY <1>0
  <2>5. c = e
    <3>1. Calls(c)[k][2] = c /\ Calls(e)[l][2] = e
      BY Zenon, <2>4, CallNames
    <3> QED
      BY Zenon, <1>10, <2>2, <2>3, <3>1
  <2>6. k = 6 + KeyCalls
    <3>1. Calls(c)[k][1] = "own"
      BY Zenon, <1>10, <2>2
    <3>2. Calls(c)[k][1] = "own" => k = 6 + KeyCalls
      BY Zenon, <2>4, CallNames
    <3> QED
      BY Zenon, <3>1, <3>2
  <2>7. l <= 6 + KeyCalls
    <3>1. Calls(e)[l][1] \in VaultCalls
      BY Zenon, <1>10, <2>3
    <3>2. Calls(e)[l][1] \in VaultCalls => l <= 6 + KeyCalls
      BY Zenon, <2>4, CallNames
    <3> QED
      BY Zenon, <3>1, <3>2
  <2>8. i = MaxExtensions + CallsEach * (c - 1) + k /\ j = MaxExtensions + CallsEach * (c - 1) + l
    BY <2>2, <2>3, <2>5, Zenon
  <2>9. l <= k
    BY Zenon, <1>0, <2>4, <2>6, <2>7
  <2> QED
    <3>1. i < j
      BY Zenon, <1>10
    <3> QED
      BY ONLY <1>0, <2>4, <2>8, <2>9, <3>1
<1> QED
  BY <1>2, <1>7, <1>8, <1>9, <1>10, Zenon

(* The construction has r in hand: it closes r if it fails.                *)
Owed(r) ==
  Building /\ r[1] = "key" /\ ThisCall[1] \in VaultCalls /\ ThisCall[2] = r[2]

(* The call that opened r has been made.                                   *)
WasOpened(r) == \E i \in 1..Len(Plan) : r = Plan[i] /\ (i < step \/ (i = step /\ failed))

(* The vault of connection c was handed over.                              *)
HandedOver(c) == \E i \in 1..Len(Plan) : i < step /\ Plan[i][1] = "own" /\ Plan[i][2] = c

(* The inductive invariant of the resources: whatever is open is in hand   *)
(* or in a function, and a key is in one place only.                       *)
ResourcesInv ==
  /\ step \in Nat
  /\ Building => lifetime
  /\ lifetime => released = {}
  /\ \A r \in acquired : WasOpened(r)
  /\ \A f \in afterFuncs : f \subseteq acquired
  /\ \A f \in afterFuncs : \A r \in f : r[1] = "key" => HandedOver(r[2]) /\ r \notin released
  /\ \A f, g \in afterFuncs : \A r \in f : r \in g /\ r[1] = "key" => f = g
  /\ \A r \in acquired \ released : Owed(r) \/ \E f \in afterFuncs : r \in f

(* Owners, by what is in hand and what the functions close.                *)
LEMMA OwnersAre ==
  ASSUME NEW r, NEW f
  PROVE  f \in Owners(r) <=> (f \in afterFuncs /\ r \in f) \/ (f = {} /\ Owed(r))
  BY Zenon DEF Owners, Owed, VaultCalls

(* The invariant says what SomebodyCloses says.                            *)
LEMMA InvCloses == ResourcesInv => SomebodyCloses
<1> SUFFICES ASSUME ResourcesInv PROVE SomebodyCloses
  BY Zenon
<1>1. ASSUME NEW r \in acquired \ released PROVE Owners(r) # {}
  BY OwnersAre, Zenon DEF ResourcesInv
<1>2. ASSUME NEW r \in acquired, r[1] = "key", NEW f \in afterFuncs, r \in f PROVE ~Owed(r)
  <2>1. HandedOver(r[2])
    BY Zenon, <1>2 DEF ResourcesInv
  <2> QED
    BY <2>1, PlanFacts DEF HandedOver, Owed, Building, ThisCall
<1>3. ASSUME NEW r \in acquired, Owed(r) PROVE r \notin released
  BY Zenon, <1>3 DEF ResourcesInv, Owed
<1>4. ASSUME NEW r \in acquired, r[1] = "key", NEW f \in Owners(r), NEW g \in Owners(r)
      PROVE  f = g /\ r \notin released
  <2>1. (f \in afterFuncs /\ r \in f) \/ (f = {} /\ Owed(r))
    BY Zenon, OwnersAre
  <2>2. (g \in afterFuncs /\ r \in g) \/ (g = {} /\ Owed(r))
    BY Zenon, OwnersAre
  <2> QED
    BY <1>2, <1>3, <1>4, <2>1, <2>2, Zenon DEF ResourcesInv
<1> QED
  BY Zenon, <1>1, <1>4 DEF SomebodyCloses, ResourcesInv

(* The invariant holds before NewProxy.                                    *)
LEMMA ResourcesInitInv == LifetimeInit /\ ResourcesInit => ResourcesInv
  BY DEF LifetimeInit, ResourcesInit, ResourcesInv, Building

(* What a call does when it succeeds, with the functions it registers.     *)
LEMMA CallSucceeds ==
  ASSUME ResourcesInv, Building, NEW t, t = ThisCall, NEW rs, NEW fs, Succeeds(rs, fs),
         rs \subseteq {t},
         \A f \in fs : f \subseteq acquired \cup rs,
         \A f \in fs : \A r \in f : r[1] = "key" => t[1] = "own" /\ t[2] = r[2],
         \A f, g \in fs : \A r \in f : r \in g => f = g,
         \A r \in rs : r[1] = "key" \/ \E f \in fs : r \in f,
         \A r \in acquired : t[1] = "own" /\ Owed(r) => \E f \in fs : r \in f
  PROVE  ResourcesInv'
<1>0. /\ step' = step + 1 /\ acquired' = acquired \cup rs /\ afterFuncs' = afterFuncs \cup fs
      /\ failed' = failed /\ released' = released /\ lifetime' = lifetime
      /\ step \in 1..Len(Plan) /\ step \in Nat /\ ~failed /\ lifetime /\ released = {}
      /\ Len(Plan) \in Nat
  BY Zenon, PlanFacts DEF Succeeds, Building, ResourcesInv
<1>1. t = Plan[step] /\ Plan' = Plan /\ t \notin acquired
  <2>1. t = Plan[step]
    BY Zenon DEF ThisCall
  <2>2. Plan' = Plan
    BY Zenon DEF Plan, Calls, Call, Key, Extension, CallsEach
  <2>3. t \notin acquired
    BY <1>0, <2>1, PlanFacts DEF ResourcesInv, WasOpened
  <2> QED
    BY Zenon, <2>1, <2>2, <2>3
<1>2. /\ \A r : WasOpened(r) => WasOpened(r)'
      /\ \A c : HandedOver(c) => HandedOver(c)'
      /\ WasOpened(t)'
      /\ t[1] = "own" => HandedOver(t[2])'
  <2>1. ASSUME NEW r, WasOpened(r) PROVE WasOpened(r)'
    BY <1>0, <1>1, <2>1 DEF WasOpened
  <2>2. ASSUME NEW c, HandedOver(c) PROVE HandedOver(c)'
    BY <1>0, <1>1, <2>2 DEF HandedOver
  <2>3. WasOpened(t)'
    BY <1>0, <1>1 DEF WasOpened
  <2>4. t[1] = "own" => HandedOver(t[2])'
    BY <1>0, <1>1 DEF HandedOver
  <2> QED
    BY Zenon, <2>1, <2>2, <2>3, <2>4
<1>3. \A f \in afterFuncs' : f \subseteq acquired'
  BY Zenon, <1>0 DEF ResourcesInv
<1>4. \A r \in acquired' : WasOpened(r)'
  BY <1>0, <1>2, Zenon DEF ResourcesInv
<1>5. \A f \in afterFuncs' : \A r \in f : r[1] = "key" => HandedOver(r[2])' /\ r \notin released'
  <2>1. ASSUME NEW f \in afterFuncs, NEW r \in f, r[1] = "key"
        PROVE  HandedOver(r[2])' /\ r \notin released'
    BY <1>0, <1>2, <2>1, Zenon DEF ResourcesInv
  <2>2. ASSUME NEW f \in fs, NEW r \in f, r[1] = "key"
        PROVE  HandedOver(r[2])' /\ r \notin released'
    BY <1>0, <1>2, <2>2, Zenon
  <2> QED
    BY <1>0, <2>1, <2>2, Zenon
<1>6. ASSUME NEW f \in afterFuncs, NEW g \in fs, NEW r \in f, r \in g, r[1] = "key" PROVE FALSE
  <2>1. HandedOver(r[2]) /\ t[1] = "own" /\ t[2] = r[2]
    BY Zenon, <1>6 DEF ResourcesInv
  <2> QED
    BY <1>0, <1>1, <2>1, PlanFacts DEF HandedOver, VaultCalls
<1>7. \A f, g \in afterFuncs' : \A r \in f : r \in g /\ r[1] = "key" => f = g
  <2>1. \A f, g \in afterFuncs : \A r \in f : r \in g /\ r[1] = "key" => f = g
    BY Zenon DEF ResourcesInv
  <2> SUFFICES ASSUME NEW f \in afterFuncs \cup fs, NEW g \in afterFuncs \cup fs, NEW r \in f,
                      r \in g, r[1] = "key"
               PROVE  f = g
    BY <1>0
  <2> QED
    BY Zenon, <1>6, <2>1
<1>8. ASSUME NEW r \in acquired, Owed(r) PROVE Owed(r)' \/ \E f \in afterFuncs' : r \in f
  <2>1. CASE t[1] = "own"
    BY Zenon, <1>0, <1>8, <2>1
  <2>2. CASE t[1] # "own"
    <3>1. t[1] \in {"key", "vault", "side"} /\ t[2] = r[2] /\ r[1] = "key"
      BY Zenon, <1>8, <2>2 DEF Owed, VaultCalls
    <3>2. /\ step + 1 \in 1..Len(Plan) /\ Plan[step + 1][1] \in VaultCalls
          /\ Plan[step + 1][2] = r[2]
      BY Zenon, <1>0, <1>1, <3>1, PlanFacts
    <3> QED
      BY Zenon, <1>0, <1>1, <3>1, <3>2 DEF Owed, Building, ThisCall
  <2> QED
    BY Zenon, <2>1, <2>2
<1>9. ASSUME t \in rs PROVE Owed(t)' \/ \E f \in afterFuncs' : t \in f
  <2>1. CASE t[1] = "key"
    <3>1. /\ step + 1 \in 1..Len(Plan) /\ Plan[step + 1][1] \in VaultCalls
          /\ Plan[step + 1][2] = t[2]
      BY Zenon, <1>0, <1>1, <2>1, PlanFacts
    <3> QED
      BY Zenon, <1>0, <1>1, <2>1, <3>1 DEF Owed, Building, ThisCall
  <2>2. CASE t[1] # "key"
    BY Zenon, <1>0, <1>9, <2>2
  <2> QED
    BY Zenon, <2>1, <2>2
<1>10. \A r \in acquired' \ released' : Owed(r)' \/ \E f \in afterFuncs' : r \in f
  <2>1. ASSUME NEW r \in acquired PROVE Owed(r)' \/ \E f \in afterFuncs' : r \in f
    BY <1>0, <1>8, Zenon DEF ResourcesInv
  <2>2. ASSUME NEW r \in rs PROVE Owed(r)' \/ \E f \in afterFuncs' : r \in f
    <3>1. r = t
      BY Zenon
    <3> QED
      BY <1>9, <3>1, Zenon
  <2> QED
    BY <1>0, <2>1, <2>2, Zenon
<1>11. step' \in Nat /\ lifetime' /\ released' = {}
  BY <1>0
<1> QED
  BY <1>3, <1>4, <1>5, <1>7, <1>10, <1>11, Zenon DEF ResourcesInv

(* A call that fails closes what the construction has in hand, nothing     *)
(* that a function will close.                                             *)
LEMMA CallFails ==
  ASSUME ResourcesInv, Building, NEW rs, Fails(rs),
         \A r \in acquired : Owed(r) => r \in rs,
         \A r \in rs : r[1] = "key" => \A f \in afterFuncs : r \notin f
  PROVE  ResourcesInv'
<1>0. /\ step' = step /\ acquired' = acquired /\ afterFuncs' = afterFuncs /\ failed'
      /\ released' = released \cup rs /\ lifetime' = FALSE /\ ~failed
  BY Zenon DEF Fails, Building
<1>1. Plan' = Plan /\ ~Building'
  BY Zenon, <1>0 DEF Plan, Calls, Call, Key, Extension, CallsEach, Building
<1>2. /\ \A r : WasOpened(r) => WasOpened(r)'
      /\ \A c : HandedOver(c) => HandedOver(c)'
  BY Zenon, <1>0, <1>1 DEF WasOpened, HandedOver
<1>3. \A r \in acquired' : WasOpened(r)'
  BY <1>0, <1>2, Zenon DEF ResourcesInv
<1>4. \A f \in afterFuncs' : \A r \in f : r[1] = "key" => HandedOver(r[2])' /\ r \notin released'
  BY Zenon, <1>0, <1>2 DEF ResourcesInv
<1>5. \A r \in acquired' \ released' : Owed(r)' \/ \E f \in afterFuncs' : r \in f
  BY Zenon, <1>0 DEF ResourcesInv
<1>6. /\ step' \in Nat /\ ~lifetime'
      /\ \A f \in afterFuncs' : f \subseteq acquired'
      /\ \A f, g \in afterFuncs' : \A r \in f : r \in g /\ r[1] = "key" => f = g
  BY <1>0, Zenon DEF ResourcesInv
<1> QED
  BY <1>1, <1>3, <1>4, <1>5, <1>6, Zenon DEF ResourcesInv

(* The keys of the vault at hand are in hand, and in no function.          *)
LEMMA KeysAtHand ==
  ASSUME ResourcesInv, Building, ThisCall[1] \in VaultCalls
  PROVE  /\ \A r \in acquired : Owed(r) => r \in KeysOf(ThisCall[2])
         /\ \A r \in KeysOf(ThisCall[2]) :
              r[1] = "key" /\ r[2] = ThisCall[2] /\ \A f \in afterFuncs : r \notin f
<1>1. \A r \in acquired : Owed(r) => r \in KeysOf(ThisCall[2])
  BY Zenon DEF ResourcesInv, KeysOf, Owed
<1>2. \A r \in KeysOf(ThisCall[2]) : r[1] = "key" /\ r[2] = ThisCall[2]
  BY Zenon DEF KeysOf
<1>3. ASSUME NEW r \in KeysOf(ThisCall[2]), NEW f \in afterFuncs, r \in f PROVE FALSE
  <2>1. HandedOver(ThisCall[2])
    BY Zenon, <1>2, <1>3 DEF ResourcesInv
  <2> QED
    BY Zenon, <2>1, PlanFacts DEF HandedOver, ThisCall, Building
<1> QED
  BY Zenon, <1>1, <1>2, <1>3

(* A resource that is not of a vault, with the function that closes it.    *)
LEMMA OpensOne ==
  ASSUME ResourcesInv, Building, NEW t, t = ThisCall, t[1] \notin VaultCalls, Succeeds({t}, {{t}})
  PROVE  ResourcesInv'
<1>1. /\ \A f \in {{t}} : f \subseteq acquired \cup {t}
      /\ \A f \in {{t}} : \A r \in f : r[1] = "key" => t[1] = "own" /\ t[2] = r[2]
      /\ \A f, g \in {{t}} : \A r \in f : r \in g => f = g
      /\ \A r \in {t} : r[1] = "key" \/ \E f \in {{t}} : r \in f
  BY Zenon DEF VaultCalls
<1>2. \A r \in acquired : ~(t[1] = "own" /\ Owed(r))
  BY Zenon DEF VaultCalls
<1>3. \A r \in acquired : t[1] = "own" /\ Owed(r) => \E f \in {{t}} : r \in f
  BY <1>2, Zenon
<1>4. {t} \subseteq {t}
  BY Zenon
<1> DEFINE rs == {t}
           fs == {{t}}
<1>5. /\ rs \subseteq {t} /\ Succeeds(rs, fs)
      /\ \A f \in fs : f \subseteq acquired \cup rs
      /\ \A f \in fs : \A r \in f : r[1] = "key" => t[1] = "own" /\ t[2] = r[2]
      /\ \A f, g \in fs : \A r \in f : r \in g => f = g
      /\ \A r \in rs : r[1] = "key" \/ \E f \in fs : r \in f
      /\ \A r \in acquired : t[1] = "own" /\ Owed(r) => \E f \in fs : r \in f
  BY <1>1, <1>3, <1>4, Zenon
<1> HIDE DEF rs, fs
<1> QED
  BY <1>5, CallSucceeds

(* Every step of the construction, of the functions and of Stop preserves  *)
(* the invariant.                                                          *)
LEMMA ResourcesStepInv ==
  ResourcesInv /\ [ResourcesNext \/ ProxyStops]_<<resourceVars, lifetime>> => ResourcesInv'
<1> SUFFICES ASSUME ResourcesInv,
                    ResourcesNext \/ ProxyStops \/ UNCHANGED <<resourceVars, lifetime>>
             PROVE  ResourcesInv'
  BY Zenon
<1> DEFINE t == ThisCall
<1>0. Plan' = Plan /\ Len(Plan) \in Nat
  <2>1. Plan' = Plan
    BY Zenon DEF Plan, Calls, Call, Key, Extension, CallsEach
  <2> QED
    BY Zenon, <2>1, PlanFacts
<1>1. ASSUME Calling("dial") \/ Calling("client") \/ Calling("server")
      PROVE  /\ Building /\ t[1] \notin VaultCalls
             /\ \A r \in acquired : ~Owed(r)
  BY Zenon, <1>1 DEF Calling, VaultCalls, Owed
<1>2. ASSUME Calling("dial") \/ Calling("client") \/ Calling("server"), Succeeds({t}, {{t}})
      PROVE  ResourcesInv'
  BY <1>1, <1>2, OpensOne, Zenon
<1>3. ASSUME Calling("client") \/ Calling("server"), Fails({}) PROVE ResourcesInv'
  BY Zenon, <1>1, <1>3, CallFails
<1>4. ASSUME Calling("dial"), Fails(acquired) PROVE ResourcesInv'
  <2>1. \A r \in acquired : r[1] = "dial"
    BY <1>4, PlanFacts DEF ResourcesInv, WasOpened, Calling, Building, ThisCall
  <2> QED
    BY Zenon, <1>1, <1>4, <2>1, CallFails
<1>5. ASSUME Calling("key") \/ Calling("vault") \/ Calling("side"), Fails(KeysOf(t[2]))
      PROVE  ResourcesInv'
  <2>1. Building /\ t[1] \in VaultCalls
    BY Zenon, <1>5 DEF Calling, VaultCalls
  <2> QED
    BY Zenon, <1>5, <2>1, CallFails, KeysAtHand
<1>6. ASSUME Calling("key"), Succeeds({t}, {}) PROVE ResourcesInv'
  <2>1. Building /\ t[1] = "key"
    BY Zenon, <1>6 DEF Calling
  <2> QED
    BY <1>6, <2>1, CallSucceeds
<1>7. ASSUME Calling("vault") \/ Calling("side"), Succeeds({}, {}) PROVE ResourcesInv'
  <2>1. Building /\ t[1] # "own"
    BY Zenon, <1>7 DEF Calling
  <2> QED
    BY <1>7, <2>1, CallSucceeds
<1>8. CASE OwnVault
  <2> DEFINE ks == KeysOf(t[2])
  <2>1. Building /\ t[1] = "own" /\ Succeeds({}, {ks})
    BY Zenon, <1>8 DEF Calling, OwnVault
  <2>2. /\ ks \subseteq acquired
        /\ \A r \in ks : r[1] = "key" /\ r[2] = t[2]
        /\ \A r \in acquired : Owed(r) => r \in ks
    BY Zenon, <2>1, KeysAtHand DEF VaultCalls, KeysOf
  <2> HIDE DEF ks
  <2> QED
    BY <2>1, <2>2, CallSucceeds
<1>9. ASSUME Calling("server"), failed' = TRUE, lifetime' = FALSE,
             acquired' = acquired \cup {t}, afterFuncs' = afterFuncs \cup {{t}},
             UNCHANGED <<step, released, serverVars>>
      PROVE  ResourcesInv'
  <2>0. Building /\ t[1] = "server" /\ t = Plan[step] /\ step \in 1..Len(Plan)
    BY Zenon, <1>9 DEF Calling, Building, ThisCall
  <2>1. ~Building'
    BY Zenon, <1>9 DEF Building
  <2>2. /\ \A r : WasOpened(r) => WasOpened(r)'
        /\ \A c : HandedOver(c) => HandedOver(c)'
    BY Zenon, <1>0, <1>9 DEF WasOpened, HandedOver
  <2>3. \A r \in acquired' : WasOpened(r)'
    BY Zenon, <1>0, <1>9, <2>0, <2>2 DEF ResourcesInv, WasOpened
  <2>4. \A f \in afterFuncs' : \A r \in f : r[1] = "key" => HandedOver(r[2])' /\ r \notin released'
    BY Zenon, <1>9, <2>0, <2>2 DEF ResourcesInv
  <2>5. \A r \in acquired' \ released' : Owed(r)' \/ \E f \in afterFuncs' : r \in f
    <3>1. \A r \in acquired \ released : \E f \in afterFuncs : r \in f
      BY <1>1, <1>9, Zenon DEF ResourcesInv
    <3> SUFFICES ASSUME NEW r \in acquired' \ released' PROVE \E f \in afterFuncs' : r \in f
      BY Zenon
    <3>2. CASE r \in acquired
      BY <1>9, <3>1, <3>2, Zenon
    <3>3. CASE r = t
      BY <1>9, <3>3, Zenon
    <3> QED
      BY <1>9, <3>2, <3>3, Zenon
  <2>6. /\ \A f \in afterFuncs' : f \subseteq acquired'
        /\ \A f, g \in afterFuncs' : \A r \in f : r \in g /\ r[1] = "key" => f = g
    BY <1>9, <2>0 DEF ResourcesInv
  <2> QED
    BY <1>9, <2>1, <2>3, <2>4, <2>5, <2>6, Zenon DEF ResourcesInv
<1>10. ASSUME UNCHANGED <<failed, acquired, released, afterFuncs>>, step' \in Nat, step' >= step,
              lifetime' => lifetime, Building' => lifetime',
              \A r \in acquired : Owed(r) => Owed(r)'
       PROVE  ResourcesInv'
  <2>1. \A r : WasOpened(r) => WasOpened(r)'
    BY <1>0, <1>10 DEF WasOpened, ResourcesInv
  <2>2. \A c : HandedOver(c) => HandedOver(c)'
    BY <1>0, <1>10 DEF HandedOver, ResourcesInv
  <2> QED
    BY <1>10, <2>1, <2>2, Zenon DEF ResourcesInv
<1>11. CASE NewProxy
  <2>1. /\ step = 0 /\ step' = 1 /\ lifetime
        /\ UNCHANGED <<failed, acquired, released, afterFuncs, lifetime>>
    BY Zenon, <1>11 DEF NewProxy
  <2>2. step' \in Nat /\ step' >= step /\ step \notin 1..Len(Plan)
    BY ONLY <1>0, <2>1
  <2>3. Len(Plan)' = Len(Plan)
    BY Zenon, <1>0
  <2>4. ~lifetime => step' \notin 1..Len(Plan)
    BY ONLY <1>0, <2>1
  <2>5. /\ Building' => lifetime'
        /\ \A r \in acquired : Owed(r) => Owed(r)'
    BY Zenon, <2>1, <2>2, <2>3, <2>4 DEF Owed, Building
  <2> QED
    BY Zenon, <1>10, <2>1, <2>2, <2>5
<1>12. ASSUME UNCHANGED <<step, failed, acquired, released, afterFuncs>>,
              lifetime' => lifetime, Building => lifetime'
       PROVE  ResourcesInv'
  <2>1. step' \in Nat /\ step' = step /\ step' >= step
    <3>1. step \in Nat /\ step' = step
      BY Zenon, <1>12 DEF ResourcesInv
    <3> QED
      BY ONLY <3>1
  <2>2. (Building' <=> Building) /\ ThisCall' = ThisCall
    BY Zenon, <1>0, <1>12 DEF Building, ThisCall
  <2>3. \A r \in acquired : Owed(r) => Owed(r)'
    BY Zenon, <2>2 DEF Owed
  <2>4. (lifetime' => lifetime) /\ (Building' => lifetime')
    BY Zenon, <1>12, <2>2
  <2> QED
    BY Zenon, <1>10, <1>12, <2>1, <2>3, <2>4
<1>13. ASSUME NEW r, \/ StartServer(r) \/ EnterLoop(r) \/ ServeReturns(r)
                      \/ CallComes(r) \/ CallReturns(r)
       PROVE  ResourcesInv'
  <2>1. UNCHANGED <<step, failed, acquired, released, afterFuncs>> /\ lifetime' = lifetime
    BY Zenon, <1>13 DEF StartServer, EnterLoop, ServeReturns, CallComes, CallReturns
  <2> QED
    BY Zenon, <1>12, <2>1 DEF ResourcesInv
<1>14. CASE ProxyStops \/ UNCHANGED <<resourceVars, lifetime>>
  <2>1. /\ UNCHANGED <<step, failed, acquired, released, afterFuncs>>
        /\ lifetime' = lifetime \/ (lifetime' = FALSE /\ ~Building)
    BY Zenon, <1>14 DEF ProxyStops, EndLifetime, resourceVars
  <2>2. Building => lifetime
    BY Zenon DEF ResourcesInv
  <2>3. (lifetime' => lifetime) /\ (Building => lifetime')
    BY ONLY <2>1, <2>2
  <2> QED
    BY Zenon, <1>12, <2>1, <2>3
<1>15. ASSUME NEW f \in afterFuncs, AfterFunc(f) PROVE ResourcesInv'
  <2>0. /\ ~lifetime /\ ~lifetime' /\ afterFuncs' = afterFuncs \ {f} /\ released' = released \cup f
        /\ UNCHANGED <<step, failed, acquired>> /\ ~Building
    BY Zenon, <1>15 DEF AfterFunc, ResourcesInv
  <2>1. ~Building' /\ \A r \in acquired : ~Owed(r)
    BY Zenon, <1>0, <2>0 DEF Building, Owed
  <2>2. /\ \A r : WasOpened(r) => WasOpened(r)'
        /\ \A c : HandedOver(c) => HandedOver(c)'
    BY Zenon, <1>0, <2>0 DEF WasOpened, HandedOver
  <2>3. \A r \in acquired' : WasOpened(r)'
    BY <2>0, <2>2, Zenon DEF ResourcesInv
  <2>4. \A g \in afterFuncs' : \A r \in g : r[1] = "key" => HandedOver(r[2])' /\ r \notin released'
    BY Zenon, <2>0, <2>2 DEF ResourcesInv
  <2>5. \A r \in acquired' \ released' : Owed(r)' \/ \E g \in afterFuncs' : r \in g
    <3>1. \A r \in acquired \ released : \E g \in afterFuncs : r \in g
      BY Zenon, <2>1 DEF ResourcesInv
    <3> SUFFICES ASSUME NEW r \in acquired' \ released' PROVE \E g \in afterFuncs' : r \in g
      BY Zenon
    <3>2. r \in acquired \ released /\ r \notin f
      BY Zenon, <2>0
    <3>3. PICK g \in afterFuncs : r \in g
      BY Zenon, <3>1, <3>2
    <3>4. g \in afterFuncs'
      BY Zenon, <2>0, <3>2, <3>3
    <3> QED
      BY Zenon, <3>3, <3>4
  <2>6. /\ step' \in Nat
        /\ \A g \in afterFuncs' : g \subseteq acquired'
        /\ \A g, h \in afterFuncs' : \A r \in g : r \in h /\ r[1] = "key" => g = h
    BY <2>0, Zenon DEF ResourcesInv
  <2> QED
    BY <2>0, <2>1, <2>3, <2>4, <2>5, <2>6, Zenon DEF ResourcesInv
<1>16. CASE DialOne \/ CreateClient \/ CreateKey \/ NewVault \/ NewSide \/ CreateServer
  BY <1>2, <1>3, <1>4, <1>5, <1>6, <1>7, <1>9, <1>16, Zenon
  DEF DialOne, CreateClient, CreateKey, NewVault, NewSide, CreateServer
<1>17. ASSUME NEW s \in ServerCalls, GracefulStop(s) PROVE ResourcesInv'
  <2>0. /\ ~lifetime /\ ~lifetime' /\ released' = released \cup {s} /\ ~Building
        /\ UNCHANGED <<step, failed, acquired, afterFuncs>>
    BY Zenon, <1>17 DEF GracefulStop, ResourcesInv
  <2>1. s[1] # "key"
    BY DEF ServerCalls, Call
  <2>2. ~Building' /\ \A r \in acquired : ~Owed(r)
    BY Zenon, <1>0, <2>0 DEF Building, Owed
  <2>3. /\ \A r : WasOpened(r)' <=> WasOpened(r)
        /\ \A c : HandedOver(c)' <=> HandedOver(c)
    BY Zenon, <1>0, <2>0 DEF WasOpened, HandedOver
  <2>4. \A f \in afterFuncs' : \A r \in f : r[1] = "key" => HandedOver(r[2])' /\ r \notin released'
    BY Zenon, <2>0, <2>1, <2>3 DEF ResourcesInv
  <2>5. \A r \in acquired' \ released' : Owed(r)' \/ \E f \in afterFuncs' : r \in f
    BY Zenon, <2>0, <2>2 DEF ResourcesInv
  <2> QED
    BY Zenon, <2>0, <2>2, <2>3, <2>4, <2>5 DEF ResourcesInv
<1> QED
  BY <1>8, <1>11, <1>13, <1>14, <1>15, <1>16, <1>17, Zenon DEF ResourcesNext, ProxySteps

(* SomebodyCloses holds for any number of extensions, connections,         *)
(* policies and keys, wherever the construction fails and whenever Stop    *)
(* comes.                                                                  *)
THEOREM ClosedBySomebody == ResourcesSpec => []SomebodyCloses
BY ResourcesInitInv, ResourcesStepInv, InvCloses, PTL DEF ResourcesSpec

----------------------------------------------------------------------------
(* joinLoopRunning is set as long as there is a loop, the signal to stop   *)
(* it comes from Stop, and neither is there before Start is done.          *)
LoopFlagged ==
  /\ joinLoop \in {"none", "read", "lock", "dial", "exchange", "wait", "return", "flag"}
  /\ joinLoopRunning <=> joinLoop # "none"
  /\ stopJoinRetry => stop # "none"
  /\ start = "new" => ml = "nil"
  /\ start # "done" => joinLoop = "none" /\ stop = "none" /\ ~started

(* The inductive invariant of the membership.                              *)
MembershipInv == LoopFlagged /\ TriesToJoin

(* The invariant holds before Start.                                       *)
LEMMA MembershipInitInv == MembershipInit => MembershipInv
  BY Zenon DEF MembershipInit, MembershipInv, LoopFlagged, TriesToJoin

(* Every step of the membership preserves the invariant.                   *)
LEMMA MembershipStepInv ==
  MembershipInv /\ [MembershipNext]_memberVars => MembershipInv'
<1> SUFFICES ASSUME MembershipInv, [MembershipNext]_memberVars PROVE MembershipInv'
  BY Zenon
<1> USE DEF MembershipInv, LoopFlagged, TriesToJoin, joinVars, startVars, stopVars
<1>1. CASE CreateMemberlist
  <2>1. LoopFlagged'
    BY <1>1 DEF CreateMemberlist
  <2>2. TriesToJoin'
    BY <1>1, Zenon DEF CreateMemberlist
  <2> QED
    BY <2>1, <2>2, Zenon DEF MembershipInv
<1>2. CASE SetMemberlist
  BY Zenon, <1>2 DEF SetMemberlist
<1>3. CASE StartJoining
  BY Zenon, <1>3 DEF StartJoining, startJoinLoop
<1>4. CASE ReadMemberlist
  BY Zenon, <1>4 DEF ReadMemberlist
<1>5. CASE LockForJoin
  BY Zenon, <1>5 DEF LockForJoin
<1>6. CASE Dial
  BY Zenon, <1>6 DEF Dial, JoinFails
<1>7. CASE Exchange
  BY Zenon, <1>7 DEF Exchange, JoinFails
<1>8. CASE WaitToRetry
  BY Zenon, <1>8 DEF WaitToRetry
<1>9. CASE JoinWgDone
  BY Zenon, <1>9 DEF JoinWgDone
<1>10. CASE ClearJoinLoopRunning
  BY <1>10, Zenon DEF ClearJoinLoopRunning
<1>11. CASE PeerJoins
  BY <1>11, Zenon DEF PeerJoins
<1>12. CASE PeerLost
  <2>1. LoopFlagged'
    BY <1>12, Zenon DEF PeerLost
  <2>2. TriesToJoin'
    BY <1>12, Zenon DEF PeerLost
  <2> QED
    BY <2>1, <2>2, Zenon DEF MembershipInv
<1>13. CASE LockForCount
  BY <1>13, Zenon DEF LockForCount
<1>14. CASE StopJoinRetry
  BY <1>14, Zenon DEF StopJoinRetry
<1>15. CASE WaitForLoop
  BY Zenon, <1>15 DEF WaitForLoop
<1>16. CASE LockForLeave
  BY Zenon, <1>16 DEF LockForLeave
<1>17. CASE Leave
  BY Zenon, <1>17 DEF Leave
<1>18. CASE UNCHANGED memberVars
  BY Zenon, <1>18 DEF memberVars
<1> QED
  BY Zenon, <1>1, <1>2, <1>3, <1>4, <1>5, <1>6, <1>7, <1>8, <1>9, <1>10, <1>11, <1>12, <1>13,
     <1>14, <1>15, <1>16, <1>17, <1>18
  DEF MembershipNext, JoinLoop, Stop

(* TriesToJoin holds however often a Join fails and whoever joins first:   *)
(* a loop that ends leaves a node behind that is not alone, that is being  *)
(* stopped, or that NotifyLeave has locked up.                             *)
THEOREM KeepsTrying == MembershipSpec => []TriesToJoin
<1>1. MembershipInv => TriesToJoin
  BY Zenon DEF MembershipInv
<1> QED
  BY <1>1, MembershipInitInv, MembershipStepInv, PTL DEF MembershipSpec

----------------------------------------------------------------------------
(* HandlersTypes: the shape of what the receivers leave in the registries. *)
HandlersTypes ==
  /\ receiver \in [Handlers -> {"none", "start", "cancel", "force", "open", "setAck",
                                "setCancel", "setActive", "run", "unsetCancel",
                                "unsetActive", "done"}]
  /\ loops \in [Handlers -> SUBSET {"recv", "ack"}]
  /\ localAckChannel \in Handlers \cup {Nobody}
  /\ localReceiverCancelFunc \in Handlers \cup {Nobody}
  /\ activeReceiver \in Handlers \cup {Nobody}
  /\ newest \in Handlers \cup {Nobody}
  /\ refused \in Nat

(* The goroutines of a receiver run only while its Run waits for them.     *)
LoopsRun == \A h \in Handlers : loops[h] # {} => receiver[h] = "run"

(* The receiver that registered last has the shard's acks, or some other   *)
(* one has taken them away and is on its way to register itself.           *)
NewestOrNext ==
  refused = 0 /\ newest # Nobody /\ receiver[newest] \in AckSet =>
    \/ localAckChannel = newest
    \/ \E h \in Handlers : receiver[h] \in {"open", "setAck"}

(* The inductive invariant of the handlers.                                *)
HandlersInv == HandlersTypes /\ LoopsRun /\ NoDeadEntries /\ NewestOrNext

(* Nobody stands for an empty registry.                                    *)
LEMMA NobodyIsNoHandler == Nobody \notin Handlers
  BY HandlersAssumption DEF Nobody, Handlers

(* The invariant holds before the first stream.                            *)
LEMMA HandlersInitInv == HandlersInit => HandlersInv
<1> SUFFICES ASSUME HandlersInit PROVE HandlersInv
  BY Zenon
<1> USE DEF HandlersInit
<1>1. HandlersTypes
  <2>1. /\ receiver \in [Handlers -> {"none", "start", "cancel", "force", "open", "setAck",
                                "setCancel", "setActive", "run", "unsetCancel",
                                "unsetActive", "done"}]
        /\ loops \in [Handlers -> SUBSET {"recv", "ack"}]
    BY Zenon
  <2> QED
    BY Zenon, <2>1 DEF HandlersTypes
<1>2. LoopsRun
  BY Zenon DEF LoopsRun
<1>3. NoDeadEntries /\ NewestOrNext
  BY Zenon DEF NoDeadEntries, NewestOrNext
<1> QED
  BY Zenon, <1>1, <1>2, <1>3 DEF HandlersInv

(* Every step of a handler preserves the invariant.                        *)
LEMMA HandlersStepInv ==
  HandlersInv /\ [HandlersNext]_handlerVars => HandlersInv'
<1> SUFFICES ASSUME HandlersInv, [HandlersNext]_handlerVars PROVE HandlersInv'
  BY Zenon
<1> USE NobodyIsNoHandler
    DEF HandlersInv, HandlersTypes, LoopsRun, NoDeadEntries, NewestOrNext, ReceiverAt,
        AckSet, CancelSet, ActiveSet, registryVars, receiverVars
<1>1. ASSUME NEW h \in Handlers, streamRouting(h) PROVE HandlersInv'
  BY Zenon, <1>1 DEF streamRouting
<1>2. ASSUME NEW h \in Handlers, LifetimeAfter(h) \/ SenderRun(h) \/ TargetEnds(h)
      PROVE  HandlersInv'
  <2>1. UNCHANGED receiverVars
    BY Zenon, <1>2 DEF LifetimeAfter, SenderRun, TargetEnds, SetRemoteSendChan, FindSendChan,
                NotifyReceivers, CloseSendChan, RemoveRemoteSendChan
  <2> QED
    BY Zenon, <2>1
<1>3. ASSUME NEW h \in Handlers, FindPrevious(h) PROVE HandlersInv'
  BY Zenon, <1>3 DEF FindPrevious
<1>4. ASSUME NEW h \in Handlers, CancelPrevious(h) PROVE HandlersInv'
  BY Zenon, <1>4 DEF CancelPrevious
<1>5. ASSUME NEW h \in Handlers, ForceRemoveLocalAckChan(h) PROVE HandlersInv'
  BY Zenon, <1>5 DEF ForceRemoveLocalAckChan
<1>6. ASSUME NEW h \in Handlers, OpenSource(h) PROVE HandlersInv'
  BY <1>6 DEF OpenSource
<1>7. ASSUME NEW h \in Handlers, SetLocalAckChan(h) PROVE HandlersInv'
  BY Zenon, <1>7 DEF SetLocalAckChan
<1>8. ASSUME NEW h \in Handlers, SetLocalReceiverCancelFunc(h) PROVE HandlersInv'
  BY Zenon, <1>8 DEF SetLocalReceiverCancelFunc
<1>9. ASSUME NEW h \in Handlers, RegisterActiveReceiver(h) PROVE HandlersInv'
  BY Zenon, <1>9 DEF RegisterActiveReceiver
<1>10. ASSUME NEW h \in Handlers, RemoveLocalAckChan(h) PROVE HandlersInv'
  BY Zenon, <1>10 DEF RemoveLocalAckChan
<1>11. ASSUME NEW h \in Handlers, RemoveLocalReceiverCancelFunc(h) PROVE HandlersInv'
  BY Zenon, <1>11 DEF RemoveLocalReceiverCancelFunc
<1>12. ASSUME NEW h \in Handlers, UnregisterActiveReceiver(h) PROVE HandlersInv'
  BY Zenon, <1>12 DEF UnregisterActiveReceiver
<1>13. ASSUME NEW h \in Handlers, RecvEnds(h) \/ AckEnds(h) PROVE HandlersInv'
  BY <1>13 DEF RecvEnds, AckEnds
<1>14. CASE UNCHANGED handlerVars
  BY Zenon, <1>14 DEF handlerVars
<1> QED
  BY <1>1, <1>2, <1>3, <1>4, <1>5, <1>6, <1>7, <1>8, <1>9, <1>10, <1>11, <1>12, <1>13,
     <1>14, Zenon
  DEF HandlersNext, ReceiverRun

(* When no receiver is on its way, NewestOrNext is NewestGetsAcks.         *)
LEMMA NewestFollows == HandlersInv => NewestGetsAcks
  BY Zenon DEF HandlersInv, HandlersTypes, LoopsRun, NewestOrNext, NewestGetsAcks, Settled,
     AckSet

(* NoDeadEntries holds for any number of streams of a shard, whatever the  *)
(* lifetime does: what the registries have is there while its receiver     *)
(* runs, and is taken away by it or by the next one.                       *)
THEOREM EntriesAlive == HandlersSpec => []NoDeadEntries
<1>1. HandlersInv => NoDeadEntries
  BY Zenon DEF HandlersInv
<1> QED
  BY <1>1, HandlersInitInv, HandlersStepInv, PTL DEF HandlersSpec

(* NewestGetsAcks holds: once no receiver is starting, the acks go to the  *)
(* receiver that registered last.                                          *)
THEOREM AcksToNewest == HandlersSpec => []NewestGetsAcks
BY HandlersInitInv, HandlersStepInv, NewestFollows, PTL DEF HandlersSpec

----------------------------------------------------------------------------
(* ForwarderTypes: the shape of the forwarder's state.  A listener has     *)
(* something to offer when it offers, and no loop runs before Run has      *)
(* opened the source stream or after it returned.                          *)
ForwarderTypes ==
  /\ run \in {"new", "open", "wait", "returned"}
  /\ result \in {"none", "openErr", "visitErr", "nil"}
  /\ forwardShutdown \in BOOLEAN
  /\ loop \in [Directions -> {"off", "select", "send", "exit", "closing", "done"}]
  /\ listener \in [Directions -> {"off", "check", "recv", "offer", "done"}]
  /\ offer \in [Directions -> {"none", "data", "unknown", "err", "visitErr"}]
  /\ visitErr \in BOOLEAN
  /\ unhandled \in BOOLEAN
  /\ received \in [Directions -> Nat]
  /\ forwarded \in [Directions -> Nat]

(* A listener offers what it has; no loop runs before Run has opened the   *)
(* source stream or after it returned; and a loop that is over has told    *)
(* the other.                                                              *)
LoopsEnded ==
  \A d \in Directions :
    /\ offer[d] # "none" <=> listener[d] = "offer"
    /\ run # "wait" => loop[d] \in {"off", "done"}
    /\ run \in {"new", "open"} => loop[d] = "off" /\ listener[d] = "off"
    /\ loop[d] \in {"closing", "done"} => forwardShutdown

(* If no peer has ended its stream and no loop has met something unknown,  *)
(* nothing but a VisitError ends a loop.                                   *)
OnlyVisitErr ==
  gone = {} /\ ~unhandled =>
    /\ forwardShutdown \/ (\E d \in Directions : loop[d] = "exit") => visitErr
    /\ \A d \in Directions : run # "returned" => offer[d] # "err"
    /\ run = "returned" => result \in {"openErr", "visitErr"}

(* The inductive invariant of the forwarder.                               *)
ForwarderInv == ForwarderTypes /\ LoopsEnded /\ OnlyVisitErr /\ NothingDropped

(* The invariant holds before Run.                                         *)
LEMMA ForwarderInitInv == ForwarderInit => ForwarderInv
<1> SUFFICES ASSUME ForwarderInit PROVE ForwarderInv
  BY Zenon
<1> USE DEF ForwarderInit
<1>1. ForwarderTypes
  BY Zenon DEF ForwarderTypes
<1>2. LoopsEnded
  BY Zenon DEF LoopsEnded
<1>3. OnlyVisitErr
  BY Zenon DEF OnlyVisitErr
<1>4. NothingDropped
  BY DEF NothingDropped, InTransit
<1> QED
  BY Zenon, <1>1, <1>2, <1>3, <1>4 DEF ForwarderInv

(* Every step of the forwarder preserves the invariant.                    *)
LEMMA ForwarderStepInv ==
  ForwarderInv /\ [ForwarderNext]_forwarderVars => ForwarderInv'
<1> SUFFICES ASSUME ForwarderInv, [ForwarderNext]_forwarderVars PROVE ForwarderInv'
  BY Zenon
<1> USE DEF ForwarderInv, ForwarderTypes, LoopsEnded, OnlyVisitErr, NothingDropped, InTransit,
            loopVars
<1>1. CASE OpenForwarder
  BY Zenon, <1>1 DEF OpenForwarder
<1>2. CASE StartForwarding
  <2>1. ForwarderTypes'
    <3>1. CASE run' = "wait"
      <4>1. /\ loop' = [d \in Directions |-> "select"]
            /\ listener' = [d \in Directions |-> "check"]
        BY Zenon, <1>2, <3>1 DEF StartForwarding
      <4>2. /\ loop' \in [Directions -> {"off", "select", "send", "exit", "closing", "done"}]
            /\ listener' \in [Directions -> {"off", "check", "recv", "offer", "done"}]
        BY <4>1, Zenon
      <4> QED
        BY Zenon, <1>2, <3>1, <4>2 DEF StartForwarding
    <3>2. CASE run' = "returned"
      BY Zenon, <1>2, <3>2 DEF StartForwarding
    <3> QED
      BY Zenon, <1>2, <3>1, <3>2 DEF StartForwarding
  <2>2. LoopsEnded'
    BY Zenon, <1>2 DEF StartForwarding
  <2>3. OnlyVisitErr'
    BY Zenon, <1>2 DEF StartForwarding
  <2>4. NothingDropped'
    BY Zenon, <1>2 DEF StartForwarding
  <2> QED
    BY Zenon, <2>1, <2>2, <2>3, <2>4
<1>3. CASE CloseSend
  BY Zenon, <1>3 DEF CloseSend
<1>4. CASE Closed
  BY Zenon, <1>4 DEF Closed, Directions
<1>5. CASE Return
  BY Zenon, <1>5 DEF Return, Directions
<1>6. CASE \E p \in Peers : EndPeer(p)
  BY <1>6 DEF EndPeer
<1>7. ASSUME NEW d \in Directions, ListenerCheck(d) PROVE ForwarderInv'
  BY Zenon, <1>7 DEF ListenerCheck
<1>8. ASSUME NEW d \in Directions, ListenerRecv(d) PROVE ForwarderInv'
  <2>1. ForwarderTypes'
    BY <1>8 DEF ListenerRecv, Cancelled
  <2>2. LoopsEnded'
    BY <1>8 DEF ListenerRecv, Cancelled
  <2>3. OnlyVisitErr'
    BY Zenon, <1>8 DEF ListenerRecv, Cancelled
  <2>4. NothingDropped'
    BY <1>8 DEF ListenerRecv, Cancelled
  <2> QED
    BY Zenon, <2>1, <2>2, <2>3, <2>4
<1>9. ASSUME NEW d \in Directions, ListenerStops(d) PROVE ForwarderInv'
  BY Zenon, <1>9 DEF ListenerStops
<1>10. ASSUME NEW d \in Directions, Take(d) PROVE ForwarderInv'
  <2>1. ForwarderTypes'
    BY Zenon, <1>10 DEF Take
  <2>2. LoopsEnded'
    BY Zenon, <1>10 DEF Take
  <2>3. OnlyVisitErr'
    <3>1. visitErr \/ offer[d] = "visitErr" => visitErr'
      BY <1>10, Zenon DEF Take
    <3>2. offer[d] \in {"data", "unknown", "err", "visitErr"}
      BY Zenon, <1>10 DEF Take
    <3>3. unhandled \/ offer[d] = "unknown" => unhandled'
      BY <1>10, Zenon DEF Take
    <3> QED
      BY Zenon, <1>10, <3>1, <3>2, <3>3 DEF Take
  <2>4. NothingDropped'
    BY <1>10 DEF Take
  <2> QED
    BY Zenon, <2>1, <2>2, <2>3, <2>4
<1>11. ASSUME NEW d \in Directions, LoopStops(d) PROVE ForwarderInv'
  BY Zenon, <1>11 DEF LoopStops
<1>12. ASSUME NEW d \in Directions, Send(d) PROVE ForwarderInv'
  <2>1. ForwarderTypes'
    BY <1>12 DEF Send, Cancelled
  <2>2. LoopsEnded'
    BY <1>12 DEF Send, Cancelled
  <2>3. OnlyVisitErr'
    BY <1>12 DEF Send, Cancelled
  <2>4. NothingDropped'
    BY <1>12 DEF Send, Cancelled
  <2> QED
    BY Zenon, <2>1, <2>2, <2>3, <2>4
<1>13. ASSUME NEW d \in Directions, Exit(d) PROVE ForwarderInv'
  <2>1. ForwarderTypes'
    BY <1>13 DEF Exit, Directions
  <2>2. LoopsEnded'
    BY <1>13 DEF Exit, Directions
  <2>3. OnlyVisitErr'
    BY <1>13 DEF Exit, Directions
  <2>4. NothingDropped'
    BY <1>13 DEF Exit, Directions
  <2> QED
    BY Zenon, <2>1, <2>2, <2>3, <2>4
<1>14. CASE UNCHANGED forwarderVars
  <2>1. ForwarderTypes'
    BY Zenon, <1>14 DEF forwarderVars
  <2>2. LoopsEnded'
    BY Zenon, <1>14 DEF forwarderVars
  <2>3. OnlyVisitErr'
    BY Zenon, <1>14 DEF forwarderVars
  <2>4. NothingDropped'
    BY Zenon, <1>14 DEF forwarderVars
  <2> QED
    BY Zenon, <2>1, <2>2, <2>3, <2>4
<1> QED
  BY <1>1, <1>2, <1>3, <1>4, <1>5, <1>6, <1>7, <1>8, <1>9, <1>10, <1>11, <1>12, <1>13,
     <1>14, Zenon
  DEF ForwarderNext

(* NothingDropped holds for every run of the forwarder: as long as nothing *)
(* has told the stream to end, the hand-over from the listeners to the     *)
(* loops of forwardReplicationMessages and forwardAcks loses and repeats   *)
(* nothing.                                                                *)
THEOREM ForwardedAll == ForwarderSpec => []NothingDropped
<1>1. ForwarderInv => NothingDropped
  BY Zenon DEF ForwarderInv
<1> QED
  BY <1>1, ForwarderInitInv, ForwarderStepInv, PTL DEF ForwarderSpec

(* ReasonReturned holds: a stream that neither a peer nor something        *)
(* unknown ended was ended by a VisitError, and Run returns it.            *)
THEOREM ReasonIsReturned == ForwarderSpec => []ReasonReturned
<1>1. ForwarderInv => ReasonReturned
  BY Zenon DEF ForwarderInv, OnlyVisitErr, ReasonReturned
<1> QED
  BY <1>1, ForwarderInitInv, ForwarderStepInv, PTL DEF ForwarderSpec
=============================================================================
