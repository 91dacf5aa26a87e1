------------------------- MODULE IntraProxy_proofs --------------------------
(***************************************************************************)
(* Proofs about the streams between the nodes of a proxy: where the        *)
(* messages and the acks are that go to another node, and that the maps of *)
(* the streams have no dead stream.                                        *)
(***************************************************************************)
EXTENDS IntraForwarding, IntraProxyStreams, TLAPS

USE SMTT(30)
----------------------------------------------------------------------------
(* TypeInv: the shape of the state.  A stream that does not exist yet has  *)
(* no receiver, no handler, and was told nothing.                          *)
Created == 1..Len(keyOf)

TypeInv ==
  /\ keyOf \in Seq(Keys)
  /\ Len(keyOf) <= MaxStreams
  /\ inserting \subseteq Keys
  /\ receivers \in [Keys -> Created \cup {0}]
  /\ senders \in [Keys -> Created \cup {0}]
  /\ receiver \in [Streams -> {"none", "created", "opening", "open", "ended", "failed", "gone"}]
  /\ sender \in [Streams -> {"none", "requested", "accepted", "registered", "ending", "gone"}]
  /\ shutdown \subseteq Created
  /\ \A r \in Streams :
       /\ r \notin Created => receiver[r] = "none"
       /\ receiver[r] \in {"none", "created", "opening", "failed"} => sender[r] = "none"

(* A stream is in the maps under its own key only, and the handle to shut  *)
(* it down is there with it.                                               *)
OwnKey ==
  /\ recvShutdown = receivers
  /\ \A k \in Keys :
       /\ receivers[k] # 0 => keyOf[receivers[k]] = k
       /\ senders[k] # 0 => keyOf[senders[k]] = k

(* The inductive invariant of the streams between the nodes.               *)
IInv == TypeInv /\ OwnKey /\ NoDeadStream

(* The invariant holds before the first reconciliation.                    *)
LEMMA InitInv == Init => IInv
<1> SUFFICES ASSUME Init PROVE IInv
  BY Zenon
<1> USE IntraAssumption DEF Init
<1>1. TypeInv
  <2>1. /\ receiver \in [Streams -> {"none", "created", "opening", "open", "ended", "failed",
                                     "gone"}]
        /\ sender \in [Streams -> {"none", "requested", "accepted", "registered", "ending",
                                   "gone"}]
    BY Zenon
  <2> QED
    BY <2>1 DEF TypeInv, Created
<1>2. OwnKey
  BY Zenon DEF OwnKey
<1>3. NoDeadStream
  BY Zenon DEF NoDeadStream
<1> QED
  BY Zenon, <1>1, <1>2, <1>3 DEF IInv

(* Every step of the streams preserves the invariant.                      *)
LEMMA StepInv == IInv /\ [Next]_vars => IInv'
<1> SUFFICES ASSUME IInv, [Next]_vars PROVE IInv'
  BY Zenon
<1> USE IntraAssumption
    DEF IInv, TypeInv, OwnKey, NoDeadStream, At, Without, loopVars, recvVars, sendVars,
        Created, Streams
<1>0. 0 \notin Created /\ Created \subseteq Streams /\ Created = 1..Len(keyOf)
        /\ Streams = 1..MaxStreams
  BY DEF Created, Streams
<1>1. CASE ReconcileStart
  BY Zenon, <1>1 DEF ReconcileStart
<1>2. ASSUME NEW k \in Keys, EnsureLookup(k) PROVE IInv'
  BY <1>2 DEF EnsureLookup
<1>3. ASSUME NEW k \in Keys, EnsureInsert(k) PROVE IInv'
  <2>1. TypeInv'
    BY <1>3 DEF EnsureInsert
  <2>2. OwnKey'
    BY <1>3 DEF EnsureInsert
  <2>3. NoDeadStream'
    BY <1>3 DEF EnsureInsert
  <2> QED
    BY <2>1, <2>2, <2>3, Zenon DEF IInv
<1>4. CASE ReconcilePrune
  <2>1. /\ receivers' = [k \in Keys |-> IF k \in Undesired THEN 0 ELSE receivers[k]]
        /\ recvShutdown' = receivers'
        /\ shutdown' = shutdown \cup ({receivers[k] : k \in Undesired} \ {0})
        /\ UNCHANGED <<inserting, keyOf, Created, receiver, senders, sender>>
    BY <1>4 DEF ReconcilePrune, Created
  <2> HIDE DEF Created
  <2>2. Undesired \subseteq Keys
    BY Zenon DEF Undesired
  <2>3. TypeInv'
    <3>1. shutdown' \subseteq Created
      <4>1. shutdown \subseteq Created /\ \A k \in Keys : receivers[k] \in Created \cup {0}
        BY Zenon
      <4>2. ASSUME NEW x \in shutdown' PROVE x \in Created
        <5>1. x \in shutdown \/ \E k \in Undesired : x = receivers[k] /\ x # 0
          BY ONLY <2>1, <4>2
        <5> QED
          BY ONLY <2>2, <4>1, <5>1, Zenon
      <4> QED
        BY <4>2, Zenon
    <3>2. receivers' \in [Keys -> Created \cup {0}]
      <4>1. \A k \in Keys : receivers[k] \in Created \cup {0}
        BY Zenon
      <4> QED
        BY ONLY <2>1, <4>1
    <3> QED
      BY <2>1, <3>1, <3>2, Zenon
  <2>4. OwnKey'
    BY Zenon, <2>1, <2>2
  <2>5. NoDeadStream'
    BY <2>1, <2>2
  <2> QED
    BY <2>3, <2>5, <2>4, Zenon DEF IInv
<1>5. ASSUME NEW r \in Streams, RunStart(r) PROVE IInv'
  <2>1. TypeInv'
    BY Zenon, <1>5 DEF RunStart
  <2>2. OwnKey'
    BY Zenon, <1>5 DEF RunStart
  <2>3. NoDeadStream'
    BY <1>5 DEF RunStart
  <2> QED
    BY <2>1, <2>2, <2>3, Zenon DEF IInv
<1>6. ASSUME NEW r \in Streams, OpenStream(r) PROVE IInv'
  <2>1. TypeInv'
    BY Zenon, <1>6 DEF OpenStream
  <2>2. OwnKey'
    BY Zenon, <1>6 DEF OpenStream
  <2>3. NoDeadStream'
    <3>1. r \in Created /\ UNCHANGED <<receivers, senders, shutdown>>
      BY Zenon, <1>6 DEF OpenStream
    <3>2. \A k \in Keys : senders[k] # r
      <4>1. sender[r] = "none" /\ r # 0
        BY <1>6 DEF OpenStream
      <4> QED
        BY Zenon, <4>1
    <3> QED
      <4> SUFFICES ASSUME NEW k \in Keys
                   PROVE  /\ receivers[k] # 0 =>
                               /\ receiver'[receivers[k]] # "gone"
                               /\ receivers[k] \in shutdown => receiver'[receivers[k]] = "ended"
                          /\ senders[k] # 0 => sender'[senders[k]] \in {"registered", "ending"}
        BY Zenon, <3>1
      <4>1. receivers[k] # 0 => receivers[k] \in Streams /\ receiver[receivers[k]] # "gone"
        OBVIOUS
      <4>2. senders[k] # 0 => sender'[senders[k]] = sender[senders[k]]
        BY <1>6, <3>2 DEF OpenStream
      <4>3. receivers[k] # 0 => receiver'[receivers[k]] # "gone"
        BY Zenon, <1>6, <4>1 DEF OpenStream
      <4>4. ASSUME receivers[k] # 0, receivers[k] \in shutdown
            PROVE  receiver'[receivers[k]] = "ended"
        <5>1. receiver[receivers[k]] = "ended" /\ receiver[r] = "opening" /\ "ended" # "opening"
          BY <1>6, <4>4 DEF OpenStream
        <5> QED
          BY Zenon, <1>6, <4>1, <4>4, <5>1 DEF OpenStream
      <4> QED
        BY Zenon, <4>2, <4>3, <4>4
  <2> QED
    BY <2>1, <2>2, <2>3, Zenon DEF IInv
<1>7. ASSUME NEW r \in Streams, OpenFails(r) PROVE IInv'
  BY <1>7 DEF OpenFails
<1>8. ASSUME NEW r \in Streams, ReceiverEnds(r) PROVE IInv'
  BY <1>8 DEF ReceiverEnds
<1>9. ASSUME NEW r \in Streams, Cleanup(r) PROVE IInv'
  <2>1. TypeInv'
    BY <1>9 DEF Cleanup
  <2>2. OwnKey'
    BY Zenon, <1>9 DEF Cleanup
  <2>3. NoDeadStream'
    BY <1>9 DEF Cleanup
  <2> QED
    BY <2>1, <2>2, <2>3, Zenon DEF IInv
<1>10. ASSUME NEW r \in Streams, HandleStream(r) PROVE IInv'
  <2>1. TypeInv'
    BY <1>10 DEF HandleStream
  <2>2. OwnKey'
    BY Zenon, <1>10 DEF HandleStream
  <2>3. NoDeadStream'
    BY <1>10 DEF HandleStream
  <2> QED
    BY <2>1, <2>2, <2>3, Zenon DEF IInv
<1>11. ASSUME NEW r \in Streams, RegisterSender(r) PROVE IInv'
  <2>1. TypeInv'
    BY Zenon, <1>11 DEF RegisterSender
  <2>2. OwnKey'
    BY Zenon, <1>11 DEF RegisterSender
  <2>3. NoDeadStream'
    BY <1>11 DEF RegisterSender
  <2> QED
    BY <2>1, <2>2, <2>3, Zenon DEF IInv
<1>12. ASSUME NEW r \in Streams, SenderEnds(r) PROVE IInv'
  <2>1. TypeInv'
    BY Zenon, <1>12 DEF SenderEnds
  <2>2. OwnKey'
    BY Zenon, <1>12 DEF SenderEnds
  <2>3. NoDeadStream'
    BY <1>12 DEF SenderEnds
  <2> QED
    BY <2>1, <2>2, <2>3, Zenon DEF IInv
<1>13. ASSUME NEW r \in Streams, UnregisterSender(r) PROVE IInv'
  <2>1. TypeInv'
    BY Zenon, <1>13 DEF UnregisterSender
  <2>2. OwnKey'
    BY Zenon, <1>13 DEF UnregisterSender
  <2>3. NoDeadStream'
    BY <1>13 DEF UnregisterSender
  <2> QED
    BY <2>1, <2>2, <2>3, Zenon DEF IInv
<1>14. CASE PruneStart
  BY Zenon, <1>14 DEF PruneStart
<1>15. CASE PruneSenders
  <2>1. TypeInv'
    BY Zenon, <1>15 DEF PruneSenders
  <2>2. OwnKey'
    BY Zenon, <1>15 DEF PruneSenders
  <2>3. NoDeadStream'
    BY Zenon, <1>15 DEF PruneSenders
  <2> QED
    BY <2>1, <2>2, <2>3, Zenon DEF IInv
<1>16. ASSUME NEW r \in Streams, BreakStream(r) PROVE IInv'
  BY Zenon, <1>16 DEF BreakStream
<1>17. CASE ChangeShards
  <2>1. TypeInv'
    BY Zenon, <1>17 DEF ChangeShards
  <2>2. OwnKey'
    BY Zenon, <1>17 DEF ChangeShards
  <2>3. NoDeadStream'
    BY Zenon, <1>17 DEF ChangeShards
  <2> QED
    BY <2>1, <2>2, <2>3, Zenon DEF IInv
<1>18. CASE UNCHANGED vars
  <2>1. TypeInv'
    BY Zenon, <1>18 DEF vars
  <2>2. OwnKey'
    BY Zenon, <1>18 DEF vars
  <2>3. NoDeadStream'
    BY Zenon, <1>18 DEF vars
  <2> QED
    BY <2>1, <2>2, <2>3, Zenon DEF IInv
<1> QED
  BY Zenon, <1>1, <1>2, <1>3, <1>4, <1>5, <1>6, <1>7, <1>8, <1>9, <1>10, <1>11, <1>12, <1>13,
     <1>14, <1>15, <1>16, <1>17, <1>18
  DEF Next, Reconcile, StreamStep

(* NoDeadStream always holds *)
THEOREM StreamsAlive == Spec => []NoDeadStream
<1>1. IInv => NoDeadStream
  BY Zenon DEF IInv
<1> QED
  BY <1>1, InitInv, StepInv, PTL DEF Spec

----------------------------------------------------------------------------
(* No value is in the sequence twice.                                      *)
Distinct(q) == \A i, j \in 1..Len(q) : i # j => q[i] # q[j]

(* A value that is appended is in the sequence, and once if it was not     *)
(* there.                                                                  *)
LEMMA ElementsAppend ==
  ASSUME NEW S, NEW q \in Seq(S), NEW x \in S
  PROVE  /\ Append(q, x) \in Seq(S)
         /\ Elements(Append(q, x)) = Elements(q) \cup {x}
         /\ Distinct(q) /\ x \notin Elements(q) => Distinct(Append(q, x))
<1>1. /\ Append(q, x) \in Seq(S)
      /\ Len(Append(q, x)) = Len(q) + 1
      /\ \A i \in 1..Len(q) : Append(q, x)[i] = q[i]
      /\ Append(q, x)[Len(q) + 1] = x
  OBVIOUS
<1>2. Elements(Append(q, x)) = Elements(q) \cup {x}
  BY <1>1 DEF Elements
<1>3. Distinct(q) /\ x \notin Elements(q) => Distinct(Append(q, x))
  BY <1>1 DEF Elements, Distinct
<1> QED
  BY Zenon, <1>1, <1>2, <1>3

(* Taking the first value of a sequence leaves the others.                 *)
LEMMA ElementsTail ==
  ASSUME NEW S, NEW q \in Seq(S), q # <<>>
  PROVE  /\ Tail(q) \in Seq(S)
         /\ Head(q) \in Elements(q) /\ Head(q) \in S
         /\ Elements(q) = Elements(Tail(q)) \cup {Head(q)}
         /\ Distinct(q) => Distinct(Tail(q)) /\ Head(q) \notin Elements(Tail(q))
<1>1. /\ Tail(q) \in Seq(S)
      /\ Len(q) \in Nat \ {0} /\ Len(Tail(q)) = Len(q) - 1
      /\ \A i \in 1..Len(Tail(q)) : Tail(q)[i] = q[i + 1]
      /\ Head(q) = q[1]
  OBVIOUS
<1>2. Elements(q) = Elements(Tail(q)) \cup {Head(q)}
  <2>1. \A i \in 1..Len(q) : i = 1 \/ \E j \in 1..Len(Tail(q)) : q[i] = Tail(q)[j]
    <3>1. \A i \in 1..Len(q) : i = 1 \/ (i - 1 \in 1..Len(Tail(q)) /\ q[i] = Tail(q)[i - 1])
      BY <1>1
    <3> QED
      BY Zenon, <3>1
  <2>2. \A j \in 1..Len(Tail(q)) : \E i \in 1..Len(q) : q[i] = Tail(q)[j]
    <3>1. \A j \in 1..Len(Tail(q)) : j + 1 \in 1..Len(q) /\ Tail(q)[j] = q[j + 1]
      BY <1>1
    <3> QED
      BY Zenon, <3>1
  <2>3. 1 \in 1..Len(q)
    BY <1>1
  <2>4. ASSUME NEW x \in Elements(q) PROVE x \in Elements(Tail(q)) \cup {Head(q)}
    <3>1. PICK i \in 1..Len(q) : x = q[i]
      BY Zenon, <2>4 DEF Elements
    <3> QED
      BY Zenon, <1>1, <2>1, <3>1 DEF Elements
  <2>5. ASSUME NEW x \in Elements(Tail(q)) \cup {Head(q)} PROVE x \in Elements(q)
    <3>1. CASE x \in Elements(Tail(q))
      BY Zenon, <2>2, <3>1 DEF Elements
    <3>2. CASE x = Head(q)
      BY Zenon, <1>1, <2>3, <3>2 DEF Elements
    <3> QED
      BY Zenon, <2>5, <3>1, <3>2
  <2> QED
    BY Zenon, <2>4, <2>5
<1>3. Distinct(q) => Distinct(Tail(q)) /\ Head(q) \notin Elements(Tail(q))
  BY <1>1 DEF Elements, Distinct
<1>4. Head(q) \in S
  BY <1>1
<1> QED
  BY Zenon, <1>1, <1>2, <1>3, <1>4

(* A sequence is what is kept of it and what is cut.                       *)
LEMMA ElementsCut ==
  ASSUME NEW S, NEW q \in Seq(S), NEW k \in 0..Len(q)
  PROVE  LET kept == SubSeq(q, 1, k)
             cut  == SubSeq(q, k + 1, Len(q))
         IN  /\ kept \in Seq(S)
             /\ Elements(q) = Elements(kept) \cup Elements(cut)
             /\ Distinct(q) => Distinct(kept) /\ Elements(kept) \cap Elements(cut) = {}
<1> DEFINE kept == SubSeq(q, 1, k)
           cut  == SubSeq(q, k + 1, Len(q))
<1>1. Len(q) \in Nat
  OBVIOUS
<1>2. /\ kept \in Seq(S) /\ Len(kept) = k
      /\ \A i \in 1..k : kept[i] = q[i]
  BY <1>1
<1>3. /\ Len(cut) = Len(q) - k
      /\ \A i \in 1..(Len(q) - k) : cut[i] = q[k + i]
  BY <1>1
<1> HIDE DEF kept, cut
<1>4. Elements(q) = Elements(kept) \cup Elements(cut)
  <2>1. \A i \in 1..Len(q) :
          \/ i \in 1..k
          \/ i - k \in 1..(Len(q) - k) /\ q[i] = cut[i - k]
    BY <1>1, <1>3
  <2>2. ASSUME NEW x \in Elements(q) PROVE x \in Elements(kept) \cup Elements(cut)
    <3>1. PICK i \in 1..Len(q) : x = q[i]
      BY <2>2, Zenon DEF Elements
    <3>2. CASE i \in 1..k
      BY Zenon, <1>2, <3>1, <3>2 DEF Elements
    <3>3. CASE i - k \in 1..(Len(q) - k) /\ q[i] = cut[i - k]
      BY Zenon, <1>3, <3>1, <3>3 DEF Elements
    <3> QED
      BY <2>1, <3>2, <3>3, Zenon
  <2>3. ASSUME NEW x \in Elements(kept) \cup Elements(cut) PROVE x \in Elements(q)
    <3>1. \A i \in 1..k : i \in 1..Len(q) /\ kept[i] = q[i]
      BY <1>1, <1>2
    <3>2. \A i \in 1..(Len(q) - k) : k + i \in 1..Len(q) /\ cut[i] = q[k + i]
      BY <1>1, <1>3
    <3>3. CASE x \in Elements(kept)
      BY Zenon, <1>2, <3>1, <3>3 DEF Elements
    <3>4. CASE x \in Elements(cut)
      BY Zenon, <1>3, <3>2, <3>4 DEF Elements
    <3> QED
      BY <2>3, <3>3, <3>4, Zenon
  <2> QED
    BY <2>2, <2>3, Zenon
<1>5. ASSUME Distinct(q) PROVE Distinct(kept) /\ Elements(kept) \cap Elements(cut) = {}
  <2>1. Distinct(kept)
    BY <1>1, <1>2, <1>5 DEF Distinct
  <2>2. ASSUME NEW i \in 1..k, NEW j \in 1..(Len(q) - k) PROVE kept[i] # cut[j]
    BY <1>1, <1>2, <1>3, <1>5 DEF Distinct
  <2> QED
    BY <1>2, <1>3, <2>1, <2>2 DEF Elements
<1> QED
  BY Zenon, <1>2, <1>4, <1>5 DEF kept, cut
----------------------------------------------------------------------------
(* Where the messages 1..(n - 1) are: W on the wires, H in the receivers'  *)
(* hands, A in a channel, L lost; each in one place.                       *)
Placed(W, H, A, L, n) ==
  /\ \A m \in 1..(n - 1) : m \in A \/ m \in L \/ \E r \in Links : m \in W[r] \/ m = H[r]
  /\ \A r \in Links : H[r] \in 0..(n - 1) /\ \A m \in W[r] : m \in 1..(n - 1)
  /\ \A m \in A : m \in 1..(n - 1) /\ m \notin L
  /\ \A m \in L : m \in 1..(n - 1)
  /\ \A r, s \in Links : \A m \in W[r] :
       m # H[s] /\ m \notin A /\ m \notin L /\ (m \in W[s] => r = s)
  /\ \A r, s \in Links : H[r] # 0 =>
       H[r] \notin A /\ H[r] \notin L /\ (H[r] = H[s] => r = s)

(* A message is sent, or lost as it is sent.                               *)
LEMMA PlacedSend ==
  ASSUME NEW W, NEW H, NEW A, NEW L, NEW n \in Nat \ {0}, NEW V, NEW r \in Links,
         Placed(W, H, A, L, n),
         V[r] = W[r] \cup {n}, \A s \in Links : s # r => V[s] = W[s]
  PROVE  Placed(V, H, A, L, n + 1)
  BY DEF Placed

(* A message is lost as it is sent.                                        *)
LEMMA PlacedSendLost ==
  ASSUME NEW W, NEW H, NEW A, NEW L, NEW n \in Nat \ {0}, Placed(W, H, A, L, n)
  PROVE  Placed(W, H, A, L \cup {n}, n + 1)
  BY DEF Placed

(* A receiver takes a message from the wire.                               *)
LEMMA PlacedRecv ==
  ASSUME NEW W, NEW H, NEW A, NEW L, NEW n \in Nat \ {0}, NEW V, NEW G, NEW r \in Links, NEW x,
         Placed(W, H, A, L, n), H[r] = 0,
         W[r] = V[r] \cup {x}, x \notin V[r], \A s \in Links : s # r => V[s] = W[s],
         G[r] = x, \A s \in Links : s # r => G[s] = H[s]
  PROVE  Placed(V, G, A, L, n)
  BY DEF Placed

(* A receiver puts what it has into a channel, or loses it.                *)
LEMMA PlacedArrive ==
  ASSUME NEW W, NEW H, NEW A, NEW L, NEW n \in Nat \ {0}, NEW G, NEW r \in Links,
         Placed(W, H, A, L, n), H[r] # 0,
         G[r] = 0, \A s \in Links : s # r => G[s] = H[s]
  PROVE  Placed(W, G, A \cup {H[r]}, L, n)
  BY DEF Placed

(* A receiver loses what it has in hand.                                   *)
LEMMA PlacedDrop ==
  ASSUME NEW W, NEW H, NEW A, NEW L, NEW n \in Nat \ {0}, NEW G, NEW r \in Links,
         Placed(W, H, A, L, n), H[r] # 0,
         G[r] = 0, \A s \in Links : s # r => G[s] = H[s]
  PROVE  Placed(W, G, A, L \cup {H[r]}, n)
  BY DEF Placed

(* A connection ends with some of what was on its wire.                    *)
LEMMA PlacedCut ==
  ASSUME NEW W, NEW H, NEW A, NEW L, NEW n \in Nat \ {0}, NEW V, NEW r \in Links, NEW C,
         Placed(W, H, A, L, n),
         W[r] = V[r] \cup C, V[r] \cap C = {}, \A s \in Links : s # r => V[s] = W[s]
  PROVE  Placed(V, H, A, L \cup C, n)
  BY DEF Placed
----------------------------------------------------------------------------
(* ForwardingTypes: the shape of the state.  A stream that was not opened  *)
(* has no receiver and carried nothing.                                    *)
ForwardingTypes ==
  /\ opened \in 0..MaxLinks
  /\ linked \subseteq 1..opened
  /\ peerSender \in 0..opened
  /\ peerReceiver \in 0..opened
  /\ using \in 0..opened
  /\ nextMsg \in Nat \ {0}
  /\ relay \in [Links -> {"off", "recv", "find", "send", "ended", "gone"}]
  /\ inHand \in [Links -> Nat]
  /\ \A r \in Links :
       /\ inHand[r] # 0 <=> relay[r] \in {"find", "send"}
       /\ r > opened => relay[r] = "off"
  /\ msgWire \in [Links -> Seq(Nat)]
  /\ arrived \in Seq(Nat)

(* The messages on the wire of each stream.                                *)
OnWire == [r \in Links |-> Elements(msgWire[r])]

(* Every message is in one place, and there once.                          *)
MessagesPlaced ==
  /\ \A r \in Links : Distinct(msgWire[r])
  /\ Distinct(arrived)
  /\ Placed(OnWire, inHand, Elements(arrived), lost, nextMsg)

(* The same of the acks: what was sent on a stream that is up, and is not  *)
(* in the source shard's channel, is on its way there.                     *)
AckTypes ==
  /\ nextAck \in Nat \ {0}
  /\ ackRelay \in [Links -> {"off", "recv", "deliver", "ended", "gone"}]
  /\ ackInHand \in [Links -> Nat]
  /\ ackWire \in [Links -> Seq(Nat)]
  /\ ackSent \in [Links -> SUBSET (Nat \ {0})]
  /\ \A r \in Links :
       /\ ackRelay[r] # "deliver" => ackInHand[r] = 0
       /\ r > opened => ackSent[r] = {} /\ ackRelay[r] = "off"

(* The inductive invariant of the forwarding between two nodes.            *)
ForwardingInv == ForwardingTypes /\ MessagesPlaced /\ AckTypes /\ AcksKeptOrStreamEnds

(* What Cut does to the wires of a stream.                                 *)
LEMMA CutSplits ==
  ASSUME ForwardingInv, NEW r \in Links, Cut(r)
  PROVE  /\ linked' = linked \ {r}
         /\ msgWire' \in [Links -> Seq(Nat)]
         /\ \E C : /\ lost' = lost \cup C
                   /\ OnWire[r] = OnWire'[r] \cup C
                   /\ OnWire'[r] \cap C = {}
         /\ \A s \in Links : s # r => msgWire'[s] = msgWire[s]
         /\ \A s \in Links : Distinct(msgWire'[s])
         /\ ackWire' \in [Links -> Seq(Nat)]
         /\ \A s \in Links : s # r => ackWire'[s] = ackWire[s]
<1> USE DEF ForwardingInv, ForwardingTypes, MessagesPlaced, AckTypes
<1>1. PICK k \in 0..Len(msgWire[r]) :
        /\ msgWire' = [msgWire EXCEPT ![r] = SubSeq(@, 1, k)]
        /\ lost' = lost \cup Elements(SubSeq(msgWire[r], k + 1, Len(msgWire[r])))
  BY Zenon DEF Cut
<1>2. PICK j \in 0..Len(ackWire[r]) : ackWire' = [ackWire EXCEPT ![r] = SubSeq(@, 1, j)]
  BY Zenon DEF Cut
<1> DEFINE C == Elements(SubSeq(msgWire[r], k + 1, Len(msgWire[r])))
<1>3. /\ SubSeq(msgWire[r], 1, k) \in Seq(Nat)
      /\ Elements(msgWire[r]) = Elements(SubSeq(msgWire[r], 1, k)) \cup C
      /\ Distinct(SubSeq(msgWire[r], 1, k)) /\ Elements(SubSeq(msgWire[r], 1, k)) \cap C = {}
  BY Zenon, ElementsCut
<1>4. SubSeq(ackWire[r], 1, j) \in Seq(Nat)
  BY Zenon, ElementsCut
<1>5. msgWire' \in [Links -> Seq(Nat)] /\ ackWire' \in [Links -> Seq(Nat)]
  BY Zenon, <1>1, <1>2, <1>3, <1>4
<1>6. /\ msgWire'[r] = SubSeq(msgWire[r], 1, k)
      /\ \A s \in Links : s # r => msgWire'[s] = msgWire[s]
      /\ \A s \in Links : s # r => ackWire'[s] = ackWire[s]
  BY Zenon, <1>1, <1>2
<1>7. OnWire[r] = Elements(msgWire[r]) /\ OnWire'[r] = Elements(msgWire'[r])
  BY Zenon DEF OnWire
<1>8. /\ lost' = lost \cup C
      /\ OnWire[r] = OnWire'[r] \cup C
      /\ OnWire'[r] \cap C = {}
  BY <1>1, <1>3, <1>6, <1>7, Zenon
<1>9. \A s \in Links : Distinct(msgWire'[s])
  <2>1. Distinct(msgWire'[r])
    BY <1>3, <1>6, Zenon
  <2> QED
    BY <1>6, <2>1, Zenon
<1> HIDE DEF C
<1> QED
  BY <1>5, <1>6, <1>8, <1>9, Zenon DEF Cut

(* The invariant holds before the first stream.                            *)
LEMMA ForwardingInitInv == ForwardingInit => ForwardingInv
<1> SUFFICES ASSUME ForwardingInit PROVE ForwardingInv
  BY Zenon
<1> USE ForwardingAssumption DEF ForwardingInit
<1>1. ForwardingTypes
  <2>1. relay \in [Links -> {"off", "recv", "find", "send", "ended", "gone"}]
    BY Zenon
  <2>2. msgWire \in [Links -> Seq(Nat)] /\ inHand \in [Links -> Nat]
    OBVIOUS
  <2> QED
    BY <2>1, <2>2 DEF ForwardingTypes, Links
<1>2. MessagesPlaced
  BY DEF MessagesPlaced, Placed, Distinct, OnWire, Elements
<1>3. AckTypes
  <2>1. ackRelay \in [Links -> {"off", "recv", "deliver", "ended", "gone"}]
    BY Zenon
  <2>2. ackWire \in [Links -> Seq(Nat)] /\ ackInHand \in [Links -> Nat]
    OBVIOUS
  <2> QED
    BY <2>1, <2>2 DEF AckTypes
<1>4. AcksKeptOrStreamEnds
  BY Zenon DEF AcksKeptOrStreamEnds
<1> QED
  BY Zenon, <1>1, <1>2, <1>3, <1>4 DEF ForwardingInv

(* Every step preserves the shape of the state.                            *)
LEMMA ForwardingStepTypes ==
  ForwardingInv /\ [ForwardingNext]_routedVars => ForwardingTypes'
<1> SUFFICES ASSUME ForwardingInv, [ForwardingNext]_routedVars PROVE ForwardingTypes'
  BY Zenon
<1> USE ForwardingAssumption
    DEF ForwardingInv, ForwardingTypes, linkVars, chanVars, outVars, relayVars, ackVars
<1>0. Links = 1..MaxLinks
  BY Zenon DEF Links
<1>1. CASE OpenLink
  BY <1>0, <1>1 DEF OpenLink
<1>2. CASE RegisterChan \/ RemoveChan \/ ToggleAckChan \/ ForwardAck
           \/ \E c \in 1..chans : CloseChan(c)
  <2>1. UNCHANGED <<linkVars, outVars, relayVars, msgWire>>
    BY <1>2, Zenon DEF RegisterChan, RemoveChan, ToggleAckChan, ForwardAck, CloseChan
  <2> QED
    BY Zenon, <2>1
<1>3. CASE FindSender
  BY Zenon, <1>3 DEF FindSender
<1>4. CASE SendToPeer
  <2>1. CASE using \in linked
    <3>1. using \in Links /\ msgWire' = [msgWire EXCEPT ![using] = Append(@, nextMsg)]
      BY <1>0, <1>4, <2>1 DEF SendToPeer
    <3>2. Append(msgWire[using], nextMsg) \in Seq(Nat)
      BY Zenon, <3>1, ElementsAppend
    <3>3. msgWire' \in [Links -> Seq(Nat)]
      BY Zenon, <3>1, <3>2
    <3> QED
      BY <1>4, <2>1, <3>3 DEF SendToPeer
  <2>2. CASE using \notin linked
    BY <1>4, <2>2 DEF SendToPeer
  <2> QED
    BY Zenon, <2>1, <2>2
<1>5. ASSUME NEW r \in Links, Cut(r), PruneLink(r) \/ BreakLink(r) \/ HandlerReturns(r)
      PROVE  ForwardingTypes'
  <2>1. linked' = linked \ {r} /\ msgWire' \in [Links -> Seq(Nat)]
    BY Zenon, <1>5, CutSplits
  <2>2. UNCHANGED <<opened, peerSender, nextMsg, using, relay, inHand, arrived>>
    BY <1>5, Zenon DEF BreakLink, PruneLink, HandlerReturns
  <2>3. peerReceiver' = 0 \/ peerReceiver' = peerReceiver
    BY <1>5, Zenon DEF BreakLink, PruneLink, HandlerReturns
  <2>4. linked \subseteq 1..opened /\ 0 \in 0..opened /\ peerReceiver \in 0..opened
    OBVIOUS
  <2>5. linked' \subseteq 1..opened /\ peerReceiver' \in 0..opened
    BY <2>1, <2>3, <2>4, Zenon
  <2> QED
    BY Zenon, <2>1, <2>2, <2>5
<1>6. ASSUME NEW r \in Links, DeliverRoutedAck(r) PROVE ForwardingTypes'
  <2>1. UNCHANGED <<linkVars, outVars, relayVars, msgWire>>
    BY <1>6, Zenon DEF DeliverRoutedAck
  <2> QED
    BY Zenon, <2>1
<1>7. ASSUME NEW r \in Links, RecvRouted(r) PROVE ForwardingTypes'
  <2>1. CASE msgWire[r] # <<>> /\ RelayAt(r, "recv", "find")
             /\ inHand' = [inHand EXCEPT ![r] = Head(msgWire[r])]
             /\ msgWire' = [msgWire EXCEPT ![r] = Tail(@)]
    <3>1. Tail(msgWire[r]) \in Seq(Nat) /\ Head(msgWire[r]) \in Elements(msgWire[r])
      BY Zenon, <2>1, ElementsTail
    <3>2. Head(msgWire[r]) \in Nat \ {0}
      BY <3>1 DEF MessagesPlaced, Placed, OnWire
    <3>3. msgWire' \in [Links -> Seq(Nat)]
      BY Zenon, <2>1, <3>1
    <3> QED
      BY Zenon, <1>7, <2>1, <3>2, <3>3 DEF RecvRouted, RelayAt
  <2>2. CASE RelayAt(r, "recv", "ended") /\ UNCHANGED <<inHand, msgWire>>
    <3>1. /\ UNCHANGED <<opened, linked, peerSender, peerReceiver, using, nextMsg, inHand, msgWire,
                         arrived>>
          /\ relay[r] = "recv" /\ relay' = [relay EXCEPT ![r] = "ended"]
      BY <1>7, <2>2, Zenon DEF RecvRouted, RelayAt
    <3>2. /\ relay \in [Links -> {"off", "recv", "find", "send", "ended", "gone"}]
          /\ \A s \in Links : inHand[s] # 0 <=> relay[s] \in {"find", "send"}
      BY Zenon
    <3>3. /\ relay' \in [Links -> {"off", "recv", "find", "send", "ended", "gone"}]
          /\ \A s \in Links : relay'[s] = IF s = r THEN "ended" ELSE relay[s]
      BY ONLY <1>7, <3>1, <3>2
    <3>4. \A s \in Links : inHand[s] # 0 <=> relay'[s] \in {"find", "send"}
      BY ONLY <3>1, <3>2, <3>3
    <3>5. ForwardingTypes
      BY Zenon
    <3> HIDE DEF ForwardingInv
    <3> QED
      BY Zenon, <3>1, <3>3, <3>4, <3>5
  <2> QED
    BY Zenon, <1>7, <2>1, <2>2 DEF RecvRouted
<1>8. ASSUME NEW r \in Links, FindChan(r) \/ DropReceiver(r) PROVE ForwardingTypes'
  <2>1. CASE FindChan(r)
    BY Zenon, <2>1 DEF FindChan, RelayAt
  <2>2. CASE DropReceiver(r)
    BY <2>2 DEF DropReceiver, RelayAt
  <2> QED
    BY Zenon, <1>8, <2>1, <2>2
<1>9. ASSUME NEW r \in Links, RetryChan(r) PROVE ForwardingTypes'
  <2>1. CASE r \in pruned
    BY Zenon, <1>9, <2>1 DEF RetryChan, RelayAt
  <2>2. CASE r \notin pruned
    BY Zenon, <1>9, <2>2 DEF RetryChan, RelayAt
  <2> QED
    BY Zenon, <2>1, <2>2
<1>10. ASSUME NEW r \in Links, StopSending(r) PROVE ForwardingTypes'
  BY Zenon, <1>10 DEF StopSending, RelayAt
<1>11. ASSUME NEW r \in Links, SendToChan(r) PROVE ForwardingTypes'
  <2>1. arrived' \in Seq(Nat)
    BY Zenon, <1>11, ElementsAppend DEF SendToChan
  <2> QED
    BY Zenon, <1>11, <2>1 DEF SendToChan, RelayAt
<1>12. ASSUME NEW r \in Links, RecvRoutedAck(r) \/ DropSender(r) PROVE ForwardingTypes'
  <2>1. /\ UNCHANGED <<opened, linked, peerReceiver, outVars, relayVars, msgWire>>
        /\ peerSender' \in {0, peerSender}
    BY <1>12, Zenon DEF RecvRoutedAck, DropSender
  <2> QED
    BY <2>1
<1>13. CASE UNCHANGED routedVars
  BY Zenon, <1>13 DEF routedVars
<1>14. ASSUME NEW r \in Links, PruneLink(r) \/ BreakLink(r) \/ HandlerReturns(r) PROVE Cut(r)
  BY Zenon, <1>14 DEF PruneLink, BreakLink, HandlerReturns
<1> QED
  BY <1>1, <1>2, <1>4, <1>5, <1>6, <1>7, <1>8, <1>11, <1>12, <1>13, <1>14, <1>3, <1>9, <1>10,
     Zenon
  DEF ForwardingNext, RelayStep

(* Every step keeps every message in one place.                            *)
LEMMA ForwardingStepMessages ==
  ForwardingInv /\ [ForwardingNext]_routedVars => MessagesPlaced'
<1> SUFFICES ASSUME ForwardingInv, [ForwardingNext]_routedVars PROVE MessagesPlaced'
  BY Zenon
<1> USE DEF ForwardingInv, linkVars, chanVars, outVars, relayVars, ackVars
<1>0. /\ nextMsg \in Nat \ {0} /\ arrived \in Seq(Nat)
      /\ \A r \in Links : msgWire[r] \in Seq(Nat) /\ OnWire[r] = Elements(msgWire[r])
                          /\ OnWire'[r] = Elements(msgWire'[r])
  BY Zenon DEF ForwardingTypes, OnWire
<1>1. ASSUME UNCHANGED <<msgWire, inHand, arrived, lost, nextMsg>> PROVE MessagesPlaced'
  BY <1>1, Zenon DEF MessagesPlaced, OnWire
<1>2. CASE \/ OpenLink \/ RegisterChan \/ RemoveChan \/ ToggleAckChan \/ FindSender \/ ForwardAck
           \/ (\E c \in 1..chans : CloseChan(c)) \/ UNCHANGED routedVars
  BY <1>1, <1>2, Zenon
  DEF OpenLink, RegisterChan, RemoveChan, ToggleAckChan, FindSender, ForwardAck, CloseChan,
      routedVars
<1>3. CASE SendToPeer
  <2>1. CASE using \in linked
    <3> DEFINE q == msgWire[using]
    <3>1. /\ using \in Links
          /\ msgWire' = [msgWire EXCEPT ![using] = Append(q, nextMsg)]
          /\ nextMsg' = nextMsg + 1 /\ UNCHANGED <<inHand, arrived, lost>>
      <4>1. using \in Links
        BY <2>1, ForwardingAssumption DEF ForwardingTypes, Links
      <4> QED
        BY <1>3, <2>1, <4>1, Zenon DEF SendToPeer
    <3>2. nextMsg \notin Elements(q) /\ Distinct(q)
      BY <1>0, <3>1 DEF MessagesPlaced, Placed
    <3>3. Elements(Append(q, nextMsg)) = Elements(q) \cup {nextMsg} /\ Distinct(Append(q, nextMsg))
      BY <1>0, <3>1, <3>2, ElementsAppend
    <3>4. /\ msgWire'[using] = Append(q, nextMsg)
          /\ \A s \in Links : s # using => msgWire'[s] = msgWire[s]
      BY Zenon, <3>1 DEF ForwardingTypes
    <3> HIDE DEF q
    <3>5. OnWire'[using] = OnWire[using] \cup {nextMsg}
            /\ \A s \in Links : s # using => OnWire'[s] = OnWire[s]
      BY <1>0, <3>1, <3>3, <3>4, Zenon DEF q
    <3>6. Placed(OnWire', inHand, Elements(arrived), lost, nextMsg + 1)
      BY <1>0, <3>1, <3>5, PlacedSend DEF MessagesPlaced
    <3>7. \A s \in Links : Distinct(msgWire'[s])
      BY <3>3, <3>4, Zenon DEF MessagesPlaced
    <3> QED
      BY <3>1, <3>6, <3>7, Zenon DEF MessagesPlaced
  <2>2. CASE nextMsg' = nextMsg + 1 /\ lost' = lost \cup {nextMsg}
               /\ UNCHANGED <<msgWire, inHand, arrived>>
    <3>1. Placed(OnWire, inHand, Elements(arrived), lost', nextMsg')
      BY Zenon, <1>0, <2>2, PlacedSendLost DEF MessagesPlaced
    <3> QED
      BY <2>2, <3>1, Zenon DEF MessagesPlaced, OnWire
  <2> QED
    BY <1>1, <1>3, <2>1, <2>2, Zenon DEF SendToPeer
<1>4. ASSUME NEW r \in Links, Cut(r), PruneLink(r) \/ BreakLink(r) \/ HandlerReturns(r)
      PROVE  MessagesPlaced'
  <2>1. UNCHANGED <<inHand, arrived, nextMsg>>
    BY <1>4, Zenon DEF PruneLink, BreakLink, HandlerReturns
  <2>2. PICK C : /\ lost' = lost \cup C
                 /\ OnWire[r] = OnWire'[r] \cup C
                 /\ OnWire'[r] \cap C = {}
    BY <1>4, CutSplits, Zenon
  <2>3. /\ \A s \in Links : s # r => msgWire'[s] = msgWire[s]
        /\ \A s \in Links : Distinct(msgWire'[s])
    BY <1>4, CutSplits, Zenon
  <2>4. \A s \in Links : s # r => OnWire'[s] = OnWire[s]
    BY Zenon, <1>0, <2>3
  <2>5. Placed(OnWire', inHand, Elements(arrived), lost \cup C, nextMsg)
    <3>1. nextMsg \in Nat \ {0} /\ Placed(OnWire, inHand, Elements(arrived), lost, nextMsg)
      BY Zenon, <1>0 DEF MessagesPlaced
    <3> HIDE DEF ForwardingInv
    <3> QED
      BY ONLY <2>2, <2>4, <3>1, PlacedCut, Zenon
  <2> QED
    BY <2>1, <2>2, <2>3, <2>5, Zenon DEF MessagesPlaced
<1>5. ASSUME NEW r \in Links, PruneLink(r) \/ BreakLink(r) \/ HandlerReturns(r)
      PROVE  MessagesPlaced'
  BY <1>1, <1>4, <1>5, Zenon DEF PruneLink, BreakLink, HandlerReturns
<1>6. ASSUME NEW r \in Links, RecvRouted(r) PROVE MessagesPlaced'
  <2>1. CASE msgWire[r] # <<>> /\ RelayAt(r, "recv", "find")
             /\ inHand' = [inHand EXCEPT ![r] = Head(msgWire[r])]
             /\ msgWire' = [msgWire EXCEPT ![r] = Tail(@)]
    <3> DEFINE q == msgWire[r]
    <3>1. UNCHANGED <<arrived, lost, nextMsg>>
      BY Zenon, <1>6 DEF RecvRouted
    <3>2. /\ Elements(q) = Elements(Tail(q)) \cup {Head(q)}
          /\ Distinct(Tail(q)) /\ Head(q) \notin Elements(Tail(q))
      BY Zenon, <1>0, <2>1, ElementsTail DEF MessagesPlaced
    <3>3. /\ msgWire'[r] = Tail(q) /\ inHand'[r] = Head(q) /\ inHand[r] = 0
          /\ \A s \in Links : s # r => msgWire'[s] = msgWire[s] /\ inHand'[s] = inHand[s]
      <4>1. msgWire \in [Links -> Seq(Nat)] /\ inHand \in [Links -> Nat]
        BY Zenon DEF ForwardingTypes
      <4>2. inHand[r] = 0
        <5>1. relay[r] = "recv" /\ (inHand[r] # 0 <=> relay[r] \in {"find", "send"})
          BY <2>1, Zenon DEF ForwardingTypes, RelayAt
        <5> QED
          BY ONLY <5>1
      <4> HIDE DEF ForwardingInv
      <4> QED
        BY <2>1, <4>1, <4>2, Zenon
    <3> HIDE DEF q
    <3>4. /\ OnWire[r] = OnWire'[r] \cup {Head(q)} /\ Head(q) \notin OnWire'[r]
          /\ \A s \in Links : s # r => OnWire'[s] = OnWire[s]
      BY <1>0, <3>2, <3>3, Zenon DEF q
    <3>5. Placed(OnWire', inHand', Elements(arrived), lost, nextMsg)
      <4>1. nextMsg \in Nat \ {0} /\ Placed(OnWire, inHand, Elements(arrived), lost, nextMsg)
        BY Zenon, <1>0 DEF MessagesPlaced
      <4> HIDE DEF ForwardingInv
      <4> QED
        BY <3>3, <3>4, <4>1, PlacedRecv
    <3>6. \A s \in Links : Distinct(msgWire'[s])
      BY <3>2, <3>3, Zenon DEF MessagesPlaced
    <3> QED
      BY <3>1, <3>5, <3>6, Zenon DEF MessagesPlaced
  <2> QED
    BY <1>1, <1>6, <2>1, Zenon DEF RecvRouted
<1>7. ASSUME NEW r \in Links, \/ FindChan(r) \/ DropReceiver(r) \/ RecvRoutedAck(r)
                              \/ DropSender(r) \/ DeliverRoutedAck(r)
      PROVE  MessagesPlaced'
  BY <1>1, <1>7, Zenon DEF FindChan, DropReceiver, RecvRoutedAck, DropSender, DeliverRoutedAck
<1>8. ASSUME NEW r \in Links, inHand[r] # 0, inHand' = [inHand EXCEPT ![r] = 0],
             UNCHANGED <<msgWire, nextMsg>>,
             \/ arrived' = Append(arrived, inHand[r]) /\ UNCHANGED lost
             \/ lost' = lost \cup {inHand[r]} /\ UNCHANGED arrived
      PROVE  MessagesPlaced'
  <2>1. inHand'[r] = 0 /\ \A s \in Links : s # r => inHand'[s] = inHand[s]
    BY Zenon, <1>8 DEF ForwardingTypes
  <2>2. CASE arrived' = Append(arrived, inHand[r]) /\ UNCHANGED lost
    <3>1. inHand[r] \notin Elements(arrived) /\ inHand[r] \in Nat
      BY Zenon, <1>8 DEF MessagesPlaced, Placed, ForwardingTypes
    <3>2. Elements(arrived') = Elements(arrived) \cup {inHand[r]} /\ Distinct(arrived')
      BY <1>0, <2>2, <3>1, ElementsAppend DEF MessagesPlaced
    <3>3. Placed(OnWire, inHand', Elements(arrived) \cup {inHand[r]}, lost, nextMsg)
      BY <1>0, <1>8, <2>1, PlacedArrive, Zenon DEF MessagesPlaced
    <3> QED
      BY <1>8, <2>2, <3>2, <3>3, Zenon DEF MessagesPlaced, OnWire
  <2>3. CASE lost' = lost \cup {inHand[r]} /\ UNCHANGED arrived
    <3>1. Placed(OnWire, inHand', Elements(arrived), lost \cup {inHand[r]}, nextMsg)
      BY <1>0, <1>8, <2>1, PlacedDrop, Zenon DEF MessagesPlaced
    <3> QED
      BY <1>8, <2>3, <3>1, Zenon DEF MessagesPlaced, OnWire
  <2> QED
    BY Zenon, <1>8, <2>2, <2>3
<1>9. ASSUME NEW r \in Links, RetryChan(r) \/ SendToChan(r) \/ StopSending(r) PROVE MessagesPlaced'
  <2>1. inHand[r] # 0
    BY Zenon, <1>9 DEF RetryChan, SendToChan, StopSending, RelayAt, ForwardingTypes
  <2> QED
    BY <1>1, <1>8, <1>9, <2>1, Zenon DEF RetryChan, SendToChan, StopSending
<1> QED
  BY <1>2, <1>3, <1>5, <1>6, <1>7, <1>9, Zenon DEF ForwardingNext, RelayStep

(* MessagesPlaced is what MessagesAccounted says.                          *)
LEMMA PlacedOnce == ForwardingInv => MessagesAccounted
<1> SUFFICES ASSUME ForwardingInv PROVE MessagesAccounted
  BY Zenon
<1> DEFINE inHands == {inHand[r] : r \in Links} \ {0}
           onWires == UNION {Elements(msgWire[r]) : r \in Links}
           places  == <<inHands, onWires, Elements(arrived), lost>>
<1>1. /\ nextMsg \in Nat \ {0} /\ Distinct(arrived)
      /\ Placed(OnWire, inHand, Elements(arrived), lost, nextMsg)
      /\ \A r \in Links : OnWire[r] = Elements(msgWire[r])
  BY Zenon DEF ForwardingInv, ForwardingTypes, MessagesPlaced, OnWire
<1>2. /\ \A m : m \in inHands <=> m # 0 /\ \E r \in Links : m = inHand[r]
      /\ \A m : m \in onWires <=> \E r \in Links : m \in OnWire[r]
  BY <1>1, Zenon
<1>3. Elements(places) = {inHands, onWires, Elements(arrived), lost}
  <2> HIDE DEF inHands, onWires
  <2>1. Len(places) = 4 /\ places[1] = inHands /\ places[2] = onWires
        /\ places[3] = Elements(arrived) /\ places[4] = lost
    BY Zenon
  <2> HIDE DEF places
  <2>2. 1..4 = {1, 2, 3, 4}
    OBVIOUS
  <2>3. Elements(places) = {places[i] : i \in {1, 2, 3, 4}}
    BY Zenon, <2>1, <2>2 DEF Elements
  <2> QED
    BY Zenon, <2>1, <2>3
<1> HIDE DEF inHands, onWires
<1>4. inHands \cup onWires \cup Elements(arrived) \cup lost = 1..(nextMsg - 1)
  BY <1>1, <1>2 DEF Placed
<1>5. /\ inHands \cap onWires = {} /\ inHands \cap Elements(arrived) = {} /\ inHands \cap lost = {}
      /\ onWires \cap Elements(arrived) = {} /\ onWires \cap lost = {}
      /\ Elements(arrived) \cap lost = {}
  BY <1>1, <1>2 DEF Placed
<1>6. \A i, j \in 1..4 : i # j => places[i] \cap places[j] = {}
  BY <1>5
<1>7. UNION Elements(places) = 1..(nextMsg - 1)
  BY <1>3, <1>4, Zenon
<1> QED
  BY <1>1, <1>6, <1>7, Zenon DEF MessagesAccounted, Distinct, inHands, onWires

(* Every step keeps the acks, or the stream they were sent on ends.        *)
LEMMA ForwardingStepAcks ==
  ForwardingInv /\ [ForwardingNext]_routedVars => AckTypes' /\ AcksKeptOrStreamEnds'
<1> SUFFICES ASSUME ForwardingInv, [ForwardingNext]_routedVars
             PROVE  AckTypes' /\ AcksKeptOrStreamEnds'
  BY Zenon
<1> USE DEF linkVars, chanVars, outVars, relayVars, ackVars
<1>0. /\ opened \in 0..MaxLinks /\ linked \subseteq 1..opened /\ peerReceiver \in 0..opened
      /\ Links = 1..MaxLinks /\ linked \subseteq Links /\ MaxLinks \in Nat
  BY ForwardingAssumption DEF ForwardingInv, ForwardingTypes, Links
<1>1. AckTypes /\ AcksKeptOrStreamEnds
  BY Zenon DEF ForwardingInv
<1>2. ASSUME linked' \subseteq linked, opened' = opened,
             UNCHANGED <<nextAck, ackRelay, ackInHand, ackArrived, ackWire, ackSent>>
      PROVE  AckTypes' /\ AcksKeptOrStreamEnds'
  BY Zenon, <1>1, <1>2 DEF AckTypes, AcksKeptOrStreamEnds
<1>3. CASE OpenLink
  <2>1. AckTypes'
    BY <1>0, <1>1, <1>3 DEF AckTypes, OpenLink
  <2>2. AcksKeptOrStreamEnds'
    BY <1>0, <1>1, <1>3 DEF AckTypes, AcksKeptOrStreamEnds, OpenLink
  <2> QED
    BY Zenon, <2>1, <2>2
<1>4. CASE \/ RegisterChan \/ RemoveChan \/ ToggleAckChan \/ FindSender \/ SendToPeer
           \/ (\E c \in 1..chans : CloseChan(c)) \/ UNCHANGED routedVars
  BY <1>2, <1>4, Zenon
  DEF RegisterChan, RemoveChan, ToggleAckChan, FindSender, SendToPeer, CloseChan, routedVars
<1>5. ASSUME NEW r \in Links, RelayStep(r) PROVE AckTypes' /\ AcksKeptOrStreamEnds'
  BY <1>2, <1>5, Zenon
  DEF RelayStep, RecvRouted, FindChan, RetryChan, SendToChan, StopSending, DropReceiver
<1>6. ASSUME NEW r \in Links, Cut(r), PruneLink(r) \/ BreakLink(r) \/ HandlerReturns(r)
      PROVE  AckTypes' /\ AcksKeptOrStreamEnds'
  <2>1. /\ linked' = linked \ {r} /\ ackWire' \in [Links -> Seq(Nat)]
        /\ \A s \in Links : s # r => ackWire'[s] = ackWire[s]
    BY <1>6, CutSplits, Zenon
  <2>2. UNCHANGED <<opened, nextAck, ackSent>>
    BY <1>6, Zenon DEF PruneLink, BreakLink, HandlerReturns
  <2>3. UNCHANGED <<ackRelay, ackInHand, ackArrived>>
    BY <1>6, Zenon DEF PruneLink, BreakLink, HandlerReturns
  <2>4. AckTypes'
    BY Zenon, <1>1, <2>1, <2>2, <2>3 DEF AckTypes
  <2>5. AcksKeptOrStreamEnds'
    BY Zenon, <1>0, <1>1, <2>1, <2>2, <2>3 DEF AckTypes, AcksKeptOrStreamEnds
  <2> QED
    BY Zenon, <2>4, <2>5
<1>7. ASSUME NEW r \in Links, DeliverRoutedAck(r) PROVE AckTypes' /\ AcksKeptOrStreamEnds'
  <2>1. /\ ackRelay[r] = "deliver"
        /\ \/ /\ ackRelay' = [ackRelay EXCEPT ![r] = "recv"]
              /\ ackArrived' = ackArrived \cup {ackInHand[r]}
           \/ ackRelay' = [ackRelay EXCEPT ![r] = "ended"] /\ UNCHANGED ackArrived
        /\ ackInHand' = [ackInHand EXCEPT ![r] = 0]
        /\ UNCHANGED <<opened, linked, nextAck, ackWire, ackSent>>
    BY <1>7, Zenon DEF DeliverRoutedAck
  <2>2. AckTypes'
    BY Zenon, <1>1, <2>1 DEF AckTypes
  <2>3. AcksKeptOrStreamEnds'
    <3>1. CASE /\ ackRelay' = [ackRelay EXCEPT ![r] = "recv"]
               /\ ackArrived' = ackArrived \cup {ackInHand[r]}
      BY Zenon, <1>0, <1>1, <2>1, <3>1 DEF AckTypes, AcksKeptOrStreamEnds
    <3>2. CASE ackRelay' = [ackRelay EXCEPT ![r] = "ended"] /\ UNCHANGED ackArrived
      <4>1. \A s \in linked : s # r =>
              ackRelay'[s] = ackRelay[s] /\ ackInHand'[s] = ackInHand[s]
        BY Zenon, <1>0, <1>1, <2>1, <3>2 DEF AckTypes
      <4>2. ackRelay'[r] = "ended"
        BY Zenon, <1>1, <3>2 DEF AckTypes
      <4>3. "ended" \notin {"recv", "deliver"}
        OBVIOUS
      <4> QED
        BY Zenon, <1>1, <2>1, <3>2, <4>1, <4>2, <4>3 DEF AcksKeptOrStreamEnds
    <3> QED
      BY Zenon, <2>1, <3>1, <3>2
  <2> QED
    BY Zenon, <2>2, <2>3
<1>8. CASE ForwardAck
  <2>1. peerReceiver \in Links /\ UNCHANGED <<opened, linked, ackRelay, ackInHand, ackArrived>>
    BY <1>0, <1>8 DEF ForwardAck
  <2>2. ackWire[peerReceiver] \in Seq(Nat) /\ nextAck \in Nat \ {0}
    BY Zenon, <1>1, <2>1 DEF AckTypes
  <2>3. /\ Append(ackWire[peerReceiver], nextAck) \in Seq(Nat)
        /\ Elements(Append(ackWire[peerReceiver], nextAck))
             = Elements(ackWire[peerReceiver]) \cup {nextAck}
    BY <2>2, ElementsAppend
  <2>4. AckTypes'
    <3>1. /\ nextAck' = nextAck + 1
          /\ ackWire' = IF peerReceiver \in linked
                        THEN [ackWire EXCEPT ![peerReceiver] = Append(@, nextAck)] ELSE ackWire
          /\ ackSent' = [ackSent EXCEPT ![peerReceiver] = @ \cup {nextAck}]
      BY <1>8, Zenon DEF ForwardAck
    <3>2. ackWire' \in [Links -> Seq(Nat)] /\ ackSent' \in [Links -> SUBSET (Nat \ {0})]
      BY Zenon, <1>1, <2>1, <2>2, <2>3, <3>1 DEF AckTypes
    <3>3. \A r \in Links : r > opened => ackSent'[r] = {}
      BY <1>0, <1>1, <2>1, <3>1 DEF AckTypes
    <3>4. nextAck' \in Nat \ {0}
      BY <2>2, <3>1
    <3>5. UNCHANGED <<opened, ackRelay, ackInHand>>
      BY Zenon, <2>1
    <3> QED
      BY ONLY <1>1, <3>2, <3>3, <3>4, <3>5, Zenon DEF AckTypes
  <2>5. AcksKeptOrStreamEnds'
    BY Zenon, <1>0, <1>1, <1>8, <2>1, <2>3 DEF AckTypes, AcksKeptOrStreamEnds, ForwardAck
  <2> QED
    BY Zenon, <2>4, <2>5
<1>9. ASSUME NEW r \in Links, RecvRoutedAck(r) PROVE AckTypes' /\ AcksKeptOrStreamEnds'
  <2>1. UNCHANGED <<opened, linked, nextAck, ackArrived, ackSent>> /\ ackRelay[r] = "recv"
    BY Zenon, <1>9 DEF RecvRoutedAck
  <2>2. CASE /\ ackWire[r] # <<>>
             /\ ackRelay' = [ackRelay EXCEPT ![r] = "deliver"]
             /\ ackInHand' = [ackInHand EXCEPT ![r] = Head(ackWire[r])]
             /\ ackWire' = [ackWire EXCEPT ![r] = Tail(@)]
    <3>1. ackWire[r] \in Seq(Nat)
      BY Zenon, <1>1 DEF AckTypes
    <3>2. /\ Tail(ackWire[r]) \in Seq(Nat) /\ Head(ackWire[r]) \in Nat
          /\ Elements(ackWire[r]) = Elements(Tail(ackWire[r])) \cup {Head(ackWire[r])}
      BY Zenon, <2>2, <3>1, ElementsTail
    <3>3. AckTypes'
      BY Zenon, <1>1, <2>1, <2>2, <3>2 DEF AckTypes
    <3>4. AcksKeptOrStreamEnds'
      <4>1. SUFFICES ASSUME NEW s \in linked, ackRelay'[s] \in {"recv", "deliver"},
                            NEW m \in ackSent[s]
                     PROVE  m \in ackArrived \cup {ackInHand'[s]} \cup Elements(ackWire'[s])
        BY Zenon, <2>1 DEF AcksKeptOrStreamEnds
      <4>2. s \in Links /\ m \in ackArrived \cup {ackInHand[s]} \cup Elements(ackWire[s])
        <5>1. s \in Links /\ ackRelay[s] \in {"recv", "deliver"}
          BY Zenon, <1>0, <1>1, <2>1, <2>2, <4>1 DEF AckTypes
        <5> QED
          BY Zenon, <1>1, <5>1 DEF AcksKeptOrStreamEnds
      <4>3. CASE s # r
        BY Zenon, <1>1, <2>2, <4>2, <4>3 DEF AckTypes
      <4>4. CASE s = r
        <5>1. ackInHand[r] = 0 /\ m # 0
          BY Zenon, <1>1, <2>1, <4>2 DEF AckTypes
        <5>2. ackInHand'[r] = Head(ackWire[r]) /\ ackWire'[r] = Tail(ackWire[r])
          BY Zenon, <1>1, <2>2 DEF AckTypes
        <5> QED
          BY Zenon, <3>2, <4>2, <4>4, <5>1, <5>2
      <4> QED
        BY Zenon, <4>3, <4>4
    <3> QED
      BY Zenon, <3>3, <3>4
  <2>3. CASE ackRelay' = [ackRelay EXCEPT ![r] = "ended"] /\ UNCHANGED <<ackInHand, ackWire>>
    <3>1. AckTypes'
      BY Zenon, <1>1, <2>1, <2>3 DEF AckTypes
    <3>2. \A s \in linked : ackRelay'[s] = ackRelay[s] \/ ackRelay'[s] = "ended"
      BY Zenon, <1>0, <1>1, <2>3 DEF AckTypes
    <3>3. "ended" \notin {"recv", "deliver"}
      OBVIOUS
    <3> QED
      BY Zenon, <1>1, <2>1, <2>3, <3>1, <3>2, <3>3 DEF AcksKeptOrStreamEnds
  <2> QED
    BY Zenon, <1>9, <2>2, <2>3 DEF RecvRoutedAck
<1>10. ASSUME NEW r \in Links, DropSender(r) PROVE AckTypes' /\ AcksKeptOrStreamEnds'
  <2>1. AckTypes'
    BY Zenon, <1>1, <1>10 DEF DropSender, AckTypes
  <2>2. \A s \in linked : ackRelay'[s] = ackRelay[s] \/ ackRelay'[s] = "gone"
    BY Zenon, <1>0, <1>1, <1>10 DEF DropSender, AckTypes
  <2>3. "gone" \notin {"recv", "deliver"}
    OBVIOUS
  <2> QED
    BY Zenon, <1>1, <1>10, <2>1, <2>2, <2>3 DEF DropSender, AcksKeptOrStreamEnds
<1>11. ASSUME NEW r \in Links, PruneLink(r) \/ BreakLink(r) \/ HandlerReturns(r) PROVE Cut(r)
  BY <1>11, Zenon DEF PruneLink, BreakLink, HandlerReturns
<1> QED
  BY <1>3, <1>4, <1>5, <1>6, <1>7, <1>8, <1>9, <1>10, <1>11, Zenon DEF ForwardingNext

(* Every step of the forwarding preserves the invariant.                   *)
LEMMA ForwardingStepInv ==
  ForwardingInv /\ [ForwardingNext]_routedVars => ForwardingInv'
  BY Zenon, ForwardingStepTypes, ForwardingStepMessages, ForwardingStepAcks DEF ForwardingInv

(* MessagesAccounted holds for any number of streams, channels and         *)
(* messages, however often a stream breaks or a channel is replaced.       *)
THEOREM InOnePlace == ForwardingSpec => []MessagesAccounted
BY ForwardingInitInv, ForwardingStepInv, PlacedOnce, PTL DEF ForwardingSpec

(* AcksKeptOrStreamEnds holds: an ack that was sent to the other node is   *)
(* delivered or on its way as long as recvAck runs and the stream lasts.   *)
THEOREM AcksKept == ForwardingSpec => []AcksKeptOrStreamEnds
<1>1. ForwardingInv => AcksKeptOrStreamEnds
  BY Zenon DEF ForwardingInv
<1> QED
  BY <1>1, ForwardingInitInv, ForwardingStepInv, PTL DEF ForwardingSpec
=============================================================================
