--------------------------- MODULE ProxyResources ---------------------------
(***************************************************************************)
(* What the proxy opens and who closes it (src/proxy/proxy.go,             *)
(* src/proxy/cluster_connection.go, src/encryption).  NewProxy dials the   *)
(* extension servers and builds one cluster connection after the other,    *)
(* each with two clients, the keys of a vault and two servers; any of this *)
(* can fail, and then NewProxy ends the lifetime.  What was opened is      *)
(* closed by a function that runs after the lifetime, in a goroutine of    *)
(* its own, or by the call that failed.                                    *)
(*                                                                         *)
(* The calls are made in one order; Plan is their list, and step the next. *)
(***************************************************************************)
EXTENDS Integers, Sequences, Lifetime

CONSTANTS
  MaxExtensions,       \* bound: extension servers
  MaxConnections,      \* bound: cluster connections
  MaxPolicies,         \* bound: key policies of a vault
  MaxKeys              \* bound: keys of a policy

ASSUME ResourcesAssumption ==
  /\ MaxExtensions \in Nat
  /\ MaxConnections \in Nat
  /\ MaxPolicies \in Nat
  /\ MaxKeys \in Nat

VARIABLES
  step,                \* the call of Plan that comes next, 0 before NewProxy
  failed,              \* a call has failed
  acquired, released,  \* the resources that were opened, and those closed
  afterFuncs,          \* sets of resources, each closed by one AfterFunc
  serve,               \* server -> its Start and the loop around Serve
  stopping,            \* servers whose GracefulStop was called
  inFlight             \* servers with a call that has not returned

serverVars   == <<serve, stopping, inFlight>>
resourceVars == <<step, failed, acquired, released, afterFuncs, serverVars>>

(* A resource is named by the call that opens it: the operation, the       *)
(* connection, and two numbers.                                            *)
Extension(i) == <<"dial", 0, i, 0>>
Call(op, c, i) == <<op, c, i, 0>>
Key(c, p, k) == <<"key", c, p, k>>

Calls(c) ==
  <<Call("client", c, 1), Call("client", c, 2)>>
    \o [i \in 1..(MaxPolicies * MaxKeys) |->
          Key(c, ((i - 1) \div MaxKeys) + 1, ((i - 1) % MaxKeys) + 1)]
    \o <<Call("vault", c, 0), Call("side", c, 1), Call("side", c, 2), Call("own", c, 0),
         Call("server", c, 1), Call("server", c, 2)>>

(* The extensions, and then the connections one after the other.          *)
CallsEach == MaxPolicies * MaxKeys + 8

Plan ==
  [i \in 1..(MaxExtensions + MaxConnections * CallsEach) |->
     IF i <= MaxExtensions THEN Extension(i)
     ELSE LET n == i - MaxExtensions - 1
          IN  Calls((n \div CallsEach) + 1)[(n % CallsEach) + 1]]

Building == step \in 1..Len(Plan) /\ ~failed

(* The call at hand, the connection it is for, and that one's open keys.   *)
ThisCall == Plan[step]
KeysOf(c) == {r \in acquired \ released : r[1] = "key" /\ r[2] = c}

(* Server 1 of a connection is the inbound one, 2 the outbound.            *)
ServerCalls == {Call("server", c, i) : c \in 1..MaxConnections, i \in 1..2}
Started     == {r \in ServerCalls : serve[r] # "no"}
Running     == {r \in ServerCalls : serve[r] \in {"starting", "serving"}}

ResourcesInit ==
  /\ step = 0
  /\ failed = FALSE
  /\ acquired = {}
  /\ released = {}
  /\ afterFuncs = {}
  /\ serve = [r \in ServerCalls |-> "no"]
  /\ stopping = {}
  /\ inFlight = {}
----------------------------------------------------------------------------
(* NewProxy makes the lifetime and begins.                                 *)
NewProxy ==
  /\ step = 0
  /\ lifetime
  /\ step' = 1
  /\ UNCHANGED <<failed, acquired, released, afterFuncs, serverVars, lifetime>>

Calling(op) == Building /\ ThisCall[1] = op

(* The call succeeds, opens what it opens and registers the functions fs.  *)
Succeeds(rs, fs) ==
  /\ step' = step + 1
  /\ acquired' = acquired \cup rs
  /\ afterFuncs' = afterFuncs \cup fs
  /\ UNCHANGED <<failed, released, serverVars, lifetime>>

(* The call fails and releases rs itself.  NewProxy cancels.               *)
Fails(rs) ==
  /\ failed' = TRUE
  /\ released' = released \cup rs
  /\ lifetime' = FALSE
  /\ UNCHANGED <<step, acquired, afterFuncs, serverVars>>

(* Dial: an extension server; or close the ones that are open.             *)
DialOne ==
  /\ Calling("dial")
  /\ Succeeds({ThisCall}, {{ThisCall}}) \/ Fails(acquired)

(* createClient, in the one transport or the other.                        *)
CreateClient ==
  /\ Calling("client")
  /\ Succeeds({ThisCall}, {{ThisCall}}) \/ Fails({})

(* Mutant: the keys of the policy at hand are closed, not the ones before. *)
CreateKeyCloseOwn ==
  /\ Calling("key")
  /\ \/ Succeeds({ThisCall}, {})
     \/ Fails({r \in KeysOf(ThisCall[2]) : r[3] = ThisCall[3]})

(* createKEKs opens a key; or createRegistry closes all that are open.     *)
CreateKey ==
  /\ Calling("key")
  /\ Succeeds({ThisCall}, {}) \/ Fails(KeysOf(ThisCall[2]))

(* NewKEKRegistry and NewVault.                                            *)
NewVault ==
  /\ Calling("vault")
  /\ Succeeds({}, {}) \/ Fails(KeysOf(ThisCall[2]))

(* The encryptors of one side.                                             *)
NewSide ==
  /\ Calling("side")
  /\ Succeeds({}, {}) \/ Fails(KeysOf(ThisCall[2]))

(* newEncryptors hands the vault over to the lifetime.                     *)
OwnVault ==
  /\ Calling("own")
  /\ Succeeds({}, {KeysOf(ThisCall[2])})

(* createServer: a listener, closed after the lifetime.  It fails before   *)
(* the listener is there or, in createTCPServer, after.                    *)
CreateServer ==
  /\ Calling("server")
  /\ \/ Succeeds({ThisCall}, {{ThisCall}})
     \/ Fails({})
     \/ /\ failed' = TRUE
        /\ lifetime' = FALSE
        /\ acquired' = acquired \cup {ThisCall}
        /\ afterFuncs' = afterFuncs \cup {{ThisCall}}
        /\ UNCHANGED <<step, released, serverVars>>
----------------------------------------------------------------------------
(* Start takes the connections in any order, and starts the inbound server *)
(* of each and then the outbound one.  (The health checks and the metrics  *)
(* come first; with an error there nothing is started.)                    *)
StartServer(r) ==
  /\ step = Len(Plan) + 1
  /\ ~failed
  /\ r \notin Started
  /\ IF r[3] = 1
     THEN \A q \in Started : Call("server", q[2], 2) \in Started
     ELSE Call("server", r[2], 1) \in Started
  /\ serve' = [serve EXCEPT ![r] = "starting"]
  /\ UNCHANGED <<step, failed, acquired, released, afterFuncs, stopping, inFlight, lifetime>>

(* Its goroutine serves, unless the lifetime has ended.                    *)
EnterLoop(r) ==
  /\ serve[r] = "starting"
  /\ serve' = [serve EXCEPT ![r] = IF lifetime THEN "serving" ELSE "returned"]
  /\ UNCHANGED <<step, failed, acquired, released, afterFuncs, stopping, inFlight, lifetime>>

(* External: a call comes in through the listener, and a handler returns.  *)
CallComes(r) ==
  /\ serve[r] = "serving"
  /\ r \notin released
  /\ inFlight' = inFlight \cup {r}
  /\ UNCHANGED <<step, failed, acquired, released, afterFuncs, serve, stopping, lifetime>>

CallReturns(r) ==
  /\ inFlight' = inFlight \ {r}
  /\ UNCHANGED <<step, failed, acquired, released, afterFuncs, serve, stopping, lifetime>>

(* The function that Start registers.  GracefulStop closes the listener    *)
(* and waits for the calls.                                                *)
GracefulStop(r) ==
  /\ ~lifetime
  /\ r \in Started \ stopping
  /\ stopping' = stopping \cup {r}
  /\ released' = released \cup {r}
  /\ UNCHANGED <<step, failed, acquired, afterFuncs, serve, inFlight, lifetime>>

(* Serve returns when the listener is closed; in a server that is stopping *)
(* it waits for the calls too.  The loop sees that the lifetime is over;   *)
(* other errors make it serve again.                                       *)
ServeReturns(r) ==
  /\ serve[r] = "serving"
  /\ r \in released
  /\ r \in stopping => r \notin inFlight
  /\ serve' = [serve EXCEPT ![r] = "returned"]
  /\ UNCHANGED <<step, failed, acquired, released, afterFuncs, stopping, inFlight, lifetime>>

(* Mutant: Stop runs the functions, and nobody stops a proxy that failed.  *)
AfterStop(f) ==
  /\ ~lifetime
  /\ ~failed
  /\ afterFuncs' = afterFuncs \ {f}
  /\ released' = released \cup f
  /\ UNCHANGED <<step, failed, acquired, serverVars, lifetime>>

(* A function registered to run after the lifetime.                        *)
AfterFunc(f) ==
  /\ ~lifetime
  /\ afterFuncs' = afterFuncs \ {f}
  /\ released' = released \cup f
  /\ UNCHANGED <<step, failed, acquired, serverVars, lifetime>>

(* What the proxy does by itself, and what its callers do.                 *)
ProxySteps ==
  \/ NewProxy \/ DialOne \/ CreateClient \/ CreateKey \/ NewVault \/ NewSide
  \/ OwnVault \/ CreateServer
  \/ \E f \in afterFuncs : AfterFunc(f)
  \/ \E r \in ServerCalls : StartServer(r) \/ EnterLoop(r) \/ GracefulStop(r) \/ ServeReturns(r)

ResourcesNext ==
  \/ ProxySteps
  \/ \E r \in ServerCalls : CallComes(r)
  \/ \E r \in inFlight : CallReturns(r)

(* Stop is a method of the proxy, which is there once it is built.         *)
ProxyStops == EndLifetime /\ ~Building /\ UNCHANGED resourceVars

ResourcesSpec ==
  LifetimeInit /\ ResourcesInit /\ [][ResourcesNext \/ ProxyStops]_<<resourceVars, lifetime>>

(* The functions run, Serve returns from a listener that is closed, and a  *)
(* construction or a Start that has begun goes on.  Nothing is said of how *)
(* long a call takes.                                                      *)
ResourcesFairness == WF_resourceVars(step # 0 /\ ProxySteps)
----------------------------------------------------------------------------
(* Who is to close r: the functions, and the construction of its vault.    *)
Owners(r) ==
  {f \in afterFuncs : r \in f}
    \cup (IF Building /\ r[1] = "key" /\ ThisCall[1] \in {"key", "vault", "side", "own"}
             /\ ThisCall[2] = r[2]
          THEN {{}} ELSE {})

(* vault.New's "a failure part way through releases whatever did open. An  *)
(* error therefore never leaves a key behind", and the same of the rest:   *)
(* whatever is open has somebody to close it, wherever the construction of *)
(* the proxy has failed.  A key has one only, and none once it is closed.  *)
(* And newEncryptors' vault "holds KEKs until lifetime ends": nothing is   *)
(* closed under a proxy that runs.                                         *)
SomebodyCloses ==
  /\ lifetime => released = {}
  /\ \A r \in acquired \ released : Owners(r) # {}
  /\ \A r \in acquired : r[1] = "key" =>
       \A f, g \in Owners(r) : f = g /\ r \notin released

(* Stop's "Cancelling it will close all components": after the lifetime,   *)
(* or when NewProxy has failed, everything is closed in the end, also when *)
(* the lifetime ends in the middle of Start, and no server is left running *)
(* but one whose GracefulStop waits for a call that does not return.       *)
EverythingClosed ==
  []<>(~lifetime => acquired \subseteq released /\ Running \subseteq inFlight \cap stopping)
=============================================================================
