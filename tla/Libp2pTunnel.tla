---------------------------- MODULE Libp2pTunnel ----------------------------
(***************************************************************************)
(* The p2p tunnels of one Kubo daemon and the processes that register and  *)
(* close them over its HTTP RPC: shims (transport/libp2p.ts, p2pListen)    *)
(* and client bridges (client/libp2p-client-bridge.ts, p2pForward), all    *)
(* under the default protocol and ports.  A tunnel belongs to the daemon:  *)
(* it outlives a process that does not close it, and p2pClose closes all   *)
(* tunnels of the protocol.                                                *)
(*                                                                         *)
(* Every RPC has a 5 second limit.  The daemon takes the calls in the      *)
(* order they arrive, late if it likes: a call its caller has given up is  *)
(* still carried out.  The signal handlers are installed when start() has  *)
(* ended; a signal before that kills the process.                          *)
(***************************************************************************)
EXTENDS Naturals, Sequences, FiniteSets

CONSTANTS
  Shims, Bridges,     \* the programs of this host
  Handler,            \* bound: signals, each of which runs shutdown() anew
  MaxStarts,          \* bound: starts of processes
  MaxStops,           \* bound: times the daemon goes down
  MaxOpen             \* bound: requests open at one proxy

ASSUME KindsAssumption == Shims \cap Bridges = {}
ASSUME HandlerAssumption == {"start", "nobody"} \cap Handler = {}
ASSUME BoundsAssumption == {MaxStarts, MaxStops, MaxOpen} \subseteq Nat

Process == Shims \cup Bridges

VARIABLES
  up,                 \* the daemon runs
  tunnels,            \* the processes whose tunnels the daemon has
  calls,              \* RPCs the daemon has not carried out yet
  answers,            \* results that wait for their caller
  pc,                 \* where start() of each process is
  registered,         \* registeredProtocol is set
  proxy, open,        \* bridge: the HTTP proxy and the requests its close() waits for
  stage,              \* where each shutdown() of a process is
  how,                \* how the process ended last
  closeFailed,        \* some p2pClose of the process has failed
  excused,            \* history: the tunnel may be gone for a reason outside
  starts, stops

daemon  == <<up, tunnels, calls, answers, stops>>
process == <<pc, registered, proxy, open, stage, how, closeFailed, starts>>
vars == <<daemon, process, excused>>

Starting == {"checking", "registering", "probing"}

Init ==
  /\ up = TRUE /\ tunnels = {} /\ calls = <<>> /\ answers = {}
  /\ pc = [p \in Process |-> "off"]
  /\ registered = [p \in Process |-> FALSE]
  /\ proxy = [p \in Process |-> "off"] /\ open = [p \in Process |-> 0]
  /\ stage = [p \in Process |-> [h \in Handler |-> "no"]]
  /\ how = [p \in Process |-> "none"]
  /\ closeFailed = [p \in Process |-> FALSE]
  /\ excused = [p \in Process |-> FALSE]
  /\ starts = 0 /\ stops = 0

-----------------------------------------------------------------------------
(* The daemon *)

\* A listener and a forward do not get in each other's way; two of a kind do.
InUse(p) == \E q \in tunnels : {p, q} \subseteq Shims \/ {p, q} \subseteq Bridges

\* The answer goes to the caller if it still waits.
Answer(c, result) ==
  answers' = IF c.waiter = "nobody" THEN answers
             ELSE answers \cup {[from |-> c.from, waiter |-> c.waiter, result |-> result]}

CarryOut ==
  /\ up /\ calls # <<>>
  /\ LET c == Head(calls) IN
     \/ /\ c.kind = "register" /\ ~InUse(c.from)
        /\ tunnels' = tunnels \cup {c.from}
        /\ Answer(c, "ok")
     \/ /\ c.kind = "register" /\ InUse(c.from)
        /\ UNCHANGED tunnels
        /\ Answer(c, "failed")
     \/ /\ c.kind = "close"
        /\ tunnels' = {}
        /\ Answer(c, "ok")
  /\ calls' = Tail(calls)
  /\ UNCHANGED <<up, stops, process, excused>>

\* The daemon goes down with its tunnels; waiting fetches fail.
DaemonStops ==
  /\ up /\ stops < MaxStops
  /\ up' = FALSE /\ stops' = stops + 1
  /\ tunnels' = {} /\ calls' = <<>>
  /\ excused' = [p \in Process |-> TRUE]
  /\ UNCHANGED <<answers, process>>

DaemonStarts ==
  /\ ~up
  /\ up' = TRUE
  /\ UNCHANGED <<tunnels, calls, answers, stops, process, excused>>

\* fetch() of one RPC: to a daemon that is down there is nothing to carry out.
Call(kind, p, w) ==
  calls' = IF up THEN Append(calls, [kind |-> kind, from |-> p, waiter |-> w])
           ELSE calls

Abandoned(p, W) ==
  [i \in DOMAIN calls |-> IF calls[i].from = p /\ calls[i].waiter \in W
                          THEN [calls[i] EXCEPT !.waiter = "nobody"] ELSE calls[i]]

ProxyIs(p, state) == proxy' = [proxy EXCEPT ![p] = state]

Arrived(p, w, result) == [from |-> p, waiter |-> w, result |-> result] \in answers

\* The process ends; calls it has made become nobody's.  The proxy is the caller's.
Exit(p, kind) ==
  /\ pc' = [pc EXCEPT ![p] = "off"]
  /\ how' = [how EXCEPT ![p] = kind]
  /\ registered' = [registered EXCEPT ![p] = FALSE]
  /\ open' = [open EXCEPT ![p] = 0]
  /\ stage' = [stage EXCEPT ![p] = [h \in Handler |-> "no"]]
  /\ answers' = {a \in answers : a.from # p}
  /\ calls' = Abandoned(p, Handler \cup {"start"})

-----------------------------------------------------------------------------
(* start() *)

Launch(p) ==
  /\ pc[p] = "off" /\ starts < MaxStarts
  /\ starts' = starts + 1
  /\ pc' = [pc EXCEPT ![p] = "checking"]
  /\ how' = [how EXCEPT ![p] = "none"]
  /\ closeFailed' = [closeFailed EXCEPT ![p] = FALSE]
  /\ UNCHANGED <<daemon, registered, proxy, open, stage, excused>>

\* checkDaemonRunning(), checkLibp2pStreamMounting() and getPeerIdentity()
\* succeed only at a daemon that answers; otherwise they throw (StartFails).
DaemonAnswers == up

\* The daemon runs and mounts streams, the shim's HTTP server listens: ask for
\* the tunnel.
ChecksPass(p) ==
  /\ pc[p] = "checking" /\ DaemonAnswers
  /\ pc' = [pc EXCEPT ![p] = "registering"]
  /\ Call("register", p, "start")
  /\ excused' = [excused EXCEPT ![p] = FALSE]
  /\ UNCHANGED <<up, tunnels, answers, stops, registered, proxy, open, stage,
                 how, closeFailed, starts>>

Registers(p) ==
  /\ pc[p] = "registering" /\ Arrived(p, "start", "ok")
  /\ answers' = {a \in answers : a.from # p}
  /\ registered' = [registered EXCEPT ![p] = TRUE]
  /\ pc' = [pc EXCEPT ![p] = IF p \in Bridges THEN "probing" ELSE "serving"]
  /\ UNCHANGED <<up, tunnels, calls, stops, proxy, open, stage, how, closeFailed,
                 starts, excused>>

\* waitForTunnel() gets through to the forwarded port; the proxy is started.
Reaches(p) ==
  /\ pc[p] = "probing" /\ up /\ p \in tunnels
  /\ pc' = [pc EXCEPT ![p] = "serving"]
  /\ ProxyIs(p, "open")
  /\ UNCHANGED <<daemon, registered, open, stage, how, closeFailed, starts, excused>>

BugStartFails(p) ==  \* cleans up a tunnel that may not be its own
  /\ pc[p] \in Starting /\ ~Arrived(p, "start", "ok")
  /\ pc' = [pc EXCEPT ![p] = "off"] /\ how' = [how EXCEPT ![p] = "error"]
  /\ Call("close", p, "nobody")
  /\ UNCHANGED <<up, tunnels, answers, stops, registered, proxy, open, stage,
                 closeFailed, starts, excused>>

\* A check fails, the protocol is in use, an RPC or the probe runs into its
\* limit: start() throws, main().catch() exits, and nothing closes the tunnel.
StartFails(p) ==
  /\ pc[p] \in Starting /\ ~Arrived(p, "start", "ok")
  /\ Exit(p, "error")
  /\ ProxyIs(p, "off")
  /\ UNCHANGED <<up, tunnels, stops, closeFailed, starts, excused>>

\* SIGINT or SIGTERM before the handlers are installed, SIGKILL at any time.
Killed(p) ==
  /\ pc[p] # "off"
  /\ Exit(p, "killed")
  /\ ProxyIs(p, "off")
  /\ UNCHANGED <<up, tunnels, stops, closeFailed, starts, excused>>

-----------------------------------------------------------------------------
(* Requests at the bridge's proxy, which have no time limit *)

RequestComes(p) ==
  /\ proxy[p] = "open" /\ open[p] < MaxOpen
  /\ open' = [open EXCEPT ![p] = @ + 1]
  /\ UNCHANGED <<daemon, pc, registered, proxy, stage, how, closeFailed, starts, excused>>

RequestEnds(p) ==
  /\ open[p] > 0
  /\ open' = [open EXCEPT ![p] = @ - 1]
  /\ UNCHANGED <<daemon, pc, registered, proxy, stage, how, closeFailed, starts, excused>>

-----------------------------------------------------------------------------
(* shutdown() *)

BugCloseTunnel(p, h, state) ==  \* resets registeredProtocol before the call
  \/ /\ registered[p]
     /\ stage' = [stage EXCEPT ![p][h] = "tunnel"]
     /\ registered' = [registered EXCEPT ![p] = FALSE]
     /\ ProxyIs(p, state)
     /\ Call("close", p, h)
     /\ excused' = [q \in Process |-> excused[q] \/ q # p]
     /\ UNCHANGED <<pc, how, open, answers>>
  \/ /\ ~registered[p] /\ Exit(p, "shutdown") /\ ProxyIs(p, "off")
     /\ UNCHANGED excused

\* What is left once the tunnel is dealt with: a bridge exits, a shim still
\* closes files.
TunnelDone(p, h) ==
  \/ /\ p \in Shims
     /\ stage' = [stage EXCEPT ![p][h] = "last"]
     /\ registered' = [registered EXCEPT ![p] = FALSE]
     /\ answers' = {a \in answers : a.from # p \/ a.waiter # h}
     /\ calls' = Abandoned(p, {h})
     /\ UNCHANGED <<pc, how, proxy, open>>
  \/ p \in Bridges /\ Exit(p, "shutdown") /\ ProxyIs(p, "off")

\* p2pClose is called if registeredProtocol is set; the proxy is as it is left.
CloseTunnel(p, h, state) ==
  \/ /\ registered[p]
     /\ stage' = [stage EXCEPT ![p][h] = "tunnel"]
     /\ ProxyIs(p, state)
     /\ Call("close", p, h)
     /\ excused' = [q \in Process |-> excused[q] \/ q # p]
     /\ UNCHANGED <<pc, registered, how, open, answers>>
  \/ /\ ~registered[p] /\ TunnelDone(p, h)
     /\ UNCHANGED excused

\* The first shutdown() of a bridge closes the proxy and waits for its requests;
\* one that comes meanwhile waits for the same end, since httpServer is set until
\* then and close() calls back when the last request has ended.
Signal(p, h) ==
  /\ pc[p] = "serving" /\ stage[p][h] = "no"
  /\ \/ /\ proxy[p] \in {"open", "closing"}
        /\ stage' = [stage EXCEPT ![p][h] = "proxy"]
        /\ ProxyIs(p, "closing")
        /\ UNCHANGED <<calls, answers, pc, registered, open, how, excused>>
     \/ proxy[p] \in {"off", "closed"} /\ CloseTunnel(p, h, proxy[p])
  /\ UNCHANGED <<up, tunnels, stops, closeFailed, starts>>

ProxyCloses(p, h) ==
  /\ stage[p][h] = "proxy" /\ open[p] = 0
  /\ CloseTunnel(p, h, "closed")
  /\ UNCHANGED <<up, tunnels, stops, closeFailed, starts>>

BugCloseEnds(p, h) ==  \* does not limit the call
  /\ stage[p][h] = "tunnel" /\ Arrived(p, h, "ok")
  /\ TunnelDone(p, h)
  /\ UNCHANGED <<up, tunnels, stops, closeFailed, starts, excused>>

\* The daemon has closed the tunnels; or the call failed or timed out, which is
\* logged and ignored.
CloseEnds(p, h) ==
  /\ stage[p][h] = "tunnel"
  /\ closeFailed' = [closeFailed EXCEPT ![p] = @ \/ ~Arrived(p, h, "ok")]
  /\ TunnelDone(p, h)
  /\ UNCHANGED <<up, tunnels, stops, starts, excused>>

\* cidRecorder.close(), synapse cleanup, process.exit().
ShimExits(p, h) ==
  /\ stage[p][h] = "last"
  /\ Exit(p, "shutdown") /\ ProxyIs(p, "off")
  /\ UNCHANGED <<up, tunnels, stops, closeFailed, starts, excused>>

-----------------------------------------------------------------------------

StartStep(p) == ChecksPass(p) \/ Registers(p) \/ Reaches(p) \/ StartFails(p)
ShutdownStep(p, h) == ProxyCloses(p, h) \/ CloseEnds(p, h) \/ ShimExits(p, h)

Next ==
  \/ CarryOut \/ DaemonStops \/ DaemonStarts
  \/ \E p \in Process :
       \/ Launch(p) \/ StartStep(p) \/ Killed(p)
       \/ RequestComes(p) \/ RequestEnds(p)
       \/ \E h \in Handler : Signal(p, h) \/ ShutdownStep(p, h)

Spec == Init /\ [][Next]_vars

\* Timers fire and file writes end.  Neither the daemon nor a request at the
\* proxy owes anything.
FairSpec ==
  /\ Spec
  /\ \A p \in Process : WF_vars(StartStep(p))
  /\ \A p \in Process, h \in Handler : WF_vars(ShutdownStep(p, h))

-----------------------------------------------------------------------------
(* Properties *)

Waiter == Handler \cup {"start", "nobody"}

\* The types of the state; registeredProtocol, the proxy and the shutdowns exist
\* only while the process does.
TypeOK ==
  /\ up \in BOOLEAN /\ tunnels \subseteq Process
  /\ calls \in Seq([kind : {"register", "close"}, from : Process, waiter : Waiter])
  /\ answers \subseteq [from : Process, waiter : Waiter, result : {"ok", "failed"}]
  /\ pc \in [Process -> Starting \cup {"off", "serving"}]
  /\ registered \in [Process -> BOOLEAN]
  /\ proxy \in [Process -> {"off", "open", "closing", "closed"}]
  /\ open \in [Process -> 0..MaxOpen]
  /\ stage \in [Process -> [Handler -> {"no", "proxy", "tunnel", "last"}]]
  /\ how \in [Process -> {"none", "shutdown", "error", "killed"}]
  /\ closeFailed \in [Process -> BOOLEAN] /\ excused \in [Process -> BOOLEAN]
  /\ starts \in 0..MaxStarts /\ stops \in 0..MaxStops
  /\ \A p \in Process :
       /\ registered[p] => pc[p] \in {"probing", "serving"}
       /\ proxy[p] # "off" <=> p \in Bridges /\ pc[p] = "serving"
       /\ pc[p] # "serving" => \A h \in Handler : stage[p][h] = "no"

\* A process that ended through shutdown() has no tunnel at the daemon, unless
\* a p2pClose of it failed; a second signal while the first one's p2pClose is
\* pending cannot end it too early.
ShutdownLeavesNoTunnel ==
  \A p \in Process : how[p] = "shutdown" /\ p \in tunnels => closeFailed[p]

\* A serving process that nobody has told to stop has its tunnel, whatever other
\* processes try to start and fail or are killed; only the daemon going down and
\* the shutdown of another process take it away.
ServingHasTunnel ==
  \A p \in Process :
    pc[p] = "serving" /\ (\A h \in Handler : stage[p][h] = "no") =>
      p \in tunnels \/ excused[p]

\* start() ends in a serving process or none.  A process that was told to stop is
\* gone once no request is open at its proxy, even if the daemon is silent: a bridge
\* waits for its requests and for nothing else, with or without a second signal.
EverythingEnds ==
  \A p \in Process :
    /\ pc[p] \in Starting ~> pc[p] \in {"serving", "off"}
    /\ (\E h \in Handler : stage[p][h] # "no") /\ open[p] = 0 ~> pc[p] = "off"

\* Not kept: two signals end a process.  A bridge with a request that never ends
\* hangs in both of its shutdowns.
SecondSignalEnds ==
  \A p \in Process : (\A h \in Handler : stage[p][h] # "no") ~> pc[p] = "off"

\* Planning document: on SIGINT or SIGTERM p2pClose is called, so only a failed
\* call, or the failure of start(), leaves a tunnel without its process.
SignalClosesTunnel ==
  \A p \in tunnels : pc[p] = "off" => closeFailed[p] \/ how[p] = "error"
=============================================================================
