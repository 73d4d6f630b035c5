------------------------- MODULE Libp2pTunnelProofs -------------------------
(***************************************************************************)
(* Theorems about Libp2pTunnel for every set of shims and bridges, every   *)
(* number of signals, starts and crashes of the daemon.                    *)
(***************************************************************************)
EXTENDS Libp2pTunnel, TLAPS

-----------------------------------------------------------------------------
(***************************************************************************)
(* The inductive invariant.  What a call will do when the daemon gets to   *)
(* it depends on what is queued before it, so the invariant speaks of      *)
(* positions in the queue: behind the last call of start() of a process    *)
(* there is no other p2pListen or p2pForward of it, not even one that an   *)
(* earlier run of it gave up (Settled), and a p2pClose there is one that   *)
(* may rightly take its tunnel.                                            *)
(***************************************************************************)

StartCall(p, i) == calls[i].from = p /\ calls[i].waiter = "start"

\* The positions behind every call of start() that p still waits for.
Behind(p) == {j \in DOMAIN calls : \A i \in DOMAIN calls : StartCall(p, i) => i < j}

Asks(p, i) == calls[i].from = p /\ calls[i].kind = "register"

Unsignalled(p) == \A h \in Handler : stage[p][h] = "no"

\* The process takes it that it has its tunnel, or will when the call is answered.
Trusting(p) ==
  \/ pc[p] \in {"registering", "probing"}
  \/ pc[p] = "serving" /\ Unsignalled(p)

\* Who still waits for a call or an answer.
WaitersOK ==
  /\ \A i \in DOMAIN calls :
       /\ calls[i].waiter = "start" =>
            /\ calls[i].kind = "register" /\ pc[calls[i].from] = "registering"
            /\ \A a \in answers : a.from = calls[i].from => a.waiter # "start"
       /\ calls[i].waiter \in Handler =>
            calls[i].kind = "close" /\ pc[calls[i].from] = "serving"
  /\ \A i, j \in DOMAIN calls :
       StartCall(calls[i].from, i) /\ StartCall(calls[i].from, j) => i = j

AnswersOK ==
  \A a \in answers :
    /\ a.waiter = "start" => pc[a.from] = "registering"
    /\ a.waiter \in Handler => pc[a.from] = "serving"
    /\ a.result = "ok" /\ a.waiter = "start" => a.from \in tunnels \/ excused[a.from]
    /\ a.result = "ok" /\ a.waiter \in Handler => a.from \notin tunnels

Settled ==
  \A p \in Process : pc[p] \in {"registering", "probing", "serving"} =>
    \A j \in Behind(p) :
      ~Asks(p, j) /\ (calls[j].kind = "close" /\ Trusting(p) => excused[p])

\* Whoever has dealt with its tunnel has nothing left in the queue that makes one.
Retired(p) ==
  how[p] = "shutdown" => pc[p] = "off" /\ \A i \in DOMAIN calls : ~Asks(p, i)

Dealt(p) ==
  \/ pc[p] = "serving" /\ ~registered[p]
  \/ \E h \in Handler : stage[p][h] = "last"
  \/ how[p] = "shutdown"

NoneLeft == \A p \in Process : Retired(p) /\ (Dealt(p) /\ p \in tunnels => closeFailed[p])

HasTunnel ==
  \A p \in Process :
    /\ pc[p] = "probing" => p \in Bridges /\ registered[p]
    /\ pc[p] = "probing" \/ (pc[p] = "serving" /\ Unsignalled(p)) =>
         p \in tunnels \/ excused[p]

\* Only a bridge waits for its proxy.
ProxyOK ==
  \A p \in Process, h \in Handler : stage[p][h] = "proxy" => proxy[p] # "off"

IInv ==
  /\ TypeOK /\ ProxyOK /\ WaitersOK /\ AnswersOK
  /\ Settled /\ NoneLeft /\ HasTunnel

-----------------------------------------------------------------------------
(* The queue *)

AnyCall == [kind : {"register", "close"}, from : Process, waiter : Waiter]
AnyAnswer == [from : Process, waiter : Waiter, result : {"ok", "failed"}]

\* Calls that are given up keep their places and what they ask for.
LEMMA AbandonedCalls ==
  ASSUME TypeOK, NEW p, NEW W, calls' = Abandoned(p, W)
  PROVE  /\ calls' \in Seq(AnyCall) /\ DOMAIN calls' = DOMAIN calls
         /\ \A i \in DOMAIN calls :
              /\ calls'[i].kind = calls[i].kind /\ calls'[i].from = calls[i].from
              /\ calls'[i].waiter = IF calls[i].from = p /\ calls[i].waiter \in W
                                    THEN "nobody" ELSE calls[i].waiter
<1>1. calls \in Seq(AnyCall)
  BY DEF TypeOK, AnyCall
<1>2. ASSUME NEW i \in DOMAIN calls
      PROVE  /\ calls'[i] \in AnyCall
             /\ calls'[i].kind = calls[i].kind /\ calls'[i].from = calls[i].from
             /\ calls'[i].waiter = IF calls[i].from = p /\ calls[i].waiter \in W
                                   THEN "nobody" ELSE calls[i].waiter
  <2>1. calls[i] \in AnyCall
    BY <1>1
  <2>2. calls'[i] = IF calls[i].from = p /\ calls[i].waiter \in W
                    THEN [calls[i] EXCEPT !.waiter = "nobody"] ELSE calls[i]
    BY DEF Abandoned
  <2> QED
    BY <2>1, <2>2 DEF AnyCall, Waiter
<1>3. DOMAIN calls' = 1 .. Len(calls) /\ Len(calls) \in Nat
  BY <1>1 DEF Abandoned
<1>4. calls' \in [1 .. Len(calls) -> AnyCall]
  BY <1>1, <1>2, <1>3 DEF Abandoned
<1> QED
  BY <1>1, <1>2, <1>3, <1>4

LEMMA CallFrom == TypeOK => \A i \in DOMAIN calls : calls[i].from \in Process
<1> SUFFICES ASSUME TypeOK, NEW i \in DOMAIN calls
             PROVE  calls[i].from \in Process
  OBVIOUS
<1>1. calls \in Seq(AnyCall)
  BY DEF TypeOK, AnyCall
<1>2. calls[i] \in AnyCall
  BY <1>1
<1> QED
  BY <1>2 DEF AnyCall

\* The first call is gone, the others have moved up.
LEMMA TailCalls ==
  ASSUME TypeOK, calls # <<>>, calls' = Tail(calls)
  PROVE  /\ calls' \in Seq(AnyCall) /\ Head(calls) = calls[1] /\ calls[1] \in AnyCall
         /\ 1 \in DOMAIN calls
         /\ \A i \in DOMAIN calls' : i \in Nat /\ i + 1 \in DOMAIN calls
                                    /\ calls'[i] = calls[i + 1]
<1>1. calls \in Seq(AnyCall)
  BY DEF TypeOK, AnyCall
<1>2. Len(calls) \in Nat \ {0} /\ DOMAIN calls = 1 .. Len(calls)
  BY <1>1
<1>3. calls' \in Seq(AnyCall) /\ Len(calls') = Len(calls) - 1
  BY <1>1
<1>4. DOMAIN calls' = 1 .. Len(calls) - 1
  BY <1>3
<1>5. \A i \in DOMAIN calls' : calls'[i] = calls[i + 1]
  BY <1>1, <1>4
<1> QED
  BY <1>1, <1>2, <1>3, <1>4, <1>5

\* A call of a daemon that is up is the last of the queue.
LEMMA AppendedCalls ==
  ASSUME TypeOK, NEW kind \in {"register", "close"}, NEW p \in Process,
         NEW w \in Waiter, Call(kind, p, w)
  PROVE  /\ calls' \in Seq(AnyCall)
         /\ DOMAIN calls \subseteq DOMAIN calls' /\ DOMAIN calls' \subseteq Nat
         /\ \A i \in DOMAIN calls : calls'[i] = calls[i]
         /\ \A i \in DOMAIN calls' \ DOMAIN calls :
              /\ calls'[i] = [kind |-> kind, from |-> p, waiter |-> w]
              /\ \A j \in DOMAIN calls' : j <= i
<1>1. calls \in Seq(AnyCall) /\ [kind |-> kind, from |-> p, waiter |-> w] \in AnyCall
  BY DEF TypeOK, AnyCall
<1>2. CASE ~up
  BY <1>1, <1>2 DEF Call
<1>3. CASE up
  <2>1. calls' = Append(calls, [kind |-> kind, from |-> p, waiter |-> w])
    BY <1>3 DEF Call
  <2> QED
    BY <1>1, <2>1
<1> QED
  BY <1>2, <1>3 DEF TypeOK

LEMMA AnswerType ==
  ASSUME TypeOK, NEW c \in AnyCall, NEW result \in {"ok", "failed"}, Answer(c, result)
  PROVE  answers' \subseteq AnyAnswer
  BY DEF TypeOK, Answer, AnyCall, AnyAnswer

-----------------------------------------------------------------------------
(* Types *)

LEMMA ExitType ==
  ASSUME TypeOK, NEW p \in Process, NEW kind \in {"shutdown", "error", "killed"},
         Exit(p, kind), ProxyIs(p, "off"), UNCHANGED <<up, tunnels, stops, starts, excused>>,
         closeFailed' \in [Process -> BOOLEAN]
  PROVE  TypeOK'
<1>1. calls' \in Seq(AnyCall)
  BY AbandonedCalls DEF Exit
<1>2. answers' \subseteq AnyAnswer
  BY DEF Exit, TypeOK, AnyAnswer
<1>3. /\ pc' \in [Process -> Starting \cup {"off", "serving"}]
      /\ registered' \in [Process -> BOOLEAN]
      /\ proxy' \in [Process -> {"off", "open", "closing", "closed"}]
      /\ open' \in [Process -> 0 .. MaxOpen]
      /\ how' \in [Process -> {"none", "shutdown", "error", "killed"}]
  BY BoundsAssumption DEF Exit, ProxyIs, TypeOK
<1>4. stage' \in [Process -> [Handler -> {"no", "proxy", "tunnel", "last"}]]
  BY DEF Exit, TypeOK
<1>5. \A q \in Process :
        /\ registered'[q] => pc'[q] \in {"probing", "serving"}
        /\ proxy'[q] # "off" <=> q \in Bridges /\ pc'[q] = "serving"
        /\ pc'[q] # "serving" => \A h \in Handler : stage'[q][h] = "no"
  BY DEF Exit, ProxyIs, TypeOK
<1> QED
  BY <1>1, <1>2, <1>3, <1>4, <1>5 DEF TypeOK, AnyCall, AnyAnswer

\* shutdown() of a shim, and the call of p2pClose, both while it serves.
LEMMA ShutdownType ==
  ASSUME TypeOK, NEW p \in Process, NEW h \in Handler, NEW s \in {"proxy", "tunnel", "last"},
         pc[p] = "serving", stage' = [stage EXCEPT ![p][h] = s],
         calls' \in Seq(AnyCall), answers' \subseteq AnyAnswer,
         registered' = [registered EXCEPT ![p] = FALSE] \/ UNCHANGED registered,
         \/ UNCHANGED proxy
         \/ /\ proxy[p] # "off" /\ \E state \in {"closing", "closed"} : ProxyIs(p, state),
         UNCHANGED <<up, tunnels, pc, how, open, stops, starts>>,
         closeFailed' \in [Process -> BOOLEAN], excused' \in [Process -> BOOLEAN]
  PROVE  TypeOK'
<1>1. stage' \in [Process -> [Handler -> {"no", "proxy", "tunnel", "last"}]]
  BY DEF TypeOK
<1>0. registered \in [Process -> BOOLEAN] /\ proxy \in [Process -> {"off", "open", "closing", "closed"}]
  BY DEF TypeOK
<1>2. registered' \in [Process -> BOOLEAN]
  <2>1. CASE registered' = [registered EXCEPT ![p] = FALSE]
    BY <1>0, <2>1
  <2>2. CASE UNCHANGED registered
    BY <1>0, <2>2
  <2> QED
    BY <2>1, <2>2
<1>4. proxy' \in [Process -> {"off", "open", "closing", "closed"}]
  <2>1. CASE \E state \in {"closing", "closed"} : ProxyIs(p, state)
    BY <1>0, <2>1 DEF ProxyIs
  <2>2. CASE UNCHANGED proxy
    BY <1>0, <2>2
  <2> QED
    BY <2>1, <2>2
<1>3. ASSUME NEW q \in Process
      PROVE  /\ registered'[q] => pc'[q] \in {"probing", "serving"}
             /\ proxy'[q] # "off" <=> q \in Bridges /\ pc'[q] = "serving"
             /\ pc'[q] # "serving" => \A g \in Handler : stage'[q][g] = "no"
  BY DEF TypeOK, ProxyIs
<1> QED
  BY <1>1, <1>2, <1>3, <1>4 DEF TypeOK, AnyCall, AnyAnswer

LEMMA CloseTunnelType ==
  ASSUME TypeOK, NEW p \in Process, NEW h \in Handler,
         NEW state, state = proxy[p] \/ (state = "closed" /\ proxy[p] # "off"),
         pc[p] = "serving", CloseTunnel(p, h, state) \/ (TunnelDone(p, h) /\ UNCHANGED excused),
         UNCHANGED <<up, tunnels, stops, starts>>, closeFailed' \in [Process -> BOOLEAN]
  PROVE  TypeOK'
<1>1. CASE TunnelDone(p, h) /\ UNCHANGED excused
  <2>1. CASE Exit(p, "shutdown") /\ ProxyIs(p, "off")
    BY <1>1, <2>1, ExitType
  <2>2. CASE /\ stage' = [stage EXCEPT ![p][h] = "last"]
             /\ registered' = [registered EXCEPT ![p] = FALSE]
             /\ answers' = {a \in answers : a.from # p \/ a.waiter # h}
             /\ calls' = Abandoned(p, {h})
             /\ UNCHANGED <<pc, how, proxy, open>>
    <3>1. calls' \in Seq(AnyCall)
      BY <2>2, AbandonedCalls
    <3>2. answers' \subseteq AnyAnswer /\ excused' \in [Process -> BOOLEAN]
      BY <1>1, <2>2 DEF TypeOK, AnyAnswer
    <3> QED
      BY <2>2, <3>1, <3>2, ShutdownType
  <2> QED
    BY <1>1, <2>1, <2>2 DEF TunnelDone
<1>2. CASE /\ stage' = [stage EXCEPT ![p][h] = "tunnel"]
           /\ ProxyIs(p, state)
           /\ Call("close", p, h)
           /\ excused' = [q \in Process |-> excused[q] \/ q # p]
           /\ UNCHANGED <<pc, registered, how, open, answers>>
  <2>1. calls' \in Seq(AnyCall)
    BY <1>2, AppendedCalls DEF Waiter
  <2>2. answers' \subseteq AnyAnswer /\ excused' \in [Process -> BOOLEAN]
    BY <1>2 DEF TypeOK, AnyAnswer
  <2>3. \/ UNCHANGED proxy
        \/ proxy[p] # "off" /\ \E new \in {"closing", "closed"} : ProxyIs(p, new)
    <3>1. proxy \in [Process -> {"off", "open", "closing", "closed"}]
      BY DEF TypeOK
    <3>2. CASE state = proxy[p]
      BY <1>2, <3>1, <3>2 DEF ProxyIs
    <3>3. CASE state = "closed" /\ proxy[p] # "off"
      BY <1>2, <3>3
    <3> QED
      BY <3>2, <3>3
  <2> QED
    BY <1>2, <2>1, <2>2, <2>3, ShutdownType
<1> QED
  BY <1>1, <1>2 DEF CloseTunnel

LEMMA TypeStep == TypeOK /\ ProxyOK /\ HasTunnel /\ [Next]_vars => TypeOK'
<1> SUFFICES ASSUME TypeOK, ProxyOK, HasTunnel, [Next]_vars
             PROVE  TypeOK'
  OBVIOUS
<1>1. ASSUME CarryOut
      PROVE  TypeOK'
  <2>1. calls' \in Seq(AnyCall) /\ Head(calls) \in AnyCall
    BY <1>1, TailCalls DEF CarryOut
  <2>2. answers' \subseteq AnyAnswer /\ tunnels' \subseteq Process
    BY <1>1, <2>1, AnswerType DEF CarryOut, TypeOK, AnyCall
  <2> QED
    BY <1>1, <2>1, <2>2 DEF CarryOut, TypeOK, AnyCall, AnyAnswer, process
<1>2. ASSUME DaemonStops \/ DaemonStarts
      PROVE  TypeOK'
  <2>1. CASE DaemonStops
    <3>1. stops' \in 0 .. MaxStops
      BY <2>1, BoundsAssumption DEF DaemonStops, TypeOK
    <3>2. excused' \in [Process -> BOOLEAN] /\ calls' \in Seq(AnyCall)
      BY <2>1 DEF DaemonStops
    <3> QED
      BY <2>1, <3>1, <3>2 DEF DaemonStops, TypeOK, AnyCall, process
  <2>2. CASE DaemonStarts
    BY <2>2 DEF DaemonStarts, TypeOK, process
  <2> QED
    BY <1>2, <2>1, <2>2
<1>3. ASSUME NEW p \in Process, Launch(p)
      PROVE  TypeOK'
  BY <1>3, BoundsAssumption DEF Launch, TypeOK, daemon, Starting
<1>4. ASSUME NEW p \in Process, ChecksPass(p)
      PROVE  TypeOK'
  <2>1. calls' \in Seq(AnyCall)
    BY <1>4, AppendedCalls DEF ChecksPass, Waiter
  <2> QED
    BY <1>4, <2>1 DEF ChecksPass, TypeOK, AnyCall, Starting
<1>5. ASSUME NEW p \in Process, Registers(p)
      PROVE  TypeOK'
  BY <1>5, KindsAssumption DEF Registers, TypeOK, Starting, Process
<1>6. ASSUME NEW p \in Process, Reaches(p)
      PROVE  TypeOK'
  BY <1>6 DEF Reaches, ProxyIs, TypeOK, HasTunnel, daemon, Starting
<1>7. ASSUME NEW p \in Process, StartFails(p) \/ Killed(p)
      PROVE  TypeOK'
  <2>1. closeFailed' \in [Process -> BOOLEAN]
    BY <1>7 DEF StartFails, Killed, TypeOK
  <2> QED
    BY <1>7, <2>1, ExitType DEF StartFails, Killed
<1>8. ASSUME NEW p \in Process, RequestComes(p) \/ RequestEnds(p)
      PROVE  TypeOK'
  <2>1. open \in [Process -> 0 .. MaxOpen] /\ MaxOpen \in Nat
    BY BoundsAssumption DEF TypeOK
  <2>2. open' \in [Process -> 0 .. MaxOpen]
    <3>1. CASE RequestComes(p)
      BY <2>1, <3>1 DEF RequestComes
    <3>2. CASE RequestEnds(p)
      BY <2>1, <3>2 DEF RequestEnds
    <3> QED
      BY <1>8, <3>1, <3>2
  <2> QED
    BY <1>8, <2>2 DEF RequestComes, RequestEnds, TypeOK, daemon
<1>9. ASSUME NEW p \in Process, NEW h \in Handler, Signal(p, h)
      PROVE  TypeOK'
  <2>1. pc[p] = "serving" /\ closeFailed' \in [Process -> BOOLEAN]
    BY <1>9 DEF Signal, TypeOK
  <2>2. CASE CloseTunnel(p, h, proxy[p])
    BY <1>9, <2>1, <2>2, CloseTunnelType DEF Signal
  <2>3. CASE /\ proxy[p] \in {"open", "closing"}
             /\ stage' = [stage EXCEPT ![p][h] = "proxy"]
             /\ ProxyIs(p, "closing")
             /\ UNCHANGED <<calls, answers, pc, registered, open, how, excused>>
    <3>1. /\ calls' \in Seq(AnyCall) /\ answers' \subseteq AnyAnswer
          /\ excused' \in [Process -> BOOLEAN]
      BY <2>3 DEF TypeOK, AnyCall, AnyAnswer
    <3> QED
      BY <1>9, <2>1, <2>3, <3>1, ShutdownType DEF Signal
  <2> QED
    BY <1>9, <2>2, <2>3 DEF Signal
<1>10. ASSUME NEW p \in Process, NEW h \in Handler, ProxyCloses(p, h) \/ CloseEnds(p, h)
       PROVE  TypeOK'
  <2>0. closeFailed \in [Process -> BOOLEAN] /\ (stage[p][h] # "no" => pc[p] = "serving")
    BY DEF TypeOK
  <2>2. stage[p][h] = "proxy" => proxy[p] # "off"
    BY DEF ProxyOK
  <2>1. pc[p] = "serving" /\ closeFailed' \in [Process -> BOOLEAN]
    <3>1. CASE ProxyCloses(p, h)
      BY <2>0, <3>1 DEF ProxyCloses
    <3>2. CASE CloseEnds(p, h)
      BY <2>0, <3>2 DEF CloseEnds, Arrived
    <3> QED
      BY <1>10, <3>1, <3>2
  <2> QED
    BY <1>10, <2>1, <2>2, CloseTunnelType DEF ProxyCloses, CloseEnds
<1>11. ASSUME NEW p \in Process, NEW h \in Handler, ShimExits(p, h)
       PROVE  TypeOK'
  BY <1>11, ExitType DEF ShimExits, TypeOK
<1>12. CASE UNCHANGED vars
  BY <1>12 DEF vars, daemon, process, TypeOK
<1> QED
  BY <1>1, <1>2, <1>3, <1>4, <1>5, <1>6, <1>7, <1>8, <1>9, <1>10, <1>11, <1>12
     DEF Next, StartStep, ShutdownStep

\* A proxy is off only while the process is not serving, and a bridge that is not
\* serving has no shutdown left.
LEMMA ProxyStep == TypeOK /\ ProxyOK /\ HasTunnel /\ [Next]_vars => ProxyOK'
<1> SUFFICES ASSUME TypeOK, ProxyOK, HasTunnel, [Next]_vars,
                    NEW p \in Process, NEW h \in Handler, stage'[p][h] = "proxy"
             PROVE  proxy'[p] # "off"
  BY DEF ProxyOK
<1>1. TypeOK'
  BY TypeStep
<1>2. p \in Bridges => proxy'[p] # "off"
  BY <1>1 DEF TypeOK
<1>3. stage[p][h] = "proxy" => p \in Bridges
  BY DEF TypeOK, ProxyOK
<1>4. stage \in [Process -> [Handler -> {"no", "proxy", "tunnel", "last"}]]
  BY DEF TypeOK
<1>5. ASSUME UNCHANGED stage
      PROVE  p \in Bridges
  BY <1>3, <1>5
<1>6. ASSUME NEW q \in Process, NEW kind, Exit(q, kind)
      PROVE  p \in Bridges
  BY <1>3, <1>4, <1>6 DEF Exit
<1>7. ASSUME NEW q \in Process, NEW g \in Handler, NEW s, s # "proxy",
             stage' = [stage EXCEPT ![q][g] = s]
      PROVE  p \in Bridges
  BY <1>3, <1>4, <1>7
<1>8. ASSUME NEW q \in Process, NEW g \in Handler, TunnelDone(q, g)
      PROVE  p \in Bridges
  BY <1>6, <1>7, <1>8 DEF TunnelDone
<1>9. ASSUME NEW q \in Process, NEW g \in Handler, NEW state, CloseTunnel(q, g, state)
      PROVE  p \in Bridges
  BY <1>7, <1>8, <1>9 DEF CloseTunnel
<1>10. ASSUME NEW q \in Process, NEW g \in Handler, Signal(q, g)
       PROVE  p \in Bridges
  <2>1. CASE CloseTunnel(q, g, proxy[q])
    BY <1>9, <2>1
  <2>2. CASE /\ proxy[q] \in {"open", "closing"}
             /\ stage' = [stage EXCEPT ![q][g] = "proxy"]
    <3>1. q \in Bridges
      BY <2>2 DEF TypeOK
    <3> QED
      BY <1>3, <1>4, <2>2, <3>1
  <2> QED
    BY <1>10, <2>1, <2>2 DEF Signal
<1>11. p \in Bridges
  <2>1. CASE CarryOut \/ DaemonStops \/ DaemonStarts \/ UNCHANGED vars
    BY <1>5, <2>1 DEF CarryOut, DaemonStops, DaemonStarts, vars, process
  <2>2. ASSUME NEW q \in Process, Launch(q) \/ RequestComes(q) \/ RequestEnds(q)
        PROVE  p \in Bridges
    BY <1>5, <2>2 DEF Launch, RequestComes, RequestEnds
  <2>3. ASSUME NEW q \in Process, StartStep(q) \/ Killed(q)
        PROVE  p \in Bridges
    BY <1>5, <1>6, <2>3 DEF StartStep, ChecksPass, Registers, Reaches, StartFails, Killed
  <2>4. ASSUME NEW q \in Process, NEW g \in Handler, ShutdownStep(q, g)
        PROVE  p \in Bridges
    BY <1>6, <1>8, <1>9, <2>4 DEF ShutdownStep, ProxyCloses, CloseEnds, ShimExits
  <2> QED
    BY <1>10, <2>1, <2>2, <2>3, <2>4 DEF Next
<1> QED
  BY <1>2, <1>11

-----------------------------------------------------------------------------
(* What each step does to the queue, the tunnels and who relies on them *)

Rest == WaitersOK /\ AnswersOK /\ Settled /\ NoneLeft /\ HasTunnel

\* Nobody that has its tunnel still waits for the call that made it.
LEMMA NoStartCall ==
  ASSUME IInv, NEW p \in Process,
         \/ pc[p] # "registering"
         \/ \E a \in answers : a.from = p /\ a.waiter = "start"
  PROVE  (\A i \in DOMAIN calls : ~StartCall(p, i)) /\ Behind(p) = DOMAIN calls
  BY DEF IInv, WaitersOK, StartCall, Behind

LEMMA CarryOutStep == IInv /\ CarryOut => Rest'
<1> SUFFICES ASSUME IInv, CarryOut
             PROVE  Rest'
  OBVIOUS
<1> DEFINE c == calls[1]
<1>0. /\ TypeOK /\ WaitersOK /\ AnswersOK /\ Settled /\ NoneLeft /\ HasTunnel
      /\ calls # <<>> /\ calls' = Tail(calls) /\ c = Head(calls)
      /\ c \in AnyCall /\ 1 \in DOMAIN calls
      /\ \A i \in DOMAIN calls' : i \in Nat /\ i + 1 \in DOMAIN calls
                                 /\ calls'[i] = calls[i + 1]
      /\ UNCHANGED <<pc, registered, stage, how, closeFailed, excused>>
  BY TailCalls DEF IInv, CarryOut, process
<1>1. \/ c.kind = "register" /\ ~InUse(c.from) /\ tunnels' = tunnels \cup {c.from}
                              /\ Answer(c, "ok")
      \/ c.kind = "register" /\ tunnels' = tunnels /\ Answer(c, "failed")
      \/ c.kind = "close" /\ tunnels' = {} /\ Answer(c, "ok")
  BY <1>0 DEF CarryOut
<1>2. \A a \in answers' :
        \/ a \in answers
        \/ /\ a.from = c.from /\ a.waiter = c.waiter /\ c.waiter # "nobody"
           /\ a.result = "ok" => \/ c.kind = "register" /\ c.from \in tunnels'
                                 \/ c.kind = "close" /\ tunnels' = {}
  BY <1>1 DEF Answer
<1>3. ASSUME NEW p \in Process, NEW j \in Behind(p)'
      PROVE  j + 1 \in Behind(p) /\ j \in DOMAIN calls'
  <2>1. j \in DOMAIN calls' /\ \A i \in DOMAIN calls' : StartCall(p, i)' => i < j
    BY <1>3 DEF Behind
  <2>2. ASSUME NEW i \in DOMAIN calls, StartCall(p, i)
        PROVE  i < j + 1
    <3>1. DOMAIN calls = 1 .. Len(calls) /\ Len(calls) \in Nat
          /\ DOMAIN calls' = 1 .. Len(calls) - 1
      BY <1>0 DEF TypeOK
    <3>2. CASE i = 1
      BY <1>0, <2>1, <3>1, <3>2
    <3>3. CASE i # 1
      <4>1. i - 1 \in DOMAIN calls' /\ i - 1 + 1 = i
        BY <3>1, <3>3
      <4>2. StartCall(p, i - 1)'
        BY <1>0, <2>2, <4>1 DEF StartCall
      <4> QED
        BY <2>1, <3>1, <4>1, <4>2
    <3> QED
      BY <3>2, <3>3
  <2> QED
    BY <1>0, <2>1, <2>2 DEF Behind
<1>4. WaitersOK'
  <2>1. ASSUME NEW i \in DOMAIN calls', NEW a \in answers',
               calls'[i].waiter = "start", a.from = calls'[i].from
        PROVE  a.waiter # "start"
    <3>1. CASE a \in answers
      BY <1>0, <2>1, <3>1 DEF WaitersOK
    <3>2. CASE a.from = c.from /\ a.waiter = c.waiter
      BY <1>0, <2>1, <3>2 DEF WaitersOK, StartCall
    <3> QED
      BY <1>2, <3>1, <3>2
  <2>2. \A i \in DOMAIN calls' :
          /\ calls'[i].waiter = "start" =>
               calls'[i].kind = "register" /\ pc'[calls'[i].from] = "registering"
          /\ calls'[i].waiter \in Handler =>
               calls'[i].kind = "close" /\ pc'[calls'[i].from] = "serving"
    BY <1>0 DEF WaitersOK
  <2>3. \A i, j \in DOMAIN calls' :
          StartCall(calls[i].from, i)' /\ StartCall(calls[i].from, j)' => i = j
    BY <1>0 DEF WaitersOK, StartCall
  <2> QED
    BY <2>1, <2>2, <2>3 DEF WaitersOK
<1>5. AnswersOK'
  <2> SUFFICES ASSUME NEW a \in answers'
               PROVE  /\ a.waiter = "start" => pc[a.from] = "registering"
                      /\ a.waiter \in Handler => pc[a.from] = "serving"
                      /\ a.result = "ok" /\ a.waiter = "start" =>
                           a.from \in tunnels' \/ excused[a.from]
                      /\ a.result = "ok" /\ a.waiter \in Handler => a.from \notin tunnels'
    BY <1>0 DEF AnswersOK
  <2>1. CASE a \in answers
    <3>1. a.from \in Process
      BY <1>0, <2>1 DEF TypeOK
    <3>2. ASSUME a.result = "ok", a.waiter = "start"
          PROVE  a.from \in tunnels' \/ excused[a.from]
      <4>1. pc[a.from] = "registering" /\ 1 \in Behind(a.from)
        BY <1>0, <2>1, <3>1, <3>2, NoStartCall DEF AnswersOK
      <4>2. c.kind = "close" => excused[a.from]
        BY <1>0, <3>1, <4>1 DEF Settled, Trusting
      <4> QED
        BY <1>0, <1>1, <2>1, <3>2, <4>2 DEF AnswersOK
    <3>3. ASSUME a.result = "ok", a.waiter \in Handler
          PROVE  a.from \notin tunnels'
      <4>1. pc[a.from] = "serving" /\ 1 \in Behind(a.from)
        BY <1>0, <2>1, <3>1, <3>3, NoStartCall DEF AnswersOK
      <4>2. ~Asks(a.from, 1)
        BY <1>0, <3>1, <4>1 DEF Settled
      <4> QED
        BY <1>0, <1>1, <2>1, <3>3, <4>2 DEF AnswersOK, Asks
    <3> QED
      BY <1>0, <2>1, <3>2, <3>3 DEF AnswersOK
  <2>2. CASE /\ a.from = c.from /\ a.waiter = c.waiter /\ c.waiter # "nobody"
             /\ a.result = "ok" => \/ c.kind = "register" /\ c.from \in tunnels'
                                   \/ c.kind = "close" /\ tunnels' = {}
    BY <1>0, <2>2, HandlerAssumption DEF WaitersOK
  <2> QED
    BY <1>2, <2>1, <2>2
<1>6. Settled'
  BY <1>0, <1>3 DEF Settled, Trusting, Unsignalled, Asks
<1>7. NoneLeft'
  <2> SUFFICES ASSUME NEW p \in Process
               PROVE  Retired(p)' /\ (Dealt(p) /\ p \in tunnels' => closeFailed[p])
    BY <1>0 DEF NoneLeft, Dealt
  <2>1. Retired(p)'
    BY <1>0 DEF NoneLeft, Retired, Asks
  <2>2. ASSUME Dealt(p), p \in tunnels'
        PROVE  p \in tunnels
    <3>1. ~Asks(p, 1)
      <4>1. CASE how[p] = "shutdown"
        BY <1>0, <4>1 DEF NoneLeft, Retired
      <4>2. CASE pc[p] = "serving"
        BY <1>0, <4>2, NoStartCall DEF Settled
      <4> QED
        BY <1>0, <2>2, <4>1, <4>2 DEF Dealt, TypeOK
    <3> QED
      BY <1>1, <2>2, <3>1 DEF Asks
  <2> QED
    BY <1>0, <2>1, <2>2 DEF NoneLeft
<1>8. HasTunnel'
  <2>1. ASSUME NEW p \in Process,
               pc[p] = "probing" \/ (pc[p] = "serving" /\ Unsignalled(p))
        PROVE  p \in tunnels' \/ excused[p]
    <3>1. 1 \in Behind(p)
      BY <1>0, <2>1, NoStartCall
    <3>2. c.kind = "close" => excused[p]
      BY <1>0, <2>1, <3>1 DEF Settled, Trusting
    <3> QED
      BY <1>0, <1>1, <2>1, <3>2 DEF HasTunnel
  <2> QED
    BY <1>0, <2>1 DEF HasTunnel, Unsignalled
<1> QED
  BY <1>4, <1>5, <1>6, <1>7, <1>8 DEF Rest

\* Giving calls up takes nobody else's start call away, and moves nothing.
LEMMA GivenUp ==
  ASSUME IInv, NEW p \in Process, NEW W \in SUBSET (Handler \cup {"start"}),
         calls' = Abandoned(p, W), pc[p] = "serving" \/ "start" \in W
  PROVE  /\ DOMAIN calls' = DOMAIN calls
         /\ \A i \in DOMAIN calls :
              /\ calls'[i].kind = calls[i].kind /\ calls'[i].from = calls[i].from
              /\ calls'[i].waiter = calls[i].waiter \/ calls'[i].waiter = "nobody"
              /\ calls[i].from = p => calls'[i].waiter \notin W
         /\ \A q \in Process : q # p => Behind(q)' = Behind(q)
         /\ pc[p] = "serving" => Behind(p) = DOMAIN calls
<1>1. /\ DOMAIN calls' = DOMAIN calls
      /\ \A i \in DOMAIN calls :
           /\ calls'[i].kind = calls[i].kind /\ calls'[i].from = calls[i].from
           /\ calls'[i].waiter = IF calls[i].from = p /\ calls[i].waiter \in W
                                 THEN "nobody" ELSE calls[i].waiter
  BY AbandonedCalls DEF IInv
<1>2. \A q \in Process, i \in DOMAIN calls : q # p => (StartCall(q, i)' <=> StartCall(q, i))
  BY <1>1 DEF StartCall
<1> QED
  BY <1>1, <1>2, NoStartCall, HandlerAssumption DEF Behind

\* The end of a process, however it comes; only after shutdown() its tunnel must
\* have been dealt with.
LEMMA ExitStep ==
  ASSUME IInv, NEW p \in Process, NEW kind \in {"shutdown", "error", "killed"},
         Exit(p, kind), UNCHANGED <<tunnels, excused>>,
         \A q \in Process : closeFailed[q] => closeFailed'[q],
         kind = "shutdown" => pc[p] = "serving" /\ (p \in tunnels => closeFailed'[p])
  PROVE  Rest'
<1>0. /\ TypeOK /\ WaitersOK /\ AnswersOK /\ Settled /\ NoneLeft /\ HasTunnel
      /\ DOMAIN calls' = DOMAIN calls
      /\ \A i \in DOMAIN calls :
           /\ calls'[i].kind = calls[i].kind /\ calls'[i].from = calls[i].from
           /\ calls'[i].waiter = calls[i].waiter \/ calls'[i].waiter = "nobody"
           /\ calls[i].from = p => calls'[i].waiter \notin Handler \cup {"start"}
      /\ \A q \in Process : q # p => Behind(q)' = Behind(q)
      /\ pc[p] = "serving" => Behind(p) = DOMAIN calls
  BY GivenUp DEF IInv, Exit
<1>1. /\ pc'[p] = "off" /\ how'[p] = kind
      /\ \A h \in Handler : stage'[p][h] = "no"
      /\ \A q \in Process : q # p =>
           /\ pc'[q] = pc[q] /\ how'[q] = how[q] /\ stage'[q] = stage[q]
           /\ registered'[q] = registered[q]
      /\ answers' = {a \in answers : a.from # p}
  BY <1>0 DEF Exit, TypeOK
<1>2. \A i \in DOMAIN calls : calls[i].from \in Process
  BY <1>0, CallFrom
<1>3. \A a \in answers : a.from \in Process
  BY <1>0 DEF TypeOK
<1>4. WaitersOK'
  BY <1>0, <1>1, <1>2, HandlerAssumption DEF WaitersOK, StartCall
<1>5. AnswersOK'
  BY <1>0, <1>1, <1>3 DEF AnswersOK
<1>6. Settled'
  BY <1>0, <1>1 DEF Settled, Trusting, Unsignalled, Asks, Behind
<1>7. NoneLeft'
  <2>1. ASSUME NEW q \in Process, q # p
        PROVE  Retired(q)' /\ (Dealt(q) /\ q \in tunnels => closeFailed[q])'
    BY <1>0, <1>1, <2>1 DEF NoneLeft, Retired, Dealt, Asks
  <2>2. Retired(p)'
    BY <1>0, <1>1 DEF Retired, Settled, Asks
  <2>3. (Dealt(p) /\ p \in tunnels => closeFailed[p])'
    BY <1>1 DEF Dealt
  <2> QED
    BY <2>1, <2>2, <2>3 DEF NoneLeft
<1>8. HasTunnel'
  BY <1>0, <1>1 DEF HasTunnel, Unsignalled
<1> QED
  BY <1>4, <1>5, <1>6, <1>7, <1>8 DEF Rest

\* A shutdown() of a shim is done with the tunnel, or gives up its call.
LEMMA TunnelDoneStep ==
  ASSUME IInv, NEW p \in Process, NEW h \in Handler, pc[p] = "serving",
         TunnelDone(p, h), UNCHANGED <<tunnels, excused>>,
         \A q \in Process : closeFailed[q] => closeFailed'[q],
         p \in tunnels => closeFailed'[p]
  PROVE  Rest'
<1>1. CASE Exit(p, "shutdown")
  BY <1>1, ExitStep
<1>2. CASE /\ stage' = [stage EXCEPT ![p][h] = "last"]
           /\ registered' = [registered EXCEPT ![p] = FALSE]
           /\ answers' = {a \in answers : a.from # p \/ a.waiter # h}
           /\ calls' = Abandoned(p, {h})
           /\ UNCHANGED <<pc, how>>
  <2>0. /\ TypeOK /\ WaitersOK /\ AnswersOK /\ Settled /\ NoneLeft /\ HasTunnel
        /\ DOMAIN calls' = DOMAIN calls
        /\ \A i \in DOMAIN calls :
             /\ calls'[i].kind = calls[i].kind /\ calls'[i].from = calls[i].from
             /\ calls'[i].waiter = calls[i].waiter \/ calls'[i].waiter = "nobody"
        /\ \A q \in Process : q # p => Behind(q)' = Behind(q)
        /\ Behind(p) = DOMAIN calls
    BY <1>2, GivenUp DEF IInv
  <2>1. /\ stage'[p][h] = "last"
        /\ \A q \in Process : q # p => /\ stage'[q] = stage[q]
                                      /\ registered'[q] = registered[q]
    BY <1>2, <2>0 DEF TypeOK
  <2>2. WaitersOK'
    <3>1. /\ answers' \subseteq answers /\ pc' = pc
          /\ "nobody" # "start" /\ "nobody" \notin Handler
      BY <1>2, HandlerAssumption
    <3>2. \A i \in DOMAIN calls :
            /\ calls'[i].waiter = "start" => calls[i].waiter = "start"
            /\ calls'[i].waiter \in Handler => calls[i].waiter \in Handler
      BY <2>0, <3>1
    <3> QED
      BY <2>0, <3>1, <3>2 DEF WaitersOK, StartCall
  <2>3. AnswersOK'
    BY <1>2, <2>0 DEF AnswersOK
  <2>4. Settled'
    <3>1. ~Trusting(p)' /\ Behind(p)' \subseteq Behind(p)
      BY <1>2, <2>0, <2>1 DEF Trusting, Unsignalled, Behind
    <3>2. \A q \in Process : q # p => (Trusting(q)' <=> Trusting(q))
      BY <1>2, <2>1 DEF Trusting, Unsignalled
    <3>3. \A q \in Process, i \in DOMAIN calls :
            (Asks(q, i)' <=> Asks(q, i)) /\ calls'[i].kind = calls[i].kind
      BY <2>0 DEF Asks
    <3>4. \A q \in Process : Behind(q)' \subseteq Behind(q) /\ Behind(q) \subseteq DOMAIN calls
      BY <2>0, <3>1 DEF Behind
    <3> QED
      BY <1>2, <2>0, <3>1, <3>2, <3>3, <3>4 DEF Settled
  <2>5. NoneLeft'
    <3>1. \A q \in Process : q # p => (Dealt(q)' <=> Dealt(q))
      BY <1>2, <2>1 DEF Dealt
    <3>2. \A q \in Process, i \in DOMAIN calls : Asks(q, i)' <=> Asks(q, i)
      BY <2>0 DEF Asks
    <3>3. \A q \in Process : Retired(q)'
      BY <1>2, <2>0, <3>2 DEF NoneLeft, Retired
    <3> QED
      BY <2>0, <3>1, <3>3 DEF NoneLeft
  <2>6. HasTunnel'
    BY <1>2, <2>0, <2>1 DEF HasTunnel, Unsignalled
  <2> QED
    BY <2>2, <2>3, <2>4, <2>5, <2>6 DEF Rest
<1> QED
  BY <1>1, <1>2 DEF TunnelDone

\* p2pClose: behind it nobody but the caller loses a tunnel without an excuse.
LEMMA CloseCallStep ==
  ASSUME IInv, NEW p \in Process, NEW h \in Handler, pc[p] = "serving",
         stage' = [stage EXCEPT ![p][h] = "tunnel"], stage[p][h] \in {"no", "proxy"},
         Call("close", p, h), excused' = [q \in Process |-> excused[q] \/ q # p],
         UNCHANGED <<tunnels, pc, registered, how, answers, closeFailed>>
  PROVE  Rest'
<1>0. /\ TypeOK /\ WaitersOK /\ AnswersOK /\ Settled /\ NoneLeft /\ HasTunnel
      /\ DOMAIN calls \subseteq DOMAIN calls'
      /\ \A i \in DOMAIN calls : calls'[i] = calls[i]
      /\ \A i \in DOMAIN calls' \ DOMAIN calls :
           /\ calls'[i].kind = "close" /\ calls'[i].from = p /\ calls'[i].waiter = h
  BY AppendedCalls DEF IInv, Waiter
<1>1. /\ stage'[p][h] = "tunnel"
      /\ \A g \in Handler : stage'[p][g] = "last" => stage[p][g] = "last"
      /\ \A q \in Process : q # p => stage'[q] = stage[q]
      /\ \A q \in Process : excused[q] => excused'[q]
      /\ \A q \in Process : q # p => excused'[q]
  <2>1. \A q \in Process : excused'[q] = (excused[q] \/ q # p)
    OBVIOUS
  <2>2. stage \in [Process -> [Handler -> {"no", "proxy", "tunnel", "last"}]]
    BY <1>0 DEF TypeOK
  <2>3. /\ stage'[p][h] = "tunnel"
        /\ \A g \in Handler : stage'[p][g] = "last" => stage[p][g] = "last"
        /\ \A q \in Process : q # p => stage'[q] = stage[q]
    BY <2>2
  <2> QED
    BY <2>1, <2>3
<1>2. WaitersOK'
  BY <1>0, HandlerAssumption DEF WaitersOK, StartCall
<1>3. AnswersOK'
  BY <1>0, <1>1 DEF AnswersOK, TypeOK
<1>4. Settled'
  <2> SUFFICES ASSUME NEW q \in Process, pc[q] \in {"registering", "probing", "serving"},
                      NEW j \in Behind(q)'
               PROVE  ~Asks(q, j)' /\ ((calls[j].kind = "close" /\ Trusting(q))' => excused'[q])
    BY DEF Settled
  <2>1. CASE j \in DOMAIN calls
    <3>1. j \in Behind(q)
      BY <1>0, <2>1 DEF Behind, StartCall
    <3>2. ~Asks(q, j)'
      BY <1>0, <2>1, <3>1 DEF Settled, Asks
    <3>3. q = p => ~Trusting(q)'
      BY <1>1 DEF Trusting, Unsignalled
    <3> QED
      BY <1>1, <3>2, <3>3
  <2>2. CASE j \notin DOMAIN calls
    BY <1>0, <1>1, <2>2 DEF Behind, Asks, Trusting, Unsignalled
  <2> QED
    BY <2>1, <2>2
<1>5. NoneLeft'
  <2>1. ASSUME NEW q \in Process
        PROVE  Retired(q)'
    <3>1. how[q] = "shutdown" => q # p
      BY <1>0 DEF NoneLeft, Retired
    <3> QED
      BY <1>0, <3>1 DEF NoneLeft, Retired, Asks
  <2>2. ASSUME NEW q \in Process
        PROVE  (Dealt(q) /\ q \in tunnels => closeFailed[q])'
    BY <1>0, <1>1 DEF NoneLeft, Dealt
  <2> QED
    BY <2>1, <2>2 DEF NoneLeft
<1>6. HasTunnel'
  BY <1>0, <1>1 DEF HasTunnel, Unsignalled
<1> QED
  BY <1>2, <1>3, <1>4, <1>5, <1>6 DEF Rest

\* The call of start() is put behind everything an earlier run may have left.
LEMMA ChecksPassStep ==
  ASSUME IInv, NEW p \in Process, ChecksPass(p)
  PROVE  Rest'
<1>0. /\ TypeOK /\ WaitersOK /\ AnswersOK /\ Settled /\ NoneLeft /\ HasTunnel
      /\ DOMAIN calls \subseteq DOMAIN calls' /\ DOMAIN calls' \subseteq Nat
      /\ \A i \in DOMAIN calls : calls'[i] = calls[i]
      /\ \A i \in DOMAIN calls' \ DOMAIN calls :
           /\ calls'[i] = [kind |-> "register", from |-> p, waiter |-> "start"]
           /\ \A j \in DOMAIN calls' : j <= i
      /\ UNCHANGED <<tunnels, answers, registered, stage, how, closeFailed>>
  BY AppendedCalls DEF IInv, Waiter, ChecksPass
<1>1. /\ pc[p] = "checking" /\ pc'[p] = "registering" /\ ~excused'[p]
      /\ \A q \in Process : q # p => pc'[q] = pc[q] /\ excused'[q] = excused[q]
  BY <1>0 DEF ChecksPass, TypeOK
<1>2. \A i, j \in DOMAIN calls' \ DOMAIN calls : i = j
  <2>1. ASSUME NEW i \in DOMAIN calls' \ DOMAIN calls, NEW j \in DOMAIN calls' \ DOMAIN calls
        PROVE  i = j
    <3>1. i <= j /\ j <= i /\ i \in Nat /\ j \in Nat
      BY <1>0
    <3> QED
      BY <3>1
  <2> QED
    BY <2>1
<1>3. \E i \in DOMAIN calls' \ DOMAIN calls : TRUE
  <2>1. calls' = Append(calls, [kind |-> "register", from |-> p, waiter |-> "start"])
    BY DEF ChecksPass, DaemonAnswers, Call
  <2>2. calls \in Seq(AnyCall)
    BY <1>0 DEF TypeOK, AnyCall
  <2>3. Len(calls) + 1 \in DOMAIN calls' \ DOMAIN calls
    <3>1. /\ [kind |-> "register", from |-> p, waiter |-> "start"] \in AnyCall
          /\ Len(calls) \in Nat
      BY <2>2 DEF AnyCall, Waiter
    <3>2. DOMAIN calls = 1 .. Len(calls) /\ DOMAIN calls' = 1 .. Len(calls) + 1
      BY <2>1, <2>2, <3>1
    <3> QED
      BY <3>1, <3>2
  <2> QED
    BY <2>3
<1>4. \A i \in DOMAIN calls : calls[i].from \in Process
  BY <1>0, CallFrom
<1>5. WaitersOK'
  <2>1. \A a \in answers : a.from = p => a.waiter # "start"
    BY <1>0, <1>1 DEF AnswersOK
  <2>2. \A i \in DOMAIN calls : ~StartCall(p, i) /\ (calls[i].waiter \in Handler => calls[i].from # p)
    BY <1>0, <1>1 DEF WaitersOK, StartCall
  <2>3. \A i \in DOMAIN calls' :
          /\ calls'[i].waiter = "start" =>
               /\ calls'[i].kind = "register" /\ pc'[calls'[i].from] = "registering"
               /\ \A a \in answers : a.from = calls'[i].from => a.waiter # "start"
          /\ calls'[i].waiter \in Handler =>
               calls'[i].kind = "close" /\ pc'[calls'[i].from] = "serving"
    <3>1. ASSUME NEW i \in DOMAIN calls
          PROVE  /\ calls'[i].waiter = "start" =>
                      /\ calls'[i].kind = "register" /\ pc'[calls'[i].from] = "registering"
                      /\ \A a \in answers : a.from = calls'[i].from => a.waiter # "start"
                 /\ calls'[i].waiter \in Handler =>
                      calls'[i].kind = "close" /\ pc'[calls'[i].from] = "serving"
      BY <1>0, <1>1, <1>4, <2>2 DEF WaitersOK, StartCall
    <3>2. ASSUME NEW i \in DOMAIN calls' \ DOMAIN calls
          PROVE  /\ calls'[i].from = p /\ calls'[i].waiter = "start"
                 /\ calls'[i].kind = "register" /\ "start" \notin Handler
      BY <1>0, HandlerAssumption
    <3> QED
      BY <1>1, <2>1, <3>1, <3>2
  <2>4. \A i, j \in DOMAIN calls' :
          StartCall(calls[i].from, i)' /\ StartCall(calls[i].from, j)' => i = j
    <3>1. \A i \in DOMAIN calls : (calls'[i].waiter = "start" => calls'[i].from # p)
      BY <1>0, <2>2 DEF StartCall
    <3>2. \A i, j \in DOMAIN calls :
            StartCall(calls[i].from, i)' /\ StartCall(calls[i].from, j)' => i = j
      BY <1>0 DEF WaitersOK, StartCall
    <3>3. \A i \in DOMAIN calls' \ DOMAIN calls : calls'[i].from = p
      BY <1>0
    <3> QED
      BY <1>2, <3>1, <3>2, <3>3 DEF StartCall
  <2> QED
    BY <1>0, <2>3, <2>4 DEF WaitersOK
<1>6. AnswersOK'
  BY <1>0, <1>1 DEF AnswersOK, TypeOK
<1>7. Settled'
  <2>1. Behind(p)' = {}
    BY <1>0, <1>3 DEF Behind, StartCall
  <2>2. ASSUME NEW q \in Process, q # p, NEW j \in Behind(q)'
        PROVE  \/ j \in Behind(q)
               \/ j \in DOMAIN calls' \ DOMAIN calls
    BY <1>0 DEF Behind, StartCall
  <2>3. \A q \in Process : q # p => (Trusting(q)' <=> Trusting(q))
    BY <1>0, <1>1 DEF Trusting, Unsignalled
  <2>4. ASSUME NEW q \in Process, q # p, NEW j \in DOMAIN calls' \ DOMAIN calls
        PROVE  ~Asks(q, j)' /\ calls'[j].kind # "close"
    BY <1>0, <2>4 DEF Asks
  <2>5. ASSUME NEW q \in Process, q # p, NEW j \in Behind(q)
        PROVE  (Asks(q, j)' <=> Asks(q, j)) /\ calls'[j].kind = calls[j].kind
    BY <1>0 DEF Asks, Behind
  <2> QED
    BY <1>1, <2>1, <2>2, <2>3, <2>4, <2>5, <1>0 DEF Settled
<1>8. NoneLeft'
  <2>1. ASSUME NEW q \in Process
        PROVE  Retired(q)'
    <3>1. how[q] = "shutdown" => q # p
      BY <1>0, <1>1 DEF NoneLeft, Retired
    <3>2. \A i \in DOMAIN calls' : q # p => (Asks(q, i)' => i \in DOMAIN calls /\ Asks(q, i))
      BY <1>0 DEF Asks
    <3> QED
      BY <1>0, <1>1, <3>1, <3>2 DEF NoneLeft, Retired
  <2>2. \A q \in Process : Dealt(q)' => Dealt(q)
    BY <1>0, <1>1 DEF Dealt
  <2> QED
    BY <1>0, <2>1, <2>2 DEF NoneLeft
<1>9. HasTunnel'
  BY <1>0, <1>1 DEF HasTunnel, Unsignalled
<1> QED
  BY <1>5, <1>6, <1>7, <1>8, <1>9 DEF Rest

LEMMA DaemonStopsStep == IInv /\ DaemonStops => Rest'
<1> SUFFICES ASSUME IInv, DaemonStops
             PROVE  Rest'
  OBVIOUS
<1>0. /\ TypeOK /\ AnswersOK /\ NoneLeft /\ HasTunnel
      /\ tunnels' = {} /\ DOMAIN calls' = {} /\ \A p \in Process : excused'[p]
      /\ UNCHANGED <<answers, pc, registered, stage, how, closeFailed>>
  BY DEF IInv, DaemonStops, process
<1>1. WaitersOK' /\ Settled'
  BY <1>0 DEF WaitersOK, Settled, Behind
<1>2. AnswersOK'
  BY <1>0 DEF AnswersOK, TypeOK
<1>3. NoneLeft'
  BY <1>0 DEF NoneLeft, Retired
<1>4. HasTunnel'
  BY <1>0 DEF HasTunnel
<1> QED
  BY <1>1, <1>2, <1>3, <1>4 DEF Rest

\* start() has its answer: nothing of it is left in the queue.
LEMMA RegistersStep ==
  ASSUME IInv, NEW p \in Process, Registers(p)
  PROVE  Rest'
<1>0. /\ TypeOK /\ WaitersOK /\ AnswersOK /\ Settled /\ NoneLeft /\ HasTunnel
      /\ pc[p] = "registering" /\ registered'[p] /\ answers' \subseteq answers
      /\ \A a \in answers' : a.from # p
      /\ pc'[p] = IF p \in Bridges THEN "probing" ELSE "serving"
      /\ \A q \in Process : q # p => pc'[q] = pc[q] /\ registered'[q] = registered[q]
      /\ UNCHANGED <<calls, tunnels, stage, how, closeFailed, excused>>
  BY DEF IInv, Registers, TypeOK
<1>1. PICK a \in answers : a.from = p /\ a.waiter = "start" /\ a.result = "ok"
  BY DEF Registers, Arrived
<1>2. \A i \in DOMAIN calls : ~StartCall(p, i) /\ (calls[i].waiter \in Handler => calls[i].from # p)
  BY <1>0, <1>1, NoStartCall DEF WaitersOK
<1>3. \A q \in Process : Behind(q)' = Behind(q) /\ (Trusting(q)' => Trusting(q))
  BY <1>0 DEF Behind, StartCall, Trusting, Unsignalled
<1>4. \A q \in Process, i \in DOMAIN calls : Asks(q, i)' <=> Asks(q, i)
  BY <1>0 DEF Asks
<1>5. WaitersOK'
  BY <1>0, <1>2, CallFrom DEF WaitersOK, StartCall
<1>6. AnswersOK'
  BY <1>0 DEF AnswersOK, TypeOK
<1>7. Settled'
  BY <1>0, <1>3, <1>4 DEF Settled, Behind
<1>8. NoneLeft'
  <2>1. \A q \in Process : Retired(q)'
    BY <1>0, <1>4 DEF NoneLeft, Retired
  <2>2. \A q \in Process : Dealt(q)' => Dealt(q)
    BY <1>0 DEF Dealt
  <2> QED
    BY <1>0, <2>1, <2>2 DEF NoneLeft
<1>9. HasTunnel'
  BY <1>0, <1>1 DEF HasTunnel, Unsignalled, AnswersOK
<1> QED
  BY <1>5, <1>6, <1>7, <1>8, <1>9 DEF Rest

\* Steps that leave the queue, the answers and the tunnels alone, and make nobody
\* rely on a tunnel who did not before.
LEMMA QuietStep ==
  ASSUME IInv, UNCHANGED <<calls, answers, tunnels, excused>>,
         \A q \in Process :
           /\ \/ pc'[q] = pc[q] /\ how'[q] = how[q] /\ closeFailed'[q] = closeFailed[q]
              \/ /\ pc[q] = "off" /\ pc'[q] = "checking" /\ how'[q] = "none"
                 /\ stage'[q] = stage[q]
              \/ /\ pc[q] = "probing" /\ pc'[q] = "serving" /\ stage'[q] = stage[q]
                 /\ how'[q] = how[q] /\ closeFailed'[q] = closeFailed[q]
           /\ registered'[q] = registered[q]
           /\ \A h \in Handler : \/ stage'[q][h] = stage[q][h]
                                 \/ stage[q][h] = "no" /\ stage'[q][h] = "proxy"
  PROVE  Rest'
<1>0. TypeOK /\ WaitersOK /\ AnswersOK /\ Settled /\ NoneLeft /\ HasTunnel
  BY DEF IInv
<1>1. \A i \in DOMAIN calls : calls[i].from \in Process
  BY <1>0, CallFrom
<1>2. \A a \in answers : a.from \in Process
  BY <1>0 DEF TypeOK
<1>3. ASSUME NEW q \in Process
      PROVE  /\ Behind(q)' = Behind(q)
             /\ Trusting(q)' => Trusting(q)
             /\ pc'[q] = "serving" /\ Unsignalled(q)' =>
                  pc[q] = "probing" \/ (pc[q] = "serving" /\ Unsignalled(q))
             /\ Dealt(q)' => Dealt(q) /\ closeFailed'[q] = closeFailed[q]
  <2>1. Behind(q)' = Behind(q)
    BY DEF Behind, StartCall
  <2>2. /\ Trusting(q)' => Trusting(q)
        /\ pc'[q] = "serving" /\ Unsignalled(q)' =>
             pc[q] = "probing" \/ (pc[q] = "serving" /\ Unsignalled(q))
    BY DEF Trusting, Unsignalled
  <2>3. Dealt(q)' => Dealt(q) /\ closeFailed'[q] = closeFailed[q]
    BY <1>0 DEF Dealt, HasTunnel, TypeOK
  <2> QED
    BY <2>1, <2>2, <2>3
<1>4. WaitersOK'
  BY <1>0, <1>1 DEF WaitersOK, StartCall
<1>5. AnswersOK'
  BY <1>0, <1>2 DEF AnswersOK
<1>6. Settled'
  <2>1. \A q \in Process :
          pc'[q] \in {"registering", "probing", "serving"} =>
            pc[q] \in {"registering", "probing", "serving"}
    OBVIOUS
  <2>2. \A q \in Process, i \in DOMAIN calls : Asks(q, i)' <=> Asks(q, i)
    BY DEF Asks
  <2>3. \A q \in Process : Behind(q) \subseteq DOMAIN calls
    BY DEF Behind
  <2> QED
    BY <1>0, <1>3, <2>1, <2>2, <2>3 DEF Settled
<1>7. NoneLeft'
  <2>1. ASSUME NEW q \in Process
        PROVE  Retired(q)'
    BY <1>0 DEF NoneLeft, Retired, Asks
  <2> QED
    BY <1>0, <1>3, <2>1 DEF NoneLeft
<1>8. HasTunnel'
  BY <1>0, <1>3 DEF HasTunnel
<1> QED
  BY <1>4, <1>5, <1>6, <1>7, <1>8 DEF Rest

-----------------------------------------------------------------------------
(* The theorems *)

\* An answer that says "ok" to a p2pClose comes after the tunnel is gone.
LEMMA CloseTunnelStep ==
  ASSUME IInv, NEW p \in Process, NEW h \in Handler, pc[p] = "serving",
         stage[p][h] \in {"no", "proxy"}, NEW state, CloseTunnel(p, h, state),
         UNCHANGED <<tunnels, closeFailed>>
  PROVE  Rest'
<1>1. CASE TunnelDone(p, h) /\ UNCHANGED excused /\ ~registered[p]
  <2>1. p \in tunnels => closeFailed[p]
    BY <1>1 DEF IInv, NoneLeft, Dealt
  <2> QED
    BY <1>1, <2>1, TunnelDoneStep
<1>2. CASE ~(TunnelDone(p, h) /\ UNCHANGED excused /\ ~registered[p])
  BY <1>2, CloseCallStep DEF CloseTunnel
<1> QED
  BY <1>1, <1>2

LEMMA RestStep == IInv /\ [Next]_vars => Rest'
<1> SUFFICES ASSUME IInv, [Next]_vars
             PROVE  Rest'
  OBVIOUS
<1>0. TypeOK
  BY DEF IInv
<1>1. ASSUME NEW p \in Process, Launch(p) \/ Reaches(p)
      PROVE  Rest'
  BY <1>0, <1>1, QuietStep DEF Launch, Reaches, daemon, TypeOK
<1>2. ASSUME NEW p \in Process, StartFails(p) \/ Killed(p)
      PROVE  Rest'
  BY <1>2, ExitStep DEF StartFails, Killed
<1>3. ASSUME NEW p \in Process, RequestComes(p) \/ RequestEnds(p)
      PROVE  Rest'
  BY <1>3, QuietStep DEF RequestComes, RequestEnds, daemon
<1>4. ASSUME NEW p \in Process, NEW h \in Handler, Signal(p, h)
      PROVE  Rest'
  <2>1. CASE CloseTunnel(p, h, proxy[p])
    BY <1>4, <2>1, CloseTunnelStep DEF Signal
  <2>2. CASE /\ stage' = [stage EXCEPT ![p][h] = "proxy"]
             /\ UNCHANGED <<calls, answers, pc, registered, how, excused>>
    BY <1>0, <1>4, <2>2, QuietStep DEF Signal, TypeOK
  <2> QED
    BY <1>4, <2>1, <2>2 DEF Signal
<1>5. ASSUME NEW p \in Process, NEW h \in Handler, ProxyCloses(p, h)
      PROVE  Rest'
  <2>1. pc[p] = "serving"
    BY <1>0, <1>5 DEF ProxyCloses, TypeOK
  <2> QED
    BY <1>5, <2>1, CloseTunnelStep DEF ProxyCloses
<1>6. ASSUME NEW p \in Process, NEW h \in Handler, CloseEnds(p, h)
      PROVE  Rest'
  <2>1. pc[p] = "serving"
    BY <1>0, <1>6 DEF CloseEnds, TypeOK
  <2>2. /\ \A q \in Process : closeFailed[q] => closeFailed'[q]
        /\ closeFailed'[p] \/ Arrived(p, h, "ok")
    <3>1. closeFailed \in [Process -> BOOLEAN]
      BY <1>0 DEF TypeOK
    <3>2. closeFailed'[p] = (closeFailed[p] \/ ~Arrived(p, h, "ok"))
      BY <1>6, <3>1 DEF CloseEnds
    <3>3. \A q \in Process : q # p => closeFailed'[q] = closeFailed[q]
      BY <1>6, <3>1 DEF CloseEnds
    <3> QED
      BY <3>2, <3>3
  <2>3. Arrived(p, h, "ok") => p \notin tunnels
    BY DEF IInv, AnswersOK, Arrived
  <2> QED
    BY <1>6, <2>1, <2>2, <2>3, TunnelDoneStep DEF CloseEnds
<1>7. ASSUME NEW p \in Process, NEW h \in Handler, ShimExits(p, h)
      PROVE  Rest'
  <2>1. pc[p] = "serving" /\ (p \in tunnels => closeFailed[p])
    BY <1>0, <1>7 DEF ShimExits, TypeOK, IInv, NoneLeft, Dealt
  <2> QED
    BY <1>7, <2>1, ExitStep DEF ShimExits
<1>8. DaemonStarts \/ UNCHANGED vars => Rest'
  BY QuietStep DEF DaemonStarts, vars, daemon, process
<1> QED
  BY <1>1, <1>2, <1>3, <1>4, <1>5, <1>6, <1>7, <1>8,
     CarryOutStep, DaemonStopsStep, ChecksPassStep, RegistersStep
     DEF Next, StartStep, ShutdownStep

LEMMA Inductive == Spec => []IInv
<1>1. Init => IInv
  <2> SUFFICES ASSUME Init
               PROVE  IInv
    OBVIOUS
  <2>1. TypeOK
    <3>1. open \in [Process -> 0 .. MaxOpen] /\ starts \in 0 .. MaxStarts /\ stops \in 0 .. MaxStops
      BY BoundsAssumption DEF Init
    <3>2. calls \in Seq([kind : {"register", "close"}, from : Process, waiter : Waiter])
      BY DEF Init
    <3>3. stage \in [Process -> [Handler -> {"no", "proxy", "tunnel", "last"}]]
      BY DEF Init
    <3> QED
      BY <3>1, <3>2, <3>3 DEF Init, TypeOK
  <2>2. WaitersOK /\ AnswersOK /\ Settled
    BY DEF Init, WaitersOK, AnswersOK, Settled
  <2>3. NoneLeft /\ HasTunnel
    BY DEF Init, NoneLeft, Retired, Dealt, HasTunnel
  <2>4. ProxyOK
    BY DEF Init, ProxyOK
  <2> QED
    BY <2>1, <2>2, <2>3, <2>4 DEF IInv
<1>2. IInv /\ [Next]_vars => IInv'
  BY TypeStep, ProxyStep, RestStep DEF IInv, Rest
<1> QED
  BY <1>1, <1>2, PTL DEF Spec

\* The types of the state; registeredProtocol, the proxy and the shutdowns exist only
\* while the process does.
THEOREM TypeCorrect == Spec => []TypeOK
<1>1. IInv => TypeOK
  BY DEF IInv
<1> QED
  BY <1>1, Inductive, PTL

\* shutdown(), however many signals start it at once and whatever calls earlier runs
\* have left at the daemon, ends without a tunnel unless a p2pClose failed.
THEOREM ShutdownCorrect == Spec => []ShutdownLeavesNoTunnel
<1>1. IInv => ShutdownLeavesNoTunnel
  BY DEF IInv, NoneLeft, Dealt, ShutdownLeavesNoTunnel
<1> QED
  BY <1>1, Inductive, PTL

\* A serving process that was not told to stop has its tunnel unless the daemon went
\* down or another process closed the tunnels of the protocol: no p2pClose of an
\* earlier run that comes late takes it away.
THEOREM ServingCorrect == Spec => []ServingHasTunnel
<1>1. IInv => ServingHasTunnel
  BY DEF IInv, HasTunnel, Unsignalled, ServingHasTunnel
<1> QED
  BY <1>1, Inductive, PTL
=============================================================================
