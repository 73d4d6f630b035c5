------------------------------ MODULE QrPairing ------------------------------
(***************************************************************************)
(* src/qr-server.ts and src/qr-client.ts up to the channel's first use:    *)
(* the offer and the answer are shown as codes (src/transport/             *)
(* webrtc-qr.ts) and carried from terminal to terminal by a user, who may  *)
(* paste the code of any process into any other.  Each process runs once;  *)
(* DataChannel goes on from here.                                          *)
(* External: node-datachannel, which connects two processes that have each *)
(* other's code, or not, and queues what happens to the channel; the opened*)
(* event of a channel is delivered even when the channel has been lost.    *)
(***************************************************************************)
EXTENDS Naturals

CONSTANTS Server, Client,  \* the processes, by the program they run
          NoCode

Process == Server \cup Client

VARIABLES
  stage,    \* the await at which main() of each process stands
  shown,    \* the processes whose code is on their terminal
  pasted,   \* the process whose code each was given
  links,    \* connections that are up: pairs of a server and a client
  opening,  \* the processes with the channel's events still in their queue
  greeting, \* the processes with a handshake message on its way to them
  greeted   \* handshakeComplete

vars == <<stage, shown, pasted, links, opening, greeting, greeted>>

Stages == {"prompt", "gathering", "waiting", "opening", "handshake", "serving", "ended"}

TypeOK ==
  /\ stage \in [Process -> Stages]
  /\ shown \subseteq Process /\ pasted \in [Process -> Process \cup {NoCode}]
  /\ links \subseteq Server \X Client
  /\ opening \subseteq Process /\ greeting \subseteq Process /\ greeted \subseteq Process

Init ==
  /\ stage = [p \in Process |-> IF p \in Server THEN "gathering" ELSE "prompt"]
  /\ shown = {} /\ pasted = [p \in Process |-> NoCode]
  /\ links = {} /\ opening = {} /\ greeting = {} /\ greeted = {}

LinksOf(p) == {l \in links : p \in {l[1], l[2]}}
Up(p) == LinksOf(p) # {}

GoTo(p, s) ==
  /\ stage' = [stage EXCEPT ![p] = s]
  /\ UNCHANGED links

\* process.exit() or an error nobody catches: the connection goes with the process.
End(p) ==
  /\ stage' = [stage EXCEPT ![p] = "ended"]
  /\ links' = links \ LinksOf(p)

-----------------------------------------------------------------------------
\* ICE gathering is done, or its timers find candidates or none: the code is shown,
\* or the process exits.
Gathered(p) ==
  /\ stage[p] = "gathering"
  /\ \/ /\ GoTo(p, IF p \in Server THEN "prompt" ELSE "waiting")
        /\ shown' = shown \cup {p}
     \/ /\ End(p)
        /\ UNCHANGED shown
  /\ UNCHANGED <<pasted, opening, greeting, greeted>>

\* The user pastes a code, of whatever process and however old, or something that
\* is none.
Paste(p) ==
  /\ stage[p] = "prompt"
  /\ \/ \E q \in shown \cap (IF p \in Server THEN Client ELSE Server) :
           /\ pasted' = [pasted EXCEPT ![p] = q]
           /\ GoTo(p, IF p \in Server THEN "waiting" ELSE "gathering")
     \/ /\ End(p)
        /\ UNCHANGED pasted
  /\ UNCHANGED <<shown, opening, greeting, greeted>>

\* External: two processes that have each other's code are connected.
Connect(s, c) ==
  /\ stage[s] = "waiting" /\ stage[c] = "waiting"
  /\ pasted[s] = c /\ pasted[c] = s
  /\ {s, c} \cap opening = {}
  /\ links' = links \cup {<<s, c>>}
  /\ opening' = opening \cup {s, c}
  /\ UNCHANGED <<stage, shown, pasted, greeting, greeted>>

\* External: the connection fails, with the messages on it.
LoseLink(l) ==
  /\ links' = links \ {l}
  /\ greeting' = greeting \ {l[1], l[2]}
  /\ UNCHANGED <<stage, shown, pasted, opening, greeted>>

\* The client's onDataChannel callback clears its timer.
ReceiveChannel(c) ==
  /\ c \in Client \cap opening /\ stage[c] = "waiting"
  /\ GoTo(c, "opening")
  /\ UNCHANGED <<shown, pasted, opening, greeting, greeted>>

\* dc.onOpen: send the handshake and go on.  On a channel that was lost meanwhile
\* the send throws, in a callback.
Open(p) ==
  /\ p \in opening
  /\ stage[p] = (IF p \in Server THEN "waiting" ELSE "opening")
  /\ opening' = opening \ {p}
  /\ IF Up(p)
     THEN /\ GoTo(p, IF p \in Server THEN "serving" ELSE "handshake")
          /\ greeting' = greeting \cup {pasted[p]}
     ELSE End(p) /\ UNCHANGED greeting
  /\ UNCHANGED <<shown, pasted, greeted>>

\* dc.onMessage, after the opened event.
Greet(p) ==
  /\ p \in greeting \ opening /\ stage[p] \in {"handshake", "serving"}
  /\ greeted' = greeted \cup {p}
  /\ greeting' = greeting \ {p}
  /\ UNCHANGED <<stage, shown, pasted, links, opening>>

\* External: maxRetransmits is 3.
LoseGreeting(p) ==
  /\ greeting' = greeting \ {p}
  /\ UNCHANGED <<stage, shown, pasted, links, opening, greeted>>

\* The poll of handshakeComplete, then listen(), whose port may be taken.
Listen(c) ==
  /\ stage[c] = "handshake" /\ c \in greeted
  /\ GoTo(c, "serving") \/ End(c)
  /\ UNCHANGED <<shown, pasted, opening, greeting, greeted>>

\* The 15 seconds for the handshake.
HandshakeTimeout(c) ==
  /\ stage[c] = "handshake"
  /\ End(c)
  /\ UNCHANGED <<shown, pasted, opening, greeting, greeted>>

BugOpenTimeout(p) ==  \* only the server has a timer
  /\ stage[p] = "waiting" /\ p \in Server
  /\ End(p)
  /\ UNCHANGED <<shown, pasted, opening, greeting, greeted>>

\* The 300 seconds for the channel, which the client counts from its connection
\* object and the server from the answer.
OpenTimeout(p) ==
  /\ stage[p] = "waiting"
  /\ End(p)
  /\ UNCHANGED <<shown, pasted, opening, greeting, greeted>>

\* Ctrl-C
Kill(p) ==
  /\ stage[p] # "ended"
  /\ End(p)
  /\ UNCHANGED <<shown, pasted, opening, greeting, greeted>>

\* What the event loop and the timers of a process do.
Step(p) ==
  \/ Gathered(p) \/ ReceiveChannel(p) \/ Open(p)
  \/ Listen(p) \/ HandshakeTimeout(p) \/ OpenTimeout(p)

Next ==
  \/ \E p \in Process : Step(p) \/ Paste(p) \/ Greet(p) \/ Kill(p)
  \/ \E s \in Server, c \in Client : Connect(s, c)
  \/ \E l \in links : LoseLink(l)
  \/ \E p \in greeting : LoseGreeting(p)

Spec == Init /\ [][Next]_vars

\* Users and network owe nothing.
FairSpec == Spec /\ \A p \in Process : WF_vars(Step(p))

-----------------------------------------------------------------------------

\* A process that has been given its code does not wait for ever, for a channel, a
\* handshake or a peer that left: it serves or ends (dcReady, the handshake limit).
EveryCodeSettles ==
  \A p \in Process :
     stage[p] \in {"gathering", "waiting", "opening", "handshake"}
       ~> stage[p] \in {"prompt", "serving", "ended"}

\* A client that opens its API has been greeted by the server it was given, which
\* was given this client and serves no other (qr-client.ts, the two waits of main).
ServedByItsServer ==
  \A c \in Client : stage[c] = "serving" =>
     /\ c \in greeted /\ pasted[pasted[c]] = c
     /\ stage[pasted[c]] \in {"serving", "ended"}

-----------------------------------------------------------------------------
(* Refuted *)

\* qr-client.ts:220, "WebRTC fully connected": as long as the connection holds, the
\* server comes to answer the client.  A lost handshake leaves it refusing for ever.
ConnectedMeansServed ==
  \A c \in Client :
     stage[c] = "serving" ~> pasted[c] \in greeted \/ LinksOf(c) = {}
=============================================================================
