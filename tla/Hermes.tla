------------------------------- MODULE Hermes -------------------------------
(***************************************************************************)
(* The hermes lane: per turn a trampoline process (trampoline.rs) dials    *)
(* the spawner's socket, the router (socket_server.rs) hands its frames to *)
(* the one plugin connection and the plugin's envelopes, by chat, back to  *)
(* the chat's trampoline; the plugin (hermes_plugin/adapter.py) runs the   *)
(* turns.  Anything that dies, the trampoline by the supervisor's SIGTERM, *)
(* the gateway by itself, dies alone: its peers learn of it later.         *)
(*                                                                         *)
(* A turn is its trampoline.  Queues and sockets in a row are one sequence,*)
(* bounded where the code bounds the queue.                                *)
(***************************************************************************)
EXTENDS Naturals, SequencesExt

CONSTANTS
  Chats,      \* chats of hermes the router may hear of
  Known,      \* those the mirror still has
  Capacity,   \* PER_CONN_QUEUE_CAPACITY
  MaxTurns,   \* bound: turns, over all chats
  MaxLines,   \* bound: lines the plugin emits in a turn before its last one
  MaxLinks,   \* bound: connections the plugin dials
  MaxCron     \* bound: proactive deliveries

ASSUME HermesAssumption ==
  /\ Known \subseteq Chats
  /\ {Capacity, MaxTurns, MaxLines, MaxLinks} \subseteq Nat \ {0} /\ MaxCron \in Nat

VARIABLES
  chatOf,     \* of the turns begun, in the order of their trampolines
  process,    \* of a trampoline: "running", "done" (exit 0), "cut" (exit 1, or killed)
  printed,    \* what it wrote to stdout while it ran
  conn,       \* its connection's task: "dialled", "registered", "over"
  queue,      \* the connection's outbound queue, while the process reads it
  table,      \* RouterState.trampolines
  slot,       \* RouterState.plugin, 0 for None
  links,      \* the plugin's connections so far: the router's task for each
  down,       \* turn frames for the plugin, on its last link
  wire,       \* of a link: envelopes from the plugin
  gateway,    \* is the gateway's child running
  linked,     \* is the plugin's end of its last link open
  inFlight,   \* ZucchiniAdapter._turns
  left,       \* lines a turn may still say
  rows,       \* agent lines given to the writer
  crons,      \* proactive deliveries made
  routed,     \* of a turn: its envelopes that came to the router while it ran
  crowded     \* running turns that lost an envelope to a full queue

trampolines == <<chatOf, process, printed>>
router == <<conn, queue, table, slot, rows>>
sockets == <<links, down, wire>>
plugin == <<gateway, linked, inFlight, left, crons>>
vars == <<trampolines, router, sockets, plugin, routed, crowded>>

None == 0
Turns == DOMAIN chatOf
Links == DOMAIN links

Envelope(t, n, last) == [chat |-> chatOf[t], of |-> t, n |-> n, last |-> last]
Proactive(c) == [chat |-> c, of |-> None, n |-> 0, last |-> FALSE]

Init ==
  /\ chatOf = <<>> /\ process = <<>> /\ printed = <<>>
  /\ conn = <<>> /\ queue = <<>> /\ table = [c \in Chats |-> None] /\ slot = None
  /\ rows = <<>> /\ links = <<>> /\ down = <<>> /\ wire = <<>>
  /\ gateway = FALSE /\ linked = FALSE /\ inFlight = [c \in Chats |-> None]
  /\ left = <<>> /\ crons = 0 /\ routed = <<>> /\ crowded = {}

-----------------------------------------------------------------------------
(* The trampoline                                                          *)

\* The supervisor spawns the next turn of a chat once the process of the one
\* before is gone; run_inner dials and writes the turn frame.
StartTurn(c) ==
  /\ Len(chatOf) < MaxTurns
  /\ \A t \in Turns : chatOf[t] = c => process[t] # "running"
  /\ chatOf' = Append(chatOf, c) /\ process' = Append(process, "running")
  /\ printed' = Append(printed, <<>>)
  /\ conn' = Append(conn, "dialled") /\ queue' = Append(queue, <<>>)
  /\ left' = Append(left, MaxLines) /\ routed' = Append(routed, <<>>)
  /\ UNCHANGED <<table, slot, rows, sockets, gateway, linked, inFlight, crons, crowded>>

\* With the process go its socket, so what is in the queue, and the records
\* of its turn.
End(t, how) ==
  /\ process' = [process EXCEPT ![t] = how] /\ queue' = [queue EXCEPT ![t] = <<>>]
  /\ printed' = [printed EXCEPT ![t] = <<>>] /\ routed' = [routed EXCEPT ![t] = <<>>]
  /\ crowded' = crowded \ {t}
  /\ UNCHANGED <<chatOf, conn, table, slot, rows, sockets, plugin>>

\* A line off the socket: every envelope here is for our chat and not
\* proactive, so its event goes to stdout.
Relay(t) ==
  /\ process[t] = "running" /\ queue[t] # <<>> /\ ~Head(queue[t]).last
  /\ printed' = [printed EXCEPT ![t] = Append(@, Head(queue[t]))]
  /\ queue' = [queue EXCEPT ![t] = Tail(@)]
  /\ UNCHANGED <<chatOf, process, conn, table, slot, rows, sockets, plugin, routed, crowded>>

\* A terminal one ends the turn.
RelayLast(t) == process[t] = "running" /\ queue[t] # <<>> /\ Head(queue[t]).last /\ End(t, "done")

\* Mutant: a timeout for the start of the turn only.
IdleTimeoutAtStart(t) ==
  process[t] = "running" /\ queue[t] = <<>> /\ printed[t] = <<>> /\ End(t, "cut")

\* Nothing for ENVELOPE_IDLE_TIMEOUT: an error, whatever the plugin still does.
IdleTimeout(t) == process[t] = "running" /\ queue[t] = <<>> /\ End(t, "cut")

\* The supervisor's abort (/stop, or the chat's next message) is a SIGTERM,
\* which the trampoline does not handle.  (Its stop frame answers a SIGINT,
\* which the spawner never sends.)
Abort(t) == process[t] = "running" /\ End(t, "cut")

-----------------------------------------------------------------------------
(* The router                                                              *)

\* A turn frame for the plugin: try_send, and dropped without a plugin or room.
\* What goes to a link that is broken already is as good as dropped.
ForwardToPlugin(t) ==
  down' = IF linked /\ slot = Len(links) /\ Len(down) < Capacity
          THEN Append(down, t) ELSE down

\* handle_connection reads the turn frame: the connection is the trampoline
\* of the chat from now on, whoever was, and the frame goes to the plugin.
Register(t) ==
  /\ conn[t] = "dialled" /\ conn' = [conn EXCEPT ![t] = "registered"]
  /\ table' = [table EXCEPT ![chatOf[t]] = t]
  /\ ForwardToPlugin(t)
  /\ UNCHANGED <<trampolines, queue, slot, rows, links, wire, plugin, routed, crowded>>

\* Mutant: whoever has the place is removed.
UnregisteredAlways(t) == [table EXCEPT ![chatOf[t]] = None]

\* EOF: out of the table, unless a later trampoline has taken the place.
Unregistered(t) == IF table[chatOf[t]] = t THEN [table EXCEPT ![chatOf[t]] = None] ELSE table

Hangup(t) ==
  /\ conn[t] = "registered" /\ process[t] # "running"
  /\ conn' = [conn EXCEPT ![t] = "over"] /\ table' = Unregistered(t)
  /\ UNCHANGED <<trampolines, queue, slot, rows, sockets, plugin, routed, crowded>>

\* The hello of a link: it is the plugin from now on, whoever was.
PluginHello(k) ==
  /\ links[k] = "dialled"
  /\ links' = [links EXCEPT ![k] = "open"] /\ slot' = k
  /\ UNCHANGED <<trampolines, conn, queue, table, rows, down, wire, plugin, routed, crowded>>

PluginHangup(k) ==
  /\ links[k] = "open" /\ wire[k] = <<>> /\ ~(linked /\ k = Len(links))
  /\ links' = [links EXCEPT ![k] = "over"]
  /\ slot' = IF slot = k THEN None ELSE slot
  /\ UNCHANGED <<trampolines, conn, queue, table, rows, down, wire, plugin, routed, crowded>>

\* The trampoline an envelope goes to, None for nobody's.
Recipient(e) == table[e.chat]

\* route_plugin_envelope: a proactive one becomes an agent line if the mirror
\* has the chat, any other goes by its chat, if the queue has room.
RouteProactive(e) ==
  /\ e.of = None
  /\ rows' = IF e.chat \in Known THEN Append(rows, e) ELSE rows
  /\ UNCHANGED <<queue, routed, crowded>>

RouteEnvelope(e) ==
  /\ e.of # None
  /\ LET t == Recipient(e) IN
       IF t = None \/ process[t] # "running" THEN UNCHANGED <<queue, crowded>>
       ELSE IF Len(queue[t]) < Capacity
       THEN queue' = [queue EXCEPT ![t] = Append(@, e)] /\ UNCHANGED crowded
       ELSE crowded' = crowded \cup {t} /\ UNCHANGED queue
  /\ routed' = [routed EXCEPT ![e.of] = IF process[e.of] = "running" THEN Append(@, e) ELSE @]
  /\ UNCHANGED rows

Route(k) ==
  /\ links[k] = "open" /\ wire[k] # <<>>
  /\ RouteProactive(Head(wire[k])) \/ RouteEnvelope(Head(wire[k]))
  /\ wire' = [wire EXCEPT ![k] = Tail(@)]
  /\ UNCHANGED <<trampolines, conn, table, slot, links, down, plugin>>

\* spawn_gateway_supervisor starts the child, at once or after its backoff.
StartGateway ==
  /\ ~gateway /\ Len(links) < MaxLinks
  /\ gateway' = TRUE
  /\ UNCHANGED <<trampolines, router, sockets, linked, inFlight, left, crons, routed, crowded>>

-----------------------------------------------------------------------------
(* The plugin                                                              *)

\* _dial_once, with its hello.
Dial ==
  /\ gateway /\ ~linked /\ Len(links) < MaxLinks
  /\ linked' = TRUE /\ links' = Append(links, "dialled")
  /\ wire' = Append(wire, <<>>)
  /\ UNCHANGED <<trampolines, router, down, gateway, inFlight, left, crons, routed, crowded>>

\* The link breaks, or the gateway exits: the turns in flight are dropped,
\* and nothing more of them goes out, on this link or a later one.
Disconnect ==
  /\ linked /\ linked' = FALSE
  /\ gateway' \in {TRUE, FALSE}
  /\ inFlight' = [c \in Chats |-> None] /\ down' = <<>>
  /\ left' = [t \in Turns |-> IF conn[t] = "dialled" THEN left[t] ELSE 0]
  /\ UNCHANGED <<trampolines, router, links, wire, crons, routed, crowded>>

\* _dispatch_turn: the turn of a chat that has one in flight is refused.
Dispatch ==
  /\ linked /\ down # <<>>
  /\ LET t == Head(down) IN inFlight' = [inFlight EXCEPT ![chatOf[t]] = IF @ = None THEN t ELSE @]
  /\ down' = Tail(down)
  /\ UNCHANGED <<trampolines, router, links, wire, gateway, linked, left, crons, routed, crowded>>

Emit(e) == wire' = [wire EXCEPT ![Len(links)] = Append(@, e)]

\* The init event, text, calls and outputs.
Say(c) ==
  /\ linked /\ inFlight[c] # None /\ left[inFlight[c]] > 0
  /\ LET t == inFlight[c] IN
       /\ Emit(Envelope(t, MaxLines - left[t], FALSE))
       /\ left' = [left EXCEPT ![t] = @ - 1]
  /\ UNCHANGED <<trampolines, router, links, down, gateway, linked, inFlight, crons, routed, crowded>>

\* The result or error, and the turn is forgotten: asyncio runs the clean-up
\* before the reader can see another frame.
Finish(c) ==
  /\ linked /\ inFlight[c] # None
  /\ Emit(Envelope(inFlight[c], MaxLines, TRUE))
  /\ inFlight' = [inFlight EXCEPT ![c] = None]
  /\ left' = [left EXCEPT ![inFlight[c]] = 0]
  /\ UNCHANGED <<trampolines, router, links, down, gateway, linked, crons, routed, crowded>>

\* A cron job's delivery, over the plugin's link.  Bound: while the chat has a
\* turn in flight.
Send(c) ==
  /\ linked /\ crons < MaxCron /\ inFlight[c] # None
  /\ Emit(Proactive(c)) /\ crons' = crons + 1
  /\ UNCHANGED <<trampolines, router, links, down, gateway, linked, inFlight, left, routed, crowded>>

-----------------------------------------------------------------------------
TurnStep(t) ==
  Relay(t) \/ RelayLast(t) \/ IdleTimeout(t) \/ Abort(t) \/ Register(t) \/ Hangup(t)

LinkStep(k) == PluginHello(k) \/ PluginHangup(k) \/ Route(k)

ChatStep(c) == StartTurn(c) \/ Say(c) \/ Finish(c) \/ Send(c)

Next ==
  \/ \E t \in Turns : TurnStep(t)
  \/ \E k \in Links : LinkStep(k)
  \/ \E c \in Chats : ChatStep(c)
  \/ StartGateway \/ Dial \/ Disconnect \/ Dispatch

\* A process that runs reads its socket and its clock; the tasks of the
\* router are polled.  Nothing is assumed of the plugin.
Reads(t) == t \in Turns /\ (Relay(t) \/ RelayLast(t) \/ IdleTimeout(t))
Serves(t) == t \in Turns /\ (Register(t) \/ Hangup(t))
ServesLink(k) == k \in Links /\ LinkStep(k)

Spec ==
  /\ Init /\ [][Next]_vars
  /\ \A t \in 1..MaxTurns : WF_vars(Reads(t)) /\ WF_vars(Serves(t))
  /\ \A k \in 1..MaxLinks : WF_vars(ServesLink(k))

-----------------------------------------------------------------------------
(* Properties                                                              *)

\* The names the envelopes go by are those of the chats' newest connections.
TypeOK ==
  /\ chatOf \in Seq(Chats) /\ Len(process) = Len(chatOf) /\ Len(conn) = Len(chatOf)
  /\ \A t \in Turns : process[t] \in {"running", "done", "cut"}
                      /\ conn[t] \in {"dialled", "registered", "over"}
                      /\ Len(queue[t]) <= Capacity
  /\ table \in [Chats -> Turns \cup {None}] /\ slot \in Links \cup {None}
  /\ inFlight \in [Chats -> Turns \cup {None}] /\ crowded \subseteq Turns

Before(t) == {u \in Turns : u < t /\ chatOf[u] = chatOf[t]}

\* As long as no turn of a chat was cut short and no queue was full, a running
\* trampoline has printed, or has before it, exactly what the router had of
\* its own turn: nothing lost, doubled, out of order, of another turn, chat or
\* cron job, whichever connections come, go and are replaced in between
\* (socket_server.rs: same_channel in both clean-ups, routing by chat).
RelayIsExact ==
  \A t \in Turns :
    (process[t] = "running" /\ t \notin crowded /\ \A u \in Before(t) : process[u] = "done")
      => printed[t] \o queue[t] = routed[t]

\* Every turn's process ends: a lost turn frame, a full queue that drops the
\* result, a plugin that died and its successor that knows nothing of the turn
\* all end in the idle timeout (trampoline.rs:66-72).
EveryTurnEnds ==
  \A t \in 1..MaxTurns :
    (t \in Turns /\ process[t] = "running") ~> (t \in Turns /\ process[t] # "running")

\* A turn that ends cleanly ends with its own result.  The plugin relies on it
\* when it refuses a second turn of a chat (hermes_plugin/adapter.py:749-752).
EndsWithItsOwn ==
  [][\A t \in Turns : RelayLast(t) => Head(queue[t]).of = t]_vars
=============================================================================
