---------------------------- MODULE Hermes_proofs ----------------------------
(***************************************************************************)
(* Proofs about the hermes lane: its types, that a trampoline prints       *)
(* exactly what its turn said, and when a turn ends with its own result.   *)
(*                                                                         *)
(* A turn is called clean when every turn of its chat before it ended with *)
(* an envelope marked last.  The argument is that such an envelope leaves  *)
(* nothing behind: the plugin emits it after everything else of the turn   *)
(* and on the same link, so once the router has had it nothing of the turn *)
(* is on a wire, in flight or on the way to the plugin.  What comes for a  *)
(* clean chat is therefore of the turn that runs, and its connection has   *)
(* the chat's place in the table, because every earlier one was registered *)
(* before it could end and gives up its own place only.                    *)
(***************************************************************************)
EXTENDS Hermes, SequenceTheorems, TLAPS

Env == [chat : Chats, of : Nat, n : Int, last : BOOLEAN]

States == {"running", "done", "cut"}
Tasks == {"dialled", "registered", "over"}
LinkTasks == {"dialled", "open", "over"}

Types ==
  /\ chatOf \in Seq(Chats)
  /\ process \in Seq(States) /\ Len(process) = Len(chatOf)
  /\ conn \in Seq(Tasks) /\ Len(conn) = Len(chatOf)
  /\ queue \in Seq(Seq(Env)) /\ Len(queue) = Len(chatOf)
  /\ printed \in Seq(Seq(Env)) /\ Len(printed) = Len(chatOf)
  /\ routed \in Seq(Seq(Env)) /\ Len(routed) = Len(chatOf)
  /\ left \in Seq(Nat) /\ Len(left) = Len(chatOf)
  /\ table \in [Chats -> Turns \cup {None}]
  /\ inFlight \in [Chats -> Turns \cup {None}]
  /\ down \in Seq(Turns)
  /\ links \in Seq(LinkTasks)
  /\ wire \in Seq(Seq(Env)) /\ Len(wire) = Len(links)
  /\ slot \in Links \cup {None}
  /\ linked \in BOOLEAN /\ gateway \in BOOLEAN /\ (linked => links # <<>>)
  /\ crowded \subseteq Turns
  /\ \A t \in Turns : Len(queue[t]) <= Capacity

\* The turn that runs is the newest of its chat.
OneAtATime ==
  \A t, u \in Turns : process[t] = "running" /\ chatOf[u] = chatOf[t] => u <= t

\* A connection outlives its process, and is given nothing before it registers.
ConnInv ==
  \A t \in Turns :
    /\ process[t] = "running" => conn[t] # "over"
    /\ conn[t] = "dialled" => queue[t] = <<>>

TableInv ==
  \A c \in Chats : table[c] # None => chatOf[table[c]] = c /\ conn[table[c]] = "registered"

\* A turn comes to the plugin once, after it registered, and over an open link.
FlightInv ==
  /\ ~linked => down = <<>>
  /\ \A c \in Chats : inFlight[c] # None =>
       linked /\ chatOf[inFlight[c]] = c /\ conn[inFlight[c]] # "dialled"
  /\ \A i \in DOMAIN down : conn[down[i]] # "dialled" /\ \A c \in Chats : inFlight[c] # down[i]
  /\ \A i, j \in DOMAIN down : down[i] = down[j] => i = j

OnWire(t, k) == \E i \in DOMAIN wire[k] : wire[k][i].of = t

\* The envelopes of a turn are on one wire, the plugin's last while the turn is
\* in flight, and behind the one marked last there is none.
WireInv ==
  \A k \in Links : \A i \in DOMAIN wire[k] : LET t == wire[k][i].of IN
    t # None =>
      /\ t \in Turns /\ chatOf[t] = wire[k][i].chat /\ conn[t] # "dialled"
      /\ \A j \in DOMAIN down : down[j] # t
      /\ \A c \in Chats : inFlight[c] = t => k = Len(links) /\ ~wire[k][i].last
      /\ \A j \in DOMAIN wire[k] : wire[k][j].of = t /\ i < j => ~wire[k][i].last
      /\ \A l \in Links : l # k => ~OnWire(t, l)

\* Nothing of the turn is left at the plugin or on its way from it.
Absent(t) ==
  /\ \A k \in Links : ~OnWire(t, k)
  /\ \A c \in Chats : inFlight[c] # t
  /\ \A i \in DOMAIN down : down[i] # t

Clean(t) == \A u \in Before(t) : process[u] = "done"

CleanTurn(t) ==
  Clean(t) =>
    /\ process[t] = "done" => conn[t] # "dialled" /\ Absent(t)
    /\ process[t] = "running" =>
         /\ conn[t] = "registered" => table[chatOf[t]] = t
         /\ \A i \in DOMAIN queue[t] : queue[t][i].of = t /\ (queue[t][i].last => Absent(t))
         /\ t \notin crowded => printed[t] \o queue[t] = routed[t]

CleanInv == \A t \in Turns : CleanTurn(t)

-----------------------------------------------------------------------------
(* Types                                                                   *)

Facts ==
  /\ Len(chatOf) \in Nat /\ Turns = 1..Len(chatOf) /\ chatOf \in [Turns -> Chats]
  /\ process \in [Turns -> States] /\ conn \in [Turns -> Tasks]
  /\ queue \in [Turns -> Seq(Env)] /\ printed \in [Turns -> Seq(Env)]
  /\ routed \in [Turns -> Seq(Env)] /\ left \in [Turns -> Nat]
  /\ Len(links) \in Nat /\ Links = 1..Len(links)
  /\ wire \in [Links -> Seq(Env)]
  /\ Len(down) \in Nat /\ down \in [1..Len(down) -> Turns]
  /\ \A k \in Links : Len(wire[k]) \in Nat /\ wire[k] \in [1..Len(wire[k]) -> Env]
  /\ \A t \in Turns : /\ Len(queue[t]) \in Nat /\ queue[t] \in [1..Len(queue[t]) -> Env]

LEMMA TypesFacts == Types => Facts
<1> SUFFICES ASSUME Types PROVE Facts
  OBVIOUS
<1>1. Len(chatOf) \in Nat /\ Turns = 1..Len(chatOf) /\ chatOf \in [Turns -> Chats]
  BY LenProperties DEF Types, Turns
<1>2. process \in [Turns -> States] /\ conn \in [Turns -> Tasks] /\ left \in [Turns -> Nat]
  BY <1>1, LenProperties DEF Types
<1>3. queue \in [Turns -> Seq(Env)] /\ printed \in [Turns -> Seq(Env)]
  BY <1>1, LenProperties DEF Types
<1>4. routed \in [Turns -> Seq(Env)]
  BY <1>1, LenProperties DEF Types
<1>5. /\ Len(links) \in Nat /\ Links = 1..Len(links) /\ wire \in [Links -> Seq(Env)]
  BY LenProperties DEF Types, Links
<1>6. Len(down) \in Nat /\ down \in [1..Len(down) -> Turns]
  BY LenProperties DEF Types
<1>7. \A k \in Links : Len(wire[k]) \in Nat /\ wire[k] \in [1..Len(wire[k]) -> Env]
  BY <1>5, LenProperties
<1>8. \A t \in Turns : Len(queue[t]) \in Nat /\ queue[t] \in [1..Len(queue[t]) -> Env]
  BY <1>3, LenProperties
<1>9. QED
  BY <1>1, <1>2, <1>3, <1>4, <1>5, <1>6, <1>7, <1>8 DEF Facts

LEMMA InitTypes == Init => Types
<1> SUFFICES ASSUME Init PROVE Types
  OBVIOUS
<1>1. Turns = {} /\ Links = {}
  <2>1. DOMAIN <<>> = {}
    OBVIOUS
  <2>2. QED BY <2>1 DEF Init, Turns, Links
<1>2. \A S : <<>> \in Seq(S)
  BY EmptySeq
<1>3. Len(<<>>) = 0
  BY EmptySeq
<1>4. table \in [Chats -> {None}] /\ inFlight \in [Chats -> {None}]
  BY DEF Init
<1>5. QED
  BY <1>1, <1>2, <1>4 DEF Init, Types

\* Writing one entry of a sequence of turns.
LEMMA Write ==
  ASSUME NEW S, NEW s \in Seq(S), NEW i \in 1..Len(s), NEW e \in S
  PROVE  /\ [s EXCEPT ![i] = e] \in Seq(S) /\ Len([s EXCEPT ![i] = e]) = Len(s)
  BY ExceptSeq

\* One entry more.
LEMMA Grow ==
  ASSUME NEW S, NEW s \in Seq(S), NEW e \in S
  PROVE  /\ Append(s, e) \in Seq(S) /\ Len(s) \in Nat /\ Len(Append(s, e)) = Len(s) + 1
         /\ \A i \in 1..Len(s) + 1 : Append(s, e)[i] = IF i <= Len(s) THEN s[i] ELSE e
<1>1. Len(s) \in Nat
  BY LenProperties
<1>2. ASSUME NEW i \in 1..Len(s) + 1
      PROVE  Append(s, e)[i] = IF i <= Len(s) THEN s[i] ELSE e
  <2>1. CASE i \in 1..Len(s)
    BY <1>1, <2>1, AppendProperties
  <2>2. CASE i = Len(s) + 1
    BY <1>1, <2>2, AppendProperties
  <2>3. QED BY <1>1, <2>1, <2>2
<1>3. QED
  BY <1>1, <1>2, AppendProperties

LEMMA StartTurnTypes ==
  ASSUME Types, NEW c \in Chats, StartTurn(c)
  PROVE  Types'
<1>0. Len(chatOf) \in Nat
  BY TypesFacts DEF Facts
<1>1. /\ chatOf' \in Seq(Chats) /\ process' \in Seq(States) /\ conn' \in Seq(Tasks)
      /\ Len(chatOf') = Len(chatOf) + 1 /\ Len(process') = Len(chatOf')
      /\ Len(conn') = Len(chatOf')
  BY AppendProperties DEF Types, StartTurn, States, Tasks
<1>2. /\ queue' \in Seq(Seq(Env)) /\ Len(queue') = Len(chatOf')
      /\ printed' \in Seq(Seq(Env)) /\ Len(printed') = Len(chatOf')
      /\ routed' \in Seq(Seq(Env)) /\ Len(routed') = Len(chatOf')
  <2>1. <<>> \in Seq(Env)
    BY EmptySeq
  <2>2. QED BY <2>1, <1>1, AppendProperties DEF Types, StartTurn
<1>3. left' \in Seq(Nat) /\ Len(left') = Len(chatOf')
  BY <1>1, AppendProperties, HermesAssumption DEF Types, StartTurn
<1>4. Turns \subseteq Turns'
  BY <1>0, <1>1, LenProperties DEF Types, Turns
<1>5. down' \in Seq(Turns')
  BY <1>4, SeqMonotonic DEF Types, StartTurn, sockets
<1>6. \A t \in Turns' : Len(queue'[t]) <= Capacity
  <2>1. ASSUME NEW t \in Turns' PROVE Len(queue'[t]) <= Capacity
    <3>1. t \in 1..Len(chatOf) + 1
      BY <1>1, LenProperties DEF Turns
    <3>2. queue'[t] = IF t \in 1..Len(chatOf) THEN queue[t] ELSE <<>>
      <4>1. <<>> \in Seq(Env) BY EmptySeq
      <4>2. queue' = Append(queue, <<>>) /\ queue \in Seq(Seq(Env)) /\ Len(queue) = Len(chatOf)
        BY DEF Types, StartTurn
      <4>3. QED BY <1>0, <3>1, <4>1, <4>2, Grow
    <3>3. Turns = 1..Len(chatOf) /\ Capacity \in Nat /\ Len(<<>>) = 0
      BY TypesFacts, HermesAssumption, EmptySeq DEF Facts
    <3>4. QED BY <3>2, <3>3 DEF Types
  <2>2. QED BY <2>1
<1>7. QED
  <2>1. links' = links /\ wire' = wire /\ slot' = slot /\ linked' = linked /\ gateway' = gateway
        /\ table' = table /\ inFlight' = inFlight /\ crowded' = crowded
    BY DEF StartTurn, sockets
  <2>2. QED BY <1>1, <1>2, <1>3, <1>4, <1>5, <1>6, <2>1 DEF Types, Links

LEMMA EndTypes ==
  ASSUME Types, NEW t \in Turns, NEW how \in States, End(t, how)
  PROVE  Types'
<1>0. t \in 1..Len(chatOf) /\ <<>> \in Seq(Env)
  BY TypesFacts, EmptySeq DEF Facts
<1>1. process' \in Seq(States) /\ Len(process') = Len(chatOf)
  BY <1>0, Write DEF Types, End
<1>2. queue' \in Seq(Seq(Env)) /\ Len(queue') = Len(chatOf)
  BY <1>0, Write DEF Types, End
<1>3. printed' \in Seq(Seq(Env)) /\ Len(printed') = Len(chatOf)
  BY <1>0, Write DEF Types, End
<1>4. routed' \in Seq(Seq(Env)) /\ Len(routed') = Len(chatOf)
  BY <1>0, Write DEF Types, End
<1>5. \A u \in Turns : Len(queue'[u]) <= Capacity
  BY TypesFacts, EmptySeq, HermesAssumption DEF Types, End, Facts
<1>6. crowded' \subseteq crowded
  BY DEF End
<1>7. QED
  BY <1>1, <1>2, <1>3, <1>4, <1>5, <1>6 DEF Types, End, sockets, plugin, Turns, Links

LEMMA RelayTypes ==
  ASSUME Types, NEW t \in Turns, Relay(t)
  PROVE  Types'
<1>0. t \in 1..Len(chatOf) /\ queue[t] \in Seq(Env) /\ printed[t] \in Seq(Env)
  BY TypesFacts DEF Facts
<1>1. /\ Head(queue[t]) \in Env /\ Tail(queue[t]) \in Seq(Env)
      /\ Len(Tail(queue[t])) = Len(queue[t]) - 1 /\ Len(queue[t]) \in Nat
  BY <1>0, HeadTailProperties, LenProperties DEF Relay
<1>2. Append(printed[t], Head(queue[t])) \in Seq(Env)
  BY <1>0, <1>1, AppendProperties
<1>3. printed' \in Seq(Seq(Env)) /\ Len(printed') = Len(chatOf)
  BY <1>0, <1>2, Write DEF Types, Relay
<1>4. queue' \in Seq(Seq(Env)) /\ Len(queue') = Len(chatOf)
  BY <1>0, <1>1, Write DEF Types, Relay
<1>5. \A u \in Turns : Len(queue'[u]) <= Capacity
  BY <1>1, TypesFacts, HermesAssumption DEF Types, Relay, Facts
<1>6. QED
  BY <1>3, <1>4, <1>5 DEF Types, Relay, sockets, plugin, Turns, Links

LEMMA RegisterTypes ==
  ASSUME Types, NEW t \in Turns, Register(t)
  PROVE  Types'
<1>0. t \in 1..Len(chatOf) /\ chatOf[t] \in Chats
  BY TypesFacts DEF Facts
<1>1. conn' \in Seq(Tasks) /\ Len(conn') = Len(chatOf)
  BY <1>0, Write DEF Types, Register, Tasks
<1>2. table' \in [Chats -> Turns \cup {None}]
  BY <1>0 DEF Types, Register
<1>3. down' \in Seq(Turns)
  BY AppendProperties DEF Types, Register, ForwardToPlugin
<1>4. QED
  BY <1>1, <1>2, <1>3 DEF Types, Register, trampolines, plugin, Turns, Links

LEMMA HangupTypes ==
  ASSUME Types, NEW t \in Turns, Hangup(t)
  PROVE  Types'
<1>0. t \in 1..Len(chatOf) /\ chatOf[t] \in Chats
  BY TypesFacts DEF Facts
<1>1. conn' \in Seq(Tasks) /\ Len(conn') = Len(chatOf)
  BY <1>0, Write DEF Types, Hangup, Tasks
<1>2. table' \in [Chats -> Turns \cup {None}]
  BY <1>0 DEF Types, Hangup, Unregistered
<1>4. QED
  BY <1>1, <1>2 DEF Types, Hangup, trampolines, sockets, plugin, Turns, Links

LEMMA LinkTypes ==
  ASSUME Types, NEW k \in Links, PluginHello(k) \/ PluginHangup(k)
  PROVE  Types'
<1>0. k \in 1..Len(links)
  BY LenProperties DEF Types, Links
<1>1. links' \in Seq(LinkTasks) /\ Len(links') = Len(links)
  <2>1. links' = [links EXCEPT ![k] = "open"] \/ links' = [links EXCEPT ![k] = "over"]
    BY DEF PluginHello, PluginHangup
  <2>2. "open" \in LinkTasks /\ "over" \in LinkTasks
    BY DEF LinkTasks
  <2>3. links \in Seq(LinkTasks)
    BY DEF Types
  <2>4. \A x \in LinkTasks : /\ [links EXCEPT ![k] = x] \in Seq(LinkTasks)
                             /\ Len([links EXCEPT ![k] = x]) = Len(links)
    BY <1>0, <2>3, Write
  <2>5. QED BY <2>1, <2>2, <2>4
<1>2. Links' = Links
  BY <1>1, LenProperties DEF Types, Links
<1>3. slot' \in Links' \cup {None} /\ (linked' => links' # <<>>)
  BY <1>1, <1>2, EmptySeq DEF Types, PluginHello, PluginHangup, plugin
<1>4. QED
  BY <1>1, <1>2, <1>3 DEF Types, PluginHello, PluginHangup, trampolines, plugin, Turns, Links

LEMMA RouteTypes ==
  ASSUME Types, NEW k \in Links, Route(k)
  PROVE  Types'
<1>0. k \in 1..Len(links) /\ wire[k] \in Seq(Env)
  BY TypesFacts DEF Facts
<1>1. Head(wire[k]) \in Env /\ Tail(wire[k]) \in Seq(Env)
  BY <1>0, HeadTailProperties DEF Route
<1>2. wire' \in Seq(Seq(Env)) /\ Len(wire') = Len(links)
  BY <1>0, <1>1, Write DEF Types, Route
<1>3. CASE RouteProactive(Head(wire[k]))
  BY <1>2, <1>3 DEF Types, Route, RouteProactive, trampolines, plugin, Turns, Links
<1>4. CASE RouteEnvelope(Head(wire[k]))
  <2> DEFINE e == Head(wire[k])
             t == Recipient(e)
  <2>0. e.chat \in Chats
    BY <1>1 DEF Env
  <2>1. t = None \/ t \in Turns
    BY <2>0 DEF Types, Recipient
  <2>2. /\ queue' \in Seq(Seq(Env)) /\ Len(queue') = Len(chatOf)
        /\ \A u \in Turns : Len(queue'[u]) <= Capacity
        /\ crowded' \subseteq Turns
    <3>1. CASE UNCHANGED <<queue, crowded>>
      BY <3>1 DEF Types
    <3>2. CASE t \in Turns /\ Len(queue[t]) < Capacity
               /\ queue' = [queue EXCEPT ![t] = Append(@, e)] /\ UNCHANGED crowded
      <4>1. Append(queue[t], e) \in Seq(Env) /\ Len(Append(queue[t], e)) = Len(queue[t]) + 1
        BY <1>1, <3>2, TypesFacts, AppendProperties DEF Facts
      <4>2. t \in 1..Len(queue)
        BY <3>2, TypesFacts DEF Facts, Types
      <4>3. queue' \in Seq(Seq(Env)) /\ Len(queue') = Len(chatOf)
        BY <3>2, <4>1, <4>2, Write DEF Types
      <4>4. \A u \in Turns : Len(queue'[u]) <= Capacity
        <5> HIDE DEF t, e
        <5>1. queue \in [Turns -> Seq(Env)] /\ Len(queue[t]) \in Nat
          BY <3>2, TypesFacts DEF Facts
        <5>2. Capacity \in Nat
          BY HermesAssumption
        <5>3. ASSUME NEW u \in Turns PROVE queue'[u] = IF u = t THEN Append(queue[t], e) ELSE queue[u]
          BY <3>2, <5>1
        <5>4. QED BY <3>2, <4>1, <5>1, <5>2, <5>3 DEF Types
      <4>5. QED BY <3>2, <4>3, <4>4 DEF Types
    <3>3. CASE t \in Turns /\ crowded' = crowded \cup {t} /\ UNCHANGED queue
      BY <3>3 DEF Types
    <3>4. QED
      BY <1>4, <2>1, <3>1, <3>2, <3>3 DEF RouteEnvelope, None
  <2>3. routed' \in Seq(Seq(Env)) /\ Len(routed') = Len(chatOf)
    <3> DEFINE x == IF process[e.of] = "running" THEN Append(routed[e.of], e) ELSE routed[e.of]
    <3>1. routed' = [routed EXCEPT ![e.of] = x]
      BY <1>4 DEF RouteEnvelope
    <3>2. CASE e.of \in 1..Len(routed)
      <4>1. routed[e.of] \in Seq(Env)
        BY <3>2, TypesFacts DEF Facts, Types
      <4>2. x \in Seq(Env)
        BY <4>1, <1>1, AppendProperties
      <4> HIDE DEF x
      <4>3. QED BY <3>1, <3>2, <4>2, Write DEF Types
    <3>3. CASE e.of \notin 1..Len(routed)
      <4>1. DOMAIN routed = 1..Len(routed)
        BY LenProperties DEF Types
      <4> HIDE DEF x
      <4>2. routed \in [1..Len(routed) -> Seq(Env)]
        BY LenProperties DEF Types
      <4>3. routed' = routed
        BY <3>1, <3>3, <4>2
      <4>4. QED BY <4>3 DEF Types
    <3>4. QED BY <3>2, <3>3
  <2>4. QED
    BY <1>2, <2>2, <2>3 DEF Types, Route, trampolines, plugin, Turns, Links
<1>5. QED
  BY <1>3, <1>4 DEF Route

LEMMA DialTypes ==
  ASSUME Types, Dial
  PROVE  Types'
<1>0. Len(links) \in Nat
  BY TypesFacts DEF Facts
<1>1. links' \in Seq(LinkTasks) /\ Len(links') = Len(links) + 1
  BY AppendProperties DEF Types, Dial, LinkTasks
<1>2. wire' \in Seq(Seq(Env)) /\ Len(wire') = Len(links) + 1
  <2>1. <<>> \in Seq(Env)
    BY EmptySeq
  <2>2. QED BY <2>1, AppendProperties DEF Types, Dial
<1>3. Links \subseteq Links' /\ links' # <<>>
  BY <1>0, <1>1, LenProperties, EmptySeq DEF Types, Links
<1>4. QED
  BY <1>1, <1>2, <1>3 DEF Types, Dial, trampolines, router, Turns

LEMMA DisconnectTypes ==
  ASSUME Types, Disconnect
  PROVE  Types'
<1>1. left' \in Seq(Nat) /\ Len(left') = Len(chatOf)
  <2>1. left' = [t \in 1..Len(chatOf) |-> IF conn[t] = "dialled" THEN left[t] ELSE 0]
    BY TypesFacts DEF Facts, Disconnect
  <2>2. \A t \in 1..Len(chatOf) : (IF conn[t] = "dialled" THEN left[t] ELSE 0) \in Nat
    BY TypesFacts DEF Facts
  <2>3. left' \in [1..Len(chatOf) -> Nat] /\ Len(chatOf) \in Nat
    BY <2>1, <2>2, TypesFacts DEF Facts
  <2>4. left' \in Seq(Nat)
    BY <2>3, SeqDef
  <2>5. QED BY <2>3, <2>4, LenProperties
<1>2. down' \in Seq(Turns)
  BY EmptySeq DEF Disconnect
<1>3. inFlight' \in [Chats -> Turns \cup {None}]
  BY DEF Disconnect
<1>4. QED
  BY <1>1, <1>2, <1>3 DEF Types, Disconnect, trampolines, router, Turns, Links

LEMMA DispatchTypes ==
  ASSUME Types, Dispatch
  PROVE  Types'
<1>1. Head(down) \in Turns /\ Tail(down) \in Seq(Turns)
  BY HeadTailProperties DEF Types, Dispatch
<1>2. inFlight' \in [Chats -> Turns \cup {None}]
  BY <1>1 DEF Types, Dispatch
<1>4. QED
  BY <1>1, <1>2 DEF Types, Dispatch, trampolines, router, Turns, Links

\* What the plugin does to its link: an envelope more on the last wire.
LEMMA EmitTypes ==
  ASSUME Types, linked, NEW e \in Env, Emit(e)
  PROVE  /\ wire' \in Seq(Seq(Env)) /\ Len(wire') = Len(links)
         /\ Len(links) \in Links
<1>1. Len(links) \in 1..Len(links)
  BY EmptySeq, LenProperties, ConcatProperties DEF Types
<1>2. wire[Len(links)] \in Seq(Env)
  BY <1>1, TypesFacts DEF Facts
<1>3. Append(wire[Len(links)], e) \in Seq(Env)
  BY <1>2, AppendProperties
<1>4. QED
  BY <1>1, <1>3, Write, TypesFacts DEF Types, Emit, Facts

LEMMA SayTypes ==
  ASSUME Types, NEW c \in Chats, Say(c)
  PROVE  Types'
<1> DEFINE t == inFlight[c]
<1>1. t \in Turns
  BY DEF Types, Say
<1>2. left[t] \in Nat /\ left[t] > 0 /\ chatOf[t] \in Chats /\ t \in Nat
  BY <1>1, TypesFacts DEF Facts, Say
<1>3. Envelope(t, MaxLines - left[t], FALSE) \in Env
  BY <1>2, HermesAssumption DEF Envelope, Env
<1>4. wire' \in Seq(Seq(Env)) /\ Len(wire') = Len(links)
  BY <1>3, EmitTypes DEF Say
<1>5. left' \in Seq(Nat) /\ Len(left') = Len(chatOf)
  <2>0. Turns = 1..Len(left)
    BY TypesFacts DEF Facts, Types
  <2>1. t \in 1..Len(left) /\ left[t] - 1 \in Nat
    BY <1>1, <1>2, <2>0
  <2> HIDE DEF t
  <2>2. left' = [left EXCEPT ![t] = left[t] - 1]
    BY DEF Say, t
  <2>3. QED BY <2>1, <2>2, Write DEF Types
<1>6. QED
  BY <1>4, <1>5 DEF Types, Say, trampolines, router, Turns, Links

LEMMA FinishTypes ==
  ASSUME Types, NEW c \in Chats, Finish(c)
  PROVE  Types'
<1> DEFINE t == inFlight[c]
<1>1. t \in Turns
  BY DEF Types, Finish
<1>2. chatOf[t] \in Chats /\ t \in Nat
  BY <1>1, TypesFacts DEF Facts
<1>3. Envelope(t, MaxLines, TRUE) \in Env
  BY <1>2, HermesAssumption DEF Envelope, Env
<1>4. wire' \in Seq(Seq(Env)) /\ Len(wire') = Len(links)
  BY <1>3, EmitTypes DEF Finish
<1>5. left' \in Seq(Nat) /\ Len(left') = Len(chatOf)
  <2>1. t \in 1..Len(left)
    BY <1>1, <1>2, TypesFacts DEF Facts, Types
  <2> HIDE DEF t
  <2>2. left' = [left EXCEPT ![t] = 0]
    BY DEF Finish, t
  <2>3. QED BY <2>1, <2>2, Write DEF Types
<1>6. inFlight' \in [Chats -> Turns \cup {None}]
  BY DEF Types, Finish
<1>7. QED
  BY <1>4, <1>5, <1>6 DEF Types, Finish, trampolines, router, Turns, Links

LEMMA SendTypes ==
  ASSUME Types, NEW c \in Chats, Send(c)
  PROVE  Types'
<1>1. Proactive(c) \in Env
  BY DEF Proactive, Env, None
<1>2. wire' \in Seq(Seq(Env)) /\ Len(wire') = Len(links)
  BY <1>1, EmitTypes DEF Send
<1>3. QED
  BY <1>2 DEF Types, Send, trampolines, router, Turns, Links

LEMMA StepTypes == Types /\ [Next]_vars => Types'
<1> SUFFICES ASSUME Types, [Next]_vars PROVE Types'
  OBVIOUS
<1>1. ASSUME NEW t \in Turns, TurnStep(t) PROVE Types'
  <2>1. CASE Relay(t)
    BY <2>1, RelayTypes
  <2>2. ASSUME NEW how \in States, End(t, how) PROVE Types'
    BY <2>2, EndTypes
  <2>3. RelayLast(t) \/ IdleTimeout(t) \/ Abort(t) => \E how \in States : End(t, how)
    BY DEF RelayLast, IdleTimeout, Abort, States
  <2>4. QED
    BY <1>1, <2>1, <2>2, <2>3, RegisterTypes, HangupTypes DEF TurnStep
<1>2. ASSUME NEW k \in Links, LinkStep(k) PROVE Types'
  BY <1>2, LinkTypes, RouteTypes DEF LinkStep
<1>3. ASSUME NEW c \in Chats, ChatStep(c) PROVE Types'
  BY <1>3, StartTurnTypes, SayTypes, FinishTypes, SendTypes DEF ChatStep
<1>4. CASE StartGateway
  BY <1>4 DEF Types, StartGateway, trampolines, router, sockets, Turns, Links
<1>5. CASE UNCHANGED vars
  BY <1>5 DEF Types, vars, trampolines, router, sockets, plugin, Turns, Links
<1>6. QED
  BY <1>1, <1>2, <1>3, <1>4, <1>5, DialTypes, DisconnectTypes, DispatchTypes DEF Next

\* What is on the way and in the tables of router and plugin is of turns that
\* there are, and no queue is longer than the code lets it be.
THEOREM TypeCorrect == Spec => []TypeOK
<1>1. Types => TypeOK
  BY TypesFacts DEF Types, Facts, TypeOK, States, Tasks
<1>2. QED
  BY <1>1, InitTypes, StepTypes, PTL DEF Spec

-----------------------------------------------------------------------------
(* What the steps do to the sequences, entry by entry                      *)

LEMMA StartTurnFacts ==
  ASSUME Types, NEW c \in Chats, StartTurn(c)
  PROVE  LET N == Len(chatOf) IN
           /\ N \in Nat /\ Turns = 1..N /\ Turns' = 1..N + 1
           /\ \A t \in 1..N + 1 :
                /\ chatOf'[t] = IF t <= N THEN chatOf[t] ELSE c
                /\ process'[t] = IF t <= N THEN process[t] ELSE "running"
                /\ conn'[t] = IF t <= N THEN conn[t] ELSE "dialled"
                /\ queue'[t] = IF t <= N THEN queue[t] ELSE <<>>
                /\ printed'[t] = IF t <= N THEN printed[t] ELSE <<>>
                /\ routed'[t] = IF t <= N THEN routed[t] ELSE <<>>
<1> DEFINE N == Len(chatOf)
<1>0. N \in Nat /\ Turns = 1..N /\ <<>> \in Seq(Env)
  BY TypesFacts, EmptySeq DEF Facts
<1>1. Turns' = 1..N + 1 /\ \A t \in 1..N + 1 : chatOf'[t] = IF t <= N THEN chatOf[t] ELSE c
  <2>1. chatOf' = Append(chatOf, c) /\ chatOf \in Seq(Chats)
    BY DEF Types, StartTurn
  <2>2. QED BY <2>1, Grow, LenProperties DEF Turns
<1>2. \A t \in 1..N + 1 : process'[t] = IF t <= N THEN process[t] ELSE "running"
  <2>1. process' = Append(process, "running") /\ process \in Seq(States) /\ Len(process) = N
    BY DEF Types, StartTurn
  <2>2. "running" \in States
    BY DEF States
  <2>3. QED BY <2>1, <2>2, Grow
<1>3. \A t \in 1..N + 1 : conn'[t] = IF t <= N THEN conn[t] ELSE "dialled"
  <2>1. conn' = Append(conn, "dialled") /\ conn \in Seq(Tasks) /\ Len(conn) = N
    BY DEF Types, StartTurn
  <2>2. "dialled" \in Tasks
    BY DEF Tasks
  <2>3. QED BY <2>1, <2>2, Grow
<1>4. \A t \in 1..N + 1 : queue'[t] = IF t <= N THEN queue[t] ELSE <<>>
  <2>1. queue' = Append(queue, <<>>) /\ queue \in Seq(Seq(Env)) /\ Len(queue) = N
    BY DEF Types, StartTurn
  <2>2. QED BY <1>0, <2>1, Grow
<1>5. \A t \in 1..N + 1 : printed'[t] = IF t <= N THEN printed[t] ELSE <<>>
  <2>1. printed' = Append(printed, <<>>) /\ printed \in Seq(Seq(Env)) /\ Len(printed) = N
    BY DEF Types, StartTurn
  <2>2. QED BY <1>0, <2>1, Grow
<1>6. \A t \in 1..N + 1 : routed'[t] = IF t <= N THEN routed[t] ELSE <<>>
  <2>1. routed' = Append(routed, <<>>) /\ routed \in Seq(Seq(Env)) /\ Len(routed) = N
    BY DEF Types, StartTurn
  <2>2. QED BY <1>0, <2>1, Grow
<1>7. QED
  BY <1>0, <1>1, <1>2, <1>3, <1>4, <1>5, <1>6

LEMMA StartTurnSame ==
  ASSUME NEW c \in Chats, StartTurn(c)
  PROVE  /\ table' = table /\ inFlight' = inFlight /\ down' = down /\ links' = links
         /\ wire' = wire /\ linked' = linked /\ crowded' = crowded
         /\ \A t \in Turns : chatOf[t] = c => process[t] # "running"
  BY DEF StartTurn, sockets

LEMMA EndFacts ==
  ASSUME Types, NEW t \in Turns, NEW how \in States, End(t, how)
  PROVE  /\ process' = [process EXCEPT ![t] = how]
         /\ \A u \in Turns : /\ process'[u] = IF u = t THEN how ELSE process[u]
                             /\ queue'[u] = IF u = t THEN <<>> ELSE queue[u]
                             /\ printed'[u] = IF u = t THEN <<>> ELSE printed[u]
                             /\ routed'[u] = IF u = t THEN <<>> ELSE routed[u]
         /\ chatOf' = chatOf /\ conn' = conn /\ table' = table /\ inFlight' = inFlight
         /\ down' = down /\ links' = links /\ wire' = wire /\ linked' = linked
         /\ Turns' = Turns /\ Links' = Links /\ crowded' = crowded \ {t}
<1>1. /\ process' = [process EXCEPT ![t] = how] /\ queue' = [queue EXCEPT ![t] = <<>>]
      /\ printed' = [printed EXCEPT ![t] = <<>>] /\ routed' = [routed EXCEPT ![t] = <<>>]
  BY DEF End
<1>2. QED
  BY <1>1, TypesFacts DEF Facts, End, sockets, plugin, Turns, Links

LEMMA RegisterFacts ==
  ASSUME Types, NEW t \in Turns, Register(t)
  PROVE  /\ conn[t] = "dialled" /\ conn' = [conn EXCEPT ![t] = "registered"]
         /\ table' = [table EXCEPT ![chatOf[t]] = t]
         /\ \A u \in Turns : conn'[u] = IF u = t THEN "registered" ELSE conn[u]
         /\ \/ down' = down
            \/ /\ linked /\ Len(down') = Len(down) + 1
               /\ \A i \in 1..Len(down) + 1 : down'[i] = IF i <= Len(down) THEN down[i] ELSE t
         /\ chatOf' = chatOf /\ process' = process /\ printed' = printed /\ queue' = queue
         /\ inFlight' = inFlight /\ links' = links /\ wire' = wire /\ linked' = linked
         /\ routed' = routed /\ crowded' = crowded
         /\ Turns' = Turns /\ Links' = Links
<1>1. /\ conn[t] = "dialled" /\ conn' = [conn EXCEPT ![t] = "registered"]
      /\ table' = [table EXCEPT ![chatOf[t]] = t]
      /\ chatOf' = chatOf /\ process' = process /\ printed' = printed /\ queue' = queue
      /\ inFlight' = inFlight /\ links' = links /\ wire' = wire /\ linked' = linked
      /\ routed' = routed /\ crowded' = crowded
      /\ down' = down \/ (linked /\ down' = Append(down, t))
  BY DEF Register, ForwardToPlugin, trampolines, plugin
<1>2. \A u \in Turns : conn'[u] = IF u = t THEN "registered" ELSE conn[u]
  BY <1>1, TypesFacts DEF Facts
<1>3. down \in Seq(Turns)
  BY DEF Types
<1>4. CASE linked /\ down' = Append(down, t)
  BY <1>1, <1>2, <1>3, <1>4, Grow DEF Turns, Links
<1>5. CASE down' = down
  BY <1>1, <1>2, <1>5 DEF Turns, Links
<1>6. QED
  BY <1>1, <1>4, <1>5

LEMMA HangupFacts ==
  ASSUME Types, NEW t \in Turns, Hangup(t)
  PROVE  /\ conn[t] = "registered" /\ process[t] # "running"
         /\ \A u \in Turns : conn'[u] = IF u = t THEN "over" ELSE conn[u]
         /\ \A c \in Chats : table'[c] = table[c] \/ (c = chatOf[t] /\ table[c] = t /\ table'[c] = None)
         /\ table[chatOf[t]] = t => table'[chatOf[t]] = None
         /\ chatOf' = chatOf /\ process' = process /\ printed' = printed /\ queue' = queue
         /\ inFlight' = inFlight /\ links' = links /\ wire' = wire /\ linked' = linked
         /\ down' = down /\ routed' = routed /\ crowded' = crowded
         /\ Turns' = Turns /\ Links' = Links
<1>1. conn' = [conn EXCEPT ![t] = "over"] /\ table' = Unregistered(t) /\ chatOf[t] \in Chats
  BY TypesFacts DEF Hangup, Facts
<1>2. \A u \in Turns : conn'[u] = IF u = t THEN "over" ELSE conn[u]
  BY <1>1, TypesFacts DEF Facts
<1>3. /\ \A c \in Chats : table'[c] = table[c] \/ (c = chatOf[t] /\ table[c] = t /\ table'[c] = None)
      /\ table[chatOf[t]] = t => table'[chatOf[t]] = None
  BY <1>1 DEF Types, Unregistered
<1>4. QED
  BY <1>2, <1>3 DEF Hangup, trampolines, sockets, plugin, Turns, Links

LEMMA RouteFacts ==
  ASSUME Types, NEW k \in Links, Route(k)
  PROVE  /\ Len(wire[k]) \in Nat \ {0} /\ wire[k][1] = Head(wire[k]) /\ Head(wire[k]) \in Env
         /\ Len(wire'[k]) = Len(wire[k]) - 1
         /\ \A i \in 1..Len(wire[k]) - 1 : wire'[k][i] = wire[k][i + 1]
         /\ DOMAIN wire'[k] = 1..Len(wire[k]) - 1
         /\ \A l \in Links : l # k => wire'[l] = wire[l]
         /\ chatOf' = chatOf /\ process' = process /\ printed' = printed /\ conn' = conn
         /\ table' = table /\ inFlight' = inFlight /\ links' = links /\ linked' = linked
         /\ down' = down /\ Turns' = Turns /\ Links' = Links
<1>1. wire[k] \in Seq(Env) /\ wire[k] # <<>> /\ wire' = [wire EXCEPT ![k] = Tail(wire[k])]
  BY TypesFacts DEF Facts, Route
<1>2. /\ Head(wire[k]) \in Env /\ Tail(wire[k]) \in Seq(Env) /\ Len(Tail(wire[k])) = Len(wire[k]) - 1
      /\ \A i \in 1..Len(Tail(wire[k])) : Tail(wire[k])[i] = wire[k][i + 1]
      /\ Head(wire[k]) = wire[k][1] /\ Len(wire[k]) \in Nat \ {0}
  BY <1>1, HeadTailProperties, EmptySeq
<1>3. wire'[k] = Tail(wire[k]) /\ \A l \in Links : l # k => wire'[l] = wire[l]
  BY <1>1, TypesFacts DEF Facts
<1>4. DOMAIN wire'[k] = 1..Len(wire[k]) - 1
  BY <1>2, <1>3, LenProperties
<1>5. QED
  BY <1>2, <1>3, <1>4 DEF Route, trampolines, plugin, Turns, Links

LEMMA EmitFacts ==
  ASSUME Types, linked, NEW e \in Env, Emit(e)
  PROVE  LET k == Len(links) IN
           /\ k \in Links /\ Len(wire[k]) \in Nat
           /\ DOMAIN wire'[k] = 1..Len(wire[k]) + 1
           /\ \A i \in 1..Len(wire[k]) + 1 : wire'[k][i] = IF i <= Len(wire[k]) THEN wire[k][i] ELSE e
           /\ \A l \in Links : l # k => wire'[l] = wire[l]
<1> DEFINE k == Len(links)
<1>1. k \in Links
  BY EmitTypes
<1>2. wire[k] \in Seq(Env) /\ wire' = [wire EXCEPT ![k] = Append(wire[k], e)]
  BY <1>1, TypesFacts DEF Facts, Emit
<1>3. wire'[k] = Append(wire[k], e) /\ \A l \in Links : l # k => wire'[l] = wire[l]
  BY <1>1, <1>2, TypesFacts DEF Facts
<1>4. /\ Append(wire[k], e) \in Seq(Env) /\ Len(wire[k]) \in Nat /\ Len(Append(wire[k], e)) = Len(wire[k]) + 1
      /\ \A i \in 1..Len(wire[k]) + 1 : Append(wire[k], e)[i] = IF i <= Len(wire[k]) THEN wire[k][i] ELSE e
  BY <1>2, Grow
<1>5. DOMAIN wire'[k] = 1..Len(wire[k]) + 1
  BY <1>3, <1>4, LenProperties
<1>6. QED
  BY <1>1, <1>3, <1>4, <1>5

LEMMA DispatchFacts ==
  ASSUME Types, Dispatch
  PROVE  /\ linked /\ Len(down) \in Nat \ {0} /\ down[1] \in Turns
         /\ Len(down') = Len(down) - 1 /\ DOMAIN down' = 1..Len(down) - 1
         /\ \A i \in 1..Len(down) - 1 : down'[i] = down[i + 1]
         /\ \A c \in Chats : inFlight'[c] = IF c = chatOf[down[1]] /\ inFlight[c] = None
                                            THEN down[1] ELSE inFlight[c]
         /\ chatOf' = chatOf /\ process' = process /\ printed' = printed /\ conn' = conn
         /\ queue' = queue /\ table' = table /\ links' = links /\ linked' = linked
         /\ wire' = wire /\ routed' = routed /\ crowded' = crowded
         /\ Turns' = Turns /\ Links' = Links
<1>1. down \in Seq(Turns) /\ down # <<>>
  BY DEF Types, Dispatch
<1>2. /\ Head(down) \in Turns /\ Tail(down) \in Seq(Turns) /\ Len(Tail(down)) = Len(down) - 1
      /\ \A i \in 1..Len(Tail(down)) : Tail(down)[i] = down[i + 1]
      /\ Head(down) = down[1] /\ Len(down) \in Nat \ {0}
  BY <1>1, HeadTailProperties, EmptySeq
<1>3. DOMAIN Tail(down) = 1..Len(down) - 1
  BY <1>2, LenProperties
<1>4. \A c \in Chats : inFlight'[c] = IF c = chatOf[down[1]] /\ inFlight[c] = None
                                      THEN down[1] ELSE inFlight[c]
  BY <1>2 DEF Types, Dispatch
<1>5. QED
  BY <1>2, <1>3, <1>4 DEF Dispatch, trampolines, router, Turns, Links

LEMMA DialFacts ==
  ASSUME Types, Dial
  PROVE  \A k \in Links' : DOMAIN wire'[k] # {} => k \in Links /\ wire'[k] = wire[k]
<1> DEFINE N == Len(links)
<1>1. wire' = Append(wire, <<>>) /\ wire \in Seq(Seq(Env)) /\ Len(wire) = N
  BY DEF Types, Dial
<1>2. links' = Append(links, "dialled") /\ links \in Seq(LinkTasks) /\ "dialled" \in LinkTasks
  BY DEF Types, Dial, LinkTasks
<1>3. links' \in Seq(LinkTasks) /\ Len(links') = N + 1 /\ N \in Nat
  BY <1>2, Grow
<1>4. \A k \in 1..N + 1 : wire'[k] = IF k <= N THEN wire[k] ELSE <<>>
  <2>1. <<>> \in Seq(Env)
    BY EmptySeq
  <2>2. QED BY <1>1, <2>1, Grow
<1>5. Links = 1..N /\ Links' = 1..N + 1
  BY <1>2, <1>3, LenProperties DEF Links
<1>6. DOMAIN <<>> = {}
  OBVIOUS
<1> HIDE DEF N
<1>7. QED
  BY <1>3, <1>4, <1>5, <1>6

-----------------------------------------------------------------------------
(* One turn of a chat at a time, and one place for it                      *)

Base == Types /\ OneAtATime /\ ConnInv /\ TableInv /\ FlightInv

LEMMA NoneIsNoTurn == Types => None \notin Turns
  BY TypesFacts DEF Facts, None

LEMMA InitBase == Init => Base
<1> SUFFICES ASSUME Init PROVE Base
  OBVIOUS
<1>1. Turns = {} /\ DOMAIN down = {}
  <2>1. DOMAIN <<>> = {}
    OBVIOUS
  <2>2. QED BY <2>1 DEF Init, Turns
<1>2. QED
  BY <1>1, InitTypes DEF Init, Base, OneAtATime, ConnInv, TableInv, FlightInv, None

LEMMA StartTurnBase ==
  ASSUME Base, NEW c \in Chats, StartTurn(c), Types'
  PROVE  Base'
<1> DEFINE N == Len(chatOf)
<1>1. /\ N \in Nat /\ Turns = 1..N /\ Turns' = 1..N + 1
      /\ \A t \in 1..N + 1 : /\ chatOf'[t] = IF t <= N THEN chatOf[t] ELSE c
                             /\ process'[t] = IF t <= N THEN process[t] ELSE "running"
                             /\ conn'[t] = IF t <= N THEN conn[t] ELSE "dialled"
                             /\ queue'[t] = IF t <= N THEN queue[t] ELSE <<>>
  BY StartTurnFacts DEF Base
<1> HIDE DEF N
<1>2. /\ table' = table /\ inFlight' = inFlight /\ down' = down /\ linked' = linked
      /\ \A t \in Turns : chatOf[t] = c => process[t] # "running"
  BY StartTurnSame
<1>3. OneAtATime'
  BY <1>1, <1>2 DEF Base, OneAtATime
<1>4. ConnInv'
  BY <1>1 DEF Base, ConnInv
<1>5. \A t \in Turns : chatOf'[t] = chatOf[t] /\ conn'[t] = conn[t]
  BY <1>1
<1>6. TableInv'
  <2>1. \A d \in Chats : table[d] # None => table[d] \in Turns
    BY DEF Base, Types
  <2>2. QED BY <1>2, <1>5, <2>1 DEF Base, TableInv
<1>7. FlightInv'
  <2>1. \A i \in DOMAIN down : down[i] \in Turns
    BY LenProperties DEF Base, Types
  <2>2. QED BY <1>2, <1>5, <2>1 DEF Base, FlightInv, Types
<1>8. QED
  BY <1>3, <1>4, <1>6, <1>7 DEF Base

LEMMA EndBase ==
  ASSUME Base, NEW t \in Turns, NEW how \in {"done", "cut"}, End(t, how), Types'
  PROVE  Base'
<1>1. /\ \A u \in Turns : /\ process'[u] = IF u = t THEN how ELSE process[u]
                          /\ queue'[u] = IF u = t THEN <<>> ELSE queue[u]
      /\ chatOf' = chatOf /\ conn' = conn /\ table' = table /\ inFlight' = inFlight
      /\ down' = down /\ linked' = linked /\ Turns' = Turns
  BY EndFacts DEF Base, States
<1>2. OneAtATime' /\ ConnInv'
  BY <1>1 DEF Base, OneAtATime, ConnInv
<1>3. TableInv' /\ FlightInv'
  BY <1>1 DEF Base, TableInv, FlightInv
<1>4. QED
  BY <1>2, <1>3 DEF Base

LEMMA RelayBase ==
  ASSUME Base, NEW t \in Turns, Relay(t), Types'
  PROVE  Base'
<1>1. /\ chatOf' = chatOf /\ process' = process /\ conn' = conn /\ table' = table
      /\ inFlight' = inFlight /\ down' = down /\ linked' = linked /\ Turns' = Turns
      /\ queue[t] # <<>>
  BY DEF Relay, sockets, plugin, Turns
<1>2. \A u \in Turns : u # t => queue'[u] = queue[u]
  BY TypesFacts DEF Facts, Base, Relay
<1>3. OneAtATime' /\ ConnInv'
  BY <1>1, <1>2 DEF Base, OneAtATime, ConnInv
<1>4. TableInv' /\ FlightInv'
  BY <1>1 DEF Base, TableInv, FlightInv
<1>5. QED
  BY <1>3, <1>4 DEF Base

LEMMA RegisterBase ==
  ASSUME Base, NEW t \in Turns, Register(t), Types'
  PROVE  Base'
<1>1. /\ conn[t] = "dialled" /\ table' = [table EXCEPT ![chatOf[t]] = t]
      /\ \A u \in Turns : conn'[u] = IF u = t THEN "registered" ELSE conn[u]
      /\ \/ down' = down
         \/ /\ linked /\ Len(down') = Len(down) + 1
            /\ \A i \in 1..Len(down) + 1 : down'[i] = IF i <= Len(down) THEN down[i] ELSE t
      /\ chatOf' = chatOf /\ process' = process /\ queue' = queue
      /\ inFlight' = inFlight /\ linked' = linked /\ Turns' = Turns
  BY RegisterFacts DEF Base
<1>2. OneAtATime' /\ ConnInv'
  BY <1>1 DEF Base, OneAtATime, ConnInv
<1>3. table \in [Chats -> Turns \cup {None}] /\ inFlight \in [Chats -> Turns \cup {None}]
  BY DEF Base, Types
<1>4. TableInv'
  BY <1>1, <1>3 DEF Base, TableInv
<1>5. FlightInv'
  <2>1. Len(down) \in Nat /\ DOMAIN down = 1..Len(down) /\ \A i \in DOMAIN down : down[i] \in Turns
    BY LenProperties DEF Base, Types
  <2>2. DOMAIN down' = 1..Len(down')
    BY LenProperties DEF Types
  <2>3. ~linked => down' = <<>>
    BY <1>1 DEF Base, FlightInv
  <2>4. \A c \in Chats : inFlight[c] # None => /\ linked /\ chatOf[inFlight[c]] = c
                                               /\ conn[inFlight[c]] # "dialled" /\ inFlight[c] \in Turns
    BY <1>3 DEF Base, FlightInv
  <2>5. \A c \in Chats : inFlight[c] # t
    BY <1>1, <2>4, NoneIsNoTurn DEF Base
  <2>6. \A i \in DOMAIN down : down[i] # t
    BY <1>1 DEF Base, FlightInv
  <2>7. /\ \A i \in DOMAIN down' : conn'[down'[i]] # "dialled" /\ \A c \in Chats : inFlight'[c] # down'[i]
        /\ \A i, j \in DOMAIN down' : down'[i] = down'[j] => i = j
    <3>1. CASE down' = down
      BY <1>1, <2>1, <3>1 DEF Base, FlightInv
    <3>2. CASE /\ linked /\ Len(down') = Len(down) + 1
               /\ \A i \in 1..Len(down) + 1 : down'[i] = IF i <= Len(down) THEN down[i] ELSE t
      <4>1. DOMAIN down' = 1..Len(down) + 1
        BY <2>2, <3>2
      <4>2. \A i \in 1..Len(down) : conn[down[i]] # "dialled" /\ \A c \in Chats : inFlight[c] # down[i]
        BY <2>1 DEF Base, FlightInv
      <4>3. \A i, j \in 1..Len(down) : down[i] = down[j] => i = j
        BY <2>1 DEF Base, FlightInv
      <4>4. \A i \in 1..Len(down) : down[i] # t /\ down[i] \in Turns
        BY <2>1, <2>6
      <4>5. QED BY <1>1, <2>1, <2>5, <3>2, <4>1, <4>2, <4>3, <4>4
    <3>3. QED BY <1>1, <3>1, <3>2
  <2>8. QED BY <1>1, <2>3, <2>4, <2>7 DEF FlightInv
<1>6. QED
  BY <1>2, <1>4, <1>5 DEF Base

LEMMA HangupBase ==
  ASSUME Base, NEW t \in Turns, Hangup(t), Types'
  PROVE  Base'
<1>1. /\ conn[t] = "registered" /\ process[t] # "running"
      /\ \A u \in Turns : conn'[u] = IF u = t THEN "over" ELSE conn[u]
      /\ \A c \in Chats : table'[c] = table[c] \/ (c = chatOf[t] /\ table[c] = t /\ table'[c] = None)
      /\ table[chatOf[t]] = t => table'[chatOf[t]] = None
      /\ chatOf' = chatOf /\ process' = process /\ queue' = queue
      /\ inFlight' = inFlight /\ linked' = linked /\ down' = down /\ Turns' = Turns
  BY HangupFacts DEF Base
<1>2. OneAtATime' /\ ConnInv'
  BY <1>1 DEF Base, OneAtATime, ConnInv
<1>3. TableInv'
  <2>1. \A d \in Chats : table[d] # None => table[d] \in Turns
    BY DEF Base, Types
  <2>2. QED BY <1>1, <2>1 DEF Base, TableInv
<1>4. FlightInv'
  <2>1. \A i \in DOMAIN down : down[i] \in Turns
    BY LenProperties DEF Base, Types
  <2>2. QED BY <1>1, <2>1 DEF Base, FlightInv, Types
<1>5. QED
  BY <1>2, <1>3, <1>4 DEF Base

LEMMA RouteBase ==
  ASSUME Base, NEW k \in Links, Route(k), Types'
  PROVE  Base'
<1>1. /\ chatOf' = chatOf /\ process' = process /\ conn' = conn /\ table' = table
      /\ inFlight' = inFlight /\ linked' = linked /\ down' = down /\ Turns' = Turns
  BY RouteFacts DEF Base
<1>2. OneAtATime' /\ TableInv' /\ FlightInv'
  BY <1>1 DEF Base, OneAtATime, TableInv, FlightInv
<1>3. \A t \in Turns : conn[t] = "dialled" => queue'[t] = <<>>
  <2>1. CASE queue' = queue
    BY <2>1 DEF Base, ConnInv
  <2>2. CASE /\ Recipient(Head(wire[k])) # None
             /\ queue' = [queue EXCEPT ![Recipient(Head(wire[k]))] = Append(@, Head(wire[k]))]
    <3> DEFINE r == Recipient(Head(wire[k]))
    <3>1. conn[r] = "registered"
      <4>1. Head(wire[k]).chat \in Chats
        BY RouteFacts DEF Base, Env
      <4>2. QED BY <2>2, <4>1 DEF Base, TableInv, Recipient
    <3>2. \A t \in Turns : t # r => queue'[t] = queue[t]
      BY <2>2, TypesFacts DEF Facts, Base
    <3>3. QED BY <3>1, <3>2 DEF Base, ConnInv
  <2>3. QED
    BY <2>1, <2>2 DEF Route, RouteProactive, RouteEnvelope
<1>4. ConnInv'
  BY <1>1, <1>3 DEF Base, ConnInv
<1>5. QED
  BY <1>2, <1>4 DEF Base

LEMMA DispatchBase ==
  ASSUME Base, Dispatch, Types'
  PROVE  Base'
<1>1. /\ linked /\ Len(down) \in Nat \ {0} /\ down[1] \in Turns
      /\ DOMAIN down' = 1..Len(down) - 1
      /\ \A i \in 1..Len(down) - 1 : down'[i] = down[i + 1]
      /\ \A c \in Chats : inFlight'[c] = IF c = chatOf[down[1]] /\ inFlight[c] = None
                                         THEN down[1] ELSE inFlight[c]
      /\ chatOf' = chatOf /\ process' = process /\ conn' = conn
      /\ queue' = queue /\ table' = table /\ linked' = linked /\ Turns' = Turns
  BY DispatchFacts DEF Base
<1>2. OneAtATime' /\ ConnInv' /\ TableInv'
  BY <1>1 DEF Base, OneAtATime, ConnInv, TableInv
<1>3. DOMAIN down = 1..Len(down) /\ \A i \in DOMAIN down : down[i] \in Turns
  BY LenProperties DEF Base, Types
<1>4. /\ \A i \in 1..Len(down) : conn[down[i]] # "dialled" /\ \A c \in Chats : inFlight[c] # down[i]
      /\ \A i, j \in 1..Len(down) : down[i] = down[j] => i = j
  BY <1>3 DEF Base, FlightInv
<1>5. \A c \in Chats : inFlight'[c] # None =>
        linked' /\ chatOf'[inFlight'[c]] = c /\ conn'[inFlight'[c]] # "dialled"
  <2>1. conn[down[1]] # "dialled"
    BY <1>1, <1>4
  <2>2. QED BY <1>1, <2>1 DEF Base, FlightInv
<1>6. \A i \in DOMAIN down' : conn'[down'[i]] # "dialled" /\ \A c \in Chats : inFlight'[c] # down'[i]
  <2> SUFFICES ASSUME NEW i \in 1..Len(down) - 1
               PROVE  conn[down[i + 1]] # "dialled" /\ \A c \in Chats : inFlight'[c] # down[i + 1]
    BY <1>1
  <2>1. i + 1 \in 1..Len(down) /\ 1 \in 1..Len(down) /\ i + 1 # 1
    BY <1>1
  <2>2. down[i + 1] # down[1] /\ conn[down[i + 1]] # "dialled" /\ \A c \in Chats : inFlight[c] # down[i + 1]
    BY <1>4, <2>1
  <2>3. QED BY <1>1, <2>2
<1>7. \A i, j \in DOMAIN down' : down'[i] = down'[j] => i = j
  <2> SUFFICES ASSUME NEW i \in 1..Len(down) - 1, NEW j \in 1..Len(down) - 1, down[i + 1] = down[j + 1]
               PROVE  i = j
    BY <1>1
  <2>1. i + 1 \in 1..Len(down) /\ j + 1 \in 1..Len(down)
    BY <1>1
  <2>2. i + 1 = j + 1
    BY <1>4, <2>1
  <2>3. QED BY <1>1, <2>2
<1>8. FlightInv'
  BY <1>1, <1>5, <1>6, <1>7 DEF FlightInv
<1>9. QED
  BY <1>2, <1>8 DEF Base

\* A step that touches neither the turns nor the router, and drops turns in
\* flight or on the way to the plugin at most.
LEMMA QuietBase ==
  ASSUME Base, Types',
         chatOf' = chatOf, process' = process, conn' = conn, queue' = queue, table' = table,
         linked' # linked => down' = <<>> /\ \A c \in Chats : inFlight'[c] = None,
         down' = down \/ down' = <<>>,
         \A c \in Chats : inFlight'[c] \in {inFlight[c], None}
  PROVE  Base'
<1>1. OneAtATime' /\ ConnInv' /\ TableInv'
  BY DEF Base, OneAtATime, ConnInv, TableInv, Turns
<1>2. \A i \in DOMAIN down : down[i] # None
  <2>1. \A i \in DOMAIN down : down[i] \in Turns
    BY LenProperties DEF Base, Types
  <2>2. QED BY <2>1, NoneIsNoTurn DEF Base
<1>3. down' = <<>> => DOMAIN down' = {}
  OBVIOUS
<1>4. FlightInv'
  BY <1>2, <1>3 DEF Base, FlightInv
<1>5. QED
  BY <1>1, <1>4 DEF Base

LEMMA StepBase == Base /\ [Next]_vars => Base'
<1> SUFFICES ASSUME Base, [Next]_vars PROVE Base'
  OBVIOUS
<1>0. Types'
  BY StepTypes DEF Base
<1>1. ASSUME NEW t \in Turns, TurnStep(t) PROVE Base'
  <2>1. RelayLast(t) \/ IdleTimeout(t) \/ Abort(t) => \E how \in {"done", "cut"} : End(t, how)
    BY DEF RelayLast, IdleTimeout, Abort
  <2>2. QED
    BY <1>0, <1>1, <2>1, RelayBase, EndBase, RegisterBase, HangupBase DEF TurnStep
<1>2. ASSUME NEW k \in Links, LinkStep(k) PROVE Base'
  <2>1. CASE Route(k)
    BY <1>0, <2>1, RouteBase
  <2>2. CASE PluginHello(k) \/ PluginHangup(k)
    BY <1>0, <2>2, QuietBase DEF PluginHello, PluginHangup, trampolines, plugin
  <2>3. QED BY <1>2, <2>1, <2>2 DEF LinkStep
<1>3. ASSUME NEW c \in Chats, ChatStep(c) PROVE Base'
  <2>1. CASE StartTurn(c)
    BY <1>0, <2>1, StartTurnBase
  <2>2. CASE Say(c) \/ Send(c)
    BY <1>0, <2>2, QuietBase DEF Say, Send, trampolines, router
  <2>3. CASE Finish(c)
    <3>1. \A d \in Chats : inFlight'[d] \in {inFlight[d], None}
      BY <2>3 DEF Finish, Base, Types
    <3>2. QED BY <1>0, <2>3, <3>1, QuietBase DEF Finish, trampolines, router
  <2>4. QED BY <1>3, <2>1, <2>2, <2>3 DEF ChatStep
<1>4. CASE StartGateway
  BY <1>0, <1>4, QuietBase DEF StartGateway, trampolines, router, sockets
<1>5. CASE Dial
  <2>1. down = <<>> /\ \A c \in Chats : inFlight[c] = None
    BY <1>5 DEF Dial, Base, FlightInv
  <2>2. QED BY <1>0, <1>5, <2>1, QuietBase DEF Dial, trampolines, router
<1>6. CASE Disconnect
  BY <1>0, <1>6, QuietBase DEF Disconnect, trampolines, router
<1>7. CASE UNCHANGED vars
  BY <1>0, <1>7, QuietBase DEF vars, trampolines, router, sockets, plugin
<1>8. QED
  BY <1>0, <1>1, <1>2, <1>3, <1>4, <1>5, <1>6, <1>7, DispatchBase DEF Next

-----------------------------------------------------------------------------
(* What no step undoes                                                     *)

\* A turn keeps its chat, its connection is dialled once, its process ends once.
LEMMA TurnsStay ==
  ASSUME Types, [Next]_vars, NEW t \in Turns
  PROVE  /\ t \in Turns' /\ chatOf'[t] = chatOf[t]
         /\ conn[t] # "dialled" => conn'[t] # "dialled"
         /\ process[t] # "running" => process'[t] = process[t]
<1> DEFINE Q == /\ t \in Turns' /\ chatOf'[t] = chatOf[t]
                /\ conn[t] # "dialled" => conn'[t] # "dialled"
                /\ process[t] # "running" => process'[t] = process[t]
<1>1. ASSUME NEW u \in Turns, TurnStep(u) PROVE Q
  <2>1. CASE Relay(u)
    BY <2>1 DEF Relay, Turns
  <2>2. ASSUME NEW how \in States, End(u, how), process[u] = "running" PROVE Q
    BY <2>2, EndFacts
  <2>3. RelayLast(u) \/ IdleTimeout(u) \/ Abort(u) =>
          process[u] = "running" /\ \E how \in States : End(u, how)
    BY DEF RelayLast, IdleTimeout, Abort, States
  <2>4. CASE Register(u)
    BY <2>4, RegisterFacts
  <2>5. CASE Hangup(u)
    BY <2>5, HangupFacts
  <2>6. QED BY <1>1, <2>1, <2>2, <2>3, <2>4, <2>5 DEF TurnStep
<1>2. ASSUME NEW k \in Links, LinkStep(k) PROVE Q
  BY <1>2 DEF LinkStep, PluginHello, PluginHangup, Route, trampolines, Turns
<1>3. ASSUME NEW c \in Chats, ChatStep(c) PROVE Q
  <2>1. CASE StartTurn(c)
    BY <2>1, StartTurnFacts
  <2>2. CASE Say(c) \/ Finish(c) \/ Send(c)
    BY <2>2 DEF Say, Finish, Send, trampolines, router, Turns
  <2>3. QED BY <1>3, <2>1, <2>2 DEF ChatStep
<1>4. CASE StartGateway \/ Dial \/ Disconnect \/ Dispatch \/ UNCHANGED vars
  BY <1>4 DEF StartGateway, Dial, Disconnect, Dispatch, vars, trampolines, router, Turns
<1>5. QED
  BY <1>1, <1>2, <1>3, <1>4 DEF Next

\* What comes to the way to the plugin has only just been registered; what
\* comes in flight was on that way.
LEMMA WayMoves ==
  ASSUME Types, [Next]_vars
  PROVE  /\ \A j \in DOMAIN down' : \/ \E i \in DOMAIN down : down'[j] = down[i]
                                    \/ conn[down'[j]] = "dialled"
         /\ \A c \in Chats : \/ inFlight'[c] \in {inFlight[c], None}
                             \/ \E i \in DOMAIN down : inFlight'[c] = down[i]
<1> DEFINE D == \A j \in DOMAIN down' : \/ \E i \in DOMAIN down : down'[j] = down[i]
                                        \/ conn[down'[j]] = "dialled"
           F == \A c \in Chats : \/ inFlight'[c] \in {inFlight[c], None}
                                 \/ \E i \in DOMAIN down : inFlight'[c] = down[i]
<1>0. down' = down => D
  OBVIOUS
<1>1. CASE UNCHANGED <<down, inFlight>>
  BY <1>0, <1>1
<1>2. ASSUME NEW t \in Turns, Register(t) PROVE D /\ F
  <2>1. /\ conn[t] = "dialled" /\ inFlight' = inFlight
        /\ \/ down' = down
           \/ /\ linked /\ Len(down') = Len(down) + 1
              /\ \A i \in 1..Len(down) + 1 : down'[i] = IF i <= Len(down) THEN down[i] ELSE t
    BY <1>2, RegisterFacts
  <2>2. Len(down) \in Nat /\ DOMAIN down = 1..Len(down)
    BY LenProperties DEF Types
  <2>3. DOMAIN down' = 1..Len(down')
    BY StepTypes, LenProperties DEF Types
  <2>4. ASSUME Len(down') = Len(down) + 1, NEW j \in DOMAIN down',
               down'[j] = IF j <= Len(down) THEN down[j] ELSE t
        PROVE  (\E i \in DOMAIN down : down'[j] = down[i]) \/ conn[down'[j]] = "dialled"
    BY <2>1, <2>2, <2>3, <2>4
  <2>5. QED BY <1>0, <2>1, <2>3, <2>4
<1>3. CASE Dispatch
  <2>1. /\ Len(down) \in Nat \ {0} /\ DOMAIN down' = 1..Len(down) - 1
        /\ \A i \in 1..Len(down) - 1 : down'[i] = down[i + 1]
        /\ \A c \in Chats : inFlight'[c] = IF c = chatOf[down[1]] /\ inFlight[c] = None
                                           THEN down[1] ELSE inFlight[c]
    BY <1>3, DispatchFacts
  <2>2. DOMAIN down = 1..Len(down)
    BY LenProperties DEF Types
  <2>3. \A j \in DOMAIN down' : \E i \in DOMAIN down : down'[j] = down[i]
    BY <2>1, <2>2
  <2>4. QED BY <2>1, <2>2, <2>3
<1>4. CASE Disconnect
  <2>1. DOMAIN <<>> = {}
    OBVIOUS
  <2>2. QED BY <1>4, <2>1 DEF Disconnect
<1>5. ASSUME NEW c \in Chats, Finish(c) PROVE D /\ F
  <2>1. down' = down /\ inFlight' = [inFlight EXCEPT ![c] = None]
    BY <1>5 DEF Finish
  <2>2. QED BY <1>0, <2>1 DEF Types
<1>6. ASSUME NEW t \in Turns, TurnStep(t) PROVE Register(t) \/ UNCHANGED <<down, inFlight>>
  BY <1>6 DEF TurnStep, Relay, RelayLast, IdleTimeout, Abort, End, Hangup, sockets, plugin
<1>7. ASSUME NEW k \in Links, LinkStep(k) PROVE UNCHANGED <<down, inFlight>>
  BY <1>7 DEF LinkStep, PluginHello, PluginHangup, Route, plugin
<1>8. ASSUME NEW c \in Chats, ChatStep(c) PROVE Finish(c) \/ UNCHANGED <<down, inFlight>>
  BY <1>8 DEF ChatStep, StartTurn, Say, Send, sockets
<1>9. CASE StartGateway \/ Dial \/ UNCHANGED vars
  BY <1>1, <1>9 DEF StartGateway, Dial, vars, sockets, plugin
<1>10. QED
  BY <1>1, <1>2, <1>3, <1>4, <1>5, <1>6, <1>7, <1>8, <1>9 DEF Next

\* What the plugin may put on its wire.
Emits(e) ==
  /\ linked /\ e \in Env /\ Emit(e)
  /\ chatOf' = chatOf /\ conn' = conn /\ down' = down /\ links' = links
  /\ e.of # None => /\ inFlight[e.chat] = e.of
                    /\ \A c \in Chats : inFlight'[c] = e.of => ~e.last

\* Who touches the wires: the router's task of one, the plugin with a new one
\* or with one envelope more on its last.
LEMMA WireMoves ==
  ASSUME Base, [Next]_vars
  PROVE  \/ wire' = wire /\ Links' = Links /\ Len(links') = Len(links)
         \/ \E k \in Links : Route(k)
         \/ Dial
         \/ \E e \in Env : Emits(e)
<1>1. ASSUME NEW t \in Turns, TurnStep(t) PROVE wire' = wire /\ links' = links
  <2>1. CASE Register(t)
    BY <2>1 DEF Register
  <2>2. CASE Relay(t) \/ RelayLast(t) \/ IdleTimeout(t) \/ Abort(t) \/ Hangup(t)
    BY <2>2 DEF Relay, RelayLast, IdleTimeout, Abort, End, Hangup, sockets
  <2>3. QED BY <1>1, <2>1, <2>2 DEF TurnStep
<1>2. ASSUME NEW k \in Links, PluginHello(k) \/ PluginHangup(k)
      PROVE  wire' = wire /\ Links' = Links /\ Len(links') = Len(links)
  <2>1. links' = [links EXCEPT ![k] = "open"] \/ links' = [links EXCEPT ![k] = "over"]
    BY <1>2 DEF PluginHello, PluginHangup
  <2>2. k \in 1..Len(links) /\ links \in Seq(LinkTasks) /\ "open" \in LinkTasks /\ "over" \in LinkTasks
    BY TypesFacts DEF Facts, Base, Types, LinkTasks
  <2>3. Len(links') = Len(links)
    BY <2>1, <2>2, Write
  <2>4. QED BY <1>2, <2>1, <2>3 DEF Links, PluginHello, PluginHangup
<1>3. ASSUME NEW c \in Chats, Say(c) PROVE \E e \in Env : Emits(e)
  <2> DEFINE t == inFlight[c]
             e == Envelope(t, MaxLines - left[t], FALSE)
  <2>1. t \in Turns /\ chatOf[t] = c
    BY <1>3 DEF Say, Base, Types, FlightInv
  <2>2. t \in Nat /\ left[t] \in Nat
    BY <2>1, TypesFacts DEF Base, Facts
  <2>3. e \in Env /\ e.of = t /\ e.chat = c /\ e.last = FALSE
    BY <2>1, <2>2, HermesAssumption DEF Envelope, Env
  <2>4. linked /\ Emit(e)
    BY <1>3 DEF Say
  <2> HIDE DEF e
  <2>5. Emits(e)
    BY <1>3, <2>3, <2>4 DEF Emits, Say, trampolines, router
  <2>6. QED BY <2>3, <2>5
<1>4. ASSUME NEW c \in Chats, Finish(c) PROVE \E e \in Env : Emits(e)
  <2> DEFINE t == inFlight[c]
             e == Envelope(t, MaxLines, TRUE)
  <2>1. t \in Turns /\ chatOf[t] = c
    BY <1>4 DEF Finish, Base, Types, FlightInv
  <2>2. t \in Nat
    BY <2>1, TypesFacts DEF Base, Facts
  <2>3. e \in Env /\ e.of = t /\ e.chat = c
    BY <2>1, <2>2, HermesAssumption DEF Envelope, Env
  <2>4. linked /\ Emit(e) /\ t # None
    BY <1>4 DEF Finish
  <2>5. \A d \in Chats : inFlight'[d] = IF d = c THEN None ELSE inFlight[d]
    BY <1>4 DEF Finish, Base, Types
  <2>6. \A d \in Chats : inFlight'[d] # t
    BY <2>1, <2>4, <2>5 DEF Base, FlightInv
  <2> HIDE DEF e
  <2>7. Emits(e)
    BY <1>4, <2>3, <2>4, <2>6 DEF Emits, Finish, trampolines, router
  <2>8. QED BY <2>3, <2>7
<1>5. ASSUME NEW c \in Chats, Send(c) PROVE \E e \in Env : Emits(e)
  <2> DEFINE e == Proactive(c)
  <2>1. e \in Env /\ e.of = None
    BY DEF Proactive, Env, None
  <2>2. linked /\ Emit(e)
    BY <1>5 DEF Send
  <2> HIDE DEF e
  <2>3. Emits(e)
    BY <1>5, <2>1, <2>2 DEF Emits, Send, trampolines, router
  <2>4. QED BY <2>1, <2>3
<1>6. ASSUME NEW c \in Chats, StartTurn(c) PROVE wire' = wire /\ links' = links
  BY <1>6, StartTurnSame
<1>7. CASE StartGateway \/ Disconnect \/ Dispatch \/ UNCHANGED vars
  BY <1>7 DEF StartGateway, Disconnect, Dispatch, vars, sockets, Links
<1>8. QED
  BY <1>1, <1>2, <1>3, <1>4, <1>5, <1>6, <1>7 DEF Next, LinkStep, ChatStep, Links

-----------------------------------------------------------------------------
(* Where the envelopes of a turn are                                       *)

LEMMA QuietWire ==
  ASSUME Base, WireInv, [Next]_vars,
         wire' = wire, Links' = Links, Len(links') = Len(links)
  PROVE  WireInv'
<1>0. /\ \A t \in Turns : /\ t \in Turns' /\ chatOf'[t] = chatOf[t]
                          /\ conn[t] # "dialled" => conn'[t] # "dialled"
      /\ \A j \in DOMAIN down' : \/ \E i \in DOMAIN down : down'[j] = down[i]
                                 \/ conn[down'[j]] = "dialled"
      /\ \A c \in Chats : \/ inFlight'[c] \in {inFlight[c], None}
                          \/ \E i \in DOMAIN down : inFlight'[c] = down[i]
  BY TurnsStay, WayMoves DEF Base
<1> SUFFICES ASSUME NEW k \in Links, NEW i \in DOMAIN wire[k],
                    NEW t, t = wire[k][i].of, t # None
             PROVE  /\ t \in Turns' /\ chatOf'[t] = wire[k][i].chat /\ conn'[t] # "dialled"
                    /\ \A j \in DOMAIN down' : down'[j] # t
                    /\ \A c \in Chats : inFlight'[c] = t => k = Len(links') /\ ~wire[k][i].last
                    /\ \A j \in DOMAIN wire[k] : wire[k][j].of = t /\ i < j => ~wire[k][i].last
                    /\ \A l \in Links : l # k => ~OnWire(t, l)
  BY DEF WireInv, OnWire
<1>1. /\ t \in Turns /\ chatOf[t] = wire[k][i].chat /\ conn[t] # "dialled"
      /\ \A j \in DOMAIN down : down[j] # t
      /\ \A c \in Chats : inFlight[c] = t => k = Len(links) /\ ~wire[k][i].last
      /\ \A j \in DOMAIN wire[k] : wire[k][j].of = t /\ i < j => ~wire[k][i].last
      /\ \A l \in Links : l # k => ~OnWire(t, l)
  BY DEF WireInv
<1>2. QED
  BY <1>0, <1>1

LEMMA RouteWire ==
  ASSUME Base, WireInv, NEW k \in Links, Route(k)
  PROVE  WireInv'
<1>1. /\ Len(wire[k]) \in Nat \ {0}
      /\ \A i \in 1..Len(wire[k]) - 1 : wire'[k][i] = wire[k][i + 1]
      /\ DOMAIN wire'[k] = 1..Len(wire[k]) - 1
      /\ \A l \in Links : l # k => wire'[l] = wire[l]
      /\ chatOf' = chatOf /\ conn' = conn /\ inFlight' = inFlight /\ links' = links
      /\ down' = down /\ Turns' = Turns /\ Links' = Links
  BY RouteFacts DEF Base
<1>2. DOMAIN wire[k] = 1..Len(wire[k])
  BY TypesFacts, LenProperties DEF Base, Facts
<1>3. ASSUME NEW l \in Links, NEW i \in DOMAIN wire'[l]
      PROVE  \E h \in DOMAIN wire[l] : /\ wire'[l][i] = wire[l][h]
                                       /\ h = IF l = k THEN i + 1 ELSE i
  BY <1>1, <1>2
<1>4. \A t : \A l \in Links : OnWire(t, l)' => OnWire(t, l)
  BY <1>3 DEF OnWire
<1>5. \A l \in Links : \A i \in DOMAIN wire'[l] : i \in Int
  <2>1. \A l \in Links : DOMAIN wire[l] = 1..Len(wire[l]) /\ Len(wire[l]) \in Nat
    BY TypesFacts, LenProperties DEF Base, Facts
  <2>2. QED BY <1>1, <2>1
<1>6. ASSUME NEW l \in Links, NEW i \in DOMAIN wire'[l], NEW t, t = wire'[l][i].of, t # None
      PROVE  /\ t \in Turns' /\ chatOf'[t] = wire'[l][i].chat /\ conn'[t] # "dialled"
             /\ \A j \in DOMAIN down' : down'[j] # t
             /\ \A c \in Chats : inFlight'[c] = t => l = Len(links') /\ ~wire'[l][i].last
             /\ \A j \in DOMAIN wire'[l] : wire'[l][j].of = t /\ i < j => ~wire'[l][i].last
             /\ \A m \in Links : m # l => ~OnWire(t, m)'
  <2>1. PICK h \in DOMAIN wire[l] : /\ wire'[l][i] = wire[l][h]
                                    /\ h = IF l = k THEN i + 1 ELSE i
    BY <1>3
  <2>2. /\ t \in Turns /\ chatOf[t] = wire[l][h].chat /\ conn[t] # "dialled"
        /\ \A j \in DOMAIN down : down[j] # t
        /\ \A c \in Chats : inFlight[c] = t => l = Len(links) /\ ~wire[l][h].last
        /\ \A j \in DOMAIN wire[l] : wire[l][j].of = t /\ h < j => ~wire[l][h].last
        /\ \A m \in Links : m # l => ~OnWire(t, m)
    BY <1>6, <2>1 DEF WireInv
  <2>3. ASSUME NEW j \in DOMAIN wire'[l], wire'[l][j].of = t, i < j
        PROVE  ~wire'[l][i].last
    <3>1. PICK g \in DOMAIN wire[l] : /\ wire'[l][j] = wire[l][g]
                                      /\ g = IF l = k THEN j + 1 ELSE j
      BY <1>3
    <3>2. h < g
      BY <1>5, <2>1, <2>3, <3>1
    <3>3. QED BY <2>1, <2>2, <2>3, <3>1, <3>2
  <2>4. QED BY <1>1, <1>4, <2>1, <2>2, <2>3
<1>7. QED
  BY <1>1, <1>6 DEF WireInv

LEMMA DialWire ==
  ASSUME Base, WireInv, Dial
  PROVE  WireInv'
<1>1. \A k \in Links' : DOMAIN wire'[k] # {} => k \in Links /\ wire'[k] = wire[k]
  BY DialFacts DEF Base
<1>2. /\ chatOf' = chatOf /\ conn' = conn /\ inFlight' = inFlight /\ down' = down /\ Turns' = Turns
      /\ \A c \in Chats : inFlight[c] = None
  BY DEF Dial, trampolines, router, Turns, Base, FlightInv
<1>3. \A t : \A k \in Links' : OnWire(t, k)' => k \in Links /\ OnWire(t, k)
  BY <1>1 DEF OnWire
<1>4. QED
  BY <1>1, <1>2, <1>3 DEF WireInv

LEMMA EmitWire ==
  ASSUME Base, WireInv, [Next]_vars, NEW e \in Env, Emits(e)
  PROVE  WireInv'
<1> DEFINE k == Len(links)
           N == Len(wire[k])
<1>0. /\ linked /\ Emit(e) /\ chatOf' = chatOf /\ conn' = conn /\ down' = down /\ links' = links
      /\ e.of # None => /\ inFlight[e.chat] = e.of
                        /\ \A c \in Chats : inFlight'[c] = e.of => ~e.last
      /\ \A c \in Chats : \/ inFlight'[c] \in {inFlight[c], None}
                          \/ \E i \in DOMAIN down : inFlight'[c] = down[i]
  BY WayMoves DEF Emits, Base
<1>1. /\ k \in Links /\ N \in Nat /\ DOMAIN wire'[k] = 1..N + 1
      /\ \A i \in 1..N + 1 : wire'[k][i] = IF i <= N THEN wire[k][i] ELSE e
      /\ \A l \in Links : l # k => wire'[l] = wire[l]
  BY <1>0, EmitFacts DEF Base
<1>2. DOMAIN wire[k] = 1..N /\ Turns' = Turns /\ Links' = Links
  BY <1>0, <1>1, TypesFacts, LenProperties DEF Base, Facts, Turns, Links
<1>k. k = Len(links') /\ k = Len(links)
  BY <1>0
<1> HIDE DEF N, k
<1>3. ASSUME NEW l \in Links, NEW i \in DOMAIN wire'[l]
      PROVE  \/ l = k /\ i = N + 1 /\ wire'[l][i] = e
             \/ i \in DOMAIN wire[l] /\ wire'[l][i] = wire[l][i]
  <2>1. CASE l = k
    <3>1. i \in 1..N + 1 /\ (i \notin 1..N => i = N + 1 /\ ~(i <= N))
      BY <1>1, <2>1
    <3>2. QED BY <1>1, <1>2, <2>1, <3>1
  <2>2. CASE l # k
    BY <1>1, <2>2
  <2>3. QED BY <2>1, <2>2
<1>4. \A t : \A l \in Links : OnWire(t, l)' => OnWire(t, l) \/ (l = k /\ t = e.of)
  BY <1>3 DEF OnWire
<1>5. e.chat \in Chats
  BY DEF Env
<1>6. e.of # None =>
        /\ e.of \in Turns /\ chatOf[e.of] = e.chat /\ conn[e.of] # "dialled"
        /\ \A j \in DOMAIN down : down[j] # e.of
        /\ \A l \in Links : \A i \in DOMAIN wire[l] :
             wire[l][i].of = e.of => l = k /\ ~wire[l][i].last
  <2>1. e.of # None => e.of \in Turns /\ chatOf[e.of] = e.chat /\ conn[e.of] # "dialled"
    BY <1>0, <1>5 DEF Base, Types, FlightInv
  <2>2. e.of # None => \A j \in DOMAIN down : down[j] # e.of
    BY <1>0, <1>5 DEF Base, FlightInv
  <2>3. e.of # None => \A l \in Links : \A i \in DOMAIN wire[l] :
                         wire[l][i].of = e.of => l = k /\ ~wire[l][i].last
    BY <1>0, <1>5, <1>k DEF WireInv
  <2>4. QED BY <2>1, <2>2, <2>3
<1>7. ASSUME NEW l \in Links, NEW i \in DOMAIN wire'[l], NEW t, t = wire'[l][i].of, t # None
      PROVE  /\ t \in Turns' /\ chatOf'[t] = wire'[l][i].chat /\ conn'[t] # "dialled"
             /\ \A j \in DOMAIN down' : down'[j] # t
             /\ \A c \in Chats : inFlight'[c] = t => l = Len(links') /\ ~wire'[l][i].last
             /\ \A j \in DOMAIN wire'[l] : wire'[l][j].of = t /\ i < j => ~wire'[l][i].last
             /\ \A m \in Links : m # l => ~OnWire(t, m)'
  <2>1. CASE l = k /\ i = N + 1 /\ wire'[l][i] = e
    <3>1. \A j \in DOMAIN wire'[l] : ~(i < j)
      BY <1>1, <2>1
    <3>2. \A m \in Links : m # l => ~OnWire(t, m)'
      BY <1>4, <1>6, <1>7, <2>1 DEF OnWire
    <3>3. QED BY <1>0, <1>2, <1>6, <1>7, <1>k, <2>1, <3>1, <3>2
  <2>2. CASE i \in DOMAIN wire[l] /\ wire'[l][i] = wire[l][i]
    <3>1. /\ t \in Turns /\ chatOf[t] = wire[l][i].chat /\ conn[t] # "dialled"
          /\ \A j \in DOMAIN down : down[j] # t
          /\ \A c \in Chats : inFlight[c] = t => l = Len(links) /\ ~wire[l][i].last
          /\ \A j \in DOMAIN wire[l] : wire[l][j].of = t /\ i < j => ~wire[l][i].last
          /\ \A m \in Links : m # l => ~OnWire(t, m)
      BY <1>7, <2>2 DEF WireInv
    <3>2. t = e.of => l = k /\ ~wire[l][i].last
      BY <1>6, <1>7, <2>2
    <3>3. \A j \in DOMAIN wire'[l] : wire'[l][j].of = t /\ i < j => ~wire'[l][i].last
      BY <1>3, <2>2, <3>1, <3>2
    <3>4. \A m \in Links : m # l => ~OnWire(t, m)'
      BY <1>4, <3>1, <3>2
    <3>5. QED BY <1>0, <1>2, <1>7, <1>k, <2>2, <3>1, <3>3, <3>4
  <2>3. QED BY <1>3, <2>1, <2>2
<1>8. QED
  BY <1>2, <1>7 DEF WireInv

LEMMA StepWire == Base /\ WireInv /\ [Next]_vars => WireInv'
  BY WireMoves, QuietWire, RouteWire, DialWire, EmitWire

-----------------------------------------------------------------------------
(* A chat whose turns have all ended with their results                    *)

IInv == Base /\ WireInv /\ CleanInv

\* Moving the head of what is queued to what is printed, and a longer queue.
LEMMA Moved ==
  ASSUME NEW S, NEW p \in Seq(S), NEW q \in Seq(S), q # <<>>
  PROVE  Append(p, Head(q)) \o Tail(q) = p \o q
<1> DEFINE l == Append(p, Head(q)) \o Tail(q)
           r == p \o q
<1>1. /\ Head(q) \in S /\ Head(q) = q[1] /\ Tail(q) \in Seq(S) /\ Len(Tail(q)) = Len(q) - 1
      /\ \A i \in 1..Len(Tail(q)) : Tail(q)[i] = q[i + 1]
      /\ Len(q) \in Nat \ {0} /\ Len(p) \in Nat
  BY HeadTailProperties, EmptySeq, LenProperties
<1>2. /\ Append(p, Head(q)) \in Seq(S) /\ Len(Append(p, Head(q))) = Len(p) + 1
      /\ \A i \in 1..Len(p) + 1 : Append(p, Head(q))[i] = IF i <= Len(p) THEN p[i] ELSE q[1]
  BY <1>1, Grow
<1>3. /\ l \in Seq(S) /\ Len(l) = Len(p) + Len(q)
      /\ \A i \in 1..Len(p) + Len(q) :
           l[i] = IF i <= Len(p) + 1 THEN Append(p, Head(q))[i] ELSE Tail(q)[i - (Len(p) + 1)]
  BY <1>1, <1>2, ConcatProperties
<1>4. /\ r \in Seq(S) /\ Len(r) = Len(p) + Len(q)
      /\ \A i \in 1..Len(p) + Len(q) : r[i] = IF i <= Len(p) THEN p[i] ELSE q[i - Len(p)]
  BY ConcatProperties
<1>5. ASSUME NEW i \in 1..Len(p) + Len(q) PROVE l[i] = r[i]
  <2> HIDE DEF l, r
  <2>1. CASE i <= Len(p)
    BY <1>1, <1>2, <1>3, <1>4, <2>1
  <2>2. CASE i = Len(p) + 1
    BY <1>1, <1>2, <1>3, <1>4, <2>2
  <2>3. CASE i > Len(p) + 1
    <3>1. i - (Len(p) + 1) \in 1..Len(Tail(q)) /\ i - (Len(p) + 1) + 1 = i - Len(p)
      BY <1>1, <2>3
    <3>2. l[i] = q[i - Len(p)]
      BY <1>1, <1>3, <2>3, <3>1
    <3>3. QED BY <1>1, <1>4, <2>3, <3>2
  <2>4. QED BY <1>1, <2>1, <2>2, <2>3
<1> HIDE DEF l, r
<1>6. l = r
  BY <1>3, <1>4, <1>5, SeqEqual
<1>7. QED
  BY <1>6 DEF l, r

LEMMA Queued ==
  ASSUME NEW S, NEW p \in Seq(S), NEW q \in Seq(S), NEW x \in S
  PROVE  p \o Append(q, x) = Append(p \o q, x)
<1>1. <<x>> \in Seq(S) /\ p \o q \in Seq(S)
  BY ConcatProperties
<1>2. (p \o q) \o <<x>> = p \o (q \o <<x>>)
  BY <1>1, ConcatAssociative
<1>3. QED
  BY <1>1, <1>2, AppendIsConcat

\* The turns before another of their chat are not running any more.
LEMMA CleanBefore ==
  ASSUME Base, NEW t \in Turns, NEW u \in Before(t)
  PROVE  process[u] # "running" /\ u \in Turns /\ u # t
<1>1. u \in Turns /\ u < t /\ chatOf[u] = chatOf[t] /\ t \in Nat /\ u \in Nat
  BY TypesFacts DEF Base, Facts, Before
<1>2. process[u] = "running" => t <= u
  BY <1>1 DEF Base, OneAtATime
<1>3. QED
  BY <1>1, <1>2


\* Being absent is for good, but for a turn that is yet to be registered.
LEMMA StaysAbsent ==
  ASSUME Base, [Next]_vars, NEW t \in Turns, conn[t] # "dialled", Absent(t)
  PROVE  Absent(t)'
<1>0. t # None
  BY NoneIsNoTurn DEF Base
<1>1. /\ \A c \in Chats : inFlight'[c] # t
      /\ \A j \in DOMAIN down' : down'[j] # t
  BY <1>0, WayMoves DEF Absent, Base
<1>2. \A l \in Links' : ~OnWire(t, l)'
  <2>1. CASE wire' = wire /\ Links' = Links
    BY <2>1 DEF Absent, OnWire
  <2>2. ASSUME NEW k \in Links, Route(k) PROVE \A l \in Links' : ~OnWire(t, l)'
    <3>1. /\ Len(wire[k]) \in Nat \ {0} /\ DOMAIN wire[k] = 1..Len(wire[k])
          /\ \A i \in 1..Len(wire[k]) - 1 : wire'[k][i] = wire[k][i + 1]
          /\ DOMAIN wire'[k] = 1..Len(wire[k]) - 1
          /\ \A l \in Links : l # k => wire'[l] = wire[l]
          /\ Links' = Links
      BY <2>2, RouteFacts, TypesFacts, LenProperties DEF Base, Facts
    <3>2. ASSUME NEW i \in DOMAIN wire'[k] PROVE wire'[k][i].of # t
      <4>1. i + 1 \in DOMAIN wire[k] /\ wire'[k][i] = wire[k][i + 1]
        BY <3>1
      <4>2. QED BY <4>1 DEF Absent, OnWire
    <3>3. QED BY <3>1, <3>2 DEF Absent, OnWire
  <2>3. CASE Dial
    <3>1. \A l \in Links' : DOMAIN wire'[l] # {} => l \in Links /\ wire'[l] = wire[l]
      BY <2>3, DialFacts DEF Base
    <3>2. QED BY <3>1 DEF Absent, OnWire
  <2>4. ASSUME NEW e \in Env, Emits(e) PROVE \A l \in Links' : ~OnWire(t, l)'
    <3>1. e.of # t /\ Links' = Links
      <4>1. e.chat \in Chats
        BY DEF Env
      <4>2. QED BY <1>0, <2>4, <4>1 DEF Emits, Absent, Links
    <3>2. /\ Len(wire[Len(links)]) \in Nat /\ DOMAIN wire[Len(links)] = 1..Len(wire[Len(links)])
          /\ DOMAIN wire'[Len(links)] = 1..Len(wire[Len(links)]) + 1
          /\ \A i \in 1..Len(wire[Len(links)]) + 1 :
               wire'[Len(links)][i] = IF i <= Len(wire[Len(links)]) THEN wire[Len(links)][i] ELSE e
          /\ \A l \in Links : l # Len(links) => wire'[l] = wire[l]
      BY <2>4, EmitFacts, TypesFacts, LenProperties DEF Base, Facts, Emits
    <3>3. ASSUME NEW i \in DOMAIN wire'[Len(links)] PROVE wire'[Len(links)][i].of # t
      <4>1. CASE i \in DOMAIN wire[Len(links)]
        <5>1. wire'[Len(links)][i] = wire[Len(links)][i]
          BY <3>2, <4>1
        <5>2. Len(links) \in Links
          BY <2>4, EmitTypes DEF Emits, Base
        <5>3. QED BY <4>1, <5>1, <5>2 DEF Absent, OnWire
      <4>2. CASE i \notin DOMAIN wire[Len(links)]
        BY <3>1, <3>2, <3>3, <4>2
      <4>3. QED BY <4>1, <4>2
    <3>4. QED BY <3>1, <3>2, <3>3 DEF Absent, OnWire
  <2>5. QED BY <2>1, <2>2, <2>3, <2>4, WireMoves
<1>3. QED
  BY <1>1, <1>2 DEF Absent

\* No step makes a turn clean that was not, and those before a clean one are.
LEMMA StaysClean ==
  ASSUME Base, [Next]_vars, NEW t \in Turns, Clean(t)'
  PROVE  Clean(t) /\ \A u \in Before(t) : Clean(u) /\ process[u] = "done"
<1>1. \A u \in Before(t) : u \in Before(t)' /\ process'[u] = process[u]
  <2>1. \A u \in Before(t) : process[u] # "running" /\ u \in Turns /\ u < t /\ chatOf[u] = chatOf[t]
    BY CleanBefore DEF Before
  <2>2. QED BY <2>1, TurnsStay DEF Base, Before
<1>2. \A u \in Before(t) : process[u] = "done"
  BY <1>1 DEF Clean
<1>3. \A u \in Before(t) : Before(u) \subseteq Before(t)
  BY TypesFacts DEF Before, Base, Facts
<1>4. QED
  BY <1>2, <1>3 DEF Clean

\* A turn that ends with its last envelope leaves nothing behind.
LEMMA EndClean ==
  ASSUME IInv, [Next]_vars, NEW t \in Turns, NEW how \in {"done", "cut"}, End(t, how),
         process[t] = "running", how = "done" => queue[t] # <<>> /\ Head(queue[t]).last
  PROVE  CleanInv'
<1>0. Base /\ WireInv /\ CleanInv
  BY DEF IInv
<1>1. /\ \A u \in Turns : /\ process'[u] = IF u = t THEN how ELSE process[u]
                          /\ queue'[u] = IF u = t THEN <<>> ELSE queue[u]
                          /\ printed'[u] = IF u = t THEN <<>> ELSE printed[u]
                          /\ routed'[u] = IF u = t THEN <<>> ELSE routed[u]
      /\ chatOf' = chatOf /\ conn' = conn /\ table' = table
      /\ Turns' = Turns /\ crowded' = crowded \ {t}
  BY <1>0, EndFacts DEF Base, States
<1>2. ASSUME NEW u \in Turns, Clean(u)'
      PROVE  /\ process'[u] = "done" => conn'[u] # "dialled" /\ Absent(u)'
             /\ process'[u] = "running" =>
                  /\ conn'[u] = "registered" => table'[chatOf'[u]] = u
                  /\ \A i \in DOMAIN queue'[u] : queue'[u][i].of = u /\ (queue'[u][i].last => Absent(u)')
                  /\ u \notin crowded' => printed'[u] \o queue'[u] = routed'[u]
  <2>1. Clean(u)
    BY <1>0, <1>2, StaysClean
  <2>2. CleanTurn(u)
    BY <1>0 DEF CleanInv, CleanTurn
  <2>3. conn[u] # "dialled" /\ Absent(u) => Absent(u)'
    BY <1>0, StaysAbsent
  <2>4. CASE u # t
    <3>1. \A i \in DOMAIN queue[u] : conn[u] # "dialled"
      <4>1. DOMAIN <<>> = {}
        OBVIOUS
      <4>2. QED BY <1>0, <4>1 DEF Base, ConnInv
    <3>2. QED BY <1>1, <2>1, <2>2, <2>3, <2>4, <3>1 DEF CleanTurn
  <2>5. CASE u = t /\ how = "done"
    <3>1. queue[t] \in Seq(Env) /\ queue[t] # <<>>
      BY <1>0, <2>5, TypesFacts DEF Base, Facts
    <3>2. 1 \in DOMAIN queue[t] /\ queue[t][1].last
      BY <2>5, <3>1, EmptySeq, LenProperties
    <3>3. Absent(t)
      BY <2>1, <2>2, <2>5, <3>2 DEF CleanTurn
    <3>4. conn[t] # "dialled"
      BY <1>0, <3>1 DEF Base, ConnInv
    <3>5. QED BY <1>1, <2>3, <2>5, <3>3, <3>4
  <2>6. CASE u = t /\ how = "cut"
    BY <1>1, <2>6
  <2>7. QED BY <2>4, <2>5, <2>6
<1>3. QED
  BY <1>1, <1>2 DEF CleanInv, CleanTurn

LEMMA TableClean ==
  ASSUME IInv, [Next]_vars, NEW t \in Turns, Register(t) \/ Hangup(t)
  PROVE  CleanInv'
<1>0. Base /\ WireInv /\ CleanInv
  BY DEF IInv
<1>1. /\ \A u \in Turns : u # t => conn'[u] = conn[u]
      /\ chatOf' = chatOf /\ process' = process /\ printed' = printed /\ queue' = queue
      /\ routed' = routed /\ crowded' = crowded /\ Turns' = Turns
  BY <1>0, RegisterFacts, HangupFacts DEF Base
<1>2. ASSUME NEW u \in Turns, Clean(u)', process[u] = "running", conn'[u] = "registered"
      PROVE  table'[chatOf[u]] = u
  <2>1. Clean(u) /\ CleanTurn(u) /\ \A v \in Before(u) : CleanTurn(v) /\ Clean(v) /\ process[v] = "done"
    BY <1>0, <1>2, StaysClean DEF CleanInv, CleanTurn, Before
  <2>2. table \in [Chats -> Turns \cup {None}] /\ chatOf[u] \in Chats /\ chatOf[t] \in Chats
    BY <1>0, TypesFacts DEF Base, Types, Facts
  <2>3. CASE Register(t)
    <3>1. conn[t] = "dialled" /\ table' = [table EXCEPT ![chatOf[t]] = t]
      BY <2>3, <1>0, RegisterFacts DEF Base
    <3>2. CASE u = t
      BY <2>2, <3>1, <3>2
    <3>3. CASE u # t
      <4>1. chatOf[t] # chatOf[u]
        <5>1. SUFFICES ASSUME chatOf[t] = chatOf[u] PROVE FALSE
          OBVIOUS
        <5>2. t <= u
          BY <1>0, <1>2, <5>1 DEF Base, OneAtATime
        <5>3. t \in Before(u)
          BY <1>0, <3>3, <5>1, <5>2, TypesFacts DEF Base, Facts, Before
        <5>4. conn[t] # "dialled"
          BY <2>1, <5>3 DEF CleanTurn
        <5>5. QED BY <3>1, <5>4
      <4>2. conn[u] = "registered"
        BY <1>1, <1>2, <3>3
      <4>3. QED BY <1>2, <2>1, <2>2, <3>1, <4>1, <4>2 DEF CleanTurn
    <3>4. QED BY <3>2, <3>3
  <2>4. CASE Hangup(t)
    <3>1. /\ process[t] # "running"
          /\ \A c \in Chats : table'[c] = table[c] \/ (c = chatOf[t] /\ table[c] = t /\ table'[c] = None)
      BY <2>4, <1>0, HangupFacts DEF Base
    <3>2. u # t
      BY <1>2, <3>1
    <3>3. table[chatOf[u]] = u
      BY <1>1, <1>2, <2>1, <3>2 DEF CleanTurn
    <3>4. QED BY <2>2, <3>1, <3>2, <3>3
  <2>5. QED BY <2>3, <2>4
<1>3. ASSUME NEW u \in Turns PROVE CleanTurn(u)'
  <2>1. CleanTurn(u) /\ (Clean(u)' => Clean(u))
    BY <1>0, StaysClean DEF CleanInv, CleanTurn
  <2>2. conn[u] # "dialled" /\ Absent(u) => Absent(u)'
    BY <1>0, StaysAbsent
  <2>3. conn[u] # "dialled" => conn'[u] # "dialled"
    BY <1>0, TurnsStay DEF Base
  <2>4. \A i \in DOMAIN queue[u] : conn[u] # "dialled"
    <3>1. DOMAIN <<>> = {}
      OBVIOUS
    <3>2. QED BY <1>0, <3>1 DEF Base, ConnInv
  <2>5. QED BY <1>1, <1>2, <2>1, <2>2, <2>3, <2>4 DEF CleanTurn
<1>4. QED
  BY <1>1, <1>3 DEF CleanInv, CleanTurn

LEMMA RelayClean ==
  ASSUME IInv, [Next]_vars, NEW t \in Turns, Relay(t)
  PROVE  CleanInv'
<1>0. Base /\ WireInv /\ CleanInv
  BY DEF IInv
<1>1. /\ queue' = [queue EXCEPT ![t] = Tail(queue[t])]
      /\ printed' = [printed EXCEPT ![t] = Append(printed[t], Head(queue[t]))]
      /\ queue[t] # <<>>
      /\ chatOf' = chatOf /\ process' = process /\ conn' = conn /\ table' = table
      /\ routed' = routed /\ crowded' = crowded /\ Turns' = Turns
  BY DEF Relay, Turns
<1>2. \A u \in Turns : /\ queue'[u] = IF u = t THEN Tail(queue[t]) ELSE queue[u]
                       /\ printed'[u] = IF u = t THEN Append(printed[t], Head(queue[t])) ELSE printed[u]
  BY <1>0, <1>1, TypesFacts DEF Base, Facts
<1>3. queue[t] \in Seq(Env) /\ printed[t] \in Seq(Env)
  BY <1>0, TypesFacts DEF Base, Facts
<1>4. \A i \in DOMAIN Tail(queue[t]) : i + 1 \in DOMAIN queue[t] /\ Tail(queue[t])[i] = queue[t][i + 1]
  <2>1. /\ Tail(queue[t]) \in Seq(Env) /\ Len(Tail(queue[t])) = Len(queue[t]) - 1
        /\ \A i \in 1..Len(Tail(queue[t])) : Tail(queue[t])[i] = queue[t][i + 1]
        /\ Len(queue[t]) \in Nat
    BY <1>1, <1>3, HeadTailProperties, LenProperties
  <2>2. DOMAIN Tail(queue[t]) = 1..Len(queue[t]) - 1 /\ DOMAIN queue[t] = 1..Len(queue[t])
    BY <1>3, <2>1, LenProperties
  <2>3. QED BY <2>1, <2>2
<1>5. Append(printed[t], Head(queue[t])) \o Tail(queue[t]) = printed[t] \o queue[t]
  BY <1>1, <1>3, Moved
<1>6. ASSUME NEW u \in Turns PROVE CleanTurn(u)'
  <2>1. CleanTurn(u) /\ (Clean(u)' => Clean(u))
    BY <1>0, StaysClean DEF CleanInv, CleanTurn
  <2>2. conn[u] # "dialled" /\ Absent(u) => Absent(u)'
    BY <1>0, StaysAbsent
  <2>3. \A i \in DOMAIN queue[u] : conn[u] # "dialled"
    <3>1. DOMAIN <<>> = {}
      OBVIOUS
    <3>2. QED BY <1>0, <3>1 DEF Base, ConnInv
  <2>4. CASE u # t
    BY <1>1, <1>2, <2>1, <2>2, <2>3, <2>4 DEF CleanTurn
  <2>5. CASE u = t
    <3>1. \A i \in DOMAIN queue'[t] : \E j \in DOMAIN queue[t] : queue'[t][i] = queue[t][j]
      BY <1>2, <1>4
    <3>2. printed'[t] \o queue'[t] = printed[t] \o queue[t]
      BY <1>2, <1>5
    <3>3. process[t] = "running"
      BY DEF Relay
    <3>4. Clean(t) => \A i \in DOMAIN queue'[t] : queue'[t][i].of = t /\ (queue'[t][i].last => Absent(t)')
      BY <2>1, <2>2, <2>3, <2>5, <3>1, <3>3 DEF CleanTurn
    <3>5. QED BY <1>1, <2>1, <2>5, <3>2, <3>3, <3>4 DEF CleanTurn
  <2>6. QED BY <2>4, <2>5
<1>7. QED
  BY <1>1, <1>6 DEF CleanInv, CleanTurn

\* An envelope that comes to the router while a clean turn of its chat runs is
\* that turn's, and goes to its queue; with its last one, nothing more is to come.
LEMMA RouteClean ==
  ASSUME IInv, [Next]_vars, NEW k \in Links, Route(k),
         NEW e, e = Head(wire[k]), NEW r, r = Recipient(e)
  PROVE  CleanInv'
<1>0. Base /\ WireInv /\ CleanInv
  BY DEF IInv
<1>1. /\ 1 \in DOMAIN wire[k] /\ wire[k][1] = e /\ e \in Env
      /\ chatOf' = chatOf /\ process' = process /\ printed' = printed /\ conn' = conn
      /\ table' = table /\ Turns' = Turns
  BY <1>0, RouteFacts, TypesFacts, LenProperties DEF Base, Facts
<1>2. ASSUME e.of # None
      PROVE  /\ e.of \in Turns /\ chatOf[e.of] = e.chat /\ conn[e.of] # "dialled"
             /\ e.last => Absent(e.of)'
  <2>1. /\ e.of \in Turns /\ chatOf[e.of] = e.chat /\ conn[e.of] # "dialled"
        /\ \A j \in DOMAIN down : down[j] # e.of
        /\ \A c \in Chats : inFlight[c] = e.of => ~e.last
        /\ \A j \in DOMAIN wire[k] : wire[k][j].of = e.of /\ 1 < j => ~e.last
        /\ \A l \in Links : l # k => ~OnWire(e.of, l)
    BY <1>0, <1>1, <1>2 DEF WireInv
  <2>2. /\ Len(wire[k]) \in Nat \ {0} /\ DOMAIN wire[k] = 1..Len(wire[k])
        /\ \A i \in 1..Len(wire[k]) - 1 : wire'[k][i] = wire[k][i + 1]
        /\ DOMAIN wire'[k] = 1..Len(wire[k]) - 1
        /\ \A l \in Links : l # k => wire'[l] = wire[l]
        /\ Links' = Links /\ inFlight' = inFlight /\ down' = down
    BY <1>0, RouteFacts, TypesFacts, LenProperties DEF Base, Facts
  <2>3. ASSUME e.last, NEW i \in DOMAIN wire'[k] PROVE wire'[k][i].of # e.of
    <3>1. i + 1 \in DOMAIN wire[k] /\ 1 < i + 1 /\ wire'[k][i] = wire[k][i + 1]
      BY <2>2
    <3>2. QED BY <2>1, <2>3, <3>1
  <2>4. ASSUME e.last, NEW l \in Links PROVE ~OnWire(e.of, l)'
    <3>1. CASE l = k
      BY <2>3, <2>4, <3>1 DEF OnWire
    <3>2. CASE l # k
      BY <2>1, <2>2, <3>2 DEF OnWire
    <3>3. QED BY <3>1, <3>2
  <2>5. ASSUME e.last PROVE Absent(e.of)'
    BY <2>1, <2>2, <2>4, <2>5 DEF Absent
  <2>6. QED BY <2>1, <2>5
<1>3. e.chat \in Chats
  BY <1>1 DEF Env
<1>4. r # None => r \in Turns /\ chatOf[r] = e.chat
  BY <1>0, <1>3 DEF Recipient, Base, Types, TableInv
<1>5. \A u \in Turns : queue[u] \in Seq(Env) /\ printed[u] \in Seq(Env) /\ routed[u] \in Seq(Env)
  BY <1>0, TypesFacts DEF Base, Facts
\* Whose the envelope is.
<1>6. ASSUME NEW u \in Turns, Clean(u)', process[u] = "running", e.of # None, chatOf[u] = e.chat
      PROVE  e.of = u /\ r = u
  <2>0. (\A v \in Turns : CleanTurn(v)) /\ e.of \in Turns /\ chatOf[e.of] = e.chat
    BY <1>0, <1>2, <1>6 DEF CleanInv, CleanTurn
  <2>1. CleanTurn(u) /\ Clean(u) /\ \A v \in Before(u) : CleanTurn(v) /\ Clean(v) /\ process[v] = "done"
    BY <1>0, <1>6, <2>0, StaysClean DEF Before
  <2>2. e.of = u
    <3>1. SUFFICES ASSUME e.of # u PROVE FALSE
      OBVIOUS
    <3>2. e.of <= u
      BY <1>0, <1>2, <1>6 DEF Base, OneAtATime
    <3>3. e.of \in Before(u)
      <4>0. \A v \in Turns : v \in Nat
        BY <1>0, TypesFacts DEF Base, Facts
      <4>1. e.of \in Nat /\ u \in Nat
        BY <2>0, <4>0
      <4>2. e.of < u
        BY ONLY <3>1, <3>2, <4>1, SMT
      <4>3. QED BY <1>6, <2>0, <4>2 DEF Before
    <3>4. Absent(e.of)
      BY <2>1, <3>3 DEF CleanTurn
    <3>5. QED BY <1>1, <3>4 DEF Absent, OnWire
  <2>3. conn[u] = "registered"
    <3>1. conn[u] # "over" /\ conn[u] # "dialled"
      BY <1>0, <1>2, <1>6, <2>2 DEF Base, ConnInv
    <3>2. QED BY <1>0, <3>1, TypesFacts DEF Base, Facts, Tasks
  <2>4. table[e.chat] = u
    BY <1>6, <2>1, <2>3 DEF CleanTurn
  <2>5. QED BY <2>2, <2>4 DEF Recipient
\* What becomes of a running turn's queue.
<1>7. ASSUME NEW u \in Turns, Clean(u)', process[u] = "running"
      PROVE  \/ /\ queue'[u] = queue[u] /\ routed'[u] = routed[u] /\ (u \in crowded => u \in crowded')
             \/ u \in crowded' /\ queue'[u] = queue[u]
             \/ /\ e.of = u /\ queue'[u] = Append(queue[u], e) /\ routed'[u] = Append(routed[u], e)
                /\ (u \in crowded => u \in crowded')
  <2>1. CASE RouteProactive(e)
    BY <2>1 DEF RouteProactive
  <2>2. CASE RouteEnvelope(e) /\ chatOf[u] # e.chat
    <3>1. r # u /\ e.of # u
      <4>1. e.of # u
        BY <1>2, <2>2 DEF RouteEnvelope
      <4>2. r # u
        BY <1>4, <2>2, NoneIsNoTurn, <1>0 DEF Base
      <4>3. QED BY <4>1, <4>2
    <3>2. queue'[u] = queue[u] /\ routed'[u] = routed[u]
      <4>1. routed'[u] = routed[u]
        BY <2>2, <3>1, <1>0, TypesFacts DEF RouteEnvelope, Base, Facts
      <4>2. queue' = queue \/ queue' = [queue EXCEPT ![r] = Append(@, e)]
        BY <2>2 DEF RouteEnvelope
      <4>3. queue'[u] = queue[u]
        BY <4>2, <3>1, <1>0, TypesFacts DEF Base, Facts
      <4>4. QED BY <4>1, <4>3
    <3>3. u \in crowded => u \in crowded'
      BY <2>2 DEF RouteEnvelope
    <3>4. QED BY <3>2, <3>3
  <2>3. CASE RouteEnvelope(e) /\ chatOf[u] = e.chat
    <3>0. e.of # None
      BY <2>3 DEF RouteEnvelope
    <3>1. e.of = u /\ r = u /\ u # None
      BY <1>0, <1>6, <1>7, <2>3, <3>0, NoneIsNoTurn DEF Base
    <3>2. routed' = [routed EXCEPT ![u] = Append(routed[u], e)]
      BY <1>7, <2>3, <3>1 DEF RouteEnvelope
    <3>3. routed'[u] = Append(routed[u], e)
      BY <3>2, <1>0, TypesFacts DEF Base, Facts
    <3>4. CASE Len(queue[u]) < Capacity
      <4>1. queue' = [queue EXCEPT ![u] = Append(queue[u], e)] /\ crowded' = crowded
        BY <1>7, <2>3, <3>1, <3>4 DEF RouteEnvelope
      <4>2. queue'[u] = Append(queue[u], e)
        BY <4>1, <1>0, TypesFacts DEF Base, Facts
      <4>3. QED BY <3>1, <3>3, <4>1, <4>2
    <3>5. CASE ~(Len(queue[u]) < Capacity)
      BY <1>7, <2>3, <3>1, <3>5 DEF RouteEnvelope
    <3>6. QED BY <3>4, <3>5
  <2>4. QED BY <2>1, <2>2, <2>3 DEF Route
<1>8. ASSUME NEW u \in Turns PROVE CleanTurn(u)'
  <2>1. CleanTurn(u) /\ (Clean(u)' => Clean(u))
    BY <1>0, StaysClean DEF CleanInv, CleanTurn
  <2>2. conn[u] # "dialled" /\ Absent(u) => Absent(u)'
    BY <1>0, StaysAbsent
  <2>3. \A i \in DOMAIN queue[u] : conn[u] # "dialled"
    <3>1. DOMAIN <<>> = {}
      OBVIOUS
    <3>2. QED BY <1>0, <3>1 DEF Base, ConnInv
  <2>4. CASE Clean(u)' /\ process[u] = "running"
    <3>1. CASE queue'[u] = queue[u] /\ (u \in crowded' \/ (routed'[u] = routed[u] /\ (u \in crowded => u \in crowded')))
      BY <1>1, <2>1, <2>2, <2>3, <2>4, <3>1 DEF CleanTurn
    <3>2. CASE /\ e.of = u /\ queue'[u] = Append(queue[u], e) /\ routed'[u] = Append(routed[u], e)
               /\ (u \in crowded => u \in crowded')
      <4>1. u # None
        BY <1>0, NoneIsNoTurn DEF Base
      <4>2. printed[u] \o Append(queue[u], e) = Append(printed[u] \o queue[u], e)
        <5>1. e \in Env /\ printed[u] \in Seq(Env) /\ queue[u] \in Seq(Env)
          BY <1>1, <1>5
        <5>2. \A p, q \in Seq(Env) : \A x \in Env : p \o Append(q, x) = Append(p \o q, x)
          BY Queued
        <5>3. QED BY <5>1, <5>2, Zenon
      <4>3. \A i \in DOMAIN queue'[u] : \/ i \in DOMAIN queue[u] /\ queue'[u][i] = queue[u][i]
                                        \/ queue'[u][i] = e
        <5>1. /\ Append(queue[u], e) \in Seq(Env) /\ Len(queue[u]) \in Nat
              /\ Len(Append(queue[u], e)) = Len(queue[u]) + 1
              /\ \A i \in 1..Len(queue[u]) + 1 :
                   Append(queue[u], e)[i] = IF i <= Len(queue[u]) THEN queue[u][i] ELSE e
          BY <1>1, <1>5, Grow
        <5>2. DOMAIN Append(queue[u], e) = 1..Len(queue[u]) + 1 /\ DOMAIN queue[u] = 1..Len(queue[u])
          BY <1>5, <5>1, LenProperties
        <5>3. QED BY <3>2, <5>1, <5>2
      <4>4. \A i \in DOMAIN queue[u] : queue[u][i].of = u /\ (queue[u][i].last => Absent(u)')
        BY <2>1, <2>2, <2>3, <2>4 DEF CleanTurn
      <4>6. \A i \in DOMAIN queue'[u] : queue'[u][i].of = u /\ (queue'[u][i].last => Absent(u)')
        BY <1>2, <3>2, <4>1, <4>3, <4>4
      <4>7. QED BY <1>1, <2>1, <2>4, <3>2, <4>2, <4>6 DEF CleanTurn
    <3>3. QED BY <1>7, <2>4, <3>1, <3>2
  <2>5. CASE ~(Clean(u)' /\ process[u] = "running")
    BY <1>1, <2>1, <2>2, <2>5 DEF CleanTurn
  <2>6. QED BY <2>4, <2>5
<1>9. QED
  BY <1>1, <1>8 DEF CleanInv, CleanTurn

LEMMA StartTurnClean ==
  ASSUME IInv, [Next]_vars, NEW c \in Chats, StartTurn(c), NEW N, N = Len(chatOf)
  PROVE  CleanInv'
<1>0. Base /\ WireInv /\ CleanInv
  BY DEF IInv
<1>1. /\ N \in Nat /\ Turns = 1..N /\ Turns' = 1..N + 1
      /\ \A t \in 1..N + 1 : /\ chatOf'[t] = IF t <= N THEN chatOf[t] ELSE c
                             /\ process'[t] = IF t <= N THEN process[t] ELSE "running"
                             /\ conn'[t] = IF t <= N THEN conn[t] ELSE "dialled"
                             /\ queue'[t] = IF t <= N THEN queue[t] ELSE <<>>
                             /\ printed'[t] = IF t <= N THEN printed[t] ELSE <<>>
                             /\ routed'[t] = IF t <= N THEN routed[t] ELSE <<>>
  BY <1>0, StartTurnFacts DEF Base
<1>2. table' = table /\ crowded' = crowded
  BY StartTurnSame
<1>3. ASSUME NEW u \in Turns PROVE CleanTurn(u)'
  <2>1. CleanTurn(u) /\ (Clean(u)' => Clean(u))
    BY <1>0, StaysClean DEF CleanInv, CleanTurn
  <2>2. conn[u] # "dialled" /\ Absent(u) => Absent(u)'
    BY <1>0, StaysAbsent
  <2>3. \A i \in DOMAIN queue[u] : conn[u] # "dialled"
    <3>1. DOMAIN <<>> = {}
      OBVIOUS
    <3>2. QED BY <1>0, <3>1 DEF Base, ConnInv
  <2>4. /\ chatOf'[u] = chatOf[u] /\ process'[u] = process[u] /\ conn'[u] = conn[u]
        /\ queue'[u] = queue[u] /\ printed'[u] = printed[u] /\ routed'[u] = routed[u]
    BY <1>1
  <2>5. QED BY <1>2, <2>1, <2>2, <2>3, <2>4 DEF CleanTurn
<1>4. CleanTurn(N + 1)'
  <2>1. /\ process'[N + 1] = "running" /\ conn'[N + 1] = "dialled" /\ queue'[N + 1] = <<>>
        /\ printed'[N + 1] = <<>> /\ routed'[N + 1] = <<>>
    BY <1>1
  <2>2. DOMAIN <<>> = {} /\ <<>> \o <<>> = <<>>
    BY ConcatEmptySeq, EmptySeq
  <2>3. QED BY <2>1, <2>2 DEF CleanTurn
<1>5. ASSUME NEW u \in Turns' PROVE CleanTurn(u)'
  <2>1. u \in Turns \/ u = N + 1
    BY <1>1
  <2>2. QED BY <1>3, <1>4, <2>1
<1>6. QED
  BY <1>5 DEF CleanInv, CleanTurn

LEMMA QuietClean ==
  ASSUME IInv, [Next]_vars,
         chatOf' = chatOf, process' = process, printed' = printed, queue' = queue,
         conn' = conn, table' = table, routed' = routed, crowded' = crowded
  PROVE  CleanInv'
<1>0. Base /\ WireInv /\ CleanInv /\ Turns' = Turns
  BY DEF IInv, Turns
<1>1. ASSUME NEW u \in Turns PROVE CleanTurn(u)'
  <2>1. CleanTurn(u) /\ (Clean(u)' => Clean(u))
    BY <1>0, StaysClean DEF CleanInv, CleanTurn
  <2>2. conn[u] # "dialled" /\ Absent(u) => Absent(u)'
    BY <1>0, StaysAbsent
  <2>3. \A i \in DOMAIN queue[u] : conn[u] # "dialled"
    <3>1. DOMAIN <<>> = {}
      OBVIOUS
    <3>2. QED BY <1>0, <3>1 DEF Base, ConnInv
  <2>4. QED BY <2>1, <2>2, <2>3 DEF CleanTurn
<1>2. QED
  BY <1>0, <1>1 DEF CleanInv, CleanTurn

LEMMA StepClean == IInv /\ [Next]_vars => CleanInv'
<1> SUFFICES ASSUME IInv, [Next]_vars PROVE CleanInv'
  OBVIOUS
<1>1. ASSUME NEW t \in Turns, TurnStep(t) PROVE CleanInv'
  <2>1. CASE RelayLast(t)
    BY <2>1, EndClean DEF RelayLast
  <2>2. CASE IdleTimeout(t) \/ Abort(t)
    BY <2>2, EndClean DEF IdleTimeout, Abort
  <2>3. QED
    BY <1>1, <2>1, <2>2, RelayClean, TableClean DEF TurnStep
<1>2. ASSUME NEW k \in Links, LinkStep(k) PROVE CleanInv'
  <2>1. CASE PluginHello(k) \/ PluginHangup(k)
    BY <2>1, QuietClean DEF PluginHello, PluginHangup, trampolines
  <2>2. QED
    BY <1>2, <2>1, RouteClean DEF LinkStep
<1>3. ASSUME NEW c \in Chats, ChatStep(c) PROVE CleanInv'
  <2>1. CASE Say(c) \/ Finish(c) \/ Send(c)
    BY <2>1, QuietClean DEF Say, Finish, Send, trampolines, router
  <2>2. QED
    BY <1>3, <2>1, StartTurnClean DEF ChatStep
<1>4. CASE StartGateway \/ Dial \/ Disconnect \/ Dispatch \/ UNCHANGED vars
  BY <1>4, QuietClean DEF StartGateway, Dial, Disconnect, Dispatch, vars, trampolines, router
<1>5. QED
  BY <1>1, <1>2, <1>3, <1>4 DEF Next

LEMMA InitIInv == Init => IInv
<1> SUFFICES ASSUME Init PROVE IInv
  OBVIOUS
<1>1. Turns = {} /\ Links = {}
  <2>1. DOMAIN <<>> = {}
    OBVIOUS
  <2>2. QED BY <2>1 DEF Init, Turns, Links
<1>2. QED
  BY <1>1, InitBase DEF IInv, WireInv, CleanInv

LEMMA Invariant == Spec => []IInv
<1>1. IInv /\ [Next]_vars => IInv'
  BY StepBase, StepWire, StepClean DEF IInv
<1>2. QED
  BY <1>1, InitIInv, PTL DEF Spec

-----------------------------------------------------------------------------
(* What follows                                                            *)

\* As long as no turn of a chat was cut short and no queue was full, a running
\* trampoline has printed, or has before it, exactly what the router had of its
\* own turn: the router's table of trampolines and its clean-ups guarded by
\* same_channel (socket_server.rs), for any number of chats, turns, links of
\* the plugin and cron deliveries, and any capacity of the queues.
THEOREM Exact == Spec => []RelayIsExact
<1>1. IInv => RelayIsExact
  BY DEF IInv, CleanInv, CleanTurn, Clean, RelayIsExact
<1>2. QED
  BY <1>1, Invariant, PTL

\* Of a chat whose turns have all ended with a result so far, the next one that
\* does ends with its own, and nothing of it is left at the plugin or on a wire.
CleanEnds ==
  [][\A t \in Turns : RelayLast(t) /\ (\A u \in Before(t) : process[u] = "done") =>
       Head(queue[t]).of = t /\ Absent(t)]_vars

\* When the plugin's reliance on the router (hermes_plugin/adapter.py, the
\* refusal of a second turn of a chat) is justified: it takes an earlier turn
\* that was aborted or timed out for a turn to end with another's result.
THEOREM CleanTurnsEndWithTheirOwn == Spec => CleanEnds
<1>1. ASSUME IInv, NEW t \in Turns, RelayLast(t), Clean(t)
      PROVE  Head(queue[t]).of = t /\ Absent(t)
  <2>1. queue[t] \in Seq(Env) /\ queue[t] # <<>> /\ Head(queue[t]).last /\ process[t] = "running"
    BY <1>1, TypesFacts DEF IInv, Base, Facts, RelayLast
  <2>2. 1 \in DOMAIN queue[t] /\ Head(queue[t]) = queue[t][1]
    BY <2>1, EmptySeq, LenProperties
  <2>3. CleanTurn(t)
    BY <1>1 DEF IInv, CleanInv, CleanTurn
  <2>4. QED BY <1>1, <2>1, <2>2, <2>3 DEF CleanTurn
<1>2. IInv => [\A t \in Turns : RelayLast(t) /\ (\A u \in Before(t) : process[u] = "done") =>
                 Head(queue[t]).of = t /\ Absent(t)]_vars
  BY <1>1 DEF Clean
<1>3. QED
  BY <1>2, Invariant, PTL DEF CleanEnds
==============================================================================
