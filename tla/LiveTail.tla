------------------------------ MODULE LiveTail ------------------------------
(***************************************************************************)
(* Live tail: the fan-out the flusher publishes to                         *)
(* (src/internal/ingest/fanout.go), the two WebSocket servers that share   *)
(* it (src/internal/ws/server.go; src/cmd/logpond/main.go builds one that  *)
(* sends JSON and one that sends HTML and drops status frames), and the    *)
(* memory watchdog (src/internal/metrics/watchdog.go), which knows only    *)
(* the JSON server.                                                        *)
(*                                                                         *)
(* A client makes one connection.  Its goroutines are the handler with its *)
(* select loop, the reader, which fills a channel of one message, and the  *)
(* writer, which empties a queue of frames into the socket.  Events are    *)
(* the numbers 1, 2, ... in the order of publication; a subscription       *)
(* matches all of them or the odd ones.  Time is not counted: a heartbeat, *)
(* the end of a rate window and the end of the pressure the watchdog       *)
(* tolerates may come at any moment, and a write or a wait for room runs   *)
(* into its grace only when nothing drains the queue.                      *)
(***************************************************************************)
EXTENDS Naturals, FiniteSets, Sequences, SequencesExt

CONSTANTS
    Clients,
    MaxClients,     \* the cap, of each server
    SendCap,        \* capacity of a subscription's channel
    WriteCap,       \* capacity of a connection's write queue
    RateCap,        \* events per rate window
    Scenarios       \* bound: the clients that dial either server and how
                    \* much the environment does in a behaviour

Budgets == [json : SUBSET Clients, html : SUBSET Clients, events : Nat,
            messages : Nat, swings : Nat, breaks : Nat]

ASSUME LiveTailAssumption ==
    /\ IsFiniteSet(Clients)
    /\ {MaxClients, SendCap, WriteCap, RateCap} \subseteq Nat \ {0}
    /\ Scenarios \subseteq Budgets

VARIABLES
    left,       \* what the environment may still do, a scenario
    pressure,   \* the heap is above the watchdog's threshold
    dog,        \* the watchdog: where it is, overSince, the client it sheds
    accepting,  \* the JSON server's flag; nobody clears the HTML server's
    slots,      \* server -> its atomic counter of clients
    registry,   \* server -> its clients by age
    conn,       \* client -> its handler goroutine
    inbox,      \* client -> the channel from its reader
    writer,     \* client -> its write queue and its writer goroutine
    sub,        \* client -> its subscription
    subs,       \* the fan-out's map of subscribers
    pub,        \* the Publish call in progress
    stalled, gone,      \* clients that stopped reading, that disconnected
    told, delivered,    \* history: the last status a client got, its events
    offered, skipped    \* history: events published to it, passed over

vars == <<left, pressure, dog, accepting, slots, registry, conn, inbox, writer,
          sub, subs, pub, stalled, gone, told, delivered, offered, skipped>>

Servers   == {"json", "html"}
Server(c) == IF c \in left.html THEN "html" ELSE "json"

Filters == {"all", "odd"}
Match(filter, e) == filter = "all" \/ e % 2 = 1

\* What parseSubscribe makes of a frame, and the reader's error.
Messages == Filters \cup {"invalid", "empty", "error"}

\* The codes a connection is closed with.
StatusNormalClosure == 1000
CloseFilterRequired == 4001
CloseInvalidFilter  == 4002
CloseSlowClient     == 4003
CloseTooManyClients == 4004
Codes == {0, StatusNormalClosure, CloseFilterRequired, CloseInvalidFilter,
          CloseSlowClient, CloseTooManyClients}

Frame(e) == [event |-> e, filter |-> "", capped |-> FALSE, dropped |-> 0]
NoFrame == Frame(0)

NoConn == [at |-> "idle", filter |-> "", capped |-> FALSE, dropped |-> 0,
           count |-> 0, frame |-> NoFrame, cancelled |-> FALSE, code |-> 0]

Init ==
    /\ left \in Scenarios
    /\ pressure = FALSE
    /\ dog = [at |-> "idle", over |-> "zero", victim |-> {}]
    /\ accepting = TRUE
    /\ slots = [s \in Servers |-> 0]
    /\ registry = [s \in Servers |-> <<>>]
    /\ conn = [c \in Clients |-> NoConn]
    /\ inbox = [c \in Clients |-> ""]
    /\ writer = [c \in Clients |-> [at |-> "none", q |-> <<>>, hand |-> <<>>, err |-> ""]]
    /\ sub = [c \in Clients |-> [state |-> "none", events |-> <<>>, dropped |-> 0]]
    /\ subs = {}
    /\ pub = [last |-> 0, first |-> 0, next |-> 0, todo |-> {}, now |-> {}]
    /\ stalled = {} /\ gone = {}
    /\ told = [c \in Clients |-> NoFrame]
    /\ delivered = [c \in Clients |-> <<>>]
    /\ offered = [c \in Clients |-> 0]
    /\ skipped = [c \in Clients |-> 0]

envVars   == <<left, pressure, stalled, gone>>
dogVars   == <<dog, accepting>>
fanVars   == <<sub, subs, pub>>
wireVars  == <<told, delivered, offered, skipped>>
countVars == <<slots, registry>>

Goto(c, at) == conn' = [conn EXCEPT ![c].at = at]

-----------------------------------------------------------------------------
(* Handle: the accepting check, the counter, the upgrade, the registry. *)

\* acceptingNewClients reads the flag and releases the lock.
Dial(c) ==
    /\ conn[c].at = "idle" /\ c \in left.json \cup left.html
    /\ Goto(c, IF c \in left.html \/ accepting THEN "checked" ELSE "done")
    /\ UNCHANGED <<envVars, dogVars, countVars, inbox, writer, fanVars,
                   wireVars>>

CountLate(c) ==        \* mutant: compares the value before the addition
    /\ conn[c].at = "checked"
    /\ slots' = [slots EXCEPT ![Server(c)] = @ + 1]
    /\ Goto(c, IF slots[Server(c)] > MaxClients THEN "over" ELSE "counted")
    /\ UNCHANGED <<envVars, dogVars, registry, inbox, writer, fanVars,
                   wireVars>>

\* clients.Add(1) and the comparison of the value it returns.
Count(c) ==
    /\ conn[c].at = "checked"
    /\ slots' = [slots EXCEPT ![Server(c)] = @ + 1]
    /\ Goto(c, IF slots'[Server(c)] > MaxClients THEN "over" ELSE "counted")
    /\ UNCHANGED <<envVars, dogVars, registry, inbox, writer, fanVars,
                   wireVars>>

\* Over the cap: clients.Add(-1), then the upgrade and the close.
Refuse(c) ==
    /\ conn[c].at = "over"
    /\ slots' = [slots EXCEPT ![Server(c)] = @ - 1]
    /\ conn' = [conn EXCEPT ![c].at = "done", ![c].code = CloseTooManyClients]
    /\ UNCHANGED <<envVars, dogVars, registry, inbox, writer, fanVars,
                   wireVars>>

\* websocket.Accept, which fails for a client that left, and registerClient.
Register(c) ==
    /\ conn[c].at = "counted"
    /\ IF c \in gone
       THEN Goto(c, "release") /\ UNCHANGED registry
       ELSE /\ Goto(c, "await")
            /\ registry' = [registry EXCEPT ![Server(c)] = Append(@, c)]
    /\ UNCHANGED <<envVars, dogVars, slots, inbox, writer, fanVars, wireVars>>

-----------------------------------------------------------------------------
(* runConnection. *)

\* closeWith, with the code the handler closes with; then the defers run.
CloseWith(c, code) ==
    conn' = [conn EXCEPT ![c].code = code, ![c].frame = NoFrame,
                         ![c].at = IF sub[c].state = "none" THEN "unregister"
                                                            ELSE "cancel"]

\* enqueue: a frame that is not nil goes into the write queue at once, or
\* the handler, whose state becomes to, waits for room and for nothing else.
Put(c, to, frame) ==
    LET nil  == c \in left.html /\ frame.event = 0
        room == Len(writer[c].q) < WriteCap
    IN /\ conn' = [conn EXCEPT ![c] =
             IF nil \/ room THEN to ELSE [to EXCEPT !.at = "wait", !.frame = frame]]
       /\ writer' = IF nil \/ ~room THEN writer
                    ELSE [writer EXCEPT ![c].q = Append(@, frame)]

StatusOf(to) == [event |-> 0, filter |-> to.filter, capped |-> to.capped,
                 dropped |-> to.dropped]

CodeFor == [error |-> StatusNormalClosure, empty |-> CloseFilterRequired,
            invalid |-> CloseInvalidFilter]

\* The first message: the connection closes, or the writer starts and the
\* subscription is acknowledged before the fan-out knows of it.
FirstMessage(c) ==
    /\ conn[c].at = "await" /\ inbox[c] # ""
    /\ inbox' = [inbox EXCEPT ![c] = ""]
    /\ IF inbox[c] \in Filters
       THEN LET to == [conn[c] EXCEPT !.filter = inbox[c]]
                nil == c \in left.html
            IN /\ conn' = [conn EXCEPT ![c] = [to EXCEPT !.at = "subscribe"]]
               /\ writer' = [writer EXCEPT ![c].at = "idle",
                                ![c].q = IF nil THEN <<>> ELSE <<StatusOf(to)>>]
       ELSE CloseWith(c, CodeFor[inbox[c]]) /\ UNCHANGED writer
    /\ UNCHANGED <<envVars, dogVars, countVars, fanVars, wireVars>>

\* fanout.Subscribe.
Subscribe(c) ==
    /\ conn[c].at = "subscribe"
    /\ sub' = [sub EXCEPT ![c].state = "open"]
    /\ subs' = subs \cup {c}
    /\ Goto(c, "loop")
    /\ UNCHANGED <<envVars, dogVars, countVars, inbox, writer, pub, wireVars>>

\* case <-ctx.Done(), before the first message and in the loop.
ContextDone(c) ==
    /\ conn[c].at \in {"await", "loop"} /\ conn[c].cancelled
    /\ CloseWith(c, StatusNormalClosure)
    /\ UNCHANGED <<envVars, dogVars, countVars, inbox, writer, fanVars,
                   wireVars>>

\* case err := <-writeErrCh
WriteError(c) ==
    /\ conn[c].at = "loop" /\ writer[c].err # ""
    /\ CloseWith(c, IF writer[c].err = "slow" THEN CloseSlowClient ELSE StatusNormalClosure)
    /\ UNCHANGED <<envVars, dogVars, countVars, inbox, writer, fanVars,
                   wireVars>>

NextMessageSilent(c) ==     \* mutant: the new subscription is not acknowledged
    /\ conn[c].at = "loop" /\ inbox[c] # ""
    /\ inbox' = [inbox EXCEPT ![c] = ""]
    /\ IF inbox[c] \in Filters
       THEN conn' = [conn EXCEPT ![c].filter = inbox[c]]
       ELSE CloseWith(c, CodeFor[inbox[c]])
    /\ UNCHANGED <<envVars, dogVars, countVars, writer, fanVars, wireVars>>

\* case msg := <-subCh: the new subscription replaces the old one and is
\* acknowledged.
NextMessage(c) ==
    /\ conn[c].at = "loop" /\ inbox[c] # ""
    /\ inbox' = [inbox EXCEPT ![c] = ""]
    /\ IF inbox[c] \in Filters
       THEN LET to == [conn[c] EXCEPT !.filter = inbox[c]]
            IN Put(c, to, StatusOf(to))
       ELSE CloseWith(c, CodeFor[inbox[c]]) /\ UNCHANGED writer
    /\ UNCHANGED <<envVars, dogVars, countVars, fanVars, wireVars>>

\* case <-heartbeat.C
Heartbeat(c) ==
    /\ conn[c].at = "loop"
    /\ Put(c, conn[c], StatusOf(conn[c]))
    /\ UNCHANGED <<envVars, dogVars, countVars, inbox, fanVars, wireVars>>

\* case ev := <-stream.Events: the filter, the rate limiter (whose window
\* may have ended since), the event or one status when the cap begins to bite.
TakeEvent(c) ==
    /\ conn[c].at = "loop" /\ sub[c].events # <<>>
    /\ sub' = [sub EXCEPT ![c].events = Tail(@)]
    /\ LET e == Head(sub[c].events)
       IN IF ~Match(conn[c].filter, e)
          THEN /\ skipped' = [skipped EXCEPT ![c] = @ + 1]
               /\ UNCHANGED <<conn, writer>>
          ELSE /\ \E count \in {conn[c].count, 0} :
                    IF count < RateCap
                    THEN Put(c, [conn[c] EXCEPT !.count = count + 1,
                                                !.capped = FALSE],
                             Frame(e))
                    ELSE LET to == [conn[c] EXCEPT !.dropped = @ + 1,
                                                   !.capped = TRUE]
                         IN IF conn[c].capped
                            THEN conn' = [conn EXCEPT ![c] = to] /\ UNCHANGED writer
                            ELSE Put(c, to, StatusOf(to))
               /\ UNCHANGED skipped
    /\ UNCHANGED <<envVars, dogVars, countVars, inbox, subs, pub, told, delivered,
                   offered>>

\* enqueue's second select: room, or the end of the grace.
Room(c) ==
    /\ conn[c].at = "wait" /\ Len(writer[c].q) < WriteCap
    /\ writer' = [writer EXCEPT ![c].q = Append(@, conn[c].frame)]
    /\ conn' = [conn EXCEPT ![c].at = "loop", ![c].frame = NoFrame]
    /\ UNCHANGED <<envVars, dogVars, countVars, inbox, fanVars, wireVars>>

GraceWithWriter(c) ==       \* mutant: relies on the writer to report the timeout
    /\ conn[c].at = "wait" /\ Len(writer[c].q) = WriteCap
    /\ writer[c].err # ""
    /\ CloseWith(c, CloseSlowClient)
    /\ UNCHANGED <<envVars, dogVars, countVars, inbox, writer, fanVars,
                   wireVars>>

GraceOver(c) ==
    /\ conn[c].at = "wait" /\ Len(writer[c].q) = WriteCap
    /\ c \in stalled \/ writer[c].at = "stopped"
    /\ CloseWith(c, CloseSlowClient)
    /\ UNCHANGED <<envVars, dogVars, countVars, inbox, writer, fanVars,
                   wireVars>>

\* The deferred calls: Subscription.Cancel closes the channel under its own
\* lock and then leaves the map; the writer stops; the handler unregisters
\* and gives its slot back.
CancelStream(c) ==
    /\ conn[c].at = "cancel"
    /\ sub' = [sub EXCEPT ![c].state = "closed"]
    /\ Goto(c, "leave")
    /\ UNCHANGED <<envVars, dogVars, countVars, inbox, writer, subs, pub,
                   wireVars>>

LeaveFanout(c) ==
    /\ conn[c].at = "leave"
    /\ subs' = subs \ {c}
    /\ Goto(c, "unregister")
    /\ UNCHANGED <<envVars, dogVars, countVars, inbox, writer, sub, pub,
                   wireVars>>

UnregisterFirst(c) ==   \* mutant: drops the first of the registry
    /\ conn[c].at = "unregister"
    /\ writer' = [writer EXCEPT ![c] = [at |-> "stopped", q |-> <<>>,
                                        hand |-> <<>>, err |-> ""]]
    /\ registry' = [registry EXCEPT ![Server(c)] = IF @ = <<>> THEN @ ELSE Tail(@)]
    /\ conn' = [conn EXCEPT ![c].at = "release", ![c].cancelled = TRUE]
    /\ UNCHANGED <<envVars, dogVars, slots, inbox, fanVars, wireVars>>

\* unregisterClient's loop over the registry.
Without(clients, c) ==
    IF c \in ToSet(clients)
    THEN RemoveAt(clients, CHOOSE i \in DOMAIN clients : clients[i] = c)
    ELSE clients

Unregister(c) ==
    /\ conn[c].at = "unregister"
    /\ writer' = [writer EXCEPT ![c] = [at |-> "stopped", q |-> <<>>,
                                        hand |-> <<>>, err |-> ""]]
    /\ registry' = [registry EXCEPT ![Server(c)] = Without(@, c)]
    /\ conn' = [conn EXCEPT ![c].at = "release", ![c].cancelled = TRUE]
    /\ UNCHANGED <<envVars, dogVars, slots, inbox, fanVars, wireVars>>

Release(c) ==
    /\ conn[c].at = "release"
    /\ slots' = [slots EXCEPT ![Server(c)] = @ - 1]
    /\ Goto(c, "done")
    /\ UNCHANGED <<envVars, dogVars, registry, inbox, writer, fanVars,
                   wireVars>>

-----------------------------------------------------------------------------
(* writeLoop and readLoop. *)

WriterTakes(c) ==
    /\ writer[c].at = "idle"
    /\ \/ /\ conn[c].cancelled
          /\ writer' = [writer EXCEPT ![c].at = "stopped"]
       \/ /\ writer[c].q # <<>>
          /\ writer' = [writer EXCEPT ![c].at = "write", ![c].q = Tail(@),
                                      ![c].hand = <<Head(writer[c].q)>>]
    /\ UNCHANGED <<envVars, dogVars, countVars, conn, inbox, fanVars, wireVars>>

\* conn.Write: the frame goes out; or its deadline ends, its context is
\* cancelled or the peer is gone, and the writer reports and returns.
Write(c) ==
    /\ writer[c].at = "write"
    /\ IF c \notin stalled \cup gone /\ ~conn[c].cancelled /\ conn[c].code = 0
       THEN /\ LET f == Head(writer[c].hand)
               IN IF f.event = 0
                  THEN told' = [told EXCEPT ![c] = f] /\ UNCHANGED delivered
                  ELSE /\ delivered' = [delivered EXCEPT ![c] = Append(@, f.event)]
                       /\ UNCHANGED told
            /\ writer' = [writer EXCEPT ![c].at = "idle", ![c].hand = <<>>]
       ELSE /\ writer' = [writer EXCEPT ![c].at = "stopped", ![c].hand = <<>>,
                              ![c].err = CASE conn[c].cancelled -> ""
                                           [] c \in gone -> "net"
                                           [] OTHER -> "slow"]
            /\ UNCHANGED <<told, delivered>>
    /\ UNCHANGED <<envVars, dogVars, countVars, conn, inbox, fanVars, offered,
                   skipped>>

Reading(c) == conn[c].at \in {"await", "subscribe", "loop", "wait"}

\* The reader hands over what the client sends, when its channel has room.
Say(c) ==
    /\ Reading(c) /\ inbox[c] = "" /\ c \notin gone
    /\ left.messages > 0
    /\ left' = [left EXCEPT !.messages = @ - 1]
    /\ \E m \in Messages \ {"error"} : inbox' = [inbox EXCEPT ![c] = m]
    /\ UNCHANGED <<pressure, stalled, gone, dogVars, countVars, conn, writer,
                   fanVars, wireVars>>

ReadFails(c) ==
    /\ Reading(c) /\ inbox[c] = "" /\ c \in gone
    /\ inbox' = [inbox EXCEPT ![c] = "error"]
    /\ UNCHANGED <<envVars, dogVars, countVars, conn, writer, fanVars, wireVars>>

-----------------------------------------------------------------------------
(* Fanout.Publish, called by the flusher. *)

Publishing == pub.todo # {}

PublishStartAgain ==    \* mutant: a batch repeats the last event published
    /\ ~Publishing
    /\ \E n \in 1..2 :
          /\ n <= left.events
          /\ left' = [left EXCEPT !.events = @ - n]
          /\ pub' = [last |-> pub.last + n, first |-> pub.last,
                     next |-> pub.last, todo |-> subs, now |-> {}]
    /\ UNCHANGED <<pressure, stalled, gone, dogVars, countVars, conn, inbox,
                   writer, sub, subs, wireVars>>

\* The snapshot of the subscribers, for a batch of one or two events.
PublishStart ==
    /\ ~Publishing
    /\ \E n \in 1..2 :
          /\ n <= left.events
          /\ left' = [left EXCEPT !.events = @ - n]
          /\ pub' = [last |-> pub.last + n, first |-> pub.last + 1,
                     next |-> pub.last + 1, todo |-> subs, now |-> {}]
    /\ UNCHANGED <<pressure, stalled, gone, dogVars, countVars, conn, inbox,
                   writer, sub, subs, wireVars>>

PublishNext(c) ==
    pub' = IF pub.next < pub.last
           THEN [pub EXCEPT !.next = @ + 1, !.now = {c}]
           ELSE [pub EXCEPT !.next = pub.first, !.now = {}, !.todo = @ \ {c}]

\* Subscription.publish of the next event of the batch: nothing on a closed
\* subscription, a counted drop on a full one, never a wait.
Publish(c) ==
    /\ c \in pub.todo /\ pub.now \in {{}, {c}}
    /\ IF sub[c].state = "closed" THEN UNCHANGED <<sub, offered>>
       ELSE /\ sub' = IF Len(sub[c].events) < SendCap
                      THEN [sub EXCEPT ![c].events = Append(@, pub.next)]
                      ELSE [sub EXCEPT ![c].dropped = @ + 1]
            /\ offered' = [offered EXCEPT ![c] = @ + 1]
    /\ PublishNext(c)
    /\ UNCHANGED <<envVars, dogVars, countVars, conn, inbox, writer, subs,
                   told, delivered, skipped>>

-----------------------------------------------------------------------------
(* Watchdog.tick. *)

Relieved ==
    /\ dog.at = "idle" /\ ~pressure /\ dog.over # "zero"
    /\ dog' = [dog EXCEPT !.over = "zero"]
    /\ accepting' = TRUE
    /\ UNCHANGED <<envVars, countVars, conn, inbox, writer, fanVars, wireVars>>

Detected ==
    /\ dog.at = "idle" /\ pressure /\ dog.over = "zero"
    /\ dog' = [dog EXCEPT !.over = "recent"]
    /\ UNCHANGED <<envVars, accepting, countVars, conn, inbox, writer, fanVars,
                   wireVars>>

\* sustainedFor goes by since overSince.
Sustained ==
    /\ dog.over = "recent"
    /\ dog' = [dog EXCEPT !.over = "sustained"]
    /\ UNCHANGED <<envVars, accepting, countVars, conn, inbox, writer, fanVars,
                   wireVars>>

StopAccepting ==
    /\ dog.at = "idle" /\ pressure /\ dog.over = "sustained"
    /\ accepting' = FALSE
    /\ dog' = [dog EXCEPT !.at = "shed"]
    /\ UNCHANGED <<envVars, countVars, conn, inbox, writer, fanVars, wireVars>>

\* ShedOldest takes the oldest client off the registry and, outside the
\* lock, cancels its context.
ShedOldest ==
    /\ dog.at = "shed"
    /\ IF registry["json"] = <<>>
       THEN dog' = [dog EXCEPT !.at = "idle"] /\ UNCHANGED registry
       ELSE /\ dog' = [dog EXCEPT !.at = "cancel", !.victim = {Head(registry["json"])}]
            /\ registry' = [registry EXCEPT !["json"] = Tail(@)]
    /\ UNCHANGED <<envVars, accepting, slots, conn, inbox, writer, fanVars,
                   wireVars>>

CancelForgets ==        \* mutant: the client leaves the registry, not the server
    /\ dog.at = "cancel"
    /\ dog' = [dog EXCEPT !.at = "idle", !.victim = {}]
    /\ UNCHANGED <<envVars, accepting, countVars, conn, inbox, writer, fanVars,
                   wireVars>>

CancelVictim ==
    /\ dog.at = "cancel"
    /\ \E c \in dog.victim : conn' = [conn EXCEPT ![c].cancelled = TRUE]
    /\ dog' = [dog EXCEPT !.at = "idle", !.victim = {}]
    /\ UNCHANGED <<envVars, accepting, countVars, inbox, writer, fanVars,
                   wireVars>>

-----------------------------------------------------------------------------
(* The environment. *)

Swing ==
    /\ left.swings > 0
    /\ left' = [left EXCEPT !.swings = @ - 1]
    /\ pressure' = ~pressure
    /\ UNCHANGED <<stalled, gone, dogVars, countVars, conn, inbox, writer,
                   fanVars, wireVars>>

Break == left.breaks > 0 /\ left' = [left EXCEPT !.breaks = @ - 1]

Stall(c) ==
    /\ Reading(c) /\ c \notin stalled
    /\ Break /\ stalled' = stalled \cup {c}
    /\ UNCHANGED <<pressure, gone, dogVars, countVars, conn, inbox,
                   writer, fanVars, wireVars>>

Disconnect(c) ==
    /\ Reading(c) \/ conn[c].at = "counted"
    /\ c \notin gone
    /\ Break /\ gone' = gone \cup {c}
    /\ UNCHANGED <<pressure, stalled, dogVars, countVars, conn, inbox,
                   writer, fanVars, wireVars>>

Handler(c) ==
    \/ Count(c) \/ Refuse(c) \/ Register(c)
    \/ FirstMessage(c) \/ Subscribe(c)
    \/ TakeEvent(c) \/ Room(c) \/ GraceOver(c)
    \/ CancelStream(c) \/ LeaveFanout(c) \/ Unregister(c) \/ Release(c)

Watchdog == \/ Relieved \/ Detected \/ Sustained
            \/ StopAccepting \/ ShedOldest \/ CancelVictim

Next ==
    \/ \E c \in Clients :
          \/ Dial(c) \/ Handler(c)
          \/ ContextDone(c) \/ WriteError(c) \/ NextMessage(c) \/ Heartbeat(c)
          \/ WriterTakes(c) \/ Write(c) \/ Say(c) \/ ReadFails(c)
          \/ Publish(c) \/ Stall(c) \/ Disconnect(c)
    \/ PublishStart \/ Watchdog \/ Swing

\* Every goroutine goes on when it can, and a select that finds a channel
\* ready again and again takes it in the end.  What clients and the heap do
\* is left to them.
Fairness ==
    /\ \A c \in Clients :
          /\ WF_vars(Handler(c) \/ ReadFails(c)) /\ WF_vars(Heartbeat(c))
          /\ SF_vars(ContextDone(c) \/ WriteError(c) \/ NextMessage(c))
          /\ WF_vars(WriterTakes(c) \/ Write(c))
    /\ WF_vars(\E c \in Clients : Publish(c))
    /\ WF_vars(Watchdog)

Spec == Init /\ [][Next]_vars /\ Fairness

-----------------------------------------------------------------------------
(* Properties. *)

Frames == [event : Nat, filter : Filters \cup {""}, capped : BOOLEAN, dropped : Nat]

\* Type invariant: channels, queue and rate window stay within their
\* capacities (server.go:336, 449, 705; fanout.go:40).
TypeOK ==
    /\ left \in Budgets
    /\ dog \in [at : {"idle", "shed", "cancel"},
                over : {"zero", "recent", "sustained"}, victim : SUBSET Clients]
    /\ {pressure, accepting} \subseteq BOOLEAN
    /\ slots \in [Servers -> 0..Cardinality(Clients)]
    /\ \A s \in Servers : registry[s] \in Seq({c \in Clients : Server(c) = s})
    /\ \A c \in Clients :
          /\ conn[c] \in [at : {"idle", "checked", "over", "counted", "await",
                                "subscribe", "loop", "wait", "cancel", "leave",
                                "unregister", "release", "done"},
                          filter : Filters \cup {""}, capped : BOOLEAN,
                          dropped : Nat, count : 0..RateCap, frame : Frames,
                          cancelled : BOOLEAN,
                          code : Codes]
          /\ inbox[c] \in Messages \cup {""}
          /\ Len(writer[c].q) <= WriteCap /\ Len(writer[c].hand) <= 1
          /\ sub[c].state \in {"none", "open", "closed"}
          /\ Len(sub[c].events) <= SendCap
          /\ told[c] \in Frames
    /\ {subs, pub.todo, pub.now, stalled, gone} \subseteq SUBSET Clients

Holds(c)    == conn[c].at \notin {"idle", "checked", "done"}
Admitted(c) == Holds(c) /\ conn[c].at # "over"

\* The counter is the number of handlers that hold a slot, however they
\* left, and never more than the cap are admitted to one server
\* (server.go:219-233).
SlotsTrue ==
    \A s \in Servers :
       LET here == {c \in Clients : Server(c) = s}
       IN /\ slots[s] = Cardinality({c \in here : Holds(c)})
          /\ Cardinality({c \in here : Admitted(c)}) <= MaxClients

Registered(c) == conn[c].at \in {"await", "subscribe", "loop", "wait", "cancel",
                                 "leave", "unregister"}

\* Every connection the watchdog has not cancelled is one it can still shed,
\* whatever other connections do at the same time (server.go:154-191).
WithinReach ==
    \A c \in Clients : Registered(c) /\ ~conn[c].cancelled =>
       c \in ToSet(registry[Server(c)]) \cup dog.victim

Pipeline(c) == writer[c].hand \o writer[c].q
               \o IF conn[c].at = "wait" THEN <<conn[c].frame>> ELSE <<>>

EventsIn(frames) == {frames[i].event : i \in DOMAIN frames} \ {0}
Streaming(c)     == conn[c].at \in {"loop", "wait"} /\ writer[c].at # "stopped"

\* Every event published to an open subscription is on its way, delivered,
\* passed over by the filter, or counted as dropped by the full channel or
\* by the rate cap: none disappears (fanout.go:87-99, server.go:397-426).
EventsAccounted ==
    \A c \in Clients : Streaming(c) =>
       offered[c] = Len(sub[c].events) + sub[c].dropped + skipped[c]
                    + conn[c].dropped + Cardinality(EventsIn(Pipeline(c)))
                    + Len(delivered[c])

FramesOf(events) == [i \in 1..Len(events) |-> Frame(events[i])]
Journey(c) == FramesOf(delivered[c]) \o Pipeline(c) \o FramesOf(sub[c].events)

\* A client gets events in the order of publication and none twice, across
\* channel, wait for room and write queue.
DeliveredInOrder ==
    \A c \in Clients : LET all == Journey(c) IN
       \A i, j \in 1..Len(all) :
          i < j /\ 0 \notin {all[i].event, all[j].event} => all[i].event < all[j].event

LastStatus(c) ==
    LET line == <<told[c]>> \o Pipeline(c)
    IN line[CHOOSE i \in 1..Len(line) :
               line[i].event = 0 /\ \A k \in i + 1..Len(line) : line[k].event # 0]

\* A JSON client whose rate cap bites has been told, or the frame that tells
\* it is on its way, with the filter in force (server.go:407-418).
StatusTellsCap ==
    \A c \in Clients \ left.html : Streaming(c) =>
       /\ conn[c].capped => LastStatus(c).capped
       /\ LastStatus(c).filter = conn[c].filter

\* The stream of a client: where it is, the events on their way from the
\* fan-out to the socket, and those its client will not get.
Stage(c) == IF sub[c].state = "none" THEN "before"
            ELSE IF Streaming(c) THEN "open" ELSE "over"

Way(c) == IF Streaming(c) THEN EventsIn(Pipeline(c)) \cup ToSet(sub[c].events) ELSE {}

Lost(c) == IF Streaming(c) THEN sub[c].dropped + skipped[c] + conn[c].dropped
                           ELSE offered[c] - Len(delivered[c])

Tails == INSTANCE TailStream WITH published <- pub.last,
                                  stage <- [c \in Clients |-> Stage(c)],
                                  way   <- [c \in Clients |-> Way(c)],
                                  got   <- delivered,
                                  lost  <- [c \in Clients |-> Lost(c)]

\* Each client has a stream that loses only what it counts: an event offered
\* by Publish is on its way at once or lost, the first on its way arrives
\* next, and nothing arrives when the writer stopped or the handler closes
\* (fanout.go:87-116, server.go:336-460).
IsTailStream == Tails!Spec

\* Every status tells every drop: live-tail.md:54 says status frames arrive
\* whenever the rate-cap or drop-counter state changes.
StatusTellsDrops ==
    \A c \in Clients \ left.html : Streaming(c) =>
       LastStatus(c).dropped = conn[c].dropped

\* The flusher, which publishes, never waits for a client: fanout.go:53-55
\* says a full queue does not block the publisher.
PublisherFree == Publishing => ENABLED (\E c \in Clients : Publish(c))

\* Nothing is sent on a channel once Cancel closed it: it would panic in the
\* flusher (fanout.go:87-116).
ClosedQueueStill ==
    \A c \in Clients : sub[c].state = "closed" => sub'[c] = sub[c]

\* An event a JSON client receives matches the subscription of the last
\* status it received: a new filter takes effect at its acknowledgement.
EventMatchesAcked ==
    \A c \in Clients \ left.html : delivered'[c] # delivered[c] =>
       /\ told[c] # NoFrame
       /\ Match(told[c].filter, Last(delivered'[c]))

\* What holds of every stream: its capacities, its place among those the
\* watchdog can shed, and the cap it was told of.
StreamsSound == TypeOK /\ WithinReach /\ StatusTellsCap

\* The events of a stream: none unaccounted for, none out of order or twice.
Delivery == EventsAccounted /\ DeliveredInOrder

\* What no step may do: touch a closed channel, or deliver what the last
\* status the client got leaves out.
StreamSteps == [][ClosedQueueStill /\ EventMatchesAcked]_vars

Due(c) ==
    /\ Admitted(c)
    /\ \/ c \in gone \/ conn[c].cancelled
       \/ c \in stalled \ left.html /\ conn[c].at \in {"loop", "wait"}

\* A handler whose client disconnected, whose context the watchdog
\* cancelled, or whose JSON client stopped reading ends and gives its slot
\* back (a client connects once, and who is due stays due until then); the
\* HTML server sends no heartbeat that would notice the last case.
SlotReleased == []<>(~\E c \in Clients : Due(c))

\* Nobody waits for a client: no handler for ever, the flusher not at all.
NobodyWaits == SlotReleased /\ []PublisherFree

\* Under lasting pressure the JSON server runs empty, the clients that had
\* passed the accepting check before it was turned off included
\* (watchdog.go:142-150, server.go:212).
PressureEmptiesTail == <>[]pressure => <>[](slots["json"] = 0)

\* When the pressure is over for good, new clients are accepted again.
ReliefReopens == <>[]~pressure => <>[]accepting

\* The watchdog's promise in both directions (watchdog.go:117-152).
Shedding == PressureEmptiesTail /\ ReliefReopens

=============================================================================
