----------------------------- MODULE RelayedAsk -----------------------------
(***************************************************************************)
(* Requests that a hub relays (crates/parrot-remote/src: ref_.rs,          *)
(* registry.rs, ingress.rs, transport.rs).  A source asks an actor of a    *)
(* target through the hub, which numbers what it forwards afresh, with the *)
(* counter it numbers its own requests to the target with, and keeps a     *)
(* table to send replies back.  A connection has two ends that fail and    *)
(* clean up on their own; every queue, table and set of tasks has a limit. *)
(* A request's callback slot lives as long as the future that asks, so it  *)
(* is part of the state of the request.                                    *)
(***************************************************************************)
EXTENDS Naturals, Sequences, FiniteSets, FiniteSetsExt

CONSTANTS
    SourceAsk,      \* requests of the source, to be relayed, numbered
    HubAsk,         \* requests of the hub, direct to the target, numbered
    MaxUp,          \* bound on the connections of source and hub
    MaxDown,        \* bound on the connections of hub and target
    QueueRoom,      \* the outbound queue of an end of a connection
    TaskRoom,       \* the inbound requests that a node serves at once
    RelayRoom,      \* the capacity of the relay table
    MaxAsks,        \* bound on the requests made
    MaxFaults       \* bound on broken ends, timeouts and full dispatch queues

VARIABLES
    wired,      \* wired[l]: connections ever made on the link l
    net,        \* net[c]: the state of each end, and the frames each end has sent
    ask,        \* ask[a]: where it is, its number and connection, and whose answer it got
    nextCid,    \* the counter of each node's CallbackRegistry
    serving,    \* the tasks of admitted requests, at the hub and at the target
    relay,      \* the slots of the hub's RelayTable
    unheard,    \* requests of which the asking node itself dropped a reply
    faults

askVars == <<wired, net, ask, nextCid, serving, relay, unheard, faults>>

Fault == faults < MaxFaults /\ faults' = faults + 1

MaxMade == [up |-> MaxUp, down |-> MaxDown]

Conn == UNION {{<<l, k>> : k \in 1..MaxMade[l]} : l \in {"up", "down"}}

Far(c) == IF c[1] = "up" THEN "source" ELSE "target"

LinkEnds(c) == {"hub", Far(c)}

OtherEnd(c, n) == IF n = "hub" THEN Far(c) ELSE "hub"

AnyAsk == SourceAsk \cup HubAsk

Asker(a) == IF a \in SourceAsk THEN "source" ELSE "hub"

Made(l) == {<<l, k>> : k \in 1..wired[l]}

NoConn == <<"none", 0>>

Usable(c, n) == net[c].end[n] = "open"

\* direct_sender_of and SystemRelay::sender_of: the newest connection that is not closed.
SenderOf(l, n) ==
    LET usable == {c \in Made(l) : Usable(c, n)} IN
    IF usable = {} THEN NoConn ELSE CHOOSE c \in usable : \A d \in usable : d[2] <= c[2]

AskFrame(cid, a) == [kind |-> "ask", cid |-> cid, of |-> a]

\* A reply or an error; of is the request it was made for.
ReplyFrame(cid, a) == [kind |-> "reply", cid |-> cid, of |-> a]

\* Where the target can be dialled; what the source makes of it is left out.
HintFrame == [kind |-> "hint"]

-----------------------------------------------------------------------------
(* Connections *)

NewLink(c) == [end |-> [n \in LinkEnds(c) |-> "open"], out |-> [n \in LinkEnds(c) |-> <<>>]]

\* Permits of reserve that were not used yet.
Reserved(c, n) == Cardinality({t \in serving : n = "hub" /\ t.at = "insert" /\ t.to = c})

\* A frame fits in the outbound queue of an end of a connection.
HasRoom(w, c, n) == w[c].end[n] = "open" /\ Len(w[c].out[n]) + Reserved(c, n) < QueueRoom

CanSend(c, n) == HasRoom(net, c, n)

Queued(w, c, n, f) == [w EXCEPT ![c].out[n] = Append(@, f)]

CloseEnd(w, c, n) == [w EXCEPT ![c].end[n] = IF @ = "open" THEN "closed" ELSE @]

\* send_reply: "Replies must either be queued or make connection loss observable".
SendReply(w, c, n, f) == IF HasRoom(w, c, n) THEN Queued(w, c, n, f) ELSE CloseEnd(w, c, n)

\* The replies to the sources of relay slots.
ReplyToAll(w, S) == FoldSet(LAMBDA s, v : SendReply(v, s.back, "hub", ReplyFrame(s.orig, s.of)), w, S)

\* A new connection, when the node that dials the hub has none.
Reconnect(l) ==
    /\ wired[l] < MaxMade[l] /\ \A c \in Made(l) : ~Usable(c, Far(c))
    /\ wired' = [wired EXCEPT ![l] = @ + 1]
    /\ UNCHANGED <<net, ask, nextCid, serving, relay, unheard, faults>>

\* An end stops: an error of the socket, a missed heartbeat or a close.
BreakEnd(c, n) ==
    /\ Fault /\ Usable(c, n)
    /\ net' = CloseEnd(net, c, n)
    /\ UNCHANGED <<wired, ask, nextCid, serving, relay, unheard>>

\* The reader comes to the end of what the other end had written.
ReadEnd(c, n) ==
    /\ Usable(c, n)
    /\ net[c].end[OtherEnd(c, n)] = "gone" /\ net[c].out[OtherEnd(c, n)] = <<>>
    /\ net' = CloseEnd(net, c, n)
    /\ UNCHANGED <<wired, ask, nextCid, serving, relay, unheard, faults>>

\* RelayTable::fail_connection: the slots of which c is the source or the target.
SlotsOver(c, n) == {s \in relay : n = "hub" /\ c \in {s.back, s.target}}

\* The driver of a closed end drops both halves, so that only a prefix of its queue was
\* written, and then calls connection_closed: requests forwarded over this connection
\* fail at their source, and those that came over it are forgotten.
ConnectionClosed(c, n) ==
    /\ net[c].end[n] = "closed"
    /\ \E k \in 0..Len(net[c].out[n]) :
          net' = ReplyToAll([net EXCEPT ![c].end[n] = "gone", ![c].out[n] = SubSeq(@, 1, k)],
                            {s \in SlotsOver(c, n) : s.back # c})
    /\ relay' = relay \ SlotsOver(c, n)
    /\ UNCHANGED <<wired, ask, nextCid, serving, unheard, faults>>

-----------------------------------------------------------------------------
(* RemoteActorRef::send_with_options *)

NotAsked == [at |-> "idle", cid |-> 0, conn |-> NoConn, got |-> {}]

\* The request ends, with the answer made for the request of got, or with an error.
Ended(a, got) == [ask[a] EXCEPT !.at = "ended", !.got = got]

\* Requests of one node are alike: they are made in the order of their numbers.
MayAsk(a) ==
    /\ ask[a].at = "idle" /\ Cardinality({b \in AnyAsk : ask[b] # NotAsked}) < MaxAsks
    /\ \A b \in AnyAsk : Asker(b) = Asker(a) /\ b < a => ask[b] # NotAsked

\* A sender, a number and a slot; or there is no connection.
RegisterAsk(a) ==
    LET n == Asker(a)
        c == SenderOf(IF n = "source" THEN "up" ELSE "down", n) IN
    /\ MayAsk(a)
    /\ IF c = NoConn
       THEN ask' = [ask EXCEPT ![a] = Ended(a, {})] /\ UNCHANGED nextCid
       ELSE /\ ask' = [ask EXCEPT ![a] = [at |-> "send", cid |-> nextCid[n], conn |-> c, got |-> {}]]
            /\ nextCid' = [nextCid EXCEPT ![n] = @ + 1]
    /\ UNCHANGED <<wired, net, serving, relay, unheard, faults>>

\* sender.send waits for room in the queue.
SendAsk(a) ==
    /\ ask[a].at = "send" /\ CanSend(ask[a].conn, Asker(a))
    /\ net' = Queued(net, ask[a].conn, Asker(a), AskFrame(ask[a].cid, a))
    /\ ask' = [ask EXCEPT ![a].at = "wait"]
    /\ UNCHANGED <<wired, nextCid, serving, relay, unheard, faults>>

AskPending(a) == ask[a].at \in {"send", "wait"}

\* sender.closed(), or fail_connection.
AskLost(a) ==
    /\ AskPending(a) /\ ~Usable(ask[a].conn, Asker(a))
    /\ ask' = [ask EXCEPT ![a] = Ended(a, {})]
    /\ UNCHANGED <<wired, net, nextCid, serving, relay, unheard, faults>>

\* The timeout a caller may give, or the drop of the future.
AskTimesOut(a) ==
    /\ Fault /\ AskPending(a)
    /\ ask' = [ask EXCEPT ![a] = Ended(a, {})]
    /\ UNCHANGED <<wired, net, nextCid, serving, relay, unheard>>

\* complete_from: the slot of that number, if it belongs to the connection.
Completed(n, c, f) ==
    [a \in AnyAsk |->
        IF Asker(a) = n /\ AskPending(a) /\ ask[a].cid = f.cid /\ ask[a].conn = c
        THEN Ended(a, {f.of}) ELSE ask[a]]

-----------------------------------------------------------------------------
(* Frames that arrive *)

\* The end n of c reads while it is open.
Arrives(c, n) == Usable(c, n) /\ net[c].out[OtherEnd(c, n)] # <<>>

NextFrame(c, n) == Head(net[c].out[OtherEnd(c, n)])

AfterRead(c, n) == [net EXCEPT ![c].out[OtherEnd(c, n)] = Tail(@)]

\* admit_request: a task, or the error that there is no room for one.
AdmitRequest(c, n, f) ==
    /\ f.kind = "ask"
    /\ IF Cardinality({t \in serving : t.node = n}) < TaskRoom
       THEN /\ serving' = serving \cup
                    {[node |-> n, back |-> c, cid |-> f.cid, of |-> f.of,
                      at |-> "begin", fwd |-> 0, to |-> NoConn]}
            /\ net' = AfterRead(c, n)
       ELSE /\ net' = SendReply(AfterRead(c, n), c, n, ReplyFrame(f.cid, f.of))
            /\ UNCHANGED serving
    /\ UNCHANGED <<wired, ask, nextCid, relay, unheard, faults>>

\* Faulty: a slot that has expired is taken and nobody is told.
RelayReplySilent(c, n, f, s) ==
    /\ net' = IF s.old THEN AfterRead(c, n)
              ELSE SendReply(AfterRead(c, n), s.back, "hub", ReplyFrame(s.orig, f.of))
    /\ relay' = relay \ {s} /\ UNCHANGED ask

\* relay_reply: the reply goes back under the number it was asked with; that of a slot
\* that has expired becomes an error.
RelayReply(c, n, f, s) ==
    /\ net' = SendReply(AfterRead(c, n), s.back, "hub", ReplyFrame(s.orig, IF s.old THEN s.of ELSE f.of))
    /\ relay' = relay \ {s} /\ UNCHANGED ask

\* on_reply: the relay table first, then the callbacks; a slot of another connection
\* swallows the reply.
OnReply(c, n, f) ==
    LET slots == {s \in relay : n = "hub" /\ s.cid = f.cid} IN
    /\ f.kind = "reply"
    /\ \/ \E s \in slots : s.target = c /\ RelayReply(c, n, f, s)
       \/ /\ \A s \in slots : s.target # c
          /\ net' = AfterRead(c, n)
          /\ ask' = IF slots = {} THEN Completed(n, c, f) ELSE ask
          /\ UNCHANGED relay
    /\ UNCHANGED <<wired, nextCid, serving, unheard, faults>>

OnRouteHint(c, n, f) ==
    /\ f.kind = "hint"
    /\ net' = AfterRead(c, n)
    /\ UNCHANGED <<wired, ask, nextCid, serving, relay, unheard, faults>>

\* dispatch, of one frame.
ReceiveFrame(c, n) ==
    LET f == NextFrame(c, n) IN
    /\ Arrives(c, n)
    /\ AdmitRequest(c, n, f) \/ OnReply(c, n, f) \/ OnRouteHint(c, n, f)

\* The dispatch queue of the node is full: a request is refused, anything else dropped.
ShedFrame(c, n) ==
    LET f == NextFrame(c, n) IN
    /\ Fault /\ Arrives(c, n)
    /\ net' = IF f.kind = "ask" THEN SendReply(AfterRead(c, n), c, n, ReplyFrame(f.cid, f.of))
              ELSE AfterRead(c, n)
    /\ unheard' = IF f.kind = "reply" /\ Asker(f.of) = n THEN unheard \cup {f.of} ELSE unheard
    /\ UNCHANGED <<wired, ask, nextCid, serving, relay>>

-----------------------------------------------------------------------------
(* Tasks of admitted requests *)

Becomes(t, u) == serving' = (serving \ {t}) \cup {u}

\* The task is dropped with its connection, wherever it waits.
TaskDropped(t) ==
    /\ t.at # "insert" /\ ~Usable(t.back, t.node)
    /\ serving' = serving \ {t}
    /\ UNCHANGED <<wired, net, ask, nextCid, relay, unheard, faults>>

\* try_relay_request: the connection to the target and a new number, or no route.
FindRoute(t) ==
    LET c == SenderOf("down", "hub") IN
    /\ t.node = "hub" /\ t.at = "begin"
    /\ IF c = NoConn
       THEN Becomes(t, [t EXCEPT !.at = "refuse"]) /\ UNCHANGED nextCid
       ELSE /\ Becomes(t, [t EXCEPT !.at = "reserve", !.fwd = nextCid["hub"], !.to = c])
            /\ nextCid' = [nextCid EXCEPT !["hub"] = @ + 1]
    /\ UNCHANGED <<wired, net, ask, relay, unheard, faults>>

\* The error that there is no route waits for room.
RefuseRoute(t) ==
    /\ t.at = "refuse" /\ CanSend(t.back, "hub")
    /\ net' = Queued(net, t.back, "hub", ReplyFrame(t.cid, t.of))
    /\ serving' = serving \ {t}
    /\ UNCHANGED <<wired, ask, nextCid, relay, unheard, faults>>

\* reserve: a permit for the queue to the target,
ReservePermit(t) ==
    /\ t.at = "reserve" /\ CanSend(t.to, "hub")
    /\ Becomes(t, [t EXCEPT !.at = "insert"])
    /\ UNCHANGED <<wired, net, ask, nextCid, relay, unheard, faults>>

\* or none: the connection is closed or the time to live has passed.
ReserveFails(t) ==
    /\ t.at = "reserve"
    /\ net' = SendReply(net, t.back, "hub", ReplyFrame(t.cid, t.of))
    /\ serving' = serving \ {t}
    /\ UNCHANGED <<wired, ask, nextCid, relay, unheard, faults>>

\* Faulty: the table does not look whether the connections are closed.
MayInsertBlind(t) == Cardinality(relay) < RelayRoom /\ \A s \in relay : s.cid # t.fwd

\* RelayTable::insert takes the slot only while both connections are open.
MayInsert(t) ==
    /\ Cardinality(relay) < RelayRoom /\ \A s \in relay : s.cid # t.fwd
    /\ Usable(t.back, "hub") /\ Usable(t.to, "hub")

\* With no await in between, the slot is entered and the request sent on, with a hint to
\* the source if the target can be dialled and there is room; or it is refused.
InsertSlot(t) ==
    /\ t.at = "insert"
    /\ serving' = serving \ {t}
    /\ IF MayInsert(t)
       THEN /\ relay' = relay \cup {[cid |-> t.fwd, orig |-> t.cid, of |-> t.of, back |-> t.back,
                                     target |-> t.to, old |-> FALSE]}
            /\ LET sent == Queued(net, t.to, "hub", AskFrame(t.fwd, t.of)) IN
               \/ net' = sent
               \/ HasRoom(sent, t.back, "hub") /\ net' = Queued(sent, t.back, "hub", HintFrame)
       ELSE /\ net' = SendReply(net, t.back, "hub", ReplyFrame(t.cid, t.of))
            /\ UNCHANGED relay
    /\ UNCHANGED <<wired, ask, nextCid, unheard, faults>>

\* At the target an actor answers or fails, if ever.
AnswerAsk(t) ==
    /\ t.node = "target" /\ CanSend(t.back, "target")
    /\ net' = Queued(net, t.back, "target", ReplyFrame(t.cid, t.of))
    /\ serving' = serving \ {t}
    /\ UNCHANGED <<wired, ask, nextCid, relay, unheard, faults>>

-----------------------------------------------------------------------------
(* The time to live of relay slots *)

SlotAges(s) ==
    /\ ~s.old
    /\ relay' = (relay \ {s}) \cup {[s EXCEPT !.old = TRUE]}
    /\ UNCHANGED <<wired, net, ask, nextCid, serving, unheard, faults>>

\* expire, once a second.
ExpireRelays ==
    LET expired == {s \in relay : s.old} IN
    /\ expired # {}
    /\ relay' = relay \ expired
    /\ net' = ReplyToAll(net, expired)
    /\ UNCHANGED <<wired, ask, nextCid, serving, unheard, faults>>

-----------------------------------------------------------------------------
AskInit ==
    /\ wired = [up |-> 1, down |-> 1]
    /\ net = [c \in Conn |-> NewLink(c)]
    /\ ask = [a \in AnyAsk |-> NotAsked]
    /\ nextCid = [source |-> 1, hub |-> 1]
    /\ serving = {} /\ relay = {} /\ unheard = {} /\ faults = 0

\* What tasks, drivers and timers do of themselves.
AskProgress ==
    \/ \E a \in AnyAsk : SendAsk(a) \/ AskLost(a)
    \/ \E l \in {"up", "down"} : \E c \in Made(l) : \E n \in LinkEnds(c) :
          ReceiveFrame(c, n) \/ ShedFrame(c, n) \/ ReadEnd(c, n) \/ ConnectionClosed(c, n)
    \/ \E t \in serving :
          \/ TaskDropped(t) \/ FindRoute(t) \/ RefuseRoute(t)
          \/ ReservePermit(t) \/ ReserveFails(t) \/ InsertSlot(t)
    \/ \E s \in relay : SlotAges(s)
    \/ ExpireRelays

AskNext ==
    \/ AskProgress
    \/ \E a \in AnyAsk : RegisterAsk(a) \/ AskTimesOut(a)
    \/ \E l \in {"up", "down"} :
          \/ Reconnect(l)
          \/ \E c \in Made(l) : \E n \in LinkEnds(c) : BreakEnd(c, n)
    \/ \E t \in serving : AnswerAsk(t)

\* Neither an actor's answer nor a caller's timeout is assumed.
AskSpec == AskInit /\ [][AskNext]_askVars /\ WF_askVars(AskProgress)

-----------------------------------------------------------------------------
(* Properties *)

\* A request gets only an answer made for it, although the hub's own requests share
\* a connection, and replies, with those it relays and the source numbers its
\* requests on its own; and no slot outlives the cleanup of either of its
\* connections (SystemRelay::next_cid, RelayTable::insert and fail_connection).
RelaysAreExact ==
    /\ \A a \in AnyAsk : ask[a].got \subseteq {a}
    /\ \A s \in relay : net[s.back].end["hub"] # "gone" /\ net[s.target].end["hub"] # "gone"

\* Every relayed request ends without a timeout of its own, whether or not the target
\* answers, whichever connection breaks and whichever limit is met, unless the
\* source dropped its reply for want of room (expire, connection_closed, send_reply).
AsksEnd == <>[](\A a \in SourceAsk : AskPending(a) => a \in unheard)
=============================================================================
