----------------------------- MODULE HttpServer -----------------------------
(***************************************************************************)
(* The orderbook streams of the HTTP server (src/server/websocket_handler  *)
(* and src/server/server.py): each client's WebSocket has a handler, which *)
(* reads the client's messages, and at most one stream, a task that sends  *)
(* the orderbook of the subscribed asset at an interval.  The server's     *)
(* stop() closes the clients it finds, concurrently with their handlers.   *)
(*                                                                         *)
(* A step runs from one await to the next.  Awaiting a task that is over   *)
(* does not suspend: cancel_stream is a step of its own only when the      *)
(* stream is still alive.  aiohttp is external.                            *)
(***************************************************************************)
EXTENDS FiniteSets

CONSTANTS
    Clients,    \* WebSockets of clients
    Streams,    \* stream tasks
    Assets,
    NoStream, NoClient, NoAsset

ASSUME NoneAssumption == NoStream \notin Streams /\ NoClient \notin Clients /\ NoAsset \notin Assets

VARIABLES
    ws,         \* client -> its WebSocketResponse: "lost" until the handler reads the loss
    handler,    \* client -> where handle_connection is suspended
    awaits,     \* client -> the stream its handler awaits in cancel_stream
    registered, \* the keys of _clients
    assetId,    \* client -> ClientSubscription.asset_id
    slot,       \* client -> ClientSubscription.stream_task
    stream,     \* stream -> its client, its asset and where it is suspended
    server,     \* the server: "closing" in _cleanup_websockets, "draining" in runner.cleanup
    toClose,    \* the clients _cleanup_websockets has still to close
    closer      \* where its client.close() is suspended, and on what

streamVars == <<ws, handler, awaits, registered, assetId, slot, stream>>
serverVars == <<server, toClose, closer>>
httpVars == <<streamVars, serverVars>>

NotClosing == [client |-> NoClient, awaits |-> NoStream]

HttpTypeOK ==
    /\ ws \in [Clients -> {"none", "open", "lost", "closed"}]
    /\ handler \in [Clients -> {"none", "reading", "subscribing", "unsubscribing", "leaving", "raised"}]
    /\ awaits \in [Clients -> Streams \cup {NoStream}]
    /\ registered \subseteq Clients
    /\ assetId \in [Clients -> Assets \cup {NoAsset}]
    /\ slot \in [Clients -> Streams \cup {NoStream}]
    /\ stream \in [Streams -> [client : Clients \cup {NoClient}, asset : Assets \cup {NoAsset},
                               pc : {"starting", "streaming", "ended", "raised"},
                               cancelled : BOOLEAN]]
    /\ server \in {"off", "up", "closing", "draining", "stopped", "stopRaised"}
    /\ toClose \subseteq Clients
    /\ closer \in [client : Clients \cup {NoClient}, awaits : Streams \cup {NoStream}]

Over(pc) == [client |-> NoClient, asset |-> NoAsset, pc |-> pc, cancelled |-> FALSE]

HttpInit ==
    /\ ws = [c \in Clients |-> "none"]
    /\ handler = [c \in Clients |-> "none"]
    /\ awaits = [c \in Clients |-> NoStream]
    /\ registered = {}
    /\ assetId = [c \in Clients |-> NoAsset]
    /\ slot = [c \in Clients |-> NoStream]
    /\ stream = [s \in Streams |-> Over("ended")]
    /\ server = "off"
    /\ toClose = {}
    /\ closer = NotClosing

Alive(s) == s # NoStream /\ stream[s].pc \in {"starting", "streaming"}
Raised(s) == s # NoStream /\ stream[s].pc = "raised"

Unused == {s \in Streams :
    /\ ~Alive(s) /\ closer.awaits # s
    /\ \A c \in Clients : s \notin {slot[c], awaits[c]}}

(* The id of a new stream: any that nothing refers to.                     *)
NewStream(s) == s \in Unused /\ s = CHOOSE t \in Unused : TRUE

-----------------------------------------------------------------------------
(* cancel_stream, for the handler and for the server's stop.               *)

FaultyRequestCancel(s) == stream

RequestCancel(s) == [stream EXCEPT ![s].cancelled = TRUE]

(* The handler of c waits in cancel_stream for the stream to end.          *)
AwaitStream(c, pc) ==
    /\ Alive(slot[c])
    /\ stream' = RequestCancel(slot[c])
    /\ handler' = [handler EXCEPT ![c] = pc]
    /\ awaits' = [awaits EXCEPT ![c] = slot[c]]
    /\ UNCHANGED <<ws, registered, assetId, slot>>

(* It need not wait: there is no stream, or it is over without an error.   *)
NothingToAwait(c) == ~Alive(slot[c]) /\ ~Raised(slot[c])

(* Awaiting a stream that raised raises again: the error cannot be sent to *)
(* the client either, whose socket is gone, and in the finally clause of   *)
(* handle_connection close() raises once more, before the pop.             *)
HandlerRaises(c) ==
    /\ Raised(slot[c])
    /\ handler' = [handler EXCEPT ![c] = "raised"]
    /\ UNCHANGED <<ws, awaits, registered, assetId, slot, stream>>

-----------------------------------------------------------------------------
(* The handler of a client.                                                *)

Connect(c) ==
    /\ server \in {"up", "closing"}
    /\ handler[c] = "none" /\ c \notin toClose /\ c # closer.client
    /\ \A s \in Streams : stream[s].client = c => ~Alive(s)
    /\ ws' = [ws EXCEPT ![c] = "open"]
    /\ handler' = [handler EXCEPT ![c] = "reading"]
    /\ registered' = registered \cup {c}
    /\ UNCHANGED <<awaits, assetId, slot, stream, serverVars>>

Reading(c) == handler[c] = "reading" /\ ws[c] \in {"open", "lost"}

(* _handle_subscribe after cancel_stream.                                  *)
Subscribed(c) ==
    \E s \in Streams, a \in Assets :
        /\ NewStream(s)
        /\ stream' = [stream EXCEPT ![s] = [client |-> c, asset |-> a, pc |-> "starting", cancelled |-> FALSE]]
        /\ slot' = [slot EXCEPT ![c] = s]
        /\ assetId' = [assetId EXCEPT ![c] = a]
        /\ handler' = [handler EXCEPT ![c] = "reading"]
        /\ awaits' = [awaits EXCEPT ![c] = NoStream]
        /\ UNCHANGED <<ws, registered>>

FaultyLeft(c) ==
    /\ handler' = [handler EXCEPT ![c] = "none"]
    /\ awaits' = [awaits EXCEPT ![c] = NoStream]
    /\ registered' = IF ws[c] = "closed" THEN registered ELSE registered \ {c}
    /\ slot' = [slot EXCEPT ![c] = NoStream]
    /\ assetId' = [assetId EXCEPT ![c] = NoAsset]
    /\ ws' = [ws EXCEPT ![c] = "closed"]
    /\ UNCHANGED stream

(* The end of handle_connection: the socket is closed, the client popped.  *)
Left(c) ==
    /\ handler' = [handler EXCEPT ![c] = "none"]
    /\ awaits' = [awaits EXCEPT ![c] = NoStream]
    /\ registered' = registered \ {c}
    /\ slot' = [slot EXCEPT ![c] = NoStream]
    /\ assetId' = [assetId EXCEPT ![c] = NoAsset]
    /\ ws' = [ws EXCEPT ![c] = "closed"]
    /\ UNCHANGED stream

(* A subscribe message whose interval is no number: the stream is gone, but*)
(* asset_id is not reset.  The error cannot be sent on a socket that is    *)
(* gone, which ends the handler.                                           *)
Rejected(c) ==
    IF ws[c] = "open"
    THEN /\ slot' = [slot EXCEPT ![c] = NoStream]
         /\ handler' = [handler EXCEPT ![c] = "reading"]
         /\ awaits' = [awaits EXCEPT ![c] = NoStream]
         /\ UNCHANGED <<ws, registered, assetId, stream>>
    ELSE Left(c)

(* _handle_unsubscribe after cancel_stream.                                *)
Unsubscribed(c) ==
    /\ slot' = [slot EXCEPT ![c] = NoStream]
    /\ assetId' = [assetId EXCEPT ![c] = NoAsset]
    /\ handler' = [handler EXCEPT ![c] = "reading"]
    /\ awaits' = [awaits EXCEPT ![c] = NoStream]
    /\ UNCHANGED <<ws, registered, stream>>

FaultySubscribe(c) ==
    /\ Reading(c)
    /\ Subscribed(c)
    /\ UNCHANGED serverVars

(* A subscribe message.  Some may still be buffered when the peer is gone. *)
Subscribe(c) ==
    /\ Reading(c)
    /\ \/ AwaitStream(c, "subscribing")
       \/ NothingToAwait(c) /\ (Subscribed(c) \/ Rejected(c))
       \/ HandlerRaises(c)
    /\ UNCHANGED serverVars

Unsubscribe(c) ==
    /\ Reading(c)
    /\ \/ AwaitStream(c, "unsubscribing")
       \/ NothingToAwait(c) /\ Unsubscribed(c)
       \/ HandlerRaises(c)
    /\ UNCHANGED serverVars

(* The message loop ends because the socket is closed or lost: close().    *)
Leave(c) ==
    /\ handler[c] = "reading" /\ ws[c] \in {"lost", "closed"}
    /\ \/ AwaitStream(c, "leaving")
       \/ NothingToAwait(c) /\ Left(c)
       \/ HandlerRaises(c)
    /\ UNCHANGED serverVars

(* The stream the handler of c awaits is over.                             *)
Resume(c) ==
    /\ awaits[c] # NoStream /\ ~Alive(awaits[c])
    /\ \/ handler[c] = "subscribing" /\ (Subscribed(c) \/ Rejected(c))
       \/ handler[c] = "unsubscribing" /\ Unsubscribed(c)
       \/ handler[c] = "leaving" /\ Left(c)
    /\ UNCHANGED serverVars

PeerLeaves(c) ==
    /\ ws[c] = "open"
    /\ ws' = [ws EXCEPT ![c] = "lost"]
    /\ UNCHANGED <<handler, awaits, registered, assetId, slot, stream, serverVars>>

-----------------------------------------------------------------------------
(* A stream (_stream_orderbook).                                           *)

Running(s, pc) == stream[s].pc = pc /\ ~stream[s].cancelled

StreamUnchanged == UNCHANGED <<ws, handler, awaits, registered, assetId, slot, serverVars>>

(* A finished task: of one in a slot cancel_stream sees how it ended.      *)
StreamOver(s, pc) ==
    /\ stream' = [stream EXCEPT ![s] = Over(IF \E c \in Clients : slot[c] = s THEN pc ELSE "ended")]
    /\ StreamUnchanged

(* Its first query.  A task created after the server's stop was woken runs *)
(* after it.                                                               *)
StreamStart(s) ==
    /\ Running(s, "starting")
    /\ closer.awaits = NoStream \/ Alive(closer.awaits)
    /\ stream' = [stream EXCEPT ![s].pc = "streaming"]
    /\ StreamUnchanged

(* An asset that is not found, or a query that fails, ends it with an error*)
(* message.  That an answer is sent, and the next query awaited or slept   *)
(* for, is the same to everybody else and no step here.                    *)
StreamFails(s) ==
    /\ Running(s, "streaming") /\ ws[stream[s].client] = "open"
    /\ StreamOver(s, "ended")

FaultyStreamSendFails(s) ==
    /\ Running(s, "streaming") /\ ws[stream[s].client] # "open"
    /\ UNCHANGED httpVars

(* On a socket that is not open the send raises, and so does the one that  *)
(* is to report it.                                                        *)
StreamSendFails(s) ==
    /\ Running(s, "streaming") /\ ws[stream[s].client] # "open"
    /\ StreamOver(s, "raised")

StreamCancelled(s) ==
    /\ Alive(s) /\ stream[s].cancelled
    /\ StreamOver(s, "ended")

-----------------------------------------------------------------------------
(* The server's stop().                                                    *)

ServerStart ==
    /\ server = "off"
    /\ server' = "up"
    /\ UNCHANGED <<streamVars, toClose, closer>>

ServerStopBegin ==
    /\ server = "up"
    /\ server' = "closing"
    /\ toClose' = registered
    /\ UNCHANGED <<streamVars, closer>>

(* close() of c after cancel_stream: ws.close() waits for the peer.        *)
CloserCloses(c) ==
    /\ slot' = [slot EXCEPT ![c] = NoStream]
    /\ ws' = [ws EXCEPT ![c] = "closed"]
    /\ closer' = IF ws[c] = "closed" THEN NotClosing ELSE [client |-> c, awaits |-> NoStream]

(* The next client: an exception of its close() is only logged.            *)
CloserNext(c) ==
    /\ server = "closing" /\ closer = NotClosing /\ c \in toClose
    /\ toClose' = toClose \ {c}
    /\ \/ /\ Alive(slot[c])
          /\ stream' = RequestCancel(slot[c])
          /\ closer' = [client |-> c, awaits |-> slot[c]]
          /\ UNCHANGED <<ws, slot>>
       \/ NothingToAwait(c) /\ CloserCloses(c) /\ UNCHANGED stream
       \/ Raised(slot[c]) /\ UNCHANGED <<closer, ws, slot, stream>>
    /\ UNCHANGED <<handler, awaits, registered, assetId, server>>

CloserResumes ==
    /\ closer.awaits # NoStream /\ ~Alive(closer.awaits)
    /\ CloserCloses(closer.client)
    /\ UNCHANGED <<handler, awaits, registered, assetId, stream, server, toClose>>

(* The peer answered the close frame, or did not in time.                  *)
CloserDone ==
    /\ closer # NotClosing /\ closer.awaits = NoStream
    /\ closer' = NotClosing
    /\ UNCHANGED <<streamVars, server, toClose>>

(* site.stop: no connection is accepted any more.                          *)
SiteStop ==
    /\ server = "closing" /\ closer = NotClosing /\ toClose = {}
    /\ server' = "draining"
    /\ UNCHANGED <<streamVars, toClose, closer>>

(* runner.cleanup waits for the handlers, and cuts off those that are still*)
(* there after its timeout.                                                *)
CleanupForce ==
    /\ server = "draining"
    /\ \E c \in Clients : ws[c] = "open"
    /\ ws' = [c \in Clients |-> IF ws[c] = "open" THEN "lost" ELSE ws[c]]
    /\ UNCHANGED <<handler, awaits, registered, assetId, slot, stream, serverVars>>

ServerStopped ==
    /\ server = "draining"
    /\ \A c \in Clients : handler[c] \in {"none", "raised"}
    /\ server' = "stopped"
    /\ UNCHANGED <<streamVars, toClose, closer>>

(* site.stop or runner.cleanup raises.                                     *)
ServerStopRaises ==
    /\ server \in {"closing", "draining"} /\ closer = NotClosing /\ toClose = {}
    /\ server' = "stopRaised"
    /\ UNCHANGED <<streamVars, toClose, closer>>

StreamNext ==
    \/ \E c \in Clients : Connect(c) \/ Subscribe(c) \/ Unsubscribe(c) \/ Leave(c) \/ Resume(c) \/ PeerLeaves(c)
    \/ \E s \in Streams : StreamStart(s) \/ StreamFails(s) \/ StreamSendFails(s) \/ StreamCancelled(s)
    \/ \E c \in Clients : CloserNext(c)
    \/ CloserResumes \/ CloserDone \/ SiteStop \/ CleanupForce

=============================================================================
