------------------------- MODULE Application_proofs -------------------------
(***************************************************************************)
(* For any clients, assets and streams: a client has one stream at a time, *)
(* what is up has what it depends on, and run() stops what it can.         *)
(***************************************************************************)
EXTENDS Application, TLAPS

-----------------------------------------------------------------------------
(* The streams.                                                            *)

(* The stream in the slot of a client that still runs is the client's, and *)
(* of the asset it asked for.                                              *)
SlotOwned ==
    \A c \in Clients : Alive(slot[c]) =>
        stream[slot[c]].client = c /\ stream[slot[c]].asset = assetId[c]

(* Conversely a stream that can still send is in its client's slot.        *)
StreamOwned ==
    \A s \in Streams : Alive(s) =>
        /\ stream[s].client \in Clients
        /\ ~stream[s].cancelled /\ ws[stream[s].client] = "open" => slot[stream[s].client] = s

(* While the handler awaits a stream nobody puts another in its slot.      *)
AwaitedSlot == \A c \in Clients : awaits[c] # NoStream => slot[c] \in {awaits[c], NoStream}

(* A stream raises only when its client is gone.                           *)
RaisedLost == \A c \in Clients : Raised(slot[c]) => ws[c] # "open"

(* A client without a handler has neither an open socket nor a stream.     *)
HandlerGone ==
    \A c \in Clients :
        /\ handler[c] \in {"none", "raised"} => ws[c] # "open"
        /\ handler[c] = "none" => slot[c] = NoStream

(* The server's stop awaits the stream of a client.                        *)
CloserHasClient == closer.awaits # NoStream => closer.client \in Clients

HttpInv ==
    /\ HttpTypeOK /\ CloserHasClient
    /\ SlotOwned /\ StreamOwned /\ AwaitedSlot /\ RaisedLost /\ HandlerGone

LEMMA HttpInitInv == HttpInit => HttpInv
BY NoneAssumption
DEF HttpInit, HttpInv, HttpTypeOK, CloserHasClient, SlotOwned, StreamOwned, AwaitedSlot, RaisedLost, HandlerGone,
    Alive, Raised, Over, NotClosing

-----------------------------------------------------------------------------
(* What the handler does when its client has no stream that runs.          *)

(* No stream of c can send if the one in its slot does not run.            *)
NoSender(c) ==
    \A s \in Streams : Alive(s) /\ stream[s].client = c => stream[s].cancelled \/ ws[c] # "open"

LEMMA NoSenderLeft ==
    ASSUME HttpInv, NEW c \in Clients, ~Alive(slot[c])
    PROVE  NoSender(c)
BY DEF HttpInv, StreamOwned, NoSender

(* So it is after awaiting the stream, too.                                *)
LEMMA NoneAfterAwait ==
    ASSUME HttpInv, NEW c \in Clients, awaits[c] # NoStream, ~Alive(awaits[c])
    PROVE  ~Alive(slot[c])
BY DEF HttpInv, AwaitedSlot, Alive

LEMMA SubscribedInv ==
    ASSUME HttpInv, NEW c \in Clients, NoSender(c), Subscribed(c), UNCHANGED serverVars,
           handler[c] # "none", ws[c] # "open" \/ handler[c] # "raised"
    PROVE  HttpInv'
<1>1. PICK s \in Streams, a \in Assets :
        /\ s \in Unused
        /\ stream' = [stream EXCEPT ![s] = [client |-> c, asset |-> a, pc |-> "starting", cancelled |-> FALSE]]
        /\ slot' = [slot EXCEPT ![c] = s]
        /\ assetId' = [assetId EXCEPT ![c] = a]
        /\ handler' = [handler EXCEPT ![c] = "reading"]
        /\ awaits' = [awaits EXCEPT ![c] = NoStream]
        /\ UNCHANGED <<ws, registered>>
  BY DEF Subscribed, NewStream
<1>. USE <1>1, NoneAssumption DEF HttpInv, serverVars, Unused
<1>2. HttpTypeOK'
  BY DEF HttpTypeOK
<1>3. SlotOwned'
  BY DEF HttpTypeOK, SlotOwned, Alive
<1>4. StreamOwned'
  BY DEF HttpTypeOK, StreamOwned, NoSender, Alive
<1>5. CloserHasClient' /\ AwaitedSlot' /\ RaisedLost' /\ HandlerGone'
  BY DEF HttpTypeOK, CloserHasClient, AwaitedSlot, RaisedLost, HandlerGone, Raised
<1>. QED  BY <1>2, <1>3, <1>4, <1>5

LEMMA SlotClearedInv ==
    ASSUME HttpInv, NEW c \in Clients, NoSender(c), UNCHANGED serverVars,
           Left(c) \/ Unsubscribed(c) \/ Rejected(c), handler[c] # "none",
           ws[c] # "open" \/ handler[c] # "raised"
    PROVE  HttpInv'
<1>. USE NoneAssumption DEF HttpInv, serverVars, HttpTypeOK, Alive, Raised
<1>1. CASE Left(c)
  BY <1>1 DEF Left, CloserHasClient, SlotOwned, StreamOwned, AwaitedSlot, RaisedLost, HandlerGone
<1>2. CASE Unsubscribed(c)
  BY <1>2 DEF Unsubscribed, CloserHasClient, SlotOwned, StreamOwned, AwaitedSlot, RaisedLost, HandlerGone, NoSender
<1>3. CASE Rejected(c)
  BY <1>1, <1>3 DEF Rejected, CloserHasClient, SlotOwned, StreamOwned, AwaitedSlot, RaisedLost, HandlerGone, NoSender
<1>. QED  BY <1>1, <1>2, <1>3

(* A cancellation that is requested changes nothing but that.              *)
LEMMA RequestCancelOnly ==
    ASSUME HttpInv, NEW s \in Streams, stream' = RequestCancel(s)
    PROVE  \A t \in Streams :
            /\ stream'[t].client = stream[t].client /\ stream'[t].asset = stream[t].asset
            /\ stream'[t].pc = stream[t].pc
            /\ stream'[t].cancelled \in BOOLEAN /\ (stream[t].cancelled => stream'[t].cancelled)
BY DEF HttpInv, HttpTypeOK, RequestCancel

LEMMA CancelInv ==
    ASSUME HttpInv, NEW s \in Streams, stream' = RequestCancel(s), UNCHANGED <<ws, slot, assetId>>
    PROVE  /\ stream' \in [Streams -> [client : Clients \cup {NoClient}, asset : Assets \cup {NoAsset},
                                      pc : {"starting", "streaming", "ended", "raised"},
                                      cancelled : BOOLEAN]]
           /\ SlotOwned' /\ StreamOwned' /\ RaisedLost'
<1>1. stream' = [stream EXCEPT ![s].cancelled = TRUE]
  BY DEF RequestCancel
<1>2. slot \in [Clients -> Streams \cup {NoStream}]
  BY DEF HttpInv, HttpTypeOK
<1>3. \A t \in Streams \cup {NoStream} : Alive(t)' = Alive(t) /\ Raised(t)' = Raised(t)
  BY RequestCancelOnly, NoneAssumption DEF Alive, Raised
<1>4. SlotOwned'
  BY <1>2, <1>3, RequestCancelOnly DEF HttpInv, SlotOwned, Alive
<1>5. StreamOwned'
  BY <1>3, RequestCancelOnly DEF HttpInv, StreamOwned
<1>6. RaisedLost'
  BY <1>2, <1>3 DEF HttpInv, RaisedLost
<1>7. stream' \in [Streams -> [client : Clients \cup {NoClient}, asset : Assets \cup {NoAsset},
                             pc : {"starting", "streaming", "ended", "raised"},
                             cancelled : BOOLEAN]]
  BY <1>1 DEF HttpInv, HttpTypeOK
<1>. QED  BY <1>4, <1>5, <1>6, <1>7

LEMMA AwaitStreamInv ==
    ASSUME HttpInv, NEW c \in Clients, NEW pc \in {"subscribing", "unsubscribing", "leaving"},
           AwaitStream(c, pc), UNCHANGED serverVars
    PROVE  HttpInv'
<1>1. /\ slot[c] \in Streams /\ stream' = RequestCancel(slot[c])
      /\ handler' = [handler EXCEPT ![c] = pc]
      /\ awaits' = [awaits EXCEPT ![c] = slot[c]]
      /\ UNCHANGED <<ws, registered, assetId, slot>>
  BY DEF AwaitStream, Alive, HttpInv, HttpTypeOK
<1>3. SlotOwned' /\ StreamOwned' /\ RaisedLost'
  BY <1>1, CancelInv
<1>4. HttpTypeOK'
  BY <1>1, CancelInv DEF HttpInv, HttpTypeOK, serverVars
<1>5. CloserHasClient' /\ AwaitedSlot' /\ HandlerGone'
  BY <1>1 DEF HttpInv, HttpTypeOK, serverVars, CloserHasClient, AwaitedSlot, HandlerGone
<1>. QED  BY <1>3, <1>4, <1>5 DEF HttpInv

LEMMA HandlerRaisesInv ==
    ASSUME HttpInv, NEW c \in Clients, HandlerRaises(c), UNCHANGED serverVars
    PROVE  HttpInv'
BY DEF HttpInv, HttpTypeOK, HandlerRaises, serverVars, Alive, Raised,
       CloserHasClient, SlotOwned, StreamOwned, AwaitedSlot, RaisedLost, HandlerGone

(* A message from the client, or the end of its messages.                  *)
LEMMA HandlerInv ==
    ASSUME HttpInv, NEW c \in Clients, Subscribe(c) \/ Unsubscribe(c) \/ Leave(c)
    PROVE  HttpInv'
<1>1. handler[c] = "reading" /\ UNCHANGED serverVars
  BY DEF Subscribe, Unsubscribe, Leave, Reading
<1>2. CASE AwaitStream(c, "subscribing") \/ AwaitStream(c, "unsubscribing") \/ AwaitStream(c, "leaving")
  BY <1>1, <1>2, AwaitStreamInv
<1>3. CASE HandlerRaises(c)
  BY <1>1, <1>3, HandlerRaisesInv
<1>4. CASE NothingToAwait(c) /\ (Subscribed(c) \/ Rejected(c) \/ Unsubscribed(c) \/ Left(c))
  <2>1. NoSender(c)
    BY <1>4, NoSenderLeft DEF NothingToAwait
  <2>. QED  BY <1>1, <1>4, <2>1, SubscribedInv, SlotClearedInv
<1>. QED  BY <1>2, <1>3, <1>4 DEF Subscribe, Unsubscribe, Leave

LEMMA ResumeInv ==
    ASSUME HttpInv, NEW c \in Clients, Resume(c)
    PROVE  HttpInv'
<1>1. NoSender(c)
  BY NoneAfterAwait, NoSenderLeft DEF Resume
<1>2. handler[c] \notin {"none", "raised"} /\ UNCHANGED serverVars
  BY DEF Resume
<1>. QED  BY <1>1, <1>2, SubscribedInv, SlotClearedInv DEF Resume

LEMMA ClientInv ==
    ASSUME HttpInv, NEW c \in Clients, Connect(c) \/ PeerLeaves(c)
    PROVE  HttpInv'
<1>. USE NoneAssumption DEF HttpInv, HttpTypeOK, serverVars, Alive, Raised,
       CloserHasClient, SlotOwned, StreamOwned, AwaitedSlot, RaisedLost, HandlerGone
<1>1. CASE Connect(c)
  BY <1>1 DEF Connect
<1>2. CASE PeerLeaves(c)
  BY <1>2 DEF PeerLeaves
<1>. QED  BY <1>1, <1>2

(* A stream that is over can be awaited, but no longer sends.              *)
LEMMA StreamOverInv ==
    ASSUME HttpInv, NEW s \in Streams, Alive(s), NEW pc \in {"ended", "raised"}, StreamOver(s, pc),
           pc = "raised" => ws[stream[s].client] # "open"
    PROVE  HttpInv'
<1> DEFINE last == IF \E c \in Clients : slot[c] = s THEN pc ELSE "ended"
<1>1. /\ last \in {"ended", "raised"}
      /\ stream' = [stream EXCEPT ![s] = [client |-> NoClient, asset |-> NoAsset, pc |-> last, cancelled |-> FALSE]]
      /\ StreamUnchanged
  BY DEF StreamOver, Over
<1>2. \A c \in Clients : slot[c] = s /\ last = "raised" => ws[c] # "open"
  BY DEF HttpInv, SlotOwned
<1>. HIDE DEF last
<1>. USE <1>1, NoneAssumption DEF HttpInv, StreamUnchanged, serverVars, HttpTypeOK, Alive
<1>3. HttpTypeOK'
  OBVIOUS
<1>4. SlotOwned' /\ StreamOwned'
  BY DEF SlotOwned, StreamOwned
<1>5. CloserHasClient' /\ AwaitedSlot' /\ HandlerGone'
  BY DEF CloserHasClient, AwaitedSlot, HandlerGone
<1>6. RaisedLost'
  BY <1>2 DEF RaisedLost, Raised
<1>. QED  BY <1>3, <1>4, <1>5, <1>6

LEMMA StreamInv ==
    ASSUME HttpInv, NEW s \in Streams,
           StreamStart(s) \/ StreamFails(s) \/ StreamSendFails(s) \/ StreamCancelled(s)
    PROVE  HttpInv'
<1>1. CASE StreamStart(s)
  BY <1>1, NoneAssumption
  DEF StreamStart, StreamUnchanged, Running, HttpInv, HttpTypeOK, serverVars, Alive, Raised,
      CloserHasClient, SlotOwned, StreamOwned, AwaitedSlot, RaisedLost, HandlerGone
<1>2. CASE StreamFails(s)
  BY <1>2, StreamOverInv, NoneAssumption DEF StreamFails, Running, Alive
<1>3. CASE StreamSendFails(s)
  BY <1>3, StreamOverInv, NoneAssumption DEF StreamSendFails, Running, Alive
<1>4. CASE StreamCancelled(s)
  BY <1>4, StreamOverInv DEF StreamCancelled
<1>. QED  BY <1>1, <1>2, <1>3, <1>4

-----------------------------------------------------------------------------
(* The server's stop.                                                      *)

LEMMA CloserClosesInv ==
    ASSUME HttpInv, NEW c \in Clients, CloserCloses(c),
           toClose' \subseteq Clients, UNCHANGED <<handler, awaits, registered, assetId, stream, server>>
    PROVE  HttpInv'
BY NoneAssumption
DEF CloserCloses, NotClosing, HttpInv, HttpTypeOK, serverVars, Alive, Raised,
    CloserHasClient, SlotOwned, StreamOwned, AwaitedSlot, RaisedLost, HandlerGone

LEMMA CloserInv ==
    ASSUME HttpInv, CloserResumes \/ CloserDone \/ \E c \in Clients : CloserNext(c)
    PROVE  HttpInv'
<1>1. CASE CloserResumes
  <2>1. closer.client \in Clients
    BY <1>1
    DEF CloserResumes, HttpInv, CloserHasClient
  <2>. QED  BY <1>1, <2>1, CloserClosesInv DEF CloserResumes, HttpInv, HttpTypeOK
<1>2. CASE CloserDone
  BY <1>2
  DEF CloserDone, NotClosing, streamVars, HttpInv, HttpTypeOK, Alive, Raised,
      CloserHasClient, SlotOwned, StreamOwned, AwaitedSlot, RaisedLost, HandlerGone
<1>3. ASSUME NEW c \in Clients, CloserNext(c)
      PROVE  HttpInv'
  <2>1. CASE NothingToAwait(c) /\ CloserCloses(c) /\ UNCHANGED stream
    BY <1>3, <2>1, CloserClosesInv DEF CloserNext, HttpInv, HttpTypeOK
  <2>2. CASE Alive(slot[c]) /\ stream' = RequestCancel(slot[c])
    <3>1. /\ slot[c] \in Streams
          /\ toClose' = toClose \ {c}
          /\ closer' = [client |-> c, awaits |-> slot[c]]
          /\ UNCHANGED <<ws, slot, handler, awaits, registered, assetId, server>>
      BY <1>3, <2>2 DEF CloserNext, NothingToAwait, Alive, Raised, HttpInv, HttpTypeOK
    <3>2. SlotOwned' /\ StreamOwned' /\ RaisedLost'
      BY <2>2, <3>1, CancelInv
    <3>3. HttpTypeOK'
      BY <2>2, <3>1, CancelInv DEF HttpInv, HttpTypeOK
    <3>4. CloserHasClient' /\ AwaitedSlot' /\ HandlerGone'
      BY <3>1 DEF HttpInv, HttpTypeOK, CloserHasClient, AwaitedSlot, HandlerGone
    <3>. QED  BY <3>2, <3>3, <3>4 DEF HttpInv
  <2>3. CASE Raised(slot[c]) /\ UNCHANGED <<closer, ws, slot, stream>>
    BY <1>3, <2>3
    DEF CloserNext, HttpInv, HttpTypeOK, Alive, Raised,
        CloserHasClient, SlotOwned, StreamOwned, AwaitedSlot, RaisedLost, HandlerGone
  <2>. QED  BY <1>3, <2>1, <2>2, <2>3 DEF CloserNext
<1>. QED  BY <1>1, <1>2, <1>3

(* The rest touches the sockets at most.                                   *)
LEMMA ServerInv ==
    ASSUME HttpInv,
           \/ ServerStart \/ ServerStopBegin \/ SiteStop \/ CleanupForce
           \/ ServerStopped \/ ServerStopRaises
    PROVE  HttpInv'
<1>1. CASE CleanupForce
  BY <1>1
  DEF CleanupForce, serverVars, HttpInv, HttpTypeOK, Alive, Raised,
      CloserHasClient, SlotOwned, StreamOwned, AwaitedSlot, RaisedLost, HandlerGone
<1>2. CASE ServerStart \/ ServerStopBegin \/ SiteStop \/ ServerStopped \/ ServerStopRaises
  <2>1. UNCHANGED streamVars /\ UNCHANGED closer /\ toClose' \subseteq Clients
    BY <1>2 DEF ServerStart, ServerStopBegin, SiteStop, ServerStopped, ServerStopRaises, HttpInv, HttpTypeOK
  <2>2. server' \in {"up", "closing", "draining", "stopped", "stopRaised"}
    BY <1>2 DEF ServerStart, ServerStopBegin, SiteStop, ServerStopped, ServerStopRaises
  <2>. QED  BY <2>1, <2>2
            DEF streamVars, HttpInv, HttpTypeOK, Alive, Raised,
                CloserHasClient, SlotOwned, StreamOwned, AwaitedSlot, RaisedLost, HandlerGone
<1>. QED  BY <1>1, <1>2

LEMMA HttpUnchangedInv ==
    ASSUME HttpInv, UNCHANGED httpVars
    PROVE  HttpInv'
BY DEF httpVars, streamVars, serverVars, HttpInv, HttpTypeOK, Alive, Raised,
       CloserHasClient, SlotOwned, StreamOwned, AwaitedSlot, RaisedLost, HandlerGone

LEMMA StreamNextInv ==
    ASSUME HttpInv, StreamNext
    PROVE  HttpInv'
<1>1. CASE \E c \in Clients : Connect(c) \/ Subscribe(c) \/ Unsubscribe(c) \/ Leave(c) \/ Resume(c) \/ PeerLeaves(c)
  BY <1>1, ClientInv, HandlerInv, ResumeInv
<1>2. CASE \E s \in Streams : StreamStart(s) \/ StreamFails(s) \/ StreamSendFails(s) \/ StreamCancelled(s)
  BY <1>2, StreamInv
<1>3. CASE CloserResumes \/ CloserDone \/ \E c \in Clients : CloserNext(c)
  BY <1>3, CloserInv
<1>4. CASE SiteStop \/ CleanupForce
  BY <1>4, ServerInv
<1>. QED  BY <1>1, <1>2, <1>3, <1>4 DEF StreamNext

-----------------------------------------------------------------------------
(* The components.                                                         *)

(* What start() has come to when it is at StartOrder[n], ...               *)
Before(n) == {StartOrder[i] : i \in 1..(n - 1)}

(* ... and what stop() has still to stop at StopOrder[n].                  *)
From(n) == {StopOrder[i] : i \in n..6}

LEMMA Orders ==
    /\ Before(1) = {}
    /\ Before(2) = {"workers"}
    /\ Before(3) = {"workers", "router"}
    /\ Before(4) = {"workers", "router", "pool"}
    /\ Before(5) = {"workers", "router", "pool", "lifecycle"}
    /\ Before(6) = {"workers", "router", "pool", "lifecycle", "recycler"}
    /\ From(1) = {"recycler", "http", "lifecycle", "pool", "router", "workers"}
    /\ From(2) = {"http", "lifecycle", "pool", "router", "workers"}
    /\ From(3) = {"lifecycle", "pool", "router", "workers"}
    /\ From(4) = {"pool", "router", "workers"}
    /\ From(5) = {"router", "workers"}
    /\ From(6) = {"workers"}
    /\ From(7) = {}
<1>1. /\ StartOrder[1] = "workers" /\ StartOrder[2] = "router" /\ StartOrder[3] = "pool"
      /\ StartOrder[4] = "lifecycle" /\ StartOrder[5] = "recycler"
      /\ StopOrder[1] = "recycler" /\ StopOrder[2] = "http" /\ StopOrder[3] = "lifecycle"
      /\ StopOrder[4] = "pool" /\ StopOrder[5] = "router" /\ StopOrder[6] = "workers"
  BY DEF StartOrder, StopOrder
<1>2. /\ 1..(1 - 1) = {} /\ 1..(2 - 1) = {1} /\ 1..(3 - 1) = {1, 2}
      /\ 1..(4 - 1) = {1, 2, 3} /\ 1..(5 - 1) = {1, 2, 3, 4} /\ 1..(6 - 1) = {1, 2, 3, 4, 5}
  OBVIOUS
<1>3. /\ 1..6 = {1, 2, 3, 4, 5, 6} /\ 2..6 = {2, 3, 4, 5, 6} /\ 3..6 = {3, 4, 5, 6}
      /\ 4..6 = {4, 5, 6} /\ 5..6 = {5, 6} /\ 6..6 = {6} /\ 7..6 = {}
  OBVIOUS
<1>4. /\ Before(1) = {} /\ Before(2) = {"workers"} /\ Before(3) = {"workers", "router"}
      /\ Before(4) = {"workers", "router", "pool"}
  BY <1>1, <1>2 DEF Before
<1>5. /\ Before(5) = {"workers", "router", "pool", "lifecycle"}
      /\ Before(6) = {"workers", "router", "pool", "lifecycle", "recycler"}
  BY <1>1, <1>2 DEF Before
<1>6. /\ From(1) = {"recycler", "http", "lifecycle", "pool", "router", "workers"}
      /\ From(2) = {"http", "lifecycle", "pool", "router", "workers"}
  BY <1>1, <1>3 DEF From
<1>7. /\ From(3) = {"lifecycle", "pool", "router", "workers"}
      /\ From(4) = {"pool", "router", "workers"}
      /\ From(5) = {"router", "workers"}
      /\ From(6) = {"workers"}
      /\ From(7) = {}
  BY <1>1, <1>3 DEF From
<1>. QED  BY <1>4, <1>5, <1>6, <1>7

LEMMA ComponentNames == Components = {"workers", "router", "pool", "lifecycle", "recycler", "http"}
<1>1. DOMAIN StartOrder = 1..6
  BY DEF StartOrder
<1>2. 1..6 = {1, 2, 3, 4, 5, 6}
  OBVIOUS
<1>3. /\ StartOrder[1] = "workers" /\ StartOrder[2] = "router" /\ StartOrder[3] = "pool"
      /\ StartOrder[4] = "lifecycle" /\ StartOrder[5] = "recycler" /\ StartOrder[6] = "http"
  BY DEF StartOrder
<1>. QED  BY <1>1, <1>2, <1>3 DEF Components, Range

LEMMA Dependencies ==
    /\ DependsOn["workers"] = {} /\ DependsOn["router"] = {"workers"}
    /\ DependsOn["pool"] = {"router"} /\ DependsOn["lifecycle"] = {}
    /\ DependsOn["recycler"] = {"pool"} /\ DependsOn["http"] = {"workers", "router"}
BY ComponentNames DEF DependsOn

(* Where run() is, and what is up then.  What is not up may not have been  *)
(* reached, what is not yet to be stopped is up, and what should be down   *)
(* and is not has raised.                                                  *)
StartingInv ==
    /\ phase = "starting" => step \in 1..6
    /\ phase = "waiting" /\ ~running => step \in 1..5
    /\ phase = "starting" \/ (phase = "waiting" /\ ~running) \/ (phase = "returned" /\ step < 6) =>
        ~running /\ up = Before(step) /\ server = "off"
    /\ phase = "waiting" /\ running => step = 6 /\ Before(6) \subseteq up
    /\ (phase = "waiting" /\ ~running) \/ (phase = "returned" /\ step < 6) => failed

StoppingInv ==
    /\ phase = "stopping" =>
        /\ From(step) \ {"http"} \subseteq up
        /\ up \ raised \subseteq From(step)
    /\ phase = "returned" /\ step >= 6 => step = 7 /\ up \subseteq raised

(* The server is up with the component.                                    *)
ServerLive == server \in {"up", "closing", "draining"}

HttpUp ==
    /\ ServerLive => "http" \in up /\ ((phase = "waiting" /\ running) \/ (phase = "stopping" /\ step <= 2))
    /\ server = "stopRaised" => "http" \in raised
    /\ server \in {"off", "stopped"} => \A c \in Clients : ws[c] # "open"

AppTypeOK ==
    /\ phase \in {"starting", "waiting", "stopping", "returned"}
    /\ step \in 1..7
    /\ running \in BOOLEAN /\ shutdownEvent \in BOOLEAN /\ failed \in BOOLEAN
    /\ up \subseteq Components /\ raised \subseteq Components

AppInv == AppTypeOK /\ StartingInv /\ StoppingInv /\ HttpUp

Inv == HttpInv /\ AppInv

LEMMA InitInv == Init => Inv
<1>. SUFFICES ASSUME Init
              PROVE  Inv
  OBVIOUS
<1>1. HttpInv
  BY HttpInitInv DEF Init
<1>2. AppTypeOK
  <2>1. phase \in {"starting", "waiting", "stopping", "returned"} /\ step \in 1..7
    BY DEF Init
  <2>2. running \in BOOLEAN /\ shutdownEvent \in BOOLEAN /\ failed \in BOOLEAN
    BY DEF Init
  <2>3. up \subseteq Components /\ raised \subseteq Components
    BY DEF Init
  <2>. QED BY <2>1, <2>2, <2>3 DEF AppTypeOK
<1>3. StartingInv /\ StoppingInv
  BY Orders DEF Init, HttpInit, StartingInv, StoppingInv
<1>4. HttpUp
  BY DEF Init, HttpInit, HttpUp, ServerLive
<1>. QED  BY <1>1, <1>2, <1>3, <1>4 DEF Inv, AppInv

-----------------------------------------------------------------------------
(* The steps of run().                                                     *)

LEMMA StartInv ==
    ASSUME Inv, NEW k \in Components, StartRaises(k) \/ StartComponent(k)
    PROVE  AppInv'
<1>1. /\ phase = "starting" /\ StartOrder[step] = k /\ k # "http"
      /\ step \in 1..6 /\ up = Before(step) /\ server = "off" /\ ~running
      /\ UNCHANGED <<running, shutdownEvent, server, ws>>
  BY DEF StartRaises, StartComponent, Starting, Inv, AppInv, StartingInv, httpVars, streamVars, serverVars
<1>2. step \in 1..5
  BY <1>1 DEF StartOrder
<1>3. Before(step + 1) = Before(step) \cup {k}
  BY <1>1, <1>2, Orders DEF StartOrder
<1>4. HttpUp'
  BY <1>1 DEF Inv, AppInv, HttpUp, ServerLive
<1>5. CASE StartRaises(k)
  BY <1>1, <1>2, <1>4, <1>5 DEF StartRaises, Inv, AppInv, AppTypeOK, StartingInv, StoppingInv
<1>6. CASE StartComponent(k)
  BY <1>1, <1>2, <1>3, <1>4, <1>6 DEF StartComponent, Inv, AppInv, AppTypeOK, StartingInv, StoppingInv
<1>. QED  BY <1>5, <1>6

LEMMA StartHttpInv ==
    ASSUME Inv, StartHttp
    PROVE  AppInv'
<1>1. /\ phase = "starting" /\ StartOrder[step] = "http"
      /\ step \in 1..6 /\ up = Before(step) /\ server = "off" /\ ~running
      /\ running' = TRUE /\ phase' = "waiting" /\ UNCHANGED <<step, shutdownEvent, failed, raised, ws>>
      /\ \/ server' = server /\ up' = up
         \/ server' = "up" /\ up' = up \cup {"http"}
  BY DEF StartHttp, ServerStart, Starting, Inv, AppInv, StartingInv, httpVars, streamVars, serverVars
<1>2. step = 6
  BY <1>1 DEF StartOrder
<1>3. StartingInv' /\ StoppingInv' /\ HttpUp'
  BY <1>1, <1>2 DEF Inv, AppInv, StartingInv, StoppingInv, HttpUp, ServerLive
<1>4. AppTypeOK'
  BY <1>1, ComponentNames DEF Inv, AppInv, AppTypeOK
<1>. QED  BY <1>3, <1>4 DEF AppInv

LEMMA BeginStopInv ==
    ASSUME Inv, BeginStop
    PROVE  AppInv'
<1>1. /\ phase = "waiting"
      /\ UNCHANGED <<running, shutdownEvent, up, failed, raised, server, ws>>
      /\ \/ running /\ phase' = "stopping" /\ step' = 1
         \/ ~running /\ phase' = "returned" /\ step' = step
  BY DEF BeginStop, httpVars, streamVars, serverVars
<1>2. AppTypeOK' /\ StartingInv' /\ HttpUp'
  BY <1>1 DEF Inv, AppInv, AppTypeOK, StartingInv, HttpUp, ServerLive
<1>3. StoppingInv'
  BY <1>1, Orders, ComponentNames DEF Inv, AppInv, AppTypeOK, StartingInv, StoppingInv
<1>. QED  BY <1>2, <1>3 DEF AppInv

(* One component further in StopOrder.                                     *)
LEMMA FromNext ==
    ASSUME NEW n \in 1..6
    PROVE  From(n) = From(n + 1) \cup {StopOrder[n]} /\ StopOrder[n] \notin From(n + 1)
BY Orders DEF StopOrder

LEMMA StopComponentInv ==
    ASSUME Inv, NEW k \in Components, StopComponent(k)
    PROVE  AppInv'
<1>1. /\ phase = "stopping" /\ step \in 1..6 /\ StopOrder[step] = k /\ k # "http"
      /\ step' = step + 1
      /\ UNCHANGED <<phase, running, shutdownEvent, failed, server, ws>>
      /\ \/ up' = up \ {k} /\ raised' = raised
         \/ up' = up /\ raised' = raised \cup {k}
  BY DEF StopComponent, Stopping, Inv, AppInv, AppTypeOK, httpVars, streamVars, serverVars, StopOrder
<1>2. From(step) = From(step + 1) \cup {k} /\ k \notin From(step + 1)
  BY <1>1, FromNext
<1>3. AppTypeOK' /\ StartingInv'
  BY <1>1 DEF Inv, AppInv, AppTypeOK, StartingInv
<1>4. StoppingInv'
  BY <1>1, <1>2 DEF Inv, AppInv, StoppingInv
<1>5. step = 2 => k = "http"
  BY <1>1 DEF StopOrder
<1>6. HttpUp'
  BY <1>1, <1>5 DEF Inv, AppInv, HttpUp, ServerLive
<1>. QED  BY <1>3, <1>4, <1>6 DEF AppInv

LEMMA StopHttpInv ==
    ASSUME Inv, StopHttpBegin \/ StopHttpEnd
    PROVE  AppInv'
<1>1. phase = "stopping" /\ step \in 1..6 /\ StopOrder[step] = "http"
  BY DEF StopHttpBegin, StopHttpEnd, Stopping, Inv, AppInv, AppTypeOK, StopOrder
<1>2. step = 2
  BY <1>1 DEF StopOrder
<1>3. CASE StopHttpBegin
  <2>1. UNCHANGED appVars /\ UNCHANGED ws /\ server = "up" /\ server' = "closing"
    BY <1>3 DEF StopHttpBegin, ServerStopBegin, streamVars
  <2>. QED  BY <2>1 DEF appVars, Inv, AppInv, AppTypeOK, StartingInv, StoppingInv, HttpUp, ServerLive
<1>4. CASE StopHttpEnd
  <2>1. From(2) = From(3) \cup {"http"} /\ "http" \notin From(3)
    BY Orders
  <2>2. /\ step' = 3 /\ UNCHANGED <<phase, running, shutdownEvent, failed, ws>>
        /\ \/ /\ server' = "stopped" /\ up' = up \ {"http"} /\ raised' = raised
              /\ \A c \in Clients : handler[c] \in {"none", "raised"}
           \/ server' = "stopRaised" /\ raised' = raised \cup {"http"} /\ up' = up
           \/ "http" \notin up /\ UNCHANGED <<up, raised, server>>
    BY <1>2, <1>4 DEF StopHttpEnd, ServerStopped, ServerStopRaises, httpVars, streamVars, serverVars
  <2>3. \A c \in Clients : handler[c] \in {"none", "raised"} => ws[c] # "open"
    BY DEF Inv, HttpInv, HandlerGone
  <2>4. AppTypeOK'
    <3>1. up' \subseteq Components /\ raised' \subseteq Components
      BY <2>2, ComponentNames DEF Inv, AppInv, AppTypeOK
    <3>. QED  BY <2>2, <3>1 DEF Inv, AppInv, AppTypeOK
  <2>5. StartingInv'
    BY <1>1, <2>2 DEF StartingInv
  <2>6. StoppingInv'
    BY <1>1, <1>2, <2>1, <2>2 DEF Inv, AppInv, StoppingInv
  <2>7. HttpUp'
    BY <1>1, <2>2, <2>3 DEF Inv, AppInv, HttpUp, ServerLive
  <2>. QED  BY <2>4, <2>5, <2>6, <2>7 DEF AppInv
<1>. QED  BY <1>3, <1>4

LEMMA ReturnInv ==
    ASSUME Inv, Return
    PROVE  AppInv'
<1>1. /\ phase = "stopping" /\ step = 7 /\ phase' = "returned" /\ running' = FALSE
      /\ UNCHANGED <<step, shutdownEvent, up, failed, raised, server, ws>>
  BY DEF Return, StopOrder, httpVars, streamVars, serverVars
<1>2. AppTypeOK' /\ StartingInv'
  <2>1. running' \in BOOLEAN /\ phase' \in {"starting", "waiting", "stopping", "returned"} /\ step' = 7
    BY <1>1
  <2>2. AppTypeOK'
    BY <1>1, <2>1 DEF Inv, AppInv, AppTypeOK
  <2>3. StartingInv'
    BY <1>1, <2>1 DEF StartingInv
  <2>. QED  BY <2>2, <2>3
<1>3. up \ raised \subseteq From(7) /\ From(7) = {}
  BY <1>1, Orders DEF Inv, AppInv, StoppingInv
<1>4. StoppingInv'
  BY <1>1, <1>3 DEF StoppingInv
<1>5. HttpUp'
  BY <1>1 DEF Inv, AppInv, HttpUp, ServerLive
<1>. QED  BY <1>2, <1>4, <1>5 DEF AppInv

(* Streams and clients leave run() alone; sockets open while the server is *)
(* up or its stop is still closing them.                                   *)
LEMMA StreamNextAppInv ==
    ASSUME Inv, StreamNext, UNCHANGED appVars
    PROVE  AppInv'
<1>1. AppTypeOK'
  BY DEF appVars, Inv, AppInv, AppTypeOK
<1>2. CASE server' = server /\ \A c \in Clients : ws'[c] = "open" => ws[c] = "open" \/ ServerLive
  BY <1>1, <1>2 DEF appVars, Inv, AppInv, StartingInv, StoppingInv, HttpUp, ServerLive
<1>3. CASE SiteStop
  BY <1>1, <1>3 DEF SiteStop, streamVars, appVars, Inv, AppInv, StartingInv, StoppingInv, HttpUp, ServerLive
<1>4. ASSUME NEW c \in Clients, Connect(c)
      PROVE  server' = server /\ ServerLive
  BY <1>4 DEF Connect, ServerLive, serverVars
<1>5. ASSUME NEW c \in Clients, Subscribe(c) \/ Unsubscribe(c) \/ Leave(c) \/ Resume(c) \/ PeerLeaves(c)
      PROVE  server' = server /\ \A d \in Clients : ws'[d] = "open" => ws[d] = "open"
  BY <1>5
  DEF Subscribe, Unsubscribe, Leave, Resume, PeerLeaves, serverVars, AwaitStream, HandlerRaises,
      Subscribed, Unsubscribed, Rejected, Left, Inv, HttpInv, HttpTypeOK
<1>6. ASSUME NEW s \in Streams, StreamStart(s) \/ StreamFails(s) \/ StreamSendFails(s) \/ StreamCancelled(s)
      PROVE  UNCHANGED <<server, ws>>
  BY <1>6 DEF StreamStart, StreamFails, StreamSendFails, StreamCancelled, StreamOver, StreamUnchanged, serverVars
<1>7. ASSUME CloserResumes \/ CloserDone \/ CleanupForce \/ \E c \in Clients : CloserNext(c)
      PROVE  server' = server /\ \A d \in Clients : ws'[d] = "open" => ws[d] = "open"
  BY <1>7
  DEF CloserResumes, CloserDone, CleanupForce, CloserNext, CloserCloses, streamVars, serverVars,
      Inv, HttpInv, HttpTypeOK
<1>. QED  BY <1>2, <1>3, <1>4, <1>5, <1>6, <1>7 DEF StreamNext

LEMMA RunHttpInv ==
    ASSUME Inv, Run
    PROVE  HttpInv'
<1>1. CASE UNCHANGED httpVars
  BY <1>1, HttpUnchangedInv DEF Inv
<1>2. CASE ServerStart \/ ServerStopBegin \/ ServerStopped \/ ServerStopRaises
  BY <1>2, ServerInv DEF Inv
<1>. QED  BY <1>1, <1>2
          DEF Run, StartRaises, StartComponent, StopComponent, StartHttp, BeginStop, StopHttpBegin,
              StopHttpEnd, Return

(* The inductive invariant.                                                *)
THEOREM ApplicationInvariant == Spec => []Inv
<1>1. Inv /\ [Next]_vars => Inv'
  <2>. SUFFICES ASSUME Inv, [Next]_vars
                PROVE  Inv'
    OBVIOUS
  <2>1. CASE Run
    BY <2>1, RunHttpInv, StartInv, StartHttpInv, BeginStopInv, StopComponentInv, StopHttpInv, ReturnInv
    DEF Run, Inv
  <2>2. CASE Signal
    <3>1. HttpInv'
      BY <2>2, HttpUnchangedInv DEF Signal, Inv
    <3>2. AppInv'
      BY <2>2
      DEF Signal, httpVars, streamVars, serverVars, Inv, AppInv, AppTypeOK, StartingInv, StoppingInv,
          HttpUp, ServerLive
    <3>. QED  BY <3>1, <3>2 DEF Inv
  <2>3. CASE StreamNext /\ UNCHANGED appVars
    BY <2>3, StreamNextInv, StreamNextAppInv DEF Inv
  <2>4. CASE UNCHANGED vars
    <3>1. HttpInv'
      BY <2>4, HttpUnchangedInv DEF vars, Inv
    <3>2. AppInv'
      BY <2>4
      DEF vars, appVars, httpVars, streamVars, serverVars, Inv, AppInv, AppTypeOK, StartingInv,
          StoppingInv, HttpUp, ServerLive
    <3>. QED  BY <3>1, <3>2 DEF Inv
  <2>. QED  BY <2>1, <2>2, <2>3, <2>4 DEF Next
<1>. QED  BY InitInv, <1>1, PTL DEF Spec

(* Every variable of the application and of its server keeps its type.     *)
THEOREM ApplicationTypeCorrect == Spec => []TypeOK
<1>1. Inv => TypeOK
  BY DEF Inv, HttpInv, AppInv, AppTypeOK, TypeOK
<1>. QED  BY ApplicationInvariant, <1>1, PTL

(* A client has one stream, of the asset it asked for last                 *)
(* (_handle_subscribe, cancel_stream and close() of websocket_handler.py). *)
THEOREM OneStreamCorrect == Spec => []OneStream
<1>1. Inv => OneStream
  BY DEF Inv, HttpInv, StreamOwned, SlotOwned, OneStream
<1>. QED  BY ApplicationInvariant, <1>1, PTL

(* After a complete start, run() returns with everything stopped but what  *)
(* raised in its stop() (_stop of app.py).                                 *)
THEOREM CleanStopCorrect == Spec => []CleanStop
<1>1. Inv => CleanStop
  BY DEF Inv, AppInv, AppTypeOK, StartingInv, StoppingInv, CleanStop
<1>. QED  BY ApplicationInvariant, <1>1, PTL

(* Starting and stopping in this order, failures included, leaves nothing  *)
(* up without what it calls, and no stream without workers.                *)
THEOREM DependenciesCorrect == Spec => []DependenciesUp
<1>1. ASSUME Inv
      PROVE  DependenciesUp
  <2>1. CASE phase = "starting" \/ (phase = "waiting" /\ ~running) \/ (phase = "returned" /\ step < 6)
    <3>1. up = Before(step) /\ server = "off" /\ step \in 1..6
      BY <1>1, <2>1 DEF Inv, AppInv, AppTypeOK, StartingInv
    <3>2. \A k \in up : DependsOn[k] \subseteq up
      BY <3>1, Orders, Dependencies
    <3>3. \A c \in Clients : ws[c] # "open"
      BY <1>1, <3>1 DEF Inv, AppInv, HttpUp
    <3>. QED  BY <1>1, <3>2, <3>3 DEF DependenciesUp, Inv, HttpInv, StreamOwned
  <2>2. CASE phase = "waiting" /\ running
    <3>1. Before(6) \subseteq up /\ up \subseteq Components
      BY <1>1, <2>2 DEF Inv, AppInv, AppTypeOK, StartingInv
    <3>. QED  BY <3>1, Orders, Dependencies, ComponentNames DEF DependenciesUp
  <2>3. CASE phase = "stopping"
    <3>1. /\ step \in 1..7 /\ From(step) \ {"http"} \subseteq up
          /\ up \ raised \subseteq From(step)
      BY <1>1, <2>3 DEF Inv, AppInv, AppTypeOK, StoppingInv
    <3>2. \A k \in up \ raised : DependsOn[k] \subseteq up
      BY <3>1, Orders, Dependencies
    <3>3. step <= 2 => {"workers", "router"} \subseteq up
      BY <3>1, Orders
    <3>4. ASSUME "http" \notin raised, NEW s \in Streams, Alive(s) /\ ws[stream[s].client] = "open"
          PROVE  {"workers", "router"} \subseteq up
      <4>1. ServerLive
        BY <1>1, <3>4 DEF Inv, HttpInv, StreamOwned, AppInv, HttpUp, HttpTypeOK, ServerLive
      <4>. QED  BY <1>1, <2>3, <3>3, <4>1 DEF Inv, AppInv, HttpUp
    <3>. QED  BY <3>2, <3>4, Dependencies DEF DependenciesUp
  <2>4. CASE phase = "returned" /\ ~(step < 6)
    <3>1. up \subseteq raised /\ ~ServerLive
      BY <1>1, <2>4 DEF Inv, AppInv, AppTypeOK, StoppingInv, HttpUp
    <3>2. "http" \notin raised => \A c \in Clients : ws[c] # "open"
      BY <1>1, <3>1 DEF Inv, HttpInv, HttpTypeOK, AppInv, HttpUp, ServerLive
    <3>. QED  BY <1>1, <3>1, <3>2 DEF DependenciesUp, Inv, HttpInv, StreamOwned
  <2>. QED  BY <1>1, <2>1, <2>2, <2>3, <2>4 DEF Inv, AppInv, AppTypeOK
<1>. QED  BY ApplicationInvariant, <1>1, PTL
=============================================================================
