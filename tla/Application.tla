---------------------------- MODULE Application ----------------------------
(***************************************************************************)
(* The application (src/app.py): run() starts the components in the order  *)
(* of their dependencies, waits for a signal and stops them in reverse     *)
(* order.  The HTTP server is module HttpServer; of the others only        *)
(* whether they are up is kept, and a start() or a stop() is one step      *)
(* (modules ControlPlane and DataPlane have what happens inside).          *)
(***************************************************************************)
EXTENDS HttpServer, Naturals, Sequences, Functions

VARIABLES
    phase,          \* where run() is
    step,           \* the component it is at, in StartOrder or StopOrder
    running,        \* _running
    shutdownEvent,  \* _shutdown_event.is_set()
    up,             \* the components that are started
    failed,         \* history: start() met an exception
    raised          \* history: the components whose stop() raised

appVars == <<phase, step, running, shutdownEvent, up, failed, raised>>
vars == <<appVars, httpVars>>

StartOrder == <<"workers", "router", "pool", "lifecycle", "recycler", "http">>

FaultyStopOrder == <<"recycler", "lifecycle", "pool", "router", "workers", "http">>

(* _stop.                                                                  *)
StopOrder == <<"recycler", "http", "lifecycle", "pool", "router", "workers">>

Components == Range(StartOrder)

(* What a component calls while it is up.                                  *)
DependsOn == [k \in Components |->
    CASE k = "router" -> {"workers"}
      [] k = "pool" -> {"router"}
      [] k = "recycler" -> {"pool"}
      [] k = "http" -> {"workers", "router"}
      [] OTHER -> {}]

TypeOK ==
    /\ HttpTypeOK
    /\ phase \in {"starting", "waiting", "stopping", "returned"}
    /\ step \in 1..7
    /\ running \in BOOLEAN /\ shutdownEvent \in BOOLEAN /\ failed \in BOOLEAN
    /\ up \subseteq Components /\ raised \subseteq Components

Init ==
    /\ HttpInit
    /\ phase = "starting" /\ step = 1
    /\ running = FALSE /\ shutdownEvent = FALSE
    /\ up = {} /\ failed = FALSE /\ raised = {}

-----------------------------------------------------------------------------
(* start().                                                                *)

Starting(k) == phase = "starting" /\ StartOrder[step] = k

(* An exception ends start(), which logs it and returns.                   *)
StartRaises(k) ==
    /\ Starting(k) /\ k # "http"
    /\ failed' = TRUE
    /\ phase' = "waiting"
    /\ UNCHANGED <<step, running, shutdownEvent, up, raised, httpVars>>

StartComponent(k) ==
    /\ Starting(k) /\ k # "http"
    /\ up' = up \cup {k}
    /\ step' = step + 1
    /\ UNCHANGED <<phase, running, shutdownEvent, failed, raised, httpVars>>

(* The server is the last to start, if it is enabled; that it cannot start *)
(* does not matter.                                                        *)
StartHttp ==
    /\ Starting("http")
    /\ \/ ServerStart /\ up' = up \cup {"http"}
       \/ UNCHANGED <<up, httpVars>>
    /\ running' = TRUE
    /\ phase' = "waiting"
    /\ UNCHANGED <<step, shutdownEvent, failed, raised>>

-----------------------------------------------------------------------------
(* run() after start(), and stop().                                        *)

(* SIGINT or SIGTERM.                                                      *)
Signal ==
    /\ phase # "returned" /\ ~shutdownEvent
    /\ shutdownEvent' = TRUE
    /\ UNCHANGED <<phase, step, running, up, failed, raised, httpVars>>

(* stop() does nothing unless start() came to its end.                     *)
BeginStop ==
    /\ phase = "waiting" /\ shutdownEvent
    /\ IF running
       THEN phase' = "stopping" /\ step' = 1
       ELSE phase' = "returned" /\ step' = step
    /\ UNCHANGED <<running, shutdownEvent, up, failed, raised, httpVars>>

Stopping(k) == phase = "stopping" /\ step <= Len(StopOrder) /\ StopOrder[step] = k

FaultyStopComponent(k) ==
    /\ Stopping(k) /\ k # "http"
    /\ \/ up' = up \ {k} /\ step' = step + 1 /\ UNCHANGED <<phase, raised>>
       \/ raised' = raised \cup {k} /\ phase' = "returned" /\ UNCHANGED <<up, step>>
    /\ UNCHANGED <<running, shutdownEvent, failed, httpVars>>

(* The stop() of a component, whose exceptions are logged.                 *)
StopComponent(k) ==
    /\ Stopping(k) /\ k # "http"
    /\ \/ up' = up \ {k} /\ raised' = raised
       \/ raised' = raised \cup {k} /\ up' = up
    /\ step' = step + 1
    /\ UNCHANGED <<phase, running, shutdownEvent, failed, httpVars>>

StopHttpBegin ==
    /\ Stopping("http")
    /\ ServerStopBegin
    /\ UNCHANGED appVars

(* The server is stopped, or its stop() raises, or there is none.          *)
StopHttpEnd ==
    /\ Stopping("http")
    /\ \/ ServerStopped /\ up' = up \ {"http"} /\ raised' = raised
       \/ ServerStopRaises /\ raised' = raised \cup {"http"} /\ up' = up
       \/ "http" \notin up /\ UNCHANGED <<up, raised, httpVars>>
    /\ step' = step + 1
    /\ UNCHANGED <<phase, running, shutdownEvent, failed>>

Return ==
    /\ phase = "stopping" /\ step = Len(StopOrder) + 1
    /\ phase' = "returned"
    /\ running' = FALSE
    /\ UNCHANGED <<step, shutdownEvent, up, failed, raised, httpVars>>

(* One step of run(); each of them is taken sooner or later.               *)
Run ==
    \/ \E k \in Components : StartRaises(k) \/ StartComponent(k) \/ StopComponent(k)
    \/ StartHttp \/ BeginStop \/ StopHttpBegin \/ StopHttpEnd \/ Return

Next ==
    \/ Run
    \/ Signal
    \/ StreamNext /\ UNCHANGED appVars

Spec == Init /\ [][Next]_vars

(* The event loop runs what is ready, a sleep and a query end, the closing *)
(* handshake ends, and aiohttp cuts off the handlers that remain.  A client*)
(* that is gone has sent finitely many messages: its handler comes to read *)
(* the loss.                                                               *)
Fairness ==
    /\ WF_vars(Run)
    /\ \A c \in Clients :
        /\ WF_vars(Resume(c) /\ UNCHANGED appVars)
        /\ SF_vars(Leave(c) /\ UNCHANGED appVars)
    /\ \A s \in Streams :
        WF_vars((StreamStart(s) \/ StreamSendFails(s) \/ StreamCancelled(s)) /\ UNCHANGED appVars)
    /\ WF_vars((\/ \E c \in Clients : CloserNext(c)
                \/ CloserResumes \/ CloserDone \/ SiteStop \/ CleanupForce) /\ UNCHANGED appVars)

FairSpec == Spec /\ Fairness

-----------------------------------------------------------------------------
(* A client gets one stream at a time, of the asset it asked for last,     *)
(* whatever its handler, its old stream and the server's stop do: a stream *)
(* that can still send to its client is the one in its slot.               *)
OneStream ==
    \A s \in Streams :
        Alive(s) /\ ~stream[s].cancelled /\ ws[stream[s].client] = "open" =>
            slot[stream[s].client] = s /\ assetId[stream[s].client] = stream[s].asset

(* A component is up only while what it calls is up, unless its stop()     *)
(* raised; no stream of a connected client, even one the server's stop lost*)
(* sight of, queries workers that are gone.                                *)
DependenciesUp ==
    /\ \A k \in up \ raised : DependsOn[k] \subseteq up
    /\ "http" \notin raised =>
        \A s \in Streams : Alive(s) /\ ws[stream[s].client] = "open" => DependsOn["http"] \subseteq up

(* After a complete start, run() returns with every component stopped but  *)
(* those whose stop() raised: one that fails does not keep the others from *)
(* being stopped.                                                          *)
CleanStop == phase = "returned" /\ ~failed => up \subseteq raised

(* A signal ends the application, whenever it comes, whatever the clients  *)
(* and their streams are doing and however many stop() calls raise.        *)
SignalStops == shutdownEvent ~> phase = "returned"

(* A stream does not outlive its client's connection, also when the handler*)
(* and the server's stop have both cancelled the one before it and the     *)
(* server's stop has dropped the reference to it.                          *)
StreamsEnd ==
    \A s \in Streams : Alive(s) /\ ws[stream[s].client] # "open" ~> ~Alive(s)

(* A client that is gone is dropped from _clients, with one exception: if  *)
(* its stream found the loss first and raised, close() raises in the       *)
(* finally clause before the pop, and get_client_count counts it for ever. *)
ClientsDropped ==
    \A c \in Clients :
        ws[c] \in {"lost", "closed"} ~> c \notin registered \/ Raised(slot[c]) \/ ws[c] = "open"

-----------------------------------------------------------------------------
(* What the docstring of start() says (app.py:97) and a run refutes: it    *)
(* stops the components already started when a later one fails.            *)
FailedStartStops == phase = "returned" /\ failed => up \subseteq raised

=============================================================================
