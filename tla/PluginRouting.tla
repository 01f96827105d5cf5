--------------------------- MODULE PluginRouting ---------------------------
(***************************************************************************)
(* The WebSocket request router of the daemon (daemon/src/ws.rs).          *)
(*                                                                         *)
(* Every connection runs three tasks: recv_loop reads frames, send_loop    *)
(* owns the socket's write half, and handle_ws joins the two and cleans up *)
(* after them.  A CLI or agent connection sends requests; the daemon       *)
(* registers a pending route for each, broadcasts it to every send_loop,   *)
(* and the send_loop of the one active plugin writes it to Studio.  The    *)
(* answer travels back through the route.  The tasks share the active-     *)
(* plugin slot and the route table, each behind a mutex of its own, so one *)
(* action here is one critical section (or one step between two awaits).   *)
(*                                                                         *)
(* A connection id is used once (NEXT_CONN_ID), a reconnecting peer is     *)
(* another element of Plugins or Clients; a request is one frame, and its  *)
(* route id is the request itself, because NEXT_ROUTE_ID never repeats.    *)
(***************************************************************************)
EXTENDS Naturals, Sequences, FiniteSets

CONSTANTS
    Plugins,          \* connections that present the plugin hello
    Clients,          \* connections that present a cli or agent hello
    Requests,         \* request frames
    Origin,           \* the client connection that sends a request
    NoConn,           \* active_plugin is None
    MaxRoutes,        \* MAX_PENDING_ROUTES
    MaxRoutesPerConn, \* MAX_PENDING_ROUTES_PER_CONNECTION
    OutCapacity,      \* OUTBOUND_QUEUE_CAPACITY
    RequestCapacity   \* capacity of the request broadcast channel

Conns == Plugins \cup Clients

ASSUME PeersAssumption ==
    /\ Plugins \cap Clients = {}
    /\ NoConn \notin Conns
    /\ Origin \in [Requests -> Clients]
ASSUME LimitsAssumption ==
    /\ MaxRoutes \in Nat \ {0}
    /\ MaxRoutesPerConn \in Nat \ {0}
    /\ OutCapacity \in Nat \ {0}
    /\ RequestCapacity \in Nat \ {0}

VARIABLES
    main,       \* where handle_ws of a connection is
    recv,       \* where its recv_loop is
    send,       \* where its send_loop is
    kind,       \* PeerState.kind
    rejecting,  \* recv_loop's "rejecting": every later frame is ignored
    closing,    \* OutboundHandle.close was called
    outbox,     \* the bounded outbound queue: requests whose response waits
    requestRx,  \* the connection's receiver of the request broadcast
    missed,     \* that receiver was overrun: its next recv is Lagged
    failing,    \* route ids a task has snapshotted and still has to fail
    active,     \* AppState.active_plugin
    routes,     \* AppState.pending_routes
    expired,    \* routes whose expires_at has passed
    stage,      \* where recv_loop is in the handler of a request
    forwarded,  \* plugin connections a request was written to (observed)
    responses,  \* responses handed to the sink of a request (observed)
    delivered   \* requests whose response was written to the client (observed)

connVars  == <<main, recv, send, kind, rejecting>>
queueVars == <<closing, outbox, responses>>
rxVars    == <<requestRx, missed>>
tableVars == <<routes, expired>>
observed  == <<forwarded, delivered>>
vars == <<connVars, queueVars, rxVars, failing, active, tableVars, stage,
          observed>>

Kinds == {"Unidentified", "Plugin", "Client"}
InHandler == {"checked", "registered", "broadcast"}
Queue(capacity) == {q \in Seq(Requests) : Len(q) <= capacity}

(* Every variable has its type, and no bounded queue exceeds its capacity. *)

TypeOK ==
    /\ main \in [Conns -> {"absent", "serving", "releasing", "snapshot",
                           "failing", "purging", "gone"}]
    /\ recv \in [Conns -> {"off", "reading", "ended"}]
    /\ send \in [Conns -> {"off", "polling", "sweeping", "lagged", "ended"}]
    /\ kind \in [Conns -> Kinds]
    /\ rejecting \in [Conns -> BOOLEAN]
    /\ closing \in [Conns -> BOOLEAN]
    /\ outbox \in [Conns -> Queue(OutCapacity)]
    /\ requestRx \in [Plugins -> Queue(RequestCapacity)]
    /\ missed \in [Plugins -> BOOLEAN]
    /\ failing \in [Conns -> SUBSET Requests]
    /\ active \in Conns \cup {NoConn}
    /\ routes \subseteq Requests
    /\ expired \subseteq Requests
    /\ stage \in [Requests -> {"unsent", "handled"} \cup InHandler]
    /\ forwarded \in [Requests -> SUBSET Plugins]
    /\ responses \in [Requests -> Nat]
    /\ delivered \subseteq Requests

Init ==
    /\ main = [c \in Conns |-> "absent"]
    /\ recv = [c \in Conns |-> "off"]
    /\ send = [c \in Conns |-> "off"]
    /\ kind = [c \in Conns |-> "Unidentified"]
    /\ rejecting = [c \in Conns |-> FALSE]
    /\ closing = [c \in Conns |-> FALSE]
    /\ outbox = [c \in Conns |-> <<>>]
    /\ requestRx = [c \in Plugins |-> <<>>]
    /\ missed = [c \in Plugins |-> FALSE]
    /\ failing = [c \in Conns |-> {}]
    /\ active = NoConn
    /\ routes = {}
    /\ expired = {}
    /\ stage = [r \in Requests |-> "unsent"]
    /\ forwarded = [r \in Requests |-> {}]
    /\ responses = [r \in Requests |-> 0]
    /\ delivered = {}

-----------------------------------------------------------------------------
(* recv_loop handles one frame at a time and awaits only the next frame.   *)
Busy(c) == \E r \in Requests : Origin[r] = c /\ stage[r] \in InHandler

Listening(c) == recv[c] = "reading" /\ ~rejecting[c] /\ ~Busy(c)

IsActivePlugin(c) == kind[c] = "Plugin" /\ active = c

(* Mutants of Respond: the queue grows past its capacity; a full queue     *)
(* loses the response and leaves the connection open.                      *)
RespondUnbounded(r) ==
    /\ responses' = [responses EXCEPT ![r] = @ + 1]
    /\ outbox' = [outbox EXCEPT ![Origin[r]] = Append(@, r)]
    /\ UNCHANGED closing
RespondOrDrop(r) ==
    LET c == Origin[r]
    IN  /\ responses' = [responses EXCEPT ![r] = @ + 1]
        /\ outbox' = IF Len(outbox[c]) < OutCapacity
                     THEN [outbox EXCEPT ![c] = Append(@, r)]
                     ELSE outbox
        /\ UNCHANGED closing

(* A response for r enters the sink of its route.  A full queue, or one    *)
(* whose receiver is gone, loses it and raises the close signal.           *)
Respond(r) ==
    LET c == Origin[r]
    IN  /\ responses' = [responses EXCEPT ![r] = @ + 1]
        /\ IF send[c] # "ended" /\ Len(outbox[c]) < OutCapacity
           THEN /\ outbox' = [outbox EXCEPT ![c] = Append(@, r)]
                /\ UNCHANGED closing
           ELSE /\ closing' = [closing EXCEPT ![c] = TRUE]
                /\ UNCHANGED outbox

(* Whoever removes the route answers it, nobody else.                      *)
AnswerRoute(r) ==
    /\ routes' = routes \ {r}
    /\ expired' = expired \ {r}
    /\ Respond(r)

(* Mutant of FailRoute: it does not look whether the route is still there. *)
FailRouteBlindly(r) == AnswerRoute(r)

(* fail_pending_route.                                                     *)
FailRoute(r) ==
    IF r \in routes THEN AnswerRoute(r) ELSE UNCHANGED <<tableVars, queueVars>>

-----------------------------------------------------------------------------
(* handle_ws subscribes to the broadcasts and spawns both loops.           *)
Connect(c) ==
    /\ main[c] = "absent"
    /\ main' = [main EXCEPT ![c] = "serving"]
    /\ recv' = [recv EXCEPT ![c] = "reading"]
    /\ send' = [send EXCEPT ![c] = "polling"]
    /\ UNCHANGED <<kind, rejecting, queueVars, rxVars, failing, active,
                   tableVars, stage, observed>>

(* A first, well-formed hello.  A plugin takes the slot if it is free and  *)
(* is rejected (plugin-already-connected) otherwise.                       *)
Hello(c) ==
    /\ Listening(c) /\ kind[c] = "Unidentified"
    /\ \/ /\ c \in Clients
          /\ kind' = [kind EXCEPT ![c] = "Client"]
          /\ UNCHANGED <<active, rejecting>>
       \/ /\ c \in Plugins /\ active = NoConn
          /\ active' = c
          /\ kind' = [kind EXCEPT ![c] = "Plugin"]
          /\ UNCHANGED rejecting
       \/ /\ c \in Plugins /\ active # NoConn
          /\ rejecting' = [rejecting EXCEPT ![c] = TRUE]
          /\ UNCHANGED <<active, kind>>
    /\ UNCHANGED <<main, recv, send, queueVars, rxVars, failing, tableVars,
                   stage, observed>>

(* A second hello, an unknown role, another protocol or a stale capability *)
(* makes recv_loop ignore the peer.  The slot of a plugin stays taken.     *)
RejectHello(c) ==
    /\ Listening(c)
    /\ rejecting' = [rejecting EXCEPT ![c] = TRUE]
    /\ UNCHANGED <<main, recv, send, kind, queueVars, rxVars, failing,
                   active, tableVars, stage, observed>>

(* A request frame: without an active plugin it is answered at once.       *)
ReceiveRequest(r) ==
    /\ Listening(Origin[r]) /\ kind[Origin[r]] = "Client"
    /\ stage[r] = "unsent"
    /\ IF active = NoConn
       THEN /\ stage' = [stage EXCEPT ![r] = "handled"]
            /\ Respond(r)
       ELSE /\ stage' = [stage EXCEPT ![r] = "checked"]
            /\ UNCHANGED queueVars
    /\ UNCHANGED <<connVars, rxVars, failing, active, tableVars, observed>>

AtRouteLimit(c) ==
    \/ Cardinality(routes) >= MaxRoutes
    \/ Cardinality({q \in routes : Origin[q] = c}) >= MaxRoutesPerConn

(* register_pending_route, under the route-table lock.                     *)
RegisterRoute(r) ==
    /\ stage[r] = "checked"
    /\ IF AtRouteLimit(Origin[r])
       THEN /\ stage' = [stage EXCEPT ![r] = "handled"]
            /\ Respond(r)
            /\ UNCHANGED tableVars
       ELSE /\ stage' = [stage EXCEPT ![r] = "registered"]
            /\ routes' = routes \cup {r}
            /\ UNCHANGED <<expired, queueVars>>
    /\ UNCHANGED <<connVars, rxVars, failing, active, observed>>

(* The request enters the receiver of every live send_loop; a full one     *)
(* loses its oldest entry and will report Lagged.  Clients' send_loops     *)
(* ignore what they receive, so only the plugins' receivers are state.     *)
(* The sender's own send_loop may already be gone, and with it the last    *)
(* receiver.                                                               *)
BroadcastRequest(r) ==
    LET subscribed(c) == send[c] \notin {"off", "ended"}
        overrun(c)    == subscribed(c) /\ Len(requestRx[c]) = RequestCapacity
    IN  /\ stage[r] = "registered"
        /\ requestRx' = [c \in Plugins |->
                           IF overrun(c) THEN Append(Tail(requestRx[c]), r)
                           ELSE IF subscribed(c) THEN Append(requestRx[c], r)
                           ELSE requestRx[c]]
        /\ missed' = [c \in Plugins |-> missed[c] \/ overrun(c)]
        /\ IF \E c \in Conns : subscribed(c)
           THEN /\ stage' = [stage EXCEPT ![r] = "broadcast"]
                /\ UNCHANGED <<tableVars, queueVars>>
           ELSE /\ stage' = [stage EXCEPT ![r] = "handled"]
                /\ FailRoute(r)
        /\ UNCHANGED <<connVars, failing, active, observed>>

(* Mutant of RecheckPlugin: the handler does not look again.               *)
RecheckNothing(r) ==
    /\ stage[r] = "broadcast"
    /\ stage' = [stage EXCEPT ![r] = "handled"]
    /\ UNCHANGED <<connVars, queueVars, rxVars, failing, active, tableVars,
                   observed>>

(* After the broadcast the handler looks at the slot once more.            *)
RecheckPlugin(r) ==
    /\ stage[r] = "broadcast"
    /\ stage' = [stage EXCEPT ![r] = "handled"]
    /\ IF active = NoConn
       THEN FailRoute(r)
       ELSE UNCHANGED <<tableVars, queueVars>>
    /\ UNCHANGED <<connVars, rxVars, failing, active, observed>>

(* A response frame from the plugin, the first or a repeated one.  A       *)
(* response whose route is gone changes nothing.                           *)
ReceiveResponse(c, r) ==
    /\ Listening(c) /\ kind[c] = "Plugin"
    /\ c \in forwarded[r] /\ r \in routes
    /\ AnswerRoute(r)
    /\ UNCHANGED <<connVars, rxVars, failing, active, stage, observed>>

(* The peer closes its side, or its frame cannot be read.                  *)
PeerCloses(c) ==
    /\ recv[c] = "reading" /\ ~Busy(c)
    /\ recv' = [recv EXCEPT ![c] = "ended"]
    /\ UNCHANGED <<main, send, kind, rejecting, queueVars, rxVars, failing,
                   active, tableVars, stage, observed>>

-----------------------------------------------------------------------------
(* send_loop: one branch of its select! per action.                        *)

(* A broadcast request is written to the socket of the active plugin and   *)
(* ignored by every other send_loop.                                       *)
ForwardRequest(c) ==
    /\ send[c] = "polling" /\ ~missed[c] /\ requestRx[c] # <<>>
    /\ requestRx' = [requestRx EXCEPT ![c] = Tail(@)]
    /\ forwarded' = IF IsActivePlugin(c)
                    THEN [forwarded EXCEPT ![Head(requestRx[c])] = @ \cup {c}]
                    ELSE forwarded
    /\ UNCHANGED <<connVars, queueVars, missed, failing, active, tableVars,
                   stage, delivered>>

(* The write of the request fails or runs into WS_WRITE_TIMEOUT.           *)
ForwardFails(c) ==
    /\ send[c] = "polling" /\ ~missed[c] /\ requestRx[c] # <<>>
    /\ IsActivePlugin(c)
    /\ requestRx' = [requestRx EXCEPT ![c] = Tail(@)]
    /\ FailRoute(Head(requestRx[c]))
    /\ send' = [send EXCEPT ![c] = "ended"]
    /\ UNCHANGED <<main, recv, kind, rejecting, missed, failing, active,
                   stage, observed>>

(* Lagged: the active plugin can no longer know what it missed, so every   *)
(* route is failed and the connection closed; others just go on.           *)
RequestsLagged(c) ==
    /\ send[c] = "polling" /\ missed[c]
    /\ missed' = [missed EXCEPT ![c] = FALSE]
    /\ IF IsActivePlugin(c)
       THEN /\ send' = [send EXCEPT ![c] = "lagged"]
            /\ failing' = [failing EXCEPT ![c] = routes]
       ELSE UNCHANGED <<send, failing>>
    /\ UNCHANGED <<main, recv, kind, rejecting, queueVars, requestRx,
                   active, tableVars, stage, observed>>

(* route_sweep_interval: only the active plugin's send_loop sweeps.        *)
SweepExpired(c) ==
    /\ send[c] = "polling" /\ IsActivePlugin(c)
    /\ expired # {}
    /\ send' = [send EXCEPT ![c] = "sweeping"]
    /\ failing' = [failing EXCEPT ![c] = expired]
    /\ UNCHANGED <<main, recv, kind, rejecting, queueVars, rxVars, active,
                   tableVars, stage, observed>>

(* One queued response is written to the peer.                             *)
WriteResponse(c) ==
    /\ send[c] = "polling" /\ outbox[c] # <<>>
    /\ outbox' = [outbox EXCEPT ![c] = Tail(@)]
    /\ delivered' = delivered \cup {Head(outbox[c])}
    /\ UNCHANGED <<connVars, closing, responses, rxVars, failing, active,
                   tableVars, stage, forwarded>>

(* send_loop breaks: a failed write, a missed hello or heartbeat deadline, *)
(* a shutdown event or a lagged event receiver.                            *)
SendLoopBreaks(c) ==
    /\ send[c] = "polling"
    /\ send' = [send EXCEPT ![c] = "ended"]
    /\ UNCHANGED <<main, recv, kind, rejecting, queueVars, rxVars, failing,
                   active, tableVars, stage, observed>>

(* send_loop sees the close signal.                                        *)
CloseSignalled(c) == closing[c] /\ SendLoopBreaks(c)

-----------------------------------------------------------------------------
(* The loops over snapshotted route ids, one route per step.               *)
FailNext(c) ==
    /\ \E r \in failing[c] :
         /\ failing' = [failing EXCEPT ![c] = @ \ {r}]
         /\ FailRoute(r)
    /\ UNCHANGED <<connVars, rxVars, active, stage, observed>>

(* The sweep is over; after Lagged the connection is closed.               *)
SendLoopResumes(c) ==
    /\ send[c] \in {"sweeping", "lagged"} /\ failing[c] = {}
    /\ send' = [send EXCEPT ![c] = IF @ = "sweeping" THEN "polling"
                                   ELSE "ended"]
    /\ UNCHANGED <<main, recv, kind, rejecting, queueVars, rxVars, failing,
                   active, tableVars, stage, observed>>

(* Mutants of JoinLoops: the aborted recv_loop is not awaited; the end of  *)
(* recv_loop does not stop send_loop.                                      *)
AbortWithoutJoin(c) ==
    /\ main[c] = "serving"
    /\ "ended" \in {recv[c], send[c]}
    /\ main' = [main EXCEPT ![c] = "releasing"]
    /\ recv' = [recv EXCEPT ![c] = "ended"]
    /\ send' = [send EXCEPT ![c] = "ended"]
    /\ UNCHANGED <<kind, rejecting, queueVars, rxVars, failing, active,
                   tableVars, stage, observed>>
JoinSendLoopOnly(c) ==
    /\ main[c] = "serving"
    /\ send[c] = "ended" /\ ~Busy(c)
    /\ main' = [main EXCEPT ![c] = "releasing"]
    /\ recv' = [recv EXCEPT ![c] = "ended"]
    /\ UNCHANGED <<send, kind, rejecting, queueVars, rxVars, failing, active,
                   tableVars, stage, observed>>

(* handle_ws: when one loop has ended the other is aborted at an await and *)
(* joined, so no handler and no sweep is cut in the middle.  The queues    *)
(* end with the send_loop that owned their receivers.                      *)
JoinLoops(c) ==
    /\ main[c] = "serving"
    /\ \/ recv[c] = "ended" /\ send[c] \in {"polling", "ended"}
       \/ send[c] = "ended" /\ ~Busy(c)
    /\ main' = [main EXCEPT ![c] = "releasing"]
    /\ recv' = [recv EXCEPT ![c] = "ended"]
    /\ send' = [send EXCEPT ![c] = "ended"]
    /\ outbox' = [outbox EXCEPT ![c] = <<>>]
    /\ requestRx' = [d \in Plugins |-> IF d = c THEN <<>> ELSE requestRx[d]]
    /\ missed' = [d \in Plugins |-> missed[d] /\ d # c]
    /\ UNCHANGED <<kind, rejecting, closing, responses, failing, active,
                   tableVars, stage, observed>>

(* Mutant of ReleaseSlot: the slot is left to the connection.              *)
KeepSlot(c) ==
    /\ main[c] = "releasing"
    /\ main' = [main EXCEPT ![c] = "purging"]
    /\ UNCHANGED <<recv, send, kind, rejecting, queueVars, rxVars, failing,
                   active, tableVars, stage, observed>>

(* handle_ws gives up the slot, if this connection holds it.               *)
ReleaseSlot(c) ==
    /\ main[c] = "releasing"
    /\ IF active = c
       THEN /\ active' = NoConn
            /\ main' = [main EXCEPT ![c] = "snapshot"]
       ELSE /\ UNCHANGED active
            /\ main' = [main EXCEPT ![c] = "purging"]
    /\ UNCHANGED <<recv, send, kind, rejecting, queueVars, rxVars, failing,
                   tableVars, stage, observed>>

(* fail_all_pending_routes: the ids in the table at this moment.           *)
SnapshotRoutes(c) ==
    /\ main[c] = "snapshot"
    /\ main' = [main EXCEPT ![c] = "failing"]
    /\ failing' = [failing EXCEPT ![c] = routes]
    /\ UNCHANGED <<recv, send, kind, rejecting, queueVars, rxVars, active,
                   tableVars, stage, observed>>

AllRoutesFailed(c) ==
    /\ main[c] = "failing" /\ failing[c] = {}
    /\ main' = [main EXCEPT ![c] = "purging"]
    /\ UNCHANGED <<recv, send, kind, rejecting, queueVars, rxVars, failing,
                   active, tableVars, stage, observed>>

(* The last step of handle_ws: routes of this connection, and routes whose *)
(* sink has no receiver any more, are dropped without a response.          *)
PurgeRoutes(c) ==
    /\ main[c] = "purging"
    /\ main' = [main EXCEPT ![c] = "gone"]
    /\ routes' = {r \in routes : Origin[r] # c /\ send[Origin[r]] # "ended"}
    /\ expired' = expired \cap routes'
    /\ UNCHANGED <<recv, send, kind, rejecting, queueVars, rxVars, failing,
                   active, stage, observed>>

(* A route's bounded deadline passes.                                      *)
Expire(r) ==
    /\ r \in routes \ expired
    /\ expired' = expired \cup {r}
    /\ UNCHANGED <<connVars, queueVars, rxVars, failing, active, routes,
                   stage, observed>>

-----------------------------------------------------------------------------
HandlerStep(r) == RegisterRoute(r) \/ BroadcastRequest(r) \/ RecheckPlugin(r)

CleanupStep(c) ==
    \/ JoinLoops(c) \/ ReleaseSlot(c) \/ SnapshotRoutes(c)
    \/ AllRoutesFailed(c) \/ PurgeRoutes(c)

Next ==
    \/ \E c \in Conns :
         \/ Connect(c) \/ Hello(c) \/ RejectHello(c) \/ PeerCloses(c)
         \/ WriteResponse(c) \/ SendLoopBreaks(c) \/ CleanupStep(c)
    \/ \E c \in Plugins :
         \/ ForwardRequest(c) \/ ForwardFails(c) \/ RequestsLagged(c)
         \/ SweepExpired(c) \/ SendLoopResumes(c) \/ FailNext(c)
         \/ \E r \in Requests : ReceiveResponse(c, r)
    \/ \E r \in Requests : ReceiveRequest(r) \/ HandlerStep(r) \/ Expire(r)

(* The daemon's own steps are fair: tokio polls every ready task, select!  *)
(* picks among ready branches at random, and deadlines are real time.      *)
(* Peers owe nothing: no fairness on hellos, answers or disconnects.       *)
Fairness ==
    /\ \A c \in Conns :
         /\ WF_vars(CleanupStep(c))
         /\ WF_vars(CloseSignalled(c))
         /\ WF_vars(WriteResponse(c))
    /\ \A c \in Plugins :
         /\ WF_vars(FailNext(c))
         /\ WF_vars(SendLoopResumes(c))
         /\ WF_vars(RequestsLagged(c))
         /\ WF_vars(SweepExpired(c))
    /\ \A r \in Requests : WF_vars(HandlerStep(r)) /\ WF_vars(Expire(r))

Spec == Init /\ [][Next]_vars
FairSpec == Spec /\ Fairness

-----------------------------------------------------------------------------
(* A route is answered by whoever removes it: a response, a deadline sweep,*)
(* a write failure and any number of disconnect cleanups may race, yet the *)
(* client is handed at most one response per request.                      *)
AnsweredAtMostOnce ==
    /\ \A r \in Requests : responses[r] <= 1
    /\ \A r \in routes : responses[r] = 0

(* No orphaned route: while no plugin is active, every pending route still *)
(* has somebody who will fail it, either the handler that has not looked   *)
(* at the slot again, or a disconnect cleanup that holds or will take a    *)
(* snapshot with it.  recv_loop's second look at active_plugin is for this.*)
WillBeFailed(r) ==
    \/ stage[r] \in {"registered", "broadcast"}
    \/ \E c \in Conns : \/ main[c] = "snapshot"
                        \/ main[c] = "failing" /\ r \in failing[c]
NoOrphanedRoute == active = NoConn => \A r \in routes : WillBeFailed(r)

(* The slot is never held by a connection whose cleanup is past releasing  *)
(* it, which would lock every later plugin out.                            *)
SlotOwnerIsLive ==
    active # NoConn => /\ kind[active] = "Plugin"
                       /\ main[active] \in {"serving", "releasing"}

(* A closed client leaves nothing in the route table, whose global limit   *)
(* its routes would otherwise use up for good.                             *)
NoLeakedRoute == \A r \in routes : main[Origin[r]] # "gone"

(* Every registered request ends: its response is written to the client,   *)
(* or the client's own connection is gone.  Nothing is asked of Studio.    *)
EveryRequestEnds ==
    \A r \in Requests :
      stage[r] = "registered" ~> \/ r \in delivered
                                 \/ main[Origin[r]] = "gone"

(* A plugin connection that ends gives the slot up.                        *)
SlotIsReleased ==
    \A c \in Plugins :
      (active = c /\ (recv[c] = "ended" \/ send[c] = "ended")) ~> active # c

(* What the failure text of a disconnect cleanup says: a request is failed *)
(* as "plugin disconnected before responding" only if the plugin that was  *)
(* given the request is not still connected and active.                    *)
DisconnectReportIsTrue ==
    [][\A c \in Conns : \A r \in (failing[c] \ failing'[c]) \cap routes :
         main[c] = "failing" => active \notin forwarded[r]]_vars
=============================================================================
