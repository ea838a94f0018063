----------------------------- MODULE McpClient -----------------------------
(***************************************************************************)
(* Connections to MCP servers: the life of each MCPClient, its requests    *)
(* and their answers, and the MCPManager that starts the servers together  *)
(* and registers their tools (kriya/mcp/mcp.py, mcp/lifecycle.py).         *)
(*                                                                         *)
(* Everything runs on one event loop; an action is what a task does        *)
(* between two suspensions.  A task whose answer was read is resumed       *)
(* before a close can finish: a close waits for the process and for the    *)
(* container's removal in a thread, a wake-up only for its turn.           *)
(*                                                                         *)
(* A server answers what it likes when it likes, more than once or never,  *)
(* and may exit.  Its requests and notifications, lines that are not JSON  *)
(* and its stderr change nothing here.  Left out: a start or a close that  *)
(* is itself cancelled from outside, a second start_all.                   *)
(***************************************************************************)
EXTENDS Naturals

CONSTANTS
    S,            \* servers are 1..S, in the order of the configuration
    Callers,      \* tasks that execute tools
    MaxRequests   \* bound on the requests sent when a tool is called

ASSUME McpAssumption ==
    /\ S \in Nat \ {0}
    /\ MaxRequests \in Nat
    /\ "boot" \notin Callers

VARIABLES
    state,        \* _ConnState of each server's client
    up,           \* the servers whose process runs
    nextId,       \* the last request id of each client
    sent,         \* the requests each server may have received
    serial,       \* requests sent so far, to all servers
    call,         \* the request of each task
    clients,      \* MCPManager.clients
    registered,   \* the servers with tools in the registry
    boot,         \* the place of start_all, and of shutdown_all after it
    at,           \* the server start_all is at
    todo          \* servers started in this call, or still to be stopped

vars == <<state, up, nextId, sent, serial, call, clients, registered, boot, at, todo>>

Servers == 1..S
Tasks == Callers \cup {"boot"}

\* start_all sends two requests to each server.
Ids == 1..(MaxRequests + 2 * S)

Call == [pc : {"idle", "picked", "drain", "wait"}, srv : 0..S, id : Ids \cup {0},
         serial : Ids \cup {0}, result : {"none", "answer", "error", "closed"},
         answers : Ids \cup {0}]
NewCall(pc, s, id, n) ==
    [pc |-> pc, srv |-> s, id |-> id, serial |-> n, result |-> "none", answers |-> 0]
NoCall == NewCall("idle", 0, 0, 0)

----------------------------------------------------------------------------
(* Requests *)

Running(s) == state[s] = "RUNNING"

\* Faulty variant: an id that nobody waits for any more is used again.
LowestFreeId(s) ==
    CHOOSE i \in Ids :
        /\ \A c \in Tasks : call[c].srv = s => call[c].id # i
        /\ \A j \in 1..(i - 1) : \E c \in Tasks : call[c].srv = s /\ call[c].id = j

NewId(s) == nextId[s] + 1

\* _send_request: the future is registered and the line is written.  A line
\* that fits the pipe is drained at once, a long one when the server reads.
Request(c, s, place) ==
    /\ serial' = serial + 1
    /\ LET id == NewId(s)
       IN  /\ nextId' = [nextId EXCEPT ![s] = id]
           /\ sent' = [sent EXCEPT ![s] = @ \cup {[id |-> id, serial |-> serial']}]
           /\ call' = [call EXCEPT ![c] = NewCall(place, s, id, serial')]

\* Its entry is in _pending_requests.
Pending(c, s) == call[c].srv = s /\ call[c].pc \in {"drain", "wait"} /\ call[c].result = "none"

Over(c) == call' = [call EXCEPT ![c] = NoCall]

\* The reader pops the entry with the answer's id, if there is one.
ReadAnswer(s) ==
    /\ Running(s) /\ s \in up
    /\ \E line \in sent[s], c \in Tasks, result \in {"answer", "error"} :
        /\ Pending(c, s) /\ call[c].id = line.id
        /\ call' = [call EXCEPT ![c].result = result, ![c].answers = line.serial]
    /\ UNCHANGED <<state, up, nextId, sent, serial, clients, registered, boot, at, todo>>

Drained(c) ==
    /\ call[c].pc = "drain"
    /\ call' = [call EXCEPT ![c].pc = "wait"]
    /\ UNCHANGED <<state, up, nextId, sent, serial, clients, registered, boot, at, todo>>

\* The pipe is broken, or the connection was closed, while the line is written.
DrainFails(c) ==
    /\ call[c].pc = "drain"
    /\ call[c].srv \notin up \/ ~Running(call[c].srv)
    /\ Over(c)
    /\ UNCHANGED <<state, up, nextId, sent, serial, clients, registered, boot, at, todo>>

----------------------------------------------------------------------------
(* The life of a connection *)

\* _close takes its lock, unless the connection is being closed: then its
\* caller waits for the one who closes.
BeginClose(s) ==
    state' = [state EXCEPT ![s] = IF @ \in {"CLOSING", "CLOSED"} THEN @ ELSE "CLOSING"]

ServerExits(s) ==
    /\ s \in up
    /\ up' = up \ {s}
    /\ UNCHANGED <<state, nextId, sent, serial, call, clients, registered, boot, at, todo>>

\* End of file, a line over the limit, or an error of the reader itself.
ReaderCloses(s) ==
    /\ Running(s)
    /\ BeginClose(s)
    /\ UNCHANGED <<up, nextId, sent, serial, call, clients, registered, boot, at, todo>>

\* Faulty variant: only the requests already written are failed.
FailWaiting(s) ==
    call' = [c \in Tasks |->
        IF Pending(c, s) /\ call[c].pc = "wait" THEN [call[c] EXCEPT !.result = "closed"] ELSE call[c]]

FailPending(s) ==
    call' = [c \in Tasks |->
        IF Pending(c, s) THEN [call[c] EXCEPT !.result = "closed"] ELSE call[c]]

\* Faulty variant: the manager hears of a close only if it knows the tools.
OnClosedIfRegistered(s) ==
    IF s \in registered THEN registered' = registered \ {s} /\ clients' = clients \ {s}
    ELSE UNCHANGED <<registered, clients>>

\* _on_client_closed: the server's tools and its client are forgotten.
OnClosed(s) == registered' = registered \ {s} /\ clients' = clients \ {s}

\* The process is stopped and the container removed, every pending request
\* fails, and the manager is told.
FinishClose(s) ==
    /\ state[s] = "CLOSING"
    /\ \A c \in Tasks : call[c].srv = s /\ call[c].pc = "wait" => call[c].result = "none"
    /\ up' = up \ {s}
    /\ FailPending(s)
    /\ state' = [state EXCEPT ![s] = "CLOSED"]
    /\ OnClosed(s)
    /\ UNCHANGED <<nextId, sent, serial, boot, at, todo>>

----------------------------------------------------------------------------
(* Tool calls *)

\* A task resolved a tool of the server in the registry.
PickTool(c, s) ==
    /\ call[c].pc = "idle"
    /\ s \in registered
    /\ call' = [call EXCEPT ![c] = NewCall("picked", s, 0, 0)]
    /\ UNCHANGED <<state, up, nextId, sent, serial, clients, registered, boot, at, todo>>

\* MCPTool._run, once the call is allowed.
CallTool(c, long) ==
    /\ call[c].pc = "picked" /\ serial < MaxRequests
    /\ Running(call[c].srv)
    /\ Request(c, call[c].srv, IF long THEN "drain" ELSE "wait")
    /\ UNCHANGED <<state, up, clients, registered, boot, at, todo>>

RefuseCall(c) ==
    /\ call[c].pc = "picked"
    /\ ~Running(call[c].srv)
    /\ Over(c)
    /\ UNCHANGED <<state, up, nextId, sent, serial, clients, registered, boot, at, todo>>

\* The answer, or the error it failed with, reaches the tool.
CallReturns(c) ==
    /\ c \in Callers
    /\ call[c].pc = "wait" /\ call[c].result # "none"
    /\ Over(c)
    /\ UNCHANGED <<state, up, nextId, sent, serial, clients, registered, boot, at, todo>>

\* The request's timeout: its entry is removed, a late answer finds none.
CallTimesOut(c) ==
    /\ c \in Callers
    /\ call[c].pc = "wait" /\ call[c].result = "none"
    /\ Over(c)
    /\ UNCHANGED <<state, up, nextId, sent, serial, clients, registered, boot, at, todo>>

----------------------------------------------------------------------------
(* start_all and shutdown_all *)

Waits == call["boot"].pc = "wait"
Answered == Waits /\ call["boot"].result = "answer"

\* No backend isolates: the server gets no client at all.
RefuseServer ==
    /\ boot = "starting"
    /\ boot' = "rollback"
    /\ UNCHANGED <<state, up, nextId, sent, serial, call, clients, registered, at, todo>>

\* The container, or the launch through it, fails or takes too long.
SpawnFails ==
    /\ boot = "starting"
    /\ BeginClose(at)
    /\ boot' = "closing"
    /\ UNCHANGED <<up, nextId, sent, serial, call, clients, registered, at, todo>>

Spawn ==
    /\ boot = "starting"
    /\ up' = up \cup {at}
    /\ state' = [state EXCEPT ![at] = "RUNNING"]
    /\ Request("boot", at, "wait")
    /\ boot' = "initialize"
    /\ UNCHANGED <<clients, registered, at, todo>>

\* Faulty variant: nothing bounds the time a start takes.
StartFailsUntimed ==
    /\ boot = "initialize" /\ Waits /\ call["boot"].result \in {"error", "closed"}
    /\ Over("boot")
    /\ BeginClose(at)
    /\ boot' = "closing"
    /\ UNCHANGED <<up, nextId, sent, serial, clients, registered, at, todo>>

\* The handshake failed or the start took too long: start() closes and raises.
\* It can fail after the answer too, in the notification that follows it.
StartFails ==
    /\ boot = "initialize" /\ Waits
    /\ Over("boot")
    /\ BeginClose(at)
    /\ boot' = "closing"
    /\ UNCHANGED <<up, nextId, sent, serial, clients, registered, at, todo>>

StartRaises ==
    /\ boot = "closing" /\ state[at] = "CLOSED"
    /\ boot' = "rollback"
    /\ UNCHANGED <<state, up, nextId, sent, serial, call, clients, registered, at, todo>>

\* Faulty variant: a server counts as started once its tools are listed.
InitializedUnlisted ==
    /\ boot = "initialize" /\ Answered
    /\ clients' = clients \cup {at}
    /\ UNCHANGED todo
    /\ \/ Running(at) /\ Request("boot", at, "wait") /\ boot' = "list"
       \/ ~Running(at) /\ Over("boot") /\ boot' = "rollback" /\ UNCHANGED <<nextId, sent, serial>>
    /\ UNCHANGED <<state, up, registered, at>>

\* start() returns; the client is known, and its tools are asked for.
Initialized ==
    /\ boot = "initialize" /\ Answered
    /\ clients' = clients \cup {at}
    /\ todo' = todo \cup {at}
    /\ \/ Running(at) /\ Request("boot", at, "wait") /\ boot' = "list"
       \/ ~Running(at) /\ Over("boot") /\ boot' = "rollback" /\ UNCHANGED <<nextId, sent, serial>>
    /\ UNCHANGED <<state, up, registered, at>>

\* Faulty variant: one server too many is started.
ListedPastTheLast ==
    /\ boot = "list" /\ Answered
    /\ Over("boot")
    /\ registered' = registered \cup {at}
    /\ boot' = "starting" /\ at' = at + 1
    /\ UNCHANGED <<state, up, nextId, sent, serial, clients, todo>>

\* The tools are registered, and the next server's turn comes.
Listed ==
    /\ boot = "list" /\ Answered
    /\ Over("boot")
    /\ registered' = registered \cup {at}
    /\ IF at = S THEN boot' = "up" /\ UNCHANGED at
                 ELSE boot' = "starting" /\ at' = at + 1
    /\ UNCHANGED <<state, up, nextId, sent, serial, clients, todo>>

\* An error, the end of the connection, the request's timeout, or a tool that
\* cannot be built from what the server sent, after others were registered.
ListFails ==
    /\ boot = "list"
    /\ Over("boot")
    /\ boot' = "rollback"
    /\ \/ UNCHANGED registered
       \/ Answered /\ registered' = registered \cup {at}
    /\ UNCHANGED <<state, up, nextId, sent, serial, clients, at, todo>>

First(s) == s \in todo /\ \A q \in todo : s <= q

\* Each server started in this call is taken from the clients and stopped ...
RollBackServer(s) ==
    /\ boot = "rollback" /\ First(s)
    /\ clients' = clients \ {s}
    /\ IF s \in clients THEN BeginClose(s) ELSE UNCHANGED state
    /\ boot' = "stop"
    /\ UNCHANGED <<up, nextId, sent, serial, call, registered, at, todo>>

\* ... and its tools are unregistered.
ServerStopped(s) ==
    /\ boot = "stop" /\ First(s)
    /\ state[s] = "CLOSED"
    /\ registered' = registered \ {s}
    /\ todo' = todo \ {s}
    /\ boot' = "rollback"
    /\ UNCHANGED <<state, up, nextId, sent, serial, call, clients, at>>

RolledBack ==
    /\ boot = "rollback" /\ todo = {}
    /\ boot' = "failed"
    /\ UNCHANGED <<state, up, nextId, sent, serial, call, clients, registered, at, todo>>

\* shutdown_all, over the clients known when it begins.
Shutdown ==
    /\ boot = "up"
    /\ todo' = clients
    /\ boot' = "shutdown"
    /\ UNCHANGED <<state, up, nextId, sent, serial, call, clients, registered, at>>

StopServer(s) ==
    /\ boot = "shutdown" /\ First(s)
    /\ BeginClose(s)
    /\ boot' = "wait"
    /\ UNCHANGED <<up, nextId, sent, serial, call, clients, registered, at, todo>>

ServerDown(s) ==
    /\ boot = "wait" /\ First(s)
    /\ state[s] = "CLOSED"
    /\ registered' = registered \ {s}
    /\ todo' = todo \ {s}
    /\ boot' = "shutdown"
    /\ UNCHANGED <<state, up, nextId, sent, serial, call, clients, at>>

ShutDown ==
    /\ boot = "shutdown" /\ todo = {}
    /\ clients' = {}
    /\ boot' = "down"
    /\ UNCHANGED <<state, up, nextId, sent, serial, call, registered, at, todo>>

----------------------------------------------------------------------------
Init ==
    /\ state = [s \in Servers |-> "NOT_STARTED"] /\ up = {}
    /\ nextId = [s \in Servers |-> 0] /\ sent = [s \in Servers |-> {}] /\ serial = 0
    /\ call = [c \in Tasks |-> NoCall]
    /\ clients = {} /\ registered = {}
    /\ boot = "starting" /\ at = 1 /\ todo = {}

Boot ==
    \/ RefuseServer \/ SpawnFails \/ Spawn \/ StartFails \/ StartRaises \/ Initialized
    \/ Listed \/ ListFails \/ RolledBack \/ ShutDown
    \/ \E s \in Servers : RollBackServer(s) \/ ServerStopped(s) \/ StopServer(s) \/ ServerDown(s)

Return(c) == CallReturns(c) \/ CallTimesOut(c) \/ DrainFails(c)

Next ==
    \/ Boot \/ Shutdown
    \/ \E s \in Servers : ReadAnswer(s) \/ ServerExits(s) \/ ReaderCloses(s) \/ FinishClose(s)
    \/ \E c \in Callers :
        \/ Drained(c) \/ RefuseCall(c) \/ Return(c)
        \/ \E s \in Servers : PickTool(c, s)
        \/ \E long \in BOOLEAN : CallTool(c, long)

Spec == Init /\ [][Next]_vars

\* Every wait but one has a timeout: start_all, a close and a request that was
\* written go on.  Nothing is expected of the servers, whoever calls a tool or
\* the one who shuts down.
Fairness ==
    /\ WF_vars(Boot)
    /\ \A s \in Servers : WF_vars(FinishClose(s)) /\ WF_vars(s \notin up /\ ReaderCloses(s))
    /\ \A c \in Callers : WF_vars(Return(c))

FairSpec == Spec /\ Fairness

----------------------------------------------------------------------------
(* Properties *)

\* The variables have their types.
TypeOK ==
    /\ state \in [Servers -> {"NOT_STARTED", "RUNNING", "CLOSING", "CLOSED"}]
    /\ up \subseteq Servers /\ clients \subseteq Servers /\ registered \subseteq Servers
    /\ nextId \in [Servers -> Ids \cup {0}] /\ serial \in Ids \cup {0}
    /\ sent \in [Servers -> SUBSET [id : Ids, serial : Ids]]
    /\ call \in [Tasks -> Call]
    /\ boot \in {"starting", "initialize", "list", "closing", "rollback", "stop", "failed",
                 "up", "shutdown", "wait", "down"}
    /\ at \in Servers /\ todo \subseteq Servers

\* SEC-004: no request is left to wait for a connection that is gone, and a
\* connection that is gone has no process.
NoRequestOutlivesItsConnection ==
    \A s \in Servers : state[s] = "CLOSED" => s \notin up /\ \A c \in Tasks : ~Pending(c, s)

\* A request gets the answer to itself, never a late or repeated answer to an
\* earlier one.
AnswerIsItsOwn ==
    \A c \in Tasks : call[c].result \in {"answer", "error"} => call[c].answers = call[c].serial

\* The registry and the manager know no server whose connection is closed,
\* wherever the close meets the start, the listing or the rollback.
RegisteredServersAreLive ==
    \A s \in registered \cup clients : state[s] \in {"RUNNING", "CLOSING"}

\* start_all starts every server or leaves none; shutdown_all leaves none.
AllOrNothing ==
    boot \in {"failed", "down"} =>
        /\ up = {} /\ clients = {} /\ registered = {}
        /\ \A s \in Servers : state[s] \in {"NOT_STARTED", "CLOSED"}

\* No request whose line was written, and no start, hangs on a server that does
\* not answer, and neither does shutdown_all once it is called; a request whose
\* line is still being written ends with the server.
EveryWaitEnds ==
    /\ \A c \in Callers : call[c].pc = "wait" ~> call[c].pc # "wait"
    /\ \A c \in Callers : call[c].pc = "drain" /\ call[c].srv \notin up ~> call[c].pc # "drain"
    /\ boot = "starting" ~> boot \in {"up", "failed"}
    /\ boot = "shutdown" ~> boot = "down"
=============================================================================
