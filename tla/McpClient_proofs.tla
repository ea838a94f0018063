-------------------------- MODULE McpClient_proofs --------------------------
(***************************************************************************)
(* Theorems about McpClient: its safety properties for any number of       *)
(* servers, callers and requests.                                          *)
(*                                                                         *)
(* Three invariants, each inductive once the ones before it are known:     *)
(* Typed bounds the requests sent; Matched says that an id of a connection *)
(* was sent once and that whoever waits has sent its own; Tracked says     *)
(* where start_all is and that it knows every connection that is alive.    *)
(***************************************************************************)
EXTENDS McpClient, TLAPS

\* start_all has sent its requests to the servers before the current one.
BootSent ==
    2 * (at - 1) + (IF boot = "starting" THEN 0 ELSE IF boot = "initialize" THEN 1 ELSE 2)

Typed ==
    /\ TypeOK
    /\ serial <= MaxRequests + BootSent
    /\ \A s \in Servers : nextId[s] <= serial
    /\ \A c \in Tasks : call[c].pc # "idle" => call[c].srv \in Servers

\* An id of a connection was sent once, with one serial number.
IdsAreOnce ==
    \A s \in Servers : \A l \in sent[s] :
        /\ l.id <= nextId[s]
        /\ \A m \in sent[s] : l.id = m.id => l = m

\* Whoever waits has sent its request on the connection it waits for.
WaitersSent ==
    \A c \in Tasks :
        /\ call[c].pc \in {"drain", "wait"} =>
              /\ call[c].srv \in Servers
              /\ [id |-> call[c].id, serial |-> call[c].serial] \in sent[call[c].srv]
        /\ call[c].result # "none" => call[c].pc \in {"drain", "wait"}

Matched == IdsAreOnce /\ WaitersSent /\ AnswerIsItsOwn

Alive(s) == state[s] \in {"RUNNING", "CLOSING"}

\* Only the servers up to the current one have been touched, and all those that
\* have to be stopped.
NotBegun ==
    /\ \A s \in Servers : s > at \/ (s = at /\ boot = "starting") => state[s] = "NOT_STARTED"
    /\ \A s \in todo : state[s] # "NOT_STARTED"

\* start_all waits for the current server and for no other; it is told when
\* the connection closes under it.
BootWaits ==
    IF boot \in {"initialize", "list"}
    THEN /\ call["boot"].pc = "wait" /\ call["boot"].srv = at
         /\ Alive(at) \/ (state[at] = "CLOSED" /\ call["boot"].result = "closed")
    ELSE call["boot"] = NoCall

\* A process belongs to a connection that is alive.
UpIsAlive == \A s \in up : Alive(s)

\* Every connection that is alive is known to whoever has to stop it.
AliveIsKnown ==
    /\ \A s \in Servers : Alive(s) =>
          /\ boot \in {"starting", "list", "up"} => s \in clients
          /\ boot \in {"initialize", "closing"} => s \in clients \cup {at}
          /\ boot \in {"rollback", "stop", "shutdown", "wait"} => s \in todo
          /\ boot \notin {"failed", "down"}
    /\ boot \in {"starting", "initialize", "list", "closing"} => clients \subseteq todo

Tracked ==
    /\ NotBegun /\ BootWaits /\ UpIsAlive /\ AliveIsKnown
    /\ NoRequestOutlivesItsConnection /\ RegisteredServersAreLive

IInv == Typed /\ Matched /\ Tracked

----------------------------------------------------------------------------
(* Types, and the number of requests *)

LEMMA TasksHaveBoot == "boot" \in Tasks /\ Callers \subseteq Tasks /\ "boot" \notin Callers
BY McpAssumption DEF Tasks

LEMMA NoCallIsCall == NoCall \in Call
BY McpAssumption DEF NoCall, NewCall, Call

\* What the bound on the serial numbers leaves to start_all.
LEMMA Room ==
    ASSUME Typed
    PROVE  /\ boot \in {"starting", "initialize"} => serial + 1 \in Ids
           /\ serial < MaxRequests => serial + 1 \in Ids
<1>1. serial \in Nat /\ at \in 1..S /\ S \in Nat /\ MaxRequests \in Nat
  BY McpAssumption DEF Typed, TypeOK, Ids, Servers
<1>2. boot \in {"starting", "initialize"} => serial <= MaxRequests + 2 * (at - 1) + 1
  BY <1>1 DEF Typed, BootSent
<1>3. QED
  BY <1>1, <1>2 DEF Ids

\* What is sent: a line with a new id, by a task that then waits for it.
LEMMA RequestEffect ==
    ASSUME Typed, NEW c \in Tasks, NEW s \in Servers, NEW place \in {"drain", "wait"},
           serial + 1 \in Ids, Request(c, s, place)
    PROVE  LET id == nextId[s] + 1
           IN  /\ id \in Ids
               /\ serial' = serial + 1
               /\ nextId' = [nextId EXCEPT ![s] = id]
               /\ sent' = [sent EXCEPT ![s] = @ \cup {[id |-> id, serial |-> serial + 1]}]
               /\ call' = [call EXCEPT ![c] = NewCall(place, s, id, serial + 1)]
<1>1. serial \in Nat /\ nextId[s] \in Nat /\ nextId[s] <= serial
  BY McpAssumption DEF Typed, TypeOK, Ids, Servers
<1>2. nextId[s] + 1 \in Ids
  BY <1>1, McpAssumption DEF Ids
<1>3. QED
  BY <1>1, <1>2 DEF Request, NewId

LEMMA RequestTyped ==
    ASSUME Typed, NEW c \in Tasks, NEW s \in Servers, NEW place \in {"drain", "wait"},
           serial + 1 \in Ids, Request(c, s, place)
    PROVE  /\ serial' = serial + 1 /\ serial' \in Ids
           /\ nextId' \in [Servers -> Ids \cup {0}]
           /\ \A q \in Servers : nextId'[q] <= serial'
           /\ sent' \in [Servers -> SUBSET [id : Ids, serial : Ids]]
           /\ call' \in [Tasks -> Call]
           /\ \A d \in Tasks : call'[d].pc # "idle" => call'[d].srv \in Servers
<1> DEFINE id == nextId[s] + 1
           new == NewCall(place, s, id, serial + 1)
<1>1. /\ id \in Ids /\ serial' = serial + 1
      /\ nextId' = [nextId EXCEPT ![s] = id]
      /\ sent' = [sent EXCEPT ![s] = @ \cup {[id |-> id, serial |-> serial + 1]}]
      /\ call' = [call EXCEPT ![c] = new]
  BY RequestEffect
<1>2. new \in Call /\ new.srv = s
  BY <1>1 DEF Call, NewCall, Servers
<1>3. nextId' \in [Servers -> Ids \cup {0}]
  BY <1>1 DEF Typed, TypeOK
<1>4. \A q \in Servers : nextId'[q] <= serial'
  BY <1>1, McpAssumption DEF Typed, TypeOK, Ids
<1>5. sent' \in [Servers -> SUBSET [id : Ids, serial : Ids]]
  BY <1>1 DEF Typed, TypeOK
<1>6. call' \in [Tasks -> Call] /\ \A d \in Tasks : call'[d].pc # "idle" => call'[d].srv \in Servers
  BY <1>1, <1>2 DEF Typed, TypeOK
<1>7. QED
  BY <1>1, <1>3, <1>4, <1>5, <1>6

\* A step that writes only the calls.
LEMMA OnlyCalls ==
    ASSUME Typed, call' \in [Tasks -> Call],
           \A c \in Tasks : call'[c].pc # "idle" => call'[c].srv \in Servers,
           UNCHANGED <<state, up, nextId, sent, serial, clients, registered, boot, at, todo>>
    PROVE  Typed'
BY DEF Typed, TypeOK, BootSent

\* A task that is done has no request.
LEMMA OverTyped ==
    ASSUME Typed, NEW c \in Tasks, Over(c)
    PROVE  /\ call' \in [Tasks -> Call]
           /\ \A d \in Tasks : call'[d].pc # "idle" => call'[d].srv \in Servers
<1>1. call' = [call EXCEPT ![c] = NoCall] /\ NoCall.pc = "idle"
  BY DEF Over, NoCall, NewCall
<1>2. QED
  BY <1>1, NoCallIsCall DEF Typed, TypeOK

LEMMA BeginCloseTyped ==
    ASSUME TypeOK, NEW s \in Servers, BeginClose(s)
    PROVE  state' \in [Servers -> {"NOT_STARTED", "RUNNING", "CLOSING", "CLOSED"}]
BY DEF TypeOK, BeginClose

LEMMA InitTyped == Init => Typed
<1> SUFFICES ASSUME Init PROVE Typed
  OBVIOUS
<1>1. call = [c \in Tasks |-> NoCall] /\ NoCall.pc = "idle"
  BY DEF Init, NoCall, NewCall
<1>2. at \in Servers /\ BootSent = 0
  BY McpAssumption DEF Init, Servers, BootSent
<1>3. QED
  BY <1>1, <1>2, NoCallIsCall, McpAssumption DEF Init, Typed, TypeOK, Servers, Ids

\* The steps of whoever calls a tool.
LEMMA CallerTyped ==
    ASSUME Typed, NEW c \in Callers
    PROVE  /\ Drained(c) \/ RefuseCall(c) \/ Return(c) => Typed'
           /\ \A s \in Servers : PickTool(c, s) => Typed'
           /\ \A long \in BOOLEAN : CallTool(c, long) => Typed'
<1>1. c \in Tasks
  BY TasksHaveBoot
<1>2. ASSUME Drained(c) PROVE Typed'
  <2>1. call' = [call EXCEPT ![c].pc = "wait"] /\ call[c].pc # "idle"
    BY <1>2 DEF Drained
  <2>2. call' \in [Tasks -> Call] /\ \A d \in Tasks : call'[d].pc # "idle" => call'[d].srv \in Servers
    BY <1>1, <2>1 DEF Typed, TypeOK, Call
  <2>3. QED
    BY <1>2, <2>2, OnlyCalls DEF Drained
<1>3. ASSUME RefuseCall(c) \/ Return(c) PROVE Typed'
  BY <1>1, <1>3, OverTyped, OnlyCalls
     DEF RefuseCall, Return, CallReturns, CallTimesOut, DrainFails
<1>4. ASSUME NEW s \in Servers, PickTool(c, s) PROVE Typed'
  <2> DEFINE picked == NewCall("picked", s, 0, 0)
  <2>1. call' = [call EXCEPT ![c] = picked] /\ picked.srv = s
    BY <1>4 DEF PickTool, NewCall
  <2>2. picked \in Call
    <3>1. s \in 0..S
      BY DEF Servers
    <3>2. QED
      BY <3>1 DEF Call, NewCall
  <2> HIDE DEF picked
  <2>3. call' \in [Tasks -> Call] /\ \A d \in Tasks : call'[d].pc # "idle" => call'[d].srv \in Servers
    BY <1>1, <2>1, <2>2 DEF Typed, TypeOK
  <2>4. QED
    BY <1>4, <2>3, OnlyCalls DEF PickTool
<1>5. ASSUME NEW long \in BOOLEAN, CallTool(c, long) PROVE Typed'
  <2>1. call[c].srv \in Servers /\ serial + 1 \in Ids
    BY <1>1, <1>5, Room DEF CallTool, Typed
  <2>2. serial < MaxRequests /\ Request(c, call[c].srv, IF long THEN "drain" ELSE "wait")
        /\ UNCHANGED <<state, up, clients, registered, boot, at, todo>>
    BY <1>5 DEF CallTool
  <2>3. serial + 1 <= MaxRequests + BootSent /\ BootSent' = BootSent
    BY <2>2, McpAssumption DEF Typed, TypeOK, Ids, Servers, BootSent
  <2>4. QED
    BY <1>1, <2>1, <2>2, <2>3, RequestTyped DEF Typed, TypeOK
<1>6. QED
  BY <1>2, <1>3, <1>4, <1>5

\* The steps of a connection, and of the server behind it.
LEMMA ConnectionTyped ==
    ASSUME Typed, NEW s \in Servers,
           ReadAnswer(s) \/ ServerExits(s) \/ ReaderCloses(s) \/ FinishClose(s)
    PROVE  Typed'
<1>1. CASE ReadAnswer(s)
  <2>1. PICK line \in sent[s], c \in Tasks, result \in {"answer", "error"} :
          /\ call' = [call EXCEPT ![c].result = result, ![c].answers = line.serial]
          /\ Pending(c, s)
    BY <1>1 DEF ReadAnswer
  <2>2. line.serial \in Ids
    BY DEF Typed, TypeOK
  <2>3. call' = [call EXCEPT ![c] = [call[c] EXCEPT !.result = result, !.answers = line.serial]]
    BY <2>1 DEF Typed, TypeOK
  <2>4. [call[c] EXCEPT !.result = result, !.answers = line.serial] \in Call
    <3>1. call[c] \in Call
      BY DEF Typed, TypeOK
    <3>2. QED
      BY <2>2, <3>1 DEF Call
  <2>5. call' \in [Tasks -> Call]
        /\ \A d \in Tasks : call'[d].pc = call[d].pc /\ call'[d].srv = call[d].srv
    BY <2>3, <2>4 DEF Typed, TypeOK, Call
  <2>6. QED
    BY <1>1, <2>5, OnlyCalls DEF ReadAnswer, Typed
<1>2. CASE ServerExits(s)
  BY <1>2 DEF ServerExits, Typed, TypeOK, BootSent
<1>3. CASE ReaderCloses(s)
  BY <1>3, BeginCloseTyped DEF ReaderCloses, Typed, TypeOK, BootSent
<1>4. CASE FinishClose(s)
  <2>1. call' \in [Tasks -> Call]
        /\ \A d \in Tasks : call'[d].pc = call[d].pc /\ call'[d].srv = call[d].srv
    BY <1>4 DEF FinishClose, FailPending, Typed, TypeOK, Call
  <2>2. QED
    BY <1>4, <2>1 DEF FinishClose, OnClosed, Typed, TypeOK, BootSent
<1>5. QED
  BY <1>1, <1>2, <1>3, <1>4

\* The steps of start_all.
LEMMA BootTyped ==
    ASSUME Typed, Boot \/ Shutdown
    PROVE  Typed'
<1> USE TasksHaveBoot
<1>1. at \in 1..S /\ S \in Nat /\ serial \in Nat /\ MaxRequests \in Nat
  BY McpAssumption DEF Typed, TypeOK, Ids, Servers
<1>2. ASSUME NEW s \in Servers, RollBackServer(s) PROVE Typed'
  <2>1. boot = "rollback" /\ boot' = "stop" /\ (BeginClose(s) \/ UNCHANGED state)
    BY <1>2 DEF RollBackServer
  <2>2. QED
    BY <1>2, <2>1, BeginCloseTyped DEF RollBackServer, Typed, TypeOK, BootSent
<1>3. ASSUME NEW s \in Servers, ServerStopped(s) PROVE Typed'
  BY <1>3 DEF ServerStopped, Typed, TypeOK, BootSent
<1>4. ASSUME NEW s \in Servers, StopServer(s) PROVE Typed'
  BY <1>4, BeginCloseTyped DEF StopServer, Typed, TypeOK, BootSent
<1>5. ASSUME NEW s \in Servers, ServerDown(s) PROVE Typed'
  BY <1>5 DEF ServerDown, Typed, TypeOK, BootSent
<1>6. CASE RefuseServer
  BY <1>1, <1>6 DEF RefuseServer, Typed, TypeOK, BootSent
<1>7. CASE SpawnFails
  <2>1. state' \in [Servers -> {"NOT_STARTED", "RUNNING", "CLOSING", "CLOSED"}]
    BY <1>7, BeginCloseTyped DEF SpawnFails, Typed, TypeOK
  <2>2. QED
    BY <1>1, <1>7, <2>1 DEF SpawnFails, Typed, TypeOK, BootSent
<1>8. CASE Spawn
  <2>1. Request("boot", at, "wait") /\ serial + 1 \in Ids /\ at \in Servers
    BY <1>8, Room DEF Spawn, Typed, TypeOK
  <2>2. serial' <= MaxRequests + BootSent'
    BY <1>1, <1>8, <2>1 DEF Spawn, Request, Typed, BootSent
  <2>3. QED
    BY <1>8, <2>1, <2>2, RequestTyped DEF Spawn, Typed, TypeOK
<1>9. CASE StartFails
  BY <1>1, <1>9, OverTyped, BeginCloseTyped DEF StartFails, Typed, TypeOK, BootSent
<1>10. CASE StartRaises
  BY <1>10 DEF StartRaises, Typed, TypeOK, BootSent
<1>11. CASE Initialized
  <2>1. CASE Request("boot", at, "wait") /\ boot' = "list"
    <3>1. serial + 1 \in Ids /\ at \in Servers
      BY <1>11, Room DEF Initialized, Typed, TypeOK
    <3>2. serial' <= MaxRequests + BootSent'
      BY <1>1, <1>11, <2>1 DEF Initialized, Request, Typed, BootSent
    <3>3. QED
      BY <1>11, <2>1, <3>1, <3>2, RequestTyped DEF Initialized, Typed, TypeOK
  <2>2. CASE Over("boot") /\ boot' = "rollback" /\ UNCHANGED <<nextId, sent, serial>>
    BY <1>1, <1>11, <2>2, OverTyped DEF Initialized, Typed, TypeOK, BootSent
  <2>3. QED
    BY <1>11, <2>1, <2>2 DEF Initialized
<1>12. CASE Listed
  <2>1. BootSent = 2 * at /\ boot = "list"
    BY <1>1, <1>12 DEF Listed, BootSent
  <2>2. CASE at = S /\ boot' = "up" /\ at' = at
    BY <1>1, <1>12, <2>1, <2>2, OverTyped DEF Listed, Typed, TypeOK, BootSent, Servers
  <2>3. CASE at # S /\ boot' = "starting" /\ at' = at + 1
    <3>1. at' \in Servers /\ BootSent' = 2 * at
      BY <1>1, <2>3 DEF BootSent, Servers
    <3>2. QED
      BY <1>12, <2>1, <2>3, <3>1, OverTyped DEF Listed, Typed, TypeOK
  <2>4. QED
    BY <1>12, <2>2, <2>3 DEF Listed
<1>13. CASE ListFails
  BY <1>13, OverTyped DEF ListFails, Typed, TypeOK, BootSent
<1>14. CASE RolledBack
  BY <1>14 DEF RolledBack, Typed, TypeOK, BootSent
<1>15. CASE ShutDown
  BY <1>15 DEF ShutDown, Typed, TypeOK, BootSent
<1>16. CASE Shutdown
  BY <1>16 DEF Shutdown, Typed, TypeOK, BootSent
<1>17. QED
  BY <1>2, <1>3, <1>4, <1>5, <1>6, <1>7, <1>8, <1>9, <1>10, <1>11, <1>12, <1>13,
     <1>14, <1>15, <1>16 DEF Boot

LEMMA NextTyped ==
    ASSUME Typed, [Next]_vars
    PROVE  Typed'
<1>1. CASE UNCHANGED vars
  BY <1>1 DEF vars, Typed, TypeOK, BootSent
<1>2. CASE Next
  BY <1>2, BootTyped, ConnectionTyped, CallerTyped DEF Next
<1>3. QED
  BY <1>1, <1>2

----------------------------------------------------------------------------
(* Requests and their answers *)

\* What happens to a task's request that was already sent.
Keeps(c) ==
    \/ call'[c].pc \in {"idle", "picked"} /\ call'[c].result = "none"
    \/ /\ call[c].pc \in {"drain", "wait"} /\ call'[c].pc \in {"drain", "wait"}
       /\ call'[c].srv = call[c].srv /\ call'[c].id = call[c].id /\ call'[c].serial = call[c].serial
       /\ \/ call'[c].result \in {"none", "closed"}
          \/ call'[c].answers = call[c].serial
    \/ call'[c] = call[c]

LEMMA KeepsMatched ==
    ASSUME Matched, UNCHANGED <<nextId, sent>>, \A c \in Tasks : Keeps(c)
    PROVE  Matched'
<1>1. IdsAreOnce'
  BY DEF Matched, IdsAreOnce
<1>2. WaitersSent'
  BY DEF Matched, WaitersSent, Keeps
<1>3. AnswerIsItsOwn'
  BY DEF Matched, AnswerIsItsOwn, Keeps
<1>4. QED
  BY <1>1, <1>2, <1>3 DEF Matched

LEMMA OverKeeps ==
    ASSUME Typed, NEW c \in Tasks, Over(c)
    PROVE  \A d \in Tasks : Keeps(d)
<1>1. call' = [call EXCEPT ![c] = NoCall] /\ NoCall.pc = "idle" /\ NoCall.result = "none"
  BY DEF Over, NoCall, NewCall
<1>2. QED
  BY <1>1 DEF Typed, TypeOK, Keeps

LEMMA RequestMatched ==
    ASSUME Typed, Matched, NEW c \in Tasks, NEW s \in Servers, NEW place \in {"drain", "wait"},
           serial + 1 \in Ids, Request(c, s, place)
    PROVE  Matched'
<1> DEFINE id == nextId[s] + 1
           line == [id |-> id, serial |-> serial + 1]
           new == NewCall(place, s, id, serial + 1)
<1>1. /\ nextId' = [nextId EXCEPT ![s] = id]
      /\ sent' = [sent EXCEPT ![s] = @ \cup {line}]
      /\ call' = [call EXCEPT ![c] = new]
  BY RequestEffect
<1>2. nextId[s] \in Nat /\ \A l \in sent[s] : l.id \in Nat
  BY McpAssumption DEF Typed, TypeOK, Ids
<1>3. /\ new.pc = place /\ new.srv = s /\ new.result = "none"
      /\ [id |-> new.id, serial |-> new.serial] = line
  BY DEF NewCall
<1>4. IdsAreOnce'
  <2>1. \A l \in sent[s] : l.id <= nextId[s] /\ l.id # id
    BY <1>2 DEF Matched, IdsAreOnce
  <2>2. \A q \in Servers : q # s => sent'[q] = sent[q] /\ nextId'[q] = nextId[q]
    BY <1>1 DEF Typed, TypeOK
  <2>3. sent'[s] = sent[s] \cup {line} /\ nextId'[s] = id
    BY <1>1 DEF Typed, TypeOK
  <2>4. \A l \in sent'[s] : l.id <= id /\ \A m \in sent'[s] : l.id = m.id => l = m
    BY <1>2, <2>1, <2>3 DEF Matched, IdsAreOnce
  <2>5. QED
    BY <2>2, <2>3, <2>4 DEF Matched, IdsAreOnce
<1>5. WaitersSent'
  <2>1. \A q \in Servers : sent[q] \subseteq sent'[q]
    BY <1>1 DEF Typed, TypeOK
  <2>2. line \in sent'[s]
    BY <1>1 DEF Typed, TypeOK
  <2>3. call'[c] = new /\ \A d \in Tasks : d # c => call'[d] = call[d]
    BY <1>1 DEF Typed, TypeOK
  <2> HIDE DEF new, line
  <2>4. QED
    BY <1>3, <2>1, <2>2, <2>3 DEF Matched, WaitersSent
<1>6. AnswerIsItsOwn'
  <2>1. call'[c] = new /\ \A d \in Tasks : d # c => call'[d] = call[d]
    BY <1>1 DEF Typed, TypeOK
  <2>2. QED
    BY <1>3, <2>1 DEF Matched, AnswerIsItsOwn
<1>7. QED
  BY <1>4, <1>5, <1>6 DEF Matched

\* An answer carries an id that was sent once, and so the number of its request.
LEMMA AnswerMatched ==
    ASSUME Typed, Matched, NEW s \in Servers, ReadAnswer(s)
    PROVE  Matched'
<1>1. PICK line \in sent[s], c \in Tasks, result \in {"answer", "error"} :
        /\ Pending(c, s) /\ call[c].id = line.id
        /\ call' = [call EXCEPT ![c].result = result, ![c].answers = line.serial]
  BY DEF ReadAnswer
<1>2. line = [id |-> call[c].id, serial |-> call[c].serial]
  BY <1>1 DEF Matched, WaitersSent, IdsAreOnce, Pending
<1>3. line.serial = call[c].serial
  BY <1>2
<1>4. call' = [call EXCEPT ![c] = [call[c] EXCEPT !.result = result, !.answers = line.serial]]
  BY <1>1 DEF Typed, TypeOK
<1>5. \A d \in Tasks : Keeps(d)
  BY <1>1, <1>3, <1>4 DEF Typed, TypeOK, Call, Keeps, Pending
<1>6. QED
  BY <1>5, KeepsMatched DEF ReadAnswer

LEMMA InitMatched == Init => Matched
BY DEF Init, Matched, IdsAreOnce, WaitersSent, AnswerIsItsOwn, NoCall, NewCall

LEMMA CallerMatched ==
    ASSUME Typed, Matched, NEW c \in Callers
    PROVE  /\ Drained(c) \/ RefuseCall(c) \/ Return(c) => Matched'
           /\ \A s \in Servers : PickTool(c, s) => Matched'
           /\ \A long \in BOOLEAN : CallTool(c, long) => Matched'
<1>1. c \in Tasks
  BY TasksHaveBoot
<1>2. ASSUME Drained(c) PROVE Matched'
  <2>1. \A d \in Tasks : Keeps(d)
    BY <1>1, <1>2 DEF Drained, Typed, TypeOK, Call, Keeps, Matched, AnswerIsItsOwn
  <2>2. QED
    BY <1>2, <2>1, KeepsMatched DEF Drained
<1>3. ASSUME RefuseCall(c) \/ Return(c) PROVE Matched'
  BY <1>1, <1>3, OverKeeps, KeepsMatched
     DEF RefuseCall, Return, CallReturns, CallTimesOut, DrainFails
<1>4. ASSUME NEW s \in Servers, PickTool(c, s) PROVE Matched'
  <2>1. \A d \in Tasks : Keeps(d)
    BY <1>1, <1>4 DEF PickTool, NewCall, Typed, TypeOK, Keeps
  <2>2. QED
    BY <1>4, <2>1, KeepsMatched DEF PickTool
<1>5. ASSUME NEW long \in BOOLEAN, CallTool(c, long) PROVE Matched'
  <2>1. call[c].srv \in Servers /\ serial + 1 \in Ids
    BY <1>1, <1>5, Room DEF CallTool, Typed
  <2>2. QED
    BY <1>1, <1>5, <2>1, RequestMatched DEF CallTool
<1>6. QED
  BY <1>2, <1>3, <1>4, <1>5

LEMMA BootMatched ==
    ASSUME Typed, Matched, Boot \/ Shutdown
    PROVE  Matched'
<1> USE TasksHaveBoot
<1>1. at \in Servers
  BY DEF Typed, TypeOK
<1>2. CASE Request("boot", at, "wait") /\ (Spawn \/ Initialized)
  <2>1. serial + 1 \in Ids
    BY <1>2, Room DEF Spawn, Initialized
  <2>2. QED
    BY <1>1, <1>2, <2>1, RequestMatched
<1>3. CASE Over("boot") /\ UNCHANGED <<nextId, sent>>
  BY <1>3, OverKeeps, KeepsMatched
<1>4. CASE UNCHANGED <<nextId, sent, call>>
  BY <1>4, KeepsMatched DEF Keeps
<1>5. QED
  BY <1>2, <1>3, <1>4
     DEF Boot, Shutdown, RefuseServer, SpawnFails, Spawn, StartFails, StartRaises, Initialized,
         Listed, ListFails, RolledBack, ShutDown, RollBackServer, ServerStopped, StopServer,
         ServerDown

LEMMA NextMatched ==
    ASSUME Typed, Matched, [Next]_vars
    PROVE  Matched'
<1>1. CASE UNCHANGED vars
  BY <1>1, KeepsMatched DEF vars, Keeps
<1>2. ASSUME NEW s \in Servers, ServerExits(s) \/ ReaderCloses(s) PROVE Matched'
  BY <1>2, KeepsMatched DEF ServerExits, ReaderCloses, Keeps
<1>3. ASSUME NEW s \in Servers, FinishClose(s) PROVE Matched'
  <2>1. \A c \in Tasks : Keeps(c)
    BY <1>3 DEF FinishClose, FailPending, Pending, Typed, TypeOK, Call, Keeps
  <2>2. QED
    BY <1>3, <2>1, KeepsMatched DEF FinishClose
<1>4. CASE Next
  BY <1>2, <1>3, <1>4, AnswerMatched, BootMatched, CallerMatched DEF Next
<1>5. QED
  BY <1>1, <1>4

----------------------------------------------------------------------------
(* Where start_all is *)

LEMMA InitTracked == Init => Tracked
BY McpAssumption, TasksHaveBoot
   DEF Init, Tracked, NotBegun, BootWaits, UpIsAlive, AliveIsKnown, Alive,
       NoRequestOutlivesItsConnection, RegisteredServersAreLive, Pending, NoCall, NewCall

\* Nobody comes to wait for a connection that is not running.
NoNewWaiter == \A c \in Tasks, s \in Servers : Pending(c, s)' => Pending(c, s) \/ state[s] = "RUNNING"

LEMMA CallerTracked ==
    ASSUME Typed, Tracked, call'["boot"] = call["boot"], NoNewWaiter,
           UNCHANGED <<state, up, clients, registered, boot, at, todo>>
    PROVE  Tracked'
<1>1. NotBegun' /\ BootWaits' /\ UpIsAlive' /\ AliveIsKnown' /\ RegisteredServersAreLive'
  BY DEF Tracked, NotBegun, BootWaits, UpIsAlive, AliveIsKnown, RegisteredServersAreLive, Alive
<1>2. NoRequestOutlivesItsConnection'
  BY DEF Tracked, NoRequestOutlivesItsConnection, NoNewWaiter
<1>3. QED
  BY <1>1, <1>2 DEF Tracked

LEMMA CallerStep ==
    ASSUME Typed, Tracked, NEW c \in Callers,
           \/ Drained(c) \/ RefuseCall(c) \/ Return(c)
           \/ \E s \in Servers : PickTool(c, s)
           \/ \E long \in BOOLEAN : CallTool(c, long)
    PROVE  Tracked'
<1>1. c \in Tasks /\ "boot" \in Tasks /\ c # "boot"
  BY TasksHaveBoot
<1>2. CASE Drained(c)
  <2>1. call'["boot"] = call["boot"] /\ NoNewWaiter
    BY <1>1, <1>2 DEF Drained, NoNewWaiter, Pending, Typed, TypeOK, Call
  <2>2. QED
    BY <1>2, <2>1, CallerTracked DEF Drained
<1>3. CASE RefuseCall(c) \/ Return(c)
  <2>1. call' = [call EXCEPT ![c] = NoCall] /\ NoCall.pc = "idle"
    BY <1>3 DEF RefuseCall, Return, CallReturns, CallTimesOut, DrainFails, Over, NoCall, NewCall
  <2>2. call'["boot"] = call["boot"] /\ NoNewWaiter
    BY <1>1, <2>1 DEF NoNewWaiter, Pending, Typed, TypeOK
  <2>3. QED
    BY <1>3, <2>2, CallerTracked
       DEF RefuseCall, Return, CallReturns, CallTimesOut, DrainFails
<1>4. ASSUME NEW s \in Servers, PickTool(c, s) PROVE Tracked'
  <2>1. call'["boot"] = call["boot"] /\ NoNewWaiter
    BY <1>1, <1>4 DEF PickTool, NewCall, NoNewWaiter, Pending, Typed, TypeOK
  <2>2. QED
    BY <1>4, <2>1, CallerTracked DEF PickTool
<1>5. ASSUME NEW long \in BOOLEAN, CallTool(c, long) PROVE Tracked'
  <2>1. /\ call[c].srv \in Servers /\ state[call[c].srv] = "RUNNING" /\ serial + 1 \in Ids
        /\ Request(c, call[c].srv, IF long THEN "drain" ELSE "wait")
    BY <1>1, <1>5, Room DEF CallTool, Typed, Running
  <2>2. call'["boot"] = call["boot"] /\ NoNewWaiter
    BY <1>1, <2>1, RequestEffect DEF NewCall, NoNewWaiter, Pending, Typed, TypeOK
  <2>3. QED
    BY <1>5, <2>2, CallerTracked DEF CallTool
<1>6. QED
  BY <1>2, <1>3, <1>4, <1>5

LEMMA ConnectionTracked ==
    ASSUME Typed, Tracked, NEW s \in Servers,
           ReadAnswer(s) \/ ServerExits(s) \/ ReaderCloses(s) \/ FinishClose(s)
    PROVE  Tracked'
<1> USE TasksHaveBoot
<1>1. CASE ReadAnswer(s)
  <2>1. PICK line \in sent[s], c \in Tasks, result \in {"answer", "error"} :
          /\ Pending(c, s) /\ state[s] = "RUNNING"
          /\ call' = [call EXCEPT ![c].result = result, ![c].answers = line.serial]
    BY <1>1 DEF ReadAnswer, Running
  <2>2. call' = [call EXCEPT ![c] = [call[c] EXCEPT !.result = result, !.answers = line.serial]]
    BY <2>1 DEF Typed, TypeOK
  <2>3. /\ \A d \in Tasks : d # c => call'[d] = call[d]
        /\ call'[c].pc = call[c].pc /\ call'[c].srv = call[c].srv /\ call'[c].result = result
    BY <2>2 DEF Typed, TypeOK, Call
  <2>4. NotBegun' /\ UpIsAlive' /\ AliveIsKnown' /\ RegisteredServersAreLive'
    BY <1>1 DEF ReadAnswer, Tracked, NotBegun, UpIsAlive, AliveIsKnown,
                RegisteredServersAreLive, Alive
  <2>5. BootWaits'
    <3>1. CASE c = "boot"
      <4>1. boot \in {"initialize", "list"} /\ call["boot"].srv = at /\ at = s
        BY <2>1, <3>1 DEF Tracked, BootWaits, Pending, NoCall, NewCall
      <4>2. QED
        BY <1>1, <2>1, <2>3, <3>1, <4>1 DEF ReadAnswer, Tracked, BootWaits, Alive
    <3>2. CASE c # "boot"
      BY <1>1, <2>3, <3>2 DEF ReadAnswer, Tracked, BootWaits, Alive
    <3>3. QED
      BY <3>1, <3>2
  <2>6. NoRequestOutlivesItsConnection'
    <3>1. \A d \in Tasks, q \in Servers : Pending(d, q)' => Pending(d, q)
      BY <2>3 DEF Pending
    <3>2. UNCHANGED <<state, up>>
      BY <1>1 DEF ReadAnswer
    <3>3. QED
      BY <3>1, <3>2 DEF Tracked, NoRequestOutlivesItsConnection
  <2>7. QED
    BY <2>4, <2>5, <2>6 DEF Tracked
<1>2. CASE ServerExits(s)
  BY <1>2 DEF ServerExits, Tracked, NotBegun, BootWaits, UpIsAlive, AliveIsKnown, Alive,
              NoRequestOutlivesItsConnection, RegisteredServersAreLive, Pending
<1>3. CASE ReaderCloses(s)
  <2>1. \A q \in Servers : /\ Alive(q)' = Alive(q)
                           /\ (state'[q] = "CLOSED") = (state[q] = "CLOSED")
                           /\ (state'[q] = "NOT_STARTED") = (state[q] = "NOT_STARTED")
    BY <1>3 DEF ReaderCloses, Running, BeginClose, Alive, Typed, TypeOK
  <2>2. NotBegun' /\ BootWaits' /\ UpIsAlive' /\ AliveIsKnown'
    BY <1>3, <2>1 DEF ReaderCloses, Tracked, NotBegun, BootWaits, UpIsAlive, AliveIsKnown,
                      Typed, TypeOK
  <2>3. NoRequestOutlivesItsConnection' /\ RegisteredServersAreLive'
    BY <1>3, <2>1 DEF ReaderCloses, Tracked, NoRequestOutlivesItsConnection, Pending,
                      RegisteredServersAreLive, Alive, Typed, TypeOK
  <2>4. QED
    BY <2>2, <2>3 DEF Tracked
<1>4. CASE FinishClose(s)
  <2>1. /\ state[s] = "CLOSING" /\ state'[s] = "CLOSED"
        /\ \A q \in Servers : q # s => state'[q] = state[q]
    BY <1>4 DEF FinishClose, Typed, TypeOK
  <2>2. \A c \in Tasks : /\ call'[c].pc = call[c].pc /\ call'[c].srv = call[c].srv
                         /\ Pending(c, s) => call'[c].result = "closed"
                         /\ ~Pending(c, s) => call'[c] = call[c]
    BY <1>4 DEF FinishClose, FailPending, Typed, TypeOK, Call
  <2>3. NotBegun' /\ UpIsAlive' /\ AliveIsKnown' /\ RegisteredServersAreLive'
    BY <1>4, <2>1 DEF FinishClose, OnClosed, Tracked, NotBegun, UpIsAlive, AliveIsKnown,
                      RegisteredServersAreLive, Alive, Typed, TypeOK
  <2>4. NoRequestOutlivesItsConnection'
    <3>1. \A c \in Tasks : ~Pending(c, s)'
      BY <2>2 DEF Pending
    <3>2. s \notin up'
      BY <1>4 DEF FinishClose
    <3>3. ASSUME NEW q \in Servers, q # s, state'[q] = "CLOSED"
          PROVE  q \notin up' /\ \A c \in Tasks : ~Pending(c, q)'
      <4>1. q \notin up /\ \A c \in Tasks : ~Pending(c, q)
        BY <2>1, <3>3 DEF Tracked, NoRequestOutlivesItsConnection
      <4>2. QED
        BY <1>4, <2>2, <3>3, <4>1 DEF FinishClose, Pending
    <3>4. QED
      BY <3>1, <3>2, <3>3 DEF NoRequestOutlivesItsConnection
  <2>5. BootWaits'
    <3>1. CASE boot \in {"initialize", "list"} /\ at = s
      <4>1. call["boot"].result = "none"
        BY <1>4, <2>1, <3>1 DEF FinishClose, Tracked, BootWaits, Alive
      <4>2. QED
        BY <1>4, <2>1, <2>2, <3>1, <4>1 DEF FinishClose, Tracked, BootWaits, Pending, Alive
    <3>2. CASE ~(boot \in {"initialize", "list"} /\ at = s)
      <4>1. ~Pending("boot", s)
        BY <3>2 DEF Tracked, BootWaits, Pending, NoCall, NewCall
      <4>2. QED
        BY <1>4, <2>1, <2>2, <3>2, <4>1 DEF FinishClose, Tracked, BootWaits, Alive, Typed, TypeOK
    <3>3. QED
      BY <3>1, <3>2
  <2>6. QED
    BY <2>3, <2>4, <2>5 DEF Tracked
<1>5. QED
  BY <1>1, <1>2, <1>3, <1>4

\* Closing begins: nothing else changes for a connection that is alive.
LEMMA BeginCloseKeeps ==
    ASSUME Typed, NEW s \in Servers, BeginClose(s)
    PROVE  /\ \A q \in Servers : /\ (state'[q] = "CLOSED") = (state[q] = "CLOSED")
                                 /\ q # s => state'[q] = state[q]
                                 /\ Alive(q) => Alive(q)'
           /\ state'[s] \in {"CLOSING", "CLOSED"}
BY DEF BeginClose, Alive, Typed, TypeOK

\* The steps that start a server.
LEMMA SpawnTracked == ASSUME Typed, Tracked, Spawn PROVE Tracked'
<1> USE TasksHaveBoot
<1>1. at \in Servers /\ serial + 1 \in Ids /\ Request("boot", at, "wait")
  BY Room DEF Typed, TypeOK, Spawn
<1>2. call' = [call EXCEPT !["boot"] = NewCall("wait", at, nextId[at] + 1, serial + 1)]
  BY <1>1, RequestEffect
<1>3. /\ call'["boot"].pc = "wait" /\ call'["boot"].srv = at /\ call'["boot"].result = "none"
      /\ \A c \in Tasks : c # "boot" => call'[c] = call[c]
  BY <1>2 DEF NewCall, Typed, TypeOK
<1>4. /\ state'[at] = "RUNNING" /\ state[at] = "NOT_STARTED"
      /\ \A q \in Servers : q # at => state'[q] = state[q]
  BY <1>1 DEF Spawn, Typed, TypeOK, Tracked, NotBegun
<1>5. NotBegun' /\ BootWaits'
  BY <1>3, <1>4, McpAssumption DEF Spawn, Tracked, NotBegun, BootWaits, Alive, Servers, Typed, TypeOK
<1>6. UpIsAlive' /\ AliveIsKnown' /\ RegisteredServersAreLive'
  BY <1>1, <1>4 DEF Spawn, Tracked, UpIsAlive, AliveIsKnown, RegisteredServersAreLive, Alive,
                    Typed, TypeOK
<1>7. NoRequestOutlivesItsConnection'
  BY <1>1, <1>3, <1>4 DEF Spawn, Tracked, NoRequestOutlivesItsConnection, Pending
<1>8. QED
  BY <1>5, <1>6, <1>7 DEF Tracked

LEMMA StartTracked ==
    ASSUME Typed, Tracked, RefuseServer \/ SpawnFails \/ StartFails \/ StartRaises
    PROVE  Tracked'
<1> USE TasksHaveBoot
<1>1. at \in Servers
  BY DEF Typed, TypeOK
<1>2. CASE RefuseServer
  BY <1>2 DEF RefuseServer, Tracked, NotBegun, BootWaits, UpIsAlive, AliveIsKnown, Alive,
              NoRequestOutlivesItsConnection, RegisteredServersAreLive, Pending
<1>3. CASE SpawnFails
  <2>1. NotBegun' /\ BootWaits' /\ UpIsAlive' /\ AliveIsKnown'
    BY <1>1, <1>3, BeginCloseKeeps, McpAssumption
       DEF SpawnFails, Tracked, NotBegun, BootWaits, UpIsAlive, AliveIsKnown, Alive, Servers,
           Typed, TypeOK
  <2>2. NoRequestOutlivesItsConnection' /\ RegisteredServersAreLive'
    BY <1>1, <1>3, BeginCloseKeeps
       DEF SpawnFails, Tracked, NoRequestOutlivesItsConnection, RegisteredServersAreLive,
           Alive, Pending, Typed, TypeOK
  <2>3. QED
    BY <2>1, <2>2 DEF Tracked
<1>4. CASE StartFails
  <2>1. call' = [call EXCEPT !["boot"] = NoCall] /\ NoCall.pc = "idle"
    BY <1>4 DEF StartFails, Over, NoCall, NewCall
  <2>2. call'["boot"] = NoCall /\ \A c \in Tasks : c # "boot" => call'[c] = call[c]
    BY <2>1 DEF Typed, TypeOK
  <2>3. NotBegun' /\ BootWaits' /\ UpIsAlive' /\ AliveIsKnown'
    BY <1>1, <1>4, <2>2, BeginCloseKeeps, McpAssumption
       DEF StartFails, Tracked, NotBegun, BootWaits, UpIsAlive, AliveIsKnown, Alive, Servers,
           Typed, TypeOK
  <2>4. NoRequestOutlivesItsConnection' /\ RegisteredServersAreLive'
    BY <1>1, <1>4, <2>1, <2>2, BeginCloseKeeps
       DEF StartFails, Tracked, NoRequestOutlivesItsConnection, RegisteredServersAreLive,
           Alive, Pending, Typed, TypeOK
  <2>5. QED
    BY <2>3, <2>4 DEF Tracked
<1>5. CASE StartRaises
  BY <1>5 DEF StartRaises, Tracked, NotBegun, BootWaits, UpIsAlive, AliveIsKnown, Alive,
              NoRequestOutlivesItsConnection, RegisteredServersAreLive, Pending, Typed, TypeOK
<1>6. QED
  BY <1>2, <1>3, <1>4, <1>5

LEMMA InitializedTracked == ASSUME Typed, Tracked, Initialized PROVE Tracked'
<1> USE TasksHaveBoot
<1>1. /\ at \in Servers /\ boot = "initialize" /\ call["boot"].result = "answer"
      /\ UNCHANGED <<state, up, registered, at>>
      /\ clients' = clients \cup {at} /\ todo' = todo \cup {at}
  BY DEF Initialized, Answered, Typed, TypeOK
<1>2. Alive(at)
  BY <1>1 DEF Tracked, BootWaits, Alive
<1>3. UpIsAlive' /\ RegisteredServersAreLive'
  BY <1>1, <1>2 DEF Tracked, UpIsAlive, RegisteredServersAreLive, Alive
<1>4. CASE /\ state[at] = "RUNNING" /\ Request("boot", at, "wait") /\ boot' = "list"
  <2>1. call' = [call EXCEPT !["boot"] = NewCall("wait", at, nextId[at] + 1, serial + 1)]
    BY <1>1, <1>4, Room, RequestEffect
  <2>2. /\ call'["boot"].pc = "wait" /\ call'["boot"].srv = at /\ call'["boot"].result = "none"
        /\ \A c \in Tasks : c # "boot" => call'[c] = call[c]
    BY <2>1 DEF NewCall, Typed, TypeOK
  <2>3. NotBegun' /\ BootWaits'
    BY <1>1, <1>2, <1>4, <2>2 DEF Tracked, NotBegun, BootWaits, Alive
  <2>4. AliveIsKnown'
    BY <1>1, <1>4 DEF Tracked, AliveIsKnown, Alive
  <2>5. NoRequestOutlivesItsConnection'
    BY <1>1, <1>4, <2>2 DEF Tracked, NoRequestOutlivesItsConnection, Pending
  <2>6. QED
    BY <1>3, <2>3, <2>4, <2>5 DEF Tracked
<1>5. CASE Over("boot") /\ boot' = "rollback"
  <2>1. call' = [call EXCEPT !["boot"] = NoCall] /\ NoCall.pc = "idle"
    BY <1>5 DEF Over, NoCall, NewCall
  <2>2. call'["boot"] = NoCall /\ \A c \in Tasks : c # "boot" => call'[c] = call[c]
    BY <2>1 DEF Typed, TypeOK
  <2>3. NotBegun' /\ BootWaits'
    <3>1. state[at] # "NOT_STARTED"
      BY <1>2 DEF Alive
    <3>2. QED
      BY <1>1, <1>5, <2>2, <3>1 DEF Tracked, NotBegun, BootWaits
  <2>4. AliveIsKnown'
    BY <1>1, <1>5 DEF Tracked, AliveIsKnown, Alive
  <2>5. NoRequestOutlivesItsConnection'
    BY <1>1, <2>1, <2>2 DEF Tracked, NoRequestOutlivesItsConnection, Pending
  <2>6. QED
    BY <1>3, <2>3, <2>4, <2>5 DEF Tracked
<1>6. QED
  BY <1>4, <1>5 DEF Initialized, Running

LEMMA ListTracked == ASSUME Typed, Tracked, Listed \/ ListFails PROVE Tracked'
<1> USE TasksHaveBoot
<1>1. at \in Servers /\ boot = "list" /\ Over("boot") /\ UNCHANGED <<state, up, clients, todo>>
  BY DEF Listed, ListFails, Typed, TypeOK
<1>2. call' = [call EXCEPT !["boot"] = NoCall] /\ NoCall.pc = "idle"
  BY <1>1 DEF Over, NoCall, NewCall
<1>3. call'["boot"] = NoCall /\ \A c \in Tasks : c # "boot" => call'[c] = call[c]
  BY <1>2 DEF Typed, TypeOK
<1>4. UpIsAlive' /\ NoRequestOutlivesItsConnection'
  BY <1>1, <1>2, <1>3 DEF Tracked, UpIsAlive, Alive, NoRequestOutlivesItsConnection, Pending
<1>5. RegisteredServersAreLive'
  <2>1. registered' = registered \/ (Alive(at) /\ registered' = registered \cup {at})
    BY <1>1 DEF Listed, ListFails, Answered, Tracked, BootWaits
  <2>2. QED
    BY <1>1, <2>1 DEF Tracked, RegisteredServersAreLive, Alive
<1>6. BootWaits' /\ AliveIsKnown'
  BY <1>1, <1>3 DEF Listed, ListFails, Tracked, BootWaits, AliveIsKnown, Alive
<1>7. NotBegun'
  BY <1>1, McpAssumption DEF Listed, ListFails, Tracked, NotBegun, Typed, TypeOK, Servers
<1>8. QED
  BY <1>4, <1>5, <1>6, <1>7 DEF Tracked

\* The rollback, and shutdown_all.
LEMMA StopTracked ==
    ASSUME Typed, Tracked,
           \/ RolledBack \/ Shutdown \/ ShutDown
           \/ \E s \in Servers : RollBackServer(s) \/ ServerStopped(s) \/ StopServer(s) \/ ServerDown(s)
    PROVE  Tracked'
<1>1. ASSUME NEW s \in Servers, RollBackServer(s) \/ StopServer(s) PROVE Tracked'
  <2>1. /\ \A q \in Servers : /\ (state'[q] = "CLOSED") = (state[q] = "CLOSED")
                              /\ q # s => state'[q] = state[q]
                              /\ Alive(q) => Alive(q)'
        /\ state'[s] \in {state[s], "CLOSING", "CLOSED"}
    BY <1>1, BeginCloseKeeps DEF RollBackServer, StopServer, Alive, Typed, TypeOK
  <2>2. /\ s \in todo /\ boot \in {"rollback", "shutdown"} /\ boot' \in {"stop", "wait"}
        /\ UNCHANGED <<up, call, registered, at, todo>> /\ clients' \subseteq clients
    BY <1>1 DEF RollBackServer, StopServer, First
  <2>3. NotBegun' /\ BootWaits'
    BY <2>1, <2>2 DEF Tracked, NotBegun, BootWaits, Typed, TypeOK
  <2>4. UpIsAlive' /\ RegisteredServersAreLive'
    BY <2>1, <2>2 DEF Tracked, UpIsAlive, RegisteredServersAreLive, Alive, Typed, TypeOK
  <2>5. AliveIsKnown'
    BY <2>1, <2>2 DEF Tracked, AliveIsKnown, Alive
  <2>6. NoRequestOutlivesItsConnection'
    BY <2>1, <2>2 DEF Tracked, NoRequestOutlivesItsConnection, Pending
  <2>7. QED
    BY <2>3, <2>4, <2>5, <2>6 DEF Tracked
<1>2. ASSUME NEW s \in Servers, ServerStopped(s) \/ ServerDown(s) PROVE Tracked'
  <2>1. /\ s \in todo /\ state[s] = "CLOSED" /\ boot \in {"stop", "wait"}
        /\ boot' \in {"rollback", "shutdown"} /\ todo' = todo \ {s}
        /\ registered' = registered \ {s} /\ UNCHANGED <<state, up, call, clients, at>>
    BY <1>2 DEF ServerStopped, ServerDown, First
  <2>2. NotBegun' /\ BootWaits' /\ UpIsAlive' /\ RegisteredServersAreLive'
    BY <2>1 DEF Tracked, NotBegun, BootWaits, UpIsAlive, RegisteredServersAreLive, Alive
  <2>3. AliveIsKnown' /\ NoRequestOutlivesItsConnection'
    BY <2>1 DEF Tracked, AliveIsKnown, Alive, NoRequestOutlivesItsConnection, Pending
  <2>4. QED
    BY <2>2, <2>3 DEF Tracked
<1>3. CASE RolledBack
  BY <1>3 DEF RolledBack, Tracked, NotBegun, BootWaits, UpIsAlive, AliveIsKnown, Alive,
              NoRequestOutlivesItsConnection, RegisteredServersAreLive, Pending
<1>4. CASE Shutdown
  BY <1>4 DEF Shutdown, Tracked, NotBegun, BootWaits, UpIsAlive, AliveIsKnown, Alive,
              NoRequestOutlivesItsConnection, RegisteredServersAreLive, Pending
<1>5. CASE ShutDown
  BY <1>5 DEF ShutDown, Tracked, NotBegun, BootWaits, UpIsAlive, AliveIsKnown, Alive,
              NoRequestOutlivesItsConnection, RegisteredServersAreLive, Pending
<1>6. QED
  BY <1>1, <1>2, <1>3, <1>4, <1>5

LEMMA NextTracked ==
    ASSUME Typed, Tracked, [Next]_vars
    PROVE  Tracked'
<1>1. CASE UNCHANGED vars
  BY <1>1 DEF vars, Tracked, NotBegun, BootWaits, UpIsAlive, AliveIsKnown, Alive,
              NoRequestOutlivesItsConnection, RegisteredServersAreLive, Pending
<1>2. CASE Boot \/ Shutdown
  BY <1>2, SpawnTracked, StartTracked, InitializedTracked, ListTracked, StopTracked DEF Boot
<1>3. CASE Next
  BY <1>2, <1>3, ConnectionTracked, CallerStep DEF Next
<1>4. QED
  BY <1>1, <1>3

----------------------------------------------------------------------------
(* Theorems *)

THEOREM Inductive == Spec => []IInv
<1>1. Init => IInv
  BY InitTyped, InitMatched, InitTracked DEF IInv
<1>2. IInv /\ [Next]_vars => IInv'
  BY NextTyped, NextMatched, NextTracked DEF IInv
<1>3. QED
  BY <1>1, <1>2, PTL DEF Spec

\* The variables keep their types: in particular start_all never reaches past
\* the last configured server, and no request id exceeds the requests sent.
THEOREM TypeCorrect == Spec => []TypeOK
<1>1. IInv => TypeOK
  BY DEF IInv, Typed
<1>2. QED
  BY <1>1, Inductive, PTL

\* No request waits for a closed connection, and no process outlives one
\* (MCPClient._close).
THEOREM RequestsEndWithTheConnection == Spec => []NoRequestOutlivesItsConnection
<1>1. IInv => NoRequestOutlivesItsConnection
  BY DEF IInv, Tracked
<1>2. QED
  BY <1>1, Inductive, PTL

\* An answer is given to the request it answers, however late or often the
\* server sends it (_send_request, _read_stdout).
THEOREM AnswersMatch == Spec => []AnswerIsItsOwn
<1>1. IInv => AnswerIsItsOwn
  BY DEF IInv, Matched
<1>2. QED
  BY <1>1, Inductive, PTL

\* No closed server is left in the registry or among the clients
\* (MCPManager._on_client_closed, start_all, shutdown_all).
THEOREM RegistryIsLive == Spec => []RegisteredServersAreLive
<1>1. IInv => RegisteredServersAreLive
  BY DEF IInv, Tracked
<1>2. QED
  BY <1>1, Inductive, PTL

\* A start_all that failed, and a shutdown_all, leave no server behind.
THEOREM StartIsAtomic == Spec => []AllOrNothing
<1>1. IInv => AllOrNothing
  <2> SUFFICES ASSUME IInv, boot \in {"failed", "down"} PROVE AllOrNothing
    BY DEF AllOrNothing
  <2>1. \A s \in Servers : ~Alive(s)
    BY DEF IInv, Tracked, AliveIsKnown
  <2>2. up = {} /\ clients = {} /\ registered = {}
    BY <2>1 DEF IInv, Typed, TypeOK, Tracked, UpIsAlive, RegisteredServersAreLive, Alive
  <2>3. QED
    BY <2>1, <2>2 DEF AllOrNothing, Alive, IInv, Typed, TypeOK
<1>2. QED
  BY <1>1, Inductive, PTL
=============================================================================
