------------------------ MODULE ToolExecution_proofs ------------------------
(***************************************************************************)
(* Theorems about ToolExecution: for every plan, any choice of its tools,  *)
(* any number of runs, dispositions, failed saves, deaths and power losses.*)
(*                                                                         *)
(* What is promised of the control state is promised of three documents:   *)
(* the visible one, the durable one and the one the run holds, for each    *)
(* may be what a later step starts from.  The invariant therefore says of  *)
(* each of them what it must not claim, and of each place of the run how   *)
(* the three and the effects in the world are related.                     *)
(***************************************************************************)
EXTENDS ToolExecution, FiniteSetTheorems, TLAPS

Ends == {"no", "maybe", "yes", "failed", "abandoned", "rearmed"}
Ledger == [run : 0..MaxRuns, subtask : Tools, action : Actions, attempt : Nat, prior : ControlState]
Kept == {disk, stable}

\* Places of a run that has started its plan, and of its last steps.
Running == {"effect", "running", "returned"}
Looping == {"loop", "model"} \cup Running
Ending == {"finish", "committed", "reported"}
Planned == {"sandbox", "over", "raised"} \cup Looping \cup Ending

----------------------------------------------------------------------------
(* The inductive invariant *)

\* The types, and what the cursor is at where a step writes of it.
Typed ==
    /\ TypeOK
    /\ \A s \in Models : resumed[s] \in ModelStates
    /\ \A s \in Tools : resumed[s] \in ToolStates
    /\ ledger \subseteq Ledger /\ IsFiniteSet(ledger)
    /\ pc = "loop" => cursor \in Subtasks
    /\ pc = "model" => cursor \in Models
    /\ pc \in Running => cursor \in Tools

\* Later documents are of later runs, the ledger's entries of runs that ended,
\* and a tool was last executed no later than the documents that survive.
Chronology ==
    /\ \A c \in Kept : c.run <= runs /\ (pc = "planning" => c.run < runs)
    /\ \A c \in Kept, s \in Tools : did[s].run <= c.run
    /\ \A d \in ledger : d.run <= runs
    /\ pc # "idle" => mem.run = runs /\ \A d \in ledger : d.run < runs

\* A disposition in progress: its decision is recorded, its subtask still awaits
\* it, and no run is under way.
Disposing ==
    op # <<>> =>
        /\ pc = "idle"
        /\ Eligible(op[1], op[2])
        /\ \E d \in ledger : /\ d.run = disk.run /\ d.subtask = op[2]
                             /\ d.action = op[1] /\ d.attempt = disk.attempt[op[2]]

\* Tools whose effect was cut off, failed or was abandoned.
Marks == {"tool_started", "tool_failed", "tool_abandoned"}
Marked(st) == {s \in Tools : st[s] \in Marks}

\* Everything before a marked tool is completed.
MarkedInOrder(st) ==
    \A s \in Marked(st), t \in Subtasks : t < s => st[t] = "completed"

OneMark(st) == \A s, t \in Marked(st) : s = t

WellMarked(c) == OneMark(c.st) /\ (c.scope = "workspace" => MarkedInOrder(c.st))

MarksAreOrdered ==
    /\ \A c \in Kept \cup {mem} : WellMarked(c)
    /\ OneMark(resumed) /\ MarkedInOrder(resumed)
    /\ pc = "model" => Marked(mem.st) = {}
    /\ pc \in Running => Marked(mem.st) = {cursor}

\* What the run's own document says before and from the cursor on, and where it
\* is the visible and the durable one.
Progress ==
    /\ pc \in {"idle", "planning"} => mem = Fresh(mem.run) /\ resumed = NothingResumed
    /\ pc = "sandbox" => mem.st = Carried(resumed)
    /\ pc \in Looping \cup {"committed", "reported"} =>
          \A s \in Subtasks : s < cursor => mem.st[s] = "completed"
    /\ pc = "finish" /\ cursor = N + 1 => \A s \in Subtasks : mem.st[s] = "completed"
    /\ pc \in {"committed", "reported"} => cursor = N + 1
    /\ pc \in Looping => \A s \in Subtasks :
          s > cursor \/ (pc = "loop" /\ s = cursor) => mem.st[s] = Carried(resumed)[s]
    /\ pc \in Looping \cup Ending => mem.scope = IF separate THEN "candidate" ELSE "workspace"
    /\ pc = "reported" => separate
    /\ pc \in {"model"} \cup Running => disk = mem /\ stable = mem
    /\ pc \in {"model"} \cup Running => resumed[cursor] # "completed"
    /\ pc = "model" => mem.st[cursor] = "in_progress"
    /\ pc \in Running => mem.st[cursor] = "tool_started"

\* The subtask's effect or files are there for good, or at least for this run.
Present(s) == IF s \in Tools THEN did[s].end = "yes" ELSE work[s] = "workspace"
InCandidate(s) == s \in Models /\ separate /\ work[s] = "sandbox"

WorkIsThere ==
    /\ ReusableWorkIsThere
    /\ \A s \in Subtasks : resumed[s] = "completed" => Present(s)
    /\ pc # "idle" => \A s \in Subtasks : mem.st[s] = "completed" => Present(s) \/ InCandidate(s)
    /\ pc \in {"committed", "reported"} => \A s \in Subtasks : Present(s)

\* An effect that may have happened and that nobody disposed of.
InDoubt(s) ==
    /\ did[s].end \in {"maybe", "failed"}
    /\ ~\E d \in ledger : d.subtask = s /\ d.run = did[s].run

\* Every document shows it, and is of the run that executed it.
Shows(c, s) == c.st[s] \in {"tool_started", "tool_failed"} /\ c.run = did[s].run

\* Where a run can be with an effect in doubt.
Doubtful == {"running", "returned", "finish", "over", "raised"}

DoubtIsShown ==
    /\ \A s \in Tools : InDoubt(s) =>
          /\ \A c \in Kept : Shows(c, s)
          /\ pc # "idle" => Shows(mem, s) /\ pc \in Doubtful
          /\ pc \in Running => s = cursor
    /\ pc \in {"running", "returned"} => did[cursor].run = mem.run

\* Attempts are numbered by the retries recorded on earlier attempts.
Retries(l, c, s) ==
    {d \in l : d.run <= c.run /\ d.subtask = s /\ d.action = "retry" /\ d.attempt < c.attempt[s]}

Counted(l, c) == \A s \in Tools : c.attempt[s] <= 1 + Cardinality(Retries(l, c, s))

AttemptsAreCounted == \A c \in Kept \cup {mem} : Counted(ledger, c)

\* An execution that would repeat nothing of the execution being resumed.
MayExecute(s) ==
    \/ did[s].end \in {"no", "rearmed"}
    \/ did[s].run < first
    \/ \E d \in ledger : d.subtask = s /\ d.action = "retry" /\ d.run >= did[s].run

\* The states a run executes a tool from.
Runnable == {"absent", "pending", "failed"}

RunnableIsFree ==
    /\ \A c \in Kept : c.scope = "workspace" =>
          \A s \in Tools : c.st[s] \in Runnable => MayExecute(s)
    /\ pc \in {"sandbox"} \cup Looping \cup Ending =>
          \A s \in Tools : mem.st[s] \in Runnable => MayExecute(s)
    /\ pc = "effect" => MayExecute(cursor)

IInv ==
    /\ Typed /\ Chronology /\ Disposing
    /\ MarksAreOrdered /\ Progress /\ WorkIsThere
    /\ DoubtIsShown /\ AttemptsAreCounted /\ RunnableIsFree

----------------------------------------------------------------------------
(* What the operators on control states do *)

\* A control state whose tools have a tool's states and whose models a model's.
Document(c) ==
    /\ c \in ControlState
    /\ \A s \in Models : c.st[s] \in ModelStates
    /\ \A s \in Tools : c.st[s] \in ToolStates

\* d is c but for the state, and perhaps the attempt, of one subtask.
Changes(c, d, s, state) ==
    /\ d.run = c.run /\ d.scope = c.scope
    /\ d.st[s] = state
    /\ \A t \in Subtasks : t # s => d.st[t] = c.st[t]
    /\ \A t \in Tools : t # s => d.attempt[t] = c.attempt[t]

OfItsKind(s, state) ==
    \/ s \in Models /\ state \in ModelStates
    \/ s \in Tools /\ state \in ToolStates

LEMMA SubtaskFacts ==
    /\ Subtasks \subseteq Nat \ {0} /\ Tools \subseteq Subtasks /\ Models \subseteq Subtasks
    /\ \A s \in Subtasks : s \in Tools \/ s \in Models
    /\ \A s \in Models : s \notin Tools
    /\ N \in Subtasks /\ 1 \in Subtasks
BY PlanAssumption DEF Subtasks, Models

LEMMA FreshIs ==
    ASSUME NEW id \in 0..MaxRuns
    PROVE  /\ Document(Fresh(id))
           /\ Fresh(id).run = id /\ Fresh(id).scope = "none"
           /\ \A s \in Subtasks : Fresh(id).st[s] = "absent"
           /\ \A s \in Tools : Fresh(id).attempt[s] = 0
BY SubtaskFacts DEF Document, Fresh, ControlState, States, ModelStates, ToolStates

LEMMA WithIs ==
    ASSUME NEW c, Document(c), NEW s \in Subtasks, NEW state, OfItsKind(s, state)
    PROVE  /\ Document(With(c, s, state))
           /\ Changes(c, With(c, s, state), s, state)
           /\ With(c, s, state).attempt = c.attempt
<1>1. c = [run |-> c.run, scope |-> c.scope, st |-> c.st, attempt |-> c.attempt]
  BY DEF Document, ControlState
<1> DEFINE st == [c.st EXCEPT ![s] = state]
<1>2. With(c, s, state) = [run |-> c.run, scope |-> c.scope, st |-> st, attempt |-> c.attempt]
  BY <1>1 DEF With
<1>3. st \in [Subtasks -> States]
  BY DEF Document, ControlState, OfItsKind, States
<1>4. st[s] = state /\ \A t \in Subtasks : t # s => st[t] = c.st[t]
  BY DEF Document, ControlState
<1>5. \A t \in Models : st[t] \in ModelStates
  BY <1>4, SubtaskFacts DEF Document, OfItsKind
<1>6. \A t \in Tools : st[t] \in ToolStates
  BY <1>4, SubtaskFacts DEF Document, OfItsKind
<1> HIDE DEF st
<1>7. With(c, s, state) \in ControlState
  BY <1>2, <1>3 DEF Document, ControlState
<1>8. QED
  BY <1>2, <1>4, <1>5, <1>6, <1>7 DEF Document, Changes

\* The attempt of one tool is changed as well.
LEMMA WithAttemptIs ==
    ASSUME NEW c, Document(c), NEW s \in Tools, NEW state \in ToolStates, NEW n \in Nat
    PROVE  LET d == [With(c, s, state) EXCEPT !.attempt[s] = n]
           IN  Document(d) /\ Changes(c, d, s, state) /\ d.attempt[s] = n
<1> DEFINE w == With(c, s, state)
           a == [c.attempt EXCEPT ![s] = n]
           d == [w EXCEPT !.attempt[s] = n]
<1>1. Document(w) /\ Changes(c, w, s, state) /\ w.attempt = c.attempt
  BY SubtaskFacts, WithIs DEF OfItsKind
<1>2. w = [run |-> w.run, scope |-> w.scope, st |-> w.st, attempt |-> w.attempt]
  BY <1>1 DEF Document, ControlState
<1> HIDE DEF w
<1>3. d = [run |-> w.run, scope |-> w.scope, st |-> w.st, attempt |-> a]
  BY <1>1, <1>2
<1>4. a \in [Tools -> Nat] /\ a[s] = n /\ \A t \in Tools : t # s => a[t] = c.attempt[t]
  BY DEF Document, ControlState
<1> HIDE DEF a, d
<1>5. Document(d)
  BY <1>1, <1>3, <1>4 DEF Document, ControlState
<1>6. Changes(c, d, s, state)
  BY <1>1, <1>3, <1>4 DEF Changes
<1>7. QED
  BY <1>3, <1>4, <1>5, <1>6 DEF d, w

LEMMA DiscardedIs ==
    ASSUME NEW c, Document(c)
    PROVE  /\ Document(Discarded(c))
           /\ Discarded(c).run = c.run /\ Discarded(c).scope = c.scope
           /\ Discarded(c).attempt = c.attempt
           /\ \A s \in Subtasks : Discarded(c).st[s] =
                  IF c.st[s] = "completed" THEN "pending" ELSE c.st[s]
<1> DEFINE st == [s \in Subtasks |-> IF c.st[s] = "completed" THEN "pending" ELSE c.st[s]]
<1>1. c = [run |-> c.run, scope |-> c.scope, st |-> c.st, attempt |-> c.attempt]
  BY DEF Document, ControlState
<1>2. Discarded(c) = [run |-> c.run, scope |-> c.scope, st |-> st, attempt |-> c.attempt]
  BY <1>1 DEF Discarded
<1>3. /\ st \in [Subtasks -> States]
      /\ \A s \in Models : st[s] \in ModelStates
      /\ \A s \in Tools : st[s] \in ToolStates
  BY SubtaskFacts DEF Document, ControlState, States, ModelStates, ToolStates
<1> HIDE DEF st
<1>4. Document(Discarded(c))
  BY <1>2, <1>3 DEF Document, ControlState
<1>5. QED
  BY <1>2, <1>4 DEF st

LEMMA ScopedIs ==
    ASSUME NEW c, Document(c), NEW scope \in {"none", "workspace", "candidate"}
    PROVE  LET d == [c EXCEPT !.scope = scope]
           IN  /\ Document(d) /\ d.scope = scope
               /\ d.run = c.run /\ d.st = c.st /\ d.attempt = c.attempt
BY DEF Document, ControlState

LEMMA CarriedIs ==
    ASSUME NEW a \in [Subtasks -> States],
           \A s \in Models : a[s] \in ModelStates, \A s \in Tools : a[s] \in ToolStates
    PROVE  /\ Carried(a) \in [Subtasks -> States]
           /\ \A s \in Models : Carried(a)[s] \in ModelStates
           /\ \A s \in Tools : Carried(a)[s] \in ToolStates
           /\ \A s \in Subtasks : Carried(a)[s] = "completed" <=> a[s] = "completed"
           /\ \A s \in Tools : a[s] \in Marks => Carried(a)[s] = a[s]
           /\ \A s \in Tools : Carried(a)[s] \in Marks => a[s] \in Marks
           /\ \A s \in Tools : Carried(a)[s] \in Runnable <=> a[s] \in Runnable
BY SubtaskFacts DEF Carried, States, ModelStates, ToolStates, Marks, Runnable

LEMMA StartedIs ==
    ASSUME NEW k \in Tools, Document(mem)
    PROVE  /\ Document(Started(k))
           /\ Changes(mem, Started(k), k, "tool_started")
           /\ Started(k).attempt[k] = IF mem.attempt[k] = 0 THEN 1 ELSE mem.attempt[k]
<1>1. (IF mem.attempt[k] = 0 THEN 1 ELSE mem.attempt[k]) \in Nat /\ "tool_started" \in ToolStates
  BY DEF Document, ControlState, ToolStates
<1>2. QED
  BY <1>1, WithAttemptIs DEF Started

LEMMA DisposedIs ==
    ASSUME NEW c, Document(c), NEW s \in Tools, NEW act \in Actions
    PROVE  LET d == Disposed(c, act, s)
           IN  /\ Document(d)
               /\ Changes(c, d, s, IF act = "abandon" THEN "tool_abandoned" ELSE "pending")
               /\ d.attempt[s] = IF act = "abandon" THEN c.attempt[s] ELSE c.attempt[s] + 1
<1>1. CASE act = "abandon"
  <2>1. OfItsKind(s, "tool_abandoned") /\ s \in Subtasks
    BY SubtaskFacts DEF OfItsKind, ToolStates
  <2>2. QED
    BY <1>1, <2>1, WithIs DEF Disposed
<1>2. CASE act # "abandon"
  <2>1. OfItsKind(s, "pending") /\ s \in Subtasks /\ "pending" \in ToolStates
    BY SubtaskFacts DEF OfItsKind, ToolStates
  <2>2. With(c, s, "pending").attempt = c.attempt
    BY <2>1, WithIs
  <2>3. Disposed(c, act, s) = [With(c, s, "pending") EXCEPT !.attempt[s] = c.attempt[s] + 1]
    BY <1>2, <2>2 DEF Disposed
  <2>4. c.attempt[s] + 1 \in Nat
    BY DEF Document, ControlState
  <2>5. QED
    BY <1>2, <2>1, <2>3, <2>4, WithAttemptIs
<1>3. QED
  BY <1>1, <1>2

LEMMA AdoptedIs ==
    ASSUME Document(mem)
    PROVE  /\ Document(Adopted) /\ Adopted.scope = "workspace"
           /\ Adopted.run = mem.run /\ Adopted.st = mem.st /\ Adopted.attempt = mem.attempt
BY ScopedIs DEF Adopted

----------------------------------------------------------------------------
(* What a save can leave *)

\* Whatever survives is one of the documents there were, or the new one.
Leaves(c) == Kept' \subseteq Kept \cup {c}

LEMMA SaveLeaves ==
    ASSUME NEW c, Save(c) \/ SaveFails(c)
    PROVE  Leaves(c)
BY DEF Save, SaveFails, Leaves, Kept

LEMMA SavesLeaves ==
    ASSUME NEW c, NEW place, Saves(c, place)
    PROVE  Leaves(c)
BY SaveLeaves DEF Saves

LEMMA NothingNewLeft ==
    ASSUME Confirmed \/ UNCHANGED <<disk, stable>> \/ (disk' = stable /\ UNCHANGED stable)
    PROVE  Leaves(disk)
BY DEF Confirmed, Save, Leaves, Kept

----------------------------------------------------------------------------
(* The types *)

\* TypeOK by subject: the documents, the ledger, the run and the world.
DocumentsTyped == Document(disk) /\ Document(stable) /\ Document(mem)

LedgerTyped ==
    /\ ledger \subseteq Ledger /\ IsFiniteSet(ledger)
    /\ op = <<>> \/ op \in Actions \X Tools

RunTyped ==
    /\ pc \in {"idle"} \cup {"planning"} \cup Planned
    /\ pc = "loop" => cursor \in Subtasks
    /\ pc = "model" => cursor \in Models
    /\ pc \in Running => cursor \in Tools
    /\ asked \in BOOLEAN /\ cursor \in 0..(N + 1)
    /\ resumed \in [Subtasks -> States]
    /\ \A s \in Models : resumed[s] \in ModelStates
    /\ \A s \in Tools : resumed[s] \in ToolStates
    /\ runs \in 0..MaxRuns /\ first \in 0..MaxRuns /\ faults \in 0..MaxFaults

WorldTyped ==
    /\ work \in [Models -> {"nowhere", "sandbox", "workspace"}]
    /\ did \in [Tools -> [end : Ends, run : 0..MaxRuns]]
    /\ separate \in BOOLEAN

LEMMA TypedIs == Typed <=> DocumentsTyped /\ LedgerTyped /\ RunTyped /\ WorldTyped
<1>1. ledger \subseteq Ledger => \A d \in ledger :
          /\ d.run \in 0..MaxRuns /\ d.subtask \in Tools
          /\ d.action \in Actions /\ d.prior \in ControlState
  BY DEF Ledger
<1>2. QED
  BY <1>1 DEF Typed, TypeOK, DocumentsTyped, LedgerTyped, RunTyped, WorldTyped,
              Document, Ends, Planned, Looping, Running, Ending

LEMMA InitTyped == Init => Typed
<1> SUFFICES ASSUME Init PROVE Typed
  OBVIOUS
<1>1. 0 \in 0..MaxRuns /\ 0 \in 0..MaxFaults /\ 0 \in 0..(N + 1)
  BY PlanAssumption
<1>2. DocumentsTyped
  BY <1>1, FreshIs DEF Init, DocumentsTyped
<1>3. LedgerTyped
  BY FS_EmptySet DEF Init, LedgerTyped
<1>4. RunTyped
  BY <1>1, SubtaskFacts DEF Init, RunTyped, NothingResumed, States, ModelStates, ToolStates,
                            Planned, Looping, Running, Ending
<1>5. WorldTyped
  BY <1>1, PlanAssumption DEF Init, WorldTyped, Ends
<1>6. QED
  BY <1>2, <1>3, <1>4, <1>5, TypedIs

LEMMA DocumentsLeft ==
    ASSUME DocumentsTyped, NEW c, Document(c), Leaves(c)
    PROVE  Document(disk') /\ Document(stable')
BY DEF DocumentsTyped, Leaves, Kept

LEMMA DocumentsNext ==
    ASSUME Typed, [Next]_vars
    PROVE  DocumentsTyped'
<1> USE TypedIs
<1>0. DocumentsTyped /\ LedgerTyped /\ RunTyped /\ WorldTyped
  OBVIOUS
<1>a. UNCHANGED mem /\ Leaves(disk) => DocumentsTyped'
  BY <1>0, DocumentsLeft DEF DocumentsTyped
<1>b. Document(mem') /\ (Leaves(disk) \/ Leaves(mem')) => DocumentsTyped'
  BY <1>0, DocumentsLeft DEF DocumentsTyped
<1>c. ASSUME NEW c, Document(c), Leaves(c), UNCHANGED mem PROVE DocumentsTyped'
  BY <1>0, <1>c, DocumentsLeft DEF DocumentsTyped
<1>d. 0 \in 0..MaxRuns /\ mem.run \in 0..MaxRuns
  BY <1>0, PlanAssumption DEF DocumentsTyped, Document, ControlState
<1>1. ASSUME NEW resume \in BOOLEAN, BeginRun(resume) PROVE DocumentsTyped'
  <2>1. runs + 1 \in 0..MaxRuns
    BY <1>0, <1>1, PlanAssumption DEF BeginRun, RunTyped
  <2>2. QED
    BY <1>1, <1>b, <2>1, FreshIs, NothingNewLeft DEF BeginRun
<1>2. CASE TypedStop
  BY <1>2, <1>c, <1>d, FreshIs, SavesLeaves DEF TypedStop
<1>3. ASSUME NEW same \in BOOLEAN, StartPlan(same) PROVE DocumentsTyped'
  <2> DEFINE adopted == IF asked /\ same /\ disk.scope = "workspace" THEN disk.st ELSE NothingResumed
             some == adopted # NothingResumed
  <2>1. /\ adopted \in [Subtasks -> States]
        /\ \A s \in Models : adopted[s] \in ModelStates
        /\ \A s \in Tools : adopted[s] \in ToolStates
    BY <1>0, SubtaskFacts DEF DocumentsTyped, Document, ControlState, NothingResumed,
                              States, ModelStates, ToolStates
  <2>2. /\ mem' = [run |-> mem.run, st |-> Carried(adopted),
                   scope |-> IF some THEN "workspace" ELSE "none",
                   attempt |-> IF some THEN disk.attempt ELSE mem.attempt]
        /\ Saves(mem', "sandbox")
    BY <1>3 DEF StartPlan, StartFrom
  <2> HIDE DEF adopted, some
  <2>3. (IF some THEN disk.attempt ELSE mem.attempt) \in [Tools -> Nat]
    BY <1>0 DEF DocumentsTyped, Document, ControlState
  <2>4. Document(mem')
    BY <2>1, <2>2, <2>3, <1>d, CarriedIs DEF Document, ControlState
  <2>5. QED
    BY <1>b, <2>2, <2>4, SavesLeaves
<1>4. CASE MakeSandbox
  <2>1. Document(mem')
    BY <1>4, <1>0, ScopedIs DEF MakeSandbox, DocumentsTyped
  <2>2. QED
    BY <1>4, <1>b, <2>1, NothingNewLeft DEF MakeSandbox, files
<1>5. ASSUME NEW k \in Subtasks, SkipCompleted(k) \/ StopAtMarker(k) PROVE DocumentsTyped'
  BY <1>5, <1>a, NothingNewLeft DEF SkipCompleted, StopAtMarker, files
<1>6. ASSUME NEW k \in Subtasks, StartModel(k) PROVE DocumentsTyped'
  <2>1. OfItsKind(k, "in_progress")
    BY <1>6 DEF StartModel, OfItsKind, ModelStates
  <2>2. Document(mem')
    BY <1>6, <1>0, <2>1, WithIs DEF StartModel, DocumentsTyped
  <2>3. QED
    BY <1>6, <1>b, <2>2, SavesLeaves DEF StartModel
<1>7. ASSUME NEW passed \in BOOLEAN, EndModel(passed) PROVE DocumentsTyped'
  <2>1. OfItsKind(cursor, IF passed THEN "completed" ELSE "failed") /\ cursor \in Subtasks
    BY <1>7, <1>0, SubtaskFacts DEF EndModel, RunTyped, OfItsKind, ModelStates
  <2>2. Document(mem')
    BY <1>7, <1>0, <2>1, WithIs DEF EndModel, DocumentsTyped
  <2>3. QED
    BY <1>7, <1>b, <2>2, SavesLeaves DEF EndModel
<1>8. ASSUME NEW k \in Tools, StartTool(k) \/ StartToolFails(k) PROVE DocumentsTyped'
  <2>1. Document(Started(k))
    BY <1>0, StartedIs DEF DocumentsTyped
  <2>2. QED
    BY <1>8, <1>b, <1>c, <2>1, SaveLeaves DEF StartTool, StartToolFails
<1>9. ASSUME NEW state \in {"failed", "completed", "tool_failed"}, pc \in Running
      PROVE  Document(With(mem, cursor, state))
  <2>1. OfItsKind(cursor, state) /\ cursor \in Subtasks
    BY <1>9, <1>0, SubtaskFacts DEF RunTyped, OfItsKind, ToolStates
  <2>2. QED
    BY <1>0, <2>1, WithIs DEF DocumentsTyped
<1>10. CASE RefuseTool
  BY <1>10, <1>9, <1>b, SavesLeaves DEF RefuseTool, Running
<1>11. ASSUME BeginEffect \/ (\E end \in {"yes", "failed"} : EndEffect(end)) PROVE DocumentsTyped'
  BY <1>11, <1>a, NothingNewLeft DEF BeginEffect, EndEffect, files
<1>12. CASE SaveCompleted
  BY <1>12, <1>9, <1>b, SaveLeaves DEF SaveCompleted, Ended, Running
<1>13. CASE SaveCompletedFails
  BY <1>13, <1>9, <1>c, SaveLeaves DEF SaveCompletedFails, Ended, Running
<1>14. CASE SaveFailed
  BY <1>14, <1>9, <1>b, SaveLeaves DEF SaveFailed, Ended, Running
<1>15. CASE Discard
  BY <1>15, <1>0, <1>c, DiscardedIs, SavesLeaves DEF Discard, DocumentsTyped
<1>16. CASE Adopt \/ AdoptFails
  BY <1>16, <1>0, <1>c, AdoptedIs, SaveLeaves DEF Adopt, AdoptFails, DocumentsTyped
<1>17. CASE SaveReturned
  BY <1>17, <1>0, <1>c, SavesLeaves DEF SaveReturned, DocumentsTyped
<1>18. CASE RunEnds \/ PowerLoss
  BY <1>18, <1>b, <1>d, FreshIs, NothingNewLeft DEF RunEnds, PowerLoss, LetGo, files
<1>19. ASSUME NEW act \in Actions, NEW s \in Tools, RecordDisposition(act, s) PROVE DocumentsTyped'
  BY <1>19, <1>a, NothingNewLeft DEF RecordDisposition, run
<1>20. CASE ApplyDisposition \/ DispositionFails
  <2>1. op[1] \in Actions /\ op[2] \in Tools
    BY <1>20, <1>0 DEF ApplyDisposition, DispositionFails, LedgerTyped
  <2>2. Document(Disposed(disk, op[1], op[2]))
    BY <1>0, <2>1, DisposedIs DEF DocumentsTyped
  <2>3. UNCHANGED mem /\ Leaves(Disposed(disk, op[1], op[2]))
    BY <1>20, SaveLeaves DEF ApplyDisposition, DispositionFails, run
  <2>4. QED
    BY <1>c, <2>2, <2>3
<1>21. CASE Commit \/ OperatorDies \/ UNCHANGED vars
  BY <1>21, <1>a, NothingNewLeft DEF Commit, OperatorDies, vars, files, run
<1>22. QED
  BY <1>1, <1>2, <1>3, <1>4, <1>5, <1>6, <1>7, <1>8, <1>10, <1>11, <1>12, <1>13, <1>14,
     <1>15, <1>16, <1>17, <1>18, <1>19, <1>20, <1>21 DEF Next

LEMMA EntryTyped ==
    ASSUME DocumentsTyped, NEW act \in Actions, NEW s \in Tools
    PROVE  Entry(act, s) \in Ledger
BY DEF DocumentsTyped, Document, ControlState, Entry, Ledger

LEMMA LedgerNext ==
    ASSUME Typed, [Next]_vars
    PROVE  LedgerTyped'
<1>0. DocumentsTyped /\ LedgerTyped
  BY TypedIs
<1>1. ASSUME NEW act \in Actions, NEW s \in Tools, RecordDisposition(act, s) PROVE LedgerTyped'
  <2>1. ledger' = ledger \cup {Entry(act, s)} \/ ledger' = ledger
    BY <1>1 DEF RecordDisposition
  <2>2. ledger' \subseteq Ledger /\ IsFiniteSet(ledger')
    BY <1>0, <2>1, EntryTyped, FS_AddElement DEF LedgerTyped
  <2>3. QED
    BY <1>1, <2>2 DEF LedgerTyped, RecordDisposition
<1>2. ASSUME UNCHANGED ledger, op' = <<>> \/ UNCHANGED op PROVE LedgerTyped'
  BY <1>0, <1>2 DEF LedgerTyped
<1>3. QED
  BY <1>1, <1>2 DEF Next, vars, files, run, BeginRun, TypedStop, StartPlan, MakeSandbox, SkipCompleted,
     StopAtMarker, StartModel, EndModel, StartTool, StartToolFails, RefuseTool, BeginEffect, EndEffect,
     SaveCompleted, SaveCompletedFails, SaveFailed, Discard, Commit, Adopt, AdoptFails, SaveReturned,
     RunEnds, ApplyDisposition, DispositionFails, OperatorDies, PowerLoss

LEMMA Limits ==
    /\ \A n \in 0..MaxFaults : n < MaxFaults => n + 1 \in 0..MaxFaults
    /\ \A n \in 0..MaxRuns : n < MaxRuns => n + 1 \in 0..MaxRuns
    /\ \A k \in Subtasks : /\ k \in 0..(N + 1) /\ k + 1 \in 0..(N + 1)
                           /\ k # N => k + 1 \in Subtasks
    /\ 0 \in 0..(N + 1) /\ 1 \in 0..(N + 1) /\ 0 \in 0..MaxRuns
BY PlanAssumption DEF Subtasks

LEMMA FaultsNext ==
    ASSUME RunTyped, UNCHANGED faults \/ Fault
    PROVE  faults' \in 0..MaxFaults
BY Limits DEF RunTyped, Fault

LEMMA RunNext ==
    ASSUME Typed, [Next]_vars
    PROVE  RunTyped'
<1>0. DocumentsTyped /\ LedgerTyped /\ RunTyped
  BY TypedIs
<1> USE SubtaskFacts, Limits, FaultsNext DEF Planned, Looping, Running, Ending
<1>1. ASSUME NEW resume \in BOOLEAN, BeginRun(resume) PROVE RunTyped'
  BY <1>0, <1>1 DEF BeginRun, RunTyped, GoTo
<1>2. CASE TypedStop
  BY <1>0, <1>2 DEF TypedStop, Saves, SaveFails, RunTyped, GoTo
<1>3. ASSUME NEW same \in BOOLEAN, StartPlan(same) PROVE RunTyped'
  <2>1. /\ resumed' \in [Subtasks -> States]
        /\ \A s \in Models : resumed'[s] \in ModelStates
        /\ \A s \in Tools : resumed'[s] \in ToolStates
    <3>1. resumed' = disk.st \/ resumed' = NothingResumed
      BY <1>3 DEF StartPlan, StartFrom
    <3>2. QED
      BY <1>0, <3>1 DEF DocumentsTyped, Document, ControlState, NothingResumed,
                        States, ModelStates, ToolStates
  <2>2. first' \in 0..MaxRuns
    BY <1>0, <1>3 DEF StartPlan, StartFrom, RunTyped, DocumentsTyped, Document, ControlState
  <2>3. pc' \in {"sandbox", "raised"} /\ faults' \in 0..MaxFaults /\ asked' \in BOOLEAN
        /\ UNCHANGED <<cursor, runs>>
    BY <1>0, <1>3 DEF StartPlan, StartFrom, Saves, SaveFails, GoTo, RunTyped
  <2>4. QED
    BY <1>0, <2>1, <2>2, <2>3 DEF RunTyped
<1>4. CASE MakeSandbox
  BY <1>0, <1>4 DEF MakeSandbox, RunTyped, GoTo
<1>5. ASSUME NEW k \in Subtasks, SkipCompleted(k) \/ StopAtMarker(k) PROVE RunTyped'
  BY <1>0, <1>5 DEF SkipCompleted, StopAtMarker, At, Advance, Break, Following, RunTyped, GoTo
<1>6. ASSUME NEW k \in Subtasks, StartModel(k) PROVE RunTyped'
  BY <1>0, <1>6 DEF StartModel, At, Saves, SaveFails, RunTyped, GoTo
<1>7. ASSUME NEW passed \in BOOLEAN, EndModel(passed) PROVE RunTyped'
  BY <1>0, <1>7 DEF EndModel, Following, Saves, SaveFails, RunTyped, GoTo
<1>8. ASSUME NEW k \in Tools, StartTool(k) \/ StartToolFails(k) PROVE RunTyped'
  BY <1>0, <1>8 DEF StartTool, StartToolFails, At, Break, SaveFails, RunTyped, GoTo
<1>9. CASE RefuseTool
  BY <1>0, <1>9 DEF RefuseTool, Saves, SaveFails, RunTyped, GoTo
<1>10. ASSUME BeginEffect \/ (\E end \in {"yes", "failed"} : EndEffect(end)) PROVE RunTyped'
  BY <1>0, <1>10 DEF BeginEffect, EndEffect, RunTyped, GoTo
<1>11. CASE SaveCompleted \/ SaveCompletedFails \/ SaveFailed
  BY <1>0, <1>11 DEF SaveCompleted, SaveCompletedFails, SaveFailed, Ended, Advance, Break,
                     Following, SaveFails, RunTyped, GoTo
<1>12. CASE Discard \/ SaveReturned
  BY <1>0, <1>12 DEF Discard, SaveReturned, Saves, SaveFails, RunTyped, GoTo
<1>13. CASE Commit \/ Adopt \/ AdoptFails
  BY <1>0, <1>13 DEF Commit, Adopt, AdoptFails, SaveFails, RunTyped, GoTo
<1>14. CASE RunEnds \/ PowerLoss
  <2>1. /\ pc' = "idle" /\ resumed' = NothingResumed /\ asked' = FALSE /\ cursor' = 0
        /\ UNCHANGED <<first, runs>>
    BY <1>14 DEF RunEnds, PowerLoss, LetGo, GoTo
  <2>2. /\ NothingResumed \in [Subtasks -> States]
        /\ \A s \in Subtasks : NothingResumed[s] \in ModelStates \cap ToolStates
    BY DEF NothingResumed, States, ModelStates, ToolStates
  <2>3. 0 \in 0..(N + 1) /\ pc' \notin Running
    BY <2>1, PlanAssumption DEF Running
  <2>4. faults' \in 0..MaxFaults
    BY <1>0, <1>14, FaultsNext DEF RunEnds, PowerLoss
  <2>5. /\ resumed' \in [Subtasks -> States]
        /\ \A s \in Models : resumed'[s] \in ModelStates
        /\ \A s \in Tools : resumed'[s] \in ToolStates
    BY <2>1, <2>2, SubtaskFacts
  <2>6. QED
    BY <1>0, <2>1, <2>3, <2>4, <2>5 DEF RunTyped
<1>15. ASSUME NEW act \in Actions, NEW s \in Tools, RecordDisposition(act, s) PROVE RunTyped'
  BY <1>0, <1>15 DEF RecordDisposition, run, RunTyped
<1>16. CASE ApplyDisposition \/ DispositionFails \/ OperatorDies \/ UNCHANGED vars
  BY <1>0, <1>16 DEF ApplyDisposition, DispositionFails, OperatorDies, vars, run, SaveFails, RunTyped
<1>17. QED
  BY <1>1, <1>2, <1>3, <1>4, <1>5, <1>6, <1>7, <1>8, <1>9, <1>10, <1>11, <1>12, <1>13, <1>14,
     <1>15, <1>16 DEF Next

LEMMA WorldNext ==
    ASSUME Typed, [Next]_vars
    PROVE  WorldTyped'
<1>0. DocumentsTyped /\ LedgerTyped /\ RunTyped /\ WorldTyped
  BY TypedIs
<1>1. ASSUME UNCHANGED <<separate, work, did>> PROVE WorldTyped'
  BY <1>0, <1>1 DEF WorldTyped
<1>2. CASE MakeSandbox \/ Commit
  BY <1>0, <1>2 DEF MakeSandbox, Commit, WorldTyped, files
<1>3. ASSUME NEW passed \in BOOLEAN, EndModel(passed) PROVE WorldTyped'
  BY <1>0, <1>3 DEF EndModel, WorldTyped
<1>4. ASSUME NEW s \in Tools, NEW e \in Ends, NEW r \in 0..MaxRuns,
             did' = [did EXCEPT ![s] = [end |-> e, run |-> r]] \/ did' = [did EXCEPT ![s].end = e],
             UNCHANGED <<separate, work>>
      PROVE  WorldTyped'
  BY <1>0, <1>4 DEF WorldTyped
<1>5. CASE BeginEffect
  <2>1. cursor \in Tools /\ mem.run \in 0..MaxRuns /\ "maybe" \in Ends
    BY <1>0, <1>5 DEF BeginEffect, RunTyped, Running, DocumentsTyped, Document, ControlState, Ends
  <2>2. QED
    BY <1>4, <1>5, <2>1 DEF BeginEffect, files
<1>6. ASSUME NEW end \in {"yes", "failed"}, EndEffect(end) PROVE WorldTyped'
  <2>1. cursor \in Tools /\ end \in Ends /\ 0 \in 0..MaxRuns
    BY <1>0, <1>6, Limits DEF EndEffect, RunTyped, Running, Ends
  <2>2. QED
    BY <1>4, <1>6, <2>1 DEF EndEffect, files
<1>7. CASE ApplyDisposition
  <2>1. op[2] \in Tools /\ {"abandoned", "rearmed"} \subseteq Ends /\ 0 \in 0..MaxRuns
    BY <1>0, <1>7, Limits DEF ApplyDisposition, LedgerTyped, Ends
  <2>2. QED
    BY <1>4, <1>7, <2>1 DEF ApplyDisposition
<1>8. QED
  BY <1>1, <1>2, <1>3, <1>5, <1>6, <1>7 DEF Next, vars, files, run, BeginRun, TypedStop, StartPlan,
     SkipCompleted, StopAtMarker, StartModel, StartTool, StartToolFails, RefuseTool, SaveCompleted,
     SaveCompletedFails, SaveFailed, Discard, Adopt, AdoptFails, SaveReturned, RunEnds,
     RecordDisposition, DispositionFails, OperatorDies, PowerLoss

LEMMA TypedNext ==
    ASSUME Typed, [Next]_vars
    PROVE  Typed'
<1>1. DocumentsTyped' /\ LedgerTyped' /\ RunTyped' /\ WorldTyped'
  BY DocumentsNext, LedgerNext, RunNext, WorldNext
<1>2. QED
  BY <1>1, TypedIs, PTL

----------------------------------------------------------------------------
(* What the steps that write a document do *)

LEMMA SavesIs ==
    ASSUME NEW c, NEW place, place # "raised", Saves(c, place)
    PROVE  /\ Leaves(c)
           /\ pc' \in {place, "raised"}
           /\ pc' = place => disk' = c /\ stable' = c
BY SavesLeaves DEF Saves, Save, GoTo

\* The plan starts from the visible document, when that is one of the
\* workspace, or afresh.
LEMMA StartPlanDoes ==
    ASSUME Typed, NEW same \in BOOLEAN, StartPlan(same)
    PROVE  /\ Document(mem') /\ Leaves(mem')
           /\ mem'.run = mem.run /\ mem'.st = Carried(resumed')
           /\ \/ /\ disk.scope = "workspace" /\ resumed' = disk.st
                 /\ mem'.scope = "workspace" /\ mem'.attempt = disk.attempt
                 /\ first' = first
              \/ /\ resumed' = NothingResumed
                 /\ mem'.scope = "none" /\ mem'.attempt = mem.attempt
                 /\ first' = (IF disk' = mem' THEN mem.run ELSE first)
           /\ pc = "planning" /\ pc' \in {"sandbox", "raised"}
           /\ pc' = "sandbox" => disk' = mem' /\ stable' = mem'
<1> DEFINE adopt == asked /\ same /\ disk.scope = "workspace"
           adopted == IF adopt THEN disk.st ELSE NothingResumed
           some == adopted # NothingResumed
<1>1. /\ resumed' = adopted
      /\ mem' = [run |-> mem.run, st |-> Carried(adopted),
                 scope |-> IF some THEN "workspace" ELSE "none",
                 attempt |-> IF some THEN disk.attempt ELSE mem.attempt]
      /\ Saves(mem', "sandbox")
      /\ first' = IF ~some /\ disk' = mem' THEN mem.run ELSE first
      /\ pc = "planning"
  BY DEF StartPlan, StartFrom
<1>2. Document(mem')
  BY DocumentsNext DEF Next, DocumentsTyped
<1>3. adopted = NothingResumed \/ (adopted = disk.st /\ disk.scope = "workspace")
  OBVIOUS
<1> HIDE DEF adopted
<1>4. QED
  BY <1>1, <1>2, <1>3, SavesIs

LEMMA MakeSandboxDoes ==
    ASSUME Typed, MakeSandbox
    PROVE  /\ Document(mem') /\ UNCHANGED <<disk, stable>>
           /\ mem'.scope = (IF separate THEN "candidate" ELSE "workspace")
           /\ mem'.run = mem.run /\ mem'.st = mem.st /\ mem'.attempt = mem.attempt
BY TypedIs, ScopedIs DEF MakeSandbox, DocumentsTyped, files

LEMMA StartModelDoes ==
    ASSUME Typed, NEW k \in Subtasks, StartModel(k)
    PROVE  /\ k = cursor /\ k \in Models
           /\ Document(mem') /\ Leaves(mem') /\ Changes(mem, mem', k, "in_progress")
           /\ mem'.attempt = mem.attempt
           /\ pc' \in {"model", "raised"}
           /\ pc' = "model" => disk' = mem' /\ stable' = mem'
<1>1. OfItsKind(k, "in_progress") /\ k = cursor /\ k \in Models
  BY DEF StartModel, At, OfItsKind, ModelStates
<1>2. mem' = With(mem, k, "in_progress") /\ Saves(mem', "model")
  BY DEF StartModel
<1>3. QED
  BY <1>1, <1>2, TypedIs, WithIs, SavesIs DEF DocumentsTyped

LEMMA EndModelDoes ==
    ASSUME Typed, NEW passed \in BOOLEAN, EndModel(passed)
    PROVE  /\ cursor \in Models
           /\ Document(mem') /\ Leaves(mem')
           /\ Changes(mem, mem', cursor, IF passed THEN "completed" ELSE "failed")
           /\ mem'.attempt = mem.attempt
           /\ pc' = "raised" \/ pc' = IF passed THEN Following ELSE "finish"
           /\ pc' # "raised" => disk' = mem' /\ stable' = mem'
<1> DEFINE state == IF passed THEN "completed" ELSE "failed"
           place == IF passed THEN Following ELSE "finish"
<1>1. OfItsKind(cursor, state) /\ cursor \in Models /\ cursor \in Subtasks
  BY TypedIs, SubtaskFacts DEF EndModel, RunTyped, OfItsKind, ModelStates
<1>2. mem' = With(mem, cursor, state) /\ Saves(mem', place) /\ place # "raised"
  BY DEF EndModel, Following
<1> HIDE DEF place
<1>3. /\ Leaves(mem')
      /\ pc' \in {place, "raised"}
      /\ pc' = place => disk' = mem' /\ stable' = mem'
  BY <1>2, SavesIs
<1>4. QED
  BY <1>1, <1>2, <1>3, TypedIs, WithIs DEF DocumentsTyped, place

LEMMA StartToolDoes ==
    ASSUME Typed, NEW k \in Tools, StartTool(k) \/ StartToolFails(k)
    PROVE  /\ k = cursor /\ ToRun(k) /\ pc = "loop"
           /\ Document(Started(k)) /\ Leaves(Started(k))
           /\ Changes(mem, Started(k), k, "tool_started")
           /\ Started(k).attempt[k] = IF mem.attempt[k] = 0 THEN 1 ELSE mem.attempt[k]
           /\ StartTool(k) => mem' = Started(k) /\ disk' = mem' /\ stable' = mem' /\ pc' = "effect"
           /\ StartToolFails(k) => mem' = mem /\ pc' = "finish"
           /\ UNCHANGED cursor
<1>1. Leaves(Started(k))
  BY SaveLeaves DEF StartTool, StartToolFails
<1>2. QED
  BY <1>1, TypedIs, StartedIs DEF StartTool, StartToolFails, At, Save, GoTo, Break, DocumentsTyped

LEMMA CursorStateIs ==
    ASSUME Typed, pc \in Running, NEW state \in {"failed", "completed", "tool_failed"}
    PROVE  /\ cursor \in Tools
           /\ Document(With(mem, cursor, state))
           /\ Changes(mem, With(mem, cursor, state), cursor, state)
           /\ With(mem, cursor, state).attempt = mem.attempt
<1>1. OfItsKind(cursor, state) /\ cursor \in Subtasks /\ cursor \in Tools
  BY TypedIs, SubtaskFacts DEF RunTyped, OfItsKind, ToolStates
<1>2. QED
  BY <1>1, TypedIs, WithIs DEF DocumentsTyped

\* The steps that tell how a tool ended.
LEMMA EndToolDoes ==
    ASSUME Typed, RefuseTool \/ SaveCompleted \/ SaveCompletedFails \/ SaveFailed
    PROVE  \E state \in {"failed", "completed", "tool_failed"} :
              LET c == With(mem, cursor, state)
              IN  /\ cursor \in Tools /\ pc \in Running
                  /\ Document(c) /\ Leaves(c) /\ Changes(mem, c, cursor, state)
                  /\ c.attempt = mem.attempt
                  /\ mem' = c \/ (SaveCompletedFails /\ mem' = mem)
                  /\ RefuseTool => state = "failed" /\ pc = "effect" /\ pc' \in {"finish", "raised"}
                  /\ SaveCompleted => /\ state = "completed" /\ did[cursor].end = "yes"
                                      /\ disk' = c /\ stable' = c /\ pc' = Following
                  /\ SaveCompletedFails => /\ state = "completed" /\ did[cursor].end = "yes"
                                           /\ pc' = "finish"
                  /\ SaveFailed => state = "tool_failed" /\ did[cursor].end = "failed" /\ pc' = "finish"
<1>1. CASE RefuseTool
  <2>1. pc = "effect" /\ mem' = With(mem, cursor, "failed") /\ Saves(mem', "finish")
    BY <1>1 DEF RefuseTool
  <2>2. ~SaveCompleted /\ ~SaveCompletedFails /\ ~SaveFailed
    BY <2>1 DEF SaveCompleted, SaveCompletedFails, SaveFailed, Ended
  <2>3. QED
    BY <2>1, <2>2, CursorStateIs, SavesIs DEF Running
<1>2. CASE SaveCompleted
  <2>1. /\ pc = "returned" /\ did[cursor].end = "yes"
        /\ mem' = With(mem, cursor, "completed") /\ Save(mem') /\ pc' = Following
    BY <1>2 DEF SaveCompleted, Ended, Advance, GoTo
  <2>2. ~RefuseTool /\ ~SaveFailed /\ (SaveCompletedFails => pc' = "finish")
    BY <2>1 DEF RefuseTool, SaveFailed, SaveCompletedFails, Ended, Break, GoTo
  <2>3. QED
    BY <2>1, <2>2, CursorStateIs, SaveLeaves DEF Running, Save
<1>3. CASE SaveCompletedFails /\ ~SaveCompleted
  <2>1. /\ pc = "returned" /\ did[cursor].end = "yes" /\ mem' = mem
        /\ SaveFails(With(mem, cursor, "completed")) /\ pc' = "finish"
    BY <1>3 DEF SaveCompletedFails, Ended, Break, GoTo
  <2>2. ~RefuseTool /\ ~SaveFailed
    BY <2>1 DEF RefuseTool, SaveFailed, Ended
  <2>3. QED
    BY <1>3, <2>1, <2>2, CursorStateIs, SaveLeaves DEF Running
<1>4. CASE SaveFailed
  <2>1. /\ pc = "returned" /\ did[cursor].end = "failed" /\ pc' = "finish"
        /\ mem' = With(mem, cursor, "tool_failed") /\ (Save(mem') \/ SaveFails(mem'))
    BY <1>4 DEF SaveFailed, Ended, Break, GoTo
  <2>2. ~RefuseTool /\ ~SaveCompleted /\ ~SaveCompletedFails
    BY <2>1 DEF RefuseTool, SaveCompleted, SaveCompletedFails, Ended
  <2>3. QED
    BY <2>1, <2>2, CursorStateIs, SaveLeaves DEF Running
<1>5. QED
  BY <1>1, <1>2, <1>3, <1>4

\* What an ended run, or an ended loop, saves.
LEMMA LastSavesDo ==
    ASSUME Typed, Discard \/ Adopt \/ AdoptFails \/ SaveReturned
    PROVE  \E c : /\ Document(c) /\ Leaves(c)
                  /\ c.run = mem.run /\ c.attempt = mem.attempt
                  /\ Adopt \/ AdoptFails => c.scope = "workspace" /\ c.st = mem.st
                  /\ SaveReturned => c = mem
                  /\ Discard => /\ c.scope = mem.scope
                                /\ ~separate => c = mem
                                /\ separate => \A s \in Subtasks : c.st[s] =
                                      IF mem.st[s] = "completed" THEN "pending" ELSE mem.st[s]
<1>0. Document(mem)
  BY TypedIs DEF DocumentsTyped
<1>1. CASE Discard
  <2>1. /\ Leaves(IF separate THEN Discarded(mem) ELSE mem)
        /\ ~Adopt /\ ~AdoptFails /\ ~SaveReturned
    BY <1>1, SavesLeaves DEF Discard, Adopt, AdoptFails, SaveReturned
  <2>2. CASE separate
    BY <1>0, <2>1, <2>2, DiscardedIs
  <2>3. CASE ~separate
    BY <1>0, <2>1, <2>3
  <2>4. QED
    BY <2>2, <2>3
<1>2. CASE Adopt \/ AdoptFails
  <2>1. Leaves(Adopted) /\ ~Discard /\ ~SaveReturned
    BY <1>2, SaveLeaves DEF Discard, Adopt, AdoptFails, SaveReturned
  <2>2. QED
    BY <1>0, <2>1, AdoptedIs
<1>3. CASE SaveReturned
  <2>1. Leaves(mem) /\ ~Discard /\ ~Adopt /\ ~AdoptFails
    BY <1>3, SavesLeaves DEF Discard, Adopt, AdoptFails, SaveReturned
  <2>2. QED
    BY <1>0, <1>3, <2>1
<1>4. QED
  BY <1>1, <1>2, <1>3

LEMMA DispositionDoes ==
    ASSUME Typed, Disposing, ApplyDisposition \/ DispositionFails
    PROVE  /\ op[1] \in Actions /\ op[2] \in Tools /\ pc = "idle"
           /\ \E c : /\ Document(c) /\ Leaves(c) /\ disk' \in {disk, c}
                     /\ Changes(disk, c, op[2], IF op[1] = "abandon" THEN "tool_abandoned" ELSE "pending")
                     /\ c.attempt[op[2]] = (IF op[1] = "abandon" THEN disk.attempt[op[2]]
                                            ELSE disk.attempt[op[2]] + 1)
                     /\ ApplyDisposition => disk' = c /\ stable' = c
<1>1. op[1] \in Actions /\ op[2] \in Tools /\ pc = "idle"
  BY TypedIs DEF ApplyDisposition, DispositionFails, LedgerTyped, Disposing
<1> DEFINE c == Disposed(disk, op[1], op[2])
<1>2. Leaves(c) /\ disk' \in {disk, c}
  BY SaveLeaves DEF ApplyDisposition, DispositionFails, Save, SaveFails
<1>3. ApplyDisposition => disk' = c /\ stable' = c
  BY DEF ApplyDisposition, Save
<1>4. Document(disk)
  BY TypedIs DEF DocumentsTyped
<1>5. /\ Document(c)
      /\ Changes(disk, c, op[2], IF op[1] = "abandon" THEN "tool_abandoned" ELSE "pending")
      /\ c.attempt[op[2]] = (IF op[1] = "abandon" THEN disk.attempt[op[2]]
                             ELSE disk.attempt[op[2]] + 1)
  BY <1>1, <1>4, DisposedIs
<1> HIDE DEF c
<1>6. QED
  BY <1>1, <1>2, <1>3, <1>5

----------------------------------------------------------------------------
(* The runs are in order *)

LEMMA RunNumbers ==
    ASSUME Typed
    PROVE  /\ runs \in Nat /\ first \in Nat /\ MaxRuns \in Nat
           /\ disk.run \in Nat /\ stable.run \in Nat /\ mem.run \in Nat
           /\ \A s \in Tools : did[s].run \in Nat
           /\ \A d \in ledger : d.run \in Nat
BY TypedIs, PlanAssumption
   DEF RunTyped, WorldTyped, DocumentsTyped, LedgerTyped, Document, ControlState, Ledger

\* A step of a run that executes nothing leaves documents of this run.
LEMMA ChronologyInRun ==
    ASSUME Typed, Chronology, pc # "idle", NEW c, c.run = mem.run, Leaves(c),
           mem'.run = mem.run, pc' # "planning", UNCHANGED <<did, ledger, runs>>
    PROVE  Chronology'
BY RunNumbers DEF Chronology, Leaves, Kept

\* A step outside of the runs leaves the documents' run numbers.
LEMMA ChronologyOutside ==
    ASSUME Typed, Chronology, NEW c, c.run = disk.run, Leaves(c), pc' = "idle",
           UNCHANGED runs, UNCHANGED did \/ (\A s \in Tools : did'[s].run = did[s].run),
           \A d \in ledger' : d \in ledger \/ d.run = disk.run
    PROVE  Chronology'
BY RunNumbers DEF Chronology, Leaves, Kept

LEMMA ChronologyNext ==
    ASSUME IInv, [Next]_vars
    PROVE  Chronology'
<1>0. Typed /\ Chronology /\ Disposing /\ Progress
  BY DEF IInv
<1>1. ASSUME NEW resume \in BOOLEAN, BeginRun(resume) PROVE Chronology'
  <2>1. disk' = disk /\ stable' \in {stable, disk}
    BY <1>1 DEF BeginRun, Confirmed, Save
  <2>2. mem'.run = runs' /\ runs' = runs + 1 /\ UNCHANGED <<did, ledger>>
    BY <1>1 DEF BeginRun, Fresh
  <2>3. QED
    BY <1>0, <2>1, <2>2, RunNumbers DEF Chronology, Kept
<1>2. CASE TypedStop
  <2>1. Leaves(Fresh(mem.run)) /\ Fresh(mem.run).run = mem.run
    BY <1>2, SavesLeaves DEF TypedStop, Fresh
  <2>2. QED
    BY <1>0, <1>2, <2>1, ChronologyInRun DEF TypedStop, Saves, GoTo
<1>3. ASSUME NEW same \in BOOLEAN, StartPlan(same) PROVE Chronology'
  BY <1>0, <1>3, StartPlanDoes, ChronologyInRun DEF StartPlan
<1>4. CASE MakeSandbox
  BY <1>0, <1>4, MakeSandboxDoes DEF Chronology, Kept, MakeSandbox, GoTo, files
<1>5. ASSUME NEW k \in Subtasks, StartModel(k) PROVE Chronology'
  BY <1>0, <1>5, StartModelDoes, ChronologyInRun DEF StartModel, At, Changes
<1>6. ASSUME NEW passed \in BOOLEAN, EndModel(passed) PROVE Chronology'
  BY <1>0, <1>6, EndModelDoes, ChronologyInRun DEF EndModel, Following, Changes
<1>7. ASSUME NEW k \in Tools, StartTool(k) \/ StartToolFails(k) PROVE Chronology'
  BY <1>0, <1>7, StartToolDoes, ChronologyInRun DEF StartTool, StartToolFails, Changes
<1>8. CASE RefuseTool \/ SaveCompleted \/ SaveCompletedFails \/ SaveFailed
  <2>1. PICK c : Leaves(c) /\ c.run = mem.run /\ mem'.run = mem.run /\ pc # "idle" /\ pc' # "planning"
    BY <1>0, <1>8, EndToolDoes DEF Changes, Running, Following
  <2>2. QED
    BY <1>0, <1>8, <2>1, ChronologyInRun DEF RefuseTool, SaveCompleted, SaveCompletedFails, SaveFailed
<1>9. CASE BeginEffect
  <2>1. disk = mem /\ stable = mem /\ cursor \in Tools
    BY <1>0, <1>9, TypedIs DEF BeginEffect, Progress, Running, RunTyped
  <2>2. \A s \in Tools : did'[s].run = IF s = cursor THEN mem.run ELSE did[s].run
    BY <1>0, <1>9, TypedIs, <2>1 DEF BeginEffect, WorldTyped
  <2>3. QED
    BY <1>0, <1>9, <2>1, <2>2, RunNumbers DEF Chronology, Kept, BeginEffect, GoTo, files
<1>10. ASSUME NEW end \in {"yes", "failed"}, EndEffect(end) PROVE Chronology'
  <2>1. \A s \in Tools : did'[s].run = did[s].run
    BY <1>0, <1>10, TypedIs DEF EndEffect, WorldTyped
  <2>2. QED
    BY <1>0, <1>10, <2>1 DEF Chronology, Kept, EndEffect, GoTo, files
<1>11. CASE Discard \/ Adopt \/ AdoptFails \/ SaveReturned
  <2>1. PICK c : Leaves(c) /\ c.run = mem.run
    BY <1>0, <1>11, LastSavesDo
  <2>2. pc # "idle" /\ pc' # "planning" /\ UNCHANGED <<mem, did, ledger, runs>>
    BY <1>11 DEF Discard, Adopt, AdoptFails, SaveReturned, Saves, GoTo
  <2>3. QED
    BY <1>0, <2>1, <2>2, ChronologyInRun
<1>12. CASE RunEnds \/ PowerLoss
  BY <1>0, <1>12, NothingNewLeft, ChronologyOutside DEF RunEnds, PowerLoss, LetGo, GoTo, files
<1>13. ASSUME NEW act \in Actions, NEW s \in Tools, RecordDisposition(act, s) PROVE Chronology'
  BY <1>0, <1>13, NothingNewLeft, ChronologyOutside DEF RecordDisposition, Idle, Entry, run
<1>14. CASE ApplyDisposition \/ DispositionFails
  <2>1. PICK c : Leaves(c) /\ c.run = disk.run /\ pc = "idle"
    BY <1>0, <1>14, DispositionDoes DEF Changes
  <2>2. UNCHANGED did \/ \A s \in Tools : did'[s].run = did[s].run
    BY <1>0, <1>14, TypedIs DEF ApplyDisposition, DispositionFails, WorldTyped
  <2>3. UNCHANGED <<pc, runs, ledger>>
    BY <1>14 DEF ApplyDisposition, DispositionFails, run
  <2>4. QED
    BY <1>0, <2>1, <2>2, <2>3, ChronologyOutside
<1>15. CASE UNCHANGED <<disk, stable, mem, did, runs, ledger>> /\ pc' # "planning" /\ pc # "idle"
  BY <1>0, <1>15 DEF Chronology, Kept
<1>16. CASE UNCHANGED <<disk, stable, mem, did, runs, ledger, pc>>
  BY <1>0, <1>16 DEF Chronology, Kept
<1>17. ASSUME NEW k \in Subtasks, SkipCompleted(k) \/ StopAtMarker(k) PROVE Chronology'
  BY <1>15, <1>17 DEF SkipCompleted, StopAtMarker, At, Advance, Break, Following, GoTo, files
<1>18. CASE Commit \/ OperatorDies \/ UNCHANGED vars
  BY <1>15, <1>16, <1>18 DEF Commit, OperatorDies, vars, files, run, GoTo
<1>19. QED
  BY <1>1, <1>2, <1>3, <1>4, <1>5, <1>6, <1>7, <1>8, <1>9, <1>10, <1>11, <1>12, <1>13, <1>14,
     <1>17, <1>18 DEF Next

----------------------------------------------------------------------------
(* Commands and runs exclude each other *)

LEMMA DisposingNext ==
    ASSUME IInv, [Next]_vars
    PROVE  Disposing'
<1>0. Typed /\ Disposing
  BY DEF IInv
<1>1. ASSUME NEW act \in Actions, NEW s \in Tools, RecordDisposition(act, s) PROVE Disposing'
  <2>1. /\ disk' = disk /\ op' = <<act, s>> /\ pc' = "idle"
        /\ Eligible(act, s)
    BY <1>1 DEF RecordDisposition, Idle, run, Confirmed, Save
  <2>2. \E d \in ledger' : SameDisposition(d, Entry(act, s))
    <3>1. CASE Recorded(Entry(act, s)) = {}
      BY <1>1, <3>1 DEF RecordDisposition, SameDisposition
    <3>2. CASE Recorded(Entry(act, s)) # {}
      BY <1>1, <3>2 DEF RecordDisposition, Recorded
    <3>3. QED
      BY <3>1, <3>2
  <2>3. QED
    BY <2>1, <2>2 DEF Disposing, SameDisposition, Entry, Eligible
<1>2. ASSUME op' = <<>> PROVE Disposing'
  BY <1>2 DEF Disposing
<1>3. ASSUME UNCHANGED <<op, pc, disk, ledger>> PROVE Disposing'
  BY <1>0, <1>3 DEF Disposing, Eligible
<1>4. ASSUME pc # "idle", UNCHANGED op PROVE Disposing'
  BY <1>0, <1>2, <1>4 DEF Disposing
<1>5. CASE (\E resume \in BOOLEAN : BeginRun(resume)) \/ TypedStop
           \/ (\E same \in BOOLEAN : StartPlan(same)) \/ MakeSandbox
  BY <1>2, <1>4, <1>5 DEF BeginRun, Idle, TypedStop, StartPlan, MakeSandbox
<1>6. CASE \/ \E k \in Subtasks : SkipCompleted(k) \/ StopAtMarker(k) \/ StartModel(k)
           \/ \E passed \in BOOLEAN : EndModel(passed)
           \/ \E k \in Tools : StartTool(k) \/ StartToolFails(k)
  BY <1>4, <1>6 DEF SkipCompleted, StopAtMarker, StartModel, EndModel, StartTool, StartToolFails, At
<1>7. CASE \/ RefuseTool \/ BeginEffect \/ (\E end \in {"yes", "failed"} : EndEffect(end))
           \/ SaveCompleted \/ SaveCompletedFails \/ SaveFailed
  BY <1>4, <1>7 DEF RefuseTool, BeginEffect, EndEffect, SaveCompleted, SaveCompletedFails, SaveFailed, Ended
<1>8. CASE Discard \/ Commit \/ Adopt \/ AdoptFails \/ SaveReturned \/ RunEnds
  BY <1>4, <1>8 DEF Discard, Commit, Adopt, AdoptFails, SaveReturned, RunEnds
<1>9. CASE ApplyDisposition \/ DispositionFails \/ OperatorDies \/ PowerLoss \/ UNCHANGED vars
  BY <1>2, <1>3, <1>9 DEF ApplyDisposition, DispositionFails, OperatorDies, PowerLoss, vars, files, run
<1>10. QED
  BY <1>1, <1>5, <1>6, <1>7, <1>8, <1>9 DEF Next

----------------------------------------------------------------------------
(* The run's own document *)

LEMMA ProgressNext ==
    ASSUME IInv, [Next]_vars
    PROVE  Progress'
<1>0. Typed /\ Disposing /\ Progress
  BY DEF IInv
<1> USE DEF Looping, Running, Ending
<1>1. ASSUME NEW resume \in BOOLEAN, BeginRun(resume) PROVE Progress'
  BY <1>0, <1>1 DEF BeginRun, Idle, Progress, GoTo, Fresh
<1>2. CASE TypedStop
  BY <1>0, <1>2 DEF TypedStop, Saves, Progress, GoTo
<1>3. ASSUME NEW same \in BOOLEAN, StartPlan(same) PROVE Progress'
  BY <1>0, <1>3, StartPlanDoes DEF Progress
<1>4. CASE MakeSandbox
  <2>1. \A s \in Subtasks : ~(s < 1)
    BY SubtaskFacts
  <2>2. QED
    BY <1>0, <1>4, <2>1, MakeSandboxDoes DEF MakeSandbox, Progress, GoTo, files
<1>5. ASSUME NEW k \in Subtasks, SkipCompleted(k) PROVE Progress'
  <2>1. mem.st[k] = "completed"
    BY <1>0, <1>5, TypedIs, CarriedIs DEF SkipCompleted, At, Progress, RunTyped
  <2>2. /\ pc = "loop" /\ k = cursor /\ cursor' \in {cursor, cursor + 1}
        /\ cursor' = cursor => pc' = "finish"
        /\ cursor' # cursor => pc' = IF cursor = N THEN "finish" ELSE "loop"
        /\ UNCHANGED <<mem, resumed, separate, disk, stable>>
    BY <1>5, SubtaskFacts DEF SkipCompleted, At, Advance, Break, Following, GoTo, files
  <2>3. /\ \A s \in Subtasks : s < cursor => mem.st[s] = "completed"
        /\ \A s \in Subtasks : s >= cursor => mem.st[s] = Carried(resumed)[s]
        /\ mem.scope = IF separate THEN "candidate" ELSE "workspace"
    BY <1>0, <2>2, SubtaskFacts DEF Progress, Subtasks
  <2>4. CASE cursor' = cursor
    BY <2>2, <2>3, <2>4, SubtaskFacts, PlanAssumption DEF Progress, Subtasks
  <2>5. CASE cursor' # cursor
    <3>1. \A s \in Subtasks :
              /\ s < cursor' => s < cursor \/ s = k
              /\ s >= cursor' => s >= cursor
              /\ s > cursor' => s >= cursor
              /\ cursor = N => s < cursor'
      BY <2>2, <2>5, PlanAssumption DEF Subtasks
    <3>2. QED
      BY <2>1, <2>2, <2>3, <2>5, <3>1, SubtaskFacts, PlanAssumption DEF Progress, Subtasks
  <2>6. QED
    BY <2>4, <2>5
<1>6. ASSUME NEW k \in Subtasks, StopAtMarker(k) PROVE Progress'
  BY <1>0, <1>6, PlanAssumption DEF StopAtMarker, At, Break, GoTo, Progress, files, Subtasks
<1>7. ASSUME NEW k \in Subtasks, StartModel(k) PROVE Progress'
  BY <1>0, <1>7, StartModelDoes, SubtaskFacts DEF StartModel, At, Changes, Progress
<1>8. ASSUME NEW passed \in BOOLEAN, EndModel(passed) PROVE Progress'
  <2>1. cursor \in Subtasks /\ pc = "model"
    BY <1>0, <1>8, TypedIs, SubtaskFacts DEF EndModel, RunTyped
  <2>2. CASE passed
    <3>1. /\ cursor' = cursor + 1 /\ UNCHANGED <<resumed, separate>>
          /\ Changes(mem, mem', cursor, "completed") /\ pc' \in {"raised", Following}
          /\ pc' # "raised" => disk' = mem' /\ stable' = mem'
      BY <1>0, <1>8, <2>2, EndModelDoes DEF EndModel
    <3>2. QED
      BY <1>0, <2>1, <3>1, SubtaskFacts, PlanAssumption DEF Following, Progress, Subtasks, Changes
  <2>3. CASE ~passed
    BY <1>0, <1>8, <2>1, <2>3, EndModelDoes, SubtaskFacts, PlanAssumption
       DEF EndModel, Changes, Progress, Subtasks
  <2>4. QED
    BY <2>2, <2>3
<1>9. ASSUME NEW k \in Tools, StartTool(k) \/ StartToolFails(k) PROVE Progress'
  <2>1. /\ k = cursor /\ pc = "loop" /\ cursor' = cursor /\ resumed[k] # "completed"
        /\ k \in Subtasks /\ k # N + 1 /\ UNCHANGED <<resumed, separate>>
    BY <1>0, <1>9, StartToolDoes, SubtaskFacts, PlanAssumption
       DEF StartTool, StartToolFails, ToRun, Subtasks, files
  <2>2. CASE StartTool(k)
    <3>1. /\ pc' = "effect" /\ disk' = mem' /\ stable' = mem'
          /\ Changes(mem, mem', k, "tool_started")
      BY <1>0, <2>2, StartToolDoes
    <3>2. QED
      BY <1>0, <2>1, <3>1, SubtaskFacts DEF Changes, Progress, Subtasks
  <2>3. CASE StartToolFails(k)
    BY <1>0, <2>1, <2>3, StartToolDoes DEF Progress
  <2>4. QED
    BY <1>9, <2>2, <2>3
<1>10. CASE RefuseTool \/ SaveCompletedFails \/ SaveFailed
  <2>1. /\ pc' \in {"finish", "raised"} /\ cursor \in Subtasks /\ cursor' = cursor /\ cursor # N + 1
        /\ mem'.scope = mem.scope /\ UNCHANGED separate /\ pc \in Running
    <3>1. cursor' = cursor /\ UNCHANGED separate
      BY <1>10 DEF RefuseTool, SaveCompletedFails, SaveFailed, Break, files
    <3>2. PICK c : /\ Changes(mem, c, cursor, "failed") \/ Changes(mem, c, cursor, "completed")
                      \/ Changes(mem, c, cursor, "tool_failed")
                   /\ mem' = c \/ mem' = mem
                   /\ pc' \in {"finish", "raised"} /\ cursor \in Tools /\ pc \in Running
      BY <1>0, <1>10, EndToolDoes DEF SaveCompleted
    <3>3. QED
      BY <3>1, <3>2, SubtaskFacts, PlanAssumption DEF Changes, Subtasks
  <2>2. QED
    BY <1>0, <2>1 DEF Progress
<1>11. CASE SaveCompleted
  <2>1. PICK c : /\ mem' = c /\ disk' = c /\ stable' = c /\ Changes(mem, c, cursor, "completed")
                 /\ pc \in Running /\ cursor \in Subtasks /\ pc' = Following
    BY <1>0, <1>11, EndToolDoes, SubtaskFacts DEF SaveCompleted, SaveCompletedFails, Advance, Break
  <2>2. cursor' = cursor + 1 /\ UNCHANGED <<resumed, separate>>
    BY <1>11 DEF SaveCompleted, Advance, files
  <2>3. QED
    BY <1>0, <2>1, <2>2, SubtaskFacts, PlanAssumption DEF Following, Progress, Subtasks, Changes
<1>12. ASSUME BeginEffect \/ (\E end \in {"yes", "failed"} : EndEffect(end)) PROVE Progress'
  BY <1>0, <1>12 DEF BeginEffect, EndEffect, Progress, GoTo, files
<1>13. CASE Discard \/ Commit \/ Adopt \/ AdoptFails \/ SaveReturned
  <2>1. UNCHANGED <<mem, resumed, cursor, separate>>
    BY <1>13 DEF Discard, Commit, Adopt, AdoptFails, SaveReturned, files
  <2>2. CASE Discard \/ Adopt \/ SaveReturned
    <3>1. pc' \in {"over", "raised"}
      BY <2>2 DEF Discard, Adopt, SaveReturned, Saves, GoTo
    <3>2. QED
      BY <3>1 DEF Progress
  <2>3. CASE Commit
    BY <1>0, <2>1, <2>3 DEF Commit, GoTo, Progress
  <2>4. CASE AdoptFails
    BY <1>0, <2>1, <2>4 DEF AdoptFails, GoTo, Progress
  <2>5. QED
    BY <1>13, <2>2, <2>3, <2>4
<1>14. CASE RunEnds \/ PowerLoss
  BY <1>14 DEF RunEnds, PowerLoss, LetGo, GoTo, Progress, Fresh
<1>15. ASSUME pc \in {"idle", "planning"}, UNCHANGED <<mem, resumed, pc>> PROVE Progress'
  BY <1>0, <1>15 DEF Progress, Fresh
<1>16. ASSUME NEW act \in Actions, NEW s \in Tools, RecordDisposition(act, s) PROVE Progress'
  BY <1>15, <1>16 DEF RecordDisposition, Idle, run
<1>17. CASE ApplyDisposition \/ DispositionFails \/ OperatorDies
  BY <1>0, <1>15, <1>17 DEF Disposing, ApplyDisposition, DispositionFails, OperatorDies, run
<1>18. CASE UNCHANGED vars
  BY <1>0, <1>18 DEF Progress, vars, files, run, Fresh, Carried
<1>19. QED
  BY <1>1, <1>2, <1>3, <1>4, <1>5, <1>6, <1>7, <1>8, <1>9, <1>10, <1>11, <1>12, <1>13, <1>14,
     <1>16, <1>17, <1>18 DEF Next

----------------------------------------------------------------------------
(* At most one tool is marked *)

LEMMA NoMarks ==
    ASSUME NEW c, Marked(c.st) = {}
    PROVE  WellMarked(c)
BY DEF WellMarked, OneMark, MarkedInOrder

\* Writing the only state that may be marked.
LEMMA MarkChanges ==
    ASSUME NEW c, NEW d, NEW s \in Subtasks, NEW state, Changes(c, d, s, state),
           Marked(c.st) \subseteq {s}
    PROVE  /\ Marked(d.st) = IF s \in Tools /\ state \in Marks THEN {s} ELSE {}
           /\ (\A t \in Subtasks : t < s => c.st[t] = "completed") => WellMarked(d)
           /\ WellMarked(c) /\ Marked(c.st) = {s} => WellMarked(d)
           /\ state \notin Marks => WellMarked(d)
<1>1. Marked(d.st) = IF s \in Tools /\ state \in Marks THEN {s} ELSE {}
  <2>1. \A t \in Tools : t # s => t \notin Marked(c.st)
    OBVIOUS
  <2>2. \A t \in Tools : t # s => d.st[t] = c.st[t]
    BY SubtaskFacts DEF Changes
  <2>3. \A t \in Tools : t # s => d.st[t] \notin Marks
    BY <2>1, <2>2 DEF Marked
  <2>4. d.st[s] = state
    BY DEF Changes
  <2>5. \A t : t \in Marked(d.st) <=> t = s /\ s \in Tools /\ state \in Marks
    BY <2>3, <2>4 DEF Marked
  <2>6. QED
    BY <2>5
<1>2. Marked(d.st) = {} => WellMarked(d)
  BY NoMarks
<1>3. OneMark(d.st)
  BY <1>1 DEF OneMark
<1>4. ASSUME \A t \in Subtasks : t < s => c.st[t] = "completed" PROVE WellMarked(d)
  <2>1. \A t \in Subtasks : t < s => t # s
    BY SubtaskFacts
  <2>2. MarkedInOrder(d.st)
    BY <1>1, <1>4, <2>1 DEF Changes, MarkedInOrder
  <2>3. QED
    BY <1>3, <2>2 DEF WellMarked
<1>5. ASSUME WellMarked(c), Marked(c.st) = {s} PROVE WellMarked(d)
  <2>1. CASE d.scope = "workspace"
    BY <1>4, <1>5, <2>1 DEF WellMarked, MarkedInOrder, Changes
  <2>2. QED
    BY <1>3, <2>1 DEF WellMarked
<1>6. QED
  BY <1>1, <1>2, <1>4, <1>5

LEMMA CarriedMarks ==
    ASSUME NEW a \in [Subtasks -> States], OneMark(a), MarkedInOrder(a),
           \A s \in Models : a[s] \in ModelStates, \A s \in Tools : a[s] \in ToolStates
    PROVE  OneMark(Carried(a)) /\ MarkedInOrder(Carried(a))
BY CarriedIs DEF OneMark, MarkedInOrder, Marked

\* Where a run starts a subtask no tool is marked: a marked one that it adopted
\* would come later, and what is before it is completed.
LEMMA NoMarkWhereWorkStarts ==
    ASSUME Typed, MarksAreOrdered, Progress, pc = "loop",
           resumed[cursor] # "completed", cursor \in Tools => resumed[cursor] \notin Marks
    PROVE  Marked(mem.st) = {}
<1> SUFFICES ASSUME NEW t \in Tools, mem.st[t] \in Marks PROVE FALSE
  BY DEF Marked
<1>1. t \in Subtasks /\ cursor \in Subtasks /\ t \in Nat /\ cursor \in Nat
  BY TypedIs, SubtaskFacts DEF RunTyped
<1>2. ~(t < cursor)
  BY <1>1 DEF Progress, Looping, Marks
<1>3. mem.st[t] = Carried(resumed)[t]
  BY <1>1, <1>2 DEF Progress, Looping
<1>4. resumed[t] \in Marks
  BY <1>3, TypedIs, CarriedIs DEF RunTyped
<1>5. t # cursor
  BY <1>4
<1>6. QED
  BY <1>1, <1>2, <1>4, <1>5 DEF MarksAreOrdered, MarkedInOrder, Marked

LEMMA MarksLeft ==
    ASSUME MarksAreOrdered, NEW c, WellMarked(c), Leaves(c), WellMarked(mem')
    PROVE  \A d \in Kept' \cup {mem'} : WellMarked(d)
BY DEF MarksAreOrdered, Leaves

LEMMA MarksNext ==
    ASSUME IInv, [Next]_vars
    PROVE  MarksAreOrdered'
<1>0. Typed /\ Disposing /\ Progress /\ MarksAreOrdered
  BY DEF IInv
<1>m. WellMarked(mem) /\ WellMarked(disk) /\ WellMarked(stable)
  BY <1>0 DEF MarksAreOrdered, Kept
<1>a. ASSUME NEW c, WellMarked(c), Leaves(c), WellMarked(mem'), UNCHANGED resumed,
             pc' \notin {"model"} \cup Running
      PROVE  MarksAreOrdered'
  BY <1>0, <1>a, MarksLeft DEF MarksAreOrdered
<1>b. ASSUME NEW id, id \in 0..MaxRuns PROVE Marked(Fresh(id).st) = {}
  BY <1>b, FreshIs, SubtaskFacts DEF Marked, Marks
<1>n. OneMark(NothingResumed) /\ MarkedInOrder(NothingResumed)
  BY SubtaskFacts DEF NothingResumed, OneMark, MarkedInOrder, Marked, Marks
<1>r. mem.run \in 0..MaxRuns /\ 0 \in 0..MaxRuns
  BY <1>0, TypedIs, Limits DEF DocumentsTyped, Document, ControlState
<1>1. ASSUME NEW resume \in BOOLEAN, BeginRun(resume) PROVE MarksAreOrdered'
  <2>1. runs' \in 0..MaxRuns
    BY <1>0, <1>1, TypedIs, Limits DEF BeginRun, RunTyped
  <2>2. QED
    BY <1>m, <1>1, <1>a, <1>b, <2>1, NoMarks, NothingNewLeft DEF BeginRun, GoTo, Running
<1>2. CASE TypedStop
  BY <1>m, <1>2, <1>a, <1>b, <1>r, NoMarks, SavesLeaves DEF TypedStop, Saves, GoTo, Running
<1>3. ASSUME NEW same \in BOOLEAN, StartPlan(same) PROVE MarksAreOrdered'
  <2>1. /\ mem'.st = Carried(resumed') /\ Leaves(mem') /\ pc' \in {"sandbox", "raised"}
        /\ resumed' = NothingResumed \/ (resumed' = disk.st /\ disk.scope = "workspace")
    BY <1>0, <1>3, StartPlanDoes
  <2>2. OneMark(resumed') /\ MarkedInOrder(resumed')
    BY <1>m, <1>n, <2>1 DEF WellMarked
  <2>3. RunTyped'
    BY <1>0, <1>3, RunNext DEF Next
  <2>4. WellMarked(mem')
    BY <2>1, <2>2, <2>3, CarriedMarks DEF WellMarked, RunTyped
  <2>5. QED
    BY <1>0, <2>1, <2>2, <2>4, MarksLeft DEF MarksAreOrdered, Running
<1>4. CASE MakeSandbox
  <2>1. OneMark(mem.st) /\ MarkedInOrder(mem.st)
    BY <1>0, <1>4, TypedIs, CarriedMarks DEF MakeSandbox, Progress, MarksAreOrdered, RunTyped
  <2>2. mem'.st = mem.st /\ UNCHANGED <<disk, stable>>
    BY <1>0, <1>4, MakeSandboxDoes
  <2>3. WellMarked(mem')
    BY <2>1, <2>2 DEF WellMarked
  <2>4. QED
    BY <1>4, <1>a, <1>m, <2>2, <2>3, NothingNewLeft DEF MakeSandbox, GoTo, Running
<1>5. ASSUME NEW k \in Subtasks, SkipCompleted(k) \/ StopAtMarker(k) PROVE MarksAreOrdered'
  BY <1>a, <1>m, <1>5, NothingNewLeft
     DEF SkipCompleted, StopAtMarker, Advance, Break, Following, GoTo, Running, files
<1>6. ASSUME NEW k \in Subtasks, StartModel(k) PROVE MarksAreOrdered'
  <2>1. /\ pc = "loop" /\ k = cursor /\ k \in Models /\ resumed[k] # "completed"
        /\ UNCHANGED resumed
    BY <1>6 DEF StartModel, At
  <2>2. Marked(mem.st) = {}
    BY <1>0, <2>1, SubtaskFacts, NoMarkWhereWorkStarts
  <2>3. Changes(mem, mem', k, "in_progress") /\ Leaves(mem') /\ pc' \in {"model", "raised"}
    BY <1>0, <1>6, StartModelDoes
  <2>4. Marked(mem'.st) = {} /\ WellMarked(mem')
    BY <2>1, <2>2, <2>3, SubtaskFacts, MarkChanges, NoMarks
  <2>5. QED
    BY <1>0, <2>1, <2>3, <2>4, MarksLeft DEF MarksAreOrdered, Running
<1>7. ASSUME NEW passed \in BOOLEAN, EndModel(passed) PROVE MarksAreOrdered'
  <2>1. /\ pc = "model" /\ UNCHANGED resumed /\ cursor \in Models
        /\ Leaves(mem') /\ pc' \in {"raised", "loop", "finish"}
        /\ Changes(mem, mem', cursor, IF passed THEN "completed" ELSE "failed")
    BY <1>0, <1>7, EndModelDoes DEF EndModel, Following
  <2>2. Marked(mem.st) = {}
    BY <1>0, <2>1 DEF MarksAreOrdered
  <2>3. WellMarked(mem')
    BY <2>1, <2>2, SubtaskFacts, MarkChanges, NoMarks
  <2>4. QED
    BY <1>a, <2>1, <2>3 DEF Running
<1>8. ASSUME NEW k \in Tools, StartTool(k) \/ StartToolFails(k) PROVE MarksAreOrdered'
  <2>1. /\ pc = "loop" /\ k = cursor /\ k \in Subtasks /\ resumed[k] \in Runnable
        /\ UNCHANGED <<resumed, cursor>>
        /\ Changes(mem, Started(k), k, "tool_started") /\ Leaves(Started(k))
    BY <1>0, <1>8, StartToolDoes, SubtaskFacts DEF StartTool, StartToolFails, ToRun, Runnable
  <2>2. Marked(mem.st) = {}
    BY <1>0, <2>1, NoMarkWhereWorkStarts DEF Runnable, Marks
  <2>3. \A t \in Subtasks : t < k => mem.st[t] = "completed"
    BY <1>0, <2>1 DEF Progress, Looping
  <2>4. Marked(Started(k).st) = {k} /\ WellMarked(Started(k))
    BY <2>1, <2>2, <2>3, MarkChanges DEF Marks
  <2>5. CASE StartTool(k)
    BY <1>0, <2>1, <2>4, <2>5, StartToolDoes, MarksLeft DEF MarksAreOrdered, Running
  <2>6. CASE StartToolFails(k)
    <3>1. mem' = mem /\ pc' = "finish"
      BY <1>0, <2>6, StartToolDoes
    <3>2. QED
      BY <1>a, <1>m, <2>1, <2>4, <3>1 DEF Running
  <2>7. QED
    BY <1>8, <2>5, <2>6
<1>9. CASE RefuseTool \/ SaveCompleted \/ SaveCompletedFails \/ SaveFailed
  <2>1. PICK state, c :
            /\ state \in {"failed", "completed", "tool_failed"}
            /\ cursor \in Tools /\ pc \in Running /\ Leaves(c) /\ Changes(mem, c, cursor, state)
            /\ mem' = c \/ mem' = mem
            /\ pc' \in {"finish", "raised", "loop"}
    BY <1>0, <1>9, EndToolDoes DEF Following
  <2>2. Marked(mem.st) = {cursor} /\ cursor \in Subtasks
    BY <1>0, <2>1, SubtaskFacts DEF MarksAreOrdered
  <2>3. WellMarked(c)
    BY <1>m, <2>1, <2>2, MarkChanges
  <2>4. UNCHANGED resumed
    BY <1>9 DEF RefuseTool, SaveCompleted, SaveCompletedFails, SaveFailed
  <2>5. QED
    BY <1>a, <1>m, <2>1, <2>3, <2>4 DEF Running
<1>10. ASSUME BeginEffect \/ (\E end \in {"yes", "failed"} : EndEffect(end)) PROVE MarksAreOrdered'
  BY <1>0, <1>10 DEF BeginEffect, EndEffect, GoTo, MarksAreOrdered, Kept, Running, files
<1>11. CASE Discard \/ Adopt \/ AdoptFails \/ SaveReturned
  <2>1. UNCHANGED <<mem, resumed>> /\ pc' \in {"over", "raised", "reported"}
    BY <1>11 DEF Discard, Adopt, AdoptFails, SaveReturned, Saves, GoTo
  <2>2. PICK c : /\ Leaves(c)
                 /\ Adopt \/ AdoptFails => c.st = mem.st
                 /\ SaveReturned => c = mem
                 /\ Discard => /\ c.scope = mem.scope
                               /\ ~separate => c = mem
                               /\ separate => \A s \in Subtasks : c.st[s] =
                                     IF mem.st[s] = "completed" THEN "pending" ELSE mem.st[s]
    BY <1>0, <1>11, LastSavesDo
  <2>3. CASE Adopt \/ AdoptFails
    <3>1. \A s \in Subtasks : mem.st[s] = "completed"
      BY <1>0, <2>3, SubtaskFacts, PlanAssumption DEF Adopt, AdoptFails, Progress, Subtasks
    <3>2. Marked(c.st) = {}
      BY <2>2, <2>3, <3>1, SubtaskFacts DEF Marked, Marks
    <3>3. QED
      BY <1>a, <1>m, <2>1, <2>2, <3>2, NoMarks DEF Running
  <2>4. CASE SaveReturned \/ (Discard /\ ~separate)
    BY <1>a, <1>m, <2>1, <2>2, <2>4 DEF Running
  <2>5. CASE Discard /\ separate
    <3>1. mem.scope = "candidate"
      BY <1>0, <2>5 DEF Discard, Progress, Ending
    <3>2. Marked(c.st) = Marked(mem.st)
      BY <2>2, <2>5, SubtaskFacts DEF Marked, Marks
    <3>3. WellMarked(c)
      BY <1>m, <2>2, <2>5, <3>1, <3>2, SubtaskFacts DEF WellMarked, OneMark
    <3>4. QED
      BY <1>a, <1>m, <2>1, <2>2, <3>3 DEF Running
  <2>6. QED
    BY <1>11, <2>3, <2>4, <2>5
<1>12. CASE RunEnds \/ PowerLoss
  <2>1. /\ resumed' = NothingResumed /\ pc' = "idle" /\ mem' = Fresh(0) /\ Leaves(disk)
    BY <1>12, NothingNewLeft DEF RunEnds, PowerLoss, LetGo, GoTo, files
  <2>2. QED
    BY <1>0, <1>b, <1>m, <1>n, <1>r, <2>1, NoMarks, MarksLeft DEF MarksAreOrdered, Running
<1>13. ASSUME NEW act \in Actions, NEW s \in Tools, RecordDisposition(act, s) PROVE MarksAreOrdered'
  BY <1>13, <1>a, <1>m, NothingNewLeft DEF RecordDisposition, Idle, run, Running
<1>14. CASE ApplyDisposition \/ DispositionFails
  <2>1. /\ op[2] \in Tools /\ pc = "idle" /\ op[2] \in Subtasks /\ op # <<>>
        /\ UNCHANGED <<mem, resumed, pc>>
    BY <1>0, <1>14, DispositionDoes, SubtaskFacts DEF ApplyDisposition, DispositionFails, run
  <2>2. PICK c, state : Leaves(c) /\ Changes(disk, c, op[2], state)
    BY <1>0, <1>14, DispositionDoes
  <2>3. Marked(disk.st) = {op[2]}
    <3>1. Eligible(op[1], op[2])
      BY <1>0, <2>1 DEF Disposing
    <3>2. op[2] \in Marked(disk.st)
      BY <2>1, <3>1 DEF Eligible, Marked, Marks
    <3>3. OneMark(disk.st)
      BY <1>m DEF WellMarked
    <3>4. QED
      BY <3>2, <3>3 DEF OneMark
  <2>4. WellMarked(c)
    <3>1. \A s \in Subtasks : /\ Changes(disk, c, s, state) /\ Marked(disk.st) \subseteq {s}
                             /\ WellMarked(disk) /\ Marked(disk.st) = {s} => WellMarked(c)
      BY MarkChanges
    <3>2. QED
      BY <1>m, <2>1, <2>2, <2>3, <3>1, Zenon
  <2>5. QED
    BY <1>a, <1>m, <2>1, <2>2, <2>4 DEF Running
<1>15. CASE Commit
  BY <1>15, <1>a, <1>m, NothingNewLeft DEF Commit, GoTo, Running, files
<1>16. CASE OperatorDies \/ UNCHANGED vars
  BY <1>0, <1>16 DEF OperatorDies, vars, files, run, MarksAreOrdered, Kept
<1>17. QED
  BY <1>1, <1>2, <1>3, <1>4, <1>5, <1>6, <1>7, <1>8, <1>9, <1>10, <1>11, <1>12, <1>13, <1>14,
     <1>15, <1>16 DEF Next

----------------------------------------------------------------------------
(* What is recorded as completed is there *)

\* A later run may build on the document.
Reusable(c) ==
    c.scope = "workspace" => \A s \in Subtasks : c.st[s] = "completed" => Present(s)

\* The run that holds the document may.
Usable(c) == \A s \in Subtasks : c.st[s] = "completed" => Present(s) \/ InCandidate(s)

LEMMA ReusableMeans == ReusableWorkIsThere <=> \A c \in Kept : Reusable(c)
BY DEF ReusableWorkIsThere, Kept, Reusable, Present

LEMMA WorkLeft ==
    ASSUME WorkIsThere, NEW c, Leaves(c), Reusable(c), UNCHANGED <<separate, work, did>>,
           resumed' = resumed \/ (\A s \in Subtasks : resumed'[s] = "completed" => Present(s)),
           pc' = "idle" \/ Usable(mem'),
           pc' \in {"committed", "reported"} => \A s \in Subtasks : Present(s)
    PROVE  WorkIsThere'
<1>1. \A s : (Present(s)' <=> Present(s)) /\ (InCandidate(s)' <=> InCandidate(s))
  BY DEF Present, InCandidate
<1>2. \A d \in Kept' : Reusable(d)
  BY ReusableMeans DEF WorkIsThere, Leaves
<1>3. ReusableWorkIsThere'
  BY <1>1, <1>2 DEF ReusableWorkIsThere, Reusable, Kept, Present
<1>4. QED
  BY <1>1, <1>3 DEF WorkIsThere, Usable

LEMMA WorkNext ==
    ASSUME IInv, [Next]_vars
    PROVE  WorkIsThere'
<1>0. Typed /\ Disposing /\ Progress /\ WorkIsThere
  BY DEF IInv
<1>m. /\ Reusable(disk) /\ Reusable(stable)
      /\ pc # "idle" => Usable(mem)
      /\ mem.scope = "workspace" /\ ~separate /\ pc # "idle" => Reusable(mem)
  BY <1>0, ReusableMeans DEF WorkIsThere, Kept, Usable, Reusable, InCandidate
<1>b. ASSUME NEW id, id \in 0..MaxRuns PROVE Usable(Fresh(id)) /\ Reusable(Fresh(id))
  BY <1>b, FreshIs DEF Usable, Reusable
<1>r. mem.run \in 0..MaxRuns /\ 0 \in 0..MaxRuns
  BY <1>0, TypedIs, Limits DEF DocumentsTyped, Document, ControlState
<1>1. ASSUME NEW resume \in BOOLEAN, BeginRun(resume) PROVE WorkIsThere'
  <2>1. runs' \in 0..MaxRuns
    BY <1>0, <1>1, TypedIs, Limits DEF BeginRun, RunTyped
  <2>2. QED
    BY <1>0, <1>m, <1>1, <1>b, <2>1, WorkLeft, NothingNewLeft DEF BeginRun, GoTo
<1>2. CASE TypedStop
  BY <1>0, <1>m, <1>2, <1>b, <1>r, WorkLeft, SavesLeaves DEF TypedStop, Saves, GoTo
<1>3. ASSUME NEW same \in BOOLEAN, StartPlan(same) PROVE WorkIsThere'
  <2>1. /\ mem'.st = Carried(resumed') /\ Leaves(mem') /\ pc' \in {"sandbox", "raised"}
        /\ resumed' = NothingResumed \/ (resumed' = disk.st /\ disk.scope = "workspace")
        /\ UNCHANGED <<separate, work, did>>
    BY <1>0, <1>3, StartPlanDoes DEF StartPlan
  <2>2. \A s \in Subtasks : resumed'[s] = "completed" => Present(s)
    BY <1>m, <2>1 DEF Reusable, NothingResumed
  <2>3. RunTyped'
    BY <1>0, <1>3, RunNext DEF Next
  <2>4. \A s \in Subtasks : mem'.st[s] = "completed" => Present(s)
    BY <2>1, <2>2, <2>3, CarriedIs DEF RunTyped
  <2>5. QED
    BY <1>0, <2>1, <2>2, <2>4, WorkLeft DEF Reusable, Usable
<1>4. CASE MakeSandbox
  <2>1. \A s \in Subtasks : Present(s)' <=> Present(s)
    BY <1>4, SubtaskFacts DEF MakeSandbox, Present
  <2>2. \A s \in Subtasks : mem.st[s] = "completed" => Present(s)
    BY <1>0, <1>4, TypedIs, CarriedIs DEF MakeSandbox, Progress, WorkIsThere, RunTyped
  <2>3. /\ mem'.st = mem.st /\ pc' = "loop" /\ UNCHANGED <<disk, stable, resumed>>
    BY <1>0, <1>4, MakeSandboxDoes DEF MakeSandbox, GoTo
  <2>4. ReusableWorkIsThere'
    BY <1>m, <2>1, <2>3 DEF Reusable, ReusableWorkIsThere, Present
  <2>5. QED
    BY <1>0, <2>1, <2>2, <2>3, <2>4 DEF WorkIsThere
<1>5. ASSUME NEW k \in Subtasks, SkipCompleted(k) \/ StopAtMarker(k) PROVE WorkIsThere'
  BY <1>0, <1>m, <1>5, WorkLeft, NothingNewLeft
     DEF SkipCompleted, StopAtMarker, At, Advance, Break, Following, GoTo, files
<1>6. ASSUME NEW k \in Subtasks, StartModel(k) PROVE WorkIsThere'
  <2>1. /\ Changes(mem, mem', k, "in_progress") /\ Leaves(mem') /\ pc' \in {"model", "raised"}
        /\ pc = "loop"
        /\ UNCHANGED <<separate, work, did, resumed>>
    BY <1>0, <1>6, StartModelDoes DEF StartModel, At
  <2>2. Usable(mem') /\ Reusable(mem')
    BY <1>0, <1>m, <2>1 DEF Changes, Usable, Reusable, Progress, Looping, InCandidate
  <2>3. QED
    BY <1>0, <2>1, <2>2, WorkLeft
<1>7. ASSUME NEW passed \in BOOLEAN, EndModel(passed) PROVE WorkIsThere'
  <2>1. /\ Changes(mem, mem', cursor, IF passed THEN "completed" ELSE "failed")
        /\ Leaves(mem') /\ pc' \in {"loop", "finish", "raised"} /\ pc = "model"
        /\ cursor \in Models /\ cursor \in Subtasks /\ UNCHANGED <<did, separate, resumed>>
        /\ disk = mem /\ stable = mem
        /\ mem.scope = IF separate THEN "candidate" ELSE "workspace"
    BY <1>0, <1>7, EndModelDoes, SubtaskFacts DEF EndModel, Following, Progress, Looping
  <2>2. CASE passed
    <3>1. /\ work'[cursor] = IF separate THEN "sandbox" ELSE "workspace"
          /\ \A s \in Models : s # cursor => work'[s] = work[s]
      BY <1>0, <1>7, <2>1, <2>2, TypedIs DEF EndModel, WorldTyped
    <3>2. /\ \A s \in Subtasks : s # cursor =>
                  /\ Present(s)' <=> Present(s)
                  /\ InCandidate(s)' <=> InCandidate(s)
          /\ \A s \in Subtasks : s = cursor => Present(s)' \/ InCandidate(s)'
      BY <2>1, <3>1, SubtaskFacts DEF Present, InCandidate
    <3>3. \A s \in Subtasks : mem'.st[s] = "completed" => Present(s)' \/ InCandidate(s)'
      BY <1>m, <2>1, <2>2, <3>2 DEF Usable, Changes
    <3>4. ~separate => \A s \in Subtasks : ~InCandidate(s)'
      BY <2>1 DEF InCandidate
    <3>5. mem.st[cursor] # "completed" /\ mem'.scope = mem.scope
      BY <1>0, <2>1 DEF Progress, Changes
    <3>6. mem.scope = "workspace" => \A s \in Subtasks : mem.st[s] = "completed" => Present(s)'
      BY <1>m, <2>1, <3>2, <3>5 DEF Reusable
    <3>7. disk' \in {mem, mem'} /\ stable' \in {mem, mem'}
      BY <2>1 DEF Leaves, Kept
    <3>8. ReusableWorkIsThere'
      BY <2>1, <3>3, <3>4, <3>5, <3>6, <3>7 DEF ReusableWorkIsThere, Present
    <3>9. QED
      BY <1>0, <2>1, <3>2, <3>3, <3>8 DEF WorkIsThere, Usable, Progress
  <2>3. CASE ~passed
    <3>1. Usable(mem') /\ Reusable(mem') /\ UNCHANGED work
      BY <1>7, <1>m, <2>1, <2>3 DEF EndModel, Changes, Usable, Reusable, InCandidate
    <3>2. QED
      BY <1>0, <2>1, <3>1, WorkLeft
  <2>4. QED
    BY <2>2, <2>3
<1>8. ASSUME NEW k \in Tools, StartTool(k) \/ StartToolFails(k) PROVE WorkIsThere'
  <2>1. /\ Changes(mem, Started(k), k, "tool_started") /\ Leaves(Started(k))
        /\ pc = "loop" /\ pc' \in {"effect", "finish"}
        /\ mem' = mem \/ mem' = Started(k)
        /\ UNCHANGED <<separate, work, did, resumed>>
    BY <1>0, <1>8, StartToolDoes DEF StartTool, StartToolFails
  <2>2. Usable(Started(k)) /\ Reusable(Started(k))
    BY <1>0, <1>m, <2>1 DEF Changes, Usable, Reusable, Progress, Looping, InCandidate
  <2>3. QED
    BY <1>0, <1>m, <2>1, <2>2, WorkLeft
<1>9. CASE RefuseTool \/ SaveCompleted \/ SaveCompletedFails \/ SaveFailed
  <2>1. PICK state, c :
            /\ state \in {"failed", "completed", "tool_failed"}
            /\ cursor \in Tools /\ pc \in Running /\ Leaves(c) /\ Changes(mem, c, cursor, state)
            /\ mem' = c \/ mem' = mem
            /\ pc' \in {"finish", "raised", "loop"}
            /\ state = "completed" => did[cursor].end = "yes"
    BY <1>0, <1>9, EndToolDoes DEF Following
  <2>2. UNCHANGED <<separate, work, did, resumed>>
    BY <1>9 DEF RefuseTool, SaveCompleted, SaveCompletedFails, SaveFailed
  <2>3. \A s \in Subtasks : c.st[s] = "completed" =>
            mem.st[s] = "completed" \/ (s \in Tools /\ did[s].end = "yes")
    BY <2>1 DEF Changes
  <2>4. Usable(c)
    BY <1>m, <2>1, <2>3 DEF Usable, Present, Running
  <2>5. Reusable(c)
    <3>1. c.scope = IF separate THEN "candidate" ELSE "workspace"
      BY <1>0, <2>1 DEF Changes, Progress, Looping
    <3>2. QED
      BY <2>4, <3>1 DEF Usable, Reusable, InCandidate
  <2>6. QED
    BY <1>0, <1>m, <2>1, <2>2, <2>4, <2>5, WorkLeft DEF Running
<1>10. ASSUME BeginEffect \/ (\E end \in {"yes", "failed"} : EndEffect(end)) PROVE WorkIsThere'
  <2>1. /\ pc \in Running /\ cursor \in Tools /\ pc' \in Running
        /\ UNCHANGED <<disk, stable, mem, resumed, work, separate>>
        /\ mem.st[cursor] = "tool_started" /\ disk = mem /\ stable = mem
        /\ resumed[cursor] # "completed"
        /\ \A s \in Tools : s # cursor => did'[s] = did[s]
    BY <1>0, <1>10, TypedIs DEF BeginEffect, EndEffect, Running, GoTo, files, Progress, RunTyped, WorldTyped
  <2>2. \A s \in Subtasks : s # cursor =>
            (Present(s)' <=> Present(s)) /\ (InCandidate(s)' <=> InCandidate(s))
    BY <2>1 DEF Present, InCandidate
  <2>3. ReusableWorkIsThere'
    BY <1>m, <2>1, <2>2 DEF Reusable, ReusableWorkIsThere, Present
  <2>4. QED
    BY <1>0, <2>1, <2>2, <2>3 DEF WorkIsThere, Running
<1>11. CASE Discard \/ Adopt \/ AdoptFails \/ SaveReturned
  <2>1. /\ UNCHANGED <<separate, work, did, mem, resumed>> /\ pc' \in {"over", "raised", "reported"}
        /\ pc' = "reported" => pc = "committed"
        /\ pc # "idle"
    BY <1>11 DEF Discard, Adopt, AdoptFails, SaveReturned, Saves, GoTo
  <2>2. PICK c : /\ Leaves(c)
                 /\ Adopt \/ AdoptFails => c.st = mem.st
                 /\ SaveReturned => c = mem
                 /\ Discard => /\ c.scope = mem.scope
                               /\ ~separate => c = mem
                               /\ separate => \A s \in Subtasks : c.st[s] =
                                     IF mem.st[s] = "completed" THEN "pending" ELSE mem.st[s]
    BY <1>0, <1>11, LastSavesDo
  <2>3. Reusable(c)
    <3>1. CASE Adopt \/ AdoptFails
      BY <1>0, <2>2, <3>1 DEF Adopt, AdoptFails, WorkIsThere, Reusable
    <3>2. CASE SaveReturned
      BY <1>0, <2>2, <3>2 DEF SaveReturned, WorkIsThere, Reusable
    <3>3. CASE Discard /\ separate
      BY <2>2, <3>3 DEF Reusable
    <3>4. CASE Discard /\ ~separate
      BY <1>m, <2>1, <2>2, <3>4 DEF Reusable
    <3>5. QED
      BY <1>11, <3>1, <3>2, <3>3, <3>4
  <2>4. pc' = "reported" => \A s \in Subtasks : Present(s)
    BY <1>0, <2>1 DEF WorkIsThere
  <2>5. QED
    BY <1>0, <1>m, <2>1, <2>2, <2>3, <2>4, WorkLeft
<1>12. CASE Commit
  <2>1. /\ UNCHANGED <<separate, did, mem, resumed, disk, stable>> /\ pc' = "committed"
        /\ pc = "finish" /\ cursor = N + 1
        /\ \A s \in Models : work'[s] = IF work[s] = "sandbox" THEN "workspace" ELSE work[s]
    BY <1>12 DEF Commit, GoTo, files
  <2>2. \A s \in Subtasks : Present(s) => Present(s)'
    BY <2>1, SubtaskFacts DEF Present
  <2>3. \A s \in Subtasks : Present(s)'
    BY <1>0, <1>m, <2>1, SubtaskFacts DEF Progress, Usable, Present, InCandidate
  <2>4. ReusableWorkIsThere'
    BY <1>m, <2>1, <2>2 DEF Reusable, ReusableWorkIsThere, Present
  <2>5. QED
    BY <2>3, <2>4 DEF WorkIsThere
<1>13. CASE RunEnds \/ PowerLoss
  <2>1. /\ resumed' = NothingResumed /\ pc' = "idle" /\ Leaves(disk)
        /\ UNCHANGED <<separate, work, did>>
    BY <1>13, NothingNewLeft DEF RunEnds, PowerLoss, LetGo, GoTo, files
  <2>2. QED
    BY <1>0, <1>m, <2>1, WorkLeft DEF NothingResumed
<1>14. ASSUME NEW act \in Actions, NEW s \in Tools, RecordDisposition(act, s) PROVE WorkIsThere'
  BY <1>0, <1>14, <1>m, WorkLeft, NothingNewLeft DEF RecordDisposition, Idle, run
<1>15. CASE ApplyDisposition \/ DispositionFails
  <2>1. /\ op[2] \in Tools /\ pc' = "idle" /\ pc = "idle" /\ UNCHANGED <<resumed, work, separate>>
    BY <1>0, <1>15, DispositionDoes DEF ApplyDisposition, DispositionFails, run
  <2>2. PICK c : /\ Leaves(c)
                 /\ Changes(disk, c, op[2], IF op[1] = "abandon" THEN "tool_abandoned" ELSE "pending")
                 /\ ApplyDisposition => disk' = c /\ stable' = c
    BY <1>0, <1>15, DispositionDoes
  <2>3. Reusable(c)
    BY <1>m, <2>2 DEF Reusable, Changes
  <2>4. CASE DispositionFails
    BY <1>0, <2>1, <2>2, <2>3, <2>4, WorkLeft DEF DispositionFails
  <2>5. CASE ApplyDisposition
    <3>1. \A s \in Subtasks : s # op[2] => (Present(s) => Present(s)')
      BY <1>0, <2>1, <2>5, TypedIs DEF ApplyDisposition, WorldTyped, Present
    <3>2. disk' = c /\ stable' = c /\ c.st[op[2]] # "completed"
      BY <2>2, <2>5 DEF Changes
    <3>3. ReusableWorkIsThere'
      BY <2>3, <3>1, <3>2 DEF Reusable, ReusableWorkIsThere, Present
    <3>4. \A s \in Subtasks : resumed'[s] # "completed"
      BY <1>0, <2>1 DEF Progress, NothingResumed
    <3>5. QED
      BY <2>1, <3>3, <3>4 DEF WorkIsThere
  <2>6. QED
    BY <1>15, <2>4, <2>5
<1>16. CASE OperatorDies \/ UNCHANGED vars
  <2>1. UNCHANGED <<disk, stable, mem, resumed, pc, separate, work, did>>
    BY <1>16 DEF OperatorDies, vars, files, run
  <2>2. QED
    BY <1>0, <1>m, <2>1, WorkLeft, NothingNewLeft DEF WorkIsThere
<1>17. QED
  BY <1>1, <1>2, <1>3, <1>4, <1>5, <1>6, <1>7, <1>8, <1>9, <1>10, <1>11, <1>12, <1>13, <1>14,
     <1>15, <1>16 DEF Next

----------------------------------------------------------------------------
(* An effect in doubt is shown *)

LEMMA NoDoubt ==
    ASSUME \A s \in Tools : ~InDoubt(s), UNCHANGED <<did, ledger>>, pc' \notin {"running", "returned"}
    PROVE  DoubtIsShown'
BY DEF InDoubt, DoubtIsShown

LEMMA DoubtLeft ==
    ASSUME DoubtIsShown, NEW c, Leaves(c), UNCHANGED did, ledger \subseteq ledger',
           \A s \in Tools : InDoubt(s) => Shows(c, s),
           \/ pc' = "idle"
           \/ /\ pc' \in Doubtful \ Running
              /\ \A s \in Tools : InDoubt(s) => Shows(mem', s)
    PROVE  DoubtIsShown'
<1>1. \A s \in Tools : InDoubt(s)' => InDoubt(s)
  BY DEF InDoubt
<1>2. ASSUME NEW s \in Tools, InDoubt(s)' PROVE \A d \in Kept' : Shows(d, s)'
  BY <1>1, <1>2 DEF DoubtIsShown, Leaves, Shows
<1>3. ASSUME NEW s \in Tools, InDoubt(s)', pc' # "idle" PROVE Shows(mem, s)' /\ pc' \in Doubtful \ Running
  BY <1>1, <1>3 DEF Shows
<1>4. pc' \notin {"running", "returned"}
  BY DEF Running
<1>5. QED
  BY <1>2, <1>3, <1>4 DEF DoubtIsShown, Shows, Running

LEMMA DoubtNext ==
    ASSUME IInv, [Next]_vars
    PROVE  DoubtIsShown'
<1>0. Typed /\ Disposing /\ Chronology /\ Progress /\ WorkIsThere /\ DoubtIsShown
  BY DEF IInv
<1>m. \A s \in Tools : InDoubt(s) => Shows(disk, s) /\ (pc # "idle" => Shows(mem, s))
  BY <1>0 DEF DoubtIsShown, Kept
<1>n. pc \notin Doubtful \cup {"idle"} => \A s \in Tools : ~InDoubt(s)
  BY <1>0 DEF DoubtIsShown
<1> USE DEF Doubtful, Running
<1>1. ASSUME NEW resume \in BOOLEAN, BeginRun(resume) PROVE DoubtIsShown'
  <2>1. \A s \in Tools : ~InDoubt(s)
    BY <1>m, <1>1 DEF BeginRun, Undisposed, Shows
  <2>2. QED
    BY <1>1, <2>1, NoDoubt DEF BeginRun, GoTo
<1>2. CASE TypedStop \/ MakeSandbox \/ (\E same \in BOOLEAN : StartPlan(same))
  BY <1>0, <1>n, <1>2, NoDoubt, StartPlanDoes DEF TypedStop, MakeSandbox, StartPlan, Saves, GoTo, files
<1>3. ASSUME NEW k \in Subtasks, SkipCompleted(k) \/ StopAtMarker(k) \/ StartModel(k) PROVE DoubtIsShown'
  BY <1>n, <1>3, NoDoubt
     DEF SkipCompleted, StopAtMarker, StartModel, At, Advance, Break, Following, Saves, GoTo, files
<1>4. ASSUME NEW passed \in BOOLEAN, EndModel(passed) PROVE DoubtIsShown'
  <2>1. pc = "model" /\ pc' \in {"loop", "finish", "raised"} /\ UNCHANGED <<did, ledger>>
    BY <1>4 DEF EndModel, Following, Saves, GoTo
  <2>2. QED
    BY <1>n, <2>1, NoDoubt
<1>5. ASSUME NEW k \in Tools, StartTool(k) \/ StartToolFails(k) PROVE DoubtIsShown'
  BY <1>n, <1>5, NoDoubt DEF StartTool, StartToolFails, At, Break, GoTo
<1>6. CASE RefuseTool
  BY <1>n, <1>6, NoDoubt DEF RefuseTool, Saves, GoTo
<1>7. CASE SaveCompleted \/ SaveCompletedFails
  <2>1. /\ pc = "returned" /\ did[cursor].end = "yes" /\ pc' \in {"loop", "finish"}
        /\ UNCHANGED <<did, ledger>>
    BY <1>7 DEF SaveCompleted, SaveCompletedFails, Ended, Advance, Break, Following, GoTo
  <2>2. \A s \in Tools : ~InDoubt(s)
    BY <1>0, <2>1 DEF DoubtIsShown, InDoubt
  <2>3. QED
    BY <2>1, <2>2, NoDoubt
<1>8. CASE SaveFailed
  <2>1. PICK c : /\ cursor \in Tools /\ Leaves(c) /\ Changes(mem, c, cursor, "tool_failed")
                 /\ mem' = c /\ pc' = "finish" /\ pc = "returned" /\ UNCHANGED <<did, ledger>>
    BY <1>0, <1>8, EndToolDoes DEF SaveFailed, SaveCompletedFails, Ended
  <2>2. \A s \in Tools : InDoubt(s) => s = cursor /\ Shows(c, s)
    BY <1>0, <1>m, <2>1, SubtaskFacts DEF DoubtIsShown, Shows, Changes
  <2>3. QED
    BY <1>0, <2>1, <2>2, DoubtLeft
<1>9. CASE BeginEffect
  <2>1. /\ pc = "effect" /\ pc' = "running" /\ cursor \in Tools
        /\ UNCHANGED <<disk, stable, mem, ledger, cursor>>
        /\ disk = mem /\ stable = mem /\ mem.st[cursor] = "tool_started"
    BY <1>0, <1>9, TypedIs DEF BeginEffect, GoTo, files, RunTyped, Progress
  <2>2. /\ did'[cursor].run = mem.run
        /\ \A s \in Tools : s # cursor => did'[s] = did[s]
    BY <1>0, <1>9, <2>1, TypedIs DEF BeginEffect, WorldTyped
  <2>3. \A s \in Tools : InDoubt(s)' => s = cursor
    BY <1>n, <2>1, <2>2 DEF InDoubt
  <2>4. QED
    BY <2>1, <2>2, <2>3 DEF DoubtIsShown, Shows, Kept
<1>10. ASSUME NEW end \in {"yes", "failed"}, EndEffect(end) PROVE DoubtIsShown'
  <2>1. /\ pc = "running" /\ pc' = "returned" /\ cursor \in Tools
        /\ UNCHANGED <<disk, stable, mem, ledger, cursor>>
        /\ disk = mem /\ stable = mem /\ mem.st[cursor] = "tool_started"
        /\ did[cursor].run = mem.run
    BY <1>0, <1>10, TypedIs DEF EndEffect, GoTo, files, RunTyped, Progress, DoubtIsShown
  <2>2. /\ did'[cursor].run = mem.run
        /\ \A s \in Tools : s # cursor => did'[s] = did[s]
    BY <1>0, <1>10, <2>1, TypedIs DEF EndEffect, WorldTyped
  <2>3. \A s \in Tools : InDoubt(s)' => s = cursor
    BY <1>0, <2>1, <2>2 DEF InDoubt, DoubtIsShown
  <2>4. QED
    BY <2>1, <2>2, <2>3 DEF DoubtIsShown, Shows, Kept
<1>11. CASE Discard
  <2>1. /\ pc = "finish" /\ pc' \in {"over", "raised"} /\ UNCHANGED <<mem, did, ledger>>
    BY <1>11 DEF Discard, Saves, GoTo
  <2>2. PICK c : /\ Leaves(c) /\ c.run = mem.run
                 /\ ~separate => c = mem
                 /\ separate => \A s \in Subtasks : c.st[s] =
                       IF mem.st[s] = "completed" THEN "pending" ELSE mem.st[s]
    BY <1>0, <1>11, LastSavesDo
  <2>3. \A s \in Tools : InDoubt(s) => Shows(c, s)
    BY <1>m, <2>1, <2>2, SubtaskFacts DEF Shows
  <2>4. QED
    BY <1>0, <1>m, <2>1, <2>2, <2>3, DoubtLeft
<1>12. CASE Commit
  <2>1. \A s \in Tools : did[s].end = "yes"
    BY <1>12, SubtaskFacts, WorkNext DEF Next, Commit, GoTo, WorkIsThere, Present
  <2>2. QED
    BY <1>12, <2>1, NoDoubt DEF Commit, GoTo, InDoubt, files
<1>13. CASE Adopt \/ AdoptFails \/ SaveReturned
  BY <1>n, <1>13, NoDoubt DEF Adopt, AdoptFails, SaveReturned, Saves, GoTo
<1>14. CASE RunEnds \/ PowerLoss
  BY <1>0, <1>m, <1>14, NothingNewLeft, DoubtLeft DEF RunEnds, PowerLoss, LetGo, GoTo, files
<1>15. ASSUME NEW act \in Actions, NEW s \in Tools, RecordDisposition(act, s) PROVE DoubtIsShown'
  BY <1>0, <1>m, <1>15, NothingNewLeft, DoubtLeft DEF RecordDisposition, Idle, run
<1>16. CASE ApplyDisposition \/ DispositionFails
  <2>1. /\ op[2] \in Tools /\ pc = "idle" /\ pc' = "idle" /\ op # <<>> /\ UNCHANGED ledger
    BY <1>0, <1>16, DispositionDoes DEF ApplyDisposition, DispositionFails, run
  <2>2. PICK c : /\ Leaves(c)
                 /\ Changes(disk, c, op[2], IF op[1] = "abandon" THEN "tool_abandoned" ELSE "pending")
    BY <1>0, <1>16, DispositionDoes
  <2>3. ~InDoubt(op[2])
    BY <1>0, <1>m, <2>1 DEF Disposing, InDoubt, Shows
  <2>4. \A s \in Tools : InDoubt(s) => Shows(c, s)
    BY <1>m, <2>2, <2>3, SubtaskFacts DEF Shows, Changes
  <2>5. CASE DispositionFails
    BY <1>0, <2>1, <2>2, <2>4, <2>5, DoubtLeft DEF DispositionFails
  <2>6. CASE ApplyDisposition
    <3>1. /\ \A s \in Tools : s # op[2] => did'[s] = did[s]
          /\ did'[op[2]].end \in {"abandoned", "rearmed"}
      BY <1>0, <2>1, <2>6, TypedIs DEF ApplyDisposition, WorldTyped
    <3>2. \A s \in Tools : InDoubt(s)' => InDoubt(s) /\ did'[s] = did[s]
      BY <2>1, <3>1 DEF InDoubt
    <3>3. ASSUME NEW s \in Tools, InDoubt(s)' PROVE \A d \in Kept' : Shows(d, s)'
      BY <1>0, <2>2, <2>4, <3>2, <3>3 DEF DoubtIsShown, Leaves, Shows
    <3>4. QED
      BY <2>1, <3>3 DEF DoubtIsShown
  <2>7. QED
    BY <1>16, <2>5, <2>6
<1>17. CASE OperatorDies \/ UNCHANGED vars
  BY <1>0, <1>17 DEF OperatorDies, vars, files, run, DoubtIsShown, InDoubt, Shows, Kept
<1>18. QED
  BY <1>1, <1>2, <1>3, <1>4, <1>5, <1>6, <1>7, <1>8, <1>9, <1>10, <1>11, <1>12, <1>13, <1>14,
     <1>15, <1>16, <1>17 DEF Next

----------------------------------------------------------------------------
(* Attempts are counted by the ledger *)

LEMMA RetriesFinite ==
    ASSUME NEW l, IsFiniteSet(l), NEW c, NEW s
    PROVE  IsFiniteSet(Retries(l, c, s)) /\ Cardinality(Retries(l, c, s)) \in Nat
<1>1. Retries(l, c, s) \subseteq l
  BY DEF Retries
<1>2. QED
  BY <1>1, FS_Subset, FS_CardinalityType

\* Later runs and longer ledgers allow no less.
LEMMA CountedGrows ==
    ASSUME NEW l \in SUBSET Ledger, NEW m, IsFiniteSet(m), l \subseteq m,
           NEW c, Document(c), NEW d, Document(d), NEW s \in Tools,
           c.run <= d.run, d.attempt[s] = c.attempt[s],
           c.attempt[s] <= 1 + Cardinality(Retries(l, c, s))
    PROVE  d.attempt[s] <= 1 + Cardinality(Retries(m, d, s))
<1>1. /\ c.run \in Nat /\ d.run \in Nat /\ c.attempt[s] \in Nat
      /\ \A e \in l : e.run \in Nat /\ e.attempt \in Nat
  BY PlanAssumption DEF Document, ControlState, Ledger
<1>2. Retries(l, c, s) \subseteq Retries(m, d, s)
  BY <1>1 DEF Retries
<1>3. IsFiniteSet(l)
  BY FS_Subset
<1>4. /\ IsFiniteSet(Retries(m, d, s)) /\ Cardinality(Retries(m, d, s)) \in Nat
      /\ Cardinality(Retries(l, c, s)) \in Nat
  BY <1>3, RetriesFinite
<1>5. Cardinality(Retries(l, c, s)) <= Cardinality(Retries(m, d, s))
  BY <1>2, <1>4, FS_Subset
<1>6. QED
  BY <1>1, <1>4, <1>5

LEMMA FirstAttemptsCounted ==
    ASSUME NEW l, IsFiniteSet(l), NEW c, NEW s, c.attempt[s] \in {0, 1}
    PROVE  c.attempt[s] <= 1 + Cardinality(Retries(l, c, s))
BY RetriesFinite

\* The decision to retry an attempt allows the next one.
LEMMA RetryCounted ==
    ASSUME NEW l \in SUBSET Ledger, IsFiniteSet(l), NEW c, Document(c), NEW d, NEW s \in Tools,
           d.run = c.run, d.attempt[s] = c.attempt[s] + 1,
           NEW e \in l, e.run = c.run, e.subtask = s, e.action = "retry", e.attempt = c.attempt[s],
           c.attempt[s] <= 1 + Cardinality(Retries(l, c, s))
    PROVE  d.attempt[s] <= 1 + Cardinality(Retries(l, d, s))
<1>1. /\ c.run \in Nat /\ c.attempt[s] \in Nat
      /\ \A x \in l : x.run \in Nat /\ x.attempt \in Nat
  BY PlanAssumption DEF Document, ControlState, Ledger
<1>2. /\ Retries(l, c, s) \cup {e} \subseteq Retries(l, d, s)
      /\ e \notin Retries(l, c, s)
  BY <1>1 DEF Retries
<1>3. /\ IsFiniteSet(Retries(l, d, s)) /\ Cardinality(Retries(l, d, s)) \in Nat
      /\ IsFiniteSet(Retries(l, c, s)) /\ Cardinality(Retries(l, c, s)) \in Nat
  BY RetriesFinite
<1>4. Cardinality(Retries(l, c, s) \cup {e}) = Cardinality(Retries(l, c, s)) + 1
  BY <1>2, <1>3, FS_AddElement
<1>5. Cardinality(Retries(l, c, s) \cup {e}) <= Cardinality(Retries(l, d, s))
  BY <1>2, <1>3, FS_Subset
<1>6. QED
  BY <1>1, <1>3, <1>4, <1>5

LEMMA SameAttemptsCounted ==
    ASSUME NEW l \in SUBSET Ledger, NEW m, IsFiniteSet(m), l \subseteq m,
           NEW c, Document(c), NEW d, Document(d),
           c.run <= d.run, \A s \in Tools : d.attempt[s] = c.attempt[s], Counted(l, c)
    PROVE  Counted(m, d)
BY CountedGrows DEF Counted

LEMMA CountedLeft ==
    ASSUME Typed, Typed', AttemptsAreCounted, ledger \subseteq ledger',
           NEW c, Leaves(c), Counted(ledger', c),
           mem' = mem \/ Counted(ledger', mem')
    PROVE  AttemptsAreCounted'
<1>1. /\ ledger \in SUBSET Ledger /\ IsFiniteSet(ledger')
      /\ Document(disk) /\ Document(stable) /\ Document(mem)
  BY TypedIs DEF Typed, LedgerTyped, DocumentsTyped
<1>2. ASSUME NEW d \in Kept \cup {mem} PROVE Counted(ledger', d)
  <2>1. Document(d) /\ Counted(ledger, d) /\ d.run <= d.run
    BY <1>1, PlanAssumption DEF Kept, AttemptsAreCounted, Document, ControlState
  <2>2. QED
    BY <1>1, <2>1, SameAttemptsCounted
<1>3. QED
  BY <1>2 DEF AttemptsAreCounted, Leaves

LEMMA AttemptsNext ==
    ASSUME IInv, [Next]_vars
    PROVE  AttemptsAreCounted'
<1>0. Typed /\ Disposing /\ Chronology /\ AttemptsAreCounted /\ Typed'
  BY TypedNext DEF IInv
<1>1. /\ ledger \in SUBSET Ledger /\ IsFiniteSet(ledger)
      /\ Document(disk) /\ Document(stable) /\ Document(mem)
      /\ disk.run \in Nat /\ mem.run \in Nat
  BY <1>0, TypedIs, PlanAssumption DEF LedgerTyped, DocumentsTyped, Document, ControlState
<1>2. Counted(ledger, disk) /\ Counted(ledger, mem)
  BY <1>0 DEF AttemptsAreCounted, Kept
<1>3. ASSUME NEW id PROVE Counted(ledger, Fresh(id))
  <2>1. \A s \in Tools : Fresh(id).attempt[s] = 0
    BY DEF Fresh
  <2>2. QED
    BY <1>1, <2>1, FirstAttemptsCounted DEF Counted
<1>4. ASSUME NEW c, Document(c), c.attempt = mem.attempt, c.run = mem.run PROVE Counted(ledger, c)
  BY <1>1, <1>2, <1>4, SameAttemptsCounted
<1>5. ASSUME UNCHANGED ledger, NEW c, Leaves(c), Counted(ledger, c),
             mem' = mem \/ Counted(ledger, mem')
      PROVE  AttemptsAreCounted'
  BY <1>0, <1>5, CountedLeft
<1>6. ASSUME UNCHANGED ledger, NEW c, Leaves(c), Document(c), c.attempt = mem.attempt, c.run = mem.run,
             mem' = mem \/ mem' = c
      PROVE  AttemptsAreCounted'
  BY <1>4, <1>5, <1>6
<1>11. ASSUME NEW resume \in BOOLEAN, BeginRun(resume) PROVE AttemptsAreCounted'
  BY <1>2, <1>3, <1>5, <1>11, NothingNewLeft DEF BeginRun
<1>12. CASE TypedStop
  BY <1>3, <1>5, <1>12, SavesLeaves DEF TypedStop
<1>13. ASSUME NEW same \in BOOLEAN, StartPlan(same) PROVE AttemptsAreCounted'
  <2>1. /\ Document(mem') /\ Leaves(mem') /\ mem'.run = mem.run /\ UNCHANGED ledger
        /\ mem'.attempt = disk.attempt \/ mem'.attempt = mem.attempt
        /\ pc = "planning"
    BY <1>0, <1>13, StartPlanDoes DEF StartPlan
  <2>2. disk.run <= mem.run
    BY <1>0, <1>1, <2>1 DEF Chronology, Kept
  <2>3. Counted(ledger, mem')
    BY <1>1, <1>2, <2>1, <2>2, SameAttemptsCounted
  <2>4. QED
    BY <1>5, <2>1, <2>3
<1>14. CASE MakeSandbox
  <2>1. /\ Document(mem') /\ mem'.attempt = mem.attempt /\ mem'.run = mem.run
        /\ UNCHANGED <<disk, stable, ledger>>
    BY <1>0, <1>14, MakeSandboxDoes DEF MakeSandbox, files
  <2>2. QED
    BY <1>2, <1>4, <1>5, <2>1, NothingNewLeft
<1>15. ASSUME NEW k \in Subtasks, StartModel(k) PROVE AttemptsAreCounted'
  BY <1>0, <1>6, <1>15, StartModelDoes DEF StartModel, Changes
<1>16. ASSUME NEW passed \in BOOLEAN, EndModel(passed) PROVE AttemptsAreCounted'
  BY <1>0, <1>6, <1>16, EndModelDoes DEF EndModel, Changes
<1>17. ASSUME NEW k \in Tools, StartTool(k) \/ StartToolFails(k) PROVE AttemptsAreCounted'
  <2>1. /\ Document(Started(k)) /\ Leaves(Started(k)) /\ UNCHANGED ledger
        /\ Changes(mem, Started(k), k, "tool_started")
        /\ Started(k).attempt[k] = (IF mem.attempt[k] = 0 THEN 1 ELSE mem.attempt[k])
        /\ mem' = mem \/ mem' = Started(k)
    BY <1>0, <1>17, StartToolDoes DEF StartTool, StartToolFails
  <2>2. ASSUME NEW s \in Tools
        PROVE  Started(k).attempt[s] <= 1 + Cardinality(Retries(ledger, Started(k), s))
    <3>1. CASE Started(k).attempt[s] = 1
      BY <1>1, <3>1, FirstAttemptsCounted
    <3>2. CASE Started(k).attempt[s] = mem.attempt[s]
      BY <1>1, <1>2, <2>1, <3>2, CountedGrows DEF Changes, Counted
    <3>3. QED
      BY <2>1, <3>1, <3>2 DEF Changes
  <2>3. QED
    BY <1>5, <2>1, <2>2 DEF Counted
<1>18. CASE RefuseTool \/ SaveCompleted \/ SaveCompletedFails \/ SaveFailed
  <2>1. PICK c : /\ Document(c) /\ Leaves(c) /\ c.run = mem.run /\ c.attempt = mem.attempt
                 /\ mem' = c \/ mem' = mem
    BY <1>0, <1>18, EndToolDoes DEF Changes
  <2>2. UNCHANGED ledger
    BY <1>18 DEF RefuseTool, SaveCompleted, SaveCompletedFails, SaveFailed
  <2>3. QED
    BY <1>6, <2>1, <2>2
<1>19. CASE Discard \/ Adopt \/ AdoptFails \/ SaveReturned
  <2>1. PICK c : Document(c) /\ Leaves(c) /\ c.run = mem.run /\ c.attempt = mem.attempt
    BY <1>0, <1>19, LastSavesDo
  <2>2. UNCHANGED <<mem, ledger>>
    BY <1>19 DEF Discard, Adopt, AdoptFails, SaveReturned
  <2>3. QED
    BY <1>6, <2>1, <2>2
<1>20. CASE RunEnds \/ PowerLoss
  BY <1>2, <1>3, <1>5, <1>20, NothingNewLeft DEF RunEnds, PowerLoss, LetGo, files
<1>21. ASSUME NEW act \in Actions, NEW s \in Tools, RecordDisposition(act, s) PROVE AttemptsAreCounted'
  <2>1. ledger \subseteq ledger' /\ IsFiniteSet(ledger') /\ UNCHANGED mem
    BY <1>0, <1>21, TypedIs DEF RecordDisposition, run, Typed
  <2>2. Counted(ledger', disk)
    BY <1>1, <1>2, <2>1, SameAttemptsCounted
  <2>3. QED
    BY <1>0, <1>21, <2>1, <2>2, CountedLeft, NothingNewLeft DEF RecordDisposition
<1>22. CASE ApplyDisposition \/ DispositionFails
  <2>1. /\ op[2] \in Tools /\ op[1] \in Actions /\ op # <<>> /\ UNCHANGED <<ledger, mem>>
    BY <1>0, <1>22, DispositionDoes DEF ApplyDisposition, DispositionFails, run
  <2>2. PICK c : /\ Document(c) /\ Leaves(c)
                 /\ Changes(disk, c, op[2], IF op[1] = "abandon" THEN "tool_abandoned" ELSE "pending")
                 /\ c.attempt[op[2]] = (IF op[1] = "abandon" THEN disk.attempt[op[2]]
                                        ELSE disk.attempt[op[2]] + 1)
    BY <1>0, <1>22, DispositionDoes
  <2>3. ASSUME NEW s \in Tools PROVE c.attempt[s] <= 1 + Cardinality(Retries(ledger, c, s))
    <3>1. CASE c.attempt[s] = disk.attempt[s]
      BY <1>1, <1>2, <2>2, <3>1, CountedGrows DEF Changes, Counted
    <3>2. CASE s = op[2] /\ op[1] # "abandon"
      <4>1. PICK e \in ledger : /\ e.run = disk.run /\ e.subtask = s
                               /\ e.action = "retry" /\ e.attempt = disk.attempt[s]
        BY <1>0, <2>1, <3>2 DEF Disposing, Actions
      <4>2. QED
        BY <1>1, <1>2, <2>2, <3>2, <4>1, RetryCounted DEF Changes, Counted
    <3>3. QED
      BY <2>2, <3>1, <3>2 DEF Changes
  <2>4. QED
    BY <1>5, <2>1, <2>2, <2>3 DEF Counted
<1>23. ASSUME UNCHANGED <<disk, stable, mem, ledger>> PROVE AttemptsAreCounted'
  BY <1>0, <1>23 DEF AttemptsAreCounted, Kept
<1>24. ASSUME NEW k \in Subtasks, SkipCompleted(k) \/ StopAtMarker(k) PROVE AttemptsAreCounted'
  BY <1>23, <1>24 DEF SkipCompleted, StopAtMarker, files
<1>25. CASE BeginEffect \/ (\E end \in {"yes", "failed"} : EndEffect(end))
           \/ Commit \/ OperatorDies \/ UNCHANGED vars
  BY <1>23, <1>25 DEF BeginEffect, EndEffect, Commit, OperatorDies, vars, files, run
<1>26. QED
  BY <1>11, <1>12, <1>13, <1>14, <1>15, <1>16, <1>17, <1>18, <1>19, <1>20, <1>21, <1>22,
     <1>24, <1>25 DEF Next

----------------------------------------------------------------------------
(* What a run may execute repeats nothing *)

\* A run that adopts the document may execute what it finds runnable.
Free(c) == c.scope = "workspace" => \A s \in Tools : c.st[s] \in Runnable => MayExecute(s)

\* The places where the run's own document is binding.
Bindings == {"sandbox"} \cup Looping \cup Ending

LEMMA FreeLeft ==
    ASSUME RunnableIsFree, NEW c, Leaves(c), Free(c),
           UNCHANGED <<did, first>>, ledger \subseteq ledger',
           pc' \in Bindings => \A s \in Tools : mem'.st[s] \in Runnable => MayExecute(s),
           pc' = "effect" => cursor' = cursor /\ MayExecute(cursor)
    PROVE  RunnableIsFree'
<1>1. \A s : MayExecute(s) => MayExecute(s)'
  BY DEF MayExecute
<1>2. ASSUME NEW d \in Kept', d.scope = "workspace", NEW s \in Tools, d.st[s] \in Runnable
      PROVE  MayExecute(s)'
  BY <1>1, <1>2 DEF RunnableIsFree, Leaves, Free
<1>3. pc' = "effect" => MayExecute(cursor)'
  BY DEF MayExecute
<1>4. QED
  BY <1>1, <1>2, <1>3 DEF RunnableIsFree, Bindings

LEMMA FreeNext ==
    ASSUME IInv, [Next]_vars
    PROVE  RunnableIsFree'
<1>0. Typed /\ Disposing /\ Chronology /\ Progress /\ RunnableIsFree
  BY DEF IInv
<1>m. /\ Free(disk) /\ Free(stable)
      /\ pc \in Bindings => \A s \in Tools : mem.st[s] \in Runnable => MayExecute(s)
  BY <1>0 DEF RunnableIsFree, Kept, Free, Bindings
<1> USE DEF Bindings, Looping, Running, Ending
<1>1. ASSUME NEW resume \in BOOLEAN, BeginRun(resume) PROVE RunnableIsFree'
  BY <1>0, <1>m, <1>1, FreeLeft, NothingNewLeft DEF BeginRun, GoTo
<1>2. CASE TypedStop
  <2>1. Leaves(Fresh(mem.run)) /\ Fresh(mem.run).scope = "none" /\ pc' \in {"over", "raised"}
        /\ UNCHANGED <<did, first, ledger>>
    BY <1>2, SavesLeaves DEF TypedStop, Fresh, Saves, GoTo
  <2>2. QED
    BY <1>0, <2>1, FreeLeft DEF Free
<1>3. ASSUME NEW same \in BOOLEAN, StartPlan(same) PROVE RunnableIsFree'
  <2>1. /\ Leaves(mem') /\ mem'.st = Carried(resumed') /\ pc = "planning"
        /\ pc' \in {"sandbox", "raised"} /\ UNCHANGED <<did, ledger>>
        /\ pc' = "sandbox" => disk' = mem'
        /\ \/ /\ disk.scope = "workspace" /\ resumed' = disk.st /\ first' = first
           \/ mem'.scope = "none" /\ first' = (IF disk' = mem' THEN mem.run ELSE first)
    BY <1>0, <1>3, StartPlanDoes DEF StartPlan
  <2>2. CASE disk.scope = "workspace" /\ resumed' = disk.st /\ first' = first
    <3>1. \A s \in Tools : mem'.st[s] \in Runnable => disk.st[s] \in Runnable
      BY <1>0, <2>1, <2>2, TypedIs, CarriedIs DEF DocumentsTyped, Document, ControlState
    <3>2. \A s \in Tools : mem'.st[s] \in Runnable => MayExecute(s)
      BY <1>m, <2>2, <3>1 DEF Free
    <3>3. QED
      BY <1>0, <2>1, <2>2, <3>2, FreeLeft DEF Free
  <2>3. CASE mem'.scope = "none" /\ first' = mem.run
    <3>1. \A s \in Tools : did'[s].run < first'
      BY <1>0, <2>1, <2>3, RunNumbers DEF Chronology, Kept
    <3>2. \A s \in Tools : MayExecute(s)'
      BY <3>1 DEF MayExecute
    <3>3. QED
      BY <2>1, <3>2 DEF RunnableIsFree
  <2>4. CASE mem'.scope = "none" /\ first' = first /\ pc' = "raised"
    BY <1>0, <2>1, <2>4, FreeLeft DEF Free
  <2>5. QED
    BY <2>1, <2>2, <2>3, <2>4
<1>4. CASE MakeSandbox
  <2>1. mem'.st = mem.st /\ UNCHANGED <<disk, stable, did, first, ledger>> /\ pc = "sandbox" /\ pc' = "loop"
    BY <1>0, <1>4, MakeSandboxDoes DEF MakeSandbox, GoTo, files
  <2>2. QED
    BY <1>0, <1>m, <2>1, FreeLeft, NothingNewLeft
<1>5. ASSUME NEW k \in Subtasks, SkipCompleted(k) \/ StopAtMarker(k) PROVE RunnableIsFree'
  BY <1>0, <1>m, <1>5, FreeLeft, NothingNewLeft
     DEF SkipCompleted, StopAtMarker, At, Advance, Break, Following, GoTo, files
<1>6. ASSUME NEW k \in Subtasks, StartModel(k) PROVE RunnableIsFree'
  <2>1. /\ Leaves(mem') /\ pc = "loop" /\ pc' \in {"model", "raised"} /\ UNCHANGED <<did, first, ledger>>
        /\ mem'.scope = mem.scope /\ \A s \in Tools : mem'.st[s] = mem.st[s]
    BY <1>0, <1>6, StartModelDoes, SubtaskFacts DEF StartModel, At, Changes
  <2>2. QED
    BY <1>0, <1>m, <2>1, FreeLeft DEF Free
<1>7. ASSUME NEW passed \in BOOLEAN, EndModel(passed) PROVE RunnableIsFree'
  <2>1. /\ Leaves(mem') /\ pc = "model" /\ pc' \in {"loop", "finish", "raised"}
        /\ UNCHANGED <<did, first, ledger>>
        /\ mem'.scope = mem.scope /\ \A s \in Tools : mem'.st[s] = mem.st[s]
    BY <1>0, <1>7, EndModelDoes, SubtaskFacts DEF EndModel, Following, Changes
  <2>2. QED
    BY <1>0, <1>m, <2>1, FreeLeft DEF Free
<1>8. ASSUME NEW k \in Tools, StartTool(k) \/ StartToolFails(k) PROVE RunnableIsFree'
  <2>1. /\ Leaves(Started(k)) /\ pc = "loop" /\ k = cursor /\ cursor' = cursor
        /\ pc' \in {"effect", "finish"} /\ UNCHANGED <<did, first, ledger>>
        /\ resumed[k] \in Runnable
        /\ mem' = mem \/ mem' = Started(k)
        /\ \A s \in Tools : Started(k).st[s] = IF s = k THEN "tool_started" ELSE mem.st[s]
    BY <1>0, <1>8, StartToolDoes, SubtaskFacts DEF StartTool, StartToolFails, ToRun, Runnable, Changes
  <2>2. mem.st[k] = Carried(resumed)[k]
    BY <1>0, <2>1, SubtaskFacts DEF Progress
  <2>3. MayExecute(k)
    BY <1>0, <1>m, <2>1, <2>2, TypedIs, CarriedIs DEF RunTyped
  <2>4. \A s \in Tools : Started(k).st[s] \in Runnable => MayExecute(s)
    BY <1>m, <2>1 DEF Runnable
  <2>5. QED
    BY <1>0, <1>m, <2>1, <2>3, <2>4, FreeLeft DEF Free
<1>9. CASE RefuseTool \/ SaveCompleted \/ SaveCompletedFails \/ SaveFailed
  <2>1. PICK state, c :
            /\ cursor \in Tools /\ pc \in Running /\ Leaves(c) /\ Changes(mem, c, cursor, state)
            /\ mem' = c \/ mem' = mem
            /\ pc' \in {"finish", "raised", "loop"}
            /\ state \in {"completed", "tool_failed"} \/ pc = "effect"
    BY <1>0, <1>9, EndToolDoes DEF Following
  <2>2. UNCHANGED <<did, first, ledger>>
    BY <1>9 DEF RefuseTool, SaveCompleted, SaveCompletedFails, SaveFailed
  <2>3. pc = "effect" => MayExecute(cursor)
    BY <1>0 DEF RunnableIsFree
  <2>4. \A s \in Tools : c.st[s] \in Runnable => MayExecute(s)
    BY <1>m, <2>1, <2>3, SubtaskFacts DEF Changes, Runnable
  <2>5. QED
    BY <1>0, <1>m, <2>1, <2>2, <2>4, FreeLeft DEF Free
<1>10. ASSUME BeginEffect \/ (\E end \in {"yes", "failed"} : EndEffect(end)) PROVE RunnableIsFree'
  <2>1. /\ cursor \in Tools /\ pc \in Running /\ pc' \in {"running", "returned"}
        /\ UNCHANGED <<disk, stable, mem, first, ledger>>
        /\ mem.st[cursor] = "tool_started" /\ disk = mem /\ stable = mem
        /\ \A s \in Tools : s # cursor => did'[s] = did[s]
    BY <1>0, <1>10, TypedIs DEF BeginEffect, EndEffect, GoTo, files, Progress, RunTyped, WorldTyped
  <2>2. \A s \in Tools : mem'.st[s] \in Runnable => MayExecute(s)'
    BY <1>m, <2>1 DEF MayExecute, Runnable
  <2>3. QED
    BY <2>1, <2>2 DEF RunnableIsFree, Kept
<1>11. CASE Discard \/ Adopt \/ AdoptFails \/ SaveReturned
  <2>1. /\ UNCHANGED <<did, first, ledger, mem>> /\ pc' \in {"over", "raised", "reported"}
        /\ pc \in Ending
    BY <1>11 DEF Discard, Adopt, AdoptFails, SaveReturned, Saves, GoTo
  <2>2. PICK c : /\ Leaves(c)
                 /\ Adopt \/ AdoptFails => c.st = mem.st
                 /\ SaveReturned => c = mem
                 /\ Discard => c.scope = mem.scope /\ (~separate => c = mem)
    BY <1>0, <1>11, LastSavesDo
  <2>3. Free(c)
    <3>1. CASE Adopt \/ AdoptFails
      BY <1>m, <2>1, <2>2, <3>1 DEF Free
    <3>2. CASE SaveReturned
      BY <1>m, <2>1, <2>2, <3>2 DEF Free
    <3>3. CASE Discard
      BY <1>0, <1>m, <2>1, <2>2, <3>3 DEF Free, Progress
    <3>4. QED
      BY <1>11, <3>1, <3>2, <3>3
  <2>4. QED
    BY <1>0, <1>m, <2>1, <2>2, <2>3, FreeLeft
<1>12. CASE Commit
  BY <1>0, <1>m, <1>12, FreeLeft, NothingNewLeft DEF Commit, GoTo, files
<1>13. CASE RunEnds \/ PowerLoss
  BY <1>0, <1>m, <1>13, FreeLeft, NothingNewLeft DEF RunEnds, PowerLoss, LetGo, GoTo, files
<1>14. ASSUME NEW act \in Actions, NEW s \in Tools, RecordDisposition(act, s) PROVE RunnableIsFree'
  BY <1>0, <1>14, <1>m, FreeLeft, NothingNewLeft DEF RecordDisposition, Idle, run
<1>15. CASE ApplyDisposition \/ DispositionFails
  <2>1. /\ op[2] \in Tools /\ op[1] \in Actions /\ op # <<>> /\ pc = "idle" /\ pc' = "idle"
        /\ UNCHANGED <<first, ledger>>
    BY <1>0, <1>15, DispositionDoes DEF ApplyDisposition, DispositionFails, run
  <2>2. PICK c : /\ Leaves(c)
                 /\ Changes(disk, c, op[2], IF op[1] = "abandon" THEN "tool_abandoned" ELSE "pending")
                 /\ ApplyDisposition => disk' = c /\ stable' = c
    BY <1>0, <1>15, DispositionDoes
  <2>3. op[1] # "abandon" => MayExecute(op[2])
    <3>1. did[op[2]].run <= disk.run
      BY <1>0, <2>1 DEF Chronology, Kept
    <3>2. QED
      BY <1>0, <2>1, <3>1 DEF Disposing, MayExecute, Actions
  <2>4. Free(c)
    BY <1>m, <2>2, <2>3, SubtaskFacts DEF Free, Changes, Runnable
  <2>5. CASE DispositionFails
    BY <1>0, <2>1, <2>2, <2>4, <2>5, FreeLeft DEF DispositionFails
  <2>6. CASE ApplyDisposition
    <3>1. /\ \A s \in Tools : s # op[2] => did'[s] = did[s]
          /\ op[1] # "abandon" => did'[op[2]].end = "rearmed"
      BY <1>0, <2>1, <2>6, TypedIs DEF ApplyDisposition, WorldTyped
    <3>2. \A s \in Tools : s # op[2] => (MayExecute(s) => MayExecute(s)')
      BY <2>1, <3>1 DEF MayExecute
    <3>3. op[1] # "abandon" => \A s \in Tools : s = op[2] => MayExecute(s)'
      BY <3>1 DEF MayExecute
    <3>4. op[1] = "abandon" => c.st[op[2]] \notin Runnable
      BY <2>2 DEF Changes, Runnable
    <3>5. c.scope = "workspace" => \A s \in Tools : c.st[s] \in Runnable => MayExecute(s)'
      BY <2>4, <3>2, <3>3, <3>4 DEF Free
    <3>6. QED
      BY <2>1, <2>2, <2>6, <3>5 DEF RunnableIsFree, Kept
  <2>7. QED
    BY <1>15, <2>5, <2>6
<1>16. CASE OperatorDies \/ UNCHANGED vars
  BY <1>0, <1>16 DEF OperatorDies, vars, files, run, RunnableIsFree, MayExecute, Kept
<1>17. QED
  BY <1>1, <1>2, <1>3, <1>4, <1>5, <1>6, <1>7, <1>8, <1>9, <1>10, <1>11, <1>12, <1>13, <1>14,
     <1>15, <1>16 DEF Next

----------------------------------------------------------------------------
(* The invariant holds always *)

LEMMA InitHolds == Init => IInv
<1> SUFFICES ASSUME Init PROVE IInv
  OBVIOUS
<1>1. Typed
  BY InitTyped
<1>2. /\ disk = Fresh(0) /\ stable = Fresh(0) /\ mem = Fresh(0) /\ ledger = {} /\ runs = 0
      /\ pc = "idle" /\ op = <<>> /\ resumed = NothingResumed
      /\ did = [s \in Tools |-> [end |-> "no", run |-> 0]]
  BY DEF Init
<1>3. /\ Fresh(0).run = 0 /\ Fresh(0).scope = "none"
      /\ \A s \in Subtasks : Fresh(0).st[s] = "absent"
      /\ \A s \in Tools : Fresh(0).attempt[s] = 0
  BY FreshIs, Limits
<1>4. Chronology
  BY <1>2, <1>3 DEF Chronology, Kept
<1>5. Disposing
  BY <1>2 DEF Disposing
<1>6. MarksAreOrdered
  <2>1. Marked(Fresh(0).st) = {} /\ Marked(NothingResumed) = {}
    BY <1>3, SubtaskFacts DEF Marked, Marks, NothingResumed
  <2>2. QED
    BY <1>2, <2>1 DEF MarksAreOrdered, Kept, Running, WellMarked, OneMark, MarkedInOrder
<1>7. Progress
  BY <1>2, <1>3 DEF Progress, Looping, Running, Ending
<1>8. WorkIsThere
  BY <1>2, <1>3 DEF WorkIsThere, ReusableWorkIsThere, NothingResumed
<1>9. DoubtIsShown
  BY <1>2 DEF DoubtIsShown, InDoubt
<1>10. AttemptsAreCounted
  <2>1. IsFiniteSet(ledger)
    BY <1>1 DEF Typed
  <2>2. Counted(ledger, Fresh(0))
    BY <1>3, <2>1, FirstAttemptsCounted DEF Counted
  <2>3. QED
    BY <1>2, <2>2 DEF AttemptsAreCounted, Kept
<1>11. RunnableIsFree
  BY <1>2, <1>3 DEF RunnableIsFree, Kept, Looping, Running, Ending
<1>12. QED
  BY <1>1, <1>4, <1>5, <1>6, <1>7, <1>8, <1>9, <1>10, <1>11 DEF IInv

LEMMA NextHolds == IInv /\ [Next]_vars => IInv'
<1> SUFFICES ASSUME IInv, [Next]_vars PROVE IInv'
  OBVIOUS
<1>1. Typed'
  BY TypedNext DEF IInv
<1>2. QED
  BY <1>1, ChronologyNext, DisposingNext, MarksNext, ProgressNext, WorkNext, DoubtNext,
     AttemptsNext, FreeNext DEF IInv

\* What the run, the visible and the durable control state may claim, at every
\* step of the runs, the commands, the failed saves and the power losses.
THEOREM Inductive == Spec => []IInv
BY InitHolds, NextHolds, PTL DEF Spec

\* The variables keep their types.
THEOREM TypeCorrect == Spec => []TypeOK
<1>1. IInv => TypeOK
  BY DEF IInv, Typed
<1>2. QED
  BY <1>1, Inductive, PTL

\* Whenever the lock is free, an effect that may have happened and that nobody
\* disposed of is shown by the control state, and the gate refuses the next run.
THEOREM DoubtAlwaysShutsTheGate == Spec => []DoubtShutsTheGate
<1>1. IInv => DoubtShutsTheGate
  BY DEF IInv, DoubtIsShown, InDoubt, Shows, Kept, DoubtShutsTheGate, Undisposed
<1>2. QED
  BY <1>1, Inductive, PTL

\* What a resume may reuse is there, in the visible and in the durable state.
THEOREM ReusableWorkIsAlwaysThere == Spec => []ReusableWorkIsThere
<1>1. IInv => ReusableWorkIsThere
  BY DEF IInv, WorkIsThere
<1>2. QED
  BY <1>1, Inductive, PTL

\* The candidate that is committed holds every effect and every model's files.
THEOREM CommitIsAlwaysWhole == Spec => []CommitIsWhole
<1>1. IInv => CommitIsWhole
  BY SubtaskFacts DEF IInv, WorkIsThere, Present, CommitIsWhole
<1>2. QED
  BY <1>1, Inductive, PTL

\* Every attempt after the first has its own decision in the ledger.
THEOREM OneAttemptPerDecisionAlways == Spec => []OneAttemptPerDecision
<1>1. ASSUME IInv PROVE OneAttemptPerDecision
  <2> SUFFICES ASSUME NEW c \in {disk, stable}, NEW s \in Tools
               PROVE  c.attempt[s] <= 1 + Cardinality({d \in ledger :
                          d.run <= c.run /\ d.subtask = s /\ d.action = "retry"})
    BY DEF OneAttemptPerDecision
  <2> DEFINE retries == {d \in ledger : d.run <= c.run /\ d.subtask = s /\ d.action = "retry"}
  <2>1. Typed /\ Counted(ledger, c) /\ c.attempt[s] \in Nat
    BY <1>1, TypedIs DEF IInv, AttemptsAreCounted, Kept, DocumentsTyped, Document, ControlState
  <2>2. IsFiniteSet(ledger) /\ retries \subseteq ledger /\ Retries(ledger, c, s) \subseteq retries
    BY <2>1 DEF Typed, Retries
  <2> HIDE DEF retries
  <2>3. IsFiniteSet(retries) /\ Cardinality(retries) \in Nat
    BY <2>2, FS_Subset, FS_CardinalityType
  <2>4. /\ Cardinality(Retries(ledger, c, s)) <= Cardinality(retries)
        /\ Cardinality(Retries(ledger, c, s)) \in Nat
    BY <2>2, <2>3, FS_Subset, RetriesFinite
  <2>5. c.attempt[s] <= 1 + Cardinality(retries)
    BY <2>1, <2>3, <2>4 DEF Counted
  <2>6. QED
    BY <2>5 DEF retries
<1>2. QED
  BY <1>1, Inductive, PTL

----------------------------------------------------------------------------
(* What no step does *)

\* A resumed run repeats no effect of the execution it resumes, unless an
\* operator decided so: it starts an effect only where RunnableIsFree allows it.
THEOREM ResumeRepeatsNoEffect == Spec => ResumeNeverRepeatsAnEffect
<1> DEFINE P == \A s \in Tools :
                  /\ resumed # NothingResumed
                  /\ did[s].end \in {"maybe", "yes", "failed", "abandoned"}
                  /\ did[s].run >= first
                  /\ ~\E d \in ledger : d.subtask = s /\ d.action = "retry" /\ d.run >= did[s].run
                  => ~Executes(s)
<1>1. ASSUME IInv, [Next]_vars PROVE P
  <2> SUFFICES ASSUME NEW s \in Tools, Executes(s) PROVE MayExecute(s)
    BY <1>1, RunNumbers DEF IInv, MayExecute
  <2>0. Typed /\ RunnableIsFree
    BY <1>1 DEF IInv
  <2>1. CASE BeginEffect
    <3>1. pc = "effect" /\ s = cursor
      BY <2>0, <2>1, TypedIs DEF BeginEffect, Executes, WorldTyped
    <3>2. QED
      BY <2>0, <3>1 DEF RunnableIsFree
  <2>2. ASSUME NEW end \in {"yes", "failed"}, EndEffect(end) PROVE FALSE
    BY <2>0, <2>2, TypedIs DEF EndEffect, Executes, WorldTyped
  <2>3. CASE ApplyDisposition
    BY <2>0, <2>3, TypedIs DEF ApplyDisposition, Executes, WorldTyped
  <2>4. CASE UNCHANGED did
    BY <2>4 DEF Executes
  <2>5. QED
    BY <1>1, <2>1, <2>2, <2>3, <2>4 DEF Next, vars, BeginRun, TypedStop, StartPlan, MakeSandbox,
       SkipCompleted, StopAtMarker, StartModel, EndModel, StartTool, StartToolFails, RefuseTool,
       SaveCompleted, SaveCompletedFails, SaveFailed, Discard, Commit, Adopt, AdoptFails,
       SaveReturned, RunEnds, RecordDisposition, DispositionFails, OperatorDies, PowerLoss
<1>2. IInv /\ [Next]_vars => [P]_vars
  BY <1>1
<1>3. QED
  BY <1>2, Inductive, PTL DEF Spec, ResumeNeverRepeatsAnEffect

\* A power loss took the visible state back.
TakenBack == disk # stable /\ disk' = stable

\* A document of the run under way is bound by no decision yet.
LEMMA DisposableInRun ==
    ASSUME IInv, pc # "idle", UNCHANGED ledger, NEW c, c.run = mem.run, Leaves(c), Disposable
    PROVE  Disposable' \/ TakenBack
<1>1. disk' = disk \/ disk' = stable \/ disk' = c
  BY DEF Leaves, Kept
<1>2. CASE disk' = disk
  BY <1>2 DEF Disposable, Undisposed, Eligible, Bound, Recorded, SameDisposition, Entry
<1>3. CASE disk' = c
  <2>1. \A d \in ledger' : d.run # disk'.run
    BY <1>3, RunNumbers DEF IInv, Chronology
  <2>2. \A act \in Actions, s \in Tools : Bound(Entry(act, s))'
    BY <2>1 DEF Bound, Recorded, SameDisposition, Entry
  <2>3. \A s \in Undisposed(disk') : Eligible("retry", s)'
    BY DEF Undisposed, Eligible
  <2>4. QED
    BY <2>2, <2>3 DEF Disposable, Undisposed, Actions
<1>4. QED
  BY <1>1, <1>2, <1>3 DEF TakenBack

LEMMA DisposableKept ==
    ASSUME UNCHANGED ledger, Leaves(disk), Disposable
    PROVE  Disposable' \/ TakenBack
<1>1. disk' = disk \/ disk' = stable
  BY DEF Leaves, Kept
<1>2. CASE disk' = disk
  BY <1>2 DEF Disposable, Undisposed, Eligible, Bound, Recorded, SameDisposition, Entry
<1>3. QED
  BY <1>1, <1>2 DEF TakenBack

\* No step but a power loss that takes a visible state back shuts the gate for
\* good: a run's documents are new, and a disposition that shows leaves no mark.
THEOREM DoubtCanAlwaysBeDisposedOf == Spec => DoubtCanBeDisposedOf
<1>1. ASSUME IInv, [Next]_vars, Disposable PROVE Disposable' \/ TakenBack
  <2>0. Typed /\ Disposing /\ Chronology /\ Progress /\ MarksAreOrdered
    BY <1>1 DEF IInv
  <2>1. ASSUME NEW resume \in BOOLEAN, BeginRun(resume) PROVE Disposable' \/ TakenBack
    BY <1>1, <2>1, NothingNewLeft, DisposableKept DEF BeginRun
  <2>2. CASE TypedStop
    <3>1. Leaves(Fresh(mem.run)) /\ Fresh(mem.run).run = mem.run /\ pc # "idle" /\ UNCHANGED ledger
      BY <2>2, SavesLeaves DEF TypedStop, Fresh
    <3>2. QED
      BY <1>1, <3>1, DisposableInRun
  <2>3. ASSUME NEW same \in BOOLEAN, StartPlan(same) PROVE Disposable' \/ TakenBack
    BY <1>1, <2>0, <2>3, StartPlanDoes, DisposableInRun DEF StartPlan
  <2>4. ASSUME NEW k \in Subtasks, StartModel(k) PROVE Disposable' \/ TakenBack
    BY <1>1, <2>0, <2>4, StartModelDoes, DisposableInRun DEF StartModel, At, Changes
  <2>5. ASSUME NEW passed \in BOOLEAN, EndModel(passed) PROVE Disposable' \/ TakenBack
    BY <1>1, <2>0, <2>5, EndModelDoes, DisposableInRun DEF EndModel, Changes
  <2>6. ASSUME NEW k \in Tools, StartTool(k) \/ StartToolFails(k) PROVE Disposable' \/ TakenBack
    BY <1>1, <2>0, <2>6, StartToolDoes, DisposableInRun DEF StartTool, StartToolFails, Changes
  <2>7. CASE RefuseTool \/ SaveCompleted \/ SaveCompletedFails \/ SaveFailed
    <3>1. PICK c : Leaves(c) /\ c.run = mem.run /\ pc # "idle"
      BY <2>0, <2>7, EndToolDoes DEF Changes, Running
    <3>2. UNCHANGED ledger
      BY <2>7 DEF RefuseTool, SaveCompleted, SaveCompletedFails, SaveFailed
    <3>3. QED
      BY <1>1, <3>1, <3>2, DisposableInRun
  <2>8. CASE Discard \/ Adopt \/ AdoptFails \/ SaveReturned
    <3>1. PICK c : Leaves(c) /\ c.run = mem.run
      BY <2>0, <2>8, LastSavesDo
    <3>2. UNCHANGED ledger /\ pc # "idle"
      BY <2>8 DEF Discard, Adopt, AdoptFails, SaveReturned
    <3>3. QED
      BY <1>1, <3>1, <3>2, DisposableInRun
  <2>9. ASSUME NEW act \in Actions, NEW s \in Tools, RecordDisposition(act, s)
        PROVE  Disposable' \/ TakenBack
    <3>1. disk' = disk
      BY <2>9 DEF RecordDisposition, Confirmed, Save
    <3>2. ledger' \subseteq ledger \cup {Entry(act, s)} /\ Entry(act, s).prior = disk
      BY <2>9 DEF RecordDisposition, Entry
    <3>3. QED
      BY <1>1, <3>1, <3>2 DEF Disposable, Undisposed, Eligible, Bound, Recorded, SameDisposition, Entry
  <2>10. CASE ApplyDisposition \/ DispositionFails
    <3>1. op[2] \in Tools /\ op # <<>> /\ UNCHANGED ledger
      BY <2>0, <2>10, DispositionDoes DEF ApplyDisposition, DispositionFails
    <3>2. PICK c : /\ disk' \in {disk, c}
                   /\ Changes(disk, c, op[2], IF op[1] = "abandon" THEN "tool_abandoned" ELSE "pending")
      BY <2>0, <2>10, DispositionDoes
    <3>3. CASE disk' = disk
      BY <1>1, <3>1, <3>3 DEF Disposable, Undisposed, Eligible, Bound, Recorded, SameDisposition, Entry
    <3>4. CASE disk' = c
      <4>1. Marked(disk.st) = {op[2]}
        BY <2>0, <3>1 DEF Disposing, Eligible, Marked, Marks, MarksAreOrdered, WellMarked, OneMark, Kept
      <4>2. Undisposed(disk') = {}
        BY <3>2, <3>4, <4>1, SubtaskFacts DEF Undisposed, Marked, Marks, Changes
      <4>3. QED
        BY <4>2 DEF Disposable
    <3>5. QED
      BY <3>2, <3>3, <3>4
  <2>11. CASE UNCHANGED ledger /\ (UNCHANGED <<disk, stable>> \/ (disk' = stable /\ UNCHANGED stable))
    BY <1>1, <2>11, NothingNewLeft, DisposableKept
  <2>12. CASE MakeSandbox \/ (\E k \in Subtasks : SkipCompleted(k) \/ StopAtMarker(k))
              \/ BeginEffect \/ (\E end \in {"yes", "failed"} : EndEffect(end)) \/ Commit
              \/ RunEnds \/ OperatorDies \/ PowerLoss \/ UNCHANGED vars
    BY <2>11, <2>12 DEF MakeSandbox, SkipCompleted, StopAtMarker, BeginEffect, EndEffect, Commit,
       RunEnds, OperatorDies, PowerLoss, vars, files
  <2>13. QED
    BY <1>1, <2>1, <2>2, <2>3, <2>4, <2>5, <2>6, <2>7, <2>8, <2>9, <2>10, <2>12 DEF Next
<1>2. IInv /\ [Next]_vars => [Disposable => Disposable' \/ (disk # stable /\ disk' = stable)]_vars
  BY <1>1 DEF TakenBack
<1>3. QED
  BY <1>2, Inductive, PTL DEF Spec, DoubtCanBeDisposedOf
=============================================================================
