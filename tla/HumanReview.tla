---------------------------- MODULE HumanReview ----------------------------
(***************************************************************************)
(* A human decision inside a desktop launch.  The waiting process records  *)
(* a review in the launch record (kriya/control/launch.py), offers it over *)
(* its private channel and waits for the decision (launch_approval.py,     *)
(* review_channel.py); the desktop host relays one decision at a time and  *)
(* waits for its result (ui/standalone/src/main/review_channel.ts).        *)
(*                                                                         *)
(* The waiter's coroutines run on one event loop and are suspended only    *)
(* while they wait for the socket to become readable: a frame is a few     *)
(* hundred bytes, so sending it never suspends.  What is in the socket and *)
(* what was read from it and not yet judged are one queue, inbox, for both *)
(* are judged in the same order and refused to the same offer; only what   *)
(* is still in the socket when an answer meets the end of the host is lost.*)
(*                                                                         *)
(* The host echoes what the review frame said, so its capability is right  *)
(* exactly when its review is: frames that break the grammar, name another *)
(* launch or kind, or carry a wrong capability are left out.               *)
(***************************************************************************)
EXTENDS Naturals, Sequences, FiniteSets

CONSTANTS
    R,            \* reviews are 1..R, in the order they are requested
    MaxFaults,    \* bound on saves of the launch record that fail
    MaxTimeouts   \* bound on decisions whose result the host stops waiting for

ASSUME ReviewAssumption ==
    /\ R \in Nat \ {0}
    /\ MaxFaults \in Nat
    /\ MaxTimeouts \in Nat

VARIABLES
    record,     \* the launch record in memory: the pending review, each review's status
    disk,       \* the launch record on disk
    requested,  \* reviews requested so far
    pc,         \* the place of each review's coroutine
    due,        \* the review whose deadline each wait took
    took,       \* the decision the waiter accepted for each review
    outcome,    \* what the workflow was told of each review
    audit,      \* the decision document of each review
    open,       \* the channel's open review, 0 without one
    decided,    \* the reviews the channel accepted a decision for
    link,       \* the waiter's end of the channel
    phase,      \* the launch is running, ended, or its process died
    late,       \* the deadlines of reviews 1..late have passed
    inbox,      \* frames from the host
    outbox,     \* frames to the host
    hostUp,     \* the host's end is open
    shown,      \* the review the host can relay a decision for
    awaiting,   \* the decision the host awaits the result of
    told,       \* the decision the host told the person was accepted
    faults, timeouts

docs == <<record, disk, faults>>
waits == <<requested, pc, due, took, outcome, audit>>
channel == <<open, decided, link>>
host == <<hostUp, shown, awaiting, told, timeouts>>
vars == <<docs, waits, channel, phase, late, inbox, outbox, host>>

Reviews == 1..R
Answers == {"approve", "reject"}
Status == [approve |-> "APPROVED", reject |-> "REJECTED"]
Nobody == [id |-> 0, answer |-> "none"]

----------------------------------------------------------------------------
(* The launch record *)

Save(new) == record' = new /\ disk' = new /\ UNCHANGED faults

\* The memory goes back to what it was; the document may have become visible.
SaveFails(new) ==
    /\ faults < MaxFaults /\ faults' = faults + 1
    /\ disk' \in {disk, new}
    /\ UNCHANGED record

\* Faulty variant: the memory keeps the review that could not be saved.
SaveFailsKeeping(new) ==
    /\ faults < MaxFaults /\ faults' = faults + 1
    /\ disk' \in {disk, new}
    /\ record' = new

InstallFails(new) == SaveFails(new)

\* Review r becomes the pending one; an undecided earlier one is expired.
Installed(r) ==
    [current |-> r,
     status |-> [s \in Reviews |-> IF s = r THEN "PENDING"
                                   ELSE IF record.status[s] = "PENDING" THEN "EXPIRED"
                                   ELSE record.status[s]]]

Resolvable(r) == record.current = r /\ record.status[r] = "PENDING"

Resolved(r, status) == [record EXCEPT !.status[r] = status]

\* resolve_review answers True ...
Resolves(r, status) == Resolvable(r) /\ Save(Resolved(r, status))

\* ... or False: not the pending review any more, or not saved.
DoesNotResolve(r, status) ==
    \/ ~Resolvable(r) /\ UNCHANGED docs
    \/ Resolvable(r) /\ SaveFails(Resolved(r, status))

----------------------------------------------------------------------------
(* The waiter *)

At(r, place) == pc[r] = place
GoTo(r, place) == pc' = [pc EXCEPT ![r] = place]
Tell(r, what) == outcome' = [outcome EXCEPT ![r] = what]

\* Between a valid decision and the end of its wait nothing else is scheduled.
Free == phase = "running" /\ \A r \in Reviews : pc[r] \notin {"accepted", "audited"}

Send(frame) ==
    IF hostUp THEN outbox' = Append(outbox, frame) /\ UNCHANGED link
              ELSE UNCHANGED outbox /\ link' = "eof"

Result(r, code) == [type |-> "result", id |-> r, code |-> code]

\* The review ended with nobody having decided it.
Undecided(r, reason) ==
    /\ Resolves(r, "EXPIRED") \/ DoesNotResolve(r, "EXPIRED")
    /\ Tell(r, reason)
    /\ GoTo(r, "ended")

\* request_change_approval: the review is pending on record, or not offered.
Request(r) ==
    /\ Free
    /\ r = requested + 1
    /\ requested' = r
    /\ \/ Save(Installed(r)) /\ GoTo(r, "pending") /\ UNCHANGED outcome
       \/ InstallFails(Installed(r)) /\ GoTo(r, "ended") /\ Tell(r, "not_offered")
    /\ UNCHANGED <<due, took, audit, channel, phase, late, inbox, outbox, host>>

\* offer: the open review is superseded; a frame nothing can be waiting for
\* fails the channel, and the end of the host makes it unavailable.
Offer(r) ==
    /\ Free
    /\ At(r, "pending")
    /\ due' = [due EXCEPT ![r] = record.current]
    /\ \/ /\ link = "down"
          /\ Undecided(r, "channel_unavailable")
          /\ UNCHANGED <<channel, outbox>>
       \/ /\ link # "down" /\ inbox # <<>>
          /\ open' = 0 /\ link' = "down"
          /\ Undecided(r, "channel_unavailable")
          /\ UNCHANGED <<decided, outbox>>
       \/ /\ link # "down" /\ inbox = <<>> /\ (link = "eof" \/ ~hostUp)
          /\ open' = 0 /\ link' = "eof"
          /\ Undecided(r, "channel_unavailable")
          /\ UNCHANGED <<decided, outbox>>
       \/ /\ link = "up" /\ inbox = <<>> /\ hostUp
          /\ open' = r
          /\ Send([type |-> "review", id |-> r])
          /\ GoTo(r, "listening")
          /\ UNCHANGED <<decided, outcome, docs>>
    /\ UNCHANGED <<requested, took, audit, phase, late, inbox, host>>

Listens(r) == Free /\ At(r, "listening")

\* Faulty variant: what the superseded waiter has read is gone with it.
SupersededReading(r) ==
    /\ Listens(r)
    /\ open # r
    /\ inbox' = IF inbox = <<>> THEN inbox ELSE Tail(inbox)
    /\ Undecided(r, "review_expired")
    /\ UNCHANGED <<requested, due, took, audit, channel, phase, late, outbox, host>>

\* A newer review was offered, or the channel failed: this one is over.
Superseded(r) ==
    /\ Listens(r)
    /\ open # r
    /\ Undecided(r, "review_expired")
    /\ UNCHANGED <<requested, due, took, audit, channel, phase, late, inbox, outbox, host>>

\* _handle, one decision frame at a time.
Refuse(r, d) ==
    /\ d.id \notin decided /\ d.id # r
    /\ Send(Result(d.id, "STALE_REVIEW"))
    /\ UNCHANGED <<open, decided, pc, took, outcome, docs>>

RefuseLate(r, d) ==
    /\ d.id \notin decided /\ d.id = r /\ late >= due[r]
    /\ Send(Result(r, "REVIEW_EXPIRED"))
    /\ open' = 0
    /\ Undecided(r, "review_expired")
    /\ UNCHANGED <<decided, took>>

FailDuplicate(r, d) ==
    /\ d.id \in decided
    /\ open' = 0 /\ link' = "down"
    /\ Undecided(r, "channel_unavailable")
    /\ UNCHANGED <<decided, took, outbox>>

\* Faulty variant: that the review is decided is not remembered.
AcceptForgetting(r, d) ==
    /\ d.id \notin decided /\ d.id = r /\ late < due[r]
    /\ open' = 0
    /\ took' = [took EXCEPT ![r] = d.answer]
    /\ Send(Result(r, "ACCEPTED"))
    /\ GoTo(r, "accepted")
    /\ UNCHANGED <<decided, outcome, docs>>

\* Faulty variant: the decision is not compared with the open review.
AcceptAny(r, d) ==
    /\ d.id \notin decided /\ late < due[r]
    /\ open' = 0
    /\ decided' = decided \cup {r}
    /\ took' = [took EXCEPT ![r] = d.answer]
    /\ Send(Result(d.id, "ACCEPTED"))
    /\ GoTo(r, "accepted")
    /\ UNCHANGED <<outcome, docs>>

\* One valid decision spends the review's capability.
Accept(r, d) ==
    /\ d.id \notin decided /\ d.id = r /\ late < due[r]
    /\ open' = 0
    /\ decided' = decided \cup {r}
    /\ took' = [took EXCEPT ![r] = d.answer]
    /\ Send(Result(r, "ACCEPTED"))
    /\ GoTo(r, "accepted")
    /\ UNCHANGED <<outcome, docs>>

\* The next frame is judged.  Once its answer met the end of the host, nothing
\* more is read from the socket.
Judge(r) ==
    /\ Listens(r)
    /\ open = r /\ inbox # <<>>
    /\ LET d == Head(inbox)
       IN  Refuse(r, d) \/ RefuseLate(r, d) \/ FailDuplicate(r, d) \/ Accept(r, d)
    /\ \/ inbox' = Tail(inbox)
       \/ link' = "eof" /\ \E n \in 1..Len(inbox) : inbox' = SubSeq(inbox, 2, n)
    /\ UNCHANGED <<requested, due, audit, phase, late, host>>

HostGone(r) ==
    /\ Listens(r)
    /\ open = r /\ inbox = <<>> /\ (~hostUp \/ link = "eof")
    /\ open' = 0 /\ link' = "eof"
    /\ Undecided(r, "review_expired")
    /\ UNCHANGED <<requested, due, took, audit, decided, phase, late, inbox, outbox, host>>

\* Faulty variant: the deadline is looked at when something arrived.
ExpireOnArrival(r) ==
    /\ Listens(r)
    /\ open = r /\ late >= due[r] /\ inbox # <<>>
    /\ open' = 0
    /\ Undecided(r, "review_expired")
    /\ UNCHANGED <<requested, due, took, audit, decided, link, phase, late, inbox, outbox, host>>

\* The deadline passed; a decision that waits in the socket stays there.
Expire(r) ==
    /\ Listens(r)
    /\ open = r /\ late >= due[r]
    /\ open' = 0
    /\ Undecided(r, "review_expired")
    /\ UNCHANGED <<requested, due, took, audit, decided, link, phase, late, inbox, outbox, host>>

\* The wait is cancelled: the channel forgets its open review, whichever it is.
Interrupt(r) ==
    /\ Listens(r)
    /\ open' = 0
    /\ Undecided(r, "raised")
    /\ UNCHANGED <<requested, due, took, audit, decided, link, phase, late, inbox, outbox, host>>

\* The decision document, written once if it can be.
Audit(r) ==
    /\ phase = "running" /\ At(r, "accepted")
    /\ \/ audit' = [audit EXCEPT ![r] = took[r]]
       \/ UNCHANGED audit
    /\ GoTo(r, "audited")
    /\ UNCHANGED <<docs, requested, due, took, outcome, channel, phase, late, inbox, outbox, host>>

Word(r) == IF took[r] = "approve" THEN "approved" ELSE "declined"

\* Faulty variant: the workflow goes on whether or not the record was saved.
DecideUnsaved(r) ==
    /\ phase = "running" /\ At(r, "audited")
    /\ Resolves(r, Status[took[r]]) \/ DoesNotResolve(r, Status[took[r]])
    /\ Tell(r, Word(r))
    /\ GoTo(r, "ended")
    /\ UNCHANGED <<requested, due, took, audit, channel, phase, late, inbox, outbox, host>>

\* The record is saved before the workflow is told.
Decide(r) ==
    /\ phase = "running" /\ At(r, "audited")
    /\ \/ Resolves(r, Status[took[r]]) /\ Tell(r, Word(r))
       \/ DoesNotResolve(r, Status[took[r]]) /\ Tell(r, "not_recorded")
    /\ GoTo(r, "ended")
    /\ UNCHANGED <<requested, due, took, audit, channel, phase, late, inbox, outbox, host>>

\* Another change of the launch record is saved (phase, notes).
SaveNotes ==
    /\ Free
    /\ disk # record
    /\ Save(record)
    /\ UNCHANGED <<waits, channel, phase, late, inbox, outbox, host>>

Waiting(r) == pc[r] \in {"listening", "accepted", "audited"}

\* The launch ends: no review keeps waiting on record, the channel is closed.
Finish ==
    /\ phase = "running" /\ \A r \in Reviews : ~Waiting(r)
    /\ phase' = "ended"
    /\ LET last == [record EXCEPT !.status = [s \in Reviews |->
                        IF @[s] = "PENDING" THEN "EXPIRED" ELSE @[s]]]
       IN  \/ Save(last)
           \/ faults < MaxFaults /\ faults' = faults + 1 /\ record' = last /\ disk' \in {disk, last}
    /\ open' = 0 /\ link' = "down"
    /\ UNCHANGED <<waits, decided, late, inbox, outbox, host>>

Crash ==
    /\ phase = "running"
    /\ phase' = "dead"
    /\ link' = "down"
    /\ UNCHANGED <<docs, waits, open, decided, late, inbox, outbox, host>>

TimePasses ==
    /\ phase = "running" /\ late < requested
    /\ late' = late + 1
    /\ UNCHANGED <<docs, waits, channel, phase, inbox, outbox, host>>

----------------------------------------------------------------------------
(* The host *)

HostShut == hostUp' = FALSE /\ shown' = 0 /\ awaiting' = Nobody

\* A review while a decision awaits its result closes the channel ...
HostTakesReview(f) ==
    /\ f.type = "review"
    /\ IF awaiting # Nobody THEN HostShut
       ELSE shown' = f.id /\ UNCHANGED <<hostUp, awaiting>>
    /\ UNCHANGED told

\* ... and so does a result it does not await.
HostTakesResult(f) ==
    /\ f.type = "result"
    /\ IF awaiting.id # f.id THEN HostShut /\ UNCHANGED told
       ELSE /\ awaiting' = Nobody
            /\ shown' = IF f.code = "STALE_REVIEW" THEN shown ELSE 0
            /\ told' = IF f.code = "ACCEPTED" THEN [told EXCEPT ![f.id] = awaiting.answer] ELSE told
            /\ UNCHANGED hostUp

HostReads ==
    /\ hostUp /\ outbox # <<>>
    /\ outbox' = Tail(outbox)
    /\ HostTakesReview(Head(outbox)) \/ HostTakesResult(Head(outbox))
    /\ UNCHANGED <<docs, waits, channel, phase, late, inbox, timeouts>>

\* The waiter's end is closed, the host is quit, or a write fails.
HostCloses ==
    /\ hostUp
    /\ HostShut
    /\ UNCHANGED <<docs, waits, channel, phase, late, inbox, outbox, told, timeouts>>

\* The person decides the review the host was shown, one decision at a time.
PersonDecides(a) ==
    /\ hostUp /\ shown # 0 /\ awaiting = Nobody
    /\ awaiting' = [id |-> shown, answer |-> a]
    /\ inbox' = IF link = "down" THEN inbox ELSE Append(inbox, awaiting')
    /\ UNCHANGED <<docs, waits, channel, phase, late, outbox, hostUp, shown, told, timeouts>>

\* CHANNEL_TIMEOUT: the person may decide again.
HostTimesOut ==
    /\ awaiting # Nobody
    /\ timeouts < MaxTimeouts /\ timeouts' = timeouts + 1
    /\ awaiting' = Nobody
    /\ UNCHANGED <<docs, waits, channel, phase, late, inbox, outbox, hostUp, shown, told>>

----------------------------------------------------------------------------
Init ==
    /\ record = [current |-> 0, status |-> [r \in Reviews |-> "none"]]
    /\ disk = record
    /\ requested = 0 /\ late = 0 /\ phase = "running"
    /\ pc = [r \in Reviews |-> "unasked"] /\ due = [r \in Reviews |-> 0]
    /\ took = [r \in Reviews |-> "none"] /\ outcome = [r \in Reviews |-> "none"]
    /\ audit = [r \in Reviews |-> "none"]
    /\ open = 0 /\ decided = {} /\ link = "up"
    /\ inbox = <<>> /\ outbox = <<>>
    /\ hostUp = TRUE /\ shown = 0 /\ awaiting = Nobody /\ told = [r \in Reviews |-> "none"]
    /\ faults = 0 /\ timeouts = 0

Wait(r) ==
    Superseded(r) \/ Judge(r) \/ HostGone(r) \/ Expire(r) \/ Audit(r) \/ Decide(r)

Next ==
    \/ \E r \in Reviews : Request(r) \/ Offer(r) \/ Wait(r) \/ Interrupt(r)
    \/ SaveNotes \/ Finish \/ Crash \/ TimePasses
    \/ HostReads \/ HostCloses \/ HostTimesOut
    \/ \E a \in Answers : PersonDecides(a)

Spec == Init /\ [][Next]_vars

\* The event loop resumes each coroutine and the clock goes on; nothing is
\* expected of the person or the host.
Fairness ==
    /\ \A r \in Reviews : WF_vars(Wait(r))
    /\ WF_vars(TimePasses)

FairSpec == Spec /\ Fairness

----------------------------------------------------------------------------
(* Properties *)

Record ==
    [current : 0..R, status : [Reviews -> {"none", "PENDING", "APPROVED", "REJECTED", "EXPIRED"}]]

Frames ==
    [type : {"review"}, id : Reviews]
        \cup [type : {"result"}, id : Reviews, code : {"ACCEPTED", "STALE_REVIEW", "REVIEW_EXPIRED"}]

Decision == [id : Reviews, answer : Answers]

\* The variables have their types, and no accepted decision is left unfinished
\* while its review is still open.
TypeOK ==
    /\ record \in Record /\ disk \in Record /\ faults \in 0..MaxFaults
    /\ requested \in 0..R /\ late \in 0..requested
    /\ pc \in [Reviews -> {"unasked", "pending", "listening", "accepted", "audited", "ended"}]
    /\ due \in [Reviews -> 0..R] /\ took \in [Reviews -> Answers \cup {"none"}]
    /\ outcome \in [Reviews -> {"none", "not_offered", "channel_unavailable", "review_expired",
                                "raised", "not_recorded", "approved", "declined"}]
    /\ audit \in [Reviews -> Answers \cup {"none"}]
    /\ open \in 0..R /\ decided \subseteq Reviews /\ link \in {"up", "eof", "down"}
    /\ phase \in {"running", "ended", "dead"}
    /\ inbox \in Seq(Decision) /\ outbox \in Seq(Frames)
    /\ hostUp \in BOOLEAN /\ shown \in 0..R /\ awaiting \in Decision \cup {Nobody}
    /\ told \in [Reviews -> Answers \cup {"none"}] /\ timeouts \in 0..MaxTimeouts
    /\ \A r \in Reviews : took[r] # "none" => open # r /\ r \in decided

\* The workflow goes on, or ends as rejected, only on a decision that was
\* accepted and is on disk; and neither the record nor the decision document
\* ever says what was not accepted, after any failed save or death.
OutcomeIsOnRecord ==
    \A r \in Reviews :
        /\ outcome[r] = "approved" => took[r] = "approve" /\ disk.status[r] = "APPROVED"
        /\ outcome[r] = "declined" => took[r] = "reject" /\ disk.status[r] = "REJECTED"
        /\ disk.status[r] = "APPROVED" => took[r] = "approve"
        /\ disk.status[r] = "REJECTED" => took[r] = "reject"
        /\ audit[r] \in {"none", took[r]}

\* Why a review was not decided is told truly: its deadline passed, another
\* review was offered after it was requested, the channel ended, or another wait
\* was interrupted and took the open review with it; a decision that was
\* accepted is lost to the workflow only if its own save failed or a later
\* review took its place on record.
ReasonIsTrue ==
    \A r \in Reviews :
        /\ outcome[r] = "review_expired" =>
              \/ late >= due[r]
              \/ \E q \in Reviews \ {r} : due[q] >= r \/ outcome[q] = "raised"
              \/ link # "up"
        /\ outcome[r] = "channel_unavailable" => link # "up"
        /\ outcome[r] = "not_recorded" =>
              \/ faults > Cardinality({q \in Reviews : outcome[q] = "not_offered"})
              \/ \E q \in 1..requested : q > r /\ outcome[q] # "not_offered"

\* No decision is lost between the two ends: while the host awaits a result,
\* the decision is still to be judged, its result is on its way, or the channel
\* is gone and the host is told so.
HostIsAnswered ==
    awaiting # Nobody =>
        \/ \E i \in DOMAIN inbox : inbox[i].id = awaiting.id
        \/ \E i \in DOMAIN outbox : outbox[i].type = "result" /\ outbox[i].id = awaiting.id
        \/ link # "up"

\* Both ends tell one story, whichever reviews were superseded, expired or
\* interrupted while a decision was in flight: what the person is told was
\* accepted is what the waiter took for that review, and what the waiter took is
\* told or on its way for as long as the host's end is open.  Exempt is only a
\* host that stopped waiting for a result (see AcceptedIsWhatWasDecided).
BothEndsAgree ==
    timeouts = 0 =>
        \A r \in Reviews :
            /\ told[r] \in {"none", took[r]}
            /\ took[r] # "none" =>
                  \/ told[r] = took[r]
                  \/ \E i \in DOMAIN outbox : outbox[i] = Result(r, "ACCEPTED")
                  \/ ~hostUp

\* A review nobody answers does not hold the workspace: every wait ends, or the
\* process does.
EveryWaitEnds ==
    \A r \in Reviews : Waiting(r) ~> pc[r] = "ended" \/ phase # "running"

\* approval_host.ts: the waiter's result is the only proof that a decision was
\* accepted.  The decision the person is told of is the one that was accepted.
AcceptedIsWhatWasDecided ==
    \A r \in Reviews : told[r] # "none" => told[r] = took[r]
=============================================================================
