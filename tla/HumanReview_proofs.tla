------------------------- MODULE HumanReview_proofs -------------------------
(***************************************************************************)
(* Theorems about HumanReview, for any number of reviews, failed saves and *)
(* time-outs of the host.                                                  *)
(*                                                                         *)
(* What is on disk may be behind or ahead of the memory after a save that  *)
(* failed, and whichever it is gets saved again later; so both must back   *)
(* what the workflow was told, and neither may say more than was accepted. *)
(***************************************************************************)
EXTENDS HumanReview, FiniteSetTheorems, TLAPS

\* What was told of a review is the end of its wait; nothing is known of a
\* review that was not requested; an accepted decision is known until then.
Places ==
    \A r \in Reviews :
        /\ r > requested => pc[r] = "unasked"
        /\ outcome[r] # "none" => pc[r] = "ended"
        /\ pc[r] \in {"accepted", "audited"} => took[r] # "none"
        /\ pc[r] \in {"unasked", "pending", "listening"} => took[r] = "none"

\* A launch record says of a review what was accepted and the workflow told.
Backs(rec) ==
    \A r \in Reviews :
        /\ outcome[r] = "approved" => rec.status[r] = "APPROVED"
        /\ outcome[r] = "declined" => rec.status[r] = "REJECTED"
        /\ rec.status[r] = "APPROVED" => took[r] = "approve"
        /\ rec.status[r] = "REJECTED" => took[r] = "reject"

AuditIsTrue == \A r \in Reviews : audit[r] \in {"none", took[r]}

Recorded == Places /\ Backs(record) /\ Backs(disk) /\ AuditIsTrue

\* Requests of which the launch record could not be saved.
NotOffered == {q \in Reviews : outcome[q] = "not_offered"}

\* The review on record is the last one that could be saved; until its wait ends
\* it is pending, and only then has it a deadline.
Current ==
    /\ record.current <= requested
    /\ record.current # 0 => record.current \notin NotOffered
    /\ \A r \in Reviews :
          /\ pc[r] # "unasked" => r \in NotOffered \/ r <= record.current
          /\ pc[r] \in {"unasked", "pending"} => due[r] = 0
          /\ pc[r] \notin {"unasked", "ended"} /\ phase = "running" /\ record.current = r
                => record.status[r] = "PENDING"

\* Why the open review may be another one, or none.
Overtaken(r) ==
    \/ late >= due[r]
    \/ \E q \in Reviews \ {r} : due[q] >= r \/ outcome[q] = "raised"
    \/ link # "up"

\* A wait whose review is not open any more was overtaken before it finds out.
Expired ==
    \A r \in Reviews :
        outcome[r] = "review_expired" \/ (pc[r] = "listening" /\ open # r) => Overtaken(r)

Unavailable == (\E r \in Reviews : outcome[r] = "channel_unavailable") => link # "up"

\* Every request that could not be saved took a fault of its own.
Faulted == Cardinality(NotOffered) <= faults

Replaced(r) == \E q \in 1..requested : q > r /\ outcome[q] # "not_offered"

Unrecorded ==
    \A r \in Reviews :
        outcome[r] = "not_recorded" => faults > Cardinality(NotOffered) \/ Replaced(r)

Reasoned == Current /\ Expired /\ Unavailable /\ Faulted /\ Unrecorded

IsResult(frame) == frame.type = "result"

\* While no time-out let the person decide again, one decision at most is under
\* way: it is still to be judged, or its one result is in flight and says what
\* the waiter took.
OneInFlight ==
    timeouts = 0 /\ hostUp =>
        /\ Len(inbox) <= 1
        /\ \A i \in DOMAIN inbox : inbox[i] = awaiting
        /\ \A i \in DOMAIN outbox : IsResult(outbox[i]) =>
              /\ inbox = <<>>
              /\ outbox[i].id = awaiting.id
              /\ outbox[i].code = "ACCEPTED" => took[awaiting.id] = awaiting.answer
              /\ \A j \in DOMAIN outbox : IsResult(outbox[j]) => j = i

IInv == TypeOK /\ Recorded /\ HostIsAnswered /\ Reasoned /\ OneInFlight /\ BothEndsAgree

----------------------------------------------------------------------------
(* Types *)

StatusNames == {"none", "PENDING", "APPROVED", "REJECTED", "EXPIRED"}

Reasons == {"channel_unavailable", "review_expired", "raised"}

DocsTyped == record \in Record /\ disk \in Record /\ faults \in 0..MaxFaults

LEMMA RecordTypes ==
    ASSUME TypeOK, NEW r \in Reviews, NEW status \in StatusNames
    PROVE  Installed(r) \in Record /\ Resolved(r, status) \in Record
<1> DEFINE S == [Reviews -> StatusNames]
<1>1. record.current \in 0..R /\ record.status \in S /\ r \in 0..R
  BY DEF TypeOK, Record, StatusNames, Reviews
<1>2. [s \in Reviews |-> IF s = r THEN "PENDING"
                         ELSE IF record.status[s] = "PENDING" THEN "EXPIRED"
                         ELSE record.status[s]] \in S
  BY <1>1 DEF StatusNames
<1>3. Installed(r) \in Record
  BY <1>1, <1>2 DEF Installed, Record, StatusNames
<1>4. Resolved(r, status) = [current |-> record.current, status |-> [record.status EXCEPT ![r] = status]]
  <2>1. record = [current |-> record.current, status |-> record.status]
    BY <1>1 DEF TypeOK, Record
  <2>2. Resolved(r, status) = [record EXCEPT !.status = [record.status EXCEPT ![r] = status]]
    BY <1>1, <2>1 DEF Resolved
  <2>3. QED
    BY <2>1, <2>2
<1>5. Resolved(r, status) \in Record
  BY <1>1, <1>4 DEF Record, StatusNames
<1>6. QED
  BY <1>3, <1>5

LEMMA SaveTyped ==
    ASSUME TypeOK, NEW new \in Record, Save(new) \/ SaveFails(new)
    PROVE  DocsTyped'
BY ReviewAssumption DEF TypeOK, DocsTyped, Save, SaveFails

LEMMA ResolveTyped ==
    ASSUME TypeOK, NEW r \in Reviews, NEW status \in StatusNames,
           Resolves(r, status) \/ DoesNotResolve(r, status)
    PROVE  DocsTyped'
<1>1. Resolved(r, status) \in Record
  BY RecordTypes
<1>2. CASE UNCHANGED docs
  BY <1>2 DEF TypeOK, DocsTyped, docs
<1>3. CASE Save(Resolved(r, status)) \/ SaveFails(Resolved(r, status))
  BY <1>1, <1>3, SaveTyped
<1>4. QED
  BY <1>2, <1>3 DEF Resolves, DoesNotResolve

LEMMA UndecidedTyped ==
    ASSUME TypeOK, NEW r \in Reviews, NEW reason \in Reasons, Undecided(r, reason)
    PROVE  /\ DocsTyped'
           /\ outcome' = [outcome EXCEPT ![r] = reason]
           /\ pc' = [pc EXCEPT ![r] = "ended"]
BY ResolveTyped DEF Undecided, Tell, GoTo, StatusNames

LEMMA InitTyped == Init => TypeOK
BY ReviewAssumption, SMT
   DEF Init, TypeOK, Record, Reviews, Nobody, Decision, Frames, Answers

\* A frame to the host is queued, or the end of the host is noticed.
LEMMA SendTyped ==
    ASSUME TypeOK, NEW frame \in Frames, Send(frame)
    PROVE  outbox' \in Seq(Frames) /\ link' \in {"up", "eof", "down"}
<1>1. outbox \in Seq(Frames) /\ link \in {"up", "eof", "down"}
  BY DEF TypeOK
<1>2. Append(outbox, frame) \in Seq(Frames)
  BY <1>1
<1>3. QED
  BY <1>1, <1>2 DEF Send

LEMMA RequestTyped == ASSUME TypeOK, NEW r \in Reviews, Request(r) PROVE TypeOK'
<1>1. DocsTyped'
  BY RecordTypes, SaveTyped DEF Request, InstallFails, StatusNames
<1>2. requested' \in 0..R /\ late \in 0..requested'
  <2>1. requested \in 0..R /\ late \in 0..requested /\ r \in 1..R
    BY DEF TypeOK, Reviews
  <2>2. r = requested + 1 /\ requested' = r
    BY DEF Request
  <2>3. QED
    BY <2>1, <2>2, ReviewAssumption
<1>3. /\ pc' \in [Reviews -> {"unasked", "pending", "listening", "accepted", "audited", "ended"}]
      /\ outcome' \in [Reviews -> {"none", "not_offered", "channel_unavailable", "review_expired",
                                   "raised", "not_recorded", "approved", "declined"}]
  BY DEF TypeOK, Request, GoTo, Tell
<1>4. UNCHANGED <<due, took, audit, channel, phase, late, inbox, outbox, host>>
  BY DEF Request
<1>5. QED
  BY <1>1, <1>2, <1>3, <1>4 DEF TypeOK, DocsTyped, channel, host

LEMMA OfferTyped == ASSUME TypeOK, Places, NEW r \in Reviews, Offer(r) PROVE TypeOK'
<1>1. due' \in [Reviews -> 0..R]
  <2>1. due' = [due EXCEPT ![r] = record.current]
    BY DEF Offer
  <2>2. record.current \in 0..R /\ due \in [Reviews -> 0..R]
    BY DEF TypeOK, Record
  <2>3. QED
    BY <2>1, <2>2
<1>2. UNCHANGED <<requested, took, audit, phase, late, inbox, host, decided>>
  BY DEF Offer, channel
<1>3. CASE Undecided(r, "channel_unavailable") /\ UNCHANGED <<channel, outbox>>
  <2>1. /\ DocsTyped' /\ outcome' = [outcome EXCEPT ![r] = "channel_unavailable"]
        /\ pc' = [pc EXCEPT ![r] = "ended"]
    BY <1>3, UndecidedTyped DEF Reasons
  <2>2. QED
    BY <1>1, <1>2, <1>3, <2>1 DEF TypeOK, DocsTyped, channel, host
<1>4. CASE /\ Undecided(r, "channel_unavailable") /\ open' = 0
           /\ link' \in {"down", "eof"} /\ UNCHANGED outbox
  <2>1. open' \in 0..R /\ (took[r] # "none" => r \in decided)
    BY <1>4, ReviewAssumption DEF TypeOK
  <2>2. \A q \in Reviews : open' # q
    BY <1>4 DEF Reviews
  <2>3. /\ DocsTyped' /\ outcome' = [outcome EXCEPT ![r] = "channel_unavailable"]
        /\ pc' = [pc EXCEPT ![r] = "ended"]
    BY <1>4, UndecidedTyped DEF Reasons
  <2>4. QED
    BY <1>1, <1>2, <1>4, <2>1, <2>2, <2>3 DEF TypeOK, DocsTyped, host
<1>5. CASE /\ open' = r /\ Send([type |-> "review", id |-> r])
           /\ GoTo(r, "listening") /\ UNCHANGED <<outcome, docs>>
  <2>1. [type |-> "review", id |-> r] \in Frames
    BY DEF Frames
  <2>2. outbox' \in Seq(Frames) /\ link' \in {"up", "eof", "down"}
    BY <1>5, <2>1, SendTyped
  <2>3. took[r] = "none"
    BY DEF Places, Offer, At
  <2>4. open' \in 0..R
    BY <1>5 DEF Reviews
  <2>5. QED
    BY <1>1, <1>2, <1>5, <2>2, <2>3, <2>4 DEF TypeOK, GoTo, docs, host
<1>6. QED
  BY <1>3, <1>4, <1>5, Zenon DEF Offer

\* A frame that is judged is a decision of the person.
LEMMA HeadTyped ==
    ASSUME TypeOK, inbox # <<>>
    PROVE  Head(inbox) \in Decision /\ Tail(inbox) \in Seq(Decision)
BY DEF TypeOK

\* The answer to a decision frame, without the frame.
Verdict(r, d) == Refuse(r, d) \/ RefuseLate(r, d) \/ FailDuplicate(r, d) \/ Accept(r, d)

LEMMA VerdictTyped ==
    ASSUME TypeOK, Places, NEW r \in Reviews, NEW d \in Decision, At(r, "listening"),
           open = r, Verdict(r, d)
    PROVE  /\ DocsTyped'
           /\ pc' \in [Reviews -> {"unasked", "pending", "listening", "accepted", "audited", "ended"}]
           /\ took' \in [Reviews -> Answers \cup {"none"}]
           /\ outcome' \in [Reviews -> {"none", "not_offered", "channel_unavailable", "review_expired",
                                        "raised", "not_recorded", "approved", "declined"}]
           /\ open' \in 0..R /\ decided' \subseteq Reviews /\ link' \in {"up", "eof", "down"}
           /\ outbox' \in Seq(Frames)
           /\ \A q \in Reviews : took'[q] # "none" => open' # q /\ q \in decided'
<1> DEFINE Sent == outbox' \in Seq(Frames) /\ link' \in {"up", "eof", "down"}
<1>1. d.id \in Reviews /\ d.answer \in Answers
  BY DEF Decision
<1>2. \A code \in {"ACCEPTED", "STALE_REVIEW", "REVIEW_EXPIRED"}, q \in Reviews : Result(q, code) \in Frames
  BY DEF Result, Frames
<1>3. \A q \in Reviews : q # 0
  BY DEF Reviews
<1>4. CASE Refuse(r, d)
  <2>1. Sent
    BY <1>1, <1>2, <1>4, SendTyped DEF Refuse
  <2>2. QED
    BY <1>4, <2>1 DEF TypeOK, Refuse, DocsTyped, docs
<1>5. CASE RefuseLate(r, d)
  <2>1. Sent
    BY <1>2, <1>5, SendTyped DEF RefuseLate
  <2>2. /\ DocsTyped' /\ outcome' = [outcome EXCEPT ![r] = "review_expired"]
        /\ pc' = [pc EXCEPT ![r] = "ended"]
    BY <1>5, UndecidedTyped DEF RefuseLate, Reasons
  <2>3. open' \in 0..R /\ open' = 0 /\ UNCHANGED <<decided, took>>
    BY <1>5, ReviewAssumption DEF RefuseLate
  <2>4. QED
    BY <1>3, <2>1, <2>2, <2>3 DEF TypeOK
<1>6. CASE FailDuplicate(r, d)
  <2>1. /\ DocsTyped' /\ outcome' = [outcome EXCEPT ![r] = "channel_unavailable"]
        /\ pc' = [pc EXCEPT ![r] = "ended"]
    BY <1>6, UndecidedTyped DEF FailDuplicate, Reasons
  <2>2. open' \in 0..R /\ open' = 0 /\ link' = "down" /\ UNCHANGED <<decided, took, outbox>>
    BY <1>6, ReviewAssumption DEF FailDuplicate
  <2>3. QED
    BY <1>3, <2>1, <2>2 DEF TypeOK
<1>7. CASE Accept(r, d)
  <2>1. Sent
    BY <1>2, <1>7, SendTyped DEF Accept
  <2>2. /\ open' \in 0..R /\ open' = 0 /\ decided' = decided \cup {r}
        /\ took' = [took EXCEPT ![r] = d.answer] /\ pc' = [pc EXCEPT ![r] = "accepted"]
        /\ UNCHANGED <<outcome, record, disk, faults>>
    BY <1>7, ReviewAssumption DEF Accept, GoTo, docs
  <2>3. QED
    BY <1>1, <1>3, <2>1, <2>2 DEF TypeOK, DocsTyped
<1>8. QED
  BY <1>4, <1>5, <1>6, <1>7 DEF Verdict

\* What is left of the inbox, whether or not the rest can still be read.
LEMMA RestTyped ==
    ASSUME TypeOK, NEW r \in Reviews, Judge(r)
    PROVE  /\ inbox' \in Seq(Decision)
           /\ inbox' = Tail(inbox) \/ link' = "eof"
<1>0. inbox' = Tail(inbox) \/ (link' = "eof" /\ \E n \in 1..Len(inbox) : inbox' = SubSeq(inbox, 2, n))
  BY Zenon DEF Judge
<1>1. CASE inbox' = Tail(inbox)
  BY <1>1, HeadTyped DEF Judge
<1>2. ASSUME NEW n \in 1..Len(inbox), inbox' = SubSeq(inbox, 2, n) PROVE inbox' \in Seq(Decision)
  <2>1. inbox \in Seq(Decision)
    BY DEF TypeOK
  <2>2. QED
    BY <1>2, <2>1
<1>3. QED
  BY <1>0, <1>1, <1>2

LEMMA JudgeTyped == ASSUME TypeOK, Places, NEW r \in Reviews, Judge(r) PROVE TypeOK'
<1> DEFINE d == Head(inbox)
<1>1. d \in Decision /\ inbox' \in Seq(Decision)
  BY HeadTyped, RestTyped DEF Judge
<1>2. Verdict(r, d) /\ open = r /\ At(r, "listening")
  BY DEF Judge, Verdict, Listens
<1>3. UNCHANGED <<requested, due, audit, phase, late, host>>
  BY DEF Judge
<1> HIDE DEF d
<1>4. QED
  BY <1>1, <1>2, <1>3, VerdictTyped DEF TypeOK, DocsTyped, host

\* The waits that end undecided without a frame.
LEMMA EndTyped ==
    ASSUME TypeOK, NEW r \in Reviews, Superseded(r) \/ HostGone(r) \/ Expire(r) \/ Interrupt(r)
    PROVE  TypeOK'
<1>1. /\ DocsTyped' /\ pc' = [pc EXCEPT ![r] = "ended"]
      /\ \E reason \in Reasons : outcome' = [outcome EXCEPT ![r] = reason]
  BY UndecidedTyped DEF Superseded, HostGone, Expire, Interrupt, Reasons
<1>2. open' \in {open, 0} /\ link' \in {link, "eof"}
  BY DEF Superseded, HostGone, Expire, Interrupt, channel
<1>3. UNCHANGED <<requested, due, took, audit, decided, phase, late, inbox, outbox, host>>
  BY DEF Superseded, HostGone, Expire, Interrupt, channel
<1>4. open' \in 0..R /\ \A q \in Reviews : took[q] # "none" => open' # q
  BY <1>2, ReviewAssumption DEF TypeOK, Reviews
<1>5. QED
  BY <1>1, <1>2, <1>3, <1>4 DEF TypeOK, DocsTyped, Reasons, host

LEMMA AuditTyped == ASSUME TypeOK, NEW r \in Reviews, Audit(r) PROVE TypeOK'
BY DEF TypeOK, Audit, GoTo, docs, channel, host

LEMMA DecideTyped == ASSUME TypeOK, Places, NEW r \in Reviews, Decide(r) PROVE TypeOK'
<1>1. took[r] \in Answers
  BY DEF Places, Decide, At, TypeOK
<1>2. Status[took[r]] \in StatusNames
  BY <1>1 DEF Status, Answers, StatusNames
<1>3. DocsTyped'
  BY <1>2, ResolveTyped DEF Decide
<1>4. QED
  BY <1>3 DEF TypeOK, DocsTyped, Decide, Tell, Word, GoTo, channel, host

\* The launch record the launch ends with.
Last == [record EXCEPT !.status = [s \in Reviews |-> IF @[s] = "PENDING" THEN "EXPIRED" ELSE @[s]]]

LEMMA LastTyped ==
    ASSUME TypeOK
    PROVE  /\ Last = [current |-> record.current,
                      status |-> [s \in Reviews |-> IF record.status[s] = "PENDING" THEN "EXPIRED"
                                                    ELSE record.status[s]]]
           /\ Last \in Record
<1> DEFINE f == [s \in Reviews |-> IF record.status[s] = "PENDING" THEN "EXPIRED" ELSE record.status[s]]
<1>1. record.current \in 0..R /\ record.status \in [Reviews -> StatusNames]
  BY DEF TypeOK, Record, StatusNames
<1>2. record = [current |-> record.current, status |-> record.status]
  BY DEF TypeOK, Record
<1>3. Last = [record EXCEPT !.status = f]
  BY DEF Last
<1>4. f \in [Reviews -> StatusNames]
  BY <1>1 DEF StatusNames
<1> HIDE DEF f
<1>5. Last = [current |-> record.current, status |-> f]
  BY <1>2, <1>3
<1>6. Last \in Record
  BY <1>1, <1>4, <1>5 DEF Record, StatusNames
<1>7. QED
  BY <1>5, <1>6 DEF f

LEMMA FinishSteps ==
    ASSUME Finish
    PROVE  /\ Save(Last) \/ (faults < MaxFaults /\ faults' = faults + 1 /\ record' = Last /\ disk' \in {disk, Last})
           /\ open' = 0 /\ link' = "down" /\ phase' = "ended"
           /\ UNCHANGED <<waits, decided, late, inbox, outbox, host>>
BY DEF Finish, Last

LEMMA FinishTyped == ASSUME TypeOK, Finish PROVE TypeOK'
<1>1. DocsTyped'
  BY LastTyped, FinishSteps, ReviewAssumption DEF TypeOK, DocsTyped, Save
<1>2. open' \in 0..R /\ \A q \in Reviews : open' # q
  BY FinishSteps, ReviewAssumption DEF Reviews
<1>3. QED
  BY <1>1, <1>2, FinishSteps DEF TypeOK, DocsTyped, waits, host

LEMMA HostTyped ==
    ASSUME TypeOK, HostReads \/ HostCloses \/ HostTimesOut \/ \E a \in Answers : PersonDecides(a)
    PROVE  TypeOK'
<1>1. HostShut => hostUp' = FALSE /\ shown' \in 0..R /\ awaiting' = Nobody
  BY ReviewAssumption DEF HostShut
<1>2. CASE HostReads
  <2>1. Head(outbox) \in Frames /\ outbox' \in Seq(Frames)
    BY <1>2 DEF HostReads, TypeOK
  <2>2. \A f \in Frames : f.id \in Reviews
    BY DEF Frames
  <2>3. CASE HostTakesReview(Head(outbox))
    <3>1. /\ hostUp' \in BOOLEAN /\ shown' \in 0..R
          /\ awaiting' \in Decision \cup {Nobody} /\ told' = told
      <4>1. Head(outbox).id \in 0..R /\ told' = told
        BY <2>1, <2>2, <2>3 DEF HostTakesReview, Reviews
      <4>2. HostShut \/ (shown' = Head(outbox).id /\ UNCHANGED <<hostUp, awaiting>>)
        BY <2>3 DEF HostTakesReview
      <4>3. CASE HostShut
        BY <1>1, <4>1, <4>3
      <4>4. CASE shown' = Head(outbox).id /\ UNCHANGED <<hostUp, awaiting>>
        BY <4>1, <4>4 DEF TypeOK
      <4>5. QED
        BY <4>2, <4>3, <4>4
    <3>2. QED
      BY <1>2, <2>1, <3>1 DEF HostReads, TypeOK, docs, waits, channel
  <2>4. CASE HostTakesResult(Head(outbox))
    <3> DEFINE f == Head(outbox)
    <3>1. /\ hostUp' \in BOOLEAN /\ shown' \in 0..R
          /\ awaiting' \in Decision \cup {Nobody}
      <4>1. HostShut \/ (awaiting' = Nobody /\ shown' \in {shown, 0} /\ UNCHANGED hostUp)
        BY <2>4 DEF HostTakesResult
      <4>2. CASE awaiting' = Nobody /\ shown' \in {shown, 0} /\ UNCHANGED hostUp
        <5>1. shown' \in 0..R
          BY <4>2, ReviewAssumption DEF TypeOK
        <5>2. QED
          BY <4>2, <5>1 DEF TypeOK
      <4>3. QED
        BY <1>1, <4>1, <4>2
    <3>2. told' \in [Reviews -> Answers \cup {"none"}]
      <4>1. CASE awaiting.id # f.id
        BY <2>4, <4>1 DEF HostTakesResult, TypeOK
      <4>2. CASE awaiting.id = f.id
        <5>1. awaiting \in Decision
          BY <2>1, <2>2, <4>2 DEF TypeOK, Nobody, Reviews
        <5>2. awaiting.answer \in Answers
          BY <5>1 DEF Decision
        <5>3. QED
          BY <2>4, <4>2, <5>2 DEF HostTakesResult, TypeOK
      <4>3. QED
        BY <4>1, <4>2
    <3>3. QED
      BY <1>2, <2>1, <3>1, <3>2 DEF HostReads, TypeOK, docs, waits, channel
  <2>5. QED
    BY <1>2, <2>3, <2>4 DEF HostReads
<1>3. CASE HostCloses
  BY <1>1, <1>3 DEF HostCloses, TypeOK, docs, waits, channel
<1>4. CASE HostTimesOut
  BY <1>4, ReviewAssumption DEF HostTimesOut, TypeOK, docs, waits, channel
<1>5. ASSUME NEW a \in Answers, PersonDecides(a) PROVE TypeOK'
  <2>1. [id |-> shown, answer |-> a] \in Decision
    BY <1>5 DEF PersonDecides, Decision, TypeOK, Reviews
  <2>2. awaiting' \in Decision /\ inbox' \in Seq(Decision)
    BY <1>5, <2>1 DEF PersonDecides, TypeOK
  <2>3. QED
    BY <1>5, <2>2 DEF PersonDecides, TypeOK, docs, waits, channel
<1>6. QED
  BY <1>2, <1>3, <1>4, <1>5

LEMMA LaunchTyped == ASSUME TypeOK, SaveNotes \/ Crash \/ TimePasses PROVE TypeOK'
<1>1. CASE SaveNotes
  <2>1. DocsTyped'
    BY <1>1, SaveTyped DEF SaveNotes, TypeOK
  <2>2. QED
    BY <1>1, <2>1 DEF SaveNotes, DocsTyped, TypeOK, waits, channel, host
<1>2. CASE Crash
  BY <1>2 DEF Crash, TypeOK, docs, waits, host
<1>3. CASE TimePasses
  BY <1>3 DEF TimePasses, TypeOK, docs, waits, channel, host
<1>4. QED
  BY <1>1, <1>2, <1>3

LEMMA NextTyped == ASSUME TypeOK, Places, [Next]_vars PROVE TypeOK'
<1>1. CASE UNCHANGED vars
  BY <1>1 DEF vars, docs, waits, channel, host, TypeOK
<1>2. ASSUME NEW r \in Reviews, Request(r) \/ Offer(r) \/ Wait(r) \/ Interrupt(r) PROVE TypeOK'
  BY <1>2, RequestTyped, OfferTyped, JudgeTyped, EndTyped, AuditTyped, DecideTyped DEF Wait
<1>3. CASE SaveNotes \/ Finish \/ Crash \/ TimePasses
  BY <1>3, LaunchTyped, FinishTyped
<1>4. CASE HostReads \/ HostCloses \/ HostTimesOut \/ \E a \in Answers : PersonDecides(a)
  BY <1>4, HostTyped
<1>5. QED
  BY <1>1, <1>2, <1>3, <1>4 DEF Next

----------------------------------------------------------------------------
(* What is on record *)

LEMMA InitRecorded == Init => Recorded
BY DEF Init, Recorded, Places, Backs, AuditIsTrue

\* A save, whether or not it fails, leaves what backs the workflow's answers.
LEMMA SaveBacks ==
    ASSUME Backs(record), Backs(disk), NEW new, Backs(new), Save(new) \/ SaveFails(new)
    PROVE  Backs(record') /\ Backs(disk')
<1>1. record' \in {record, new} /\ disk' \in {disk, new}
  BY DEF Save, SaveFails
<1>2. QED
  BY <1>1

\* The pending review is replaced by one of which nothing is known.
LEMMA InstalledBacks ==
    ASSUME TypeOK, Recorded, NEW r \in Reviews, r > requested
    PROVE  Backs(Installed(r))
<1>1. outcome[r] = "none"
  BY DEF Recorded, Places
<1>2. \A s \in Reviews : Installed(r).status[s] =
        IF s = r THEN "PENDING" ELSE IF record.status[s] = "PENDING" THEN "EXPIRED" ELSE record.status[s]
  BY DEF Installed
<1>3. QED
  BY <1>1, <1>2 DEF Recorded, Backs

\* An undecided review is resolved, to what was accepted or to nothing.
LEMMA ResolvedBacks ==
    ASSUME TypeOK, Recorded, NEW r \in Reviews, NEW status \in StatusNames, Resolvable(r),
           status = "APPROVED" => took[r] = "approve", status = "REJECTED" => took[r] = "reject"
    PROVE  Backs(Resolved(r, status))
<1>1. \A s \in Reviews : Resolved(r, status).status[s] = IF s = r THEN status ELSE record.status[s]
  BY DEF Resolved, TypeOK, Record
<1>2. outcome[r] \notin {"approved", "declined"}
  BY DEF Resolvable, Recorded, Backs
<1>3. QED
  BY <1>1, <1>2 DEF Recorded, Backs

LEMMA ResolveBacks ==
    ASSUME TypeOK, Recorded, NEW r \in Reviews, NEW status \in StatusNames,
           Resolves(r, status) \/ DoesNotResolve(r, status),
           status = "APPROVED" => took[r] = "approve", status = "REJECTED" => took[r] = "reject"
    PROVE  Backs(record') /\ Backs(disk')
<1>1. CASE Resolvable(r) /\ (Save(Resolved(r, status)) \/ SaveFails(Resolved(r, status)))
  BY <1>1, ResolvedBacks, SaveBacks DEF Recorded
<1>2. CASE UNCHANGED docs
  BY <1>2 DEF docs, Recorded
<1>3. QED
  BY <1>1, <1>2 DEF Resolves, DoesNotResolve

\* A wait that ends undecided tells the workflow nothing the record has to back.
LEMMA UndecidedRecorded ==
    ASSUME TypeOK, Recorded, NEW r \in Reviews, NEW reason \in Reasons, Undecided(r, reason),
           pc[r] # "unasked", UNCHANGED <<took, audit, requested>>
    PROVE  Recorded'
<1>1. Backs(record') /\ Backs(disk')
  BY ResolveBacks DEF Undecided, StatusNames
<1>2. pc' = [pc EXCEPT ![r] = "ended"] /\ outcome' = [outcome EXCEPT ![r] = reason]
  BY DEF Undecided, GoTo, Tell
<1>3. Places'
  BY <1>2 DEF Recorded, Places, TypeOK
<1>4. Backs(record)' /\ Backs(disk)'
  BY <1>1, <1>2 DEF Backs, TypeOK, Reasons
<1>5. QED
  BY <1>3, <1>4 DEF Recorded, AuditIsTrue

LEMMA RequestRecorded == ASSUME TypeOK, Recorded, NEW r \in Reviews, Request(r) PROVE Recorded'
<1>1. r > requested /\ requested' = r
  BY DEF Request, TypeOK
<1>2. Backs(record') /\ Backs(disk')
  BY <1>1, InstalledBacks, SaveBacks DEF Request, InstallFails, Recorded
<1>3. UNCHANGED <<took, audit>>
  BY DEF Request
<1>4. took[r] = "none" /\ pc[r] = "unasked"
  BY <1>1 DEF Recorded, Places
<1>5. Places'
  <2>1. CASE GoTo(r, "pending") /\ UNCHANGED outcome
    BY <1>1, <1>3, <1>4, <2>1 DEF Recorded, Places, GoTo, TypeOK, Reviews
  <2>2. CASE GoTo(r, "ended") /\ Tell(r, "not_offered")
    BY <1>1, <1>3, <2>2 DEF Recorded, Places, GoTo, Tell, TypeOK, Reviews
  <2>3. QED
    BY <2>1, <2>2 DEF Request
<1>6. Backs(record)' /\ Backs(disk)'
  <2>1. outcome' = outcome \/ outcome' = [outcome EXCEPT ![r] = "not_offered"]
    BY DEF Request, Tell
  <2>2. QED
    BY <1>2, <1>3, <2>1 DEF Backs, TypeOK
<1>7. QED
  BY <1>3, <1>5, <1>6 DEF Recorded, AuditIsTrue

LEMMA OfferRecorded == ASSUME TypeOK, Recorded, NEW r \in Reviews, Offer(r) PROVE Recorded'
<1>1. UNCHANGED <<took, audit, requested>> /\ pc[r] = "pending"
  BY DEF Offer, At
<1>2. CASE Undecided(r, "channel_unavailable")
  BY <1>1, <1>2, UndecidedRecorded DEF Reasons
<1>3. CASE GoTo(r, "listening") /\ UNCHANGED <<outcome, docs>>
  BY <1>1, <1>3 DEF Recorded, Places, Backs, AuditIsTrue, GoTo, docs, TypeOK
<1>4. QED
  BY <1>2, <1>3, Zenon DEF Offer

\* What was accepted of a review is known of it and of no other.
LEMMA AcceptRecorded ==
    ASSUME TypeOK, Recorded, NEW r \in Reviews, NEW d \in Decision, At(r, "listening"), Accept(r, d),
           UNCHANGED <<requested, audit>>
    PROVE  Recorded'
<1>1. /\ took' = [took EXCEPT ![r] = d.answer] /\ pc' = [pc EXCEPT ![r] = "accepted"]
      /\ UNCHANGED <<outcome, record, disk>>
  BY DEF Accept, GoTo, docs
<1>2. d.answer \in Answers /\ d.answer # "none"
  BY DEF Decision, Answers
<1>3. took[r] = "none" /\ pc[r] = "listening"
  BY DEF Recorded, Places, At
<1>4. /\ audit[r] = "none" /\ outcome[r] = "none"
      /\ record.status[r] \notin {"APPROVED", "REJECTED"}
      /\ disk.status[r] \notin {"APPROVED", "REJECTED"}
  BY <1>3 DEF Recorded, Places, Backs, AuditIsTrue
<1>5. Places'
  BY <1>1, <1>2, <1>3, <1>4 DEF Recorded, Places, TypeOK
<1>6. Backs(record)' /\ Backs(disk)'
  BY <1>1, <1>4 DEF Recorded, Backs, TypeOK
<1>7. AuditIsTrue'
  BY <1>1, <1>4 DEF Recorded, AuditIsTrue, TypeOK
<1>8. QED
  BY <1>5, <1>6, <1>7 DEF Recorded

LEMMA JudgeRecorded == ASSUME TypeOK, Recorded, NEW r \in Reviews, Judge(r) PROVE Recorded'
<1> DEFINE d == Head(inbox)
<1>1. d \in Decision
  BY HeadTyped DEF Judge
<1>2. At(r, "listening") /\ pc[r] # "unasked" /\ UNCHANGED <<requested, audit>>
  BY DEF Judge, Listens, At
<1>3. Verdict(r, d)
  BY DEF Judge, Verdict
<1> HIDE DEF d
<1>4. CASE Refuse(r, d)
  BY <1>2, <1>4 DEF Refuse, Recorded, Places, Backs, AuditIsTrue, docs
<1>5. CASE RefuseLate(r, d) \/ FailDuplicate(r, d)
  BY <1>2, <1>5, UndecidedRecorded DEF RefuseLate, FailDuplicate, Reasons
<1>6. CASE Accept(r, d)
  BY <1>1, <1>2, <1>6, AcceptRecorded
<1>7. QED
  BY <1>3, <1>4, <1>5, <1>6 DEF Verdict

LEMMA EndRecorded ==
    ASSUME TypeOK, Recorded, NEW r \in Reviews, Superseded(r) \/ HostGone(r) \/ Expire(r) \/ Interrupt(r)
    PROVE  Recorded'
<1>1. \E reason \in Reasons : Undecided(r, reason)
  BY DEF Superseded, HostGone, Expire, Interrupt, Reasons
<1>2. pc[r] # "unasked" /\ UNCHANGED <<took, audit, requested>>
  BY DEF Superseded, HostGone, Expire, Interrupt, Listens, At
<1>3. QED
  BY <1>1, <1>2, UndecidedRecorded

LEMMA AuditRecorded == ASSUME TypeOK, Recorded, NEW r \in Reviews, Audit(r) PROVE Recorded'
<1>1. /\ audit' = [audit EXCEPT ![r] = took[r]] \/ audit' = audit
      /\ pc' = [pc EXCEPT ![r] = "audited"] /\ pc[r] = "accepted"
      /\ UNCHANGED <<record, disk, requested, took, outcome>>
  BY DEF Audit, GoTo, At, docs
<1>2. Places'
  BY <1>1 DEF Recorded, Places, TypeOK
<1>3. QED
  BY <1>1, <1>2 DEF Recorded, Backs, AuditIsTrue, TypeOK

\* The workflow is told after the save, and only what was saved.
LEMMA DecideRecorded == ASSUME TypeOK, Recorded, NEW r \in Reviews, Decide(r) PROVE Recorded'
<1> DEFINE status == Status[took[r]]
<1>1. /\ pc[r] = "audited" /\ pc' = [pc EXCEPT ![r] = "ended"]
      /\ UNCHANGED <<took, audit, requested>>
  BY DEF Decide, At, GoTo
<1>2. took[r] \in Answers
  BY <1>1 DEF Recorded, Places, TypeOK
<1>3. /\ took[r] = "approve" => status = "APPROVED" /\ Word(r) = "approved"
      /\ took[r] = "reject" => status = "REJECTED" /\ Word(r) = "declined"
      /\ status \in StatusNames
  BY <1>2 DEF Status, Answers, Word, StatusNames
<1>4. Resolves(r, status) \/ DoesNotResolve(r, status)
  BY DEF Decide
<1> HIDE DEF status
<1>5. Backs(record') /\ Backs(disk')
  BY <1>2, <1>3, <1>4, ResolveBacks DEF Answers
<1>6. CASE Resolves(r, Status[took[r]]) /\ Tell(r, Word(r))
  <2>1. record' = Resolved(r, status) /\ disk' = Resolved(r, status)
    BY <1>6 DEF Resolves, Save, status
  <2>2. record'.status[r] = status /\ disk'.status[r] = status
    BY <2>1 DEF Resolved, TypeOK, Record
  <2>3. outcome' = [outcome EXCEPT ![r] = Word(r)]
    BY <1>6 DEF Tell
  <2>4. Backs(record)' /\ Backs(disk)'
    BY <1>1, <1>2, <1>3, <1>5, <2>2, <2>3 DEF Backs, TypeOK, Answers
  <2>5. Places'
    BY <1>1, <2>3 DEF Recorded, Places, TypeOK
  <2>6. QED
    BY <1>1, <2>4, <2>5 DEF Recorded, AuditIsTrue
<1>7. CASE Tell(r, "not_recorded")
  <2>1. outcome' = [outcome EXCEPT ![r] = "not_recorded"]
    BY <1>7 DEF Tell
  <2>2. Places'
    BY <1>1, <2>1 DEF Recorded, Places, TypeOK
  <2>3. Backs(record)' /\ Backs(disk)'
    BY <1>1, <1>5, <2>1 DEF Backs, TypeOK
  <2>4. QED
    BY <1>1, <2>2, <2>3 DEF Recorded, AuditIsTrue
<1>8. QED
  BY <1>6, <1>7, Zenon DEF Decide

LEMMA FinishRecorded == ASSUME TypeOK, Recorded, Finish PROVE Recorded'
<1>1. \A s \in Reviews :
        Last.status[s] = IF record.status[s] = "PENDING" THEN "EXPIRED" ELSE record.status[s]
  BY LastTyped
<1>2. Backs(Last)
  BY <1>1 DEF Recorded, Backs
<1>3. record' = Last /\ disk' \in {disk, Last}
  BY FinishSteps DEF Save
<1>4. UNCHANGED waits
  BY FinishSteps
<1>5. Backs(record)' /\ Backs(disk)'
  BY <1>2, <1>3, <1>4 DEF Recorded, Backs, waits
<1>6. QED
  BY <1>4, <1>5 DEF Recorded, Places, AuditIsTrue, waits

LEMMA NextRecorded == ASSUME TypeOK, Recorded, [Next]_vars PROVE Recorded'
<1>1. ASSUME NEW r \in Reviews, Request(r) \/ Offer(r) \/ Wait(r) \/ Interrupt(r) PROVE Recorded'
  BY <1>1, RequestRecorded, OfferRecorded, JudgeRecorded, EndRecorded, AuditRecorded, DecideRecorded
  DEF Wait
<1>2. CASE Finish
  BY <1>2, FinishRecorded
<1>3. CASE SaveNotes
  <2>1. record' = record /\ disk' = record /\ UNCHANGED waits
    BY <1>3 DEF SaveNotes, Save
  <2>2. QED
    BY <2>1 DEF Recorded, Places, Backs, AuditIsTrue, waits
<1>4. CASE UNCHANGED <<docs, waits>>
  BY <1>4 DEF Recorded, Places, Backs, AuditIsTrue, docs, waits
<1>5. ASSUME \/ UNCHANGED vars \/ Crash \/ TimePasses \/ HostReads \/ HostCloses \/ HostTimesOut
             \/ \E a \in Answers : PersonDecides(a)
      PROVE  UNCHANGED <<docs, waits>>
  BY <1>5 DEF vars, Crash, TimePasses, HostReads, HostCloses, HostTimesOut, PersonDecides
<1>6. QED
  BY <1>1, <1>2, <1>3, <1>4, <1>5 DEF Next

----------------------------------------------------------------------------
(* What the host awaits *)

\* The decision the host awaits the result of is still to be judged ...
Unjudged == \E i \in DOMAIN inbox : inbox[i].id = awaiting.id

\* ... or its result is on its way.
OnItsWay == \E i \in DOMAIN outbox : outbox[i].type = "result" /\ outbox[i].id = awaiting.id

\* The channel does not come back.
LEMMA LinkStaysDown ==
    ASSUME TypeOK, NEW frame, Send(frame)
    PROVE  link # "up" => link' # "up"
BY DEF Send

\* What is queued stays queued.
LEMMA AppendKeeps ==
    ASSUME NEW S, NEW s \in Seq(S), NEW f \in S
    PROVE  /\ \A i \in DOMAIN s : i \in DOMAIN Append(s, f) /\ Append(s, f)[i] = s[i]
           /\ Len(s) + 1 \in DOMAIN Append(s, f) /\ Append(s, f)[Len(s) + 1] = f
  OBVIOUS

\* Sending queues the frame, or finds the end of the host.
LEMMA SendKeeps ==
    ASSUME TypeOK, NEW frame \in Frames, Send(frame), UNCHANGED host
    PROVE  /\ OnItsWay => OnItsWay' \/ link' # "up"
           /\ frame.type = "result" /\ frame.id = awaiting.id => OnItsWay' \/ link' # "up"
<1>1. CASE link' = "eof"
  BY <1>1
<1>2. CASE outbox' = Append(outbox, frame)
  <2>1. outbox \in Seq(Frames) /\ awaiting' = awaiting
    BY DEF TypeOK, host
  <2>2. /\ \A i \in DOMAIN outbox : i \in DOMAIN outbox' /\ outbox'[i] = outbox[i]
        /\ Len(outbox) + 1 \in DOMAIN outbox' /\ outbox'[Len(outbox) + 1] = frame
    BY <1>2, <2>1, AppendKeeps
  <2>3. QED
    BY <2>1, <2>2 DEF OnItsWay
<1>3. QED
  BY <1>1, <1>2 DEF Send

\* A frame that was judged is answered; the others are still there.
LEMMA JudgeAnswered ==
    ASSUME TypeOK, Places, HostIsAnswered, NEW r \in Reviews, Judge(r)
    PROVE  HostIsAnswered'
<1> DEFINE d == Head(inbox)
<1>1. d \in Decision /\ d.id \in Reviews /\ UNCHANGED host
  BY HeadTyped DEF Judge, Decision
<1>2. Verdict(r, d)
  BY DEF Judge, Verdict
<1>3. Unjudged => d.id = awaiting.id \/ Unjudged' \/ link' = "eof"
  <2>1. SUFFICES ASSUME NEW i \in DOMAIN inbox, inbox[i].id = awaiting.id, d.id # awaiting.id,
                        link' # "eof"
                 PROVE  Unjudged'
    BY DEF Unjudged
  <2>2. inbox \in Seq(Decision) /\ inbox # <<>> /\ inbox' = Tail(inbox) /\ awaiting' = awaiting
    BY <1>1, <2>1, RestTyped DEF TypeOK, Judge, host
  <2>3. i \in 1..Len(inbox) /\ i # 1
    BY <2>1, <2>2
  <2>4. i - 1 \in DOMAIN inbox' /\ inbox'[i - 1] = inbox[i]
    BY <2>2, <2>3
  <2>5. QED
    BY <2>1, <2>2, <2>4 DEF Unjudged
<1>4. \A code \in {"ACCEPTED", "STALE_REVIEW", "REVIEW_EXPIRED"} :
        Result(d.id, code) \in Frames /\ Result(d.id, code).type = "result" /\ Result(d.id, code).id = d.id
  BY <1>1 DEF Result, Frames
<1> HIDE DEF d
<1>5. CASE \E code \in {"ACCEPTED", "STALE_REVIEW", "REVIEW_EXPIRED"} : Send(Result(d.id, code))
  <2>1. PICK code \in {"ACCEPTED", "STALE_REVIEW", "REVIEW_EXPIRED"} : Send(Result(d.id, code))
    BY <1>5
  <2>2. Result(d.id, code) \in Frames /\ Result(d.id, code).type = "result" /\ Result(d.id, code).id = d.id
    BY <1>4
  <2>3. /\ OnItsWay => OnItsWay' \/ link' # "up"
        /\ d.id = awaiting.id => OnItsWay' \/ link' # "up"
        /\ link # "up" => link' # "up"
    BY <1>1, <2>1, <2>2, SendKeeps, LinkStaysDown
  <2>4. QED
    BY <1>1, <1>3, <2>3 DEF HostIsAnswered, Unjudged, OnItsWay, host
<1>6. CASE link' = "down"
  BY <1>6 DEF HostIsAnswered
<1>7. QED
  BY <1>2, <1>5, <1>6 DEF Verdict, Refuse, RefuseLate, FailDuplicate, Accept

LEMMA OfferAnswered ==
    ASSUME TypeOK, HostIsAnswered, NEW r \in Reviews, Offer(r)
    PROVE  HostIsAnswered'
<1>1. UNCHANGED <<inbox, host>>
  BY DEF Offer
<1>2. CASE link' \in {"down", "eof"}
  BY <1>2 DEF HostIsAnswered
<1>3. CASE UNCHANGED <<link, outbox>>
  BY <1>1, <1>3 DEF HostIsAnswered, host
<1>4. CASE Send([type |-> "review", id |-> r])
  <2>1. [type |-> "review", id |-> r] \in Frames
    BY DEF Frames
  <2>2. /\ OnItsWay => OnItsWay' \/ link' # "up"
        /\ link # "up" => link' # "up"
    BY <1>1, <1>4, <2>1, SendKeeps, LinkStaysDown
  <2>3. QED
    BY <1>1, <2>2 DEF HostIsAnswered, OnItsWay, host
<1>5. QED
  BY <1>2, <1>3, <1>4 DEF Offer, channel

\* Whatever the host reads while it awaits a result ends that: it is the result,
\* or the host closes the channel.
LEMMA HostAnswered ==
    ASSUME TypeOK, HostIsAnswered,
           HostReads \/ HostCloses \/ HostTimesOut \/ \E a \in Answers : PersonDecides(a)
    PROVE  HostIsAnswered'
<1>1. CASE HostReads
  <2>1. awaiting' = Nobody
    BY <1>1 DEF HostReads, HostTakesReview, HostTakesResult, HostShut
  <2>2. QED
    BY <2>1 DEF HostIsAnswered
<1>2. CASE HostCloses \/ HostTimesOut
  BY <1>2 DEF HostIsAnswered, HostCloses, HostShut, HostTimesOut
<1>3. ASSUME NEW a \in Answers, PersonDecides(a) PROVE HostIsAnswered'
  <2>1. CASE link = "down"
    BY <1>3, <2>1 DEF PersonDecides, HostIsAnswered, channel
  <2>2. CASE link # "down"
    <3>1. awaiting' = [id |-> shown, answer |-> a] /\ inbox' = Append(inbox, awaiting')
      BY <1>3, <2>2 DEF PersonDecides
    <3>2. inbox \in Seq(Decision) /\ awaiting' \in Decision
      BY <1>3, <3>1 DEF TypeOK, PersonDecides, Decision, Reviews
    <3>3. Len(inbox) + 1 \in DOMAIN inbox' /\ inbox'[Len(inbox) + 1] = awaiting'
      BY <3>1, <3>2, AppendKeeps
    <3>4. QED
      BY <3>3 DEF HostIsAnswered
  <2>3. QED
    BY <2>1, <2>2
<1>4. QED
  BY <1>1, <1>2, <1>3

LEMMA NextAnswered == ASSUME TypeOK, Places, HostIsAnswered, [Next]_vars PROVE HostIsAnswered'
<1>1. CASE UNCHANGED <<inbox, outbox, awaiting>> /\ link' \in {link, "eof", "down"}
  BY <1>1 DEF HostIsAnswered
<1>2. ASSUME \/ UNCHANGED vars \/ SaveNotes \/ Finish \/ Crash \/ TimePasses
             \/ \E r \in Reviews : \/ Request(r) \/ Superseded(r) \/ HostGone(r) \/ Expire(r)
                                  \/ Audit(r) \/ Decide(r) \/ Interrupt(r)
      PROVE  UNCHANGED <<inbox, outbox, awaiting>> /\ link' \in {link, "eof", "down"}
  BY <1>2 DEF vars, channel, host, SaveNotes, Finish, Crash, TimePasses, Request, Superseded, HostGone,
              Expire, Audit, Decide, Interrupt
<1>3. ASSUME NEW r \in Reviews, Offer(r) \/ Judge(r) PROVE HostIsAnswered'
  BY <1>3, OfferAnswered, JudgeAnswered
<1>4. CASE HostReads \/ HostCloses \/ HostTimesOut \/ \E a \in Answers : PersonDecides(a)
  BY <1>4, HostAnswered
<1>5. QED
  BY <1>1, <1>2, <1>3, <1>4 DEF Next, Wait

----------------------------------------------------------------------------
(* What the two ends agree on *)

Agreed == OneInFlight /\ BothEndsAgree

\* A step that moves no frame and accepts nothing.
LEMMA QuietAgrees ==
    ASSUME Agreed, UNCHANGED <<inbox, outbox, host, took>>
    PROVE  Agreed'
BY DEF Agreed, OneInFlight, BothEndsAgree, IsResult, Result, host

\* A frame that is queued comes after the others.
LEMMA QueueGrows ==
    ASSUME TypeOK, NEW f \in Frames, outbox' = Append(outbox, f)
    PROVE  /\ \A i \in DOMAIN outbox : i \in DOMAIN outbox' /\ outbox'[i] = outbox[i]
           /\ \A i \in DOMAIN outbox' :
                 \/ i \in DOMAIN outbox /\ outbox'[i] = outbox[i]
                 \/ i = Len(outbox) + 1 /\ outbox'[i] = f
           /\ Len(outbox) + 1 \in DOMAIN outbox' /\ outbox'[Len(outbox) + 1] = f
<1>1. outbox \in Seq(Frames)
  BY DEF TypeOK
<1>2. QED
  BY <1>1

LEMMA OfferAgrees == ASSUME TypeOK, Agreed, NEW r \in Reviews, Offer(r) PROVE Agreed'
<1> DEFINE f == [type |-> "review", id |-> r]
<1>1. UNCHANGED <<inbox, host, took>>
  BY DEF Offer
<1>2. CASE UNCHANGED outbox
  BY <1>1, <1>2, QuietAgrees
<1>3. CASE outbox' = Append(outbox, f)
  <2>1. f \in Frames /\ ~IsResult(f)
    BY DEF Frames, IsResult
  <2> HIDE DEF f
  <2>2. /\ \A i \in DOMAIN outbox : i \in DOMAIN outbox' /\ outbox'[i] = outbox[i]
        /\ \A i \in DOMAIN outbox' : IsResult(outbox'[i]) => i \in DOMAIN outbox /\ outbox'[i] = outbox[i]
    BY <1>3, <2>1, QueueGrows
  <2>3. UNCHANGED <<awaiting, hostUp, told, timeouts>>
    BY <1>1 DEF host
  <2>4. OneInFlight'
    BY <1>1, <2>2, <2>3 DEF Agreed, OneInFlight, IsResult
  <2>5. BothEndsAgree'
    BY <1>1, <2>2, <2>3 DEF Agreed, BothEndsAgree, Result
  <2>6. QED
    BY <2>4, <2>5 DEF Agreed
<1>4. QED
  BY <1>2, <1>3, Zenon DEF Offer, Send

\* A decision that was the only one is out of the inbox.
LEMMA LastJudged ==
    ASSUME TypeOK, NEW r \in Reviews, Judge(r), Len(inbox) <= 1
    PROVE  inbox' = <<>> /\ 1 \in DOMAIN inbox /\ Head(inbox) = inbox[1]
<1>1. inbox \in Seq(Decision) /\ inbox # <<>>
  BY DEF TypeOK, Judge
<1>2. Len(inbox) = 1
  <2>1. Len(inbox) \in Nat /\ Len(inbox) # 0
    BY <1>1
  <2>2. Len(inbox) = 0 \/ Len(inbox) = 1
    BY <1>1, <2>1
  <2>3. QED
    BY <2>1, <2>2
<1>3. CASE inbox' = Tail(inbox)
  BY <1>1, <1>2, <1>3
<1>4. ASSUME NEW n \in 1..Len(inbox), inbox' = SubSeq(inbox, 2, n) PROVE inbox' = <<>>
  BY <1>1, <1>2, <1>4
<1>5. inbox' = Tail(inbox) \/ \E n \in 1..Len(inbox) : inbox' = SubSeq(inbox, 2, n)
  BY Zenon DEF Judge
<1>6. QED
  BY <1>1, <1>2, <1>3, <1>4, <1>5

\* A frame that is judged is answered, unless the host's end is gone or the
\* channel failed; an accepted one is of the open review, for the first time.
Answering(r, d) ==
    /\ UNCHANGED host /\ d \in Decision
    /\ UNCHANGED took \/ (d.id = r /\ r \notin decided /\ took' = [took EXCEPT ![r] = d.answer])
    /\ \/ UNCHANGED outbox /\ (~hostUp \/ UNCHANGED took)
       \/ \E code \in {"STALE_REVIEW", "REVIEW_EXPIRED"} :
             outbox' = Append(outbox, Result(d.id, code)) /\ UNCHANGED took
       \/ outbox' = Append(outbox, Result(d.id, "ACCEPTED")) /\ d.id = r /\ took'[r] = d.answer

LEMMA SendCases ==
    ASSUME NEW frame, Send(frame)
    PROVE  (hostUp /\ outbox' = Append(outbox, frame)) \/ (~hostUp /\ outbox' = outbox)
BY Zenon DEF Send

LEMMA JudgeSends == ASSUME TypeOK, NEW r \in Reviews, Judge(r) PROVE Answering(r, Head(inbox))
<1> DEFINE d == Head(inbox)
<1>1. UNCHANGED host /\ d \in Decision
  BY HeadTyped DEF Judge
<1>2. Verdict(r, d)
  BY DEF Judge, Verdict
<1> SUFFICES Answering(r, d)
  OBVIOUS
<1> HIDE DEF d
<1>3. CASE Refuse(r, d)
  <2>1. Send(Result(d.id, "STALE_REVIEW")) /\ UNCHANGED took
    BY <1>3 DEF Refuse
  <2>2. QED
    BY <1>1, <2>1, SendCases DEF Answering
<1>4. CASE RefuseLate(r, d)
  <2>1. Send(Result(d.id, "REVIEW_EXPIRED")) /\ UNCHANGED took
    BY <1>4 DEF RefuseLate
  <2>2. QED
    BY <1>1, <2>1, SendCases DEF Answering
<1>5. CASE FailDuplicate(r, d)
  BY <1>1, <1>5 DEF FailDuplicate, Answering
<1>6. CASE Accept(r, d)
  <2>1. /\ Send(Result(d.id, "ACCEPTED")) /\ d.id = r /\ r \notin decided
        /\ took' = [took EXCEPT ![r] = d.answer]
    BY <1>6 DEF Accept
  <2>2. took'[r] = d.answer
    BY <2>1 DEF TypeOK
  <2>3. QED
    BY <1>1, <2>1, <2>2, SendCases DEF Answering
<1>7. QED
  BY <1>2, <1>3, <1>4, <1>5, <1>6 DEF Verdict

LEMMA JudgeOne == ASSUME TypeOK, Agreed, NEW r \in Reviews, Judge(r) PROVE OneInFlight'
<1> DEFINE d == Head(inbox)
<1>1. SUFFICES ASSUME timeouts = 0, hostUp PROVE OneInFlight'
  BY JudgeSends DEF Answering, OneInFlight, host
<1>2. /\ inbox' = <<>> /\ d = awaiting
      /\ \A i \in DOMAIN outbox : ~IsResult(outbox[i])
  BY <1>1, LastJudged DEF Agreed, OneInFlight, Judge
<1>3. /\ awaiting' = awaiting /\ d \in Decision /\ d.id \in Reviews
      /\ \/ UNCHANGED outbox
         \/ \E code \in {"STALE_REVIEW", "REVIEW_EXPIRED"} : outbox' = Append(outbox, Result(d.id, code))
         \/ outbox' = Append(outbox, Result(d.id, "ACCEPTED")) /\ d.id = r /\ took'[r] = d.answer
  BY JudgeSends DEF Answering, host, Decision
<1> HIDE DEF d
<1>4. CASE UNCHANGED outbox
  BY <1>2, <1>4 DEF OneInFlight, IsResult
<1>5. ASSUME NEW code \in {"ACCEPTED", "STALE_REVIEW", "REVIEW_EXPIRED"},
             outbox' = Append(outbox, Result(d.id, code)),
             code = "ACCEPTED" => took'[d.id] = d.answer
      PROVE  OneInFlight'
  <2> DEFINE f == Result(d.id, code)
  <2>1. f \in Frames /\ f.id = d.id /\ f.code = code
    BY <1>3 DEF Frames, Result
  <2> HIDE DEF f
  <2>2. \A i \in DOMAIN outbox' : IsResult(outbox'[i]) => i = Len(outbox) + 1 /\ outbox'[i] = f
    BY <1>2, <1>5, <2>1, QueueGrows DEF f, IsResult
  <2>3. QED
    BY <1>2, <1>3, <1>5, <2>1, <2>2 DEF OneInFlight, IsResult
<1>6. QED
  BY <1>3, <1>4, <1>5

LEMMA JudgeAgrees == ASSUME TypeOK, Agreed, NEW r \in Reviews, Judge(r) PROVE Agreed'
<1> DEFINE d == Head(inbox)
<1>1. /\ UNCHANGED <<told, hostUp, timeouts>> /\ d \in Decision /\ d.id \in Reviews
      /\ UNCHANGED took \/ (d.id = r /\ r \notin decided /\ took' = [took EXCEPT ![r] = d.answer])
      /\ \/ UNCHANGED outbox /\ (~hostUp \/ UNCHANGED took)
         \/ \E code \in {"STALE_REVIEW", "REVIEW_EXPIRED"} :
               outbox' = Append(outbox, Result(d.id, code)) /\ UNCHANGED took
         \/ outbox' = Append(outbox, Result(d.id, "ACCEPTED")) /\ d.id = r /\ took'[r] = d.answer
  BY JudgeSends DEF Answering, host, Decision
<1> HIDE DEF d
<1>2. BothEndsAgree'
  <2>1. SUFFICES ASSUME timeouts = 0, NEW q \in Reviews
                 PROVE  /\ told[q] \in {"none", took'[q]}
                        /\ took'[q] # "none" =>
                              \/ told[q] = took'[q]
                              \/ \E i \in DOMAIN outbox' : outbox'[i] = Result(q, "ACCEPTED")
                              \/ ~hostUp
    BY <1>1 DEF BothEndsAgree, Result
  <2>2. /\ told[q] \in {"none", took[q]}
        /\ took[q] # "none" =>
              \/ told[q] = took[q]
              \/ \E i \in DOMAIN outbox : outbox[i] = Result(q, "ACCEPTED")
              \/ ~hostUp
    BY <2>1 DEF Agreed, BothEndsAgree
  <2>3. ASSUME NEW i \in DOMAIN outbox PROVE i \in DOMAIN outbox' /\ outbox'[i] = outbox[i]
    <3>1. \A code \in {"ACCEPTED", "STALE_REVIEW", "REVIEW_EXPIRED"} : Result(d.id, code) \in Frames
      BY <1>1 DEF Result, Frames
    <3>2. UNCHANGED outbox \/ \E f \in Frames : outbox' = Append(outbox, f)
      BY <1>1, <3>1
    <3>3. QED
      BY <2>3, <3>2, QueueGrows
  <2>4. CASE took'[q] = took[q]
    BY <2>2, <2>3, <2>4
  <2>5. CASE took'[q] # took[q]
    <3>1. q = r /\ d.id = r /\ r \notin decided
      BY <1>1, <2>5 DEF TypeOK
    <3>2. took[q] = "none" /\ told[q] = "none"
      BY <2>2, <3>1 DEF TypeOK
    <3>3. ~hostUp \/ outbox' = Append(outbox, Result(r, "ACCEPTED"))
      BY <1>1, <2>5, <3>1
    <3>4. Result(r, "ACCEPTED") \in Frames
      BY DEF Result, Frames
    <3>5. hostUp => \E i \in DOMAIN outbox' : outbox'[i] = Result(r, "ACCEPTED")
      BY <3>3, <3>4, QueueGrows
    <3>6. QED
      BY <3>1, <3>2, <3>5
  <2>6. QED
    BY <2>4, <2>5
<1>3. QED
  BY <1>2, JudgeOne DEF Agreed

\* A result is told as the waiter meant it, and then nothing is in flight.
LEMMA ReadAgrees == ASSUME TypeOK, Agreed, HostReads PROVE Agreed'
<1> DEFINE f == Head(outbox)
<1>1. /\ outbox \in Seq(Frames) /\ outbox # <<>> /\ hostUp /\ UNCHANGED <<inbox, took, timeouts>>
      /\ outbox' = Tail(outbox)
  BY DEF TypeOK, HostReads, waits
<1>2. /\ f \in Frames /\ f = outbox[1] /\ 1 \in DOMAIN outbox
      /\ \A i \in DOMAIN outbox' : i + 1 \in DOMAIN outbox /\ outbox'[i] = outbox[i + 1] /\ i \in Nat /\ i # 0
      /\ \A i \in DOMAIN outbox : i = 1 \/ (i - 1 \in DOMAIN outbox' /\ outbox'[i - 1] = outbox[i])
  BY <1>1
<1>3. f.id \in Reviews
  BY <1>2 DEF Frames
<1>4. /\ HostTakesReview(f) \/ HostTakesResult(f)
  BY DEF HostReads
<1> HIDE DEF f
<1>5. CASE f.type = "review" /\ UNCHANGED told
  <2>1. ~IsResult(f) /\ \A q \in Reviews : f # Result(q, "ACCEPTED")
    BY <1>5 DEF IsResult, Result
  <2>2. BothEndsAgree'
    <3>1. \A q \in Reviews : (\E i \in DOMAIN outbox : outbox[i] = Result(q, "ACCEPTED"))
                                => \E i \in DOMAIN outbox' : outbox'[i] = Result(q, "ACCEPTED")
      BY <1>2, <2>1
    <3>2. QED
      BY <1>1, <1>5, <3>1 DEF Agreed, BothEndsAgree, Result
  <2>3. OneInFlight'
    <3>1. CASE hostUp' = FALSE
      BY <3>1 DEF OneInFlight
    <3>2. CASE UNCHANGED <<hostUp, awaiting>>
      <4>1. SUFFICES ASSUME timeouts = 0 PROVE OneInFlight'
        BY <1>1 DEF OneInFlight
      <4>2. ASSUME NEW i \in DOMAIN outbox', IsResult(outbox'[i])
            PROVE  /\ inbox = <<>> /\ outbox'[i].id = awaiting.id
                   /\ outbox'[i].code = "ACCEPTED" => took[awaiting.id] = awaiting.answer
                   /\ \A j \in DOMAIN outbox' : IsResult(outbox'[j]) => j = i
        <5>1. i + 1 \in DOMAIN outbox /\ IsResult(outbox[i + 1]) /\ outbox'[i] = outbox[i + 1]
          BY <1>2, <4>2
        <5>2. /\ inbox = <<>> /\ outbox[i + 1].id = awaiting.id
              /\ outbox[i + 1].code = "ACCEPTED" => took[awaiting.id] = awaiting.answer
              /\ \A j \in DOMAIN outbox : IsResult(outbox[j]) => j = i + 1
          BY <1>1, <4>1, <5>1 DEF Agreed, OneInFlight
        <5>3. ASSUME NEW j \in DOMAIN outbox', IsResult(outbox'[j]) PROVE j = i
          <6>1. j + 1 \in DOMAIN outbox /\ IsResult(outbox[j + 1]) /\ i \in Nat /\ j \in Nat
            BY <1>2, <5>3
          <6>2. j + 1 = i + 1
            BY <5>2, <6>1
          <6>3. QED
            BY <6>1, <6>2
        <5>4. QED
          BY <5>1, <5>2, <5>3
      <4>3. QED
        BY <1>1, <3>2, <4>1, <4>2 DEF Agreed, OneInFlight, IsResult
    <3>3. QED
      BY <1>4, <1>5, <3>1, <3>2 DEF HostTakesReview, HostTakesResult, HostShut
  <2>4. QED
    BY <2>2, <2>3 DEF Agreed
<1>6. CASE f.type = "result" /\ HostTakesResult(f)
  <2>1. SUFFICES ASSUME timeouts = 0 PROVE Agreed'
    BY <1>1 DEF Agreed, OneInFlight, BothEndsAgree
  <2>2. /\ inbox = <<>> /\ f.id = awaiting.id
        /\ f.code = "ACCEPTED" => took[awaiting.id] = awaiting.answer
        /\ \A j \in DOMAIN outbox : IsResult(outbox[j]) => j = 1
    BY <1>1, <1>2, <1>6, <2>1 DEF Agreed, OneInFlight, IsResult
  <2>3. /\ told' = IF f.code = "ACCEPTED" THEN [told EXCEPT ![f.id] = awaiting.answer] ELSE told
        /\ UNCHANGED hostUp
    BY <1>6, <2>2 DEF HostTakesResult
  <2>4. \A i \in DOMAIN outbox' : ~IsResult(outbox'[i])
    BY <1>2, <2>2
  <2>5. OneInFlight'
    BY <1>1, <2>2, <2>4 DEF OneInFlight, IsResult
  <2>6. BothEndsAgree'
    <3>1. SUFFICES ASSUME NEW q \in Reviews
                   PROVE  /\ told'[q] \in {"none", took[q]}
                          /\ took[q] # "none" =>
                                \/ told'[q] = took[q]
                                \/ \E i \in DOMAIN outbox' : outbox'[i] = Result(q, "ACCEPTED")
                                \/ ~hostUp
      BY <1>1, <2>3 DEF BothEndsAgree, Result
    <3>2. /\ told[q] \in {"none", took[q]}
          /\ took[q] # "none" =>
                \/ told[q] = took[q]
                \/ \E i \in DOMAIN outbox : outbox[i] = Result(q, "ACCEPTED")
                \/ ~hostUp
      BY <2>1 DEF Agreed, BothEndsAgree
    <3>3. CASE f.code = "ACCEPTED" /\ q = f.id
      <4>1. told'[q] = took[q]
        BY <2>2, <2>3, <3>3 DEF TypeOK
      <4>2. QED
        BY <4>1
    <3>4. CASE ~(f.code = "ACCEPTED" /\ q = f.id)
      <4>1. told'[q] = told[q]
        BY <2>3, <3>4 DEF TypeOK
      <4>2. f # Result(q, "ACCEPTED")
        BY <3>4 DEF Result
      <4>3. QED
        BY <1>2, <3>2, <4>1, <4>2
    <3>5. QED
      BY <3>3, <3>4
  <2>7. QED
    BY <2>5, <2>6 DEF Agreed
<1>7. QED
  BY <1>4, <1>5, <1>6 DEF HostTakesReview, HostTakesResult

\* A decision is only made with nothing else in flight.
LEMMA DecidedAgrees == ASSUME TypeOK, Agreed, NEW a \in Answers, PersonDecides(a) PROVE Agreed'
<1>1. /\ awaiting = Nobody /\ hostUp /\ shown \in Reviews /\ awaiting' = [id |-> shown, answer |-> a]
      /\ inbox' = inbox \/ inbox' = Append(inbox, awaiting')
      /\ UNCHANGED <<outbox, hostUp, told, timeouts, took>>
  BY DEF PersonDecides, waits, TypeOK, Reviews
<1>2. BothEndsAgree'
  BY <1>1 DEF Agreed, BothEndsAgree, Result
<1>3. OneInFlight'
  <2>1. SUFFICES ASSUME timeouts = 0 PROVE OneInFlight'
    BY <1>1 DEF OneInFlight
  <2>2. inbox = <<>>
    <3>1. inbox \in Seq(Decision)
      BY DEF TypeOK
    <3>2. Nobody \notin Decision
      BY DEF Nobody, Decision, Reviews
    <3>3. inbox # <<>> => 1 \in DOMAIN inbox /\ inbox[1] \in Decision
      BY <3>1
    <3>4. QED
      BY <1>1, <2>1, <3>2, <3>3 DEF Agreed, OneInFlight
  <2>3. \A i \in DOMAIN outbox : ~IsResult(outbox[i])
    <3>1. \A i \in DOMAIN outbox : outbox[i].id \in Reviews
      <4>1. outbox \in Seq(Frames)
        BY DEF TypeOK
      <4>2. \A i \in DOMAIN outbox : outbox[i] \in Frames
        BY <4>1
      <4>3. QED
        BY <4>2 DEF Frames
    <3>2. awaiting.id \notin Reviews
      BY <1>1 DEF Nobody, Reviews
    <3>3. QED
      BY <1>1, <2>1, <3>1, <3>2 DEF Agreed, OneInFlight
  <2>4. Len(inbox') <= 1 /\ \A i \in DOMAIN inbox' : inbox'[i] = awaiting'
    <3>1. Append(<<>>, awaiting') = <<awaiting'>>
      OBVIOUS
    <3>2. inbox' = <<>> \/ inbox' = <<awaiting'>>
      BY <1>1, <2>2, <3>1
    <3>3. CASE inbox' = <<>>
      BY <3>3
    <3>4. CASE inbox' = <<awaiting'>>
      <4>1. Len(inbox') = 1 /\ DOMAIN inbox' = {1} /\ inbox'[1] = awaiting'
        BY <3>4
      <4>2. QED
        BY <4>1
    <3>5. QED
      BY <3>2, <3>3, <3>4
  <2>5. QED
    BY <1>1, <2>3, <2>4 DEF OneInFlight, IsResult
<1>4. QED
  BY <1>2, <1>3 DEF Agreed

LEMMA NextAgrees == ASSUME TypeOK, Agreed, [Next]_vars PROVE Agreed'
<1>1. ASSUME NEW r \in Reviews, Offer(r) \/ Judge(r) PROVE Agreed'
  BY <1>1, OfferAgrees, JudgeAgrees
<1>2. CASE HostReads
  BY <1>2, ReadAgrees
<1>3. CASE HostCloses
  BY <1>3 DEF HostCloses, HostShut, Agreed, OneInFlight, BothEndsAgree, waits, Result
<1>4. CASE HostTimesOut
  <2>1. timeouts' # 0
    BY <1>4, ReviewAssumption DEF HostTimesOut, TypeOK
  <2>2. QED
    BY <2>1 DEF Agreed, OneInFlight, BothEndsAgree
<1>5. ASSUME NEW a \in Answers, PersonDecides(a) PROVE Agreed'
  BY <1>5, DecidedAgrees
<1>6. ASSUME \/ UNCHANGED vars \/ SaveNotes \/ Finish \/ Crash \/ TimePasses
             \/ \E r \in Reviews : \/ Request(r) \/ Superseded(r) \/ HostGone(r) \/ Expire(r)
                                  \/ Audit(r) \/ Decide(r) \/ Interrupt(r)
      PROVE  UNCHANGED <<inbox, outbox, host, took>>
  BY <1>6 DEF vars, waits, SaveNotes, Finish, Crash, TimePasses, Request, Superseded, HostGone,
              Expire, Audit, Decide, Interrupt
<1>7. QED
  BY <1>1, <1>2, <1>3, <1>4, <1>5, <1>6, QuietAgrees DEF Next, Wait

----------------------------------------------------------------------------
(* Why a review was not decided *)

LEMMA InitReasoned == Init => Reasoned
<1> SUFFICES ASSUME Init PROVE Reasoned
  OBVIOUS
<1>1. NotOffered = {}
  BY DEF Init, NotOffered
<1>2. Current /\ Expired /\ Unavailable /\ Unrecorded
  BY DEF Init, Current, Expired, Unavailable, Unrecorded
<1>3. Faulted
  BY <1>1, FS_EmptySet DEF Init, Faulted
<1>4. QED
  BY <1>2, <1>3 DEF Reasoned

\* Reviews are finitely many, and so are those not offered.
LEMMA NotOfferedFinite ==
    ASSUME TypeOK
    PROVE  /\ IsFiniteSet(NotOffered) /\ Cardinality(NotOffered) \in Nat
           /\ IsFiniteSet(NotOffered')
<1>1. IsFiniteSet(Reviews)
  BY FS_Interval, ReviewAssumption DEF Reviews
<1>2. NotOffered \subseteq Reviews /\ NotOffered' \subseteq Reviews
  BY DEF NotOffered
<1>3. QED
  BY <1>1, <1>2, FS_Subset, FS_CardinalityType

\* A review that was overtaken stays so.
LEMMA OvertakenStays ==
    ASSUME TypeOK, TypeOK', NEW r \in Reviews, Overtaken(r), due'[r] = due[r], late' >= late,
           \A q \in Reviews \ {r} : /\ due[q] # 0 => due'[q] = due[q]
                                    /\ outcome[q] = "raised" => outcome'[q] = "raised",
           link # "up" => link' # "up"
    PROVE  Overtaken(r)'
<1> USE ReviewAssumption
<1>0. late \in Nat /\ late' \in Nat /\ \A q \in Reviews : due[q] \in Nat
  BY DEF TypeOK
<1>1. late >= due[r] => late' >= due'[r]
  BY <1>0 DEF Reviews
<1>2. ASSUME NEW q \in Reviews \ {r}, due[q] >= r \/ outcome[q] = "raised"
      PROVE  due'[q] >= r \/ outcome'[q] = "raised"
  BY <1>0, <1>2 DEF Reviews
<1>3. QED
  BY <1>1, <1>2 DEF Overtaken

\* A step that moves nothing the reasons are about.
LEMMA NothingReasoned ==
    ASSUME TypeOK, TypeOK', Reasoned, UNCHANGED <<record, requested, pc, due, outcome, open, faults>>,
           late' >= late, phase' = phase \/ phase' # "running", link # "up" => link' # "up"
    PROVE  Reasoned'
<1>1. NotOffered' = NotOffered
  BY DEF NotOffered
<1>2. Current'
  BY <1>1 DEF Reasoned, Current
<1>3. ASSUME NEW r \in Reviews, Overtaken(r) PROVE Overtaken(r)'
  BY <1>3, OvertakenStays
<1>4. Expired'
  BY <1>3 DEF Reasoned, Expired
<1>5. QED
  BY <1>1, <1>2, <1>4 DEF Reasoned, Unavailable, Faulted, Unrecorded, Replaced

\* What a wait that ends does, and why it may say what it says.
WaitEnds(r, what) ==
    /\ pc[r] \notin {"unasked", "ended"} /\ what \notin {"none", "not_offered"}
    /\ pc' = [pc EXCEPT ![r] = "ended"] /\ outcome' = [outcome EXCEPT ![r] = what]
    /\ record'.current = record.current
    /\ \A s \in Reviews \ {r} : record'.status[s] = record.status[s]
    /\ faults' \in {faults, faults + 1}
    /\ UNCHANGED <<requested, phase, late>>
    /\ \A q \in Reviews : q # r \/ due[q] # 0 => due'[q] = due[q]
    /\ link # "up" => link' # "up"
    /\ open' = open \/ open = r \/ link' # "up" \/ what = "raised"
    /\ what = "review_expired" => due'[r] = due[r] /\ (Overtaken(r) \/ link' # "up")
    /\ what = "channel_unavailable" => link' # "up"
    /\ what = "not_recorded" => faults' > Cardinality(NotOffered) \/ Replaced(r)

LEMMA WaitEndsReasoned ==
    ASSUME TypeOK, TypeOK', Places, Reasoned, NEW r \in Reviews, NEW what, WaitEnds(r, what)
    PROVE  Reasoned'
<1>1. outcome[r] = "none"
  BY DEF Places, WaitEnds
<1>2. \A q \in Reviews : outcome'[q] = IF q = r THEN what ELSE outcome[q]
  BY DEF WaitEnds, TypeOK
<1>3. \A q \in Reviews : pc'[q] = IF q = r THEN "ended" ELSE pc[q]
  BY DEF WaitEnds, TypeOK
<1>4. NotOffered' = NotOffered
  BY <1>1, <1>2 DEF WaitEnds, NotOffered
<1>5. Current'
  BY <1>3, <1>4 DEF Reasoned, Current, WaitEnds
<1>6. late' >= late /\ late \in Nat
  BY DEF WaitEnds, TypeOK
<1>7. ASSUME NEW q \in Reviews, Overtaken(q), due'[q] = due[q] PROVE Overtaken(q)'
  <2>1. \A p \in Reviews \ {q} : /\ due[p] # 0 => due'[p] = due[p]
                                 /\ outcome[p] = "raised" => outcome'[p] = "raised"
    BY <1>1, <1>2 DEF WaitEnds
  <2>2. link # "up" => link' # "up"
    BY DEF WaitEnds
  <2>3. QED
    BY <1>6, <1>7, <2>1, <2>2, OvertakenStays
<1>8. Expired'
  <2>1. SUFFICES ASSUME NEW q \in Reviews,
                        outcome'[q] = "review_expired" \/ (pc'[q] = "listening" /\ open' # q)
                 PROVE  Overtaken(q)'
    BY DEF Expired
  <2>2. CASE link' # "up"
    BY <2>2 DEF Overtaken
  <2>3. CASE link' = "up" /\ q = r
    BY <1>2, <1>3, <1>7, <2>1, <2>3 DEF WaitEnds
  <2>4. CASE link' = "up" /\ q # r /\ what = "raised"
    BY <1>2, <2>4 DEF Overtaken
  <2>5. CASE link' = "up" /\ q # r /\ what # "raised"
    <3>1. outcome[q] = "review_expired" \/ (pc[q] = "listening" /\ open # q)
      BY <1>2, <1>3, <2>1, <2>5 DEF WaitEnds
    <3>2. due'[q] = due[q]
      BY <2>5 DEF WaitEnds
    <3>3. QED
      BY <1>7, <3>1, <3>2 DEF Reasoned, Expired
  <2>6. QED
    BY <2>2, <2>3, <2>4, <2>5
<1>9. Unavailable'
  BY <1>2 DEF Reasoned, Unavailable, WaitEnds
<1>10. Cardinality(NotOffered) \in Nat /\ faults \in Nat /\ faults' \in Nat /\ faults' >= faults
  <2>1. faults \in Nat /\ faults' \in {faults, faults + 1}
    BY ReviewAssumption DEF TypeOK, WaitEnds
  <2>2. Cardinality(NotOffered) \in Nat
    BY NotOfferedFinite
  <2>3. QED
    BY <2>1, <2>2
<1>11. Faulted'
  <2>1. Cardinality(NotOffered) <= faults
    BY DEF Reasoned, Faulted
  <2>2. Cardinality(NotOffered) <= faults'
    BY <1>10, <2>1
  <2>3. QED
    BY <1>4, <2>2 DEF Faulted
<1>12. Unrecorded'
  <2>1. SUFFICES ASSUME NEW q \in Reviews, outcome'[q] = "not_recorded"
                 PROVE  faults' > Cardinality(NotOffered') \/ Replaced(q)'
    BY DEF Unrecorded
  <2>2. faults' > Cardinality(NotOffered) \/ Replaced(q)
    <3>1. CASE q = r
      BY <1>2, <2>1, <3>1 DEF WaitEnds
    <3>2. CASE q # r
      <4>1. outcome[q] = "not_recorded"
        BY <1>2, <2>1, <3>2
      <4>2. faults > Cardinality(NotOffered) \/ Replaced(q)
        BY <4>1 DEF Reasoned, Unrecorded
      <4>3. QED
        BY <1>10, <4>2
    <3>3. QED
      BY <3>1, <3>2
  <2>3. ASSUME NEW p \in 1..requested, outcome[p] # "not_offered" PROVE outcome'[p] # "not_offered"
    <3>1. p \in Reviews /\ what # "not_offered"
      BY ReviewAssumption DEF TypeOK, Reviews, WaitEnds
    <3>2. QED
      BY <1>2, <2>3, <3>1
  <2>4. Replaced(q) => Replaced(q)'
    <3>1. requested' = requested
      BY DEF WaitEnds
    <3>2. QED
      BY <2>3, <3>1 DEF Replaced
  <2>5. QED
    BY <1>4, <2>2, <2>4
<1>13. QED
  BY <1>5, <1>8, <1>9, <1>11, <1>12 DEF Reasoned

\* What resolving a review leaves of the launch record.
LEMMA ResolveLeaves ==
    ASSUME TypeOK, NEW r \in Reviews, NEW status \in StatusNames,
           Resolves(r, status) \/ DoesNotResolve(r, status)
    PROVE  /\ record'.current = record.current
           /\ \A s \in Reviews \ {r} : record'.status[s] = record.status[s]
           /\ faults' \in {faults, faults + 1}
           /\ DoesNotResolve(r, status) => ~Resolvable(r) \/ faults' = faults + 1
<1>1. /\ Resolved(r, status).current = record.current
      /\ \A s \in Reviews \ {r} : Resolved(r, status).status[s] = record.status[s]
  BY DEF Resolved, TypeOK, Record
<1>2. QED
  BY <1>1 DEF Resolves, DoesNotResolve, Save, SaveFails, docs

LEMMA UndecidedEnds ==
    ASSUME TypeOK, NEW r \in Reviews, NEW reason \in Reasons, Undecided(r, reason),
           pc[r] \notin {"unasked", "ended"}, UNCHANGED <<requested, phase, late>>,
           \A q \in Reviews : q # r \/ due[q] # 0 => due'[q] = due[q],
           link # "up" => link' # "up",
           open' = open \/ open = r \/ link' # "up" \/ reason = "raised",
           reason = "review_expired" => due'[r] = due[r] /\ (Overtaken(r) \/ link' # "up"),
           reason = "channel_unavailable" => link' # "up"
    PROVE  WaitEnds(r, reason)
<1>1. /\ record'.current = record.current
      /\ \A s \in Reviews \ {r} : record'.status[s] = record.status[s]
      /\ faults' \in {faults, faults + 1}
  BY ResolveLeaves DEF Undecided, StatusNames
<1>2. QED
  BY <1>1 DEF WaitEnds, Undecided, GoTo, Tell, Reasons

\* The waits that end without a frame are told why.
LEMMA EndReasoned ==
    ASSUME TypeOK, TypeOK', Places, Reasoned, NEW r \in Reviews,
           Superseded(r) \/ HostGone(r) \/ Expire(r) \/ Interrupt(r)
    PROVE  Reasoned'
<1>1. pc[r] = "listening" /\ UNCHANGED <<requested, due, phase, late>>
  BY DEF Superseded, HostGone, Expire, Interrupt, Listens, At
<1>2. ASSUME NEW reason \in {"review_expired", "raised"}, Undecided(r, reason),
             link # "up" => link' # "up",
             open' = open \/ open = r \/ reason = "raised",
             reason = "review_expired" => Overtaken(r) \/ link' # "up"
      PROVE  Reasoned'
  <2>1. reason \in Reasons
    BY DEF Reasons
  <2>2. WaitEnds(r, reason)
    BY <1>1, <1>2, <2>1, UndecidedEnds
  <2>3. QED
    BY <2>2, WaitEndsReasoned
<1>3. CASE Superseded(r)
  <2>1. Overtaken(r)
    BY <1>1, <1>3 DEF Superseded, Reasoned, Expired
  <2>2. QED
    BY <1>2, <1>3, <2>1 DEF Superseded, channel
<1>4. CASE HostGone(r)
  BY <1>2, <1>4 DEF HostGone
<1>5. CASE Expire(r)
  <2>1. Overtaken(r)
    BY <1>5 DEF Expire, Overtaken
  <2>2. QED
    BY <1>2, <1>5, <2>1 DEF Expire
<1>6. CASE Interrupt(r)
  BY <1>2, <1>6 DEF Interrupt
<1>7. QED
  BY <1>3, <1>4, <1>5, <1>6

\* A wait that goes on to its decision is still the pending one.
LEMMA MoveReasoned ==
    ASSUME TypeOK, TypeOK', Reasoned, NEW r \in Reviews, NEW place \in {"accepted", "audited"},
           pc[r] \notin {"unasked", "pending", "ended"}, pc' = [pc EXCEPT ![r] = place],
           UNCHANGED <<record, requested, due, outcome, faults, phase, late>>,
           link # "up" => link' # "up", open' = open \/ open = r
    PROVE  Reasoned'
<1>1. NotOffered' = NotOffered
  BY DEF NotOffered
<1>2. \A q \in Reviews : pc'[q] = IF q = r THEN place ELSE pc[q]
  BY DEF TypeOK
<1>3. Current'
  BY <1>1, <1>2 DEF Reasoned, Current
<1>4. late' >= late
  BY DEF TypeOK
<1>5. ASSUME NEW q \in Reviews, Overtaken(q) PROVE Overtaken(q)'
  BY <1>4, <1>5, OvertakenStays
<1>6. Expired'
  BY <1>2, <1>5 DEF Reasoned, Expired
<1>7. QED
  BY <1>1, <1>3, <1>6 DEF Reasoned, Unavailable, Faulted, Unrecorded, Replaced

LEMMA JudgeReasoned ==
    ASSUME TypeOK, TypeOK', Places, Reasoned, NEW r \in Reviews, Judge(r)
    PROVE  Reasoned'
<1> DEFINE d == Head(inbox)
<1>1. pc[r] = "listening" /\ open = r /\ UNCHANGED <<requested, due, phase, late>>
  BY DEF Judge, Listens, At
<1>2. Verdict(r, d)
  BY DEF Judge, Verdict
<1> HIDE DEF d
<1>3. late' >= late
  BY <1>1 DEF TypeOK
<1>4. \A frame : Send(frame) => (link # "up" => link' # "up")
  BY DEF Send
<1>5. CASE Refuse(r, d)
  <2>1. UNCHANGED <<record, pc, outcome, open, faults>> /\ (link # "up" => link' # "up")
    BY <1>4, <1>5 DEF Refuse, docs
  <2>2. QED
    BY <1>1, <1>3, <2>1, NothingReasoned
<1>6. CASE RefuseLate(r, d)
  <2>1. Overtaken(r) /\ Undecided(r, "review_expired") /\ (link # "up" => link' # "up")
    BY <1>4, <1>6 DEF RefuseLate, Overtaken
  <2>2. WaitEnds(r, "review_expired")
    BY <1>1, <2>1, UndecidedEnds DEF Reasons
  <2>3. QED
    BY <2>2, WaitEndsReasoned
<1>7. CASE FailDuplicate(r, d)
  <2>1. link' = "down" /\ Undecided(r, "channel_unavailable")
    BY <1>7 DEF FailDuplicate
  <2>2. WaitEnds(r, "channel_unavailable")
    BY <1>1, <2>1, UndecidedEnds DEF Reasons
  <2>3. QED
    BY <2>2, WaitEndsReasoned
<1>8. CASE Accept(r, d)
  <2>1. /\ pc' = [pc EXCEPT ![r] = "accepted"] /\ UNCHANGED <<outcome, record, faults>>
        /\ link # "up" => link' # "up"
    BY <1>4, <1>8 DEF Accept, GoTo, docs
  <2>2. QED
    BY <1>1, <2>1, MoveReasoned
<1>9. QED
  BY <1>2, <1>5, <1>6, <1>7, <1>8 DEF Verdict

LEMMA AuditReasoned ==
    ASSUME TypeOK, TypeOK', Reasoned, NEW r \in Reviews, Audit(r)
    PROVE  Reasoned'
<1>1. /\ pc[r] = "accepted" /\ pc' = [pc EXCEPT ![r] = "audited"]
      /\ UNCHANGED <<record, requested, due, outcome, faults, phase, late, link, open>>
  BY DEF Audit, At, GoTo, docs, channel
<1>2. QED
  BY <1>1, MoveReasoned

\* A decision is lost to a fault of its own save, or to the review that is on
\* record in its place.
LEMMA DecideReasoned ==
    ASSUME TypeOK, TypeOK', Recorded, Reasoned, NEW r \in Reviews, Decide(r)
    PROVE  Reasoned'
<1> DEFINE status == Status[took[r]]
<1>1. /\ pc[r] = "audited" /\ pc' = [pc EXCEPT ![r] = "ended"] /\ phase = "running"
      /\ UNCHANGED <<requested, due, open, link, phase, late>>
  BY DEF Decide, At, GoTo, channel
<1>2. took[r] \in Answers
  BY <1>1 DEF Recorded, Places, TypeOK
<1>3. status \in StatusNames
  BY <1>2 DEF Status, Answers, StatusNames
<1>4. Resolves(r, status) \/ DoesNotResolve(r, status)
  BY DEF Decide
<1>5. CASE Resolves(r, status) /\ Tell(r, Word(r))
  <2>1. WaitEnds(r, Word(r))
    BY <1>1, <1>3, <1>5, ResolveLeaves DEF WaitEnds, Tell, Word
  <2>2. QED
    BY <2>1, WaitEndsReasoned DEF Recorded
<1>6. CASE DoesNotResolve(r, status) /\ Tell(r, "not_recorded")
  <2>1. Cardinality(NotOffered) \in Nat /\ faults \in Nat /\ Cardinality(NotOffered) <= faults
    BY NotOfferedFinite, ReviewAssumption DEF TypeOK, Reasoned, Faulted
  <2>2. CASE faults' = faults + 1
    <3>1. faults' > Cardinality(NotOffered)
      BY <2>1, <2>2
    <3>2. WaitEnds(r, "not_recorded")
      BY <1>1, <1>3, <1>6, <3>1, ResolveLeaves DEF WaitEnds, Tell
    <3>3. QED
      BY <3>2, WaitEndsReasoned DEF Recorded
  <2>3. CASE ~Resolvable(r)
    <3>1. outcome[r] = "none" /\ r \notin NotOffered
      BY <1>1 DEF Recorded, Places, NotOffered
    <3>2. r <= record.current /\ record.current <= requested /\ record.current # r
      BY <1>1, <2>3, <3>1 DEF Reasoned, Current, Resolvable
    <3>3. r \in Nat \ {0} /\ record.current \in Nat /\ requested \in 0..R
      BY ReviewAssumption DEF TypeOK, Record, Reviews
    <3>4. record.current \in 1..requested /\ record.current > r /\ record.current \in Reviews
      BY <3>2, <3>3, ReviewAssumption DEF Reviews
    <3>5. outcome[record.current] # "not_offered"
      BY <3>3, <3>4 DEF Reasoned, Current, NotOffered
    <3>6. Replaced(r)
      BY <3>4, <3>5 DEF Replaced
    <3>7. QED
      <4>1. WaitEnds(r, "not_recorded")
        BY <1>1, <1>3, <1>6, <3>6, ResolveLeaves DEF WaitEnds, Tell
      <4>2. QED
        BY <4>1, WaitEndsReasoned DEF Recorded
  <2>4. QED
    BY <1>3, <1>6, <2>2, <2>3, ResolveLeaves
<1>7. QED
  BY <1>5, <1>6, Zenon DEF Decide

LEMMA OfferReasoned ==
    ASSUME TypeOK, TypeOK', Places, Reasoned, NEW r \in Reviews, Offer(r)
    PROVE  Reasoned'
<1>1. /\ pc[r] = "pending" /\ phase = "running" /\ due' = [due EXCEPT ![r] = record.current]
      /\ UNCHANGED <<requested, phase, late>>
  BY DEF Offer, At, Free
<1>2. due[r] = 0 /\ outcome[r] = "none" /\ r \notin NotOffered
  BY <1>1 DEF Reasoned, Current, Places, NotOffered
<1>3. \A q \in Reviews : due'[q] = IF q = r THEN record.current ELSE due[q]
  BY <1>1 DEF TypeOK
<1>4. CASE Undecided(r, "channel_unavailable") /\ link' # "up"
  <2>1. WaitEnds(r, "channel_unavailable")
    BY <1>1, <1>2, <1>3, <1>4, UndecidedEnds DEF Reasons
  <2>2. QED
    BY <2>1, WaitEndsReasoned
<1>5. CASE open' = r /\ Send([type |-> "review", id |-> r]) /\ GoTo(r, "listening") /\ UNCHANGED <<outcome, docs>>
  <2>1. UNCHANGED <<record, faults, outcome>> /\ (link # "up" => link' # "up") /\ late' >= late
    BY <1>1, <1>5 DEF docs, Send, TypeOK
  <2>2. \A q \in Reviews : pc'[q] = IF q = r THEN "listening" ELSE pc[q]
    BY <1>5 DEF GoTo, TypeOK
  <2>3. NotOffered' = NotOffered
    BY <2>1 DEF NotOffered
  <2>4. Current'
    BY <1>1, <1>3, <2>1, <2>2, <2>3 DEF Reasoned, Current
  <2>5. ASSUME NEW q \in Reviews \ {r}, Overtaken(q) PROVE Overtaken(q)'
    BY <1>2, <1>3, <2>1, <2>5, OvertakenStays
  <2>6. Expired'
    <3>1. SUFFICES ASSUME NEW q \in Reviews,
                          outcome[q] = "review_expired" \/ (pc'[q] = "listening" /\ q # r)
                   PROVE  Overtaken(q)'
      BY <1>5, <2>1 DEF Expired
    <3>2. q # r
      BY <1>2, <3>1
    <3>3. CASE outcome[q] = "review_expired" \/ open # q
      BY <2>2, <2>5, <3>1, <3>2, <3>3 DEF Reasoned, Expired
    <3>4. CASE outcome[q] # "review_expired" /\ open = q
      <4>1. pc[q] = "listening" /\ outcome[q] = "none"
        BY <2>2, <3>1, <3>2, <3>4 DEF Places
      <4>2. q <= record.current
        BY <4>1 DEF Reasoned, Current, NotOffered
      <4>3. due'[r] >= q
        BY <1>3, <4>2 DEF TypeOK, Record, Reviews
      <4>4. QED
        BY <3>2, <4>3 DEF Overtaken
    <3>5. QED
      BY <3>3, <3>4
  <2>7. QED
    BY <1>1, <2>1, <2>3, <2>4, <2>6 DEF Reasoned, Unavailable, Faulted, Unrecorded, Replaced
<1>6. QED
  BY <1>4, <1>5, Zenon DEF Offer, channel

\* A request that is not on record took a fault and replaces no review.
LEMMA RequestReasoned ==
    ASSUME TypeOK, TypeOK', Places, Reasoned, NEW r \in Reviews, Request(r)
    PROVE  Reasoned'
<1>1. /\ r = requested + 1 /\ requested' = r /\ requested \in Nat /\ phase = "running"
      /\ UNCHANGED <<due, open, link, phase, late>>
  BY DEF Request, TypeOK, channel, Free
<1>2. pc[r] = "unasked" /\ outcome[r] = "none" /\ r \notin NotOffered
  BY <1>1 DEF Places, NotOffered, TypeOK
<1>3. record.current \in Nat /\ record.current <= requested /\ late' >= late
  BY <1>1 DEF Reasoned, Current, TypeOK, Record
<1>4. IsFiniteSet(NotOffered) /\ Cardinality(NotOffered) \in Nat /\ faults \in Nat /\ Cardinality(NotOffered) <= faults
  BY NotOfferedFinite, ReviewAssumption DEF TypeOK, Reasoned, Faulted
<1>5. CASE Save(Installed(r)) /\ GoTo(r, "pending") /\ UNCHANGED outcome
  <2>1. \A q \in Reviews : pc'[q] = IF q = r THEN "pending" ELSE pc[q]
    BY <1>5 DEF GoTo, TypeOK
  <2>2. NotOffered' = NotOffered /\ UNCHANGED <<outcome, faults>>
    BY <1>5 DEF NotOffered, Save
  <2>3. record'.current = r /\ record'.status[r] = "PENDING"
    BY <1>5 DEF Save, Installed
  <2>4. \A q \in Reviews : pc[q] # "unasked" => q <= requested
    BY DEF Places, TypeOK, Reviews
  <2>5. Current'
    <3>1. record'.current <= requested' /\ record'.current \notin NotOffered'
      BY <1>1, <1>2, <2>2, <2>3
    <3>2. ASSUME NEW q \in Reviews
          PROVE  /\ pc'[q] # "unasked" => q \in NotOffered' \/ q <= record'.current
                 /\ pc'[q] \in {"unasked", "pending"} => due'[q] = 0
                 /\ pc'[q] \notin {"unasked", "ended"} /\ record'.current = q => record'.status[q] = "PENDING"
      <4>1. pc'[q] # "unasked" => q <= r
        BY <1>1, <2>1, <2>4 DEF Reviews
      <4>2. pc'[q] \in {"unasked", "pending"} => due'[q] = 0
        BY <1>1, <1>2, <2>1 DEF Reasoned, Current
      <4>3. QED
        BY <2>3, <4>1, <4>2
    <3>3. QED
      BY <3>1, <3>2 DEF Current
  <2>6. ASSUME NEW q \in Reviews, Overtaken(q) PROVE Overtaken(q)'
    BY <1>1, <1>3, <2>2, <2>6, OvertakenStays
  <2>7. Expired'
    BY <1>1, <2>1, <2>2, <2>6 DEF Reasoned, Expired
  <2>8. \A q \in Reviews : Replaced(q) => Replaced(q)'
    BY <1>1, <2>2 DEF Replaced
  <2>9. Unrecorded'
    BY <2>2, <2>8 DEF Reasoned, Unrecorded
  <2>10. QED
    BY <1>1, <2>2, <2>5, <2>7, <2>9 DEF Reasoned, Unavailable, Faulted
<1>6. CASE InstallFails(Installed(r)) /\ GoTo(r, "ended") /\ Tell(r, "not_offered")
  <2>1. \A q \in Reviews : pc'[q] = IF q = r THEN "ended" ELSE pc[q]
    BY <1>6 DEF GoTo, TypeOK
  <2>2. \A q \in Reviews : outcome'[q] = IF q = r THEN "not_offered" ELSE outcome[q]
    BY <1>6 DEF Tell, TypeOK
  <2>3. NotOffered' = NotOffered \cup {r}
    BY <2>2 DEF NotOffered
  <2>4. Cardinality(NotOffered') = Cardinality(NotOffered) + 1 /\ faults' = faults + 1 /\ record' = record
    BY <1>2, <1>4, <1>6, <2>3, FS_AddElement DEF InstallFails, SaveFails
  <2>5. Current'
    BY <1>1, <1>3, <2>1, <2>3, <2>4 DEF Reasoned, Current
  <2>6. ASSUME NEW q \in Reviews, Overtaken(q) PROVE Overtaken(q)'
    BY <1>1, <1>2, <1>3, <2>2, <2>6, OvertakenStays
  <2>7. Expired'
    BY <1>1, <2>1, <2>2, <2>6 DEF Reasoned, Expired
  <2>8. ASSUME NEW q \in Reviews, Replaced(q) PROVE Replaced(q)'
    <3>1. PICK p \in 1..requested : p > q /\ outcome[p] # "not_offered"
      BY <2>8 DEF Replaced
    <3>2. p \in 1..requested' /\ p \in Reviews /\ p # r
      BY <1>1, <3>1, ReviewAssumption DEF Reviews
    <3>3. QED
      BY <2>2, <3>1, <3>2 DEF Replaced
  <2>9. Unrecorded'
    BY <1>4, <2>2, <2>4, <2>8 DEF Reasoned, Unrecorded
  <2>10. Unavailable' /\ Faulted'
    BY <1>1, <1>4, <2>2, <2>4 DEF Reasoned, Unavailable, Faulted
  <2>11. QED
    BY <2>5, <2>7, <2>9, <2>10 DEF Reasoned
<1>7. QED
  BY <1>5, <1>6 DEF Request

\* The launch ends with no wait under way.
LEMMA FinishReasoned ==
    ASSUME TypeOK, TypeOK', Reasoned, Finish
    PROVE  Reasoned'
<1>1. /\ record'.current = record.current /\ faults' \in {faults, faults + 1}
      /\ phase' = "ended" /\ link' = "down"
      /\ UNCHANGED <<requested, pc, due, outcome, late>>
  BY FinishSteps, LastTyped DEF Save, waits
<1>2. NotOffered' = NotOffered
  BY <1>1 DEF NotOffered
<1>3. Current' /\ Unavailable' /\ Expired'
  BY <1>1, <1>2 DEF Reasoned, Current, Unavailable, Expired, Overtaken
<1>4. Cardinality(NotOffered) \in Nat /\ faults \in Nat /\ faults' >= faults
  BY <1>1, NotOfferedFinite, ReviewAssumption DEF TypeOK
<1>5. Faulted' /\ Unrecorded'
  BY <1>1, <1>2, <1>4 DEF Reasoned, Faulted, Unrecorded, Replaced, TypeOK
<1>6. QED
  BY <1>3, <1>5 DEF Reasoned

LEMMA NextReasoned == ASSUME TypeOK, TypeOK', Recorded, Reasoned, [Next]_vars PROVE Reasoned'
<1>1. ASSUME NEW r \in Reviews, Request(r) \/ Offer(r) \/ Wait(r) \/ Interrupt(r) PROVE Reasoned'
  BY <1>1, RequestReasoned, OfferReasoned, JudgeReasoned, EndReasoned, AuditReasoned, DecideReasoned
  DEF Wait, Recorded
<1>2. CASE Finish
  BY <1>2, FinishReasoned
<1>3. ASSUME \/ UNCHANGED vars \/ SaveNotes \/ Crash \/ TimePasses \/ HostReads \/ HostCloses
             \/ HostTimesOut \/ \E a \in Answers : PersonDecides(a)
      PROVE  Reasoned'
  <2>1. UNCHANGED <<record, requested, pc, due, outcome, open, faults>> /\ link' \in {link, "down"}
    BY <1>3 DEF vars, docs, waits, channel, SaveNotes, Save, Crash, TimePasses, HostReads, HostCloses,
                HostTimesOut, PersonDecides
  <2>2. late' \in {late, late + 1} /\ phase' \in {phase, "dead"}
    BY <1>3 DEF vars, SaveNotes, Crash, TimePasses, HostReads, HostCloses, HostTimesOut, PersonDecides
  <2>3. late' >= late
    BY <2>2, ReviewAssumption DEF TypeOK
  <2>4. QED
    BY <2>1, <2>2, <2>3, NothingReasoned
<1>4. QED
  BY <1>1, <1>2, <1>3 DEF Next

----------------------------------------------------------------------------
(* Theorems *)

\* The invariant of request_change_approval, the channel and the host.
THEOREM Inductive == Spec => []IInv
<1>1. Init => IInv
  BY InitTyped, InitRecorded, InitReasoned
  DEF IInv, Init, HostIsAnswered, Nobody, OneInFlight, BothEndsAgree
<1>2. IInv /\ [Next]_vars => IInv'
  BY NextTyped, NextRecorded, NextAnswered, NextReasoned, NextAgrees DEF IInv, Recorded, Agreed
<1>3. QED
  BY <1>1, <1>2, PTL DEF Spec

\* The variables keep their types, and a review whose decision was accepted is
\* never open again: its capability is spent (ReviewChannel._handle).
THEOREM TypeCorrect == Spec => []TypeOK
<1>1. IInv => TypeOK
  BY DEF IInv
<1>2. QED
  BY <1>1, Inductive, PTL

\* However saves fail and whenever the process dies, the workflow goes on only
\* on a decision that was accepted and is on disk (LaunchApproval.request_change_approval,
\* LaunchControl.resolve_review).
THEOREM OutcomeAlwaysOnRecord == Spec => []OutcomeIsOnRecord
<1>1. IInv => OutcomeIsOnRecord
  BY DEF IInv, Recorded, Backs, AuditIsTrue, OutcomeIsOnRecord
<1>2. QED
  BY <1>1, Inductive, PTL

\* The host is never left waiting for a result nobody will send while the
\* channel is open (ReviewChannel._handle, review_channel.ts).
THEOREM HostAlwaysAnswered == Spec => []HostIsAnswered
<1>1. IInv => HostIsAnswered
  BY DEF IInv
<1>2. QED
  BY <1>1, Inductive, PTL

\* A person who finds a review undecided reads the true reason: its time was up,
\* another one took its place, the channel ended, or a save of its own decision
\* failed (ReviewChannel.offer and _handle, LaunchControl.resolve_review).
THEOREM ReasonIsAlwaysTrue == Spec => []ReasonIsTrue
<1>1. IInv => ReasonIsTrue
  BY DEF IInv, Reasoned, Expired, Overtaken, Unavailable, Unrecorded, Replaced, NotOffered, ReasonIsTrue
<1>2. QED
  BY <1>1, Inductive, PTL

\* However decisions and results cross superseded, expired and interrupted
\* waits, the person and the waiter agree on what was accepted, unless the host
\* stopped waiting for a result (ReviewChannel._handle, review_channel.ts).
THEOREM BothEndsAlwaysAgree == Spec => []BothEndsAgree
<1>1. IInv => BothEndsAgree
  BY DEF IInv
<1>2. QED
  BY <1>1, Inductive, PTL
=============================================================================
