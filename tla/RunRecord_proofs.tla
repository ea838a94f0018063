--------------------------- MODULE RunRecord_proofs ---------------------------
(***************************************************************************)
(* Lemmas about the values and operations of RunRecord, for the theorems   *)
(* about the modules that keep a record: what happens to the sequence of   *)
(* commit cycles.                                                          *)
(***************************************************************************)
EXTENDS RunRecord, SequenceTheorems, TLAPS

\* A function on 1..n with values in S is a sequence of length n.
LEMMA FunctionIsSeq ==
    ASSUME NEW S, NEW n \in Nat, NEW f \in [1..n -> S]
    PROVE  f \in Seq(S) /\ Len(f) = n /\ DOMAIN f = 1..n
BY SeqDef

\* The domain of a record's commits.
LEMMA CommitsDomain ==
    ASSUME NEW r \in Record
    PROVE  /\ r.commits \in Seq(Cycle)
           /\ Len(r.commits) \in Nat
           /\ DOMAIN r.commits = 1..Len(r.commits)
           /\ \A i \in 1..Len(r.commits) : r.commits[i] \in Cycle
           /\ r.commits # << >> => Len(r.commits) \in 1..Len(r.commits)
BY DEF Record

\* Closing unsettled cycles keeps every other result and leaves none unsettled.
LEMMA ClosedProperties ==
    ASSUME NEW c \in Seq(Cycle)
    PROVE  /\ Closed(c) \in Seq(Cycle)
           /\ Len(Closed(c)) = Len(c)
           /\ DOMAIN Closed(c) = DOMAIN c
           /\ \A i \in DOMAIN c :
                /\ Closed(c)[i].tx = c[i].tx
                /\ Closed(c)[i].result # "open"
                /\ c[i].result # "open" => Closed(c)[i] = c[i]
                /\ Closed(c)[i].result = "COMMITTED" => c[i].result = "COMMITTED"
<1>1. DOMAIN c = 1..Len(c) /\ Len(c) \in Nat
  OBVIOUS
<1>2. \A i \in 1..Len(c) : c[i] \in Cycle
  OBVIOUS
<1>3. Closed(c) \in [1..Len(c) -> Cycle]
  BY <1>1, <1>2 DEF Closed, Cycle, Results, Settled
<1>4. Closed(c) \in Seq(Cycle) /\ Len(Closed(c)) = Len(c) /\ DOMAIN Closed(c) = 1..Len(c)
  BY <1>1, <1>3, FunctionIsSeq
<1>5. QED
  BY <1>1, <1>2, <1>4 DEF Closed, Cycle

\* Recovery gives the proven results to the open cycles and changes no other.
LEMMA ProvedByProperties ==
    ASSUME NEW c \in Seq(Cycle), NEW D \in SUBSET (DOMAIN c), NEW proof \in [D -> Proven]
    PROVE  /\ ProvedBy(c, proof) \in Seq(Cycle)
           /\ Len(ProvedBy(c, proof)) = Len(c)
           /\ DOMAIN ProvedBy(c, proof) = DOMAIN c
           /\ \A i \in DOMAIN c :
                /\ ProvedBy(c, proof)[i].tx = c[i].tx
                /\ i \in D => ProvedBy(c, proof)[i].result \in Proven
                /\ i \notin D => ProvedBy(c, proof)[i] = c[i]
<1>1. DOMAIN c = 1..Len(c) /\ Len(c) \in Nat
  OBVIOUS
<1>2. \A i \in 1..Len(c) : c[i] \in Cycle
  OBVIOUS
<1>3. ProvedBy(c, proof) \in [1..Len(c) -> Cycle]
  BY <1>1, <1>2 DEF ProvedBy, Cycle, Results, Settled
<1>4. /\ ProvedBy(c, proof) \in Seq(Cycle)
      /\ Len(ProvedBy(c, proof)) = Len(c)
      /\ DOMAIN ProvedBy(c, proof) = 1..Len(c)
  BY <1>1, <1>3, FunctionIsSeq
<1>5. QED
  BY <1>1, <1>2, <1>4 DEF ProvedBy, Cycle

\* The run-level summary is a legal result and agrees with the cycles.
LEMMA SummaryTruth ==
    ASSUME NEW c \in Seq(Cycle)
    PROVE  /\ Summary(c) \in Settled \cup {"NO_COMMIT", "PARTIALLY_COMMITTED"}
           /\ (\E i \in DOMAIN c : c[i].result = "COMMITTED") =>
                Summary(c) \in {"COMMITTED", "PARTIALLY_COMMITTED", "UNCERTAIN"}
           /\ Summary(c) \in {"COMMITTED", "PARTIALLY_COMMITTED"} =>
                \E i \in DOMAIN c : c[i].result = "COMMITTED"
           /\ Summary(c) \in {"COMMITTED", "NO_COMMIT"} =>
                /\ \A i \in DOMAIN c : c[i].result \in Proven
                /\ c # << >> => LastResult(c) = "COMMITTED"
<1>1. DOMAIN c = 1..Len(c) /\ Len(c) \in Nat
  OBVIOUS
<1>0. \A i \in DOMAIN c : c[i] \in Cycle
  BY <1>1
<1>2. \A i \in DOMAIN c : c[i].result \in Results
  BY <1>0 DEF Cycle
<1>3. CASE c = << >>
  BY <1>1, <1>3 DEF Summary
<1>4. CASE c # << >>
  <2>1. Len(c) \in DOMAIN c
    BY <1>1, <1>4
  <2>2. LastResult(c) \in Results
    BY <1>2, <2>1 DEF LastResult
  <2>3. CASE \E i \in DOMAIN c : c[i].result \notin Proven
    <3>1. Summary(c) = "UNCERTAIN"
      BY <1>4, <2>3 DEF Summary
    <3>2. QED
      BY <3>1 DEF Settled
  <2>4. CASE \A i \in DOMAIN c : c[i].result \in Proven
    <3>1. Summary(c) = IF LastResult(c) = "COMMITTED" THEN "COMMITTED"
                       ELSE IF \E i \in DOMAIN c : c[i].result = "COMMITTED"
                            THEN "PARTIALLY_COMMITTED" ELSE LastResult(c)
      BY <1>4, <2>4 DEF Summary
    <3>2. LastResult(c) \in Proven
      BY <2>1, <2>4 DEF LastResult
    <3>3. QED
      BY <1>4, <2>1, <2>4, <3>1, <3>2 DEF Settled, Proven, LastResult
  <2>5. QED
    BY <2>3, <2>4
<1>5. QED
  BY <1>3, <1>4

\* Settling the last cycle changes that cycle's result alone.
LEMMA WithLastResultProperties ==
    ASSUME NEW r \in Record, NEW result \in Settled, r.commits # << >>
    PROVE  /\ WithLastResult(r, result) \in Record
           /\ WithLastResult(r, result).lifecycle = r.lifecycle
           /\ Len(WithLastResult(r, result).commits) = Len(r.commits)
           /\ DOMAIN WithLastResult(r, result).commits = DOMAIN r.commits
           /\ \A i \in DOMAIN r.commits :
                 /\ WithLastResult(r, result).commits[i].tx = r.commits[i].tx
                 /\ WithLastResult(r, result).commits[i].result =
                       IF i = Len(r.commits) THEN result ELSE r.commits[i].result
<1> DEFINE n == Len(r.commits)
           last == [r.commits[n] EXCEPT !.result = result]
           q == WithLastResult(r, result)
<1>1. r.commits \in Seq(Cycle) /\ n \in 1..n /\ r.commits[n] \in Cycle
  BY CommitsDomain
<1>2. last \in Cycle /\ last.result = result /\ last.tx = r.commits[n].tx
  BY <1>1 DEF Cycle, Results
<1>3. q = [r EXCEPT !.commits = [r.commits EXCEPT ![n] = last]]
  BY DEF WithLastResult
<1>4. q.commits = [r.commits EXCEPT ![n] = last] /\ q.lifecycle = r.lifecycle
  BY <1>3 DEF Record
<1>5. q.commits \in Seq(Cycle) /\ Len(q.commits) = n /\ DOMAIN q.commits = DOMAIN r.commits
  BY <1>1, <1>2, <1>4, ExceptSeq
<1>6. q \in Record
  BY <1>3, <1>4, <1>5 DEF Record
<1>7. \A i \in DOMAIN r.commits : q.commits[i] = IF i = n THEN last ELSE r.commits[i]
  BY <1>4
<1>8. QED
  BY <1>2, <1>4, <1>5, <1>6, <1>7
=============================================================================
