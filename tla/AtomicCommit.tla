---------------------------- MODULE AtomicCommit ----------------------------
(***************************************************************************)
(* What a source transaction of kriya/repository/commit.py promises,       *)
(* whatever fails inside it.  A transaction is "open" from the moment its  *)
(* evidence says that it began until its evidence says how it ended.       *)
(*                                                                         *)
(*  - While it is open the targets may hold anything.                      *)
(*  - It ends "committed" only when every target holds its candidate       *)
(*    state, and "rolled_back" only when every target holds its original   *)
(*    state, but for targets that somebody else has written.               *)
(*  - Before it is open and after it has ended only somebody else writes   *)
(*    the targets.                                                         *)
(***************************************************************************)
EXTENDS Naturals

CONSTANTS Ops, MaxEdits

VARIABLES file, edits, verdict

vars == <<file, edits, verdict>>

\* "base": the original bytes and mode; "new": the candidate's bytes and mode,
\* or absence; "other": written by somebody else; "unmoded": the original bytes
\* without the original mode.
Values == {"base", "new", "other", "unmoded"}

Init ==
    /\ file = [k \in Ops |-> "base"]
    /\ edits = 0
    /\ verdict = "none"

Open ==
    /\ verdict = "none"
    /\ verdict' = "open"
    /\ UNCHANGED <<file, edits>>

Work ==
    /\ verdict = "open"
    /\ file' \in [Ops -> Values]
    /\ UNCHANGED <<edits, verdict>>

Commit ==
    /\ verdict = "open"
    /\ \A k \in Ops : file[k] \in {"new", "other"}
    /\ verdict' = "committed"
    /\ UNCHANGED <<file, edits>>

RollBack ==
    /\ verdict = "open"
    /\ \A k \in Ops : file[k] \in {"base", "other"}
    /\ verdict' = "rolled_back"
    /\ UNCHANGED <<file, edits>>

\* Somebody else, an editor or another program, writes a target.
Edit(k) ==
    /\ edits < MaxEdits
    /\ edits' = edits + 1
    /\ file' = [file EXCEPT ![k] = "other"]
    /\ UNCHANGED verdict

Next == Open \/ Work \/ Commit \/ RollBack \/ (\E k \in Ops : Edit(k))

Spec == Init /\ [][Next]_vars
=============================================================================
