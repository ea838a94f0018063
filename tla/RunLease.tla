------------------------------ MODULE RunLease ------------------------------
(***************************************************************************)
(* A run's lease: its record (RunLifecycle) and the clock of its           *)
(* generation budget, both in kriya/control/run_coordinator.py.  The clock *)
(* is the moment the budget counts from.  It starts at the first claim,    *)
(* and while a person is asked (human_wait) the budget does not run:       *)
(* coroutines ask at the same time, claim while others ask, and keep       *)
(* copies of the clock.                                                    *)
(*                                                                         *)
(* The clock is reached through the active lease only: after the run       *)
(* nothing of it is read.  No coroutine is suspended inside an operation.  *)
(***************************************************************************)
EXTENDS RunLifecycle, Integers, FiniteSets

CONSTANTS
    Waiters,      \* coroutines that ask a person
    Followers,    \* states of work units, which keep a copy of the clock
    MaxTime       \* bound on the monotonic time

ASSUME LeaseAssumption == IsFiniteSet(Waiters) /\ MaxTime \in Nat

VARIABLES
    now,                  \* the monotonic time
    asking,               \* who asks a person; its size is human_wait_depth
    human_wait_started,   \* when the first of them began, Unset without one
    generation_clock,     \* the start of the budget, Unset before the first claim
    budget_started,       \* each follower's copy, Unset before it follows
    worked                \* history: time since the first claim in which nobody asked

clock == <<now, asking, human_wait_started, generation_clock, budget_started, worked>>
leaseVars == <<vars, clock>>

Unset == -1

----------------------------------------------------------------------------
\* Faulty variant: a clock claimed inside a wait starts when it is claimed.
ClockStartNow == now

\* The start the first claim gives the clock.
ClockStart == IF asking = {} THEN now ELSE human_wait_started

\* claim_run_generation_clock: the lease's clock after the claim ...
Claimed == IF generation_clock = Unset THEN ClockStart ELSE generation_clock

\* ... and what the claimer is told: the start moves while somebody asks.
Effective(c) == IF asking = {} THEN c ELSE c + (now - human_wait_started)

\* The first model call, embedding or deadline of a tool.
Claim ==
    /\ live
    /\ generation_clock' = Claimed
    /\ UNCHANGED <<vars, now, asking, human_wait_started, budget_started, worked>>

\* open_run_state: a work unit claims, copies what it is told, and follows.
Follow(s) ==
    /\ live
    /\ budget_started[s] = Unset
    /\ generation_clock' = Claimed
    /\ budget_started' = [budget_started EXCEPT ![s] = Effective(Claimed)]
    /\ UNCHANGED <<vars, now, asking, human_wait_started, worked>>

\* generation_clock_paused, entered: overlapping waits are one wait.
Ask(w) ==
    /\ live
    /\ w \notin asking
    /\ asking' = asking \cup {w}
    /\ human_wait_started' = IF asking = {} THEN now ELSE human_wait_started
    /\ UNCHANGED <<vars, now, generation_clock, budget_started, worked>>

\* The wait is credited to the clock, and every follower copies it.
Credit ==
    /\ generation_clock' = generation_clock + (now - human_wait_started)
    /\ budget_started' = [s \in Followers |-> IF budget_started[s] = Unset THEN Unset
                                              ELSE generation_clock']

\* ... and left, with an answer, an exception or cancelled: the last one out
\* credits the wait, if the clock has started.
Answered(w) ==
    /\ live
    /\ w \in asking
    /\ asking' = asking \ {w}
    /\ human_wait_started' = IF asking' = {} THEN Unset ELSE human_wait_started
    /\ IF asking' = {} /\ generation_clock # Unset THEN Credit
       ELSE UNCHANGED <<generation_clock, budget_started>>
    /\ UNCHANGED <<vars, now, worked>>

Tick ==
    /\ live
    /\ now < MaxTime
    /\ now' = now + 1
    /\ worked' = IF generation_clock # Unset /\ asking = {} THEN worked + 1 ELSE worked
    /\ UNCHANGED <<vars, asking, human_wait_started, generation_clock, budget_started>>

LeaseInit ==
    /\ Init
    /\ now = 0 /\ worked = 0
    /\ asking = {} /\ human_wait_started = Unset
    /\ generation_clock = Unset
    /\ budget_started = [s \in Followers |-> Unset]

ClockNext ==
    \/ Claim \/ Tick
    \/ \E s \in Followers : Follow(s)
    \/ \E w \in Waiters : Ask(w) \/ Answered(w)

LeaseNext ==
    \/ Next /\ UNCHANGED clock
    \/ ClockNext

LeaseSpec == LeaseInit /\ [][LeaseNext]_leaseVars

----------------------------------------------------------------------------
(* Properties *)

\* However waits overlap, and whether the clock is first claimed before, inside
\* or between them, a claimer sees exactly the time worked since the first claim
\* as spent: a wait is credited once, and never twice or for the time before the
\* claim.  A work unit's copy agrees with the clock whenever nobody asks, and
\* never gives it more than the clock does (claim_run_generation_clock,
\* generation_clock_paused, follow_run_generation_clock).
BudgetCountsWorkOnly ==
    live /\ generation_clock # Unset =>
        /\ now - Effective(generation_clock) = worked
        /\ \A s \in Followers : budget_started[s] # Unset =>
              /\ budget_started[s] <= Effective(generation_clock)
              /\ asking = {} => budget_started[s] = generation_clock
=============================================================================
