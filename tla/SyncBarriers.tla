----------------------------- MODULE SyncBarriers -----------------------------
(***************************************************************************)
(* The two barriers of async_io/sync_primitives, which count rounds apart: *)
(* Barrier by a generation that Reset moves on, SyncBarrier by a phase     *)
(* that Reset sets back to 0.  A critical section is one action; a thread  *)
(* that waits may test its condition at any time, as after a notification  *)
(* or for no reason.                                                       *)
(***************************************************************************)
EXTENDS Integers, FiniteSets

CONSTANTS Parties,          \* threads that come to a barrier, any number of them
          Count,            \* thread_count_ and count_
          MaxRound          \* bound on the rounds

ASSUME BarrierAssumption == Count \in Nat \ {0} /\ MaxRound \in Nat

VARIABLES barrier,          \* the members of a Barrier: waiting, generation
          phases,           \* the members of a SyncBarrier: waiting, phase
          party,            \* where each thread is and the value it waits to change
          round,            \* history: the rounds that were completed, of each
          crowd             \* history: how many came to each round, of each

barrierVars == <<barrier, phases, party, round, crowd>>

Kinds == {"barrier", "phases"}
Away == [at |-> "away", seen |-> 0, in |-> 0]

BarriersInit ==
  /\ barrier = [waiting |-> 0, generation |-> 0]
  /\ phases = [waiting |-> 0, phase |-> 0]
  /\ party = [t \in Parties |-> Away]
  /\ round = [k \in Kinds |-> 0] /\ crowd = [k \in Kinds |-> [r \in 0 .. MaxRound |-> 0]]

\* History: a thread comes to the current round, which it may complete.
Comes(k, completes) ==
  /\ crowd' = [crowd EXCEPT ![k][round[k]] = @ + 1]
  /\ round' = IF completes THEN [round EXCEPT ![k] = @ + 1] ELSE round
Stays(t, k, value) == party' = [party EXCEPT ![t] = [at |-> k, seen |-> value, in |-> round[k]]]

\* Barrier::Wait up to its wait.
Wait(t) ==
  /\ party[t].at = "away" /\ round["barrier"] < MaxRound
  /\ LET n == barrier.waiting + 1 IN
     /\ Comes("barrier", n >= Count)
     /\ IF n >= Count
        THEN /\ barrier' = [waiting |-> 0, generation |-> barrier.generation + 1]
             /\ UNCHANGED party
        ELSE /\ barrier' = [barrier EXCEPT !.waiting = n]
             /\ Stays(t, "barrier", barrier.generation)
  /\ UNCHANGED phases

WaitReturns(t) ==
  /\ party[t].at = "barrier" /\ barrier.generation # party[t].seen
  /\ party' = [party EXCEPT ![t] = Away]
  /\ UNCHANGED <<barrier, phases, round, crowd>>

\* Fault: Reset does not look for threads that wait.
ResetBarrierAlways ==
  /\ barrier.generation < 2 * MaxRound
  /\ barrier' = [barrier EXCEPT !.generation = @ + 1]
  /\ UNCHANGED <<phases, party, round, crowd>>

ResetBarrier ==
  /\ barrier.waiting = 0 /\ barrier.generation < 2 * MaxRound
  /\ barrier' = [barrier EXCEPT !.generation = @ + 1]
  /\ UNCHANGED <<phases, party, round, crowd>>

\* SyncBarrier::Arrive up to its wait.
Arrive(t) ==
  /\ party[t].at = "away" /\ round["phases"] < MaxRound
  /\ LET n == phases.waiting + 1 IN
     /\ Comes("phases", n = Count)
     /\ IF n = Count
        THEN /\ phases' = [waiting |-> 0, phase |-> phases.phase + 1]
             /\ UNCHANGED party
        ELSE /\ phases' = [phases EXCEPT !.waiting = n]
             /\ Stays(t, "phases", phases.phase)
  /\ UNCHANGED barrier

\* A thread that was released when the phase moved on, but comes to look only
\* after ResetPhases, finds the value it waits to change and goes on waiting.
ArriveReturns(t) ==
  /\ party[t].at = "phases" /\ phases.phase # party[t].seen
  /\ party' = [party EXCEPT ![t] = Away]
  /\ UNCHANGED <<barrier, phases, round, crowd>>

\* SyncBarrier::WaitPhase up to its wait, and its return.
WaitPhase(t, phase) ==
  /\ party[t].at = "away"
  /\ party' = [party EXCEPT ![t] = [at |-> "behind", seen |-> phase, in |-> 0]]
  /\ UNCHANGED <<barrier, phases, round, crowd>>

WaitPhaseReturns(t) ==
  /\ party[t].at = "behind" /\ phases.phase >= party[t].seen
  /\ party' = [party EXCEPT ![t] = Away]
  /\ UNCHANGED <<barrier, phases, round, crowd>>

ResetPhases ==
  /\ phases.waiting = 0 /\ phases.phase # 0
  /\ phases' = [phases EXCEPT !.phase = 0]
  /\ UNCHANGED <<barrier, party, round, crowd>>

BarriersNext ==
  \/ \E t \in Parties : \/ Wait(t) \/ WaitReturns(t) \/ Arrive(t) \/ ArriveReturns(t)
                         \/ WaitPhaseReturns(t)
                         \/ \E n \in 1 .. MaxRound : WaitPhase(t, n)
  \/ ResetBarrier \/ ResetPhases

BarriersSpec == BarriersInit /\ [][BarriersNext]_barrierVars

\* A thread that may leave a barrier, because the generation or the phase is
\* not the one it saw, is of a round to which exactly Count threads came,
\* whatever resets come between and however late it looks; and a thread of a
\* Barrier that came to a completed round may leave.  The second part does not
\* hold of SyncBarrier: ResetPhases may hold a released thread back.
BarriersTogether ==
  \A t \in Parties :
    /\ party[t].at = "barrier" =>
         (barrier.generation # party[t].seen <=> crowd["barrier"][party[t].in] = Count)
    /\ party[t].at = "phases" /\ phases.phase # party[t].seen =>
         crowd["phases"][party[t].in] = Count
=============================================================================
