----------------------------- MODULE AgentPause -----------------------------
(***************************************************************************)
(* Pause and resume of a run whose region is hidden (PauseController,      *)
(* agentPause.ts).  The host's visibility sets it; the agent loop reads it *)
(* at a turn boundary and, when paused, waits.  One run has at most one    *)
(* waiter.  A resolved waiter resumes in a later microtask, so the pause   *)
(* may be set again before the loop continues: `woken` is a waiter that    *)
(* has been resolved and not run yet.                                      *)
(***************************************************************************)
EXTENDS Naturals

VARIABLES
  paused,   \* this.paused
  waiting,  \* the loop's waiter is in this.waiters
  woken     \* the waiter was resolved, by the reveal or by the stop signal

pauseVars == <<paused, waiting, woken>>

PauseInit ==
  /\ paused = FALSE
  /\ waiting = FALSE
  /\ woken = FALSE

\* Mutant of IsPaused: the loop does not ask.
IsPausedNever == FALSE

\* isPaused()
IsPaused == paused

\* set(true)
Hide ==
  /\ ~paused
  /\ paused' = TRUE
  /\ UNCHANGED <<waiting, woken>>

\* Mutant of Reveal: the waiters are forgotten instead of resolved.
RevealSilent ==
  /\ paused
  /\ paused' = FALSE
  /\ waiting' = FALSE
  /\ UNCHANGED woken

\* set(false): every waiter is removed and resolved.
Reveal ==
  /\ paused
  /\ paused' = FALSE
  /\ waiting' = FALSE
  /\ woken' = (woken \/ waiting)

\* whenResumed(signal) on a paused controller, the signal not aborted.
Wait ==
  /\ waiting' = TRUE
  /\ UNCHANGED <<paused, woken>>

\* The stop signal resolves the waiter too (`done` on its abort event).
WakeOnStop ==
  /\ waiting' = FALSE
  /\ woken' = (woken \/ waiting)
  /\ UNCHANGED paused

\* The continuation of the await runs, whatever `paused` is by now.
TakeWake ==
  /\ woken
  /\ woken' = FALSE
  /\ UNCHANGED <<paused, waiting>>

PauseTypeOK ==
  /\ paused \in BOOLEAN
  /\ waiting \in BOOLEAN
  /\ woken \in BOOLEAN
=============================================================================
