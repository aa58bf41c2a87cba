--------------------------- MODULE AgentSteering ---------------------------
(***************************************************************************)
(* The steering queue of an agent run (SteerController, agentSteering.ts). *)
(*                                                                         *)
(* The user interface enqueues corrections and takes them back; the agent  *)
(* loop drains the queue at a turn boundary.  An interrupt-mode correction *)
(* also fires the AbortController that the in-flight model turn listens    *)
(* to, and `rearm` replaces a controller that has fired.  Only whether the *)
(* CURRENT controller has fired is state: a controller is replaced only    *)
(* after it fired, when every turn that listens to it is already aborted.  *)
(***************************************************************************)
EXTENDS Sequences, FiniteSets, Naturals

CONSTANT Steers  \* the corrections a user may type during a run, by id

VARIABLES
  queue,             \* this.queue: corrections waiting, in arrival order
  interruptAborted,  \* this.controller.signal.aborted
  issued,            \* history: ids in the order enqueue() accepted them
  cancelled,         \* history: ids taken back with cancel()
  delivered          \* history: ids drain() handed to the loop, in order

steerVars == <<queue, interruptAborted, issued, cancelled, delivered>>

Modes == {"queue", "interrupt"}

SteerMessages == [id : Steers, mode : Modes]

QueuedIds(q) == [i \in 1..Len(q) |-> q[i].id]

HasInterrupt(q) == \E i \in 1..Len(q) : q[i].mode = "interrupt"

SteerInit ==
  /\ queue = <<>>
  /\ interruptAborted = FALSE
  /\ issued = <<>>
  /\ cancelled = {}
  /\ delivered = <<>>

\* Every id is used once: enqueue() draws a fresh one from a counter.
Enqueue(s, mode) ==
  /\ \A i \in 1..Len(issued) : issued[i] # s
  /\ queue' = Append(queue, [id |-> s, mode |-> mode])
  /\ interruptAborted' = (interruptAborted \/ mode = "interrupt")
  /\ issued' = Append(issued, s)
  /\ UNCHANGED <<cancelled, delivered>>

\* The queue cancel() leaves: filter((m) => m.id !== id), ids being unique.
Without(q, s) ==
  LET k == CHOOSE i \in 1..Len(q) : q[i].id = s
  IN  SubSeq(q, 1, k - 1) \o SubSeq(q, k + 1, Len(q))

\* Mutant of SignalAfterCancel: cancel() never re-arms.
SignalAfterCancelStale(q) == interruptAborted

\* The signal cancel() leaves when `q` is what remains of the queue: taking
\* back the only interrupt re-arms.
SignalAfterCancel(q) == interruptAborted /\ HasInterrupt(q)

\* cancel() of a correction that is no longer queued returns early and
\* changes nothing.
CancelSteer(s) ==
  /\ \E i \in 1..Len(queue) : queue[i].id = s
  /\ queue' = Without(queue, s)
  /\ interruptAborted' = SignalAfterCancel(Without(queue, s))
  /\ cancelled' = cancelled \union {s}
  /\ UNCHANGED <<issued, delivered>>

\* The loop's boundary: drain() then rearm(), with no await between them.
DrainAndRearm ==
  /\ delivered' = delivered \o QueuedIds(queue)
  /\ queue' = <<>>
  /\ interruptAborted' = FALSE
  /\ UNCHANGED <<issued, cancelled>>

SteerTypeOK ==
  /\ queue \in Seq(SteerMessages)
  /\ interruptAborted \in BOOLEAN
  /\ issued \in Seq(Steers)
  /\ cancelled \in SUBSET Steers
  /\ delivered \in Seq(Steers)

(***************************************************************************)
(* Every correction is applied exactly once and in arrival order unless    *)
(* the user took it back: what was drained, followed by what still waits,  *)
(* is what was typed minus what was cancelled (agentSteering.ts, drain and *)
(* cancel; "Remove and return everything pending, in arrival order").      *)
(***************************************************************************)
SteersInOrder ==
  LET heard == delivered \o QueuedIds(queue)
  IN  /\ {heard[i] : i \in 1..Len(heard)} = {issued[i] : i \in 1..Len(issued)} \ cancelled
      /\ \A i, j \in 1..Len(heard) : i < j =>
           \E a, b \in 1..Len(issued) : a < b /\ issued[a] = heard[i] /\ issued[b] = heard[j]

(***************************************************************************)
(* The interrupt signal is fired exactly while an interrupt-mode           *)
(* correction waits: no turn starts under a signal left over from a        *)
(* correction already applied or taken back, and no waiting interrupt has  *)
(* lost its signal (rearm, and its two call sites).                        *)
(***************************************************************************)
InterruptIffQueued == interruptAborted <=> HasInterrupt(queue)
=============================================================================
