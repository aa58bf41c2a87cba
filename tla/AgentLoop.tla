----------------------------- MODULE AgentLoop -----------------------------
(***************************************************************************)
(* One run of the agent loop (runAgent and compactTranscript, agentLoop.ts)*)
(* with its steering queue, its pause controller, the model client and the *)
(* tool executor it awaits.                                                *)
(*                                                                         *)
(* JavaScript runs to completion between two awaits, so one action is all  *)
(* the loop does from the resolution of one await to the next await: an    *)
(* action that ends an iteration also goes through the top of the next one.*)
(* User and host events (a correction typed or taken back, stop, hide,     *)
(* reveal) fall between these steps.                                       *)
(*                                                                         *)
(* A message is its kind and the tool calls it makes or answers; texts,    *)
(* images, reasoning blocks and token counts are abstracted to the choices *)
(* the loop makes from them (stall or finish, over the compaction          *)
(* threshold, over the budget), taken nondeterministically.                *)
(***************************************************************************)
EXTENDS AgentSteering, AgentPause

CONSTANTS
  Calls,                 \* ids a turn's tool calls may have
  Histories,             \* prior transcripts a run may be seeded with
  MaxTurns,              \* opts.maxTurns
  MaxNudges,             \* opts.maxNudges
  MaxTruncationRetries,  \* opts.maxTruncationRetries
  KeepRecent             \* opts.keepRecentTurns

VARIABLES
  pc,                   \* which await the loop is suspended at, or how it ended
  outcome,              \* why the run ended: the break or the throw it took
  messages,             \* the transcript
  turn,                 \* the loop counter
  nudges,
  truncationRetries,
  interruptedLastTurn,
  crowded,              \* contextTokens > window - reserveTokens
  overBudget,           \* tokenBudget && spentTokens >= tokenBudget
  executed,             \* calls of the current batch that have a result
  retried,              \* the overflow recovery of this turn was used
  stopped,              \* signal.aborted
  turnAborted,          \* turnAbort.signal.aborted, of the turn in flight
  turnsWhilePaused      \* history: turns begun since the pause was last set

runVars == <<pc, outcome, messages, turn, nudges, truncationRetries,
             interruptedLastTurn, crowded, overBudget, executed, retried>>

vars == <<queue, interruptAborted, issued, cancelled, delivered,
          paused, waiting, woken,
          pc, outcome, messages, turn, nudges, truncationRetries,
          interruptedLastTurn, crowded, overBudget, executed, retried,
          stopped, turnAborted, turnsWhilePaused>>

-----------------------------------------------------------------------------
(* The transcript.                                                         *)

UserKinds == {"prompt", "summary", "nudge", "steer", "results", "failed"}

\* "calls" is a turn whose tool calls are executed, "truncated" one cut off
\* at max_tokens while it emitted calls, "text" one without any call, and
\* "interrupted" the record of a turn an interrupt steer cut short.
AssistantKinds == {"text", "calls", "truncated", "interrupted"}

Message == [kind : UserKinds \union AssistantKinds, calls : SUBSET Calls]

Note(kind) == [kind |-> kind, calls |-> {}]

IsAssistant(m) == m.kind \in AssistantKinds

\* An assistant message with tool_use blocks, and one of tool_result blocks.
Opens(m) == m.kind \in {"calls", "truncated"}
Answers(m) == m.kind \in {"results", "failed"}

\* The user message with one tool_result per tool_use of m: the outcomes of
\* the calls, or for a truncated turn an error for each (not executed).
AnswerTo(m) ==
  [kind |-> IF m.kind = "calls" THEN "results" ELSE "failed", calls |-> m.calls]

\* Every tool_use is answered by the next message, and nothing else answers.
Paired(ms) ==
  /\ \A i \in 1..Len(ms) :
       Opens(ms[i]) => i + 1 <= Len(ms) /\ ms[i + 1] = AnswerTo(ms[i])
  /\ \A i \in 1..Len(ms) :
       Answers(ms[i]) => i > 1 /\ Opens(ms[i - 1]) /\ ms[i] = AnswerTo(ms[i - 1])

ASSUME LoopAssumption ==
  /\ MaxTurns \in Nat \ {0}
  /\ MaxNudges \in Nat
  /\ MaxTruncationRetries \in Nat
  /\ KeepRecent \in Nat
  /\ Histories \subseteq Seq(Message)
  /\ \A h \in Histories : Paired(h)

-----------------------------------------------------------------------------
(* Compaction (compactTranscript).                                         *)

Max2(a, b) == IF a >= b THEN a ELSE b

AssistantsFrom(ms, first) == {i \in first..Len(ms) : IsAssistant(ms[i])}

\* Where the verbatim tail would start by length alone.
Boundary(ms) == Max2(2, (Len(ms) - KeepRecent) + 1)

\* Mutant of TailStart: the tail starts after the assistant message found.
TailStartOffByOne(ms) ==
  LET recent == AssistantsFrom(ms, Boundary(ms))
  IN  IF recent # {} THEN (CHOOSE i \in recent : \A j \in recent : i <= j) + 1
      ELSE Len(ms)

\* The first assistant message at or after the boundary, else the last one
\* of the transcript: the tail never starts inside a call/result pair.
TailStart(ms) ==
  LET recent == AssistantsFrom(ms, Boundary(ms))
      all    == AssistantsFrom(ms, 2)
  IN  IF recent # {} THEN CHOOSE i \in recent : \A j \in recent : i <= j
                     ELSE CHOOSE i \in all : \A j \in all : i >= j

CanCompact(ms) == Len(ms) > KeepRecent + 1 /\ AssistantsFrom(ms, 2) # {}

\* What the summary request carries of the transcript, and what compaction
\* leaves: the head folded into one user message, then the tail.
SummaryHead(ms) == SubSeq(ms, 1, TailStart(ms) - 1)
Compact(ms) == <<Note("summary")>> \o SubSeq(ms, TailStart(ms), Len(ms))

-----------------------------------------------------------------------------
(* The loop between two awaits.  These operators set every variable but    *)
(* the counters, the accounting and the stop signal, which are their       *)
(* caller's.                                                               *)

Terminal == {"returned", "rejected"}

\* While turnAbort listens to the stop and interrupt signals.
InFlight == {"model", "recovering"}

\* runAgent's promise settles: `how` it does, and the break or throw taken.
Settle(how, why, ms) ==
  /\ pc' = how
  /\ outcome' = why
  /\ messages' = ms
  /\ executed' = {}
  /\ turnAborted' = FALSE
  /\ UNCHANGED <<turn, interruptedLastTurn, retried, turnsWhilePaused>>
  /\ UNCHANGED steerVars

Return(why, ms) == Settle("returned", why, ms)

\* The rest of an iteration from the drain on, up to its first await: the
\* summary request when the context is near the window, else the turn.
Advance(t, ms, full) ==
  LET drained == IF queue = <<>> THEN ms ELSE Append(ms, Note("steer"))
  IN  /\ DrainAndRearm
      /\ pc' = IF full /\ CanCompact(drained) THEN "compacting" ELSE "model"
      /\ messages' = drained
      /\ turn' = t
      /\ interruptedLastTurn' = FALSE
      /\ executed' = {}
      /\ retried' = FALSE
      /\ turnAborted' = FALSE
      /\ turnsWhilePaused' = turnsWhilePaused + (IF paused THEN 1 ELSE 0)
      /\ UNCHANGED outcome

\* The loop waits for the reveal.
Park(t, ms, cut) ==
  /\ Wait
  /\ pc' = "hidden"
  /\ messages' = ms
  /\ turn' = t
  /\ interruptedLastTurn' = cut
  /\ executed' = {}
  /\ turnAborted' = FALSE
  /\ UNCHANGED <<outcome, retried, turnsWhilePaused>>
  /\ UNCHANGED steerVars

\* The loop condition and the checks at the top of an iteration: `ms` is
\* the transcript it starts with, `full` the compaction threshold, `cut`
\* whether an interrupt steer ended the turn before.
TopOfLoop(t, ms, full, cut) ==
  \/ /\ t >= MaxTurns
     /\ Return("turns", ms)
     /\ UNCHANGED pauseVars
  \/ /\ t < MaxTurns
     /\ stopped
     /\ Return("stopped", ms)
     /\ UNCHANGED pauseVars
  \/ /\ t < MaxTurns
     /\ ~stopped
     /\ IsPaused
     /\ Park(t, ms, cut)
  \/ /\ t < MaxTurns
     /\ ~stopped
     /\ ~IsPaused
     /\ Advance(t, ms, full)
     /\ UNCHANGED pauseVars

\* The outer catch of a turn.  It tells a stop from a steer by asking which
\* signal has fired NOW, not which one aborted the turn.
AfterError(kind) ==
  \/ /\ stopped
     /\ Return("stopped", messages)
     /\ UNCHANGED pauseVars
  \/ /\ ~stopped
     /\ interruptAborted
     /\ TopOfLoop(turn + 1, Append(messages, Note("interrupted")), crowded, TRUE)
  \/ /\ ~stopped
     /\ ~interruptAborted
     /\ Settle("rejected", kind, messages)
     /\ UNCHANGED pauseVars

-----------------------------------------------------------------------------
(* The run.                                                                *)

LoopInit ==
  /\ pc = "start"
  /\ outcome = "none"
  /\ messages \in {Append(h, Note("prompt")) : h \in Histories}
  /\ turn = 0
  /\ nudges = 0
  /\ truncationRetries = 0
  /\ interruptedLastTurn = FALSE
  /\ crowded = FALSE
  /\ overBudget = FALSE
  /\ executed = {}
  /\ retried = FALSE
  /\ stopped = FALSE
  /\ turnAborted = FALSE
  /\ turnsWhilePaused = 0

Init == SteerInit /\ PauseInit /\ LoopInit

Start ==
  /\ pc = "start"
  /\ TopOfLoop(0, messages, FALSE, FALSE)
  /\ UNCHANGED <<nudges, truncationRetries, crowded, overBudget, stopped>>

\* The await of whenResumed is over: stopped while hidden, or on with the
\* iteration.
Resume ==
  /\ pc = "hidden"
  /\ TakeWake
  /\ \/ stopped /\ Return("stopped", messages)
     \/ ~stopped /\ Advance(turn, messages, crowded)
  /\ UNCHANGED <<nudges, truncationRetries, crowded, overBudget, stopped>>

\* The near-window compaction is over, folded or failed, and the turn is
\* sent under a turnAbort made from the signals as they are now.
CompactionEnds(folded) ==
  /\ pc = "compacting"
  /\ pc' = "model"
  /\ messages' = IF folded THEN Compact(messages) ELSE messages
  /\ crowded' \in IF folded THEN BOOLEAN ELSE {crowded}
  /\ turnAborted' = (stopped \/ interruptAborted)
  /\ UNCHANGED <<outcome, turn, nudges, truncationRetries, interruptedLastTurn,
                 overBudget, executed, retried, stopped, turnsWhilePaused>>
  /\ UNCHANGED steerVars
  /\ UNCHANGED pauseVars

\* The model call rejects.  The first overflow of a turn, unless it was
\* aborted, compacts and sends the turn again under the same turnAbort.
ModelFails(kind) ==
  /\ pc = "model"
  /\ kind = "abort" => turnAborted
  /\ \/ /\ kind = "overflow" /\ ~turnAborted /\ ~retried /\ CanCompact(messages)
        /\ pc' = "recovering"
        /\ UNCHANGED <<outcome, messages, turn, interruptedLastTurn, executed,
                       retried, turnAborted, turnsWhilePaused>>
        /\ UNCHANGED steerVars
        /\ UNCHANGED pauseVars
     \/ /\ ~(kind = "overflow" /\ ~turnAborted /\ ~retried /\ CanCompact(messages))
        /\ AfterError(kind)
  /\ UNCHANGED <<nudges, truncationRetries, crowded, overBudget, stopped>>

\* The compaction of the recovery is over.  When it failed the overflow is
\* thrown again.
RecoveryEnds(folded) ==
  /\ pc = "recovering"
  /\ \/ /\ folded
        /\ pc' = "model"
        /\ retried' = TRUE
        /\ messages' = Compact(messages)
        /\ crowded' \in BOOLEAN
        /\ UNCHANGED <<outcome, turn, interruptedLastTurn, executed,
                       turnAborted, turnsWhilePaused>>
        /\ UNCHANGED steerVars
        /\ UNCHANGED pauseVars
     \/ /\ ~folded
        /\ AfterError("overflow")
        /\ UNCHANGED crowded
  /\ UNCHANGED <<nudges, truncationRetries, overBudget, stopped>>

\* The accounting of a completed turn: spend only grows.
Account(full, over) ==
  /\ pc = "model"
  /\ overBudget => over
  /\ crowded' = full
  /\ overBudget' = over
  /\ UNCHANGED stopped

\* The cut-off turn and the error results that answer its calls.
TruncatedReply(S) ==
  LET m == [kind |-> "truncated", calls |-> S] IN <<m, AnswerTo(m)>>

\* A turn cut off at max_tokens while it emitted the calls S: none is
\* executed, and the model is asked again at most MaxTruncationRetries times.
RespondTruncated(S, full, over) ==
  /\ Account(full, over)
  /\ truncationRetries' = truncationRetries + 1
  /\ \/ /\ truncationRetries + 1 > MaxTruncationRetries
        /\ Return("truncation", messages \o TruncatedReply(S))
        /\ UNCHANGED pauseVars
     \/ /\ truncationRetries + 1 <= MaxTruncationRetries
        /\ TopOfLoop(turn + 1, messages \o TruncatedReply(S), full, FALSE)
  /\ UNCHANGED nudges

\* Mutant of HasPending: the queue is not looked at before the run ends.
HasPendingIgnored == FALSE

MayNudge == nudges < MaxNudges
HasPending == queue # <<>>

\* A turn without calls: a stall is nudged, a finish ends the run unless a
\* correction waits.
RespondText(stall, full, over) ==
  /\ Account(full, over)
  /\ truncationRetries' = 0
  /\ LET ms == Append(messages, Note("text"))
     IN  \/ /\ stall /\ MayNudge
            /\ nudges' = nudges + 1
            /\ TopOfLoop(turn + 1, Append(ms, Note("nudge")), full, FALSE)
         \/ /\ ~(stall /\ MayNudge) /\ HasPending
            /\ TopOfLoop(turn + 1, ms, full, FALSE)
            /\ UNCHANGED nudges
         \/ /\ ~(stall /\ MayNudge) /\ ~HasPending
            /\ Return("finished", ms)
            /\ UNCHANGED nudges
            /\ UNCHANGED pauseVars

\* A turn with the calls S, executed one after the other.
RespondCalls(S, full, over) ==
  /\ Account(full, over)
  /\ pc' = "tools"
  /\ messages' = Append(messages, [kind |-> "calls", calls |-> S])
  /\ nudges' = 0
  /\ truncationRetries' = 0
  /\ executed' = {}
  /\ turnAborted' = FALSE
  /\ UNCHANGED <<outcome, turn, interruptedLastTurn, retried, turnsWhilePaused>>
  /\ UNCHANGED steerVars
  /\ UNCHANGED pauseVars

Batch == messages[Len(messages)]

\* Mutant of BatchDone: the stop signal ends a batch early.
BatchDoneOnStop(done) == stopped \/ done = Batch.calls

BatchDone(done) == done = Batch.calls

\* One call's outcome, a result or (the executor threw) an error result.
\* After the last one the results are appended and the budget is checked.
ExecuteTool(c) ==
  /\ pc = "tools"
  /\ c \in Batch.calls \ executed
  /\ \/ /\ ~BatchDone(executed \union {c})
        /\ executed' = executed \union {c}
        /\ UNCHANGED <<pc, outcome, messages, turn, interruptedLastTurn, retried,
                       turnAborted, turnsWhilePaused>>
        /\ UNCHANGED steerVars
        /\ UNCHANGED pauseVars
     \/ /\ BatchDone(executed \union {c})
        /\ LET ms == Append(messages,
                            [kind |-> "results", calls |-> executed \union {c}])
           IN  \/ overBudget /\ Return("budget", ms) /\ UNCHANGED pauseVars
               \/ ~overBudget /\ TopOfLoop(turn + 1, ms, crowded, FALSE)
  /\ UNCHANGED <<nudges, truncationRetries, crowded, overBudget, stopped>>

-----------------------------------------------------------------------------
(* The user and the host.                                                  *)

\* An interrupt fires the signal the turn in flight listens to.
UserSteers(s, mode) ==
  /\ Enqueue(s, mode)
  /\ turnAborted' = (turnAborted \/ (mode = "interrupt" /\ pc \in InFlight))
  /\ UNCHANGED <<stopped, turnsWhilePaused>>
  /\ UNCHANGED runVars
  /\ UNCHANGED pauseVars

UserCancels(s) ==
  /\ CancelSteer(s)
  /\ UNCHANGED <<stopped, turnAborted, turnsWhilePaused>>
  /\ UNCHANGED runVars
  /\ UNCHANGED pauseVars

UserStops ==
  /\ ~stopped
  /\ stopped' = TRUE
  /\ turnAborted' = (turnAborted \/ pc \in InFlight)
  /\ WakeOnStop
  /\ UNCHANGED turnsWhilePaused
  /\ UNCHANGED runVars
  /\ UNCHANGED steerVars

HostHides ==
  /\ Hide
  /\ turnsWhilePaused' = 0
  /\ UNCHANGED <<stopped, turnAborted>>
  /\ UNCHANGED runVars
  /\ UNCHANGED steerVars

HostReveals ==
  /\ Reveal
  /\ turnsWhilePaused' = 0
  /\ UNCHANGED <<stopped, turnAborted>>
  /\ UNCHANGED runVars
  /\ UNCHANGED steerVars

-----------------------------------------------------------------------------

ErrorKinds == {"abort", "overflow", "other"}

CallSets == SUBSET Calls \ {{}}

\* The model and the summary request settle, the tools return.
Services ==
  \/ \E folded \in BOOLEAN : CompactionEnds(folded) \/ RecoveryEnds(folded)
  \/ \E kind \in ErrorKinds : ModelFails(kind)
  \/ \E full, over \in BOOLEAN :
       \/ \E S \in CallSets : RespondTruncated(S, full, over) \/ RespondCalls(S, full, over)
       \/ \E stall \in BOOLEAN : RespondText(stall, full, over)
  \/ \E c \in Calls : ExecuteTool(c)

Loop == Start \/ Resume \/ Services

\* What is typed or hidden after the run has settled is the next run's.
Environment ==
  /\ pc \notin Terminal
  /\ \/ \E s \in Steers : UserCancels(s) \/ \E mode \in Modes : UserSteers(s, mode)
     \/ UserStops
     \/ HostHides
     \/ HostReveals

Next == Loop \/ Environment

Spec == Init /\ [][Next]_vars

\* Every await of the loop settles: a model or summary call ends by its
\* stream's idle bound at the latest, a tool by the bound of its host call,
\* and the event loop runs a resolved continuation.
FairSpec == Spec /\ WF_vars(Loop)

-----------------------------------------------------------------------------
(* Properties.                                                             *)

Outcomes == {"none", "turns", "stopped", "truncation", "finished", "budget"} \union ErrorKinds

LoopTypeOK ==
  /\ pc \in {"start", "hidden", "compacting", "model", "recovering", "tools"} \union Terminal
  /\ outcome \in Outcomes
  /\ messages \in Seq(Message)
  /\ turn \in 0..MaxTurns - 1
  /\ nudges \in 0..MaxNudges
  /\ truncationRetries \in 0..MaxTruncationRetries + 1
  /\ interruptedLastTurn \in BOOLEAN
  /\ crowded \in BOOLEAN
  /\ overBudget \in BOOLEAN
  /\ executed \in SUBSET Calls
  /\ retried \in BOOLEAN
  /\ stopped \in BOOLEAN
  /\ turnAborted \in BOOLEAN
  /\ turnsWhilePaused \in Nat

\* The values of the run's state, its queue and its pause.
TypeOK == SteerTypeOK /\ PauseTypeOK /\ LoopTypeOK

(***************************************************************************)
(* Outside a running batch every tool_use of the transcript is answered by *)
(* the next message and every tool_result answers the one before: so is    *)
(* every request built from it, and the transcript runAgent returns or     *)
(* leaves behind when it rejects (agentSteering.ts: an unpaired tool_use   *)
(* and "the provider rejects the whole conversation").                     *)
(***************************************************************************)
ToolPairing == pc # "tools" => Paired(messages)

(***************************************************************************)
(* The summary request of a compaction is itself a paired conversation,    *)
(* and the tail that stays verbatim starts with an assistant message, so   *)
(* that the summary's user message is followed by an assistant one         *)
(* (compactTranscript).                                                    *)
(***************************************************************************)
SummaryRequestPaired ==
  pc \in {"compacting", "recovering"} =>
    /\ Paired(SummaryHead(messages))
    /\ IsAssistant(messages[TailStart(messages)])

(***************************************************************************)
(* While the region stays hidden the run begins at most one further turn:  *)
(* the one whose reveal had already been granted when it was hidden again  *)
(* (agentPause.ts: the loop does not start its next turn until the pause   *)
(* lifts).                                                                 *)
(***************************************************************************)
AtMostOneTurnWhilePaused == turnsWhilePaused <= 1

(***************************************************************************)
(* A stalled model is nudged at most MaxNudges times between two turns     *)
(* that call tools: a model that has finished is not kept talking.         *)
(***************************************************************************)
NudgesBounded ==
  \A i, j \in 1..Len(messages) :
    (i <= j /\ \A k \in i..j : messages[k].kind \notin {"calls", "prompt", "summary"})
      => Cardinality({k \in i..j : messages[k].kind = "nudge"}) <= MaxNudges

(***************************************************************************)
(* Compaction replaces a prefix by its summary and keeps the rest verbatim *)
(* and in order, the newest message with it: what the model has not        *)
(* answered yet is never folded away (compactTranscript).                  *)
(***************************************************************************)
CompactionKeepsNewest ==
  [][(\/ pc = "compacting" /\ messages' # messages
      \/ pc = "recovering" /\ pc' = "model" /\ retried') =>
       /\ messages'[1] = Note("summary")
       /\ Len(messages') > 1
       /\ Len(messages') <= Len(messages)
       /\ \A k \in 0..Len(messages') - 2 :
            messages'[Len(messages') - k] = messages[Len(messages) - k]]_vars

(***************************************************************************)
(* Corrections are applied once and in order (SteersInOrder), and a run    *)
(* that ends because the model is done leaves none waiting: one queued     *)
(* against a finishing run continues it (SteerSource.hasPending).          *)
(***************************************************************************)
SteersHeard ==
  /\ []SteersInOrder
  /\ [][(pc' = "returned" /\ outcome' = "finished" /\ pc # "returned") => queue' = <<>>]_vars

(***************************************************************************)
(* A run ends, or it waits hidden for a reveal that does not come: no wake *)
(* of the pause is lost and no retry goes on forever.  The stop button     *)
(* ends it cleanly from wherever it is: parked while hidden, mid-turn,     *)
(* mid-batch or in a compaction, it returns its transcript and never       *)
(* rejects (RunAgentOptions.signal, whenResumed).                          *)
(***************************************************************************)
RunEnds ==
  /\ <>(pc \in Terminal) \/ <>[](pc = "hidden" /\ paused)
  /\ (stopped /\ pc \notin Terminal) ~> (pc = "returned")

(***************************************************************************)
(* What the sources say and the code does not keep.                        *)
(***************************************************************************)

(***************************************************************************)
(* A steer ends a turn and the run continues (agentSteering.ts, "THE TWO   *)
(* VERBS ARE NOT THE SAME"): the run never rejects with an abort error.    *)
(***************************************************************************)
SteerNeverRejectsRun == outcome # "abort"

(***************************************************************************)
(* "When exceeded the loop stops" (RunAgentOptions.tokenBudget): no turn   *)
(* is sent once the spend has passed the budget.                           *)
(***************************************************************************)
BudgetStopsLoop == pc = "model" => ~overBudget
=============================================================================
