----------------------------- MODULE HostStream -----------------------------
(***************************************************************************)
(* One streamed host request (consumeStream, protocolStream.ts) between    *)
(* its consumer's `for await` and the host's generator.                    *)
(*                                                                         *)
(* The generator keeps a queue of frames and a `wake`; the message bus is  *)
(* FIFO in each direction and delays messages arbitrarily.  Frames of      *)
(* other requests, which the handler filters out by msgId, and the         *)
(* onPending notice, a rendering callback, are left out.                   *)
(*                                                                         *)
(* Time is a count of ticks while the generator waits or its consumer      *)
(* works; the code between two awaits takes none.                          *)
(***************************************************************************)
EXTENDS Naturals, Sequences

CONSTANTS
  MaxFrames,  \* how many frames the host may send
  Horizon,    \* the longest finite bound, in ticks
  Infinity,   \* the option that disables a bound
  Budgets     \* the [first, idle] bounds a call may have

VARIABLES
  pc,        \* where the generator is suspended
  queue,     \* frames that arrived and were not pulled
  started,   \* the request frame went out
  settled,   \* a terminal frame was pulled
  sawFrame,  \* a frame was pulled
  aborted,   \* signal.aborted
  budget,    \* firstFrameMs and idleMs of this call
  waited,    \* ticks since the deadline of the current wait was armed
  host,      \* the host's generator for this msgId
  toHost,    \* messages on their way to the host
  toApp,     \* frames on their way to the app
  sent,      \* history: kinds of the frames the host has sent
  seen,      \* history: values the consumer got
  outcome,   \* how the stream ended
  gap        \* history: ticks since a frame arrived, or since the request

sdkVars == <<pc, queue, started, settled, sawFrame, budget, waited>>
hostVars == <<host, sent>>
vars == <<pc, queue, started, settled, sawFrame, aborted, budget, waited,
          host, toHost, toApp, sent, seen, outcome, gap>>

ASSUME StreamAssumption ==
  /\ MaxFrames \in Nat
  /\ Horizon \in Nat \ {0}
  /\ Infinity \in Nat /\ Infinity > Horizon
  /\ Budgets \subseteq [first : 1..Horizon \union {Infinity},
                        idle : 1..Horizon \union {Infinity}]

TerminalFrames == {"done", "error"}
FrameKinds == {"event"} \union TerminalFrames

Init ==
  /\ pc = "created"
  /\ queue = <<>>
  /\ started = FALSE
  /\ settled = FALSE
  /\ sawFrame = FALSE
  /\ aborted = FALSE
  /\ budget \in Budgets
  /\ waited = 0
  /\ host = "idle"
  /\ toHost = <<>>
  /\ toApp = <<>>
  /\ sent = <<>>
  /\ seen = <<>>
  /\ outcome = "open"
  /\ gap = 0

-----------------------------------------------------------------------------
(* The generator.                                                          *)

\* Mutant of MustCancel: only an abort cancels.
MustCancelOnAbort(terminal) == aborted /\ ~terminal

\* The finally block: a stream left before its terminal frame was pulled
\* tells the host to stop, if the host was asked at all.
MustCancel(terminal) == started /\ ~terminal

\* The generator is over: unsubscribed, its abort listener removed.
End(how, terminal) ==
  /\ pc' = "ended"
  /\ outcome' = how
  /\ settled' = terminal
  /\ toHost' = IF MustCancel(terminal) THEN Append(toHost, "cancel") ELSE toHost
  /\ UNCHANGED <<queue, started, budget, waited, aborted, toApp, seen, gap>>
  /\ UNCHANGED hostVars

\* The first next(): subscribe, send, and enter the pull loop.  An abort
\* that came first sends nothing; so does a transport that is not there.
Begin ==
  /\ pc = "created"
  /\ \/ ~aborted
        /\ pc' = "pulling"
        /\ started' = TRUE
        /\ toHost' = Append(toHost, "request")
        /\ gap' = 0
        /\ UNCHANGED <<queue, settled, sawFrame, budget, waited, aborted, toApp,
                       seen, outcome>>
        /\ UNCHANGED hostVars
     \/ aborted /\ End("aborted", FALSE) /\ UNCHANGED sawFrame
     \/ ~aborted /\ End("unsent", FALSE) /\ UNCHANGED sawFrame

\* Mutant of Armed: one deadline for the whole stream.
ArmedOnce == waited

\* Every wait arms a deadline of its own.
Armed == 0

\* One round of the pull loop: the abort first, then a queued frame, else
\* wait for one.
Pull ==
  /\ pc = "pulling"
  /\ \/ /\ aborted
        /\ End("aborted", FALSE)
        /\ UNCHANGED sawFrame
     \/ /\ ~aborted /\ queue = <<>>
        /\ pc' = "waiting"
        /\ waited' = Armed
        /\ UNCHANGED <<queue, started, settled, sawFrame, budget, aborted,
                       toHost, toApp, seen, outcome, gap>>
        /\ UNCHANGED hostVars
     \/ /\ ~aborted /\ queue # <<>> /\ Head(queue).kind = "event"
        /\ pc' = "yielded"
        /\ sawFrame' = TRUE
        /\ queue' = Tail(queue)
        /\ seen' = Append(seen, Head(queue).value)
        /\ UNCHANGED <<started, settled, budget, waited, aborted, toHost, toApp,
                       outcome, gap>>
        /\ UNCHANGED hostVars
     \/ /\ ~aborted /\ queue # <<>> /\ Head(queue).kind \in TerminalFrames
        /\ sawFrame' = TRUE
        /\ End(Head(queue).kind, TRUE)

\* The deadline a wait runs under.
Bound == IF sawFrame THEN budget.idle ELSE budget.first

TimeOut ==
  /\ pc = "waiting"
  /\ Bound # Infinity
  /\ waited >= Bound
  /\ End("timeout", FALSE)
  /\ UNCHANGED sawFrame

-----------------------------------------------------------------------------
(* The consumer.                                                           *)

AskNext ==
  /\ pc = "yielded"
  /\ pc' = "pulling"
  /\ UNCHANGED <<queue, started, settled, sawFrame, budget, waited, aborted,
                 toHost, toApp, seen, outcome, gap>>
  /\ UNCHANGED hostVars

\* break, return or throw in the loop body: the generator's finally runs.
BreakOut ==
  /\ pc = "yielded"
  /\ End("broken", FALSE)
  /\ UNCHANGED sawFrame

\* Mutant of Woken: the abort has no listener of its own.
WokenByFrame(event) == IF pc = "waiting" /\ event = "frame" THEN "pulling" ELSE pc

\* `wake` is set only during a wait; a frame and an abort both call it.
Woken(event) == IF pc = "waiting" THEN "pulling" ELSE pc

Abort ==
  /\ ~aborted
  /\ pc # "ended"
  /\ aborted' = TRUE
  /\ pc' = Woken("abort")
  /\ UNCHANGED <<queue, started, settled, sawFrame, budget, waited, toHost,
                 toApp, seen, outcome, gap>>
  /\ UNCHANGED hostVars

-----------------------------------------------------------------------------
(* The bus, the clock and the host.                                        *)

\* Mutant of Queued: a frame nobody waits for is not kept.
QueuedIfAwaited(frame) == IF pc = "waiting" THEN Append(queue, frame) ELSE queue

Queued(frame) == Append(queue, frame)

\* A frame reaches the app: pushed, or dropped once unsubscribed.  Each is
\* an event of its own, handled when the generator is at an await.
Deliver ==
  /\ toApp # <<>>
  /\ pc # "pulling"
  /\ toApp' = Tail(toApp)
  /\ IF pc = "ended"
       THEN UNCHANGED <<pc, queue, gap>>
       ELSE /\ queue' = Queued(Head(toApp))
            /\ pc' = Woken("frame")
            /\ gap' = 0
  /\ UNCHANGED <<started, settled, sawFrame, budget, waited, aborted, toHost,
                 seen, outcome>>
  /\ UNCHANGED hostVars

\* Time passes.  Silences beyond the horizon are not told apart.
Tick ==
  /\ \/ /\ pc = "waiting"
        /\ waited < Bound /\ waited < Horizon
        /\ waited' = waited + 1
     \/ /\ pc = "yielded"
        /\ gap < Horizon
        /\ UNCHANGED waited
  /\ gap' = IF gap < Horizon THEN gap + 1 ELSE gap
  /\ UNCHANGED <<pc, queue, started, settled, sawFrame, budget, aborted, toHost,
                 toApp, seen, outcome>>
  /\ UNCHANGED hostVars

\* The host's dispatcher: a request starts a generator, a cancel stops it.
HostReceives ==
  /\ toHost # <<>>
  /\ toHost' = Tail(toHost)
  /\ host' = CASE Head(toHost) = "request" -> "generating"
               [] Head(toHost) = "cancel" /\ host = "generating" -> "cancelled"
               [] OTHER -> host
  /\ UNCHANGED sdkVars
  /\ UNCHANGED <<aborted, toApp, sent, seen, outcome, gap>>

\* The host's generator produces an event, returns or throws.
HostEmits(kind) ==
  /\ host = "generating"
  /\ Len(sent) < MaxFrames
  /\ sent' = Append(sent, kind)
  /\ toApp' = Append(toApp, [kind |-> kind, value |-> Len(sent) + 1])
  /\ host' = IF kind = "event" THEN host ELSE "finished"
  /\ UNCHANGED sdkVars
  /\ UNCHANGED <<aborted, toHost, seen, outcome, gap>>

-----------------------------------------------------------------------------

Consume == AskNext \/ BreakOut

Next ==
  \/ Begin \/ Pull \/ TimeOut
  \/ Consume \/ Abort
  \/ Deliver \/ Tick
  \/ HostReceives
  \/ \E kind \in FrameKinds : HostEmits(kind)

Spec == Init /\ [][Next]_vars

\* The event loop runs what is due and the bus delivers to the host; the
\* consumer's loop body ends.  The host owes nothing: it may fall silent.
FairSpec ==
  /\ Spec
  /\ WF_vars(Pull) /\ WF_vars(TimeOut) /\ WF_vars(Tick)
  /\ WF_vars(Consume)
  /\ WF_vars(HostReceives)

-----------------------------------------------------------------------------
(* Properties.                                                             *)

Frames == [kind : FrameKinds, value : Nat]

TypeOK ==
  /\ pc \in {"created", "pulling", "waiting", "yielded", "ended"}
  /\ queue \in Seq(Frames)
  /\ started \in BOOLEAN /\ settled \in BOOLEAN
  /\ sawFrame \in BOOLEAN /\ aborted \in BOOLEAN
  /\ budget \in Budgets
  /\ waited \in 0..Horizon /\ gap \in 0..Horizon
  /\ host \in {"idle", "generating", "finished", "cancelled"}
  /\ toHost \in Seq({"request", "cancel"})
  /\ toApp \in Seq(Frames)
  /\ sent \in Seq(FrameKinds)
  /\ seen \in Seq(Nat)
  /\ outcome \in {"open", "done", "error", "aborted", "timeout", "broken", "unsent"}

(***************************************************************************)
(* When the stream has ended and the host is generating, or about to, a    *)
(* cancel is on its way: no generation is left running and billing that    *)
(* nobody reads.  And the host is told to cancel only what it was asked    *)
(* for: an abort before the request goes out sends nothing (the finally of *)
(* consumeStream, `started`).                                              *)
(***************************************************************************)
OnItsWay(message) == \E i \in 1..Len(toHost) : toHost[i] = message

StopsWhatItStarted ==
  /\ pc = "ended" /\ (host = "generating" \/ OnItsWay("request")) => OnItsWay("cancel")
  /\ \A i \in 1..Len(toHost) :
       toHost[i] = "cancel" => host # "idle" \/ \E j \in 1..i - 1 : toHost[j] = "request"

(***************************************************************************)
(* A stream times out only after the host was silent for the whole bound,  *)
(* however long the stream has run and however slow its consumer is: a     *)
(* wedged stream is ended and a slow one is not (awaitFrame).              *)
(***************************************************************************)
TimeoutOnlyOnSilence == outcome = "timeout" => gap >= Bound

(***************************************************************************)
(* The consumer sees what the host sent, in order and without loss or      *)
(* repetition, until the stream ends.                                      *)
(***************************************************************************)
Contract == INSTANCE StreamContract
  WITH sent <- sent, seen <- seen, outcome <- outcome, MaxFrames <- MaxFrames

FulfilsContract == Contract!Spec

(***************************************************************************)
(* A stream that was sent ends: by itself although the host falls silent   *)
(* for ever, as long as its bounds are finite, and by an abort whatever    *)
(* its bounds are and wherever the generator was when the abort came - no  *)
(* wake is lost (`push`, `onAbort`, awaitFrame).                           *)
(***************************************************************************)
StreamEnds ==
  /\ (started /\ budget.first # Infinity /\ budget.idle # Infinity) ~> (pc = "ended")
  /\ (aborted /\ started) ~> (pc = "ended")
=============================================================================
