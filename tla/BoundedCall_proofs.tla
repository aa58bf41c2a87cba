------------------------- MODULE BoundedCall_proofs -------------------------
(***************************************************************************)
(* What a bounded call keeps for every bound, every number of prompts and  *)
(* every delay of the channel that reports them.                           *)
(*                                                                         *)
(* The properties speak of the ticks that passed; the code only knows its  *)
(* timers.  The strengthening ties the two: what a timer has left and what *)
(* has passed add up to the bound it was armed with.                       *)
(***************************************************************************)
EXTENDS BoundedCall, TLAPS

\* Before the call begins nothing is armed, heard or told.
CalledClean ==
  pc \in {"called", "raw"} =>
    /\ timers = Unarmed
    /\ elapsed = 0 /\ quiet = 0
    /\ told = "nothing"
    /\ ~attached /\ ~awaiting

\* The ceiling runs from the start of the call and is never re-armed.
CeilingRuns ==
  pc = "waiting" /\ call.ceiling # Infinity =>
    timers.ceiling # Infinity /\ timers.ceiling + elapsed = call.ceiling

\* The idle leg is armed exactly while nobody is asked, and then counts what
\* the quiet spell has left.
IdleRuns ==
  pc = "waiting" =>
    /\ IdleLeg = Infinity \/ awaiting => timers.idle = Infinity
    /\ IdleLeg # Infinity /\ ~awaiting =>
         timers.idle # Infinity /\ timers.idle + quiet = call.idle
    /\ awaiting => quiet = 0

\* How the call ended agrees with what it knew.
Ended ==
  /\ outcome # "open" => pc = "ended"
  /\ IdleMeansFault
  /\ LeavesNothing

\* Only a call with a signal is aborted.
AbortHasSignal == aborted => call.signal

IInv ==
  /\ TypeOK
  /\ AbortHasSignal
  /\ CalledClean
  /\ CeilingRuns
  /\ IdleRuns
  /\ Ended
  /\ AbortedNeverWaits
  /\ CallerToldCurrent

LEMMA CallFacts ==
  ASSUME NEW c \in Calls
  PROVE  /\ c \in [idle : Ticks \ {0}, ceiling : Ticks \ {0},
                   signal : BOOLEAN, onPending : BOOLEAN]
         /\ c.idle <= c.ceiling
BY BoundAssumption

LEMMA InitIInv == Init => IInv
<1> SUFFICES ASSUME Init PROVE IInv
  OBVIOUS
<1>1. current \in BOOLEAN
  BY Zenon DEF Init
<1>2. TypeOK
  <2>1. aborted \in BOOLEAN /\ started \in BOOLEAN /\ attached \in BOOLEAN
        /\ awaiting \in BOOLEAN /\ prompting \in BOOLEAN /\ polled \in BOOLEAN
        /\ working \in BOOLEAN
    BY Zenon DEF Init
  <2>2. call \in Calls /\ pc = "called" /\ timers = Unarmed /\ told = "nothing"
        /\ pushes = 0 /\ toApp = <<>> /\ elapsed = 0 /\ quiet = 0 /\ outcome = "open"
    BY Zenon DEF Init
  <2>3. QED
    BY <1>1, <2>1, <2>2, BoundAssumption DEF TypeOK, Ticks, Unarmed, Answers
<1>3. CalledClean /\ AbortHasSignal
  BY DEF Init, CalledClean, AbortHasSignal
<1>4. CeilingRuns /\ IdleRuns /\ Ended /\ AbortedNeverWaits /\ CallerToldCurrent
  BY DEF Init, CeilingRuns, IdleRuns, Ended, IdleMeansFault, LeavesNothing,
         AbortedNeverWaits, CallerToldCurrent
<1>5. QED
  BY <1>2, <1>3, <1>4 DEF IInv

\* An end keeps everything, whatever ended the call, but for an idle expiry,
\* which must have been due.
LEMMA EndKeeps ==
  ASSUME IInv,
         NEW how \in {"cancelled", "unsent", "idle", "ceiling"} \union Answers,
         how = "idle" => ~awaiting /\ quiet >= call.idle,
         End(how),
         UNCHANGED <<call, awaiting, told, elapsed, quiet>>,
         aborted' \in BOOLEAN
  PROVE  /\ pc' \in {"called", "raw", "waiting", "ended"}
         /\ timers' \in [idle : Ticks, ceiling : Ticks, notice : Ticks]
         /\ attached' \in BOOLEAN
         /\ outcome' \in {"open", "cancelled", "unsent", "idle", "ceiling"} \union Answers
         /\ CalledClean' /\ CeilingRuns' /\ IdleRuns' /\ Ended'
         /\ AbortedNeverWaits' /\ CallerToldCurrent'
<1>1. pc' = "ended" /\ outcome' = how /\ timers' = Unarmed /\ attached' = FALSE
  BY DEF End, Disposed
<1>2. timers' \in [idle : Ticks, ceiling : Ticks, notice : Ticks]
  BY <1>1 DEF Unarmed, Ticks
<1>3. Ended'
  BY <1>1, CallFacts DEF Ended, IdleMeansFault, LeavesNothing, IInv, TypeOK, Unarmed
<1>4. QED
  BY <1>1, <1>2, <1>3 DEF CalledClean, CeilingRuns, IdleRuns, AbortedNeverWaits,
                           CallerToldCurrent

\* What an end leaves to show once the variables it does not touch keep their
\* types.
LEMMA EndStep ==
  ASSUME IInv,
         NEW how \in {"cancelled", "unsent", "idle", "ceiling"} \union Answers,
         how = "idle" => ~awaiting /\ quiet >= call.idle,
         End(how),
         UNCHANGED <<call, awaiting, told, elapsed, quiet>>,
         aborted' => call.signal,
         aborted' \in BOOLEAN, current' \in BOOLEAN, started' \in BOOLEAN,
         prompting' \in BOOLEAN, pushes' \in 0..MaxPushes, polled' \in BOOLEAN,
         working' \in BOOLEAN, toApp' \in Seq({"prompt", "clear"} \union Answers)
  PROVE  IInv'
<1>1. TypeOK'
  BY EndKeeps, Zenon DEF IInv, TypeOK
<1>2. AbortHasSignal'
  BY Zenon DEF AbortHasSignal
<1>3. QED
  BY <1>1, <1>2, EndKeeps, Zenon DEF IInv

LEMMA BeginStep == IInv /\ Begin => IInv'
<1> SUFFICES ASSUME IInv, Begin PROVE IInv'
  OBVIOUS
<1> USE DEF channelVars
<1>1. TypeOK /\ (aborted => call.signal)
  BY DEF IInv, AbortHasSignal
<1>2. CASE Refused /\ End("cancelled") /\ UNCHANGED <<working, awaiting>>
           /\ UNCHANGED channelVars
  BY <1>1, <1>2, EndStep DEF Begin, TypeOK
<1>3. CASE End("unsent") /\ UNCHANGED <<working, awaiting>> /\ UNCHANGED channelVars
  BY <1>1, <1>3, EndStep DEF Begin, TypeOK
<1>4. CASE /\ ~Refused /\ Raw
           /\ pc' = "raw" /\ working' = TRUE
           /\ UNCHANGED <<timers, attached, awaiting, outcome>>
           /\ UNCHANGED channelVars
  <2>1. TypeOK'
    BY <1>1, <1>4 DEF Begin, TypeOK
  <2>2. CalledClean' /\ Ended'
    BY <1>4 DEF Begin, IInv, CalledClean, Ended, IdleMeansFault, LeavesNothing
  <2>3. QED
    BY <2>1, <2>2, <1>4
       DEF Begin, IInv, CeilingRuns, IdleRuns, AbortedNeverWaits, CallerToldCurrent,
           AbortHasSignal
<1>5. CASE /\ ~Refused /\ ~Raw
           /\ pc' = "waiting" /\ working' = TRUE
           /\ \/ /\ attached' = TRUE
                 /\ started' = TRUE
                 /\ polled' = (polled \/ ~started)
                 /\ awaiting' = current
                 /\ timers' = Suspended(Armed, current)
              \/ /\ timers' = Armed
                 /\ UNCHANGED <<attached, awaiting, started, polled>>
           /\ UNCHANGED <<current, outcome>>
  <2>1. /\ call' = call /\ elapsed' = 0 /\ quiet' = 0 /\ told' = "nothing"
        /\ outcome' = "open" /\ aborted' = FALSE /\ toApp' = toApp
        /\ prompting' = prompting /\ pushes' = pushes
    BY <1>1, <1>5 DEF Begin, IInv, CalledClean, Ended, Refused, TypeOK
  <2>2. /\ call.idle \in Ticks \ {0} /\ call.ceiling \in Ticks \ {0}
        /\ call.idle <= call.ceiling
        /\ IdleLeg \in Ticks /\ IdleLeg \in {call.idle, Infinity}
    BY <1>1, CallFacts, BoundAssumption DEF TypeOK, IdleLeg, Ticks
  <2>3. Armed \in [idle : Ticks, ceiling : Ticks, notice : Ticks]
    BY <2>2, BoundAssumption DEF Armed, Ticks
  <2>4. /\ timers' \in [idle : Ticks, ceiling : Ticks, notice : Ticks]
        /\ timers'.ceiling = call.ceiling
        /\ timers'.idle = IF awaiting' THEN Infinity ELSE IdleLeg
        /\ awaiting' \in BOOLEAN
    <3>1. CASE awaiting' = current /\ timers' = Suspended(Armed, current)
      BY <3>1, <1>1, <2>2, <2>3, BoundAssumption DEF Suspended, Armed, TypeOK, Ticks
    <3>2. CASE timers' = Armed /\ awaiting' = awaiting
      BY <3>2, <1>1, <2>2, <2>3 DEF Armed, IInv, CalledClean, TypeOK, Begin
    <3>3. QED
      BY <1>5, <3>1, <3>2
  <2>5. TypeOK'
    <3>1. attached' \in BOOLEAN /\ started' \in BOOLEAN /\ polled' \in BOOLEAN
          /\ current' \in BOOLEAN /\ working' \in BOOLEAN /\ pc' = "waiting"
      BY <1>1, <1>5, Zenon DEF TypeOK
    <3>2. /\ aborted' \in BOOLEAN /\ prompting' \in BOOLEAN
          /\ call' \in Calls /\ pushes' \in 0..MaxPushes
          /\ toApp' \in Seq({"prompt", "clear"} \union Answers)
          /\ told' \in {"nothing", "asking", "working"}
          /\ outcome' \in {"open", "cancelled", "unsent", "idle", "ceiling"} \union Answers
      BY <1>1, <2>1, Zenon DEF TypeOK
    <3>3. elapsed' \in 0..Horizon /\ quiet' \in 0..Horizon
      BY <2>1, BoundAssumption
    <3>4. QED
      BY <2>4, <3>1, <3>2, <3>3, Zenon DEF TypeOK
  <2>6. CeilingRuns' /\ IdleRuns'
    BY <2>1, <2>2, <2>4, BoundAssumption DEF CeilingRuns, IdleRuns, IdleLeg, Ticks
  <2>7. QED
    BY <1>5, <2>1, <2>5, <2>6
       DEF IInv, AbortHasSignal, CalledClean, Ended, IdleMeansFault, LeavesNothing,
           AbortedNeverWaits, CallerToldCurrent
<1>6. QED
  BY <1>2, <1>3, <1>4, <1>5, Zenon DEF Begin

LEMMA AbortStep == IInv /\ Abort => IInv'
<1> SUFFICES ASSUME IInv, Abort PROVE IInv'
  OBVIOUS
<1> USE DEF channelVars, hostVars
<1>1. TypeOK
  BY DEF IInv
<1>2. call.signal /\ aborted' = TRUE /\ pc \in {"called", "waiting"}
  BY DEF Abort
<1>3. CASE pc = "waiting"
  BY <1>1, <1>2, <1>3, EndStep DEF Abort, TypeOK
<1>4. CASE pc = "called"
  <2>1. UNCHANGED <<call, pc, outcome, timers, attached, awaiting, told, toApp,
                    elapsed, quiet, current, started, polled, prompting, pushes,
                    working>>
    BY <1>4 DEF Abort
  <2>2. TypeOK'
    BY <1>1, <1>2, <2>1 DEF TypeOK
  <2>3. QED
    BY <1>2, <1>4, <2>1, <2>2
       DEF IInv, AbortHasSignal, CalledClean, CeilingRuns, IdleRuns, Ended,
           IdleMeansFault, LeavesNothing, AbortedNeverWaits, CallerToldCurrent
<1>5. QED
  BY <1>2, <1>3, <1>4

LEMMA ExpireStep == IInv /\ Expire => IInv'
<1> SUFFICES ASSUME IInv, Expire PROVE IInv'
  OBVIOUS
<1> USE DEF channelVars, hostVars
<1>1. TypeOK /\ (aborted => call.signal)
  BY DEF IInv, AbortHasSignal
<1>2. CASE timers.idle = 0 /\ End("idle")
  <2>1. pc = "waiting" /\ 0 # Infinity
    BY BoundAssumption DEF Expire
  <2>2. IdleLeg # Infinity /\ ~awaiting /\ timers.idle + quiet = call.idle
    BY <1>2, <2>1 DEF IInv, IdleRuns
  <2>3. ~awaiting /\ quiet >= call.idle
    BY <1>1, <1>2, <2>2 DEF TypeOK
  <2>4. QED
    BY <1>1, <1>2, <2>3, EndStep DEF Expire, TypeOK
<1>3. CASE timers.ceiling = 0 /\ End("ceiling")
  BY <1>1, <1>3, EndStep DEF Expire, TypeOK
<1>4. QED
  BY <1>2, <1>3 DEF Expire

LEMMA NotifyStep == IInv /\ Notify => IInv'
<1> SUFFICES ASSUME IInv, Notify PROVE IInv'
  OBVIOUS
<1> USE DEF channelVars, hostVars
<1>1. TypeOK
  BY DEF IInv
<1>2. /\ timers' \in [idle : Ticks, ceiling : Ticks, notice : Ticks]
      /\ timers'.idle = timers.idle /\ timers'.ceiling = timers.ceiling
  BY <1>1 DEF Notify, TypeOK, Ticks
<1>3. told' = Word(awaiting) /\ told' \in {"asking", "working"} /\ pc = "waiting"
  BY DEF Notify, Word
<1>4. TypeOK'
  BY <1>1, <1>2, <1>3 DEF Notify, TypeOK
<1>5. CeilingRuns' /\ IdleRuns'
  BY <1>2 DEF Notify, IInv, CeilingRuns, IdleRuns, IdleLeg
<1>6. QED
  BY <1>3, <1>4, <1>5
     DEF Notify, Word, IInv, AbortHasSignal, CalledClean, Ended, IdleMeansFault,
         LeavesNothing, AbortedNeverWaits, CallerToldCurrent

\* What the host does on its side the call only learns from its messages.
LEMMA HostStep ==
  ASSUME IInv,
         HostPrompts \/ HostReports \/ \E how \in Answers : HostAnswers(how)
  PROVE  IInv'
<1> USE DEF channelVars, hostVars
<1>1. TypeOK
  BY DEF IInv
<1>2. UNCHANGED <<call, pc, timers, aborted, current, started, attached, awaiting,
                  told, elapsed, quiet, outcome>>
  BY DEF HostPrompts, HostReports, HostAnswers
<1>3. /\ prompting' \in BOOLEAN /\ pushes' \in 0..MaxPushes
      /\ polled' \in BOOLEAN /\ working' \in BOOLEAN
      /\ toApp' \in Seq({"prompt", "clear"} \union Answers)
  <2>1. \A asked : Report(asked) \in {"prompt", "clear"}
    BY DEF Report
  <2>2. CASE HostPrompts
    <3>1. prompting' \in BOOLEAN /\ polled' \in BOOLEAN /\ working' \in BOOLEAN
      BY <1>1, <2>2, Zenon DEF HostPrompts, TypeOK
    <3>2. pushes' \in 0..MaxPushes /\ toApp' = Append(toApp, Report(~prompting))
      BY <1>1, <2>2, BoundAssumption DEF HostPrompts, TypeOK
    <3>3. QED
      BY <1>1, <2>1, <3>1, <3>2 DEF TypeOK
  <2>3. CASE HostReports
    <3>1. prompting' \in BOOLEAN /\ polled' \in BOOLEAN /\ working' \in BOOLEAN
          /\ pushes' \in 0..MaxPushes
      BY <1>1, <2>3, Zenon DEF HostReports, TypeOK
    <3>2. toApp' = Append(toApp, Report(prompting))
      BY <2>3 DEF HostReports
    <3>3. QED
      BY <1>1, <2>1, <3>1, <3>2 DEF TypeOK
  <2>4. CASE \E how \in Answers : HostAnswers(how)
    <3>1. prompting' \in BOOLEAN /\ polled' \in BOOLEAN /\ working' \in BOOLEAN
          /\ pushes' \in 0..MaxPushes
      BY <1>1, <2>4, Zenon DEF HostAnswers, TypeOK
    <3>2. PICK how \in Answers : toApp' = Append(toApp, how)
      BY <2>4 DEF HostAnswers
    <3>3. QED
      BY <1>1, <3>1, <3>2 DEF TypeOK
  <2>5. QED
    BY <2>2, <2>3, <2>4
<1>4. TypeOK'
  BY <1>1, <1>2, <1>3 DEF TypeOK
<1>5. QED
  BY <1>2, <1>4
     DEF IInv, AbortHasSignal, CalledClean, CeilingRuns, IdleRuns, IdleLeg, Ended,
         IdleMeansFault, LeavesNothing, AbortedNeverWaits, CallerToldCurrent

\* A report of the channel: the idle leg stops, starts in full, or goes on.
LEMMA PushedStep ==
  ASSUME IInv, NEW asked \in BOOLEAN, Pushed(asked),
         UNCHANGED <<call, aborted, started, polled, elapsed, prompting, pushes, working>>,
         toApp' \in Seq({"prompt", "clear"} \union Answers)
  PROVE  IInv'
<1>1. TypeOK
  BY DEF IInv
<1>2. /\ call.idle \in Ticks \ {0} /\ call.ceiling \in Ticks \ {0}
      /\ call.idle <= call.ceiling
      /\ IdleLeg \in Ticks /\ IdleLeg \in {call.idle, Infinity}
  BY <1>1, CallFacts, BoundAssumption DEF TypeOK, IdleLeg, Ticks
<1>3. UNCHANGED <<pc, attached, outcome>> /\ current' \in BOOLEAN
  BY <1>1, Zenon DEF Pushed, TypeOK
<1>4. CASE ~attached
  <2>1. UNCHANGED <<awaiting, timers, told, quiet>>
    BY <1>4 DEF Pushed
  <2>2. TypeOK'
    BY <1>1, <1>3, <2>1 DEF TypeOK
  <2>3. QED
    BY <1>3, <2>1, <2>2
       DEF IInv, AbortHasSignal, CalledClean, CeilingRuns, IdleRuns, IdleLeg, Ended,
           IdleMeansFault, LeavesNothing, AbortedNeverWaits, CallerToldCurrent
<1>5. CASE attached
  <2>1. /\ awaiting' = asked
        /\ timers' = Suspended(timers, asked)
        /\ told' = Retold(asked)
        /\ quiet' = IF asked THEN 0 ELSE quiet
    BY <1>5 DEF Pushed
  <2>2. /\ timers' \in [idle : Ticks, ceiling : Ticks, notice : Ticks]
        /\ timers'.ceiling = timers.ceiling
        /\ timers'.idle = IF asked THEN Infinity
                          ELSE IF timers.idle = Infinity THEN IdleLeg ELSE timers.idle
    BY <1>1, <1>2, <2>1 DEF Suspended, TypeOK, Ticks
  <2>3. told' \in {"nothing", "asking", "working"} /\ quiet' \in 0..Horizon
    BY <1>1, <2>1, BoundAssumption DEF Retold, Word, TypeOK
  <2>4. TypeOK'
    BY <1>1, <1>3, <2>1, <2>2, <2>3 DEF TypeOK
  <2>5. pc = "waiting"
    BY <1>1, <1>5 DEF IInv, TypeOK, CalledClean, Ended, LeavesNothing
  <2>6. CeilingRuns'
    BY <1>3, <2>2, <2>5 DEF IInv, CeilingRuns
  <2>7. IdleRuns'
    BY <1>1, <1>2, <1>3, <2>1, <2>2, <2>5, BoundAssumption
       DEF IInv, IdleRuns, IdleLeg, TypeOK, Ticks
  <2>8. CallerToldCurrent'
    BY <1>1, <1>3, <2>1, <2>5 DEF IInv, CallerToldCurrent, Retold, Word, TypeOK
  <2>9. QED
    BY <1>3, <2>4, <2>5, <2>6, <2>7, <2>8
       DEF IInv, AbortHasSignal, CalledClean, Ended, IdleMeansFault, LeavesNothing,
           AbortedNeverWaits
<1>6. QED
  BY <1>4, <1>5

LEMMA DeliverStep == IInv /\ Deliver => IInv'
<1> SUFFICES ASSUME IInv, Deliver PROVE IInv'
  OBVIOUS
<1> USE DEF channelVars, hostVars
<1>1. TypeOK /\ (aborted => call.signal)
  BY DEF IInv, AbortHasSignal
<1>2. /\ Head(toApp) \in {"prompt", "clear"} \union Answers
      /\ toApp' \in Seq({"prompt", "clear"} \union Answers)
      /\ UNCHANGED <<call, aborted, started, polled, elapsed, prompting, pushes, working>>
  BY <1>1 DEF Deliver, TypeOK
<1>3. CASE Head(toApp) = "prompt"
  BY <1>2, <1>3, PushedStep DEF Deliver
<1>4. CASE Head(toApp) = "clear"
  BY <1>2, <1>4, PushedStep DEF Deliver
<1>5. CASE Head(toApp) \in Answers
  <2>1. Answered(Head(toApp)) /\ Head(toApp) # "idle"
    BY <1>5 DEF Deliver, Answers
  <2>2. CASE pc = "ended"
    <3>1. UNCHANGED <<pc, outcome, timers, attached, current, awaiting, told, quiet>>
      BY <2>1, <2>2 DEF Answered
    <3>2. TypeOK'
      BY <1>1, <1>2, <3>1 DEF TypeOK
    <3>3. QED
      BY <1>2, <3>1, <3>2
         DEF IInv, AbortHasSignal, CalledClean, CeilingRuns, IdleRuns, IdleLeg, Ended,
             IdleMeansFault, LeavesNothing, AbortedNeverWaits, CallerToldCurrent
  <2>3. CASE pc # "ended"
    BY <1>1, <1>2, <1>5, <2>1, <2>3, EndStep DEF Answered, TypeOK
  <2>4. QED
    BY <2>2, <2>3
<1>6. QED
  BY <1>2, <1>3, <1>4, <1>5

LEMMA TickStep == IInv /\ Tick => IInv'
<1> SUFFICES ASSUME IInv, Tick PROVE IInv'
  OBVIOUS
<1> USE DEF channelVars, hostVars
<1>1. TypeOK /\ pc = "waiting"
  BY DEF IInv, Tick
<1>2. /\ call.idle \in Ticks \ {0} /\ call.ceiling \in Ticks \ {0}
      /\ call.idle <= call.ceiling
  BY <1>1, CallFacts DEF TypeOK
<1>3. ASSUME NEW t \in Ticks, t > 0
      PROVE  /\ Earlier(t) \in Ticks
             /\ t = Infinity => Earlier(t) = Infinity
             /\ t # Infinity => Earlier(t) = t - 1 /\ Earlier(t) # Infinity
  BY <1>3, BoundAssumption DEF Earlier, Ticks
<1>4. ASSUME NEW t \in 0..Horizon
      PROVE  Later(t) \in 0..Horizon /\ (t < Horizon => Later(t) = t + 1)
  BY <1>4, BoundAssumption DEF Later
<1>5. /\ timers.idle \in Ticks /\ timers.idle > 0
      /\ timers.ceiling \in Ticks /\ timers.ceiling > 0
      /\ timers.notice \in Ticks /\ timers.notice > 0
      /\ timers'.idle = Earlier(timers.idle)
      /\ timers'.ceiling = Earlier(timers.ceiling)
      /\ timers' = [idle |-> Earlier(timers.idle), ceiling |-> Earlier(timers.ceiling),
                    notice |-> Earlier(timers.notice)]
  BY <1>1 DEF Tick, TypeOK
<1>6. /\ elapsed' = Later(elapsed) /\ quiet' = IF awaiting THEN 0 ELSE Later(quiet)
      /\ UNCHANGED <<call, pc, aborted, attached, awaiting, told, toApp, outcome,
                     current, started, polled, prompting, pushes, working>>
  BY DEF Tick
<1>7. TypeOK'
  <2>1. timers' \in [idle : Ticks, ceiling : Ticks, notice : Ticks]
    BY <1>3, <1>5
  <2>2. elapsed' \in 0..Horizon /\ quiet' \in 0..Horizon
    BY <1>1, <1>4, <1>6, BoundAssumption DEF TypeOK
  <2>3. QED
    BY <1>1, <1>6, <2>1, <2>2 DEF TypeOK
<1>8. CeilingRuns'
  <2>1. SUFFICES ASSUME call.ceiling # Infinity
                 PROVE  timers'.ceiling # Infinity /\ timers'.ceiling + elapsed' = call.ceiling
    BY <1>6 DEF CeilingRuns
  <2>2. timers.ceiling # Infinity /\ timers.ceiling + elapsed = call.ceiling
    BY <1>1, <2>1 DEF IInv, CeilingRuns
  <2>3. elapsed \in 0..Horizon /\ elapsed < Horizon
    BY <1>1, <1>2, <1>5, <2>1, <2>2, BoundAssumption DEF TypeOK, Ticks
  <2>4. timers'.ceiling = timers.ceiling - 1 /\ elapsed' = elapsed + 1
        /\ timers'.ceiling # Infinity
    BY <1>3, <1>4, <1>5, <1>6, <2>2, <2>3
  <2>5. QED
    BY <1>5, <2>2, <2>3, <2>4, BoundAssumption DEF Ticks
<1>9. IdleRuns'
  <2>1. IdleLeg' = IdleLeg
    BY <1>6 DEF IdleLeg
  <2>2. CASE IdleLeg = Infinity \/ awaiting
    <3>1. timers'.idle = Infinity
      BY <1>1, <1>3, <1>5, <2>2 DEF IInv, IdleRuns
    <3>2. QED
      BY <1>6, <2>1, <2>2, <3>1 DEF IdleRuns
  <2>3. CASE IdleLeg # Infinity /\ ~awaiting
    <3>1. timers.idle # Infinity /\ timers.idle + quiet = call.idle /\ call.idle # Infinity
      BY <1>1, <2>3 DEF IInv, IdleRuns, IdleLeg
    <3>2. quiet \in 0..Horizon /\ quiet < Horizon
      BY <1>1, <1>2, <1>5, <3>1, BoundAssumption DEF TypeOK, Ticks
    <3>3. timers'.idle = timers.idle - 1 /\ quiet' = quiet + 1 /\ timers'.idle # Infinity
      BY <1>3, <1>4, <1>5, <1>6, <2>3, <3>1, <3>2
    <3>4. timers'.idle + quiet' = call.idle
      BY <1>5, <3>1, <3>2, <3>3, BoundAssumption DEF Ticks
    <3>5. QED
      BY <1>6, <2>1, <2>3, <3>3, <3>4 DEF IdleRuns
  <2>4. QED
    BY <2>2, <2>3
<1>10. QED
  BY <1>1, <1>6, <1>7, <1>8, <1>9
     DEF IInv, AbortHasSignal, CalledClean, Ended, IdleMeansFault, LeavesNothing,
         AbortedNeverWaits, CallerToldCurrent

LEMMA StepIInv == IInv /\ [Next]_vars => IInv'
<1>1. ASSUME IInv, UNCHANGED vars PROVE IInv'
  BY <1>1 DEF vars, IInv, TypeOK, AbortHasSignal, CalledClean, CeilingRuns, IdleRuns,
              IdleLeg, Ended, IdleMeansFault, LeavesNothing, AbortedNeverWaits,
              CallerToldCurrent
<1>2. ASSUME IInv, Next PROVE IInv'
  BY <1>2, BeginStep, AbortStep, ExpireStep, NotifyStep, DeliverStep, HostStep, TickStep
     DEF Next
<1>3. QED
  BY <1>1, <1>2

-----------------------------------------------------------------------------
(* The theorems.                                                           *)

LEMMA Invariance == Spec => []IInv
BY InitIInv, StepIInv, PTL DEF Spec

\* The call, its timers and its messages keep their types.
THEOREM CallTypeCorrect == Spec => []TypeOK
<1>1. IInv => TypeOK
  BY DEF IInv
<1>2. QED
  BY <1>1, Invariance, PTL

\* However many prompts the host raises, no call waits past its ceiling.
THEOREM CeilingCorrect == Spec => []CeilingHolds
<1>1. IInv => CeilingHolds
  <2>1. SUFFICES ASSUME IInv, pc = "waiting", call.ceiling # Infinity
                 PROVE  elapsed <= call.ceiling
    BY DEF CeilingHolds
  <2>2. timers.ceiling # Infinity /\ timers.ceiling + elapsed = call.ceiling
    BY <2>1 DEF IInv, CeilingRuns
  <2>3. QED
    BY <2>1, <2>2, BoundAssumption DEF IInv, TypeOK, Ticks
<1>2. QED
  BY <1>1, Invariance, PTL

\* An idle timeout always had the whole idle bound of quiet before it.
THEOREM IdleCorrect == Spec => []IdleMeansFault
<1>1. IInv => IdleMeansFault
  BY DEF IInv, Ended
<1>2. QED
  BY <1>1, Invariance, PTL

\* And no call waits longer than that on a quiet host.
THEOREM FaultCorrect == Spec => []FaultReported
<1>1. IInv => FaultReported
  <2>1. SUFFICES ASSUME IInv, pc = "waiting", IdleLeg # Infinity, ~awaiting
                 PROVE  quiet <= call.idle
    BY DEF FaultReported
  <2>2. timers.idle # Infinity /\ timers.idle + quiet = call.idle
    BY <2>1 DEF IInv, IdleRuns
  <2>3. QED
    BY <2>1, <2>2, BoundAssumption DEF IInv, TypeOK, Ticks
<1>2. QED
  BY <1>1, Invariance, PTL

\* Both bounds on the wait hold at once.
THEOREM WaitCorrect == Spec => []WaitIsBounded
<1>1. CeilingHolds /\ FaultReported => WaitIsBounded
  BY DEF WaitIsBounded
<1>2. QED
  BY <1>1, CeilingCorrect, FaultCorrect, PTL

\* No call waits on a signal that is aborted.
THEOREM AbortCorrect == Spec => []AbortedNeverWaits
<1>1. IInv => AbortedNeverWaits
  BY DEF IInv
<1>2. QED
  BY <1>1, Invariance, PTL

\* What the caller was told last is what the call knows.
THEOREM ToldCorrect == Spec => []CallerToldCurrent
<1>1. IInv => CallerToldCurrent
  BY DEF IInv
<1>2. QED
  BY <1>1, Invariance, PTL

\* A settled call leaves no timer and no listener.
THEOREM CleanupCorrect == Spec => []LeavesNothing
<1>1. IInv => LeavesNothing
  BY DEF IInv, Ended
<1>2. QED
  BY <1>1, Invariance, PTL

-----------------------------------------------------------------------------
(***************************************************************************)
(* Under the bounds of the table.  Whatever they and the bounds callers    *)
(* name are, nobody is cut off while deciding: the invariant above carries *)
(* over, and what the table adds is which bound can have ended the call.   *)
(***************************************************************************)

\* The bound a call ran into was armed, and had passed.
Cause ==
  /\ outcome = "idle" => call.idle < call.ceiling
  /\ outcome = "ceiling" => elapsed >= call.ceiling

\* A call without a ceiling has no timer for one.
NoCeilingNoTimer == pc = "waiting" /\ call.ceiling = Infinity => timers.ceiling = Infinity

\* A call's bounds are those of its scheme, unless its caller named them.
OwnBounds == ~named => [idle |-> call.idle, ceiling |-> call.ceiling] = BoundsFor(scheme)

SInv == IInv /\ Cause /\ NoCeilingNoTimer /\ OwnBounds

LEMMA SchemeInitSInv == SchemeInit => SInv
<1> SUFFICES ASSUME SchemeInit PROVE SInv
  OBVIOUS
<1>1. IInv
  BY InitIInv DEF SchemeInit
<1>2. Cause /\ NoCeilingNoTimer
  BY DEF SchemeInit, Init, Cause, NoCeilingNoTimer
<1>3. OwnBounds
  BY DEF SchemeInit, Bounds, OwnBounds
<1>4. QED
  BY <1>1, <1>2, <1>3 DEF SInv

\* A step that times nothing out keeps the causes.
LEMMA CauseKept ==
  ASSUME SInv, call' = call,
         outcome' \in {"idle", "ceiling"} => outcome' = outcome /\ elapsed' = elapsed
  PROVE  Cause'
BY DEF SInv, Cause

\* A call times out only on a timer that was armed and has run down.
LEMMA ExpireCause == SInv /\ Expire => Cause'
<1> SUFFICES ASSUME SInv, Expire PROVE Cause'
  OBVIOUS
<1>1. TypeOK /\ pc = "waiting" /\ UNCHANGED <<call, elapsed>>
  BY DEF SInv, IInv, Expire
<1>2. 0 # Infinity
  BY BoundAssumption
<1>3. CASE timers.idle = 0 /\ End("idle")
  <2>1. IdleLeg # Infinity
    BY <1>1, <1>2, <1>3 DEF SInv, IInv, IdleRuns
  <2>2. call.idle < call.ceiling /\ outcome' = "idle"
    BY <1>3, <2>1 DEF IdleLeg, End
  <2>3. QED
    BY <1>1, <2>2 DEF Cause
<1>4. CASE timers.ceiling = 0 /\ End("ceiling")
  <2>1. call.ceiling # Infinity
    BY <1>1, <1>2, <1>4 DEF SInv, NoCeilingNoTimer
  <2>2. timers.ceiling + elapsed = call.ceiling
    BY <1>1, <2>1 DEF SInv, IInv, CeilingRuns
  <2>3. elapsed = call.ceiling /\ outcome' = "ceiling"
    BY <1>1, <1>4, <2>2 DEF TypeOK, End
  <2>4. QED
    BY <1>1, <2>3, CallFacts DEF Cause, TypeOK, Ticks
<1>5. QED
  BY <1>3, <1>4 DEF Expire

LEMMA NextCause == SInv /\ Next => Cause'
<1> SUFFICES ASSUME SInv, Next PROVE Cause'
  OBVIOUS
<1>1. TypeOK /\ (outcome # "open" => pc = "ended")
  BY DEF SInv, IInv, Ended
<1>2. CASE Begin
  BY <1>1, <1>2, CauseKept DEF Begin, End
<1>3. CASE Abort
  BY <1>1, <1>3, CauseKept DEF Abort, End
<1>4. CASE Notify \/ HostPrompts \/ HostReports \/ \E how \in Answers : HostAnswers(how)
  BY <1>4, CauseKept DEF Notify, HostPrompts, HostReports, HostAnswers
<1>5. CASE Deliver
  <2>1. Head(toApp) \in {"prompt", "clear"} \union Answers
    BY <1>1, <1>5 DEF Deliver, TypeOK
  <2>2. outcome' \in {outcome} \union Answers
    BY <1>5, <2>1 DEF Deliver, Pushed, Answered, End, Answers
  <2>3. QED
    BY <1>5, <2>2, CauseKept DEF Deliver, Answers
<1>6. CASE Tick
  BY <1>1, <1>6, CauseKept DEF Tick
<1>7. QED
  BY <1>2, <1>3, <1>4, <1>5, <1>6, ExpireCause DEF Next

LEMMA NextNoTimer == SInv /\ Next => NoCeilingNoTimer'
<1> SUFFICES ASSUME SInv, Next, pc' = "waiting", call'.ceiling = Infinity
             PROVE  timers'.ceiling = Infinity
  BY DEF NoCeilingNoTimer
<1> USE DEF SInv, NoCeilingNoTimer
<1>1. TypeOK
  BY DEF IInv
<1>2. CASE Begin
  BY <1>2 DEF Begin, End, Armed, Suspended
<1>3. CASE Abort \/ Expire
  BY <1>3 DEF Abort, Expire, End
<1>4. CASE Notify \/ HostPrompts \/ HostReports \/ \E how \in Answers : HostAnswers(how)
  BY <1>1, <1>4 DEF Notify, HostPrompts, HostReports, HostAnswers, TypeOK
<1>5. CASE Deliver
  BY <1>1, <1>5 DEF Deliver, Pushed, Answered, End, Suspended, TypeOK
<1>6. CASE Tick
  BY <1>6 DEF Tick, Earlier
<1>7. QED
  BY <1>2, <1>3, <1>4, <1>5, <1>6 DEF Next

LEMMA StepSInv == SInv /\ [SchemeNext]_<<vars, scheme, named>> => SInv'
<1>1. ASSUME SInv, UNCHANGED <<vars, scheme, named>> PROVE SInv'
  <2>1. IInv'
    BY <1>1, StepIInv DEF SInv
  <2>2. QED
    BY <1>1, <2>1 DEF SInv, vars, Cause, NoCeilingNoTimer, OwnBounds
<1>2. ASSUME SInv, SchemeNext PROVE SInv'
  <2>1. IInv' /\ Cause' /\ NoCeilingNoTimer'
    BY <1>2, StepIInv, NextCause, NextNoTimer DEF SInv, SchemeNext
  <2>2. call' = call /\ UNCHANGED <<scheme, named>>
    BY <1>2 DEF SchemeNext, Next, Begin, Abort, Expire, Notify, Deliver, HostPrompts, HostReports,
                HostAnswers, Tick
  <2>3. OwnBounds'
    BY <1>2, <2>2 DEF SInv, OwnBounds
  <2>4. QED
    BY <2>1, <2>3 DEF SInv
<1>3. QED
  BY <1>1, <1>2

\* The table gives an idle bound below the ceiling only to a scheme whose prompts are announced.
LEMMA ShortIdleIsAnnounced ==
  ASSUME NEW s, NEW idle, NEW ceiling \in Nat, [idle |-> idle, ceiling |-> ceiling] = BoundsFor(s)
  PROVE  /\ ceiling = TimeoutFor(s)
         /\ idle < ceiling => s \in Announced /\ idle = Attended[s]
BY DEF BoundsFor, Least

\* A call that may ask a person gives up only after the attended bound, or after an idle
\* bound without a prompt where prompts are announced: for every table of timeouts.
THEOREM PeopleCorrect == SchemeSpec => []PeopleHaveTime
<1>1. SInv => PeopleHaveTime
  <2>1. SUFFICES ASSUME SInv, outcome \in {"idle", "ceiling"}, ~named
                 PROVE  \/ elapsed >= AttendedTimeout
                        \/ scheme \in Announced /\ ~awaiting /\ quiet >= Attended[scheme]
                        \/ /\ scheme \notin MayAsk
                           /\ elapsed >= (IF scheme = "fetch" THEN NetworkTimeout ELSE UnattendedTimeout)
    BY DEF PeopleHaveTime
  <2>2. call.ceiling \in Nat
    BY <2>1, CallFacts, BoundAssumption DEF SInv, IInv, TypeOK, Ticks
  <2>3. /\ call.ceiling = TimeoutFor(scheme)
        /\ call.idle < call.ceiling => scheme \in Announced /\ call.idle = Attended[scheme]
    BY <2>1, <2>2, ShortIdleIsAnnounced DEF SInv, OwnBounds
  <2>4. CASE outcome = "idle"
    BY <2>1, <2>3, <2>4 DEF SInv, Cause, IInv, Ended, IdleMeansFault
  <2>5. CASE outcome = "ceiling"
    BY <2>1, <2>3, <2>5 DEF SInv, Cause, TimeoutFor
  <2>6. QED
    BY <2>1, <2>4, <2>5
<1>2. QED
  BY <1>1, SchemeInitSInv, StepSInv, PTL DEF SchemeSpec
=============================================================================
