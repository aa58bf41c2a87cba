-------------------------- MODULE HostStream_proofs --------------------------
(***************************************************************************)
(* What a host stream keeps for any number of frames and any bounds, and   *)
(* that it implements StreamContract.                                      *)
(*                                                                         *)
(* Two facts carry the proofs: what is on its way to the host says what    *)
(* the host is doing (Wire), and what the host has sent is what the        *)
(* consumer got, then the queue, then what is on its way (Pipe).           *)
(***************************************************************************)
EXTENDS HostStream, SequenceTheorems, TLAPS

Ends == pc = "ended" <=> outcome # "open"

\* A wait is never longer than the silence it waits through.
Silence ==
  /\ pc = "waiting" => waited <= gap
  /\ TimeoutOnlyOnSilence

\* One request, and one cancel if the stream was left before its terminal frame.
Wire ==
  IF ~started
    THEN toHost = <<>> /\ host = "idle" /\ pc \in {"created", "ended"}
    ELSE /\ pc # "created"
         /\ \/ toHost = <<"request">> /\ host = "idle" /\ pc # "ended"
            \/ toHost = <<"request", "cancel">> /\ host = "idle" /\ pc = "ended"
            \/ toHost = <<>> /\ host # "idle" /\ (pc = "ended" => host # "generating")
            \/ toHost = <<"cancel">> /\ host # "idle" /\ pc = "ended"

\* The host sends nothing unasked and nothing after a terminal frame.
HostSent ==
  /\ sent # <<>> => host # "idle"
  /\ \A i \in 1..Len(sent) : sent[i] \in TerminalFrames => i = Len(sent) /\ host = "finished"

\* The i-th frame of a part that follows `before` others.
Continues(frames, before) ==
  \A i \in 1..Len(frames) : frames[i].kind = sent[before + i] /\ frames[i].value = before + i

Pipe ==
  pc # "ended" =>
    /\ Len(sent) = Len(seen) + Len(queue) + Len(toApp)
    /\ Continues(queue, Len(seen))
    /\ Continues(toApp, Len(seen) + Len(queue))

IInv == TypeOK /\ Ends /\ Silence /\ Wire /\ HostSent /\ Pipe

LEMMA BudgetFacts ==
  ASSUME TypeOK
  PROVE  budget.first \in Nat /\ budget.idle \in Nat /\ Bound \in Nat
BY StreamAssumption DEF TypeOK, Bound

LEMMA InitIInv == Init => IInv
<1> SUFFICES ASSUME Init PROVE IInv
  OBVIOUS
<1>1. TypeOK
  <2>1. started \in BOOLEAN /\ settled \in BOOLEAN /\ sawFrame \in BOOLEAN /\ aborted \in BOOLEAN
    BY Zenon DEF Init
  <2>2. 0 \in 0..Horizon
    BY StreamAssumption
  <2>3. <<>> \in Seq(Frames) /\ <<>> \in Seq({"request", "cancel"}) /\ <<>> \in Seq(FrameKinds) /\ <<>> \in Seq(Nat)
    OBVIOUS
  <2>4. /\ pc \in {"created", "pulling", "waiting", "yielded", "ended"}
        /\ host \in {"idle", "generating", "finished", "cancelled"}
        /\ outcome \in {"open", "done", "error", "aborted", "timeout", "broken", "unsent"}
    BY Zenon DEF Init
  <2>5. QED
    BY <2>1, <2>2, <2>3, <2>4, Zenon DEF Init, TypeOK
<1>2. Ends /\ Silence /\ Wire /\ HostSent /\ Pipe
  BY DEF Init, Ends, Silence, TimeoutOnlyOnSilence, Wire, HostSent, Pipe, Continues
<1>3. QED
  BY <1>1, <1>2 DEF IInv

-----------------------------------------------------------------------------
(* The ends.                                                               *)

\* A message behind one other.
LEMMA AppendOne ==
  ASSUME NEW S, NEW one \in Seq(S), Len(one) = 1, NEW b \in S
  PROVE  /\ Append(one, b) \in Seq(S) /\ Len(Append(one, b)) = 2
         /\ Append(one, b)[1] = one[1] /\ Append(one, b)[2] = b
<1>1. Append(one, b) \in Seq(S)
  OBVIOUS
<1>2. Len(Append(one, b)) = 2
  <2>1. Len(Append(one, b)) = Len(one) + 1
    BY AppendProperties, Zenon
  <2>2. QED
    BY <2>1
<1>3. Append(one, b)[1] = one[1]
  <2>1. \A i \in 1..Len(one) : Append(one, b)[i] = one[i]
    BY AppendProperties
  <2>2. 1 \in 1..Len(one)
    OBVIOUS
  <2>3. QED
    BY <2>1, <2>2, Zenon
<1>4. Append(one, b)[2] = b
  <2>1. Append(one, b)[Len(one) + 1] = b
    BY AppendProperties, Zenon
  <2>2. QED
    BY <2>1
<1>5. QED
  BY <1>1, <1>2, <1>3, <1>4

\* A cancel behind a request that is still on its way.
LEMMA CancelAfterRequest == Append(<<"request">>, "cancel") = <<"request", "cancel">>
<1> DEFINE S == {"request","cancel"}
           app == Append(<<"request">>, "cancel")
           pair == <<"request", "cancel">>
<1>1. <<"request">> \in Seq(S) /\ Len(<<"request">>) = 1
  OBVIOUS
<1>2. pair \in Seq(S) /\ Len(pair) = 2
  OBVIOUS
<1>3. pair[1] = <<"request">>[1] /\ "cancel" \in S /\ pair[2] = "cancel"
  OBVIOUS
<1> HIDE DEF S
<1>4. app \in Seq(S) /\ Len(app) = 2 /\ app[1] = <<"request">>[1] /\ app[2] = "cancel"
  BY <1>1, <1>3, AppendOne
<1> HIDE DEF app, pair
<1>5. Len(app) = Len(pair) /\ \A i \in 1..Len(app) : app[i] = pair[i]
  BY <1>2, <1>3, <1>4
<1>6. app = pair
  BY <1>2, <1>4, <1>5, SeqEqual, Zenon
<1>7. QED
  BY <1>6 DEF app, pair

LEMMA EndStep ==
  ASSUME IInv, pc # "ended",
         NEW how \in {"done", "error", "aborted", "timeout", "broken", "unsent"},
         NEW terminal \in BOOLEAN,
         End(how, terminal),
         sawFrame' \in BOOLEAN,
         terminal => host = "finished",
         how = "timeout" => gap >= Bound /\ sawFrame' = sawFrame
  PROVE  IInv'
<1>1. TypeOK'
  BY DEF IInv, TypeOK, End, MustCancel, hostVars
<1>2. Ends' /\ Pipe' /\ HostSent'
  BY DEF IInv, Ends, Pipe, HostSent, End, hostVars
<1>3. Silence'
  BY DEF IInv, Silence, TimeoutOnlyOnSilence, Bound, End
<1>4. Wire'
  <2>1. CASE ~started
    BY <2>1 DEF IInv, Wire, End, MustCancel, hostVars
  <2>2. CASE started /\ terminal
    BY <2>2 DEF IInv, Wire, End, MustCancel, hostVars
  <2>3. CASE started /\ ~terminal
    <3>1. /\ toHost' = Append(toHost, "cancel") /\ started' = started
          /\ host' = host /\ pc' = "ended"
      BY <2>3 DEF End, MustCancel, hostVars
    <3>2. \/ toHost = <<"request">> /\ host = "idle"
          \/ toHost = <<>> /\ host # "idle"
      BY <2>3 DEF IInv, Wire
    <3>3. Append(<<>>, "cancel") = <<"cancel">>
      OBVIOUS
    <3>4. Append(<<"request">>, "cancel") = <<"request", "cancel">>
      BY CancelAfterRequest
    <3>5. QED
      BY <2>3, <3>1, <3>2, <3>3, <3>4 DEF Wire
  <2>4. QED
    BY <2>1, <2>2, <2>3
<1>5. QED
  BY <1>1, <1>2, <1>3, <1>4 DEF IInv

LEMMA TimeOutStep == IInv /\ TimeOut => IInv'
<1> SUFFICES ASSUME IInv, TimeOut PROVE IInv'
  OBVIOUS
<1>1. TypeOK /\ pc = "waiting" /\ waited <= gap /\ waited >= Bound
  BY DEF IInv, Silence, TimeOut
<1>2. gap >= Bound
  BY <1>1, BudgetFacts DEF TypeOK
<1>3. QED
  BY <1>1, <1>2, EndStep DEF TimeOut, TypeOK

LEMMA ConsumeStep == IInv /\ Consume => IInv'
<1> SUFFICES ASSUME IInv, Consume PROVE IInv'
  OBVIOUS
<1>1. CASE AskNext
  BY <1>1 DEF AskNext, IInv, TypeOK, Ends, Silence, TimeoutOnlyOnSilence, Bound, Wire, HostSent,
              Pipe, Continues, hostVars
<1>2. CASE BreakOut
  BY <1>2, EndStep DEF BreakOut, IInv, TypeOK
<1>3. QED
  BY <1>1, <1>2 DEF Consume

-----------------------------------------------------------------------------
(* The pull loop.                                                          *)

LEMMA BeginStep == IInv /\ Begin => IInv'
<1> SUFFICES ASSUME IInv, Begin PROVE IInv'
  OBVIOUS
<1>1. pc = "created" /\ TypeOK
  BY DEF Begin, IInv
<1>2. CASE End("aborted", FALSE) /\ UNCHANGED sawFrame
  BY <1>1, <1>2, EndStep DEF TypeOK
<1>3. CASE End("unsent", FALSE) /\ UNCHANGED sawFrame
  BY <1>1, <1>3, EndStep DEF TypeOK
<1>4. CASE /\ pc' = "pulling" /\ started' = TRUE
           /\ toHost' = Append(toHost, "request") /\ gap' = 0
           /\ UNCHANGED <<queue, settled, sawFrame, budget, waited, aborted, toApp, seen, outcome>>
           /\ UNCHANGED hostVars
  <2>1. TypeOK'
    BY <1>1, <1>4, StreamAssumption DEF TypeOK, hostVars
  <2>2. ~started /\ toHost = <<>> /\ host = "idle"
    BY <1>1 DEF IInv, Wire
  <2>3. Wire'
    <3>1. toHost' = <<"request">>
      BY <1>4, <2>2
    <3>2. QED
      BY <1>4, <2>2, <3>1 DEF Wire, hostVars
  <2>4. Ends' /\ Silence' /\ HostSent' /\ Pipe'
    BY <1>1, <1>4 DEF IInv, Ends, Silence, TimeoutOnlyOnSilence, HostSent, Pipe, Continues, hostVars
  <2>5. QED
    BY <2>1, <2>3, <2>4 DEF IInv
<1>5. QED
  BY <1>2, <1>3, <1>4 DEF Begin

\* The frame at the head of the queue is the next that the host has sent.
LEMMA HeadIsNext ==
  ASSUME IInv, pc # "ended", queue # <<>>
  PROVE  /\ Len(seen) + 1 \in 1..Len(sent)
         /\ Head(queue).kind = sent[Len(seen) + 1]
         /\ Head(queue).value = Len(seen) + 1
<1>1. 1 \in 1..Len(queue) /\ Len(seen) \in Nat /\ Len(toApp) \in Nat /\ Head(queue) = queue[1]
  BY DEF IInv, TypeOK
<1>2. /\ Len(sent) = Len(seen) + Len(queue) + Len(toApp)
      /\ Continues(queue, Len(seen))
  BY DEF IInv, Pipe
<1>3. /\ queue[1].kind = sent[Len(seen) + 1]
      /\ queue[1].value = Len(seen) + 1
  BY <1>1, <1>2 DEF Continues
<1>4. Len(seen) + 1 \in 1..Len(sent)
  BY <1>1, <1>2
<1>5. QED
  BY <1>1, <1>3, <1>4

\* A terminal frame is the last, and its host is done.
LEMMA TerminalIsLast ==
  ASSUME IInv, pc # "ended", queue # <<>>, Head(queue).kind \in TerminalFrames
  PROVE  Len(seen) + 1 = Len(sent) /\ host = "finished"
BY HeadIsNext DEF IInv, HostSent

LEMMA PullStep == IInv /\ Pull => IInv'
<1> SUFFICES ASSUME IInv, Pull PROVE IInv'
  OBVIOUS
<1>1. pc = "pulling" /\ TypeOK
  BY DEF Pull, IInv
<1>2. CASE End("aborted", FALSE) /\ UNCHANGED sawFrame
  BY <1>1, <1>2, EndStep DEF TypeOK
<1>3. CASE /\ queue # <<>> /\ Head(queue).kind \in TerminalFrames
           /\ sawFrame' = TRUE /\ End(Head(queue).kind, TRUE)
  BY <1>1, <1>3, EndStep, TerminalIsLast DEF TerminalFrames
<1>4. CASE /\ queue = <<>> /\ pc' = "waiting" /\ waited' = Armed
           /\ UNCHANGED <<queue, started, settled, sawFrame, budget, aborted,
                          toHost, toApp, seen, outcome, gap>>
           /\ UNCHANGED hostVars
  <2>1. TypeOK'
    BY <1>1, <1>4, StreamAssumption DEF TypeOK, hostVars, Armed
  <2>2. Ends' /\ Silence' /\ Wire' /\ HostSent' /\ Pipe'
    BY <1>1, <1>4 DEF IInv, TypeOK, Ends, Silence, TimeoutOnlyOnSilence, Bound, Wire, HostSent, Pipe, Continues,
                      hostVars, Armed
  <2>3. QED
    BY <2>1, <2>2 DEF IInv
<1>5. CASE /\ queue # <<>> /\ Head(queue).kind = "event"
           /\ pc' = "yielded" /\ sawFrame' = TRUE
           /\ queue' = Tail(queue)
           /\ seen' = Append(seen, Head(queue).value)
           /\ UNCHANGED <<started, settled, budget, waited, aborted, toHost, toApp, outcome, gap>>
           /\ UNCHANGED hostVars
  <2>1. TypeOK'
    <3>1. queue' \in Seq(Frames) /\ Head(queue) \in Frames
      BY <1>1, <1>5 DEF TypeOK
    <3>2. seen' \in Seq(Nat)
      BY <1>1, <1>5, <3>1 DEF TypeOK, Frames
    <3>3. QED
      BY <1>1, <1>5, <3>1, <3>2 DEF TypeOK, hostVars
  <2>2. Ends' /\ Wire' /\ HostSent'
    BY <1>1, <1>5 DEF IInv, Ends, Wire, HostSent, hostVars
  <2>3. Silence'
    BY <1>1, <1>5 DEF IInv, Ends, Silence, TimeoutOnlyOnSilence
  <2>4. Pipe'
    <3>1. /\ Len(seen') = Len(seen) + 1 /\ Len(queue') = Len(queue) - 1
          /\ \A i \in 1..Len(queue') : queue'[i] = queue[i + 1]
          /\ Len(queue) \in Nat /\ Len(seen) \in Nat /\ Len(queue) > 0 /\ Len(toApp) \in Nat
      BY <1>1, <1>5 DEF TypeOK
    <3>2. Continues(queue, Len(seen)) /\ Continues(toApp, Len(seen) + Len(queue))
          /\ Len(sent) = Len(seen) + Len(queue) + Len(toApp)
      BY <1>1 DEF IInv, Pipe
    <3>3. Continues(queue, Len(seen))'
      <4> SUFFICES ASSUME NEW i \in 1..Len(queue')
                   PROVE  /\ queue'[i].kind = sent[Len(seen') + i]
                          /\ queue'[i].value = Len(seen') + i
        BY <1>5 DEF Continues, hostVars
      <4>1. i + 1 \in 1..Len(queue) /\ Len(seen') + i = Len(seen) + (i + 1)
        BY <3>1
      <4>2. QED
        BY <3>1, <3>2, <4>1 DEF Continues
    <3>4. Len(seen') + Len(queue') = Len(seen) + Len(queue)
      BY <3>1
    <3>5. QED
      BY <1>5, <3>1, <3>2, <3>3, <3>4 DEF Pipe, Continues, hostVars
  <2>5. QED
    BY <2>1, <2>2, <2>3, <2>4 DEF IInv
<1>6. QED
  BY <1>2, <1>3, <1>4, <1>5 DEF Pull

-----------------------------------------------------------------------------
(* The bus, the clock and the host.                                        *)

LEMMA AbortStep == IInv /\ Abort => IInv'
BY DEF Abort, Woken, IInv, TypeOK, Ends, Silence, TimeoutOnlyOnSilence, Bound, Wire, HostSent, Pipe,
       Continues, hostVars

LEMMA TickStep == IInv /\ Tick => IInv'
<1> SUFFICES ASSUME IInv, Tick PROVE IInv'
  OBVIOUS
<1>1. TypeOK /\ pc \in {"waiting", "yielded"} /\ pc' = pc
  BY DEF IInv, Tick
<1>2. waited' \in 0..Horizon /\ gap' \in 0..Horizon /\ (pc = "waiting" => waited' <= gap')
  BY <1>1, BudgetFacts, StreamAssumption DEF Tick, TypeOK, IInv, Silence
<1>3. TypeOK'
  BY <1>1, <1>2 DEF Tick, TypeOK, hostVars
<1>4. Silence'
  BY <1>1, <1>2 DEF Tick, IInv, Ends, Silence, TimeoutOnlyOnSilence
<1>5. Ends' /\ Wire' /\ HostSent' /\ Pipe'
  BY <1>1 DEF Tick, IInv, Ends, Wire, HostSent, Pipe, Continues, hostVars
<1>6. QED
  BY <1>3, <1>4, <1>5 DEF IInv

LEMMA DeliverStep == IInv /\ Deliver => IInv'
<1> SUFFICES ASSUME IInv, Deliver PROVE IInv'
  OBVIOUS
<1>1. TypeOK /\ toApp # <<>> /\ toApp' = Tail(toApp) /\ pc # "pulling"
  BY DEF IInv, Deliver
<1>2. /\ Head(toApp) \in Frames /\ Tail(toApp) \in Seq(Frames)
      /\ Len(toApp) > 0 /\ Len(toApp') = Len(toApp) - 1
      /\ Len(queue) \in Nat /\ Len(seen) \in Nat /\ Len(toApp) \in Nat
      /\ Head(toApp) = toApp[1]
      /\ \A i \in 1..Len(toApp') : toApp'[i] = toApp[i + 1]
  BY <1>1 DEF TypeOK
<1>3. CASE pc = "ended"
  <2>1. UNCHANGED <<pc, queue, gap, started, settled, sawFrame, budget, waited, aborted, toHost, seen,
                    outcome, host, sent>>
    BY <1>3 DEF Deliver, hostVars
  <2>2. TypeOK'
    BY <1>1, <1>2, <2>1 DEF TypeOK
  <2>3. QED
    BY <1>3, <2>1, <2>2 DEF IInv, Ends, Silence, TimeoutOnlyOnSilence, Bound, Wire, HostSent, Pipe
<1>4. CASE pc # "ended"
  <2>1. /\ queue' = Append(queue, Head(toApp)) /\ gap' = 0
        /\ pc' = (IF pc = "waiting" THEN "pulling" ELSE pc)
        /\ UNCHANGED <<started, settled, sawFrame, budget, waited, aborted, toHost, seen,
                       outcome, host, sent>>
    BY <1>4 DEF Deliver, Queued, Woken, hostVars
  <2>2. TypeOK'
    BY <1>1, <1>2, <2>1, StreamAssumption DEF TypeOK
  <2>3. Ends' /\ Wire' /\ HostSent'
    BY <1>4, <2>1 DEF IInv, Ends, Wire, HostSent
  <2>4. Silence'
    BY <1>4, <2>1 DEF IInv, Ends, Silence, TimeoutOnlyOnSilence
  <2>5. /\ Len(sent) = Len(seen) + Len(queue) + Len(toApp)
        /\ Continues(queue, Len(seen)) /\ Continues(toApp, Len(seen) + Len(queue))
    BY <1>4 DEF IInv, Pipe
  <2>6. /\ Len(queue') = Len(queue) + 1
        /\ \A i \in 1..Len(queue) : queue'[i] = queue[i]
        /\ queue'[Len(queue) + 1] = toApp[1]
    BY <1>1, <1>2, <2>1 DEF TypeOK
  <2>7. Continues(queue, Len(seen))'
    <3> SUFFICES ASSUME NEW i \in 1..Len(queue')
                 PROVE  queue'[i].kind = sent[Len(seen) + i] /\ queue'[i].value = Len(seen) + i
      BY <2>1 DEF Continues
    <3>1. CASE i \in 1..Len(queue)
      BY <2>5, <2>6, <3>1 DEF Continues
    <3>2. CASE i = Len(queue) + 1
      <4>1. 1 \in 1..Len(toApp) /\ Len(seen) + Len(queue) + 1 = Len(seen) + (Len(queue) + 1)
        BY <1>2
      <4>2. QED
        BY <2>5, <2>6, <3>2, <4>1 DEF Continues
    <3>3. QED
      BY <1>2, <2>6, <3>1, <3>2
  <2>8. Continues(toApp, Len(seen) + Len(queue))'
    <3> SUFFICES ASSUME NEW i \in 1..Len(toApp')
                 PROVE  /\ toApp'[i].kind = sent[Len(seen) + Len(queue') + i]
                        /\ toApp'[i].value = Len(seen) + Len(queue') + i
      BY <2>1 DEF Continues
    <3>1. i + 1 \in 1..Len(toApp) /\ Len(seen) + Len(queue') + i = Len(seen) + Len(queue) + (i + 1)
      BY <1>2, <2>6
    <3>2. QED
      BY <1>2, <2>5, <3>1 DEF Continues
  <2>9. Pipe'
    BY <1>2, <2>1, <2>5, <2>6, <2>7, <2>8 DEF Pipe
  <2>10. QED
    BY <2>2, <2>3, <2>4, <2>9 DEF IInv
<1>5. QED
  BY <1>3, <1>4

LEMMA HostReceivesStep == IInv /\ HostReceives => IInv'
<1> SUFFICES ASSUME IInv, HostReceives PROVE IInv'
  OBVIOUS
<1>1. TypeOK /\ toHost # <<>> /\ toHost' = Tail(toHost)
  BY DEF IInv, HostReceives
<1>2. UNCHANGED <<pc, queue, started, settled, sawFrame, budget, waited, aborted, toApp, sent, seen,
                  outcome, gap>>
  BY DEF HostReceives, sdkVars
<1>3. host' = IF Head(toHost) = "request" THEN "generating"
              ELSE IF Head(toHost) = "cancel" /\ host = "generating" THEN "cancelled" ELSE host
  BY DEF HostReceives
<1>4. TypeOK'
  <2>1. host' \in {"idle", "generating", "finished", "cancelled"} /\ toHost' \in Seq({"request", "cancel"})
    BY <1>1, <1>3 DEF TypeOK
  <2>2. QED
    BY <1>1, <1>2, <2>1 DEF TypeOK
<1>5. /\ started
      /\ \/ toHost = <<"request">> /\ host = "idle" /\ pc # "ended"
         \/ toHost = <<"request", "cancel">> /\ host = "idle" /\ pc = "ended"
         \/ toHost = <<"cancel">> /\ host # "idle" /\ pc = "ended"
  BY <1>1 DEF IInv, Wire
<1>6. /\ Head(<<"request">>) = "request" /\ Tail(<<"request">>) = <<>>
      /\ Head(<<"request", "cancel">>) = "request" /\ Tail(<<"request", "cancel">>) = <<"cancel">>
      /\ Head(<<"cancel">>) = "cancel" /\ Tail(<<"cancel">>) = <<>>
  OBVIOUS
<1>7. Wire' /\ HostSent'
  BY <1>1, <1>2, <1>3, <1>5, <1>6 DEF IInv, Wire, HostSent
<1>8. Ends' /\ Silence' /\ Pipe'
  BY <1>2 DEF IInv, Ends, Silence, TimeoutOnlyOnSilence, Bound, Pipe, Continues
<1>9. QED
  BY <1>4, <1>7, <1>8 DEF IInv

LEMMA HostEmitsStep == ASSUME IInv, NEW kind \in FrameKinds, HostEmits(kind) PROVE IInv'
<1>1. TypeOK /\ host = "generating"
  BY DEF IInv, HostEmits
<1> DEFINE frame == [kind |-> kind, value |-> Len(sent) + 1]
<1>2. /\ sent' = Append(sent, kind) /\ toApp' = Append(toApp, frame)
      /\ host' = (IF kind = "event" THEN host ELSE "finished")
      /\ UNCHANGED <<pc, queue, started, settled, sawFrame, budget, waited, aborted, toHost, seen,
                     outcome, gap>>
  BY DEF HostEmits, sdkVars
<1>3. /\ Len(sent) \in Nat /\ Len(toApp) \in Nat /\ Len(queue) \in Nat /\ Len(seen) \in Nat
      /\ Len(sent') = Len(sent) + 1 /\ Len(toApp') = Len(toApp) + 1
      /\ \A i \in 1..Len(sent) : sent'[i] = sent[i]
      /\ \A i \in 1..Len(toApp) : toApp'[i] = toApp[i]
      /\ sent'[Len(sent) + 1] = kind /\ toApp'[Len(toApp) + 1] = frame
  BY <1>1, <1>2 DEF TypeOK
<1>4. TypeOK'
  <2>1. frame \in Frames
    BY <1>3 DEF Frames
  <2>2. sent' \in Seq(FrameKinds) /\ toApp' \in Seq(Frames)
    BY <1>1, <1>2, <2>1 DEF TypeOK
  <2>3. QED
    BY <1>1, <1>2, <2>2 DEF TypeOK
<1>5. Ends' /\ Silence'
  BY <1>2 DEF IInv, Ends, Silence, TimeoutOnlyOnSilence, Bound
<1>6. Wire'
  BY <1>1, <1>2 DEF IInv, Wire
<1>7. HostSent'
  <2>1. host' # "idle" /\ (kind # "event" => host' = "finished")
    BY <1>1, <1>2
  <2>2. \A i \in 1..Len(sent) : sent[i] \notin TerminalFrames
    BY <1>1 DEF IInv, HostSent
  <2>3. kind \in TerminalFrames => kind # "event"
    BY DEF TerminalFrames
  <2>4. QED
    BY <1>3, <2>1, <2>2, <2>3 DEF HostSent
<1>8. Pipe'
  <2>1. SUFFICES ASSUME pc # "ended" PROVE Pipe'
    BY <1>2 DEF Pipe
  <2>2. /\ Len(sent) = Len(seen) + Len(queue) + Len(toApp)
        /\ Continues(queue, Len(seen)) /\ Continues(toApp, Len(seen) + Len(queue))
    BY <2>1 DEF IInv, Pipe
  <2>3. Continues(queue, Len(seen))'
    <3> SUFFICES ASSUME NEW i \in 1..Len(queue)
                 PROVE  queue[i].kind = sent'[Len(seen) + i] /\ queue[i].value = Len(seen) + i
      BY <1>2 DEF Continues
    <3>1. Len(seen) + i \in 1..Len(sent)
      BY <1>3, <2>2
    <3>2. QED
      BY <1>3, <2>2, <3>1 DEF Continues
  <2>4. Continues(toApp, Len(seen) + Len(queue))'
    <3> SUFFICES ASSUME NEW i \in 1..Len(toApp')
                 PROVE  /\ toApp'[i].kind = sent'[Len(seen) + Len(queue) + i]
                        /\ toApp'[i].value = Len(seen) + Len(queue) + i
      BY <1>2 DEF Continues
    <3>1. CASE i \in 1..Len(toApp)
      <4>1. Len(seen) + Len(queue) + i \in 1..Len(sent)
        BY <1>3, <2>2, <3>1
      <4>2. QED
        BY <1>3, <2>2, <3>1, <4>1 DEF Continues
    <3>2. CASE i = Len(toApp) + 1
      <4>1. Len(seen) + Len(queue) + i = Len(sent) + 1
        BY <1>3, <2>2, <3>2
      <4>2. QED
        BY <1>3, <3>2, <4>1
    <3>3. QED
      BY <1>3, <3>1, <3>2
  <2>5. QED
    BY <1>2, <1>3, <2>2, <2>3, <2>4 DEF Pipe
<1>9. QED
  BY <1>4, <1>5, <1>6, <1>7, <1>8 DEF IInv

LEMMA StepIInv == IInv /\ [Next]_vars => IInv'
<1>1. ASSUME IInv, UNCHANGED vars PROVE IInv'
  <2>1. TypeOK'
    BY <1>1 DEF vars, IInv, TypeOK
  <2>2. Ends' /\ Silence' /\ Wire' /\ HostSent' /\ Pipe'
    BY <1>1 DEF vars, IInv, Ends, Silence, TimeoutOnlyOnSilence, Bound, Wire, HostSent, Pipe, Continues
  <2>3. QED
    BY <2>1, <2>2 DEF IInv
<1>2. ASSUME IInv, Next PROVE IInv'
  BY <1>2, BeginStep, PullStep, TimeOutStep, ConsumeStep, AbortStep, DeliverStep, TickStep,
     HostReceivesStep, HostEmitsStep DEF Next
<1>3. QED
  BY <1>1, <1>2

-----------------------------------------------------------------------------
(* The theorems.                                                           *)

LEMMA Invariance == Spec => []IInv
BY InitIInv, StepIInv, PTL DEF Spec

\* The generator, its queue and the messages keep their types.
THEOREM StreamTypeCorrect == Spec => []TypeOK
<1>1. IInv => TypeOK
  BY DEF IInv
<1>2. QED
  BY <1>1, Invariance, PTL

\* No stream times out on a host that was not silent for the whole bound.
THEOREM TimeoutCorrect == Spec => []TimeoutOnlyOnSilence
<1>1. IInv => TimeoutOnlyOnSilence
  BY DEF IInv, Silence
<1>2. QED
  BY <1>1, Invariance, PTL

\* A stream that has ended leaves no generation running unread, and asks the
\* host to stop only what it had asked for.
THEOREM StopCorrect == Spec => []StopsWhatItStarted
<1>1. IInv => StopsWhatItStarted
  <2>1. SUFFICES ASSUME Wire PROVE StopsWhatItStarted
    BY DEF IInv
  <2>2. CASE toHost = <<>>
    BY <2>1, <2>2 DEF Wire, StopsWhatItStarted, OnItsWay
  <2>3. CASE toHost = <<"request">> /\ pc # "ended"
    BY <2>3 DEF StopsWhatItStarted, OnItsWay
  <2>4. CASE toHost = <<"request", "cancel">>
    <3>1. Len(toHost) = 2 /\ toHost[1] = "request" /\ toHost[2] = "cancel"
      BY <2>4
    <3>2. QED
      BY <3>1 DEF StopsWhatItStarted, OnItsWay
  <2>5. CASE toHost = <<"cancel">> /\ host # "idle"
    BY <2>5 DEF StopsWhatItStarted, OnItsWay
  <2>6. QED
    BY <2>1, <2>2, <2>3, <2>4, <2>5 DEF Wire
<1>2. QED
  BY <1>1, Invariance, PTL

-----------------------------------------------------------------------------
(* The refinement.                                                         *)

\* An end, other than by a terminal frame, is an early leave.
LEMMA EndLeaves ==
  ASSUME IInv, pc # "ended", NEW how \in {"aborted", "timeout", "broken", "unsent"}, End(how, FALSE)
  PROVE  Contract!Next
<1>1. outcome = "open" /\ outcome' = how /\ UNCHANGED <<sent, seen>>
  BY DEF IInv, Ends, End, hostVars
<1>2. QED
  BY <1>1 DEF Contract!Next, Contract!Leave, Contract!EarlyEnds

\* A pull yields the next event, ends on the terminal frame, leaves, or is unseen.
LEMMA PullRefines == IInv /\ Pull => Contract!Next \/ UNCHANGED <<sent, seen, outcome>>
<1> SUFFICES ASSUME IInv, Pull PROVE Contract!Next \/ UNCHANGED <<sent, seen, outcome>>
  OBVIOUS
<1>1. pc = "pulling" /\ outcome = "open" /\ TypeOK
  BY DEF Pull, IInv, Ends
<1>2. CASE End("aborted", FALSE)
  BY <1>1, <1>2, EndLeaves
<1>3. CASE UNCHANGED <<seen, outcome>> /\ UNCHANGED hostVars
  BY <1>3 DEF hostVars
<1>4. CASE /\ queue # <<>> /\ Head(queue).kind = "event"
           /\ seen' = Append(seen, Head(queue).value)
           /\ outcome' = outcome /\ UNCHANGED hostVars
  <2>1. /\ Len(seen) + 1 \in 1..Len(sent) /\ sent[Len(seen) + 1] = "event"
        /\ Head(queue).value = Len(seen) + 1
    BY <1>1, <1>4, HeadIsNext
  <2>2. Len(seen) < Len(sent)
    BY <1>1, <2>1 DEF TypeOK
  <2>3. Contract!Yield
    BY <1>1, <1>4, <2>1, <2>2 DEF Contract!Yield, hostVars
  <2>4. QED
    BY <2>3 DEF Contract!Next
<1>5. CASE /\ queue # <<>> /\ Head(queue).kind \in TerminalFrames
           /\ End(Head(queue).kind, TRUE)
  <2>1. /\ Len(seen) + 1 = Len(sent) /\ sent[Len(sent)] = Head(queue).kind
        /\ sent # <<>>
    BY <1>1, <1>5, HeadIsNext, TerminalIsLast DEF TypeOK
  <2>2. Contract!Finish
    BY <1>1, <1>5, <2>1 DEF Contract!Finish, Contract!Terminated, Contract!TerminalFrames, TerminalFrames,
                            End, hostVars
  <2>3. QED
    BY <2>2 DEF Contract!Next
<1>6. QED
  BY <1>2, <1>3, <1>4, <1>5 DEF Pull

LEMMA EmitRefines ==
  ASSUME IInv, NEW kind \in FrameKinds, HostEmits(kind)
  PROVE  Contract!Next
<1>1. ~Contract!Terminated
  <2>1. sent # <<>> => Len(sent) \in 1..Len(sent)
    BY DEF IInv, TypeOK
  <2>2. QED
    BY <2>1 DEF Contract!Terminated, Contract!TerminalFrames, TerminalFrames, HostEmits, IInv, HostSent
<1>2. Contract!Emit(kind)
  BY <1>1 DEF Contract!Emit, HostEmits, sdkVars
<1>3. QED
  BY <1>2 DEF Contract!Next, Contract!FrameKinds, Contract!TerminalFrames, FrameKinds, TerminalFrames

LEMMA StepRefines == IInv /\ [Next]_vars => [Contract!Next]_<<sent, seen, outcome>>
<1> SUFFICES ASSUME IInv, [Next]_vars
             PROVE  Contract!Next \/ UNCHANGED <<sent, seen, outcome>>
  OBVIOUS
<1>1. CASE UNCHANGED vars
  BY <1>1 DEF vars
<1>2. CASE Begin
  BY <1>2, EndLeaves DEF Begin, hostVars
<1>3. CASE TimeOut \/ BreakOut
  BY <1>3, EndLeaves DEF TimeOut, BreakOut
<1>4. CASE AskNext \/ Abort \/ Deliver \/ Tick \/ HostReceives
  BY <1>4 DEF AskNext, Abort, Deliver, Tick, HostReceives, hostVars, sdkVars
<1>5. QED
  BY <1>1, <1>2, <1>3, <1>4, PullRefines, EmitRefines DEF Next, Consume

\* The stream yields what the host sent, in order, none twice, and ends after
\* all of it or early: it implements StreamContract.
THEOREM ContractFulfilled == Spec => FulfilsContract
<1>1. Init => Contract!Init
  BY DEF Init, Contract!Init
<1>2. QED
  BY <1>1, StepRefines, Invariance, PTL DEF Spec, FulfilsContract, Contract!Spec
=============================================================================
