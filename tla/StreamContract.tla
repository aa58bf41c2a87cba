--------------------------- MODULE StreamContract ---------------------------
(***************************************************************************)
(* What a host stream promises its consumer (the doc of consumeStream,     *)
(* protocolStream.ts): it yields every event the host sent, in order, none *)
(* twice; its return or its error comes after all of them; or it is left   *)
(* early, by an abort, a timeout or the consumer's own break.              *)
(***************************************************************************)
EXTENDS Naturals, Sequences

CONSTANT MaxFrames  \* how many frames the host may send

VARIABLES
  sent,    \* the kinds of the frames the host has sent
  seen,    \* the events the consumer got, each by its place in sent
  outcome  \* "open", or how the stream ended

TerminalFrames == {"done", "error"}
FrameKinds == {"event"} \union TerminalFrames
EarlyEnds == {"aborted", "timeout", "broken", "unsent"}

Terminated == sent # <<>> /\ sent[Len(sent)] \in TerminalFrames

Init ==
  /\ sent = <<>>
  /\ seen = <<>>
  /\ outcome = "open"

\* The host may go on sending after the consumer has left.
Emit(kind) ==
  /\ ~Terminated
  /\ Len(sent) < MaxFrames
  /\ sent' = Append(sent, kind)
  /\ UNCHANGED <<seen, outcome>>

Yield ==
  /\ outcome = "open"
  /\ Len(seen) < Len(sent)
  /\ sent[Len(seen) + 1] = "event"
  /\ seen' = Append(seen, Len(seen) + 1)
  /\ UNCHANGED <<sent, outcome>>

Finish ==
  /\ outcome = "open"
  /\ Terminated
  /\ Len(seen) + 1 = Len(sent)
  /\ outcome' = sent[Len(sent)]
  /\ UNCHANGED <<sent, seen>>

Leave(how) ==
  /\ outcome = "open"
  /\ outcome' = how
  /\ UNCHANGED <<sent, seen>>

Next ==
  \/ \E kind \in FrameKinds : Emit(kind)
  \/ Yield
  \/ Finish
  \/ \E how \in EarlyEnds : Leave(how)

Spec == Init /\ [][Next]_<<sent, seen, outcome>>
=============================================================================
