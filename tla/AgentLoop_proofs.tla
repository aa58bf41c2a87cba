-------------------------- MODULE AgentLoop_proofs --------------------------
(***************************************************************************)
(* What the agent loop keeps for every number of turns, every transcript   *)
(* and every interleaving of the user's, the host's and the model's steps. *)
(***************************************************************************)
EXTENDS AgentLoop, SequenceTheorems, NaturalsInduction, WellFoundedInduction, TLAPS

-----------------------------------------------------------------------------
(* Paired transcripts.                                                     *)

\* A transcript that is paired but for the calls of its last message.
OpenEnd(ms) ==
  /\ Len(ms) > 0
  /\ Opens(ms[Len(ms)])
  /\ \A i \in 1..(Len(ms) - 1) :
       Opens(ms[i]) => i + 1 <= Len(ms) /\ ms[i + 1] = AnswerTo(ms[i])
  /\ \A i \in 1..Len(ms) :
       Answers(ms[i]) => i > 1 /\ Opens(ms[i - 1]) /\ ms[i] = AnswerTo(ms[i - 1])

\* A note is a message that neither opens nor answers a tool call.
LEMMA NoteType ==
  ASSUME NEW k \in {"prompt", "summary", "nudge", "steer", "text", "interrupted"}
  PROVE  /\ Note(k) \in Message
         /\ ~Opens(Note(k))
         /\ ~Answers(Note(k))
BY DEF Note, Message, UserKinds, AssistantKinds, Opens, Answers

\* The answer to a turn is a message that answers.
LEMMA AnswerType ==
  ASSUME NEW m \in Message, Opens(m)
  PROVE  AnswerTo(m) \in Message /\ Answers(AnswerTo(m)) /\ ~Opens(AnswerTo(m))
BY DEF AnswerTo, Message, UserKinds, AssistantKinds, Opens, Answers

\* A message that opens nothing and answers nothing keeps a transcript paired.
LEMMA AppendNotePaired ==
  ASSUME NEW ms \in Seq(Message), Paired(ms),
         NEW m \in Message, ~Opens(m), ~Answers(m)
  PROVE  Append(ms, m) \in Seq(Message) /\ Paired(Append(ms, m))
<1> DEFINE mm == Append(ms, m)
<1>1. /\ mm \in Seq(Message)
      /\ Len(mm) = Len(ms) + 1
      /\ Len(ms) \in Nat
      /\ \A i \in 1..Len(ms) : mm[i] = ms[i]
      /\ mm[Len(ms) + 1] = m
  BY AppendProperties
<1> HIDE DEF mm
<1>2. ASSUME NEW i \in 1..Len(mm), Opens(mm[i])
      PROVE  i + 1 <= Len(mm) /\ mm[i + 1] = AnswerTo(mm[i])
  <2>1. i \in 1..Len(ms)
    BY <1>1, <1>2
  <2>2. QED
    BY <2>1, <1>1, <1>2 DEF Paired
<1>3. ASSUME NEW i \in 1..Len(mm), Answers(mm[i])
      PROVE  i > 1 /\ Opens(mm[i - 1]) /\ mm[i] = AnswerTo(mm[i - 1])
  <2>1. i \in 1..Len(ms)
    BY <1>1, <1>3
  <2>2. i > 1 /\ i - 1 \in 1..Len(ms)
    BY <2>1, <1>1, <1>3 DEF Paired
  <2>3. QED
    BY <2>1, <2>2, <1>1, <1>3 DEF Paired
<1>4. QED
  BY <1>1, <1>2, <1>3 DEF Paired, mm

\* A turn with calls leaves a paired transcript open at its end.
LEMMA AppendOpens ==
  ASSUME NEW ms \in Seq(Message), Paired(ms),
         NEW m \in Message, Opens(m), ~Answers(m)
  PROVE  /\ Append(ms, m) \in Seq(Message)
         /\ Len(Append(ms, m)) > 0
         /\ Append(ms, m)[Len(Append(ms, m))] = m
         /\ OpenEnd(Append(ms, m))
<1> DEFINE mm == Append(ms, m)
<1>1. /\ mm \in Seq(Message)
      /\ Len(mm) = Len(ms) + 1
      /\ Len(ms) \in Nat
      /\ \A i \in 1..Len(ms) : mm[i] = ms[i]
      /\ mm[Len(ms) + 1] = m
  BY AppendProperties
<1> HIDE DEF mm
<1>2. ASSUME NEW i \in 1..(Len(mm) - 1), Opens(mm[i])
      PROVE  i + 1 <= Len(mm) /\ mm[i + 1] = AnswerTo(mm[i])
  BY <1>1, <1>2 DEF Paired
<1>3. ASSUME NEW i \in 1..Len(mm), Answers(mm[i])
      PROVE  i > 1 /\ Opens(mm[i - 1]) /\ mm[i] = AnswerTo(mm[i - 1])
  <2>1. i \in 1..Len(ms)
    BY <1>1, <1>3
  <2>2. i > 1 /\ i - 1 \in 1..Len(ms)
    BY <2>1, <1>1, <1>3 DEF Paired
  <2>3. QED
    BY <2>1, <2>2, <1>1, <1>3 DEF Paired
<1>4. QED
  BY <1>1, <1>2, <1>3 DEF OpenEnd, mm

\* Answering the last turn of a transcript that is paired but for it closes it.
LEMMA AnswerCloses ==
  ASSUME NEW ms \in Seq(Message), OpenEnd(ms)
  PROVE  /\ Append(ms, AnswerTo(ms[Len(ms)])) \in Seq(Message)
         /\ Paired(Append(ms, AnswerTo(ms[Len(ms)])))
<1> DEFINE m == AnswerTo(ms[Len(ms)])
<1>0. /\ m \in Message
      /\ Answers(m)
      /\ ~Opens(m)
  BY AnswerType, ElementOfSeq DEF OpenEnd
<1> HIDE DEF m
<1> DEFINE mm == Append(ms, m)
<1>1. /\ mm \in Seq(Message)
      /\ Len(mm) = Len(ms) + 1
      /\ Len(ms) \in Nat
      /\ \A i \in 1..Len(ms) : mm[i] = ms[i]
      /\ mm[Len(ms) + 1] = m
  BY <1>0, AppendProperties
<1> HIDE DEF mm
<1>2. ASSUME NEW i \in 1..Len(mm), Opens(mm[i])
      PROVE  i + 1 <= Len(mm) /\ mm[i + 1] = AnswerTo(mm[i])
  <2>1. i \in 1..Len(ms)
    BY <1>0, <1>1, <1>2
  <2>2. CASE i = Len(ms)
    BY <2>2, <1>1 DEF m
  <2>3. CASE i # Len(ms)
    BY <2>1, <2>3, <1>1, <1>2 DEF OpenEnd
  <2>4. QED
    BY <2>2, <2>3
<1>3. ASSUME NEW i \in 1..Len(mm), Answers(mm[i])
      PROVE  i > 1 /\ Opens(mm[i - 1]) /\ mm[i] = AnswerTo(mm[i - 1])
  <2>1. CASE i = Len(ms) + 1
    BY <2>1, <1>1 DEF m, OpenEnd
  <2>2. CASE i # Len(ms) + 1
    <3>1. i \in 1..Len(ms)
      BY <2>2, <1>1
    <3>2. i > 1 /\ i - 1 \in 1..Len(ms)
      BY <3>1, <1>1, <1>3 DEF OpenEnd
    <3>3. QED
      BY <3>1, <3>2, <1>1, <1>3 DEF OpenEnd
  <2>3. QED
    BY <2>1, <2>2
<1>4. QED
  BY <1>1, <1>2, <1>3 DEF Paired, mm, m

\* The error results of a truncated turn answer all its calls.
LEMMA TruncatedReplyPaired ==
  ASSUME NEW ms \in Seq(Message), Paired(ms), NEW S \in SUBSET Calls
  PROVE  ms \o TruncatedReply(S) \in Seq(Message) /\ Paired(ms \o TruncatedReply(S))
<1> DEFINE m == [kind |-> "truncated", calls |-> S]
<1>1. m \in Message /\ Opens(m) /\ ~Answers(m)
  BY DEF Message, UserKinds, AssistantKinds, Opens, Answers
<1>2. AnswerTo(m) \in Message
  BY <1>1, AnswerType
<1>3. TruncatedReply(S) = <<m, AnswerTo(m)>>
  BY DEF TruncatedReply
<1> HIDE DEF m
<1>4. ms \o <<m, AnswerTo(m)>> = Append(Append(ms, m), AnswerTo(m))
  BY <1>1, <1>2
<1>5. QED
  BY <1>1, <1>3, <1>4, AppendOpens, AnswerCloses

-----------------------------------------------------------------------------
(* Compaction.                                                             *)

\* Every non-empty set of naturals has a least element.
LEMMA LeastNat ==
  ASSUME NEW S \in SUBSET Nat, S # {}
  PROVE  \E i \in S : \A j \in S : i <= j
<1>1. PICK i \in S : \A j \in S : <<j, i>> \notin OpToRel(<, Nat)
  BY NatLessThanWellFounded, WFMin, Zenon
<1>2. i \in Nat /\ \A j \in S : j \in Nat
  OBVIOUS
<1>3. \A j \in S : ~(j < i)
  BY <1>1, <1>2, Zenon DEF OpToRel
<1>4. QED
  BY <1>2, <1>3

\* Every non-empty set of naturals below a bound has a greatest element.
LEMMA GreatestNat ==
  ASSUME NEW n \in Nat, NEW S \in SUBSET (0..n), S # {}
  PROVE  \E i \in S : \A j \in S : i >= j
<1> DEFINE T == {n - i : i \in S}
<1>1. T \in SUBSET Nat /\ T # {}
  <2>1. \A i \in S : n - i \in Nat
    OBVIOUS
  <2>2. T # {}
    BY Zenon
  <2>3. QED
    BY <2>1, <2>2
<1>2. PICK k \in T : \A l \in T : k <= l
  BY <1>1, LeastNat
<1>3. PICK i \in S : k = n - i
  BY <1>2
<1>4. \A j \in S : i >= j
  BY <1>2, <1>3
<1>5. QED
  BY <1>4

\* The tail of a compaction starts at an assistant message past the first.
LEMMA TailStartIsAssistant ==
  ASSUME NEW ms \in Seq(Message), CanCompact(ms)
  PROVE  TailStart(ms) \in 2..Len(ms) /\ IsAssistant(ms[TailStart(ms)])
<1> DEFINE recent == AssistantsFrom(ms, Boundary(ms))
           all == AssistantsFrom(ms, 2)
<1>1. Len(ms) \in Nat /\ Boundary(ms) \in Int /\ Boundary(ms) >= 2
  BY LoopAssumption DEF Boundary, Max2
<1>2. recent \subseteq all /\ all \subseteq 2..Len(ms)
  BY <1>1 DEF AssistantsFrom
<1>3. \A i \in all : IsAssistant(ms[i])
  BY DEF AssistantsFrom
<1>4. CASE recent # {}
  <2>1. recent \in SUBSET Nat
    BY <1>1, <1>2
  <2>2. \E i \in recent : \A j \in recent : i <= j
    BY <1>4, <2>1, LeastNat
  <2>3. TailStart(ms) \in recent
    BY <1>4, <2>2 DEF TailStart
  <2>4. QED
    BY <1>2, <1>3, <2>3
<1>5. CASE recent = {}
  <2>1. all \in SUBSET (0..Len(ms)) /\ all # {}
    BY <1>1, <1>2 DEF CanCompact
  <2>2. \E i \in all : \A j \in all : i >= j
    BY <1>1, <2>1, GreatestNat
  <2>3. TailStart(ms) \in all
    BY <1>5, <2>2 DEF TailStart
  <2>4. QED
    BY <1>2, <1>3, <2>3
<1>6. QED
  BY <1>4, <1>5

\* What compaction leaves: the summary, then the transcript from an assistant
\* message on.
LEMMA CompactShape ==
  ASSUME NEW ms \in Seq(Message), CanCompact(ms)
  PROVE  LET k == TailStart(ms)
             n == Len(ms)
         IN  /\ k \in 2..n /\ n \in Nat /\ IsAssistant(ms[k])
             /\ Compact(ms) \in Seq(Message)
             /\ Len(Compact(ms)) = (n - k) + 2
             /\ Compact(ms)[1] = Note("summary")
             /\ \A i \in 2..((n - k) + 2) : Compact(ms)[i] = ms[(k + i) - 2]
<1> DEFINE k == TailStart(ms)
           n == Len(ms)
           tail == SubSeq(ms, k, n)
<1>1. k \in 2..n /\ n \in Nat /\ IsAssistant(ms[k])
  BY TailStartIsAssistant
<1>2. \A i \in 1..n : ms[i] \in Message
  BY ElementOfSeq
<1>3. Compact(ms) = <<Note("summary")>> \o tail
  BY DEF Compact
<1> HIDE DEF k, n
<1>4. /\ tail \in Seq(Message)
      /\ Len(tail) = (n - k) + 1
      /\ \A i \in 1..((n - k) + 1) : tail[i] = ms[(k + i) - 1]
  <2>1. \A i \in k..n : ms[i] \in Message
    BY <1>1, <1>2
  <2>2. QED
    BY <1>1, <2>1, SubSeqProperties
<1> HIDE DEF tail
<1>5. <<Note("summary")>> \in Seq(Message) /\ Len(<<Note("summary")>>) = 1
  BY NoteType
<1>6. /\ Compact(ms) \in Seq(Message)
      /\ Len(Compact(ms)) = 1 + Len(tail)
      /\ \A i \in 1..(1 + Len(tail)) :
           Compact(ms)[i] = IF i <= 1 THEN <<Note("summary")>>[i] ELSE tail[i - 1]
  BY <1>3, <1>4, <1>5, ConcatProperties
<1>7. /\ Len(Compact(ms)) = (n - k) + 2
      /\ Compact(ms)[1] = Note("summary")
      /\ \A i \in 2..((n - k) + 2) : Compact(ms)[i] = ms[(k + i) - 2]
  <2>1. Len(Compact(ms)) = (n - k) + 2
    BY <1>1, <1>4, <1>6
  <2>2. Compact(ms)[1] = Note("summary")
    BY <1>1, <1>4, <1>6
  <2>3. ASSUME NEW i \in 2..((n - k) + 2)
        PROVE  Compact(ms)[i] = ms[(k + i) - 2]
    <3>1. Compact(ms)[i] = tail[i - 1]
      BY <1>1, <1>4, <1>6
    <3>2. i - 1 \in 1..((n - k) + 1) /\ (k + (i - 1)) - 1 = (k + i) - 2
      BY <1>1
    <3>3. QED
      BY <1>4, <3>1, <3>2
  <2>4. QED
    BY <2>1, <2>2, <2>3
<1>8. QED
  BY <1>1, <1>6, <1>7 DEF k, n

\* The newest messages stay, in order, and one of them at least.
LEMMA CompactKeepsTail ==
  ASSUME NEW ms \in Seq(Message), CanCompact(ms)
  PROVE  /\ Compact(ms)[1] = Note("summary")
         /\ Len(Compact(ms)) > 1
         /\ Len(Compact(ms)) <= Len(ms)
         /\ \A j \in 0..Len(Compact(ms)) - 2 :
              Compact(ms)[Len(Compact(ms)) - j] = ms[Len(ms) - j]
<1> DEFINE k == TailStart(ms)
           n == Len(ms)
<1>1. /\ k \in 2..n /\ n \in Nat
      /\ Len(Compact(ms)) = (n - k) + 2
      /\ Compact(ms)[1] = Note("summary")
      /\ \A i \in 2..((n - k) + 2) : Compact(ms)[i] = ms[(k + i) - 2]
  BY CompactShape
<1> HIDE DEF k
<1>2. ASSUME NEW j \in 0..(n - k)
      PROVE  Compact(ms)[((n - k) + 2) - j] = ms[n - j]
  <2>1. /\ ((n - k) + 2) - j \in 2..((n - k) + 2)
        /\ (k + (((n - k) + 2) - j)) - 2 = n - j
    BY <1>1
  <2>2. QED
    BY <1>1, <2>1
<1>3. QED
  BY <1>1, <1>2

\* Compaction splits no call from its results, neither in the summary request
\* nor in what it leaves.
LEMMA CompactPaired ==
  ASSUME NEW ms \in Seq(Message), Paired(ms), CanCompact(ms)
  PROVE  /\ Compact(ms) \in Seq(Message)
         /\ Paired(Compact(ms))
         /\ Paired(SummaryHead(ms))
<1> DEFINE k == TailStart(ms)
           n == Len(ms)
           head == SubSeq(ms, 1, k - 1)
           cc == Compact(ms)
<1>1. k \in 2..n /\ n \in Nat /\ ~Answers(ms[k])
  BY TailStartIsAssistant DEF IsAssistant, AssistantKinds, Answers
<1>2. \A i \in 1..n : ms[i] \in Message
  BY ElementOfSeq
<1>5. /\ cc \in Seq(Message)
      /\ Len(cc) = (n - k) + 2
      /\ cc[1] = Note("summary")
      /\ \A i \in 2..((n - k) + 2) : cc[i] = ms[(k + i) - 2]
  BY CompactShape
<1> HIDE DEF k, n
<1>4. /\ head \in Seq(Message)
      /\ Len(head) = k - 1
      /\ \A i \in 1..(k - 1) : head[i] = ms[i]
  <2>1. \A i \in 1..(k - 1) : ms[i] \in Message
    BY <1>1, <1>2
  <2>2. QED
    BY <1>1, <2>1, SubSeqProperties
<1> HIDE DEF head, cc
<1>6. /\ \A i \in 1..n : Opens(ms[i]) => i + 1 <= n /\ ms[i + 1] = AnswerTo(ms[i])
      /\ \A i \in 1..n :
           Answers(ms[i]) => i > 1 /\ Opens(ms[i - 1]) /\ ms[i] = AnswerTo(ms[i - 1])
  BY DEF Paired, n
<1>7. Paired(cc)
  <2>1. ASSUME NEW i \in 1..Len(cc), Opens(cc[i])
        PROVE  i + 1 <= Len(cc) /\ cc[i + 1] = AnswerTo(cc[i])
    <3>1. i # 1
      BY <1>5, <2>1, NoteType
    <3>2. (k + i) - 2 \in 1..n /\ cc[i] = ms[(k + i) - 2]
      BY <1>1, <1>5, <2>1, <3>1
    <3>3. ((k + i) - 2) + 1 <= n /\ ms[((k + i) - 2) + 1] = AnswerTo(cc[i])
      BY <1>6, <2>1, <3>2
    <3>4. i + 1 \in 2..((n - k) + 2) /\ (k + (i + 1)) - 2 = ((k + i) - 2) + 1
      BY <1>1, <1>5, <2>1, <3>3
    <3>5. QED
      BY <1>5, <3>3, <3>4
  <2>2. ASSUME NEW i \in 1..Len(cc), Answers(cc[i])
        PROVE  i > 1 /\ Opens(cc[i - 1]) /\ cc[i] = AnswerTo(cc[i - 1])
    <3>1. i # 1
      BY <1>5, <2>2, NoteType
    <3>2. (k + i) - 2 \in 1..n /\ cc[i] = ms[(k + i) - 2]
      BY <1>1, <1>5, <2>2, <3>1
    <3>3. i # 2
      BY <1>1, <2>2, <3>2
    <3>4. /\ Opens(ms[((k + i) - 2) - 1])
          /\ cc[i] = AnswerTo(ms[((k + i) - 2) - 1])
      BY <1>6, <2>2, <3>2
    <3>5. i - 1 \in 2..((n - k) + 2) /\ (k + (i - 1)) - 2 = ((k + i) - 2) - 1
      BY <1>1, <1>5, <2>2, <3>1, <3>3
    <3>6. QED
      BY <1>5, <3>1, <3>4, <3>5
  <2>3. QED
    BY <2>1, <2>2 DEF Paired
<1>8. Paired(head)
  <2>1. ASSUME NEW i \in 1..Len(head), Opens(head[i])
        PROVE  i + 1 <= Len(head) /\ head[i + 1] = AnswerTo(head[i])
    <3>1. i \in 1..n /\ head[i] = ms[i]
      BY <1>1, <1>4, <2>1
    <3>2. ms[i + 1] = AnswerTo(ms[i]) /\ i + 1 <= n
      BY <1>6, <2>1, <3>1
    <3>3. Answers(ms[i + 1])
      BY <1>2, <2>1, <3>1, <3>2, AnswerType
    <3>4. i + 1 # k
      BY <1>1, <3>3
    <3>5. QED
      BY <1>1, <1>4, <2>1, <3>1, <3>2, <3>4
  <2>2. ASSUME NEW i \in 1..Len(head), Answers(head[i])
        PROVE  i > 1 /\ Opens(head[i - 1]) /\ head[i] = AnswerTo(head[i - 1])
    <3>1. i \in 1..n /\ head[i] = ms[i]
      BY <1>1, <1>4, <2>2
    <3>2. i > 1 /\ Opens(ms[i - 1]) /\ ms[i] = AnswerTo(ms[i - 1])
      BY <1>6, <2>2, <3>1
    <3>3. QED
      BY <1>1, <1>4, <2>2, <3>1, <3>2
  <2>3. QED
    BY <2>1, <2>2 DEF Paired
<1>9. Compact(ms) = cc /\ SummaryHead(ms) = head
  BY DEF SummaryHead, cc, head, k
<1>10. QED
  BY <1>5, <1>7, <1>8, <1>9

-----------------------------------------------------------------------------
(* The inductive invariant of the run.                                     *)

\* What Settle, Advance, Park and TopOfLoop set of the run's state.
CoreOK ==
  /\ pc \in {"start", "hidden", "compacting", "model", "recovering", "tools"} \union Terminal
  /\ outcome \in Outcomes
  /\ messages \in Seq(Message)
  /\ turn \in 0..MaxTurns - 1
  /\ interruptedLastTurn \in BOOLEAN
  /\ executed \in SUBSET Calls
  /\ retried \in BOOLEAN
  /\ turnAborted \in BOOLEAN
  /\ turnsWhilePaused \in Nat

\* What their callers set: a run that goes on has retries of a truncated turn
\* left, so that the counter stays in its range.
CallerOK ==
  /\ nudges \in 0..MaxNudges
  /\ truncationRetries \in 0..MaxTruncationRetries + 1
  /\ pc \notin Terminal => truncationRetries <= MaxTruncationRetries
  /\ crowded \in BOOLEAN
  /\ overBudget \in BOOLEAN
  /\ stopped \in BOOLEAN

\* The transcript is paired but for the batch being executed, and a
\* compaction in flight has a tail to keep.
TranscriptOK ==
  /\ pc # "tools" => Paired(messages)
  /\ pc = "tools" => OpenEnd(messages) /\ Batch.kind = "calls"
  /\ pc \in {"compacting", "recovering"} => CanCompact(messages)

Shared == SteerTypeOK /\ PauseTypeOK /\ CoreOK /\ TranscriptOK

IInv == Shared /\ CallerOK

-----------------------------------------------------------------------------
(* The controllers keep their types.                                       *)

\* The ids of a queue are a sequence of ids.
LEMMA QueuedIdsType ==
  ASSUME NEW q \in Seq(SteerMessages)
  PROVE  QueuedIds(q) \in Seq(Steers)
<1>1. \A i \in 1..Len(q) : q[i].id \in Steers
  <2>1. \A i \in 1..Len(q) : q[i] \in SteerMessages
    BY ElementOfSeq
  <2>2. QED
    BY <2>1 DEF SteerMessages
<1>2. Len(q) \in Nat
  OBVIOUS
<1>3. QED
  BY <1>1, <1>2 DEF QueuedIds

\* Taking a correction back leaves a queue of the corrections that were in it.
LEMMA WithoutType ==
  ASSUME NEW q \in Seq(SteerMessages), NEW s, \E i \in 1..Len(q) : q[i].id = s
  PROVE  /\ Without(q, s) \in Seq(SteerMessages)
         /\ \A i \in 1..Len(Without(q, s)) : \E j \in 1..Len(q) : Without(q, s)[i] = q[j]
         /\ Len(Without(q, s)) = Len(q) - 1
         /\ \E k \in 1..Len(q) :
              /\ q[k].id = s
              /\ \A i \in 1..(Len(q) - 1) : Without(q, s)[i] = IF i < k THEN q[i] ELSE q[i + 1]
<1> DEFINE k == CHOOSE i \in 1..Len(q) : q[i].id = s
           l == SubSeq(q, 1, k - 1)
           r == SubSeq(q, k + 1, Len(q))
<1>1. k \in 1..Len(q) /\ Len(q) \in Nat /\ q[k].id = s
  OBVIOUS
<1>2. \A i \in 1..Len(q) : q[i] \in SteerMessages
  BY ElementOfSeq
<1> HIDE DEF k
<1>3. /\ l \in Seq(SteerMessages)
      /\ Len(l) = k - 1
      /\ \A i \in 1..(k - 1) : l[i] = q[i]
  <2>1. \A i \in 1..(k - 1) : q[i] \in SteerMessages
    BY <1>1, <1>2
  <2>2. QED
    BY <1>1, <2>1, SubSeqProperties
<1>4. /\ r \in Seq(SteerMessages)
      /\ Len(r) = Len(q) - k
      /\ \A i \in 1..(Len(q) - k) : r[i] = q[k + i]
  <2>1. \A i \in (k + 1)..Len(q) : q[i] \in SteerMessages
    BY <1>1, <1>2
  <2>2. /\ r \in Seq(SteerMessages)
        /\ Len(r) = IF k + 1 <= Len(q) THEN Len(q) - (k + 1) + 1 ELSE 0
        /\ \A i \in 1..(Len(q) - (k + 1) + 1) : r[i] = q[(k + 1) + i - 1]
    BY <1>1, <2>1, SubSeqProperties
  <2>3. QED
    BY <1>1, <2>2
<1> HIDE DEF l, r
<1>5. /\ l \o r \in Seq(SteerMessages)
      /\ Len(l \o r) = Len(l) + Len(r)
      /\ \A i \in 1..(Len(l) + Len(r)) :
           (l \o r)[i] = IF i <= Len(l) THEN l[i] ELSE r[i - Len(l)]
  BY <1>3, <1>4, ConcatProperties
<1>6. Without(q, s) = l \o r
  BY DEF Without, k, l, r
<1>7. ASSUME NEW i \in 1..Len(l \o r)
      PROVE  \E j \in 1..Len(q) : (l \o r)[i] = q[j]
  <2>1. CASE i <= k - 1
    BY <1>1, <1>3, <1>4, <1>5, <2>1
  <2>2. CASE i > k - 1
    <3>1. i - (k - 1) \in 1..(Len(q) - k)
      BY <1>1, <1>3, <1>4, <1>5, <2>2
    <3>2. (l \o r)[i] = q[k + (i - (k - 1))]
      BY <1>1, <1>3, <1>4, <1>5, <2>2, <3>1
    <3>3. k + (i - (k - 1)) \in 1..Len(q)
      BY <1>1, <3>1
    <3>4. QED
      BY <3>2, <3>3
  <2>3. QED
    BY <1>1, <2>1, <2>2, <1>3, <1>4, <1>5
<1>8. ASSUME NEW i \in 1..(Len(q) - 1)
      PROVE  (l \o r)[i] = IF i < k THEN q[i] ELSE q[i + 1]
  <2>1. i \in 1..(Len(l) + Len(r)) /\ (i <= Len(l) <=> i < k)
    BY <1>1, <1>3, <1>4
  <2>2. CASE i < k
    <3>1. (l \o r)[i] = l[i] /\ i \in 1..(k - 1)
      BY <1>1, <1>5, <2>1, <2>2
    <3>2. QED
      BY <1>3, <2>2, <3>1
  <2>3. CASE ~(i < k)
    <3>1. i - Len(l) \in 1..(Len(q) - k) /\ k + (i - Len(l)) = i + 1
      BY <1>1, <1>3, <2>3
    <3>2. (l \o r)[i] = r[i - Len(l)]
      BY <1>5, <2>1, <2>3
    <3>3. QED
      BY <1>4, <2>3, <3>1, <3>2
  <2>4. QED
    BY <2>2, <2>3
<1>9. Len(l \o r) = Len(q) - 1
  BY <1>1, <1>3, <1>4, <1>5
<1>10. QED
  BY <1>1, <1>5, <1>6, <1>7, <1>8, <1>9

\* The steps of the steering queue keep its type.
LEMMA SteerSteps ==
  ASSUME SteerTypeOK
  PROVE  /\ \A s \in Steers, mode \in Modes : Enqueue(s, mode) => SteerTypeOK'
         /\ \A s \in Steers : CancelSteer(s) => SteerTypeOK'
         /\ DrainAndRearm => SteerTypeOK'
         /\ UNCHANGED steerVars => SteerTypeOK'
<1>1. ASSUME NEW s \in Steers, NEW mode \in Modes, Enqueue(s, mode)
      PROVE  SteerTypeOK'
  <2>1. [id |-> s, mode |-> mode] \in SteerMessages
    BY DEF SteerMessages
  <2>2. QED
    BY <1>1, <2>1, AppendProperties DEF Enqueue, SteerTypeOK
<1>2. ASSUME NEW s \in Steers, CancelSteer(s)
      PROVE  SteerTypeOK'
  BY <1>2, WithoutType DEF CancelSteer, SignalAfterCancel, HasInterrupt, SteerTypeOK
<1>3. ASSUME DrainAndRearm
      PROVE  SteerTypeOK'
  <2>1. delivered \o QueuedIds(queue) \in Seq(Steers)
    BY QueuedIdsType, ConcatProperties DEF SteerTypeOK
  <2>2. QED
    BY <1>3, <2>1, EmptySeq DEF DrainAndRearm, SteerTypeOK
<1>4. ASSUME UNCHANGED steerVars
      PROVE  SteerTypeOK'
  BY <1>4 DEF steerVars, SteerTypeOK
<1>5. QED
  BY <1>1, <1>2, <1>3, <1>4

\* The steps of the pause controller keep its type.
LEMMA PauseSteps ==
  ASSUME PauseTypeOK
  PROVE  Hide \/ Reveal \/ Wait \/ WakeOnStop \/ TakeWake \/ UNCHANGED pauseVars
           => PauseTypeOK'
BY DEF PauseTypeOK, Hide, Reveal, Wait, WakeOnStop, TakeWake, pauseVars

-----------------------------------------------------------------------------
(* The loop between two awaits.                                            *)

\* A run that settles with a paired transcript.
LEMMA SettleKeeps ==
  ASSUME SteerTypeOK, CoreOK,
         NEW how \in Terminal, NEW why \in Outcomes,
         NEW ms \in Seq(Message), Paired(ms), Settle(how, why, ms)
  PROVE  SteerTypeOK' /\ CoreOK' /\ TranscriptOK'
<1>1. SteerTypeOK'
  BY SteerSteps DEF Settle
<1>2. CoreOK' /\ TranscriptOK'
  BY DEF Settle, CoreOK, TranscriptOK, Terminal
<1>3. QED
  BY <1>1, <1>2

\* An iteration from the drain to its first await.
LEMMA AdvanceKeeps ==
  ASSUME SteerTypeOK, PauseTypeOK, CoreOK,
         NEW t \in 0..MaxTurns - 1, NEW ms \in Seq(Message), Paired(ms),
         NEW full \in BOOLEAN, Advance(t, ms, full)
  PROVE  SteerTypeOK' /\ CoreOK' /\ TranscriptOK' /\ pc' \notin Terminal
<1> DEFINE drained == IF queue = <<>> THEN ms ELSE Append(ms, Note("steer"))
<1>1. SteerTypeOK'
  BY SteerSteps DEF Advance
<1>2. drained \in Seq(Message) /\ Paired(drained)
  BY NoteType, AppendNotePaired
<1>3. /\ pc' = IF full /\ CanCompact(drained) THEN "compacting" ELSE "model"
      /\ messages' = drained
      /\ turn' = t
      /\ interruptedLastTurn' = FALSE
      /\ executed' = {}
      /\ retried' = FALSE
      /\ turnAborted' = FALSE
      /\ turnsWhilePaused' = turnsWhilePaused + (IF paused THEN 1 ELSE 0)
      /\ outcome' = outcome
  BY DEF Advance
<1> HIDE DEF drained
<1>4. CoreOK'
  <2>1. turnsWhilePaused' \in Nat
    BY <1>3 DEF CoreOK
  <2>2. pc' \in {"compacting", "model"} /\ executed' \in SUBSET Calls
    BY <1>3
  <2>3. QED
    BY <1>2, <1>3, <2>1, <2>2 DEF CoreOK
<1>5. TranscriptOK' /\ pc' \notin Terminal
  BY <1>2, <1>3 DEF TranscriptOK, Terminal
<1>6. QED
  BY <1>1, <1>4, <1>5

\* The top of an iteration.
LEMMA TopOfLoopKeeps ==
  ASSUME SteerTypeOK, PauseTypeOK, CoreOK,
         NEW t \in Nat, NEW ms \in Seq(Message), Paired(ms),
         NEW full \in BOOLEAN, NEW cut \in BOOLEAN, TopOfLoop(t, ms, full, cut)
  PROVE  Shared'
<1>1. CASE Return("turns", ms) /\ UNCHANGED pauseVars
  BY <1>1, SettleKeeps, PauseSteps DEF Return, Terminal, Outcomes, Shared
<1>2. CASE Return("stopped", ms) /\ UNCHANGED pauseVars
  BY <1>2, SettleKeeps, PauseSteps DEF Return, Terminal, Outcomes, Shared
<1>3. CASE Park(t, ms, cut) /\ t < MaxTurns
  <2>1. SteerTypeOK' /\ PauseTypeOK'
    BY <1>3, SteerSteps, PauseSteps DEF Park
  <2>2. CoreOK' /\ TranscriptOK'
    <3>1. /\ pc' = "hidden"
          /\ messages' = ms
          /\ turn' = t
          /\ interruptedLastTurn' = cut
          /\ executed' = {}
          /\ turnAborted' = FALSE
          /\ UNCHANGED <<outcome, retried, turnsWhilePaused>>
      BY <1>3 DEF Park
    <3>2. t \in 0..MaxTurns - 1
      BY <1>3, LoopAssumption
    <3>3. CoreOK'
      BY <3>1, <3>2 DEF CoreOK
    <3>4. TranscriptOK'
      BY <3>1 DEF TranscriptOK
    <3>5. QED
      BY <3>3, <3>4
  <2>3. QED
    BY <2>1, <2>2 DEF Shared
<1>4. CASE Advance(t, ms, full) /\ UNCHANGED pauseVars /\ t < MaxTurns
  <2>1. t \in 0..MaxTurns - 1
    BY <1>4, LoopAssumption
  <2>2. QED
    BY <1>4, <2>1, AdvanceKeeps, PauseSteps DEF Shared
<1>5. QED
  BY <1>1, <1>2, <1>3, <1>4 DEF TopOfLoop

\* The outer catch of a turn.
LEMMA AfterErrorKeeps ==
  ASSUME SteerTypeOK, PauseTypeOK, CoreOK, Paired(messages), crowded \in BOOLEAN,
         NEW kind \in ErrorKinds, AfterError(kind)
  PROVE  Shared'
<1>1. CASE Return("stopped", messages) /\ UNCHANGED pauseVars
  BY <1>1, SettleKeeps, PauseSteps DEF Return, Terminal, Outcomes, Shared, CoreOK
<1>2. CASE TopOfLoop(turn + 1, Append(messages, Note("interrupted")), crowded, TRUE)
  <2>1. /\ Append(messages, Note("interrupted")) \in Seq(Message)
        /\ Paired(Append(messages, Note("interrupted")))
    BY NoteType, AppendNotePaired DEF CoreOK
  <2>2. turn + 1 \in Nat
    BY LoopAssumption DEF CoreOK
  <2>3. QED
    BY <1>2, <2>1, <2>2, TopOfLoopKeeps
<1>3. CASE Settle("rejected", kind, messages) /\ UNCHANGED pauseVars
  BY <1>3, SettleKeeps, PauseSteps DEF Terminal, Outcomes, Shared, CoreOK
<1>4. QED
  BY <1>1, <1>2, <1>3 DEF AfterError

-----------------------------------------------------------------------------
(* The invariant is inductive.                                             *)

LEMMA InitIInv == Init => IInv
<1> SUFFICES ASSUME Init
             PROVE  IInv
  OBVIOUS
<1>1. SteerTypeOK
  BY EmptySeq DEF Init, SteerInit, SteerTypeOK
<1>2. PauseTypeOK
  BY DEF Init, PauseInit, PauseTypeOK
<1>3. PICK h \in Histories : messages = Append(h, Note("prompt"))
  BY DEF Init, LoopInit
<1>4. messages \in Seq(Message) /\ Paired(messages)
  BY <1>3, LoopAssumption, NoteType, AppendNotePaired
<1> DEFINE fresh == /\ pc = "start" /\ outcome = "none" /\ turn = 0
                    /\ nudges = 0 /\ truncationRetries = 0
                    /\ interruptedLastTurn = FALSE /\ crowded = FALSE
                    /\ overBudget = FALSE /\ executed = {} /\ retried = FALSE
                    /\ stopped = FALSE /\ turnAborted = FALSE
                    /\ turnsWhilePaused = 0
<1>f. fresh
  BY DEF Init, LoopInit
<1>n. 0 \in 0..MaxTurns - 1 /\ 0 \in 0..MaxNudges /\ 0 \in 0..MaxTruncationRetries + 1
      /\ 0 <= MaxTruncationRetries
  BY LoopAssumption
<1>5. CoreOK
  <2>1. pc \in {"start", "hidden", "compacting", "model", "recovering", "tools"} \union Terminal
    BY <1>f
  <2>2. outcome \in Outcomes
    BY <1>f DEF Outcomes
  <2>3. turn \in 0..MaxTurns - 1 /\ turnsWhilePaused \in Nat
    BY <1>f, <1>n
  <2>4. /\ interruptedLastTurn \in BOOLEAN /\ retried \in BOOLEAN
        /\ turnAborted \in BOOLEAN /\ executed \in SUBSET Calls
    BY <1>f
  <2>5. QED
    BY <1>4, <2>1, <2>2, <2>3, <2>4 DEF CoreOK
<1>6. TranscriptOK
  BY <1>4, <1>f DEF TranscriptOK
<1>7. CallerOK
  <2>1. /\ nudges \in 0..MaxNudges
        /\ truncationRetries \in 0..MaxTruncationRetries + 1
        /\ truncationRetries <= MaxTruncationRetries
    BY <1>f, <1>n
  <2>2. crowded \in BOOLEAN /\ overBudget \in BOOLEAN /\ stopped \in BOOLEAN
    BY <1>f
  <2>3. QED
    BY <2>1, <2>2 DEF CallerOK
<1>8. QED
  BY <1>1, <1>2, <1>5, <1>6, <1>7 DEF IInv, Shared

\* The events of the user and the host touch the controllers and the signals.
LEMMA EnvironmentKeeps ==
  ASSUME IInv, Environment
  PROVE  IInv'
<1> USE DEF IInv, Shared
<1>1. /\ UNCHANGED runVars
      /\ SteerTypeOK' /\ PauseTypeOK'
      /\ stopped' \in BOOLEAN /\ turnAborted' \in BOOLEAN /\ turnsWhilePaused' \in Nat
  <2>1. ASSUME NEW s \in Steers, NEW mode \in Modes, UserSteers(s, mode)
        PROVE  <1>1
    BY <2>1, SteerSteps, PauseSteps DEF UserSteers, CoreOK, CallerOK
  <2>2. ASSUME NEW s \in Steers, UserCancels(s)
        PROVE  <1>1
    BY <2>2, SteerSteps, PauseSteps DEF UserCancels, CoreOK, CallerOK
  <2>3. CASE UserStops
    BY <2>3, SteerSteps, PauseSteps DEF UserStops, CoreOK, CallerOK
  <2>4. CASE HostHides
    BY <2>4, SteerSteps, PauseSteps DEF HostHides, CoreOK, CallerOK
  <2>5. CASE HostReveals
    BY <2>5, SteerSteps, PauseSteps DEF HostReveals, CoreOK, CallerOK
  <2>6. QED
    BY <2>1, <2>2, <2>3, <2>4, <2>5 DEF Environment
<1>2. CoreOK' /\ CallerOK'
  BY <1>1 DEF CoreOK, CallerOK, runVars
<1>3. TranscriptOK'
  BY <1>1 DEF TranscriptOK, runVars, Batch
<1>4. QED
  BY <1>1, <1>2, <1>3

\* Every step of the loop.
LEMMA LoopKeeps ==
  ASSUME IInv, Loop
  PROVE  IInv'
<1> USE DEF IInv, Shared
<1>1. CASE Start
  <2>1. Shared'
    BY <1>1, TopOfLoopKeeps DEF Start, CoreOK, TranscriptOK
  <2>2. CallerOK'
    BY <1>1 DEF Start, CallerOK, Terminal
  <2>3. QED
    BY <2>1, <2>2
<1>2. CASE Resume
  <2>1. PauseTypeOK'
    BY <1>2, PauseSteps DEF Resume
  <2>2. Paired(messages) /\ messages \in Seq(Message) /\ turn \in 0..MaxTurns - 1
    BY <1>2 DEF Resume, TranscriptOK, CoreOK
  <2>5. CallerOK'
    BY <1>2 DEF Resume, CallerOK, Terminal
  <2>6. SteerTypeOK' /\ CoreOK' /\ TranscriptOK'
    <3>1. CASE Return("stopped", messages)
      BY <2>2, <3>1, SettleKeeps DEF Return, Terminal, Outcomes
    <3>2. CASE Advance(turn, messages, crowded)
      BY <2>2, <3>2, AdvanceKeeps DEF CallerOK
    <3>3. QED
      BY <1>2, <3>1, <3>2 DEF Resume
  <2>7. QED
    BY <2>1, <2>5, <2>6
<1>3. ASSUME NEW folded \in BOOLEAN, CompactionEnds(folded)
      PROVE  IInv'
  <2>1. /\ SteerTypeOK'
        /\ PauseTypeOK'
    BY <1>3, SteerSteps, PauseSteps DEF CompactionEnds
  <2>2. messages' \in Seq(Message) /\ Paired(messages')
    BY <1>3, CompactPaired DEF CompactionEnds, CoreOK, TranscriptOK
  <2>3. CoreOK'
    BY <1>3, <2>2 DEF CompactionEnds, CoreOK, CallerOK, SteerTypeOK
  <2>4. TranscriptOK'
    BY <1>3, <2>2 DEF CompactionEnds, TranscriptOK
  <2>5. CallerOK'
    BY <1>3 DEF CompactionEnds, CallerOK, Terminal
  <2>6. QED
    BY <2>1, <2>3, <2>4, <2>5
<1>4. ASSUME NEW kind \in ErrorKinds, ModelFails(kind)
      PROVE  IInv'
  <2>1. Shared'
    <3>1. CASE AfterError(kind)
      BY <1>4, <3>1, AfterErrorKeeps DEF ModelFails, CallerOK, TranscriptOK
    <3>2. CASE ~AfterError(kind)
      <4>1. /\ SteerTypeOK'
            /\ PauseTypeOK'
        BY <1>4, <3>2, SteerSteps, PauseSteps DEF ModelFails
      <4>2. CoreOK' /\ TranscriptOK'
        BY <1>4, <3>2 DEF ModelFails, CoreOK, TranscriptOK
      <4>3. QED
        BY <4>1, <4>2
    <3>3. QED
      BY <3>1, <3>2
  <2>2. CallerOK'
    BY <1>4 DEF ModelFails, CallerOK, Terminal
  <2>3. QED
    BY <2>1, <2>2
<1>5. ASSUME NEW folded \in BOOLEAN, RecoveryEnds(folded)
      PROVE  IInv'
  <2>1. CASE folded
    <3>1. /\ SteerTypeOK'
          /\ PauseTypeOK'
      BY <1>5, <2>1, SteerSteps, PauseSteps DEF RecoveryEnds
    <3>2. messages' \in Seq(Message) /\ Paired(messages')
      BY <1>5, <2>1, CompactPaired DEF RecoveryEnds, CoreOK, TranscriptOK
    <3>3. CoreOK'
      BY <1>5, <2>1, <3>2 DEF RecoveryEnds, CoreOK
    <3>4. TranscriptOK'
      BY <1>5, <2>1, <3>2 DEF RecoveryEnds, TranscriptOK
    <3>5. CallerOK'
      BY <1>5, <2>1 DEF RecoveryEnds, CallerOK, Terminal
    <3>6. QED
      BY <3>1, <3>3, <3>4, <3>5
  <2>2. CASE ~folded
    <3>1. Shared'
      BY <1>5, <2>2, AfterErrorKeeps DEF RecoveryEnds, CallerOK, TranscriptOK, ErrorKinds
    <3>2. CallerOK'
      BY <1>5, <2>2 DEF RecoveryEnds, CallerOK, Terminal
    <3>3. QED
      BY <3>1, <3>2
  <2>3. QED
    BY <2>1, <2>2
<1>6. ASSUME NEW S \in CallSets, NEW full \in BOOLEAN, NEW over \in BOOLEAN,
             RespondTruncated(S, full, over)
      PROVE  IInv'
  <2>1. /\ messages \o TruncatedReply(S) \in Seq(Message)
        /\ Paired(messages \o TruncatedReply(S))
    BY <1>6, TruncatedReplyPaired
       DEF RespondTruncated, Account, CoreOK, TranscriptOK, CallSets
  <2>2. turn + 1 \in Nat
    BY LoopAssumption DEF CoreOK
  <2>3. CASE /\ Return("truncation", messages \o TruncatedReply(S))
             /\ UNCHANGED pauseVars
    <3>1. Shared'
      BY <2>1, <2>3, SettleKeeps, PauseSteps DEF Return, Terminal, Outcomes
    <3>2. CallerOK'
      BY <1>6, <2>3, LoopAssumption
         DEF RespondTruncated, Account, CallerOK, Terminal, Return, Settle
    <3>3. QED
      BY <3>1, <3>2
  <2>4. CASE /\ truncationRetries + 1 <= MaxTruncationRetries
             /\ TopOfLoop(turn + 1, messages \o TruncatedReply(S), full, FALSE)
    <3>1. Shared'
      BY <2>1, <2>2, <2>4, TopOfLoopKeeps
    <3>2. CallerOK'
      BY <1>6, <2>4, LoopAssumption DEF RespondTruncated, Account, CallerOK
    <3>3. QED
      BY <3>1, <3>2
  <2>5. QED
    BY <1>6, <2>3, <2>4 DEF RespondTruncated
<1>7. ASSUME NEW stall \in BOOLEAN, NEW full \in BOOLEAN, NEW over \in BOOLEAN,
             RespondText(stall, full, over)
      PROVE  IInv'
  <2> DEFINE ms == Append(messages, Note("text"))
             nudged == Append(ms, Note("nudge"))
  <2>1. /\ ms \in Seq(Message) /\ Paired(ms)
        /\ nudged \in Seq(Message) /\ Paired(nudged)
    <3>1. messages \in Seq(Message) /\ Paired(messages)
      BY <1>7 DEF RespondText, Account, CoreOK, TranscriptOK
    <3>2. ms \in Seq(Message) /\ Paired(ms)
      BY <3>1, NoteType, AppendNotePaired
    <3>3. QED
      BY <3>2, NoteType, AppendNotePaired
  <2>2. turn + 1 \in Nat
    BY LoopAssumption DEF CoreOK
  <2>3. CallerOK'
    <3>1. nudges' \in 0..MaxNudges
      <4>1. \/ nudges < MaxNudges /\ nudges' = nudges + 1
            \/ nudges' = nudges
        BY <1>7 DEF RespondText, MayNudge
      <4>2. nudges \in 0..MaxNudges
        BY DEF CallerOK
      <4>3. QED
        BY <4>1, <4>2, LoopAssumption
    <3>2. truncationRetries' = 0
      BY <1>7 DEF RespondText
    <3>3. QED
      BY <1>7, <3>1, <3>2, LoopAssumption DEF RespondText, Account, CallerOK
  <2>4. Shared'
    <3>1. CASE TopOfLoop(turn + 1, nudged, full, FALSE)
      BY <2>1, <2>2, <3>1, TopOfLoopKeeps
    <3>2. CASE TopOfLoop(turn + 1, ms, full, FALSE)
      BY <2>1, <2>2, <3>2, TopOfLoopKeeps
    <3>3. CASE Return("finished", ms) /\ UNCHANGED pauseVars
      BY <2>1, <3>3, SettleKeeps, PauseSteps DEF Return, Terminal, Outcomes
    <3>4. QED
      BY <1>7, <3>1, <3>2, <3>3 DEF RespondText
  <2>5. QED
    BY <2>3, <2>4
<1>8. ASSUME NEW S \in CallSets, NEW full \in BOOLEAN, NEW over \in BOOLEAN,
             RespondCalls(S, full, over)
      PROVE  IInv'
  <2> DEFINE m == [kind |-> "calls", calls |-> S]
  <2>1. m \in Message /\ Opens(m) /\ ~Answers(m) /\ m.kind = "calls"
    BY DEF Message, UserKinds, AssistantKinds, Opens, Answers, CallSets
  <2>2. messages \in Seq(Message) /\ Paired(messages)
    BY <1>8 DEF RespondCalls, Account, CoreOK, TranscriptOK
  <2>3. messages' = Append(messages, m)
    BY <1>8 DEF RespondCalls
  <2> HIDE DEF m
  <2>4. /\ messages' \in Seq(Message)
        /\ OpenEnd(messages')
        /\ messages'[Len(messages')].kind = "calls"
    BY <2>1, <2>2, <2>3, AppendOpens
  <2>5. TranscriptOK'
    BY <1>8, <2>4 DEF RespondCalls, TranscriptOK, Batch
  <2>6. CoreOK'
    BY <1>8, <2>4 DEF RespondCalls, CoreOK
  <2>7. CallerOK'
    BY <1>8, LoopAssumption DEF RespondCalls, Account, CallerOK
  <2>8. SteerTypeOK' /\ PauseTypeOK'
    BY <1>8, SteerSteps, PauseSteps DEF RespondCalls
  <2>9. QED
    BY <2>5, <2>6, <2>7, <2>8
<1>9. ASSUME NEW c \in Calls, ExecuteTool(c)
      PROVE  IInv'
  <2>1. CallerOK'
    BY <1>9 DEF ExecuteTool, CallerOK, Terminal
  <2>2. messages \in Seq(Message) /\ OpenEnd(messages) /\ Batch.kind = "calls"
    BY <1>9 DEF ExecuteTool, CoreOK, TranscriptOK
  <2>3. CASE ~BatchDone(executed \union {c})
    <3>1. /\ SteerTypeOK'
          /\ PauseTypeOK'
      BY <1>9, <2>3, SteerSteps, PauseSteps DEF ExecuteTool
    <3>2. CoreOK' /\ TranscriptOK'
      BY <1>9, <2>3 DEF ExecuteTool, CoreOK, TranscriptOK, Batch
    <3>3. QED
      BY <2>1, <3>1, <3>2
  <2>4. CASE BatchDone(executed \union {c})
    <3> DEFINE m == [kind |-> "results", calls |-> executed \union {c}]
               ms == Append(messages, m)
    <3>1. m = AnswerTo(messages[Len(messages)])
      BY <2>2, <2>4 DEF BatchDone, Batch, AnswerTo
    <3> HIDE DEF m
    <3>2. ms \in Seq(Message) /\ Paired(ms)
      BY <2>2, <3>1, AnswerCloses
    <3>3. turn + 1 \in Nat
      BY LoopAssumption DEF CoreOK
    <3>4. \/ Return("budget", ms) /\ UNCHANGED pauseVars
          \/ TopOfLoop(turn + 1, ms, crowded, FALSE)
      BY <1>9, <2>4 DEF ExecuteTool, m
    <3> HIDE DEF ms
    <3>5. CASE Return("budget", ms) /\ UNCHANGED pauseVars
      BY <2>1, <3>2, <3>5, SettleKeeps, PauseSteps DEF Return, Terminal, Outcomes
    <3>6. CASE TopOfLoop(turn + 1, ms, crowded, FALSE)
      BY <2>1, <3>2, <3>3, <3>6, TopOfLoopKeeps DEF CallerOK
    <3>7. QED
      BY <3>4, <3>5, <3>6
  <2>5. QED
    BY <2>3, <2>4
<1>10. QED
  BY <1>1, <1>2, <1>3, <1>4, <1>5, <1>6, <1>7, <1>8, <1>9 DEF Loop, Services

LEMMA StepIInv == IInv /\ [Next]_vars => IInv'
<1> SUFFICES ASSUME IInv, [Next]_vars
             PROVE  IInv'
  OBVIOUS
<1>1. CASE UNCHANGED vars
  BY <1>1 DEF vars, IInv, Shared, SteerTypeOK, PauseTypeOK, CoreOK, CallerOK,
              TranscriptOK, Batch
<1>2. QED
  BY <1>1, LoopKeeps, EnvironmentKeeps DEF Next

-----------------------------------------------------------------------------
(* The interrupt signal.                                                   *)

LEMMA HasInterruptAppend ==
  ASSUME NEW q \in Seq(SteerMessages), NEW m \in SteerMessages
  PROVE  HasInterrupt(Append(q, m)) <=> HasInterrupt(q) \/ m.mode = "interrupt"
<1>1. /\ Len(q) \in Nat
      /\ Len(Append(q, m)) = Len(q) + 1
      /\ \A i \in 1..Len(q) : Append(q, m)[i] = q[i]
      /\ Append(q, m)[Len(q) + 1] = m
  BY AppendProperties
<1>2. 1..Len(q) + 1 = 1..Len(q) \union {Len(q) + 1}
  BY <1>1
<1>3. QED
  BY <1>1, <1>2 DEF HasInterrupt

\* The steps of the loop leave the queue alone, or drain it and re-arm.
LEMMA LoopSteers ==
  ASSUME Loop
  PROVE  UNCHANGED steerVars \/ DrainAndRearm
<1> DEFINE OK == UNCHANGED steerVars \/ DrainAndRearm
<1>1. ASSUME NEW t, NEW ms, NEW full, NEW cut, TopOfLoop(t, ms, full, cut)
      PROVE  OK
  BY <1>1 DEF TopOfLoop, Return, Settle, Park, Advance
<1>2. ASSUME NEW kind, AfterError(kind)
      PROVE  OK
  <2>1. ASSUME NEW why, NEW how, Settle(how, why, messages)
        PROVE  OK
    BY <2>1 DEF Settle
  <2>2. QED
    BY <1>1, <1>2, <2>1 DEF AfterError, Return
<1> HIDE DEF OK
<1>3. ASSUME UNCHANGED steerVars
      PROVE  OK
  BY <1>3 DEF OK
<1>4. ASSUME NEW why, NEW ms, Return(why, ms)
      PROVE  OK
  BY <1>4, <1>3 DEF Return, Settle
<1>5. ASSUME Start
      PROVE  OK
  BY <1>5, <1>1 DEF Start
<1>6. ASSUME Resume
      PROVE  OK
  <2>1. ASSUME Advance(turn, messages, crowded)
        PROVE  OK
    BY <2>1 DEF Advance, OK
  <2>2. QED
    BY <1>6, <1>4, <2>1 DEF Resume
<1>7. ASSUME NEW folded, CompactionEnds(folded)
      PROVE  OK
  BY <1>7, <1>3 DEF CompactionEnds
<1>8. ASSUME NEW kind, ModelFails(kind)
      PROVE  OK
  BY <1>8, <1>3, <1>2 DEF ModelFails
<1>9. ASSUME NEW folded, RecoveryEnds(folded)
      PROVE  OK
  BY <1>9, <1>3, <1>2 DEF RecoveryEnds
<1>10. ASSUME NEW S, NEW full, NEW over, RespondTruncated(S, full, over)
       PROVE  OK
  BY <1>10, <1>4, <1>1 DEF RespondTruncated
<1>11. ASSUME NEW stall, NEW full, NEW over, RespondText(stall, full, over)
       PROVE  OK
  BY <1>11, <1>4, <1>1 DEF RespondText
<1>12. ASSUME NEW S, NEW full, NEW over, RespondCalls(S, full, over)
       PROVE  OK
  BY <1>12, <1>3 DEF RespondCalls
<1>13. ASSUME NEW c, ExecuteTool(c)
       PROVE  OK
  BY <1>13, <1>3, <1>4, <1>1 DEF ExecuteTool
<1>14. OK
  BY <1>5, <1>6, <1>7, <1>8, <1>9, <1>10, <1>11, <1>12, <1>13 DEF Loop, Services
<1>15. QED
  BY <1>14 DEF OK

LEMMA InterruptStep ==
  ASSUME SteerTypeOK, InterruptIffQueued, [Next]_vars
  PROVE  InterruptIffQueued'
<1> USE DEF InterruptIffQueued
<1>1. ASSUME UNCHANGED steerVars
      PROVE  InterruptIffQueued'
  BY <1>1 DEF steerVars, HasInterrupt
<1>2. CASE UNCHANGED vars
  BY <1>2, <1>1 DEF vars, steerVars
<1>3. CASE Loop
  <2>1. CASE DrainAndRearm
    <3>1. queue' = <<>> /\ interruptAborted' = FALSE
      BY <2>1 DEF DrainAndRearm
    <3>2. ~HasInterrupt(<<>>)
      BY DEF HasInterrupt
    <3>3. HasInterrupt(queue)' <=> HasInterrupt(<<>>)
      BY <3>1 DEF HasInterrupt
    <3>4. QED
      BY <3>1, <3>2, <3>3
  <2>2. QED
    BY <1>1, <1>3, <2>1, LoopSteers
<1>4. ASSUME NEW s \in Steers, NEW mode \in Modes, UserSteers(s, mode)
      PROVE  InterruptIffQueued'
  <2> DEFINE m == [id |-> s, mode |-> mode]
  <2>1. m \in SteerMessages /\ m.mode = mode /\ queue \in Seq(SteerMessages)
    BY DEF SteerMessages, SteerTypeOK
  <2>2. queue' = Append(queue, m)
    BY <1>4 DEF UserSteers, Enqueue
  <2>3. interruptAborted' = (interruptAborted \/ mode = "interrupt")
    BY <1>4 DEF UserSteers, Enqueue
  <2> HIDE DEF m
  <2>4. HasInterrupt(Append(queue, m)) <=> HasInterrupt(queue) \/ mode = "interrupt"
    BY <2>1, HasInterruptAppend
  <2>5. HasInterrupt(queue)' <=> HasInterrupt(Append(queue, m))
    BY <2>2 DEF HasInterrupt
  <2>6. QED
    BY <2>3, <2>4, <2>5
<1>5. ASSUME NEW s \in Steers, UserCancels(s)
      PROVE  InterruptIffQueued'
  <2> DEFINE rest == Without(queue, s)
  <2>1. queue' = rest
    BY <1>5 DEF UserCancels, CancelSteer
  <2>2. interruptAborted' = (interruptAborted /\ HasInterrupt(rest))
    BY <1>5 DEF UserCancels, CancelSteer, SignalAfterCancel
  <2>3. \A i \in 1..Len(rest) : \E j \in 1..Len(queue) : rest[i] = queue[j]
    BY <1>5, WithoutType DEF UserCancels, CancelSteer, SteerTypeOK
  <2> HIDE DEF rest
  <2>4. HasInterrupt(rest) => HasInterrupt(queue)
    BY <2>3 DEF HasInterrupt
  <2>5. HasInterrupt(queue)' <=> HasInterrupt(rest)
    BY <2>1 DEF HasInterrupt
  <2>6. QED
    BY <2>2, <2>4, <2>5
<1>6. CASE UserStops \/ HostHides \/ HostReveals
  BY <1>1, <1>6 DEF UserStops, HostHides, HostReveals
<1>7. QED
  BY <1>2, <1>3, <1>4, <1>5, <1>6 DEF Next, Environment

-----------------------------------------------------------------------------
(* Corrections in order.                                                   *)

\* The property of a sequence that is heard, one that was typed and a set of ids taken back.
InOrder(heard, typed, back) ==
  /\ {heard[i] : i \in 1..Len(heard)} = {typed[i] : i \in 1..Len(typed)} \ back
  /\ \A i, j \in 1..Len(heard) : i < j =>
       \E a, b \in 1..Len(typed) : a < b /\ typed[a] = heard[i] /\ typed[b] = heard[j]

Heard == delivered \o QueuedIds(queue)

\* An id is typed once, and only what was typed is taken back.
TypedOnce ==
  /\ \A a, b \in 1..Len(issued) : issued[a] = issued[b] => a = b
  /\ cancelled \subseteq {issued[i] : i \in 1..Len(issued)}

HeardInv == SteersInOrder /\ TypedOnce

\* One more is typed, and waits last.
LEMMA TypedLast ==
  ASSUME NEW heard \in Seq(Steers), NEW typed \in Seq(Steers), NEW back, NEW s \in Steers,
         InOrder(heard, typed, back), back \subseteq {typed[i] : i \in 1..Len(typed)},
         \A i \in 1..Len(typed) : typed[i] # s
  PROVE  InOrder(Append(heard, s), Append(typed, s), back)
<1> DEFINE h == Append(heard, s)
           t == Append(typed, s)
<1>1. /\ Len(heard) \in Nat /\ Len(h) = Len(heard) + 1 /\ h[Len(heard) + 1] = s
      /\ \A i \in 1..Len(heard) : h[i] = heard[i]
  BY AppendProperties
<1>2. /\ Len(typed) \in Nat /\ Len(t) = Len(typed) + 1 /\ t[Len(typed) + 1] = s
      /\ \A i \in 1..Len(typed) : t[i] = typed[i]
  BY AppendProperties
<1> HIDE DEF h, t
<1>3. {h[i] : i \in 1..Len(h)} = {heard[i] : i \in 1..Len(heard)} \cup {s}
  BY <1>1
<1>4. {t[i] : i \in 1..Len(t)} = {typed[i] : i \in 1..Len(typed)} \cup {s}
  BY <1>2
<1>5. \A i \in 1..Len(heard) : \E a \in 1..Len(typed) : typed[a] = heard[i]
  BY DEF InOrder
<1>6. ASSUME NEW i \in 1..Len(h), NEW j \in 1..Len(h), i < j
      PROVE  \E a, b \in 1..Len(t) : a < b /\ t[a] = h[i] /\ t[b] = h[j]
  <2>1. i \in 1..Len(heard)
    BY <1>1, <1>6
  <2>2. CASE j \in 1..Len(heard)
    <3>1. PICK a \in 1..Len(typed), b \in 1..Len(typed) : a < b /\ typed[a] = heard[i] /\ typed[b] = heard[j]
      BY <1>6, <2>1, <2>2 DEF InOrder
    <3>2. a \in 1..Len(t) /\ b \in 1..Len(t) /\ t[a] = h[i] /\ t[b] = h[j]
      BY <1>1, <1>2, <2>1, <2>2, <3>1
    <3>3. QED
      BY <3>1, <3>2
  <2>3. CASE j = Len(heard) + 1
    <3>1. PICK a \in 1..Len(typed) : typed[a] = heard[i]
      BY <1>5, <2>1
    <3>2. /\ a \in 1..Len(t) /\ Len(typed) + 1 \in 1..Len(t) /\ a < Len(typed) + 1
          /\ t[a] = h[i] /\ t[Len(typed) + 1] = h[j]
      BY <1>1, <1>2, <2>1, <2>3, <3>1
    <3>3. QED
      BY <3>2
  <2>4. QED
    BY <1>1, <2>2, <2>3
<1>7. {h[i] : i \in 1..Len(h)} = {t[i] : i \in 1..Len(t)} \ back
  <2>1. s \notin back
    OBVIOUS
  <2>2. {heard[i] : i \in 1..Len(heard)} = {typed[i] : i \in 1..Len(typed)} \ back
    BY DEF InOrder
  <2>3. QED
    BY <1>3, <1>4, <2>1, <2>2
<1>8. InOrder(h, t, back)
  BY <1>6, <1>7 DEF InOrder
<1>9. QED
  BY <1>8 DEF h, t

\* One that waits is taken back.
LEMMA TakenBack ==
  ASSUME NEW heard \in Seq(Steers), NEW typed \in Seq(Steers), NEW back, InOrder(heard, typed, back),
         \A a, b \in 1..Len(typed) : typed[a] = typed[b] => a = b,
         NEW p \in 1..Len(heard), NEW rest \in Seq(Steers), Len(rest) = Len(heard) - 1,
         \A i \in 1..(Len(heard) - 1) : rest[i] = IF i < p THEN heard[i] ELSE heard[i + 1]
  PROVE  InOrder(rest, typed, back \cup {heard[p]})
<1>1. Len(heard) \in Nat /\ Len(typed) \in Nat /\ 1..Len(rest) = 1..(Len(heard) - 1)
  OBVIOUS
<1>2. \A i, j \in 1..Len(heard) : i < j => heard[i] # heard[j]
  <2> SUFFICES ASSUME NEW i \in 1..Len(heard), NEW j \in 1..Len(heard), i < j, heard[i] = heard[j]
               PROVE  FALSE
    OBVIOUS
  <2>1. PICK a \in 1..Len(typed), b \in 1..Len(typed) : a < b /\ typed[a] = heard[i] /\ typed[b] = heard[j]
    BY DEF InOrder
  <2>2. a = b
    BY <2>1
  <2>3. QED
    BY <1>1, <2>1, <2>2
<1>3. \A i \in 1..Len(rest) : \E j \in 1..Len(heard) : j # p /\ rest[i] = heard[j]
  <2> SUFFICES ASSUME NEW i \in 1..(Len(heard) - 1) PROVE \E j \in 1..Len(heard) : j # p /\ rest[i] = heard[j]
    BY <1>1
  <2>1. i \in 1..Len(heard) /\ i + 1 \in 1..Len(heard)
    BY <1>1
  <2>2. CASE i < p
    BY <2>1, <2>2
  <2>3. CASE ~(i < p)
    BY <1>1, <2>1, <2>3
  <2>4. QED
    BY <2>2, <2>3
<1>4. \A j \in 1..Len(heard) : j # p => \E i \in 1..Len(rest) : rest[i] = heard[j]
  <2> SUFFICES ASSUME NEW j \in 1..Len(heard), j # p PROVE \E i \in 1..(Len(heard) - 1) : rest[i] = heard[j]
    BY <1>1
  <2>1. CASE j < p
    <3>1. j \in 1..(Len(heard) - 1)
      BY <1>1, <2>1
    <3>2. QED
      BY <2>1, <3>1
  <2>2. CASE j > p
    <3>1. j - 1 \in 1..(Len(heard) - 1) /\ ~(j - 1 < p) /\ (j - 1) + 1 = j
      BY <1>1, <2>2
    <3>2. QED
      BY <3>1
  <2>3. QED
    BY <1>1, <2>1, <2>2
<1>5. {rest[i] : i \in 1..Len(rest)} = {heard[i] : i \in 1..Len(heard)} \ {heard[p]}
  <2>1. \A j \in 1..Len(heard) : heard[j] = heard[p] <=> j = p
    BY <1>1, <1>2
  <2>2. \A x \in {rest[i] : i \in 1..Len(rest)} : x \in {heard[i] : i \in 1..Len(heard)} \ {heard[p]}
    BY <1>3, <2>1
  <2>3. \A x \in {heard[i] : i \in 1..Len(heard)} \ {heard[p]} : x \in {rest[i] : i \in 1..Len(rest)}
    BY <1>4, <2>1
  <2>4. QED
    BY <2>2, <2>3
<1>6. ASSUME NEW i \in 1..Len(rest), NEW j \in 1..Len(rest), i < j
      PROVE  \E a, b \in 1..Len(typed) : a < b /\ typed[a] = rest[i] /\ typed[b] = rest[j]
  <2>1. PICK m \in 1..Len(heard), n \in 1..Len(heard) : m < n /\ rest[i] = heard[m] /\ rest[j] = heard[n]
    <3> DEFINE m == IF i < p THEN i ELSE i + 1
               n == IF j < p THEN j ELSE j + 1
    <3>1. m \in 1..Len(heard) /\ n \in 1..Len(heard) /\ m < n
      BY <1>1, <1>6
    <3>2. rest[i] = heard[m] /\ rest[j] = heard[n]
      BY <1>1
    <3>3. QED
      BY <3>1, <3>2
  <2>2. QED
    BY <2>1 DEF InOrder
<1>7. QED
  BY <1>5, <1>6 DEF InOrder

LEMMA HeardIs ==
  ASSUME NEW given \in Seq(Steers), NEW q \in Seq(SteerMessages), NEW h, h = given \o QueuedIds(q)
  PROVE  /\ h \in Seq(Steers) /\ Len(given) \in Nat /\ Len(q) \in Nat /\ Len(h) = Len(given) + Len(q)
         /\ \A i \in 1..(Len(given) + Len(q)) : h[i] = IF i <= Len(given) THEN given[i] ELSE q[i - Len(given)].id
<1> DEFINE ids == QueuedIds(q)
<1>1. ids \in Seq(Steers)
  BY QueuedIdsType
<1>2. Len(q) \in Nat /\ Len(ids) = Len(q) /\ \A i \in 1..Len(q) : ids[i] = q[i].id
  BY DEF QueuedIds
<1> HIDE DEF ids
<1>3. h = given \o ids
  BY DEF ids
<1>4. /\ h \in Seq(Steers) /\ Len(h) = Len(given) + Len(ids) /\ Len(given) \in Nat
      /\ \A i \in 1..(Len(given) + Len(ids)) : h[i] = IF i <= Len(given) THEN given[i] ELSE ids[i - Len(given)]
  BY <1>1, <1>3
<1>5. \A i \in 1..(Len(given) + Len(q)) : ~(i <= Len(given)) => i - Len(given) \in 1..Len(q)
  BY <1>2, <1>4
<1>6. QED
  BY <1>2, <1>4, <1>5

LEMMA SteersInOrderIs == /\ SteersInOrder = InOrder(Heard, issued, cancelled)
                         /\ SteersInOrder' = InOrder(Heard', issued', cancelled')
BY DEF SteersInOrder, InOrder, Heard

\* Two sequences that are equal element by element.
LEMMA SameHeard ==
  ASSUME NEW x \in Seq(Steers), NEW y \in Seq(Steers), Len(x) = Len(y), \A i \in 1..Len(x) : x[i] = y[i]
  PROVE  x = y
OBVIOUS

LEMMA HeardStep ==
  ASSUME SteerTypeOK, HeardInv, [Next]_vars
  PROVE  HeardInv'
<1>0. /\ Heard \in Seq(Steers) /\ Len(delivered) \in Nat /\ Len(queue) \in Nat
      /\ Len(Heard) = Len(delivered) + Len(queue)
      /\ \A i \in 1..(Len(delivered) + Len(queue)) :
           Heard[i] = IF i <= Len(delivered) THEN delivered[i] ELSE queue[i - Len(delivered)].id
  BY HeardIs DEF SteerTypeOK, Heard
<1>1. ASSUME UNCHANGED steerVars
      PROVE  HeardInv'
  <2>1. Heard' = Heard
    BY <1>1 DEF steerVars, Heard
  <2>2. QED
    BY <1>1, <2>1, SteersInOrderIs DEF steerVars, HeardInv, TypedOnce
<1>2. CASE UNCHANGED vars
  BY <1>1, <1>2 DEF vars, steerVars
<1>3. ASSUME SteerTypeOK'
      PROVE  /\ Heard' \in Seq(Steers) /\ Len(delivered') \in Nat /\ Len(queue') \in Nat
             /\ Len(Heard') = Len(delivered') + Len(queue')
             /\ \A i \in 1..(Len(delivered') + Len(queue')) :
                  Heard'[i] = IF i <= Len(delivered') THEN delivered'[i] ELSE queue'[i - Len(delivered')].id
  <2>1. delivered' \in Seq(Steers) /\ queue' \in Seq(SteerMessages)
    BY <1>3 DEF SteerTypeOK
  <2>2. Heard' = delivered' \o QueuedIds(queue')
    BY DEF Heard
  <2>3. QED
    BY <2>1, <2>2, HeardIs
<1>4. CASE DrainAndRearm
  <2>1. /\ delivered' = Heard /\ queue' = <<>> /\ UNCHANGED <<issued, cancelled>> /\ Len(queue') = 0
    BY <1>4 DEF DrainAndRearm, Heard
  <2>2. SteerTypeOK'
    BY <1>4, SteerSteps
  <2>3. Heard' = Heard
    <3>1. Len(Heard') = Len(Heard) /\ \A i \in 1..Len(Heard) : Heard'[i] = Heard[i]
      BY <1>0, <1>3, <2>1, <2>2
    <3>2. QED
      BY <1>0, <1>3, <2>2, <3>1, SameHeard
  <2>4. QED
    BY <2>1, <2>3, SteersInOrderIs DEF HeardInv, TypedOnce
<1>5. ASSUME NEW s \in Steers, NEW mode \in Modes, Enqueue(s, mode)
      PROVE  HeardInv'
  <2> DEFINE m == [id |-> s, mode |-> mode]
  <2>1. /\ queue' = Append(queue, m) /\ issued' = Append(issued, s) /\ UNCHANGED <<cancelled, delivered>>
        /\ \A i \in 1..Len(issued) : issued[i] # s
    BY <1>5 DEF Enqueue
  <2>2. m \in SteerMessages /\ m.id = s
    BY DEF SteerMessages
  <2> HIDE DEF m
  <2>3. SteerTypeOK'
    BY <1>5, SteerSteps
  <2>4. /\ Len(queue') = Len(queue) + 1 /\ queue'[Len(queue) + 1] = m
        /\ \A i \in 1..Len(queue) : queue'[i] = queue[i]
    BY <2>1, <2>2, AppendProperties DEF SteerTypeOK
  <2>5. Heard' = Append(Heard, s)
    <3>1. /\ Heard \in Seq(Steers) /\ Len(Heard) = Len(delivered) + Len(queue) /\ Len(delivered) \in Nat /\ Len(queue) \in Nat
          /\ \A i \in 1..(Len(delivered) + Len(queue)) :
               Heard[i] = IF i <= Len(delivered) THEN delivered[i] ELSE queue[i - Len(delivered)].id
      BY <1>0
    <3>2. /\ Heard' \in Seq(Steers) /\ Len(Heard') = Len(delivered) + Len(queue) + 1
          /\ \A i \in 1..(Len(delivered) + Len(queue) + 1) :
               Heard'[i] = IF i <= Len(delivered) THEN delivered[i] ELSE queue'[i - Len(delivered)].id
      <4>1. /\ Heard' \in Seq(Steers) /\ Len(Heard') = Len(delivered') + Len(queue')
            /\ \A i \in 1..(Len(delivered') + Len(queue')) :
                 Heard'[i] = IF i <= Len(delivered') THEN delivered'[i] ELSE queue'[i - Len(delivered')].id
        BY <1>3, <2>3
      <4>2. delivered' = delivered /\ Len(delivered') + Len(queue') = Len(delivered) + Len(queue) + 1
        BY <2>1, <2>4, <3>1
      <4>3. QED
        BY <4>1, <4>2
    <3>3. /\ Append(Heard, s) \in Seq(Steers) /\ Len(Append(Heard, s)) = Len(Heard) + 1
          /\ Append(Heard, s)[Len(Heard) + 1] = s
          /\ \A i \in 1..Len(Heard) : Append(Heard, s)[i] = Heard[i]
      BY <3>1, AppendProperties
    <3> DEFINE more == Append(Heard, s)
    <3> HIDE DEF more
    <3>4. \A i \in 1..Len(Heard') : Heard'[i] = more[i]
      <4> SUFFICES ASSUME NEW i \in 1..(Len(delivered) + Len(queue) + 1) PROVE Heard'[i] = more[i]
        BY <3>1, <3>2
      <4>1. CASE i <= Len(delivered)
        BY <3>1, <3>2, <3>3, <4>1 DEF more
      <4>2. CASE i > Len(delivered) /\ i <= Len(delivered) + Len(queue)
        <5>1. i - Len(delivered) \in 1..Len(queue) /\ i \in 1..Len(Heard)
          BY <3>1, <4>2
        <5>2. QED
          BY <2>4, <3>1, <3>2, <3>3, <4>2, <5>1 DEF more
      <4>3. CASE i = Len(delivered) + Len(queue) + 1
        <5>1. i - Len(delivered) = Len(queue) + 1 /\ ~(i <= Len(delivered))
          BY <3>1, <4>3
        <5>2. QED
          BY <2>2, <2>4, <3>1, <3>2, <3>3, <4>3, <5>1 DEF more
      <4>4. QED
        BY <3>1, <4>1, <4>2, <4>3
    <3>5. more \in Seq(Steers) /\ Len(Heard') = Len(more)
      BY <3>1, <3>2, <3>3 DEF more
    <3>6. Heard' = more
      BY <3>2, <3>4, <3>5, SameHeard
    <3>7. QED
      BY <3>6 DEF more
  <2>6. InOrder(Heard', issued', cancelled')
    <3>1. Heard \in Seq(Steers) /\ issued \in Seq(Steers) /\ InOrder(Heard, issued, cancelled)
      BY <1>0, SteersInOrderIs DEF SteerTypeOK, HeardInv
    <3>2. InOrder(Append(Heard, s), Append(issued, s), cancelled)
      BY <2>1, <3>1, TypedLast DEF HeardInv, TypedOnce
    <3>3. QED
      BY <2>1, <2>5, <3>2
  <2>7. TypedOnce'
    <3>1. /\ Len(issued) \in Nat /\ Len(issued') = Len(issued) + 1 /\ issued'[Len(issued) + 1] = s
          /\ \A i \in 1..Len(issued) : issued'[i] = issued[i]
      BY <2>1, AppendProperties DEF SteerTypeOK
    <3>2. \A a, b \in 1..Len(issued') : issued'[a] = issued'[b] => a = b
      BY <2>1, <3>1 DEF HeardInv, TypedOnce
    <3>3. cancelled' \subseteq {issued'[i] : i \in 1..Len(issued')}
      BY <2>1, <3>1 DEF HeardInv, TypedOnce
    <3>4. QED
      BY <3>2, <3>3 DEF TypedOnce
  <2>8. QED
    BY <2>6, <2>7, SteersInOrderIs DEF HeardInv
<1>6. ASSUME NEW s \in Steers, CancelSteer(s)
      PROVE  HeardInv'
  <2>1. /\ queue' = Without(queue, s) /\ cancelled' = cancelled \cup {s} /\ UNCHANGED <<issued, delivered>>
        /\ \E i \in 1..Len(queue) : queue[i].id = s
    BY <1>6 DEF CancelSteer
  <2>2. SteerTypeOK'
    BY <1>6, SteerSteps
  <2>3. PICK k \in 1..Len(queue) :
           /\ queue[k].id = s /\ Len(queue') = Len(queue) - 1
           /\ \A i \in 1..(Len(queue) - 1) : queue'[i] = IF i < k THEN queue[i] ELSE queue[i + 1]
    <3>1. queue \in Seq(SteerMessages) /\ queue' = Without(queue, s)
      BY <2>1 DEF SteerTypeOK
    <3>2. /\ Len(Without(queue, s)) = Len(queue) - 1
          /\ \E k \in 1..Len(queue) :
               /\ queue[k].id = s
               /\ \A i \in 1..(Len(queue) - 1) : Without(queue, s)[i] = IF i < k THEN queue[i] ELSE queue[i + 1]
      BY <2>1, <3>1, WithoutType
    <3>3. QED
      BY <3>1, <3>2
  <2>4. /\ Heard \in Seq(Steers) /\ Len(Heard) = Len(delivered) + Len(queue) /\ Len(delivered) \in Nat /\ Len(queue) \in Nat
        /\ \A i \in 1..(Len(delivered) + Len(queue)) :
             Heard[i] = IF i <= Len(delivered) THEN delivered[i] ELSE queue[i - Len(delivered)].id
    BY <1>0
  <2>5. /\ Heard' \in Seq(Steers) /\ Len(Heard') = Len(Heard) - 1
        /\ \A i \in 1..(Len(Heard) - 1) :
             Heard'[i] = IF i <= Len(delivered) THEN delivered[i] ELSE queue'[i - Len(delivered)].id
    BY <1>3, <2>1, <2>2, <2>3, <2>4
  <2> DEFINE p == Len(delivered) + k
  <2>6. p \in 1..Len(Heard) /\ Heard[p] = s
    BY <2>3, <2>4
  <2>7. \A i \in 1..(Len(Heard) - 1) : Heard'[i] = IF i < p THEN Heard[i] ELSE Heard[i + 1]
    <3> SUFFICES ASSUME NEW i \in 1..(Len(Heard) - 1) PROVE Heard'[i] = IF i < p THEN Heard[i] ELSE Heard[i + 1]
      OBVIOUS
    <3>1. CASE i <= Len(delivered)
      BY <2>4, <2>5, <3>1
    <3>2. CASE i > Len(delivered)
      <4>1. /\ i - Len(delivered) \in 1..(Len(queue) - 1) /\ (i + 1) - Len(delivered) = (i - Len(delivered)) + 1
            /\ (i - Len(delivered) < k <=> i < p)
            /\ i \in 1..(Len(delivered) + Len(queue)) /\ i + 1 \in 1..(Len(delivered) + Len(queue))
            /\ ~(i <= Len(delivered)) /\ ~(i + 1 <= Len(delivered))
        BY <2>4, <3>2
      <4>2. Heard'[i] = queue'[i - Len(delivered)].id
        BY <2>5, <4>1
      <4>3. Heard[i] = queue[i - Len(delivered)].id /\ Heard[i + 1] = queue[(i - Len(delivered)) + 1].id
        BY <2>4, <4>1
      <4>4. queue'[i - Len(delivered)] = IF i < p THEN queue[i - Len(delivered)] ELSE queue[(i - Len(delivered)) + 1]
        BY <2>3, <4>1
      <4>5. QED
        BY <4>2, <4>3, <4>4
    <3>3. QED
      BY <2>4, <3>1, <3>2
  <2> HIDE DEF p
  <2>8. InOrder(Heard', issued, cancelled \cup {s})
    <3>1. issued \in Seq(Steers) /\ InOrder(Heard, issued, cancelled)
      BY SteersInOrderIs DEF SteerTypeOK, HeardInv
    <3>2. PICK rest \in Seq(Steers) : rest = Heard'
      BY <2>5
    <3>3. InOrder(rest, issued, cancelled \cup {Heard[p]})
      BY <2>4, <2>5, <2>6, <2>7, <3>1, <3>2, TakenBack DEF HeardInv, TypedOnce
    <3>4. QED
      BY <2>6, <3>2, <3>3
  <2>9. TypedOnce'
    <3>1. s \in {issued[i] : i \in 1..Len(issued)}
      <4>1. {Heard[i] : i \in 1..Len(Heard)} = {issued[i] : i \in 1..Len(issued)} \ cancelled
        BY SteersInOrderIs DEF HeardInv, InOrder
      <4>2. s \in {Heard[i] : i \in 1..Len(Heard)}
        BY <2>6
      <4>3. QED
        BY <4>1, <4>2
    <3>2. QED
      BY <2>1, <3>1 DEF HeardInv, TypedOnce
  <2>10. QED
    BY <2>1, <2>8, <2>9, SteersInOrderIs DEF HeardInv
<1>7. CASE Loop
  BY <1>1, <1>4, <1>7, LoopSteers
<1>8. CASE Environment
  BY <1>1, <1>5, <1>6, <1>8 DEF Environment, UserSteers, UserCancels, UserStops, HostHides, HostReveals
<1>9. QED
  BY <1>2, <1>7, <1>8 DEF Next

\* A run that ends because the model is done has nothing waiting.
LEMMA FinishedEmpty ==
  ASSUME [Next]_vars, pc' = "returned", outcome' = "finished", pc # "returned"
  PROVE  queue' = <<>>
<1> DEFINE Done == pc' = "returned" /\ outcome' = "finished"
<1>1. ASSUME NEW t, NEW ms, NEW full, NEW cut, TopOfLoop(t, ms, full, cut)
      PROVE  ~Done
  BY <1>1 DEF TopOfLoop, Return, Settle, Park, Advance
<1>2. ASSUME NEW kind, AfterError(kind)
      PROVE  ~Done
  BY <1>1, <1>2 DEF AfterError, Return, Settle
<1>3. Done /\ pc' # pc
  OBVIOUS
<1>4. ~UNCHANGED vars
  BY DEF vars
<1>5. ~Environment
  BY DEF Environment, UserSteers, UserCancels, UserStops, HostHides, HostReveals, runVars
<1> HIDE DEF Done
<1>6. ~Start /\ ~Resume
  <2>1. ~Start
    BY <1>1, <1>3 DEF Start
  <2>2. ~Resume
    BY <1>3 DEF Resume, Return, Settle, Advance, Done
  <2>3. QED
    BY <2>1, <2>2
<1>7. \A folded : ~CompactionEnds(folded) /\ ~RecoveryEnds(folded)
  BY <1>2, <1>3 DEF CompactionEnds, RecoveryEnds, Done
<1>8. \A kind : ~ModelFails(kind)
  BY <1>2, <1>3 DEF ModelFails, Done
<1>9. \A S, full, over : ~RespondTruncated(S, full, over) /\ ~RespondCalls(S, full, over)
  <2>1. \A S, full, over : ~RespondTruncated(S, full, over)
    BY <1>1, <1>3 DEF RespondTruncated, Return, Settle, Done
  <2>2. \A S, full, over : ~RespondCalls(S, full, over)
    BY <1>3 DEF RespondCalls, Done
  <2>3. QED
    BY <2>1, <2>2
<1>10. \A c : ~ExecuteTool(c)
  BY <1>1, <1>3 DEF ExecuteTool, Return, Settle, Done
<1>11. \E full, over, stall \in BOOLEAN : RespondText(stall, full, over)
  BY <1>4, <1>5, <1>6, <1>7, <1>8, <1>9, <1>10 DEF Next, Loop, Services
<1>12. PICK full \in BOOLEAN, over \in BOOLEAN, stall \in BOOLEAN : RespondText(stall, full, over)
  BY <1>11
<1>13. ~HasPending /\ UNCHANGED steerVars
  BY <1>1, <1>3, <1>12 DEF RespondText, Return, Settle
<1>14. QED
  BY <1>13 DEF HasPending, steerVars

-----------------------------------------------------------------------------
(* Turns begun while the region is hidden.                                 *)

\* A waiter exists only while the loop is parked, it is resolved once, and
\* a reveal that the next hide overtook has not been spent yet.
PauseInv ==
  /\ turnsWhilePaused \in {0, 1}
  /\ ~paused => turnsWhilePaused = 0
  /\ waiting \/ woken => pc = "hidden"
  /\ ~(waiting /\ woken)
  /\ paused /\ woken /\ ~stopped => turnsWhilePaused = 0

\* How a step of the loop treats the pause: it passes the top of the loop
\* while not paused or never reaches it, it parks, or it takes its wake.
Passes ==
  /\ pc # "hidden"
  /\ pc' # "hidden"
  /\ UNCHANGED pauseVars
  /\ turnsWhilePaused' = turnsWhilePaused

Parks ==
  /\ pc # "hidden"
  /\ pc' = "hidden"
  /\ paused
  /\ ~stopped
  /\ Wait
  /\ turnsWhilePaused' = turnsWhilePaused

Wakes ==
  /\ pc' # "hidden"
  /\ TakeWake
  /\ \/ turnsWhilePaused' = turnsWhilePaused
     \/ ~stopped /\ turnsWhilePaused' = turnsWhilePaused + (IF paused THEN 1 ELSE 0)

LEMMA LoopPauses ==
  ASSUME Loop, turnsWhilePaused \in {0, 1}
  PROVE  stopped' = stopped /\ (Passes \/ Parks \/ Wakes)
<1> DEFINE OK == Passes \/ Parks \/ Wakes
<1>1. ASSUME NEW t, NEW ms, NEW full, NEW cut, TopOfLoop(t, ms, full, cut),
             pc # "hidden"
      PROVE  OK
  <2>1. ASSUME NEW why, Return(why, ms), UNCHANGED pauseVars
        PROVE  Passes
    BY <1>1, <2>1 DEF Return, Settle, Passes
  <2>2. ASSUME Advance(t, ms, full), UNCHANGED pauseVars, ~IsPaused
        PROVE  Passes
    BY <1>1, <2>2 DEF Advance, Passes, IsPaused
  <2>3. ASSUME Park(t, ms, cut), IsPaused, ~stopped
        PROVE  Parks
    BY <1>1, <2>3 DEF Park, Parks, IsPaused
  <2>4. QED
    BY <1>1, <2>1, <2>2, <2>3 DEF TopOfLoop
<1>2. ASSUME NEW how \in Terminal, NEW why, NEW ms, Settle(how, why, ms), UNCHANGED pauseVars,
             pc # "hidden"
      PROVE  OK
  BY <1>2 DEF Settle, Passes, Terminal
<1>3. ASSUME UNCHANGED pauseVars, pc # "hidden", pc' # "hidden",
             turnsWhilePaused' = turnsWhilePaused
      PROVE  OK
  BY <1>3 DEF Passes
<1> HIDE DEF OK
<1>4. ASSUME NEW kind, AfterError(kind), pc # "hidden"
      PROVE  OK
  BY <1>1, <1>2, <1>4 DEF AfterError, Return, Terminal
<1>5. CASE Start
  BY <1>5, <1>1 DEF Start, OK
<1>6. CASE Resume
  <2>1. CASE Return("stopped", messages)
    BY <1>6, <2>1 DEF Resume, Return, Settle, Wakes
  <2>2. CASE ~stopped /\ Advance(turn, messages, crowded)
    BY <1>6, <2>2 DEF Resume, Advance, Wakes
  <2>3. QED
    BY <1>6, <2>1, <2>2 DEF Resume
<1>7. ASSUME NEW folded, CompactionEnds(folded)
      PROVE  stopped' = stopped /\ OK
  BY <1>7, <1>3 DEF CompactionEnds
<1>8. ASSUME NEW kind, ModelFails(kind)
      PROVE  stopped' = stopped /\ OK
  BY <1>8, <1>3, <1>4 DEF ModelFails
<1>9. ASSUME NEW folded, RecoveryEnds(folded)
      PROVE  stopped' = stopped /\ OK
  BY <1>9, <1>3, <1>4 DEF RecoveryEnds
<1>10. ASSUME NEW S, NEW full, NEW over, RespondTruncated(S, full, over)
       PROVE  stopped' = stopped /\ OK
  BY <1>10, <1>2, <1>1 DEF RespondTruncated, Return, Terminal, Account
<1>11. ASSUME NEW stall, NEW full, NEW over, RespondText(stall, full, over)
       PROVE  stopped' = stopped /\ OK
  BY <1>11, <1>2, <1>1 DEF RespondText, Return, Terminal, Account
<1>12. ASSUME NEW S, NEW full, NEW over, RespondCalls(S, full, over)
       PROVE  stopped' = stopped /\ OK
  BY <1>12, <1>3 DEF RespondCalls, Account
<1>13. ASSUME NEW c, ExecuteTool(c)
       PROVE  stopped' = stopped /\ OK
  BY <1>13, <1>3, <1>2, <1>1 DEF ExecuteTool, Return, Terminal
<1>14. CASE Services
  BY <1>14, <1>7, <1>8, <1>9, <1>10, <1>11, <1>12, <1>13 DEF Services, OK
<1>15. QED
  BY <1>5, <1>6, <1>14 DEF Loop, Start, Resume

LEMMA PauseStep ==
  ASSUME PauseTypeOK, PauseInv, [Next]_vars
  PROVE  PauseInv'
<1> USE DEF PauseInv, PauseTypeOK
<1>1. CASE UNCHANGED vars
  BY <1>1 DEF vars
<1>2. CASE Loop
  <2>1. CASE Passes
    BY <1>2, <2>1, LoopPauses DEF Passes, pauseVars
  <2>2. CASE Parks
    BY <1>2, <2>2, LoopPauses DEF Parks, Wait
  <2>3. CASE Wakes
    BY <1>2, <2>3, LoopPauses DEF Wakes, TakeWake
  <2>4. QED
    BY <1>2, <2>1, <2>2, <2>3, LoopPauses
<1>3. CASE Environment
  <2>1. pc' = pc
    BY <1>3 DEF Environment, UserSteers, UserCancels, UserStops, HostHides,
                HostReveals, runVars
  <2>2. ASSUME UNCHANGED pauseVars, UNCHANGED <<stopped, turnsWhilePaused>>
        PROVE  PauseInv'
    BY <2>1, <2>2 DEF pauseVars
  <2>3. CASE UserStops
    BY <2>1, <2>3 DEF UserStops, WakeOnStop
  <2>4. CASE HostHides
    BY <2>1, <2>4 DEF HostHides, Hide
  <2>5. CASE HostReveals
    BY <2>1, <2>5 DEF HostReveals, Reveal
  <2>6. QED
    BY <1>3, <2>2, <2>3, <2>4, <2>5 DEF Environment, UserSteers, UserCancels
<1>4. QED
  BY <1>1, <1>2, <1>3 DEF Next

-----------------------------------------------------------------------------
(* The theorems.                                                           *)

LEMMA Invariance == Spec => []IInv
BY InitIInv, StepIInv, PTL DEF Spec

\* The state of the run, of its queue and of its pause keep their types: in
\* particular the nudge and truncation counters stay within their limits,
\* whatever the model answers.
THEOREM TypeCorrect == Spec => []TypeOK
<1>1. IInv => TypeOK
  BY DEF IInv, Shared, TypeOK, LoopTypeOK, CoreOK, CallerOK
<1>2. QED
  BY <1>1, Invariance, PTL

\* Every request, and the transcript the run ends with, pairs each tool_use
\* with its tool_result, for every seed transcript that is paired itself.
THEOREM PairingCorrect == Spec => []ToolPairing
<1>1. IInv => ToolPairing
  BY DEF IInv, Shared, TranscriptOK, ToolPairing
<1>2. QED
  BY <1>1, Invariance, PTL

\* So does every summary request, and the tail kept starts with an assistant
\* message.
THEOREM SummaryRequestCorrect == Spec => []SummaryRequestPaired
<1>1. IInv => SummaryRequestPaired
  BY CompactPaired, TailStartIsAssistant
     DEF IInv, Shared, CoreOK, TranscriptOK, SummaryRequestPaired
<1>2. QED
  BY <1>1, Invariance, PTL
\* The interrupt signal is fired exactly while an interrupt-mode correction
\* waits in the queue, through every drain, cancellation and re-arming.
THEOREM InterruptSignalCorrect == Spec => []InterruptIffQueued
<1>1. Init => InterruptIffQueued
  BY DEF Init, SteerInit, InterruptIffQueued, HasInterrupt
<1>2. IInv /\ InterruptIffQueued /\ [Next]_vars => InterruptIffQueued'
  BY InterruptStep DEF IInv, Shared
<1>3. QED
  BY <1>1, <1>2, Invariance, PTL DEF Spec

\* Every correction the user typed and did not take back is applied once and
\* in the order typed, and none waits when a run ends because the model is done,
\* however typing and cancelling interleave with the loop (enqueue, cancel,
\* drain, and the pending check of the final answer).
THEOREM SteersCorrect == Spec => SteersHeard
<1>1. Init => HeardInv
  <2> SUFFICES ASSUME Init PROVE HeardInv
    OBVIOUS
  <2>1. queue = <<>> /\ delivered = <<>> /\ issued = <<>> /\ cancelled = {}
    BY DEF Init, SteerInit
  <2>2. Heard \in Seq(Steers) /\ Len(Heard) = 0
    <3>1. delivered \in Seq(Steers) /\ queue \in Seq(SteerMessages) /\ Len(delivered) = 0 /\ Len(queue) = 0
      BY <2>1
    <3>2. Heard \in Seq(Steers) /\ Len(Heard) = Len(delivered) + Len(queue)
      BY <3>1, HeardIs DEF Heard
    <3> QED
      BY <3>1, <3>2
  <2>3. Len(issued) = 0 /\ 1..0 = {}
    BY <2>1
  <2>4. InOrder(Heard, issued, cancelled)
    BY <2>2, <2>3 DEF InOrder
  <2>5. TypedOnce
    BY <2>1, <2>3 DEF TypedOnce
  <2> QED
    BY <2>4, <2>5, SteersInOrderIs DEF HeardInv
<1>2. IInv /\ HeardInv /\ [Next]_vars => HeardInv'
  BY HeardStep DEF IInv, Shared
<1>3. HeardInv => SteersInOrder
  BY DEF HeardInv
<1>4. [Next]_vars => [(pc' = "returned" /\ outcome' = "finished" /\ pc # "returned") => queue' = <<>>]_vars
  BY FinishedEmpty
<1>5. QED
  BY <1>1, <1>2, <1>3, <1>4, Invariance, PTL DEF Spec, SteersHeard

\* A run begins at most one turn while its region stays hidden, however hides,
\* reveals and stops interleave with the wake of its waiter.
THEOREM PauseCorrect == Spec => []AtMostOneTurnWhilePaused
<1>1. Init => PauseInv
  BY DEF Init, PauseInit, LoopInit, PauseInv
<1>2. IInv /\ PauseInv /\ [Next]_vars => PauseInv'
  BY PauseStep DEF IInv, Shared
<1>3. PauseInv => AtMostOneTurnWhilePaused
  BY DEF PauseInv, AtMostOneTurnWhilePaused
<1>4. QED
  BY <1>1, <1>2, <1>3, Invariance, PTL DEF Spec
\* Compaction folds a prefix and keeps the rest: no other step of the two
\* waits for a summary touches the transcript and sends the turn.
THEOREM CompactionCorrect == Spec => CompactionKeepsNewest
<1> DEFINE Folds == \/ pc = "compacting" /\ messages' # messages
                    \/ pc = "recovering" /\ pc' = "model" /\ retried'
           Keeps == /\ messages'[1] = Note("summary")
                    /\ Len(messages') > 1
                    /\ Len(messages') <= Len(messages)
                    /\ \A k \in 0..Len(messages') - 2 :
                         messages'[Len(messages') - k] = messages[Len(messages) - k]
<1>1. ASSUME IInv, [Next]_vars, Folds
      PROVE  Keeps
  <2>1. CASE \E folded \in BOOLEAN : CompactionEnds(folded)
    BY <1>1, <2>1, CompactKeepsTail DEF CompactionEnds, IInv, Shared, CoreOK, TranscriptOK
  <2>2. CASE \E folded \in BOOLEAN : RecoveryEnds(folded)
    <3>1. PICK folded \in BOOLEAN : RecoveryEnds(folded)
      BY <2>2
    <3>2. ~folded => ~(pc' = "model" /\ retried')
      BY <3>1 DEF RecoveryEnds, AfterError, TopOfLoop, Return, Settle, Park, Advance
    <3>3. folded /\ pc = "recovering" /\ messages' = Compact(messages)
      BY <1>1, <3>1, <3>2 DEF RecoveryEnds
    <3>4. QED
      BY <1>1, <3>3, CompactKeepsTail DEF IInv, Shared, CoreOK, TranscriptOK
  <2>3. CASE UNCHANGED <<pc, messages>>
    BY <1>1, <2>3
  <2>4. CASE pc \notin {"compacting", "recovering"}
    BY <1>1, <2>4
  <2>5. QED
    <3>1. CASE UNCHANGED vars
      BY <2>3, <3>1 DEF vars, runVars
    <3>2. CASE Environment
      BY <2>3, <3>2 DEF Environment, UserCancels, UserSteers, UserStops, HostHides, HostReveals, runVars
    <3>3. CASE Loop
      BY <2>1, <2>2, <2>4, <3>3
         DEF Loop, Start, Resume, Services, ModelFails, RespondTruncated, RespondCalls, RespondText,
             Account, ExecuteTool
    <3>4. QED
      BY <1>1, <3>1, <3>2, <3>3 DEF Next
<1>2. QED
  BY <1>1, Invariance, PTL DEF Spec, CompactionKeepsNewest
=============================================================================
