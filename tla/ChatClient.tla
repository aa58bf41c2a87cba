------------------------------ MODULE ChatClient ------------------------------
(***************************************************************************)
(* The model client of an agent over the host's chat (agentChatClient.ts): *)
(* what a stream of deltas becomes in a turn, and what the turn becomes    *)
(* when a later request sends it back.  The loop between two turns is      *)
(* AgentLoop; here it appends the turn and answers its calls, or sends a   *)
(* turn that failed again.                                                 *)
(***************************************************************************)
EXTENDS Lists

CONSTANTS
    Deltas,      \* what the host may stream: [type, of]
    MaxDeltas,   \* bound: deltas of a behaviour, but for those of streams that failed
    MaxRequests  \* bound: requests

NoUsage == "none"
NoWords == ""

\* A delta is its type and what it is of, and a report of usage tells of some.
ASSUME ChatAssumption == \A d \in Deltas :
    d = [type |-> d.type, of |-> d.of] /\ (d.type = "usage" => d.of # NoUsage)

VARIABLES
    chatHistory,  \* the transcript: messages [role, content]
    chatRequest,  \* the messages of the last request
    chatReply,        \* what createMessage has gathered: [text, toolUses, reasoning, usage]
    chatStreaming,    \* a stream is being read
    chatStreamed,     \* history: the deltas of this stream
    chatTold,         \* history: those of each turn in the transcript
    chatRequests      \* requests so far

chatVars == <<chatHistory, chatRequest, chatReply, chatStreaming, chatStreamed, chatTold, chatRequests>>

EmptyReply == [text |-> FALSE, toolUses |-> <<>>, reasoning |-> <<>>, usage |-> NoUsage]

\* mapStop
MapStop(stop) == CASE stop = "tool" -> "tool_use" [] stop = "length" -> "max_tokens" [] OTHER -> "end_turn"

\* toChatMessages: a block of the transcript as a part of the wire.
ToPart(block) ==
    CASE block.type = "tool_use" -> [type |-> "tool-use", of |-> block.of]
      [] block.type = "tool_result" -> [type |-> "tool-result", of |-> block.of, error |-> block.error]
      [] block.type = "redacted" -> [type |-> "reasoning-redacted", of |-> block.of]
      [] OTHER -> block   \* text, reasoning with the signature it has
ToChatMessages(messages) ==
    [k \in DOMAIN messages |-> [messages[k] EXCEPT !.content = [j \in DOMAIN @ |-> ToPart(@[j])]]]

ChatInit ==
    /\ chatHistory = <<[role |-> "user", content |-> <<[type |-> "text", of |-> "prompt"]>>]>>
    /\ chatRequest = <<>>
    /\ chatReply = EmptyReply /\ chatStreaming = FALSE /\ chatStreamed = <<>>
    /\ chatTold = <<>> /\ chatRequests = 0

\* createMessage, up to the first delta.
CreateMessage ==
    /\ ~chatStreaming /\ chatRequests < MaxRequests
    /\ chatRequest' = ToChatMessages(chatHistory)
    /\ chatReply' = EmptyReply
    /\ chatStreaming' = TRUE /\ chatStreamed' = <<>>
    /\ chatRequests' = chatRequests + 1
    /\ UNCHANGED <<chatHistory, chatTold>>

\* One delta.  What the model thinks comes in slices, to be shown, and once as a whole.
Gathered(delta) ==
    CASE delta.type = "text-delta" -> [chatReply EXCEPT !.text = @ \/ delta.of # NoWords]
      [] delta.type = "tool-call" -> [chatReply EXCEPT !.toolUses = Append(@, [type |-> "tool_use", of |-> delta.of])]
      [] delta.type = "reasoning" -> [chatReply EXCEPT !.reasoning = Append(@, delta)]
      [] delta.type = "reasoning-redacted" -> [chatReply EXCEPT !.reasoning = Append(@, [type |-> "redacted", of |-> delta.of])]
      [] delta.type = "usage" -> [chatReply EXCEPT !.usage = delta.of]
      [] OTHER -> chatReply

TakeDelta(delta) ==
    /\ chatStreaming /\ Len(FlattenSeq(chatTold)) + Len(chatStreamed) < MaxDeltas
    /\ chatReply' = Gathered(delta)
    /\ chatStreamed' = Append(chatStreamed, delta)
    /\ UNCHANGED <<chatHistory, chatRequest, chatStreaming, chatTold, chatRequests>>

SaidText == IF chatReply.text THEN <<[type |-> "text", of |-> "said"]>> ELSE <<>>

\* Mutant of Content: what the model thought is put after what it asks for.
ContentAsksFirst == SaidText \o chatReply.toolUses \o chatReply.reasoning

\* The content of the turn: what was thought, what was said, what is asked for.
Content == chatReply.reasoning \o SaidText \o chatReply.toolUses

\* The stream returns, the loop appends the turn and the results of its calls, or errors in
\* their place if they were cut off (agentLoop.ts:660, 668, 733).
TakeEnd(stop) ==
    /\ chatStreaming
    /\ chatStreaming' = FALSE
    /\ chatHistory' =
         chatHistory \o <<[role |-> "assistant", content |-> Content]>>
           \o (IF chatReply.toolUses = <<>> THEN <<>>
               ELSE <<[role |-> "user",
                       content |-> [k \in DOMAIN chatReply.toolUses |->
                                      [type |-> "tool_result", of |-> chatReply.toolUses[k].of,
                                       error |-> MapStop(stop) = "max_tokens"]]]>>)
    /\ chatTold' = Append(chatTold, chatStreamed)
    /\ UNCHANGED <<chatRequest, chatReply, chatStreamed, chatRequests>>

\* The stream throws: nothing of the turn is kept, the loop may send it again.
StreamFails ==
    /\ chatStreaming
    /\ chatStreaming' = FALSE
    /\ UNCHANGED <<chatHistory, chatRequest, chatReply, chatStreamed, chatTold, chatRequests>>

ChatNext ==
    \/ CreateMessage
    \/ \E delta \in Deltas : TakeDelta(delta)
    \/ \E stop \in {"end", "length", "tool", "filtered"} : TakeEnd(stop)
    \/ StreamFails

----------------------------------------------------------------------------
Thoughts == {d \in Deltas : d.type \in {"reasoning", "reasoning-redacted"}}
CallsMade == {d \in Deltas : d.type = "tool-call"}
AsUse(delta) == [type |-> "tool-use", of |-> delta.of]
PartsBut(message, type) == Kept(message.content, {part \in ToSet(message.content) : part.type # type})

\* Whatever a host streams, in whatever order, and whichever streams fail: every later request
\* sends the turns back as they were - each thought once, whole and with its signature, and in
\* its place before what is asked for, every call with its answer behind it - and nothing of a
\* turn that failed (agentLoop.ts:47: a loop that drops them is quietly lossy); the usage of a
\* turn is the last one reported in it.
TurnIsSentBack ==
    LET turns == {k \in DOMAIN chatRequest : chatRequest[k].role = "assistant"}
        turnOf(k) == Cardinality({j \in turns : j <= k})
    IN  /\ \A k \in turns :
             LET deltas == chatTold[turnOf(k)]
                 calls == Kept(deltas, CallsMade)
             IN  /\ PartsBut(chatRequest[k], "text") = Kept(deltas, Thoughts) \o [c \in DOMAIN calls |-> AsUse(calls[c])]
                 /\ (\E part \in ToSet(chatRequest[k].content) : part.type = "text")
                      <=> \E d \in ToSet(deltas) : d.type = "text-delta" /\ d.of # NoWords
                 /\ calls # <<>> =>
                      [c \in DOMAIN calls |-> chatRequest[k + 1].content[c].of] = [c \in DOMAIN calls |-> calls[c].of]
        /\ chatStreaming => Cardinality(turns) = Len(chatTold)
        /\ chatReply.usage # NoUsage <=> \E d \in ToSet(chatStreamed) : d.type = "usage"
        /\ \A k \in DOMAIN chatStreamed :
             chatStreamed[k].type = "usage" /\ (\A j \in k + 1..Len(chatStreamed) : chatStreamed[j].type # "usage")
               => chatReply.usage = chatStreamed[k].of
=============================================================================
