----------------------------- MODULE TaskInput -----------------------------
(***************************************************************************)
(* The callee's side of a task (tasks.ts): the input the host invoked this *)
(* app with, delivered by itself at mount and after each compile and in    *)
(* answer to a poll, and the two ways the callee ends the task.            *)
(***************************************************************************)
EXTENDS HostBus

CONSTANTS
    Inputs,         \* task and params, as the host sends them
    Unwritable,     \* those whose params JSON cannot write
    Image,          \* of the others: the task with the JSON of its params
    NoInput,        \* null: not a callee, or not told yet
    MaxDeliveries   \* bound: objects the app is handed

ASSUME InputAssumption ==
    NoInput \notin Inputs /\ Unwritable \subseteq Inputs /\ DOMAIN Image = Inputs \ Unwritable

VARIABLES
    hostInput,       \* what the host invoked the app with
    latestInput,     \* the object the app holds: [input, object]
    inputListenerRegistered, inputPolled, inputPollFailureReported,
    warnings,        \* how often the failed poll was reported
    inputPhase,      \* of the component that calls useTaskInput
    hookInput,       \* the object that component holds
    ended            \* what the host and the callee know of the end of the task

taskVars == <<hostInput, latestInput, inputListenerRegistered, inputPolled,
              inputPollFailureReported, warnings, inputPhase, hookInput, ended>>

Nothing == [input |-> NoInput, object |-> 0]

\* Module evaluation: ensureInputListener runs once, with the transport there is.  `ended`
\* says what the host was told and whether the callee was told that it could not be.
TaskInit ==
    /\ hostInput \in Inputs \union {NoInput}
    /\ latestInput = Nothing
    /\ inputListenerRegistered = HasTransport
    /\ inputPolled = CanSend
    /\ polls = IF CanSend THEN {"request-task-input"} ELSE {}
    /\ inputPollFailureReported = (transport = "deaf")
    /\ warnings = IF transport = "deaf" THEN 1 ELSE 0
    /\ inputPhase = "out"
    /\ hookInput = Nothing
    /\ ended = "running"

----------------------------------------------------------------------------
(* Reading *)

\* Mutant of EnsureInputListener: one latch for the listener and the poll.
EnsureWithOneLatch ==
    /\ inputListenerRegistered' = (inputListenerRegistered \/ HasTransport)
    /\ inputPolled' = (inputPolled \/ HasTransport)
    /\ polls' = IF ~inputListenerRegistered /\ CanSend
                THEN polls \union {"request-task-input"} ELSE polls
    /\ UNCHANGED <<inputPollFailureReported, warnings>>

\* ensureInputListener(): listen if there is a transport; then poll until a send returns,
\* reporting the first failure only.
EnsureInputListener ==
    /\ inputListenerRegistered' = (inputListenerRegistered \/ HasTransport)
    /\ IF ~HasTransport \/ inputPolled
       THEN UNCHANGED <<inputPolled, polls, inputPollFailureReported, warnings>>
       ELSE IF CanSend
       THEN /\ inputPolled' = TRUE
            /\ polls' = polls \union {"request-task-input"}
            /\ UNCHANGED <<inputPollFailureReported, warnings>>
       ELSE /\ inputPollFailureReported' = TRUE
            /\ warnings' = IF inputPollFailureReported THEN warnings ELSE warnings + 1
            /\ UNCHANGED <<inputPolled, polls>>

\* getTaskInput()
GetTaskInput ==
    /\ EnsureInputListener
    /\ UNCHANGED <<hostInput, latestInput, inputPhase, hookInput, ended, transport, toApp>>

\* useTaskInput, first render: useState(getTaskInput).
PaintInput ==
    /\ inputPhase = "out"
    /\ EnsureInputListener
    /\ inputPhase' = "painted"
    /\ hookInput' = latestInput
    /\ UNCHANGED <<hostInput, latestInput, ended, transport, toApp>>

\* Its effect: listen, and take what arrived between render and effect.
InputEffect ==
    /\ inputPhase = "painted"
    /\ inputPhase' = "subscribed"
    /\ hookInput' = IF latestInput # Nothing THEN latestInput ELSE hookInput
    /\ UNCHANGED <<hostInput, latestInput, inputListenerRegistered, inputPolled,
                   inputPollFailureReported, warnings, ended, busVars>>

UnmountInput ==
    /\ inputPhase # "out"
    /\ inputPhase' = "out"
    /\ UNCHANGED <<hostInput, latestInput, inputListenerRegistered, inputPolled,
                   inputPollFailureReported, warnings, hookInput, ended, busVars>>

----------------------------------------------------------------------------
(* A delivery *)

\* Mutant of SameTaskInput: every delivery counts as a change.
SameNever(a, b) == FALSE

\* sameTaskInput: by the task and the JSON of the params.  What JSON cannot write is a change;
\* inputs that differ only in what JSON loses (a Map, a Blob) have one image and are the same.
SameTaskInput(a, b) == {a, b} \intersect Unwritable = {} /\ Image[a] = Image[b]

InputArrives ==
    /\ Arriving("task-input")
    /\ toApp' = Tail(toApp)
    /\ LET next == Head(toApp).body
           fresh == [input |-> next, object |-> latestInput.object + 1]
           repeat == latestInput # Nothing /\ SameTaskInput(latestInput.input, next)
       IN IF ~inputListenerRegistered \/ repeat
          THEN UNCHANGED <<latestInput, hookInput>>
          ELSE /\ latestInput' = fresh
               /\ hookInput' = IF inputPhase = "subscribed" THEN fresh ELSE hookInput
    /\ UNCHANGED <<hostInput, inputListenerRegistered, inputPolled, inputPollFailureReported,
                   warnings, inputPhase, ended, transport, polls>>

----------------------------------------------------------------------------
(* The end of the task *)

\* completeTask(result), cancelTask(): a no-op without a transport; with one, a send that
\* throws (the transport, or a result that cannot be cloned) throws in the caller.
EndTask(outcome, cloneable) ==
    /\ ended \in {"running", "threw"}
    /\ HasTransport
    /\ ended' = IF CanSend /\ cloneable THEN outcome ELSE "threw"
    /\ UNCHANGED <<hostInput, latestInput, inputListenerRegistered, inputPolled,
                   inputPollFailureReported, warnings, inputPhase, hookInput, busVars>>

----------------------------------------------------------------------------
(* The host: it sends the input at mount and after each compile, and answers a poll *)

HostDelivers ==
    /\ hostInput # NoInput
    /\ latestInput.object < MaxDeliveries
    /\ HostSends("task-input", hostInput)
    /\ UNCHANGED <<taskVars, transport, polls>>

\* A frame that is no callee is not answered.
HostAnswersInputPoll ==
    /\ "request-task-input" \in polls
    /\ polls' = polls \ {"request-task-input"}
    /\ IF hostInput = NoInput THEN toApp' = toApp ELSE HostSends("task-input", hostInput)
    /\ UNCHANGED <<taskVars, transport>>

\* The host invokes the same frame with another input and says so.
HostInvokesAgain(i) ==
    /\ i # hostInput
    /\ latestInput.object < MaxDeliveries
    /\ HostSends("task-input", i)
    /\ hostInput' = i
    /\ UNCHANGED <<latestInput, inputListenerRegistered, inputPolled, inputPollFailureReported,
                   warnings, inputPhase, hookInput, ended, transport, polls>>

TaskNext ==
    \/ GetTaskInput
    \/ PaintInput
    \/ InputEffect
    \/ UnmountInput
    \/ InputArrives
    \/ \E cloneable \in BOOLEAN : EndTask("completed", cloneable)
    \/ EndTask("cancelled", TRUE)
    \/ HostDelivers
    \/ HostAnswersInputPoll
    \/ \E i \in Inputs : HostInvokesAgain(i)

Objects == [input : Inputs \union {NoInput}, object : Nat]

TaskTypeOK ==
    /\ hostInput \in Inputs \union {NoInput}
    /\ {latestInput, hookInput} \subseteq Objects
    /\ {inputListenerRegistered, inputPolled, inputPollFailureReported} \subseteq BOOLEAN
    /\ warnings \in 0..1
    /\ inputPhase \in {"out", "painted", "subscribed"}
    /\ ended \in {"running", "threw", "completed", "cancelled"}

============================================================================
