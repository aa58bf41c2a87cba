------------------------------- MODULE Launch -------------------------------
(***************************************************************************)
(* Launches of standing apps (launch.ts): a request that creates one, the  *)
(* handle its answer becomes, and the one message that says the launch has *)
(* ended, which may arrive before the answer and is then kept for the      *)
(* handle.  The host may answer late, refuse, or end a launch while it is  *)
(* being bound; a request may give up waiting.                             *)
(***************************************************************************)
EXTENDS HostBus, SequencesExt

CONSTANTS
    LaunchCalls,      \* calls of launch(), each also the id of what it creates
    MaxPendingEnded   \* MAX_PENDING_ENDED

ASSUME LaunchAssumption == MaxPendingEnded \in Nat \ {0}

EndStatuses == {"dismissed", "failed"}

VARIABLES
    launchCall,      \* of each call: "idle", "creating", "handle", "refused", "rejected"
    hostLaunch,      \* the host's side: [state, answered]
    endedListener,   \* endedListenerRegistered
    pendingEnded,    \* ends without a handle, oldest first: [launch, status]
    handleStatus,    \* the status of each handle
    dismissCb,       \* its callback: "none", "waits", "due", "called", "removed"
    endsArrived,     \* history: the launches whose end reached the app
    evicted          \* history: those whose end was given up for a newer one

launchVars == <<launchCall, hostLaunch, endedListener, pendingEnded, handleStatus, dismissCb, endsArrived, evicted>>

LaunchInit ==
    /\ launchCall = [c \in LaunchCalls |-> "idle"]
    /\ hostLaunch = [c \in LaunchCalls |-> [state |-> "none", answered |-> FALSE]]
    /\ endedListener = FALSE
    /\ pendingEnded = <<>>
    /\ handleStatus = [c \in LaunchCalls |-> "running"]
    /\ dismissCb = [c \in LaunchCalls |-> "none"]
    /\ endsArrived = {} /\ evicted = {}

CreatesInFlight == {c \in LaunchCalls : launchCall[c] = "creating"}

----------------------------------------------------------------------------
(* The host *)

HostBinds(c) ==
    /\ hostLaunch[c].state = "asked"
    /\ \/ hostLaunch' = [hostLaunch EXCEPT ![c].state = "running"] /\ UNCHANGED toApp
       \/ hostLaunch' = [hostLaunch EXCEPT ![c].state = "refused"] /\ HostSends("created", [launch |-> c, ok |-> FALSE])
    /\ UNCHANGED <<transport, polls, launchCall, endedListener, pendingEnded, handleStatus, dismissCb, endsArrived, evicted>>

HostConfirms(c) ==
    /\ hostLaunch[c].state \in EndStatuses \union {"running"} /\ ~hostLaunch[c].answered
    /\ hostLaunch' = [hostLaunch EXCEPT ![c].answered = TRUE]
    /\ HostSends("created", [launch |-> c, ok |-> TRUE])
    /\ UNCHANGED <<transport, polls, launchCall, endedListener, pendingEnded, handleStatus, dismissCb, endsArrived, evicted>>

\* By itself, by the user, or because the launcher asked (dismiss only sends): one message.
HostEndsLaunch(c, status) ==
    /\ hostLaunch[c].state = "running"
    /\ hostLaunch' = [hostLaunch EXCEPT ![c].state = status]
    /\ HostSends("launch-ended", [launch |-> c, status |-> status])
    /\ UNCHANGED <<transport, polls, launchCall, endedListener, pendingEnded, handleStatus, dismissCb, endsArrived, evicted>>

----------------------------------------------------------------------------
(* The launcher *)

\* launch(): the listener first, then the request, which rejects without a transport.
BeginLaunch(c) ==
    /\ launchCall[c] = "idle"
    /\ endedListener' = (endedListener \/ HasTransport)
    /\ IF CanSend
       THEN /\ launchCall' = [launchCall EXCEPT ![c] = "creating"]
            /\ hostLaunch' = [hostLaunch EXCEPT ![c].state = "asked"]
       ELSE launchCall' = [launchCall EXCEPT ![c] = "rejected"] /\ UNCHANGED hostLaunch
    /\ UNCHANGED <<busVars, pendingEnded, handleStatus, dismissCb, endsArrived, evicted>>

\* The bounded request ends without an answer, and launch() throws.
CreateTimesOut(c) ==
    /\ launchCall[c] = "creating"
    /\ launchCall' = [launchCall EXCEPT ![c] = "rejected"]
    /\ UNCHANGED <<busVars, hostLaunch, endedListener, pendingEnded, handleStatus, dismissCb, endsArrived, evicted>>

\* Mutant of Swept: what is left belongs to nobody.
SweptAlways(pending, inFlight) == <<>>

\* sweep(): once no create is in flight, what is left has no handle to come.
Swept(pending, inFlight) == IF inFlight = {} THEN <<>> ELSE pending

\* The answer to a create that still waits; the constructor of the handle takes its early end.
CreateReturns ==
    /\ Arriving("created")
    /\ toApp' = Tail(toApp)
    /\ LET c == Head(toApp).body.launch
           early == {i \in DOMAIN pendingEnded : pendingEnded[i].launch = c}
           place == CHOOSE i \in early : TRUE
           others == IF early = {} THEN pendingEnded ELSE RemoveAt(pendingEnded, place)
       IN  IF launchCall[c] # "creating" THEN UNCHANGED <<launchCall, pendingEnded, handleStatus>>
           ELSE IF Head(toApp).body.ok
           THEN /\ launchCall' = [launchCall EXCEPT ![c] = "handle"]
                /\ handleStatus' = [handleStatus EXCEPT ![c] = IF early = {} THEN @ ELSE pendingEnded[place].status]
                /\ pendingEnded' = Swept(others, CreatesInFlight \ {c})
           ELSE /\ launchCall' = [launchCall EXCEPT ![c] = "refused"]
                /\ pendingEnded' = Swept(pendingEnded, CreatesInFlight \ {c})
                /\ UNCHANGED handleStatus
    /\ UNCHANGED <<transport, polls, hostLaunch, endedListener, dismissCb, endsArrived, evicted>>

\* launch-ended: to its handle, or kept while a create is in flight, the oldest one given up.
LaunchEnded ==
    /\ Arriving("launch-ended")
    /\ toApp' = Tail(toApp)
    /\ LET c == Head(toApp).body.launch
           status == Head(toApp).body.status
           kept == IF Len(pendingEnded) >= MaxPendingEnded THEN Tail(pendingEnded) ELSE pendingEnded
       IN  /\ endsArrived' = endsArrived \union {c}
           /\ IF launchCall[c] = "handle"
              THEN /\ handleStatus' = [handleStatus EXCEPT ![c] = status]
                   /\ dismissCb' = [dismissCb EXCEPT ![c] = IF @ = "waits" THEN "called" ELSE @]
                   /\ UNCHANGED <<pendingEnded, evicted>>
              ELSE /\ pendingEnded' = IF CreatesInFlight = {} THEN pendingEnded ELSE Append(kept, [launch |-> c, status |-> status])
                   /\ evicted' = IF CreatesInFlight = {} \/ kept = pendingEnded THEN evicted ELSE evicted \union {Head(pendingEnded).launch}
                   /\ UNCHANGED <<handleStatus, dismissCb>>
    /\ UNCHANGED <<transport, polls, launchCall, hostLaunch, endedListener>>

\* handle.onDismiss, the unsubscribe it returns, and the microtask of one that came late.
OnDismiss(c) ==
    /\ launchCall[c] = "handle" /\ dismissCb[c] = "none"
    /\ dismissCb' = [dismissCb EXCEPT ![c] = IF handleStatus[c] = "running" THEN "waits" ELSE "due"]
    /\ UNCHANGED <<busVars, launchCall, hostLaunch, endedListener, pendingEnded, handleStatus, endsArrived, evicted>>

OffDismiss(c) ==
    /\ dismissCb[c] = "waits"
    /\ dismissCb' = [dismissCb EXCEPT ![c] = "removed"]
    /\ UNCHANGED <<busVars, launchCall, hostLaunch, endedListener, pendingEnded, handleStatus, endsArrived, evicted>>

RunDismissed(c) ==
    /\ dismissCb[c] = "due"
    /\ dismissCb' = [dismissCb EXCEPT ![c] = "called"]
    /\ UNCHANGED <<busVars, launchCall, hostLaunch, endedListener, pendingEnded, handleStatus, endsArrived, evicted>>

LaunchNext ==
    \/ CreateReturns \/ LaunchEnded
    \/ \E c \in LaunchCalls :
         \/ HostBinds(c) \/ HostConfirms(c) \/ \E status \in EndStatuses : HostEndsLaunch(c, status)
         \/ BeginLaunch(c) \/ CreateTimesOut(c)
         \/ OnDismiss(c) \/ OffDismiss(c) \/ RunDismissed(c)

----------------------------------------------------------------------------
\* No handle stays `running` after its end arrived, before or after its own answer, whatever
\* other launches returned, failed or ended in between, unless more ends than the buffer
\* holds came without a handle; and a callback waits only on a launch that runs
\* (launch.ts:109).
LaunchEndsTold == \A c \in LaunchCalls : launchCall[c] = "handle" =>
    /\ c \in endsArrived \ evicted => handleStatus[c] = hostLaunch[c].state
    /\ handleStatus[c] # "running" => c \in endsArrived
    /\ dismissCb[c] = "waits" => handleStatus[c] = "running"
    /\ dismissCb[c] \in {"due", "called"} => handleStatus[c] # "running"
=============================================================================
