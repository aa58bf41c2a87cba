---------------------------- MODULE BootSignals ----------------------------
(***************************************************************************)
(* What an app and its host tell each other once while the app boots: the  *)
(* ready report (ready.ts), the versions of the handshake (runtime.ts) and *)
(* the region of the frame, read off the discovery global (region.ts).     *)
(***************************************************************************)
EXTENDS HostBus

CONSTANTS
    ReadyListeners,     \* callers of onReady
    MaxAnnouncements    \* bound: calls of announceHandshake

VARIABLES
    reported,        \* the app called reportReady
    readyReports,    \* ir-report-ready messages the host got
    toldReady,       \* per listener of onReady, what it was last told
    announcements,   \* calls of announceHandshake, each a listener for the host's request
    heard,           \* handshakes the host got since it last asked
    asked,           \* the host asked for one
    regionPhase,     \* of the component that calls useRegion
    awaitsReady,     \* its effect waits on the `ready` promise
    shownRegion      \* whether it shows the region, or null

bootVars == <<reported, readyReports, toldReady, announcements, heard, asked,
              regionPhase, awaitsReady, shownRegion>>

NotListening == "not listening"

BootInit ==
    /\ reported = FALSE
    /\ readyReports = 0
    /\ toldReady = [l \in ReadyListeners |-> NotListening]
    /\ announcements = 0
    /\ heard = 0
    /\ asked = FALSE
    /\ regionPhase = "out"
    /\ awaitsReady = FALSE
    /\ shownRegion = FALSE

readyVars == <<reported, readyReports, toldReady>>
handshakeVars == <<announcements, heard, asked>>
regionVars == <<regionPhase, awaitsReady, shownRegion>>

----------------------------------------------------------------------------
(* ready.ts *)

Word(isReported) == IF isReported THEN "reported" ELSE "not yet"

\* reportReady(): the first call counts, whether or not the message can be sent; then every
\* listener is told.
ReportReady ==
    /\ ~reported
    /\ reported' = TRUE
    /\ readyReports' = IF CanSend THEN readyReports + 1 ELSE readyReports
    /\ toldReady' = [l \in ReadyListeners |->
                       IF toldReady[l] = NotListening THEN NotListening ELSE Word(TRUE)]
    /\ UNCHANGED <<handshakeVars, regionVars, busVars>>

\* Mutant of OnReady: the listener waits for the report.
OnReadyLater(l) ==
    /\ toldReady[l] = NotListening
    /\ toldReady' = [toldReady EXCEPT ![l] = Word(FALSE)]
    /\ UNCHANGED <<reported, readyReports, handshakeVars, regionVars, busVars>>

\* onReady(listener): told the present state at once.
OnReady(l) ==
    /\ toldReady[l] = NotListening
    /\ toldReady' = [toldReady EXCEPT ![l] = Word(reported)]
    /\ UNCHANGED <<reported, readyReports, handshakeVars, regionVars, busVars>>

OffReady(l) ==
    /\ toldReady[l] # NotListening
    /\ toldReady' = [toldReady EXCEPT ![l] = NotListening]
    /\ UNCHANGED <<reported, readyReports, handshakeVars, regionVars, busVars>>

----------------------------------------------------------------------------
(* runtime.ts *)

\* announceHandshake(): send at once, if it can be, and answer the host's request from now
\* on.  Without a transport the registration throws and nothing is kept.
AnnounceHandshake ==
    /\ announcements < MaxAnnouncements
    /\ HasTransport
    /\ announcements' = announcements + 1
    /\ heard' = IF CanSend THEN heard + 1 ELSE heard
    /\ UNCHANGED <<asked, readyVars, regionVars, busVars>>

\* The host asks once, over the bus it has ready; it hears a version for every listener.
HostAsksHandshake ==
    /\ ~asked
    /\ CanSend
    /\ asked' = TRUE
    /\ HostSends("request-handshake", 0)
    /\ UNCHANGED <<announcements, heard, readyVars, regionVars, transport, polls>>

HandshakeAsked ==
    /\ Arriving("request-handshake")
    /\ toApp' = Tail(toApp)
    /\ heard' = IF CanSend THEN heard + announcements ELSE heard
    /\ UNCHANGED <<announcements, asked, readyVars, regionVars, transport, polls>>

----------------------------------------------------------------------------
(* region.ts *)

\* getRegion(): null until the host has reported it on the discovery global, which the model
\* lets happen with the arrival of the ports that `ready` stands for.
Region == transport = "up"

PaintRegion ==
    /\ regionPhase = "out"
    /\ regionPhase' = "painted"
    /\ shownRegion' = Region
    /\ awaitsReady' = FALSE
    /\ UNCHANGED <<readyVars, handshakeVars, busVars>>

\* The effect: with a null region, wait on the global's `ready` - if there is a global.
RegionEffect ==
    /\ regionPhase = "painted"
    /\ regionPhase' = "mounted"
    /\ awaitsReady' = (~shownRegion /\ HasTransport)
    /\ UNCHANGED <<shownRegion, readyVars, handshakeVars, busVars>>

\* The promise has resolved: setRegion(getRegion()), unless the effect was cleaned up.
RegionReady ==
    /\ awaitsReady
    /\ transport = "up"
    /\ awaitsReady' = FALSE
    /\ shownRegion' = Region
    /\ UNCHANGED <<regionPhase, readyVars, handshakeVars, busVars>>

UnmountRegion ==
    /\ regionPhase # "out"
    /\ regionPhase' = "out"
    /\ awaitsReady' = FALSE
    /\ UNCHANGED <<shownRegion, readyVars, handshakeVars, busVars>>

BootNext ==
    \/ ReportReady
    \/ \E l \in ReadyListeners : OnReady(l) \/ OffReady(l)
    \/ AnnounceHandshake
    \/ HostAsksHandshake
    \/ HandshakeAsked
    \/ PaintRegion
    \/ RegionEffect
    \/ RegionReady
    \/ UnmountRegion

BootTypeOK ==
    /\ {reported, asked, awaitsReady, shownRegion} \subseteq BOOLEAN
    /\ readyReports \in 0..1
    /\ toldReady \in [ReadyListeners -> {NotListening, "not yet", "reported"}]
    /\ announcements \in 0..MaxAnnouncements
    /\ heard \in 0..(2 * MaxAnnouncements)
    /\ regionPhase \in {"out", "painted", "mounted"}

============================================================================
