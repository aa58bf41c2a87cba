------------------------------ MODULE HostBus ------------------------------
(***************************************************************************)
(* The way from an app to its host and back: hostTransport.ts finds the    *)
(* host's bus, sends through it and listens on it.  The bus may not be     *)
(* there when the app is evaluated; it comes in two steps, first an object *)
(* that takes listeners, then one that also takes messages.                *)
(***************************************************************************)
EXTENDS Naturals, Sequences, FiniteSets

CONSTANTS MaxToApp   \* bound: messages on the way to the app at a time

ASSUME MaxToAppAssumption == MaxToApp \in Nat \ {0}

VARIABLES
    transport,   \* what transport() finds: "absent" (it throws), "deaf", "up"
    toApp,       \* messages of the host, in order, each [type, body]
    polls        \* request messages of the app that the host has not answered

busVars == <<transport, toApp, polls>>

BusInit ==
    /\ transport \in {"absent", "deaf", "up"}
    /\ toApp = <<>>

\* transport() throws, so does every call that starts with it.
HasTransport == transport # "absent"

\* sendMessage returns; otherwise it throws.
CanSend == transport = "up"

TransportArrives ==
    /\ transport = "absent"
    /\ transport' = "deaf"
    /\ UNCHANGED <<toApp, polls>>

TransportReady ==
    /\ transport = "deaf"
    /\ transport' = "up"
    /\ UNCHANGED <<toApp, polls>>

\* The host posts a message; the app's side queues it.
HostSends(type, body) ==
    /\ Len(toApp) < MaxToApp
    /\ toApp' = Append(toApp, [type |-> type, body |-> body])

\* The next message reaches the handlers registered for its type.
Arriving(type) == /\ toApp # <<>>
                  /\ Head(toApp).type = type

============================================================================
