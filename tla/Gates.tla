------------------------------- MODULE Gates -------------------------------
(***************************************************************************)
(* The gates a change passes before it is merged: the public surface and   *)
(* the walk that reads it, the wire, the lockstep with the host, and the   *)
(* pins.  They share nothing, so a behaviour follows one of them: `gate`   *)
(* says which.                                                             *)
(***************************************************************************)
EXTENDS ApiGate, SurfaceWalk, WireGate, Lockstep, Pins

CONSTANT Gate   \* of "api", "walk", "wire", "lockstep" and "pins", those to explore

VARIABLE gate

gateVars == <<gate, apiVars, walkVars, wireVars, lockVars, pinVars>>

\* The parts that are not followed rest in one of their initial states.
Init ==
    /\ gate \in Gate
    /\ ApiInit /\ (gate = "api" \/ \A e \in Exports : main.surface[e] = Absent)
    /\ (gate # "walk" => parsed = [f \in Files |-> EmptyFile]) /\ WalkInit
    /\ (gate # "wire" => source = [p \in DOMAIN Places |-> NoCall]) /\ WireInit
    /\ (gate # "lockstep" => descriptor = (CHOOSE d \in Descriptors : TRUE) /\ mirror = (CHOOSE m \in Mirrors : TRUE)) /\ LockInit
    /\ PinsInit /\ (gate # "pins" => pkg.version = (CHOOSE v \in PinVersions : TRUE))

Next ==
    \/ gate = "api" /\ ApiNext /\ UNCHANGED <<gate, walkVars, wireVars, lockVars, pinVars>>
    \/ gate = "walk" /\ WalkNext /\ UNCHANGED <<gate, apiVars, wireVars, lockVars, pinVars>>
    \/ gate = "wire" /\ WireNext /\ UNCHANGED <<gate, apiVars, walkVars, lockVars, pinVars>>
    \/ gate = "lockstep" /\ LockNext /\ UNCHANGED <<gate, apiVars, walkVars, wireVars, pinVars>>
    \/ gate = "pins" /\ PinsNext /\ UNCHANGED <<gate, apiVars, walkVars, wireVars, lockVars>>

Spec == Init /\ [][Next]_gateVars

\* A pass of the wire gate, of the lockstep gate or of the pins means what it says: whichever
\* way the calls, the contract, the two sides of a method, package.json and the lockfile were
\* edited.
PassMeansFit == PassMeansContract /\ LockstepFits /\ PassMeansInstalls
=============================================================================
