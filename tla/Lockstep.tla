------------------------------ MODULE Lockstep ------------------------------
(***************************************************************************)
(* The descriptors from which the wrappers are generated, against the      *)
(* mirror of the host's gate table (codegen-prototype/verify-lockstep.mjs) *)
(* while either repository edits its side of a method.                     *)
(*                                                                         *)
(* A schema is a node for each path of it; a node says the type, the       *)
(* values, the properties (the items of an array), those required and      *)
(* whether others are excluded.                                            *)
(***************************************************************************)
EXTENDS Naturals, Sequences, FiniteSets

CONSTANTS
    Descriptors,   \* what this repository may say of the method
    Mirrors,       \* what the host may say of it
    Keys           \* properties of the objects

\* A path of a schema leads through it.
ASSUME SchemaAssumption == \A d \in Descriptors : \A p \in DOMAIN d.result :
    \A n \in 0..Len(p) : SubSeq(p, 1, n) \in DOMAIN d.result

VARIABLES descriptor, mirror

lockVars == <<descriptor, mirror>>

NoSchema == <<>>

----------------------------------------------------------------------------
(* resultViolations *)

Constrains(node) == node.values # {} \/ node.props # {} \/ node.required # {}
TypesDiffer(sdk, host) == "" \notin {sdk.type, host.type} /\ sdk.type # host.type

\* What the walk looks at: not a reference of the host's, nothing that promises nothing, and
\* not a reply the wrapper ignores.
Comparable(sdk, host) == ~host.ref /\ Constrains(host) /\ sdk.type # "void"

\* The paths it reaches, from the root down the properties, or the items, both have.
Reached(sdk, host) ==
    {p \in DOMAIN sdk \cap DOMAIN host :
        \A n \in 0..(Len(p) - 1) : LET q == SubSeq(p, 1, n)
                                   IN  q \in DOMAIN host /\ Comparable(sdk[q], host[q]) /\ ~TypesDiffer(sdk[q], host[q])}

\* The properties the wrapper relies on and the host need not send; an open object may send
\* any that it does not declare.
Unsent(sdk, host) == {k \in sdk.required : IF k \in host.props THEN k \notin host.required ELSE host.closed}

ResultViolations(sdk, host) ==
    {p \in Reached(sdk, host) :
        /\ Comparable(sdk[p], host[p])
        /\ \/ TypesDiffer(sdk[p], host[p])
           \/ {} \notin {sdk[p].values, host[p].values} /\ sdk[p].values \ host[p].values # {}
           \/ Unsent(sdk[p], host[p]) # {}}

----------------------------------------------------------------------------
(* lockstepViolations, for one method *)

\* What every call carries and what it may carry: a constant the wrapper injects is always there.
AlwaysSent == descriptor.required \cup descriptor.constants
EverSent == descriptor.params \cup descriptor.constants

Agrees ==
    /\ mirror.declared
    /\ mirror.capability = descriptor.capability
    /\ mirror.stream = (descriptor.kind = "stream")
    /\ NoSchema \notin {mirror.result, descriptor.result} => ResultViolations(descriptor.result, mirror.result) = {}
    /\ mirror.required \subseteq AlwaysSent
    /\ mirror.params \subseteq EverSent
    /\ descriptor.errors \subseteq mirror.errorCodes

EditSdk(d) ==
    /\ d # descriptor
    /\ descriptor' = d
    /\ UNCHANGED mirror

EditHost(m) ==
    /\ m # mirror
    /\ mirror' = m
    /\ UNCHANGED descriptor

LockInit == descriptor \in Descriptors /\ mirror \in Mirrors
LockNext == (\E d \in Descriptors : EditSdk(d)) \/ (\E m \in Mirrors : EditHost(m))

----------------------------------------------------------------------------
(***************************************************************************)
(* A reply, as the set of the paths that are there, and the replies the    *)
(* host may send: every node has the children it must have and no others,  *)
(* unless it leaves them open.                                             *)
(***************************************************************************)
Children(reply, p) == {k \in Keys : Append(p, k) \in reply}
Replies(host) ==
    {reply \in SUBSET ({<<>>} \cup {<<k>> : k \in Keys} \cup {<<k, l>> : k \in Keys, l \in Keys}) :
        /\ <<>> \in reply
        /\ \A p \in reply : p # <<>> => SubSeq(p, 1, Len(p) - 1) \in reply
        /\ \A p \in reply \cap DOMAIN host :
              host[p].required \subseteq Children(reply, p) /\ (host[p].closed => Children(reply, p) \subseteq host[p].props)}

\* The host says of the property k of p whether it is sent.
SpeaksOf(host, p, k) ==
    \A n \in 0..Len(p) : LET q == SubSeq(p, 1, n)
                         IN  q \in DOMAIN host /\ ~host[q].ref /\ Constrains(host[q]) /\ (n = Len(p) => k \in host[q].props \/ host[q].closed)

\* The wrapper takes no notice of what is there.
Ignored(sdk, p) == \E n \in 0..Len(p) : sdk[SubSeq(p, 1, n)].type = "void"

\* When the two sides are in lockstep, every call the wrapper can make carries what the host
\* asks for, and no reply the host may send lacks a property the wrapper relies on, as far as
\* the host speaks of it (verify-lockstep.mjs:13, the results leg at line 33).
LockstepFits == Agrees =>
    /\ \A sent \in SUBSET EverSent : AlwaysSent \subseteq sent => mirror.required \subseteq sent
    /\ NoSchema \notin {mirror.result, descriptor.result} =>
          \A reply \in Replies(mirror.result) : \A p \in reply \cap DOMAIN descriptor.result :
              ~Ignored(descriptor.result, p) =>
                  \A k \in descriptor.result[p].required : SpeaksOf(mirror.result, p, k) => k \in Children(reply, p)
=============================================================================
