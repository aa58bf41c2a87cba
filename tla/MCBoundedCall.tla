---------------------------- MODULE MCBoundedCall ---------------------------
(* The instance of BoundedCall that TLC checks: one scheme of each kind,    *)
(* calls that their caller left unbounded, with a signal and a notice or    *)
(* without either.                                                          *)
EXTENDS BoundedCall

MCCalls ==
  { c \in [idle : {2, 3, 5, Infinity}, ceiling : {2, 3, 5, Infinity}, signal : BOOLEAN, onPending : BOOLEAN] :
      c.idle <= c.ceiling /\ (c.ceiling # Infinity => c.signal) /\ (c.ceiling = Infinity => ~c.signal) }
=============================================================================
