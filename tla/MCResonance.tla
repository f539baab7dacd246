----------------------------- MODULE MCResonance -----------------------------
(* A small instance of Resonance: one user, two requests at a time. *)
EXTENDS Resonance

CONSTANTS u1, r1, r2
=============================================================================
