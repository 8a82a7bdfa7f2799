------------------------------ MODULE MCSingleton ------------------------------
(* Two threads ask for the singletons.  They are interchangeable for the     *)
(* invariants, but the run also checks liveness: no symmetry.                *)
EXTENDS Singleton
=============================================================================
