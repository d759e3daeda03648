--------------------------- MODULE MCPropertyModel ---------------------------
(***************************************************************************)
(* Constants for TLC's runs of the property tests' model.                  *)
(***************************************************************************)
EXTENDS PropertyModel

CONSTANTS creator, worker_a, worker_b, arbitrator, outsider,   \* enum Party
          nobody, text
=============================================================================
