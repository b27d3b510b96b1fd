--------------------------- MODULE MCVisualization ---------------------------
(* The instance of Visualization for TLC, with the bound of MCLedger. *)
EXTENDS MCLedger, Visualization
=============================================================================
