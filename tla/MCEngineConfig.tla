--------------------------- MODULE MCEngineConfig ---------------------------
(* Small instances of EngineConfig for TLC. *)
EXTENDS EngineConfig

CONSTANTS h1, h2, h3, u1, u2, q1, q2, g1, g2

=============================================================================
