--------------------------- MODULE MCConfigStore ---------------------------
(* ConfigStore with small pools for TLC. *)
EXTENDS ConfigStore

CONSTANTS a    \* a user content

MCVals   == {a}
MCSeeded == {Main}
=============================================================================
