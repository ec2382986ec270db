------------------------------- MODULE MCRollback ------------------------------
(* Two universes, one of fixtures and one of a pixel matrix, of which only the *)
(* fixtures' goes to the DMX port.                                             *)
EXTENDS DmxOutput
================================================================================
