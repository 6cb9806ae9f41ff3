--------------------------- MODULE MCActionBuffer ---------------------------
(* Instances of ActionBuffer for TLC: three slots fill up, wrap round and  *)
(* are reused while the main loop is between any two of its steps; two     *)
(* event numbers and two arguments tell the events apart.  No bound is     *)
(* needed: sent holds at most NSlots + 1 events.                           *)
EXTENDS ActionBuffer
=============================================================================
