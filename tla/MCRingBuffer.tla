---- MODULE MCRingBuffer ----
(* Constants of the model-checked instances of RingBuffer. *)
EXTENDS RingBuffer

CONSTANTS m1, m2, execution
====
