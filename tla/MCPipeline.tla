------------------------------ MODULE MCPipeline ------------------------------
(* Constants of the model-checked instances of the pipeline. *)
EXTENDS Integers

\* One kind per path through Receiver and Center.
Request(valid, allowed, deck) == [valid |-> valid, allowed |-> allowed, deck |-> deck]
Invalid == Request(FALSE, TRUE, 1)
Forbidden == Request(TRUE, FALSE, 2)
For(deck) == Request(TRUE, TRUE, deck)

OneDeck == {For(2)}
EveryPath == {Invalid, Forbidden} \cup {For(d) : d \in 1 .. 4}
ServedOrNot == {Invalid, Forbidden, For(2)}

\* hash_event_id(id) & 3 for the ids 2, 3, ...: the low bits of the real hash.
RealHash ==
  LET low == <<3, 2, 1, 1, 3, 1, 3, 1, 1, 0, 1, 1, 0, 1, 0, 2, 0, 1>>
  IN  [id \in 2 .. 19 |-> low[id - 1]]
===============================================================================
