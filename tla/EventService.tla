---------------------------- MODULE EventService ----------------------------
(***************************************************************************)
(* What the event pipeline owes each request a program submits: it is      *)
(* resolved at most once; an answer SUCCESS follows its processing by a    *)
(* deck, which happens once; a request that is denied or dropped was never *)
(* processed.  SyncPipeline implements this.                               *)
(***************************************************************************)
EXTENDS Naturals, Sequences

CONSTANTS
  Request,     \* the requests
  Losses       \* the ways to be resolved without an answer SUCCESS

VARIABLES
  served,      \* how often each request was processed
  fate         \* the resolutions of each request

serviceVars == <<served, fate>>

Init ==
  /\ served = [r \in Request |-> 0]
  /\ fate = [r \in Request |-> <<>>]

Serve(r) ==
  /\ served[r] = 0 /\ fate[r] = <<>>
  /\ served' = [served EXCEPT ![r] = 1]
  /\ UNCHANGED fate

Answer(r) ==
  /\ served[r] = 1 /\ fate[r] = <<>>
  /\ fate' = [fate EXCEPT ![r] = <<"success">>]
  /\ UNCHANGED served

Lose(r, why) ==
  /\ served[r] = 0 /\ fate[r] = <<>>
  /\ fate' = [fate EXCEPT ![r] = <<why>>]
  /\ UNCHANGED served

Next == \E r \in Request : Serve(r) \/ Answer(r) \/ \E why \in Losses : Lose(r, why)

Spec == Init /\ [][Next]_serviceVars
=============================================================================
