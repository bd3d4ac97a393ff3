---------------------------- MODULE CorePipeline ----------------------------
(***************************************************************************)
(* The pipeline as its documentation describes it and its *_run loops are  *)
(* written for: Receiver, Center, Guide, the decks and Execution each loop *)
(* on a core of their own (receiver.h 149, EVENT_DRIVEN_ARCHITECTURE.md),  *)
(* next to the user program.  Their steps interleave in any order.         *)
(***************************************************************************)
EXTENDS EventPipeline

CoreNext ==
  \/ User
  \/ Receiver
  \/ Center
  \/ GuideScan
  \/ \E d \in Deck : DeckRun(d)
  \/ Execution

CoreSpec == Init /\ [][CoreNext]_pipeVars
=============================================================================
