---------------------------- MODULE SyncPipeline ----------------------------
(***************************************************************************)
(* The pipeline as the kernel runs it today: one thread, which belongs to  *)
(* the user program and enters the kernel by calling                       *)
(* eventdriven_process_one_iteration.  Every component gets one turn per   *)
(* iteration, in a fixed order, and a turn that waits keeps the thread.    *)
(***************************************************************************)
EXTENDS EventPipeline

\* The queue of a deck has room for what comes in while the Guide goes round the
\* table once, one event per iteration (4 iterations, a queue of 128).
ASSUME SyncAssumption == BUCKETS <= QUEUE * BATCH

VARIABLE stage     \* whose turn it is

vars == <<pipeVars, stage>>

\* The decks in the order of their calls, which is that of their prefixes.
DeckStage == <<"operations", "storage", "hardware", "network">>

SyncInit == Init /\ stage = "user"

\* A turn of a component with nothing in hand and an empty input is over at
\* once; otherwise it lasts until the component has nothing in hand.
Turn(here, next, idle, empty, Step) ==
  /\ stage = here
  /\ \/ idle /\ empty /\ stage' = next /\ UNCHANGED pipeVars
     \/ Step /\ stage' = IF idle' THEN next ELSE here

UserTurn == stage = "user" /\ User /\ UNCHANGED stage

ProcessOneIteration ==
  /\ stage = "user" /\ user = "free"
  /\ stage' = "receiver"
  /\ UNCHANGED pipeVars

ReceiverTurn == Turn("receiver", "center", rcv = <<>>, userRing = <<>>, Receiver)

CenterTurn == Turn("center", "guide", ctr = <<>>, centerRing = <<>>, Center)

\* guide_scan_and_dispatch scans BATCH buckets; scan_position starts at 0.
GuideTurn ==
  /\ stage = "guide"
  /\ GuideScan
  /\ stage' = IF scanPos' % BATCH = 0 THEN DeckStage[1] ELSE "guide"

\* Mutant: a deck returns to the loop with its event half done, and takes the
\* work up again in the next iteration.
DeckTurnInPieces(d) ==
  /\ stage = DeckStage[d]
  /\ DeckRun(d) \/ (deck[d] = Idle /\ deckQueue[d] = <<>> /\ UNCHANGED pipeVars)
  /\ stage' = IF d = 4 THEN "execution" ELSE DeckStage[d + 1]

DeckTurn(d) ==
  Turn(DeckStage[d], IF d = 4 THEN "execution" ELSE DeckStage[d + 1],
       deck[d] = Idle, deckQueue[d] = <<>>, DeckRun(d))

ExecutionTurn ==
  Turn("execution", "user", exe = <<>>, execQueue = <<>>, Execution)

Kernel ==
  ReceiverTurn \/ CenterTurn \/ GuideTurn \/ (\E d \in Deck : DeckTurn(d))
    \/ ExecutionTurn

SyncNext == UserTurn \/ ProcessOneIteration \/ Kernel

SyncSpec == SyncInit /\ [][SyncNext]_vars

-------------------------------------------------------------------------------
(***************************************************************************)
(* Fairness.  The thread runs on while it is in the kernel or waits in     *)
(* eventapi (WF).  Assumed of the environment: whoever drives the pipeline *)
(* calls process_one_iteration again and again (SF: it may submit and poll *)
(* in between).  The demo does, a bounded number of times; after it main   *)
(* enters the shell, and nothing drives the pipeline any more.             *)
(***************************************************************************)
SyncFairness ==
  /\ WF_vars(Kernel)
  /\ WF_vars(stage = "user" /\ (SubmitPush \/ PollPop \/ PollEmpty) /\ UNCHANGED stage)
  /\ SF_vars(ProcessOneIteration)

SyncFairSpec == SyncSpec /\ SyncFairness

(***************************************************************************)
(* Properties of the synchronous schedule.                                 *)
(***************************************************************************)

\* The pipeline implements the service: at most one fate per request, SUCCESS
\* only after exactly one processing, every other fate without one.
Service == INSTANCE EventService
             WITH Request <- Req, Losses <- Fates \ {"success"},
                  served <- served, fate <- fate
ImplementsService == Service!Spec

\* guide_scan_and_route pushes an entry again on every scan until its deck has
\* cleared the prefix.  In this schedule no pointer is pushed twice and none
\* outlives its purpose: the entry it names still waits for just that deck.
Distinct(q) == Cardinality(ToSet(q)) = Len(q)
QueuedOnceAndCurrent ==
  /\ \A d \in Deck :
       /\ Distinct(deckQueue[d])
       /\ \A p \in ToSet(deckQueue[d]) : ReadyFor(p, d)
       /\ deck[d].step = "serve" =>
            ReadyFor(deck[d].at, d) /\ deck[d].at \notin ToSet(deckQueue[d])
  /\ Distinct(execQueue)
  /\ \A p \in ToSet(execQueue) :
       At(p).id # 0 /\ ~Live(p) /\ NextPrefix(At(p)) = NONE
===============================================================================
