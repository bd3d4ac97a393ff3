----------------------------- MODULE HardwareDeck -----------------------------
(***************************************************************************)
(* The timers of decks/hardware_deck.c on top of the task system: a table  *)
(* of MAX_TIMERS slots, the events that create and cancel timers and put   *)
(* the current task to sleep, and the scan that wakes the owners of the    *)
(* timers that have expired.  The deck runs on the kernel's thread, so the *)
(* other calls of the task system come between its calls; the timer        *)
(* interrupt and time come between any two slots of a scan.                *)
(*                                                                         *)
(* Of the time only the order is kept: a timer is ripe once the time stamp *)
(* counter has reached its expiration.  The device events change nothing.  *)
(***************************************************************************)
EXTENDS TaskScheduler

CONSTANTS
  MAX_TIMERS,   \* slots of timers
  MaxTimers,    \* bound: how many timers are created
  MaxFires      \* bound: how often one timer ripens

ASSUME TimerAssumption == {MAX_TIMERS, MaxTimers, MaxFires} \subseteq Nat \ {0}

VARIABLES
  timers,         \* the table
  next_timer_id,  \* ids given out so far
  slot,           \* the slot the scan looks at, NULL outside a scan
  expired,        \* the slots whose expiration had been reached at the scan's "now"
  fired           \* history: how often each timer went off

timerVars == <<timers, next_timer_id, fired>>
scanVars == <<slot, expired>>
deckVars == <<vars, timerVars, scanVars>>

Slot == 1 .. MAX_TIMERS
Inactive == [id |-> 0, owner |-> NULL, periodic |-> FALSE, ripe |-> FALSE, active |-> FALSE]

DeckInit ==
  /\ Init
  /\ timers = [i \in Slot |-> Inactive]
  /\ next_timer_id = 0
  /\ slot = NULL /\ expired = {}
  /\ fired = [n \in {} |-> 0]

-------------------------------------------------------------------------------
(***************************************************************************)
(* Events.                                                                 *)
(***************************************************************************)
FreeTimers == {i \in Slot : ~timers[i].active}

\* EVENT_TIMER_CREATE.  Without a free slot the event fails and no id is spent.
timer_create(periodic) ==
  /\ next_timer_id < MaxTimers
  /\ FreeTimers # {}
  /\ next_timer_id' = next_timer_id + 1
  /\ timers' = [timers EXCEPT ![Min(FreeTimers)] =
                  [id |-> next_timer_id', owner |-> current, periodic |-> periodic,
                   ripe |-> FALSE, active |-> TRUE]]
  /\ fired' = [n \in 1 .. next_timer_id' |-> IF n = next_timer_id' THEN 0 ELSE fired[n]]
  /\ UNCHANGED <<vars, scanVars>>

\* EVENT_TIMER_CANCEL: the first active timer with the id, if there is one.
timer_cancel(n) ==
  /\ \E i \in Slot :
       /\ timers[i].active /\ timers[i].id = n
       /\ timers' = [timers EXCEPT ![i].active = FALSE]
  /\ UNCHANGED <<vars, next_timer_id, fired, scanVars>>

\* EVENT_TIMER_SLEEP, as long as the run queue is used as it is written for.
timer_sleep ==
  /\ current \in Queued
  /\ task_sleep(current)
  /\ UNCHANGED <<careless, timerVars, scanVars>>

-------------------------------------------------------------------------------
(***************************************************************************)
(* timer_check_expired: the time is read once, then slot after slot.       *)
(***************************************************************************)
CheckStart ==
  /\ slot = NULL
  /\ slot' = 1
  /\ expired' = {i \in Slot : timers[i].active /\ timers[i].ripe}
  /\ UNCHANGED <<vars, timerVars>>

\* Mutant: the one-shot timer stays active.
RearmAll(i) == [timers EXCEPT ![i].ripe = FALSE]

\* A periodic timer is set again from the scan's "now", a one-shot one is done.
Rearm(i) ==
  [timers EXCEPT ![i].ripe = FALSE, ![i].active = timers[i].periodic]

\* Mutant: does not ask whether the task sleeps.
WakeAnyOwner(t) ==
  IF Known(t) THEN WakeAnyState(t) /\ UNCHANGED careless ELSE UNCHANGED vars

\* task_wake, which refuses a task that is not asleep or is gone.
WakeOwner(t) ==
  IF Known(t) /\ state[t] = "sleeping"
  THEN task_wake(t) /\ UNCHANGED careless
  ELSE UNCHANGED vars

\* Mutant: the scan breaks off behind the first timer that goes off.
CheckSlotBreaks ==
  /\ slot # NULL
  /\ IF slot \in expired
     THEN /\ IF timers[slot].owner # NULL THEN WakeOwner(timers[slot].owner)
             ELSE UNCHANGED vars
          /\ timers' = Rearm(slot)
          /\ fired' = [fired EXCEPT ![timers[slot].id] = @ + 1]
     ELSE UNCHANGED <<vars, timers, fired>>
  /\ LET last == slot = MAX_TIMERS \/ slot \in expired
     IN  slot' = (IF last THEN NULL ELSE slot + 1) /\ expired' = IF last THEN {} ELSE expired
  /\ UNCHANGED next_timer_id

CheckSlot ==
  /\ slot # NULL
  /\ IF slot \in expired
     THEN /\ IF timers[slot].owner # NULL THEN WakeOwner(timers[slot].owner)
             ELSE UNCHANGED vars
          /\ timers' = Rearm(slot)
          /\ fired' = [fired EXCEPT ![timers[slot].id] = @ + 1]
     ELSE UNCHANGED <<vars, timers, fired>>
  /\ slot' = IF slot = MAX_TIMERS THEN NULL ELSE slot + 1
  /\ expired' = IF slot = MAX_TIMERS THEN {} ELSE expired
  /\ UNCHANGED next_timer_id

\* hardware_deck_run_once, up to the events.
Check == CheckStart \/ CheckSlot

-------------------------------------------------------------------------------
\* The counter reaches the expiration of a timer.
Ripens(i) ==
  /\ timers[i].active /\ ~timers[i].ripe /\ fired[timers[i].id] < MaxFires
  /\ timers' = [timers EXCEPT ![i].ripe = TRUE]
  /\ UNCHANGED <<vars, next_timer_id, fired, scanVars>>

\* Whether the time of a sleep is over makes no difference here: no sleeping
\* task is in the queue, where task_scheduler_next would ask.
Interrupted == task_scheduler_tick \/ (TimePasses /\ UNCHANGED due)

DeckNext ==
  /\ Intact
  /\ \/ /\ slot = NULL
        /\ \/ CarefulCall /\ UNCHANGED <<careless, timerVars, scanVars>>
           \/ \E periodic \in BOOLEAN : timer_create(periodic)
           \/ \E n \in 1 .. MaxTimers : timer_cancel(n)
           \/ timer_sleep
     \/ Check
     \/ \E i \in Slot : Ripens(i)
     \/ Interrupted /\ UNCHANGED <<careless, timerVars, scanVars>>

\* A scan that has begun goes on.  Nothing makes the next one begin: only an
\* iteration of the pipeline scans, and only the demonstration iterates.
DeckSpec == DeckInit /\ [][DeckNext]_deckVars /\ WF_deckVars(Intact /\ CheckSlot)

-------------------------------------------------------------------------------
(***************************************************************************)
(* Properties.                                                             *)
(***************************************************************************)
\* The table of slots is a set of timers that go off as often as they should
\* and never after they are cancelled, although a slot is used again, a scan
\* works from an old list, and the owner may have gone.
Service == INSTANCE TimerService
             WITH live <- {[id |-> timers[i].id, owner |-> timers[i].owner,
                            periodic |-> timers[i].periodic] :
                             i \in {j \in Slot : timers[j].active}},
                  fired <- fired
ImplementsTimers == Service!Spec

\* Every timer a scan has found expired goes off in this scan, exactly once, and no
\* other does, though it wakes the owners of others on its way, and interrupts, time
\* and timers that ripen meanwhile come between its steps: how often a timer will
\* have gone off when the scan is done stays the same from its begin to its end,
\* which comes.  (Whether there is another scan is up to whoever iterates the
\* pipeline.)
WillHaveFired ==
  [n \in DOMAIN fired |->
     fired[n] + Cardinality({i \in expired : slot # NULL /\ i >= slot /\ timers[i].id = n})]
TimersGoOff ==
  /\ [][slot # NULL => WillHaveFired' = WillHaveFired]_deckVars
  /\ slot # NULL ~> slot = NULL

\* A timer that goes off leaves the run queue right, whatever has become of its
\* owner: running, paused, stalled, asleep for another reason, or gone.
OwnersQueuedOnce == QueueWellFormed /\ RunnableQueued
===============================================================================
