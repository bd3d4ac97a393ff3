----------------------------- MODULE TimerService -----------------------------
(***************************************************************************)
(* What the timers of the Hardware Deck promise: a timer that was created  *)
(* goes off - once, or as often as it is periodic - until it is cancelled, *)
(* and never again after that.  An id is given to one timer only.          *)
(***************************************************************************)
EXTENDS Naturals

VARIABLES
  live,    \* the timers set: [id, owner, periodic]
  fired    \* for every id given out, how often its timer went off

timerVars == <<live, fired>>

Init == live = {} /\ fired = [n \in {} |-> 0]

Create(timer) ==
  /\ timer.id \notin DOMAIN fired
  /\ live' = live \cup {timer}
  /\ fired' = [n \in DOMAIN fired \cup {timer.id} |-> IF n = timer.id THEN 0 ELSE fired[n]]

Cancel(timer) ==
  /\ timer \in live
  /\ live' = live \ {timer}
  /\ UNCHANGED fired

GoOff(timer) ==
  /\ timer \in live
  /\ fired' = [fired EXCEPT ![timer.id] = @ + 1]
  /\ live' = IF timer.periodic THEN live ELSE live \ {timer}

\* Whatever is created was not there before, and belongs to somebody: the task
\* that ran, or nobody.
Next ==
  \/ \E timer \in live' : Create(timer)
  \/ \E timer \in live : Cancel(timer) \/ GoOff(timer)

Spec == Init /\ [][Next]_timerVars
===============================================================================
