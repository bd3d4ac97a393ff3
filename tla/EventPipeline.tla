---------------------------- MODULE EventPipeline ----------------------------
(***************************************************************************)
(* The kernel's event pipeline: user API, Receiver, Center, routing table, *)
(* Guide, the four processing decks and the Execution deck.                *)
(*                                                                         *)
(* This module holds the state and the steps of every component.  Who runs *)
(* the steps is left to the modules that extend it: SyncPipeline runs them *)
(* in the order of eventdriven_process_one_iteration, CorePipeline gives   *)
(* each component's *_run loop a core of its own.  A step is what a        *)
(* component does between two accesses to state that another one may      *)
(* change in between; the rings are the queues RingBuffer implements.      *)
(*                                                                         *)
(* Left out: the statistics (the code only prints them) and timestamps.    *)
(***************************************************************************)
EXTENDS Integers, Sequences, FiniteSets, SequencesExt

CONSTANTS
  MaxEvents,   \* bound: how many events the user program submits
  Kinds,       \* what the user program asks for, see Kind
  PollIds,     \* the event ids it polls for
  Outcomes,    \* what a deck may make of an event: "result", "empty", "error"
  RING,        \* RING_BUFFER_SIZE: elements of an event or response ring
  BUCKETS,     \* ROUTING_TABLE_SIZE
  CAPACITY,    \* BUCKET_CAPACITY
  BATCH,       \* buckets the Guide scans in one pass
  STEPS,       \* MAX_ROUTING_STEPS
  QUEUE,       \* DECK_QUEUE_SIZE
  CACHE,       \* RESPONSE_CACHE_SIZE
  Hash         \* Hash[id]: the bucket routing_table_index names for an id

Req == 1 .. MaxEvents                 \* requests, in the order of submission
FirstId == 2                          \* what the first increment of 1 returns
EventId == FirstId .. FirstId + MaxEvents - 1
Bucket == 0 .. BUCKETS - 1
Deck == 1 .. 4                        \* DECK_PREFIX_OPERATIONS .. _NETWORK
NONE == 0                             \* DECK_PREFIX_NONE

\* What the checks of Receiver and Center find in an event, and the deck that
\* center_determine_route names for its type.
Kind == [valid : BOOLEAN, allowed : BOOLEAN, deck : Deck]

ASSUME PipelineAssumption ==
  /\ {MaxEvents, RING, BUCKETS, CAPACITY, BATCH, STEPS, QUEUE, CACHE}
       \subseteq Nat \ {0}
  /\ Kinds \subseteq Kind /\ PollIds \subseteq Nat
  /\ Outcomes \subseteq {"result", "empty", "error"}
  /\ Hash \in [EventId -> Bucket]
  /\ \E k \in 1 .. BUCKETS : BUCKETS = k * BATCH

VARIABLES
  user,        \* what the user program is doing: "free", "submit" or "poll"
  uevent,      \* the event it submits
  want,        \* the id it polls for
  cache,       \* response_cache: the valid entries, by index
  submitted,   \* how many events it has submitted
  userRing,    \* user_to_kernel_buffer
  nextId,      \* global_event_id_counter
  rcv,         \* Receiver: the validated event it is pushing, or none
  centerRing,  \* receiver_to_center_buffer
  ctr,         \* Center: the DENIED response it is pushing, or none
  table,       \* the entries of global_routing_table
  count,       \* bucket->count
  deckQueue,   \* guide_context.deck_queues
  execQueue,   \* guide_context.execution_queue
  scanPos,     \* guide_context.scan_position
  deck,        \* each deck: where it is in process_func
  exe,         \* Execution: the completed event it is answering, or none
  respRing     \* kernel_to_user_buffer

\* What happened to each request, for the properties.
VARIABLES
  served,      \* how often a deck processed it: 0, 1 or 2 (more than once)
  fate         \* how it was resolved, once or more

userVars == <<user, uevent, want, cache, submitted>>
recvVars == <<nextId, rcv>>
guideVars == <<deckQueue, execQueue, scanPos>>
tableVars == <<table, count>>
history == <<served, fate>>
pipeVars == <<userVars, userRing, recvVars, centerRing, ctr, tableVars,
              guideVars, deck, exe, respRing, history>>

-------------------------------------------------------------------------------
(***************************************************************************)
(* The data.                                                               *)
(***************************************************************************)
Event == [req : Req, id : {0} \cup EventId, kind : Kind]
Routes == [1 .. STEPS -> {NONE} \cup Deck]

\* req stands for event_copy; results[d] is the request whose data the
\* pointer in deck_results[d - 1] points to, 0 for a null pointer.
Entry == [id : {0} \cup EventId, req : {0} \cup Req, prefixes : Routes,
          results : [Deck -> {0} \cup Req], abort : BOOLEAN,
          state : {"success", "processing", "error"}]

Response == [id : EventId, req : Req, status : {"success", "denied"},
             result : {0} \cup Req]

\* A RoutingEntry*, the address of a slot of the table.
Pointer == Bucket \X (1 .. CAPACITY)
At(p) == table[p[1]][p[2]]

NoEvent == [req |-> 0]
Cleared == [i \in 1 .. STEPS |-> NONE]
FreeEntry == [id |-> 0, req |-> 0, prefixes |-> Cleared,
              results |-> [d \in Deck |-> 0], abort |-> FALSE,
              state |-> "success"]
Idle == [step |-> "idle", at |-> <<0, 1>>, req |-> 0, outcome |-> "empty"]

\* routing_entry_get_next_prefix and routing_entry_clear_prefix.
NextPrefix(e) ==
  LET left == {i \in 1 .. STEPS : e.prefixes[i] # NONE}
  IN  IF left = {} THEN NONE ELSE e.prefixes[Min(left)]

ClearPrefix(e, d) ==
  LET mine == {i \in 1 .. STEPS : e.prefixes[i] = d}
  IN  IF mine = {} THEN e ELSE [e EXCEPT !.prefixes[Min(mine)] = NONE]

\* center_determine_route, routing_entry_init and what Center sets itself.
NewEntry(ev) ==
  [FreeEntry EXCEPT !.id = ev.id, !.req = ev.req,
                    !.prefixes[1] = ev.kind.deck, !.state = "processing"]

Served(r) == served' = [served EXCEPT ![r] = IF @ = 0 THEN 1 ELSE 2]
Resolve(r, how) == fate' = [fate EXCEPT ![r] = Append(@, how)]

Init ==
  /\ user = "free" /\ uevent = NoEvent /\ want = 0
  /\ cache = [i \in 0 .. CACHE - 1 |-> <<>>]
  /\ submitted = 0
  /\ userRing = <<>> /\ centerRing = <<>> /\ respRing = <<>>
  /\ nextId = FirstId - 1 /\ rcv = <<>> /\ ctr = <<>> /\ exe = <<>>
  /\ table = [b \in Bucket |-> [i \in 1 .. CAPACITY |-> FreeEntry]]
  /\ count = [b \in Bucket |-> 0]
  /\ deckQueue = [d \in Deck |-> <<>>] /\ execQueue = <<>> /\ scanPos = 0
  /\ deck = [d \in Deck |-> Idle]
  /\ served = [r \in Req |-> 0] /\ fate = [r \in Req |-> <<>>]

-------------------------------------------------------------------------------
(***************************************************************************)
(* The user program: eventapi_submit_event and eventapi_poll_response.     *)
(***************************************************************************)
SubmitCall(k) ==
  /\ user = "free" /\ submitted < MaxEvents
  /\ user' = "submit"
  /\ submitted' = submitted + 1
  /\ uevent' = [req |-> submitted + 1, id |-> 0, kind |-> k]
  /\ UNCHANGED <<want, cache, userRing, recvVars, centerRing, ctr, tableVars,
                 guideVars, deck, exe, respRing, history>>

\* Busy-waits, with no bound, for room in the ring.
SubmitPush ==
  /\ user = "submit" /\ Len(userRing) < RING
  /\ userRing' = Append(userRing, uevent)
  /\ user' = "free" /\ uevent' = NoEvent
  /\ UNCHANGED <<want, cache, submitted, recvVars, centerRing, ctr, tableVars,
                 guideVars, deck, exe, respRing, history>>

CacheIndex(id) == id % CACHE
Cached(id) == \E c \in ToSet(cache[CacheIndex(id)]) : c.id = id

\* A hit in the cache returns at once and changes nothing.
PollCall(id) ==
  /\ user = "free" /\ ~Cached(id)
  /\ user' = "poll" /\ want' = id
  /\ UNCHANGED <<uevent, cache, submitted, userRing, recvVars, centerRing, ctr,
                 tableVars, guideVars, deck, exe, respRing, history>>

\* One turn of the loop: the response replaces whatever shares its index.
PollPop ==
  /\ user = "poll" /\ respRing # <<>>
  /\ LET r == Head(respRing)
     IN  /\ cache' = [cache EXCEPT ![CacheIndex(r.id)] = <<r>>]
         /\ user' = IF r.id = want THEN "free" ELSE "poll"
         /\ want' = IF r.id = want THEN 0 ELSE want
  /\ respRing' = Tail(respRing)
  /\ UNCHANGED <<uevent, submitted, userRing, recvVars, centerRing, ctr,
                 tableVars, guideVars, deck, exe, history>>

PollEmpty ==
  /\ user = "poll" /\ respRing = <<>>
  /\ user' = "free" /\ want' = 0
  /\ UNCHANGED <<uevent, cache, submitted, userRing, recvVars, centerRing, ctr,
                 tableVars, guideVars, deck, exe, respRing, history>>

User ==
  \/ \E k \in Kinds : SubmitCall(k)
  \/ SubmitPush
  \/ \E id \in PollIds : PollCall(id)
  \/ PollPop
  \/ PollEmpty

-------------------------------------------------------------------------------
(***************************************************************************)
(* Receiver: receiver_process_event.                                       *)
(***************************************************************************)
ReceiverTake ==
  /\ rcv = <<>> /\ userRing # <<>>
  /\ userRing' = Tail(userRing)
  /\ LET ev == Head(userRing)
     IN  IF ev.kind.valid /\ ev.id = 0
         THEN /\ nextId' = nextId + 1
              /\ rcv' = << [ev EXCEPT !.id = nextId'] >>
              /\ UNCHANGED fate
         ELSE Resolve(ev.req, "rejected") /\ UNCHANGED recvVars
  /\ UNCHANGED <<userVars, centerRing, ctr, tableVars, guideVars, deck, exe,
                 respRing, served>>

ReceiverForward ==
  /\ rcv # <<>> /\ Len(centerRing) < RING
  /\ centerRing' = Append(centerRing, rcv[1])
  /\ rcv' = <<>>
  /\ UNCHANGED <<userVars, userRing, nextId, ctr, tableVars, guideVars, deck,
                 exe, respRing, history>>

\* A million pushes found the ring full: the event is dropped.
ReceiverTimeout ==
  /\ rcv # <<>> /\ Len(centerRing) = RING
  /\ Resolve(rcv[1].req, "timeout")
  /\ rcv' = <<>>
  /\ UNCHANGED <<userVars, userRing, nextId, centerRing, ctr, tableVars,
                 guideVars, deck, exe, respRing, served>>

Receiver == ReceiverTake \/ ReceiverForward \/ ReceiverTimeout

-------------------------------------------------------------------------------
(***************************************************************************)
(* Center: center_process_event, with routing_table_insert.                *)
(***************************************************************************)
FreeSlots(b) == {i \in 1 .. CAPACITY : table[b][i].id = 0}

\* Mutant: does not look for a free slot.
InsertInFirstSlot(ev) ==
  LET b == Hash[ev.id]
  IN  IF count[b] < CAPACITY
      THEN /\ table' = [table EXCEPT ![b][1] = NewEntry(ev)]
           /\ count' = [count EXCEPT ![b] = @ + 1]
           /\ UNCHANGED fate
      ELSE Resolve(ev.req, "bucket full") /\ UNCHANGED tableVars

\* Mutant: does not reset the results of the slot's last entry.
InsertKeepingResults(ev) ==
  LET b == Hash[ev.id]
      i == Min(FreeSlots(b))
  IN  IF count[b] < CAPACITY /\ FreeSlots(b) # {}
      THEN /\ table' = [table EXCEPT ![b][i] =
                          [NewEntry(ev) EXCEPT !.results = table[b][i].results]]
           /\ count' = [count EXCEPT ![b] = @ + 1]
           /\ UNCHANGED fate
      ELSE Resolve(ev.req, "bucket full") /\ UNCHANGED tableVars

\* Takes the first free slot; a full bucket drops the event.
Insert(ev) ==
  LET b == Hash[ev.id]
  IN  IF count[b] < CAPACITY /\ FreeSlots(b) # {}
      THEN /\ table' = [table EXCEPT ![b][Min(FreeSlots(b))] = NewEntry(ev)]
           /\ count' = [count EXCEPT ![b] = @ + 1]
           /\ UNCHANGED fate
      ELSE Resolve(ev.req, "bucket full") /\ UNCHANGED tableVars

\* Mutant: goes on routing the event it has denied.
CenterTakeRoutesDenied ==
  /\ ctr = <<>> /\ centerRing # <<>>
  /\ centerRing' = Tail(centerRing)
  /\ LET ev == Head(centerRing)
     IN  /\ Insert(ev)
         /\ ctr' = IF ev.kind.allowed THEN <<>>
                   ELSE << [id |-> ev.id, req |-> ev.req, status |-> "denied",
                            result |-> 0] >>
  /\ UNCHANGED <<userVars, userRing, recvVars, guideVars, deck, exe, respRing,
                 served>>

CenterTake ==
  /\ ctr = <<>> /\ centerRing # <<>>
  /\ centerRing' = Tail(centerRing)
  /\ LET ev == Head(centerRing)
     IN  IF ev.kind.allowed
         THEN Insert(ev) /\ UNCHANGED ctr
         ELSE /\ ctr' = << [id |-> ev.id, req |-> ev.req, status |-> "denied",
                            result |-> 0] >>
              /\ UNCHANGED <<tableVars, fate>>
  /\ UNCHANGED <<userVars, userRing, recvVars, guideVars, deck, exe, respRing,
                 served>>

CenterRespond ==
  /\ ctr # <<>> /\ Len(respRing) < RING
  /\ respRing' = Append(respRing, ctr[1])
  /\ Resolve(ctr[1].req, "denied")
  /\ ctr' = <<>>
  /\ UNCHANGED <<userVars, userRing, recvVars, centerRing, tableVars, guideVars,
                 deck, exe, served>>

CenterTimeout ==
  /\ ctr # <<>> /\ Len(respRing) = RING
  /\ Resolve(ctr[1].req, "denial lost")
  /\ ctr' = <<>>
  /\ UNCHANGED <<userVars, userRing, recvVars, centerRing, tableVars, guideVars,
                 deck, exe, respRing, served>>

Center == CenterTake \/ CenterRespond \/ CenterTimeout

-------------------------------------------------------------------------------
(***************************************************************************)
(* Guide: one turn of the batch loop of guide_scan_and_route, which holds  *)
(* the lock of the bucket it scans.                                        *)
(***************************************************************************)
\* A set of slots in the order the loop meets them.
InOrder(slots) ==
  CHOOSE s \in [1 .. Cardinality(slots) -> slots] :
    \A i, j \in DOMAIN s : i < j => s[i] < s[j]

Live(p) == At(p).id # 0 /\ At(p).state = "processing"
Finished(p) == Live(p) /\ (NextPrefix(At(p)) = NONE \/ At(p).abort)
ReadyFor(p, d) == Live(p) /\ NextPrefix(At(p)) = d /\ ~At(p).abort

\* deck_queue_push of the pointer to each slot in turn, until the queue is full.
Room(q) == QUEUE - Len(q)
Pushed(q, slots) ==
  1 .. IF Cardinality(slots) < Room(q) THEN Cardinality(slots) ELSE Room(q)
PushAll(q, b, slots) == q \o [k \in Pushed(q, slots) |-> <<b, InOrder(slots)[k]>>]

\* Mutant: an entry sent to the execution queue stays PROCESSING.
ScannedStaysProcessing(p, taken) == At(p)

\* An entry that reached the execution queue leaves the state PROCESSING; an
\* aborted one loses its prefixes whether or not the queue took it.
Scanned(p, taken) ==
  LET e == At(p)
      aborted == Finished(p) /\ NextPrefix(e) # NONE
  IN  [e EXCEPT !.prefixes = IF aborted THEN Cleared ELSE @,
                !.state = IF p \notin taken THEN @
                          ELSE IF aborted THEN "error" ELSE "success"]

\* Mutant: passes over every other bucket.
NextScanSkips == (scanPos + 2) % BUCKETS

NextScan == (scanPos + 1) % BUCKETS

GuideScan ==
  LET b == scanPos
      finished == {i \in 1 .. CAPACITY : Finished(<<b, i>>)}
      ready(d) == {i \in 1 .. CAPACITY : ReadyFor(<<b, i>>, d)}
      taken == {<<b, InOrder(finished)[k]>> : k \in Pushed(execQueue, finished)}
  IN  /\ execQueue' = PushAll(execQueue, b, finished)
      /\ deckQueue' = [d \in Deck |-> PushAll(deckQueue[d], b, ready(d))]
      /\ table' = [table EXCEPT ![b] =
                     [i \in 1 .. CAPACITY |-> Scanned(<<b, i>>, taken)]]
      /\ scanPos' = NextScan
      /\ UNCHANGED <<userVars, userRing, recvVars, centerRing, ctr, count, deck,
                     exe, respRing, history>>

-------------------------------------------------------------------------------
(***************************************************************************)
(* The decks: deck_run_once, with deck_complete or deck_error at the end   *)
(* of process_func.  The work is done on whatever the pointer names now.   *)
(***************************************************************************)
DeckTake(d) ==
  /\ deck[d].step = "idle" /\ deckQueue[d] # <<>>
  /\ deck' = [deck EXCEPT ![d].step = "serve", ![d].at = Head(deckQueue[d])]
  /\ deckQueue' = [deckQueue EXCEPT ![d] = Tail(@)]
  /\ UNCHANGED <<userVars, userRing, recvVars, centerRing, ctr, tableVars,
                 execQueue, scanPos, exe, respRing, history>>

\* The request is carried out.
DeckServe(d, outcome) ==
  LET r == At(deck[d].at).req
  IN  /\ deck[d].step = "serve"
      /\ deck' = [deck EXCEPT ![d].step = "store", ![d].req = r,
                              ![d].outcome = outcome]
      /\ Served(r)
      /\ UNCHANGED <<userVars, userRing, recvVars, centerRing, ctr, tableVars,
                     guideVars, exe, respRing, fate>>

\* deck_complete stores the result pointer, deck_error the abort flag.
DeckStore(d) ==
  LET p == deck[d].at
      result == IF deck[d].outcome = "result" THEN deck[d].req ELSE 0
  IN  /\ deck[d].step = "store"
      /\ table' = [table EXCEPT ![p[1]][p[2]] =
                     IF deck[d].outcome = "error"
                     THEN [@ EXCEPT !.abort = TRUE]
                     ELSE [@ EXCEPT !.results[d] = result]]
      /\ deck' = [deck EXCEPT ![d].step = "clear"]
      /\ UNCHANGED <<userVars, userRing, recvVars, centerRing, ctr, count,
                     guideVars, exe, respRing, history>>

DeckClear(d) ==
  LET p == deck[d].at
  IN  /\ deck[d].step = "clear"
      /\ table' = [table EXCEPT ![p[1]][p[2]] = ClearPrefix(@, d)]
      /\ deck' = [deck EXCEPT ![d] = Idle]
      /\ UNCHANGED <<userVars, userRing, recvVars, centerRing, ctr, count,
                     guideVars, exe, respRing, history>>

DeckRun(d) ==
  \/ DeckTake(d)
  \/ \E o \in Outcomes : DeckServe(d, o)
  \/ DeckStore(d)
  \/ DeckClear(d)

-------------------------------------------------------------------------------
(***************************************************************************)
(* Execution deck: execution_deck_run_once, process_completed_event.       *)
(***************************************************************************)
\* collect_results: SUCCESS, and the last result pointer that is not null.
Collect(e) ==
  LET with == {d \in Deck : e.results[d] # 0}
  IN  [id |-> e.id, req |-> e.req, status |-> "success",
       result |-> IF with = {} THEN 0 ELSE e.results[Max(with)]]

ExecTake ==
  /\ exe = <<>> /\ execQueue # <<>>
  /\ execQueue' = Tail(execQueue)
  /\ LET p == Head(execQueue)
     IN  exe' = << [at |-> p, response |-> Collect(At(p)), sent |-> FALSE] >>
  /\ UNCHANGED <<userVars, userRing, recvVars, centerRing, ctr, tableVars,
                 deckQueue, scanPos, deck, respRing, history>>

\* Busy-waits, with no bound, for room in the response ring.
ExecRespond ==
  /\ exe # <<>> /\ ~exe[1].sent /\ Len(respRing) < RING
  /\ respRing' = Append(respRing, exe[1].response)
  /\ Resolve(exe[1].response.req, "success")
  /\ exe' = << [exe[1] EXCEPT !.sent = TRUE] >>
  /\ UNCHANGED <<userVars, userRing, recvVars, centerRing, ctr, tableVars,
                 guideVars, deck, served>>

\* routing_table_remove of the id the entry holds by now.
ExecRemove ==
  /\ exe # <<>> /\ exe[1].sent
  /\ LET id == At(exe[1].at).id
         b == Hash[id]
         found == {i \in 1 .. CAPACITY : table[b][i].id = id}
     IN  IF found = {}
         THEN UNCHANGED tableVars
         ELSE /\ table' = [table EXCEPT
                             ![b][Min(found)].id = 0,
                             ![b][Min(found)].state = "success"]
              /\ count' = [count EXCEPT ![b] = @ - 1]
  /\ exe' = <<>>
  /\ UNCHANGED <<userVars, userRing, recvVars, centerRing, ctr, guideVars,
                 deck, respRing, history>>

Execution == ExecTake \/ ExecRespond \/ ExecRemove

-------------------------------------------------------------------------------
(***************************************************************************)
(* Properties every schedule of the components must have.                  *)
(***************************************************************************)
Fates == {"rejected", "timeout", "bucket full", "denied", "denial lost", "success"}

\* Every variable has its type; no ring or queue holds more than it has room for.
TypeOK ==
  /\ user \in {"free", "submit", "poll"} /\ want \in Nat
  /\ uevent \in Event \cup {NoEvent}
  /\ cache \in [0 .. CACHE - 1 -> {<<>>} \cup {<<r>> : r \in Response}]
  /\ submitted \in 0 .. MaxEvents /\ nextId \in 1 .. MaxEvents + 1
  /\ \A q \in {userRing, centerRing} : q \in Seq(Event) /\ Len(q) <= RING
  /\ respRing \in Seq(Response) /\ Len(respRing) <= RING
  /\ rcv \in Seq(Event) /\ Len(rcv) <= 1
  /\ ctr \in Seq(Response) /\ Len(ctr) <= 1
  /\ table \in [Bucket -> [1 .. CAPACITY -> Entry]]
  /\ count \in [Bucket -> 0 .. CAPACITY]
  /\ deckQueue \in [Deck -> Seq(Pointer)] /\ execQueue \in Seq(Pointer)
  /\ \A q \in {execQueue} \cup {deckQueue[d] : d \in Deck} : Len(q) <= QUEUE
  /\ scanPos \in Bucket
  /\ deck \in [Deck -> [step : {"idle", "serve", "store", "clear"}, at : Pointer,
                       req : {0} \cup Req, outcome : {"result", "empty", "error"}]]
  /\ exe \in Seq([at : Pointer, response : Response, sent : BOOLEAN]) /\ Len(exe) <= 1
  /\ served \in [Req -> 0 .. 2] /\ fate \in [Req -> Seq(Fates)]

\* Where request r is: held by a component, in a ring, or an entry of the table
\* that is not answered yet.
Holding(q, r) == Cardinality({i \in DOMAIN q : q[i].req = r})
Answered(p) == exe # <<>> /\ exe[1].sent /\ exe[1].at = p
Routed(r) ==
  Cardinality({p \in Pointer : At(p).id # 0 /\ At(p).req = r /\ ~Answered(p)})
Places(r) ==
  (IF uevent.req = r THEN 1 ELSE 0) + Holding(userRing, r) + Holding(rcv, r)
    + Holding(centerRing, r) + Holding(ctr, r) + Routed(r)

\* A submitted request is in exactly one place or has exactly one fate: no
\* hand-over between Receiver, Center, table and Execution loses or doubles
\* it, and its drops are the ones the code counts.
NothingLostOrDoubled ==
  \A r \in Req : Places(r) + Len(fate[r]) = IF r <= submitted THEN 1 ELSE 0

\* Security runs before routing, and a drop happens before processing: a
\* request resolved in any way but SUCCESS was never processed by a deck.
LossesUnserved ==
  \A r \in Req : fate[r] # <<>> /\ fate[r][1] # "success" => served[r] = 0

\* A response carries no other request's data: the pointer collect_results
\* copies was stored for the event it answers.
Responses == ToSet(respRing) \cup UNION {ToSet(cache[i]) : i \in DOMAIN cache}
OwnResult == \A r \in Responses : r.result \in {0, r.req}

\* Every request the program has submitted is resolved in the end.
EveryRequestResolved ==
  \A r \in Req : r <= submitted ~> fate[r] # <<>>
=============================================================================
