------------------------------- MODULE Console -------------------------------
(***************************************************************************)
(* The console: the keyboard interrupt (drivers/keyboard/keyboard.c) puts  *)
(* characters into a ring, the shell (shell/shell.c) takes them out, edits *)
(* its line and runs it; the timer interrupt wakes a halted shell.  One    *)
(* processor: an interrupt comes between any two steps of the main thread, *)
(* and its handler, behind an interrupt gate, runs to its end - unless it  *)
(* wants a lock the interrupted code holds: then it spins for ever with    *)
(* interrupts off.                                                         *)
(***************************************************************************)
EXTENDS Integers, Sequences, FiniteSets, SequencesExt

CONSTANTS
  KBSIZE,      \* KEYBOARD_BUFFER_SIZE
  LINE,        \* SHELL_INPUT_BUFFER_SIZE
  MAXARGS,     \* SHELL_MAX_ARGS
  Keys,        \* the keys of the keyboard
  TaskCalls,   \* how many task calls the demonstration makes before the shell
  MaxPresses   \* bound: how many keys are pressed

ASSUME ConsoleAssumption ==
  /\ {KBSIZE, LINE, MAXARGS} \subseteq Nat \ {0}
  /\ TaskCalls \in Nat /\ MaxPresses \in Nat

VARIABLES
  slots, head, tail,   \* keyboard_buffer, kb_head, kb_tail
  kbLock, taskLock,    \* kb_lock, task_table_lock
  shift, caps,         \* kb_state.shift_pressed, kb_state.caps_lock
  field, reg,          \* keyboard_init: the bit-field it clears, the byte it has loaded
  pc,                  \* where the main thread is
  calls,               \* task calls it still makes
  c,                   \* the character keyboard_getchar returns
  line,                \* input_buffer up to input_pos
  executed,            \* history: the argument vectors of the lines run
  spins,               \* a handler spins
  typed,               \* history: the characters put into the ring
  down, presses,       \* shift codes made and not broken; keys pressed
  missed               \* history: the last shift code was a break that came between a
                       \* load and the store of keyboard_init

keyboard == <<slots, head, tail, kbLock, shift, caps>>
shell == <<pc, calls, c, line, executed, taskLock, field, reg>>
vars == <<keyboard, shell, spins, typed, down, presses, missed>>

NUL == "NUL"
ShiftKeys == {"lshift", "rshift"}

\* E0 2A and E0 AA, which the keyboard sends around extended keys: without the
\* prefix, which the driver drops, the codes of the left shift key.
FAKE == "fake shift"
ShiftCodes == ShiftKeys \cup {FAKE}

\* The bit-fields that share a byte, in the order keyboard_init clears them.
BitFields == <<"shift", "ctrl", "alt", "caps", "num", "scroll">>
NoCopy == [shift |-> FALSE, caps |-> FALSE]

Init ==
  /\ slots = [i \in 0 .. KBSIZE - 1 |-> NUL] /\ head = 0 /\ tail = 0
  /\ kbLock = FALSE /\ taskLock = FALSE /\ shift = FALSE /\ caps = FALSE
  /\ pc = "startup" /\ calls = TaskCalls /\ c = NUL /\ line = <<>> /\ executed = <<>>
  /\ field = 1 /\ reg = NoCopy
  /\ spins = FALSE /\ typed = <<>> /\ down = {} /\ presses = 0 /\ missed = FALSE

\* The characters between tail and head.
Queued == [i \in 1 .. (head - tail) % KBSIZE |-> slots[(tail + i - 1) % KBSIZE]]

-----------------------------------------------------------------------------
(***************************************************************************)
(* Interrupts.                                                             *)
(***************************************************************************)
\* scancode_to_ascii and scancode_to_ascii_shifted on the keys of the model.
\* Shift takes the other table, where caps lock is not looked at.
Ascii(k) ==
  IF k = "a" THEN IF shift \/ caps THEN "A" ELSE "a"
  ELSE IF k = "1" THEN IF shift THEN "!" ELSE "1"
  ELSE k

\* Any interrupt ends the hlt of shell_run, after which it looks again.
Wake == pc' = IF pc = "halted" THEN "check" ELSE pc

\* Mutant: a full ring takes one more.
EnqueueAlways(ch) ==
  /\ slots' = [slots EXCEPT ![head] = ch]
  /\ head' = (head + 1) % KBSIZE
  /\ typed' = Append(typed, ch)

\* Under kb_lock; a character that finds the ring full is dropped.
Enqueue(ch) ==
  IF (head + 1) % KBSIZE # tail
  THEN /\ slots' = [slots EXCEPT ![head] = ch]
       /\ head' = (head + 1) % KBSIZE
       /\ typed' = Append(typed, ch)
  ELSE UNCHANGED <<slots, head, typed>>

\* Mutant: the release of a shift key is not looked at.
ModifiersIgnoreRelease(k, up) ==
  /\ shift' = (shift \/ k \in ShiftCodes)
  /\ caps' = IF k = "caps" /\ ~up THEN ~caps ELSE caps

\* All shift codes set and clear the same flag; caps lock turns at each press.
Modifiers(k, up) ==
  /\ shift' = IF k \in ShiftCodes THEN ~up ELSE shift
  /\ caps' = IF k = "caps" /\ ~up THEN ~caps ELSE caps

\* keyboard_handle_scancode.
Scancode(k, up) ==
  LET character == k \notin ShiftCodes \cup {"caps"} /\ ~up
  IN  IF character /\ kbLock
      THEN /\ spins' = TRUE
           /\ UNCHANGED <<keyboard, typed, pc>>
      ELSE /\ Modifiers(k, up)
           /\ IF character THEN Enqueue(Ascii(k)) ELSE UNCHANGED <<slots, head, typed>>
           /\ Wake
           /\ UNCHANGED <<tail, kbLock, spins>>

\* A key goes down, or repeats.  With a shift key held the fake shift only
\* restores what its break has suspended.
Press(k) ==
  /\ ~spins /\ presses < MaxPresses
  /\ presses' = presses + 1
  /\ down' = down \cup (IF k = FAKE /\ down # {} THEN {} ELSE {k} \cap ShiftCodes)
  /\ missed' = (missed /\ k \notin ShiftCodes)
  /\ Scancode(k, FALSE)
  /\ UNCHANGED <<calls, c, line, executed, taskLock, field, reg>>

Release(k) ==
  /\ ~spins
  /\ (k \in ShiftKeys => k \in down) /\ (k = FAKE => down # {})
  /\ down' = down \ {k}
  /\ missed' = IF k \in ShiftCodes THEN pc = "init store" ELSE missed
  /\ Scancode(k, TRUE)
  /\ UNCHANGED <<calls, c, line, executed, taskLock, field, reg, presses>>

\* Mutant: the timer's line stays masked.
OnlyKeyboard == {"keyboard"}

\* The lines pic_test opens; pic_init has masked all of them.
OpenLines == {"timer", "keyboard"}

\* IRQ 0: pit_tick and task_scheduler_tick, which looks at the tasks under
\* task_table_lock.  What it does to them is TaskScheduler's.
Timer ==
  /\ ~spins /\ "timer" \in OpenLines
  /\ IF taskLock
     THEN spins' = TRUE /\ UNCHANGED pc
     ELSE Wake /\ UNCHANGED spins
  /\ UNCHANGED <<keyboard, typed, calls, c, line, executed, taskLock, field, reg,
                 down, presses, missed>>

-----------------------------------------------------------------------------
(***************************************************************************)
(* The main thread.                                                        *)
(***************************************************************************)
Step(from, to) == ~spins /\ pc = from /\ pc' = to
UnchangedOutside == UNCHANGED <<shift, caps, spins, typed, down, presses, missed, field, reg>>

\* The demonstration's calls of task_spawn, task_get and so on, each under
\* task_table_lock.
TaskCall ==
  /\ Step("startup", "in task call") /\ calls > 0
  /\ taskLock' = TRUE /\ calls' = calls - 1
  /\ UNCHANGED <<keyboard, c, line, executed>> /\ UnchangedOutside

TaskReturn ==
  /\ Step("in task call", "startup")
  /\ taskLock' = FALSE
  /\ UNCHANGED <<keyboard, calls, c, line, executed>> /\ UnchangedOutside

\* shell_init: keyboard_init, not under the lock, store by store.  Characters
\* typed before are gone.
InitHead ==
  /\ Step("startup", "init tail") /\ calls = 0
  /\ head' = 0 /\ typed' = <<>>
  /\ UNCHANGED <<slots, tail, kbLock, shift, caps, calls, c, line, executed, taskLock,
                 spins, down, presses, missed, field, reg>>

InitTail ==
  /\ Step("init tail", "init load")
  /\ tail' = 0
  /\ UNCHANGED <<slots, head, kbLock, calls, c, line, executed, taskLock>> /\ UnchangedOutside

\* Each bit-field is cleared in a copy of the byte, which is stored back: what an
\* interrupt has done to the others in between is undone.
InitLoad ==
  /\ Step("init load", "init store")
  /\ reg' = [shift |-> shift, caps |-> caps]
  /\ UNCHANGED <<keyboard, calls, c, line, executed, taskLock, field,
                 spins, typed, down, presses, missed>>

InitStore ==
  /\ Step("init store", IF field = Len(BitFields) THEN "check" ELSE "init load")
  /\ shift' = (reg.shift /\ BitFields[field] # "shift")
  /\ caps' = (reg.caps /\ BitFields[field] # "caps")
  /\ field' = IF field = Len(BitFields) THEN field ELSE field + 1
  /\ line' = <<>> /\ reg' = NoCopy
  /\ UNCHANGED <<slots, head, tail, kbLock, calls, c, executed, taskLock,
                 spins, typed, down, presses, missed>>

\* keyboard_has_input; the hlt that follows is a step of its own.
Check ==
  /\ Step("check", IF head # tail THEN "getchar" ELSE "hlt")
  /\ UNCHANGED <<keyboard, calls, c, line, executed, taskLock>> /\ UnchangedOutside

Halt ==
  /\ Step("hlt", "halted")
  /\ UNCHANGED <<keyboard, calls, c, line, executed, taskLock>> /\ UnchangedOutside

\* keyboard_getchar: looks again, then takes the lock, the character and the
\* place.
GetChar ==
  /\ IF head = tail
     THEN Step("getchar", "edit") /\ c' = NUL /\ UNCHANGED kbLock
     ELSE Step("getchar", "take") /\ kbLock' = TRUE /\ UNCHANGED c
  /\ UNCHANGED <<slots, head, tail, calls, line, executed, taskLock>> /\ UnchangedOutside

Take ==
  /\ Step("take", "advance")
  /\ c' = slots[tail]
  /\ UNCHANGED <<keyboard, calls, line, executed, taskLock>> /\ UnchangedOutside

Advance ==
  /\ Step("advance", "unlock")
  /\ tail' = (tail + 1) % KBSIZE
  /\ UNCHANGED <<slots, head, kbLock, calls, c, line, executed, taskLock>> /\ UnchangedOutside

Unlock ==
  /\ Step("unlock", "edit")
  /\ kbLock' = FALSE
  /\ UNCHANGED <<slots, head, tail, calls, c, line, executed, taskLock>> /\ UnchangedOutside

\* shell_parse_command: the blanks are made ends of strings one by one until
\* the last argument that fits has begun; what follows it stays part of it.
Look(input, s, i) ==
  IF Len(s.argv) >= MAXARGS THEN s
  ELSE IF input[i] = "space" THEN [s EXCEPT !.ends = @ \cup {i}, !.inToken = FALSE]
  ELSE IF ~s.inToken THEN [s EXCEPT !.argv = Append(@, i), !.inToken = TRUE]
  ELSE s
Parsed(input) ==
  LET s[i \in 0 .. Len(input)] ==
        IF i = 0 THEN [argv |-> <<>>, ends |-> {Len(input) + 1}, inToken |-> FALSE]
        ELSE Look(input, s[i - 1], i)
  IN  s[Len(input)]
EndOf(ends, i) == Min({e \in ends : e > i})
shell_parse_command(input) ==
  LET parsed == Parsed(input)
  IN  [k \in 1 .. Len(parsed.argv) |->
         SubSeq(input, parsed.argv[k], EndOf(parsed.ends, parsed.argv[k]) - 1)]

\* shell_run's handling of one character.  What the command does is not
\* modelled here.
Edit ==
  /\ Step("edit", "check")
  /\ IF c = "enter"
     THEN /\ line' = <<>>
          /\ executed' = IF shell_parse_command(line) # <<>>
                         THEN Append(executed, shell_parse_command(line)) ELSE executed
     ELSE /\ line' = IF c = "backspace" THEN SubSeq(line, 1, Len(line) - 1)
                     ELSE IF Len(line) < LINE - 1 THEN Append(line, c)
                     ELSE line
          /\ UNCHANGED executed
  /\ UNCHANGED <<keyboard, calls, c, taskLock>> /\ UnchangedOutside

Main ==
  \/ TaskCall \/ TaskReturn \/ InitHead \/ InitTail \/ InitLoad \/ InitStore
  \/ Check \/ Halt \/ GetChar \/ Take \/ Advance \/ Unlock \/ Edit

Next ==
  \/ Main
  \/ Timer
  \/ \E k \in Keys : Press(k) \/ Release(k)

\* The main thread runs between interrupts, and the timer ticks.  Nobody has
\* to press a key.
Spec == Init /\ [][Next]_vars /\ WF_vars(Main) /\ WF_vars(Timer)

-----------------------------------------------------------------------------
(***************************************************************************)
(* Properties.                                                             *)
(***************************************************************************)
ShellIsUp == pc \notin {"startup", "in task call", "init tail", "init load", "init store"}

\* The characters the shell has dealt with: all that went into the ring but
\* those still there and the one it has in its hand.
Edited ==
  SubSeq(typed, 1, Len(typed) - Len(Queued) - (IF pc \in {"unlock", "edit"} THEN 1 ELSE 0))

\* The arguments of a line: its words; the last one that fits is the rest.
Starts(input) ==
  {i \in DOMAIN input : input[i] # "space" /\ (i > 1 => input[i - 1] = "space")}
InOrder(S) ==
  CHOOSE q \in [1 .. Cardinality(S) -> S] : \A j, k \in DOMAIN q : j < k => q[j] < q[k]
LastOf(input, i) ==
  CHOOSE e \in i .. Len(input) :
    /\ \A j \in i .. e : input[j] # "space"
    /\ e < Len(input) => input[e + 1] = "space"
Words(input) ==
  LET starts == InOrder(Starts(input))
  IN  [k \in {n \in DOMAIN starts : n <= MAXARGS} |->
         SubSeq(input, starts[k], IF k = MAXARGS THEN Len(input) ELSE LastOf(input, starts[k]))]

\* What one has typed, as lines.
Typed(s, ch) ==
  IF ch = "enter"
  THEN [lines |-> IF Words(s.line) = <<>> THEN s.lines ELSE Append(s.lines, Words(s.line)),
        line |-> <<>>]
  ELSE IF ch = "backspace" THEN [s EXCEPT !.line = SubSeq(@, 1, Len(@) - 1)]
  ELSE IF Len(s.line) = LINE - 1 THEN s
  ELSE [s EXCEPT !.line = Append(@, ch)]
Typewriter(text) ==
  LET s[n \in 0 .. Len(text)] ==
        IF n = 0 THEN [lines |-> <<>>, line |-> <<>>] ELSE Typed(s[n - 1], text[n])
  IN  s[Len(text)]

\* The lines the shell has run and the one it edits are what was typed and got
\* a place in the ring: no character of it is lost, doubled, changed or out of
\* order, wherever the interrupts came between the steps of the shell.
LinesAreWhatWasTyped ==
  ShellIsUp =>
    [lines |-> executed, line |-> line] = Typewriter(Edited)

\* The shift flag is set only while a shift key is down, or the fake shift of an
\* extended key, but for one case: the last of them went up while keyboard_init
\* had an older copy of the byte in hand, which it then stored (keyboard.c:56-61).
\* No other order of codes and steps leaves the flag stuck, and then it stays only
\* until the next shift code.  (It may be clear with a key down.)
NoStuckShift == shift => down # {} \/ missed

\* A character in the ring is read in the end, unless a handler spins: a key
\* that comes between the shell's look at the ring and its hlt wakes nobody,
\* but the next tick of the timer does.
KeysAreRead ==
  \A n \in 1 .. MaxPresses :
    (ShellIsUp /\ Len(typed) >= n) ~> (spins \/ Len(Edited) >= n)

\* Every variable has its type.
TypeOK ==
  /\ head \in DOMAIN slots /\ tail \in DOMAIN slots
  /\ {kbLock, taskLock, shift, caps, spins, missed} \subseteq BOOLEAN
  /\ field \in DOMAIN BitFields /\ reg \in [shift : BOOLEAN, caps : BOOLEAN]
  /\ Len(line) < LINE /\ down \subseteq ShiftCodes
=============================================================================
