---------------------------- MODULE ConsoleProofs ----------------------------
(***************************************************************************)
(* For every size of the ring, of the line and of the arguments, and for   *)
(* every keyboard: the lines the shell has run, and the one it edits, are  *)
(* what was typed; and the shift flag is set only with a shift key down,   *)
(* or after the one release that keyboard_init undoes.                     *)
(***************************************************************************)
EXTENDS Console, TLAPS, FiniteSetTheorems, SequenceTheorems, WellFoundedInduction

-------------------------------------------------------------------------------
(***************************************************************************)
(* Numbers and loops.                                                      *)
(***************************************************************************)
LEMMA ConsoleConstants ==
  /\ KBSIZE \in Nat /\ 0 < KBSIZE /\ LINE \in Nat /\ 0 < LINE /\ MAXARGS \in Nat /\ 0 < MAXARGS
  /\ TaskCalls \in Nat /\ MaxPresses \in Nat
BY ConsoleAssumption

\* The remainder of a number less than one turn away from the ring.
LEMMA Turn ==
  ASSUME NEW x \in Int
  PROVE  /\ 0 <= x /\ x < KBSIZE => x % KBSIZE = x
         /\ KBSIZE <= x /\ x < KBSIZE + KBSIZE => x % KBSIZE = x - KBSIZE
         /\ -KBSIZE <= x /\ x < 0 => x % KBSIZE = x + KBSIZE
<1>1. KBSIZE \in Nat /\ KBSIZE > 0
  BY ConsoleConstants
<1>2. ASSUME NEW k \in {-1, 0, 1}, x - KBSIZE * k \in 0 .. KBSIZE - 1
      PROVE  x % KBSIZE = x - KBSIZE * k
  BY <1>1, <1>2
<1> QED BY <1>1, <1>2

\* A set of numbers that is not empty has a least member, and Min finds it.
LEMMA LeastMember ==
  ASSUME NEW S, S \subseteq Nat, S # {}
  PROVE  Min(S) \in S /\ \A t \in S : Min(S) <= t
<1> DEFINE R == OpToRel(<, Nat)
<1>1. \E x \in S : \A y \in S : ~ (<<y, x>> \in R)
  <2> HIDE DEF R
  <2>1. IsWellFoundedOn(R, Nat)
    BY NatLessThanWellFounded DEF R
  <2> QED BY <2>1, WFMin
<1>2. \A x, y \in Nat : y < x => <<y, x>> \in R
  BY DEF OpToRel
<1>3. \E x \in S : \A y \in S : x <= y
  <2> HIDE DEF R
  <2>1. PICK x \in S : \A y \in S : ~ (<<y, x>> \in R)
    BY <1>1
  <2>2. ASSUME NEW y \in S PROVE x <= y
    <3>1. x \in Nat /\ y \in Nat /\ ~ (y < x)
      BY <1>2, <2>1
    <3> QED BY <3>1
  <2> QED BY <2>2
<1> QED BY <1>3 DEF Min

\* What holds before a loop and is kept by each turn holds after every turn.
LEMMA LoopKeeps ==
  ASSUME NEW S, NEW n \in Nat, NEW w, w[0] \in S,
         \A k \in 1 .. n : w[k - 1] \in S => w[k] \in S
  PROVE  \A k \in 0 .. n : w[k] \in S
<1> DEFINE bad == {k \in 0 .. n : w[k] \notin S}
<1>1. SUFFICES ASSUME bad # {} PROVE FALSE
  OBVIOUS
<1>2. PICK k : k \in bad /\ \A t \in bad : k <= t
  <2>1. bad \subseteq Nat
    OBVIOUS
  <2> HIDE DEF bad
  <2> QED BY <1>1, <2>1, LeastMember
<1>3. k \in 1 .. n /\ k - 1 \in 0 .. n
  <2>1. k \in 0 .. n /\ k # 0
    BY <1>2
  <2> QED BY <2>1
<1>4. k - 1 \notin bad
  <2>1. ~ (k <= k - 1)
    BY <1>3
  <2> QED BY <1>2, <2>1
<1>5. w[k - 1] \in S
  BY <1>3, <1>4
<1> QED BY <1>2, <1>3, <1>5

\* A loop of n turns that starts with x and whose k-th turn is F[k] has a run g.
IsRun(g, S, n, x, F) ==
  g \in [0 .. n -> S] /\ g[0] = x /\ \A k \in 1 .. n : g[k] = F[k][g[k - 1]]

LEMMA LoopRuns ==
  ASSUME NEW S, NEW n \in Nat, NEW x \in S, NEW F \in [1 .. n -> [S -> S]]
  PROVE  \E g : IsRun(g, S, n, x, F)
<1> USE DEF IsRun
<1> DEFINE Run(m, g) == g \in [0 .. m -> S] /\ g[0] = x /\ \A k \in 1 .. m : g[k] = F[k][g[k - 1]]
           bad == {m \in 0 .. n : ~ \E g : Run(m, g)}
<1>1. SUFFICES ASSUME bad # {} PROVE FALSE
  <2>1. n \notin bad
    BY <1>1
  <2>2. \E g : Run(n, g)
    BY <2>1
  <2> QED BY <2>2
<1>2. PICK m : m \in bad /\ \A t \in bad : m <= t
  <2>1. bad \subseteq Nat
    OBVIOUS
  <2> HIDE DEF bad
  <2> QED BY <1>1, <2>1, LeastMember
<1>3. m # 0
  <2>1. Run(0, [k \in 0 .. 0 |-> x])
    OBVIOUS
  <2> QED BY <1>2, <2>1
<1>4. m \in 1 .. n /\ m - 1 \in 0 .. n /\ m - 1 \notin bad
  <2>1. m \in 0 .. n
    BY <1>2
  <2>2. m \in 1 .. n /\ m - 1 \in 0 .. n /\ ~ (m <= m - 1)
    BY <1>3, <2>1
  <2> QED BY <1>2, <2>2
<1>5. PICK g : Run(m - 1, g)
  BY <1>4
<1> DEFINE h == [k \in 0 .. m |-> IF k = m THEN F[m][g[m - 1]] ELSE g[k]]
<1>6. Run(m, h)
  <2>1. F[m][g[m - 1]] \in S
    BY <1>4, <1>5
  <2>2. h \in [0 .. m -> S] /\ h[0] = x
    BY <1>3, <1>4, <1>5, <2>1
  <2>3. ASSUME NEW k \in 1 .. m PROVE h[k] = F[k][h[k - 1]]
    <3>1. k \in 0 .. m /\ k - 1 \in 0 .. m /\ k - 1 # m /\ m - 1 \in 0 .. m
      BY <1>4, <2>3
    <3>2. CASE k = m
      BY <3>1, <3>2
    <3>3. CASE k # m
      <4>1. k \in 1 .. m - 1
        BY <1>4, <3>3
      <4> QED BY <1>5, <3>1, <3>3, <4>1
    <3> QED BY <3>2, <3>3
  <2> QED BY <2>2, <2>3
<1> QED BY <1>2, <1>6

-------------------------------------------------------------------------------
(***************************************************************************)
(* The ring.                                                               *)
(***************************************************************************)
Char == Keys \cup {"a", "A", "1", "!", NUL}
Place == 0 .. KBSIZE - 1
Waiting == (head - tail) % KBSIZE
Before == {"startup", "in task call", "init tail", "init load", "init store"}
Running == {"check", "hlt", "halted", "getchar", "take", "advance", "unlock", "edit"}
ArgumentVectors == {Words(input) : input \in Seq(Char)}

ConsoleTypes ==
  /\ slots \in [Place -> Char] /\ head \in Place /\ tail \in Place
  /\ kbLock \in BOOLEAN /\ taskLock \in BOOLEAN /\ shift \in BOOLEAN /\ caps \in BOOLEAN
  /\ spins \in BOOLEAN /\ pc \in Before \cup Running
  /\ c \in Char /\ line \in Seq(Char) /\ Len(line) < LINE /\ executed \in Seq(ArgumentVectors)
  /\ typed \in Seq(Char) /\ down \subseteq ShiftCodes

\* The characters between tail and head are the last ones typed.
QueueInv ==
  /\ Waiting <= Len(typed)
  /\ \A i \in 1 .. Waiting : slots[(tail + i - 1) % KBSIZE] = typed[Len(typed) - Waiting + i]

\* Before the loop of the shell nothing has been taken out; in it, a character is
\* taken only when there is one, and the one in hand is the next of those typed.
HandInv ==
  /\ pc \in Before => tail = 0 /\ Len(typed) = Waiting /\ line = <<>> /\ executed = <<>>
  /\ pc \in {"getchar", "take", "advance"} => head # tail
  /\ pc = "advance" => c = slots[tail]
  /\ pc \in {"unlock", "edit"} => Waiting < Len(typed) /\ c = typed[Len(typed) - Waiting]

\* The flag follows the shift keys, in the copy keyboard_init holds of it as well.
CopyTypes ==
  field \in DOMAIN BitFields /\ reg \in [shift : BOOLEAN, caps : BOOLEAN] /\ missed \in BOOLEAN
CopyInv == pc = "init store" /\ reg.shift => down # {} \/ missed
ShiftInv == NoStuckShift /\ CopyTypes /\ CopyInv

ConsoleInv == ConsoleTypes /\ QueueInv /\ HandInv /\ LinesAreWhatWasTyped /\ ShiftInv

\* How far head is from tail.
LEMMA Distance ==
  ASSUME NEW h \in Place, NEW t \in Place
  PROVE  /\ (h - t) % KBSIZE = IF t <= h THEN h - t ELSE h - t + KBSIZE
         /\ (h - t) % KBSIZE \in Place
         /\ (h - t) % KBSIZE = 0 <=> h = t
         /\ \A i \in 0 .. KBSIZE : (t + i) % KBSIZE = (IF t + i < KBSIZE THEN t + i ELSE t + i - KBSIZE)
         /\ \A i \in 0 .. KBSIZE : (t + i) % KBSIZE \in Place
<1>1. KBSIZE \in Nat /\ 0 < KBSIZE /\ h \in Nat /\ t \in Nat /\ h < KBSIZE /\ t < KBSIZE
  BY ConsoleConstants DEF Place
<1>2. (h - t) % KBSIZE = IF t <= h THEN h - t ELSE h - t + KBSIZE
  <2>1. h - t \in Int /\ -KBSIZE <= h - t /\ h - t < KBSIZE /\ (t <= h <=> 0 <= h - t)
    BY <1>1
  <2> QED BY <1>1, <2>1, Turn
<1>3. ASSUME NEW i \in 0 .. KBSIZE
      PROVE  (t + i) % KBSIZE = IF t + i < KBSIZE THEN t + i ELSE t + i - KBSIZE
  <2>1. t + i \in Int /\ 0 <= t + i /\ t + i < KBSIZE + KBSIZE
    BY <1>1, <1>3
  <2> QED BY <1>1, <2>1, Turn
<1>4. \A i \in 0 .. KBSIZE : (t + i) % KBSIZE \in Place
  BY <1>1, <1>3 DEF Place
<1> QED BY <1>1, <1>2, <1>3, <1>4 DEF Place

\* A character put behind the others: they stay where they are.
LEMMA OneMore ==
  ASSUME NEW h \in Place, NEW t \in Place, (h + 1) % KBSIZE # t
  PROVE  /\ (h + 1) % KBSIZE \in Place
         /\ (((h + 1) % KBSIZE) - t) % KBSIZE = ((h - t) % KBSIZE) + 1
         /\ (t + ((h - t) % KBSIZE)) % KBSIZE = h
         /\ \A i \in 1 .. (h - t) % KBSIZE : (t + i - 1) % KBSIZE # h
<1>1. KBSIZE \in Nat /\ 0 < KBSIZE /\ h \in Nat /\ t \in Nat /\ h < KBSIZE /\ t < KBSIZE
  BY ConsoleConstants DEF Place
<1> DEFINE n == (h - t) % KBSIZE
           g == (h + 1) % KBSIZE
<1>4. g = (IF h + 1 < KBSIZE THEN h + 1 ELSE h + 1 - KBSIZE) /\ g \in Place
  <2>1. 1 \in 0 .. KBSIZE
    BY <1>1
  <2> QED BY <2>1, Distance
<1>5. n = (IF t <= h THEN h - t ELSE h - t + KBSIZE)
  BY Distance
<1>3. g # t
  OBVIOUS
<1> HIDE DEF n, g
<1>6. (g - t) % KBSIZE = IF t <= g THEN g - t ELSE g - t + KBSIZE
  BY <1>4, Distance
<1>7. g \in Nat /\ g # t
  BY <1>3, <1>4, <1>1 DEF Place
<1>8. (g - t) % KBSIZE = n + 1
  BY <1>1, <1>4, <1>5, <1>6, <1>7
<1>9. n \in 0 .. KBSIZE /\ (t + n) % KBSIZE = h
  <2>1. n \in 0 .. KBSIZE
    BY <1>1, <1>5
  <2>2. (t + n) % KBSIZE = IF t + n < KBSIZE THEN t + n ELSE t + n - KBSIZE
    BY <2>1, Distance
  <2> QED BY <1>1, <1>5, <2>1, <2>2
<1>10. ASSUME NEW i \in 1 .. n PROVE (t + i - 1) % KBSIZE # h
  <2>1. PICK j : j = i - 1
    OBVIOUS
  <2>2. j \in 0 .. KBSIZE /\ j < n /\ t + i - 1 = t + j
    BY <1>1, <1>9, <1>10, <2>1
  <2>3. (t + j) % KBSIZE = IF t + j < KBSIZE THEN t + j ELSE t + j - KBSIZE
    BY <2>2, Distance
  <2>4. (t + j) % KBSIZE # h
    BY <1>1, <1>5, <2>2, <2>3
  <2> QED BY <2>2, <2>4
<1> QED BY <1>4, <1>8, <1>9, <1>10 DEF n, g

\* The first of the characters taken out: the others move up by one.
LEMMA OneLess ==
  ASSUME NEW h \in Place, NEW t \in Place, h # t
  PROVE  /\ (t + 1) % KBSIZE \in Place
         /\ (h - t) % KBSIZE = ((h - ((t + 1) % KBSIZE)) % KBSIZE) + 1
         /\ \A i \in 1 .. KBSIZE - 1 : (((t + 1) % KBSIZE) + i - 1) % KBSIZE = (t + i) % KBSIZE
<1>1. KBSIZE \in Nat /\ 0 < KBSIZE /\ h \in Nat /\ t \in Nat /\ h < KBSIZE /\ t < KBSIZE
  BY ConsoleConstants DEF Place
<1> DEFINE u == (t + 1) % KBSIZE
<1>3. u = (IF t + 1 < KBSIZE THEN t + 1 ELSE t + 1 - KBSIZE) /\ u \in Place
  <2>1. 1 \in 0 .. KBSIZE
    BY <1>1
  <2> QED BY <2>1, Distance
<1> HIDE DEF u
<1>4. u \in Nat
  BY <1>1, <1>3 DEF Place
<1>5. (h - t) % KBSIZE = ((h - u) % KBSIZE) + 1
  <2>1. (h - t) % KBSIZE = IF t <= h THEN h - t ELSE h - t + KBSIZE
    BY Distance
  <2>2. (h - u) % KBSIZE = IF u <= h THEN h - u ELSE h - u + KBSIZE
    BY <1>3, Distance
  <2> QED BY <1>1, <1>3, <1>4, <2>1, <2>2
<1>6. ASSUME NEW i \in 1 .. KBSIZE - 1 PROVE (u + i - 1) % KBSIZE = (t + i) % KBSIZE
  <2>1. PICK j : j = i - 1
    OBVIOUS
  <2>2. j \in 0 .. KBSIZE /\ i \in 0 .. KBSIZE /\ u + i - 1 = u + j /\ j = i - 1
    BY <1>1, <1>4, <1>6, <2>1
  <2>3. (u + j) % KBSIZE = IF u + j < KBSIZE THEN u + j ELSE u + j - KBSIZE
    BY <1>3, <2>2, Distance
  <2>4. (t + i) % KBSIZE = IF t + i < KBSIZE THEN t + i ELSE t + i - KBSIZE
    BY <2>2, Distance
  <2>5. (u + j) % KBSIZE = (t + i) % KBSIZE
    BY <1>1, <1>3, <1>4, <1>6, <2>2, <2>3, <2>4
  <2> QED BY <2>2, <2>5
<1> QED BY <1>3, <1>5, <1>6 DEF u

-------------------------------------------------------------------------------
(***************************************************************************)
(* What an interrupt does.                                                 *)
(***************************************************************************)
\* A character goes behind those in the ring.
Arrives(ch) ==
  /\ (head + 1) % KBSIZE # tail
  /\ slots' = [slots EXCEPT ![head] = ch]
  /\ head' = (head + 1) % KBSIZE
  /\ typed' = Append(typed, ch)

Interrupt ==
  /\ (\E ch \in Char : Arrives(ch)) \/ UNCHANGED <<slots, head, typed>>
  /\ pc' = pc \/ (pc = "halted" /\ pc' = "check")
  /\ UNCHANGED <<tail, c, line, executed, taskLock, kbLock>>
  /\ shift' \in BOOLEAN /\ caps' \in BOOLEAN /\ spins' \in BOOLEAN /\ down' \subseteq ShiftCodes

LEMMA KeyInterrupts ==
  ASSUME ConsoleTypes, NEW k \in Keys, NEW up \in BOOLEAN, Scancode(k, up),
         UNCHANGED <<c, line, executed, taskLock>>, down' \subseteq ShiftCodes
  PROVE  Interrupt
<1>1. /\ kbLock \in BOOLEAN /\ shift \in BOOLEAN /\ caps \in BOOLEAN /\ spins \in BOOLEAN
  BY DEF ConsoleTypes
<1>2. Ascii(k) \in Char
  BY DEF Ascii, Char
<1> DEFINE character == k \notin ShiftCodes \cup {"caps"} /\ ~up
<1>3. CASE character /\ kbLock
  <2>1. spins' = TRUE /\ UNCHANGED <<keyboard, typed, pc>>
    BY <1>3 DEF Scancode
  <2> QED BY <1>1, <2>1 DEF Interrupt, keyboard
<1>4. CASE ~ (character /\ kbLock)
  <2>1. /\ Modifiers(k, up)
        /\ IF character THEN Enqueue(Ascii(k)) ELSE UNCHANGED <<slots, head, typed>>
        /\ Wake
        /\ UNCHANGED <<tail, kbLock, spins>>
    BY <1>4 DEF Scancode
  <2> HIDE DEF character
  <2>2. (\E ch \in Char : Arrives(ch)) \/ UNCHANGED <<slots, head, typed>>
    <3>1. CASE character
      BY <1>2, <2>1, <3>1 DEF Enqueue, Arrives
    <3>2. CASE ~ character
      BY <2>1, <3>2
    <3> QED BY <3>1, <3>2
  <2>3. pc' = pc \/ (pc = "halted" /\ pc' = "check")
    BY <2>1 DEF Wake
  <2>4. shift' \in BOOLEAN /\ caps' \in BOOLEAN
    BY <1>1, <2>1 DEF Modifiers
  <2> QED BY <1>1, <2>1, <2>2, <2>3, <2>4 DEF Interrupt
<1> QED BY <1>3, <1>4

LEMMA InterruptSteps ==
  ASSUME ConsoleTypes, Timer \/ \E k \in Keys : Press(k) \/ Release(k)
  PROVE  Interrupt
<1>1. /\ kbLock \in BOOLEAN /\ shift \in BOOLEAN /\ caps \in BOOLEAN /\ spins \in BOOLEAN
      /\ down \subseteq ShiftCodes
  BY DEF ConsoleTypes
<1>2. CASE Timer
  <2>1. /\ UNCHANGED <<keyboard, typed, c, line, executed, taskLock, down>>
        /\ spins' = TRUE \/ UNCHANGED spins
        /\ UNCHANGED pc \/ Wake
    BY <1>2 DEF Timer
  <2>2. pc' = pc \/ (pc = "halted" /\ pc' = "check")
    BY <2>1 DEF Wake
  <2> QED BY <1>1, <2>1, <2>2 DEF Interrupt, keyboard
<1>3. ASSUME NEW k \in Keys, Press(k) PROVE Interrupt
  <2>1. /\ down' = down \cup (IF k = FAKE /\ down # {} THEN {} ELSE {k} \cap ShiftCodes)
        /\ Scancode(k, FALSE) /\ UNCHANGED <<c, line, executed, taskLock>>
    BY <1>3 DEF Press
  <2>2. down' \subseteq ShiftCodes
    BY <1>1, <2>1
  <2> QED BY <2>1, <2>2, KeyInterrupts
<1>4. ASSUME NEW k \in Keys, Release(k) PROVE Interrupt
  <2>1. down' = down \ {k} /\ Scancode(k, TRUE) /\ UNCHANGED <<c, line, executed, taskLock>>
    BY <1>4 DEF Release
  <2>2. down' \subseteq ShiftCodes
    BY <1>1, <2>1
  <2> QED BY <2>1, <2>2, KeyInterrupts
<1> QED BY <1>2, <1>3, <1>4

\* What keyboard_init has in hand keeps its types.
LEMMA CopyStep ==
  ASSUME ConsoleTypes, CopyTypes, Next
  PROVE  CopyTypes'
<1>1. /\ shift \in BOOLEAN /\ caps \in BOOLEAN /\ missed \in BOOLEAN /\ field \in DOMAIN BitFields
      /\ reg \in [shift : BOOLEAN, caps : BOOLEAN]
  BY DEF ConsoleTypes, CopyTypes
<1>2. Len(BitFields) = 6 /\ DOMAIN BitFields = 1 .. 6
  BY DEF BitFields
<1>3. CASE UNCHANGED <<field, reg, missed>>
  BY <1>1, <1>3 DEF CopyTypes
<1>4. CASE InitLoad
  BY <1>1, <1>4 DEF InitLoad, CopyTypes
<1>5. CASE InitStore
  <2>1. /\ field' = (IF field = Len(BitFields) THEN field ELSE field + 1) /\ reg' = NoCopy
        /\ missed' = missed
    BY <1>5 DEF InitStore
  <2>2. field' \in DOMAIN BitFields
    BY <1>1, <1>2, <2>1
  <2> QED BY <1>1, <2>1, <2>2 DEF CopyTypes, NoCopy
<1>6. ASSUME NEW k \in Keys, Press(k) \/ Release(k) PROVE CopyTypes'
  <2>1. UNCHANGED <<field, reg>> /\ missed' \in BOOLEAN
    BY <1>1, <1>6 DEF Press, Release
  <2> QED BY <1>1, <2>1 DEF CopyTypes
<1>7. CASE Timer \/ TaskCall \/ TaskReturn \/ InitHead \/ InitTail \/ Check \/ Halt
  <2>1. UNCHANGED <<field, reg, missed>>
    BY <1>7 DEF Timer, TaskCall, TaskReturn, InitHead, InitTail, Check, Halt, UnchangedOutside
  <2> QED BY <1>3, <2>1
<1>8. CASE GetChar \/ Take \/ Advance \/ Unlock \/ Edit
  <2>1. UNCHANGED <<field, reg, missed>>
    BY <1>8 DEF GetChar, Take, Advance, Unlock, Edit, UnchangedOutside
  <2> QED BY <1>3, <2>1
<1> QED BY <1>4, <1>5, <1>6, <1>7, <1>8 DEF Next, Main

\* The shift flag is set by the make of a shift code, whose key is then down, and
\* cleared by the break of any - unless that comes between a load and a store of
\* keyboard_init, whose copy may have it set.
LEMMA ShiftStep ==
  ASSUME ConsoleTypes, ShiftInv, Next
  PROVE  NoStuckShift' /\ CopyInv'
<1>1. /\ shift \in BOOLEAN /\ down \subseteq ShiftCodes /\ missed \in BOOLEAN
      /\ (shift => down # {} \/ missed)
      /\ (pc = "init store" /\ reg.shift => down # {} \/ missed)
  BY DEF ConsoleTypes, ShiftInv, CopyTypes, CopyInv, NoStuckShift
<1>2. CASE InitLoad
  <2>1. reg'.shift = shift /\ UNCHANGED <<shift, down, missed>>
    BY <1>2 DEF InitLoad, keyboard
  <2> QED BY <1>1, <2>1 DEF NoStuckShift, CopyInv
<1>3. CASE InitStore
  <2>1. pc = "init store" /\ (shift' => reg.shift) /\ UNCHANGED <<down, missed>>
    BY <1>3 DEF InitStore, Step
  <2>2. reg'.shift = FALSE
    BY <1>3 DEF InitStore, NoCopy
  <2> QED BY <1>1, <2>1, <2>2 DEF NoStuckShift, CopyInv
<1>4. CASE UNCHANGED <<shift, down, missed>> /\ pc' # "init store"
  BY <1>1, <1>4 DEF NoStuckShift, CopyInv
<1>5. CASE Timer
  <2>1. UNCHANGED <<shift, down, missed, reg>> /\ (pc' = pc \/ pc' = "check")
    BY <1>5 DEF Timer, Wake, keyboard
  <2> QED BY <1>1, <2>1 DEF NoStuckShift, CopyInv
<1>6. CASE TaskCall \/ TaskReturn \/ InitHead \/ InitTail \/ Check \/ Halt
  <2>1. UNCHANGED <<shift, down, missed>> /\ pc' # "init store"
    BY <1>6 DEF TaskCall, TaskReturn, InitHead, InitTail, Check, Halt, Step, UnchangedOutside, keyboard
  <2> QED BY <1>4, <2>1
<1>7. CASE GetChar \/ Take \/ Advance \/ Unlock \/ Edit
  <2>1. UNCHANGED <<shift, down, missed>> /\ pc' # "init store"
    BY <1>7 DEF GetChar, Take, Advance, Unlock, Edit, Step, UnchangedOutside, keyboard
  <2> QED BY <1>4, <2>1
<1>8. ASSUME NEW k \in Keys, NEW up \in BOOLEAN, Scancode(k, up)
      PROVE  /\ shift' = (IF k \in ShiftCodes THEN ~up ELSE shift)
             /\ pc' = pc \/ pc' = "check"
  <2>1. CASE k \notin ShiftCodes \cup {"caps"} /\ ~up /\ kbLock
    BY <1>8, <2>1 DEF Scancode, keyboard
  <2>2. CASE ~ (k \notin ShiftCodes \cup {"caps"} /\ ~up /\ kbLock)
    <3>1. Modifiers(k, up) /\ Wake
      BY <1>8, <2>2 DEF Scancode
    <3> QED BY <3>1 DEF Modifiers, Wake
  <2> QED BY <2>1, <2>2
<1>9. ASSUME NEW k \in Keys, Press(k) PROVE NoStuckShift' /\ CopyInv'
  <2>1. /\ down' = down \cup (IF k = FAKE /\ down # {} THEN {} ELSE {k} \cap ShiftCodes)
        /\ missed' = (missed /\ k \notin ShiftCodes) /\ Scancode(k, FALSE) /\ reg' = reg
    BY <1>9 DEF Press
  <2>2. shift' = (IF k \in ShiftCodes THEN TRUE ELSE shift) /\ (pc' = pc \/ pc' = "check")
    BY <1>8, <2>1
  <2>3. CASE k \in ShiftCodes
    <3>1. down' # {}
      BY <2>1, <2>3
    <3> QED BY <3>1 DEF NoStuckShift, CopyInv
  <2>4. CASE k \notin ShiftCodes
    <3>1. down \subseteq down' /\ missed' = missed /\ shift' = shift
      BY <1>1, <2>1, <2>2, <2>4
    <3>2. shift' => down' # {} \/ missed'
      BY <1>1, <3>1
    <3>3. pc' = "init store" /\ reg'.shift => down' # {} \/ missed'
      BY <1>1, <2>1, <2>2, <3>1
    <3> QED BY <3>2, <3>3 DEF NoStuckShift, CopyInv
  <2> QED BY <2>3, <2>4
<1>10. ASSUME NEW k \in Keys, Release(k) PROVE NoStuckShift' /\ CopyInv'
  <2>1. /\ down' = down \ {k} /\ Scancode(k, TRUE) /\ reg' = reg
        /\ missed' = IF k \in ShiftCodes THEN pc = "init store" ELSE missed
    BY <1>10 DEF Release
  <2>2. shift' = (IF k \in ShiftCodes THEN FALSE ELSE shift) /\ (pc' = pc \/ pc' = "check")
    BY <1>8, <2>1
  <2>3. CASE k \in ShiftCodes
    BY <2>1, <2>2, <2>3 DEF NoStuckShift, CopyInv
  <2>4. CASE k \notin ShiftCodes
    <3>1. down' = down /\ missed' = missed /\ shift' = shift
      BY <1>1, <2>1, <2>2, <2>4
    <3>2. pc' = "init store" /\ reg'.shift => pc = "init store" /\ reg.shift
      BY <2>1, <2>2
    <3> QED BY <1>1, <3>1, <3>2 DEF NoStuckShift, CopyInv
  <2> QED BY <2>3, <2>4
<1> QED BY <1>2, <1>3, <1>5, <1>6, <1>7, <1>9, <1>10 DEF Next, Main

-------------------------------------------------------------------------------
(***************************************************************************)
(* The steps of the ring.                                                  *)
(***************************************************************************)
\* The ring with a character more.
LEMMA ArrivalsKeepQueue ==
  ASSUME ConsoleTypes, QueueInv, NEW ch \in Char, Arrives(ch), tail' = tail
  PROVE  /\ slots' \in [Place -> Char] /\ head' \in Place /\ typed' \in Seq(Char)
         /\ QueueInv' /\ Waiting' = Waiting + 1 /\ Len(typed') = Len(typed) + 1
         /\ \A i \in 1 .. Len(typed) : typed'[i] = typed[i]
         /\ slots'[tail] = IF Waiting = 0 THEN ch ELSE slots[tail]
         /\ typed'[Len(typed) + 1] = ch
<1>1. /\ slots \in [Place -> Char] /\ head \in Place /\ tail \in Place /\ typed \in Seq(Char)
      /\ Len(typed) \in Nat
  BY LenProperties DEF ConsoleTypes
<1>2. /\ (head + 1) % KBSIZE # tail /\ slots' = [slots EXCEPT ![head] = ch]
      /\ head' = (head + 1) % KBSIZE /\ typed' = Append(typed, ch)
  BY DEF Arrives
<1>3. PICK n, k : n = Waiting /\ k = Len(typed)
  OBVIOUS
<1>4. n \in Nat /\ n < KBSIZE /\ n <= k /\ (n = 0 <=> head = tail) /\ k \in Nat
  BY <1>1, <1>3, Distance, ConsoleConstants DEF QueueInv, Waiting, Place
<1>5. /\ head' \in Place /\ Waiting' = n + 1
      /\ (tail + n) % KBSIZE = head
      /\ \A i \in 1 .. n : (tail + i - 1) % KBSIZE # head
  <2>1. /\ (head + 1) % KBSIZE \in Place
        /\ (((head + 1) % KBSIZE) - tail) % KBSIZE = Waiting + 1
        /\ (tail + Waiting) % KBSIZE = head
        /\ \A i \in 1 .. Waiting : (tail + i - 1) % KBSIZE # head
    BY <1>1, <1>2, OneMore DEF Waiting
  <2>2. Waiting' = (((head + 1) % KBSIZE) - tail) % KBSIZE
    BY <1>2 DEF Waiting
  <2> QED BY <1>2, <1>3, <2>1, <2>2
<1>6. /\ typed' \in Seq(Char) /\ Len(typed') = k + 1
      /\ \A i \in 1 .. k : typed'[i] = typed[i]
      /\ typed'[k + 1] = ch
  <2>1. /\ typed' \in Seq(Char) /\ Len(typed') = Len(typed) + 1
        /\ \A i \in 1 .. Len(typed) : typed'[i] = typed[i]
        /\ typed'[Len(typed) + 1] = ch
    BY <1>1, <1>2, AppendProperties
  <2> QED BY <1>3, <2>1
<1>7. slots' \in [Place -> Char]
  BY <1>1, <1>2
<1>8. QueueInv'
  <2>1. ASSUME NEW i \in 1 .. n + 1
        PROVE  slots'[(tail + i - 1) % KBSIZE] = typed'[(k + 1) - (n + 1) + i]
    <3>1. i \in Nat /\ (k + 1) - (n + 1) + i = k - n + i
      BY <1>4, <2>1
    <3>2. CASE i = n + 1
      <4>1. tail + i - 1 = tail + n /\ k - n + i = k + 1
        BY <1>1, <1>4, <3>2, ConsoleConstants DEF Place
      <4>2. slots'[head] = ch
        BY <1>1, <1>2
      <4> QED BY <1>5, <1>6, <3>1, <4>1, <4>2
    <3>3. CASE i # n + 1
      <4>1. i \in 1 .. n /\ k - n + i \in 1 .. k
        BY <1>4, <2>1, <3>3
      <4>2. (tail + i - 1) % KBSIZE \in Place
        <5>1. PICK j : j = i - 1
          OBVIOUS
        <5>2. j \in 0 .. KBSIZE /\ tail + i - 1 = tail + j
          BY <1>1, <1>4, <4>1, <5>1, ConsoleConstants DEF Place
        <5> QED BY <1>1, <5>2, Distance
      <4>3. slots'[(tail + i - 1) % KBSIZE] = slots[(tail + i - 1) % KBSIZE]
        BY <1>1, <1>2, <1>5, <4>1, <4>2
      <4>4. slots[(tail + i - 1) % KBSIZE] = typed[k - n + i]
        BY <1>3, <4>1 DEF QueueInv
      <4> QED BY <1>6, <3>1, <4>1, <4>3, <4>4
    <3> QED BY <3>2, <3>3
  <2>2. \A i \in 1 .. Waiting' : slots'[(tail' + i - 1) % KBSIZE] = typed'[Len(typed') - Waiting' + i]
    BY <1>5, <1>6, <2>1
  <2>3. Waiting' <= Len(typed')
    BY <1>4, <1>5, <1>6
  <2> QED BY <2>2, <2>3 DEF QueueInv
<1>9. slots'[tail] = IF n = 0 THEN ch ELSE slots[tail]
  BY <1>1, <1>2, <1>4
<1> QED BY <1>3, <1>5, <1>6, <1>7, <1>8, <1>9

\* The first character is the next of those typed.
LEMMA FirstInLine ==
  ASSUME ConsoleTypes, QueueInv, head # tail
  PROVE  /\ Waiting \in Nat /\ 0 < Waiting /\ Waiting <= Len(typed)
         /\ slots[tail] = typed[Len(typed) - Waiting + 1]
<1>1. head \in Place /\ tail \in Place /\ Len(typed) \in Nat
  BY LenProperties DEF ConsoleTypes
<1>2. PICK n : n = Waiting
  OBVIOUS
<1>3. n \in Nat /\ 0 < n
  BY <1>1, <1>2, Distance, ConsoleConstants DEF Waiting, Place
<1>4. slots[(tail + 1 - 1) % KBSIZE] = typed[Len(typed) - n + 1]
  BY <1>2, <1>3 DEF QueueInv
<1>5. tail + 1 - 1 = tail + 0 /\ tail + 0 = tail /\ 0 \in 0 .. KBSIZE /\ tail < KBSIZE
  BY <1>1, ConsoleConstants DEF Place
<1>6. (tail + 0) % KBSIZE = IF tail + 0 < KBSIZE THEN tail + 0 ELSE tail + 0 - KBSIZE
  BY <1>1, <1>5, Distance
<1>7. (tail + 1 - 1) % KBSIZE = tail
  BY <1>5, <1>6
<1>8. n <= Len(typed)
  BY <1>2 DEF QueueInv
<1> QED BY <1>2, <1>3, <1>4, <1>7, <1>8

\* It goes, and the others move up.
LEMMA AdvanceKeepsQueue ==
  ASSUME ConsoleTypes, QueueInv, head # tail, tail' = (tail + 1) % KBSIZE, UNCHANGED <<slots, head, typed>>
  PROVE  tail' \in Place /\ Waiting = Waiting' + 1 /\ QueueInv'
<1>1. /\ head \in Place /\ tail \in Place /\ Len(typed) \in Nat
  BY LenProperties DEF ConsoleTypes
<1>2. PICK n, k : n = Waiting' /\ k = Len(typed)
  OBVIOUS
<1>3. /\ tail' \in Place /\ Waiting = n + 1
      /\ \A i \in 1 .. KBSIZE - 1 : (tail' + i - 1) % KBSIZE = (tail + i) % KBSIZE
  <2>1. /\ (tail + 1) % KBSIZE \in Place
        /\ Waiting = ((head - ((tail + 1) % KBSIZE)) % KBSIZE) + 1
        /\ \A i \in 1 .. KBSIZE - 1 :
             (((tail + 1) % KBSIZE) + i - 1) % KBSIZE = (tail + i) % KBSIZE
    BY <1>1, OneLess DEF Waiting
  <2>2. Waiting' = (head - ((tail + 1) % KBSIZE)) % KBSIZE
    BY DEF Waiting
  <2> QED BY <1>2, <2>1, <2>2
<1>4. n \in Nat /\ n + 1 < KBSIZE /\ n + 1 <= k
  <2>1. Waiting' \in Nat /\ Waiting \in Nat /\ Waiting < KBSIZE
    BY <1>1, <1>3, Distance, ConsoleConstants DEF Waiting, Place
  <2>2. Waiting <= k
    BY <1>2 DEF QueueInv
  <2> QED BY <1>2, <1>3, <2>1, <2>2
<1>5. ASSUME NEW i \in 1 .. n PROVE slots[(tail' + i - 1) % KBSIZE] = typed[k - n + i]
  <2>1. PICK j : j = i + 1
    OBVIOUS
  <2>2. /\ j \in 1 .. n + 1 /\ tail + j - 1 = tail + i /\ k - (n + 1) + j = k - n + i
        /\ i \in 1 .. KBSIZE - 1
    <3>1. tail \in Nat /\ k \in Nat /\ i \in Nat /\ 1 <= i /\ i <= n /\ KBSIZE \in Nat
      BY <1>1, <1>2, <1>4, <1>5, ConsoleConstants DEF Place
    <3>2. j \in 1 .. n + 1 /\ i \in 1 .. KBSIZE - 1
      BY <1>4, <2>1, <3>1
    <3>3. tail + j - 1 = tail + i
      BY <2>1, <3>1
    <3>4. k - (n + 1) + j = k - n + i
      BY <1>4, <2>1, <3>1
    <3> QED BY <3>2, <3>3, <3>4
  <2>3. slots[(tail + j - 1) % KBSIZE] = typed[k - (n + 1) + j]
    BY <1>2, <1>3, <2>2 DEF QueueInv
  <2>4. slots[(tail + i) % KBSIZE] = typed[k - n + i]
    BY <2>2, <2>3
  <2> QED BY <1>3, <2>2, <2>4
<1>6. QueueInv'
  BY <1>1, <1>2, <1>4, <1>5 DEF QueueInv
<1> QED BY <1>2, <1>3, <1>6

-------------------------------------------------------------------------------
(***************************************************************************)
(* Increasing sequences.                                                   *)
(***************************************************************************)
Increasing(q) == \A j, k \in 1 .. Len(q) : j < k => q[j] < q[k]
Lists(q, S) == Increasing(q) /\ S = {q[j] : j \in 1 .. Len(q)}

\* A position behind the others goes to the end of their list.
LEMMA ListGrows ==
  ASSUME NEW n \in Nat, NEW S, NEW q \in Seq(1 .. n), Lists(q, S),
         NEW k \in 1 .. n, \A x \in S : x < k
  PROVE  Append(q, k) \in Seq(1 .. n) /\ Lists(Append(q, k), S \cup {k})
<1>1. PICK r, m : r = Append(q, k) /\ m = Len(q)
  OBVIOUS
<1>2. /\ r \in Seq(1 .. n) /\ m \in Nat /\ Len(r) = m + 1
      /\ \A i \in 1 .. m : r[i] = q[i]
      /\ r[m + 1] = k
  <2>1. /\ Append(q, k) \in Seq(1 .. n) /\ Len(Append(q, k)) = Len(q) + 1 /\ Len(q) \in Nat
        /\ \A i \in 1 .. Len(q) : Append(q, k)[i] = q[i]
        /\ Append(q, k)[Len(q) + 1] = k
    BY AppendProperties, LenProperties
  <2> QED BY <1>1, <2>1
<1>3. \A i \in 1 .. m : q[i] \in S /\ q[i] < k
  <2>1. \A i \in 1 .. m : q[i] \in S
    BY <1>1 DEF Lists
  <2> QED BY <2>1
<1>4. Increasing(r)
  <2>1. ASSUME NEW i \in 1 .. m + 1, NEW j \in 1 .. m + 1, i < j PROVE r[i] < r[j]
    <3>1. i \in 1 .. m
      BY <1>2, <2>1
    <3>2. CASE j = m + 1
      BY <1>2, <1>3, <3>1, <3>2
    <3>3. CASE j # m + 1
      <4>1. j \in 1 .. m
        BY <1>2, <2>1, <3>3
      <4>2. q[i] < q[j]
        BY <1>1, <2>1, <3>1, <4>1 DEF Lists, Increasing
      <4> QED BY <1>2, <3>1, <4>1, <4>2
    <3> QED BY <3>2, <3>3
  <2> QED BY <1>2, <2>1 DEF Increasing
<1>5. {r[i] : i \in 1 .. m + 1} = S \cup {k}
  <2>1. \A i \in 1 .. m + 1 : r[i] \in S \cup {k}
    BY <1>2, <1>3
  <2>2. \A x \in S : \E i \in 1 .. m : x = q[i]
    BY <1>1 DEF Lists
  <2>3. \A x \in S \cup {k} : \E i \in 1 .. m + 1 : x = r[i]
    <3>1. m + 1 \in 1 .. m + 1 /\ \A i \in 1 .. m : i \in 1 .. m + 1
      BY <1>2
    <3> QED BY <1>2, <2>2, <3>1
  <2> QED BY <2>1, <2>3
<1>6. Lists(r, S \cup {k})
  BY <1>2, <1>4, <1>5 DEF Lists
<1> QED BY <1>1, <1>2, <1>6

\* A set of positions can be listed in order.
LEMMA ListExists ==
  ASSUME NEW n \in Nat, NEW S, S \subseteq 1 .. n
  PROVE  \E q \in Seq(1 .. n) : Lists(q, S)
<1> DEFINE Upto(k) == {i \in S : i <= k}
           Done(k) == \E q \in Seq(1 .. n) : Lists(q, Upto(k))
           bad == {k \in 0 .. n : ~ Done(k)}
<1>0. \A x \in S : x \in Nat /\ 1 <= x /\ x <= n
  OBVIOUS
<1>1. CASE bad = {}
  <2>0. n \notin bad
    BY <1>1
  <2>1. Done(n)
    <3>1. n \in 0 .. n
      OBVIOUS
    <3> HIDE DEF Done
    <3> QED BY <2>0, <3>1
  <2>2. Upto(n) = S
    BY <1>0
  <2> QED BY <2>1, <2>2
<1>2. CASE bad # {}
  <2>1. PICK k : k \in bad /\ \A t \in bad : k <= t
    <3>1. bad \subseteq Nat
      OBVIOUS
    <3> HIDE DEF bad
    <3> QED BY <1>2, <3>1, LeastMember
  <2>2. k # 0
    <3>1. << >> \in Seq(1 .. n) /\ Len(<< >>) = 0 /\ Upto(0) = {}
      <4>1. \A x \in S : ~ (x <= 0)
        BY <1>0
      <4>2. Upto(0) = {}
        BY <4>1
      <4> QED BY <4>2, EmptySeq
    <3>2. Lists(<< >>, Upto(0))
      BY <3>1 DEF Lists, Increasing
    <3>3. Done(0)
      BY <3>1, <3>2
    <3> HIDE DEF Done
    <3> QED BY <2>1, <3>3
  <2>3. k \in 1 .. n /\ k - 1 \in 0 .. n /\ k - 1 \notin bad
    <3>1. k \in 0 .. n
      BY <2>1
    <3>2. k \in 1 .. n /\ k - 1 \in 0 .. n /\ ~ (k <= k - 1)
      BY <2>2, <3>1
    <3> HIDE DEF bad
    <3> QED BY <2>1, <3>2
  <2>4. PICK q \in Seq(1 .. n) : Lists(q, Upto(k - 1))
    BY <2>3
  <2>5. CASE k \notin S
    <3>1. Upto(k) = Upto(k - 1)
      <4>1. \A x \in S : x <= k <=> x <= k - 1
        BY <1>0, <2>3, <2>5
      <4> QED BY <4>1
    <3> QED BY <2>1, <2>4, <3>1
  <2>6. CASE k \in S
    <3>1. Upto(k) = Upto(k - 1) \cup {k}
      <4>1. \A x \in S : x <= k <=> x <= k - 1 \/ x = k
        BY <1>0, <2>3
      <4> QED BY <2>6, <4>1
    <3>2. \A x \in Upto(k - 1) : x \in 1 .. n /\ x < k
      BY <2>3
    <3> HIDE DEF Upto
    <3>3. Append(q, k) \in Seq(1 .. n) /\ Lists(Append(q, k), Upto(k - 1) \cup {k})
      BY <2>3, <2>4, <3>2, ListGrows
    <3> QED BY <2>1, <3>1, <3>3 DEF Upto
  <2> QED BY <2>5, <2>6
<1> QED BY <1>1, <1>2

\* A list of all and a list of those up to a bound begin alike.
LEMMA ListsAgree ==
  ASSUME NEW n \in Nat, NEW S, S \subseteq 1 .. n, NEW T, NEW bound \in Nat,
         \A x : x \in T <=> x \in S /\ x <= bound,
         NEW p \in Seq(1 .. n), Lists(p, S), NEW q \in Seq(1 .. n), Lists(q, T)
  PROVE  /\ Len(q) <= Len(p)
         /\ \A j \in 1 .. Len(q) : q[j] = p[j]
<1>1. PICK a, b : a = Len(p) /\ b = Len(q)
  OBVIOUS
<1>2. a \in Nat /\ b \in Nat
  BY <1>1, LenProperties
<1>3. /\ \A j \in 1 .. a : p[j] \in S /\ p[j] \in Nat
      /\ \A x \in S : \E j \in 1 .. a : p[j] = x
      /\ \A j, k \in 1 .. a : j < k => p[j] < p[k]
  <2>1. S = {p[j] : j \in 1 .. a}
    BY <1>1 DEF Lists
  <2>2. \A j \in 1 .. a : p[j] \in S
    BY <2>1
  <2>3. \A x \in S : \E j \in 1 .. a : p[j] = x
    BY <2>1
  <2>4. \A x \in S : x \in Nat
    OBVIOUS
  <2> QED BY <1>1, <2>2, <2>3, <2>4 DEF Lists, Increasing
<1>4. /\ \A j \in 1 .. b : q[j] \in S /\ q[j] <= bound /\ q[j] \in Nat
      /\ \A x \in S : x <= bound => \E j \in 1 .. b : q[j] = x
      /\ \A j, k \in 1 .. b : j < k => q[j] < q[k]
  <2>1. T = {q[j] : j \in 1 .. b}
    BY <1>1 DEF Lists
  <2>2. \A j \in 1 .. b : q[j] \in T
    BY <2>1
  <2>3. \A x \in T : \E j \in 1 .. b : q[j] = x
    BY <2>1
  <2>4. \A x \in S : x \in Nat
    OBVIOUS
  <2>5. \A j, k \in 1 .. b : j < k => q[j] < q[k]
    BY <1>1 DEF Lists, Increasing
  <2> QED BY <2>2, <2>3, <2>4, <2>5
<1> DEFINE bad == {j \in 1 .. b : ~ (j <= a /\ q[j] = p[j])}
<1>5. bad = {}
  <2> SUFFICES ASSUME bad # {} PROVE FALSE
    OBVIOUS
  <2>1. PICK j : j \in bad /\ \A t \in bad : j <= t
    <3>1. bad \subseteq Nat
      BY <1>2
    <3> HIDE DEF bad
    <3> QED BY <3>1, LeastMember
  <2>2. j \in 1 .. b /\ j \in Nat
    BY <1>2, <2>1
  <2>3. \A m \in 1 .. b : m < j => m <= a /\ q[m] = p[m]
    <3>1. ASSUME NEW m \in 1 .. b, m < j PROVE m \notin bad
      BY <1>2, <2>1, <2>2, <3>1
    <3> QED BY <3>1
  <2>4. PICK l \in 1 .. a : p[l] = q[j]
    BY <1>3, <1>4, <2>2
  <2>5. l \in Nat /\ ~ (l < j)
    <3>1. l \in Nat
      BY <1>2, <2>4
    <3>2. ASSUME l < j PROVE FALSE
      <4>1. l \in 1 .. b
        BY <1>2, <2>2, <3>1, <3>2
      <4>2. q[l] = p[l] /\ q[l] < q[j] /\ q[j] \in Nat
        BY <1>4, <2>2, <2>3, <3>2, <4>1
      <4> QED BY <2>4, <4>2
    <3> QED BY <3>1, <3>2
  <2>6. j <= a /\ j < l
    <3>1. j <= a
      BY <1>2, <2>2, <2>4, <2>5
    <3>2. l # j
      BY <2>1, <2>4, <3>1
    <3> QED BY <2>2, <2>5, <3>1, <3>2
  <2>7. j \in 1 .. a /\ p[j] < p[l] /\ p[j] \in S /\ p[j] \in Nat
    <3>1. j \in 1 .. a
      BY <1>2, <2>2, <2>6
    <3> QED BY <1>3, <2>4, <2>6, <3>1
  <2>8. p[j] < q[j] /\ p[j] <= bound
    <3>1. p[j] < q[j]
      BY <2>4, <2>7
    <3>2. q[j] <= bound /\ q[j] \in Nat
      BY <1>4, <2>2
    <3> QED BY <2>7, <3>1, <3>2
  <2>9. PICK m \in 1 .. b : q[m] = p[j]
    BY <1>4, <2>7, <2>8
  <2>10. m \in Nat /\ m # j
    <3>1. q[j] \in Nat
      BY <1>4, <2>2
    <3> QED BY <1>2, <2>8, <2>9, <3>1, <2>7
  <2>11. CASE m < j
    <3>1. m <= a /\ q[m] = p[m]
      BY <2>3, <2>9, <2>11
    <3>2. m \in 1 .. a
      BY <1>2, <2>9, <2>10, <3>1
    <3>3. p[m] < p[j]
      BY <1>3, <2>7, <2>11, <3>2
    <3> QED BY <2>7, <2>9, <3>1, <3>3
  <2>12. CASE j < m
    <3>1. q[j] < q[m] /\ q[j] \in Nat /\ q[m] \in Nat
      BY <1>4, <2>2, <2>9, <2>12
    <3> QED BY <2>7, <2>8, <2>9, <3>1
  <2> QED BY <2>2, <2>10, <2>11, <2>12
<1>6. \A j \in 1 .. b : j <= a /\ q[j] = p[j]
  BY <1>5
<1>7. b <= a
  <2>1. CASE b = 0
    BY <1>2, <2>1
  <2>2. CASE b # 0
    BY <1>2, <1>6, <2>2
  <2> QED BY <2>1, <2>2
<1> QED BY <1>1, <1>6, <1>7

\* InOrder lists a set of positions.
LEMMA InOrderLists ==
  ASSUME NEW n \in Nat, NEW S, S \subseteq 1 .. n
  PROVE  InOrder(S) \in Seq(1 .. n) /\ Lists(InOrder(S), S)
<1>1. PICK q \in Seq(1 .. n) : Lists(q, S)
  BY ListExists
<1>2. PICK m : m = Len(q)
  OBVIOUS
<1>3. m \in Nat /\ q \in [1 .. m -> S] /\ (\A x \in S : \E j \in 1 .. m : q[j] = x)
      /\ \A j, k \in 1 .. m : j < k => q[j] < q[k]
  <2>1. m \in Nat /\ q \in [1 .. m -> 1 .. n]
    BY <1>2, LenProperties
  <2>2. S = {q[j] : j \in 1 .. m}
    BY <1>1, <1>2 DEF Lists
  <2>3. \A j \in 1 .. m : q[j] \in S
    BY <2>2
  <2>4. \A x \in S : \E j \in 1 .. m : q[j] = x
    BY <2>2
  <2> QED BY <1>1, <1>2, <2>1, <2>3, <2>4 DEF Lists, Increasing
<1>4. Cardinality(S) = m
  <2>1. \A j, k \in 1 .. m : q[j] = q[k] => j = k
    <3>1. \A j \in 1 .. m : q[j] \in 1 .. n
      BY <1>3
    <3>2. \A j \in 1 .. m : j \in Nat /\ q[j] \in Nat
      BY <1>3, <3>1
    <3>3. ASSUME NEW j \in 1 .. m, NEW k \in 1 .. m, q[j] = q[k], j # k PROVE FALSE
      <4>1. j < k \/ k < j
        BY <3>2, <3>3
      <4> QED BY <1>3, <3>2, <3>3, <4>1
    <3> QED BY <3>3
  <2>2. q \in Bijection(1 .. m, S)
    BY <1>3, <2>1 DEF Bijection, Injection, Surjection, IsInjective
  <2>3. ExistsBijection(1 .. m, S)
    BY <2>2 DEF ExistsBijection
  <2> QED BY <1>3, <2>3, FS_CountingElements
<1>5. \E p \in [1 .. Cardinality(S) -> S] : \A j, k \in DOMAIN p : j < k => p[j] < p[k]
  BY <1>3, <1>4
<1>6. PICK p : p = InOrder(S)
  OBVIOUS
<1>7. p \in [1 .. m -> S] /\ \A j, k \in 1 .. m : j < k => p[j] < p[k]
  <2>1. InOrder(S) \in [1 .. Cardinality(S) -> S]
        /\ \A j, k \in DOMAIN InOrder(S) : j < k => InOrder(S)[j] < InOrder(S)[k]
    BY <1>5 DEF InOrder
  <2> QED BY <1>4, <1>6, <2>1
<1>8. p \in Seq(1 .. n) /\ Len(p) = m
  <2>1. p \in [1 .. m -> 1 .. n]
    BY <1>7
  <2>2. p \in Seq(1 .. n)
    BY <1>3, <2>1, SeqDef
  <2>3. Len(p) \in Nat /\ 1 .. Len(p) = 1 .. m
    BY <2>1, <2>2, LenProperties
  <2> QED BY <1>3, <2>2, <2>3
<1>9. \A x \in S : \E j \in 1 .. m : p[j] = x
  <2>1. \A j, k \in 1 .. m : p[j] = p[k] => j = k
    <3>1. \A j \in 1 .. m : j \in Nat /\ p[j] \in Nat
      <4>1. \A x \in S : x \in Nat
        OBVIOUS
      <4>2. \A j \in 1 .. m : p[j] \in S
        BY <1>7
      <4>3. \A j \in 1 .. m : j \in Nat
        BY <1>3
      <4> QED BY <4>1, <4>2, <4>3
    <3>2. ASSUME NEW j \in 1 .. m, NEW k \in 1 .. m, p[j] = p[k], j # k PROVE FALSE
      <4>1. j < k \/ k < j
        BY <3>1, <3>2
      <4> QED BY <1>7, <3>1, <3>2, <4>1
    <3> QED BY <3>2
  <2>2. p \in Injection(1 .. m, S)
    BY <1>7, <2>1 DEF Injection, IsInjective
  <2>3. IsFiniteSet(S)
    <3>1. IsFiniteSet(1 .. n)
      BY FS_Interval
    <3> QED BY <3>1, FS_Subset
  <2>4. Cardinality(1 .. m) = m
    <3>1. Cardinality(1 .. m) = IF 1 > m THEN 0 ELSE m - 1 + 1
      BY <1>3, FS_Interval
    <3> QED BY <1>3, <3>1
  <2>5. p \in Surjection(1 .. m, S)
    BY <1>4, <2>2, <2>3, <2>4, FS_Injection
  <2> QED BY <2>5 DEF Surjection
<1> QED BY <1>6, <1>7, <1>8, <1>9 DEF Lists, Increasing

-------------------------------------------------------------------------------
(***************************************************************************)
(* shell_parse_command.                                                    *)
(***************************************************************************)
ParseState(n) == [argv : Seq(1 .. n), ends : SUBSET (1 .. n + 1), inToken : BOOLEAN]

\* The loop has dealt with the places up to this one.
Bound(v, k) == IF Len(v.argv) < MAXARGS THEN k ELSE v.argv[MAXARGS]

ParseInv(input, k, v) ==
  /\ v \in ParseState(Len(input)) /\ Len(v.argv) <= MAXARGS
  /\ Lists(v.argv, {i \in Starts(input) : i <= Bound(v, k)})
  /\ v.ends = {Len(input) + 1} \cup {e \in DOMAIN input : input[e] = "space" /\ e <= Bound(v, k)}
  /\ Len(v.argv) < MAXARGS => (v.inToken <=> k > 0 /\ input[k] # "space")

LEMMA StartsAre ==
  ASSUME NEW input \in Seq(Char)
  PROVE  /\ Starts(input) \subseteq 1 .. Len(input) /\ Len(input) \in Nat
         /\ \A i \in 1 .. Len(input) :
              i \in Starts(input) <=> input[i] # "space" /\ (i > 1 => input[i - 1] = "space")
BY LenProperties DEF Starts

LEMMA LookKeeps ==
  ASSUME NEW input \in Seq(Char), NEW k \in 1 .. Len(input), NEW v, ParseInv(input, k - 1, v)
  PROVE  ParseInv(input, k, Look(input, v, k))
<1>1. PICK n, S : n = Len(input) /\ S = Starts(input)
  OBVIOUS
<1>2. /\ n \in Nat /\ k \in 1 .. n /\ k \in Nat /\ S \subseteq 1 .. n /\ DOMAIN input = 1 .. n
      /\ (k \in S <=> input[k] # "space" /\ (k > 1 => input[k - 1] = "space"))
  <2>1. n \in Nat /\ k \in 1 .. n /\ DOMAIN input = 1 .. n
    BY <1>1, LenProperties
  <2>2. S \subseteq 1 .. n /\ (k \in S <=> input[k] # "space" /\ (k > 1 => input[k - 1] = "space"))
    BY <1>1, StartsAre
  <2> QED BY <2>1, <2>2
<1>3. /\ v \in ParseState(n) /\ Len(v.argv) <= MAXARGS
      /\ Lists(v.argv, {i \in S : i <= Bound(v, k - 1)})
      /\ v.ends = {n + 1} \cup {e \in 1 .. n : input[e] = "space" /\ e <= Bound(v, k - 1)}
      /\ Len(v.argv) < MAXARGS => (v.inToken <=> k - 1 > 0 /\ input[k - 1] # "space")
  BY <1>1, <1>2 DEF ParseInv
<1>4. PICK q, m : q = v.argv /\ m = Len(q)
  OBVIOUS
<1>5. q \in Seq(1 .. n) /\ m \in Nat /\ v.ends \subseteq 1 .. n + 1 /\ v.inToken \in BOOLEAN
  BY <1>3, <1>4, LenProperties DEF ParseState
<1> DEFINE w == Look(input, v, k)
<1> DEFINE Holds(b) == /\ b = Bound(w, k)
                       /\ w \in ParseState(n) /\ Len(w.argv) <= MAXARGS
                       /\ Lists(w.argv, {i \in S : i <= b})
                       /\ w.ends = {n + 1} \cup {e \in 1 .. n : input[e] = "space" /\ e <= b}
                       /\ Len(w.argv) < MAXARGS => (w.inToken <=> k > 0 /\ input[k] # "space")
<1>0. ASSUME NEW b, Holds(b) PROVE ParseInv(input, k, Look(input, v, k))
  <2> HIDE DEF w
  <2>1. Holds(b)
    BY <1>0
  <2>2. /\ {i \in S : i <= b} = {i \in S : i <= Bound(w, k)}
        /\ {e \in 1 .. n : input[e] = "space" /\ e <= b}
           = {e \in 1 .. n : input[e] = "space" /\ e <= Bound(w, k)}
    BY <2>1
  <2>3. ParseInv(input, k, w)
    BY <1>1, <1>2, <2>1, <2>2 DEF ParseInv
  <2> QED BY <2>3 DEF w
<1>6. CASE m >= MAXARGS
  <2>1. w = v
    BY <1>4, <1>6 DEF Look
  <2>2. Bound(v, k) = Bound(v, k - 1) /\ ~ (Len(v.argv) < MAXARGS)
    BY <1>4, <1>5, <1>6, ConsoleConstants DEF Bound
  <2> HIDE DEF w
  <2>3. Holds(Bound(v, k - 1))
    BY <1>3, <2>1, <2>2
  <2> QED BY <1>0, <2>3
<1>7. CASE m < MAXARGS
  <2>1. Bound(v, k - 1) = k - 1 /\ ~ (m >= MAXARGS)
    BY <1>4, <1>5, <1>7, ConsoleConstants DEF Bound
  <2>2. /\ Lists(q, {i \in S : i <= k - 1})
        /\ v.ends = {n + 1} \cup {e \in 1 .. n : input[e] = "space" /\ e <= k - 1}
        /\ (v.inToken <=> k - 1 > 0 /\ input[k - 1] # "space")
    BY <1>3, <1>4, <1>7, <2>1
  <2>3. \A e \in 1 .. n : e <= k <=> e <= k - 1 \/ e = k
    BY <1>2
  <2>4. CASE input[k] = "space"
    <3>1. w = [v EXCEPT !.ends = @ \cup {k}, !.inToken = FALSE]
      BY <1>4, <2>1, <2>4 DEF Look
    <3>2. w \in ParseState(n) /\ w.argv = q /\ w.ends = v.ends \cup {k} /\ w.inToken = FALSE
      <4>1. k \in 1 .. n + 1
        BY <1>2
      <4> HIDE DEF w
      <4>2. PICK x \in Seq(1 .. n), ends \in SUBSET (1 .. n + 1), b \in BOOLEAN :
               v = [argv |-> x, ends |-> ends, inToken |-> b]
        BY <1>3 DEF ParseState
      <4>3. w = [argv |-> x, ends |-> ends \cup {k}, inToken |-> FALSE]
        BY <3>1, <4>2
      <4>4. ends \cup {k} \in SUBSET (1 .. n + 1) /\ v.ends = ends /\ x = q
        BY <1>4, <4>1, <4>2
      <4>5. w \in ParseState(n)
        BY <4>3, <4>4 DEF ParseState
      <4> QED BY <4>3, <4>4, <4>5
    <3>3. Bound(w, k) = k
      BY <1>4, <1>7, <3>2 DEF Bound
    <3>4. {i \in S : i <= k} = {i \in S : i <= k - 1}
      BY <1>2, <2>3, <2>4
    <3>5. w.ends = {n + 1} \cup {e \in 1 .. n : input[e] = "space" /\ e <= k}
      BY <1>2, <2>2, <2>3, <2>4, <3>2
    <3> HIDE DEF w
    <3>6. Lists(w.argv, {i \in S : i <= k})
      BY <2>2, <3>2, <3>4
    <3>7. Len(w.argv) <= MAXARGS
      BY <1>4, <1>5, <1>7, <3>2, ConsoleConstants
    <3>8. Holds(k)
      BY <2>4, <3>2, <3>3, <3>5, <3>6, <3>7
    <3> HIDE DEF Holds
    <3> QED BY <1>0, <3>8
  <2>5. CASE input[k] # "space" /\ ~ v.inToken
    <3>1. w = [v EXCEPT !.argv = Append(@, k), !.inToken = TRUE]
      BY <1>4, <2>1, <2>5 DEF Look
    <3>2. k \in S
      BY <1>2, <2>2, <2>5
    <3>3. /\ Append(q, k) \in Seq(1 .. n) /\ Lists(Append(q, k), {i \in S : i <= k - 1} \cup {k})
          /\ Len(Append(q, k)) = m + 1 /\ Append(q, k)[m + 1] = k
      <4>1. \A x \in {i \in S : i <= k - 1} : x < k
        BY <1>2
      <4>2. Append(q, k) \in Seq(1 .. n) /\ Lists(Append(q, k), {i \in S : i <= k - 1} \cup {k})
        BY <1>2, <1>5, <2>2, <4>1, ListGrows
      <4>3. Len(Append(q, k)) = Len(q) + 1 /\ Append(q, k)[Len(q) + 1] = k
        BY <1>2, <1>5, AppendProperties
      <4> QED BY <1>4, <4>2, <4>3
    <3>4. {i \in S : i <= k} = {i \in S : i <= k - 1} \cup {k}
      BY <1>2, <2>3, <3>2
    <3>5. w \in ParseState(n) /\ w.argv = Append(q, k) /\ w.ends = v.ends /\ w.inToken = TRUE
      BY <1>3, <1>4, <3>1, <3>3 DEF ParseState
    <3>6. Bound(w, k) = k /\ Len(w.argv) = m + 1
      <4>1. m + 1 < MAXARGS \/ m + 1 = MAXARGS
        BY <1>5, <1>7, ConsoleConstants
      <4> QED BY <3>3, <3>5, <4>1 DEF Bound
    <3>7. w.ends = {n + 1} \cup {e \in 1 .. n : input[e] = "space" /\ e <= k}
      <4>1. {e \in 1 .. n : input[e] = "space" /\ e <= k}
            = {e \in 1 .. n : input[e] = "space" /\ e <= k - 1}
        BY <1>2, <2>3, <2>5
      <4> QED BY <2>2, <3>5, <4>1
    <3>8. m + 1 <= MAXARGS
      BY <1>5, <1>7, ConsoleConstants
    <3> HIDE DEF w
    <3>9. Lists(w.argv, {i \in S : i <= k})
      BY <3>3, <3>4, <3>5
    <3>10. Holds(k)
      BY <1>2, <2>5, <3>5, <3>6, <3>7, <3>8, <3>9
    <3> HIDE DEF Holds
    <3> QED BY <1>0, <3>10
  <2>6. CASE input[k] # "space" /\ v.inToken
    <3>1. w = v
      BY <1>4, <2>1, <2>6 DEF Look
    <3>2. k \notin S
      BY <1>2, <2>2, <2>6
    <3>3. Bound(w, k) = k
      BY <1>4, <1>7, <3>1 DEF Bound
    <3>4. {i \in S : i <= k} = {i \in S : i <= k - 1}
      BY <1>2, <2>3, <3>2
    <3>5. {e \in 1 .. n : input[e] = "space" /\ e <= k}
          = {e \in 1 .. n : input[e] = "space" /\ e <= k - 1}
      BY <1>2, <2>3, <2>6
    <3> HIDE DEF w
    <3>6. Lists(w.argv, {i \in S : i <= k})
      BY <1>4, <2>2, <3>1, <3>4
    <3>7. w.ends = {n + 1} \cup {e \in 1 .. n : input[e] = "space" /\ e <= k}
      BY <2>2, <3>1, <3>5
    <3>8. Holds(k)
      BY <1>2, <1>3, <2>6, <3>1, <3>3, <3>6, <3>7
    <3> HIDE DEF Holds
    <3> QED BY <1>0, <3>8
  <2> QED BY <1>5, <2>4, <2>5, <2>6
<1> QED BY <1>5, <1>6, <1>7, ConsoleConstants

\* The loop of shell_parse_command has a run.
IsParse(g, input) ==
  /\ g[0] = [argv |-> <<>>, ends |-> {Len(input) + 1}, inToken |-> FALSE]
  /\ \A k \in 1 .. Len(input) : g[k] = Look(input, g[k - 1], k)

LEMMA ParseRun ==
  ASSUME NEW input \in Seq(Char)
  PROVE  \E g : IsParse(g, input) /\ Parsed(input) = g[Len(input)]
<1>1. PICK n : n = Len(input)
  OBVIOUS
<1>2. n \in Nat
  BY <1>1, LenProperties
<1>3. PICK S : S = ParseState(n)
  OBVIOUS
<1>4. PICK first : first = [argv |-> <<>>, ends |-> {n + 1}, inToken |-> FALSE]
  OBVIOUS
<1>5. first \in S
  <2>1. << >> \in Seq(1 .. n) /\ {n + 1} \in SUBSET (1 .. n + 1)
    BY <1>2, EmptySeq
  <2> QED BY <1>3, <1>4, <2>1 DEF ParseState
<1>6. PICK F : F = [k \in 1 .. n |-> [v \in S |-> Look(input, v, k)]]
  OBVIOUS
<1>7. F \in [1 .. n -> [S -> S]]
  <2>1. ASSUME NEW k \in 1 .. n, NEW v \in S PROVE Look(input, v, k) \in S
    <3>1. PICK x \in Seq(1 .. n), ends \in SUBSET (1 .. n + 1), b \in BOOLEAN :
             v = [argv |-> x, ends |-> ends, inToken |-> b]
      BY <1>3, <2>1 DEF ParseState
    <3>2. Append(x, k) \in Seq(1 .. n) /\ ends \cup {k} \in SUBSET (1 .. n + 1)
      BY <1>2, <2>1, AppendProperties
    <3>3. \/ Look(input, v, k) = v
          \/ Look(input, v, k) = [argv |-> x, ends |-> ends \cup {k}, inToken |-> FALSE]
          \/ Look(input, v, k) = [argv |-> Append(x, k), ends |-> ends, inToken |-> TRUE]
      BY <3>1 DEF Look
    <3>4. /\ [argv |-> x, ends |-> ends \cup {k}, inToken |-> FALSE] \in ParseState(n)
          /\ [argv |-> Append(x, k), ends |-> ends, inToken |-> TRUE] \in ParseState(n)
      BY <3>1, <3>2 DEF ParseState
    <3> QED BY <1>3, <2>1, <3>3, <3>4
  <2> QED BY <1>6, <2>1
<1>8. PICK g : IsRun(g, S, n, first, F)
  BY <1>2, <1>5, <1>7, LoopRuns
<1>9. g \in [0 .. n -> S] /\ g[0] = first /\ \A k \in 1 .. n : g[k] = Look(input, g[k - 1], k)
  <2>1. g \in [0 .. n -> S] /\ g[0] = first /\ \A k \in 1 .. n : g[k] = F[k][g[k - 1]]
    BY <1>8 DEF IsRun
  <2>2. \A k \in 1 .. n : g[k - 1] \in S
    BY <1>2, <2>1
  <2> QED BY <1>6, <2>1, <2>2
<1>10. IsParse(g, input)
  BY <1>1, <1>4, <1>9 DEF IsParse
<1> DEFINE Turns(w) == [i \in 0 .. n |-> IF i = 0 THEN first ELSE Look(input, w[i - 1], i)]
           loop == CHOOSE w : w = Turns(w)
<1>11. g = Turns(g)
  <2>1. \A i \in 0 .. n : g[i] = IF i = 0 THEN first ELSE Look(input, g[i - 1], i)
    BY <1>2, <1>9
  <2> QED BY <1>9, <2>1
<1>12. loop = Turns(loop)
  BY <1>11
<1>13. Parsed(input) = loop[n]
  BY <1>1, <1>4 DEF Parsed
<1>14. loop[n] = g[n]
  <2>1. PICK u : u = loop
    OBVIOUS
  <2>2. /\ u[0] = first
        /\ \A k \in 1 .. n : u[k] = Look(input, u[k - 1], k)
    <3> HIDE DEF loop
    <3>1. u = Turns(u)
      BY <1>12, <2>1
    <3>2. 0 \in 0 .. n /\ \A k \in 1 .. n : k \in 0 .. n /\ k # 0
      BY <1>2
    <3> QED BY <3>1, <3>2
  <2> HIDE DEF loop
  <2>3. PICK Z : Z = {p \in (0 .. n) \X S : u[p[1]] = p[2]}
    OBVIOUS
  <2>4. PICK pairs : pairs = [k \in 0 .. n |-> <<k, g[k]>>]
    OBVIOUS
  <2>5. pairs[0] \in Z
    BY <1>2, <1>5, <1>9, <2>2, <2>3, <2>4
  <2>6. ASSUME NEW k \in 1 .. n, pairs[k - 1] \in Z PROVE pairs[k] \in Z
    <3>1. k \in 0 .. n /\ k - 1 \in 0 .. n /\ g[k] \in S
      BY <1>2, <1>9
    <3>2. u[k - 1] = g[k - 1]
      BY <2>3, <2>4, <2>6, <3>1
    <3>3. u[k] = g[k]
      BY <1>9, <2>2, <3>2
    <3> QED BY <2>3, <2>4, <3>1, <3>3
  <2>7. \A k \in 0 .. n : pairs[k] \in Z
    BY <1>2, <2>5, <2>6, LoopKeeps
  <2>8. n \in 0 .. n
    BY <1>2
  <2> QED BY <2>1, <2>3, <2>4, <2>7, <2>8
<1> QED BY <1>1, <1>10, <1>13, <1>14

\* What the loop has found at the end of the line.
LEMMA ParsedIs ==
  ASSUME NEW input \in Seq(Char)
  PROVE  ParseInv(input, Len(input), Parsed(input))
<1>1. PICK g : IsParse(g, input) /\ Parsed(input) = g[Len(input)]
  BY ParseRun
<1>2. PICK n : n = Len(input)
  OBVIOUS
<1>3. n \in Nat /\ DOMAIN input = 1 .. n
  BY <1>2, LenProperties
<1>4. PICK S : S = {p \in (0 .. n) \X ParseState(n) : ParseInv(input, p[1], p[2])}
  OBVIOUS
<1>5. PICK pairs : pairs = [k \in 0 .. n |-> <<k, g[k]>>]
  OBVIOUS
<1>6. pairs[0] \in S
  <2>1. PICK first : first = g[0]
    OBVIOUS
  <2>2. first = [argv |-> <<>>, ends |-> {n + 1}, inToken |-> FALSE]
    BY <1>1, <1>2, <2>1 DEF IsParse
  <2>3. first \in ParseState(n) /\ Len(first.argv) = 0 /\ Len(first.argv) < MAXARGS
    <3>1. << >> \in Seq(1 .. n) /\ {n + 1} \in SUBSET (1 .. n + 1) /\ Len(<< >>) = 0
      BY <1>3, EmptySeq
    <3> QED BY <2>2, <3>1, ConsoleConstants DEF ParseState
  <2>4. Bound(first, 0) = 0
    BY <2>3 DEF Bound
  <2>5. {i \in Starts(input) : i <= Bound(first, 0)} = {}
    BY <1>3, <2>4 DEF Starts
  <2>6. {e \in DOMAIN input : input[e] = "space" /\ e <= Bound(first, 0)} = {}
    BY <1>3, <2>4
  <2>7. Lists(first.argv, {})
    BY <2>2, EmptySeq DEF Lists, Increasing
  <2>8. ParseInv(input, 0, first)
    <3>1. Len(first.argv) <= MAXARGS
      BY <2>3, ConsoleConstants
    <3>2. ~ (0 > 0) /\ first.inToken = FALSE /\ first.ends = {n + 1}
      BY <2>2
    <3>3. Lists(first.argv, {i \in Starts(input) : i <= Bound(first, 0)})
      BY <2>5, <2>7
    <3>4. first.ends
          = {n + 1} \cup {e \in DOMAIN input : input[e] = "space" /\ e <= Bound(first, 0)}
      BY <2>6, <3>2
    <3> QED BY <1>2, <2>3, <3>1, <3>2, <3>3, <3>4 DEF ParseInv
  <2> QED BY <1>3, <1>4, <1>5, <2>1, <2>3, <2>8
<1>7. ASSUME NEW k \in 1 .. n, pairs[k - 1] \in S PROVE pairs[k] \in S
  <2>1. k \in 0 .. n /\ k - 1 \in 0 .. n
    BY <1>3
  <2>2. PICK v : v = g[k - 1]
    OBVIOUS
  <2>3. ParseInv(input, k - 1, v)
    BY <1>4, <1>5, <1>7, <2>1, <2>2
  <2>4. ParseInv(input, k, Look(input, v, k))
    BY <1>2, <2>3, LookKeeps
  <2>5. g[k] = Look(input, v, k)
    BY <1>1, <1>2, <2>2 DEF IsParse
  <2>6. ParseInv(input, k, g[k]) /\ g[k] \in ParseState(n)
    BY <1>2, <2>4, <2>5 DEF ParseInv
  <2> QED BY <1>4, <1>5, <2>1, <2>6
<1>8. \A k \in 0 .. n : pairs[k] \in S
  BY <1>3, <1>6, <1>7, LoopKeeps
<1>9. n \in 0 .. n
  BY <1>3
<1> QED BY <1>1, <1>2, <1>4, <1>5, <1>8, <1>9

\* The end of the word that begins here.
LEMMA LastOfIs ==
  ASSUME NEW input \in Seq(Char), NEW i \in 1 .. Len(input), NEW e \in i .. Len(input),
         \A j \in i .. e : input[j] # "space", e < Len(input) => input[e + 1] = "space"
  PROVE  LastOf(input, i) = e
<1>1. Len(input) \in Nat /\ i \in Nat /\ e \in Nat /\ i <= e /\ e <= Len(input)
  BY LenProperties
<1>2. ASSUME NEW f \in i .. Len(input), \A j \in i .. f : input[j] # "space",
             f < Len(input) => input[f + 1] = "space"
      PROVE  f = e
  <2>1. f \in Nat /\ i <= f /\ f <= Len(input)
    BY <1>1, <1>2
  <2>2. ASSUME f < e PROVE FALSE
    <3>1. f + 1 \in i .. e /\ f < Len(input)
      BY <1>1, <2>1, <2>2
    <3> QED BY <1>2, <3>1
  <2>3. ASSUME e < f PROVE FALSE
    <3>1. e + 1 \in i .. f /\ e < Len(input)
      BY <1>1, <2>1, <2>3
    <3> QED BY <1>2, <3>1
  <2> QED BY <1>1, <2>1, <2>2, <2>3
<1> QED BY <1>2 DEF LastOf

\* The end the parser has made of the word q[k]: the last place of the word, or
\* of the line when there is no room for another argument.
LEMMA EndIs ==
  ASSUME NEW input \in Seq(Char), NEW v, ParseInv(input, Len(input), v),
         NEW k \in 1 .. Len(v.argv)
  PROVE  /\ v.argv[k] \in 1 .. Len(input)
         /\ EndOf(v.ends, v.argv[k]) - 1
            = IF k = MAXARGS THEN Len(input) ELSE LastOf(input, v.argv[k])
<1>1. PICK n, q, m : n = Len(input) /\ q = v.argv /\ m = Len(v.argv)
  OBVIOUS
<1>2. PICK B : B = Bound(v, n)
  OBVIOUS
<1>3. PICK i : i = q[k]
  OBVIOUS
<1>4. PICK later : later = {e \in v.ends : e > i}
  OBVIOUS
<1>5. /\ n \in Nat /\ DOMAIN input = 1 .. n /\ m \in Nat /\ k \in 1 .. m /\ m <= MAXARGS
      /\ q \in Seq(1 .. n) /\ MAXARGS \in Nat /\ 0 < MAXARGS
      /\ \A j \in 1 .. m : q[j] \in 1 .. n /\ q[j] \in Nat
  <2>1. n \in Nat /\ DOMAIN input = 1 .. n /\ k \in 1 .. m
    BY <1>1, LenProperties
  <2>2. q \in Seq(1 .. n) /\ m <= MAXARGS
    BY <1>1 DEF ParseInv, ParseState
  <2>3. m \in Nat /\ \A j \in 1 .. m : q[j] \in 1 .. n
    BY <1>1, <2>2, LenProperties, ElementOfSeq
  <2> QED BY <2>1, <2>2, <2>3, ConsoleConstants
<1>6. /\ \A j, l \in 1 .. m : j < l => q[j] < q[l]
      /\ \A j \in 1 .. m : q[j] \in Starts(input) /\ q[j] <= B
  <2>1. Lists(q, {x \in Starts(input) : x <= B})
    BY <1>1, <1>2 DEF ParseInv
  <2>2. {x \in Starts(input) : x <= B} = {q[j] : j \in 1 .. m}
    BY <1>1, <2>1 DEF Lists
  <2>3. \A j \in 1 .. m : q[j] \in {x \in Starts(input) : x <= B}
    BY <2>2
  <2> QED BY <1>1, <2>1, <2>3 DEF Lists, Increasing
<1>7. \A e : e \in v.ends <=> e = n + 1 \/ (e \in 1 .. n /\ input[e] = "space" /\ e <= B)
  <2>1. v.ends = {n + 1} \cup {e \in 1 .. n : input[e] = "space" /\ e <= B}
    BY <1>1, <1>2, <1>5 DEF ParseInv
  <2> QED BY <2>1
<1>8. IF m < MAXARGS THEN B = n ELSE m = MAXARGS /\ B = q[m]
  BY <1>1, <1>2, <1>5 DEF Bound
<1>9. i \in 1 .. n /\ i \in Nat /\ i \in Starts(input) /\ input[i] # "space" /\ i <= B /\ B \in Nat /\ B <= n
  <2>1. i \in 1 .. n /\ i \in Starts(input) /\ i <= B
    BY <1>3, <1>5, <1>6
  <2>2. input[i] # "space"
    BY <2>1 DEF Starts
  <2>3. B \in Nat /\ B <= n
    <3>1. CASE m < MAXARGS
      BY <1>5, <1>8, <3>1
    <3>2. CASE ~ (m < MAXARGS)
      <4>1. m \in 1 .. m /\ B = q[m]
        BY <1>5, <1>8, <3>2
      <4>2. q[m] \in 1 .. n
        BY <1>5, <4>1
      <4> QED BY <1>5, <4>1, <4>2
    <3> QED BY <3>1, <3>2
  <2> QED BY <1>5, <2>1, <2>2, <2>3
<1>10. PICK end : end = Min(later)
  OBVIOUS
<1>11. end \in v.ends /\ end > i /\ end \in Nat /\ \A x \in v.ends : x > i => end <= x
  <2>1. n + 1 \in later
    BY <1>4, <1>5, <1>7, <1>9
  <2>2. later \subseteq Nat
    BY <1>4, <1>5, <1>7
  <2>3. Min(later) \in later /\ \A t \in later : Min(later) <= t
    BY <2>1, <2>2, LeastMember
  <2> QED BY <1>4, <1>10, <2>2, <2>3
<1>12. EndOf(v.ends, i) = end
  BY <1>4, <1>10 DEF EndOf
<1>13. end <= n + 1
  <2>1. n + 1 \in v.ends
    BY <1>7
  <2>2. n + 1 > i
    BY <1>5, <1>9
  <2> QED BY <1>11, <2>1, <2>2
<1>14. CASE k = MAXARGS
  <2>1. B = i
    <3>1. k = m /\ ~ (m < MAXARGS)
      BY <1>5, <1>14
    <3> QED BY <1>3, <1>8, <3>1
  <2>2. end = n + 1
    BY <1>7, <1>11, <2>1, <1>9
  <2> QED BY <1>1, <1>3, <1>5, <1>9, <1>12, <1>14, <2>2
<1>15. CASE k # MAXARGS
  <2>1. PICK e : e = end - 1
    OBVIOUS
  <2>2. e \in Nat /\ i <= e /\ e <= n /\ end = e + 1
    BY <1>9, <1>11, <1>13, <1>5, <2>1
  <2>3. ASSUME NEW j \in i .. e PROVE input[j] # "space"
    <3>0. j \in Nat /\ j \in 1 .. n /\ i <= j /\ j < end
      BY <1>5, <1>9, <2>2, <2>3
    <3> SUFFICES ASSUME input[j] = "space" PROVE FALSE
      OBVIOUS
    <3>1. i < j
      BY <1>9, <3>0
    <3>2. ~ (j <= B)
      <4>1. ASSUME j <= B PROVE FALSE
        <5>1. j \in v.ends
          BY <1>7, <3>0, <4>1
        <5>2. end <= j
          BY <1>11, <3>1, <5>1
        <5> QED BY <1>11, <3>0, <5>2
      <4> QED BY <4>1
    <3>3. m = MAXARGS /\ B = q[m] /\ m \in 1 .. m
      BY <1>5, <1>8, <1>9, <3>0, <3>2
    <3>4. i < B /\ B \in Starts(input)
      <4>1. k < m
        BY <1>5, <1>15, <3>3
      <4> QED BY <1>3, <1>5, <1>6, <3>3, <4>1
    <3>5. PICK b : b = B - 1
      OBVIOUS
    <3>6. b \in Nat /\ i <= b /\ b < B /\ b \in 1 .. n
      BY <1>5, <1>9, <3>4, <3>5
    <3>7. input[b] = "space"
      <4>1. B > 1 => input[B - 1] = "space"
        BY <3>4 DEF Starts
      <4>2. B > 1
        BY <1>5, <1>9, <3>4
      <4> QED BY <3>5, <4>1, <4>2
    <3>8. b > i /\ b \in v.ends
      <4>1. b # i
        BY <1>9, <3>7
      <4>2. b > i /\ b <= B
        BY <1>9, <3>6, <4>1
      <4> QED BY <1>7, <3>6, <3>7, <4>2
    <3>9. end <= b
      BY <1>11, <3>8
    <3> QED BY <1>9, <1>11, <3>0, <3>2, <3>6, <3>9
  <2>4. e < n => input[e + 1] = "space"
    <3>1. ASSUME e < n PROVE input[end] = "space"
      <4>1. end # n + 1
        BY <1>5, <2>2, <3>1
      <4> QED BY <1>7, <1>11, <4>1
    <3> QED BY <2>2, <3>1
  <2>5. LastOf(input, i) = e
    <3>1. i \in 1 .. Len(input) /\ e \in i .. Len(input)
      BY <1>1, <1>5, <1>9, <2>2
    <3>2. e < Len(input) => input[e + 1] = "space"
      BY <1>1, <2>4
    <3> QED BY <2>3, <3>1, <3>2, LastOfIs
  <2> QED BY <1>1, <1>3, <1>9, <1>12, <1>15, <2>1, <2>5
<1> QED BY <1>14, <1>15

\* shell_parse_command finds the words.
THEOREM ParseIsWords ==
  ASSUME NEW input \in Seq(Char)
  PROVE  shell_parse_command(input) = Words(input)
<1>1. PICK n, v, q, m : n = Len(input) /\ v = Parsed(input) /\ q = v.argv /\ m = Len(q)
  OBVIOUS
<1>2. PICK S, p, a : S = Starts(input) /\ p = InOrder(S) /\ a = Len(p)
  OBVIOUS
<1>0. PICK B : B = Bound(v, n)
  OBVIOUS
<1>3. ParseInv(input, n, v)
  BY <1>1, ParsedIs
<1>4. n \in Nat /\ S \subseteq 1 .. n
  BY <1>1, <1>2, StartsAre
<1>5. /\ q \in Seq(1 .. n) /\ m \in Nat /\ m <= MAXARGS
      /\ Lists(q, {i \in S : i <= B})
      /\ m < MAXARGS => B = n
  <2>1. q \in Seq(1 .. n) /\ m <= MAXARGS
    BY <1>1, <1>3 DEF ParseInv, ParseState
  <2>2. Lists(q, {i \in S : i <= B})
    BY <1>0, <1>1, <1>2, <1>3 DEF ParseInv
  <2>3. m < MAXARGS => B = n
    BY <1>0, <1>1 DEF Bound
  <2> QED BY <1>1, <2>1, <2>2, <2>3, LenProperties
<1>6. p \in Seq(1 .. n) /\ Lists(p, S) /\ a \in Nat
  BY <1>2, <1>4, InOrderLists, LenProperties
<1>7. B \in Nat
  <2>1. CASE m < MAXARGS
    BY <1>4, <1>5, <2>1
  <2>2. CASE ~ (m < MAXARGS)
    <3>1. m = MAXARGS /\ MAXARGS \in 1 .. m
      BY <1>5, <2>2, ConsoleConstants
    <3>2. B = q[MAXARGS] /\ q[MAXARGS] \in 1 .. n
      BY <1>0, <1>1, <1>5, <2>2, <3>1, ElementOfSeq DEF Bound
    <3> QED BY <3>2
  <2> QED BY <2>1, <2>2
<1>8. m <= a /\ \A j \in 1 .. m : q[j] = p[j]
  <2>1. Len(q) <= Len(p) /\ \A j \in 1 .. Len(q) : q[j] = p[j]
    <3>1. PICK T : T = {i \in S : i <= B}
      OBVIOUS
    <3>3. q \in Seq(1 .. n) /\ Lists(q, T)
      BY <1>5, <3>1
    <3>4. \A x : x \in T <=> x \in S /\ x <= B
      BY <3>1
    <3>2. p \in Seq(1 .. n) /\ Lists(p, S)
      BY <1>6
    <3> QED BY <1>4, <1>7, <3>2, <3>3, <3>4, ListsAgree
  <2> QED BY <1>1, <1>2, <2>1
<1>9. m < MAXARGS => m = a
  <2> SUFFICES ASSUME m < MAXARGS PROVE m = a
    OBVIOUS
  <2>1. {i \in S : i <= B} = S
    <3>1. \A i \in S : i <= B
      BY <1>4, <1>5
    <3> QED BY <3>1
  <2>2. Lists(q, S)
    BY <1>5, <2>1
  <2>3. a <= m
    <3>1. \A x : x \in S <=> x \in S /\ x <= n
      <4>1. \A x \in 1 .. n : x <= n
        BY <1>4
      <4> QED BY <1>4, <4>1
    <3>2. q \in Seq(1 .. n) /\ p \in Seq(1 .. n) /\ Lists(q, S) /\ Lists(p, S)
      BY <1>5, <1>6, <2>2
    <3>3. Len(p) <= Len(q)
      BY <1>4, <3>1, <3>2, ListsAgree
    <3> QED BY <1>1, <1>2, <3>3
  <2> QED BY <1>5, <1>6, <1>8, <2>3
<1>10. {x \in DOMAIN p : x <= MAXARGS} = 1 .. m
  <2>1. DOMAIN p = 1 .. a
    BY <1>2, <1>6, LenProperties
  <2>2. \A x \in 1 .. a : x <= MAXARGS <=> x \in 1 .. m
    BY <1>5, <1>6, <1>8, <1>9, ConsoleConstants
  <2> QED BY <1>5, <1>6, <1>8, <2>1, <2>2
<1>11. \A k \in 1 .. m :
         SubSeq(input, q[k], EndOf(v.ends, q[k]) - 1)
         = SubSeq(input, p[k], IF k = MAXARGS THEN n ELSE LastOf(input, p[k]))
  <2> TAKE k \in 1 .. m
  <2>1. EndOf(v.ends, q[k]) - 1 = IF k = MAXARGS THEN n ELSE LastOf(input, q[k])
    BY <1>1, <1>3, EndIs
  <2>2. q[k] = p[k]
    BY <1>8
  <2> QED BY <2>1, <2>2
<1>12. shell_parse_command(input) = [k \in 1 .. m |-> SubSeq(input, q[k], EndOf(v.ends, q[k]) - 1)]
  BY <1>1 DEF shell_parse_command
<1>13. Words(input) = [k \in 1 .. m |->
          SubSeq(input, p[k], IF k = MAXARGS THEN n ELSE LastOf(input, p[k]))]
  BY <1>1, <1>2, <1>10 DEF Words
<1> QED BY <1>11, <1>12, <1>13

-------------------------------------------------------------------------------
(***************************************************************************)
(* The typewriter.                                                         *)
(***************************************************************************)
Pages == [lines : Seq(ArgumentVectors), line : Seq(Char)]
Blank == [lines |-> <<>>, line |-> <<>>]

IsTyping(g, text) ==
  g[0] = Blank /\ \A k \in 1 .. Len(text) : g[k] = Typed(g[k - 1], text[k])

LEMMA ShortenedLine ==
  ASSUME NEW l \in Seq(Char)
  PROVE  /\ SubSeq(l, 1, Len(l) - 1) \in Seq(Char)
         /\ Len(SubSeq(l, 1, Len(l) - 1)) = IF Len(l) = 0 THEN 0 ELSE Len(l) - 1
<1>1. PICK m : m = Len(l) - 1
  OBVIOUS
<1>2. Len(l) \in Nat /\ m \in Int /\ m = Len(l) - 1
  BY <1>1, LenProperties
<1>3. \A i \in 1 .. m : l[i] \in Char
  <2>1. \A i \in 1 .. m : i \in 1 .. Len(l)
    BY <1>2
  <2> QED BY <2>1, ElementOfSeq
<1>4. SubSeq(l, 1, m) \in Seq(Char) /\ Len(SubSeq(l, 1, m)) = IF 1 <= m THEN m - 1 + 1 ELSE 0
  BY <1>2, <1>3, SubSeqProperties
<1>5. (IF 1 <= m THEN m - 1 + 1 ELSE 0) = (IF Len(l) = 0 THEN 0 ELSE Len(l) - 1)
  BY <1>2
<1> QED BY <1>1, <1>4, <1>5

LEMMA TypedOnPage ==
  ASSUME NEW s \in Pages, NEW ch \in Char
  PROVE  Typed(s, ch) \in Pages
<1>1. PICK ls \in Seq(ArgumentVectors), l \in Seq(Char) : s = [lines |-> ls, line |-> l]
  BY DEF Pages
<1>2. Words(l) \in ArgumentVectors
  BY DEF ArgumentVectors
<1>3. PICK short, longer, more, ws : short = SubSeq(l, 1, Len(l) - 1) /\ longer = Append(l, ch)
                                     /\ ws = Words(l) /\ more = Append(ls, ws)
  OBVIOUS
<1>4. short \in Seq(Char) /\ longer \in Seq(Char) /\ more \in Seq(ArgumentVectors)
      /\ << >> \in Seq(Char)
  <2>1. SubSeq(l, 1, Len(l) - 1) \in Seq(Char) /\ << >> \in Seq(Char)
    BY ShortenedLine, EmptySeq
  <2>2. Append(l, ch) \in Seq(Char) /\ Append(ls, Words(l)) \in Seq(ArgumentVectors)
    BY <1>2, AppendProperties
  <2> QED BY <1>3, <2>1, <2>2
<1>5. \/ Typed(s, ch) = [lines |-> ls, line |-> << >>]
      \/ Typed(s, ch) = [lines |-> more, line |-> << >>]
      \/ Typed(s, ch) = [lines |-> ls, line |-> short]
      \/ Typed(s, ch) = [lines |-> ls, line |-> longer]
      \/ Typed(s, ch) = s
  BY <1>1, <1>3 DEF Typed
<1>6. /\ [lines |-> ls, line |-> << >>] \in Pages /\ [lines |-> more, line |-> << >>] \in Pages
      /\ [lines |-> ls, line |-> short] \in Pages /\ [lines |-> ls, line |-> longer] \in Pages
  BY <1>1, <1>4 DEF Pages
<1> QED BY <1>5, <1>6

LEMMA TypewriterRun ==
  ASSUME NEW text \in Seq(Char)
  PROVE  \E g : /\ g \in [0 .. Len(text) -> Pages] /\ IsTyping(g, text)
                /\ Typewriter(text) = g[Len(text)]
<1>1. PICK n : n = Len(text)
  OBVIOUS
<1>2. n \in Nat /\ \A k \in 1 .. n : text[k] \in Char
  BY <1>1, LenProperties, ElementOfSeq
<1>3. PICK S, first : S = Pages /\ first = Blank
  OBVIOUS
<1>4. first \in S
  BY <1>3, EmptySeq DEF Pages, Blank
<1>5. PICK F : F = [k \in 1 .. n |-> [v \in S |-> Typed(v, text[k])]]
  OBVIOUS
<1>6. F \in [1 .. n -> [S -> S]]
  <2>1. \A k \in 1 .. n, v \in S : Typed(v, text[k]) \in S
    BY <1>2, <1>3, TypedOnPage
  <2> QED BY <1>5, <2>1
<1>7. PICK g : IsRun(g, S, n, first, F)
  BY <1>2, <1>4, <1>6, LoopRuns
<1>8. g \in [0 .. n -> S] /\ g[0] = first /\ \A k \in 1 .. n : g[k] = Typed(g[k - 1], text[k])
  <2>1. g \in [0 .. n -> S] /\ g[0] = first /\ \A k \in 1 .. n : g[k] = F[k][g[k - 1]]
    BY <1>7 DEF IsRun
  <2>2. \A k \in 1 .. n : g[k - 1] \in S
    BY <1>2, <2>1
  <2> QED BY <1>5, <2>1, <2>2
<1> DEFINE Turns(w) == [i \in 0 .. n |-> IF i = 0 THEN first ELSE Typed(w[i - 1], text[i])]
           loop == CHOOSE w : w = Turns(w)
<1>9. g = Turns(g)
  <2>1. \A i \in 0 .. n : g[i] = IF i = 0 THEN first ELSE Typed(g[i - 1], text[i])
    BY <1>2, <1>8
  <2> QED BY <1>8, <2>1
<1>10. loop = Turns(loop)
  BY <1>9
<1>11. Typewriter(text) = loop[n]
  BY <1>1, <1>3 DEF Typewriter, Blank
<1>12. loop[n] = g[n]
  <2>1. PICK u : u = loop
    OBVIOUS
  <2>2. /\ u[0] = first
        /\ \A k \in 1 .. n : u[k] = Typed(u[k - 1], text[k])
    <3> HIDE DEF loop
    <3>1. u = Turns(u)
      BY <1>10, <2>1
    <3>2. 0 \in 0 .. n /\ \A k \in 1 .. n : k \in 0 .. n /\ k # 0
      BY <1>2
    <3> QED BY <3>1, <3>2
  <2> HIDE DEF loop
  <2>3. PICK Z : Z = {p \in (0 .. n) \X S : u[p[1]] = p[2]}
    OBVIOUS
  <2>4. PICK pairs : pairs = [k \in 0 .. n |-> <<k, g[k]>>]
    OBVIOUS
  <2>5. pairs[0] \in Z
    BY <1>2, <1>4, <1>8, <2>2, <2>3, <2>4
  <2>6. ASSUME NEW k \in 1 .. n, pairs[k - 1] \in Z PROVE pairs[k] \in Z
    <3>1. k \in 0 .. n /\ k - 1 \in 0 .. n /\ g[k] \in S
      BY <1>2, <1>8
    <3>2. u[k - 1] = g[k - 1]
      BY <2>3, <2>4, <2>6, <3>1
    <3>3. u[k] = g[k]
      BY <1>8, <2>2, <3>2
    <3> QED BY <2>3, <2>4, <3>1, <3>3
  <2>7. \A k \in 0 .. n : pairs[k] \in Z
    BY <1>2, <2>5, <2>6, LoopKeeps
  <2>8. n \in 0 .. n
    BY <1>2
  <2> QED BY <2>1, <2>3, <2>4, <2>7, <2>8
<1>13. IsTyping(g, text)
  BY <1>1, <1>3, <1>8 DEF IsTyping
<1> QED BY <1>1, <1>3, <1>8, <1>11, <1>12, <1>13

LEMMA NothingTyped == Typewriter(<< >>) = Blank
<1>1. << >> \in Seq(Char) /\ Len(<< >>) = 0
  BY EmptySeq
<1>2. PICK g : IsTyping(g, << >>) /\ Typewriter(<< >>) = g[0]
  BY <1>1, TypewriterRun
<1> QED BY <1>2 DEF IsTyping

\* One character more.
LEMMA OneMoreTyped ==
  ASSUME NEW text \in Seq(Char), NEW ch \in Char
  PROVE  Typewriter(Append(text, ch)) = Typed(Typewriter(text), ch)
<1>1. PICK more, n : more = Append(text, ch) /\ n = Len(text)
  OBVIOUS
<1>2. /\ more \in Seq(Char) /\ n \in Nat /\ Len(more) = n + 1
      /\ \A i \in 1 .. n : more[i] = text[i]
      /\ more[n + 1] = ch
  <2>1. /\ Append(text, ch) \in Seq(Char) /\ Len(text) \in Nat
        /\ Len(Append(text, ch)) = Len(text) + 1
        /\ \A i \in 1 .. Len(text) : Append(text, ch)[i] = text[i]
        /\ Append(text, ch)[Len(text) + 1] = ch
    BY AppendProperties, LenProperties
  <2> QED BY <1>1, <2>1
<1>3. PICK g : /\ g \in [0 .. n -> Pages] /\ IsTyping(g, text) /\ Typewriter(text) = g[n]
  BY <1>1, TypewriterRun
<1>4. PICK h : IsTyping(h, more) /\ Typewriter(more) = h[n + 1]
  <2>1. \E h : IsTyping(h, more) /\ Typewriter(more) = h[Len(more)]
    BY <1>2, TypewriterRun
  <2> QED BY <1>2, <2>1
<1>5. g[n] = h[n]
  <2>1. PICK S : S = {p \in (0 .. n) \X Pages : h[p[1]] = p[2]}
    OBVIOUS
  <2>2. PICK pairs : pairs = [k \in 0 .. n |-> <<k, g[k]>>]
    OBVIOUS
  <2>3. pairs[0] \in S
    <3>1. g[0] = h[0] /\ 0 \in 0 .. n
      BY <1>2, <1>3, <1>4 DEF IsTyping
    <3> QED BY <1>3, <2>1, <2>2, <3>1
  <2>4. ASSUME NEW k \in 1 .. n, pairs[k - 1] \in S PROVE pairs[k] \in S
    <3>1. k \in 0 .. n /\ k - 1 \in 0 .. n /\ g[k] \in Pages /\ k \in 1 .. n + 1
      BY <1>2, <1>3
    <3>2. h[k - 1] = g[k - 1]
      BY <2>1, <2>2, <2>4, <3>1
    <3>3. g[k] = Typed(g[k - 1], text[k])
      BY <1>1, <1>3 DEF IsTyping
    <3>4. h[k] = Typed(h[k - 1], more[k])
      BY <1>2, <1>4, <3>1 DEF IsTyping
    <3>5. h[k] = g[k]
      BY <1>2, <3>2, <3>3, <3>4
    <3> QED BY <2>1, <2>2, <3>1, <3>5
  <2>5. \A k \in 0 .. n : pairs[k] \in S
    BY <1>2, <2>3, <2>4, LoopKeeps
  <2>6. n \in 0 .. n
    BY <1>2
  <2> QED BY <2>1, <2>2, <2>5, <2>6
<1>6. h[n + 1] = Typed(h[n], ch)
  <2>1. n + 1 \in 1 .. n + 1 /\ n + 1 - 1 = n
    BY <1>2
  <2>2. h[n + 1] = Typed(h[n + 1 - 1], more[n + 1])
    BY <1>2, <1>4, <2>1 DEF IsTyping
  <2> QED BY <1>2, <2>1, <2>2
<1> QED BY <1>1, <1>3, <1>4, <1>5, <1>6

LEMMA PrefixSame ==
  ASSUME NEW t \in Seq(Char), NEW u \in Seq(Char), NEW m \in Int, m <= Len(t), m <= Len(u),
         \A i \in 1 .. m : t[i] = u[i]
  PROVE  SubSeq(t, 1, m) = SubSeq(u, 1, m) /\ SubSeq(t, 1, m) \in Seq(Char)
<1>1. Len(t) \in Nat /\ Len(u) \in Nat
  BY LenProperties
<1>2. \A i \in 1 .. m : t[i] \in Char /\ u[i] \in Char
  <2>1. \A i \in 1 .. m : i \in 1 .. Len(t) /\ i \in 1 .. Len(u)
    BY <1>1
  <2> QED BY <2>1, ElementOfSeq
<1>3. PICK a, b : a = SubSeq(t, 1, m) /\ b = SubSeq(u, 1, m)
  OBVIOUS
<1>4. /\ a \in Seq(Char) /\ Len(a) = (IF 1 <= m THEN m - 1 + 1 ELSE 0)
      /\ \A i \in 1 .. m - 1 + 1 : a[i] = t[1 + i - 1]
  <2>1. \A i \in 1 .. m : t[i] \in Char
    BY <1>2
  <2>2. /\ SubSeq(t, 1, m) \in Seq(Char)
        /\ Len(SubSeq(t, 1, m)) = (IF 1 <= m THEN m - 1 + 1 ELSE 0)
        /\ \A i \in 1 .. m - 1 + 1 : SubSeq(t, 1, m)[i] = t[1 + i - 1]
    BY <2>1, SubSeqProperties
  <2> QED BY <1>3, <2>2
<1>5. /\ b \in Seq(Char) /\ Len(b) = (IF 1 <= m THEN m - 1 + 1 ELSE 0)
      /\ \A i \in 1 .. m - 1 + 1 : b[i] = u[1 + i - 1]
  <2>1. \A i \in 1 .. m : u[i] \in Char
    BY <1>2
  <2>2. /\ SubSeq(u, 1, m) \in Seq(Char)
        /\ Len(SubSeq(u, 1, m)) = (IF 1 <= m THEN m - 1 + 1 ELSE 0)
        /\ \A i \in 1 .. m - 1 + 1 : SubSeq(u, 1, m)[i] = u[1 + i - 1]
    BY <2>1, SubSeqProperties
  <2> QED BY <1>3, <2>2
<1>6. \A i \in 1 .. Len(a) : a[i] = b[i]
  <2>1. ASSUME NEW i \in 1 .. Len(a) PROVE a[i] = b[i]
    <3>1. i \in 1 .. m /\ i \in 1 .. m - 1 + 1 /\ 1 + i - 1 = i
      BY <1>4, <2>1
    <3>2. a[i] = t[i] /\ b[i] = u[i]
      BY <1>4, <1>5, <3>1
    <3> QED BY <3>1, <3>2
  <2> QED BY <2>1
<1>7. Len(a) = Len(b)
  BY <1>4, <1>5
<1>8. a = b
  BY <1>4, <1>5, <1>6, <1>7, SeqEqual
<1> QED BY <1>3, <1>4, <1>8

LEMMA PrefixGrows ==
  ASSUME NEW t \in Seq(Char), NEW m \in Nat, m < Len(t)
  PROVE  SubSeq(t, 1, m + 1) = Append(SubSeq(t, 1, m), t[m + 1])
<1>1. Len(t) \in Nat
  BY LenProperties
<1>2. /\ SubSeq(t, 1, m) \in Seq(Char) /\ t[m + 1] \in Char
      /\ Len(SubSeq(t, 1, m)) = m /\ \A i \in 1 .. m : SubSeq(t, 1, m)[i] = t[i]
  <2>1. \A i \in 1 .. m : t[i] \in Char
    <3>1. \A i \in 1 .. m : i \in 1 .. Len(t)
      BY <1>1
    <3> QED BY <3>1, ElementOfSeq
  <2>2. /\ SubSeq(t, 1, m) \in Seq(Char)
        /\ Len(SubSeq(t, 1, m)) = (IF 1 <= m THEN m - 1 + 1 ELSE 0)
        /\ \A i \in 1 .. m - 1 + 1 : SubSeq(t, 1, m)[i] = t[1 + i - 1]
    BY <2>1, SubSeqProperties
  <2>3. \A i \in 1 .. m : i \in 1 .. m - 1 + 1 /\ 1 + i - 1 = i
    OBVIOUS
  <2>4. m + 1 \in 1 .. Len(t)
    BY <1>1
  <2>5. t[m + 1] \in Char
    BY <2>4, ElementOfSeq
  <2>6. (IF 1 <= m THEN m - 1 + 1 ELSE 0) = m
    OBVIOUS
  <2> QED BY <2>2, <2>3, <2>5, <2>6
<1>3. PICK a, b, x, k : a = SubSeq(t, 1, m) /\ b = SubSeq(t, 1, m + 1) /\ x = t[m + 1] /\ k = m + 1
  OBVIOUS
<1>4. b \in Seq(Char) /\ Len(b) = m + 1 /\ \A i \in 1 .. m + 1 : b[i] = t[i]
  <2>1. k \in Nat /\ k = m + 1 /\ \A i \in 1 .. k : t[i] \in Char
    <3>1. k \in Nat /\ k = m + 1 /\ \A i \in 1 .. k : i \in 1 .. Len(t)
      BY <1>1, <1>3
    <3> QED BY <3>1, ElementOfSeq
  <2>2. /\ SubSeq(t, 1, k) \in Seq(Char)
        /\ Len(SubSeq(t, 1, k)) = (IF 1 <= k THEN k - 1 + 1 ELSE 0)
        /\ \A i \in 1 .. k - 1 + 1 : SubSeq(t, 1, k)[i] = t[1 + i - 1]
    BY <2>1, SubSeqProperties
  <2>3. \A i \in 1 .. k : i \in 1 .. k - 1 + 1 /\ 1 + i - 1 = i
    BY <2>1
  <2>4. (IF 1 <= k THEN k - 1 + 1 ELSE 0) = k
    BY <2>1
  <2>5. SubSeq(t, 1, k) = b
    BY <1>3
  <2> QED BY <2>1, <2>2, <2>3, <2>4, <2>5
<1>5. a \in Seq(Char) /\ x \in Char /\ Len(a) = m /\ (\A i \in 1 .. m : a[i] = t[i]) /\ x = t[m + 1]
  BY <1>2, <1>3
<1>6. /\ Append(a, x) \in Seq(Char) /\ Len(Append(a, x)) = m + 1
      /\ \A i \in 1 .. m : Append(a, x)[i] = a[i]
      /\ Append(a, x)[m + 1] = x
  BY <1>5, AppendProperties
<1>7. \A i \in 1 .. m + 1 : Append(a, x)[i] = b[i]
  <2>1. ASSUME NEW i \in 1 .. m + 1 PROVE Append(a, x)[i] = b[i]
    <3>1. i \in 1 .. m \/ i = m + 1
      OBVIOUS
    <3> QED BY <1>4, <1>5, <1>6, <3>1
  <2> QED BY <2>1
<1>8. Append(a, x) = b
  BY <1>4, <1>6, <1>7, SeqEqual
<1> QED BY <1>3, <1>8

-------------------------------------------------------------------------------
(***************************************************************************)
(* The invariant.                                                          *)
(***************************************************************************)
LEMMA ConsoleInitially ==
  ASSUME Init
  PROVE  ConsoleInv
<1>1. KBSIZE \in Nat /\ 0 < KBSIZE /\ LINE \in Nat /\ 0 < LINE
  BY ConsoleConstants
<1>2. 0 \in Place /\ head = 0 /\ tail = 0
  BY <1>1 DEF Init, Place
<1>3. Waiting = 0
  BY <1>2, Distance DEF Waiting
<1>4. << >> \in Seq(Char) /\ << >> \in Seq(ArgumentVectors) /\ Len(<< >>) = 0
  BY EmptySeq
<1>5. ConsoleTypes
  <2>1. slots \in [Place -> Char]
    BY DEF Init, Place, Char
  <2>2. NUL \in Char /\ "startup" \in Before
    BY DEF Char, Before
  <2> QED BY <1>1, <1>2, <1>4, <2>1, <2>2 DEF Init, ConsoleTypes
<1>6. QueueInv
  BY <1>3, <1>4 DEF QueueInv, Init
<1>7. HandInv
  BY <1>2, <1>3, <1>4 DEF HandInv, Init
<1>8. LinesAreWhatWasTyped /\ ShiftInv
  <2>1. LinesAreWhatWasTyped /\ NoStuckShift
    BY DEF Init, LinesAreWhatWasTyped, ShellIsUp, NoStuckShift
  <2>2. 1 \in DOMAIN BitFields
    BY DEF BitFields
  <2>3. CopyTypes /\ CopyInv
    BY <2>2 DEF Init, NoCopy, CopyTypes, CopyInv
  <2> QED BY <2>1, <2>3 DEF ShiftInv
<1> QED BY <1>5, <1>6, <1>7, <1>8 DEF ConsoleInv

\* An interrupt finds the shell somewhere and leaves it there, but for the hlt.
LEMMA InterruptKeeps ==
  ASSUME ConsoleTypes, QueueInv, HandInv, Interrupt
  PROVE  ConsoleTypes' /\ QueueInv' /\ HandInv'
<1>1. /\ pc \in Before \cup Running /\ Len(typed) \in Nat /\ head \in Place /\ tail \in Place
  BY LenProperties DEF ConsoleTypes
<1>2. /\ pc' = pc \/ (pc = "halted" /\ pc' = "check")
      /\ UNCHANGED <<tail, c, line, executed, taskLock, kbLock>>
      /\ shift' \in BOOLEAN /\ caps' \in BOOLEAN /\ spins' \in BOOLEAN /\ down' \subseteq ShiftCodes
  BY DEF Interrupt
<1>3. pc' \in Before \cup Running
  BY <1>1, <1>2 DEF Running
<1>4. CASE UNCHANGED <<slots, head, typed>>
  <2>1. Waiting' = Waiting
    BY <1>2, <1>4 DEF Waiting
  <2>2. ConsoleTypes'
    BY <1>2, <1>3, <1>4 DEF ConsoleTypes
  <2>3. QueueInv'
    BY <1>2, <1>4, <2>1 DEF QueueInv
  <2>4. HandInv'
    BY <1>2, <1>4, <2>1 DEF HandInv, Before
  <2> QED BY <2>2, <2>3, <2>4
<1>5. ASSUME NEW ch \in Char, Arrives(ch) PROVE ConsoleTypes' /\ QueueInv' /\ HandInv'
  <2>1. /\ slots' \in [Place -> Char] /\ head' \in Place /\ typed' \in Seq(Char)
        /\ QueueInv' /\ Waiting' = Waiting + 1 /\ Len(typed') = Len(typed) + 1
        /\ \A i \in 1 .. Len(typed) : typed'[i] = typed[i]
        /\ slots'[tail] = IF Waiting = 0 THEN ch ELSE slots[tail]
    BY <1>2, <1>5, ArrivalsKeepQueue
  <2>2. ConsoleTypes'
    BY <1>2, <1>3, <2>1 DEF ConsoleTypes
  <2>3. Waiting \in Nat /\ (Waiting = 0 <=> head = tail) /\ Waiting <= Len(typed)
    BY <1>1, Distance, ConsoleConstants DEF Waiting, Place, QueueInv
  <2>4. head' # tail
    BY <1>5 DEF Arrives
  <2>5. pc' \in Before => tail' = 0 /\ Len(typed') = Waiting' /\ line' = <<>> /\ executed' = <<>>
    BY <1>2, <2>1, <2>3 DEF HandInv, Before
  <2>6. pc' \in {"getchar", "take", "advance"} => pc \in {"getchar", "take", "advance"}
    BY <1>2
  <2>7. pc' = "advance" => c' = slots'[tail']
    <3> SUFFICES ASSUME pc' = "advance" PROVE c' = slots'[tail']
      OBVIOUS
    <3>1. pc = "advance"
      BY <1>2
    <3>2. c = slots[tail] /\ Waiting # 0
      BY <2>3, <3>1 DEF HandInv
    <3> QED BY <1>2, <2>1, <3>2
  <2>8. pc' \in {"unlock", "edit"} => Waiting' < Len(typed') /\ c' = typed'[Len(typed') - Waiting']
    <3> SUFFICES ASSUME pc' \in {"unlock", "edit"}
        PROVE  Waiting' < Len(typed') /\ c' = typed'[Len(typed') - Waiting']
      OBVIOUS
    <3>1. pc \in {"unlock", "edit"}
      BY <1>2
    <3>2. Waiting < Len(typed) /\ c = typed[Len(typed) - Waiting]
      BY <3>1 DEF HandInv
    <3>3. PICK i : i = Len(typed) - Waiting
      OBVIOUS
    <3>4. i \in 1 .. Len(typed) /\ Len(typed') - Waiting' = i /\ Waiting' < Len(typed')
      BY <1>1, <2>1, <2>3, <3>2, <3>3
    <3>5. c = typed'[i]
      BY <2>1, <3>2, <3>3, <3>4
    <3> QED BY <1>2, <3>4, <3>5
  <2>9. HandInv'
    BY <1>2, <2>4, <2>5, <2>7, <2>8 DEF HandInv
  <2> QED BY <2>1, <2>2, <2>9
<1> QED BY <1>4, <1>5 DEF Interrupt

\* The line and the lines run, after a character.
LEMMA EditIsTyped ==
  ASSUME ConsoleTypes, Edit
  PROVE  [lines |-> executed', line |-> line'] = Typed([lines |-> executed, line |-> line], c)
<1>1. line \in Seq(Char) /\ Len(line) \in Nat /\ Len(line) < LINE /\ c \in Char
  BY LenProperties DEF ConsoleTypes
<1>2. shell_parse_command(line) = Words(line)
  BY <1>1, ParseIsWords
<1>3. Len(line) < LINE - 1 <=> Len(line) # LINE - 1
  BY <1>1, ConsoleConstants
<1>4. CASE c = "enter"
  <2>1. line' = <<>> /\ executed' = (IF Words(line) # <<>> THEN Append(executed, Words(line)) ELSE executed)
    BY <1>2, <1>4 DEF Edit
  <2> QED BY <1>4, <2>1 DEF Typed
<1>5. CASE c # "enter"
  <2>1. /\ line' = IF c = "backspace" THEN SubSeq(line, 1, Len(line) - 1)
                   ELSE IF Len(line) < LINE - 1 THEN Append(line, c)
                   ELSE line
        /\ executed' = executed
    BY <1>5 DEF Edit
  <2> QED BY <1>3, <1>5, <2>1 DEF Typed
<1> QED BY <1>4, <1>5

LEMMA EditKeepsTypes ==
  ASSUME ConsoleTypes, Edit
  PROVE  line' \in Seq(Char) /\ Len(line') < LINE /\ executed' \in Seq(ArgumentVectors)
<1>1. /\ line \in Seq(Char) /\ Len(line) \in Nat /\ Len(line) < LINE /\ c \in Char
      /\ executed \in Seq(ArgumentVectors)
  BY LenProperties DEF ConsoleTypes
<1>2. LINE \in Nat /\ 0 < LINE
  BY ConsoleConstants
<1>3. shell_parse_command(line) = Words(line) /\ Words(line) \in ArgumentVectors
  BY <1>1, ParseIsWords DEF ArgumentVectors
<1>4. Append(executed, Words(line)) \in Seq(ArgumentVectors)
  BY <1>1, <1>3, AppendProperties
<1>5. Append(line, c) \in Seq(Char) /\ Len(Append(line, c)) = Len(line) + 1
  BY <1>1, AppendProperties
<1>6. /\ SubSeq(line, 1, Len(line) - 1) \in Seq(Char)
      /\ Len(SubSeq(line, 1, Len(line) - 1)) = IF Len(line) = 0 THEN 0 ELSE Len(line) - 1
  BY <1>1, ShortenedLine
<1>7. << >> \in Seq(Char) /\ Len(<< >>) = 0
  BY EmptySeq
<1>8. \/ line' = <<>> /\ executed' \in Seq(ArgumentVectors)
      \/ line' = SubSeq(line, 1, Len(line) - 1) /\ executed' = executed
      \/ Len(line) < LINE - 1 /\ line' = Append(line, c) /\ executed' = executed
      \/ line' = line /\ executed' = executed
  BY <1>1, <1>3, <1>4 DEF Edit
<1>9. CASE line' = SubSeq(line, 1, Len(line) - 1)
  BY <1>1, <1>2, <1>6, <1>8, <1>9
<1>10. CASE Len(line) < LINE - 1 /\ line' = Append(line, c)
  BY <1>1, <1>2, <1>5, <1>8, <1>10
<1> QED BY <1>1, <1>2, <1>7, <1>8, <1>9, <1>10

\* The steps of the main thread that leave the ring and the character alone.
LEMMA QuietKeeps ==
  ASSUME ConsoleTypes, QueueInv, HandInv,
         TaskCall \/ TaskReturn \/ InitTail \/ InitLoad \/ Check \/ Halt
  PROVE  ConsoleTypes' /\ QueueInv' /\ HandInv'
<1>1. /\ pc' \in Before \cup Running /\ taskLock' \in BOOLEAN /\ tail' = tail
      /\ UNCHANGED <<slots, head, typed, kbLock, shift, caps, c, line, executed, spins, down>>
      /\ pc' \in Before => pc \in Before
      /\ pc' \in {"getchar", "take", "advance"} => pc' = "getchar" /\ head # tail
      /\ pc' \notin {"unlock", "edit"}
  <2>1. CASE TaskCall
    BY <2>1 DEF TaskCall, Step, UnchangedOutside, keyboard, Before, Running
  <2>2. CASE TaskReturn
    BY <2>2 DEF TaskReturn, Step, UnchangedOutside, keyboard, Before, Running
  <2>3. CASE InitTail
    <3>1. tail = 0
      BY <2>3 DEF InitTail, Step, HandInv, Before
    <3>2. taskLock \in BOOLEAN
      BY DEF ConsoleTypes
    <3> QED BY <2>3, <3>1, <3>2 DEF InitTail, Step, UnchangedOutside, Before, Running
  <2>4. CASE Check
    <3>1. taskLock \in BOOLEAN
      BY DEF ConsoleTypes
    <3> QED BY <2>4, <3>1 DEF Check, Step, UnchangedOutside, keyboard, Before, Running
  <2>5. CASE Halt
    <3>1. taskLock \in BOOLEAN
      BY DEF ConsoleTypes
    <3> QED BY <2>5, <3>1 DEF Halt, Step, UnchangedOutside, keyboard, Before, Running
  <2>6. CASE InitLoad
    <3>1. taskLock \in BOOLEAN
      BY DEF ConsoleTypes
    <3> QED BY <2>6, <3>1 DEF InitLoad, Step, keyboard, Before, Running
  <2> QED BY <2>1, <2>2, <2>3, <2>4, <2>5, <2>6
<1>2. Waiting' = Waiting
  BY <1>1 DEF Waiting
<1>3. ConsoleTypes'
  BY <1>1 DEF ConsoleTypes
<1>4. QueueInv'
  BY <1>1, <1>2 DEF QueueInv
<1>5. HandInv'
  BY <1>1, <1>2 DEF HandInv
<1> QED BY <1>3, <1>4, <1>5

LEMMA MainKeeps ==
  ASSUME ConsoleTypes, QueueInv, HandInv, Main
  PROVE  ConsoleTypes' /\ QueueInv' /\ HandInv'
<1>1. /\ head \in Place /\ tail \in Place /\ slots \in [Place -> Char] /\ Len(typed) \in Nat
      /\ 0 \in Place /\ << >> \in Seq(Char) /\ Len(<< >>) = 0 /\ NUL \in Char
  <2>1. 0 \in Place /\ << >> \in Seq(Char) /\ Len(<< >>) = 0
    BY ConsoleConstants, EmptySeq DEF Place
  <2> QED BY <2>1, LenProperties DEF ConsoleTypes, Char
<1>2. CASE TaskCall \/ TaskReturn \/ InitTail \/ InitLoad \/ Check \/ Halt
  BY <1>2, QuietKeeps
<1>3. CASE InitHead
  <2>1. /\ pc = "startup" /\ pc' = "init tail" /\ head' = 0 /\ typed' = <<>>
        /\ UNCHANGED <<slots, tail, kbLock, taskLock, shift, caps, c, line, executed, spins, down>>
    BY <1>3 DEF InitHead, Step
  <2>2. tail = 0 /\ line = <<>> /\ executed = <<>>
    BY <2>1 DEF HandInv, Before
  <2>3. Waiting' = 0
    <3>1. (head' - tail') % KBSIZE = 0
      BY <1>1, <2>1, <2>2, Distance
    <3> QED BY <3>1 DEF Waiting
  <2>4. ConsoleTypes'
    BY <1>1, <2>1 DEF ConsoleTypes, Before
  <2>5. QueueInv'
    <3>1. Len(typed') = 0
      BY <1>1, <2>1
    <3>2. \A i \in 1 .. Waiting' : FALSE
      BY <2>3
    <3> QED BY <2>3, <3>1, <3>2 DEF QueueInv
  <2>6. HandInv'
    BY <1>1, <2>1, <2>2, <2>3 DEF HandInv
  <2> QED BY <2>4, <2>5, <2>6
<1>4. CASE InitStore
  <2>1. /\ pc = "init store" /\ pc' \in {"check", "init load"} /\ line' = <<>>
        /\ shift' \in BOOLEAN /\ caps' \in BOOLEAN
        /\ UNCHANGED <<slots, head, tail, typed, kbLock, taskLock, c, executed, spins, down>>
    BY <1>4 DEF InitStore, Step
  <2>2. Waiting' = Waiting
    BY <2>1 DEF Waiting
  <2>3. ConsoleTypes'
    BY <1>1, <2>1, ConsoleConstants DEF ConsoleTypes, Before, Running
  <2>4. QueueInv'
    BY <2>1, <2>2 DEF QueueInv
  <2>5. HandInv'
    BY <2>1, <2>2 DEF HandInv, Before
  <2> QED BY <2>3, <2>4, <2>5
<1>5. CASE GetChar
  <2>1. /\ pc = "getchar" /\ head # tail /\ pc' = "take" /\ kbLock' = TRUE
        /\ UNCHANGED <<slots, head, tail, typed, taskLock, shift, caps, c, line, executed, spins, down>>
    <3>1. pc = "getchar"
      BY <1>5 DEF GetChar, Step
    <3>2. head # tail
      BY <3>1 DEF HandInv
    <3> QED BY <1>5, <3>1, <3>2 DEF GetChar, Step, UnchangedOutside
  <2>2. Waiting' = Waiting
    BY <2>1 DEF Waiting
  <2>3. ConsoleTypes'
    BY <2>1 DEF ConsoleTypes, Running
  <2>4. QueueInv'
    BY <2>1, <2>2 DEF QueueInv
  <2>5. HandInv'
    BY <2>1 DEF HandInv, Before
  <2> QED BY <2>3, <2>4, <2>5
<1>6. CASE Take
  <2>1. /\ pc = "take" /\ pc' = "advance" /\ c' = slots[tail]
        /\ UNCHANGED <<slots, head, tail, typed, kbLock, taskLock, shift, caps, line, executed, spins, down>>
    BY <1>6 DEF Take, Step, UnchangedOutside, keyboard
  <2>2. Waiting' = Waiting /\ c' \in Char
    BY <1>1, <2>1 DEF Waiting
  <2>3. ConsoleTypes'
    BY <2>1, <2>2 DEF ConsoleTypes, Running
  <2>4. QueueInv'
    BY <2>1, <2>2 DEF QueueInv
  <2>5. HandInv'
    BY <2>1 DEF HandInv, Before
  <2> QED BY <2>3, <2>4, <2>5
<1>7. CASE Advance
  <2>1. /\ pc = "advance" /\ pc' = "unlock" /\ tail' = (tail + 1) % KBSIZE
        /\ UNCHANGED <<slots, head, typed, kbLock, taskLock, shift, caps, c, line, executed, spins, down>>
    BY <1>7 DEF Advance, Step, UnchangedOutside
  <2>2. head # tail /\ c = slots[tail]
    BY <2>1 DEF HandInv
  <2>3. tail' \in Place /\ Waiting = Waiting' + 1 /\ QueueInv'
    BY <2>1, <2>2, AdvanceKeepsQueue
  <2>4. ConsoleTypes'
    BY <2>1, <2>3 DEF ConsoleTypes, Running
  <2>5. Waiting' < Len(typed') /\ c' = typed'[Len(typed') - Waiting']
    <3>1. Waiting \in Nat /\ 0 < Waiting /\ Waiting <= Len(typed)
          /\ slots[tail] = typed[Len(typed) - Waiting + 1]
      BY <2>2, FirstInLine
    <3>2. Waiting' \in Nat
      BY <1>1, <2>1, <2>3, Distance, ConsoleConstants DEF Waiting, Place
    <3>3. Waiting' < Len(typed) /\ Len(typed) - Waiting + 1 = Len(typed) - Waiting'
      BY <1>1, <2>3, <3>1, <3>2
    <3> QED BY <2>1, <2>2, <3>1, <3>3
  <2>6. HandInv'
    BY <2>1, <2>5 DEF HandInv, Before
  <2> QED BY <2>3, <2>4, <2>6
<1>8. CASE Unlock
  <2>1. /\ pc = "unlock" /\ pc' = "edit" /\ kbLock' = FALSE
        /\ UNCHANGED <<slots, head, tail, typed, taskLock, shift, caps, c, line, executed, spins, down>>
    BY <1>8 DEF Unlock, Step, UnchangedOutside
  <2>2. Waiting' = Waiting
    BY <2>1 DEF Waiting
  <2>3. ConsoleTypes'
    BY <2>1 DEF ConsoleTypes, Running
  <2>4. QueueInv'
    BY <2>1, <2>2 DEF QueueInv
  <2>5. HandInv'
    BY <2>1, <2>2 DEF HandInv, Before
  <2> QED BY <2>3, <2>4, <2>5
<1>9. CASE Edit
  <2>1. /\ pc = "edit" /\ pc' = "check"
        /\ UNCHANGED <<slots, head, tail, typed, kbLock, taskLock, shift, caps, c, spins, down>>
    BY <1>9 DEF Edit, Step, UnchangedOutside, keyboard
  <2>2. Waiting' = Waiting
    BY <2>1 DEF Waiting
  <2>3. ConsoleTypes'
    <3>1. line' \in Seq(Char) /\ Len(line') < LINE /\ executed' \in Seq(ArgumentVectors)
      BY <1>9, EditKeepsTypes
    <3> QED BY <2>1, <3>1 DEF ConsoleTypes, Running
  <2>4. QueueInv'
    BY <2>1, <2>2 DEF QueueInv
  <2>5. HandInv'
    BY <2>1 DEF HandInv, Before
  <2> QED BY <2>3, <2>4, <2>5
<1> QED BY <1>2, <1>3, <1>4, <1>5, <1>6, <1>7, <1>8, <1>9 DEF Main

\* What the shell has dealt with.
InHand == IF pc \in {"unlock", "edit"} THEN 1 ELSE 0
LEMMA EditedIs ==
  ASSUME ConsoleTypes
  PROVE  Edited = SubSeq(typed, 1, Len(typed) - Waiting - InHand) /\ Waiting \in Nat
<1>1. Waiting \in Nat
  BY Distance, ConsoleConstants DEF ConsoleTypes, Waiting, Place
<1>2. Len(Queued) = Waiting
  <2>1. PICK n, q : n = Waiting /\ q = Queued
    OBVIOUS
  <2>2. q = [i \in 1 .. n |-> slots[(tail + i - 1) % KBSIZE]] /\ n \in Nat
    BY <1>1, <2>1 DEF Queued, Waiting
  <2>3. Len(q) = n
    BY <2>2
  <2> QED BY <2>1, <2>3
<1> QED BY <1>1, <1>2 DEF Edited, InHand

LEMMA EditedIsNext ==
  ASSUME ConsoleTypes'
  PROVE  Edited' = SubSeq(typed', 1, Len(typed') - Waiting' - InHand') /\ Waiting' \in Nat
<1>1. Waiting' \in Nat
  <2>1. head' \in Place /\ tail' \in Place
    BY DEF ConsoleTypes
  <2>2. (head' - tail') % KBSIZE \in Place
    BY <2>1, Distance
  <2> QED BY <2>2, ConsoleConstants DEF Waiting, Place
<1>2. Len(Queued') = Waiting'
  <2>1. PICK n, q : n = Waiting' /\ q = Queued'
    OBVIOUS
  <2>2. q = [i \in 1 .. n |-> slots'[(tail' + i - 1) % KBSIZE]] /\ n \in Nat
    BY <1>1, <2>1 DEF Queued, Waiting
  <2>3. Len(q) = n
    BY <2>2
  <2> QED BY <2>1, <2>3
<1> QED BY <1>1, <1>2 DEF Edited, InHand

\* A step that leaves alone what the shell has dealt with.
LEMMA SameLines ==
  ASSUME ConsoleTypes, QueueInv, HandInv, ConsoleTypes', LinesAreWhatWasTyped,
         ShellIsUp' => ShellIsUp, line' = line, executed' = executed,
         Len(typed') - Waiting' - InHand' = Len(typed) - Waiting - InHand,
         Len(typed) <= Len(typed'), \A i \in 1 .. Len(typed) : typed'[i] = typed[i]
  PROVE  LinesAreWhatWasTyped'
<1> SUFFICES ASSUME ShellIsUp' PROVE [lines |-> executed', line |-> line'] = Typewriter(Edited')
  BY DEF LinesAreWhatWasTyped
<1>1. [lines |-> executed, line |-> line] = Typewriter(Edited)
  BY DEF LinesAreWhatWasTyped
<1>2. typed \in Seq(Char) /\ typed' \in Seq(Char) /\ Len(typed) \in Nat /\ Len(typed') \in Nat
  BY LenProperties DEF ConsoleTypes
<1>3. PICK m : m = Len(typed) - Waiting - InHand
  OBVIOUS
<1>4. /\ Edited = SubSeq(typed, 1, m) /\ Edited' = SubSeq(typed', 1, m)
      /\ m \in Int /\ m <= Len(typed)
  <2>1. Edited = SubSeq(typed, 1, Len(typed) - Waiting - InHand) /\ Waiting \in Nat
    BY EditedIs
  <2>2. Edited' = SubSeq(typed', 1, Len(typed') - Waiting' - InHand')
    BY EditedIsNext
  <2>3. InHand \in Nat
    BY DEF InHand
  <2>4. m \in Int /\ m <= Len(typed)
    BY <1>2, <1>3, <2>1, <2>3
  <2> QED BY <1>3, <2>1, <2>2, <2>4
<1>5. PICK t, u : t = typed /\ u = typed'
  OBVIOUS
<1>6. t \in Seq(Char) /\ u \in Seq(Char) /\ m <= Len(t) /\ m <= Len(u) /\ \A i \in 1 .. m : t[i] = u[i]
  <2>1. \A i \in 1 .. m : i \in 1 .. Len(typed)
    BY <1>2, <1>4
  <2>2. m <= Len(typed')
    BY <1>2, <1>4
  <2> QED BY <1>2, <1>4, <1>5, <2>1, <2>2
<1>7. SubSeq(t, 1, m) = SubSeq(u, 1, m)
  BY <1>4, <1>6, PrefixSame
<1>8. Edited' = Edited
  BY <1>4, <1>5, <1>7
<1> QED BY <1>1, <1>8

LEMMA LinesStep ==
  ASSUME ConsoleTypes, QueueInv, HandInv, LinesAreWhatWasTyped, Next,
         ConsoleTypes', QueueInv', HandInv'
  PROVE  LinesAreWhatWasTyped'
<1>1. /\ typed \in Seq(Char) /\ Len(typed) \in Nat /\ head \in Place /\ tail \in Place
      /\ Waiting \in Nat /\ Waiting' \in Nat /\ Waiting <= Len(typed)
  BY LenProperties, EditedIs, EditedIsNext DEF ConsoleTypes, QueueInv
<1>2. CASE Interrupt
  <2>1. /\ pc' = pc \/ (pc = "halted" /\ pc' = "check")
        /\ UNCHANGED <<tail, line, executed>>
    BY <1>2 DEF Interrupt
  <2>2. (ShellIsUp' => ShellIsUp) /\ InHand' = InHand /\ InHand \in Nat
    BY <2>1 DEF ShellIsUp, InHand
  <2>3. CASE UNCHANGED <<slots, head, typed>>
    <3>1. Waiting' = Waiting
      BY <2>1, <2>3 DEF Waiting
    <3> QED BY <1>1, <2>1, <2>2, <2>3, <3>1, SameLines
  <2>4. ASSUME NEW ch \in Char, Arrives(ch) PROVE LinesAreWhatWasTyped'
    <3>1. /\ Waiting' = Waiting + 1 /\ Len(typed') = Len(typed) + 1
          /\ \A i \in 1 .. Len(typed) : typed'[i] = typed[i]
      BY <2>1, <2>4, ArrivalsKeepQueue
    <3>2. Len(typed') - Waiting' - InHand' = Len(typed) - Waiting - InHand /\ Len(typed) <= Len(typed')
      BY <1>1, <2>2, <3>1
    <3> QED BY <2>1, <2>2, <3>1, <3>2, SameLines
  <2> QED BY <1>2, <2>3, <2>4 DEF Interrupt
<1>3. CASE TaskCall \/ TaskReturn \/ InitHead \/ InitTail \/ InitLoad
  <2>1. pc' \in {"startup", "in task call", "init tail", "init load", "init store"}
    BY <1>3 DEF TaskCall, TaskReturn, InitHead, InitTail, InitLoad, Step
  <2> QED BY <2>1 DEF LinesAreWhatWasTyped, ShellIsUp
<1>4. CASE InitStore
  <2>1. /\ pc = "init store" /\ pc' \in {"check", "init load"} /\ line' = <<>>
        /\ UNCHANGED <<head, tail, typed, executed>>
    BY <1>4 DEF InitStore, Step
  <2>2. executed' = <<>> /\ Len(typed) = Waiting /\ Waiting' = Waiting
    BY <2>1 DEF HandInv, Before, Waiting
  <2>3. InHand' = 0 /\ Len(typed') - Waiting' - InHand' = 0
    <3>1. InHand' = 0
      BY <2>1 DEF InHand
    <3>2. Len(typed') = Waiting /\ Waiting' = Waiting
      BY <2>1, <2>2
    <3> QED BY <1>1, <3>1, <3>2
  <2>4. Edited' = <<>>
    <3>1. Edited' = SubSeq(typed', 1, Len(typed') - Waiting' - InHand')
      BY EditedIsNext
    <3>2. SubSeq(typed', 1, 0) = <<>>
      BY SubSeqEmpty
    <3> QED BY <2>3, <3>1, <3>2
  <2> QED BY <2>1, <2>2, <2>4, NothingTyped DEF LinesAreWhatWasTyped, Blank
<1>5. CASE Check \/ Halt \/ GetChar \/ Take \/ Unlock
  <2>1. /\ UNCHANGED <<head, tail, typed, line, executed>>
        /\ ShellIsUp /\ InHand' = InHand
    <3>1. CASE Check
      BY <3>1 DEF Check, Step, UnchangedOutside, keyboard, ShellIsUp, InHand
    <3>2. CASE Halt
      BY <3>2 DEF Halt, Step, UnchangedOutside, keyboard, ShellIsUp, InHand
    <3>3. CASE GetChar
      <4>1. pc = "getchar" /\ UNCHANGED <<head, tail, typed, line, executed>>
        BY <3>3 DEF GetChar, Step, UnchangedOutside
      <4>2. head # tail
        BY <4>1 DEF HandInv
      <4> QED BY <3>3, <4>1, <4>2 DEF GetChar, Step, ShellIsUp, InHand
    <3>4. CASE Take
      BY <3>4 DEF Take, Step, UnchangedOutside, keyboard, ShellIsUp, InHand
    <3>5. CASE Unlock
      BY <3>5 DEF Unlock, Step, UnchangedOutside, ShellIsUp, InHand
    <3> QED BY <1>5, <3>1, <3>2, <3>3, <3>4, <3>5
  <2>2. Waiting' = Waiting
    BY <2>1 DEF Waiting
  <2> QED BY <1>1, <2>1, <2>2, SameLines
<1>6. CASE Advance
  <2>1. /\ pc = "advance" /\ pc' = "unlock" /\ tail' = (tail + 1) % KBSIZE
        /\ UNCHANGED <<slots, head, typed, line, executed>>
    BY <1>6 DEF Advance, Step, UnchangedOutside
  <2>2. head # tail
    BY <2>1 DEF HandInv
  <2>3. Waiting = Waiting' + 1
    BY <2>1, <2>2, AdvanceKeepsQueue
  <2>4. InHand = 0 /\ InHand' = 1 /\ ShellIsUp
    BY <2>1 DEF InHand, ShellIsUp
  <2>5. Len(typed') - Waiting' - InHand' = Len(typed) - Waiting - InHand
    BY <1>1, <2>1, <2>3, <2>4
  <2> QED BY <1>1, <2>1, <2>4, <2>5, SameLines
<1>7. CASE Edit
  <2>1. pc = "edit" /\ pc' = "check" /\ UNCHANGED <<head, tail, typed>>
    BY <1>7 DEF Edit, Step, UnchangedOutside, keyboard
  <2>2. Waiting' = Waiting /\ InHand = 1 /\ InHand' = 0 /\ ShellIsUp
    BY <2>1 DEF Waiting, InHand, ShellIsUp
  <2>3. Waiting < Len(typed) /\ c = typed[Len(typed) - Waiting]
    BY <2>1 DEF HandInv
  <2>4. PICK m : m = Len(typed) - Waiting - 1
    OBVIOUS
  <2>5. m \in Nat /\ m < Len(typed) /\ Len(typed) - Waiting = m + 1
        /\ Len(typed) - Waiting - 1 = m /\ Len(typed) - Waiting - 0 = m + 1
    BY <1>1, <2>3, <2>4
  <2>6. Edited = SubSeq(typed, 1, m)
    BY <2>2, <2>5, EditedIs
  <2>7. Edited' = SubSeq(typed, 1, m + 1)
    <3>1. Edited' = SubSeq(typed', 1, Len(typed') - Waiting' - InHand')
      BY EditedIsNext
    <3> QED BY <2>1, <2>2, <2>5, <3>1
  <2>8. Edited' = Append(Edited, c)
    <3>1. SubSeq(typed, 1, m + 1) = Append(SubSeq(typed, 1, m), typed[m + 1])
      BY <1>1, <2>5, PrefixGrows
    <3> QED BY <2>3, <2>5, <2>6, <2>7, <3>1
  <2>9. Edited \in Seq(Char) /\ c \in Char
    <3>1. m \in Int /\ m <= Len(typed)
      BY <1>1, <2>5
    <3>2. SubSeq(typed, 1, m) \in Seq(Char)
      BY <1>1, <3>1, PrefixSame
    <3> QED BY <2>6, <3>2 DEF ConsoleTypes
  <2>10. PICK e : e = Edited
    OBVIOUS
  <2>11. Typewriter(Append(e, c)) = Typed(Typewriter(e), c)
    BY <2>9, <2>10, OneMoreTyped
  <2>12. Typewriter(e) = [lines |-> executed, line |-> line]
    BY <2>2, <2>10 DEF LinesAreWhatWasTyped
  <2>13. [lines |-> executed', line |-> line'] = Typed([lines |-> executed, line |-> line], c)
    BY <1>7, EditIsTyped
  <2> QED BY <2>8, <2>10, <2>11, <2>12, <2>13 DEF LinesAreWhatWasTyped
<1>8. Interrupt \/ Main
  BY InterruptSteps DEF Next
<1> QED BY <1>2, <1>3, <1>4, <1>5, <1>6, <1>7, <1>8 DEF Main

LEMMA ConsoleInvariant == Spec => []ConsoleInv
<1>1. Init => ConsoleInv
  BY ConsoleInitially
<1>2. ConsoleInv /\ [Next]_vars => ConsoleInv'
  <2> SUFFICES ASSUME ConsoleInv, [Next]_vars PROVE ConsoleInv'
    OBVIOUS
  <2>1. ConsoleTypes /\ QueueInv /\ HandInv /\ LinesAreWhatWasTyped /\ ShiftInv
    BY DEF ConsoleInv
  <2>2. CASE UNCHANGED vars
    <3>1. UNCHANGED <<slots, head, tail, kbLock, shift, caps, pc, calls, c, line, executed,
                      taskLock, spins, typed, down, presses, field, reg, missed>>
      BY <2>2 DEF vars, keyboard, shell
    <3>2. Waiting' = Waiting /\ Edited' = Edited /\ (ShellIsUp' <=> ShellIsUp)
      BY <3>1 DEF Waiting, Edited, Queued, ShellIsUp
    <3>3. ConsoleTypes' /\ QueueInv' /\ HandInv'
      BY <2>1, <3>1, <3>2 DEF ConsoleTypes, QueueInv, HandInv
    <3>4. LinesAreWhatWasTyped'
      BY <2>1, <3>1, <3>2 DEF LinesAreWhatWasTyped
    <3>5. ShiftInv'
      BY <2>1, <3>1 DEF ShiftInv, NoStuckShift, CopyTypes, CopyInv
    <3> QED BY <3>3, <3>4, <3>5 DEF ConsoleInv
  <2>3. CASE Next
    <3>1. ConsoleTypes' /\ QueueInv' /\ HandInv'
      <4>1. CASE Main
        BY <2>1, <4>1, MainKeeps
      <4>2. CASE Timer \/ \E k \in Keys : Press(k) \/ Release(k)
        BY <2>1, <4>2, InterruptSteps, InterruptKeeps
      <4> QED BY <2>3, <4>1, <4>2 DEF Next
    <3>2. LinesAreWhatWasTyped'
      BY <2>1, <2>3, <3>1, LinesStep
    <3>3. ShiftInv'
      BY <2>1, <2>3, ShiftStep, CopyStep DEF ShiftInv
    <3> QED BY <3>1, <3>2, <3>3 DEF ConsoleInv
  <2> QED BY <2>2, <2>3
<1> QED BY <1>1, <1>2, PTL DEF Spec

\* Every variable has its type.
THEOREM ConsoleTypesHold == Spec => []TypeOK
<1>1. ConsoleInv => TypeOK
  BY DEF ConsoleInv, ConsoleTypes, ShiftInv, CopyTypes, TypeOK, Place
<1> QED BY <1>1, ConsoleInvariant, PTL

\* The lines the shell has run, and the one it edits, are what was typed.
THEOREM LinesAreTyped == Spec => []LinesAreWhatWasTyped
<1>1. ConsoleInv => LinesAreWhatWasTyped
  BY DEF ConsoleInv
<1> QED BY <1>1, ConsoleInvariant, PTL

\* The shift flag is set only with a shift key down, or after a break of a shift
\* code that keyboard_init's store undid.
THEOREM ShiftFollowsKeys == Spec => []NoStuckShift
<1>1. ConsoleInv => NoStuckShift
  BY DEF ConsoleInv, ShiftInv
<1> QED BY <1>1, ConsoleInvariant, PTL
==============================================================================
