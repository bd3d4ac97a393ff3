------------------------------ MODULE FileStore ------------------------------
(***************************************************************************)
(* What a file system promises of the contents of its files: each file is  *)
(* a sequence of bytes of its own.  A write replaces and appends bytes of  *)
(* one file, as many of those it was given as there is room for, and no    *)
(* file loses a byte until it is erased or the machine restarts.           *)
(***************************************************************************)
EXTENDS Integers, Sequences

CONSTANTS
  Ids,     \* names of files
  Data     \* what a write may put in a file: sequences of bytes

VARIABLE content   \* the bytes of every file there is

Overlay(s, at, d) ==
  SubSeq(s, 1, at) \o d \o SubSeq(s, at + Len(d) + 1, Len(s))

Init == content = << >>

\* As c, but the file of that name holds these bytes.
With(c, id, bytes) ==
  [other \in DOMAIN c \cup {id} |-> IF other = id THEN bytes ELSE c[other]]

\* The steps, as relations of the contents before and after.
Create(c, d) == \E id \in Ids \ DOMAIN c : d = With(c, id, << >>)

Write(c, d) ==
  \E id \in DOMAIN c, data \in Data :
    \E at \in 0 .. Len(c[id]), n \in 1 .. Len(data) :
      d = With(c, id, Overlay(c[id], at, SubSeq(data, 1, n)))

CreateWithData(c, d) ==
  \E id \in Ids \ DOMAIN c, data \in Data :
    \E n \in 1 .. Len(data) : d = With(c, id, SubSeq(data, 1, n))

Erase(c, d) ==
  \E id \in DOMAIN c : d = [other \in DOMAIN c \ {id} |-> c[other]]

Restart(c, d) == d = << >>

Next ==
  \E c \in {content}, d \in {content'} :
    Create(c, d) \/ Write(c, d) \/ CreateWithData(c, d) \/ Erase(c, d) \/ Restart(c, d)

Spec == Init /\ [][Next]_content
===============================================================================
