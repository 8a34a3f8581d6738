---------------------------- MODULE KeyDelivery ----------------------------
(***************************************************************************)
(* What the two KMEs of a link promise the applications of key streams,    *)
(* without the calls, stores, failures and expiries by which Etsi004 keeps *)
(* the promise: one KME makes chunks, each reaches the other KME or does   *)
(* not, and an application reads a chunk at an index of its stream.        *)
(*                                                                         *)
(* The promise is for a Key_stream_ID that each KME has opened once.  For  *)
(* one that was opened again the application may read anything its KME     *)
(* held, as the engine promises nothing across a restart.                  *)
(***************************************************************************)
EXTENDS Naturals

CONSTANTS
  Kme,     \* the KMEs
  Maker,   \* the one that makes chunks
  Ksid, Index, Chunk,
  None     \* no chunk

VARIABLES
  held,    \* held[k]: chunks that were ever at k
  read,    \* read[k][s][i]: what k's application read at index i of s
  uses     \* uses[k][s]: how often s was opened at k

vars == <<held, read, uses>>

Unread == [i \in Index |-> None]

Init ==
  /\ held = [k \in Kme |-> {}]
  /\ read = [k \in Kme |-> [s \in Ksid |-> Unread]]
  /\ uses = [k \in Kme |-> [s \in Ksid |-> 0]]

UsedOnce(s) == \A k \in Kme : uses[k][s] <= 1

\* A stream is opened at k, by its own application or the other one.
Open(k, s) ==
  /\ uses' = [uses EXCEPT ![k][s] = @ + 1]
  /\ read' = [read EXCEPT ![k][s] = Unread]
  /\ UNCHANGED held

\* A chunk nobody has ever held is made.
Make(x) ==
  /\ \A k \in Kme : x \notin held[k]
  /\ held' = [held EXCEPT ![Maker] = @ \cup {x}]
  /\ UNCHANGED <<read, uses>>

\* The other KME stores it.
Replicate(k, x) ==
  /\ x \in held[Maker]
  /\ held' = [held EXCEPT ![k] = @ \cup {x}]
  /\ UNCHANGED <<read, uses>>

\* The application of k reads x at index i of s: for the first time there,
\* the same as the other application, where that was first, and not before
\* every KME has it if it is the maker's.
Read(k, s, i, x) ==
  /\ x \in held[k]
  /\ UsedOnce(s) =>
       /\ read[k][s][i] = None
       /\ \A j \in Kme : read[j][s][i] \in {None, x}
       /\ k = Maker => \A j \in Kme : x \in held[j]
  /\ \A j \in Kme, t \in Ksid, n \in Index : read[j][t][n] = x => t = s /\ n = i
  /\ read' = [read EXCEPT ![k][s][i] = x]
  /\ UNCHANGED <<held, uses>>

Next ==
  \/ \E k \in Kme, s \in Ksid : Open(k, s)
  \/ \E x \in Chunk : Make(x) \/ \E k \in Kme : Replicate(k, x)
  \/ \E k \in Kme, s \in Ksid, i \in Index, x \in Chunk : Read(k, s, i, x)

Spec == Init /\ [][Next]_vars

-----------------------------------------------------------------------------
TypeOK ==
  /\ held \in [Kme -> SUBSET Chunk]
  /\ read \in [Kme -> [Ksid -> [Index -> Chunk \cup {None}]]]
  /\ uses \in [Kme -> [Ksid -> Nat]]

\* "Both KMEs end up with the same bytes": the applications of a stream that
\* was opened once read the same chunk at an index.
SameBytesOfOneStream ==
  \A s \in Ksid, i \in Index, j, k \in Kme :
    UsedOnce(s) /\ read[j][s][i] # None /\ read[k][s][i] # None =>
      read[j][s][i] = read[k][s][i]

\* "Nothing is delivered before the peer has it": what the maker's application
\* has read, every KME held.
NeverAhead ==
  \A s \in Ksid, i \in Index :
    UsedOnce(s) /\ read[Maker][s][i] # None =>
      \A j \in Kme : read[Maker][s][i] \in held[j]
=============================================================================
