------------------------- MODULE KeyDeliveryProofs -------------------------
(***************************************************************************)
(* What the promise of KeyDelivery amounts to, for any number of KMEs,     *)
(* streams, indices and chunks.  Etsi004Safety proves that the engines keep *)
(* it; what is proved here holds of whatever does.                         *)
(***************************************************************************)
EXTENDS KeyDelivery, TLAPS

\* Every state of the promise is well typed (KeyDelivery's three variables).
THEOREM DeliveryTypes ==
  ASSUME Maker \in Kme, None \notin Chunk
  PROVE  Spec => []TypeOK
<1>1. Init => TypeOK
  BY DEF Init, TypeOK, Unread
<1>2. TypeOK /\ [Next]_vars => TypeOK'
  <2> SUFFICES ASSUME TypeOK, [Next]_vars
               PROVE  TypeOK'
    OBVIOUS
  <2> USE DEF TypeOK
  <2>1. ASSUME NEW k \in Kme, NEW s \in Ksid, Open(k, s)
        PROVE  TypeOK'
    BY <2>1 DEF Open, Unread
  <2>2. ASSUME NEW x \in Chunk, Make(x)
        PROVE  TypeOK'
    BY <2>2 DEF Make
  <2>3. ASSUME NEW k \in Kme, NEW x \in Chunk, Replicate(k, x)
        PROVE  TypeOK'
    BY <2>3 DEF Replicate
  <2>4. ASSUME NEW k \in Kme, NEW s \in Ksid, NEW i \in Index, NEW x \in Chunk,
               Read(k, s, i, x)
        PROVE  TypeOK'
    BY <2>4 DEF Read
  <2>5. CASE UNCHANGED vars
    BY <2>5 DEF vars
  <2> QED
    BY <2>1, <2>2, <2>3, <2>4, <2>5 DEF Next
<1> QED
  BY <1>1, <1>2, PTL DEF Spec

\* Opening a stream once more cannot make it one that was opened once.
LEMMA UseGrows ==
  ASSUME TypeOK, [Next]_vars, NEW s \in Ksid, UsedOnce(s)'
  PROVE  UsedOnce(s)
<1> USE DEF TypeOK
<1>1. CASE \E k \in Kme, t \in Ksid : Open(k, t)
  <2>1. PICK k \in Kme, t \in Ksid : Open(k, t)
    BY <1>1
  <2>2. ASSUME NEW j \in Kme
        PROVE  uses[j][s] <= 1
    <3>1. uses[j][s] \in Nat /\ uses'[j][s] \in {uses[j][s], uses[j][s] + 1}
      BY <2>1 DEF Open
    <3>2. uses'[j][s] <= 1
      BY DEF UsedOnce
    <3> QED
      BY <3>1, <3>2
  <2> QED
    BY <2>2 DEF UsedOnce
<1>2. CASE UNCHANGED uses
  BY <1>2 DEF UsedOnce
<1> QED
  BY <1>1, <1>2 DEF Next, Make, Replicate, Read, vars

\* What the two properties of a stream opened once need: the reads of a stream
\* that is being read agree, and what the maker's application read is everywhere.
Agreement == SameBytesOfOneStream /\ NeverAhead

LEMMA OpenAgrees ==
  ASSUME Maker \in Kme, None \notin Chunk, TypeOK, Agreement, [Next]_vars,
         NEW k \in Kme, NEW s \in Ksid, Open(k, s)
  PROVE  Agreement'
<1>1. held' = held
  BY DEF Open
<1>2. \A j \in Kme, t \in Ksid, i \in Index :
        read'[j][t][i] = read[j][t][i] \/ read'[j][t][i] = None
  BY DEF Open, Unread, TypeOK
<1>3. SameBytesOfOneStream'
  BY <1>2, UseGrows DEF SameBytesOfOneStream, Agreement
<1>4. NeverAhead'
  BY <1>1, <1>2, UseGrows DEF NeverAhead, Agreement
<1> QED
  BY <1>3, <1>4 DEF Agreement

LEMMA ReadAgrees ==
  ASSUME Maker \in Kme, None \notin Chunk, TypeOK, Agreement, [Next]_vars,
         NEW k \in Kme, NEW s \in Ksid, NEW i \in Index, NEW x \in Chunk,
         Read(k, s, i, x)
  PROVE  Agreement'
<1>1. held' = held
  BY DEF Read
<1>2. \A j \in Kme, t \in Ksid, n \in Index :
        read'[j][t][n] = IF j = k /\ t = s /\ n = i THEN x ELSE read[j][t][n]
  BY DEF Read, TypeOK
<1>3. UsedOnce(s) => \A j \in Kme : read[j][s][i] \in {None, x}
  BY DEF Read
<1>4. UsedOnce(s) /\ k = Maker => \A j \in Kme : x \in held[j]
  BY DEF Read
<1>5. SameBytesOfOneStream'
  BY <1>2, <1>3, UseGrows DEF SameBytesOfOneStream, Agreement
<1>6. NeverAhead'
  BY <1>1, <1>2, <1>4, UseGrows DEF NeverAhead, Agreement
<1> QED
  BY <1>5, <1>6 DEF Agreement

\* The promise gives both applications of a stream that was opened once the same
\* bytes at every index, and the maker's application nothing its peer lacks,
\* whatever was opened again before or beside it.
THEOREM DeliverySafety ==
  ASSUME Maker \in Kme, None \notin Chunk
  PROVE  Spec => []Agreement
<1>1. Init => Agreement
  BY DEF Init, Unread, Agreement, SameBytesOfOneStream, NeverAhead
<1>2. TypeOK /\ Agreement /\ [Next]_vars => Agreement'
  <2> SUFFICES ASSUME TypeOK, Agreement, [Next]_vars
               PROVE  Agreement'
    OBVIOUS
  <2>1. ASSUME NEW k \in Kme, NEW s \in Ksid, Open(k, s)
        PROVE  Agreement'
    BY <2>1, OpenAgrees
  <2>2. ASSUME UNCHANGED <<read, uses>>,
               \A j \in Kme : held[j] \subseteq held'[j]
        PROVE  Agreement'
    <3>1. SameBytesOfOneStream'
      BY <2>2, UseGrows DEF SameBytesOfOneStream, Agreement
    <3>2. NeverAhead'
      BY <2>2, UseGrows DEF NeverAhead, Agreement
    <3> QED
      BY <3>1, <3>2 DEF Agreement
  <2>3. ASSUME NEW x \in Chunk, Make(x)
        PROVE  Agreement'
    BY <2>2, <2>3 DEF Make, TypeOK
  <2>4. ASSUME NEW k \in Kme, NEW x \in Chunk, Replicate(k, x)
        PROVE  Agreement'
    BY <2>2, <2>4 DEF Replicate, TypeOK
  <2>5. ASSUME NEW k \in Kme, NEW s \in Ksid, NEW i \in Index, NEW x \in Chunk,
               Read(k, s, i, x)
        PROVE  Agreement'
    BY <2>5, ReadAgrees
  <2>6. CASE UNCHANGED vars
    BY <2>6, <2>2 DEF vars
  <2> QED
    BY <2>1, <2>3, <2>4, <2>5, <2>6 DEF Next
<1> QED
  BY <1>1, <1>2, DeliveryTypes, PTL DEF Spec
=============================================================================
