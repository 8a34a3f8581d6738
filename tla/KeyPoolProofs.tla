---------------------------- MODULE KeyPoolProofs ----------------------------
(***************************************************************************)
(* Proofs about KeyPool, for every pair of KMEs, watermark, capacity,      *)
(* share and combination of faults.                                        *)
(***************************************************************************)
EXTENDS KeyPool, FiniteSetTheorems, TLAPS

-----------------------------------------------------------------------------
(* The ordered sets.                                                       *)

\* Restricting an ordered set keeps its type and intersects its elements.
LEMMA KeepType ==
  ASSUME NEW S, NEW q \in OrderedSetOf(S), NEW T
  PROVE  Keep(q, T) \in OrderedSetOf(S) /\ Keep(q, T).elems = q.elems \cap T
BY DEF Keep, OrderedSetOf

\* Removing elements keeps the type and subtracts them.
LEMMA WithoutType ==
  ASSUME NEW S, NEW q \in OrderedSetOf(S), NEW T
  PROVE  Without(q, T) \in OrderedSetOf(S) /\ Without(q, T).elems = q.elems \ T
BY KeepType DEF Without, Keep, OrderedSetOf

\* Appending keeps the type and joins the elements.
LEMMA ConcatType ==
  ASSUME NEW S, NEW q \in OrderedSetOf(S), NEW r \in OrderedSetOf(S)
  PROVE  /\ Concat(q, r) \in OrderedSetOf(S)
         /\ Concat(q, r).elems = q.elems \cup r.elems
<1> DEFINE new == Without(r, q.elems)
<1>1. new \in OrderedSetOf(S) /\ new.elems = r.elems \ q.elems
  BY WithoutType
<1>2. Concat(q, r) = [elems  |-> q.elems \cup new.elems,
                      before |-> q.before \cup new.before \cup (q.elems \X new.elems)]
  BY DEF Concat
<1> HIDE DEF new
<1> QED
  BY <1>1, <1>2 DEF OrderedSetOf

\* Appending one element adds it.
LEMMA Append1Type ==
  ASSUME NEW S, NEW q \in OrderedSetOf(S), NEW x \in S
  PROVE  /\ Append1(q, x) \in OrderedSetOf(S)
         /\ Append1(q, x).elems = q.elems \cup {x}
<1> DEFINE one == [elems |-> {x}, before |-> {}]
<1>1. one \in OrderedSetOf(S) /\ one.elems = {x}
  BY DEF OrderedSetOf
<1>2. Append1(q, x) = Concat(q, one)
  BY DEF Append1
<1> HIDE DEF one
<1>3. /\ Concat(q, one) \in OrderedSetOf(S)
      /\ Concat(q, one).elems = q.elems \cup one.elems
  BY <1>1, ConcatType
<1> QED
  BY <1>1, <1>2, <1>3

LEMMA EmptyType == ASSUME NEW S PROVE Empty \in OrderedSetOf(S)
BY DEF Empty, OrderedSetOf

LEMMA OldestSubset == ASSUME NEW q, NEW n PROVE Oldest(q, n) \subseteq q.elems
BY DEF Oldest

-----------------------------------------------------------------------------
(* Types.  A round is only started below the bound on keys, which is what  *)
(* keeps the serial number of the next key in range.                       *)

TypeInv ==
  /\ TypeOK
  /\ \A k \in Kme : prod[k] = "round" => emitted[k] < MaxKeys

\* _admit keeps the three views of the pool well typed.
LEMMA AdmitType ==
  ASSUME TypeOK, NEW k \in Kme, NEW key \in Key, NEW b \in BOOLEAN, Admit(k, key, b)
  PROVE  /\ buf' \in [Kme -> OrderedSetOf(Key)]
         /\ byId' \in [Kme -> SUBSET Key]
         /\ replica' \in [Kme -> SUBSET Key]
<1> DEFINE q == Append1(Without(buf[k], Evicted(k)), key)
<1>1. buf[k] \in OrderedSetOf(Key) /\ byId[k] \in SUBSET Key /\ replica[k] \in SUBSET Key
  BY DEF TypeOK
<1>2. q \in OrderedSetOf(Key)
  BY <1>1, WithoutType, Append1Type
<1>3. /\ buf' = [buf EXCEPT ![k] = q]
      /\ byId' = [byId EXCEPT ![k] = (byId[k] \ Evicted(k)) \cup {key}]
      /\ replica' = [replica EXCEPT
                       ![k] = (replica[k] \ Evicted(k)) \cup (IF b THEN {key} ELSE {})]
  BY DEF Admit
<1> HIDE DEF q
<1> QED
  BY <1>1, <1>2, <1>3 DEF TypeOK

\* An admitted key can only be handed out when it is not a replica, and no
\* other key becomes one that can.
LEMMA AdmitLocals ==
  ASSUME TypeOK, NEW k \in Kme, NEW key \in Key, NEW b \in BOOLEAN, Admit(k, key, b),
         NEW j \in Kme
  PROVE  Locals(j)' \subseteq Locals(j) \cup (IF j = k /\ ~b THEN {key} ELSE {})
<1>1. buf[k] \in OrderedSetOf(Key)
  BY DEF TypeOK
<1>2. Append1(Without(buf[k], Evicted(k)), key).elems = (buf[k].elems \ Evicted(k)) \cup {key}
  BY <1>1, WithoutType, Append1Type
<1>3. /\ buf' = [buf EXCEPT ![k] = Append1(Without(buf[k], Evicted(k)), key)]
      /\ replica' = [replica EXCEPT
                       ![k] = (replica[k] \ Evicted(k)) \cup (IF b THEN {key} ELSE {})]
  BY DEF Admit
<1>4. /\ j = k => buf'[j].elems = (buf[k].elems \ Evicted(k)) \cup {key}
      /\ j = k => replica'[j] = (replica[k] \ Evicted(k)) \cup (IF b THEN {key} ELSE {})
      /\ j # k => buf'[j] = buf[j] /\ replica'[j] = replica[j]
  BY <1>2, <1>3 DEF TypeOK
<1> QED
  BY <1>4 DEF Locals

\* The keys taken from the front of the local keys are local keys.
LEMMA OldestLocals ==
  ASSUME TypeOK, NEW k \in Kme, NEW n
  PROVE  /\ Oldest(Keep(buf[k], Locals(k)), n) \subseteq Locals(k)
         /\ Locals(k) \subseteq Key
<1>1. buf[k] \in OrderedSetOf(Key) /\ buf[k].elems \subseteq Key
  BY DEF TypeOK, OrderedSetOf
<1>2. Keep(buf[k], Locals(k)).elems = buf[k].elems \cap Locals(k)
  BY <1>1, KeepType
<1> QED
  BY <1>1, <1>2, OldestSubset DEF Locals

LEMMA CandidateIsLocal ==
  ASSUME TypeOK, NEW k \in Kme, NEW key \in Candidates(k)
  PROVE  key \in Locals(k) /\ key \in Key
BY OldestLocals DEF Candidates

LEMMA TypeInit == Init => TypeInv
<1> SUFFICES ASSUME Init PROVE TypeInv
  OBVIOUS
<1>1. Empty \in OrderedSetOf(Key)
  BY EmptyType
<1> QED
  BY <1>1, SizeAssumption DEF Init, TypeInv, TypeOK, ProducerStates

LEMMA TypeStep == TypeInv /\ [Next]_vars => TypeInv'
<1> SUFFICES ASSUME TypeInv, [Next]_vars PROVE TypeInv'
  OBVIOUS
<1> USE DEF TypeInv
<1> USE SizeAssumption
<1>1. ASSUME NEW k \in Kme, StartRound(k) PROVE TypeInv'
  BY <1>1 DEF TypeOK, StartRound, flight, history, ProducerStates
<1>2. ASSUME NEW k \in Kme, RoundAborted(k) PROVE TypeInv'
  BY <1>2 DEF TypeOK, RoundAborted, flight, history, ProducerStates
<1>3. ASSUME NEW k \in Kme, RoundAccepted(k) PROVE TypeInv'
  <2>1. <<k, emitted[k] + 1>> \in Key /\ emitted[k] + 1 \in 0 .. MaxKeys
    BY <1>3 DEF TypeOK, RoundAccepted, Key
  <2>2. Admit(k, <<k, emitted[k] + 1>>, FALSE)
    BY <1>3 DEF RoundAccepted
  <2>3. /\ buf' \in [Kme -> OrderedSetOf(Key)]
        /\ byId' \in [Kme -> SUBSET Key]
        /\ replica' \in [Kme -> SUBSET Key]
    BY <2>1, <2>2, AdmitType
  <2>4. /\ emitted' = [emitted EXCEPT ![k] = emitted[k] + 1]
        /\ wire' = wire \cup {<<k, emitted[k] + 1>>}
        /\ prod' = [prod EXCEPT ![k] = "syncing"]
        /\ UNCHANGED <<withdrawn, extra, queue, pushed, storing,
                       acked, issued, streamed, dropped, restarts>>
    BY <1>3 DEF RoundAccepted
  <2>5. /\ emitted' \in [Kme -> 0 .. MaxKeys] /\ wire' \subseteq Key
        /\ prod' \in [Kme -> ProducerStates]
    BY <2>1, <2>4 DEF TypeOK, ProducerStates
  <2>6. TypeOK'
    BY <2>3, <2>4, <2>5 DEF TypeOK
  <2>7. \A j \in Kme : prod'[j] = "round" => emitted'[j] < MaxKeys
    BY <2>4 DEF TypeOK
  <2> QED
    BY <2>6, <2>7
<1>4. ASSUME NEW k \in Kme, SyncAnswered(k) PROVE TypeInv'
  BY <1>4 DEF TypeOK, SyncAnswered, flight, history, ProducerStates
<1>5. ASSUME NEW k \in Kme, SyncTimeout(k) PROVE TypeInv'
  BY <1>5 DEF TypeOK, SyncTimeout, flight, history, ProducerStates
<1>6. ASSUME NEW k \in Kme, NEW key \in Key, SyncQueued(k, key) PROVE TypeInv'
  <2>1. Append1(queue[k], key) \in OrderedSetOf(Key)
    BY Append1Type DEF TypeOK
  <2>2. queue' = [queue EXCEPT ![k] = Append1(queue[k], key)]
    BY <1>6 DEF SyncQueued
  <2> QED
    BY <1>6, <2>1, <2>2 DEF TypeOK, SyncQueued, pools, history
<1>7. ASSUME NEW k \in Kme, NEW key \in Key, ReceiveSynced(k, key) PROVE TypeInv'
  <2>1. Without(queue[k], {key}) \in OrderedSetOf(Key)
    BY WithoutType DEF TypeOK
  <2>2. queue' = [queue EXCEPT ![k] = Without(queue[k], {key})]
    BY <1>7 DEF ReceiveSynced
  <2>3. /\ buf' \in [Kme -> OrderedSetOf(Key)]
        /\ byId' \in [Kme -> SUBSET Key]
        /\ replica' \in [Kme -> SUBSET Key]
    <3>1. CASE UNCHANGED <<buf, byId, replica>>
      BY <3>1 DEF TypeOK
    <3>2. CASE Admit(k, key, TRUE)
      BY <3>2, AdmitType
    <3> QED
      BY <1>7, <3>1, <3>2 DEF ReceiveSynced
  <2>4. /\ wire' = wire \ {key} /\ acked' = acked \cup {key}
        /\ UNCHANGED <<withdrawn, extra, prod, pushed, storing,
                       emitted, issued, streamed, dropped, restarts>>
    BY <1>7 DEF ReceiveSynced
  <2>5. queue' \in [Kme -> OrderedSetOf(Key)]
    BY <2>1, <2>2 DEF TypeOK
  <2>6. wire' \subseteq Key /\ acked' \subseteq Key
    BY <2>4 DEF TypeOK
  <2>7. TypeOK'
    BY <2>3, <2>4, <2>5, <2>6 DEF TypeOK
  <2>8. \A j \in Kme : prod'[j] = "round" => emitted'[j] < MaxKeys
    BY <2>4
  <2> QED
    BY <2>7, <2>8
<1>8. ASSUME NEW k \in Kme, PopForEnc(k) PROVE TypeInv'
  <2>1. PICK key \in Candidates(k) :
          /\ buf' = [buf EXCEPT ![k] = Without(buf[k], {key})]
          /\ issued' = [issued EXCEPT ![key] = issued[key] + 1]
    BY <1>8 DEF PopForEnc
  <2>2. Without(buf[k], {key}) \in OrderedSetOf(Key)
    BY WithoutType DEF TypeOK
  <2>3. issued' \in [Key -> Nat]
    BY <2>1, CandidateIsLocal DEF TypeOK
  <2>4. buf' \in [Kme -> OrderedSetOf(Key)]
    BY <2>1, <2>2 DEF TypeOK
  <2>5. UNCHANGED <<byId, replica, withdrawn, extra, prod, wire, queue, pushed,
                    storing, emitted, acked, streamed, dropped, restarts>>
    BY <1>8 DEF PopForEnc, flight
  <2> QED
    BY <2>3, <2>4, <2>5 DEF TypeOK
<1>9. ASSUME NEW k \in Kme, NEW n \in 1 .. Share, TakeLocalForStream(k, n) PROVE TypeInv'
  <2> DEFINE taken == Oldest(Keep(buf[k], Locals(k)), n)
  <2>1. /\ Without(buf[k], taken) \in OrderedSetOf(Key)
        /\ Keep(buf[k], taken) \in OrderedSetOf(Key)
    BY WithoutType, KeepType DEF TypeOK
  <2>2. /\ buf' = [buf EXCEPT ![k] = Without(buf[k], taken)]
        /\ byId' = [byId EXCEPT ![k] = byId[k] \ taken]
        /\ pushed' = pushed \cup {Keep(buf[k], taken)}
        /\ streamed' = [key \in Key |->
                          streamed[key] + (IF key \in taken THEN 1 ELSE 0)]
        /\ extra' = [extra EXCEPT ![k] = 0]
    BY <1>9 DEF TakeLocalForStream
  <2>3. UNCHANGED <<replica, withdrawn, prod, wire, queue, storing,
                    emitted, acked, issued, dropped, restarts>>
    BY <1>9 DEF TakeLocalForStream
  <2> HIDE DEF taken
  <2>4. streamed' \in [Key -> Nat]
    BY <2>2 DEF TypeOK
  <2>5. buf' \in [Kme -> OrderedSetOf(Key)] /\ byId' \in [Kme -> SUBSET Key]
    BY <2>1, <2>2 DEF TypeOK
  <2>6. extra' \in [Kme -> 0 .. Capacity - 2 * Low] /\ pushed' \subseteq OrderedSetOf(Key)
    BY <2>1, <2>2 DEF TypeOK
  <2>7. TypeOK'
    BY <2>3, <2>4, <2>5, <2>6 DEF TypeOK
  <2> QED
    BY <2>3, <2>7
<1>10. ASSUME NEW k \in Kme, NEW n \in 1 .. Share, RequestExtra(k, n) PROVE TypeInv'
  <2>1. ExtraFor(n) \in 0 .. Capacity - 2 * Low
    BY DEF ExtraFor
  <2> QED
    BY <1>10, <2>1 DEF TypeOK, RequestExtra, flight, history
<1>11. ASSUME NEW k \in Kme, NEW chunk, StoreChunk(k, chunk) PROVE TypeInv'
  BY <1>11 DEF TypeOK, StoreChunk, pools, history
<1>12. ASSUME NEW k \in Kme, NEW chunk, DropReplicas(k, chunk) PROVE TypeInv'
  <2> DEFINE all == Concat(withdrawn[k], chunk)
             kept == Keep(all, Newest(all, Capacity))
             rest == Without(buf[k], chunk.elems)
  <2>1. chunk \in OrderedSetOf(Key) /\ chunk.elems \subseteq Key
    BY <1>12 DEF TypeOK, DropReplicas, OrderedSetOf
  <2>2. kept \in OrderedSetOf(Key) /\ rest \in OrderedSetOf(Key)
    BY <2>1, ConcatType, KeepType, WithoutType DEF TypeOK
  <2>3. /\ buf' = [buf EXCEPT ![k] = rest]
        /\ withdrawn' = [withdrawn EXCEPT ![k] = kept]
    BY <1>12 DEF DropReplicas
  <2>4. /\ pushed' = pushed \ {chunk} /\ storing' = storing \ {chunk}
        /\ dropped' = dropped \cup chunk.elems
        /\ byId' = [byId EXCEPT ![k] = byId[k] \ chunk.elems]
        /\ replica' = [replica EXCEPT ![k] = replica[k] \ chunk.elems]
    BY <1>12 DEF DropReplicas
  <2>5. UNCHANGED <<extra, prod, wire, queue, emitted, acked, issued, streamed, restarts>>
    BY <1>12 DEF DropReplicas
  <2> HIDE DEF all, kept, rest
  <2>6. buf' \in [Kme -> OrderedSetOf(Key)] /\ withdrawn' \in [Kme -> OrderedSetOf(Key)]
    BY <2>2, <2>3 DEF TypeOK
  <2>7. byId' \in [Kme -> SUBSET Key] /\ replica' \in [Kme -> SUBSET Key]
    BY <2>4 DEF TypeOK
  <2>8. /\ pushed' \subseteq OrderedSetOf(Key) /\ storing' \subseteq OrderedSetOf(Key)
        /\ dropped' \subseteq Key
    BY <2>1, <2>4 DEF TypeOK
  <2>9. TypeOK'
    BY <2>5, <2>6, <2>7, <2>8 DEF TypeOK
  <2> QED
    BY <2>5, <2>9
<1>13. ASSUME LosePost PROVE TypeInv'
  BY <1>13 DEF TypeOK, LosePost, pools, history
<1>14. ASSUME LoseChunk PROVE TypeInv'
  BY <1>14 DEF TypeOK, LoseChunk, pools, history
<1>15. ASSUME NEW k \in Kme, Restart(k) PROVE TypeInv'
  <2>1. Empty \in OrderedSetOf(Key)
    BY EmptyType
  <2>2. /\ buf' = [buf EXCEPT ![k] = Empty] /\ byId' = [byId EXCEPT ![k] = {}]
        /\ replica' = [replica EXCEPT ![k] = {}]
        /\ withdrawn' = [withdrawn EXCEPT ![k] = Empty]
        /\ extra' = [extra EXCEPT ![k] = 0] /\ prod' = [prod EXCEPT ![k] = "idle"]
        /\ queue' = [queue EXCEPT ![k] = Empty]
    BY <1>15 DEF Restart
  <2>3. /\ restarts' \in 0 .. MaxRestarts /\ storing' \subseteq storing
        /\ UNCHANGED <<wire, pushed, emitted, acked, issued, streamed, dropped>>
    BY <1>15 DEF Restart, TypeOK
  <2>4. /\ buf' \in [Kme -> OrderedSetOf(Key)] /\ withdrawn' \in [Kme -> OrderedSetOf(Key)]
        /\ queue' \in [Kme -> OrderedSetOf(Key)]
    BY <2>1, <2>2 DEF TypeOK
  <2>5. /\ byId' \in [Kme -> SUBSET Key] /\ replica' \in [Kme -> SUBSET Key]
        /\ extra' \in [Kme -> 0 .. Capacity - 2 * Low] /\ prod' \in [Kme -> ProducerStates]
    BY <2>2 DEF TypeOK, ProducerStates
  <2>6. TypeOK'
    BY <2>3, <2>4, <2>5 DEF TypeOK
  <2>7. \A j \in Kme : prod'[j] = "round" => emitted'[j] < MaxKeys
    BY <2>2, <2>3 DEF TypeOK
  <2> QED
    BY <2>6, <2>7
<1>16. CASE UNCHANGED vars
  BY <1>16 DEF TypeOK, vars, pools, flight, history
<1>17. \A key \in Key : Peer[Home(key)] \in Kme
  BY KmeAssumption DEF Key, Home
<1> QED
  BY <1>1, <1>2, <1>3, <1>4, <1>5, <1>6, <1>7, <1>8, <1>9, <1>10, <1>11, <1>12,
     <1>13, <1>14, <1>15, <1>16, <1>17 DEF Next, Produce, Sync, Stream

\* Every reachable state is well typed: in particular the ring stays an order
\* of its own elements under eviction, popping, taking and withdrawing, and what
\* streams ask for never exceeds what the ring has room for.
THEOREM TypeSafety == Spec => []TypeOK
<1>1. TypeInv => TypeOK
  BY DEF TypeInv
<1> QED
  BY <1>1, TypeInit, TypeStep, PTL DEF Spec

-----------------------------------------------------------------------------
(* No key serves two uses.  What makes it inductive: a key that can still  *)
(* be handed out is held as such by its producer alone, was never handed   *)
(* out, and has a serial number already given, so that the fresh key of    *)
(* the next round is not one of those already used.                        *)

Uses(key) == issued[key] + streamed[key]
Fresh(key) == key[2] > emitted[Home(key)]

HandoutInv ==
  /\ \A key \in Key : Uses(key) <= 1
  /\ \A key \in Key : Fresh(key) => Uses(key) = 0
  /\ \A k \in Kme : \A key \in Locals(k) :
       Home(key) = k /\ ~Fresh(key) /\ Uses(key) = 0

\* A step that hands nothing out, produces nothing and makes no key local.
LEMMA HandoutFrame ==
  ASSUME TypeInv, HandoutInv, UNCHANGED <<emitted, issued, streamed>>,
         \A k \in Kme : Locals(k)' \subseteq Locals(k)
  PROVE  HandoutInv'
BY DEF HandoutInv, Uses, Fresh

LEMMA HandoutInit == Init => HandoutInv
<1> SUFFICES ASSUME Init PROVE HandoutInv
  OBVIOUS
<1>1. \A k \in Kme : Locals(k) = {}
  BY DEF Init, Locals, Empty
<1> QED
  BY <1>1 DEF Init, HandoutInv, Uses

\* A round: the new key is fresh, so nobody used it.
LEMMA HandoutRound ==
  ASSUME TypeInv, HandoutInv, NEW k \in Kme, RoundAccepted(k)
  PROVE  HandoutInv'
<1>1. /\ emitted[k] + 1 \in 1 .. MaxKeys
      /\ emitted' = [emitted EXCEPT ![k] = emitted[k] + 1]
      /\ UNCHANGED <<issued, streamed>>
  BY SizeAssumption DEF TypeInv, TypeOK, RoundAccepted
<1>2. PICK new \in Key : new = <<k, emitted[k] + 1>>
  BY <1>1 DEF Key
<1>3. Home(new) = k /\ Fresh(new) /\ ~Fresh(new)'
  BY <1>1, <1>2 DEF Home, Fresh, TypeInv, TypeOK
<1>4. \A j \in Kme : Locals(j)' \subseteq Locals(j) \cup (IF j = k THEN {new} ELSE {})
  <2>1. Admit(k, new, FALSE)
    BY <1>2 DEF RoundAccepted
  <2> QED
    BY <2>1, AdmitLocals DEF TypeInv
<1>5. \A key \in Key : Fresh(key)' => Fresh(key)
  <2> SUFFICES ASSUME NEW key \in Key, Fresh(key)' PROVE Fresh(key)
    OBVIOUS
  <2>1. Home(key) \in Kme /\ key[2] \in Nat
    BY DEF Key, Home
  <2> QED
    BY <1>1, <2>1 DEF Fresh, TypeInv, TypeOK
<1>6. \A j \in Kme : Locals(j) \subseteq Key
  BY OldestLocals DEF TypeInv
<1>7. Uses(new) = 0
  BY <1>3 DEF HandoutInv
<1>8. \A key \in Key : Uses(key)' = Uses(key)
  BY <1>1 DEF Uses
<1>9. ASSUME NEW key \in Key PROVE Uses(key)' <= 1 /\ (Fresh(key)' => Uses(key)' = 0)
  BY <1>5, <1>8, <1>9 DEF HandoutInv
<1>10. ASSUME NEW j \in Kme, NEW key \in Locals(j)'
       PROVE  Home(key) = j /\ ~Fresh(key)' /\ Uses(key)' = 0
  <2>1. CASE key = new /\ j = k
    BY <1>3, <1>7, <1>8, <2>1
  <2>2. CASE key \in Locals(j)
    BY <1>5, <1>6, <1>8, <2>2 DEF HandoutInv
  <2> QED
    BY <1>4, <1>10, <2>1, <2>2
<1> QED
  BY <1>9, <1>10 DEF HandoutInv

\* enc_keys: the key leaves the ring in the step that counts its use.
LEMMA HandoutPop ==
  ASSUME TypeInv, HandoutInv, NEW k \in Kme, PopForEnc(k)
  PROVE  HandoutInv'
<1>1. PICK key \in Candidates(k) :
        /\ buf' = [buf EXCEPT ![k] = Without(buf[k], {key})]
        /\ issued' = [issued EXCEPT ![key] = issued[key] + 1]
  BY DEF PopForEnc
<1>2. key \in Locals(k) /\ key \in Key /\ Home(key) = k
  BY CandidateIsLocal DEF TypeInv, HandoutInv
<1>3. UNCHANGED <<emitted, streamed, replica>>
  BY DEF PopForEnc
<1>4. Without(buf[k], {key}).elems = buf[k].elems \ {key}
  BY WithoutType DEF TypeInv, TypeOK
<1>5. \A j \in Kme : Locals(j)' \subseteq Locals(j) /\ key \notin Locals(k)'
  BY <1>1, <1>3, <1>4 DEF Locals, TypeInv, TypeOK
<1>6. \A j \in Kme : key \notin Locals(j)'
  BY <1>2, <1>5 DEF HandoutInv
<1>7. issued'[key] = issued[key] + 1 /\ \A x \in Key \ {key} : issued'[x] = issued[x]
  BY <1>1, <1>2 DEF TypeInv, TypeOK
<1>8. \A j \in Kme : Locals(j) \subseteq Key
  BY OldestLocals DEF TypeInv
<1>9. \A x \in Key : Fresh(x)' <=> Fresh(x)
  BY <1>3 DEF Fresh
<1>10. \A x \in Key \ {key} : Uses(x)' = Uses(x)
  BY <1>3, <1>7 DEF Uses
<1>11. Uses(key) = 0 /\ ~Fresh(key) /\ Uses(key)' = 1
  BY <1>2, <1>3, <1>7 DEF Uses, HandoutInv, TypeInv, TypeOK
<1> QED
  BY <1>2, <1>5, <1>6, <1>8, <1>9, <1>10, <1>11 DEF HandoutInv

\* A 004 chunk: likewise for every key it takes.
LEMMA HandoutTake ==
  ASSUME TypeInv, HandoutInv, NEW k \in Kme, NEW n, TakeLocalForStream(k, n)
  PROVE  HandoutInv'
<1> DEFINE taken == Oldest(Keep(buf[k], Locals(k)), n)
<1>1. taken \subseteq Locals(k) /\ taken \subseteq Key
  BY OldestLocals DEF TypeInv
<1>2. Without(buf[k], taken).elems = buf[k].elems \ taken
  BY WithoutType DEF TypeInv, TypeOK
<1>3. /\ buf' = [buf EXCEPT ![k] = Without(buf[k], taken)]
      /\ streamed' = [key \in Key |->
                        streamed[key] + (IF key \in taken THEN 1 ELSE 0)]
      /\ UNCHANGED <<emitted, issued, replica>>
  BY DEF TakeLocalForStream
<1> HIDE DEF taken
<1>4. \A j \in Kme : Locals(j)' \subseteq Locals(j) \ (IF j = k THEN taken ELSE {})
  BY <1>2, <1>3 DEF Locals, TypeInv, TypeOK
<1>5. \A j \in Kme : Locals(j)' \cap taken = {}
  BY <1>1, <1>4 DEF HandoutInv
<1>6. \A key \in Key : Uses(key)' = Uses(key) + (IF key \in taken THEN 1 ELSE 0)
  BY <1>3 DEF Uses, TypeInv, TypeOK
<1>7. \A key \in Key : Fresh(key)' <=> Fresh(key)
  BY <1>3 DEF Fresh
<1>8. \A key \in taken : Uses(key) = 0 /\ ~Fresh(key)
  BY <1>1 DEF HandoutInv
<1>9. \A j \in Kme : Locals(j) \subseteq Key
  BY OldestLocals DEF TypeInv
<1>10. \A key \in Key : Uses(key) \in Nat
  BY DEF Uses, TypeInv, TypeOK
<1> QED
  BY <1>4, <1>5, <1>6, <1>7, <1>8, <1>9, <1>10 DEF HandoutInv

LEMMA HandoutStep == TypeInv /\ HandoutInv /\ [Next]_vars => HandoutInv'
<1> SUFFICES ASSUME TypeInv, HandoutInv, [Next]_vars PROVE HandoutInv'
  OBVIOUS
<1> USE DEF TypeInv
<1>1. ASSUME UNCHANGED <<emitted, issued, streamed, buf, replica>> PROVE HandoutInv'
  BY <1>1, HandoutFrame DEF Locals
<1>2. ASSUME NEW k \in Kme, Produce(k) PROVE HandoutInv'
  <2>1. CASE RoundAccepted(k)
    BY <2>1, HandoutRound
  <2>2. CASE StartRound(k) \/ RoundAborted(k) \/ SyncAnswered(k) \/ SyncTimeout(k)
    BY <1>1, <2>2 DEF StartRound, RoundAborted, SyncAnswered, SyncTimeout, history
  <2> QED
    BY <1>2, <2>1, <2>2 DEF Produce
<1>3. ASSUME NEW key \in Key, Sync(Peer[Home(key)], key) PROVE HandoutInv'
  <2> DEFINE k == Peer[Home(key)]
  <2>1. k \in Kme
    BY KmeAssumption DEF Key, Home
  <2>2. CASE SyncQueued(k, key)
    BY <1>1, <2>2 DEF SyncQueued, pools, history
  <2>3. CASE ReceiveSynced(k, key)
    <3>1. UNCHANGED <<emitted, issued, streamed>>
      BY <2>3 DEF ReceiveSynced
    <3>2. CASE Admit(k, key, TRUE)
      BY <2>1, <3>1, <3>2, AdmitLocals, HandoutFrame
    <3>3. CASE UNCHANGED <<buf, byId, replica>>
      BY <1>1, <3>1, <3>3
    <3> QED
      BY <2>3, <3>2, <3>3 DEF ReceiveSynced
  <2> QED
    BY <1>3, <2>2, <2>3 DEF Sync
<1>4. ASSUME NEW k \in Kme, PopForEnc(k) PROVE HandoutInv'
  BY <1>4, HandoutPop
<1>5. ASSUME NEW k \in Kme, Stream(k) PROVE HandoutInv'
  <2>1. ASSUME NEW n \in 1 .. Share, TakeLocalForStream(k, n) PROVE HandoutInv'
    BY <2>1, HandoutTake
  <2>2. ASSUME NEW n \in 1 .. Share, RequestExtra(k, n) PROVE HandoutInv'
    BY <1>1, <2>2 DEF RequestExtra, history
  <2>3. ASSUME NEW chunk, StoreChunk(k, chunk) PROVE HandoutInv'
    BY <1>1, <2>3 DEF StoreChunk, pools, history
  <2>4. ASSUME NEW chunk, DropReplicas(k, chunk) PROVE HandoutInv'
    <3>1. Without(buf[k], chunk.elems).elems = buf[k].elems \ chunk.elems
      BY WithoutType DEF TypeOK
    <3>2. /\ buf' = [buf EXCEPT ![k] = Without(buf[k], chunk.elems)]
          /\ replica' = [replica EXCEPT ![k] = replica[k] \ chunk.elems]
          /\ UNCHANGED <<emitted, issued, streamed>>
      BY <2>4 DEF DropReplicas
    <3>3. \A j \in Kme : Locals(j)' \subseteq Locals(j)
      BY <3>1, <3>2 DEF Locals, TypeOK
    <3> QED
      BY <3>2, <3>3, HandoutFrame
  <2> QED
    BY <1>5, <2>1, <2>2, <2>3, <2>4 DEF Stream
<1>6. CASE LosePost \/ LoseChunk
  BY <1>1, <1>6 DEF LosePost, LoseChunk, pools, history
<1>7. ASSUME NEW k \in Kme, Restart(k) PROVE HandoutInv'
  <2>1. \A j \in Kme : Locals(j)' \subseteq Locals(j)
    BY <1>7 DEF Restart, Locals, Empty, TypeOK
  <2> QED
    BY <1>7, <2>1, HandoutFrame DEF Restart
<1>8. CASE UNCHANGED vars
  BY <1>1, <1>8 DEF vars, pools, history
<1> QED
  BY <1>2, <1>3, <1>4, <1>5, <1>6, <1>7, <1>8 DEF Next

\* enc_keys hands a key to one caller at one KME, and never a key a 004 chunk
\* took, whatever is lost, late or restarted.
THEOREM HandoutSafety == Spec => []NoDoubleHandout
<1>1. HandoutInv => NoDoubleHandout
  BY DEF HandoutInv, NoDoubleHandout, Uses
<1> QED
  BY <1>1, TypeInit, TypeStep, HandoutInit, HandoutStep, PTL DEF Spec

-----------------------------------------------------------------------------
(* The ring keeps its bound.  A full ring evicts an entry before it admits *)
(* the next because it has an oldest one, which it has as the order of a   *)
(* deque is strict and the deque is finite.                                *)

Strict(q) ==
  /\ \A x \in q.elems : <<x, x>> \notin q.before
  /\ \A x, y, z \in q.elems :
       <<x, y>> \in q.before /\ <<y, z>> \in q.before => <<x, z>> \in q.before

OrderInv ==
  /\ \A k \in Kme : Strict(buf[k]) /\ Strict(withdrawn[k])
  /\ \A chunk \in pushed \cup storing : Strict(chunk)

RingInv == OrderInv /\ RingIndexed

LEMMA KeepStrict ==
  ASSUME NEW S, NEW q \in OrderedSetOf(S), Strict(q), NEW T PROVE Strict(Keep(q, T))
BY DEF Strict, Keep, OrderedSetOf

LEMMA WithoutStrict ==
  ASSUME NEW S, NEW q \in OrderedSetOf(S), Strict(q), NEW T PROVE Strict(Without(q, T))
BY KeepStrict DEF Without

LEMMA ConcatStrict ==
  ASSUME NEW S, NEW q \in OrderedSetOf(S), NEW r \in OrderedSetOf(S), Strict(q), Strict(r)
  PROVE  Strict(Concat(q, r))
<1> DEFINE new == Without(r, q.elems)
           c == Concat(q, r)
<1>1. new \in OrderedSetOf(S) /\ new.elems = r.elems \ q.elems /\ Strict(new)
  BY WithoutType, WithoutStrict
<1>2. /\ c.elems = q.elems \cup new.elems
      /\ c.before = q.before \cup new.before \cup (q.elems \X new.elems)
  BY DEF Concat
<1>3. /\ q.before \subseteq q.elems \X q.elems
      /\ new.before \subseteq new.elems \X new.elems
      /\ q.elems \cap new.elems = {}
  BY <1>1 DEF OrderedSetOf
<1> HIDE DEF new, c
<1>4. ASSUME NEW x \in c.elems PROVE <<x, x>> \notin c.before
  BY <1>1, <1>2, <1>3 DEF Strict
<1>5. ASSUME NEW x \in c.elems, NEW y \in c.elems, NEW z \in c.elems,
             <<x, y>> \in c.before, <<y, z>> \in c.before
      PROVE  <<x, z>> \in c.before
  <2>1. CASE y \in q.elems
    <3>1. x \in q.elems /\ <<x, y>> \in q.before
      BY <1>2, <1>3, <1>5, <2>1
    <3> QED
      BY <1>2, <1>3, <1>5, <2>1, <3>1 DEF Strict
  <2>2. CASE y \in new.elems
    <3>1. z \in new.elems /\ <<y, z>> \in new.before
      BY <1>2, <1>3, <1>5, <2>2
    <3>2. CASE x \in q.elems
      BY <1>2, <3>1, <3>2
    <3>3. CASE x \in new.elems
      <4>1. <<x, y>> \in new.before
        BY <1>2, <1>3, <1>5, <2>2, <3>3
      <4> QED
        BY <1>1, <1>2, <2>2, <3>1, <3>3, <4>1 DEF Strict
    <3> QED
      BY <1>2, <3>2, <3>3
  <2> QED
    BY <1>2, <2>1, <2>2
<1> QED
  BY <1>4, <1>5 DEF Strict, c

LEMMA Append1Strict ==
  ASSUME NEW S, NEW q \in OrderedSetOf(S), NEW x \in S, Strict(q) PROVE Strict(Append1(q, x))
<1> DEFINE one == [elems |-> {x}, before |-> {}]
<1>1. one \in OrderedSetOf(S) /\ Strict(one)
  BY DEF OrderedSetOf, Strict
<1> HIDE DEF one
<1>2. Strict(Concat(q, one))
  BY <1>1, ConcatStrict
<1> QED
  BY <1>2 DEF Append1, one

\* A finite order that is not empty has an oldest element: one whose set of
\* predecessors is minimal.
LEMMA OldestExists ==
  ASSUME NEW S, NEW q \in OrderedSetOf(S), Strict(q), IsFiniteSet(q.elems), q.elems # {}
  PROVE  \E x \in q.elems : x \in Oldest(q, 1)
<1> DEFINE E == q.elems
           preds(x) == {y \in E : <<y, x>> \in q.before}
           all == {preds(x) : x \in E}
<1>1. all \subseteq FiniteSubsetsOf(E) /\ all # {}
  <2>1. \A x \in E : preds(x) \in SUBSET E /\ IsFiniteSet(preds(x))
    BY FS_Subset
  <2>2. ASSUME NEW P \in all PROVE P \in FiniteSubsetsOf(E)
    <3>1. PICK x \in E : P = preds(x)
      OBVIOUS
    <3> QED
      BY <2>1, <3>1 DEF FiniteSubsetsOf
  <2>3. all # {}
    OBVIOUS
  <2> QED
    BY <2>2, <2>3
<1>2. IsWellFoundedOn(StrictSubsetOrdering(E), FiniteSubsetsOf(E))
  BY FS_StrictSubsetOrderingWellFounded
<1>3. PICK P \in all : \A Q \in all : ~ (<<Q, P>> \in StrictSubsetOrdering(E))
  <2> HIDE DEF all
  <2> QED
    BY <1>1, <1>2, WFMin
<1>4. PICK x \in E : P = preds(x)
  BY <1>3
<1>5. preds(x) = {}
  <2> SUFFICES ASSUME NEW y \in preds(x) PROVE FALSE
    OBVIOUS
  <2>1. preds(y) \subseteq preds(x) /\ y \notin preds(y)
    BY DEF Strict
  <2>2. preds(y) # preds(x)
    BY <2>1
  <2>3. preds(y) \in SUBSET E /\ preds(x) \in SUBSET E /\ preds(y) \in all
    OBVIOUS
  <2>4. <<preds(y), preds(x)>> \in StrictSubsetOrdering(E)
    <3> DEFINE A == preds(y)
               B == preds(x)
    <3>1. A \in SUBSET E /\ B \in SUBSET E /\ A \subseteq B /\ A # B
      BY <2>1, <2>2, <2>3
    <3> HIDE DEF A, B
    <3> QED
      BY <3>1 DEF StrictSubsetOrdering, A, B
  <2> QED
    BY <1>3, <1>4, <2>3, <2>4
<1>6. Cardinality({}) < 1
  BY FS_EmptySet
<1>7. {y \in q.elems : <<y, x>> \in q.before} = {}
  BY <1>5
<1> HIDE DEF all, preds
<1> QED
  BY <1>6, <1>7 DEF Oldest

\* Nothing is trimmed from what fits.
LEMMA NewestAll ==
  ASSUME NEW S, NEW q \in OrderedSetOf(S), Strict(q), IsFiniteSet(q.elems),
         NEW n \in Nat, Cardinality(q.elems) <= n
  PROVE  Newest(q, n) = q.elems
<1> SUFFICES ASSUME NEW x \in q.elems
             PROVE  Cardinality({y \in q.elems : <<x, y>> \in q.before}) < n
  BY DEF Newest
<1> DEFINE later == {y \in q.elems : <<x, y>> \in q.before}
           rest == q.elems \ {x}
<1>1. later \in SUBSET rest
  BY DEF Strict
<1>2. IsFiniteSet(rest) /\ Cardinality(rest) = Cardinality(q.elems) - 1
  BY FS_RemoveElement
<1>3. Cardinality(later) <= Cardinality(rest) /\ IsFiniteSet(later)
  BY <1>1, <1>2, FS_Subset
<1>4. Cardinality(q.elems) \in Nat /\ Cardinality(later) \in Nat
  BY <1>3, FS_CardinalityType
<1> HIDE DEF later, rest
<1>5. Cardinality(later) < n
  BY <1>2, <1>3, <1>4
<1> QED
  BY <1>5 DEF later

LEMMA KeyIsFinite == IsFiniteSet(Key)
<1>1. IsFiniteSet({Allocator}) /\ IsFiniteSet({Peer[Allocator]})
  BY FS_Singleton
<1>2. IsFiniteSet({Allocator} \cup {Peer[Allocator]})
  BY <1>1, FS_Union
<1>3. IsFiniteSet(Kme)
  <2>1. Kme = {Allocator} \cup {Peer[Allocator]}
    BY KmeAssumption
  <2> QED
    BY <1>2, <2>1
<1>4. IsFiniteSet(1 .. MaxKeys)
  BY SizeAssumption, FS_Interval
<1> QED
  BY <1>3, <1>4, FS_Product DEF Key

LEMMA RingIsFinite ==
  ASSUME TypeOK, NEW k \in Kme
  PROVE  IsFiniteSet(buf[k].elems) /\ Cardinality(buf[k].elems) \in Nat
<1>1. buf[k].elems \in SUBSET Key
  BY DEF TypeOK, OrderedSetOf
<1> QED
  BY <1>1, KeyIsFinite, FS_Subset, FS_CardinalityType

\* A ring that admits a key stays within its capacity: when it is full, its
\* oldest entry leaves first.
LEMMA AdmitRing ==
  ASSUME TypeOK, RingInv, NEW k \in Kme, NEW key \in Key, NEW b \in BOOLEAN,
         Admit(k, key, b)
  PROVE  (\A j \in Kme : Strict(buf'[j])) /\ RingIndexed'
<1> DEFINE q == buf[k]
           gone == Evicted(k)
           left == q.elems \ gone
           new == Append1(Without(q, gone), key)
<1>1. q \in OrderedSetOf(Key) /\ Strict(q)
  BY DEF TypeOK, RingInv, OrderInv
<1>2. /\ IsFiniteSet(q.elems) /\ Cardinality(q.elems) \in Nat
      /\ Cardinality(q.elems) <= Capacity /\ q.elems \cup replica[k] \subseteq byId[k]
  BY RingIsFinite DEF RingInv, RingIndexed
<1>3. gone \subseteq q.elems
  BY OldestSubset DEF Evicted
<1>4. /\ buf' = [buf EXCEPT ![k] = new]
      /\ byId' = [byId EXCEPT ![k] = (byId[k] \ gone) \cup {key}]
      /\ replica' = [replica EXCEPT ![k] = (replica[k] \ gone) \cup (IF b THEN {key} ELSE {})]
  BY DEF Admit
<1>5. new.elems = left \cup {key} /\ Strict(new)
  <2>1. /\ Without(q, gone) \in OrderedSetOf(Key) /\ Without(q, gone).elems = left
        /\ Strict(Without(q, gone))
    BY <1>1, WithoutType, WithoutStrict
  <2> DEFINE w == Without(q, gone)
  <2> HIDE DEF w
  <2>2. Append1(w, key).elems = w.elems \cup {key} /\ Strict(Append1(w, key))
    BY <2>1, Append1Type, Append1Strict DEF w
  <2> QED
    BY <2>1, <2>2 DEF w
<1>6. IsFiniteSet(left) /\ Cardinality(left) \in Nat
  BY <1>2, FS_Subset, FS_CardinalityType
<1>7. Cardinality(left) < Capacity
  <2>1. Cardinality(left) <= Cardinality(q.elems)
    BY <1>2, FS_Subset
  <2>2. CASE Cardinality(q.elems) = Capacity
    <3>1. q.elems # {}
      BY <2>2, SizeAssumption, FS_EmptySet
    <3>2. PICK x \in q.elems : x \in gone
      BY <1>1, <1>2, <2>2, <3>1, OldestExists DEF Evicted
    <3>3. IsFiniteSet(q.elems \ {x}) /\ Cardinality(q.elems \ {x}) = Cardinality(q.elems) - 1
      BY <1>2, <3>2, FS_RemoveElement
    <3>4. Cardinality(left) <= Cardinality(q.elems \ {x})
      <4>1. left \in SUBSET (q.elems \ {x})
        BY <3>2
      <4> HIDE DEF left, q
      <4> QED
        BY <3>3, <4>1, FS_Subset
    <3> HIDE DEF left, q
    <3> QED
      BY <1>2, <1>6, <2>2, <3>3, <3>4, SizeAssumption
  <2>3. CASE Cardinality(q.elems) # Capacity
    <3> HIDE DEF left, q
    <3> QED
      BY <1>2, <1>6, <2>1, <2>3, SizeAssumption
  <2> QED
    BY <2>2, <2>3
<1>8. Cardinality(left \cup {key}) <= Capacity
  <2>1. Cardinality(left \cup {key}) = IF key \in left THEN Cardinality(left) ELSE Cardinality(left) + 1
    BY <1>6, FS_AddElement
  <2> HIDE DEF left
  <2> QED
    BY <1>6, <1>7, <2>1, SizeAssumption
<1>9. Cardinality(buf'[k].elems) <= Capacity /\ buf'[k].elems \cup replica'[k] \subseteq byId'[k]
  <2>1. /\ buf'[k] = new /\ byId'[k] = (byId[k] \ gone) \cup {key}
        /\ replica'[k] \subseteq (replica[k] \ gone) \cup {key}
    BY <1>4 DEF TypeOK
  <2> HIDE DEF new, gone, q
  <2> QED
    BY <1>2, <1>5, <1>8, <2>1
<1>10. \A j \in Kme \ {k} : buf'[j] = buf[j] /\ byId'[j] = byId[j] /\ replica'[j] = replica[j]
  BY <1>4 DEF TypeOK
<1>11. \A j \in Kme : Strict(buf'[j])
  <2>1. buf'[k] = new
    BY <1>4 DEF TypeOK
  <2> HIDE DEF new
  <2> QED
    BY <1>5, <1>10, <2>1 DEF RingInv, OrderInv
<1>12. RingIndexed'
  BY <1>9, <1>10 DEF RingIndexed, RingInv
<1> QED
  BY <1>11, <1>12

\* Steps that leave the pools and the chunks alone.
LEMMA RingFrame ==
  ASSUME RingInv, UNCHANGED <<buf, byId, replica, withdrawn>>,
         pushed' \cup storing' \subseteq pushed \cup storing
  PROVE  RingInv'
<1>1. OrderInv'
  BY DEF RingInv, OrderInv
<1>2. RingIndexed'
  BY DEF RingInv, RingIndexed
<1> QED
  BY <1>1, <1>2 DEF RingInv

\* Keys that leave the ring leave it ordered, within its bound and indexed.
LEMMA RingRemoves ==
  ASSUME TypeOK, RingInv, NEW k \in Kme, NEW gone,
         buf' = [buf EXCEPT ![k] = Without(buf[k], gone)],
         buf[k].elems \ gone \subseteq byId'[k], replica'[k] \subseteq byId'[k],
         \A j \in Kme \ {k} : byId'[j] = byId[j] /\ replica'[j] = replica[j]
  PROVE  (\A j \in Kme : Strict(buf'[j])) /\ RingIndexed'
<1> DEFINE w == Without(buf[k], gone)
<1>1. w.elems = buf[k].elems \ gone /\ Strict(w)
  BY WithoutType, WithoutStrict DEF TypeOK, RingInv, OrderInv
<1>2. Cardinality(w.elems) <= Capacity
  <2>1. /\ IsFiniteSet(buf[k].elems) /\ Cardinality(buf[k].elems) \in Nat
        /\ Cardinality(buf[k].elems) <= Capacity
    BY RingIsFinite DEF RingInv, RingIndexed
  <2>2. w.elems \in SUBSET buf[k].elems
    BY <1>1
  <2> DEFINE A == w.elems
             B == buf[k].elems
  <2> HIDE DEF A, B
  <2>3. Cardinality(A) <= Cardinality(B) /\ IsFiniteSet(A)
    BY <2>1, <2>2, FS_Subset DEF A, B
  <2>4. Cardinality(A) \in Nat
    BY <2>3, FS_CardinalityType
  <2>5. Cardinality(A) <= Capacity
    BY <2>1, <2>3, <2>4, SizeAssumption DEF B
  <2> QED
    BY <2>5 DEF A
<1>3. buf'[k] = w /\ \A j \in Kme \ {k} : buf'[j] = buf[j]
  BY DEF TypeOK
<1> HIDE DEF w
<1>4. \A j \in Kme : Strict(buf'[j])
  BY <1>1, <1>3 DEF RingInv, OrderInv
<1>5. RingIndexed'
  BY <1>1, <1>2, <1>3 DEF RingInv, RingIndexed
<1> QED
  BY <1>4, <1>5

LEMMA RingInit == Init => RingInv
<1> SUFFICES ASSUME Init PROVE RingInv
  OBVIOUS
<1>1. Strict(Empty) /\ Empty.elems = {}
  BY DEF Strict, Empty
<1>2. Cardinality({}) <= Capacity
  BY FS_EmptySet, SizeAssumption
<1>3. OrderInv
  BY <1>1 DEF Init, OrderInv
<1>4. RingIndexed
  BY <1>1, <1>2 DEF Init, RingIndexed
<1> QED
  BY <1>3, <1>4 DEF RingInv

LEMMA RingStep == TypeInv /\ RingInv /\ [Next]_vars => RingInv'
<1> SUFFICES ASSUME TypeInv, RingInv, [Next]_vars PROVE RingInv'
  OBVIOUS
<1> USE DEF TypeInv
<1>1. ASSUME NEW k \in Kme, Produce(k) PROVE RingInv'
  <2>1. CASE RoundAccepted(k)
    <3>1. emitted[k] + 1 \in 1 .. MaxKeys
      BY <2>1, SizeAssumption DEF TypeOK, RoundAccepted
    <3>2. PICK new \in Key : new = <<k, emitted[k] + 1>>
      BY <3>1 DEF Key
    <3>3. Admit(k, new, FALSE) /\ UNCHANGED <<withdrawn, pushed, storing>>
      BY <2>1, <3>2 DEF RoundAccepted
    <3>4. (\A j \in Kme : Strict(buf'[j])) /\ RingIndexed'
      BY <3>3, AdmitRing
    <3> QED
      BY <3>3, <3>4 DEF RingInv, OrderInv
  <2>2. CASE StartRound(k) \/ RoundAborted(k) \/ SyncAnswered(k) \/ SyncTimeout(k)
    BY <2>2, RingFrame DEF StartRound, RoundAborted, SyncAnswered, SyncTimeout, flight
  <2> QED
    BY <1>1, <2>1, <2>2 DEF Produce
<1>2. ASSUME NEW key \in Key, Sync(Peer[Home(key)], key) PROVE RingInv'
  <2>1. PICK k \in Kme : k = Peer[Home(key)]
    BY KmeAssumption DEF Key, Home
  <2>2. CASE SyncQueued(k, key)
    BY <2>2, RingFrame DEF SyncQueued, pools
  <2>3. CASE ReceiveSynced(k, key)
    <3>1. UNCHANGED <<withdrawn, pushed, storing>>
      BY <2>3 DEF ReceiveSynced
    <3>2. CASE Admit(k, key, TRUE)
      <4>1. (\A j \in Kme : Strict(buf'[j])) /\ RingIndexed'
        BY <3>2, AdmitRing
      <4> QED
        BY <3>1, <4>1 DEF RingInv, OrderInv
    <3>3. CASE UNCHANGED <<buf, byId, replica>>
      BY <3>1, <3>3, RingFrame
    <3> QED
      BY <2>3, <3>2, <3>3 DEF ReceiveSynced
  <2> QED
    BY <1>2, <2>1, <2>2, <2>3 DEF Sync
<1>3. ASSUME NEW k \in Kme, PopForEnc(k) PROVE RingInv'
  <2>1. PICK key \in Candidates(k) : buf' = [buf EXCEPT ![k] = Without(buf[k], {key})]
    BY <1>3 DEF PopForEnc
  <2>2. UNCHANGED <<byId, replica, withdrawn, pushed, storing>>
    BY <1>3 DEF PopForEnc, flight
  <2>3. buf[k].elems \ {key} \subseteq byId'[k] /\ replica'[k] \subseteq byId'[k]
    BY <2>2 DEF RingInv, RingIndexed
  <2>4. (\A j \in Kme : Strict(buf'[j])) /\ RingIndexed'
    BY <2>1, <2>2, <2>3, RingRemoves
  <2> QED
    BY <2>2, <2>4 DEF RingInv, OrderInv
<1>4. ASSUME NEW k \in Kme, Stream(k) PROVE RingInv'
  <2>1. ASSUME NEW n \in 1 .. Share, TakeLocalForStream(k, n) PROVE RingInv'
    <3> DEFINE taken == Oldest(Keep(buf[k], Locals(k)), n)
    <3>1. /\ buf' = [buf EXCEPT ![k] = Without(buf[k], taken)]
          /\ byId' = [byId EXCEPT ![k] = byId[k] \ taken]
          /\ pushed' = pushed \cup {Keep(buf[k], taken)}
          /\ UNCHANGED <<replica, withdrawn, storing>>
      BY <2>1 DEF TakeLocalForStream
    <3>2. taken \subseteq Locals(k)
      BY OldestLocals
    <3>3. Strict(Keep(buf[k], taken))
      BY KeepStrict DEF TypeOK, RingInv, OrderInv
    <3> HIDE DEF taken
    <3>4. byId'[k] = byId[k] \ taken /\ \A j \in Kme \ {k} : byId'[j] = byId[j]
      BY <3>1 DEF TypeOK
    <3>5. buf[k].elems \ taken \subseteq byId'[k] /\ replica'[k] \subseteq byId'[k]
      BY <3>1, <3>2, <3>4 DEF RingInv, RingIndexed, Locals
    <3>6. (\A j \in Kme : Strict(buf'[j])) /\ RingIndexed'
      BY <3>1, <3>4, <3>5, RingRemoves
    <3> QED
      BY <3>1, <3>3, <3>6 DEF RingInv, OrderInv
  <2>2. ASSUME NEW n \in 1 .. Share, RequestExtra(k, n) PROVE RingInv'
    BY <2>2, RingFrame DEF RequestExtra, flight
  <2>3. ASSUME NEW chunk, StoreChunk(k, chunk) PROVE RingInv'
    BY <2>3, RingFrame DEF StoreChunk, pools
  <2>4. ASSUME NEW chunk, DropReplicas(k, chunk) PROVE RingInv'
    <3> DEFINE all == Concat(withdrawn[k], chunk)
               kept == Keep(all, Newest(all, Capacity))
    <3>1. chunk \in OrderedSetOf(Key) /\ Strict(chunk)
      BY <2>4 DEF TypeOK, DropReplicas, RingInv, OrderInv
    <3>2. all \in OrderedSetOf(Key) /\ Strict(all)
      BY <3>1, ConcatType, ConcatStrict DEF TypeOK, RingInv, OrderInv
    <3>3. Strict(kept)
      <4> HIDE DEF all
      <4> QED
        BY <3>2, KeepStrict
    <3>4. /\ buf' = [buf EXCEPT ![k] = Without(buf[k], chunk.elems)]
          /\ byId' = [byId EXCEPT ![k] = byId[k] \ chunk.elems]
          /\ replica' = [replica EXCEPT ![k] = replica[k] \ chunk.elems]
          /\ withdrawn' = [withdrawn EXCEPT ![k] = kept]
          /\ pushed' = pushed \ {chunk} /\ storing' = storing \ {chunk}
      BY <2>4 DEF DropReplicas
    <3> HIDE DEF all, kept
    <3>5. /\ byId'[k] = byId[k] \ chunk.elems /\ replica'[k] = replica[k] \ chunk.elems
          /\ \A j \in Kme \ {k} : byId'[j] = byId[j] /\ replica'[j] = replica[j]
      BY <3>4 DEF TypeOK
    <3>6. buf[k].elems \ chunk.elems \subseteq byId'[k] /\ replica'[k] \subseteq byId'[k]
      BY <3>5 DEF RingInv, RingIndexed
    <3>7. (\A j \in Kme : Strict(buf'[j])) /\ RingIndexed'
      BY <3>4, <3>5, <3>6, RingRemoves
    <3>8. \A j \in Kme : Strict(withdrawn'[j])
      BY <3>3, <3>4 DEF TypeOK, RingInv, OrderInv
    <3> QED
      BY <3>4, <3>7, <3>8 DEF RingInv, OrderInv
  <2> QED
    BY <1>4, <2>1, <2>2, <2>3, <2>4 DEF Stream
<1>5. CASE LosePost
  BY <1>5, RingFrame DEF LosePost, pools
<1>6. CASE LoseChunk
  BY <1>6, RingFrame DEF LoseChunk, pools
<1>7. ASSUME NEW k \in Kme, Restart(k) PROVE RingInv'
  <2>1. /\ buf' = [buf EXCEPT ![k] = Empty] /\ byId' = [byId EXCEPT ![k] = {}]
        /\ replica' = [replica EXCEPT ![k] = {}]
        /\ withdrawn' = [withdrawn EXCEPT ![k] = Empty]
        /\ pushed' = pushed /\ storing' \subseteq storing
    BY <1>7 DEF Restart
  <2>2. Strict(Empty) /\ Empty.elems = {} /\ Cardinality({}) <= Capacity
    BY FS_EmptySet, SizeAssumption DEF Strict, Empty
  <2>3. /\ buf'[k] = Empty /\ withdrawn'[k] = Empty /\ byId'[k] = {} /\ replica'[k] = {}
        /\ \A j \in Kme \ {k} : /\ buf'[j] = buf[j] /\ withdrawn'[j] = withdrawn[j]
                                /\ byId'[j] = byId[j] /\ replica'[j] = replica[j]
    BY <2>1 DEF TypeOK
  <2>4. RingIndexed'
    BY <2>2, <2>3 DEF RingInv, RingIndexed
  <2>5. OrderInv'
    BY <2>1, <2>2, <2>3 DEF RingInv, OrderInv
  <2> QED
    BY <2>4, <2>5 DEF RingInv
<1>8. CASE UNCHANGED vars
  BY <1>8, RingFrame DEF vars, pools, flight
<1> QED
  BY <1>1, <1>2, <1>3, <1>4, <1>5, <1>6, <1>7, <1>8 DEF Next

\* The ring of either KME stays within pool_max_size and every key of it can
\* be resolved, in every interleaving of rounds, syncs, pops, chunks and faults.
THEOREM RingSafety == Spec => []RingIndexed
<1>1. RingInv => RingIndexed
  BY DEF RingInv
<1> QED
  BY <1>1, TypeInit, TypeStep, RingInit, RingStep, PTL DEF Spec

-----------------------------------------------------------------------------
(* What was withdrawn stays withdrawn.  A key a chunk took left the index  *)
(* of its producer for good, as the producer only ever admits fresh keys.  *)
(* At the follower a late sync POST could bring it back: it does not while *)
(* the follower remembers the key, and it remembers every key it dropped   *)
(* until it restarts or has dropped more than Capacity of them.            *)

Follower == Peer[Allocator]
Taken(key) == Home(key) = Allocator /\ streamed[key] > 0

StreamedIsGone == \A key \in Key : streamed[key] > 0 => key \notin byId[Home(key)]

ChunksAreTaken ==
  /\ \A chunk \in pushed \cup storing : \A key \in chunk.elems : Taken(key)
  /\ \A key \in dropped : Taken(key)

MemoryHolds ==
  /\ withdrawn[Follower].elems \subseteq dropped
  /\ withdrawn[Follower].elems \cap byId[Follower] = {}
  /\ restarts = 0 /\ Cardinality(dropped) <= Capacity
     => dropped \subseteq withdrawn[Follower].elems

DropInv == StreamedIsGone /\ ChunksAreTaken /\ MemoryHolds

LEMMA FollowerIsOther == Follower \in Kme /\ Follower # Allocator /\ Allocator \in Kme
BY KmeAssumption DEF Follower

\* _admit adds one key to one index.
LEMMA AdmitIndex ==
  ASSUME TypeOK, NEW k \in Kme, NEW key \in Key, NEW b \in BOOLEAN, Admit(k, key, b)
  PROVE  /\ byId'[k] \subseteq byId[k] \cup {key}
         /\ \A j \in Kme \ {k} : byId'[j] = byId[j]
BY DEF Admit, TypeOK

\* Steps that index no key and take, store or drop no chunk.
LEMMA DropFrame ==
  ASSUME TypeOK, DropInv, UNCHANGED <<withdrawn, streamed, dropped, restarts>>,
         \A k \in Kme : byId'[k] \subseteq byId[k],
         pushed' \cup storing' \subseteq pushed \cup storing
  PROVE  DropInv'
<1>1. StreamedIsGone'
  <2>1. \A key \in Key : Home(key) \in Kme
    BY DEF Key, Home
  <2> QED
    BY <2>1 DEF DropInv, StreamedIsGone
<1>2. ChunksAreTaken'
  BY DEF DropInv, ChunksAreTaken, Taken
<1>3. MemoryHolds'
  BY FollowerIsOther DEF DropInv, MemoryHolds, Follower
<1> QED
  BY <1>1, <1>2, <1>3 DEF DropInv

LEMMA DropInit == Init => DropInv
<1> SUFFICES ASSUME Init PROVE DropInv
  OBVIOUS
<1>1. StreamedIsGone
  BY DEF Init, StreamedIsGone
<1>2. ChunksAreTaken
  BY DEF Init, ChunksAreTaken
<1>3. MemoryHolds
  BY FollowerIsOther DEF Init, MemoryHolds, Empty
<1> QED
  BY <1>1, <1>2, <1>3 DEF DropInv

\* A round: the key it indexes is fresh, so no chunk took it.
LEMMA DropRound ==
  ASSUME TypeInv, HandoutInv, DropInv, NEW k \in Kme, RoundAccepted(k)
  PROVE  DropInv'
<1>1. /\ emitted[k] + 1 \in 1 .. MaxKeys
      /\ UNCHANGED <<withdrawn, streamed, dropped, restarts, pushed, storing>>
  BY SizeAssumption DEF TypeInv, TypeOK, RoundAccepted
<1>2. PICK new \in Key : new = <<k, emitted[k] + 1>>
  BY <1>1 DEF Key
<1>3. /\ byId'[k] \subseteq byId[k] \cup {new}
      /\ \A j \in Kme \ {k} : byId'[j] = byId[j]
  BY <1>2, AdmitIndex DEF RoundAccepted, TypeInv
<1>4. Home(new) = k /\ streamed[new] = 0
  <2>1. Fresh(new) /\ Home(new) = k
    BY <1>2 DEF Fresh, Home, TypeInv, TypeOK
  <2>2. issued[new] \in Nat /\ streamed[new] \in Nat
    BY DEF TypeInv, TypeOK
  <2> QED
    BY <2>1, <2>2 DEF HandoutInv, Uses
<1>5. StreamedIsGone'
  <2>1. \A key \in Key : Home(key) \in Kme
    BY DEF Key, Home
  <2> QED
    BY <1>1, <1>3, <1>4, <2>1 DEF DropInv, StreamedIsGone
<1>6. ChunksAreTaken'
  BY <1>1 DEF DropInv, ChunksAreTaken, Taken
<1>7. new \notin withdrawn[Follower].elems
  BY <1>4 DEF DropInv, MemoryHolds, ChunksAreTaken, Taken
<1>8. MemoryHolds'
  BY <1>1, <1>3, <1>7, FollowerIsOther DEF DropInv, MemoryHolds, Follower
<1> QED
  BY <1>5, <1>6, <1>8 DEF DropInv

\* A sync POST is served where the key was not produced, and a key that is
\* remembered there is ignored.
LEMMA DropReceive ==
  ASSUME TypeInv, DropInv, NEW key \in Key, NEW k \in Kme, k = Peer[Home(key)],
         ReceiveSynced(k, key)
  PROVE  DropInv'
<1>1. UNCHANGED <<withdrawn, streamed, dropped, restarts, pushed, storing>>
  BY DEF ReceiveSynced
<1>2. CASE Known(k, key)
  BY <1>1, <1>2, DropFrame DEF ReceiveSynced, TypeInv
<1>3. CASE ~Known(k, key)
  <2>1. /\ byId'[k] \subseteq byId[k] \cup {key}
        /\ \A j \in Kme \ {k} : byId'[j] = byId[j]
    BY <1>3, AdmitIndex DEF ReceiveSynced, TypeInv
  <2>2. Home(key) \in Kme /\ Home(key) # k
    BY KmeAssumption DEF Key, Home
  <2>3. StreamedIsGone'
    <3>1. \A x \in Key : Home(x) \in Kme
      BY DEF Key, Home
    <3> QED
      BY <1>1, <2>1, <2>2, <3>1 DEF DropInv, StreamedIsGone
  <2>4. ChunksAreTaken'
    BY <1>1 DEF DropInv, ChunksAreTaken, Taken
  <2>5. MemoryHolds'
    BY <1>1, <1>3, <2>1, FollowerIsOther DEF DropInv, MemoryHolds, Follower, Known
  <2> QED
    BY <2>3, <2>4, <2>5 DEF DropInv
<1> QED
  BY <1>2, <1>3

\* A chunk takes keys its KME produced, and takes them from the index.
LEMMA DropTake ==
  ASSUME TypeInv, HandoutInv, DropInv, NEW n, TakeLocalForStream(Allocator, n)
  PROVE  DropInv'
<1> DEFINE taken == Oldest(Keep(buf[Allocator], Locals(Allocator)), n)
           chunk == Keep(buf[Allocator], taken)
<1>1. taken \subseteq Locals(Allocator) /\ taken \subseteq Key
  BY OldestLocals, KmeAssumption DEF TypeInv
<1>2. chunk.elems \subseteq taken
  BY DEF Keep
<1>3. /\ byId' = [byId EXCEPT ![Allocator] = byId[Allocator] \ taken]
      /\ pushed' = pushed \cup {chunk}
      /\ streamed' = [key \in Key |-> streamed[key] + (IF key \in taken THEN 1 ELSE 0)]
      /\ UNCHANGED <<withdrawn, storing, dropped, restarts>>
  BY DEF TakeLocalForStream
<1> HIDE DEF taken, chunk
<1>4. /\ byId'[Allocator] = byId[Allocator] \ taken
      /\ \A j \in Kme \ {Allocator} : byId'[j] = byId[j]
  BY <1>3, KmeAssumption DEF TypeInv, TypeOK
<1>5. \A key \in taken : Home(key) = Allocator
  BY <1>1, KmeAssumption DEF HandoutInv
<1>6. \A key \in Key : /\ streamed[key] \in Nat
                       /\ key \in taken => streamed'[key] > 0
                       /\ key \notin taken => streamed'[key] = streamed[key]
                       /\ streamed[key] > 0 => streamed'[key] > 0
  BY <1>3 DEF TypeInv, TypeOK
<1>7. StreamedIsGone'
  <2>1. \A key \in Key : Home(key) \in Kme
    BY DEF Key, Home
  <2> QED
    BY <1>4, <1>5, <1>6, <2>1 DEF DropInv, StreamedIsGone
<1>8. ChunksAreTaken'
  <2>1. \A c \in pushed \cup storing : c.elems \subseteq Key
    BY DEF TypeInv, TypeOK, OrderedSetOf
  <2>2. dropped \subseteq Key
    BY DEF TypeInv, TypeOK
  <2>3. ASSUME NEW c \in pushed' \cup storing', NEW key \in c.elems PROVE Taken(key)'
    <3>1. CASE c \in pushed \cup storing
      BY <1>6, <2>1, <2>3, <3>1 DEF DropInv, ChunksAreTaken, Taken
    <3>2. CASE c = chunk
      BY <1>1, <1>2, <1>5, <1>6, <2>3, <3>2 DEF Taken
    <3> QED
      BY <1>3, <2>3, <3>1, <3>2
  <2>4. \A key \in dropped' : Taken(key)'
    BY <1>3, <1>6, <2>2 DEF DropInv, ChunksAreTaken, Taken
  <2> QED
    BY <2>3, <2>4 DEF ChunksAreTaken
<1>9. MemoryHolds'
  BY <1>3, <1>4, FollowerIsOther DEF DropInv, MemoryHolds, Follower
<1> QED
  BY <1>7, <1>8, <1>9 DEF DropInv

\* drop_replicas remembers what it withdrew; the memory is only trimmed when
\* it is over capacity.
LEMMA DropDrops ==
  ASSUME TypeInv, RingInv, DropInv, NEW chunk, DropReplicas(Follower, chunk)
  PROVE  DropInv'
<1> DEFINE w == withdrawn[Follower]
           all == Concat(w, chunk)
           kept == Keep(all, Newest(all, Capacity))
<1>1. chunk \in pushed \cup storing
  BY DEF DropReplicas
<1>2. chunk \in OrderedSetOf(Key) /\ Strict(chunk) /\ chunk.elems \subseteq Key
  BY <1>1 DEF TypeInv, TypeOK, RingInv, OrderInv, OrderedSetOf
<1>3. w \in OrderedSetOf(Key) /\ Strict(w)
  BY FollowerIsOther DEF TypeInv, TypeOK, RingInv, OrderInv
<1>4. /\ all \in OrderedSetOf(Key) /\ Strict(all) /\ all.elems = w.elems \cup chunk.elems
  <2> HIDE DEF w
  <2> QED
    BY <1>2, <1>3, ConcatType, ConcatStrict
<1>5. /\ dropped' = dropped \cup chunk.elems
      /\ byId' = [byId EXCEPT ![Follower] = byId[Follower] \ chunk.elems]
      /\ withdrawn' = [withdrawn EXCEPT ![Follower] = kept]
      /\ pushed' \subseteq pushed /\ storing' \subseteq storing
      /\ UNCHANGED <<streamed, restarts>>
  BY DEF DropReplicas
<1>6. kept.elems = all.elems \cap Newest(all, Capacity)
  BY DEF Keep
<1>7. IsFiniteSet(all.elems) /\ IsFiniteSet(dropped')
  <2>1. all.elems \in SUBSET Key
    BY <1>4 DEF OrderedSetOf
  <2>2. dropped' \in SUBSET Key
    BY <1>2, <1>5 DEF TypeInv, TypeOK
  <2> HIDE DEF all
  <2> QED
    BY <2>1, <2>2, KeyIsFinite, FS_Subset
<1> HIDE DEF all, kept
<1>8. /\ byId'[Follower] = byId[Follower] \ chunk.elems
      /\ withdrawn'[Follower] = kept
      /\ \A j \in Kme : byId'[j] \subseteq byId[j]
  BY <1>5, FollowerIsOther DEF TypeInv, TypeOK
<1>9. all.elems \subseteq dropped'
  BY <1>4, <1>5 DEF DropInv, MemoryHolds
<1>10. ASSUME restarts = 0, Cardinality(dropped') <= Capacity PROVE dropped' \subseteq kept.elems
  <2>1. Cardinality(dropped) <= Capacity
    <3> DEFINE D == dropped'
    <3>1. dropped \in SUBSET D /\ IsFiniteSet(D) /\ Cardinality(D) <= Capacity
      BY <1>5, <1>7, <1>10
    <3> HIDE DEF D
    <3>2. Cardinality(dropped) <= Cardinality(D) /\ IsFiniteSet(dropped)
      BY <3>1, FS_Subset
    <3>3. Cardinality(dropped) \in Nat /\ Cardinality(D) \in Nat
      BY <3>1, <3>2, FS_CardinalityType
    <3> QED
      BY <3>1, <3>2, <3>3, SizeAssumption
  <2>2. dropped' = all.elems
    BY <1>4, <1>5, <1>10, <2>1 DEF DropInv, MemoryHolds
  <2>3. Newest(all, Capacity) = all.elems
    BY <1>4, <1>7, <1>10, <2>2, SizeAssumption, NewestAll
  <2> QED
    BY <1>6, <2>2, <2>3
<1>11. StreamedIsGone'
  <2>1. \A key \in Key : Home(key) \in Kme
    BY DEF Key, Home
  <2> QED
    BY <1>5, <1>8, <2>1 DEF DropInv, StreamedIsGone
<1>12. ChunksAreTaken'
  BY <1>1, <1>5 DEF DropInv, ChunksAreTaken, Taken
<1>13. MemoryHolds'
  <2>1. withdrawn'[Follower].elems \subseteq dropped'
    BY <1>6, <1>8, <1>9
  <2>2. withdrawn'[Follower].elems \cap byId'[Follower] = {}
    BY <1>4, <1>6, <1>8 DEF DropInv, MemoryHolds
  <2>3. restarts' = 0 /\ Cardinality(dropped') <= Capacity
        => dropped' \subseteq withdrawn'[Follower].elems
    BY <1>5, <1>8, <1>10
  <2> QED
    BY <2>1, <2>2, <2>3 DEF MemoryHolds, Follower
<1> QED
  BY <1>11, <1>12, <1>13 DEF DropInv

LEMMA DropStep == TypeInv /\ HandoutInv /\ RingInv /\ DropInv /\ [Next]_vars => DropInv'
<1> SUFFICES ASSUME TypeInv, HandoutInv, RingInv, DropInv, [Next]_vars PROVE DropInv'
  OBVIOUS
<1>1. ASSUME UNCHANGED <<byId, withdrawn, streamed, dropped, restarts>>,
             pushed' \cup storing' \subseteq pushed \cup storing
      PROVE  DropInv'
  BY <1>1, DropFrame DEF TypeInv
<1>2. ASSUME NEW k \in Kme, Produce(k) PROVE DropInv'
  <2>1. CASE RoundAccepted(k)
    BY <2>1, DropRound
  <2>2. CASE StartRound(k) \/ RoundAborted(k) \/ SyncAnswered(k) \/ SyncTimeout(k)
    BY <1>1, <2>2 DEF StartRound, RoundAborted, SyncAnswered, SyncTimeout, flight, history
  <2> QED
    BY <1>2, <2>1, <2>2 DEF Produce
<1>3. ASSUME NEW key \in Key, Sync(Peer[Home(key)], key) PROVE DropInv'
  <2>1. PICK k \in Kme : k = Peer[Home(key)]
    BY KmeAssumption DEF Key, Home
  <2>2. CASE SyncQueued(k, key)
    BY <1>1, <2>2 DEF SyncQueued, pools, history
  <2>3. CASE ReceiveSynced(k, key)
    BY <2>1, <2>3, DropReceive
  <2> QED
    BY <1>3, <2>1, <2>2, <2>3 DEF Sync
<1>4. ASSUME NEW k \in Kme, PopForEnc(k) PROVE DropInv'
  BY <1>1, <1>4 DEF PopForEnc, flight
<1>5. ASSUME NEW k \in Kme, Stream(k) PROVE DropInv'
  <2>1. CASE k = Allocator
    <3>1. ASSUME NEW n \in 1 .. Share, TakeLocalForStream(k, n) PROVE DropInv'
      BY <2>1, <3>1, DropTake
    <3>2. ASSUME NEW n \in 1 .. Share, RequestExtra(k, n) PROVE DropInv'
      BY <1>1, <3>2 DEF RequestExtra, flight, history
    <3> QED
      BY <1>5, <2>1, <3>1, <3>2 DEF Stream
  <2>2. CASE k # Allocator
    <3>1. k = Follower
      BY <2>2, KmeAssumption DEF Follower
    <3>2. ASSUME NEW chunk, StoreChunk(k, chunk) PROVE DropInv'
      BY <1>1, <3>2 DEF StoreChunk, pools, history
    <3>3. ASSUME NEW chunk, DropReplicas(k, chunk) PROVE DropInv'
      BY <3>1, <3>3, DropDrops
    <3> QED
      BY <1>5, <2>2, <3>2, <3>3 DEF Stream
  <2> QED
    BY <2>1, <2>2
<1>6. CASE LosePost
  BY <1>1, <1>6 DEF LosePost, pools, history
<1>7. CASE LoseChunk
  BY <1>1, <1>7 DEF LoseChunk, pools, history
<1>8. ASSUME NEW k \in Kme, Restart(k) PROVE DropInv'
  <2>1. /\ byId' = [byId EXCEPT ![k] = {}] /\ withdrawn' = [withdrawn EXCEPT ![k] = Empty]
        /\ restarts' = restarts + 1 /\ storing' \subseteq storing
        /\ UNCHANGED <<pushed, streamed, dropped>>
    BY <1>8 DEF Restart
  <2>2. /\ \A j \in Kme : byId'[j] \subseteq byId[j]
        /\ \A j \in Kme : withdrawn'[j].elems \subseteq withdrawn[j].elems
    BY <2>1 DEF Empty, TypeInv, TypeOK
  <2>3. restarts' # 0
    BY <2>1, SizeAssumption DEF TypeInv, TypeOK
  <2>4. StreamedIsGone'
    <3>1. \A key \in Key : Home(key) \in Kme
      BY DEF Key, Home
    <3> QED
      BY <2>1, <2>2, <3>1 DEF DropInv, StreamedIsGone
  <2>5. ChunksAreTaken'
    BY <2>1 DEF DropInv, ChunksAreTaken, Taken
  <2>6. MemoryHolds'
    BY <2>1, <2>2, <2>3, FollowerIsOther DEF DropInv, MemoryHolds, Follower
  <2> QED
    BY <2>4, <2>5, <2>6 DEF DropInv
<1>9. CASE UNCHANGED vars
  BY <1>1, <1>9 DEF vars, pools, flight, history
<1> QED
  BY <1>2, <1>3, <1>4, <1>5, <1>6, <1>7, <1>8, <1>9 DEF Next

\* A key of a chunk whose replicas were dropped cannot be resolved at either
\* KME, however late its sync POST, until a restart or an overfull memory.
THEOREM DroppedKeysStayOut == Spec => []DroppedStayOut
<1>1. TypeInv /\ DropInv => DroppedStayOut
  <2> SUFFICES ASSUME TypeInv, DropInv, restarts = 0, Cardinality(dropped) <= Capacity,
                      NEW k \in Kme, NEW key \in dropped
               PROVE  ~Resolves(k, key)
    BY DEF DroppedStayOut
  <2>1. key \in Key
    BY DEF TypeInv, TypeOK
  <2>2. CASE k = Allocator
    BY <2>1, <2>2 DEF DropInv, ChunksAreTaken, StreamedIsGone, Taken, Resolves
  <2>3. CASE k = Follower
    BY <2>3 DEF DropInv, MemoryHolds, Resolves
  <2> QED
    BY <2>2, <2>3, KmeAssumption DEF Follower
<1> QED
  BY <1>1, TypeInit, TypeStep, HandoutInit, HandoutStep, RingInit, RingStep,
     DropInit, DropStep, PTL DEF Spec

-----------------------------------------------------------------------------
(* The peer's ring keeps what this KME may still hand out, when no POST is *)
(* late and no KME restarts.  A KME's keys enter both rings in the order   *)
(* in which they are produced and leave its own ring from the front, so    *)
(* what it may still hand out is the newest of them.  When the peer's ring *)
(* is about to evict one of those, every replica in it is one of those as  *)
(* well, and then the ring is not full, as limits() leaves room for what   *)
(* the two producers aim at.                                               *)

Older(x, y) == Home(x) = Home(y) /\ x[2] < y[2]

InOrder(q) == \A x, y \in q.elems : Older(x, y) => <<x, y>> \in q.before

Follows(x, S) == \A y \in S : Home(y) = Home(x) => Older(y, x)

\* The local keys most a producer aims at.
Aim(k) == Low + (IF k = Allocator THEN Share ELSE 0)

PaceInv ==
  \A k \in Kme :
    /\ Low + extra[k] <= Aim(k) /\ Dispensable(k) <= Aim(k)
    /\ prod[k] = "round" => Dispensable(k) < Aim(k)

\* Every key of k that is newer than a local one is local.
NoGap(k) ==
  \A x \in Locals(k), y \in Key : Older(x, y) /\ ~Fresh(y) => y \in Locals(k)

AgeOf(k) ==
  /\ InOrder(buf[k]) /\ InOrder(queue[k]) /\ NoGap(k)
  /\ \A x \in buf[k].elems \cup queue[k].elems : ~Fresh(x)
  /\ \A x \in replica[k] \cup queue[k].elems : Home(x) = Peer[k]
  /\ \A x \in queue[k].elems : Follows(x, buf[k].elems)

AgeInv == \A k \in Kme : AgeOf(k)

\* What is in the network is the newest key of a producer that waits for it.
PostInv ==
  \A x \in wire :
    /\ prod[Home(x)] = "syncing" /\ ~Fresh(x)
    /\ \A y \in Key : Older(x, y) => Fresh(y)
    /\ Follows(x, buf[Peer[Home(x)]].elems \cup queue[Peer[Home(x)]].elems)

AckInv ==
  /\ \A x \in acked : ~Fresh(x)
  /\ withdrawn[Allocator].elems = {}
  /\ PeerHoldsLive

LineInv == PaceInv /\ AgeInv /\ PostInv /\ AckInv

LEMMA KeyParts ==
  ASSUME NEW x \in Key
  PROVE  /\ Home(x) \in Kme /\ Peer[Home(x)] \in Kme /\ Peer[Home(x)] # Home(x)
         /\ x[2] \in Nat /\ x[2] \in 1 .. MaxKeys /\ x = <<Home(x), x[2]>>
BY KmeAssumption, SizeAssumption DEF Key, Home

LEMMA OlderOrder ==
  ASSUME NEW x \in Key, NEW y \in Key
  PROVE  /\ ~Older(x, x) /\ ~(Older(x, y) /\ Older(y, x))
         /\ Home(x) = Home(y) => x = y \/ Older(x, y) \/ Older(y, x)
         /\ \A z \in Key : Older(x, y) /\ Older(y, z) => Older(x, z)
BY KeyParts DEF Older

LEMMA KeepInOrder == ASSUME NEW q, InOrder(q), NEW T PROVE InOrder(Keep(q, T))
BY DEF InOrder, Keep

LEMMA WithoutInOrder == ASSUME NEW q, InOrder(q), NEW T PROVE InOrder(Without(q, T))
BY KeepInOrder DEF Without

LEMMA AppendInOrder ==
  ASSUME NEW q \in OrderedSetOf(Key), InOrder(q), NEW x \in Key, Follows(x, q.elems)
  PROVE  InOrder(Append1(q, x))
<1> DEFINE one == [elems |-> {x}, before |-> {}]
           new == Without(one, q.elems)
           r == Append1(q, x)
<1>1. q.elems \subseteq Key
  BY DEF OrderedSetOf
<1>2. x \notin q.elems
  BY OlderOrder DEF Follows
<1>3. new.elems = {x}
  BY <1>2 DEF Without, Keep
<1>4. r.elems = q.elems \cup new.elems /\ q.before \cup (q.elems \X new.elems) \subseteq r.before
  BY DEF Append1, Concat
<1> HIDE DEF new, r
<1>5. r.elems = q.elems \cup {x} /\ \A y \in q.elems : <<y, x>> \in r.before
  BY <1>3, <1>4
<1> SUFFICES ASSUME NEW y \in r.elems, NEW z \in r.elems, Older(y, z)
             PROVE  <<y, z>> \in r.before
  BY DEF InOrder, r
<1>6. CASE y \in q.elems /\ z \in q.elems
  BY <1>4, <1>6 DEF InOrder
<1>7. CASE y = x /\ z \in q.elems
  <2>1. Older(z, x)
    BY <1>7 DEF Follows, Older
  <2> QED
    BY <1>1, <1>7, <2>1, OlderOrder
<1>8. CASE y = x /\ z = x
  BY <1>8, OlderOrder
<1> QED
  BY <1>5, <1>6, <1>7, <1>8

\* What is first in an order is no newer than any other key of its KME.
LEMMA FirstIsOldest ==
  ASSUME NEW q \in OrderedSetOf(Key), InOrder(q), NEW x \in Oldest(q, 1), NEW y \in q.elems
  PROVE  ~Older(y, x)
<1> DEFINE before == {z \in q.elems : <<z, x>> \in q.before}
<1>1. x \in q.elems /\ Cardinality(before) < 1
  BY DEF Oldest
<1>2. IsFiniteSet(before)
  <2>1. before \in SUBSET Key
    BY DEF OrderedSetOf
  <2> QED
    BY <2>1, KeyIsFinite, FS_Subset
<1>3. before = {}
  <2>1. Cardinality(before) \in Nat
    BY <1>2, FS_CardinalityType
  <2>2. Cardinality(before) = 0
    BY <1>1, <2>1
  <2> HIDE DEF before
  <2> QED
    BY <1>2, <2>2, FS_EmptySet
<1> QED
  BY <1>1, <1>3 DEF InOrder

\* What is taken from the front is older than what stays.
LEMMA FrontIsOlder ==
  ASSUME NEW q \in OrderedSetOf(Key), InOrder(q), Strict(q), NEW n,
         NEW x \in Oldest(q, n), NEW y \in q.elems \ Oldest(q, n), n \in Nat
  PROVE  ~Older(y, x)
<1> SUFFICES ASSUME Older(y, x) PROVE FALSE
  OBVIOUS
<1> DEFINE before(u) == {z \in q.elems : <<z, u>> \in q.before}
<1>1. x \in q.elems /\ <<y, x>> \in q.before
  BY DEF Oldest, InOrder
<1>2. before(y) \in SUBSET before(x) /\ before(x) \in SUBSET Key
  BY <1>1 DEF Strict, OrderedSetOf
<1>3. IsFiniteSet(before(x)) /\ IsFiniteSet(before(y)) /\ Cardinality(before(y)) <= Cardinality(before(x))
      /\ Cardinality(before(x)) \in Nat /\ Cardinality(before(y)) \in Nat
  <2> HIDE DEF before
  <2>1. IsFiniteSet(before(x))
    BY <1>2, KeyIsFinite, FS_Subset
  <2>2. IsFiniteSet(before(y)) /\ Cardinality(before(y)) <= Cardinality(before(x))
    BY <1>2, <2>1, FS_Subset
  <2> QED
    BY <2>1, <2>2, FS_CardinalityType
<1>4. Cardinality(before(x)) < n /\ ~(Cardinality(before(y)) < n)
  BY DEF Oldest
<1> HIDE DEF before
<1> QED
  BY <1>3, <1>4

LEMMA LocalsAreFew ==
  ASSUME TypeInv, NEW k \in Kme
  PROVE  /\ Locals(k) \in SUBSET Key /\ Locals(k) \subseteq buf[k].elems
         /\ IsFiniteSet(Locals(k)) /\ Dispensable(k) \in Nat
<1>1. Locals(k) \subseteq Key /\ Locals(k) \subseteq buf[k].elems
  BY OldestLocals DEF TypeInv, Locals
<1> QED
  BY <1>1, KeyIsFinite, FS_Subset, FS_CardinalityType DEF Dispensable

LEMMA AimsFit ==
  ASSUME NEW k \in Kme
  PROVE  Aim(k) \in Nat /\ Aim(k) + Aim(Peer[k]) <= Capacity
<1>1. (k = Allocator) # (Peer[k] = Allocator)
  BY KmeAssumption
<1> QED
  BY <1>1, SizeAssumption DEF Aim

\* A full ring about to evict a key its peer may still hand out holds nothing
\* but keys one of the two may hand out.
LEMMA FullOfLive ==
  ASSUME TypeInv, HandoutInv, AgeInv, NEW k \in Kme, NEW j \in Kme, j = Peer[k],
         NEW e \in Evicted(j), e \in Locals(k)
  PROVE  /\ buf[j].elems \subseteq Locals(j) \cup Locals(k)
         /\ Cardinality(buf[j].elems) = Capacity
<1>1. /\ e \in Oldest(buf[j], 1) /\ e \in buf[j].elems /\ Cardinality(buf[j].elems) = Capacity
  BY OldestSubset DEF Evicted
<1>2. /\ buf[j] \in OrderedSetOf(Key) /\ buf[j].elems \subseteq Key
      /\ InOrder(buf[j]) /\ NoGap(k) /\ Home(e) = k /\ k = Peer[j]
  BY KmeAssumption DEF TypeInv, TypeOK, OrderedSetOf, AgeInv, AgeOf, HandoutInv
<1>3. ASSUME NEW y \in buf[j].elems, y \notin Locals(j) PROVE y \in Locals(k)
  <2>1. Home(y) = k /\ ~Fresh(y) /\ y \in Key
    BY <1>2, <1>3 DEF Locals, AgeInv, AgeOf
  <2>2. y = e \/ Older(e, y)
    BY <1>1, <1>2, <2>1, FirstIsOldest, OlderOrder
  <2> QED
    BY <1>2, <2>1, <2>2 DEF NoGap
<1> QED
  BY <1>1, <1>3

LEMMA LiveAreFew ==
  ASSUME TypeInv, NEW k \in Kme, NEW j \in Kme, NEW S, S \subseteq Locals(j) \cup Locals(k)
  PROVE  /\ IsFiniteSet(S) /\ Cardinality(S) \in Nat
         /\ Cardinality(S) <= Dispensable(j) + Dispensable(k)
<1> DEFINE A == Locals(j)
           B == Locals(k)
<1>1. IsFiniteSet(A) /\ IsFiniteSet(B) /\ Dispensable(j) = Cardinality(A) /\ Dispensable(k) = Cardinality(B)
  BY LocalsAreFew DEF Dispensable
<1> HIDE DEF A, B
<1>2. /\ IsFiniteSet(A \cup B) /\ Cardinality(A \cap B) \in Nat
      /\ Cardinality(A \cup B) = Cardinality(A) + Cardinality(B) - Cardinality(A \cap B)
      /\ Cardinality(A) \in Nat /\ Cardinality(B) \in Nat
  <2>1. IsFiniteSet(A \cap B)
    BY <1>1, FS_Intersection
  <2> QED
    BY <1>1, <2>1, FS_Union, FS_CardinalityType
<1>3. S \in SUBSET (A \cup B)
  BY DEF A, B
<1>4. IsFiniteSet(S) /\ Cardinality(S) <= Cardinality(A \cup B) /\ Cardinality(S) \in Nat
  BY <1>2, <1>3, FS_Subset, FS_CardinalityType
<1> QED
  BY <1>1, <1>2, <1>4

\* No ring evicts a key its peer may still hand out to make room for its own
\* next key, or for the peer's.
LEMMA EvictsNoLive ==
  ASSUME TypeInv, HandoutInv, PaceInv, AgeInv, NEW k \in Kme, NEW j \in Kme, j = Peer[k],
         NEW e \in Evicted(j), NEW x \in Key,
         \/ Dispensable(j) < Aim(j)
         \/ x \notin buf[j].elems /\ (e \in Locals(k) => x \in Locals(k))
  PROVE  e \notin Locals(k)
<1> SUFFICES ASSUME e \in Locals(k) PROVE FALSE
  OBVIOUS
<1> DEFINE R == buf[j].elems
<1>1. R \subseteq Locals(j) \cup Locals(k) /\ Cardinality(R) = Capacity /\ IsFiniteSet(R)
  BY FullOfLive, RingIsFinite DEF TypeInv
<1>2. /\ Dispensable(j) \in Nat /\ Dispensable(k) \in Nat /\ Aim(j) \in Nat /\ Aim(k) \in Nat
      /\ Dispensable(j) <= Aim(j) /\ Dispensable(k) <= Aim(k) /\ Aim(k) + Aim(j) <= Capacity
      /\ Capacity \in Nat
  BY LocalsAreFew, AimsFit, SizeAssumption DEF PaceInv
<1>3. CASE Dispensable(j) < Aim(j)
  <2>1. Cardinality(R) <= Dispensable(j) + Dispensable(k)
    BY <1>1, LiveAreFew
  <2> QED
    BY <1>1, <1>2, <1>3, <2>1
<1>4. CASE x \notin R /\ x \in Locals(k)
  <2>1. Cardinality(R \cup {x}) = Capacity + 1
    BY <1>1, <1>4, FS_AddElement
  <2>2. Cardinality(R \cup {x}) <= Dispensable(j) + Dispensable(k)
    BY <1>1, <1>4, LiveAreFew
  <2> QED
    BY <1>2, <2>1, <2>2
<1> QED
  BY <1>3, <1>4

\* Exactly what a ring and its local keys become when it admits a key.
LEMMA AdmitExact ==
  ASSUME TypeInv, NEW k \in Kme, NEW key \in Key, NEW b \in BOOLEAN, Admit(k, key, b),
         key \notin buf[k].elems, key \notin replica[k]
  PROVE  /\ buf'[k] = Append1(Without(buf[k], Evicted(k)), key)
         /\ buf'[k].elems = (buf[k].elems \ Evicted(k)) \cup {key}
         /\ Locals(k)' = (Locals(k) \ Evicted(k)) \cup (IF b THEN {} ELSE {key})
         /\ replica'[k] \subseteq replica[k] \cup (IF b THEN {key} ELSE {})
         /\ byId'[k] = (byId[k] \ Evicted(k)) \cup {key}
         /\ \A j \in Kme \ {k} : /\ buf'[j] = buf[j] /\ replica'[j] = replica[j]
                                 /\ Locals(j)' = Locals(j) /\ byId'[j] = byId[j]
<1> DEFINE new == Append1(Without(buf[k], Evicted(k)), key)
<1>1. new.elems = (buf[k].elems \ Evicted(k)) \cup {key}
  BY WithoutType, Append1Type DEF TypeInv, TypeOK
<1>2. /\ buf' = [buf EXCEPT ![k] = new]
      /\ replica' = [replica EXCEPT ![k] = (replica[k] \ Evicted(k)) \cup (IF b THEN {key} ELSE {})]
      /\ byId' = [byId EXCEPT ![k] = (byId[k] \ Evicted(k)) \cup {key}]
  BY DEF Admit
<1> HIDE DEF new
<1>3. /\ buf'[k] = new /\ \A j \in Kme \ {k} : buf'[j] = buf[j]
      /\ replica'[k] = (replica[k] \ Evicted(k)) \cup (IF b THEN {key} ELSE {})
      /\ byId'[k] = (byId[k] \ Evicted(k)) \cup {key}
      /\ \A j \in Kme \ {k} : replica'[j] = replica[j] /\ byId'[j] = byId[j]
  BY <1>2 DEF TypeInv, TypeOK
<1>4. Locals(k)' = (Locals(k) \ Evicted(k)) \cup (IF b THEN {} ELSE {key})
  BY <1>1, <1>3 DEF Locals
<1> QED
  BY <1>1, <1>3, <1>4 DEF Locals, new

\* Steps that make no key local, newer or better hidden.
LEMMA PaceFrame ==
  ASSUME TypeInv, TypeInv', PaceInv,
         \A k \in Kme : /\ Locals(k)' \subseteq Locals(k) /\ Low + extra'[k] <= Aim(k)
                        /\ prod'[k] = "round" => prod[k] = "round" \/ Dispensable(k) < Aim(k)
  PROVE  PaceInv'
<1> SUFFICES ASSUME NEW k \in Kme
             PROVE  /\ Low + extra'[k] <= Aim(k) /\ Dispensable(k)' <= Aim(k)
                    /\ prod'[k] = "round" => Dispensable(k)' < Aim(k)
  BY DEF PaceInv, Aim
<1>1. IsFiniteSet(Locals(k)) /\ Dispensable(k) \in Nat /\ Aim(k) \in Nat
  BY LocalsAreFew, AimsFit
<1>2. Dispensable(k)' = Cardinality(Locals(k)')
  BY DEF Dispensable
<1>3. IsFiniteSet(Locals(k)') /\ Cardinality(Locals(k)') <= Cardinality(Locals(k))
  BY <1>1, FS_Subset
<1>4. Dispensable(k)' \in Nat /\ Dispensable(k)' <= Dispensable(k)
  BY <1>2, <1>3, FS_CardinalityType DEF Dispensable
<1> QED
  BY <1>1, <1>4 DEF PaceInv

LEMMA AgeFrame == ASSUME AgeInv, UNCHANGED <<buf, queue, replica, emitted>> PROVE AgeInv'
BY DEF AgeInv, AgeOf, InOrder, NoGap, Locals, Fresh, Follows

\* A ring loses keys from the front of the local ones.
LEMMA AgeRemoves ==
  ASSUME TypeInv, AgeInv, NEW k \in Kme, NEW gone, UNCHANGED <<queue, emitted>>,
         buf' = [buf EXCEPT ![k] = Without(buf[k], gone)],
         \A j \in Kme : replica'[j] \subseteq replica[j],
         \A j \in Kme : Locals(j)' = Locals(j) \ (IF j = k THEN gone ELSE {}),
         \A x \in Locals(k) \cap gone, y \in Locals(k) \ gone : ~Older(y, x)
  PROVE  AgeInv'
<1> SUFFICES ASSUME NEW j \in Kme PROVE AgeOf(j)'
  BY DEF AgeInv
<1>1. AgeOf(j)
  BY DEF AgeInv
<1>2. buf'[j].elems \subseteq buf[j].elems /\ InOrder(buf'[j])
  <2>1. /\ Without(buf[k], gone).elems \subseteq buf[k].elems /\ InOrder(Without(buf[k], gone))
        /\ buf'[k] = Without(buf[k], gone) /\ j # k => buf'[j] = buf[j]
    BY WithoutType, WithoutInOrder DEF AgeInv, AgeOf, TypeInv, TypeOK
  <2> QED
    BY <1>1, <2>1 DEF AgeOf
<1>3. NoGap(j)'
  <2> SUFFICES ASSUME NEW x \in Locals(j)', NEW y \in Key, Older(x, y), ~Fresh(y)'
               PROVE  y \in Locals(j)'
    BY DEF NoGap
  <2>1. x \in Locals(j) /\ y \in Locals(j)
    BY <1>1 DEF AgeOf, NoGap, Fresh
  <2> QED
    BY <2>1
<1> QED
  BY <1>1, <1>2, <1>3 DEF AgeOf, InOrder, Fresh, Follows

LEMMA PostFrame ==
  ASSUME TypeInv, PostInv, wire' \subseteq wire, UNCHANGED emitted,
         \A x \in wire' : prod'[Home(x)] = "syncing",
         \A j \in Kme : /\ buf'[j].elems \subseteq buf[j].elems
                        /\ queue'[j].elems \subseteq queue[j].elems
  PROVE  PostInv'
<1>1. \A x \in wire : Peer[Home(x)] \in Kme
  BY KeyParts DEF TypeInv, TypeOK
<1> QED
  BY <1>1 DEF PostInv, Fresh, Follows

LEMMA AckFrame ==
  ASSUME TypeInv, AckInv, UNCHANGED <<acked, emitted>>,
         withdrawn'[Allocator] = withdrawn[Allocator],
         \A k \in Kme : Locals(k)' \subseteq Locals(k),
         \A k \in Kme : \A x \in Locals(Peer[k]) : x \in byId[k] => x \in byId'[k]
  PROVE  AckInv'
<1>1. \A k \in Kme : Peer[k] \in Kme /\ Peer[Peer[k]] = k
  BY KmeAssumption
<1> QED
  BY <1>1 DEF AckInv, PeerHoldsLive, Resolves, Fresh

\* A ring loses the oldest of its local keys, and no key of the peer's.
LEMMA FrontLeaves ==
  ASSUME TypeInv, TypeInv', HandoutInv, RingInv, LineInv, NEW k \in Kme, NEW n \in Nat,
         NEW gone, gone = Oldest(Keep(buf[k], Locals(k)), n),
         buf' = [buf EXCEPT ![k] = Without(buf[k], gone)],
         \A j \in Kme : Low + extra'[j] <= Aim(j),
         byId' = byId \/ byId' = [byId EXCEPT ![k] = byId[k] \ gone],
         UNCHANGED <<replica, withdrawn, prod, wire, queue, emitted, acked>>
  PROVE  LineInv'
<1> DEFINE q == Keep(buf[k], Locals(k))
<1>1. gone \subseteq Locals(k) /\ gone \subseteq Key
  BY OldestLocals DEF TypeInv
<1>2. /\ q \in OrderedSetOf(Key) /\ q.elems = Locals(k) /\ InOrder(q) /\ Strict(q)
      /\ Without(buf[k], gone).elems = buf[k].elems \ gone
  <2> DEFINE r == buf[k]
             L == Locals(k)
  <2>1. r \in OrderedSetOf(Key) /\ InOrder(r) /\ Strict(r)
    BY DEF TypeInv, TypeOK, LineInv, AgeInv, AgeOf, RingInv, OrderInv
  <2>2. L \subseteq r.elems
    BY LocalsAreFew
  <2> HIDE DEF r, L
  <2>3. /\ Keep(r, L) \in OrderedSetOf(Key) /\ Keep(r, L).elems = r.elems \cap L
        /\ InOrder(Keep(r, L)) /\ Strict(Keep(r, L))
        /\ Without(r, gone).elems = r.elems \ gone
    BY <2>1, KeepType, WithoutType, KeepInOrder, KeepStrict
  <2> QED
    BY <2>2, <2>3 DEF r, L
<1>3. \A x \in Locals(k) \cap gone, y \in Locals(k) \ gone : ~Older(y, x)
  <2> HIDE DEF q
  <2>1. gone = Oldest(q, n)
    BY DEF q
  <2> QED
    BY <1>2, <2>1, FrontIsOlder
<1>4. \A j \in Kme : /\ Locals(j)' = Locals(j) \ (IF j = k THEN gone ELSE {})
                     /\ buf'[j].elems \subseteq buf[j].elems
  BY <1>2 DEF Locals, TypeInv, TypeOK
<1>5. PaceInv'
  BY <1>4, PaceFrame DEF LineInv
<1>6. AgeInv'
  BY <1>3, <1>4, AgeRemoves DEF LineInv
<1>7. PostInv'
  BY <1>4, PostFrame DEF LineInv, PostInv
<1>8. \A j \in Kme : \A x \in Locals(Peer[j]) : x \in byId[j] => x \in byId'[j]
  <2> SUFFICES ASSUME NEW j \in Kme, NEW x \in Locals(Peer[j]), x \in byId[j]
               PROVE  x \in byId'[j]
    OBVIOUS
  <2>1. x \notin Locals(j)
    BY KmeAssumption DEF HandoutInv
  <2> QED
    BY <1>1, <2>1 DEF TypeInv, TypeOK
<1>9. AckInv'
  BY <1>4, <1>8, AckFrame DEF LineInv
<1> QED
  BY <1>5, <1>6, <1>7, <1>9 DEF LineInv

\* A round: the new key is the newest, in the ring and in the network.
LEMMA LineRound ==
  ASSUME TypeInv, TypeInv', HandoutInv, LineInv, NEW k \in Kme, RoundAccepted(k)
  PROVE  LineInv'
<1> DEFINE j == Peer[k]
           gone == Evicted(k)
<1>1. /\ j \in Kme /\ j # k /\ Peer[j] = k /\ \A m \in Kme : m = k \/ m = j
  BY KmeAssumption
<1>2. /\ emitted[k] \in Nat /\ emitted[k] + 1 \in 1 .. MaxKeys
      /\ emitted' = [emitted EXCEPT ![k] = emitted[k] + 1]
      /\ prod[k] = "round" /\ prod' = [prod EXCEPT ![k] = "syncing"] /\ queue[k] = Empty
      /\ UNCHANGED <<withdrawn, extra, queue, acked>>
  BY SizeAssumption DEF TypeInv, TypeOK, RoundAccepted
<1>3. PICK new \in Key : new = <<k, emitted[k] + 1>>
  BY <1>2 DEF Key
<1>4. Admit(k, new, FALSE) /\ wire' = wire \cup {new}
  BY <1>3 DEF RoundAccepted
<1>5. Home(new) = k /\ Fresh(new) /\ \A y \in Key : Home(y) = k /\ ~Fresh(y) => Older(y, new)
  BY <1>2, <1>3, KeyParts DEF Fresh, Home, Older
<1>6. \A y \in Key : Fresh(y)' <=> Fresh(y) /\ y # new
  <2> SUFFICES ASSUME NEW y \in Key PROVE Fresh(y)' <=> Fresh(y) /\ y # new
    OBVIOUS
  <2>1. Home(y) \in Kme /\ y[2] \in Nat /\ y = <<Home(y), y[2]>>
    BY KeyParts
  <2>2. CASE Home(y) = k
    BY <1>2, <1>3, <2>1, <2>2 DEF Fresh, TypeInv, TypeOK
  <2>3. CASE Home(y) # k
    BY <1>2, <1>5, <2>1, <2>3 DEF Fresh, TypeInv, TypeOK
  <2> QED
    BY <2>2, <2>3
<1>7. \A m \in Kme : AgeOf(m) /\ buf[m].elems \subseteq Key /\ queue[m].elems \subseteq Key
                     /\ buf[m] \in OrderedSetOf(Key) /\ replica[m] \subseteq Key
  BY DEF LineInv, AgeInv, TypeInv, TypeOK, OrderedSetOf
<1>8. /\ \A m \in Kme : new \notin buf[m].elems \cup queue[m].elems /\ new \notin acked
      /\ new \notin replica[k]
  BY <1>1, <1>5, <1>7 DEF AgeOf, LineInv, AckInv
<1>9. /\ buf'[k] = Append1(Without(buf[k], gone), new)
      /\ buf'[k].elems = (buf[k].elems \ gone) \cup {new}
      /\ Locals(k)' = (Locals(k) \ gone) \cup {new}
      /\ replica'[k] \subseteq replica[k] /\ byId'[k] = (byId[k] \ gone) \cup {new}
      /\ buf'[j] = buf[j] /\ replica'[j] = replica[j] /\ Locals(j)' = Locals(j) /\ byId'[j] = byId[j]
  BY <1>1, <1>4, <1>8, AdmitExact
<1>10. \A m \in Kme : Locals(m) \subseteq buf[m].elems /\ \A x \in Locals(m) : Home(x) = m
  BY LocalsAreFew DEF HandoutInv
<1>11. PaceInv'
  <2>1. /\ Dispensable(k) < Aim(k) /\ Aim(k) \in Nat /\ Dispensable(k) \in Nat
        /\ IsFiniteSet(Locals(k))
    BY <1>2, LocalsAreFew, AimsFit DEF LineInv, PaceInv
  <2>2. /\ IsFiniteSet(Locals(k) \cup {new}) /\ Cardinality(Locals(k) \cup {new}) = Dispensable(k) + 1
    <3>1. new \notin Locals(k)
      BY <1>8, <1>10
    <3> QED
      BY <2>1, <3>1, FS_AddElement DEF Dispensable
  <2>3. Locals(k)' \subseteq Locals(k) \cup {new} /\ Dispensable(k)' = Cardinality(Locals(k)')
    BY <1>9 DEF Dispensable
  <2>4. Dispensable(k)' <= Dispensable(k) + 1 /\ Dispensable(k)' \in Nat
    BY <2>2, <2>3, FS_Subset, FS_CardinalityType
  <2>5. Dispensable(j)' = Dispensable(j)
    BY <1>9 DEF Dispensable
  <2>6. prod'[k] = "syncing" /\ prod'[j] = prod[j] /\ extra' = extra
    BY <1>1, <1>2 DEF TypeInv, TypeOK
  <2>7. Dispensable(k)' <= Aim(k)
    BY <2>1, <2>4
  <2>8. \A m \in Kme : Aim(m)' = Aim(m)
    BY DEF Aim
  <2> QED
    BY <1>1, <2>5, <2>6, <2>7, <2>8 DEF LineInv, PaceInv
<1> HIDE DEF j, gone
<1>12. AgeOf(k)'
  <2>1. InOrder(buf'[k])
    <3> DEFINE w == Without(buf[k], gone)
    <3>1. w \in OrderedSetOf(Key) /\ w.elems = buf[k].elems \ gone /\ InOrder(w)
      BY <1>7, WithoutType, WithoutInOrder DEF AgeOf
    <3> HIDE DEF w
    <3>2. Follows(new, w.elems)
      BY <1>5, <1>7, <3>1 DEF Follows, AgeOf
    <3>3. InOrder(Append1(w, new))
      BY <3>1, <3>2, AppendInOrder
    <3>4. buf'[k] = Append1(w, new)
      BY <1>9 DEF w
    <3> QED
      BY ONLY <3>3, <3>4
  <2>2. NoGap(k)'
    <3> SUFFICES ASSUME NEW x \in Locals(k)', NEW y \in Key, Older(x, y), ~Fresh(y)', y # new
                 PROVE  y \in Locals(k)'
      BY <1>9 DEF NoGap
    <3>1. ~Fresh(y)
      BY <1>6
    <3>2. x # new
      BY <1>5, <3>1, OlderOrder DEF Older
    <3>3. x \in Locals(k) /\ x \in buf[k].elems
      BY <1>9, <1>10, <3>2
    <3>4. y \in Locals(k)
      BY <1>7, <3>1, <3>3 DEF AgeOf, NoGap
    <3>5. y \notin gone
      BY <1>7, <3>3, FirstIsOldest DEF AgeOf, Evicted, gone
    <3> QED
      BY <1>9, <3>4, <3>5
  <2>3. \A x \in buf'[k].elems \cup queue'[k].elems : ~Fresh(x)'
    BY <1>2, <1>3, <1>6, <1>7, <1>9 DEF AgeOf
  <2>4. \A x \in replica'[k] \cup queue'[k].elems : Home(x) = Peer[k]
    BY <1>2, <1>7, <1>9 DEF AgeOf
  <2>5. queue'[k].elems = {} /\ InOrder(queue'[k])
    BY <1>2 DEF Empty, InOrder
  <2> QED
    BY <2>1, <2>2, <2>3, <2>4, <2>5 DEF AgeOf
<1>13. AgeOf(j)'
  <2>1. NoGap(j)'
    <3> SUFFICES ASSUME NEW x \in Locals(j), NEW y \in Key, Older(x, y), ~Fresh(y)'
                 PROVE  y \in Locals(j)
      BY <1>9 DEF NoGap
    <3>1. ~Fresh(y)
      BY <1>1, <1>5, <1>6, <1>10 DEF Older
    <3> QED
      BY <1>1, <1>7, <3>1 DEF AgeOf, NoGap
  <2>2. \A x \in buf'[j].elems \cup queue'[j].elems : ~Fresh(x)'
    BY <1>1, <1>2, <1>6, <1>7, <1>9 DEF AgeOf
  <2> QED
    BY <1>1, <1>2, <1>7, <1>9, <2>1, <2>2 DEF AgeOf
<1>14. PostInv'
  <2> SUFFICES ASSUME NEW x \in wire'
               PROVE  /\ prod'[Home(x)] = "syncing" /\ ~Fresh(x)'
                      /\ \A y \in Key : Older(x, y) => Fresh(y)'
                      /\ Follows(x, buf'[Peer[Home(x)]].elems \cup queue'[Peer[Home(x)]].elems)
    BY DEF PostInv
  <2>1. CASE x = new
    <3>1. prod'[Home(x)] = "syncing" /\ ~Fresh(x)' /\ Peer[Home(x)] = j
      BY <1>2, <1>5, <1>6, <2>1 DEF TypeInv, TypeOK, j
    <3>2. \A y \in Key : Older(x, y) => Fresh(y)'
      BY <1>5, <1>6, <2>1, OlderOrder DEF Older
    <3>3. Follows(x, buf'[j].elems \cup queue'[j].elems)
      BY <1>1, <1>2, <1>5, <1>7, <1>9, <2>1 DEF AgeOf, Follows
    <3> QED
      BY <3>1, <3>2, <3>3
  <2>2. CASE x \in wire
    <3>1. /\ x \in Key /\ prod[Home(x)] = "syncing" /\ ~Fresh(x)
          /\ \A y \in Key : Older(x, y) => Fresh(y)
          /\ Follows(x, buf[Peer[Home(x)]].elems \cup queue[Peer[Home(x)]].elems)
      BY <2>2 DEF LineInv, PostInv, TypeInv, TypeOK
    <3>2. Home(x) = j /\ Peer[Home(x)] = k
      BY <1>1, <1>2, <3>1, KeyParts
    <3>3. prod'[j] = prod[j] /\ ~Fresh(x)' /\ \A y \in Key : Older(x, y) => Fresh(y)'
      BY <1>1, <1>2, <1>5, <1>6, <3>1, <3>2 DEF TypeInv, TypeOK, Older
    <3>4. Follows(x, buf'[k].elems \cup queue'[k].elems)
      BY <1>1, <1>2, <1>5, <1>9, <3>1, <3>2 DEF Follows
    <3> QED
      BY <3>1, <3>2, <3>3, <3>4
  <2> QED
    BY <1>4, <2>1, <2>2
<1>15. AckInv'
  <2>1. \A x \in acked : ~Fresh(x)'
    BY <1>6 DEF LineInv, AckInv, TypeInv, TypeOK
  <2>2. ASSUME NEW x \in Locals(k)' \cap acked PROVE x \in byId'[j]
    BY <1>1, <1>8, <1>9, <2>2 DEF LineInv, AckInv, PeerHoldsLive, Resolves, j
  <2>3. ASSUME NEW x \in Locals(j)' \cap acked PROVE x \in byId'[k]
    <3>1. x \in Locals(j) /\ x \in byId[k]
      BY <1>1, <1>9, <2>3 DEF LineInv, AckInv, PeerHoldsLive, Resolves
    <3>2. Dispensable(k) < Aim(k)
      BY <1>2 DEF LineInv, PaceInv
    <3>3. x \notin gone
      BY <1>1, <3>1, <3>2, EvictsNoLive DEF LineInv, gone
    <3> QED
      BY <1>9, <3>1, <3>3
  <2>4. PeerHoldsLive'
    <3> SUFFICES ASSUME NEW m \in Kme, NEW x \in Locals(m)' \cap acked' PROVE x \in byId'[Peer[m]]
      BY DEF PeerHoldsLive, Resolves
    <3>1. CASE m = k
      BY <1>2, <2>2, <3>1 DEF j
    <3>2. CASE m = j
      BY <1>1, <1>2, <2>3, <3>2
    <3> QED
      BY <1>1, <3>1, <3>2
  <2> QED
    BY <1>2, <2>1, <2>4 DEF LineInv, AckInv
<1> QED
  BY <1>1, <1>11, <1>12, <1>13, <1>14, <1>15 DEF LineInv, AgeInv

\* A POST waits for the lock: behind the older keys of its producer.
LEMMA LineQueued ==
  ASSUME TypeInv, TypeInv', HandoutInv, LineInv, NEW key \in Key, NEW k \in Kme,
         k = Peer[Home(key)], SyncQueued(k, key)
  PROVE  LineInv'
<1>1. /\ key \in wire /\ wire' = wire \ {key}
      /\ queue' = [queue EXCEPT ![k] = Append1(queue[k], key)]
      /\ UNCHANGED <<buf, byId, replica, withdrawn, extra, prod, acked, emitted>>
  BY DEF SyncQueued, pools, history
<1>2. /\ \A j \in Kme : Locals(j)' = Locals(j) /\ Dispensable(j)' = Dispensable(j)
      /\ \A x : Fresh(x)' = Fresh(x)
  BY <1>1 DEF Locals, Dispensable, Fresh
<1>3. /\ Follows(key, buf[k].elems \cup queue[k].elems) /\ ~Fresh(key)
      /\ \A y \in Key : Older(key, y) => Fresh(y)
  BY <1>1 DEF LineInv, PostInv
<1>4. /\ queue[k] \in OrderedSetOf(Key) /\ InOrder(queue[k]) /\ Home(key) = Peer[k] /\ AgeOf(k)
  BY KmeAssumption, KeyParts DEF TypeInv, TypeOK, LineInv, AgeInv, AgeOf
<1>5. /\ queue'[k].elems = queue[k].elems \cup {key} /\ InOrder(queue'[k])
      /\ \A j \in Kme \ {k} : queue'[j] = queue[j]
  <2>1. Follows(key, queue[k].elems)
    BY <1>3 DEF Follows
  <2>2. Append1(queue[k], key).elems = queue[k].elems \cup {key} /\ InOrder(Append1(queue[k], key))
    BY <1>4, <2>1, Append1Type, AppendInOrder
  <2> QED
    BY <1>1, <2>2 DEF TypeInv, TypeOK
<1>6. PaceInv'
  BY <1>1, <1>2, PaceFrame DEF LineInv, PaceInv
<1>7. AgeInv'
  <2>1. ASSUME NEW j \in Kme, j # k PROVE AgeOf(j)'
    BY <1>1, <1>2, <1>5, <2>1 DEF LineInv, AgeInv, AgeOf, NoGap, InOrder
  <2>2. AgeOf(k)'
    <3>1. \A x \in queue'[k].elems : Follows(x, buf'[k].elems) /\ ~Fresh(x)' /\ Home(x) = Peer[k]
      <4> SUFFICES ASSUME NEW x \in queue'[k].elems
                   PROVE  Follows(x, buf[k].elems) /\ ~Fresh(x) /\ Home(x) = Peer[k]
        BY <1>1, <1>2
      <4>1. CASE x = key
        BY <1>3, <1>4, <4>1 DEF Follows
      <4>2. CASE x \in queue[k].elems
        BY <1>4, <4>2 DEF AgeOf
      <4> QED
        BY <1>5, <4>1, <4>2
    <3>2. NoGap(k)' /\ InOrder(buf'[k])
      BY <1>1, <1>2, <1>4 DEF AgeOf, NoGap
    <3>3. (\A x \in buf'[k].elems : ~Fresh(x)') /\ \A x \in replica'[k] : Home(x) = Peer[k]
      BY <1>1, <1>2, <1>4 DEF AgeOf
    <3> QED
      BY <1>5, <3>1, <3>2, <3>3 DEF AgeOf
  <2> QED
    BY <2>1, <2>2 DEF AgeInv
<1>8. PostInv'
  <2> SUFFICES ASSUME NEW x \in wire, x # key
               PROVE  Follows(x, buf[Peer[Home(x)]].elems \cup queue'[Peer[Home(x)]].elems)
    BY <1>1, <1>2 DEF LineInv, PostInv
  <2>1. /\ x \in Key /\ Peer[Home(x)] \in Kme /\ ~Fresh(x)
        /\ Follows(x, buf[Peer[Home(x)]].elems \cup queue[Peer[Home(x)]].elems)
        /\ \A y \in Key : Older(x, y) => Fresh(y)
    BY KeyParts DEF LineInv, PostInv, TypeInv, TypeOK
  <2>2. Home(x) # Home(key)
    BY <1>3, <2>1, OlderOrder
  <2> QED
    BY <1>5, <2>1, <2>2 DEF Follows
<1>9. AckInv'
  BY <1>1, <1>2 DEF LineInv, AckInv, PeerHoldsLive, Resolves
<1> QED
  BY <1>6, <1>7, <1>8, <1>9 DEF LineInv

\* receive_synced: what it admits is newer than what the ring holds, and it
\* only knows keys it has or that are used.
LEMMA LineReceived ==
  ASSUME TypeInv, TypeInv', HandoutInv, RingInv, DropInv, LineInv, NEW key \in Key,
         NEW k \in Kme, k = Peer[Home(key)], ReceiveSynced(k, key)
  PROVE  LineInv'
<1> DEFINE h == Home(key)
           gone == Evicted(k)
<1>1. /\ key \in wire \/ key \in Oldest(queue[k], 1)
      /\ queue[k] = Empty => key \in wire
      /\ queue[k] # Empty => key \in Oldest(queue[k], 1)
      /\ wire' = wire \ {key} /\ acked' = acked \cup {key}
      /\ queue' = [queue EXCEPT ![k] = Without(queue[k], {key})]
      /\ UNCHANGED <<withdrawn, extra, prod, emitted>>
  BY DEF ReceiveSynced
<1>2. /\ h \in Kme /\ h # k /\ k = Peer[h] /\ h = Peer[k] /\ \A m \in Kme : m = k \/ m = h
  BY KmeAssumption, KeyParts
<1>3. /\ \A m \in Kme : AgeOf(m) /\ buf[m].elems \subseteq Key /\ queue[m].elems \subseteq Key
                     /\ queue[m] \in OrderedSetOf(Key) /\ buf[m] \in OrderedSetOf(Key)
      /\ wire \subseteq Key
  BY DEF LineInv, AgeInv, TypeInv, TypeOK, OrderedSetOf
<1>4. /\ queue'[k].elems = queue[k].elems \ {key} /\ InOrder(queue'[k])
      /\ \A j \in Kme \ {k} : queue'[j] = queue[j]
  <2>1. /\ Without(queue[k], {key}).elems = queue[k].elems \ {key}
        /\ InOrder(Without(queue[k], {key}))
    BY <1>3, WithoutType, WithoutInOrder DEF AgeOf
  <2> QED
    BY <1>1, <2>1 DEF TypeInv, TypeOK
<1>5. /\ Follows(key, buf[k].elems) /\ ~Fresh(key)
      /\ \A x \in queue'[k].elems : Older(key, x)
      /\ \A x \in wire' : Home(x) = h => Older(key, x)
  <2>1. CASE queue[k] = Empty
    <3>1. key \in wire /\ queue[k].elems = {}
      BY <1>1, <2>1 DEF Empty
    <3>2. /\ Follows(key, buf[k].elems) /\ ~Fresh(key)
          /\ \A y \in Key : Older(key, y) => Fresh(y)
      BY <3>1 DEF LineInv, PostInv, Follows
    <3>3. ASSUME NEW x \in wire, Home(x) = h PROVE x = key
      <4>1. x \in Key /\ ~Fresh(x) /\ \A y \in Key : Older(x, y) => Fresh(y)
        BY <1>3 DEF LineInv, PostInv
      <4> QED
        BY <3>2, <3>3, <4>1, OlderOrder
    <3> QED
      BY <1>1, <1>4, <3>1, <3>2, <3>3
  <2>2. CASE queue[k] # Empty
    <3>1. key \in Oldest(queue[k], 1) /\ key \in queue[k].elems
      BY <1>1, <2>2, OldestSubset
    <3>2. Follows(key, buf[k].elems) /\ ~Fresh(key)
      BY <1>3, <3>1 DEF AgeOf
    <3>3. ASSUME NEW x \in queue'[k].elems PROVE Older(key, x)
      <4>1. x \in queue[k].elems /\ x # key /\ Home(x) = h /\ x \in Key
        BY <1>2, <1>3, <1>4, <3>3 DEF AgeOf
      <4>2. ~Older(x, key)
        BY <1>3, <3>1, <4>1, FirstIsOldest DEF AgeOf
      <4> QED
        BY <4>1, <4>2, OlderOrder
    <3>4. ASSUME NEW x \in wire', Home(x) = h PROVE Older(key, x)
      <4>1. x \in wire /\ Follows(x, queue[k].elems)
        BY <1>1, <1>2, <3>4 DEF LineInv, PostInv, Follows
      <4> QED
        BY <3>1, <3>4, <4>1 DEF Follows
    <3> QED
      BY <3>2, <3>3, <3>4
  <2> QED
    BY <2>1, <2>2
<1>6. \A x : Fresh(x)' = Fresh(x)
  BY <1>1 DEF Fresh
<1>7. \A m \in Kme : Locals(m) \subseteq buf[m].elems /\ \A x \in Locals(m) : Home(x) = m /\ Uses(x) = 0
  BY LocalsAreFew DEF HandoutInv
<1>8. CASE UNCHANGED <<buf, byId, replica>> /\ Known(k, key)
  <2>1. \A m \in Kme : Locals(m)' = Locals(m)
    BY <1>8 DEF Locals
  <2>2. PaceInv'
    BY <1>1, <2>1, PaceFrame DEF LineInv, PaceInv
  <2>3. AgeInv'
    <3> SUFFICES ASSUME NEW m \in Kme PROVE AgeOf(m)'
      BY DEF AgeInv
    <3>1. queue'[m].elems \subseteq queue[m].elems /\ InOrder(queue'[m])
      BY <1>3, <1>4 DEF AgeOf
    <3>2. AgeOf(m)
      BY <1>3
    <3>3. NoGap(m)' /\ InOrder(buf'[m])
      BY <1>6, <1>8, <2>1, <3>2 DEF AgeOf, NoGap
    <3> QED
      BY <1>6, <1>8, <3>1, <3>2, <3>3 DEF AgeOf
  <2>4. PostInv'
    <3>1. \A m \in Kme : queue'[m].elems \subseteq queue[m].elems /\ buf'[m].elems \subseteq buf[m].elems
      BY <1>4, <1>8
    <3> QED
      BY <1>1, <3>1, PostFrame DEF LineInv, PostInv
  <2>5. key \in Locals(h) => key \in byId[k]
    <3> SUFFICES ASSUME key \in Locals(h), key \in withdrawn[k].elems PROVE FALSE
      BY <1>8 DEF Known
    <3>1. k = Follower
      BY KmeAssumption DEF LineInv, AckInv, Follower
    <3>2. streamed[key] > 0
      BY <3>1 DEF DropInv, MemoryHolds, ChunksAreTaken, Taken
    <3> QED
      BY <1>2, <1>7, <3>2 DEF Uses, TypeInv, TypeOK
  <2>6. AckInv'
    <3>1. \A x \in acked' : ~Fresh(x)'
      BY <1>1, <1>5, <1>6 DEF LineInv, AckInv
    <3>2. PeerHoldsLive'
      <4> SUFFICES ASSUME NEW m \in Kme, NEW x \in Locals(m), x \in acked \cup {key}
                   PROVE  x \in byId[Peer[m]]
        BY <1>1, <1>8, <2>1 DEF PeerHoldsLive, Resolves
      <4>1. CASE x = key
        BY <1>2, <1>7, <2>5, <4>1
      <4>2. CASE x \in acked
        BY <4>2 DEF LineInv, AckInv, PeerHoldsLive, Resolves
      <4> QED
        BY <4>1, <4>2
    <3> QED
      BY <1>1, <3>1, <3>2 DEF LineInv, AckInv
  <2> QED
    BY <2>2, <2>3, <2>4, <2>6 DEF LineInv
<1>9. CASE ~Known(k, key) /\ Admit(k, key, TRUE)
  <2>1. key \notin buf[k].elems /\ key \notin replica[k]
    BY <1>9 DEF Known, RingInv, RingIndexed
  <2>2. /\ buf'[k] = Append1(Without(buf[k], gone), key)
        /\ buf'[k].elems = (buf[k].elems \ gone) \cup {key}
        /\ Locals(k)' = Locals(k) \ gone
        /\ replica'[k] \subseteq replica[k] \cup {key}
        /\ byId'[k] = (byId[k] \ gone) \cup {key}
        /\ buf'[h] = buf[h] /\ replica'[h] = replica[h] /\ Locals(h)' = Locals(h)
        /\ byId'[h] = byId[h]
    BY <1>2, <1>9, <2>1, AdmitExact
  <2> HIDE DEF h, gone
  <2>3. PaceInv'
    <3>1. \A m \in Kme : Locals(m)' \subseteq Locals(m)
      BY <1>2, <2>2
    <3> QED
      BY <1>1, <3>1, PaceFrame DEF LineInv, PaceInv
  <2>4. AgeOf(h)'
    <3>1. AgeOf(h) /\ queue'[h] = queue[h]
      BY <1>2, <1>3, <1>4
    <3>2. NoGap(h)'
      BY <1>6, <2>2, <3>1 DEF AgeOf, NoGap
    <3> QED
      BY <1>6, <2>2, <3>1, <3>2 DEF AgeOf
  <2>5. AgeOf(k)'
    <3>1. InOrder(buf'[k])
      <4> DEFINE w == Without(buf[k], gone)
      <4>1. w \in OrderedSetOf(Key) /\ w.elems = buf[k].elems \ gone /\ InOrder(w)
        BY <1>3, WithoutType, WithoutInOrder DEF AgeOf
      <4> HIDE DEF w
      <4>2. Follows(key, w.elems)
        BY <1>5, <4>1 DEF Follows
      <4>3. InOrder(Append1(w, key))
        BY <4>1, <4>2, AppendInOrder
      <4>4. buf'[k] = Append1(w, key)
        BY <2>2 DEF w
      <4> QED
        BY ONLY <4>3, <4>4
    <3>2. NoGap(k)'
      <4> SUFFICES ASSUME NEW x \in Locals(k) \ gone, NEW y \in Key, Older(x, y), ~Fresh(y)
                   PROVE  y \in Locals(k) \ gone
        BY <1>6, <2>2 DEF NoGap
      <4>1. y \in Locals(k) /\ x \in buf[k].elems
        BY <1>3, <1>7 DEF AgeOf, NoGap
      <4>2. y \notin gone
        BY <1>3, <4>1, FirstIsOldest DEF AgeOf, Evicted, gone
      <4> QED
        BY <4>1, <4>2
    <3>3. \A x \in buf'[k].elems \cup queue'[k].elems : ~Fresh(x)'
      BY <1>3, <1>4, <1>5, <1>6, <2>2 DEF AgeOf
    <3>4. \A x \in replica'[k] \cup queue'[k].elems : Home(x) = Peer[k]
      BY <1>2, <1>3, <1>4, <2>2 DEF AgeOf, h
    <3>5. \A x \in queue'[k].elems : Follows(x, buf'[k].elems)
      BY <1>3, <1>4, <1>5, <2>2 DEF AgeOf, Follows
    <3> QED
      BY <1>4, <3>1, <3>2, <3>3, <3>4, <3>5 DEF AgeOf
  <2>6. PostInv'
    <3> SUFFICES ASSUME NEW x \in wire'
                 PROVE  Follows(x, buf'[Peer[Home(x)]].elems \cup queue'[Peer[Home(x)]].elems)
      BY <1>1, <1>6 DEF LineInv, PostInv
    <3>1. /\ x \in wire /\ Home(x) \in Kme
          /\ Follows(x, buf[Peer[Home(x)]].elems \cup queue[Peer[Home(x)]].elems)
      BY <1>1, <1>3, KeyParts DEF LineInv, PostInv
    <3>2. CASE Home(x) = h
      <4>1. Older(key, x) /\ Peer[Home(x)] = k
        BY <1>2, <1>5, <3>2 DEF h
      <4> QED
        BY <1>4, <2>2, <3>1, <4>1 DEF Follows
    <3>3. CASE Home(x) = k
      BY <1>2, <1>4, <2>2, <3>1, <3>3
    <3> QED
      BY <1>2, <3>1, <3>2, <3>3
  <2>7. AckInv'
    <3>1. \A x \in acked' : ~Fresh(x)'
      BY <1>1, <1>5, <1>6 DEF LineInv, AckInv
    <3>2. ASSUME NEW x \in Locals(h), x \in acked PROVE x \in byId'[k]
      <4>1. x \in byId[k]
        BY <1>2, <3>2 DEF LineInv, AckInv, PeerHoldsLive, Resolves
      <4>2. ASSUME x \in gone PROVE key \in Locals(h)
        <5>1. x \in buf[k].elems /\ Home(x) = h
          BY <1>2, <1>7, <4>2, OldestSubset DEF Evicted, gone
        <5>2. Older(x, key)
          BY <1>5, <5>1 DEF Follows, h
        <5> QED
          BY <1>2, <1>3, <1>5, <5>2 DEF AgeOf, NoGap
      <4>3. x \notin gone
        <5> SUFFICES ASSUME x \in gone PROVE FALSE
          OBVIOUS
        <5>1. x \in Evicted(k) /\ key \in Locals(h)
          BY <4>2 DEF gone
        <5> QED
          BY <1>2, <2>1, <3>2, <5>1, EvictsNoLive DEF LineInv
      <4> QED
        BY <2>2, <4>1, <4>3
    <3>3. PeerHoldsLive'
      <4> SUFFICES ASSUME NEW m \in Kme, NEW x \in Locals(m)' \cap acked' PROVE x \in byId'[Peer[m]]
        BY DEF PeerHoldsLive, Resolves
      <4>1. CASE m = h
        BY <1>1, <1>2, <2>2, <3>2, <4>1
      <4>2. CASE m = k
        <5>1. x \in Locals(k) /\ x # key /\ x \in acked
          BY <1>1, <1>2, <1>7, <2>2, <4>2 DEF h
        <5> QED
          BY <1>2, <2>2, <4>2, <5>1 DEF LineInv, AckInv, PeerHoldsLive, Resolves
      <4> QED
        BY <1>2, <4>1, <4>2
    <3> QED
      BY <1>1, <3>1, <3>3 DEF LineInv, AckInv
  <2> QED
    BY <1>2, <2>3, <2>4, <2>5, <2>6, <2>7 DEF LineInv, AgeInv
<1> QED
  BY <1>8, <1>9 DEF ReceiveSynced

\* drop_replicas: a chunk holds no key that enc_keys may still hand out.
LEMMA LineDrop ==
  ASSUME TypeInv, TypeInv', HandoutInv, DropInv, LineInv, NEW k \in Kme, k # Allocator,
         NEW chunk, DropReplicas(k, chunk)
  PROVE  LineInv'
<1> DEFINE gone == chunk.elems
<1>1. /\ buf' = [buf EXCEPT ![k] = Without(buf[k], gone)]
      /\ byId' = [byId EXCEPT ![k] = byId[k] \ gone]
      /\ replica' = [replica EXCEPT ![k] = replica[k] \ gone]
      /\ withdrawn'[Allocator] = withdrawn[Allocator]
      /\ UNCHANGED <<extra, prod, wire, queue, emitted, acked>>
  BY KmeAssumption DEF DropReplicas, TypeInv, TypeOK
<1>2. \A x \in gone : Home(x) = Allocator /\ streamed[x] > 0 /\ x \in Key
  BY DEF DropReplicas, DropInv, ChunksAreTaken, Taken, TypeInv, TypeOK, OrderedSetOf
<1>3. \A m \in Kme : Locals(m) \cap gone = {}
  <2> SUFFICES ASSUME NEW m \in Kme, NEW x \in Locals(m), x \in gone PROVE FALSE
    OBVIOUS
  <2>1. issued[x] \in Nat /\ streamed[x] \in Nat /\ Uses(x) = 0
    BY <1>2 DEF HandoutInv, TypeInv, TypeOK
  <2> QED
    BY <1>2, <2>1 DEF Uses
<1> HIDE DEF gone
<1>4. /\ buf'[k].elems = buf[k].elems \ gone /\ replica'[k] = replica[k] \ gone
      /\ byId'[k] = byId[k] \ gone
      /\ \A m \in Kme \ {k} : buf'[m] = buf[m] /\ replica'[m] = replica[m] /\ byId'[m] = byId[m]
  <2>1. Without(buf[k], gone).elems = buf[k].elems \ gone
    BY WithoutType DEF TypeInv, TypeOK
  <2> QED
    BY <1>1, <2>1 DEF TypeInv, TypeOK
<1>5. \A m \in Kme : Locals(m)' = Locals(m)
  BY <1>3, <1>4 DEF Locals
<1>6. PaceInv'
  BY <1>1, <1>5, PaceFrame DEF LineInv, PaceInv
<1>7. AgeInv'
  <2>1. /\ \A m \in Kme : replica'[m] \subseteq replica[m]
        /\ \A m \in Kme : Locals(m)' = Locals(m) \ (IF m = k THEN gone ELSE {})
        /\ \A x \in Locals(k) \cap gone, y \in Locals(k) \ gone : ~Older(y, x)
    BY <1>3, <1>4, <1>5
  <2> QED
    BY <1>1, <2>1, AgeRemoves DEF LineInv
<1>8. PostInv'
  BY <1>1, <1>4, PostFrame DEF LineInv, PostInv
<1>9. AckInv'
  <2>1. \A m \in Kme : \A x \in Locals(Peer[m]) : x \in byId[m] => x \in byId'[m]
    BY <1>3, <1>4, KmeAssumption
  <2> QED
    BY <1>1, <1>5, <2>1, AckFrame DEF LineInv
<1> QED
  BY <1>6, <1>7, <1>8, <1>9 DEF LineInv

\* Steps of the producers and of the network that touch no pool.
LEMMA LineFrame ==
  ASSUME TypeInv, TypeInv', LineInv,
         UNCHANGED <<buf, byId, replica, withdrawn, queue, emitted, acked>>, wire' \subseteq wire,
         \A k \in Kme : /\ Low + extra'[k] <= Aim(k)
                        /\ prod'[k] = "round" => prod[k] = "round" \/ Dispensable(k) < Aim(k),
         \A x \in wire' : prod'[Home(x)] = "syncing"
  PROVE  LineInv'
<1>1. \A k \in Kme : Locals(k)' = Locals(k)
  BY DEF Locals
<1>2. PaceInv'
  BY <1>1, PaceFrame DEF LineInv
<1>3. AgeInv'
  BY AgeFrame DEF LineInv
<1>4. PostInv'
  BY PostFrame DEF LineInv
<1>5. AckInv'
  BY <1>1, AckFrame DEF LineInv
<1> QED
  BY <1>2, <1>3, <1>4, <1>5 DEF LineInv

LEMMA LineInit == Init => LineInv
<1> SUFFICES ASSUME Init PROVE LineInv
  OBVIOUS
<1>1. \A k \in Kme : /\ buf[k].elems = {} /\ queue[k].elems = {} /\ replica[k] = {}
                     /\ withdrawn[k].elems = {} /\ extra[k] = 0 /\ prod[k] = "idle"
                     /\ Locals(k) = {}
  BY DEF Init, Empty, Locals
<1>2. PaceInv
  <2> SUFFICES ASSUME NEW k \in Kme PROVE Low + extra[k] <= Aim(k) /\ Dispensable(k) <= Aim(k)
    BY <1>1 DEF PaceInv
  <2>1. Dispensable(k) = 0
    BY <1>1, FS_EmptySet DEF Dispensable
  <2>2. Aim(k) \in Nat /\ Low <= Aim(k)
    BY SizeAssumption DEF Aim
  <2>3. Low + extra[k] = Low
    BY <1>1, SizeAssumption
  <2> QED
    BY <2>1, <2>2, <2>3
<1>3. AgeInv
  BY <1>1 DEF AgeInv, AgeOf, InOrder, NoGap
<1>4. PostInv
  BY DEF Init, PostInv
<1>5. AckInv
  BY <1>1, KmeAssumption DEF Init, AckInv, PeerHoldsLive
<1> QED
  BY <1>2, <1>3, <1>4, <1>5 DEF LineInv

\* The only key of a producer in the network is the one it waits for.
LEMMA PostIsAwaited ==
  ASSUME TypeInv, PostInv, NEW x \in wire
  PROVE  x = Syncing(Home(x)) /\ Home(x) \in Kme
<1> DEFINE h == Home(x)
           y == <<h, emitted[h]>>
<1>1. x \in Key /\ h \in Kme /\ x[2] \in 1 .. MaxKeys /\ x = <<h, x[2]>>
  BY KeyParts DEF TypeInv, TypeOK
<1>2. emitted[h] \in 0 .. MaxKeys /\ x[2] <= emitted[h] /\ \A z \in Key : Older(x, z) => Fresh(z)
  <2>1. emitted[h] \in 0 .. MaxKeys
    BY <1>1 DEF TypeInv, TypeOK
  <2>2. ~Fresh(x) /\ \A z \in Key : Older(x, z) => Fresh(z)
    BY DEF PostInv
  <2> QED
    BY <1>1, <2>1, <2>2, SizeAssumption DEF Fresh
<1>3. emitted[h] \in 1 .. MaxKeys
  BY <1>1, <1>2, SizeAssumption
<1>4. y \in Key /\ Home(y) = h /\ y[2] = emitted[h]
  BY <1>1, <1>3 DEF Key, Home
<1>5. ~Fresh(y)
  BY <1>3, <1>4 DEF Fresh
<1>6. ~(x[2] < emitted[h])
  BY <1>2, <1>4, <1>5 DEF Older
<1> QED
  BY <1>1, <1>2, <1>3, <1>6 DEF Syncing

LEMMA LinePop ==
  ASSUME TypeInv, TypeInv', HandoutInv, RingInv, LineInv, NEW k \in Kme, PopForEnc(k)
  PROVE  LineInv'
<1> DEFINE q == Keep(buf[k], Locals(k))
<1>1. PICK key \in Candidates(k) : buf' = [buf EXCEPT ![k] = Without(buf[k], {key})]
  BY DEF PopForEnc
<1>2. /\ Oldest(q, 1) \subseteq Locals(k) /\ Locals(k) \subseteq Key
      /\ q \in OrderedSetOf(Key) /\ InOrder(q)
  BY OldestLocals, KeepType, KeepInOrder DEF TypeInv, TypeOK, LineInv, AgeInv, AgeOf
<1>3. key \in Oldest(q, 1)
  BY <1>1 DEF Candidates
<1> HIDE DEF q
<1>4. {key} = Oldest(q, 1)
  <2> SUFFICES ASSUME NEW x \in Oldest(q, 1) PROVE x = key
    BY <1>3
  <2>1. x \in q.elems /\ key \in q.elems /\ x \in Key /\ key \in Key /\ Home(x) = Home(key)
    BY <1>2, <1>3, OldestSubset DEF HandoutInv
  <2>2. ~Older(x, key) /\ ~Older(key, x)
    BY <1>2, <1>3, <2>1, FirstIsOldest
  <2> QED
    BY <2>1, <2>2, OlderOrder
<1>5. UNCHANGED <<byId, replica, withdrawn, extra, prod, wire, queue, emitted, acked>>
  BY DEF PopForEnc, flight
<1>6. \A j \in Kme : Low + extra'[j] <= Aim(j)
  BY <1>5 DEF LineInv, PaceInv
<1>7. {key} = Oldest(Keep(buf[k], Locals(k)), 1)
  BY <1>4 DEF q
<1> QED
  BY <1>1, <1>5, <1>6, <1>7, FrontLeaves

LEMMA LineTake ==
  ASSUME TypeInv, TypeInv', HandoutInv, RingInv, LineInv, NEW k \in Kme, NEW n \in 1 .. Share,
         TakeLocalForStream(k, n)
  PROVE  LineInv'
<1> DEFINE taken == Oldest(Keep(buf[k], Locals(k)), n)
<1>1. /\ buf' = [buf EXCEPT ![k] = Without(buf[k], taken)]
      /\ byId' = [byId EXCEPT ![k] = byId[k] \ taken]
      /\ extra' = [extra EXCEPT ![k] = 0]
      /\ UNCHANGED <<replica, withdrawn, prod, wire, queue, emitted, acked>>
  BY DEF TakeLocalForStream
<1>2. n \in Nat
  BY SizeAssumption
<1> HIDE DEF taken
<1>3. \A j \in Kme : Low + extra'[j] <= Aim(j)
  <2> SUFFICES ASSUME NEW j \in Kme PROVE Low + extra'[j] <= Aim(j)
    OBVIOUS
  <2>1. CASE j = k
    BY <1>1, <2>1, SizeAssumption DEF Aim, TypeInv, TypeOK
  <2>2. CASE j # k
    BY <1>1, <2>2 DEF LineInv, PaceInv, TypeInv, TypeOK
  <2> QED
    BY <2>1, <2>2
<1> QED
  BY <1>1, <1>2, <1>3, FrontLeaves DEF taken

\* A step of the specification, where no POST is late and no KME restarts.
LEMMA LineStep ==
  "late" \notin Faults /\ "restart" \notin Faults /\ TypeInv /\ TypeInv' /\ HandoutInv /\ RingInv
  /\ DropInv /\ LineInv /\ [Next]_vars => LineInv'
<1> SUFFICES ASSUME "late" \notin Faults, "restart" \notin Faults, TypeInv, TypeInv', HandoutInv,
                    RingInv, DropInv, LineInv, [Next]_vars
             PROVE  LineInv'
  OBVIOUS
<1>1. /\ \A k \in Kme : Low + extra[k] <= Aim(k)
      /\ \A x \in wire : prod[Home(x)] = "syncing" /\ x = Syncing(Home(x)) /\ Home(x) \in Kme
  BY PostIsAwaited DEF LineInv, PaceInv, PostInv
<1>2. ASSUME UNCHANGED <<buf, byId, replica, withdrawn, queue, emitted, acked, extra, prod>>,
             wire' \subseteq wire
      PROVE  LineInv'
  BY <1>1, <1>2, LineFrame
<1>3. ASSUME NEW k \in Kme, Produce(k) PROVE LineInv'
  <2>1. CASE RoundAccepted(k)
    BY <2>1, LineRound
  <2>2. ASSUME prod[k] # "syncing" \/ Syncing(k) \notin wire,
               prod' = [prod EXCEPT ![k] = "idle"] \/ prod' = [prod EXCEPT ![k] = "round"],
               prod'[k] = "round" => Dispensable(k) < Aim(k),
               UNCHANGED <<buf, byId, replica, withdrawn, extra, wire, queue, emitted, acked>>
        PROVE  LineInv'
    <3>1. \A j \in Kme : prod'[j] = "round" => prod[j] = "round" \/ Dispensable(j) < Aim(j)
      BY <2>2 DEF TypeInv, TypeOK
    <3>2. \A x \in wire : Home(x) # k
      BY <1>1, <2>2
    <3>3. \A x \in wire' : prod'[Home(x)] = "syncing"
      BY <1>1, <2>2, <3>2 DEF TypeInv, TypeOK
    <3> QED
      BY <1>1, <2>2, <3>1, <3>3, LineFrame
  <2>3. CASE StartRound(k)
    <3>1. Dispensable(k) < Low + extra[k] /\ prod[k] = "idle"
      BY <2>3 DEF StartRound, BelowTarget
    <3>2. Dispensable(k) \in Nat /\ Aim(k) \in Nat /\ Low \in Nat /\ extra[k] \in Nat
      BY LocalsAreFew, AimsFit, SizeAssumption DEF TypeInv, TypeOK
    <3>3. Dispensable(k) < Aim(k)
      BY <1>1, <3>1, <3>2
    <3> QED
      BY <2>2, <2>3, <3>1, <3>3 DEF StartRound, flight, history
  <2>4. CASE RoundAborted(k)
    <3>1. prod'[k] = "idle"
      BY <2>4 DEF RoundAborted, TypeInv, TypeOK
    <3> QED
      BY <2>2, <2>4, <3>1 DEF RoundAborted, flight, history
  <2>5. CASE SyncAnswered(k)
    <3>1. prod'[k] = "idle" /\ Syncing(k) \notin wire
      BY <2>5 DEF SyncAnswered, Unanswered, TypeInv, TypeOK
    <3> QED
      BY <2>2, <2>5, <3>1 DEF SyncAnswered, flight, history
  <2>6. CASE SyncTimeout(k)
    <3>1. prod'[k] = "idle" /\ Syncing(k) \notin wire
      BY <2>6 DEF SyncTimeout, MayTimeOut, TypeInv, TypeOK
    <3> QED
      BY <2>2, <2>6, <3>1 DEF SyncTimeout, flight, history
  <2> QED
    BY <1>3, <2>1, <2>3, <2>4, <2>5, <2>6 DEF Produce
<1>4. ASSUME NEW key \in Key, Sync(Peer[Home(key)], key) PROVE LineInv'
  <2>1. PICK k \in Kme : k = Peer[Home(key)]
    BY KmeAssumption DEF Key, Home
  <2> QED
    BY <1>4, <2>1, LineQueued, LineReceived DEF Sync
<1>5. ASSUME NEW k \in Kme, PopForEnc(k) PROVE LineInv'
  BY <1>5, LinePop
<1>6. ASSUME NEW k \in Kme, Stream(k) PROVE LineInv'
  <2>1. ASSUME NEW n \in 1 .. Share, TakeLocalForStream(k, n) PROVE LineInv'
    BY <2>1, LineTake
  <2>2. ASSUME NEW n \in 1 .. Share, k = Allocator, RequestExtra(k, n) PROVE LineInv'
    <3>1. /\ extra' = [extra EXCEPT ![k] = ExtraFor(n)]
          /\ UNCHANGED <<buf, byId, replica, withdrawn, prod, wire, queue, emitted, acked>>
      BY <2>2 DEF RequestExtra, flight, history
    <3>2. Low + ExtraFor(n) <= Aim(k)
      BY <2>2, SizeAssumption DEF ExtraFor, Aim
    <3>3. \A j \in Kme : Low + extra'[j] <= Aim(j)
      BY <1>1, <3>1, <3>2 DEF TypeInv, TypeOK
    <3> QED
      BY <1>1, <3>1, <3>3, LineFrame
  <2>3. ASSUME NEW chunk, StoreChunk(k, chunk) PROVE LineInv'
    BY <1>2, <2>3 DEF StoreChunk, pools, history
  <2>4. ASSUME NEW chunk, k # Allocator, DropReplicas(k, chunk) PROVE LineInv'
    BY <2>4, LineDrop
  <2> QED
    BY <1>6, <2>1, <2>2, <2>3, <2>4 DEF Stream
<1>7. CASE LosePost
  <2>1. wire' \subseteq wire
    BY <1>7 DEF LosePost
  <2> QED
    BY <1>2, <1>7, <2>1 DEF LosePost, pools, history
<1>8. CASE LoseChunk
  BY <1>2, <1>8 DEF LoseChunk, pools, history
<1>9. ASSUME NEW k \in Kme, Restart(k) PROVE LineInv'
  BY <1>9 DEF Restart
<1>10. CASE UNCHANGED vars
  BY <1>2, <1>10 DEF vars, pools, flight, history
<1> QED
  BY <1>3, <1>4, <1>5, <1>6, <1>7, <1>8, <1>9, <1>10 DEF Next

\* While no POST outlives its client and no KME restarts, the peer's ring keeps
\* every key it answered for that this KME may still hand out, whatever POSTs
\* and pushes are lost: what limits() leaves room for is enough.
THEOREM PeersHoldLive ==
  ASSUME "late" \notin Faults, "restart" \notin Faults
  PROVE  Spec => []PeerHoldsLive
<1>1. LineInv => PeerHoldsLive
  BY DEF LineInv, AckInv
<1>2. TypeInv /\ TypeInv' /\ HandoutInv /\ RingInv /\ DropInv /\ LineInv /\ [Next]_vars => LineInv'
  BY LineStep
<1> QED
  BY <1>1, <1>2, TypeInit, TypeStep, HandoutInit, HandoutStep, RingInit, RingStep,
     DropInit, DropStep, LineInit, PTL DEF Spec
=============================================================================
