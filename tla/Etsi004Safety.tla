---------------------------- MODULE Etsi004Safety ----------------------------
(***************************************************************************)
(* What the engines of Etsi004 keep, proved for any number of calls,       *)
(* handlers, streams, indices, chunks, failures, expiries and restarts, as *)
(* long as no one else holds the lock of the key pool when a chunk is made *)
(* (~Contended): a stream's chunk never changes and is read once, a closed *)
(* stream holds nothing, and the two engines implement KeyDelivery; where  *)
(* streams do not expire, no chunk of an id used once is lost.  Without    *)
(* faults, and whoever holds the lock, two closes of such a stream meet.   *)
(***************************************************************************)
EXTENDS Etsi004Proofs

-----------------------------------------------------------------------------
(* What a step may do.  A step changes the calls in one of two ways and the *)
(* chunks in one of six; the invariants are proved of these.               *)

Refers(p, k, s, n) == ~Free(p) /\ Site[p] = k /\ call[p].s = s /\ call[p].n = n

\* Calls end, wait, or lose the caller they answer; no request is added.
Ends ==
  /\ \A q \in Proc :
       \/ Free(q)'
       \/ /\ ~Free(q) /\ call'[q].pc \in {call[q].pc, "wait"}
          /\ call'[q].s = call[q].s /\ call'[q].n = call[q].n
          /\ call'[q].i = call[q].i /\ call'[q].x = call[q].x
  /\ \A m \in net' : \E l \in net :
       m.type = l.type /\ m.to = l.to /\ m.s = l.s /\ m.i = l.i /\ m.x = l.x

\* A call sends a request: about the stream in the table or one it refers to
\* already, and a push about the chunk that stream holds.
Starts(p, c, t) ==
  /\ call'[p] = [c EXCEPT !.pc = t] /\ \A q \in Proc \ {p} : call'[q] = call[q]
  /\ net' \subseteq net \cup {[type |-> t, to |-> Peer[Site[p]], s |-> c.s,
                              i |-> c.i, x |-> c.x, from |-> p]}
  /\ c.n = cur'[Site[p]][c.s] \/ Refers(p, Site[p], c.s, c.n)
  /\ t = "chunk" => Site[p] = Allocator /\ c.x = obj'[Allocator][c.s][c.n].chunk[c.i]
  /\ t = "allocate" => Site[p] # Allocator

CallsEffect == Ends \/ \E p \in Proc, c \in Call, t \in Awaits : Starts(p, c, t)

\* Streams leave the tables.
Forgets ==
  /\ UNCHANGED <<obj, got, stored, made, lives>>
  /\ \A k \in Kme, s \in Ksid : cur'[k][s] \in {cur[k][s], None}

Creates(k, s) ==
  /\ cur[k][s] = None
  /\ \E n \in Object, o \in {[NewStream EXCEPT !.localOpen = TRUE],
                             [NewStream EXCEPT !.peerOpen = TRUE]} :
       /\ Spare(k, s, n) /\ SetStream(k, s, n, o) /\ cur'[k][s] = n
  /\ \A j \in Kme, t \in Ksid :
       /\ j # k \/ t # s => cur'[j][t] = cur[j][t]
       /\ lives'[j][t] = IF j = k /\ t = s THEN lives[k][s] + 1 ELSE lives[j][t]
       /\ got'[j][t] = IF j = k /\ t = s THEN [i \in Index |-> None] ELSE got[j][t]
  /\ UNCHANGED <<stored, made>>

\* A stream changes otherwise than in what it delivers and may lose chunks.
Trims(k, s, n) ==
  /\ cur[k][s] = n \/ \E p \in Proc : Refers(p, k, s, n)
  /\ \E o \in Stream :
       /\ SetStream(k, s, n, o)
       /\ o.delivered = obj[k][s][n].delivered /\ o.nextAlloc = obj[k][s][n].nextAlloc
       /\ \A i \in Index : o.chunk[i] \in {obj[k][s][n].chunk[i], None}
       /\ o.state = "CLOSED" =>
            obj[k][s][n].state = "CLOSED" \/ \A i \in Index : o.chunk[i] = None
  /\ UNCHANGED <<cur, got, stored, made, lives>>

\* The application of k reads.  The allocator's chunk is one the peer has, or
\* one a call at the same index has just pushed.
Reads(k, s, n, i) ==
  LET x == obj[k][s][n].chunk[i]
  IN /\ x # None
     /\ SetStream(k, s, n, Read(obj[k][s][n], i))
     /\ got' = [got EXCEPT ![k][s][i] = x]
     /\ k = Allocator => \/ x \in confirmed
                         \/ \E p \in Proc : /\ call[p].pc = "chunk" /\ reply[p] = "ok"
                                            /\ call[p].s = s /\ call[p].i = i
     /\ UNCHANGED <<cur, stored, made, lives>>

Makes(s, n, i) ==
  LET o == obj[Allocator][s][n]
  IN /\ cur[Allocator][s] = n /\ o.state # "CLOSED"
     /\ o.chunk[i] = None /\ i = o.nextAlloc
     /\ made < MaxChunks /\ made' = made + 1
     /\ SetStream(Allocator, s, n, [o EXCEPT !.chunk[i] = made + 1, !.nextAlloc = @ + 1])
     /\ stored' = [stored EXCEPT ![Allocator] = @ \cup {made + 1}]
     /\ UNCHANGED <<cur, got, lives>>

\* The peer stores what was pushed.
Stores(m) ==
  LET o == The(m.to, m.s)
  IN /\ m.type = "chunk" /\ Open(m.to, m.s)
     /\ ~Repeat(o, m.i, m.x) /\ ~Conflict(o, m.i, m.x)
     /\ SetStream(m.to, m.s, cur[m.to][m.s], [o EXCEPT !.chunk[m.i] = m.x])
     /\ stored' = [stored EXCEPT ![m.to] = @ \cup {m.x}]
     /\ UNCHANGED <<cur, got, made, lives>>

DataEffect ==
  \/ Forgets
  \/ \E k \in Kme, s \in Ksid : Creates(k, s)
  \/ \E k \in Kme, s \in Ksid, n \in Object : Trims(k, s, n)
  \/ \E k \in Kme, s \in Ksid, n \in Object, i \in Index : Reads(k, s, n, i)
  \/ \E s \in Ksid, n \in Object, i \in Index : Makes(s, n, i)
  \/ \E m \in net : Stores(m)

\* A chunk is confirmed when its push was acknowledged.
ConfirmEffect ==
  \/ confirmed' = confirmed
  \/ \E p \in Proc : /\ call[p].pc = "chunk" /\ reply[p] = "ok"
                     /\ confirmed' = confirmed \cup {call[p].x}

Effect == CallsEffect /\ DataEffect /\ ConfirmEffect

\* No call waits for the pool lock; only the allocator pushes, only the other
\* KME asks for a chunk.
NoLock == \A p \in Proc : call[p].pc # "take"

Sides ==
  /\ \A p \in Proc : /\ call[p].pc = "chunk" => Site[p] = Allocator
                     /\ call[p].pc = "allocate" => Site[p] # Allocator
  /\ \A m \in net : m.type = "chunk" => m.to = Peer[Allocator]

WireInv == TypeInv /\ NoLock /\ Sides

LEMMA TypeFacts ==
  ASSUME TypeInv
  PROVE  /\ TypeInv /\ TypeOK /\ CallsType /\ RestType /\ ObjType
         /\ Replies = {"none", "ok", "empty", "lost", "conflict", "failed"}
         /\ Awaits = {"announce", "establish", "withdraw", "close", "allocate", "chunk"}
         /\ App \subseteq Proc /\ Handler \subseteq Proc /\ Allocator \in Kme
BY TypeParts, EngineAssumption DEF TypeInv, Replies, Awaits, Proc

LEMMA WireParts ==
  ASSUME WireInv
  PROVE  /\ TypeInv /\ TypeOK /\ CallsType /\ RestType /\ ObjType
         /\ Replies = {"none", "ok", "empty", "lost", "conflict", "failed"}
         /\ Awaits = {"announce", "establish", "withdraw", "close", "allocate", "chunk"}
         /\ App \subseteq Proc /\ Handler \subseteq Proc /\ Allocator \in Kme
BY TypeFacts DEF WireInv

\* The calls after Send, Finish and Answer.
LEMMA SendEffect ==
  ASSUME WireInv, NEW p \in Proc, NEW c \in Call, NEW t \in Awaits,
         NEW inbox \in SUBSET net, Send(p, c, t, inbox),
         t = "chunk" => /\ Site[p] = Allocator /\ c.x # None
                        /\ c.x = obj'[Allocator][c.s][c.n].chunk[c.i],
         t = "allocate" => Site[p] # Allocator,
         c.n = cur'[Site[p]][c.s] \/ Refers(p, Site[p], c.s, c.n)
  PROVE  CallsEffect
<1>1. CallsType
  BY WireParts
<1>2. call'[p] = [c EXCEPT !.pc = t] /\ \A q \in Proc \ {p} : call'[q] = call[q]
  BY <1>1, SendStep
<1>3. net' \subseteq net \cup {[type |-> t, to |-> Peer[Site[p]], s |-> c.s,
                               i |-> c.i, x |-> c.x, from |-> p]}
  BY DEF Send
<1>4. Starts(p, c, t)
  BY <1>2, <1>3 DEF Starts
<1> QED
  BY <1>4 DEF CallsEffect

LEMMA FinishEffect ==
  ASSUME WireInv, NEW p \in Proc, NEW c \in Call, NEW r \in Replies, Finish(p, c, r),
         net' \subseteq net
  PROVE  Ends /\ CallsEffect
<1>1. call'[p] = Idle /\ \A q \in Proc \ {p} : call'[q] = call[q]
  BY WireParts, FinishStep
<1>2. \A q \in Proc \ {p} : call'[q] = call[q] /\ (Free(q)' <=> Free(q))
  BY <1>1 DEF Free
<1>3. Free(p)'
  BY <1>1, IdleType DEF Free
<1>4. Ends
  BY <1>2, <1>3 DEF Ends
<1> QED
  BY <1>4 DEF CallsEffect

LEMMA StayEffect ==
  ASSUME call' = call, net' \subseteq net
  PROVE  Ends /\ CallsEffect
BY DEF Ends, CallsEffect, Free

LEMMA AnswerEffect ==
  ASSUME NEW m \in net, NEW r, Answer(m, r)
  PROVE  Ends /\ CallsEffect
BY StayEffect DEF Answer

LEMMA ForgetEffect ==
  ASSUME WireInv, UNCHANGED <<obj, got, stored, made, confirmed, lives>>,
         \/ cur' = cur
         \/ \E k \in Kme, s \in Ksid : Remove(k, s)
         \/ \E k \in Kme : cur' = [cur EXCEPT ![k] = [s \in Ksid |-> None]]
  PROVE  DataEffect /\ ConfirmEffect
<1>1. \A k \in Kme, s \in Ksid : cur'[k][s] \in {cur[k][s], None}
  <2>1. RestType
    BY WireParts
  <2>2. CASE \E k \in Kme, s \in Ksid : Remove(k, s)
    BY <2>1, <2>2, RemoveType
  <2>3. ASSUME NEW k \in Kme, cur' = [cur EXCEPT ![k] = [s \in Ksid |-> None]]
        PROVE  \A j \in Kme, t \in Ksid : cur'[j][t] \in {cur[j][t], None}
    BY <2>1, <2>3 DEF RestType
  <2> QED
    BY <2>2, <2>3
<1> QED
  BY <1>1 DEF DataEffect, Forgets, ConfirmEffect
LEMMA GiveUpEffect ==
  ASSUME WireInv, NEW p \in Proc, NEW c \in Call, NEW r \in Replies,
         NEW inbox \in SUBSET net, GiveUp(p, c, r, inbox)
  PROVE  Effect
<1>1. CallsEffect
  BY FinishEffect DEF GiveUp
<1>2. DataEffect /\ ConfirmEffect
  BY ForgetEffect DEF GiveUp, streams, chunks, history
<1> QED
  BY <1>1, <1>2 DEF Effect

LEMMA DeliverEffect ==
  ASSUME WireInv, NEW p \in Proc, NEW c \in Call, Deliver(p, c),
         obj[Site[p]][c.s][c.n].chunk[c.i] # None,
         Site[p] = Allocator => obj[Site[p]][c.s][c.n].chunk[c.i] \in confirmed
  PROVE  Effect
<1>1. /\ Site[p] \in Kme /\ c.s \in Ksid /\ c.n \in Object /\ c.i \in Index
      /\ "none" \in Replies
  BY MineType, WireParts DEF Call
<1>2. CallsEffect
  BY <1>1, FinishEffect DEF Deliver
<1>3. Reads(Site[p], c.s, c.n, c.i)
  BY DEF Deliver, Reads, chunks
<1> QED
  BY <1>1, <1>2, <1>3 DEF Effect, DataEffect, ConfirmEffect, Deliver, chunks

LEMMA MakeEffect ==
  ASSUME WireInv, NEW p \in Proc, NEW c \in Call, NEW inbox \in SUBSET net,
         MakeChunk(p, c, inbox), Site[p] = Allocator, cur[Allocator][c.s] = c.n,
         LET o == obj[Allocator][c.s][c.n]
         IN o.state # "CLOSED" /\ o.chunk[c.i] = None /\ c.i = o.nextAlloc
  PROVE  Effect
<1> DEFINE o == obj[Allocator][c.s][c.n]
           x == made + 1
           q == [o EXCEPT !.chunk[c.i] = x, !.nextAlloc = @ + 1]
<1>1. /\ ObjType /\ RestType /\ CallsType /\ Allocator \in Kme
      /\ c.s \in Ksid /\ c.n \in Object /\ c.i \in Index /\ "chunk" \in Awaits
  BY WireParts DEF Call
<1>2. o \in Stream /\ o.nextAlloc <= made /\ obj \in Objects
  BY <1>1 DEF ObjType, Objects
<1>3. x \in Serial /\ o.nextAlloc < x /\ x # None
  <2>1. made \in Nat
    BY <1>1, Numbers DEF RestType
  <2>2. made < MaxChunks
    BY DEF MakeChunk
  <2>3. o.nextAlloc \in Nat
    BY <1>2 DEF Stream
  <2> QED
    BY <1>2, <2>1, <2>2, <2>3, Numbers DEF Serial, None
<1>4. q \in Stream /\ q.chunk[c.i] = x
  <2>1. q \in Stream
    BY <1>1, <1>2, <1>3, MakeType
  <2> HIDE DEF x
  <2>2. q.chunk[c.i] = x
    BY <1>1, <1>2 DEF Stream
  <2> QED
    BY <2>1, <2>2
<1>5. SetStream(Allocator, c.s, c.n, q) /\ Send(p, [c EXCEPT !.x = x], "chunk", inbox)
      /\ made' = x /\ made < MaxChunks
      /\ stored' = [stored EXCEPT ![Allocator] = @ \cup {x}]
      /\ UNCHANGED <<cur, reply, confirmed, got, lives, faults>>
  BY DEF MakeChunk
<1>6. Makes(c.s, c.n, c.i)
  BY <1>5 DEF Makes
<1> HIDE DEF q
<1>7. obj'[Allocator][c.s][c.n] = q
  BY <1>1, <1>2, <1>4, <1>5, SetStreamStep
<1> DEFINE d == [c EXCEPT !.x = x]
<1>8. d \in Call /\ d.x = x /\ d.s = c.s /\ d.n = c.n /\ d.i = c.i
  BY <1>3 DEF Call
<1> HIDE DEF d, x
<1>9. d.n = cur'[Site[p]][d.s]
  BY <1>5, <1>8
<1>10. CallsEffect
  BY <1>1, <1>3, <1>4, <1>5, <1>7, <1>8, <1>9, SendEffect DEF d
<1> QED
  BY <1>1, <1>5, <1>6, <1>10 DEF Effect, DataEffect, ConfirmEffect

\* _obtain at the allocator, for a stream that is in its table and not closed.
LEMMA ObtainEffect ==
  ASSUME WireInv, ~Contended, NEW p \in Proc, NEW c \in Call, NEW inbox \in SUBSET net,
         Obtain(p, c, inbox), Site[p] = Allocator, cur[Allocator][c.s] = c.n,
         obj[Allocator][c.s][c.n].state # "CLOSED"
  PROVE  Effect
<1> DEFINE o == obj[Allocator][c.s][c.n]
           x == o.chunk[c.i]
<1>1. /\ "chunk" \in Awaits /\ "ok" \in Replies /\ "empty" \in Replies
      /\ x \in Serial \cup {None}
  BY WireParts, EngineAssumption DEF Call, ObjType, Objects, Stream
<1>2. CASE /\ x # None /\ Send(p, [c EXCEPT !.x = x], "chunk", inbox)
           /\ UNCHANGED <<streams, reply, chunks, history, faults>>
  <2> DEFINE d == [c EXCEPT !.x = x]
  <2>1. d \in Call /\ d.x = x /\ d.s = c.s /\ d.n = c.n /\ d.i = c.i
    BY <1>1 DEF Call
  <2>2. obj' = obj /\ cur' = cur
    BY <1>2 DEF streams
  <2>3. d.x # None /\ d.x = obj'[Allocator][d.s][d.n].chunk[d.i] /\ d.n = cur'[Site[p]][d.s]
    BY <1>2, <2>1, <2>2
  <2> HIDE DEF d
  <2>4. CallsEffect
    BY <1>1, <1>2, <2>1, <2>3, SendEffect DEF d
  <2> QED
    BY <1>2, <2>4, ForgetEffect DEF Effect, streams, chunks, history
<1>3. CASE GiveUp(p, c, "ok", inbox) \/ GiveUp(p, c, "empty", inbox)
  BY <1>1, <1>3, GiveUpEffect
<1>4. CASE x = None /\ MayMake(o, c.i) /\ Take(p, c, inbox)
  <2>1. CASE MakeChunk(p, c, inbox)
    BY <1>4, <2>1, MakeEffect DEF MayMake
  <2>2. CASE GiveUp(p, c, "empty", inbox)
    BY <1>1, <2>2, GiveUpEffect
  <2> QED
    BY <1>4, <2>1, <2>2 DEF Take
<1> QED
  BY <1>2, <1>3, <1>4 DEF Obtain

LEMMA GetKeyEffect ==
  ASSUME WireInv, ~Contended, NEW p \in Proc, NEW s \in Ksid, NEW i \in Index, GetKey(p, s, i)
  PROVE  Effect
<1> DEFINE k == Site[p]
           o == The(k, s)
           c == [Idle EXCEPT !.s = s, !.n = cur[k][s], !.i = i]
<1>1. /\ k \in Kme /\ "none" \in Replies /\ Has(k, s) /\ o.state # "CLOSED"
      /\ "allocate" \in Awaits
  BY MineType, WireParts DEF GetKey
<1>2. c \in Call /\ c.s = s /\ c.n = cur[k][s] /\ c.i = i
  <2>1. cur[k][s] \in Object
    BY <1>1, WireParts, TheType
  <2> QED
    BY <2>1, IdleType DEF Call
<1>3. \/ Readable(k, o, i) /\ Deliver(p, c)
      \/ GiveUp(p, c, "none", net)
      \/ k = Allocator /\ Obtain(p, c, net)
      \/ /\ k # Allocator /\ Send(p, c, "allocate", net)
         /\ UNCHANGED <<streams, reply, chunks, history, faults>>
  BY DEF GetKey, DeliverIfItFits
<1>4. o = obj[k][c.s][c.n]
  BY <1>2 DEF The
<1> HIDE DEF c
<1>5. CASE Readable(k, o, i) /\ Deliver(p, c)
  BY <1>2, <1>4, <1>5, DeliverEffect DEF Readable
<1>6. CASE k # Allocator /\ Send(p, c, "allocate", net)
           /\ UNCHANGED <<streams, reply, chunks, history, faults>>
  <2>1. cur' = cur /\ c.n = cur'[k][c.s]
    BY <1>2, <1>6 DEF streams
  <2>2. CallsEffect
    BY <1>1, <1>2, <1>6, <2>1, SendEffect
  <2> QED
    BY <1>6, <2>2, ForgetEffect DEF Effect, streams, chunks, history
<1>7. CASE k = Allocator /\ Obtain(p, c, net)
  BY <1>1, <1>2, <1>4, <1>7, ObtainEffect
<1> QED
  BY <1>1, <1>2, <1>3, <1>5, <1>6, <1>7, GiveUpEffect
\* q is o without some of its chunks, and otherwise changed in its state only.
Trimmed(o, q) ==
  /\ q.delivered = o.delivered /\ q.nextAlloc = o.nextAlloc
  /\ \A i \in Index : q.chunk[i] \in {o.chunk[i], None}
  /\ q.state = "CLOSED" => o.state = "CLOSED" \/ \A i \in Index : q.chunk[i] = None

LEMMA TrimmedType ==
  ASSUME NEW o \in Stream
  PROVE  /\ Trimmed(o, [o EXCEPT !.localClosed = TRUE])
         /\ Trimmed(o, [o EXCEPT !.peerClosed = TRUE])
         /\ Trimmed(o, Closed([o EXCEPT !.peerClosed = TRUE]))
         /\ Trimmed(o, [o EXCEPT !.state = "CLOSING"])
         /\ Trimmed(o, Closed(o))
         /\ \A i \in Index : Trimmed(o, [o EXCEPT !.chunk[i] = None])
         /\ Trimmed(o, [o EXCEPT !.localOpen = TRUE, !.state = "ESTABLISHED",
                                 !.established = TRUE])
         /\ Trimmed(o, [o EXCEPT !.peerOpen = TRUE, !.state = "ESTABLISHED",
                                 !.established = TRUE])
<1> USE DEF Stream, Closed, Trimmed
<1>1. Trimmed(o, [o EXCEPT !.localClosed = TRUE]) /\ Trimmed(o, [o EXCEPT !.peerClosed = TRUE])
  OBVIOUS
<1>2. Trimmed(o, Closed(o)) /\ Trimmed(o, Closed([o EXCEPT !.peerClosed = TRUE]))
  OBVIOUS
<1>3. \A i \in Index : Trimmed(o, [o EXCEPT !.chunk[i] = None])
  OBVIOUS
<1>4. Trimmed(o, [o EXCEPT !.state = "CLOSING"])
  OBVIOUS
<1>5. /\ Trimmed(o, [o EXCEPT !.localOpen = TRUE, !.state = "ESTABLISHED",
                              !.established = TRUE])
      /\ Trimmed(o, [o EXCEPT !.peerOpen = TRUE, !.state = "ESTABLISHED",
                              !.established = TRUE])
  OBVIOUS
<1> QED
  BY <1>1, <1>2, <1>3, <1>4, <1>5

\* A stream that is open and hears of its peer.
LEMMA TrimmedJoin ==
  ASSUME NEW o \in Stream, o.state # "CLOSED"
  PROVE  Trimmed(o, [o EXCEPT !.peerOpen = TRUE,
                              !.state = IF o.localOpen THEN "ESTABLISHED" ELSE @,
                              !.established = @ \/ o.localOpen])
BY DEF Stream, Trimmed

\* A step writes a stream it refers to, trimmed.
LEMMA TrimEffect ==
  ASSUME NEW k \in Kme, NEW s \in Ksid, NEW n \in Object, NEW q \in Stream,
         cur[k][s] = n \/ \E p \in Proc : Refers(p, k, s, n),
         Trimmed(obj[k][s][n], q), SetStream(k, s, n, q),
         UNCHANGED <<cur, got, stored, made, confirmed, lives>>
  PROVE  DataEffect /\ ConfirmEffect
<1>1. Trims(k, s, n)
  BY DEF Trims, Trimmed
<1> QED
  BY <1>1 DEF DataEffect, ConfirmEffect

LEMMA OpenEffect ==
  ASSUME WireInv, NEW p \in Proc,
         \/ OpenRefused(p) \/ OpenAnnounced(p) \/ OpenJoined(p) \/ OpenTimeout(p)
         \/ OpenWithdrawn(p) \/ OpenConfirmed(p) \/ OpenNotConfirmed(p)
  PROVE  Effect
<1> DEFINE c == call[p]
<1>1. /\ Site[p] \in Kme /\ c \in Call /\ c.s \in Ksid /\ c.n \in Object
      /\ Mine(p) \in Stream /\ "none" \in Replies /\ "withdraw" \in Awaits
  BY MineType, WireParts
<1>2. CallsEffect
  <2>1. ASSUME Finish(p, c, "none"), net' = net PROVE CallsEffect
    BY <1>1, <2>1, FinishEffect
  <2>2. ASSUME OpenAnnounced(p), c.predefined PROVE CallsEffect
    <3>1. call' = [call EXCEPT ![p].pc = "wait"] /\ net' = net /\ c.pc = "announce"
      BY <2>2 DEF OpenAnnounced, Hears
    <3>2. Ends
      BY <1>1, <3>1, WireParts DEF Ends, CallsType, Call, Free
    <3> QED
      BY <3>2 DEF CallsEffect
  <2>3. ASSUME OpenTimeout(p) PROVE CallsEffect
    <3>1. Send(p, c, "withdraw", net) /\ Refers(p, Site[p], c.s, c.n)
      BY <2>3 DEF OpenTimeout, Refers, Free
    <3> QED
      BY <1>1, <3>1, SendEffect
  <2> QED
    BY <2>1, <2>2, <2>3 DEF OpenRefused, OpenAnnounced, OpenJoined, OpenTimeout,
       OpenWithdrawn, OpenConfirmed, OpenNotConfirmed
<1>3. DataEffect /\ ConfirmEffect
  <2>1. CASE OpenConfirmed(p)
    <3> DEFINE q == [Mine(p) EXCEPT !.localOpen = TRUE, !.state = "ESTABLISHED",
                                    !.established = TRUE]
    <3>1. /\ SetStream(Site[p], c.s, c.n, q) /\ c.pc = "establish"
          /\ UNCHANGED <<cur, got, stored, made, confirmed, lives>>
      BY <2>1 DEF OpenConfirmed, Hears, chunks, history
    <3>2. q \in Stream /\ Trimmed(Mine(p), q)
      BY <1>1, JoinType, TrimmedType
    <3> HIDE DEF q
    <3>3. Refers(p, Site[p], c.s, c.n)
      BY <3>1 DEF Refers, Free
    <3> QED
      BY <1>1, <3>1, <3>2, <3>3, TrimEffect DEF Mine
  <2>2. CASE ~OpenConfirmed(p)
    BY <1>1, <2>2, ForgetEffect DEF OpenRefused, OpenAnnounced, OpenJoined, OpenTimeout,
       OpenWithdrawn, OpenNotConfirmed, streams, chunks, history
  <2> QED
    BY <2>1, <2>2
<1> QED
  BY <1>2, <1>3 DEF Effect

LEMMA BeginEffect ==
  ASSUME WireInv, NEW p \in Proc, NEW s \in Ksid,
         (\E predefined \in BOOLEAN : OpenNew(p, s, predefined)) \/ OpenJoin(p, s)
         \/ Close(p, s)
  PROVE  Effect
<1> DEFINE k == Site[p]
<1>1. /\ TypeOK /\ CallsType /\ RestType /\ ObjType /\ k \in Kme
      /\ {"announce", "establish", "close"} \subseteq Awaits
  BY MineType, WireParts
<1>2. ASSUME NEW predefined \in BOOLEAN, OpenNew(p, s, predefined) PROVE Effect
  <2> DEFINE o == [NewStream EXCEPT !.localOpen = TRUE]
             c == [Idle EXCEPT !.s = s, !.n = cur'[k][s], !.predefined = predefined]
  <2>1. /\ Create(k, s, o) /\ Send(p, c, "announce", net)
        /\ UNCHANGED <<reply, chunks, stored, faults>>
    BY <1>2 DEF OpenNew
  <2>2. o \in Stream /\ o.nextAlloc = 0
    BY NewStreamType DEF NewStream
  <2>3. cur'[k][s] \in Object /\ Creates(k, s)
    <3> HIDE DEF o
    <3>1. made' = made
      BY <2>1 DEF chunks
    <3>2. /\ cur[k][s] = None
          /\ \E n \in Object :
               /\ Spare(k, s, n) /\ SetStream(k, s, n, o)
               /\ cur'[k][s] = n
               /\ \A j \in Kme, t \in Ksid : j # k \/ t # s => cur'[j][t] = cur[j][t]
          /\ \A j \in Kme, t \in Ksid :
               /\ lives'[j][t] = IF j = k /\ t = s THEN lives[k][s] + 1 ELSE lives[j][t]
               /\ got'[j][t] = IF j = k /\ t = s THEN [i \in Index |-> None] ELSE got[j][t]
      BY <1>1, <2>1, <2>2, <3>1, CreateStep
    <3> QED
      BY <2>1, <3>1, <3>2 DEF Creates, o
  <2>4. c \in Call /\ c.s = s /\ c.n = cur'[k][s]
    BY <2>3, IdleType DEF Call
  <2> HIDE DEF c
  <2>5. CallsEffect
    BY <1>1, <2>1, <2>4, SendEffect
  <2> QED
    BY <1>1, <2>1, <2>3, <2>5 DEF Effect, DataEffect, ConfirmEffect, chunks
<1> DEFINE c == [Idle EXCEPT !.s = s, !.n = cur[k][s]]
<1>3. ASSUME Has(k, s) PROVE c \in Call /\ c.s = s /\ c.n = cur[k][s] /\ cur[k][s] \in Object
  <2>1. cur[k][s] \in Object
    BY <1>1, <1>3, TheType
  <2> QED
    BY <2>1, IdleType DEF Call
<1>4. ASSUME NEW t \in {"establish", "close"}, Has(k, s), Send(p, c, t, net), cur' = cur
      PROVE  CallsEffect
  <2>1. c \in Call /\ c.n = cur'[k][c.s]
    BY <1>3, <1>4
  <2> HIDE DEF c
  <2> QED
    BY <1>1, <1>4, <2>1, SendEffect
<1>5. CASE OpenJoin(p, s)
  BY <1>4, <1>5, ForgetEffect DEF OpenJoin, Effect, streams, chunks, history
<1>6. CASE Close(p, s)
  <2> DEFINE q == [The(k, s) EXCEPT !.localClosed = TRUE]
  <2>1. Has(k, s) /\ SetStream(k, s, cur[k][s], q) /\ Send(p, c, "close", net)
        /\ UNCHANGED <<cur, got, stored, made, confirmed, lives>>
    BY <1>6 DEF Close, Open, chunks, history
  <2>2. /\ cur[k][s] \in Object /\ q \in Stream /\ Trimmed(The(k, s), q)
    BY <1>1, <2>1, TheType, StreamType, TrimmedType
  <2> HIDE DEF q
  <2>3. DataEffect /\ ConfirmEffect
    BY <1>1, <2>1, <2>2, TrimEffect DEF The
  <2> QED
    BY <1>4, <2>1, <2>3 DEF Effect
<1> QED
  BY <1>2, <1>5, <1>6
LEMMA ContinueEffect ==
  ASSUME WireInv, NEW p \in Proc, Continue(p)
  PROVE  Effect
<1> DEFINE c == call[p]
           o == Mine(p)
           k == Site[p]
<1>1. /\ k \in Kme /\ c \in Call /\ c.s \in Ksid /\ c.n \in Object /\ c.i \in Index
      /\ o \in Stream /\ o = obj[k][c.s][c.n]
      /\ Replies = {"none", "ok", "empty", "lost", "conflict", "failed"}
  BY MineType, WireParts DEF Mine
<1>2. ASSUME NEW q \in Stream, NEW r \in Replies, Trimmed(o, q), ~Free(p),
             SetStream(k, c.s, c.n, q), Finish(p, c, r),
             UNCHANGED <<cur, net, chunks, history, faults>>
      PROVE  Effect
  <2>1. CallsEffect
    BY <1>1, <1>2, FinishEffect
  <2>2. Refers(p, k, c.s, c.n)
    BY <1>2 DEF Refers
  <2>3. DataEffect /\ ConfirmEffect
    BY <1>1, <1>2, <2>2, TrimEffect DEF chunks, history
  <2> QED
    BY <2>1, <2>3 DEF Effect
<1>3. ~TakeLater(p)
  BY DEF TakeLater, WireInv, NoLock
<1>4. CASE ChunkStored(p)
  <2>1. /\ Finish(p, c, "ok") /\ UNCHANGED <<cur, net, made, stored, lives, faults>>
        /\ c.pc = "chunk" /\ reply[p] = "ok" /\ confirmed' = confirmed \cup {c.x}
    BY <1>4 DEF ChunkStored, Hears
  <2>2. CallsEffect /\ ConfirmEffect
    BY <1>1, <2>1, FinishEffect DEF ConfirmEffect
  <2>3. CASE UNCHANGED <<obj, got>>
    <3>1. Forgets
      BY <2>1, <2>3 DEF Forgets
    <3> QED
      BY <2>2, <3>1 DEF Effect, DataEffect
  <2>4. CASE /\ o.chunk[c.i] # None /\ SetStream(k, c.s, c.n, Read(o, c.i))
             /\ got' = [got EXCEPT ![k][c.s][c.i] = o.chunk[c.i]]
    <3>1. Reads(k, c.s, c.n, c.i)
      BY <1>1, <2>1, <2>4 DEF Reads
    <3> QED
      BY <1>1, <2>2, <3>1 DEF Effect, DataEffect
  <2> QED
    BY <1>4, <2>3, <2>4 DEF ChunkStored
<1>5. CASE ChunkRefused(p) \/ NotAllocated(p)
  BY <1>1, <1>5, GiveUpEffect DEF ChunkRefused, NotAllocated
<1>6. CASE PeerLostStream(p)
  <2>1. Closed(o) \in Stream /\ Trimmed(o, Closed(o))
    BY <1>1, StreamType, TrimmedType
  <2>2. ~Free(p)
    BY <1>6 DEF PeerLostStream, Hears, Free
  <2> QED
    BY <1>1, <1>2, <1>6, <2>1, <2>2 DEF PeerLostStream
<1>7. CASE Allocated(p)
  <2>1. c.pc = "allocate" /\ ReadObtained(p) /\ k # Allocator
    BY <1>7 DEF Allocated, Hears, WireInv, Sides
  <2>2. CASE o.chunk[c.i] # None /\ Deliver(p, c)
    BY <1>1, <2>1, <2>2, DeliverEffect
  <2>3. CASE GiveUp(p, c, "none", net)
    BY <1>1, <2>3, GiveUpEffect
  <2> QED
    BY <2>1, <2>2, <2>3 DEF ReadObtained, DeliverIfItFits
<1>8. CASE CloseDone(p)
  <2> DEFINE q == IF o.peerClosed THEN Closed(o) ELSE [o EXCEPT !.state = "CLOSING"]
  <2>1. q \in Stream /\ Trimmed(o, q)
    BY <1>1, StreamType, TrimmedType
  <2>2. ~Free(p) /\ SetStream(k, c.s, c.n, q) /\ Finish(p, c, "none")
        /\ UNCHANGED <<cur, net, chunks, history, faults>>
    BY <1>8 DEF CloseDone, Free
  <2> HIDE DEF q
  <2> QED
    BY <1>1, <1>2, <2>1, <2>2
<1> QED
  BY <1>3, <1>4, <1>5, <1>6, <1>7, <1>8, OpenEffect DEF Continue

LEMMA HandlerEffect ==
  ASSUME WireInv, ~Contended, NEW m \in net, Serve(m)
  PROVE  Effect
<1> DEFINE k == m.to
           s == m.s
           o == The(k, s)
<1>1. /\ TypeOK /\ CallsType /\ RestType /\ ObjType
      /\ Replies = {"none", "ok", "empty", "lost", "conflict", "failed"}
      /\ k \in Kme /\ s \in Ksid /\ m.i \in Index
      /\ Has(k, s) => o \in Stream /\ cur[k][s] \in Object
  BY WireParts, TheType DEF CallsType, GoodRequest, Request
<1>2. ASSUME NEW r \in Replies, Refuse(m, r) PROVE Effect
  BY <1>2, AnswerEffect, ForgetEffect DEF Refuse, Effect, streams, chunks, history
<1>3. ASSUME NEW q \in Stream, Has(k, s), Trimmed(o, q), SetStream(k, s, cur[k][s], q),
             Answer(m, "ok"), UNCHANGED <<cur, chunks, history, faults>>
      PROVE  Effect
  <2>1. DataEffect /\ ConfirmEffect
    BY <1>1, <1>3, TrimEffect DEF The, chunks, history
  <2> QED
    BY <1>3, <2>1, AnswerEffect DEF Effect
<1>4. CASE OnAnnounce(m)
  <2> DEFINE joined == [o EXCEPT !.peerOpen = TRUE,
                                 !.state = IF o.localOpen THEN "ESTABLISHED" ELSE @,
                                 !.established = @ \/ o.localOpen]
  <2>1. CASE Refuse(m, "conflict")
    BY <1>1, <1>2, <2>1
  <2>2. CASE /\ Has(k, s) /\ o.state # "CLOSED" /\ SetStream(k, s, cur[k][s], joined)
             /\ Answer(m, "ok") /\ UNCHANGED <<cur, chunks, history, faults>>
    <3>1. joined \in Stream /\ Trimmed(o, joined)
      BY <1>1, <2>2, JoinType, TrimmedJoin
    <3> HIDE DEF joined
    <3> QED
      BY <1>3, <2>2, <3>1
  <2>3. CASE /\ Create(k, s, [NewStream EXCEPT !.peerOpen = TRUE])
             /\ Answer(m, "ok") /\ UNCHANGED <<chunks, stored, faults>>
    <3> DEFINE new == [NewStream EXCEPT !.peerOpen = TRUE]
    <3>1. new \in Stream /\ new.nextAlloc = 0
      BY NewStreamType DEF NewStream
    <3> HIDE DEF new
    <3>2. made' = made /\ confirmed' = confirmed /\ Create(k, s, new)
      BY <2>3 DEF chunks, new
    <3>3. /\ cur[k][s] = None
          /\ \E n \in Object :
               /\ Spare(k, s, n) /\ SetStream(k, s, n, new)
               /\ cur'[k][s] = n
               /\ \A j \in Kme, t \in Ksid : j # k \/ t # s => cur'[j][t] = cur[j][t]
          /\ \A j \in Kme, t \in Ksid :
               /\ lives'[j][t] = IF j = k /\ t = s THEN lives[k][s] + 1 ELSE lives[j][t]
               /\ got'[j][t] = IF j = k /\ t = s THEN [i \in Index |-> None] ELSE got[j][t]
      BY <1>1, <3>1, <3>2, CreateStep
    <3>4. Creates(k, s)
      BY <2>3, <3>2, <3>3 DEF Creates, new
    <3> QED
      BY <1>1, <2>3, <3>2, <3>4, AnswerEffect DEF Effect, DataEffect, ConfirmEffect
  <2> QED
    BY <1>4, <2>1, <2>2, <2>3 DEF OnAnnounce
<1>5. CASE OnEstablish(m)
  <2> DEFINE joined == [o EXCEPT !.peerOpen = TRUE, !.state = "ESTABLISHED",
                                 !.established = TRUE]
  <2>1. CASE Refuse(m, "lost")
    BY <1>1, <1>2, <2>1
  <2>2. CASE /\ Open(k, s) /\ SetStream(k, s, cur[k][s], joined) /\ Answer(m, "ok")
             /\ UNCHANGED <<cur, chunks, history, faults>>
    <3>1. Has(k, s) /\ joined \in Stream /\ Trimmed(o, joined)
      BY <1>1, <2>2, JoinType, TrimmedType DEF Open
    <3> HIDE DEF joined
    <3> QED
      BY <1>3, <2>2, <3>1
  <2> QED
    BY <1>5, <2>1, <2>2 DEF OnEstablish
<1>6. CASE OnWithdraw(m)
  <2>1. UNCHANGED <<obj, got, stored, made, confirmed, lives>>
        /\ (cur' = cur \/ Remove(k, s)) /\ Answer(m, "ok")
    BY <1>6 DEF OnWithdraw, chunks, history
  <2> QED
    BY <1>1, <2>1, AnswerEffect, ForgetEffect DEF Effect
<1>7. CASE OnChunk(m)
  <2>1. CASE Refuse(m, "lost") \/ Refuse(m, "ok") \/ Refuse(m, "conflict")
    BY <1>1, <1>2, <2>1
  <2>2. CASE Stores(m) /\ Answer(m, "ok") /\ confirmed' = confirmed
    BY <2>2, AnswerEffect DEF Effect, DataEffect, ConfirmEffect
  <2> QED
    BY <1>7, <2>1, <2>2 DEF OnChunk, StoreChunk, Stores, chunks
<1>8. CASE OnClose(m)
  <2> DEFINE closing == [o EXCEPT !.peerClosed = TRUE]
             q == IF closing.localClosed \/ ~closing.localOpen THEN Closed(closing) ELSE closing
  <2>1. CASE Refuse(m, "lost")
    BY <1>1, <1>2, <2>1
  <2>2. CASE /\ Has(k, s) /\ SetStream(k, s, cur[k][s], q) /\ Answer(m, "ok")
             /\ UNCHANGED <<cur, chunks, history, faults>>
    <3>1. closing \in Stream
      BY <1>1, <2>2, StreamType
    <3>2. q \in Stream /\ Trimmed(o, q)
      BY <1>1, <2>2, <3>1, StreamType, TrimmedType
    <3> HIDE DEF q
    <3> QED
      BY <1>3, <2>2, <3>2
  <2> QED
    BY <1>8, <2>1, <2>2 DEF OnClose
<1>9. ASSUME NEW h \in Handler, OnAllocate(h, m) PROVE Effect
  <2> DEFINE c == [Idle EXCEPT !.s = s, !.n = cur[Allocator][s], !.i = m.i, !.from = m.from]
  <2>1. CASE Refuse(m, "lost") \/ Refuse(m, "empty")
    BY <1>1, <1>2, <2>1
  <2>2. CASE Open(Allocator, s) /\ Obtain(h, c, net \ {m})
    <3>1. cur[Allocator][s] \in Object /\ m.from \in Proc \cup {Nobody}
      BY <1>1, <2>2, EngineAssumption, TheType DEF Open, CallsType, GoodRequest, Request
    <3>2. c \in Call /\ c.s = s /\ c.n = cur[Allocator][s]
      BY <1>1, <3>1, IdleType DEF Call
    <3>3. obj[Allocator][c.s][c.n].state # "CLOSED"
      BY <2>2, <3>2 DEF Open, The
    <3> HIDE DEF c
    <3>4. h \in Proc /\ Site[h] = Allocator /\ net \ {m} \in SUBSET net
      BY EngineAssumption DEF Proc
    <3> QED
      BY <2>2, <3>2, <3>3, <3>4, ObtainEffect
  <2> QED
    BY <1>9, <2>1, <2>2 DEF OnAllocate
<1> QED
  BY <1>4, <1>5, <1>6, <1>7, <1>8, <1>9 DEF Serve

LEMMA SweepEffect ==
  ASSUME WireInv, Sweep
  PROVE  Effect
<1>1. CallsEffect
  BY StayEffect DEF Sweep, SweepStream, SweepRecord, SweepChunk, calls
<1>2. PICK k \in Kme, s \in Ksid :
        SweepStream(k, s) \/ SweepRecord(k, s) \/ \E i \in Index : SweepChunk(k, s, i)
  BY DEF Sweep
<1> DEFINE o == The(k, s)
<1>3. cur[k][s] \in Object /\ o \in Stream
  BY <1>2, WireParts, TheType DEF SweepStream, SweepRecord, SweepChunk, Open
<1>4. ASSUME NEW q \in Stream, Trimmed(o, q), SetStream(k, s, cur[k][s], q),
             UNCHANGED <<cur, chunks, history>>
      PROVE  Effect
  BY <1>1, <1>3, <1>4, TrimEffect DEF Effect, The, chunks, history
<1>5. CASE SweepStream(k, s)
  BY <1>3, <1>4, <1>5, StreamType, TrimmedType DEF SweepStream
<1>6. ASSUME NEW i \in Index, SweepChunk(k, s, i) PROVE Effect
  <2>1. SetStream(k, s, cur[k][s], [o EXCEPT !.chunk[i] = None]) /\ UNCHANGED <<cur, chunks, history>>
    BY <1>6 DEF SweepChunk
  <2> HIDE DEF o
  <2>2. [o EXCEPT !.chunk[i] = None] \in Stream
    BY <1>3, StreamType
  <2>3. Trimmed(o, [o EXCEPT !.chunk[i] = None])
    BY <1>3, TrimmedType
  <2> QED
    BY <1>4, <2>1, <2>2, <2>3
<1>7. CASE SweepRecord(k, s)
  BY <1>1, <1>7, ForgetEffect DEF SweepRecord, Effect, chunks, history
<1> QED
  BY <1>2, <1>5, <1>6, <1>7

LEMMA OrphanEnds ==
  ASSUME WireInv, NEW P, Orphan(P)
  PROVE  \A m \in net' : \E l \in net :
           m.type = l.type /\ m.to = l.to /\ m.s = l.s /\ m.i = l.i /\ m.x = l.x
<1>1. PICK L \in SUBSET {m \in net : m.from \in P} :
        net' = {m \in net : m.from \notin P} \cup {[m EXCEPT !.from = Nobody] : m \in L}
  BY DEF Orphan
<1>2. \A l \in GoodRequest : LET m == [l EXCEPT !.from = Nobody]
        IN m.type = l.type /\ m.to = l.to /\ m.s = l.s /\ m.i = l.i /\ m.x = l.x
  BY DEF GoodRequest, Request
<1>3. net \subseteq GoodRequest
  BY WireParts DEF CallsType
<1> DEFINE Alike(m, l) == /\ m.type = l.type /\ m.to = l.to /\ m.s = l.s
                          /\ m.i = l.i /\ m.x = l.x
<1>4. ASSUME NEW l \in net PROVE Alike([l EXCEPT !.from = Nobody], l)
  BY <1>2, <1>3, <1>4
<1>5. \A m \in net : Alike(m, m)
  OBVIOUS
<1> HIDE DEF Alike
<1>6. ASSUME NEW m \in net' PROVE \E l \in net : Alike(m, l)
  <2>1. CASE m \in net
    BY <1>5, <2>1
  <2>2. CASE m \notin net
    <3>1. PICK l \in L : m = [l EXCEPT !.from = Nobody]
      BY <1>1, <2>2
    <3> QED
      BY <1>1, <1>4, <3>1
  <2> QED
    BY <2>1, <2>2
<1> QED
  BY <1>6 DEF Alike

LEMMA FailEffect ==
  ASSUME WireInv, (\E p \in Proc : PeerFails(p)) \/ \E k \in Kme : Restart(k)
  PROVE  Ends /\ Effect
<1>1. call \in [Proc -> Call]
  BY WireParts DEF CallsType
<1>2. \A c \in Call : /\ [c EXCEPT !.from = Nobody].pc = c.pc
                      /\ [c EXCEPT !.from = Nobody].s = c.s
                      /\ [c EXCEPT !.from = Nobody].n = c.n
                      /\ [c EXCEPT !.from = Nobody].i = c.i
                      /\ [c EXCEPT !.from = Nobody].x = c.x
  BY DEF Call
<1>3. ASSUME \A q \in Proc : call'[q] \in {call[q], Idle, [call[q] EXCEPT !.from = Nobody]},
             NEW P, Orphan(P)
      PROVE  Ends
  <2>1. ASSUME NEW q \in Proc
        PROVE  \/ Free(q)'
               \/ /\ ~Free(q) /\ call'[q].pc = call[q].pc
                  /\ call'[q].s = call[q].s /\ call'[q].n = call[q].n
                  /\ call'[q].i = call[q].i /\ call'[q].x = call[q].x
    BY <1>1, <1>2, <1>3, IdleType DEF Free
  <2> QED
    BY <1>3, <2>1, OrphanEnds DEF Ends
<1>4. ASSUME NEW p \in Proc, PeerFails(p) PROVE Ends /\ Effect
  <2>1. Ends
    BY <1>3, <1>4 DEF PeerFails
  <2> QED
    BY <1>4, <2>1, ForgetEffect DEF Effect, CallsEffect, PeerFails, streams, chunks, history
<1>5. ASSUME NEW k \in Kme, Restart(k) PROVE Ends /\ Effect
  <2>1. Ends
    BY <1>3, <1>5 DEF Restart
  <2>2. cur' = [cur EXCEPT ![k] = [s \in Ksid |-> None]]
        /\ UNCHANGED <<obj, got, stored, made, confirmed, lives>>
    BY <1>5 DEF Restart, chunks, history
  <2> QED
    BY <2>1, <2>2, ForgetEffect DEF Effect, CallsEffect
<1> QED
  BY <1>4, <1>5

\* Every step of the engines has such an effect.
LEMMA StepEffect ==
  ASSUME WireInv, ~Contended, [Next]_vars
  PROVE  Effect
<1>1. ASSUME NEW p \in App, Begin(p) PROVE Effect
  BY <1>1, WireParts, BeginEffect, GetKeyEffect DEF Begin
<1>2. CASE UNCHANGED vars
  BY <1>2, StayEffect, ForgetEffect DEF Effect, vars, streams, calls, chunks, history
<1> QED
  BY <1>1, <1>2, ContinueEffect, HandlerEffect, SweepEffect, FailEffect DEF Next

\* No call ever waits for the lock, and pushes go one way.
LEMMA WireInit == Init => WireInv
BY TypeInit, IdleType DEF Init, WireInv, NoLock, Sides

LEMMA WireStep ==
  ASSUME ~Contended
  PROVE  WireInv /\ [Next]_vars => WireInv'
<1> SUFFICES ASSUME WireInv, [Next]_vars PROVE WireInv'
  OBVIOUS
<1>1. TypeInv'
  BY TypeStep DEF WireInv
<1>2. CASE Ends
  <2>1. NoLock'
    BY <1>2 DEF Ends, NoLock, WireInv, Free
  <2>2. Sides'
    BY <1>2 DEF Ends, Sides, WireInv, Free
  <2> QED
    BY <1>1, <2>1, <2>2 DEF WireInv
<1>3. ASSUME NEW p \in Proc, NEW c \in Call, NEW t \in Awaits, Starts(p, c, t) PROVE WireInv'
  <2>1. call'[p].pc = t /\ t # "take"
    BY <1>3 DEF Starts, Call, Awaits
  <2>2. NoLock'
    BY <1>3, <2>1 DEF Starts, NoLock, WireInv
  <2>3. Sides'
    <3>1. \A q \in Proc : /\ call'[q].pc = "chunk" => Site[q] = Allocator
                          /\ call'[q].pc = "allocate" => Site[q] # Allocator
      BY <1>3, <2>1 DEF Starts, Sides, WireInv
    <3>2. ASSUME NEW m \in net', m.type = "chunk" PROVE m.to = Peer[Allocator]
      BY <1>3, <3>2 DEF Starts, Sides, WireInv
    <3> QED
      BY <3>1, <3>2 DEF Sides
  <2> QED
    BY <1>1, <2>2, <2>3 DEF WireInv
<1> QED
  BY <1>2, <1>3, StepEffect DEF Effect, CallsEffect

-----------------------------------------------------------------------------
(* The chunks of one stream.                                               *)

\* A stream o at k holds nothing it delivered and nothing once it is closed, and
\* the allocator's never had a chunk beyond next_alloc.
Tidy(k, o) ==
  \A i \in Index :
    /\ i \in o.delivered => o.chunk[i] = None
    /\ k = Allocator /\ (o.chunk[i] # None \/ i \in o.delivered) => i < o.nextAlloc
    /\ o.state = "CLOSED" => o.chunk[i] = None

Slots == \A k \in Kme, s \in Ksid, n \in Object : Tidy(k, obj[k][s][n])

\* q holds no other chunk than o at an index where o holds one.
Same(o, q) == \A i \in Index : o.chunk[i] # None => q.chunk[i] \in {o.chunk[i], None}

LEMMA NewIsTidy ==
  ASSUME NEW k, NEW o \in {[NewStream EXCEPT !.localOpen = TRUE],
                           [NewStream EXCEPT !.peerOpen = TRUE]}, NEW p
  PROVE  o \in Stream /\ Tidy(k, o) /\ o.delivered = {} /\ \A i \in Index : o.chunk[i] = None
<1>1. o \in Stream
  BY NewStreamType
<1>2. o.delivered = {} /\ o.state = "PENDING_PEER" /\ \A i \in Index : o.chunk[i] = None
  BY DEF NewStream
<1> QED
  BY <1>1, <1>2 DEF Tidy

LEMMA TrimIsTidy ==
  ASSUME NEW k, NEW o \in Stream, NEW q \in Stream, Tidy(k, o),
         q.delivered = o.delivered, q.nextAlloc = o.nextAlloc,
         \A i \in Index : q.chunk[i] \in {o.chunk[i], None},
         q.state = "CLOSED" => o.state = "CLOSED" \/ \A i \in Index : q.chunk[i] = None
  PROVE  Tidy(k, q) /\ Same(o, q)
BY DEF Tidy, Same

LEMMA ReadIsTidy ==
  ASSUME NEW k, NEW o \in Stream, NEW i \in Index, Tidy(k, o), o.chunk[i] # None
  PROVE  /\ Read(o, i) \in Stream /\ Tidy(k, Read(o, i)) /\ Same(o, Read(o, i))
         /\ Read(o, i).delivered = o.delivered \cup {i}
         /\ Read(o, i).nextAlloc = o.nextAlloc
         /\ \A j \in Index : Read(o, i).chunk[j] = IF j = i THEN None ELSE o.chunk[j]
<1> DEFINE q == Read(o, i)
<1>1. /\ q \in Stream /\ q.delivered = o.delivered \cup {i} /\ q.state = o.state
      /\ q.nextAlloc = o.nextAlloc
      /\ \A j \in Index : q.chunk[j] = IF j = i THEN None ELSE o.chunk[j]
  BY DEF Read, Stream, None
<1> HIDE DEF q
<1>2. Tidy(k, q)
  BY <1>1 DEF Tidy
<1>3. Same(o, q)
  BY <1>1 DEF Same
<1> QED
  BY <1>1, <1>2, <1>3 DEF q

LEMMA MakeIsTidy ==
  ASSUME NEW o \in Stream, NEW q \in Stream, NEW i \in Index, NEW x \in Serial,
         Tidy(Allocator, o), o.state # "CLOSED", i = o.nextAlloc,
         q.delivered = o.delivered, q.state = o.state, q.nextAlloc = o.nextAlloc + 1,
         \A j \in Index : q.chunk[j] = IF j = i THEN x ELSE o.chunk[j]
  PROVE  Tidy(Allocator, q) /\ Same(o, q) /\ o.chunk[i] = None /\ i \notin o.delivered
<1>1. o.nextAlloc \in Nat /\ i \in Nat
  BY Numbers DEF Stream
<1>2. i \notin o.delivered /\ o.chunk[i] = None
  BY <1>1 DEF Tidy
<1>3. ASSUME NEW j \in Index, q.chunk[j] # None \/ j \in q.delivered PROVE j < q.nextAlloc
  <2>1. j \in Nat
    BY Numbers DEF Index
  <2>2. CASE j = i
    BY <1>1, <2>2
  <2>3. CASE j # i
    <3>1. j < o.nextAlloc
      BY <1>3, <2>3 DEF Tidy
    <3> QED
      BY <1>1, <2>1, <3>1
  <2> QED
    BY <2>2, <2>3
<1>4. Tidy(Allocator, q)
  BY <1>2, <1>3 DEF Tidy
<1>5. Same(o, q)
  BY <1>2 DEF Same
<1> QED
  BY <1>2, <1>4, <1>5

LEMMA StoreIsTidy ==
  ASSUME NEW k, k # Allocator, NEW o \in Stream, NEW q \in Stream,
         NEW i \in Index, NEW x \in Serial,
         Tidy(k, o), o.state # "CLOSED", ~Repeat(o, i, x), ~Conflict(o, i, x),
         q.delivered = o.delivered, q.state = o.state,
         \A j \in Index : q.chunk[j] = IF j = i THEN x ELSE o.chunk[j]
  PROVE  Tidy(k, q) /\ Same(o, q) /\ o.chunk[i] = None /\ i \notin o.delivered
<1>1. o.chunk[i] = None /\ i \notin o.delivered
  BY DEF Repeat, Conflict
<1>2. Tidy(k, q)
  BY <1>1 DEF Tidy
<1>3. Same(o, q)
  BY <1>1 DEF Same
<1> QED
  BY <1>1, <1>2, <1>3

\* A step writes at most one stream, and leaves it tidy.
Writes(k, s, n, q) == SetStream(k, s, n, q) /\ Tidy(k, q) /\ Same(obj[k][s][n], q)

\* The stream that Makes and Stores write.
Made(s, n, i, q) ==
  LET o == obj[Allocator][s][n]
  IN /\ SetStream(Allocator, s, n, q)
     /\ o.state # "CLOSED" /\ i = o.nextAlloc /\ made + 1 \in Serial
     /\ q.delivered = o.delivered /\ q.state = o.state /\ q.nextAlloc = o.nextAlloc + 1
     /\ \A j \in Index : q.chunk[j] = IF j = i THEN made + 1 ELSE o.chunk[j]

StoredAt(m, q) ==
  LET o == The(m.to, m.s)
  IN /\ SetStream(m.to, m.s, cur[m.to][m.s], q)
     /\ q.delivered = o.delivered /\ q.state = o.state /\ q.nextAlloc = o.nextAlloc
     /\ \A j \in Index : q.chunk[j] = IF j = m.i THEN m.x ELSE o.chunk[j]

LEMMA MakeParts ==
  ASSUME WireInv, NEW s \in Ksid, NEW n \in Object, NEW i \in Index, Makes(s, n, i)
  PROVE  \E q \in Stream : Made(s, n, i, q)
<1> DEFINE o == obj[Allocator][s][n]
           x == made + 1
           q == [o EXCEPT !.chunk[i] = x, !.nextAlloc = @ + 1]
<1>1. o \in Stream /\ o.nextAlloc <= made /\ o.nextAlloc \in Nat /\ made \in Nat
  BY WireParts, Numbers DEF ObjType, Objects, Stream, RestType
<1>2. x \in Serial /\ o.nextAlloc < x
  BY <1>1, Numbers DEF Makes, Serial
<1>3. SetStream(Allocator, s, n, q) /\ o.state # "CLOSED" /\ i = o.nextAlloc
  BY DEF Makes
<1> HIDE DEF x
<1>4. q \in Stream
  BY <1>1, <1>2, MakeType
<1>5. /\ q.delivered = o.delivered /\ q.state = o.state /\ q.nextAlloc = o.nextAlloc + 1
      /\ \A j \in Index : q.chunk[j] = IF j = i THEN x ELSE o.chunk[j]
  BY <1>1, <1>2 DEF Stream
<1> HIDE DEF q
<1> QED
  BY <1>2, <1>3, <1>4, <1>5 DEF Made, x

\* The request Stores serves comes from the allocator.
LEMMA StoreParts ==
  ASSUME WireInv, NEW m \in net, Stores(m)
  PROVE  /\ m.to \in Kme /\ m.to = Peer[Allocator] /\ m.to # Allocator
         /\ m.s \in Ksid /\ m.i \in Index /\ m.x \in Serial
         /\ cur[m.to][m.s] \in Object /\ The(m.to, m.s) \in Stream
         /\ The(m.to, m.s) = obj[m.to][m.s][cur[m.to][m.s]]
         /\ The(m.to, m.s).state # "CLOSED"
         /\ \E q \in Stream : StoredAt(m, q)
<1> DEFINE o == The(m.to, m.s)
           q == [o EXCEPT !.chunk[m.i] = m.x]
<1>1. m \in GoodRequest
  BY WireParts DEF CallsType
<1>2. m.to = Peer[Allocator] /\ m.x # None /\ m.x \in Serial \cup {None}
      /\ m.to \in Kme /\ m.s \in Ksid /\ m.i \in Index
  BY <1>1 DEF Stores, WireInv, Sides, GoodRequest, Request
<1>3. m.to # Allocator
  BY <1>2, EngineAssumption
<1>4. /\ cur[m.to][m.s] \in Object /\ o \in Stream /\ o = obj[m.to][m.s][cur[m.to][m.s]]
      /\ o.state # "CLOSED"
  BY <1>2, WireParts, TheType DEF Stores, Open, The
<1>5. SetStream(m.to, m.s, cur[m.to][m.s], q)
  BY DEF Stores
<1> HIDE DEF o
<1>6. q \in Stream
  BY <1>2, <1>4, FillType
<1>7. /\ q.delivered = o.delivered /\ q.state = o.state /\ q.nextAlloc = o.nextAlloc
      /\ \A j \in Index : q.chunk[j] = IF j = m.i THEN m.x ELSE o.chunk[j]
  BY <1>2, <1>4 DEF Stream
<1> HIDE DEF q
<1>8. StoredAt(m, q)
  BY <1>5, <1>7 DEF StoredAt, o
<1> QED
  BY <1>2, <1>3, <1>4, <1>6, <1>8 DEF o

LEMMA DataWrites ==
  ASSUME WireInv, Slots, DataEffect
  PROVE  \/ obj' = obj
         \/ \E k \in Kme, s \in Ksid, n \in Object, q \in Stream : Writes(k, s, n, q)
<1>1. /\ \A k \in Kme, s \in Ksid, n \in Object : obj[k][s][n] \in Stream
      /\ made \in Nat
  BY WireParts, Numbers DEF ObjType, Objects, RestType
<1>2. ASSUME NEW k \in Kme, NEW s \in Ksid, Creates(k, s)
      PROVE  \E n \in Object, q \in Stream : Writes(k, s, n, q)
  <2>1. PICK n \in Object, o \in {[NewStream EXCEPT !.localOpen = TRUE],
                                  [NewStream EXCEPT !.peerOpen = TRUE]} : SetStream(k, s, n, o)
    BY <1>2 DEF Creates
  <2>2. o \in Stream /\ Tidy(k, o) /\ \A i \in Index : o.chunk[i] = None
    BY NewIsTidy
  <2>3. Same(obj[k][s][n], o)
    BY <2>2 DEF Same
  <2> QED
    BY <2>1, <2>2, <2>3 DEF Writes
<1>3. ASSUME NEW k \in Kme, NEW s \in Ksid, NEW n \in Object, Trims(k, s, n)
      PROVE  \E q \in Stream : Writes(k, s, n, q)
  BY <1>1, <1>3, TrimIsTidy DEF Trims, Slots, Writes
<1>4. ASSUME NEW k \in Kme, NEW s \in Ksid, NEW n \in Object, NEW i \in Index, Reads(k, s, n, i)
      PROVE  \E q \in Stream : Writes(k, s, n, q)
  BY <1>1, <1>4, ReadIsTidy DEF Reads, Slots, Writes
<1>5. ASSUME NEW s \in Ksid, NEW n \in Object, NEW i \in Index, Makes(s, n, i)
      PROVE  \E q \in Stream : Writes(Allocator, s, n, q)
  <2>1. PICK q \in Stream : Made(s, n, i, q)
    BY <1>5, MakeParts
  <2>2. Tidy(Allocator, q) /\ Same(obj[Allocator][s][n], q)
    BY <1>1, <2>1, MakeIsTidy, WireParts DEF Made, Slots
  <2> QED
    BY <2>1, <2>2 DEF Writes, Made
<1>6. ASSUME NEW m \in net, Stores(m)
      PROVE  \E k \in Kme, s \in Ksid, n \in Object, q \in Stream : Writes(k, s, n, q)
  <2> DEFINE o == The(m.to, m.s)
  <2>1. /\ m.to \in Kme /\ m.to # Allocator /\ m.s \in Ksid /\ m.i \in Index /\ m.x \in Serial
        /\ cur[m.to][m.s] \in Object /\ o \in Stream /\ o = obj[m.to][m.s][cur[m.to][m.s]]
        /\ o.state # "CLOSED" /\ ~Repeat(o, m.i, m.x) /\ ~Conflict(o, m.i, m.x)
    BY <1>6, StoreParts DEF Stores
  <2>2. PICK q \in Stream : StoredAt(m, q)
    BY <1>6, StoreParts
  <2>3. Tidy(m.to, o)
    BY <2>1 DEF Slots
  <2>4. /\ q.delivered = o.delivered /\ q.state = o.state
        /\ \A j \in Index : q.chunk[j] = IF j = m.i THEN m.x ELSE o.chunk[j]
    BY <2>2 DEF StoredAt
  <2> DEFINE k == m.to
             i == m.i
             x == m.x
  <2> HIDE DEF o
  <2>5. /\ k # Allocator /\ i \in Index /\ x \in Serial /\ o \in Stream /\ Tidy(k, o)
        /\ o.state # "CLOSED" /\ ~Repeat(o, i, x) /\ ~Conflict(o, i, x)
        /\ q.delivered = o.delivered /\ q.state = o.state
        /\ \A j \in Index : q.chunk[j] = IF j = i THEN x ELSE o.chunk[j]
    BY <2>1, <2>3, <2>4
  <2> HIDE DEF k, i, x
  <2>6. Tidy(k, q) /\ Same(o, q)
    BY <2>5, StoreIsTidy
  <2> QED
    BY <2>1, <2>2, <2>6 DEF Writes, StoredAt, k, o
<1>7. CASE Forgets
  BY <1>7 DEF Forgets
<1> QED
  BY <1>2, <1>3, <1>4, <1>5, <1>6, <1>7, WireParts DEF DataEffect

LEMMA SlotsStep ==
  ASSUME WireInv, Slots, DataEffect
  PROVE  /\ Slots'
         /\ \A k \in Kme, s \in Ksid, n \in Object : Same(obj[k][s][n], obj'[k][s][n])
<1>1. obj \in Objects
  BY WireParts DEF ObjType
<1>2. CASE obj' = obj
  BY <1>2 DEF Slots, Same, Tidy
<1>3. ASSUME NEW k \in Kme, NEW s \in Ksid, NEW n \in Object, NEW q \in Stream,
             Writes(k, s, n, q)
      PROVE  Slots' /\ \A j \in Kme, t \in Ksid, m \in Object : Same(obj[j][t][m], obj'[j][t][m])
  <2>1. /\ obj'[k][s][n] = q
        /\ \A j \in Kme, t \in Ksid, m \in Object :
             j # k \/ t # s \/ m # n => obj'[j][t][m] = obj[j][t][m]
    BY <1>1, <1>3, SetStreamStep DEF Writes
  <2>2. ASSUME NEW j \in Kme, NEW t \in Ksid, NEW m \in Object
        PROVE  Tidy(j, obj'[j][t][m]) /\ Same(obj[j][t][m], obj'[j][t][m])
    <3>1. CASE j = k /\ t = s /\ m = n
      BY <1>3, <2>1, <3>1 DEF Writes
    <3>2. CASE ~(j = k /\ t = s /\ m = n)
      <4>1. obj'[j][t][m] = obj[j][t][m] /\ Tidy(j, obj[j][t][m])
        BY <2>1, <3>2 DEF Slots
      <4>2. Same(obj[j][t][m], obj[j][t][m])
        BY DEF Same
      <4> QED
        BY <4>1, <4>2
    <3> QED
      BY <3>1, <3>2
  <2>3. \A j \in Kme, t \in Ksid, m \in Object : Tidy(j, obj'[j][t][m])
    BY <2>2
  <2> QED
    BY <2>2, <2>3 DEF Slots, Tidy
<1> QED
  BY <1>2, <1>3, DataWrites

\* The engines' part of the invariant.
SlotsInv == WireInv /\ Slots

LEMMA SlotsInit == Init => SlotsInv
<1> SUFFICES ASSUME Init PROVE Slots
  BY WireInit DEF SlotsInv
<1>1. \A k \in Kme, s \in Ksid, n \in Object : obj[k][s][n] = NewStream
  BY DEF Init
<1> QED
  BY <1>1 DEF Slots, Tidy, NewStream

LEMMA SlotsNext ==
  ASSUME ~Contended
  PROVE  SlotsInv /\ [Next]_vars => SlotsInv'
BY WireStep, StepEffect, SlotsStep DEF SlotsInv, Effect

LEMMA SlotsAlways == ASSUME ~Contended PROVE Spec => []SlotsInv
BY SlotsInit, SlotsNext, PTL DEF Spec

\* Each side reads a chunk once: a stream never again holds the chunk of an
\* index it has delivered (get_key, on_chunk's test of `delivered`).
THEOREM StreamsReadOnce == ASSUME ~Contended PROVE Spec => []ReadOnce
<1>1. SlotsInv => ReadOnce
  BY DEF SlotsInv, Slots, Tidy, ReadOnce
<1> QED
  BY <1>1, SlotsAlways, PTL

\* A closed stream holds no chunk, whatever arrives later (_to_closed, on_chunk).
THEOREM ClosedStreamsAreEmpty == ASSUME ~Contended PROVE Spec => []ClosedHoldsNothing
<1>1. SlotsInv => ClosedHoldsNothing
  BY DEF SlotsInv, Slots, Tidy, ClosedHoldsNothing
<1> QED
  BY <1>1, SlotsAlways, PTL

\* A stream never holds other bytes at an index than it held (on_chunk's 409).
THEOREM ChunksNeverChange == ASSUME ~Contended PROVE Spec => ChunkImmutable
<1> DEFINE A == \A k \in Kme, s \in Ksid, n \in Object, i \in Index :
                  LET x == obj[k][s][n].chunk[i]
                      y == obj'[k][s][n].chunk[i]
                  IN x # None => y \in {x, None}
<1>1. SlotsInv /\ [Next]_vars => [A]_vars
  <2> SUFFICES ASSUME SlotsInv, [Next]_vars PROVE A
    OBVIOUS
  <2>1. \A k \in Kme, s \in Ksid, n \in Object : Same(obj[k][s][n], obj'[k][s][n])
    BY StepEffect, SlotsStep DEF SlotsInv, Effect
  <2> QED
    BY <2>1 DEF Same
<1> HIDE DEF A
<1>2. Spec => [][A]_vars
  BY <1>1, SlotsAlways, PTL DEF Spec
<1> QED
  BY <1>2 DEF ChunkImmutable, A

-----------------------------------------------------------------------------
(* The step of a single stream, from Slots.                                *)

Keeps(o, q) ==
  /\ q.delivered = o.delivered /\ q.nextAlloc = o.nextAlloc
  /\ \A i \in Index : q.chunk[i] \in {o.chunk[i], None}

Fills(o, q, i, x) ==
  /\ q.delivered = o.delivered
  /\ \A j \in Index : q.chunk[j] = IF j = i THEN x ELSE o.chunk[j]

\* What a step makes of object n for s at k.
Becomes(k, s, n, q) ==
  LET o == obj[k][s][n]
  IN \/ Keeps(o, q)
     \/ /\ Creates(k, s) /\ cur'[k][s] = n
        /\ q.delivered = {} /\ \A i \in Index : q.chunk[i] = None
     \/ \E i \in Index : /\ Reads(k, s, n, i) /\ q.delivered = o.delivered \cup {i}
                         /\ q.nextAlloc = o.nextAlloc
                         /\ \A j \in Index : q.chunk[j] \in {o.chunk[j], None}
     \/ \E i \in Index : /\ k = Allocator /\ Makes(s, n, i) /\ i = o.nextAlloc
                         /\ q.nextAlloc = o.nextAlloc + 1 /\ Fills(o, q, i, made + 1)
     \/ \E m \in net : /\ Stores(m) /\ m.to = k /\ m.s = s /\ cur[k][s] = n /\ m.i \in Index
                       /\ q.nextAlloc = o.nextAlloc /\ Fills(o, q, m.i, m.x)

LEMMA StreamStep ==
  ASSUME WireInv, Slots, DataEffect, NEW k \in Kme, NEW s \in Ksid, NEW n \in Object
  PROVE  Becomes(k, s, n, obj'[k][s][n])
<1>1. obj \in Objects /\ \A j \in Kme, t \in Ksid, m \in Object : obj[j][t][m] \in Stream
  BY WireParts DEF ObjType, Objects
<1>2. Keeps(obj[k][s][n], obj[k][s][n])
  BY DEF Keeps
<1>3. ASSUME NEW j \in Kme, NEW t \in Ksid, NEW m \in Object, NEW q \in Stream,
             SetStream(j, t, m, q), j = k /\ t = s /\ m = n => Becomes(k, s, n, q)
      PROVE  Becomes(k, s, n, obj'[k][s][n])
  <2>1. CASE j = k /\ t = s /\ m = n
    BY <1>1, <1>3, <2>1, SetStreamStep
  <2>2. CASE ~(j = k /\ t = s /\ m = n)
    <3>1. obj'[k][s][n] = obj[k][s][n]
      BY <1>1, <1>3, <2>2, SetStreamStep
    <3> QED
      BY <1>2, <3>1 DEF Becomes
  <2> QED
    BY <2>1, <2>2
<1>4. CASE Forgets
  BY <1>2, <1>4 DEF Forgets, Becomes
<1>5. ASSUME NEW j \in Kme, NEW t \in Ksid, Creates(j, t)
      PROVE  Becomes(k, s, n, obj'[k][s][n])
  <2>1. PICK m \in Object, o \in {[NewStream EXCEPT !.localOpen = TRUE],
                                  [NewStream EXCEPT !.peerOpen = TRUE]} :
             SetStream(j, t, m, o) /\ cur'[j][t] = m
    BY <1>5 DEF Creates
  <2>2. o \in Stream /\ o.delivered = {} /\ \A i \in Index : o.chunk[i] = None
    BY NewIsTidy
  <2>3. j = k /\ t = s /\ m = n => Becomes(k, s, n, o)
    BY <1>5, <2>1, <2>2 DEF Becomes
  <2> QED
    BY <1>3, <2>1, <2>2, <2>3
<1>6. ASSUME NEW j \in Kme, NEW t \in Ksid, NEW m \in Object, Trims(j, t, m)
      PROVE  Becomes(k, s, n, obj'[k][s][n])
  <2>1. PICK q \in Stream : SetStream(j, t, m, q) /\ Keeps(obj[j][t][m], q)
    BY <1>6 DEF Trims, Keeps
  <2> QED
    BY <1>3, <2>1 DEF Becomes
<1>7. ASSUME NEW j \in Kme, NEW t \in Ksid, NEW m \in Object, NEW i \in Index, Reads(j, t, m, i)
      PROVE  Becomes(k, s, n, obj'[k][s][n])
  <2> DEFINE o == obj[j][t][m]
             q == Read(o, i)
  <2>1. SetStream(j, t, m, q) /\ o.chunk[i] # None /\ o \in Stream /\ Tidy(j, o)
    BY <1>1, <1>7 DEF Reads, Slots
  <2>2. /\ q \in Stream /\ q.delivered = o.delivered \cup {i} /\ q.nextAlloc = o.nextAlloc
        /\ \A l \in Index : q.chunk[l] \in {o.chunk[l], None}
    BY <2>1, ReadIsTidy
  <2> HIDE DEF q
  <2>3. j = k /\ t = s /\ m = n => Becomes(k, s, n, q)
    BY <1>7, <2>2 DEF Becomes
  <2> QED
    BY <1>3, <2>1, <2>2, <2>3
<1>8. ASSUME NEW t \in Ksid, NEW m \in Object, NEW i \in Index, Makes(t, m, i)
      PROVE  Becomes(k, s, n, obj'[k][s][n])
  <2>1. PICK q \in Stream : Made(t, m, i, q)
    BY <1>8, MakeParts
  <2>2. Allocator = k /\ t = s /\ m = n => Becomes(k, s, n, q)
    BY <1>8, <2>1 DEF Made, Becomes, Fills
  <2> QED
    BY <1>3, <2>1, <2>2, WireParts DEF Made
<1>9. ASSUME NEW m \in net, Stores(m)
      PROVE  Becomes(k, s, n, obj'[k][s][n])
  <2>1. m.to \in Kme /\ m.s \in Ksid /\ m.i \in Index /\ cur[m.to][m.s] \in Object
        /\ The(m.to, m.s) = obj[m.to][m.s][cur[m.to][m.s]]
    BY <1>9, StoreParts
  <2>2. PICK q \in Stream : StoredAt(m, q)
    BY <1>9, StoreParts
  <2>3. m.to = k /\ m.s = s /\ cur[m.to][m.s] = n => Becomes(k, s, n, q)
    BY <1>9, <2>1, <2>2 DEF StoredAt, Becomes, Fills
  <2> QED
    BY <1>3, <2>1, <2>2, <2>3 DEF StoredAt
<1> QED
  BY <1>4, <1>5, <1>6, <1>7, <1>8, <1>9 DEF DataEffect

\* The histories of a step: reads, what was stored, the streams opened.
LEMMA HistoryStep ==
  ASSUME WireInv, DataEffect
  PROVE  /\ \A k \in Kme, s \in Ksid, i \in Index :
              \/ got'[k][s][i] \in {got[k][s][i], None}
              \/ \E n \in Object : Reads(k, s, n, i) /\ got'[k][s][i] = obj[k][s][n].chunk[i]
         /\ \A k \in Kme, s \in Ksid :
              /\ lives[k][s] \in Nat
              /\ lives'[k][s] \in {lives[k][s], lives[k][s] + 1}
              /\ Creates(k, s) => /\ lives'[k][s] = lives[k][s] + 1
                                  /\ \A i \in Index : got'[k][s][i] = None
         /\ \A k \in Kme : stored[k] \subseteq stored'[k]
         /\ made \in Nat /\ made' \in Nat /\ made <= made'
<1> DEFINE Got(k, s, i) ==
             \/ got'[k][s][i] \in {got[k][s][i], None}
             \/ \E n \in Object : Reads(k, s, n, i) /\ got'[k][s][i] = obj[k][s][n].chunk[i]
           Life(k, s) == /\ lives[k][s] \in Nat
                         /\ lives'[k][s] \in {lives[k][s], lives[k][s] + 1}
                         /\ Creates(k, s) => /\ lives'[k][s] = lives[k][s] + 1
                                             /\ \A i \in Index : got'[k][s][i] = None
           All == /\ \A k \in Kme, s \in Ksid, i \in Index : Got(k, s, i)
                  /\ \A k \in Kme, s \in Ksid : Life(k, s)
                  /\ \A k \in Kme : stored[k] \subseteq stored'[k]
                  /\ made \in Nat /\ made' \in Nat /\ made <= made'
<1>1. /\ got \in [Kme -> [Ksid -> [Index -> Serial \cup {None}]]]
      /\ stored \in [Kme -> SUBSET Serial]
      /\ \A k \in Kme, s \in Ksid : lives[k][s] \in Nat
      /\ made \in Nat
  BY WireParts, Numbers DEF RestType
<1>2. ASSUME NEW k \in Kme, NEW s \in Ksid, Creates(k, s)
      PROVE  lives'[k][s] = lives[k][s] + 1 /\ \A i \in Index : got'[k][s][i] = None
  BY <1>2 DEF Creates
<1>3. ASSUME lives' = lives PROVE \A k \in Kme, s \in Ksid : Life(k, s)
  <2>1. ASSUME NEW k \in Kme, NEW s \in Ksid, Creates(k, s) PROVE FALSE
    <3>1. lives'[k][s] = lives[k][s] + 1 /\ lives'[k][s] = lives[k][s]
      BY <1>2, <1>3, <2>1
    <3> QED
      BY <1>1, <3>1
  <2> QED
    BY <1>1, <1>3, <2>1
<1>4. ASSUME UNCHANGED <<got, lives, stored, made>> PROVE All
  BY <1>1, <1>3, <1>4
<1>5. ASSUME NEW k \in Kme, NEW s \in Ksid, Creates(k, s) PROVE All
  <2>1. /\ \A j \in Kme, t \in Ksid :
             /\ lives'[j][t] = IF j = k /\ t = s THEN lives[k][s] + 1 ELSE lives[j][t]
             /\ got'[j][t] = IF j = k /\ t = s THEN [i \in Index |-> None] ELSE got[j][t]
        /\ UNCHANGED <<stored, made>>
    BY <1>5 DEF Creates
  <2>2. \A j \in Kme, t \in Ksid, i \in Index : Got(j, t, i)
    BY <2>1
  <2>3. ASSUME NEW j \in Kme, NEW t \in Ksid PROVE Life(j, t)
    BY <1>1, <1>2, <2>1
  <2> QED
    BY <1>1, <2>1, <2>2, <2>3
<1>6. ASSUME NEW k \in Kme, NEW s \in Ksid, NEW n \in Object, NEW i \in Index, Reads(k, s, n, i)
      PROVE  All
  <2>1. /\ got' = [got EXCEPT ![k][s][i] = obj[k][s][n].chunk[i]]
        /\ UNCHANGED <<lives, stored, made>>
    BY <1>6 DEF Reads
  <2>2. \A j \in Kme, t \in Ksid, l \in Index : Got(j, t, l)
    BY <1>1, <1>6, <2>1
  <2>3. \A j \in Kme, t \in Ksid : Life(j, t)
    BY <1>3, <2>1
  <2>4. made \in Nat /\ made' \in Nat /\ made <= made'
    BY <1>1, <2>1
  <2> HIDE DEF Got, Life
  <2> QED
    BY <2>1, <2>2, <2>3, <2>4
<1>7. ASSUME NEW k \in Kme, NEW x, stored' = [stored EXCEPT ![k] = @ \cup {x}],
             UNCHANGED <<got, lives>>, made' \in Nat, made <= made'
      PROVE  All
  <2>1. \A j \in Kme, t \in Ksid, i \in Index : Got(j, t, i)
    BY <1>7
  <2>2. \A j \in Kme : stored[j] \subseteq stored'[j]
    BY <1>1, <1>7
  <2> HIDE DEF Got, Life
  <2> QED
    BY <1>1, <1>3, <1>7, <2>1, <2>2
<1> HIDE DEF All
<1>8. ASSUME NEW s \in Ksid, NEW n \in Object, NEW i \in Index, Makes(s, n, i) PROVE All
  <2>1. /\ stored' = [stored EXCEPT ![Allocator] = @ \cup {made + 1}]
        /\ got' = got /\ lives' = lives /\ made' = made + 1
    BY <1>8 DEF Makes
  <2>2. made' \in Nat /\ made <= made'
    BY <1>1, <2>1
  <2> QED
    BY <1>7, <2>1, <2>2, WireParts
<1>9. ASSUME NEW m \in net, Stores(m) PROVE All
  <2>1. m.to \in Kme
    BY <1>9, StoreParts
  <2>2. /\ stored' = [stored EXCEPT ![m.to] = @ \cup {m.x}]
        /\ got' = got /\ lives' = lives /\ made' = made
    BY <1>9 DEF Stores
  <2>3. made' \in Nat /\ made <= made'
    BY <1>1, <2>2
  <2> QED
    BY <1>7, <2>1, <2>2, <2>3
<1>10. CASE Forgets \/ \E k \in Kme, s \in Ksid, n \in Object : Trims(k, s, n)
  BY <1>4, <1>10 DEF Forgets, Trims, All
<1> QED
  BY <1>5, <1>6, <1>8, <1>9, <1>10 DEF DataEffect, All

-----------------------------------------------------------------------------
(* One object per stream.  A call that outlives its stream keeps writing to *)
(* its object, so an id that was opened once has one object, not just one   *)
(* that is in the table.                                                    *)

Touched(k, s, n) ==
  obj[k][s][n] # NewStream \/ cur[k][s] = n \/ \E p \in Proc : Refers(p, k, s, n)

Single ==
  \A k \in Kme, s \in Ksid :
    /\ lives[k][s] = 0 => \A n \in Object : ~Touched(k, s, n)
    /\ lives[k][s] <= 1 =>
         \A m, n \in Object : Touched(k, s, m) /\ Touched(k, s, n) => m = n

\* A step refers to an object it referred to before, or to one it creates.
LEMMA ReferStep ==
  ASSUME WireInv, CallsEffect, NEW p \in Proc, NEW k \in Kme, NEW s \in Ksid,
         NEW n \in Object, Refers(p, k, s, n)'
  PROVE  cur'[k][s] = n \/ \E q \in Proc : Refers(q, k, s, n)
<1>1. call'[p].pc # "idle" /\ Site[p] = k /\ call'[p].s = s /\ call'[p].n = n
  BY DEF Refers, Free
<1>2. CASE Ends
  BY <1>1, <1>2 DEF Ends, Refers, Free
<1>3. ASSUME NEW q \in Proc, NEW c \in Call, NEW t \in Awaits, Starts(q, c, t)
      PROVE  cur'[k][s] = n \/ \E r \in Proc : Refers(r, k, s, n)
  <2>1. CASE p = q
    <3>1. c.s = s /\ c.n = n
      BY <1>1, <1>3, <2>1 DEF Starts, Call
    <3> QED
      BY <1>1, <1>3, <2>1, <3>1 DEF Starts
  <2>2. CASE p # q
    BY <1>1, <1>3, <2>2 DEF Starts, Refers, Free
  <2> QED
    BY <2>1, <2>2
<1> QED
  BY <1>2, <1>3 DEF CallsEffect

LEMMA TableStep ==
  ASSUME WireInv, DataEffect, NEW k \in Kme, NEW s \in Ksid, NEW n \in Object
  PROVE  cur'[k][s] = n => cur[k][s] = n \/ Creates(k, s)
<1>1. n # None
  BY Numbers
<1>2. CASE Forgets
  BY <1>1, <1>2 DEF Forgets
<1>3. ASSUME NEW j \in Kme, NEW t \in Ksid, Creates(j, t)
      PROVE  cur'[k][s] = cur[k][s] \/ Creates(k, s)
  <2>1. j # k \/ t # s => cur'[k][s] = cur[k][s]
    BY <1>3 DEF Creates
  <2> QED
    BY <1>3, <2>1
<1>4. CASE UNCHANGED cur
  BY <1>4
<1> QED
  BY <1>2, <1>3, <1>4 DEF DataEffect, Trims, Reads, Makes, Stores

\* A step writes an object in use, or creates one.
LEMMA WriteStep ==
  ASSUME WireInv, Slots, DataEffect, NEW k \in Kme, NEW s \in Ksid, NEW n \in Object
  PROVE  obj'[k][s][n] = obj[k][s][n] \/ Touched(k, s, n) \/ (Creates(k, s) /\ cur'[k][s] = n)
<1>1. obj \in Objects
  BY WireParts DEF ObjType
<1>2. ASSUME NEW j \in Kme, NEW t \in Ksid, NEW m \in Object, NEW q \in Stream,
             SetStream(j, t, m, q), Touched(j, t, m) \/ (Creates(j, t) /\ cur'[j][t] = m)
      PROVE  obj'[k][s][n] = obj[k][s][n] \/ Touched(k, s, n)
             \/ (Creates(k, s) /\ cur'[k][s] = n)
  BY <1>1, <1>2, SetStreamStep
<1>3. ASSUME NEW j \in Kme, NEW t \in Ksid, Creates(j, t)
      PROVE  obj'[k][s][n] = obj[k][s][n] \/ Touched(k, s, n)
             \/ (Creates(k, s) /\ cur'[k][s] = n)
  <2>1. PICK m \in Object, o \in {[NewStream EXCEPT !.localOpen = TRUE],
                                  [NewStream EXCEPT !.peerOpen = TRUE]} :
             SetStream(j, t, m, o) /\ cur'[j][t] = m
    BY <1>3 DEF Creates
  <2>2. o \in Stream
    BY NewIsTidy
  <2> QED
    BY <1>2, <1>3, <2>1, <2>2
<1>4. ASSUME NEW j \in Kme, NEW t \in Ksid, NEW m \in Object, Trims(j, t, m)
      PROVE  obj'[k][s][n] = obj[k][s][n] \/ Touched(k, s, n)
             \/ (Creates(k, s) /\ cur'[k][s] = n)
  <2>1. Touched(j, t, m) /\ \E q \in Stream : SetStream(j, t, m, q)
    BY <1>4 DEF Trims, Touched
  <2> QED
    BY <1>2, <2>1
<1>5. ASSUME NEW j \in Kme, NEW t \in Ksid, NEW m \in Object, NEW i \in Index, Reads(j, t, m, i)
      PROVE  obj'[k][s][n] = obj[k][s][n] \/ Touched(k, s, n)
             \/ (Creates(k, s) /\ cur'[k][s] = n)
  <2>1. obj[j][t][m].chunk[i] # None /\ SetStream(j, t, m, Read(obj[j][t][m], i))
    BY <1>5 DEF Reads
  <2>2. Touched(j, t, m)
    BY <2>1 DEF Touched, NewStream
  <2>3. obj[j][t][m] \in Stream
    BY <1>1 DEF Objects
  <2>4. Read(obj[j][t][m], i) \in Stream
    BY <2>3, StreamType
  <2> QED
    BY <1>2, <2>1, <2>2, <2>4
<1>6. ASSUME NEW t \in Ksid, NEW m \in Object, NEW i \in Index, Makes(t, m, i)
      PROVE  obj'[k][s][n] = obj[k][s][n] \/ Touched(k, s, n)
             \/ (Creates(k, s) /\ cur'[k][s] = n)
  <2>1. Touched(Allocator, t, m) /\ \E q \in Stream : SetStream(Allocator, t, m, q)
    BY <1>6, MakeParts DEF Makes, Touched, Made
  <2> QED
    BY <1>2, <2>1, WireParts
<1>7. ASSUME NEW m \in net, Stores(m)
      PROVE  obj'[k][s][n] = obj[k][s][n] \/ Touched(k, s, n)
             \/ (Creates(k, s) /\ cur'[k][s] = n)
  <2>1. /\ m.to \in Kme /\ m.s \in Ksid /\ cur[m.to][m.s] \in Object
        /\ \E q \in Stream : SetStream(m.to, m.s, cur[m.to][m.s], q)
    BY <1>7, StoreParts DEF StoredAt
  <2>2. Touched(m.to, m.s, cur[m.to][m.s])
    BY DEF Touched
  <2> QED
    BY <1>2, <2>1, <2>2
<1>8. CASE Forgets
  BY <1>8 DEF Forgets
<1> QED
  BY <1>3, <1>4, <1>5, <1>6, <1>7, <1>8 DEF DataEffect

LEMMA TouchedStep ==
  ASSUME WireInv, Slots, CallsEffect, DataEffect,
         NEW k \in Kme, NEW s \in Ksid, NEW n \in Object, Touched(k, s, n)'
  PROVE  Touched(k, s, n) \/ (Creates(k, s) /\ cur'[k][s] = n)
<1>1. CASE obj'[k][s][n] # NewStream
  BY <1>1, WriteStep DEF Touched
<1>2. CASE cur'[k][s] = n
  BY <1>2, TableStep DEF Touched
<1>3. CASE \E p \in Proc : Refers(p, k, s, n)'
  BY <1>3, <1>2, ReferStep DEF Touched
<1> QED
  BY <1>1, <1>2, <1>3 DEF Touched

LEMMA SingleStep ==
  ASSUME WireInv, Slots, Single, CallsEffect, DataEffect
  PROVE  Single'
<1>1. ASSUME NEW k \in Kme, NEW s \in Ksid, lives'[k][s] = 0, NEW n \in Object, Touched(k, s, n)'
      PROVE  FALSE
  <2>1. lives[k][s] = 0 /\ ~Creates(k, s)
    BY <1>1, HistoryStep
  <2> QED
    BY <1>1, <2>1, TouchedStep DEF Single
<1>2. ASSUME NEW k \in Kme, NEW s \in Ksid, lives'[k][s] <= 1,
             NEW m \in Object, NEW n \in Object, Touched(k, s, m)', Touched(k, s, n)'
      PROVE  m = n
  <2>1. CASE Creates(k, s)
    <3>1. lives[k][s] = 0
      BY <1>2, <2>1, HistoryStep
    <3> QED
      BY <1>2, <3>1, TouchedStep DEF Single
  <2>2. CASE ~Creates(k, s)
    <3>1. lives[k][s] <= 1
      BY <1>2, HistoryStep
    <3> QED
      BY <1>2, <2>2, <3>1, TouchedStep DEF Single
  <2> QED
    BY <2>1, <2>2
<1>3. \A k \in Kme, s \in Ksid : lives'[k][s] = 0 => \A n \in Object : ~Touched(k, s, n)'
  BY <1>1
<1>4. \A k \in Kme, s \in Ksid : lives'[k][s] <= 1 =>
         \A m, n \in Object : Touched(k, s, m)' /\ Touched(k, s, n)' => m = n
  BY <1>2
<1> QED
  BY <1>3, <1>4 DEF Single

-----------------------------------------------------------------------------
(* One place per chunk.  A chunk is at (s, i) when a stream holds it there, *)
(* an application read it there, or a push of it there is under way.       *)

Pushed(p, s, i, x) == call[p].pc = "chunk" /\ call[p].s = s /\ call[p].i = i /\ call[p].x = x
OnWire(m, s, i, x) == m.type = "chunk" /\ m.s = s /\ m.i = i /\ m.x = x

At(s, i, x) ==
  \/ \E k \in Kme : got[k][s][i] = x
  \/ \E k \in Kme, n \in Object : obj[k][s][n].chunk[i] = x
  \/ \E p \in Proc : Pushed(p, s, i, x)
  \/ \E m \in net : OnWire(m, s, i, x)

\* Only making a chunk puts it where it was not.
LEMMA ChunkStep ==
  ASSUME WireInv, Slots, DataEffect, NEW k \in Kme, NEW s \in Ksid, NEW n \in Object,
         NEW i \in Index, NEW x \in Serial, obj'[k][s][n].chunk[i] = x
  PROVE  At(s, i, x) \/ (Makes(s, n, i) /\ x = made + 1)
<1> DEFINE o == obj[k][s][n]
           q == obj'[k][s][n]
<1>1. x # None
  BY Numbers
<1>2. o.chunk[i] = x => At(s, i, x)
  BY DEF At
<1>3. Becomes(k, s, n, q)
  BY StreamStep
<1>4. CASE q.chunk[i] \in {o.chunk[i], None}
  BY <1>1, <1>2, <1>4
<1>5. ASSUME NEW j \in Index, Makes(s, n, j), Fills(o, q, j, made + 1)
      PROVE  At(s, i, x) \/ (Makes(s, n, i) /\ x = made + 1)
  BY <1>2, <1>5 DEF Fills
<1>6. ASSUME NEW m \in net, Stores(m), m.s = s, Fills(o, q, m.i, m.x)
      PROVE  At(s, i, x)
  BY <1>2, <1>6 DEF Fills, At, OnWire, Stores
<1> QED
  BY <1>1, <1>3, <1>4, <1>5, <1>6 DEF Becomes, Keeps

LEMMA AtStep ==
  ASSUME WireInv, Slots, CallsEffect, DataEffect, NEW s \in Ksid, NEW i \in Index,
         NEW x \in Serial, At(s, i, x)'
  PROVE  At(s, i, x) \/ \E n \in Object : Makes(s, n, i) /\ x = made + 1
<1>1. x # None
  BY Numbers
<1>2. ASSUME NEW k \in Kme, NEW n \in Object, obj'[k][s][n].chunk[i] = x
      PROVE  At(s, i, x) \/ \E m \in Object : Makes(s, m, i) /\ x = made + 1
  BY <1>2, ChunkStep
<1>3. CASE \E k \in Kme : got'[k][s][i] = x
  <2>1. PICK k \in Kme : got'[k][s][i] = x
    BY <1>3
  <2>2. got[k][s][i] = x \/ \E n \in Object : obj[k][s][n].chunk[i] = x
    BY <1>1, <2>1, HistoryStep
  <2> QED
    BY <2>2 DEF At
<1>4. ASSUME NEW p \in Proc, NEW c \in Call, NEW t \in Awaits, Starts(p, c, t),
             t = "chunk", c.s = s, c.i = i, c.x = x
      PROVE  At(s, i, x) \/ \E m \in Object : Makes(s, m, i) /\ x = made + 1
  <2>1. obj'[Allocator][s][c.n].chunk[i] = x /\ c.n \in Object
    BY <1>4 DEF Starts, Call
  <2> QED
    BY <1>2, <2>1, WireParts
<1>5. ASSUME NEW p \in Proc, Pushed(p, s, i, x)'
      PROVE  At(s, i, x) \/ \E m \in Object : Makes(s, m, i) /\ x = made + 1
  <2>1. call'[p].pc = "chunk" /\ call'[p].s = s /\ call'[p].i = i /\ call'[p].x = x
    BY <1>5 DEF Pushed
  <2>2. CASE Ends
    BY <2>1, <2>2 DEF Ends, Free, At, Pushed
  <2>3. ASSUME NEW r \in Proc, NEW c \in Call, NEW t \in Awaits, Starts(r, c, t)
        PROVE  At(s, i, x) \/ \E m \in Object : Makes(s, m, i) /\ x = made + 1
    <3>1. CASE p = r
      <4>1. t = "chunk" /\ c.s = s /\ c.i = i /\ c.x = x
        BY <2>1, <2>3, <3>1 DEF Starts, Call
      <4> QED
        BY <1>4, <2>3, <4>1
    <3>2. CASE p # r
      BY <2>1, <2>3, <3>2 DEF Starts, At, Pushed
    <3> QED
      BY <3>1, <3>2
  <2> QED
    BY <2>2, <2>3 DEF CallsEffect
<1>6. ASSUME NEW m \in net', OnWire(m, s, i, x)
      PROVE  At(s, i, x) \/ \E n \in Object : Makes(s, n, i) /\ x = made + 1
  <2>1. CASE Ends
    BY <1>6, <2>1 DEF Ends, At, OnWire
  <2>2. ASSUME NEW r \in Proc, NEW c \in Call, NEW t \in Awaits, Starts(r, c, t)
        PROVE  At(s, i, x) \/ \E n \in Object : Makes(s, n, i) /\ x = made + 1
    <3>1. CASE m \in net
      BY <1>6, <3>1 DEF At
    <3>2. CASE m \notin net
      <4>1. t = "chunk" /\ c.s = s /\ c.i = i /\ c.x = x
        BY <1>6, <2>2, <3>2 DEF Starts, OnWire
      <4> QED
        BY <1>4, <2>2, <4>1
    <3> QED
      BY <3>1, <3>2
  <2> QED
    BY <2>1, <2>2 DEF CallsEffect
<1> QED
  BY <1>2, <1>3, <1>5, <1>6 DEF At, OnWire

\* Every chunk is at one place, in an id used once every place has one chunk, and
\* what is at a place is a chunk the allocator made there.
Homes ==
  /\ \A s, t \in Ksid, i, j \in Index, x \in Serial :
       At(s, i, x) /\ At(t, j, x) => s = t /\ i = j
  /\ \A s \in Ksid, i \in Index, x, y \in Serial :
       UsedOnce(s) /\ At(s, i, x) /\ At(s, i, y) => x = y
  /\ \A s \in Ksid, i \in Index, x \in Serial : At(s, i, x) =>
       /\ x <= made /\ x \in stored[Allocator]
       /\ UsedOnce(s) => \E n \in Object : i < obj[Allocator][s][n].nextAlloc

LEMMA UsedOnceStep ==
  ASSUME WireInv, DataEffect, NEW s \in Ksid, UsedOnce(s)'
  PROVE  UsedOnce(s)
<1>1. ASSUME NEW k \in Kme PROVE lives[k][s] <= 1
  BY HistoryStep DEF UsedOnce
<1> QED
  BY <1>1 DEF UsedOnce

\* Where chunk i of an id used once is made, none was made before.
LEMMA MakesFresh ==
  ASSUME WireInv, Single, Homes, NEW s \in Ksid, UsedOnce(s), NEW n \in Object, NEW i \in Index,
         Makes(s, n, i), NEW x \in Serial, At(s, i, x)
  PROVE  FALSE
<1>1. PICK m \in Object : i < obj[Allocator][s][m].nextAlloc
  BY DEF Homes
<1>2. i \in Nat /\ obj[Allocator][s][m].nextAlloc \in Nat
  BY WireParts, Numbers DEF Index, ObjType, Objects, Stream
<1>3. obj[Allocator][s][m] # NewStream
  BY <1>1, <1>2 DEF NewStream
<1>4. Touched(Allocator, s, m) /\ Touched(Allocator, s, n)
  BY <1>3 DEF Touched, Makes
<1>5. m = n
  BY <1>4, WireParts DEF Single, UsedOnce
<1> QED
  BY <1>1, <1>2, <1>5 DEF Makes

LEMMA AllocStep ==
  ASSUME WireInv, Slots, Single, DataEffect, NEW s \in Ksid, UsedOnce(s)', NEW i \in Index,
         NEW n \in Object, i < obj[Allocator][s][n].nextAlloc
  PROVE  i < obj'[Allocator][s][n].nextAlloc
<1> DEFINE o == obj[Allocator][s][n]
           q == obj'[Allocator][s][n]
<1>1. i \in Nat /\ o.nextAlloc \in Nat /\ Allocator \in Kme
  BY WireParts, Numbers DEF Index, ObjType, Objects, Stream
<1>2. Touched(Allocator, s, n)
  <2>1. o # NewStream
    BY <1>1 DEF NewStream
  <2> QED
    BY <2>1 DEF Touched
<1>3. ~Creates(Allocator, s)
  <2>1. lives'[Allocator][s] <= 1
    BY <1>1 DEF UsedOnce
  <2>2. Creates(Allocator, s) => lives[Allocator][s] = 0
    BY <1>1, <2>1, HistoryStep
  <2> QED
    BY <1>1, <1>2, <2>2 DEF Single
<1>4. q.nextAlloc \in {o.nextAlloc, o.nextAlloc + 1}
  <2>1. Becomes(Allocator, s, n, q)
    BY <1>1, StreamStep
  <2> HIDE DEF q
  <2> QED
    BY <1>1, <1>3, <2>1 DEF Becomes, Keeps
<1> QED
  BY <1>1, <1>4

LEMMA HomesStep ==
  ASSUME WireInv, Slots, Single, Homes, CallsEffect, DataEffect
  PROVE  Homes'
<1>1. made \in Nat /\ made' \in Nat /\ made <= made'
  BY HistoryStep
<1>2. \A s \in Ksid, n \in Object, i \in Index : Makes(s, n, i) =>
        made' = made + 1 /\ made + 1 \in stored'[Allocator]
  BY WireParts DEF Makes, RestType
<1>3. ASSUME NEW s \in Ksid, NEW i \in Index, At(s, i, made + 1), made + 1 \in Serial PROVE FALSE
  BY <1>1, <1>3 DEF Homes
<1>4. \A s, t \in Ksid, m, n \in Object, i, j \in Index :
        Makes(s, m, i) /\ Makes(t, n, j) => s = t /\ i = j
  <2> SUFFICES ASSUME NEW s \in Ksid, NEW t \in Ksid, NEW m \in Object, NEW n \in Object,
                      NEW i \in Index, NEW j \in Index, Makes(s, m, i), Makes(t, n, j)
               PROVE  s = t /\ i = j
    OBVIOUS
  <2> DEFINE o == obj[Allocator][s][m]
  <2>1. PICK q \in Stream : Made(s, m, i, q)
    BY MakeParts
  <2>2. PICK r \in Stream : Made(t, n, j, r)
    BY MakeParts
  <2>3. obj'[Allocator][s][m] = q /\ (s # t \/ m # n => obj'[Allocator][s][m] = o)
    BY <2>1, <2>2, SetStreamStep, WireParts DEF Made, ObjType
  <2>4. q.nextAlloc = o.nextAlloc + 1 /\ i = o.nextAlloc /\ i \in Nat
    BY <2>1, Numbers DEF Made, Index
  <2>5. s = t /\ m = n
    BY <2>3, <2>4
  <2> QED
    BY <2>4, <2>5 DEF Makes
<1>5. ASSUME NEW s \in Ksid, NEW t \in Ksid, NEW i \in Index, NEW j \in Index, NEW x \in Serial,
             At(s, i, x)', At(t, j, x)'
      PROVE  s = t /\ i = j
  BY <1>3, <1>4, <1>5, AtStep DEF Homes
<1>6. ASSUME NEW s \in Ksid, NEW i \in Index, NEW x \in Serial, NEW y \in Serial,
             UsedOnce(s)', At(s, i, x)', At(s, i, y)'
      PROVE  x = y
  BY <1>6, AtStep, UsedOnceStep, MakesFresh DEF Homes
<1>7. ASSUME NEW s \in Ksid, NEW i \in Index, NEW x \in Serial, At(s, i, x)'
      PROVE  /\ x <= made' /\ x \in stored'[Allocator]
             /\ UsedOnce(s)' => \E n \in Object : i < obj'[Allocator][s][n].nextAlloc
  <2>1. x \in Nat
    BY DEF Serial
  <2>2. CASE At(s, i, x)
    <3>1. x <= made /\ x \in stored[Allocator]
      BY <2>2 DEF Homes
    <3>2. x <= made' /\ x \in stored'[Allocator]
      BY <1>1, <2>1, <3>1, HistoryStep, WireParts
    <3>3. UsedOnce(s)' => \E n \in Object : i < obj'[Allocator][s][n].nextAlloc
      BY <2>2, UsedOnceStep, AllocStep DEF Homes
    <3> QED
      BY <3>2, <3>3
  <2>3. ASSUME NEW n \in Object, Makes(s, n, i), x = made + 1
        PROVE  /\ x <= made' /\ x \in stored'[Allocator]
               /\ i < obj'[Allocator][s][n].nextAlloc
    <3>1. x <= made' /\ x \in stored'[Allocator]
      BY <1>1, <1>2, <2>3
    <3>2. PICK q \in Stream : Made(s, n, i, q)
      BY <2>3, MakeParts
    <3>3. obj'[Allocator][s][n] = q
      BY <3>2, SetStreamStep, WireParts DEF Made, ObjType
    <3>4. i \in Nat /\ q.nextAlloc = i + 1
      BY <3>2, Numbers DEF Index, Made
    <3> QED
      BY <3>1, <3>3, <3>4
  <2> QED
    BY <1>7, <2>2, <2>3, AtStep
<1>8. /\ \A s, t \in Ksid, i, j \in Index, x \in Serial :
           At(s, i, x)' /\ At(t, j, x)' => s = t /\ i = j
      /\ \A s \in Ksid, i \in Index, x, y \in Serial :
           UsedOnce(s)' /\ At(s, i, x)' /\ At(s, i, y)' => x = y
      /\ \A s \in Ksid, i \in Index, x \in Serial : At(s, i, x)' =>
           /\ x <= made' /\ x \in stored'[Allocator]
           /\ UsedOnce(s)' => \E n \in Object : i < obj'[Allocator][s][n].nextAlloc
  BY <1>5, <1>6, <1>7
<1> QED
  BY <1>8 DEF Homes

-----------------------------------------------------------------------------
(* What is held and what was read.                                         *)

ReadWhere(k, s) ==
  lives[k][s] <= 1 =>
    \A i \in Index : got[k][s][i] # None <=> \E n \in Object : i \in obj[k][s][n].delivered

\* Chunks are numbered as they are made, a KME has stored what it holds or has
\* read, and the applications of an id used once read what it delivered.
Kept ==
  /\ \A k \in Kme : \A x \in stored[k] : x <= made
  /\ \A x \in confirmed : x <= made
  /\ \A k \in Kme, s \in Ksid, i \in Index :
       /\ got[k][s][i] # None => got[k][s][i] \in stored[k]
       /\ \A n \in Object : obj[k][s][n].chunk[i] # None => obj[k][s][n].chunk[i] \in stored[k]
  /\ \A k \in Kme, s \in Ksid : ReadWhere(k, s)

LEMMA ReadWhereStep ==
  ASSUME WireInv, Slots, Single, DataEffect, \A k \in Kme, s \in Ksid : ReadWhere(k, s),
         NEW k \in Kme, NEW s \in Ksid
  PROVE  ReadWhere(k, s)'
<1>1. /\ obj \in Objects /\ \A j \in Kme, t \in Ksid, m \in Object : obj[j][t][m] \in Stream
      /\ got \in [Kme -> [Ksid -> [Index -> Serial \cup {None}]]]
  BY WireParts DEF ObjType, Objects, RestType
<1>2. lives[k][s] \in Nat /\ lives'[k][s] \in {lives[k][s], lives[k][s] + 1}
  BY HistoryStep
<1>3. ASSUME \A n \in Object : obj'[k][s][n].delivered = obj[k][s][n].delivered,
             \A i \in Index : got'[k][s][i] = got[k][s][i]
      PROVE  ReadWhere(k, s)'
  <2>1. lives'[k][s] <= 1 => lives[k][s] <= 1
    BY <1>2
  <2> QED
    BY <1>3, <2>1 DEF ReadWhere
<1>4. ASSUME NEW j \in Kme, NEW t \in Ksid, NEW m \in Object, NEW l \in Index, Reads(j, t, m, l)
      PROVE  ReadWhere(k, s)'
  <2> DEFINE o == obj[j][t][m]
             q == Read(o, l)
  <2>1. /\ SetStream(j, t, m, q) /\ o.chunk[l] # None /\ o \in Stream /\ Tidy(j, o)
        /\ got' = [got EXCEPT ![j][t][l] = o.chunk[l]] /\ lives' = lives
    BY <1>1, <1>4 DEF Reads, Slots
  <2>2. q \in Stream /\ q.delivered = o.delivered \cup {l}
    BY <2>1, ReadIsTidy
  <2> HIDE DEF q
  <2>3. /\ obj'[j][t][m] = q
        /\ \A k1 \in Kme, s1 \in Ksid, n1 \in Object :
             k1 # j \/ s1 # t \/ n1 # m => obj'[k1][s1][n1] = obj[k1][s1][n1]
    BY <1>1, <2>1, <2>2, SetStreamStep
  <2>4. \A i \in Index : got'[k][s][i] = IF k = j /\ s = t /\ i = l THEN o.chunk[l] ELSE got[k][s][i]
    BY <1>1, <2>1
  <2>5. CASE k = j /\ s = t
    <3>1. \A n \in Object : obj'[k][s][n].delivered =
                              IF n = m THEN o.delivered \cup {l} ELSE obj[k][s][n].delivered
      BY <2>2, <2>3, <2>5
    <3>2. ASSUME NEW i \in Index, lives[k][s] <= 1
          PROVE  got'[k][s][i] # None <=> \E n \in Object : i \in obj'[k][s][n].delivered
      <4>1. CASE i = l
        BY <2>1, <2>4, <2>5, <3>1, <4>1
      <4>2. CASE i # l
        <5>1. got'[k][s][i] = got[k][s][i]
          BY <2>4, <4>2
        <5>2. \A n \in Object : i \in obj'[k][s][n].delivered <=> i \in obj[k][s][n].delivered
          BY <2>5, <3>1, <4>2
        <5> QED
          BY <3>2, <5>1, <5>2 DEF ReadWhere
      <4> QED
        BY <4>1, <4>2
    <3> QED
      BY <2>1, <3>2 DEF ReadWhere
  <2>6. CASE ~(k = j /\ s = t)
    BY <1>3, <2>3, <2>4, <2>6
  <2> QED
    BY <2>5, <2>6
<1>5. CASE Creates(k, s)
  <2>1. ASSUME lives'[k][s] <= 1, NEW n \in Object PROVE obj'[k][s][n].delivered = {}
    <3>1. lives[k][s] = 0
      BY <1>5, <2>1, HistoryStep
    <3>2. obj[k][s][n] = NewStream
      BY <3>1 DEF Single, Touched
    <3>3. obj[k][s][n].delivered = {} /\ \A i \in Index : obj[k][s][n].chunk[i] = None
      BY <3>2 DEF NewStream
    <3>4. \A i \in Index : ~Reads(k, s, n, i)
      BY <3>3 DEF Reads
    <3>5. Becomes(k, s, n, obj'[k][s][n])
      BY StreamStep
    <3> QED
      BY <3>3, <3>4, <3>5 DEF Becomes, Keeps, Fills
  <2>2. \A i \in Index : got'[k][s][i] = None
    BY <1>5, HistoryStep
  <2> QED
    BY <2>1, <2>2 DEF ReadWhere
<1>6. CASE ~Creates(k, s) /\ ~\E j \in Kme, t \in Ksid, m \in Object, l \in Index : Reads(j, t, m, l)
  <2>1. ASSUME NEW n \in Object PROVE obj'[k][s][n].delivered = obj[k][s][n].delivered
    <3>1. Becomes(k, s, n, obj'[k][s][n])
      BY StreamStep
    <3> QED
      BY <1>6, <3>1 DEF Becomes, Keeps, Fills
  <2>2. \A i \in Index : got'[k][s][i] = got[k][s][i]
    <3>1. ASSUME NEW j \in Kme, NEW t \in Ksid, Creates(j, t) PROVE got'[k][s] = got[k][s]
      <4>1. j # k \/ t # s
        BY <1>6, <3>1
      <4> QED
        BY <3>1, <4>1 DEF Creates
    <3>2. CASE got' = got
      BY <3>2
    <3> QED
      BY <1>6, <3>1, <3>2 DEF DataEffect, Forgets, Trims, Makes, Stores
  <2> QED
    BY <1>3, <2>1, <2>2
<1> QED
  BY <1>4, <1>5, <1>6

LEMMA KeptStep ==
  ASSUME WireInv, Slots, Single, Homes, Kept, DataEffect, ConfirmEffect
  PROVE  Kept'
<1>1. made \in Nat /\ made' \in Nat /\ made <= made' /\ \A k \in Kme : stored[k] \subseteq stored'[k]
  BY HistoryStep
<1>2. stored \in [Kme -> SUBSET Serial] /\ confirmed \subseteq Serial /\ call \in [Proc -> Call]
      /\ net \subseteq GoodRequest
  BY WireParts DEF RestType, CallsType
<1>3. ASSUME NEW k \in Kme, NEW x \in stored'[k] PROVE x <= made'
  <2>1. x \in stored[k] \/ (made' = made + 1 /\ x = made + 1)
        \/ \E m \in net : Stores(m) /\ x = m.x
    <3>1. CASE stored' = stored
      BY <3>1
    <3>2. ASSUME NEW s \in Ksid, NEW n \in Object, NEW i \in Index, Makes(s, n, i)
          PROVE  x \in stored[k] \/ (made' = made + 1 /\ x = made + 1)
      BY <1>2, <3>2 DEF Makes
    <3>3. ASSUME NEW m \in net, Stores(m) PROVE x \in stored[k] \/ x = m.x
      BY <1>2, <3>3 DEF Stores
    <3> QED
      BY <3>1, <3>2, <3>3 DEF DataEffect, Forgets, Creates, Trims, Reads
  <2>2. ASSUME NEW m \in net, Stores(m) PROVE m.x <= made /\ m.x \in Nat
    <3>1. m.s \in Ksid /\ m.i \in Index /\ m.x \in Serial /\ m.type = "chunk"
      BY <2>2, StoreParts DEF Stores
    <3>2. At(m.s, m.i, m.x)
      BY <3>1 DEF At, OnWire
    <3> QED
      BY <3>1, <3>2 DEF Homes, Serial
  <2>3. x \in stored[k] => x \in Nat /\ x <= made
    BY <1>2 DEF Kept, Serial
  <2> QED
    BY <1>1, <2>1, <2>2, <2>3
<1>4. ASSUME NEW x \in confirmed' PROVE x <= made'
  <2>1. CASE x \in confirmed
    BY <1>1, <1>2, <2>1 DEF Kept, Serial
  <2>2. ASSUME NEW p \in Proc, call[p].pc = "chunk", x = call[p].x PROVE x <= made'
    <3>1. call[p].s \in Ksid /\ call[p].i \in Index /\ x \in Serial
      BY <1>2, <2>2, WireParts DEF Call, CallsType, Pushes
    <3>2. At(call[p].s, call[p].i, x)
      BY <2>2 DEF At, Pushed
    <3> QED
      BY <1>1, <3>1, <3>2 DEF Homes, Serial
  <2> QED
    BY <2>1, <2>2 DEF ConfirmEffect
<1>5. ASSUME NEW k \in Kme, NEW s \in Ksid, NEW i \in Index, got'[k][s][i] # None
      PROVE  got'[k][s][i] \in stored'[k]
  <2>1. got'[k][s][i] \in stored[k]
    BY <1>5, HistoryStep DEF Kept, Reads
  <2> QED
    BY <1>1, <2>1
<1>6. ASSUME NEW k \in Kme, NEW s \in Ksid, NEW i \in Index, NEW n \in Object,
             obj'[k][s][n].chunk[i] # None
      PROVE  obj'[k][s][n].chunk[i] \in stored'[k]
  <2> DEFINE o == obj[k][s][n]
             q == obj'[k][s][n]
  <2>1. Becomes(k, s, n, q)
    BY StreamStep
  <2>2. CASE q.chunk[i] = o.chunk[i]
    BY <1>1, <1>6, <2>2 DEF Kept
  <2>3. ASSUME NEW j \in Index, k = Allocator, Makes(s, n, j), Fills(o, q, j, made + 1)
        PROVE  q.chunk[i] \in stored'[k]
    <3>1. made + 1 \in stored'[k]
      BY <1>2, <2>3 DEF Makes
    <3> QED
      BY <2>2, <2>3, <3>1 DEF Fills
  <2>4. ASSUME NEW m \in net, Stores(m), m.to = k, Fills(o, q, m.i, m.x)
        PROVE  q.chunk[i] \in stored'[k]
    <3>1. m.x \in stored'[k]
      BY <1>2, <2>4 DEF Stores
    <3> QED
      BY <2>2, <2>4, <3>1 DEF Fills
  <2> QED
    BY <1>6, <2>1, <2>2, <2>3, <2>4 DEF Becomes, Keeps
<1>7. \A k \in Kme, s \in Ksid : ReadWhere(k, s)'
  BY ReadWhereStep DEF Kept
<1>8. /\ \A k \in Kme : \A x \in stored'[k] : x <= made'
      /\ \A x \in confirmed' : x <= made'
  BY <1>3, <1>4
<1>9. \A k \in Kme, s \in Ksid, i \in Index :
       /\ got'[k][s][i] # None => got'[k][s][i] \in stored'[k]
       /\ \A n \in Object : obj'[k][s][n].chunk[i] # None => obj'[k][s][n].chunk[i] \in stored'[k]
  BY <1>5, <1>6
<1> QED
  BY <1>7, <1>8, <1>9 DEF Kept

-----------------------------------------------------------------------------
(* Requests and answers.  Who waits for an answer has one request out, or   *)
(* one handler that works on it, and the request is about what it waits for. *)

Rpc ==
  /\ \A p \in Proc : reply[p] # "none" => call[p].pc \in Awaits
  /\ \A p \in Proc : Free(p) => call[p].from = Nobody
  /\ \A m \in net : m.from # Nobody =>
       LET c == call[m.from]
       IN /\ c.pc = m.type /\ reply[m.from] = "none" /\ m.to = Peer[Site[m.from]]
          /\ m.s = c.s /\ m.i = c.i /\ m.x = c.x
          /\ \A q \in Proc : call[q].from # m.from
  /\ \A q \in Proc : call[q].from # Nobody =>
       LET p == call[q].from
       IN /\ call[p].pc = "allocate" /\ reply[p] = "none"
          /\ \A r \in Proc : call[r].from = p => r = q

\* p does not wait for anyone.
Heard(p) == Free(p) \/ call[p].pc \in {"wait", "take"} \/ reply[p] # "none"

\* The push m is acknowledged: the peer has that chunk, had it, or takes it.
Acks(m) == Open(m.to, m.s) /\ (Repeat(The(m.to, m.s), m.i, m.x) \/ Stores(m))

\* Call c of p waits for t: for the pool lock, or for the answer to its request.
Puts(p, c, t, inbox) ==
  /\ net' \subseteq inbox \cup {[type |-> t, to |-> Peer[Site[p]], s |-> c.s,
                                i |-> c.i, x |-> c.x, from |-> p]}
  /\ t = "take" => net' = inbox
  /\ call' = [call EXCEPT ![p] = [c EXCEPT !.pc = t]]

\* What a step does to calls, requests and answers.
Goals == Awaits \cup {"take"}
Calls(p, c, t) ==
  Heard(p) /\ reply[p] = "none" /\ c.from = call[p].from /\ Puts(p, c, t, net) /\ UNCHANGED reply
Accepts(h, c, t, m) ==
  Free(h) /\ m.type = "allocate" /\ c.from = m.from /\ Puts(h, c, t, net \ {m}) /\ UNCHANGED reply
Returns(p, c, r) ==
  Heard(p) /\ c.from = call[p].from /\ r # "lost" /\ Finish(p, c, r) /\ net' = net
Declines(h, c, r, m) ==
  /\ Free(h) /\ m.type = "allocate" /\ c.from = m.from /\ r # "lost"
  /\ Finish(h, c, r) /\ net' = net \ {m}
Answers(m, r) ==
  /\ Answer(m, r)
  /\ m.type = "chunk" /\ r = "ok" => Acks(m)
  /\ m.type \in {"chunk", "allocate"} /\ r = "lost" => \E k \in Kme : ~Open(k, m.s)
Waits(p) ==
  /\ Hears(p, "announce", "ok")
  /\ call' = [call EXCEPT ![p].pc = "wait"] /\ Clear(p) /\ net' = net

RpcEffect ==
  \/ \E p \in Proc, c \in Call, t \in Goals : Calls(p, c, t)
  \/ \E h \in Proc, c \in Call, t \in Goals, m \in net : Accepts(h, c, t, m)
  \/ \E p \in Proc, c \in Call, r \in Replies : Returns(p, c, r)
  \/ \E h \in Proc, c \in Call, r \in Replies, m \in net : Declines(h, c, r, m)
  \/ \E m \in net, r \in Replies : Answers(m, r)
  \/ \E p \in Proc : Waits(p)
  \/ UNCHANGED calls
  \/ \E p \in Proc : PeerFails(p)
  \/ \E k \in Kme : Restart(k)

LEMMA SendPuts ==
  ASSUME NEW p, NEW c, NEW t \in Awaits, NEW inbox, Send(p, c, t, inbox)
  PROVE  Puts(p, c, t, inbox) /\ t \in Goals
BY DEF Send, Puts, Awaits, Goals

LEMMA TakeRpc ==
  ASSUME TypeInv, NEW p \in Proc, NEW c \in Call, NEW inbox \in SUBSET net, Take(p, c, inbox)
  PROVE  \/ \E d \in Call, t \in Goals : d.from = c.from /\ Puts(p, d, t, inbox) /\ UNCHANGED reply
         \/ \E r \in Replies \ {"lost"} : Finish(p, c, r) /\ net' = inbox
<1>1. CASE MakeChunk(p, c, inbox)
  <2>1. Send(p, [c EXCEPT !.x = made + 1], "chunk", inbox) /\ reply' = reply /\ made < MaxChunks
    BY <1>1 DEF MakeChunk
  <2>2. made \in Nat
    BY TypeFacts, Numbers DEF RestType
  <2>3. made + 1 \in Serial
    BY <2>1, <2>2, Numbers DEF Serial
  <2>4. [c EXCEPT !.x = made + 1] \in Call /\ [c EXCEPT !.x = made + 1].from = c.from
    BY <2>3 DEF Call
  <2> QED
    BY <2>1, <2>4, SendPuts, TypeFacts
<1>2. CASE GiveUp(p, c, "empty", inbox)
  BY <1>2, TypeFacts DEF GiveUp
<1> QED
  BY <1>1, <1>2 DEF Take

LEMMA ObtainRpc ==
  ASSUME TypeInv, NEW p \in Proc, NEW c \in Call, NEW inbox \in SUBSET net,
         Obtain(p, c, inbox)
  PROVE  \/ \E d \in Call, t \in Goals : d.from = c.from /\ Puts(p, d, t, inbox) /\ UNCHANGED reply
         \/ \E r \in Replies \ {"lost"} : Finish(p, c, r) /\ net' = inbox
<1> DEFINE x == obj[Allocator][c.s][c.n].chunk[c.i]
<1>1. /\ "ok" \in Replies /\ "empty" \in Replies /\ x \in Serial \cup {None}
      /\ "chunk" \in Awaits /\ "take" \in Goals
      /\ made < MaxChunks => made + 1 \in Serial
  <2>1. made \in Nat
    BY TypeFacts, Numbers DEF RestType
  <2>2. made < MaxChunks => made + 1 \in Serial
    BY <2>1, Numbers DEF Serial
  <2> QED
    BY <2>2, TypeFacts, EngineAssumption DEF Call, ObjType, Objects, Stream, Goals
<1>2. ASSUME NEW y \in Serial \cup {None} PROVE [c EXCEPT !.x = y] \in Call /\ [c EXCEPT !.x = y].from = c.from
  BY DEF Call
<1>3. CASE Take(p, c, inbox)
  BY <1>3, TakeRpc
<1>4. CASE Send(p, [c EXCEPT !.x = x], "chunk", inbox) /\ UNCHANGED reply
  BY <1>1, <1>2, <1>4, SendPuts
<1>5. CASE /\ call' = [call EXCEPT ![p] = [c EXCEPT !.pc = "take"]]
           /\ net' = inbox /\ UNCHANGED <<streams, reply, chunks, history, faults>>
  BY <1>1, <1>5 DEF Puts
<1>6. CASE GiveUp(p, c, "ok", inbox) \/ GiveUp(p, c, "empty", inbox)
  BY <1>1, <1>6 DEF GiveUp
<1> QED
  BY <1>3, <1>4, <1>5, <1>6 DEF Obtain

\* A call that begins is one of an idle process, which no one asked to.
LEMMA BeginRpc ==
  ASSUME TypeInv, Rpc, NEW p \in Proc, NEW s \in Ksid,
         \/ (\E predefined \in BOOLEAN : OpenNew(p, s, predefined)) \/ OpenJoin(p, s)
         \/ Close(p, s) \/ \E i \in Index : GetKey(p, s, i)
  PROVE  RpcEffect
<1> DEFINE k == Site[p]
<1>1. Free(p)
  BY DEF OpenNew, OpenJoin, Close, GetKey
<1>2. /\ call[p].from = Nobody /\ reply[p] = "none" /\ Heard(p)
  BY <1>1, TypeFacts DEF Rpc, Free, Heard
<1>3. /\ Idle \in Call /\ Idle.from = Nobody /\ k \in Kme /\ "none" \in Replies
      /\ {"announce", "establish", "close", "allocate", "chunk"} \subseteq Awaits
  BY IdleType, MineType, TypeFacts
<1>4. ASSUME NEW c \in Call, c.from = Nobody, NEW t \in Goals, Puts(p, c, t, net),
             UNCHANGED reply
      PROVE  RpcEffect
  BY <1>2, <1>4 DEF RpcEffect, Calls
<1>5. ASSUME NEW c \in Call, c.from = Nobody, NEW r \in Replies \ {"lost"}, Finish(p, c, r),
             net' = net
      PROVE  RpcEffect
  BY <1>2, <1>5 DEF RpcEffect, Returns
<1>6. ASSUME NEW n \in Object, NEW b \in BOOLEAN, NEW i \in Index
      PROVE  /\ [Idle EXCEPT !.s = s, !.n = n, !.predefined = b] \in Call
             /\ [Idle EXCEPT !.s = s, !.n = n, !.predefined = b].from = Nobody
             /\ [Idle EXCEPT !.s = s, !.n = n] \in Call
             /\ [Idle EXCEPT !.s = s, !.n = n].from = Nobody
             /\ [Idle EXCEPT !.s = s, !.n = n, !.i = i] \in Call
             /\ [Idle EXCEPT !.s = s, !.n = n, !.i = i].from = Nobody
  BY <1>3 DEF Call
<1>7. Has(k, s) => cur[k][s] \in Object
  BY <1>3, TheType, TypeFacts
<1>8. ASSUME NEW b \in BOOLEAN, OpenNew(p, s, b) PROVE RpcEffect
  <2> DEFINE c == [Idle EXCEPT !.s = s, !.n = cur'[k][s], !.predefined = b]
  <2>1. Send(p, c, "announce", net) /\ reply' = reply /\ cur'[k][s] \in Object
    <3>1. PICK n \in Object : cur' = [cur EXCEPT ![k][s] = n]
      BY <1>8 DEF OpenNew, Create
    <3>2. cur'[k][s] = n
      BY <1>3, <3>1, TypeFacts DEF RestType
    <3> QED
      BY <1>8, <3>2 DEF OpenNew
  <2>2. c \in Call /\ c.from = Nobody
    BY <1>6, <2>1, Numbers
  <2> HIDE DEF c
  <2> QED
    BY <1>3, <1>4, <2>1, <2>2, SendPuts
<1>9. CASE OpenJoin(p, s) \/ Close(p, s)
  <2> DEFINE c == [Idle EXCEPT !.s = s, !.n = cur[k][s]]
  <2>1. /\ Has(k, s) /\ reply' = reply
        /\ Send(p, c, "establish", net) \/ Send(p, c, "close", net)
    BY <1>9 DEF OpenJoin, Close, Open
  <2>2. c \in Call /\ c.from = Nobody
    BY <1>6, <1>7, <2>1, Numbers
  <2> HIDE DEF c
  <2> QED
    BY <1>3, <1>4, <2>1, <2>2, SendPuts
<1>10. ASSUME NEW i \in Index, GetKey(p, s, i) PROVE RpcEffect
  <2> DEFINE c == [Idle EXCEPT !.s = s, !.n = cur[k][s], !.i = i]
  <2>1. /\ Has(k, s)
        /\ \/ Finish(p, c, "none") /\ net' = net
           \/ Obtain(p, c, net)
           \/ Send(p, c, "allocate", net) /\ reply' = reply
    BY <1>10 DEF GetKey, DeliverIfItFits, Deliver, GiveUp
  <2>2. c \in Call /\ c.from = Nobody
    BY <1>6, <1>7, <2>1
  <2> HIDE DEF c
  <2>3. CASE Obtain(p, c, net)
    BY <1>3, <1>4, <1>5, <2>2, <2>3, ObtainRpc
  <2> QED
    BY <1>3, <1>4, <1>5, <2>1, <2>2, <2>3, SendPuts
<1> QED
  BY <1>8, <1>9, <1>10

LEMMA ContinueRpc ==
  ASSUME TypeInv, Rpc, NEW p \in Proc, Continue(p)
  PROVE  RpcEffect
<1> DEFINE c == call[p]
<1>1. /\ c \in Call /\ "none" \in Replies /\ "ok" \in Replies /\ "empty" \in Replies
      /\ "conflict" \in Replies /\ "withdraw" \in Awaits
  BY MineType, TypeFacts
<1>2. ASSUME NEW r \in Replies \ {"lost"}, Heard(p), Finish(p, c, r), net' = net PROVE RpcEffect
  BY <1>1, <1>2 DEF RpcEffect, Returns
<1>3. \A t : Hears(p, t, "ok") \/ Hears(p, t, "lost") \/ Hears(p, t, "failed")
             \/ Hears(p, t, "conflict") \/ Hears(p, t, "empty") => Heard(p)
  BY DEF Hears, Heard
<1>4. CASE OpenRefused(p) \/ OpenJoined(p) \/ OpenWithdrawn(p) \/ OpenConfirmed(p)
           \/ OpenNotConfirmed(p)
  BY <1>1, <1>2, <1>3, <1>4
  DEF OpenRefused, OpenJoined, OpenWithdrawn, OpenConfirmed, OpenNotConfirmed, Heard
<1>5. CASE OpenAnnounced(p)
  <2>1. Hears(p, "announce", "ok") /\ net' = net
    BY <1>5 DEF OpenAnnounced
  <2>2. CASE c.predefined
    <3>1. Waits(p)
      BY <1>5, <2>2 DEF OpenAnnounced, Waits
    <3> QED
      BY <3>1 DEF RpcEffect
  <2>3. CASE ~c.predefined
    BY <1>1, <1>2, <1>3, <1>5, <2>1, <2>3 DEF OpenAnnounced
  <2> QED
    BY <2>2, <2>3
<1>6. CASE OpenTimeout(p)
  <2>1. c.pc = "wait" /\ Send(p, c, "withdraw", net) /\ reply' = reply
    BY <1>6 DEF OpenTimeout
  <2>2. reply[p] = "none" /\ Heard(p)
    BY <2>1, TypeFacts DEF Rpc, Heard
  <2> QED
    BY <1>1, <2>1, <2>2, SendPuts DEF RpcEffect, Calls
<1>7. CASE TakeLater(p)
  <2>1. c.pc = "take" /\ Take(p, c, net)
    BY <1>7 DEF TakeLater
  <2>2. reply[p] = "none" /\ Heard(p)
    BY <2>1, TypeFacts DEF Rpc, Heard
  <2>3. \/ \E d \in Call, t \in Goals : d.from = c.from /\ Puts(p, d, t, net) /\ UNCHANGED reply
        \/ \E r \in Replies \ {"lost"} : Finish(p, c, r) /\ net' = net
    BY <1>1, <2>1, TakeRpc
  <2> QED
    BY <1>2, <2>2, <2>3 DEF RpcEffect, Calls
<1>8. CASE ChunkStored(p)
  BY <1>1, <1>2, <1>3, <1>8 DEF ChunkStored
<1>9. CASE ChunkRefused(p)
  BY <1>1, <1>2, <1>3, <1>9 DEF ChunkRefused, GiveUp
<1>10. CASE PeerLostStream(p)
  BY <1>1, <1>2, <1>3, <1>10 DEF PeerLostStream
<1>11. CASE Allocated(p)
  BY <1>1, <1>2, <1>3, <1>11 DEF Allocated, ReadObtained, DeliverIfItFits, Deliver, GiveUp
<1>12. CASE NotAllocated(p)
  BY <1>1, <1>2, <1>3, <1>12 DEF NotAllocated, GiveUp
<1>13. CASE CloseDone(p)
  BY <1>1, <1>2, <1>13 DEF CloseDone, Heard
<1> QED
  BY <1>4, <1>5, <1>6, <1>7, <1>8, <1>9, <1>10, <1>11, <1>12, <1>13 DEF Continue

LEMMA ServeRpc ==
  ASSUME TypeInv, NEW m \in net, Serve(m)
  PROVE  RpcEffect
<1>1. /\ Replies = {"none", "ok", "empty", "lost", "conflict", "failed"} /\ "chunk" \in Awaits
      /\ m.to \in Kme /\ Allocator \in Kme
  BY TypeFacts DEF CallsType, GoodRequest, Request
<1>2. ASSUME NEW r \in Replies, Answer(m, r), m.type = "chunk" /\ r = "ok" => Acks(m),
             m.type \in {"chunk", "allocate"} /\ r = "lost" => \E k \in Kme : ~Open(k, m.s)
      PROVE  RpcEffect
  BY <1>2 DEF RpcEffect, Answers
<1>3. CASE OnAnnounce(m) \/ OnEstablish(m) \/ OnWithdraw(m) \/ OnClose(m)
  BY <1>1, <1>2, <1>3 DEF OnAnnounce, OnEstablish, OnWithdraw, OnClose, Refuse
<1>4. CASE OnChunk(m)
  <2>1. CASE (~Open(m.to, m.s) /\ Refuse(m, "lost")) \/ Refuse(m, "conflict")
    BY <1>1, <1>2, <2>1 DEF Refuse
  <2>2. CASE Open(m.to, m.s) /\ Repeat(The(m.to, m.s), m.i, m.x) /\ Refuse(m, "ok")
    BY <1>1, <1>2, <2>2 DEF Refuse, Acks
  <2>3. CASE Stores(m) /\ Answer(m, "ok")
    BY <1>1, <1>2, <2>3 DEF Acks, Stores
  <2> QED
    BY <1>4, <2>1, <2>2, <2>3 DEF OnChunk, StoreChunk, Stores, chunks
<1>5. ASSUME NEW h \in Handler, OnAllocate(h, m) PROVE RpcEffect
  <2> DEFINE n == cur[Allocator][m.s]
             c == [Idle EXCEPT !.s = m.s, !.n = n, !.i = m.i, !.from = m.from]
  <2>1. m.type = "allocate" /\ h \in Proc
    BY <1>5, TypeFacts DEF OnAllocate
  <2>2. CASE (~Open(Allocator, m.s) /\ Refuse(m, "lost")) \/ Refuse(m, "empty")
    BY <1>1, <1>2, <2>1, <2>2 DEF Refuse
  <2>3. CASE Open(Allocator, m.s) /\ Free(h) /\ Obtain(h, c, net \ {m})
    <3>1. m.s \in Ksid /\ m.i \in Index /\ m.from \in Proc \cup {Nobody}
      BY TypeFacts DEF CallsType, GoodRequest, Request
    <3>2. n \in Object
      BY <2>3, <3>1, TypeFacts, TheType DEF Open
    <3> HIDE DEF n
    <3>3. c \in Call /\ c.from = m.from
      BY <3>1, <3>2, IdleType DEF Call
    <3> HIDE DEF c
    <3>4. net \ {m} \in SUBSET net
      OBVIOUS
    <3>5. \/ \E d \in Call, t \in Goals : d.from = c.from /\ Puts(h, d, t, net \ {m}) /\ UNCHANGED reply
          \/ \E r \in Replies \ {"lost"} : Finish(h, c, r) /\ net' = net \ {m}
      BY <2>1, <2>3, <3>3, <3>4, ObtainRpc
    <3>6. ASSUME NEW d \in Call, NEW t \in Goals, d.from = c.from, Puts(h, d, t, net \ {m}), UNCHANGED reply
          PROVE  RpcEffect
      <4>1. Accepts(h, d, t, m)
        BY <2>1, <2>3, <3>3, <3>6 DEF Accepts
      <4> QED
        BY <1>1, <2>1, <4>1 DEF RpcEffect
    <3>7. ASSUME NEW r \in Replies \ {"lost"}, Finish(h, c, r), net' = net \ {m} PROVE RpcEffect
      <4>1. Declines(h, c, r, m)
        BY <2>1, <2>3, <3>3, <3>7 DEF Declines
      <4> QED
        BY <2>1, <3>3, <4>1 DEF RpcEffect
    <3> QED
      BY <3>5, <3>6, <3>7
  <2> QED
    BY <1>5, <2>2, <2>3 DEF OnAllocate
<1> QED
  BY <1>3, <1>4, <1>5 DEF Serve

LEMMA RpcEffectStep ==
  ASSUME TypeInv, Rpc, [Next]_vars
  PROVE  RpcEffect
<1>1. ASSUME NEW p \in App, Begin(p) PROVE RpcEffect
  BY <1>1, BeginRpc, TypeFacts DEF Begin
<1>2. CASE Sweep
  BY <1>2 DEF Sweep, SweepStream, SweepChunk, SweepRecord, RpcEffect
<1>3. CASE UNCHANGED vars
  BY <1>3 DEF vars, RpcEffect
<1>4. CASE \/ \E p \in Proc : PeerFails(p)
           \/ \E k \in Kme : Restart(k)
  BY <1>4 DEF RpcEffect
<1> QED
  BY <1>1, <1>2, <1>3, <1>4, ContinueRpc, ServeRpc DEF Next

\* No request and no handler asks on behalf of a process that waits for no one.
LEMMA HeardAlone ==
  ASSUME TypeInv, Rpc, NEW p \in Proc, Heard(p)
  PROVE  (\A m \in net : m.from # p) /\ \A q \in Proc : call[q].from # p
<1>1. p # Nobody /\ \A m \in net : m.type \in Awaits
  BY TypeFacts, EngineAssumption DEF CallsType, GoodRequest, Request
<1> QED
  BY <1>1, TypeFacts DEF Rpc, Heard, Free

\* Two requests of one process are the same request.
LEMMA OneRequest ==
  ASSUME TypeInv, Rpc, NEW m \in net, NEW l \in net, m.from # Nobody, m.from = l.from
  PROVE  m = l
<1>1. m \in Request /\ l \in Request
  BY TypeFacts DEF CallsType, GoodRequest
<1>2. m.type = l.type /\ m.to = l.to /\ m.s = l.s /\ m.i = l.i /\ m.x = l.x
  BY DEF Rpc
<1> QED
  BY <1>1, <1>2 DEF Request

LEMMA PutsPoint ==
  ASSUME TypeInv, NEW p \in Proc, NEW c \in Call, NEW t \in Goals, NEW inbox, Puts(p, c, t, inbox)
  PROVE  /\ call'[p].pc = t /\ call'[p].s = c.s /\ call'[p].i = c.i /\ call'[p].x = c.x
         /\ call'[p].from = c.from /\ ~Free(p)'
         /\ \A q \in Proc \ {p} : call'[q] = call[q]
         /\ \A m \in net' : \/ m \in inbox
                            \/ /\ m.type = t /\ m.to = Peer[Site[p]] /\ m.s = c.s /\ m.i = c.i
                               /\ m.x = c.x /\ m.from = p
<1>1. call' = [call EXCEPT ![p] = [c EXCEPT !.pc = t]] /\ call \in [Proc -> Call]
  BY TypeFacts DEF Puts, CallsType
<1>2. call'[p] = [c EXCEPT !.pc = t] /\ \A q \in Proc \ {p} : call'[q] = call[q]
  BY <1>1
<1>3. \A m \in net' : m \in inbox \/ m = [type |-> t, to |-> Peer[Site[p]], s |-> c.s,
                                          i |-> c.i, x |-> c.x, from |-> p]
  BY DEF Puts
<1>4. t # "idle"
  BY DEF Awaits, Goals
<1> QED
  BY <1>2, <1>3, <1>4 DEF Call, Free

LEMMA SendPoint ==
  ASSUME WireInv, NEW p \in Proc, NEW c \in Call, NEW t \in Awaits, NEW inbox, Send(p, c, t, inbox)
  PROVE  /\ call'[p].pc = t /\ call'[p].s = c.s /\ call'[p].i = c.i /\ call'[p].x = c.x
         /\ call'[p].from = c.from /\ ~Free(p)'
         /\ \A q \in Proc \ {p} : call'[q] = call[q]
         /\ \A m \in net' : \/ m \in inbox
                            \/ /\ m.type = t /\ m.to = Peer[Site[p]] /\ m.s = c.s /\ m.i = c.i
                               /\ m.x = c.x /\ m.from = p
BY SendPuts, PutsPoint DEF WireInv

\* An acknowledged push was acknowledged before or is so by this step.
NewAcks ==
  \A p \in Proc : call'[p].pc = "chunk" /\ reply'[p] = "ok" =>
    \/ /\ call[p].pc = "chunk" /\ reply[p] = "ok"
       /\ call'[p].s = call[p].s /\ call'[p].x = call[p].x
    \/ \E m \in net : m.type = "chunk" /\ Acks(m) /\ m.s = call'[p].s /\ m.x = call'[p].x

LEMMA CallsRpc ==
  ASSUME TypeInv, Rpc, NEW p \in Proc, NEW c \in Call, NEW t \in Goals, Calls(p, c, t)
  PROVE  Rpc' /\ NewAcks
<1>1. /\ Heard(p) /\ reply[p] = "none" /\ c.from = call[p].from /\ Puts(p, c, t, net) /\ reply' = reply
      /\ p # Nobody
  BY EngineAssumption DEF Calls
<1>2. (\A m \in net : m.from # p) /\ \A q \in Proc : call[q].from # p
  BY <1>1, HeardAlone
<1>3. /\ call'[p].pc = t /\ call'[p].s = c.s /\ call'[p].i = c.i /\ call'[p].x = c.x
      /\ call'[p].from = c.from /\ ~Free(p)'
      /\ \A q \in Proc \ {p} : call'[q] = call[q]
      /\ \A m \in net' : \/ m \in net
                         \/ /\ m.type = t /\ m.to = Peer[Site[p]] /\ m.s = c.s /\ m.i = c.i
                            /\ m.x = c.x /\ m.from = p
  BY <1>1, PutsPoint
<1>4. \A q \in Proc : call'[q].from = call[q].from
  BY <1>1, <1>3
<1>5. NewAcks
  BY <1>1, <1>3 DEF NewAcks
<1>6. \A q \in Proc : (reply'[q] # "none" => call'[q].pc \in Awaits) /\ (Free(q)' => call'[q].from = Nobody)
  BY <1>1, <1>3 DEF Rpc, Free
<1>7. ASSUME NEW m \in net', m.from # Nobody
      PROVE  LET d == call'[m.from]
             IN /\ d.pc = m.type /\ reply'[m.from] = "none" /\ m.to = Peer[Site[m.from]]
                /\ m.s = d.s /\ m.i = d.i /\ m.x = d.x
                /\ \A q \in Proc : call'[q].from # m.from
  <2>1. CASE m \in net
    <3>1. m.from \in Proc \ {p}
      BY <1>2, <1>7, <2>1, TypeFacts DEF CallsType, GoodRequest, Request
    <3> QED
      BY <1>1, <1>3, <1>4, <1>7, <2>1, <3>1 DEF Rpc
  <2>2. CASE m \notin net
    BY <1>1, <1>2, <1>3, <1>4, <2>2
  <2> QED
    BY <2>1, <2>2
<1>8. ASSUME NEW q \in Proc, call'[q].from # Nobody
      PROVE  LET g == call'[q].from
             IN /\ call'[g].pc = "allocate" /\ reply'[g] = "none"
                /\ \A r \in Proc : call'[r].from = g => r = q
  <2>1. call[q].from \in Proc \ {p}
    BY <1>2, <1>4, <1>8, TypeFacts DEF CallsType, Call
  <2> QED
    BY <1>1, <1>3, <1>4, <1>8, <2>1 DEF Rpc
<1> QED
  BY <1>5, <1>6, <1>7, <1>8 DEF Rpc

LEMMA AcceptsRpc ==
  ASSUME TypeInv, Rpc, NEW h \in Proc, NEW c \in Call, NEW t \in Goals, NEW m \in net,
         Accepts(h, c, t, m)
  PROVE  Rpc' /\ NewAcks
<1>1. /\ Heard(h) /\ m.type = "allocate" /\ c.from = m.from /\ Puts(h, c, t, net \ {m})
      /\ reply' = reply /\ h # Nobody
  BY EngineAssumption DEF Accepts, Heard
<1>2. (\A l \in net : l.from # h) /\ \A q \in Proc : call[q].from # h
  BY <1>1, HeardAlone
<1>3. /\ call'[h].pc = t /\ call'[h].s = c.s /\ call'[h].i = c.i /\ call'[h].x = c.x
      /\ call'[h].from = m.from /\ ~Free(h)'
      /\ \A q \in Proc \ {h} : call'[q] = call[q]
      /\ \A l \in net' : \/ l \in net \ {m}
                         \/ /\ l.type = t /\ l.to = Peer[Site[h]] /\ l.s = c.s /\ l.i = c.i
                            /\ l.x = c.x /\ l.from = h
  BY <1>1, PutsPoint
<1>4. reply[h] = "none"
  BY TypeFacts DEF Accepts, Free, Rpc
<1>5. NewAcks
  BY <1>1, <1>3, <1>4 DEF NewAcks
<1>6. \A q \in Proc : (reply'[q] # "none" => call'[q].pc \in Awaits) /\ (Free(q)' => call'[q].from = Nobody)
  BY <1>1, <1>3, <1>4 DEF Rpc, Free
<1>7. ASSUME NEW l \in net', l.from # Nobody
      PROVE  LET d == call'[l.from]
             IN /\ d.pc = l.type /\ reply'[l.from] = "none" /\ l.to = Peer[Site[l.from]]
                /\ l.s = d.s /\ l.i = d.i /\ l.x = d.x
                /\ \A q \in Proc : call'[q].from # l.from
  <2>1. CASE l \in net \ {m}
    <3>1. l.from \in Proc \ {h}
      BY <1>2, <1>7, <2>1, TypeFacts DEF CallsType, GoodRequest, Request
    <3>2. l.from # m.from
      BY <1>7, <2>1, OneRequest
    <3>3. \A q \in Proc : call'[q].from # l.from
      BY <1>3, <1>7, <2>1, <3>2 DEF Rpc
    <3> QED
      BY <1>1, <1>3, <1>7, <2>1, <3>1, <3>3 DEF Rpc
  <2>2. CASE l \notin net \ {m}
    BY <1>1, <1>2, <1>3, <1>4, <2>2
  <2> QED
    BY <2>1, <2>2
<1>8. ASSUME NEW q \in Proc, call'[q].from # Nobody
      PROVE  LET g == call'[q].from
             IN /\ call'[g].pc = "allocate" /\ reply'[g] = "none"
                /\ \A r \in Proc : call'[r].from = g => r = q
  <2>1. CASE q = h
    <3>1. m.from \in Proc \ {h} /\ m.from # Nobody
      BY <1>2, <1>3, <1>8, <2>1, TypeFacts DEF CallsType, GoodRequest, Request
    <3>2. call[m.from].pc = "allocate" /\ reply[m.from] = "none" /\ \A r \in Proc : call[r].from # m.from
      BY <1>1, <3>1 DEF Rpc
    <3> QED
      BY <1>1, <1>3, <2>1, <3>1, <3>2
  <2>2. CASE q # h
    <3>1. call'[q].from = call[q].from /\ call[q].from \in Proc \ {h} /\ call[q].from # m.from
      BY <1>2, <1>3, <1>8, <2>2, TypeFacts DEF CallsType, Call, Rpc
    <3> QED
      BY <1>1, <1>3, <1>8, <2>2, <3>1 DEF Rpc
  <2> QED
    BY <2>1, <2>2
<1> QED
  BY <1>5, <1>6, <1>7, <1>8 DEF Rpc

\* A call ends: that of a process no one asked to, or of one that was asked
\* before this step, or by the request m.
LEMMA FinishRpc ==
  ASSUME TypeInv, Rpc, NEW p \in Proc, NEW c \in Call, NEW r \in Replies, Finish(p, c, r),
         Heard(p), net' \subseteq net,
         \A m \in net' : c.from # Nobody => m.from # c.from,
         c.from # Nobody => /\ call[c.from].pc = "allocate"
                            /\ \A q \in Proc \ {p} : call[q].from # c.from
  PROVE  Rpc' /\ NewAcks
<1>1. (\A m \in net : m.from # p) /\ \A q \in Proc : call[q].from # p
  BY HeardAlone
<1>2. /\ call'[p] = Idle /\ \A q \in Proc \ {p} : call'[q] = call[q]
      /\ reply'[p] = "none" /\ \A q \in Proc \ {p} : reply'[q] = IF q = c.from THEN r ELSE reply[q]
      /\ Nobody \notin Proc
  BY FinishStep, TypeFacts, EngineAssumption
<1>3. Idle.pc = "idle" /\ Idle.from = Nobody /\ "allocate" \in Awaits
  BY IdleType, TypeFacts
<1>4. NewAcks
  BY <1>2, <1>3 DEF NewAcks
<1>5. \A q \in Proc : (reply'[q] # "none" => call'[q].pc \in Awaits) /\ (Free(q)' => call'[q].from = Nobody)
  BY <1>2, <1>3 DEF Rpc, Free
<1>6. ASSUME NEW m \in net', m.from # Nobody
      PROVE  LET d == call'[m.from]
             IN /\ d.pc = m.type /\ reply'[m.from] = "none" /\ m.to = Peer[Site[m.from]]
                /\ m.s = d.s /\ m.i = d.i /\ m.x = d.x
                /\ \A q \in Proc : call'[q].from # m.from
  <2>1. m.from \in Proc \ {p} /\ m.from # c.from /\ m \in net
    BY <1>1, <1>6, TypeFacts DEF CallsType, GoodRequest, Request
  <2>2. \A q \in Proc : call'[q].from # m.from
    BY <1>2, <1>3, <1>6, <2>1 DEF Rpc
  <2> QED
    BY <1>2, <1>6, <2>1, <2>2 DEF Rpc
<1>7. ASSUME NEW q \in Proc, call'[q].from # Nobody
      PROVE  LET g == call'[q].from
             IN /\ call'[g].pc = "allocate" /\ reply'[g] = "none"
                /\ \A l \in Proc : call'[l].from = g => l = q
  <2>1. q # p /\ call'[q].from = call[q].from
    BY <1>2, <1>3, <1>7
  <2>2. call[q].from \in Proc \ {p} /\ call[q].from # c.from
    BY <1>1, <1>7, <2>1, TypeFacts DEF CallsType, Call
  <2> QED
    BY <1>2, <1>3, <1>7, <2>1, <2>2 DEF Rpc
<1> QED
  BY <1>4, <1>5, <1>6, <1>7 DEF Rpc

LEMMA AnswersRpc ==
  ASSUME TypeInv, Rpc, NEW m \in net, NEW r \in Replies, Answers(m, r)
  PROVE  Rpc' /\ NewAcks
<1>1. /\ net' = net \ {m} /\ call' = call
      /\ \A q \in Proc : reply'[q] = IF q = m.from THEN r ELSE reply[q]
      /\ Nobody \notin Proc /\ m.type \in Awaits
  BY AnswerStep, TypeFacts, EngineAssumption DEF Answers, CallsType, GoodRequest, Request
<1>2. NewAcks
  <2> SUFFICES ASSUME NEW p \in Proc, call'[p].pc = "chunk", reply'[p] = "ok"
               PROVE  \/ /\ call[p].pc = "chunk" /\ reply[p] = "ok"
                         /\ call'[p].s = call[p].s /\ call'[p].x = call[p].x
                      \/ \E l \in net : l.type = "chunk" /\ Acks(l) /\ l.s = call'[p].s
                                        /\ l.x = call'[p].x
    BY DEF NewAcks
  <2>1. CASE p = m.from
    <3>1. m.type = "chunk" /\ m.s = call[p].s /\ m.x = call[p].x
      BY <1>1, <2>1 DEF Rpc
    <3> QED
      BY <1>1, <2>1, <3>1 DEF Answers
  <2>2. CASE p # m.from
    BY <1>1, <2>2
  <2> QED
    BY <2>1, <2>2
<1>3. \A q \in Proc : (reply'[q] # "none" => call'[q].pc \in Awaits) /\ (Free(q)' => call'[q].from = Nobody)
  BY <1>1 DEF Rpc, Free
<1>4. ASSUME NEW l \in net', l.from # Nobody
      PROVE  LET d == call'[l.from]
             IN /\ d.pc = l.type /\ reply'[l.from] = "none" /\ l.to = Peer[Site[l.from]]
                /\ l.s = d.s /\ l.i = d.i /\ l.x = d.x
                /\ \A q \in Proc : call'[q].from # l.from
  <2>1. l.from \in Proc /\ l.from # m.from /\ l \in net
    BY <1>1, <1>4, OneRequest, TypeFacts DEF CallsType, GoodRequest, Request
  <2> QED
    BY <1>1, <1>4, <2>1 DEF Rpc
<1>5. ASSUME NEW q \in Proc, call'[q].from # Nobody
      PROVE  LET g == call'[q].from
             IN /\ call'[g].pc = "allocate" /\ reply'[g] = "none"
                /\ \A k \in Proc : call'[k].from = g => k = q
  <2>1. call[q].from \in Proc /\ call[q].from # m.from
    BY <1>1, <1>5, TypeFacts DEF CallsType, Call, Rpc
  <2> QED
    BY <1>1, <1>5, <2>1 DEF Rpc
<1> QED
  BY <1>2, <1>3, <1>4, <1>5 DEF Rpc

LEMMA WaitsRpc ==
  ASSUME TypeInv, Rpc, NEW p \in Proc, Waits(p)
  PROVE  Rpc' /\ NewAcks
<1>1. Heard(p)
  BY DEF Waits, Hears, Heard
<1>2. (\A m \in net : m.from # p) /\ \A q \in Proc : call[q].from # p
  BY <1>1, HeardAlone
<1>3. /\ call'[p].pc = "wait" /\ \A q \in Proc \ {p} : call'[q] = call[q]
      /\ \A q \in Proc : call'[q].from = call[q].from
      /\ reply'[p] = "none" /\ \A q \in Proc \ {p} : reply'[q] = reply[q]
      /\ net' = net
  BY TypeFacts DEF Waits, Clear, CallsType, Call
<1>4. NewAcks
  BY <1>3 DEF NewAcks
<1>5. \A q \in Proc : (reply'[q] # "none" => call'[q].pc \in Awaits) /\ (Free(q)' => call'[q].from = Nobody)
  BY <1>3 DEF Rpc, Free
<1>6. ASSUME NEW m \in net', m.from # Nobody
      PROVE  LET d == call'[m.from]
             IN /\ d.pc = m.type /\ reply'[m.from] = "none" /\ m.to = Peer[Site[m.from]]
                /\ m.s = d.s /\ m.i = d.i /\ m.x = d.x
                /\ \A q \in Proc : call'[q].from # m.from
  <2>1. m.from \in Proc \ {p} /\ m \in net
    BY <1>2, <1>3, <1>6, TypeFacts DEF CallsType, GoodRequest, Request
  <2> QED
    BY <1>3, <1>6, <2>1 DEF Rpc
<1>7. ASSUME NEW q \in Proc, call'[q].from # Nobody
      PROVE  LET g == call'[q].from
             IN /\ call'[g].pc = "allocate" /\ reply'[g] = "none"
                /\ \A l \in Proc : call'[l].from = g => l = q
  <2>1. call[q].from \in Proc \ {p} /\ call'[q].from = call[q].from
    BY <1>2, <1>3, <1>7, TypeFacts DEF CallsType, Call
  <2> QED
    BY <1>3, <1>7, <2>1 DEF Rpc
<1> QED
  BY <1>4, <1>5, <1>6, <1>7 DEF Rpc

\* Calls fail: the processes F are told so, what asked for those in P answers
\* nobody, and the processes of P that end are idle.
LEMMA FailRpc ==
  ASSUME TypeInv, Rpc, NEW P \in SUBSET Proc, NEW F \in SUBSET Proc, Orphan(P),
         \A q \in Proc : \/ call'[q] = Idle
                         \/ /\ call'[q].pc = call[q].pc /\ call'[q].s = call[q].s
                            /\ call'[q].i = call[q].i /\ call'[q].x = call[q].x
                            /\ call'[q].from = IF call[q].from \in P THEN Nobody ELSE call[q].from,
         \A q \in Proc : call'[q] = Idle => call[q] = Idle \/ q \in P,
         \A q \in Proc : reply'[q] \in {reply[q], "none"} \/ (q \in F /\ reply'[q] = "failed"),
         \A q \in F : call[q].pc \in Awaits /\ call'[q] # Idle,
         \A q \in Proc : reply'[q] # "none" => call'[q] # Idle,
         \A q \in F : q \in P \/ \E p \in Proc : call'[p] = Idle /\ call[p].from = q
  PROVE  Rpc' /\ NewAcks
<1>1. Idle.pc = "idle" /\ Idle.from = Nobody /\ Nobody \notin Proc
  BY IdleType, EngineAssumption
<1>2. NewAcks
  BY <1>1 DEF NewAcks
<1>3. \A q \in Proc : (reply'[q] # "none" => call'[q].pc \in Awaits) /\ (Free(q)' => call'[q].from = Nobody)
  <2>1. ASSUME NEW q \in Proc, Free(q)' PROVE call'[q].from = Nobody
    BY <1>1, <2>1 DEF Rpc, Free
  <2>2. ASSUME NEW q \in Proc, reply'[q] # "none" PROVE call'[q].pc \in Awaits
    <3>1. call'[q].pc = call[q].pc
      BY <2>2
    <3>2. call[q].pc \in Awaits
      BY <2>2 DEF Rpc
    <3> QED
      BY <3>1, <3>2
  <2> QED
    BY <2>1, <2>2
<1>4. \A m \in net' : m.from # Nobody => m \in net /\ m.from \notin P /\ m.from \in Proc
  <2>1. PICK L \in SUBSET {m \in net : m.from \in P} :
          net' = {m \in net : m.from \notin P} \cup {[m EXCEPT !.from = Nobody] : m \in L}
    BY DEF Orphan
  <2>2. \A l \in net : l.from \in Proc \cup {Nobody} /\ [l EXCEPT !.from = Nobody].from = Nobody
    BY TypeFacts DEF CallsType, GoodRequest, Request
  <2>3. ASSUME NEW m \in net', m.from # Nobody PROVE m \in net /\ m.from \notin P
    <3>1. CASE m \in {l \in net : l.from \notin P}
      BY <3>1
    <3>2. CASE m \notin {l \in net : l.from \notin P}
      <4>1. PICK l \in L : m = [l EXCEPT !.from = Nobody]
        BY <2>1, <3>2
      <4> QED
        BY <2>2, <2>3, <4>1
    <3> QED
      BY <3>1, <3>2
  <2> QED
    BY <2>2, <2>3
<1>5. \A q \in Proc : call'[q].from # Nobody =>
        call'[q].from = call[q].from /\ call[q].from \notin P /\ call[q].from \in Proc
  BY <1>1, TypeFacts DEF CallsType, Call
<1>6. ASSUME NEW m \in net', m.from # Nobody
      PROVE  LET d == call'[m.from]
             IN /\ d.pc = m.type /\ reply'[m.from] = "none" /\ m.to = Peer[Site[m.from]]
                /\ m.s = d.s /\ m.i = d.i /\ m.x = d.x
                /\ \A q \in Proc : call'[q].from # m.from
  <2> DEFINE g == m.from
  <2>1. /\ m \in net /\ g \notin P /\ g \in Proc /\ call[g].pc = m.type /\ reply[g] = "none"
        /\ m.to = Peer[Site[g]] /\ m.s = call[g].s /\ m.i = call[g].i /\ m.x = call[g].x
        /\ \A q \in Proc : call[q].from # g
    BY <1>4, <1>6 DEF Rpc
  <2>2. m.type \in Awaits
    BY <2>1, TypeFacts DEF CallsType, GoodRequest, Request
  <2>3. call'[g] # Idle
    BY <1>1, <2>1, <2>2 DEF Awaits
  <2>4. reply'[g] = "none"
    BY <2>1
  <2>5. \A q \in Proc : call'[q].from # g
    BY <1>5, <1>6, <2>1
  <2> QED
    BY <2>1, <2>3, <2>4, <2>5
<1>7. ASSUME NEW q \in Proc, call'[q].from # Nobody
      PROVE  LET g == call'[q].from
             IN /\ call'[g].pc = "allocate" /\ reply'[g] = "none"
                /\ \A l \in Proc : call'[l].from = g => l = q
  <2> DEFINE g == call[q].from
  <2>1. /\ call'[q].from = g /\ g \notin P /\ g \in Proc /\ g # Nobody
        /\ call[g].pc = "allocate" /\ reply[g] = "none"
        /\ \A l \in Proc : call[l].from = g => l = q
    BY <1>5, <1>7 DEF Rpc
  <2>2. call'[q] # Idle /\ call'[g] # Idle
    BY <1>1, <1>7, <2>1
  <2>3. reply'[g] = "none"
    BY <2>1, <2>2
  <2>4. \A l \in Proc : call'[l].from = g => l = q
    BY <1>5, <2>1
  <2> QED
    BY <2>1, <2>2, <2>3, <2>4
<1> QED
  BY <1>2, <1>3, <1>6, <1>7 DEF Rpc

LEMMA RpcStep ==
  ASSUME TypeInv, Rpc, RpcEffect
  PROVE  Rpc' /\ NewAcks
<1>1. /\ call \in [Proc -> Call] /\ \A c \in Call : c.from \in Proc \cup {Nobody}
      /\ Nobody \notin Proc /\ Idle.pc = "idle" /\ Idle.from = Nobody
      /\ "allocate" \in Awaits /\ \A m \in net : m.from \in Proc \cup {Nobody}
  BY IdleType, EngineAssumption, TypeFacts DEF CallsType, Call, GoodRequest, Request
<1>2. ASSUME NEW p \in Proc, NEW c \in Call, NEW r \in Replies, Returns(p, c, r)
      PROVE  Rpc' /\ NewAcks
  <2>1. /\ Heard(p) /\ Finish(p, c, r) /\ net' = net /\ c.from = call[p].from
    BY <1>2 DEF Returns
  <2>2. \A m \in net' : c.from # Nobody => m.from # c.from
    BY <2>1 DEF Rpc
  <2>3. c.from # Nobody => call[c.from].pc = "allocate" /\ \A q \in Proc \ {p} : call[q].from # c.from
    BY <2>1 DEF Rpc
  <2> QED
    BY <2>1, <2>2, <2>3, FinishRpc
<1>3. ASSUME NEW h \in Proc, NEW c \in Call, NEW r \in Replies, NEW m \in net, Declines(h, c, r, m)
      PROVE  Rpc' /\ NewAcks
  <2>1. /\ Heard(h) /\ Finish(h, c, r) /\ net' = net \ {m} /\ c.from = m.from /\ m.type = "allocate"
    BY <1>3 DEF Declines, Heard
  <2>2. \A l \in net' : c.from # Nobody => l.from # c.from
    BY <2>1, OneRequest
  <2>3. c.from # Nobody => call[c.from].pc = "allocate" /\ \A q \in Proc \ {h} : call[q].from # c.from
    BY <2>1 DEF Rpc
  <2> QED
    BY <2>1, <2>2, <2>3, FinishRpc
<1>4. CASE UNCHANGED calls
  BY <1>4 DEF calls, Rpc, NewAcks, Free
<1>5. \A q \in Proc : /\ [call[q] EXCEPT !.from = Nobody].pc = call[q].pc
                      /\ [call[q] EXCEPT !.from = Nobody].s = call[q].s
                      /\ [call[q] EXCEPT !.from = Nobody].i = call[q].i
                      /\ [call[q] EXCEPT !.from = Nobody].x = call[q].x
                      /\ [call[q] EXCEPT !.from = Nobody].from = Nobody
                      /\ call[q].from = Nobody => [call[q] EXCEPT !.from = Nobody] = call[q]
  BY <1>1 DEF Call
<1>6. ASSUME NEW q \in Proc, [call[q] EXCEPT !.from = Nobody] = Idle PROVE call[q] = Idle
  <2>1. call[q].pc = "idle"
    BY <1>1, <1>5, <1>6
  <2>2. call[q].from = Nobody
    BY <2>1 DEF Rpc, Free
  <2> QED
    BY <1>5, <1>6, <2>2
<1>7. ASSUME NEW p \in Proc, PeerFails(p) PROVE Rpc' /\ NewAcks
  <2>1. /\ reply[p] = "none" /\ call[p].pc \in Awaits /\ Orphan({p})
        /\ \A q \in Proc : reply'[q] = IF q = p THEN "failed" ELSE reply[q]
        /\ \A q \in Proc : call'[q] = IF call[q].from = p THEN [call[q] EXCEPT !.from = Nobody]
                                      ELSE call[q]
    BY <1>7, TypeFacts DEF PeerFails, CallsType
  <2>2. \A q \in Proc : /\ call'[q].pc = call[q].pc /\ call'[q].s = call[q].s
                        /\ call'[q].i = call[q].i /\ call'[q].x = call[q].x
                        /\ call'[q].from = IF call[q].from \in {p} THEN Nobody ELSE call[q].from
    <3> SUFFICES ASSUME NEW q \in Proc
                 PROVE  /\ call'[q].pc = call[q].pc /\ call'[q].s = call[q].s
                        /\ call'[q].i = call[q].i /\ call'[q].x = call[q].x
                        /\ call'[q].from = IF call[q].from \in {p} THEN Nobody ELSE call[q].from
      OBVIOUS
    <3>1. CASE call[q].from = p
      BY <1>5, <2>1, <3>1
    <3>2. CASE call[q].from # p
      BY <2>1, <3>2
    <3> QED
      BY <3>1, <3>2
  <2>3. \A q \in Proc : call'[q] = Idle => call[q] = Idle
    BY <1>6, <2>1
  <2>4. \A q \in Proc : reply'[q] # "none" => call'[q] # Idle
    <3>1. \A q \in Proc : reply'[q] # "none" => call[q].pc \in Awaits
      BY <2>1 DEF Rpc
    <3>2. "idle" \notin Awaits
      BY DEF Awaits
    <3> QED
      BY <1>1, <2>2, <3>1, <3>2
  <2>5. \A q \in {p} : call[q].pc \in Awaits /\ call'[q] # Idle
    BY <2>1, <2>4
  <2>6. {p} \in SUBSET Proc
    OBVIOUS
  <2>7. \A q \in Proc : reply'[q] \in {reply[q], "none"} \/ (q \in {p} /\ reply'[q] = "failed")
    BY <2>1
  <2>8. \A q \in {p} : q \in {p} \/ \E l \in Proc : call'[l] = Idle /\ call[l].from = q
    OBVIOUS
  <2> QED
    BY <2>1, <2>2, <2>3, <2>4, <2>5, <2>6, <2>7, <2>8, FailRpc
<1>8. ASSUME NEW k \in Kme, Restart(k) PROVE Rpc' /\ NewAcks
  <2> DEFINE P == {p \in Proc : Site[p] = k}
             F == {q \in Proc \ P : \E p \in P : ~Free(p) /\ call[p].from = q}
  <2>1. /\ Orphan(P)
        /\ \A q \in Proc : call'[q] = IF q \in P THEN Idle
                                      ELSE IF call[q].from \in P THEN [call[q] EXCEPT !.from = Nobody]
                                      ELSE call[q]
    BY <1>8 DEF Restart
  <2>2. \A q \in Proc : reply'[q] = IF q \in P THEN "none" ELSE IF q \in F THEN "failed" ELSE reply[q]
    BY <1>8 DEF Restart
  <2>3. P \in SUBSET Proc /\ F \in SUBSET Proc
    OBVIOUS
  <2>4. \A q \in F : q \notin P /\ call[q].pc = "allocate" /\ \E p \in P : call[p].from = q
    BY <1>1 DEF Rpc
  <2> HIDE DEF P, F
  <2>5. \A q \in Proc : \/ call'[q] = Idle
                        \/ /\ call'[q].pc = call[q].pc /\ call'[q].s = call[q].s
                           /\ call'[q].i = call[q].i /\ call'[q].x = call[q].x
                           /\ call'[q].from = IF call[q].from \in P THEN Nobody ELSE call[q].from
    BY <1>5, <2>1
  <2>6. \A q \in Proc : call'[q] = Idle => call[q] = Idle \/ q \in P
    BY <1>6, <2>1
  <2>7. \A q \in Proc : reply'[q] \in {reply[q], "none"} \/ (q \in F /\ reply'[q] = "failed")
    BY <2>2
  <2>8. "idle" \notin Awaits
    BY DEF Awaits
  <2>9. \A q \in F : call[q].pc \in Awaits /\ call'[q] # Idle
    BY <1>1, <2>3, <2>4, <2>6, <2>8
  <2>10. \A q \in Proc : reply'[q] # "none" => call'[q] # Idle
    <3>1. ASSUME NEW q \in Proc, reply'[q] # "none" PROVE call'[q] # Idle
      <4>1. q \notin P /\ (q \in F \/ reply[q] # "none")
        BY <2>2, <3>1
      <4>2. call[q].pc # "idle"
        BY <2>4, <2>8, <4>1 DEF Rpc
      <4> QED
        BY <1>1, <2>6, <4>1, <4>2
    <3> QED
      BY <3>1
  <2>11. \A q \in F : q \in P \/ \E p \in Proc : call'[p] = Idle /\ call[p].from = q
    BY <2>1, <2>3, <2>4
  <2> QED
    BY <2>1, <2>3, <2>5, <2>6, <2>7, <2>9, <2>10, <2>11, FailRpc
<1> QED
  BY <1>2, <1>3, <1>4, <1>7, <1>8, CallsRpc, AcceptsRpc, AnswersRpc, WaitsRpc DEF RpcEffect

-----------------------------------------------------------------------------
(* Acknowledgements, and the promise of KeyDelivery.                       *)

\* A confirmed chunk of an id used once is one the peer stored, and so is one
\* whose push was acknowledged: a repeat on an index the peer has delivered is
\* acknowledged unseen, but only the same chunk can have been there.
Acked ==
  /\ \A s \in Ksid, i \in Index : \A x \in confirmed :
       UsedOnce(s) /\ At(s, i, x) => x \in stored[Peer[Allocator]]
  /\ \A p \in Proc :
       call[p].pc = "chunk" /\ reply[p] = "ok" /\ UsedOnce(call[p].s) =>
         call[p].x \in stored[Peer[Allocator]]

PromiseInv == SlotsInv /\ Single /\ Homes /\ Kept /\ Rpc /\ Acked

LEMMA AcksStored ==
  ASSUME WireInv, Slots, Homes, Kept, DataEffect, NEW m \in net, m.type = "chunk", Acks(m),
         UsedOnce(m.s)
  PROVE  m.x \in stored'[Peer[Allocator]]
<1> DEFINE k == m.to
           s == m.s
           i == m.i
           x == m.x
<1>1. /\ k = Peer[Allocator] /\ k \in Kme /\ s \in Ksid /\ i \in Index /\ x \in Serial /\ x # None
  <2>1. m \in GoodRequest
    BY WireParts DEF CallsType
  <2> QED
    BY <2>1 DEF GoodRequest, Request, WireInv, Sides
<1>2. stored[k] \subseteq stored'[k]
  BY <1>1, HistoryStep
<1>3. CASE Stores(m)
  BY <1>1, <1>3, WireParts DEF Stores, RestType
<1>4. CASE Open(k, s) /\ Repeat(The(k, s), i, x)
  <2> DEFINE n == cur[k][s]
             o == obj[k][s][n]
  <2>1. n \in Object /\ (o.chunk[i] = x \/ i \in o.delivered)
    BY <1>1, <1>4, WireParts, TheType DEF Open, Repeat, The
  <2>2. CASE o.chunk[i] = x
    BY <1>1, <1>2, <2>1, <2>2 DEF Kept
  <2>3. CASE i \in o.delivered
    <3>1. lives[k][s] <= 1
      BY <1>1 DEF UsedOnce
    <3>2. got[k][s][i] # None /\ got[k][s][i] \in Serial
      BY <1>1, <2>1, <2>3, <3>1, WireParts DEF Kept, ReadWhere, RestType
    <3>3. At(s, i, got[k][s][i]) /\ At(s, i, x)
      BY <1>1 DEF At, OnWire
    <3>4. got[k][s][i] = x
      BY <1>1, <3>2, <3>3 DEF Homes
    <3> QED
      BY <1>1, <1>2, <3>2, <3>4 DEF Kept
  <2> QED
    BY <2>1, <2>2, <2>3
<1> QED
  BY <1>3, <1>4 DEF Acks

LEMMA AckedStep ==
  ASSUME WireInv, Slots, Single, Homes, Kept, Acked, CallsEffect, DataEffect, ConfirmEffect, NewAcks
  PROVE  Acked'
<1>1. /\ Peer[Allocator] \in Kme /\ \A k \in Kme : stored[k] \subseteq stored'[k]
      /\ confirmed \subseteq Serial /\ call \in [Proc -> Call] /\ made \in Nat
      /\ \A p \in Proc : call[p].pc = "chunk" => call[p].x \in Serial
      /\ \A c \in Call : c.s \in Ksid /\ c.i \in Index
  BY EngineAssumption, HistoryStep, WireParts DEF RestType, CallsType, Pushes, Call
<1>2. ASSUME NEW s \in Ksid, NEW i \in Index, NEW x \in confirmed', UsedOnce(s)', At(s, i, x)'
      PROVE  x \in stored'[Peer[Allocator]]
  <2>1. UsedOnce(s)
    BY <1>2, UsedOnceStep
  <2>2. \/ x \in confirmed
        \/ \E p \in Proc : call[p].pc = "chunk" /\ reply[p] = "ok" /\ x = call[p].x
    BY <1>2 DEF ConfirmEffect
  <2>3. x \in Serial /\ x <= made
    <3>1. CASE x \in confirmed
      BY <1>1, <3>1 DEF Kept
    <3>2. ASSUME NEW p \in Proc, call[p].pc = "chunk", x = call[p].x
          PROVE  x \in Serial /\ x <= made
      BY <1>1, <3>2 DEF Homes, At, Pushed
    <3> QED
      BY <2>2, <3>1, <3>2
  <2>4. At(s, i, x)
    <3>1. x # made + 1
      BY <1>1, <2>3
    <3> QED
      BY <1>2, <2>3, <3>1, AtStep
  <2>5. CASE x \in confirmed
    BY <1>1, <2>1, <2>4, <2>5 DEF Acked
  <2>6. ASSUME NEW p \in Proc, call[p].pc = "chunk", reply[p] = "ok", x = call[p].x
        PROVE  x \in stored'[Peer[Allocator]]
    <3>1. At(call[p].s, call[p].i, x) /\ call[p].s \in Ksid /\ call[p].i \in Index
      BY <1>1, <2>6 DEF At, Pushed
    <3>2. call[p].s = s
      BY <2>3, <2>4, <3>1 DEF Homes
    <3> QED
      BY <1>1, <2>1, <2>6, <3>2 DEF Acked
  <2> QED
    BY <2>2, <2>5, <2>6
<1>3. ASSUME NEW p \in Proc, call'[p].pc = "chunk", reply'[p] = "ok", UsedOnce(call[p].s)'
      PROVE  call'[p].x \in stored'[Peer[Allocator]]
  <2>1. ASSUME NEW s \in Ksid, s = call'[p].s PROVE UsedOnce(s)
    <3>1. UsedOnce(s)'
      BY <1>3, <2>1 DEF UsedOnce
    <3> QED
      BY <3>1, UsedOnceStep
  <2>2. CASE /\ call[p].pc = "chunk" /\ reply[p] = "ok"
             /\ call'[p].s = call[p].s /\ call'[p].x = call[p].x
    <3>1. PICK s \in Ksid : s = call[p].s
      BY <1>1
    <3>2. UsedOnce(s)
      BY <2>1, <2>2, <3>1
    <3> QED
      BY <1>1, <2>2, <3>1, <3>2 DEF Acked
  <2>3. ASSUME NEW m \in net, m.type = "chunk", Acks(m), m.s = call'[p].s, m.x = call'[p].x
        PROVE  call'[p].x \in stored'[Peer[Allocator]]
    <3>1. PICK s \in Ksid : s = m.s
      BY WireParts DEF CallsType, GoodRequest, Request
    <3>2. UsedOnce(m.s)
      BY <2>1, <2>3, <3>1
    <3> QED
      BY <2>3, <3>2, AcksStored
  <2> QED
    BY <1>3, <2>2, <2>3 DEF NewAcks
<1> QED
  BY <1>2, <1>3 DEF Acked

LEMMA PromiseInit == Init => PromiseInv
<1> SUFFICES ASSUME Init PROVE PromiseInv
  OBVIOUS
<1>1. SlotsInv
  BY SlotsInit
<1>2. /\ \A k \in Kme, s \in Ksid, n \in Object : obj[k][s][n] = NewStream
      /\ \A k \in Kme, s \in Ksid : cur[k][s] = None
      /\ \A k \in Kme, s \in Ksid, i \in Index : got[k][s][i] = None
      /\ \A k \in Kme : stored[k] = {}
      /\ \A p \in Proc : call[p] = Idle /\ reply[p] = "none"
      /\ net = {} /\ confirmed = {} /\ \A p \in Proc : Free(p)
      /\ Idle.from = Nobody /\ Idle.pc = "idle"
  BY IdleType DEF Init, Free
<1>3. NewStream.delivered = {} /\ \A i \in Index : NewStream.chunk[i] = None
  BY DEF NewStream
<1>4. Single
  BY <1>2, Numbers DEF Single, Touched, Refers
<1>5. \A s \in Ksid, i \in Index, x \in Serial : ~At(s, i, x)
  BY <1>2, <1>3, Numbers DEF At, Pushed, OnWire
<1>6. Homes
  BY <1>5 DEF Homes
<1>7. Kept
  BY <1>2, <1>3 DEF Kept, ReadWhere
<1>8. Rpc
  BY <1>2 DEF Rpc
<1>9. Acked
  BY <1>2 DEF Acked
<1> QED
  BY <1>1, <1>4, <1>6, <1>7, <1>8, <1>9 DEF PromiseInv

LEMMA PromiseNext ==
  ASSUME ~Contended
  PROVE  PromiseInv /\ [Next]_vars => PromiseInv'
<1> SUFFICES ASSUME PromiseInv, [Next]_vars PROVE PromiseInv'
  OBVIOUS
<1>1. WireInv /\ Slots /\ Single /\ Homes /\ Kept /\ Rpc /\ Acked
  BY DEF PromiseInv, SlotsInv
<1>2. CallsEffect /\ DataEffect /\ ConfirmEffect
  BY <1>1, StepEffect DEF Effect
<1>3. Rpc' /\ NewAcks
  BY <1>1, RpcEffectStep, RpcStep DEF WireInv
<1> QED
  BY <1>1, <1>2, <1>3, SlotsNext, SingleStep, HomesStep, KeptStep, AckedStep
  DEF PromiseInv, SlotsInv

LEMMA PromiseAlways == ASSUME ~Contended PROVE Spec => []PromiseInv
BY PromiseInit, PromiseNext, PTL DEF Spec

\* The read of a chunk is one that the promise allows.
LEMMA ReadKeepsPromise ==
  ASSUME PromiseInv, NEW k \in Kme, NEW s \in Ksid, NEW n \in Object, NEW i \in Index,
         Reads(k, s, n, i)
  PROVE  \E x \in Serial : Promise!Read(k, s, i, x)
<1> DEFINE x == obj[k][s][n].chunk[i]
           peer == Peer[Allocator]
<1>1. WireInv /\ Slots /\ Single /\ Homes /\ Kept /\ Acked
  BY DEF PromiseInv, SlotsInv
<1>2. /\ x # None /\ got' = [got EXCEPT ![k][s][i] = x] /\ UNCHANGED <<stored, lives>>
      /\ k = Allocator => \/ x \in confirmed
                          \/ \E p \in Proc : /\ call[p].pc = "chunk" /\ reply[p] = "ok"
                                             /\ call[p].s = s /\ call[p].i = i
  BY DEF Reads
<1>3. x \in Serial /\ x \in stored[k] /\ At(s, i, x)
  <2>1. obj[k][s][n] \in Stream
    BY <1>1, WireParts DEF ObjType, Objects
  <2>2. x \in Serial
    BY <1>2, <2>1 DEF Stream
  <2> QED
    BY <1>1, <1>2, <2>2 DEF Kept, At
<1>4. \A j \in Kme, t \in Ksid, l \in Index : got[j][t][l] # None =>
        got[j][t][l] \in Serial /\ At(t, l, got[j][t][l])
  BY <1>1, WireParts DEF RestType, At
<1>5. \A j \in Kme, t \in Ksid, l \in Index : got[j][t][l] = x => t = s /\ l = i
  BY <1>1, <1>2, <1>3, <1>4 DEF Homes
<1>6. ASSUME UsedOnce(s) PROVE got[k][s][i] = None
  <2>1. SUFFICES ASSUME got[k][s][i] # None PROVE FALSE
    OBVIOUS
  <2>2. lives[k][s] <= 1
    BY <1>6 DEF UsedOnce
  <2>3. PICK m \in Object : i \in obj[k][s][m].delivered
    BY <1>1, <2>1, <2>2 DEF Kept, ReadWhere
  <2>4. Touched(k, s, m) /\ Touched(k, s, n)
    <3>1. NewStream.delivered = {} /\ NewStream.chunk[i] = None
      BY DEF NewStream
    <3>2. obj[k][s][m] # NewStream /\ obj[k][s][n] # NewStream
      BY <1>2, <2>3, <3>1
    <3> QED
      BY <3>2 DEF Touched
  <2>5. m = n
    BY <1>1, <2>2, <2>4 DEF Single
  <2> QED
    BY <1>1, <1>2, <2>3, <2>5 DEF Slots, Tidy
<1>7. ASSUME UsedOnce(s) PROVE \A j \in Kme : got[j][s][i] \in {None, x}
  BY <1>1, <1>3, <1>4, <1>7 DEF Homes
<1>8. ASSUME UsedOnce(s), k = Allocator PROVE \A j \in Kme : x \in stored[j]
  <2>1. x \in stored[peer]
    <3>1. CASE x \in confirmed
      BY <1>1, <1>3, <1>8, <3>1 DEF Acked
    <3>2. ASSUME NEW p \in Proc, call[p].pc = "chunk", reply[p] = "ok", call[p].s = s, call[p].i = i
          PROVE  x \in stored[peer]
      <4>1. call[p].x \in Serial /\ At(s, i, call[p].x)
        BY <1>1, <3>2, WireParts DEF CallsType, Pushes, Call, At, Pushed
      <4>2. call[p].x = x
        BY <1>1, <1>3, <1>8, <4>1 DEF Homes
      <4> QED
        BY <1>1, <1>8, <3>2, <4>2 DEF Acked
    <3> QED
      BY <1>2, <1>8, <3>1, <3>2
  <2> QED
    BY <1>3, <1>8, <2>1, EngineAssumption
<1>9. Promise!UsedOnce(s) <=> UsedOnce(s)
  BY DEF Promise!UsedOnce, UsedOnce
<1> HIDE DEF x
<1>10. Promise!Read(k, s, i, x)
  BY <1>2, <1>3, <1>5, <1>6, <1>7, <1>8, <1>9 DEF Promise!Read
<1> QED
  BY <1>3, <1>10

\* The two engines keep the promise of KeyDelivery: the applications of an id used
\* once read the same bytes, each index at most once, the allocator's never before
\* the peer stored them, whatever fails, is served late, crosses or expires
\* (_obtain, get_key's test of confirmed_at_peer, on_chunk).
THEOREM EnginesKeepPromise == ASSUME ~Contended PROVE Spec => KeepsPromise
<1>1. Init => Promise!Init
  BY DEF Init, Promise!Init, Promise!Unread
<1>2. PromiseInv /\ PromiseInv' /\ [Next]_vars => [Promise!Next]_(Promise!vars)
  <2> SUFFICES ASSUME PromiseInv, PromiseInv', [Next]_vars
               PROVE  Promise!Next \/ UNCHANGED <<stored, got, lives>>
    BY DEF Promise!vars
  <2>1. WireInv /\ Slots /\ Homes /\ Kept /\ WireInv'
    BY DEF PromiseInv, SlotsInv
  <2>2. DataEffect
    BY <2>1, StepEffect DEF Effect
  <2>3. CASE Forgets \/ \E k \in Kme, s \in Ksid, n \in Object : Trims(k, s, n)
    BY <2>3 DEF Forgets, Trims
  <2>4. ASSUME NEW k \in Kme, NEW s \in Ksid, Creates(k, s) PROVE Promise!Open(k, s)
    <3>1. /\ got \in [Kme -> [Ksid -> [Index -> Serial \cup {None}]]]
          /\ got' \in [Kme -> [Ksid -> [Index -> Serial \cup {None}]]]
          /\ lives \in [Kme -> [Ksid -> Nat]] /\ lives' \in [Kme -> [Ksid -> Nat]]
      BY <2>1 DEF WireInv, TypeInv, TypeOK
    <3>2. \A j \in Kme, t \in Ksid :
            /\ lives'[j][t] = IF j = k /\ t = s THEN lives[k][s] + 1 ELSE lives[j][t]
            /\ got'[j][t] = IF j = k /\ t = s THEN [i \in Index |-> None] ELSE got[j][t]
      BY <2>4 DEF Creates
    <3>3. lives' = [lives EXCEPT ![k][s] = @ + 1]
      BY <3>1, <3>2
    <3>4. got' = [got EXCEPT ![k][s] = [i \in Index |-> None]]
      BY <3>1, <3>2
    <3> QED
      BY <2>4, <3>3, <3>4 DEF Creates, Promise!Open, Promise!Unread
  <2>5. ASSUME NEW s \in Ksid, NEW n \in Object, NEW i \in Index, Makes(s, n, i)
        PROVE  \E x \in Serial : Promise!Make(x)
    <3>1. made + 1 \in Serial /\ made \in Nat
      BY <2>1, <2>5, MakeParts, HistoryStep, <2>2 DEF Made
    <3>2. \A k \in Kme : made + 1 \notin stored[k]
      BY <2>1, <3>1 DEF Kept
    <3> QED
      BY <2>5, <3>1, <3>2 DEF Makes, Promise!Make
  <2>6. ASSUME NEW m \in net, Stores(m)
        PROVE  \E k \in Kme, x \in Serial : Promise!Replicate(k, x)
    <3>1. m.to \in Kme /\ m.s \in Ksid /\ m.i \in Index /\ m.x \in Serial /\ m.type = "chunk"
      BY <2>1, <2>6, StoreParts DEF Stores
    <3>2. m.x \in stored[Allocator]
      BY <2>1, <3>1 DEF Homes, At, OnWire
    <3> QED
      BY <2>6, <3>1, <3>2 DEF Stores, Promise!Replicate
  <2>7. ASSUME NEW k \in Kme, NEW s \in Ksid, NEW n \in Object, NEW i \in Index, Reads(k, s, n, i)
        PROVE  \E x \in Serial : Promise!Read(k, s, i, x)
    BY <2>7, ReadKeepsPromise
  <2> QED
    BY <2>2, <2>3, <2>4, <2>5, <2>6, <2>7 DEF DataEffect, Promise!Next
<1> QED
  BY <1>1, <1>2, PromiseAlways, PTL DEF Spec, KeepsPromise, Promise!Spec

-----------------------------------------------------------------------------
(* Nothing is lost.  Without expiry, a stream that is open at both ends and  *)
(* whose id was used once is closed by nobody: no end has told the other to  *)
(* close, none was told that the other lost it, and whoever has a chunk      *)
(* keeps it until its application reads it.                                 *)

\* The other KME has had a stream for s.
Met(k, s) == lives[Peer[k]][s] >= 1

Alive(k, s) == Has(k, s) /\ ~The(k, s).localClosed /\ lives[k][s] <= 1
Live(s) == \A k \in Kme : Alive(k, s)

\* What a stream shows of the other end: it opened it, or chunks were made.
Peered(o) == o.peerOpen \/ (o.state # "PENDING_PEER" /\ ~o.localClosed) \/ o.nextAlloc > 0

\* Calls about a stream that the other end has had.
Asks == {"establish", "allocate", "chunk"}

\* A stream in a table was opened by someone; who calls for it, asks about it or
\* has it from the peer has met the other end; who says that it closes, closed it.
EndsInv ==
  /\ \A k \in Kme, s \in Ksid :
       Has(k, s) => lives[k][s] >= 1 /\ (The(k, s).localOpen \/ The(k, s).peerOpen)
  /\ \A p \in Proc : ~Free(p) =>
       /\ lives[Site[p]][call[p].s] >= 1
       /\ call[p].pc \in Asks => Met(Site[p], call[p].s)
       /\ call[p].pc = "close" => Mine(p).localClosed
  /\ \A m \in net : /\ lives[Peer[m.to]][m.s] >= 1
                    /\ m.type = "allocate" => m.to = Allocator
                    /\ m.type = "close" => ~Alive(Peer[m.to], m.s)
  /\ \A k \in Kme, s \in Ksid, n \in Object : Peered(obj[k][s][n]) => Met(k, s)

\* Someone wants the stream closed: the peer does, or has lost it.
Doomed(k, s, n) ==
  \/ \E p \in Proc : Refers(p, k, s, n) /\ call[p].pc \in {"chunk", "allocate"} /\ reply[p] = "lost"
  \/ \E m \in net : m.type = "close" /\ m.to = k /\ m.s = s

\* q is what a step may make of o: flags stay, and met and doomed say that the
\* other end was there and that the stream may close.
Marked(o, q, met, doomed) ==
  /\ (o.localOpen => q.localOpen) /\ (o.peerOpen => q.peerOpen)
  /\ o.localClosed => q.localClosed
  /\ Peered(q) => Peered(o) \/ met
  /\ q.state = "CLOSED" => o.state = "CLOSED" \/ q.localClosed \/ doomed
  /\ \A i \in Index : o.chunk[i] # None /\ q.chunk[i] = None => i \in q.delivered \/ q.state = "CLOSED"

LEMMA MarkedTrims ==
  ASSUME NEW o \in Stream, NEW met \in BOOLEAN, NEW doomed \in BOOLEAN
  PROVE  /\ Marked(o, [o EXCEPT !.localClosed = TRUE], met, doomed)
         /\ doomed /\ met => Marked(o, Closed(o), met, doomed)
         /\ doomed => Marked(o, [o EXCEPT !.peerClosed = TRUE], met, doomed)
         /\ doomed /\ met => Marked(o, Closed([o EXCEPT !.peerClosed = TRUE]), met, doomed)
         /\ o.localClosed => Marked(o, [o EXCEPT !.state = "CLOSING"], met, doomed)
         /\ o.localClosed => Marked(o, Closed(o), met, doomed)
         /\ met => Marked(o, [o EXCEPT !.localOpen = TRUE, !.state = "ESTABLISHED",
                                       !.established = TRUE], met, doomed)
         /\ met => Marked(o, [o EXCEPT !.peerOpen = TRUE, !.state = "ESTABLISHED",
                                       !.established = TRUE], met, doomed)
<1> USE DEF Stream, Closed, Marked, Peered, States
<1>1. Marked(o, [o EXCEPT !.localClosed = TRUE], met, doomed)
  OBVIOUS
<1>2. ASSUME doomed, met PROVE Marked(o, Closed(o), met, doomed)
  BY <1>2
<1>3. ASSUME doomed PROVE Marked(o, [o EXCEPT !.peerClosed = TRUE], met, doomed)
  BY <1>3
<1>4. ASSUME doomed, met PROVE Marked(o, Closed([o EXCEPT !.peerClosed = TRUE]), met, doomed)
  BY <1>4
<1>5. ASSUME o.localClosed PROVE Marked(o, [o EXCEPT !.state = "CLOSING"], met, doomed)
  BY <1>5
<1>6. ASSUME o.localClosed PROVE Marked(o, Closed(o), met, doomed)
  BY <1>6
<1>7. ASSUME met
      PROVE  /\ Marked(o, [o EXCEPT !.localOpen = TRUE, !.state = "ESTABLISHED",
                                    !.established = TRUE], met, doomed)
             /\ Marked(o, [o EXCEPT !.peerOpen = TRUE, !.state = "ESTABLISHED",
                                    !.established = TRUE], met, doomed)
  BY <1>7
<1> QED
  BY <1>1, <1>2, <1>3, <1>4, <1>5, <1>6, <1>7

\* A stream that hears of its peer, one that makes a chunk, and one that stores one.
LEMMA MarkedJoin ==
  ASSUME NEW o \in Stream, NEW doomed
  PROVE  Marked(o, [o EXCEPT !.peerOpen = TRUE,
                             !.state = IF o.localOpen THEN "ESTABLISHED" ELSE @,
                             !.established = @ \/ o.localOpen], TRUE, doomed)
BY DEF Stream, Marked, Peered, States

LEMMA MarkedFills ==
  ASSUME NEW o \in Stream, NEW met \in BOOLEAN, NEW doomed \in BOOLEAN,
         NEW i \in Index, NEW x \in Serial
  PROVE  /\ met => Marked(o, [o EXCEPT !.chunk[i] = x, !.nextAlloc = @ + 1], met, doomed)
         /\ Marked(o, [o EXCEPT !.chunk[i] = x], met, doomed)
<1> USE DEF Stream, Marked, Peered, States
<1>1. x # None
  BY Numbers
<1>2. ASSUME met PROVE Marked(o, [o EXCEPT !.chunk[i] = x, !.nextAlloc = @ + 1], met, doomed)
  BY <1>1, <1>2
<1>3. Marked(o, [o EXCEPT !.chunk[i] = x], met, doomed)
  BY <1>1
<1> QED
  BY <1>2, <1>3

LEMMA MarkedRead ==
  ASSUME NEW o \in Stream, NEW met, NEW doomed, NEW i \in Index
  PROVE  Marked(o, Read(o, i), met, doomed)
BY DEF Stream, Marked, Peered, States, Read

\* Every step changes the streams like this ...
MarkEffect ==
  \/ obj' = obj
  \/ \E k \in Kme, s \in Ksid :
       Creates(k, s) /\ (obj'[k][s][cur'[k][s]].peerOpen => Met(k, s))
  \/ \E k \in Kme, s \in Ksid, n \in Object, q \in Stream :
       SetStream(k, s, n, q) /\ lives' = lives /\ Marked(obj[k][s][n], q, Met(k, s), Doomed(k, s, n))

\* ... and adds requests for a reason.
Reason(p, c, t) ==
  /\ lives'[Site[p]][c.s] >= 1
  /\ t \in Asks => Met(Site[p], c.s)
  /\ t = "close" => cur'[Site[p]][c.s] = c.n /\ obj'[Site[p]][c.s][c.n].localClosed

CallsReason ==
  \/ Ends
  \/ \E p \in Proc, c \in Call, t \in Awaits, inbox \in SUBSET net :
       Send(p, c, t, inbox) /\ Reason(p, c, t)

MarkedStep == MarkEffect /\ CallsReason

LEMMA QuietMarks == ASSUME obj' = obj, Ends PROVE MarkedStep
BY DEF MarkedStep, MarkEffect, CallsReason

LEMMA SendMarks ==
  ASSUME obj' = obj, NEW p \in Proc, NEW c \in Call, NEW t \in Awaits, NEW inbox \in SUBSET net,
         Send(p, c, t, inbox), Reason(p, c, t)
  PROVE  MarkedStep
BY DEF MarkedStep, MarkEffect, CallsReason

LEMMA WriteMarks ==
  ASSUME Ends, NEW k \in Kme, NEW s \in Ksid, NEW n \in Object, NEW q \in Stream,
         SetStream(k, s, n, q), lives' = lives,
         Marked(obj[k][s][n], q, Met(k, s), Doomed(k, s, n))
  PROVE  MarkedStep
BY DEF MarkedStep, MarkEffect, CallsReason

LEMMA OpenMarks ==
  ASSUME WireInv, EndsInv, NEW p \in Proc,
         \/ OpenRefused(p) \/ OpenAnnounced(p) \/ OpenJoined(p) \/ OpenTimeout(p)
         \/ OpenWithdrawn(p) \/ OpenConfirmed(p) \/ OpenNotConfirmed(p)
  PROVE  MarkedStep
<1> DEFINE c == call[p]
<1>1. /\ Site[p] \in Kme /\ c \in Call /\ c.s \in Ksid /\ c.n \in Object
      /\ Mine(p) \in Stream /\ "none" \in Replies /\ "withdraw" \in Awaits
      /\ Mine(p) = obj[Site[p]][c.s][c.n]
  BY MineType, WireParts DEF Mine
<1>2. ASSUME Finish(p, c, "none"), net' = net PROVE Ends
  BY <1>1, <1>2, FinishEffect
<1>3. CASE OpenAnnounced(p) /\ c.predefined
  <2>1. call' = [call EXCEPT ![p].pc = "wait"] /\ net' = net /\ c.pc = "announce" /\ obj' = obj
    BY <1>3 DEF OpenAnnounced, Hears, streams
  <2>2. Ends
    BY <1>1, <2>1, WireParts DEF Ends, CallsType, Call, Free
  <2> QED
    BY <2>1, <2>2, QuietMarks
<1>4. CASE OpenTimeout(p)
  <2>1. Send(p, c, "withdraw", net) /\ ~Free(p) /\ obj' = obj /\ lives' = lives
    BY <1>4 DEF OpenTimeout, Free, history
  <2>2. Reason(p, c, "withdraw")
    BY <2>1 DEF Reason, EndsInv, Asks
  <2> QED
    BY <1>1, <2>1, <2>2, SendMarks
<1>5. CASE OpenConfirmed(p)
  <2> DEFINE q == [Mine(p) EXCEPT !.localOpen = TRUE, !.state = "ESTABLISHED",
                                  !.established = TRUE]
  <2>1. /\ SetStream(Site[p], c.s, c.n, q) /\ c.pc = "establish" /\ lives' = lives
        /\ Finish(p, c, "none") /\ net' = net
    BY <1>5 DEF OpenConfirmed, Hears, history
  <2>2. Met(Site[p], c.s)
    BY <2>1 DEF EndsInv, Free, Asks
  <2>3. Met(Site[p], c.s) \in BOOLEAN /\ Doomed(Site[p], c.s, c.n) \in BOOLEAN
    BY DEF Met, Doomed
  <2>4. q \in Stream /\ Marked(Mine(p), q, Met(Site[p], c.s), Doomed(Site[p], c.s, c.n))
    BY <1>1, <2>2, <2>3, JoinType, MarkedTrims
  <2> HIDE DEF q
  <2> QED
    BY <1>1, <1>2, <2>1, <2>4, WriteMarks
<1>6. CASE \/ OpenRefused(p) \/ (OpenAnnounced(p) /\ ~c.predefined) \/ OpenJoined(p)
           \/ OpenWithdrawn(p) \/ OpenNotConfirmed(p)
  <2>1. Finish(p, c, "none") /\ net' = net /\ obj' = obj
    BY <1>6 DEF OpenRefused, OpenAnnounced, OpenJoined, OpenWithdrawn, OpenNotConfirmed, streams
  <2> QED
    BY <1>2, <2>1, QuietMarks
<1> QED
  BY <1>3, <1>4, <1>5, <1>6

LEMMA BeginMarks ==
  ASSUME WireInv, EndsInv, NEW p \in Proc, NEW s \in Ksid,
         (\E predefined \in BOOLEAN : OpenNew(p, s, predefined)) \/ OpenJoin(p, s)
         \/ Close(p, s)
  PROVE  MarkedStep
<1> DEFINE k == Site[p]
           c == [Idle EXCEPT !.s = s, !.n = cur[k][s]]
<1>1. /\ TypeOK /\ RestType /\ ObjType /\ k \in Kme
      /\ {"announce", "establish", "close"} \subseteq Awaits
  BY MineType, WireParts
<1>2. ASSUME NEW predefined \in BOOLEAN, OpenNew(p, s, predefined) PROVE MarkedStep
  <2> DEFINE o == [NewStream EXCEPT !.localOpen = TRUE]
             d == [Idle EXCEPT !.s = s, !.n = cur'[k][s], !.predefined = predefined]
  <2>1. Create(k, s, o) /\ Send(p, d, "announce", net) /\ made' = made
    BY <1>2 DEF OpenNew, chunks
  <2>2. o \in Stream /\ o.nextAlloc = 0
    BY NewStreamType DEF NewStream
  <2>7. ~o.peerOpen
    BY DEF NewStream
  <2>3. cur'[k][s] \in Object /\ Creates(k, s) /\ ~obj'[k][s][cur'[k][s]].peerOpen
    <3> HIDE DEF o
    <3>1. /\ cur[k][s] = None
          /\ \E n \in Object :
               /\ Spare(k, s, n) /\ SetStream(k, s, n, o)
               /\ cur'[k][s] = n
               /\ \A j \in Kme, t \in Ksid : j # k \/ t # s => cur'[j][t] = cur[j][t]
          /\ \A j \in Kme, t \in Ksid :
               /\ lives'[j][t] = IF j = k /\ t = s THEN lives[k][s] + 1 ELSE lives[j][t]
               /\ got'[j][t] = IF j = k /\ t = s THEN [i \in Index |-> None] ELSE got[j][t]
      BY <1>1, <2>1, <2>2, CreateStep
    <3>2. stored' = stored
      BY <1>2 DEF OpenNew
    <3>3. obj'[k][s][cur'[k][s]] = o
      BY <1>1, <2>2, <3>1, SetStreamStep DEF ObjType, Objects
    <3> QED
      BY <2>1, <2>7, <3>1, <3>2, <3>3 DEF Creates, o
  <2>4. d \in Call /\ d.s = s
    BY <2>3, IdleType DEF Call
  <2>5. lives'[k][s] = lives[k][s] + 1 /\ lives[k][s] \in Nat
    BY <1>1, <2>3 DEF Creates, RestType
  <2> HIDE DEF d
  <2>6. Reason(p, d, "announce")
    BY <2>4, <2>5 DEF Reason, Asks
  <2> QED
    BY <1>1, <2>1, <2>3, <2>4, <2>6 DEF MarkedStep, MarkEffect, CallsReason
<1>3. ASSUME Has(k, s)
      PROVE  /\ c \in Call /\ c.s = s /\ c.n = cur[k][s] /\ cur[k][s] \in Object
             /\ lives[k][s] >= 1 /\ (The(k, s).localOpen \/ The(k, s).peerOpen)
  <2>1. cur[k][s] \in Object
    BY <1>1, <1>3, TheType
  <2>2. lives[k][s] >= 1 /\ (The(k, s).localOpen \/ The(k, s).peerOpen)
    BY <1>1, <1>3 DEF EndsInv
  <2> QED
    BY <2>1, <2>2, IdleType DEF Call
<1> HIDE DEF c
<1>4. CASE OpenJoin(p, s)
  <2>1. /\ Has(k, s) /\ MayJoin(The(k, s)) /\ Send(p, c, "establish", net)
        /\ obj' = obj /\ lives' = lives
    BY <1>4 DEF OpenJoin, c, streams, history
  <2>2. Peered(obj[k][s][cur[k][s]])
    BY <1>3, <2>1 DEF MayJoin, Peered, The
  <2>3. Met(k, s)
    BY <1>1, <1>3, <2>1, <2>2 DEF EndsInv
  <2>4. Reason(p, c, "establish")
    BY <1>3, <2>1, <2>3 DEF Reason
  <2> QED
    BY <1>1, <1>3, <2>1, <2>4, SendMarks
<1>5. CASE Close(p, s)
  <2> DEFINE q == [The(k, s) EXCEPT !.localClosed = TRUE]
  <2>1. /\ Has(k, s) /\ SetStream(k, s, cur[k][s], q) /\ Send(p, c, "close", net)
        /\ cur' = cur /\ lives' = lives
    BY <1>5 DEF Close, c, Open, history
  <2>2. /\ cur[k][s] \in Object /\ The(k, s) \in Stream /\ The(k, s) = obj[k][s][cur[k][s]]
    BY <1>1, <2>1, TheType DEF The
  <2>3. Met(k, s) \in BOOLEAN /\ Doomed(k, s, cur[k][s]) \in BOOLEAN
    BY DEF Met, Doomed
  <2>4. q \in Stream /\ Marked(The(k, s), q, Met(k, s), Doomed(k, s, cur[k][s]))
    BY <2>2, <2>3, StreamType, MarkedTrims
  <2>8. q.localClosed
    BY <2>2 DEF Stream
  <2> HIDE DEF q
  <2>5. MarkEffect
    BY <1>1, <2>1, <2>2, <2>4 DEF MarkEffect
  <2>6. obj'[k][s][cur[k][s]] = q
    BY <1>1, <2>1, <2>2, <2>4, SetStreamStep DEF ObjType, Objects
  <2>7. Reason(p, c, "close")
    BY <1>3, <2>1, <2>6, <2>8 DEF Reason, Asks
  <2> QED
    BY <1>1, <1>3, <2>1, <2>5, <2>7 DEF MarkedStep, CallsReason
<1> QED
  BY <1>2, <1>4, <1>5

\* _obtain at the allocator, for a stream the other end has had.
LEMMA ObtainMarks ==
  ASSUME WireInv, ~Contended, NEW p \in Proc, NEW c \in Call, NEW inbox \in SUBSET net,
         Obtain(p, c, inbox), Site[p] = Allocator, cur[Allocator][c.s] = c.n,
         lives[Allocator][c.s] >= 1, Met(Allocator, c.s), c.n \in Object
  PROVE  MarkedStep
<1> DEFINE o == obj[Allocator][c.s][c.n]
           x == o.chunk[c.i]
<1>1. /\ "chunk" \in Awaits /\ "ok" \in Replies /\ "empty" \in Replies
      /\ x \in Serial \cup {None} /\ o \in Stream /\ Allocator \in Kme
      /\ c.s \in Ksid /\ c.i \in Index /\ o.nextAlloc <= made /\ made \in Nat
      /\ o.nextAlloc \in Nat
  <2>1. o \in Stream /\ o.nextAlloc <= made /\ made \in Nat
    BY WireParts, EngineAssumption, Numbers DEF Call, ObjType, Objects, RestType
  <2> QED
    BY <2>1, WireParts, EngineAssumption, Numbers DEF Call, Stream
<1>2. ASSUME NEW y \in Serial \cup {None}, Send(p, [c EXCEPT !.x = y], "chunk", inbox), lives' = lives
      PROVE  /\ CallsReason
             /\ obj' = obj => MarkedStep
  <2> DEFINE d == [c EXCEPT !.x = y]
  <2>1. d \in Call /\ d.s = c.s
    BY DEF Call
  <2> HIDE DEF d
  <2>2. Reason(p, d, "chunk")
    BY <1>2, <2>1 DEF Reason
  <2> QED
    BY <1>1, <1>2, <2>1, <2>2 DEF d, CallsReason, MarkedStep, MarkEffect
<1>3. CASE Send(p, [c EXCEPT !.x = x], "chunk", inbox) /\ UNCHANGED <<streams, reply, chunks, history, faults>>
  BY <1>1, <1>2, <1>3 DEF streams, history
<1>4. CASE GiveUp(p, c, "ok", inbox) \/ GiveUp(p, c, "empty", inbox)
  <2>1. obj' = obj /\ Ends
    BY <1>1, <1>4, FinishEffect DEF GiveUp, streams
  <2> QED
    BY <2>1, QuietMarks
<1>5. CASE MakeChunk(p, c, inbox)
  <2> DEFINE y == made + 1
             q == [o EXCEPT !.chunk[c.i] = y, !.nextAlloc = @ + 1]
  <2>1. /\ made < MaxChunks /\ SetStream(Allocator, c.s, c.n, q)
        /\ Send(p, [c EXCEPT !.x = y], "chunk", inbox) /\ lives' = lives
    BY <1>5 DEF MakeChunk
  <2>2. y \in Serial /\ o.nextAlloc < y
    BY <1>1, <2>1, Numbers DEF Serial
  <2> HIDE DEF y
  <2>3. Met(Allocator, c.s) \in BOOLEAN /\ Doomed(Allocator, c.s, c.n) \in BOOLEAN
    BY DEF Met, Doomed
  <2>4. q \in Stream /\ Marked(o, q, Met(Allocator, c.s), Doomed(Allocator, c.s, c.n))
    BY <1>1, <2>2, <2>3, MakeType, MarkedFills
  <2> HIDE DEF q, o
  <2>5. MarkEffect
    BY <1>1, <2>1, <2>4 DEF MarkEffect, o
  <2> QED
    BY <1>2, <2>1, <2>2, <2>5 DEF MarkedStep
<1> QED
  BY <1>3, <1>4, <1>5 DEF Obtain, Take

LEMMA DeliverMarks ==
  ASSUME WireInv, NEW p \in Proc, NEW c \in Call, NEW r \in Replies, NEW n \in Object,
         SetStream(Site[p], c.s, n, Read(obj[Site[p]][c.s][n], c.i)), lives' = lives,
         Finish(p, c, r), net' = net
  PROVE  MarkedStep
<1> DEFINE k == Site[p]
           s == c.s
           o == obj[k][s][n]
<1>1. k \in Kme /\ s \in Ksid /\ c.i \in Index
  BY MineType, WireParts DEF Call
<1>2. o \in Stream /\ Met(k, s) \in BOOLEAN /\ Doomed(k, s, n) \in BOOLEAN
  BY <1>1, WireParts DEF ObjType, Objects, Met, Doomed
<1>3. Read(o, c.i) \in Stream
  BY <1>1, <1>2, StreamType
<1>5. Marked(o, Read(o, c.i), Met(k, s), Doomed(k, s, n))
  BY <1>1, <1>2, MarkedRead
<1>6. Ends
  BY FinishEffect
<1> QED
  BY <1>1, <1>3, <1>5, <1>6, WriteMarks

LEMMA GetKeyMarks ==
  ASSUME WireInv, EndsInv, ~Contended, NEW p \in Proc, NEW s \in Ksid, NEW i \in Index,
         GetKey(p, s, i)
  PROVE  MarkedStep
<1> DEFINE k == Site[p]
           o == The(k, s)
           c == [Idle EXCEPT !.s = s, !.n = cur[k][s], !.i = i]
<1>1. /\ k \in Kme /\ "none" \in Replies /\ Has(k, s) /\ "allocate" \in Awaits
      /\ o.state # "PENDING_PEER" /\ ~o.localClosed
  BY MineType, WireParts DEF GetKey
<1>2. c \in Call /\ c.s = s /\ c.n = cur[k][s] /\ c.i = i /\ cur[k][s] \in Object
  <2>1. cur[k][s] \in Object
    BY <1>1, WireParts, TheType
  <2> QED
    BY <2>1, IdleType DEF Call
<1>3. lives[k][s] >= 1 /\ Met(k, s)
  <2>1. Peered(obj[k][s][cur[k][s]])
    BY <1>1 DEF Peered, The
  <2> QED
    BY <1>1, <1>2, <2>1 DEF EndsInv
<1>4. \/ Deliver(p, c)
      \/ GiveUp(p, c, "none", net)
      \/ k = Allocator /\ Obtain(p, c, net)
      \/ /\ Send(p, c, "allocate", net)
         /\ UNCHANGED <<streams, reply, chunks, history, faults>>
  BY DEF GetKey, DeliverIfItFits
<1> HIDE DEF c
<1>5. CASE Deliver(p, c)
  <2>1. /\ SetStream(k, c.s, c.n, Read(obj[k][c.s][c.n], c.i)) /\ lives' = lives
        /\ Finish(p, c, "none") /\ net' = net
    BY <1>5 DEF Deliver
  <2> QED
    BY <1>1, <1>2, <2>1, DeliverMarks
<1>6. CASE GiveUp(p, c, "none", net)
  <2>1. obj' = obj /\ Ends
    BY <1>1, <1>2, <1>6, FinishEffect DEF GiveUp, streams
  <2> QED
    BY <2>1, QuietMarks
<1>7. CASE k = Allocator /\ Obtain(p, c, net)
  BY <1>2, <1>3, <1>7, ObtainMarks
<1>8. CASE Send(p, c, "allocate", net) /\ UNCHANGED <<streams, reply, chunks, history, faults>>
  <2>1. obj' = obj /\ lives' = lives
    BY <1>8 DEF streams, history
  <2>2. Reason(p, c, "allocate")
    BY <1>2, <1>3, <2>1 DEF Reason
  <2> QED
    BY <1>1, <1>2, <1>8, <2>1, <2>2, SendMarks
<1> QED
  BY <1>4, <1>5, <1>6, <1>7, <1>8

LEMMA ContinueMarks ==
  ASSUME WireInv, EndsInv, NEW p \in Proc, Continue(p)
  PROVE  MarkedStep
<1> DEFINE c == call[p]
           o == Mine(p)
           k == Site[p]
<1>1. /\ k \in Kme /\ c \in Call /\ c.s \in Ksid /\ c.n \in Object /\ c.i \in Index
      /\ o \in Stream /\ o = obj[k][c.s][c.n]
      /\ Replies = {"none", "ok", "empty", "lost", "conflict", "failed"}
      /\ Met(k, c.s) \in BOOLEAN /\ Doomed(k, c.s, c.n) \in BOOLEAN
  BY MineType, WireParts DEF Mine, Met, Doomed
<1>2. ~TakeLater(p)
  BY DEF TakeLater, WireInv, NoLock
<1>3. ASSUME NEW r \in Replies, Finish(p, c, r), net' = net, obj' = obj PROVE MarkedStep
  BY <1>1, <1>3, FinishEffect, QuietMarks
<1>4. ASSUME NEW r \in Replies, Finish(p, c, r), net' = net, lives' = lives,
             SetStream(k, c.s, c.n, Read(o, c.i))
      PROVE  MarkedStep
  BY <1>1, <1>4, DeliverMarks
<1>5. ASSUME NEW q \in Stream, NEW r \in Replies, Finish(p, c, r), SetStream(k, c.s, c.n, q),
             UNCHANGED <<cur, net, chunks, history, faults>>,
             Marked(o, q, Met(k, c.s), Doomed(k, c.s, c.n))
      PROVE  MarkedStep
  <2>1. Ends /\ lives' = lives
    BY <1>1, <1>5, FinishEffect DEF history
  <2> QED
    BY <1>1, <1>5, <2>1, WriteMarks
<1>6. CASE ChunkStored(p)
  BY <1>1, <1>3, <1>4, <1>6 DEF ChunkStored
<1>7. CASE ChunkRefused(p) \/ NotAllocated(p)
  BY <1>1, <1>3, <1>7 DEF ChunkRefused, NotAllocated, GiveUp, streams
<1>8. CASE PeerLostStream(p)
  <2>1. /\ c.pc \in {"chunk", "allocate"} /\ reply[p] = "lost"
        /\ SetStream(k, c.s, c.n, Closed(o)) /\ Finish(p, c, "empty")
        /\ UNCHANGED <<cur, net, chunks, history, faults>>
    BY <1>8 DEF PeerLostStream, Hears
  <2>2. Met(k, c.s) /\ Refers(p, k, c.s, c.n)
    BY <2>1 DEF EndsInv, Free, Asks, Refers
  <2>3. Doomed(k, c.s, c.n)
    BY <2>1, <2>2 DEF Doomed
  <2>4. Closed(o) \in Stream /\ Marked(o, Closed(o), Met(k, c.s), Doomed(k, c.s, c.n))
    BY <1>1, <2>2, <2>3, StreamType, MarkedTrims
  <2> QED
    BY <1>1, <1>5, <2>1, <2>4
<1>9. CASE Allocated(p)
  <2>1. CASE Deliver(p, c)
    BY <1>1, <1>4, <2>1 DEF Deliver
  <2>2. CASE GiveUp(p, c, "none", net)
    BY <1>1, <1>3, <2>2 DEF GiveUp, streams
  <2> QED
    BY <1>9, <2>1, <2>2 DEF Allocated, ReadObtained, DeliverIfItFits
<1>10. CASE CloseDone(p)
  <2> DEFINE q == IF o.peerClosed THEN Closed(o) ELSE [o EXCEPT !.state = "CLOSING"]
  <2>1. c.pc = "close" /\ SetStream(k, c.s, c.n, q) /\ Finish(p, c, "none")
        /\ UNCHANGED <<cur, net, chunks, history, faults>>
    BY <1>10 DEF CloseDone
  <2>2. o.localClosed
    BY <2>1 DEF EndsInv, Free
  <2>3. q \in Stream
    BY <1>1, StreamType
  <2>4. Marked(o, q, Met(k, c.s), Doomed(k, c.s, c.n))
    BY <1>1, <2>2, MarkedTrims
  <2> HIDE DEF q
  <2> QED
    BY <1>1, <1>5, <2>1, <2>3, <2>4
<1> QED
  BY <1>2, <1>6, <1>7, <1>8, <1>9, <1>10, OpenMarks DEF Continue

LEMMA ServeMarks ==
  ASSUME WireInv, EndsInv, ~Contended, NEW m \in net, Serve(m)
  PROVE  MarkedStep
<1> DEFINE k == m.to
           s == m.s
           o == The(k, s)
           n == cur[k][s]
<1>1. /\ RestType /\ ObjType
      /\ Replies = {"none", "ok", "empty", "lost", "conflict", "failed"}
      /\ k \in Kme /\ s \in Ksid /\ m.i \in Index
      /\ Has(k, s) => o \in Stream /\ n \in Object /\ o = obj[k][s][n]
      /\ Met(k, s) \in BOOLEAN /\ Doomed(k, s, n) \in BOOLEAN
  BY WireParts, TheType DEF CallsType, GoodRequest, Request, The, Met, Doomed
<1>2. Met(k, s)
  BY DEF EndsInv, Met
<1>3. ASSUME NEW r, Refuse(m, r) PROVE MarkedStep
  BY <1>3, AnswerEffect, QuietMarks DEF Refuse, streams
<1>4. ASSUME NEW q \in Stream, NEW r, Has(k, s), SetStream(k, s, n, q), Answer(m, r), lives' = lives,
             Marked(o, q, Met(k, s), Doomed(k, s, n))
      PROVE  MarkedStep
  BY <1>1, <1>4, AnswerEffect, WriteMarks
<1>5. CASE OnAnnounce(m)
  <2> DEFINE joined == [o EXCEPT !.peerOpen = TRUE,
                                 !.state = IF o.localOpen THEN "ESTABLISHED" ELSE @,
                                 !.established = @ \/ o.localOpen]
             new == [NewStream EXCEPT !.peerOpen = TRUE]
  <2>1. CASE /\ Has(k, s) /\ SetStream(k, s, n, joined) /\ Answer(m, "ok") /\ lives' = lives
    <3>1. joined \in Stream /\ Marked(o, joined, Met(k, s), Doomed(k, s, n))
      BY <1>1, <1>2, <2>1, JoinType, MarkedJoin
    <3> HIDE DEF joined
    <3> QED
      BY <1>4, <2>1, <3>1
  <2>2. CASE /\ Create(k, s, new) /\ Answer(m, "ok") /\ UNCHANGED <<chunks, stored, faults>>
    <3>1. new \in Stream /\ new.nextAlloc = 0
      BY NewStreamType DEF NewStream
    <3> HIDE DEF new
    <3>2. made' = made
      BY <2>2 DEF chunks
    <3>3. /\ cur[k][s] = None
          /\ \E j \in Object :
               /\ Spare(k, s, j) /\ SetStream(k, s, j, new)
               /\ cur'[k][s] = j
               /\ \A h \in Kme, t \in Ksid : h # k \/ t # s => cur'[h][t] = cur[h][t]
          /\ \A j \in Kme, t \in Ksid :
               /\ lives'[j][t] = IF j = k /\ t = s THEN lives[k][s] + 1 ELSE lives[j][t]
               /\ got'[j][t] = IF j = k /\ t = s THEN [i \in Index |-> None] ELSE got[j][t]
      BY <1>1, <2>2, <3>1, <3>2, CreateStep
    <3>4. Creates(k, s)
      BY <2>2, <3>2, <3>3 DEF Creates, new
    <3> QED
      BY <1>1, <1>2, <2>2, <3>4, AnswerEffect DEF MarkedStep, MarkEffect, CallsReason
  <2> QED
    BY <1>3, <1>5, <2>1, <2>2 DEF OnAnnounce, history
<1>6. CASE OnEstablish(m)
  <2> DEFINE joined == [o EXCEPT !.peerOpen = TRUE, !.state = "ESTABLISHED",
                                 !.established = TRUE]
  <2>1. CASE Open(k, s) /\ SetStream(k, s, n, joined) /\ Answer(m, "ok") /\ lives' = lives
    <3>1. Has(k, s) /\ joined \in Stream /\ Marked(o, joined, Met(k, s), Doomed(k, s, n))
      BY <1>1, <1>2, <2>1, JoinType, MarkedTrims DEF Open
    <3> HIDE DEF joined
    <3> QED
      BY <1>4, <2>1, <3>1
  <2> QED
    BY <1>3, <1>6, <2>1 DEF OnEstablish, history
<1>7. CASE OnWithdraw(m)
  <2>1. obj' = obj /\ Answer(m, "ok")
    BY <1>7 DEF OnWithdraw
  <2> QED
    BY <2>1, AnswerEffect, QuietMarks
<1>8. CASE OnChunk(m)
  <2>1. CASE Open(k, s) /\ SetStream(k, s, n, [o EXCEPT !.chunk[m.i] = m.x]) /\ Answer(m, "ok")
             /\ lives' = lives /\ m.type = "chunk"
    <3>1. m.x \in Serial /\ Has(k, s)
      BY <2>1, WireParts DEF CallsType, GoodRequest, Request, Open
    <3>2. /\ [o EXCEPT !.chunk[m.i] = m.x] \in Stream
          /\ Marked(o, [o EXCEPT !.chunk[m.i] = m.x], Met(k, s), Doomed(k, s, n))
      BY <1>1, <3>1, FillType, MarkedFills
    <3> QED
      BY <1>4, <2>1, <3>1, <3>2
  <2> QED
    BY <1>3, <1>8, <2>1 DEF OnChunk, StoreChunk
<1>9. CASE OnClose(m)
  <2> DEFINE closing == [o EXCEPT !.peerClosed = TRUE]
             q == IF closing.localClosed \/ ~closing.localOpen THEN Closed(closing) ELSE closing
  <2>1. CASE Has(k, s) /\ SetStream(k, s, n, q) /\ Answer(m, "ok") /\ lives' = lives /\ m.type = "close"
    <3>1. Doomed(k, s, n)
      BY <2>1 DEF Doomed
    <3>2. closing \in Stream
      BY <1>1, <2>1, StreamType
    <3>3. q \in Stream
      BY <3>2, StreamType
    <3>4. Marked(o, q, Met(k, s), Doomed(k, s, n))
      BY <1>1, <1>2, <2>1, <3>1, MarkedTrims
    <3> HIDE DEF q
    <3> QED
      BY <1>4, <2>1, <3>3, <3>4
  <2> QED
    BY <1>3, <1>9, <2>1 DEF OnClose, history
<1>10. ASSUME NEW h \in Handler, OnAllocate(h, m) PROVE MarkedStep
  <2> DEFINE c == [Idle EXCEPT !.s = s, !.n = cur[Allocator][s], !.i = m.i, !.from = m.from]
  <2>1. CASE Open(Allocator, s) /\ Obtain(h, c, net \ {m}) /\ m.type = "allocate"
    <3>1. cur[Allocator][s] \in Object /\ m.from \in Proc \cup {Nobody}
      BY <1>1, <2>1, WireParts, TheType DEF Open, CallsType, GoodRequest, Request
    <3>2. c \in Call /\ c.s = s /\ c.n = cur[Allocator][s]
      BY <1>1, <3>1, IdleType DEF Call
    <3> HIDE DEF c
    <3>3. h \in Proc /\ Site[h] = Allocator /\ net \ {m} \in SUBSET net /\ Allocator \in Kme
      BY EngineAssumption DEF Proc
    <3>4. k = Allocator
      BY <2>1 DEF EndsInv
    <3>5. lives[Allocator][s] >= 1
      BY <1>1, <2>1, <3>3 DEF EndsInv, Open
    <3> QED
      BY <1>2, <2>1, <3>1, <3>2, <3>3, <3>4, <3>5, ObtainMarks
  <2> QED
    BY <1>3, <1>10, <2>1 DEF OnAllocate
<1> QED
  BY <1>5, <1>6, <1>7, <1>8, <1>9, <1>10 DEF Serve

\* Nothing expires, so every step marks the streams so.
LEMMA StepMarks ==
  ASSUME WireInv, EndsInv, ~Contended, "ttl" \notin Faults, [Next]_vars
  PROVE  MarkedStep
<1>1. ~Sweep
  BY DEF Sweep, SweepStream, SweepRecord, SweepChunk, Fault
<1>2. ASSUME NEW p \in App, Begin(p) PROVE MarkedStep
  BY <1>2, WireParts, BeginMarks, GetKeyMarks DEF Begin
<1>3. CASE (\E p \in Proc : PeerFails(p)) \/ \E k \in Kme : Restart(k)
  <2>1. obj' = obj
    BY <1>3 DEF PeerFails, Restart, streams
  <2> QED
    BY <1>3, <2>1, FailEffect, QuietMarks
<1>4. CASE UNCHANGED vars
  BY <1>4, StayEffect, QuietMarks DEF vars, streams, calls
<1> QED
  BY <1>1, <1>2, <1>3, <1>4, ContinueMarks, ServeMarks DEF Next

\* What a step makes of one stream.
LEMMA MarkPoint ==
  ASSUME WireInv, MarkEffect, NEW k \in Kme, NEW s \in Ksid, NEW n \in Object
  PROVE  \/ Marked(obj[k][s][n], obj'[k][s][n], Met(k, s), Doomed(k, s, n))
         \/ /\ Creates(k, s) /\ cur'[k][s] = n /\ Spare(k, s, n)
            /\ obj'[k][s][n].peerOpen => Met(k, s)
            /\ obj'[k][s][n] \in {[NewStream EXCEPT !.localOpen = TRUE],
                                  [NewStream EXCEPT !.peerOpen = TRUE]}
<1>1. obj \in Objects
  BY WireParts DEF ObjType, Objects
<1>2. Marked(obj[k][s][n], obj[k][s][n], Met(k, s), Doomed(k, s, n))
  BY DEF Marked
<1>3. ASSUME NEW j \in Kme, NEW t \in Ksid, NEW i \in Object, NEW q \in Stream,
             SetStream(j, t, i, q), Marked(obj[j][t][i], q, Met(j, t), Doomed(j, t, i))
      PROVE  Marked(obj[k][s][n], obj'[k][s][n], Met(k, s), Doomed(k, s, n))
  <2>1. /\ obj'[j][t][i] = q
        /\ k # j \/ s # t \/ n # i => obj'[k][s][n] = obj[k][s][n]
    BY <1>1, <1>3, SetStreamStep
  <2> QED
    BY <1>2, <1>3, <2>1
<1>4. ASSUME NEW j \in Kme, NEW t \in Ksid, Creates(j, t),
             obj'[j][t][cur'[j][t]].peerOpen => Met(j, t)
      PROVE  \/ obj'[k][s][n] = obj[k][s][n]
             \/ /\ Creates(k, s) /\ cur'[k][s] = n /\ Spare(k, s, n)
                /\ obj'[k][s][n].peerOpen => Met(k, s)
                /\ obj'[k][s][n] \in {[NewStream EXCEPT !.localOpen = TRUE],
                                      [NewStream EXCEPT !.peerOpen = TRUE]}
  <2> DEFINE new == {[NewStream EXCEPT !.localOpen = TRUE], [NewStream EXCEPT !.peerOpen = TRUE]}
  <2>1. PICK i \in Object, o \in new : Spare(j, t, i) /\ SetStream(j, t, i, o) /\ cur'[j][t] = i
    BY <1>4 DEF Creates
  <2>2. o \in Stream
    BY NewStreamType
  <2> HIDE DEF new
  <2>3. /\ obj'[j][t][i] = o
        /\ k # j \/ s # t \/ n # i => obj'[k][s][n] = obj[k][s][n]
    BY <1>1, <2>1, <2>2, SetStreamStep
  <2>4. obj'[j][t][i] \in new
    BY <2>3
  <2> QED
    BY <1>4, <2>1, <2>3, <2>4 DEF new
<1> QED
  BY <1>2, <1>3, <1>4 DEF MarkEffect

\* A KME that had a stream had it.
LEMMA LivesGrow ==
  ASSUME WireInv, DataEffect, NEW k \in Kme, NEW s \in Ksid
  PROVE  /\ lives[k][s] >= 1 => lives'[k][s] >= 1
         /\ Met(k, s) => Met(k, s)'
         /\ lives[k][s] \in Nat /\ lives'[k][s] \in {lives[k][s], lives[k][s] + 1}
<1>1. Peer[k] \in Kme
  BY EngineAssumption
<1>2. \A j \in Kme, t \in Ksid :
        lives[j][t] \in Nat /\ lives'[j][t] \in {lives[j][t], lives[j][t] + 1}
  BY HistoryStep
<1>3. \A j \in Kme, t \in Ksid : lives[j][t] >= 1 => lives'[j][t] >= 1
  BY <1>2
<1> QED
  BY <1>1, <1>2, <1>3 DEF Met

\* The stream in a table after a step was there before, or is new.
LEMMA TheMarked ==
  ASSUME WireInv, WireInv', EndsInv, DataEffect, MarkEffect, NEW k \in Kme, NEW s \in Ksid, Has(k, s)'
  PROVE  \/ /\ Has(k, s) /\ cur'[k][s] = cur[k][s] /\ ~Creates(k, s) /\ cur[k][s] \in Object
            /\ Marked(The(k, s), The(k, s)', Met(k, s), Doomed(k, s, cur[k][s]))
         \/ /\ Creates(k, s) /\ lives'[k][s] = lives[k][s] + 1
            /\ The(k, s)' \in {[NewStream EXCEPT !.localOpen = TRUE],
                               [NewStream EXCEPT !.peerOpen = TRUE]}
<1>1. cur[k][s] \in 0 .. MaxObjects
  BY WireParts DEF RestType
<1> DEFINE n == cur'[k][s]
<1>2. n # None /\ The(k, s)' = obj'[k][s][n]
  BY DEF Has, The
<1>3. CASE cur[k][s] = n
  <2>1. n \in Object /\ ~Creates(k, s) /\ The(k, s) = obj[k][s][n] /\ Has(k, s)
    BY <1>1, <1>2, <1>3, Numbers DEF Object, None, Creates, The, Has
  <2> HIDE DEF n
  <2>2. Marked(obj[k][s][n], obj'[k][s][n], Met(k, s), Doomed(k, s, n))
    BY <2>1, MarkPoint
  <2> QED
    BY <1>2, <1>3, <2>1, <2>2 DEF n
<1>4. CASE cur[k][s] # n
  <2>1. CASE ~Creates(k, s)
    <3>1. n \in Object
      BY <1>2, Numbers DEF WireInv, TypeInv, TypeOK, Object, None
    <3> QED
      BY <1>4, <2>1, <3>1, TableStep
  <2>2. CASE Creates(k, s)
    <3>1. n \in Object /\ lives'[k][s] = lives[k][s] + 1
      BY <2>2 DEF Creates
    <3>2. CASE obj'[k][s][n] \in {[NewStream EXCEPT !.localOpen = TRUE],
                                  [NewStream EXCEPT !.peerOpen = TRUE]}
      BY <1>2, <2>2, <3>1, <3>2
    <3>3. CASE obj'[k][s][n] \notin {[NewStream EXCEPT !.localOpen = TRUE],
                                     [NewStream EXCEPT !.peerOpen = TRUE]}
      <4>1. PICK i \in Object, o \in {[NewStream EXCEPT !.localOpen = TRUE],
                                      [NewStream EXCEPT !.peerOpen = TRUE]} :
              SetStream(k, s, i, o) /\ cur'[k][s] = i
        BY <2>2 DEF Creates
      <4>2. obj \in Objects /\ o \in Stream
        BY WireParts, NewStreamType DEF ObjType, Objects
      <4> QED
        BY <3>3, <4>1, <4>2, SetStreamStep
    <3> QED
      BY <3>2, <3>3
  <2> QED
    BY <2>1, <2>2
<1> QED
  BY <1>3, <1>4

\* A stream that is alive was so before, or is the first for its id.
LEMMA AliveStep ==
  ASSUME WireInv, WireInv', EndsInv, DataEffect, MarkEffect, NEW k \in Kme, NEW s \in Ksid, Alive(k, s)'
  PROVE  \/ Alive(k, s) /\ cur'[k][s] = cur[k][s] /\ ~Creates(k, s)
         \/ Creates(k, s) /\ lives[k][s] = 0
<1>1. Has(k, s)' /\ ~The(k, s)'.localClosed /\ lives'[k][s] <= 1
  BY DEF Alive
<1>2. lives[k][s] \in Nat /\ lives'[k][s] \in {lives[k][s], lives[k][s] + 1}
  BY LivesGrow
<1>3. CASE /\ Has(k, s) /\ cur'[k][s] = cur[k][s] /\ ~Creates(k, s)
           /\ Marked(The(k, s), The(k, s)', Met(k, s), Doomed(k, s, cur[k][s]))
  <2>1. ~The(k, s).localClosed
    BY <1>1, <1>3 DEF Marked
  <2> QED
    BY <1>1, <1>2, <1>3, <2>1 DEF Alive
<1>4. CASE Creates(k, s) /\ lives'[k][s] = lives[k][s] + 1
  BY <1>1, <1>2, <1>4
<1> QED
  BY <1>1, <1>3, <1>4, TheMarked

LEMMA EndsTables ==
  ASSUME WireInv, WireInv', EndsInv, DataEffect, MarkEffect, NEW k \in Kme, NEW s \in Ksid, Has(k, s)'
  PROVE  lives'[k][s] >= 1 /\ (The(k, s)'.localOpen \/ The(k, s)'.peerOpen)
<1>1. CASE /\ Has(k, s)
           /\ Marked(The(k, s), The(k, s)', Met(k, s), Doomed(k, s, cur[k][s]))
  <2>1. lives[k][s] >= 1 /\ (The(k, s).localOpen \/ The(k, s).peerOpen)
    BY <1>1 DEF EndsInv
  <2> QED
    BY <1>1, <2>1, LivesGrow DEF Marked
<1>2. CASE /\ lives'[k][s] = lives[k][s] + 1
           /\ The(k, s)' \in {[NewStream EXCEPT !.localOpen = TRUE],
                              [NewStream EXCEPT !.peerOpen = TRUE]}
  <2>1. lives'[k][s] >= 1
    BY <1>2, LivesGrow
  <2>2. [NewStream EXCEPT !.localOpen = TRUE].localOpen /\ [NewStream EXCEPT !.peerOpen = TRUE].peerOpen
    BY DEF NewStream
  <2> QED
    BY <1>2, <2>1, <2>2
<1> QED
  BY <1>1, <1>2, TheMarked

LEMMA EndsPeered ==
  ASSUME WireInv, EndsInv, DataEffect, MarkEffect, NEW k \in Kme, NEW s \in Ksid, NEW n \in Object,
         Peered(obj'[k][s][n])
  PROVE  Met(k, s)'
<1>1. CASE Marked(obj[k][s][n], obj'[k][s][n], Met(k, s), Doomed(k, s, n))
  <2>1. Peered(obj[k][s][n]) \/ Met(k, s)
    BY <1>1 DEF Marked
  <2> QED
    BY <2>1, LivesGrow DEF EndsInv
<1>2. CASE /\ obj'[k][s][n].peerOpen => Met(k, s)
           /\ obj'[k][s][n] \in {[NewStream EXCEPT !.localOpen = TRUE],
                                 [NewStream EXCEPT !.peerOpen = TRUE]}
  <2>1. obj'[k][s][n].peerOpen
    BY <1>2 DEF Peered, NewStream
  <2> QED
    BY <1>2, <2>1, LivesGrow
<1> QED
  BY <1>1, <1>2, MarkPoint

LEMMA EndsCalls ==
  ASSUME WireInv, EndsInv, DataEffect, MarkEffect, CallsReason, NEW p \in Proc, ~Free(p)'
  PROVE  /\ lives'[Site[p]][call'[p].s] >= 1
         /\ call'[p].pc \in Asks => lives'[Peer[Site[p]]][call'[p].s] >= 1
         /\ call'[p].pc = "close" => Mine(p)'.localClosed
<1> DEFINE k == Site[p]
<1>1. k \in Kme
  BY MineType, WireParts
<1>2. ASSUME ~Free(p), call'[p].pc \in {call[p].pc, "wait"},
             call'[p].s = call[p].s, call'[p].n = call[p].n
      PROVE  /\ lives'[k][call'[p].s] >= 1
             /\ call'[p].pc \in Asks => lives'[Peer[k]][call'[p].s] >= 1
             /\ call'[p].pc = "close" => Mine(p)'.localClosed
  <2> DEFINE s == call[p].s
             n == call[p].n
  <2>1. s \in Ksid /\ n \in Object
    BY MineType, WireParts
  <2>2. lives[k][s] >= 1 /\ (call[p].pc \in Asks => Met(k, s))
        /\ (call[p].pc = "close" => obj[k][s][n].localClosed)
    BY <1>2 DEF EndsInv, Mine
  <2>3. lives'[k][s] >= 1 /\ (Met(k, s) => lives'[Peer[k]][s] >= 1)
    BY <1>1, <2>1, <2>2, LivesGrow DEF Met
  <2>4. ~Spare(k, s, n)
    BY <1>2 DEF Spare
  <2>5. Marked(obj[k][s][n], obj'[k][s][n], Met(k, s), Doomed(k, s, n))
    BY <1>1, <2>1, <2>4, MarkPoint
  <2>6. call'[p].pc = "close" => obj'[k][s][n].localClosed
    BY <1>2, <2>2, <2>5 DEF Marked
  <2>7. call'[p].pc \in Asks => lives'[Peer[k]][s] >= 1
    BY <1>2, <2>2, <2>3 DEF Asks
  <2> QED
    BY <1>2, <2>3, <2>6, <2>7 DEF Mine
<1>3. CASE Ends
  BY <1>2, <1>3 DEF Ends
<1>4. ASSUME NEW r \in Proc, NEW c \in Call, NEW t \in Awaits, NEW inbox \in SUBSET net,
             Send(r, c, t, inbox), Reason(r, c, t)
      PROVE  /\ lives'[k][call'[p].s] >= 1
             /\ call'[p].pc \in Asks => lives'[Peer[k]][call'[p].s] >= 1
             /\ call'[p].pc = "close" => Mine(p)'.localClosed
  <2>1. CASE p # r
    <3>1. call'[p] = call[p]
      BY <1>4, <2>1, SendPoint
    <3> QED
      BY <1>2, <3>1 DEF Free
  <2>2. CASE p = r
    <3>1. call'[p].pc = t /\ call'[p].s = c.s
      BY <1>4, <2>2, SendPoint
    <3>2. call'[p].n = c.n
      BY <1>4, <2>2, WireParts DEF Send, CallsType, Call
    <3>3. c.s \in Ksid
      BY DEF Call
    <3> QED
      BY <1>1, <1>4, <2>2, <3>1, <3>2, <3>3, LivesGrow DEF Reason, Mine, Met
  <2> QED
    BY <2>1, <2>2
<1> QED
  BY <1>3, <1>4 DEF CallsReason

LEMMA EndsWire ==
  ASSUME WireInv, WireInv', EndsInv, DataEffect, MarkEffect, CallsReason, NEW m \in net'
  PROVE  /\ lives'[Peer[m.to]][m.s] >= 1
         /\ m.type = "allocate" => m.to = Allocator
         /\ m.type = "close" => ~Alive(Peer[m.to], m.s)'
<1>1. m.to \in Kme /\ m.s \in Ksid /\ Peer[m.to] \in Kme
  BY EngineAssumption DEF WireInv, TypeInv, GoodRequest, Request
<1> DEFINE k == Peer[m.to]
           s == m.s
<1>2. ASSUME NEW l \in net, m.type = l.type, m.to = l.to, m.s = l.s
      PROVE  /\ lives'[k][s] >= 1
             /\ m.type = "allocate" => m.to = Allocator
             /\ m.type = "close" => ~Alive(k, s)'
  <2>1. lives[k][s] >= 1 /\ (m.type = "allocate" => m.to = Allocator)
        /\ (m.type = "close" => ~Alive(k, s))
    BY <1>2 DEF EndsInv
  <2>2. lives'[k][s] >= 1 /\ lives[k][s] # 0
    BY <1>1, <2>1, LivesGrow
  <2> HIDE DEF k, s
  <2>3. ASSUME m.type = "close" PROVE ~Alive(k, s)'
    BY <1>1, <2>1, <2>2, <2>3, AliveStep DEF k, s
  <2> QED
    BY <2>1, <2>2, <2>3
<1>3. CASE Ends
  <2>1. PICK l \in net : m.type = l.type /\ m.to = l.to /\ m.s = l.s
    BY <1>3 DEF Ends
  <2> QED
    BY <1>2, <2>1
<1>4. ASSUME NEW p \in Proc, NEW c \in Call, NEW t \in Awaits, NEW inbox \in SUBSET net,
             Send(p, c, t, inbox), Reason(p, c, t)
      PROVE  /\ lives'[k][s] >= 1
             /\ m.type = "allocate" => m.to = Allocator
             /\ m.type = "close" => ~Alive(k, s)'
  <2>1. m \in net \/ (m.type = t /\ m.to = Peer[Site[p]] /\ s = c.s)
    BY <1>4, SendPoint
  <2>2. CASE m.type = t /\ m.to = Peer[Site[p]] /\ s = c.s
    <3>1. Site[p] \in Kme /\ k = Site[p]
      BY <2>2, MineType, WireParts, EngineAssumption
    <3>2. call'[p].pc = t
      BY <1>4, SendPoint
    <3>3. ASSUME t = "allocate" PROVE m.to = Allocator
      <4>1. Site[p] # Allocator
        BY <3>2, <3>3 DEF WireInv, Sides
      <4> QED
        BY <2>2, <3>1, <4>1, EngineAssumption
    <3>4. ASSUME t = "close" PROVE ~Alive(k, s)'
      <4>1. cur'[k][s] = c.n /\ obj'[k][s][c.n].localClosed
        BY <1>4, <2>2, <3>1, <3>4 DEF Reason
      <4> QED
        BY <4>1 DEF Alive, The
    <3>5. lives'[k][s] >= 1
      BY <1>4, <2>2, <3>1 DEF Reason
    <3> QED
      BY <2>2, <3>3, <3>4, <3>5
  <2> QED
    BY <1>2, <2>1, <2>2
<1> QED
  BY <1>3, <1>4 DEF CallsReason

LEMMA EndsInit == Init => EndsInv
<1> SUFFICES ASSUME Init PROVE EndsInv
  OBVIOUS
<1>1. ASSUME NEW k \in Kme, NEW s \in Ksid PROVE ~Has(k, s)
  BY DEF Init, Has
<1>2. ASSUME NEW p \in Proc PROVE Free(p)
  BY IdleType DEF Init, Free
<1>3. net = {}
  BY DEF Init
<1>4. ASSUME NEW k \in Kme, NEW s \in Ksid, NEW n \in Object PROVE ~Peered(obj[k][s][n])
  <2>1. obj[k][s][n] = NewStream
    BY DEF Init
  <2> QED
    BY <2>1 DEF Peered, NewStream
<1> QED
  BY <1>1, <1>2, <1>3, <1>4 DEF EndsInv

LEMMA EndsStep ==
  ASSUME WireInv, WireInv', EndsInv, DataEffect, MarkedStep
  PROVE  EndsInv'
<1>1. MarkEffect /\ CallsReason
  BY DEF MarkedStep
<1>2. ASSUME NEW k \in Kme, NEW s \in Ksid, Has(k, s)'
      PROVE  lives'[k][s] >= 1 /\ (The(k, s)'.localOpen \/ The(k, s)'.peerOpen)
  BY <1>1, <1>2, EndsTables
<1>3. ASSUME NEW p \in Proc, ~Free(p)'
      PROVE  /\ lives'[Site[p]][call'[p].s] >= 1
             /\ call'[p].pc \in Asks => lives'[Peer[Site[p]]][call'[p].s] >= 1
             /\ call'[p].pc = "close" => Mine(p)'.localClosed
  BY <1>1, <1>3, EndsCalls
<1>4. ASSUME NEW m \in net'
      PROVE  /\ lives'[Peer[m.to]][m.s] >= 1
             /\ m.type = "allocate" => m.to = Allocator
             /\ m.type = "close" => ~Alive(Peer[m.to], m.s)'
  BY <1>1, <1>4, EndsWire
<1>5. ASSUME NEW k \in Kme, NEW s \in Ksid, NEW n \in Object, Peered(obj'[k][s][n])
      PROVE  Met(k, s)'
  BY <1>1, <1>5, EndsPeered
<1> QED
  BY <1>2, <1>3, <1>4, <1>5 DEF EndsInv, Met

\* Who hears of a push or of an allocation heard it before, or a request of its
\* own is answered now; a handler never reports that a stream is lost.
NewAnswers ==
  \A p \in Proc : call'[p].pc \in {"chunk", "allocate"} /\ reply'[p] \in {"ok", "lost"} =>
    /\ call'[p].pc = call[p].pc /\ call'[p].s = call[p].s /\ call'[p].i = call[p].i
    /\ \/ reply'[p] = reply[p]
       \/ call[p].pc = "allocate" /\ reply'[p] = "ok"
       \/ \E m \in net : /\ m.type = call[p].pc /\ m.s = call[p].s /\ m.i = call[p].i
                         /\ Answers(m, reply'[p])

LEMMA AnswerStepRpc ==
  ASSUME TypeInv, Rpc, RpcEffect
  PROVE  NewAnswers
<1>1. CallsType /\ Nobody \notin Proc
  BY TypeFacts, EngineAssumption
<1>2. ASSUME NEW p \in Proc, NEW c \in Call, NEW t \in Goals, NEW inbox, Puts(p, c, t, inbox),
             reply[p] = "none", reply' = reply
      PROVE  NewAnswers
  <2>1. \A q \in Proc \ {p} : call'[q] = call[q]
    BY <1>2, PutsPoint
  <2> QED
    BY <1>2, <2>1 DEF NewAnswers
<1>3. ASSUME NEW p \in Proc, NEW c \in Call, NEW r \in Replies, r # "lost", Finish(p, c, r),
             c.from # Nobody => call[c.from].pc = "allocate"
      PROVE  NewAnswers
  <2>1. /\ reply'[p] = "none"
        /\ \A q \in Proc \ {p} : /\ call'[q] = call[q]
                                 /\ reply'[q] = IF q = c.from THEN r ELSE reply[q]
    BY <1>1, <1>3, FinishStep
  <2> QED
    BY <1>1, <1>3, <2>1 DEF NewAnswers
<1>4. ASSUME NEW p \in Proc, NEW c \in Call, NEW t \in Goals, Calls(p, c, t) PROVE NewAnswers
  BY <1>2, <1>4 DEF Calls
<1>5. ASSUME NEW h \in Proc, NEW c \in Call, NEW t \in Goals, NEW m \in net, Accepts(h, c, t, m)
      PROVE  NewAnswers
  <2>1. reply[h] = "none"
    BY <1>5, TypeFacts DEF Accepts, Rpc, Free
  <2> QED
    BY <1>2, <1>5, <2>1 DEF Accepts
<1>6. ASSUME NEW p \in Proc, NEW c \in Call, NEW r \in Replies, Returns(p, c, r) PROVE NewAnswers
  BY <1>3, <1>6 DEF Returns, Rpc
<1>7. ASSUME NEW h \in Proc, NEW c \in Call, NEW r \in Replies, NEW m \in net, Declines(h, c, r, m)
      PROVE  NewAnswers
  BY <1>3, <1>7 DEF Declines, Rpc
<1>8. ASSUME NEW m \in net, NEW r \in Replies, Answers(m, r) PROVE NewAnswers
  <2>1. /\ call' = call
        /\ \A q \in Proc : reply'[q] = IF q = m.from THEN r ELSE reply[q]
    BY <1>1, <1>8, AnswerStep DEF Answers
  <2>2. m.from # Nobody => /\ m.type = call[m.from].pc /\ m.s = call[m.from].s
                           /\ m.i = call[m.from].i
    BY DEF Rpc
  <2> QED
    BY <1>1, <1>8, <2>1, <2>2 DEF NewAnswers
<1>9. ASSUME NEW p \in Proc, Waits(p) PROVE NewAnswers
  <2>1. /\ call'[p].pc = "wait"
        /\ \A q \in Proc \ {p} : call'[q] = call[q] /\ reply'[q] = reply[q]
    BY <1>1, <1>9 DEF Waits, Clear, CallsType, Call
  <2> QED
    BY <2>1 DEF NewAnswers
<1>10. CASE UNCHANGED calls
  BY <1>10 DEF calls, NewAnswers
<1>11. ASSUME \A q \in Proc : \/ call'[q] = call[q]
                              \/ call'[q] = Idle
                              \/ call'[q] = [call[q] EXCEPT !.from = Nobody],
              \A q \in Proc : reply'[q] \in {reply[q], "none", "failed"}
       PROVE  NewAnswers
  <2>1. ASSUME NEW c \in Call
        PROVE  /\ [c EXCEPT !.from = Nobody].pc = c.pc /\ [c EXCEPT !.from = Nobody].s = c.s
               /\ [c EXCEPT !.from = Nobody].i = c.i
    BY DEF Call
  <2>2. ASSUME NEW q \in Proc
        PROVE  \/ call'[q].pc = "idle"
               \/ /\ call'[q].pc = call[q].pc /\ call'[q].s = call[q].s
                  /\ call'[q].i = call[q].i
    <3>1. call[q] \in Call
      BY <1>1 DEF CallsType
    <3> QED
      BY <1>11, <2>1, <3>1, IdleType
  <2> QED
    BY <1>11, <2>2 DEF NewAnswers
<1>12. ASSUME NEW p \in Proc, PeerFails(p) PROVE NewAnswers
  <2>1. \A q \in Proc : reply'[q] \in {reply[q], "failed"}
    BY <1>1, <1>12 DEF PeerFails, CallsType
  <2> QED
    BY <1>11, <1>12, <2>1 DEF PeerFails
<1>13. ASSUME NEW k \in Kme, Restart(k) PROVE NewAnswers
  BY <1>11, <1>13 DEF Restart
<1> QED
  BY <1>4, <1>5, <1>6, <1>7, <1>8, <1>9, <1>10, <1>12, <1>13 DEF RpcEffect

\* k holds chunk i of s or its application has read it, and the allocator still
\* has to push it.
Had(k, s, i) == i \in The(k, s).delivered \/ The(k, s).chunk[i] # None
Unpushed(s, i) == LET x == The(Allocator, s).chunk[i] IN x # None /\ x \notin confirmed

\* A push or a request for a chunk of s was answered r.
Answered(p, s, r) == call[p].s = s /\ call[p].pc \in {"chunk", "allocate"} /\ reply[p] = r

\* While both ends of s are open, none closes and nobody is told that one did;
\* the allocator had every chunk it made, and so has the peer unless it is still
\* to be pushed.
NoneClosed(s) == \A k \in Kme : The(k, s).state # "CLOSED"
NoneLost(s) == \A p \in Proc : ~Answered(p, s, "lost")
AllHad(s) ==
  \A i \in Index : i < The(Allocator, s).nextAlloc =>
    Had(Allocator, s, i) /\ (Had(Peer[Allocator], s, i) \/ Unpushed(s, i))
AcksHad(s) ==
  \A p \in Proc : Answered(p, s, "ok") /\ call[p].pc = "chunk" =>
    Had(Peer[Allocator], s, call[p].i)

Sound(s) == NoneClosed(s) /\ NoneLost(s) /\ AllHad(s) /\ AcksHad(s)
LiveInv == \A s \in Ksid : Live(s) => Sound(s)

\* An id that comes alive at its second end: nothing was made or asked for yet.
LEMMA SoundFresh ==
  ASSUME WireInv, WireInv', EndsInv, DataEffect, MarkEffect, NewAnswers,
         NEW s \in Ksid, NEW k \in Kme, Live(s)', Creates(k, s), lives[k][s] = 0
  PROVE  Sound(s)'
<1> DEFINE j == Peer[k]
           new == {[NewStream EXCEPT !.localOpen = TRUE], [NewStream EXCEPT !.peerOpen = TRUE]}
<1>1. j \in Kme /\ j # k /\ Peer[j] = k /\ Kme = {j, k}
  BY EngineAssumption
<1>2. PICK n \in Object, o \in new : SetStream(k, s, n, o) /\ cur'[k][s] = n
  BY DEF Creates
<1>3. /\ cur'[j][s] = cur[j][s] /\ n # None
  BY <1>1, Numbers DEF Creates
<1>4. obj \in Objects /\ o \in Stream
  BY WireParts, NewStreamType DEF ObjType, Objects
<1>5. o.state = "PENDING_PEER" /\ o.nextAlloc = 0
  BY <1>2 DEF NewStream
<1> HIDE DEF new, j
<1>6. The(k, s)' = o
  BY <1>2, <1>4, SetStreamStep DEF The
<1>7. Alive(j, s) /\ Has(j, s)
  <2>1. ~Creates(j, s)
    BY <1>1, <1>2, <1>3, Numbers DEF Creates
  <2>2. Alive(j, s)'
    BY <1>1 DEF Live
  <2> QED
    BY <1>1, <2>1, <2>2, AliveStep DEF Alive
<1>8. cur[j][s] \in Object /\ The(j, s) \in Stream /\ The(j, s) = obj[j][s][cur[j][s]]
  BY <1>1, <1>7, WireParts, TheType DEF The
<1>9. The(j, s)' = The(j, s)
  <2>1. obj'[j][s][cur[j][s]] = obj[j][s][cur[j][s]]
    BY <1>1, <1>2, <1>4, <1>8, SetStreamStep
  <2> QED
    BY <1>3, <2>1 DEF The
<1>10. The(j, s).state = "PENDING_PEER" /\ The(j, s).nextAlloc = 0
  <2>1. ~Peered(The(j, s))
    BY <1>1, <1>8 DEF EndsInv, Met
  <2>2. ~The(j, s).localClosed
    BY <1>7 DEF Alive
  <2>3. The(j, s).nextAlloc \in Nat
    BY <1>8, Numbers DEF Stream
  <2> QED
    BY <2>1, <2>2, <2>3 DEF Peered
<1>11. \A h \in Kme : The(h, s)'.state = "PENDING_PEER" /\ The(h, s)'.nextAlloc = 0
  BY <1>1, <1>5, <1>6, <1>9, <1>10
<1>12. ASSUME NEW p \in Proc, call'[p].s = s, call'[p].pc \in {"chunk", "allocate"},
              reply'[p] \in {"ok", "lost"}
       PROVE  FALSE
  <2>1. call[p].pc \in {"chunk", "allocate"} /\ call[p].s = s
    BY <1>12 DEF NewAnswers
  <2>2. lives[Site[p]][s] >= 1 /\ lives[Peer[Site[p]]][s] >= 1
    BY <2>1 DEF EndsInv, Free, Asks, Met
  <2>3. Site[p] \in Kme
    BY EngineAssumption
  <2> QED
    BY <1>1, <2>2, <2>3
<1>13. NoneClosed(s)'
  BY <1>11 DEF NoneClosed
<1>14. AllHad(s)'
  <2>1. \A i \in Index : ~(i < 0)
    BY Numbers DEF Index
  <2> QED
    BY <1>11, <2>1, EngineAssumption DEF AllHad
<1>15. NoneLost(s)' /\ AcksHad(s)'
  BY <1>12 DEF NoneLost, Answered, AcksHad
<1> QED
  BY <1>13, <1>14, <1>15 DEF Sound

\* An id that stays alive is in the same two streams, which stay open.
Stays(s) ==
  /\ Live(s) /\ Live(s)'
  /\ \A k \in Kme : cur'[k][s] = cur[k][s] /\ ~Creates(k, s) /\ Has(k, s)

LEMMA StaysStep ==
  ASSUME WireInv, WireInv', EndsInv, DataEffect, MarkEffect, NEW s \in Ksid, Live(s)'
  PROVE  Stays(s) \/ \E k \in Kme : Creates(k, s) /\ lives[k][s] = 0
<1>1. SUFFICES ASSUME ~\E k \in Kme : Creates(k, s) /\ lives[k][s] = 0
               PROVE  Stays(s)
  OBVIOUS
<1>2. ASSUME NEW k \in Kme
      PROVE  Alive(k, s) /\ cur'[k][s] = cur[k][s] /\ ~Creates(k, s) /\ Has(k, s)
  <2>1. Alive(k, s)'
    BY DEF Live
  <2>2. Alive(k, s) /\ cur'[k][s] = cur[k][s] /\ ~Creates(k, s)
    BY <1>1, <2>1, AliveStep
  <2> QED
    BY <2>2 DEF Alive
<1> QED
  BY <1>2 DEF Stays, Live

LEMMA StaysMarked ==
  ASSUME WireInv, WireInv', EndsInv, DataEffect, MarkEffect, NEW s \in Ksid, Stays(s),
         NEW k \in Kme
  PROVE  /\ cur[k][s] \in Object
         /\ The(k, s) \in Stream /\ The(k, s) = obj[k][s][cur[k][s]]
         /\ The(k, s)' = obj'[k][s][cur[k][s]]
         /\ Marked(The(k, s), The(k, s)', Met(k, s), Doomed(k, s, cur[k][s]))
<1>1. Has(k, s) /\ cur'[k][s] = cur[k][s] /\ ~Creates(k, s)
  BY DEF Stays
<1>2. Has(k, s)'
  BY <1>1 DEF Has
<1>3. cur[k][s] \in Object /\ The(k, s) \in Stream
  BY <1>1, WireParts, TheType
<1>4. Marked(The(k, s), The(k, s)', Met(k, s), Doomed(k, s, cur[k][s]))
  BY <1>1, <1>2, TheMarked
<1> QED
  BY <1>1, <1>3, <1>4 DEF The

LEMMA StaysOpen ==
  ASSUME WireInv, WireInv', EndsInv, DataEffect, MarkEffect, NEW s \in Ksid, Stays(s),
         NoneClosed(s), NoneLost(s)
  PROVE  NoneClosed(s)'
<1> SUFFICES ASSUME NEW k \in Kme PROVE The(k, s)'.state # "CLOSED"
  BY DEF NoneClosed
<1>1. Marked(The(k, s), The(k, s)', Met(k, s), Doomed(k, s, cur[k][s]))
  BY StaysMarked
<1>2. The(k, s).state # "CLOSED" /\ ~The(k, s)'.localClosed
  BY DEF NoneClosed, Stays, Live, Alive
<1>3. ~Doomed(k, s, cur[k][s])
  <2>1. ASSUME NEW p \in Proc, Refers(p, k, s, cur[k][s]),
               call[p].pc \in {"chunk", "allocate"}, reply[p] = "lost"
        PROVE  FALSE
    BY <2>1 DEF NoneLost, Answered, Refers
  <2>2. ASSUME NEW m \in net, m.type = "close", m.to = k, m.s = s
        PROVE  FALSE
    <3>1. ~Alive(Peer[k], s)
      BY <2>2 DEF EndsInv
    <3> QED
      BY <3>1, EngineAssumption DEF Stays, Live
  <2> QED
    BY <2>1, <2>2 DEF Doomed
<1> QED
  BY <1>1, <1>2, <1>3 DEF Marked

LEMMA StaysHad ==
  ASSUME WireInv, WireInv', Slots, EndsInv, DataEffect, MarkEffect, NEW s \in Ksid, Stays(s),
         NoneClosed(s)', NEW k \in Kme, NEW i \in Index, Had(k, s, i)
  PROVE  Had(k, s, i)'
<1> DEFINE n == cur[k][s]
           o == The(k, s)
           q == The(k, s)'
<1>1. /\ n \in Object /\ o = obj[k][s][n] /\ q = obj'[k][s][n] /\ o \in Stream
      /\ Marked(o, q, Met(k, s), Doomed(k, s, n))
  BY StaysMarked
<1>2. q.state # "CLOSED" /\ ~Creates(k, s)
  BY DEF NoneClosed, Stays
<1>3. Becomes(k, s, n, q)
  BY <1>1, StreamStep
<1> HIDE DEF n, o, q
<1>4. i \in o.delivered => i \in q.delivered
  BY <1>1, <1>2, <1>3 DEF Becomes, Keeps, Fills
<1>5. o.chunk[i] # None => q.chunk[i] # None \/ i \in q.delivered
  BY <1>1, <1>2 DEF Marked
<1> QED
  BY <1>4, <1>5 DEF Had, o, q

\* The peer has a chunk whose push it acknowledges.
LEMMA AcksMeanHad ==
  ASSUME WireInv, WireInv', Slots, EndsInv, DataEffect, MarkEffect, NEW s \in Ksid, Stays(s),
         NoneClosed(s)', NEW m \in net, m.type = "chunk", m.s = s, Acks(m)
  PROVE  Had(Peer[Allocator], s, m.i)'
<1> DEFINE b == Peer[Allocator]
<1>1. m.to = b /\ b \in Kme /\ m.i \in Index /\ m.x # None
  BY WireParts, EngineAssumption DEF WireInv, Sides, CallsType, GoodRequest, Request
<1>2. CASE Repeat(The(b, s), m.i, m.x)
  <2>1. Had(b, s, m.i)
    BY <1>1, <1>2 DEF Repeat, Had
  <2> QED
    BY <1>1, <2>1, StaysHad
<1>3. CASE Stores(m)
  <2>1. PICK q \in Stream : StoredAt(m, q)
    BY <1>3, StoreParts
  <2>2. SetStream(b, s, cur[b][s], q) /\ q.chunk[m.i] = m.x
    BY <1>1, <2>1 DEF StoredAt
  <2>3. cur[b][s] \in Object /\ The(b, s)' = obj'[b][s][cur[b][s]]
    BY <1>1, StaysMarked
  <2>4. obj \in Objects
    BY WireParts DEF ObjType, Objects
  <2> HIDE DEF b
  <2>5. The(b, s)' = q
    BY <1>1, <2>2, <2>3, <2>4, SetStreamStep
  <2> QED
    BY <1>1, <2>2, <2>5 DEF Had, b
<1> QED
  BY <1>1, <1>2, <1>3 DEF Acks

LEMMA StaysAnswered ==
  ASSUME WireInv, WireInv', Slots, EndsInv, DataEffect, MarkEffect, NewAnswers, NEW s \in Ksid,
         Stays(s), NoneClosed(s), NoneClosed(s)', NoneLost(s), AcksHad(s)
  PROVE  NoneLost(s)' /\ AcksHad(s)'
<1>1. ASSUME NEW p \in Proc, Answered(p, s, "lost")' PROVE FALSE
  <2>1. /\ call[p].pc \in {"chunk", "allocate"} /\ call[p].s = s
        /\ \/ reply[p] = "lost"
           \/ \E m \in net : m.type = call[p].pc /\ m.s = call[p].s /\ Answers(m, "lost")
    BY <1>1 DEF Answered, NewAnswers
  <2>2. reply[p] # "lost"
    BY <2>1 DEF NoneLost, Answered
  <2>3. PICK k \in Kme : ~Open(k, s)
    BY <2>1, <2>2 DEF Answers
  <2> QED
    BY <2>3 DEF Open, NoneClosed, Stays
<1>2. ASSUME NEW p \in Proc, Answered(p, s, "ok")', call'[p].pc = "chunk"
      PROVE  Had(Peer[Allocator], s, call[p].i)' /\ call'[p].i = call[p].i
  <2>1. /\ call[p].pc = "chunk" /\ call[p].s = s /\ call'[p].i = call[p].i
        /\ \/ reply[p] = "ok"
           \/ \E m \in net : /\ m.type = "chunk" /\ m.s = call[p].s /\ m.i = call[p].i
                             /\ Answers(m, "ok")
    BY <1>2 DEF Answered, NewAnswers
  <2>2. CASE reply[p] = "ok"
    <3>1. Had(Peer[Allocator], s, call[p].i)
      BY <2>1, <2>2 DEF AcksHad, Answered
    <3>2. Peer[Allocator] \in Kme /\ call[p].i \in Index
      BY EngineAssumption, MineType, WireParts
    <3> QED
      BY <2>1, <3>1, <3>2, StaysHad
  <2>3. CASE \E m \in net : m.type = "chunk" /\ m.s = call[p].s /\ m.i = call[p].i /\ Answers(m, "ok")
    <3>1. PICK m \in net : m.type = "chunk" /\ m.s = s /\ m.i = call[p].i /\ Acks(m)
      BY <2>1, <2>3 DEF Answers
    <3>2. Had(Peer[Allocator], s, m.i)'
      BY <3>1, AcksMeanHad
    <3> QED
      BY <2>1, <3>1, <3>2
  <2> QED
    BY <2>1, <2>2, <2>3
<1>3. NoneLost(s)'
  BY <1>1 DEF NoneLost
<1>4. AcksHad(s)'
  BY <1>2 DEF AcksHad
<1> QED
  BY <1>3, <1>4

\* A push of chunk i of s was acknowledged to its caller.
PushAcked(s, i) ==
  \E p \in Proc : call[p].pc = "chunk" /\ reply[p] = "ok" /\ call[p].s = s /\ call[p].i = i

\* What becomes of a chunk that the allocator holds and that was never confirmed:
\* it is kept, or its application reads it because a push there was acknowledged.
LEMMA UnconfirmedStep ==
  ASSUME WireInv, Slots, DataEffect, NEW s \in Ksid, NEW n \in Object, NEW i \in Index,
         ~Creates(Allocator, s), obj[Allocator][s][n].chunk[i] # None,
         obj[Allocator][s][n].chunk[i] \notin confirmed
  PROVE  /\ obj'[Allocator][s][n].chunk[i] \in {obj[Allocator][s][n].chunk[i], None}
         /\ i \in obj'[Allocator][s][n].delivered => PushAcked(s, i)
<1> DEFINE o == obj[Allocator][s][n]
           q == obj'[Allocator][s][n]
           Goal == q.chunk[i] \in {o.chunk[i], None} /\ (i \in q.delivered => PushAcked(s, i))
<1>1. /\ i \notin o.delivered /\ i < o.nextAlloc /\ o.nextAlloc \in Nat /\ i \in Nat
      /\ Allocator \in Kme /\ Peer[Allocator] # Allocator
  BY WireParts, Numbers, EngineAssumption DEF Slots, Tidy, ObjType, Objects, Stream, Index
<1>2. Becomes(Allocator, s, n, q)
  BY WireParts, StreamStep
<1>3. CASE Keeps(o, q)
  BY <1>1, <1>3 DEF Keeps
<1>4. ASSUME NEW j \in Index, Reads(Allocator, s, n, j), q.delivered = o.delivered \cup {j},
             q.chunk[i] \in {o.chunk[i], None}
      PROVE  Goal
  <2>1. CASE j = i
    BY <1>4, <2>1 DEF Reads, PushAcked
  <2>2. CASE j # i
    BY <1>1, <1>4, <2>2
  <2> QED
    BY <2>1, <2>2
<1>5. ASSUME NEW j \in Index, j = o.nextAlloc, Fills(o, q, j, made + 1)
      PROVE  Goal
  BY <1>1, <1>5 DEF Fills
<1>6. ASSUME NEW m \in net, Stores(m), m.to = Allocator
      PROVE  FALSE
  BY <1>1, <1>6 DEF Stores, WireInv, Sides
<1>7. Goal
  <2> HIDE DEF Goal
  <2>1. CASE \E j \in Index : /\ Reads(Allocator, s, n, j) /\ q.delivered = o.delivered \cup {j}
                              /\ \A l \in Index : q.chunk[l] \in {o.chunk[l], None}
    BY <1>4, <2>1
  <2>2. CASE \E j \in Index : j = o.nextAlloc /\ Fills(o, q, j, made + 1)
    BY <1>5, <2>2
  <2>3. CASE \E m \in net : Stores(m) /\ m.to = Allocator
    BY <1>6, <2>3
  <2>4. \/ Keeps(o, q)
        \/ \E j \in Index : /\ Reads(Allocator, s, n, j) /\ q.delivered = o.delivered \cup {j}
                            /\ \A l \in Index : q.chunk[l] \in {o.chunk[l], None}
        \/ \E j \in Index : j = o.nextAlloc /\ Fills(o, q, j, made + 1)
        \/ \E m \in net : Stores(m) /\ m.to = Allocator
    BY <1>2, Zenon DEF Becomes
  <2> QED
    BY <1>3, <2>1, <2>2, <2>3, <2>4 DEF Goal
<1> QED
  BY <1>7 DEF Goal

\* A chunk that was there stays the allocator's to push, or the peer has it.
LEMMA StaysPushed ==
  ASSUME WireInv, WireInv', Slots, Homes, EndsInv, DataEffect, ConfirmEffect, MarkEffect,
         NEW s \in Ksid, Stays(s), NoneClosed(s)', AllHad(s), AcksHad(s),
         NEW i \in Index, i < The(Allocator, s).nextAlloc
  PROVE  Had(Peer[Allocator], s, i)' \/ Unpushed(s, i)'
<1> DEFINE b == Peer[Allocator]
           n == cur[Allocator][s]
           o == The(Allocator, s)
           q == The(Allocator, s)'
           x == o.chunk[i]
<1>1. /\ n \in Object /\ o = obj[Allocator][s][n] /\ q = obj'[Allocator][s][n] /\ o \in Stream
      /\ Marked(o, q, Met(Allocator, s), Doomed(Allocator, s, n))
      /\ Allocator \in Kme /\ b \in Kme /\ b # Allocator
  BY StaysMarked, EngineAssumption
<1>2. CASE Had(b, s, i)
  BY <1>1, <1>2, StaysHad
<1>3. CASE Unpushed(s, i)
  <2>1. x # None /\ x \notin confirmed /\ x \in Serial /\ ~Creates(Allocator, s)
    BY <1>1, <1>3 DEF Unpushed, Stream, Stays
  <2>2. ASSUME PushAcked(s, i) PROVE Had(b, s, i)'
    <3>1. Had(b, s, i)
      BY <2>2 DEF AcksHad, Answered, PushAcked
    <3> QED
      BY <1>1, <3>1, StaysHad
  <2>3. /\ q.chunk[i] \in {x, None}
        /\ i \in q.delivered => PushAcked(s, i)
    <3> HIDE DEF o, q, n
    <3>1. obj[Allocator][s][n].chunk[i] # None /\ obj[Allocator][s][n].chunk[i] \notin confirmed
      BY <1>1, <2>1
    <3>2. /\ obj'[Allocator][s][n].chunk[i] \in {obj[Allocator][s][n].chunk[i], None}
          /\ i \in obj'[Allocator][s][n].delivered => PushAcked(s, i)
      <4>1. n \in Object /\ ~Creates(Allocator, s)
        BY <1>1, <2>1
      <4> QED
        BY <3>1, <4>1, UnconfirmedStep
    <3> QED
      BY <1>1, <3>2
  <2>4. CASE q.chunk[i] = None
    <3>1. i \in q.delivered
      BY <1>1, <2>1, <2>4 DEF Marked, NoneClosed
    <3> QED
      BY <2>2, <2>3, <3>1
  <2>5. CASE q.chunk[i] = x /\ x \notin confirmed'
    BY <2>1, <2>5 DEF Unpushed
  <2>6. CASE x \in confirmed'
    <3>1. PICK p \in Proc : call[p].pc = "chunk" /\ reply[p] = "ok" /\ call[p].x = x
      BY <2>1, <2>6 DEF ConfirmEffect
    <3>2. call[p].s \in Ksid /\ call[p].i \in Index /\ At(call[p].s, call[p].i, x)
      BY <3>1, MineType, WireParts DEF At, Pushed
    <3>3. At(s, i, x)
      BY <1>1 DEF At
    <3>4. call[p].s = s /\ call[p].i = i
      BY <2>1, <3>2, <3>3 DEF Homes
    <3> QED
      BY <2>2, <3>1, <3>4 DEF PushAcked
  <2> QED
    BY <2>3, <2>4, <2>5, <2>6
<1> QED
  BY <1>2, <1>3 DEF AllHad

\* A chunk that the step makes is not confirmed yet.
LEMMA StaysMade ==
  ASSUME WireInv, WireInv', Homes, Kept, DataEffect, ConfirmEffect, NEW s \in Ksid, Stays(s),
         NEW i \in Index, Makes(s, cur[Allocator][s], i)
  PROVE  Had(Allocator, s, i)' /\ Unpushed(s, i)'
<1> DEFINE n == cur[Allocator][s]
           x == made + 1
<1>1. n \in Object /\ Allocator \in Kme /\ obj \in Objects /\ made \in Nat
      /\ call \in [Proc -> Call] /\ \A p \in Proc : call[p].pc = "chunk" => call[p].x \in Serial
  <2>1. n \in Object /\ Allocator \in Kme
    BY WireParts, TheType DEF Stays
  <2>2. obj \in Objects /\ made \in Nat /\ call \in [Proc -> Call]
    BY WireParts, HistoryStep DEF ObjType, Objects, CallsType
  <2> QED
    BY <2>1, <2>2, WireParts DEF CallsType, Pushes, Call
<1>2. PICK q \in Stream : Made(s, n, i, q)
  BY <1>1, MakeParts
<1>3. The(Allocator, s)' = obj'[Allocator][s][n] /\ obj'[Allocator][s][n] = q
  BY <1>1, <1>2, SetStreamStep DEF Made, Stays, The
<1>4. q.chunk[i] = x /\ x \in Serial /\ x # None
  BY <1>2, Numbers DEF Made
<1>5. ASSUME NEW y \in confirmed' PROVE y <= made
  <2>1. CASE y \in confirmed
    BY <2>1 DEF Kept
  <2>2. ASSUME NEW p \in Proc, call[p].pc = "chunk", y = call[p].x PROVE y <= made
    <3>1. call[p].s \in Ksid /\ call[p].i \in Index /\ y \in Serial
          /\ At(call[p].s, call[p].i, y)
      BY <1>1, <2>2 DEF At, Pushed, Call
    <3> QED
      BY <3>1 DEF Homes
  <2> QED
    BY <1>5, <2>1, <2>2 DEF ConfirmEffect
<1>6. x \notin confirmed'
  <2>1. ~(x <= made)
    BY <1>1
  <2> QED
    BY <1>5, <2>1
<1> HIDE DEF x
<1> QED
  BY <1>3, <1>4, <1>6 DEF Had, Unpushed

LEMMA StaysAllHad ==
  ASSUME WireInv, WireInv', Slots, Homes, Kept, EndsInv, DataEffect, ConfirmEffect, MarkEffect,
         NEW s \in Ksid, Stays(s), NoneClosed(s)', AllHad(s), AcksHad(s)
  PROVE  AllHad(s)'
<1> SUFFICES ASSUME NEW i \in Index, i < The(Allocator, s)'.nextAlloc
             PROVE  Had(Allocator, s, i)' /\ (Had(Peer[Allocator], s, i)' \/ Unpushed(s, i)')
  BY DEF AllHad
<1> DEFINE n == cur[Allocator][s]
           o == The(Allocator, s)
           q == The(Allocator, s)'
<1>1. /\ n \in Object /\ o = obj[Allocator][s][n] /\ q = obj'[Allocator][s][n] /\ o \in Stream
      /\ Allocator \in Kme /\ i \in Nat /\ o.nextAlloc \in Nat
  BY StaysMarked, EngineAssumption, Numbers DEF Index, Stream
<1>2. CASE i < o.nextAlloc
  <2>1. Had(Allocator, s, i)
    BY <1>2 DEF AllHad
  <2> QED
    BY <1>1, <1>2, <2>1, StaysHad, StaysPushed
<1>3. CASE ~(i < o.nextAlloc)
  <2>1. Becomes(Allocator, s, n, q) /\ ~Creates(Allocator, s)
    BY <1>1, StreamStep DEF Stays
  <2>2. q.nextAlloc # o.nextAlloc
    BY <1>3
  <2> HIDE DEF n, o, q
  <2>3. PICK j \in Index : Makes(s, n, j) /\ j = o.nextAlloc /\ q.nextAlloc = o.nextAlloc + 1
    BY <1>1, <2>1, <2>2 DEF Becomes, Keeps
  <2>4. i = j
    BY <1>1, <1>3, <2>3 DEF q
  <2> QED
    BY <2>3, <2>4, StaysMade DEF n
<1> QED
  BY <1>2, <1>3

LEMMA LiveInit == Init => LiveInv
<1> SUFFICES ASSUME Init, NEW s \in Ksid PROVE ~Live(s)
  BY DEF LiveInv
<1>1. ~Has(Allocator, s)
  BY EngineAssumption DEF Init, Has
<1> QED
  BY <1>1, EngineAssumption DEF Live, Alive

LEMMA LiveStep ==
  ASSUME WireInv, WireInv', Slots, Homes, Kept, EndsInv, LiveInv,
         DataEffect, ConfirmEffect, MarkEffect, NewAnswers
  PROVE  LiveInv'
<1> SUFFICES ASSUME NEW s \in Ksid, Live(s)' PROVE Sound(s)'
  BY DEF LiveInv
<1>1. CASE \E k \in Kme : Creates(k, s) /\ lives[k][s] = 0
  BY <1>1, SoundFresh
<1>2. CASE Stays(s)
  <2>1. NoneClosed(s) /\ NoneLost(s) /\ AllHad(s) /\ AcksHad(s)
    BY <1>2 DEF Stays, LiveInv, Sound
  <2>2. NoneClosed(s)'
    BY <1>2, <2>1, StaysOpen
  <2>3. NoneLost(s)' /\ AcksHad(s)'
    BY <1>2, <2>1, <2>2, StaysAnswered
  <2>4. AllHad(s)'
    BY <1>2, <2>1, <2>2, StaysAllHad
  <2> QED
    BY <2>2, <2>3, <2>4 DEF Sound
<1> QED
  BY <1>1, <1>2, StaysStep

LostInv == PromiseInv /\ EndsInv /\ LiveInv

LEMMA LostNext ==
  ASSUME ~Contended, "ttl" \notin Faults
  PROVE  LostInv /\ [Next]_vars => LostInv'
<1> SUFFICES ASSUME LostInv, [Next]_vars PROVE LostInv'
  OBVIOUS
<1>1. WireInv /\ Slots /\ Homes /\ Kept /\ Rpc /\ EndsInv /\ LiveInv /\ PromiseInv
  BY DEF LostInv, PromiseInv, SlotsInv
<1>2. PromiseInv'
  BY <1>1, PromiseNext
<1>3. WireInv'
  BY <1>2 DEF PromiseInv, SlotsInv
<1>4. DataEffect /\ ConfirmEffect
  BY <1>1, StepEffect DEF Effect
<1>5. MarkedStep
  BY <1>1, StepMarks
<1>6. NewAnswers
  BY <1>1, RpcEffectStep, AnswerStepRpc DEF WireInv
<1>7. EndsInv'
  BY <1>1, <1>3, <1>4, <1>5, EndsStep
<1>8. LiveInv'
  BY <1>1, <1>3, <1>4, <1>5, <1>6, LiveStep DEF MarkedStep
<1> QED
  BY <1>2, <1>7, <1>8 DEF LostInv

\* Without expiry, whatever calls fail or are served late and whichever engine
\* restarts: while an id opened once is open at both ends, a chunk made in it is at
\* each KME until its application reads it, or still at the allocator and to be
\* pushed; no withdraw, no late close and no lost answer takes it (close, on_close,
\* on_withdraw, get_key's pushes).  A time to live takes chunks and streams at one
\* KME alone (sweep), so the theorem is about streams that have none.
THEOREM ChunksAreNotLost ==
  ASSUME ~Contended, "ttl" \notin Faults
  PROVE  Spec => []NothingLost
<1>1. Init => LostInv
  BY PromiseInit, EndsInit, LiveInit DEF LostInv
<1>2. LostInv => NothingLost
  <2> SUFFICES ASSUME LostInv, NEW s \in Ksid, NEW i \in Index, NEW k \in Kme,
                      UsedOnce(s), Linked(s), i < The(Allocator, s).nextAlloc,
                      i \notin The(k, s).delivered
               PROVE  The(k, s).chunk[i] # None \/ Unpushed(s, i)
    BY DEF NothingLost, Unpushed
  <2>1. Live(s)
    BY DEF Live, Alive, UsedOnce, Linked, Open
  <2>2. Had(Allocator, s, i) /\ (Had(Peer[Allocator], s, i) \/ Unpushed(s, i))
    BY <2>1 DEF LostInv, LiveInv, Sound, AllHad
  <2>3. k \in {Allocator, Peer[Allocator]}
    BY EngineAssumption
  <2> QED
    BY <2>2, <2>3 DEF Had
<1>3. LostInv /\ [Next]_vars => LostInv'
  BY LostNext
<1> QED
  BY <1>1, <1>2, <1>3, PTL DEF Spec

-----------------------------------------------------------------------------
(* Both ends close.  Without faults, and with one application process per   *)
(* KME, the close of an end is on its way to the other or the other knows   *)
(* of it, from the announcement of the stream on.                           *)

OneCall == \A p, q \in App : Site[p] = Site[q] => p = q

\* m is a request of type t about s on its way to k.
Asked(m, t, k, s) == m.type = t /\ m.to = k /\ m.s = s
OnItsWay(t, k, s) == \E m \in net : Asked(m, t, k, s)

\* A stream waits for the other's close when it closed and the other has not.
Waiting(o) == o.state = "CLOSING" => o.localClosed /\ ~o.peerClosed

ClosesInv ==
  /\ \A k \in Kme, s \in Ksid, n \in Object : Waiting(obj[k][s][n])
  /\ \A p \in Proc : call[p].pc = "close" => Mine(p).localClosed
  /\ \A m \in net : m.type = "announce" => m.from \in App /\ lives[Peer[m.to]][m.s] >= 1
  /\ \A k \in Kme, s \in Ksid : Has(k, s) => lives[k][s] >= 1
  /\ \A k \in Kme, s \in Ksid : Has(k, s) /\ lives[Peer[k]][s] = 0 =>
       ~The(k, s).localClosed /\ OnItsWay("announce", Peer[k], s)
  /\ \A k \in Kme, s \in Ksid :
       UsedOnce(s) /\ Has(k, s) /\ Has(Peer[k], s) /\ The(k, s).localClosed =>
         The(Peer[k], s).peerClosed \/ OnItsWay("close", Peer[k], s)

\* What a step does that matters here: to the flags of a stream, ...
Flags ==
  /\ \A k \in Kme, s \in Ksid, n \in Object : Waiting(obj'[k][s][n])
  /\ \A p \in Proc : call'[p].pc = "close" => Mine(p)'.localClosed
  /\ \A k \in Kme, s \in Ksid :
       Has(k, s) /\ cur'[k][s] = cur[k][s] =>
         /\ The(k, s).peerClosed => The(k, s)'.peerClosed
         /\ The(k, s)'.localClosed =>
              \/ The(k, s).localClosed
              \/ OnItsWay("close", Peer[k], s)' /\ \E p \in App : Site[p] = k /\ Free(p)

\* ... to the tables, ...
Enters(k, s) ==
  /\ cur[k][s] = None /\ lives'[k][s] = lives[k][s] + 1
  /\ ~The(k, s)'.localClosed
  /\ lives[Peer[k]][s] >= 1 \/ OnItsWay("announce", Peer[k], s)'

Tables ==
  /\ \A k \in Kme, s \in Ksid : lives'[k][s] >= lives[k][s]
  /\ \A k \in Kme, s \in Ksid : cur'[k][s] \in {cur[k][s], None} \/ Enters(k, s)

\* ... and to the announcements and closes on their way.
Notices ==
  /\ \A m \in net' : m.type = "announce" => m \in net \/ (m.from \in App /\ lives'[Peer[m.to]][m.s] >= 1)
  /\ \A m \in net \ net' :
       /\ m.type = "announce" => lives'[m.to][m.s] >= 1
       /\ m.type = "close" => (Has(m.to, m.s)' => The(m.to, m.s)'.peerClosed)

LEMMA ClosesStep ==
  ASSUME TypeInv, TypeInv', Rpc, OneCall, ClosesInv, Flags, Tables, Notices
  PROVE  ClosesInv'
<1>1. /\ \A k \in Kme : Peer[k] \in Kme /\ Peer[k] # k /\ Peer[Peer[k]] = k
      /\ \A m \in net : m.to \in Kme /\ m.s \in Ksid
      /\ \A m \in net' : m.to \in Kme /\ m.s \in Ksid
      /\ Nobody \notin App
  <2>1. net \subseteq Request /\ net' \subseteq Request
    BY DEF TypeInv, TypeOK
  <2> QED
    BY <2>1, EngineAssumption DEF Request, Proc
<1>2. \A k \in Kme, s \in Ksid :
        /\ lives[k][s] \in Nat /\ lives'[k][s] \in Nat /\ lives'[k][s] >= lives[k][s]
        /\ Has(k, s)' => (Has(k, s) /\ cur'[k][s] = cur[k][s]) \/ Enters(k, s)
  BY DEF TypeInv, TypeOK, Tables, Has
<1>3. \A s \in Ksid : UsedOnce(s)' => UsedOnce(s)
  BY <1>2 DEF UsedOnce
<1>4. \A m \in net' : m.type = "announce" => m.from \in App /\ lives'[Peer[m.to]][m.s] >= 1
  BY <1>1, <1>2 DEF Notices, ClosesInv
<1>5. \A k \in Kme, s \in Ksid : Has(k, s)' => lives'[k][s] >= 1
  BY <1>2 DEF ClosesInv, Enters
<1>6. ASSUME NEW k \in Kme, NEW s \in Ksid, Has(k, s)', lives'[Peer[k]][s] = 0
      PROVE  ~The(k, s)'.localClosed /\ OnItsWay("announce", Peer[k], s)'
  <2>1. lives[Peer[k]][s] = 0
    BY <1>1, <1>2, <1>6
  <2>2. CASE Enters(k, s)
    BY <2>1, <2>2 DEF Enters
  <2>3. CASE Has(k, s) /\ cur'[k][s] = cur[k][s]
    <3>1. PICK m \in net : Asked(m, "announce", Peer[k], s)
      BY <2>1, <2>3 DEF ClosesInv, OnItsWay
    <3>2. m.from \in App /\ call[m.from].pc = "announce" /\ m.to = Peer[Site[m.from]]
      BY <1>1, <3>1 DEF ClosesInv, Rpc, Asked
    <3>3. Site[m.from] = k /\ ~Free(m.from)
      <4>1. Site[m.from] \in Kme /\ Peer[Site[m.from]] = Peer[k]
        BY <3>1, <3>2, EngineAssumption DEF Asked, Proc
      <4>2. Site[m.from] = k
        BY <1>1, <4>1
      <4> QED
        BY <3>2, <4>2 DEF Free
    <3>4. ~The(k, s)'.localClosed
      BY <2>1, <2>3, <3>2, <3>3 DEF ClosesInv, Flags, OneCall
    <3>5. m \in net'
      BY <1>1, <1>6, <3>1 DEF Notices, Asked
    <3> QED
      BY <3>1, <3>4, <3>5 DEF OnItsWay, Asked
  <2> QED
    BY <1>2, <1>6, <2>2, <2>3
<1>7. ASSUME NEW k \in Kme, NEW s \in Ksid, UsedOnce(s)', Has(k, s)', Has(Peer[k], s)',
             The(k, s)'.localClosed
      PROVE  The(Peer[k], s)'.peerClosed \/ OnItsWay("close", Peer[k], s)'
  <2> DEFINE j == Peer[k]
  <2>1. Has(k, s) /\ cur'[k][s] = cur[k][s]
    BY <1>2, <1>7 DEF Enters
  <2>2. SUFFICES ASSUME The(k, s).localClosed
                 PROVE  The(j, s)'.peerClosed \/ OnItsWay("close", j, s)'
    BY <1>7, <2>1 DEF Flags
  <2>3. ~Enters(j, s)
    <3>1. j \in Kme /\ lives[j][s] \in Nat /\ lives'[j][s] <= 1
      BY <1>1, <1>2, <1>7 DEF UsedOnce
    <3>2. Enters(j, s) => lives[j][s] = 0
      BY <3>1 DEF Enters
    <3> QED
      BY <2>1, <2>2, <3>2 DEF ClosesInv
  <2>4. Has(j, s) /\ cur'[j][s] = cur[j][s]
    BY <1>1, <1>2, <1>7, <2>3
  <2>5. CASE The(j, s).peerClosed
    BY <1>1, <2>4, <2>5 DEF Flags
  <2>6. ASSUME NEW m \in net, Asked(m, "close", j, s)
        PROVE  The(j, s)'.peerClosed \/ OnItsWay("close", j, s)'
    BY <1>7, <2>6 DEF Notices, Asked, OnItsWay
  <2>7. The(j, s).peerClosed \/ OnItsWay("close", j, s)
    BY <1>3, <1>7, <2>1, <2>2, <2>4 DEF ClosesInv
  <2> QED
    BY <2>5, <2>6, <2>7 DEF OnItsWay
<1> QED
  BY <1>4, <1>5, <1>6, <1>7 DEF ClosesInv, Flags

Closes == Flags /\ Tables /\ Notices

\* Most actions leave all of this alone.
Plain(o, q) ==
  q.localClosed = o.localClosed /\ q.peerClosed = o.peerClosed /\ (Waiting(o) => Waiting(q))

QuietStreams ==
  /\ lives' = lives
  /\ \A k \in Kme, s \in Ksid : cur'[k][s] \in {cur[k][s], None}
  /\ \A k \in Kme, s \in Ksid, n \in Object : Plain(obj[k][s][n], obj'[k][s][n])

Told == {"announce", "close"}
QuietCalls ==
  /\ \A p \in Proc : call'[p].pc = "close" => call'[p] = call[p]
  /\ \A m \in net : m.type \in Told => m \in net'
  /\ \A m \in net' : m.type \in Told => m \in net

LEMMA QuietFlags ==
  ASSUME TypeInv, ClosesInv, QuietStreams,
         \A p \in Proc : call'[p].pc = "close" => call'[p] = call[p]
  PROVE  Flags /\ Tables
<1>1. ASSUME NEW p \in Proc, call'[p].pc = "close" PROVE Mine(p)'.localClosed
  <2>1. Site[p] \in Kme /\ call[p].s \in Ksid /\ call[p].n \in Object /\ call'[p] = call[p]
    BY <1>1, MineType, TypeFacts
  <2>2. Mine(p).localClosed
    BY <1>1, <2>1 DEF ClosesInv
  <2> QED
    BY <2>1, <2>2 DEF Mine, QuietStreams, Plain
<1>2. ASSUME NEW k \in Kme, NEW s \in Ksid, Has(k, s), cur'[k][s] = cur[k][s]
      PROVE  Plain(The(k, s), The(k, s)')
  BY <1>2, TheType, TypeFacts DEF QuietStreams, The
<1>3. \A k \in Kme, s \in Ksid, n \in Object : Waiting(obj'[k][s][n])
  BY DEF QuietStreams, Plain, ClosesInv
<1>4. Tables
  BY DEF QuietStreams, Tables, TypeInv, TypeOK
<1> QED
  BY <1>1, <1>2, <1>3, <1>4 DEF Flags, Plain

LEMMA QuietCloses ==
  ASSUME TypeInv, ClosesInv, QuietStreams, QuietCalls
  PROVE  Closes
<1>1. Flags /\ Tables
  BY QuietFlags DEF QuietCalls
<1>2. Notices
  BY DEF QuietCalls, Notices, Told
<1> QED
  BY <1>1, <1>2 DEF Closes

\* What the engine does to a stream otherwise than to close it.
LEMMA PlainStreams ==
  ASSUME NEW o \in Stream
  PROVE  /\ Plain(o, o) /\ Plain(o, Closed(o))
         /\ o.localClosed => Plain(o, IF o.peerClosed THEN Closed(o) ELSE [o EXCEPT !.state = "CLOSING"])
         /\ \A i \in Index : Plain(o, Read(o, i))
         /\ \A i \in Index, x \in Serial :
              /\ Plain(o, [o EXCEPT !.chunk[i] = x])
              /\ Plain(o, [o EXCEPT !.chunk[i] = x, !.nextAlloc = @ + 1])
         /\ Plain(o, [o EXCEPT !.localOpen = TRUE, !.state = "ESTABLISHED", !.established = TRUE])
         /\ Plain(o, [o EXCEPT !.peerOpen = TRUE, !.state = "ESTABLISHED", !.established = TRUE])
         /\ Plain(o, [o EXCEPT !.peerOpen = TRUE,
                               !.state = IF o.localOpen THEN "ESTABLISHED" ELSE @,
                               !.established = @ \/ o.localOpen])
<1> USE DEF Stream, Closed, Read, Plain, Waiting
<1>1. Plain(o, o) /\ Plain(o, Closed(o))
  OBVIOUS
<1>2. ASSUME o.localClosed
      PROVE  Plain(o, IF o.peerClosed THEN Closed(o) ELSE [o EXCEPT !.state = "CLOSING"])
  BY <1>2
<1>3. \A i \in Index : Plain(o, Read(o, i))
  OBVIOUS
<1>4. ASSUME NEW i \in Index, NEW x \in Serial
      PROVE  /\ Plain(o, [o EXCEPT !.chunk[i] = x])
             /\ Plain(o, [o EXCEPT !.chunk[i] = x, !.nextAlloc = @ + 1])
  OBVIOUS
<1>5. /\ Plain(o, [o EXCEPT !.localOpen = TRUE, !.state = "ESTABLISHED", !.established = TRUE])
      /\ Plain(o, [o EXCEPT !.peerOpen = TRUE, !.state = "ESTABLISHED", !.established = TRUE])
  OBVIOUS
<1>6. Plain(o, [o EXCEPT !.peerOpen = TRUE,
                         !.state = IF o.localOpen THEN "ESTABLISHED" ELSE @,
                         !.established = @ \/ o.localOpen])
  OBVIOUS
<1> QED
  BY <1>1, <1>2, <1>3, <1>4, <1>5, <1>6

LEMMA PlainWrite ==
  ASSUME TypeInv, NEW k \in Kme, NEW s \in Ksid, NEW n \in Object, NEW q \in Stream,
         SetStream(k, s, n, q), Plain(obj[k][s][n], q)
  PROVE  \A j \in Kme, t \in Ksid, m \in Object : Plain(obj[j][t][m], obj'[j][t][m])
<1> SUFFICES ASSUME NEW j \in Kme, NEW t \in Ksid, NEW m \in Object
             PROVE  Plain(obj[j][t][m], obj'[j][t][m])
  OBVIOUS
<1>2. CASE j = k /\ t = s /\ m = n
  BY <1>2, TypeFacts, SetStreamStep DEF ObjType
<1>3. CASE ~(j = k /\ t = s /\ m = n)
  <2>1. obj'[j][t][m] = obj[j][t][m]
    BY <1>3, TypeFacts, SetStreamStep DEF ObjType
  <2> QED
    BY <2>1 DEF Plain
<1> QED
  BY <1>2, <1>3

LEMMA PlainSame ==
  ASSUME obj' = obj
  PROVE  \A j \in Kme, t \in Ksid, m \in Object : Plain(obj[j][t][m], obj'[j][t][m])
BY DEF Plain

\* The calls after Send and Finish; inbox is net, without the request that is served.
LEMMA QuietSend ==
  ASSUME TypeInv, NEW p \in Proc, NEW c \in Call, NEW t \in Awaits \ Told, NEW inbox \in SUBSET net,
         \A m \in net : m.type \in Told => m \in inbox, Send(p, c, t, inbox)
  PROVE  QuietCalls
<1>1. /\ call' = [call EXCEPT ![p] = [c EXCEPT !.pc = t]] /\ call \in [Proc -> Call]
      /\ net' = inbox \cup {[type |-> t, to |-> Peer[Site[p]], s |-> c.s,
                             i |-> c.i, x |-> c.x, from |-> p]}
  BY TypeFacts DEF Send, CallsType
<1>2. [c EXCEPT !.pc = t].pc = t
  BY DEF Call
<1> QED
  BY <1>1, <1>2 DEF QuietCalls, Told

LEMMA QuietFinish ==
  ASSUME TypeInv, NEW p \in Proc, NEW c \in Call, NEW r, Finish(p, c, r),
         net' \in SUBSET net, \A m \in net : m.type \in Told => m \in net'
  PROVE  QuietCalls
<1>1. call' = [call EXCEPT ![p] = Idle] /\ call \in [Proc -> Call]
  BY TypeFacts DEF Finish, CallsType
<1> QED
  BY <1>1, IdleType DEF QuietCalls

LEMMA QuietAnswer ==
  ASSUME NEW m \in net, NEW r, Answer(m, r), m.type \notin Told
  PROVE  QuietCalls
BY DEF Answer, QuietCalls

LEMMA QuietGiveUp ==
  ASSUME TypeInv, NEW p \in Proc, NEW c \in Call, NEW r, NEW inbox \in SUBSET net,
         \A m \in net : m.type \in Told => m \in inbox, GiveUp(p, c, r, inbox)
  PROVE  QuietStreams /\ QuietCalls
BY QuietFinish, PlainSame DEF GiveUp, QuietStreams, streams, history

LEMMA QuietTake ==
  ASSUME TypeInv, NEW p \in Proc, NEW c \in Call, NEW inbox \in SUBSET net,
         \A m \in net : m.type \in Told => m \in inbox, Take(p, c, inbox)
  PROVE  QuietStreams /\ QuietCalls
<1>1. CASE MakeChunk(p, c, inbox)
  <2> DEFINE o == obj[Allocator][c.s][c.n]
             y == made + 1
             q == [o EXCEPT !.chunk[c.i] = y, !.nextAlloc = @ + 1]
  <2>1. /\ made < MaxChunks /\ SetStream(Allocator, c.s, c.n, q) /\ cur' = cur /\ lives' = lives
        /\ Send(p, [c EXCEPT !.x = y], "chunk", inbox)
    BY <1>1 DEF MakeChunk
  <2>2. /\ Allocator \in Kme /\ c.s \in Ksid /\ c.n \in Object /\ c.i \in Index
        /\ "chunk" \in Awaits \ Told
    BY TypeFacts DEF Call, Told
  <2>3. o \in Stream /\ o.nextAlloc <= made /\ made \in Nat /\ o.nextAlloc \in Nat
    BY <2>2, TypeFacts, Numbers DEF ObjType, Objects, RestType, Stream
  <2>4. y \in Serial /\ o.nextAlloc < y
    BY <2>1, <2>3, Numbers DEF Serial
  <2> HIDE DEF o, y
  <2>5. q \in Stream /\ Plain(o, q) /\ [c EXCEPT !.x = y] \in Call
    BY <2>2, <2>3, <2>4, MakeType, PlainStreams DEF Call
  <2> HIDE DEF q
  <2>6. QuietCalls
    BY <2>1, <2>2, <2>5, QuietSend
  <2>7. QuietStreams
    BY <2>1, <2>2, <2>5, PlainWrite DEF QuietStreams, o
  <2> QED
    BY <2>6, <2>7
<1>2. CASE GiveUp(p, c, "empty", inbox)
  BY <1>2, QuietGiveUp
<1> QED
  BY <1>1, <1>2 DEF Take

LEMMA QuietObtain ==
  ASSUME TypeInv, NEW p \in Proc, NEW c \in Call, NEW inbox \in SUBSET net,
         \A m \in net : m.type \in Told => m \in inbox, Obtain(p, c, inbox)
  PROVE  QuietStreams /\ QuietCalls
<1> DEFINE x == obj[Allocator][c.s][c.n].chunk[c.i]
<1>1. x \in Serial \cup {None} /\ "chunk" \in Awaits \ Told
  BY TypeFacts DEF Call, ObjType, Objects, Stream, Told
<1>2. CASE /\ Send(p, [c EXCEPT !.x = x], "chunk", inbox)
           /\ UNCHANGED <<streams, reply, chunks, history, faults>>
  <2>1. [c EXCEPT !.x = x] \in Call
    BY <1>1 DEF Call
  <2> QED
    BY <1>1, <1>2, <2>1, QuietSend, PlainSame DEF QuietStreams, streams, history
<1>3. CASE /\ call' = [call EXCEPT ![p] = [c EXCEPT !.pc = "take"]] /\ net' = inbox
           /\ UNCHANGED <<streams, reply, chunks, history, faults>>
  <2>1. call \in [Proc -> Call] /\ [c EXCEPT !.pc = "take"].pc = "take"
    BY TypeFacts DEF Call, CallsType
  <2>2. QuietCalls
    BY <1>3, <2>1 DEF QuietCalls
  <2> QED
    BY <1>3, <2>2, PlainSame DEF QuietStreams, streams, history
<1> QED
  BY <1>2, <1>3, QuietTake, QuietGiveUp DEF Obtain

LEMMA QuietDeliver ==
  ASSUME TypeInv, NEW p \in Proc, NEW c \in Call, DeliverIfItFits(p, c)
  PROVE  QuietStreams /\ QuietCalls
<1> DEFINE o == obj[Site[p]][c.s][c.n]
<1>1. CASE Deliver(p, c)
  <2>1. /\ Site[p] \in Kme /\ c.s \in Ksid /\ c.n \in Object /\ c.i \in Index
    BY MineType, TypeFacts DEF Call
  <2>2. o \in Stream
    BY <2>1, TypeFacts DEF ObjType, Objects
  <2>3. Read(o, c.i) \in Stream /\ Plain(o, Read(o, c.i))
    BY <2>1, <2>2, StreamType, PlainStreams
  <2>4. /\ SetStream(Site[p], c.s, c.n, Read(o, c.i)) /\ Finish(p, c, "none")
        /\ UNCHANGED <<cur, net, lives>>
    BY <1>1 DEF Deliver
  <2>5. QuietStreams
    BY <2>1, <2>3, <2>4, PlainWrite DEF QuietStreams
  <2> QED
    BY <2>4, <2>5, QuietFinish
<1>2. CASE GiveUp(p, c, "none", net)
  BY <1>2, QuietGiveUp
<1> QED
  BY <1>1, <1>2 DEF DeliverIfItFits

LEMMA ContinueCloses ==
  ASSUME TypeInv, ClosesInv, NEW p \in Proc, Continue(p)
  PROVE  Closes
<1> DEFINE c == call[p]
           o == Mine(p)
           k == Site[p]
<1>1. /\ k \in Kme /\ c \in Call /\ c.s \in Ksid /\ c.n \in Object /\ c.i \in Index
      /\ o \in Stream /\ o = obj[k][c.s][c.n] /\ "withdraw" \in Awaits \ Told
  BY MineType, TypeFacts DEF Mine, Told
<1> SUFFICES QuietStreams /\ QuietCalls
  BY QuietCloses
<1>2. ASSUME NEW r, Finish(p, c, r), net' = net PROVE QuietCalls
  BY <1>1, <1>2, QuietFinish
<1>3. ASSUME NEW q \in Stream, SetStream(k, c.s, c.n, q), Plain(o, q), cur' = cur, lives' = lives
      PROVE  QuietStreams
  BY <1>1, <1>3, PlainWrite DEF QuietStreams
<1>4. ASSUME obj' = obj, cur' = cur \/ Remove(k, c.s), lives' = lives PROVE QuietStreams
  <2>1. \A j \in Kme, t \in Ksid : cur'[j][t] \in {cur[j][t], None}
    BY <1>1, <1>4, RemoveType, TypeFacts
  <2> QED
    BY <1>4, <2>1, PlainSame DEF QuietStreams
<1>5. CASE OpenRefused(p) \/ OpenJoined(p) \/ OpenWithdrawn(p) \/ OpenNotConfirmed(p)
  BY <1>2, <1>4, <1>5 DEF OpenRefused, OpenJoined, OpenWithdrawn, OpenNotConfirmed, streams, history
<1>6. CASE OpenAnnounced(p)
  <2>1. QuietStreams
    BY <1>4, <1>6 DEF OpenAnnounced, streams, history
  <2>2. ASSUME c.predefined PROVE QuietCalls
    <3>1. call' = [call EXCEPT ![p].pc = "wait"] /\ net' = net /\ call \in [Proc -> Call]
      BY <1>6, <2>2, TypeFacts DEF OpenAnnounced, CallsType
    <3>2. call'[p].pc = "wait" /\ \A q \in Proc \ {p} : call'[q] = call[q]
      BY <1>1, <3>1 DEF Call
    <3> QED
      BY <3>1, <3>2 DEF QuietCalls
  <2> QED
    BY <1>2, <1>6, <2>1, <2>2 DEF OpenAnnounced
<1>7. CASE OpenTimeout(p)
  <2>1. Send(p, c, "withdraw", net) /\ obj' = obj /\ lives' = lives /\ Remove(k, c.s)
    BY <1>7 DEF OpenTimeout, history
  <2> QED
    BY <1>1, <1>4, <2>1, QuietSend
<1>8. CASE OpenConfirmed(p)
  <2> DEFINE q == [o EXCEPT !.localOpen = TRUE, !.state = "ESTABLISHED", !.established = TRUE]
  <2>1. SetStream(k, c.s, c.n, q) /\ Finish(p, c, "none") /\ UNCHANGED <<cur, net, lives>>
    BY <1>8 DEF OpenConfirmed, history
  <2>2. q \in Stream /\ Plain(o, q)
    BY <1>1, JoinType, PlainStreams
  <2> HIDE DEF q
  <2> QED
    BY <1>2, <1>3, <2>1, <2>2
<1>9. CASE TakeLater(p)
  BY <1>1, <1>9, QuietTake DEF TakeLater
<1>10. CASE ChunkStored(p)
  <2>1. Read(o, c.i) \in Stream /\ Plain(o, Read(o, c.i))
    BY <1>1, StreamType, PlainStreams
  <2>2. /\ obj' = obj \/ SetStream(k, c.s, c.n, Read(o, c.i))
        /\ Finish(p, c, "ok") /\ UNCHANGED <<cur, net, lives>>
    BY <1>10 DEF ChunkStored
  <2> QED
    BY <1>2, <1>3, <1>4, <2>1, <2>2
<1>11. CASE ChunkRefused(p) \/ NotAllocated(p)
  BY <1>1, <1>11, QuietGiveUp DEF ChunkRefused, NotAllocated
<1>12. CASE PeerLostStream(p)
  <2>1. SetStream(k, c.s, c.n, Closed(o)) /\ Finish(p, c, "empty") /\ UNCHANGED <<cur, net, lives>>
    BY <1>12 DEF PeerLostStream, history
  <2> QED
    BY <1>1, <1>2, <1>3, <2>1, StreamType, PlainStreams
<1>13. CASE Allocated(p)
  BY <1>1, <1>13, QuietGiveUp, QuietDeliver DEF Allocated, ReadObtained
<1>14. CASE CloseDone(p)
  <2> DEFINE q == IF o.peerClosed THEN Closed(o) ELSE [o EXCEPT !.state = "CLOSING"]
  <2>1. /\ c.pc = "close" /\ SetStream(k, c.s, c.n, q) /\ Finish(p, c, "none")
        /\ UNCHANGED <<cur, net, lives>>
    BY <1>14 DEF CloseDone, history
  <2>2. o.localClosed
    BY <2>1 DEF ClosesInv
  <2>3. q \in Stream /\ Plain(o, q)
    BY <1>1, <2>2, StreamType, PlainStreams
  <2> HIDE DEF q
  <2> QED
    BY <1>2, <1>3, <2>1, <2>3
<1> QED
  BY <1>5, <1>6, <1>7, <1>8, <1>9, <1>10, <1>11, <1>12, <1>13, <1>14 DEF Continue

\* A stream enters the table of k: an application opens it, or the peer announces it.
LEMMA CreateCloses ==
  ASSUME TypeInv, ClosesInv, NEW k \in Kme, NEW s \in Ksid, NEW o \in Stream,
         o.nextAlloc = 0, ~o.localClosed, o.state # "CLOSING",
         Create(k, s, o), made' = made,
         \A p \in Proc : call'[p].pc = "close" => call'[p] = call[p],
         lives[Peer[k]][s] >= 1 \/ OnItsWay("announce", Peer[k], s)'
  PROVE  Flags /\ Tables
<1>1. PICK n \in Object :
        /\ cur[k][s] = None /\ Spare(k, s, n) /\ SetStream(k, s, n, o) /\ cur'[k][s] = n
        /\ \A j \in Kme, t \in Ksid : j # k \/ t # s => cur'[j][t] = cur[j][t]
        /\ \A j \in Kme, t \in Ksid :
             lives'[j][t] = IF j = k /\ t = s THEN lives[k][s] + 1 ELSE lives[j][t]
  BY CreateStep, TypeFacts
<1>2. /\ obj'[k][s][n] = o
      /\ \A j \in Kme, t \in Ksid, m \in Object :
           j # k \/ t # s \/ m # n => obj'[j][t][m] = obj[j][t][m]
  BY <1>1, SetStreamStep, TypeFacts DEF ObjType
<1>3. Waiting(o)
  BY DEF Waiting
<1>4. \A j \in Kme, t \in Ksid, m \in Object : Waiting(obj'[j][t][m])
  BY <1>2, <1>3 DEF ClosesInv
<1>5. ASSUME NEW p \in Proc, call'[p].pc = "close" PROVE Mine(p)'.localClosed
  <2>1. call'[p] = call[p] /\ Mine(p).localClosed /\ ~Free(p)
    BY <1>5 DEF ClosesInv, Free
  <2>2. ~(Site[p] = k /\ call[p].s = s /\ call[p].n = n)
    BY <1>1, <2>1 DEF Spare
  <2> QED
    BY <1>2, <2>1, <2>2, MineType, TypeFacts DEF Mine
<1>6. ASSUME NEW j \in Kme, NEW t \in Ksid, Has(j, t), cur'[j][t] = cur[j][t]
      PROVE  The(j, t)' = The(j, t)
  <2>1. j # k \/ t # s
    BY <1>1, <1>6 DEF Has
  <2> QED
    BY <1>2, <1>6, <2>1, TheType, TypeFacts DEF The
<1>7. Enters(k, s)
  BY <1>1, <1>2 DEF Enters, The
<1>8. Tables
  <2>1. \A j \in Kme, t \in Ksid : lives[j][t] \in Nat
    BY TypeFacts DEF RestType
  <2>2. \A j \in Kme, t \in Ksid : lives'[j][t] >= lives[j][t]
    BY <1>1, <2>1
  <2>3. \A j \in Kme, t \in Ksid : cur'[j][t] \in {cur[j][t], None} \/ Enters(j, t)
    BY <1>1, <1>7
  <2> QED
    BY <2>2, <2>3 DEF Tables
<1> QED
  BY <1>4, <1>5, <1>6, <1>8 DEF Flags

LEMMA BeginCloses ==
  ASSUME TypeInv, TypeInv', Rpc, ClosesInv, NEW p \in App, Begin(p)
  PROVE  Closes
<1> DEFINE k == Site[p]
<1>1. p \in Proc /\ k \in Kme /\ {"announce", "establish", "close", "allocate"} \subseteq Awaits
  BY MineType, TypeFacts
<1>2. PICK s \in Ksid :
        \/ \E predefined \in BOOLEAN : OpenNew(p, s, predefined)
        \/ OpenJoin(p, s) \/ (\E i \in Index : GetKey(p, s, i)) \/ Close(p, s)
  BY DEF Begin
<1>3. ASSUME NEW i \in Index
      PROVE  Has(k, s) => /\ cur[k][s] \in Object /\ The(k, s) \in Stream
                          /\ [Idle EXCEPT !.s = s, !.n = cur[k][s]] \in Call
                          /\ [Idle EXCEPT !.s = s, !.n = cur[k][s], !.i = i] \in Call
  BY <1>1, TheType, TypeFacts, IdleType DEF Call
<1>4. ASSUME NEW predefined \in BOOLEAN, OpenNew(p, s, predefined) PROVE Closes
  <2> DEFINE o == [NewStream EXCEPT !.localOpen = TRUE]
             c == [Idle EXCEPT !.s = s, !.n = cur'[k][s], !.predefined = predefined]
             m == [type |-> "announce", to |-> Peer[k], s |-> s, i |-> c.i, x |-> c.x, from |-> p]
  <2>1. Create(k, s, o) /\ Send(p, c, "announce", net) /\ made' = made
    BY <1>4 DEF OpenNew, chunks
  <2>2. /\ o \in Stream /\ o.nextAlloc = 0 /\ ~o.localClosed /\ o.state # "CLOSING"
    BY NewStreamType DEF NewStream
  <2>3. c.s = s
    BY IdleType DEF Call
  <2>4. /\ call' = [call EXCEPT ![p] = [c EXCEPT !.pc = "announce"]] /\ call \in [Proc -> Call]
        /\ net' = net \cup {m} /\ [c EXCEPT !.pc = "announce"].pc = "announce"
    BY <2>1, <2>3, TypeFacts, IdleType DEF Send, CallsType, Call
  <2>5. /\ lives'[k][s] = lives[k][s] + 1 /\ lives[k][s] \in Nat /\ Peer[Peer[k]] = k
    BY <1>1, <2>1, TypeFacts, EngineAssumption DEF Create, RestType
  <2> HIDE DEF c, o
  <2>6. OnItsWay("announce", Peer[k], s)'
    <3>1. m \in net' /\ m.type = "announce" /\ m.to = Peer[k] /\ m.s = s
      BY <2>4
    <3> HIDE DEF m
    <3> QED
      BY <3>1 DEF OnItsWay, Asked
  <2>7. Flags /\ Tables
    BY <1>1, <2>1, <2>2, <2>4, <2>6, CreateCloses
  <2>8. Notices
    BY <2>4, <2>5 DEF Notices
  <2> QED
    BY <2>7, <2>8 DEF Closes
<1>5. CASE OpenJoin(p, s)
  <2>1. /\ Send(p, [Idle EXCEPT !.s = s, !.n = cur[k][s]], "establish", net)
        /\ Has(k, s) /\ UNCHANGED <<obj, cur, lives>>
    BY <1>5 DEF OpenJoin, streams, history
  <2>2. [Idle EXCEPT !.s = s, !.n = cur[k][s]] \in Call /\ "establish" \in Awaits \ Told
    BY <1>1, <1>3, <2>1, Numbers DEF Told
  <2>3. QuietCalls
    BY <1>1, <2>1, <2>2, QuietSend
  <2> QED
    BY <2>1, <2>3, PlainSame, QuietCloses DEF QuietStreams
<1>6. ASSUME NEW i \in Index, GetKey(p, s, i) PROVE Closes
  <2> DEFINE c == [Idle EXCEPT !.s = s, !.n = cur[k][s], !.i = i]
  <2>1. Has(k, s)
    BY <1>6 DEF GetKey
  <2>2. c \in Call /\ "allocate" \in Awaits \ Told
    BY <1>1, <1>3, <2>1 DEF Told
  <2>3. \/ DeliverIfItFits(p, c) \/ Obtain(p, c, net)
        \/ Send(p, c, "allocate", net) /\ UNCHANGED <<streams, reply, chunks, history, faults>>
    BY <1>6 DEF GetKey
  <2> HIDE DEF c
  <2>4. CASE Send(p, c, "allocate", net) /\ UNCHANGED <<streams, reply, chunks, history, faults>>
    <3>1. QuietCalls
      BY <1>1, <2>2, <2>4, QuietSend
    <3>2. UNCHANGED <<obj, cur, lives>>
      BY <2>4 DEF streams, history
    <3> QED
      BY <3>1, <3>2, PlainSame, QuietCloses DEF QuietStreams
  <2>5. CASE DeliverIfItFits(p, c)
    BY <1>1, <2>2, <2>5, QuietDeliver, QuietCloses
  <2>6. CASE Obtain(p, c, net)
    BY <1>1, <2>2, <2>6, QuietObtain, QuietCloses
  <2> QED
    BY <2>3, <2>4, <2>5, <2>6
<1>7. CASE Close(p, s)
  <2> DEFINE o == The(k, s)
             n == cur[k][s]
             q == [o EXCEPT !.localClosed = TRUE]
             c == [Idle EXCEPT !.s = s, !.n = n]
             m == [type |-> "close", to |-> Peer[k], s |-> s, i |-> c.i, x |-> c.x, from |-> p]
  <2>1. /\ Has(k, s) /\ Free(p) /\ SetStream(k, s, n, q) /\ Send(p, c, "close", net)
        /\ cur' = cur /\ lives' = lives
    BY <1>7 DEF Close, Open, history
  <2>2. /\ n \in Object /\ o \in Stream /\ o = obj[k][s][n] /\ c \in Call /\ c.s = s /\ c.n = n
    BY <1>1, <1>3, <2>1, IdleType, Numbers DEF The, Call
  <2>3. q \in Stream /\ q.localClosed /\ q.peerClosed = o.peerClosed /\ (Waiting(o) => Waiting(q))
    BY <2>2, StreamType DEF Stream, Waiting
  <2>4. /\ call'[p].s = s /\ call'[p].n = n /\ \A r \in Proc \ {p} : call'[r] = call[r]
        /\ net' = net \cup {m}
    BY <1>1, <2>1, <2>2, TypeFacts DEF Send, CallsType, Call
  <2> HIDE DEF c, q
  <2>5. /\ obj'[k][s][n] = q
        /\ \A j \in Kme, t \in Ksid, l \in Object :
             j # k \/ t # s \/ l # n => obj'[j][t][l] = obj[j][t][l]
    BY <1>1, <2>1, <2>2, <2>3, SetStreamStep, TypeFacts DEF ObjType
  <2>6. \A j \in Kme, t \in Ksid, l \in Object :
          /\ Waiting(obj'[j][t][l])
          /\ obj[j][t][l].localClosed => obj'[j][t][l].localClosed
          /\ obj'[j][t][l].peerClosed = obj[j][t][l].peerClosed
          /\ obj'[j][t][l].localClosed => obj[j][t][l].localClosed \/ (j = k /\ t = s)
    BY <2>2, <2>3, <2>5 DEF ClosesInv
  <2>7. ASSUME NEW r \in Proc, call'[r].pc = "close" PROVE Mine(r)'.localClosed
    <3>1. CASE r = p
      BY <2>3, <2>4, <2>5, <3>1 DEF Mine
    <3>2. CASE r # p
      BY <2>4, <2>6, <2>7, <3>2, MineType, TypeFacts DEF Mine, ClosesInv
    <3> QED
      BY <3>1, <3>2
  <2>8. OnItsWay("close", Peer[k], s)'
    <3>1. m \in net' /\ m.type = "close" /\ m.to = Peer[k] /\ m.s = s
      BY <2>4
    <3> HIDE DEF m
    <3> QED
      BY <3>1 DEF OnItsWay, Asked
  <2>9. ASSUME NEW j \in Kme, NEW t \in Ksid, Has(j, t)
        PROVE  /\ The(j, t).peerClosed => The(j, t)'.peerClosed
               /\ The(j, t)'.localClosed => The(j, t).localClosed \/ (j = k /\ t = s)
    BY <2>1, <2>6, <2>9, TheType, TypeFacts DEF The
  <2>10. Flags
    BY <2>1, <2>6, <2>7, <2>8, <2>9 DEF Flags
  <2>11. Tables /\ Notices
    BY <2>1, <2>4 DEF Tables, Notices, TypeInv, TypeOK
  <2> QED
    BY <2>10, <2>11 DEF Closes
<1> QED
  BY <1>2, <1>4, <1>5, <1>6, <1>7

\* The peer's close arrives.
LEMMA OnCloseCloses ==
  ASSUME TypeInv, ClosesInv, NEW m \in net, OnClose(m)
  PROVE  Closes
<1> DEFINE k == m.to
           s == m.s
           o == The(k, s)
           n == cur[k][s]
           told == [o EXCEPT !.peerClosed = TRUE]
           q == IF told.localClosed \/ ~told.localOpen THEN Closed(told) ELSE told
<1>1. /\ k \in Kme /\ s \in Ksid
      /\ Has(k, s) => o \in Stream /\ n \in Object /\ o = obj[k][s][n]
  BY TheType, TypeFacts DEF CallsType, GoodRequest, Request, The
<1>2. m.type = "close" /\ call' = call /\ net' = net \ {m} /\ cur' = cur /\ lives' = lives
  BY DEF OnClose, Refuse, Answer, streams, history
<1>3. \A p \in Proc : call'[p].pc = "close" => call'[p] = call[p]
  BY <1>2
<1>4. CASE ~Has(k, s) /\ obj' = obj
  <2>1. Flags /\ Tables
    BY <1>2, <1>3, <1>4, PlainSame, QuietFlags DEF QuietStreams
  <2>2. Notices
    BY <1>2, <1>4 DEF Notices, Has
  <2> QED
    BY <2>1, <2>2 DEF Closes
<1>5. CASE Has(k, s) /\ SetStream(k, s, n, q)
  <2>1. /\ q \in Stream /\ q.peerClosed /\ q.localClosed = o.localClosed
        /\ Waiting(o) => Waiting(q)
    <3>1. told \in Stream
      BY <1>1, <1>5, StreamType
    <3>2. Closed(told) \in Stream
      BY <3>1, StreamType
    <3>3. /\ told.peerClosed /\ told.localClosed = o.localClosed /\ told.state = o.state
          /\ Closed(told).peerClosed /\ Closed(told).localClosed = o.localClosed
          /\ Closed(told).state = "CLOSED"
      BY <1>1, <1>5, <3>1 DEF Stream, Closed
    <3> HIDE DEF told
    <3> QED
      BY <3>1, <3>2, <3>3 DEF Waiting
  <2> HIDE DEF q
  <2>2. /\ obj'[k][s][n] = q
        /\ \A j \in Kme, t \in Ksid, l \in Object :
             j # k \/ t # s \/ l # n => obj'[j][t][l] = obj[j][t][l]
    BY <1>1, <1>5, <2>1, SetStreamStep, TypeFacts DEF ObjType
  <2>3. \A j \in Kme, t \in Ksid, l \in Object :
          /\ Waiting(obj'[j][t][l])
          /\ obj'[j][t][l].localClosed = obj[j][t][l].localClosed
          /\ obj[j][t][l].peerClosed => obj'[j][t][l].peerClosed
    BY <1>1, <1>5, <2>1, <2>2 DEF ClosesInv
  <2>4. ASSUME NEW p \in Proc, call'[p].pc = "close" PROVE Mine(p)'.localClosed
    <3>1. Site[p] \in Kme /\ call[p].s \in Ksid /\ call[p].n \in Object /\ call'[p] = call[p]
      BY <1>2, MineType, TypeFacts
    <3>2. Mine(p).localClosed
      BY <2>4, <3>1 DEF ClosesInv
    <3> QED
      BY <2>3, <3>1, <3>2 DEF Mine
  <2>5. ASSUME NEW j \in Kme, NEW t \in Ksid, Has(j, t)
        PROVE  /\ The(j, t).peerClosed => The(j, t)'.peerClosed
               /\ The(j, t)'.localClosed = The(j, t).localClosed
    BY <1>2, <2>3, <2>5, TheType, TypeFacts DEF The
  <2>6. Flags
    BY <2>3, <2>4, <2>5 DEF Flags
  <2>7. The(k, s)'.peerClosed
    BY <1>2, <2>1, <2>2 DEF The
  <2>8. Tables /\ Notices
    BY <1>2, <2>7 DEF Tables, Notices, TypeInv, TypeOK
  <2> QED
    BY <2>6, <2>8 DEF Closes
<1> QED
  BY <1>4, <1>5 DEF OnClose, Refuse, streams

\* An announcement arrives.
LEMMA OnAnnounceCloses ==
  ASSUME TypeInv, ClosesInv, NEW m \in net, OnAnnounce(m)
  PROVE  Closes
<1> DEFINE k == m.to
           s == m.s
           o == The(k, s)
           n == cur[k][s]
<1>1. /\ k \in Kme /\ s \in Ksid
      /\ Has(k, s) => o \in Stream /\ n \in Object /\ o = obj[k][s][n]
      /\ \A j \in Kme, t \in Ksid : lives[j][t] \in Nat
  BY TheType, TypeFacts DEF CallsType, GoodRequest, Request, RestType, The
<1>2. m.type = "announce" /\ call' = call /\ net' = net \ {m}
  BY DEF OnAnnounce, Refuse, Answer
<1>3. \A p \in Proc : call'[p].pc = "close" => call'[p] = call[p]
  BY <1>2
<1>4. ASSUME lives'[k][s] >= 1 PROVE Notices
  BY <1>2, <1>4 DEF Notices
<1>5. ASSUME Has(k, s), cur' = cur, lives' = lives,
             \A j \in Kme, t \in Ksid, l \in Object : Plain(obj[j][t][l], obj'[j][t][l])
      PROVE  Closes
  <2>1. lives[k][s] >= 1
    BY <1>1, <1>5 DEF ClosesInv
  <2> QED
    BY <1>3, <1>4, <1>5, <2>1, QuietFlags DEF QuietStreams, Closes
<1>6. CASE Has(k, s) /\ o.state = "CLOSED" /\ Refuse(m, "conflict")
  BY <1>5, <1>6, PlainSame DEF Refuse, streams, history
<1>7. ASSUME Has(k, s), NEW q \in Stream, Plain(o, q), SetStream(k, s, n, q), cur' = cur, lives' = lives
      PROVE  Closes
  BY <1>1, <1>5, <1>7, PlainWrite
<1>8. ASSUME NEW q \in Stream, q.nextAlloc = 0, ~q.localClosed, q.state # "CLOSING",
             Create(k, s, q), made' = made
      PROVE  Closes
  <2>1. lives[Peer[k]][s] >= 1
    BY <1>2 DEF ClosesInv
  <2>2. Flags /\ Tables
    BY <1>1, <1>3, <1>8, <2>1, CreateCloses
  <2>3. lives'[k][s] = lives[k][s] + 1
    BY <1>1, <1>8, TypeFacts DEF Create, RestType
  <2> QED
    BY <1>1, <1>4, <2>2, <2>3 DEF Closes
<1>9. NewStream \in Stream /\ [NewStream EXCEPT !.peerOpen = TRUE] \in Stream
  BY NewStreamType
<1>10. /\ [NewStream EXCEPT !.peerOpen = TRUE].nextAlloc = 0
       /\ ~[NewStream EXCEPT !.peerOpen = TRUE].localClosed
       /\ [NewStream EXCEPT !.peerOpen = TRUE].state # "CLOSING"
  BY DEF NewStream
<1> QED
  BY <1>1, <1>6, <1>7, <1>8, <1>9, <1>10, JoinType, PlainStreams DEF OnAnnounce, chunks, history

LEMMA ServeCloses ==
  ASSUME TypeInv, ClosesInv, NEW m \in net, Serve(m)
  PROVE  Closes
<1> DEFINE k == m.to
           s == m.s
           o == The(k, s)
           n == cur[k][s]
<1>1. /\ k \in Kme /\ s \in Ksid /\ m.i \in Index /\ Allocator \in Kme
      /\ m.x \in Serial \cup {None} /\ m.from \in Proc \cup {Nobody}
      /\ m.type = "chunk" => m.x \in Serial
      /\ Has(k, s) => o \in Stream /\ n \in Object /\ o = obj[k][s][n]
  BY TheType, TypeFacts, EngineAssumption DEF CallsType, GoodRequest, Request, The
<1>2. ASSUME NEW r, Answer(m, r), m.type \notin Told, QuietStreams PROVE Closes
  BY <1>2, QuietAnswer, QuietCloses
<1>3. ASSUME NEW r, Refuse(m, r), m.type \notin Told PROVE Closes
  BY <1>2, <1>3, PlainSame DEF Refuse, QuietStreams, streams, history
<1>4. ASSUME NEW q \in Stream, NEW r, Has(k, s), SetStream(k, s, n, q), Plain(o, q),
             Answer(m, r), m.type \notin Told, cur' = cur, lives' = lives
      PROVE  Closes
  BY <1>1, <1>2, <1>4, PlainWrite DEF QuietStreams
<1>5. CASE OnEstablish(m)
  <2> DEFINE q == [o EXCEPT !.peerOpen = TRUE, !.state = "ESTABLISHED", !.established = TRUE]
  <2>1. CASE Open(k, s) /\ SetStream(k, s, n, q) /\ Answer(m, "ok") /\ UNCHANGED <<cur, lives>>
    <3>1. q \in Stream /\ Plain(o, q)
      BY <1>1, <2>1, JoinType, PlainStreams DEF Open
    <3> HIDE DEF q
    <3> QED
      BY <1>4, <1>5, <2>1, <3>1 DEF OnEstablish, Told, Open
  <2>2. CASE Refuse(m, "lost")
    BY <1>3, <1>5, <2>2 DEF OnEstablish, Told
  <2> QED
    BY <1>5, <2>1, <2>2 DEF OnEstablish, history
<1>6. CASE OnWithdraw(m)
  <2>1. /\ Answer(m, "ok") /\ m.type \notin Told /\ obj' = obj /\ lives' = lives
        /\ cur' = cur \/ Remove(k, s)
    BY <1>6 DEF OnWithdraw, Told, history
  <2>2. \A j \in Kme, t \in Ksid : cur'[j][t] \in {cur[j][t], None}
    BY <1>1, <2>1, RemoveType, TypeFacts
  <2> QED
    BY <1>2, <2>1, <2>2, PlainSame DEF QuietStreams
<1>7. CASE OnChunk(m)
  <2> DEFINE q == [o EXCEPT !.chunk[m.i] = m.x]
  <2>1. m.type = "chunk" /\ m.type \notin Told
    BY <1>7 DEF OnChunk, Told
  <2>2. CASE Open(k, s) /\ SetStream(k, s, n, q) /\ Answer(m, "ok") /\ UNCHANGED <<cur, lives>>
    <3>1. q \in Stream /\ Plain(o, q)
      BY <1>1, <2>1, <2>2, FillType, PlainStreams DEF Open
    <3> HIDE DEF q
    <3> QED
      BY <1>4, <2>1, <2>2, <3>1 DEF Open
  <2>3. CASE \E r : Refuse(m, r)
    BY <1>3, <2>1, <2>3
  <2> QED
    BY <1>7, <2>2, <2>3 DEF OnChunk, StoreChunk
<1>8. ASSUME NEW h \in Handler, OnAllocate(h, m) PROVE Closes
  <2> DEFINE a == cur[Allocator][s]
             c == [Idle EXCEPT !.s = s, !.n = a, !.i = m.i, !.from = m.from]
  <2>1. m.type = "allocate" /\ m.type \notin Told /\ h \in Proc
    BY <1>8, TypeFacts DEF OnAllocate, Told
  <2>2. CASE \E r : Refuse(m, r)
    BY <1>3, <2>1, <2>2
  <2>3. CASE Open(Allocator, s) /\ Obtain(h, c, net \ {m})
    <3>1. a \in Object
      BY <1>1, <2>3, TheType, TypeFacts DEF Open
    <3> HIDE DEF a
    <3>2. c \in Call
      BY <1>1, <3>1, IdleType DEF Call
    <3> HIDE DEF c
    <3>3. QuietStreams /\ QuietCalls
      BY <2>1, <2>3, <3>2, QuietObtain
    <3> QED
      BY <3>3, QuietCloses
  <2> QED
    BY <1>8, <2>2, <2>3 DEF OnAllocate
<1> QED
  BY <1>5, <1>6, <1>7, <1>8, OnCloseCloses, OnAnnounceCloses DEF Serve

LEMMA ClosesInit == Init => ClosesInv
<1> SUFFICES ASSUME Init PROVE ClosesInv
  OBVIOUS
<1>1. \A k \in Kme, s \in Ksid, n \in Object : obj[k][s][n] = NewStream
  BY DEF Init
<1>2. \A k \in Kme, s \in Ksid : ~Has(k, s)
  BY DEF Init, Has
<1>3. \A p \in Proc : call[p].pc = "idle"
  BY IdleType DEF Init
<1>4. NewStream.state # "CLOSING" /\ net = {}
  BY DEF NewStream, Init
<1> QED
  BY <1>1, <1>2, <1>3, <1>4 DEF ClosesInv, Waiting

LEMMA RpcInit == Init => Rpc
<1> SUFFICES ASSUME Init PROVE Rpc
  OBVIOUS
<1>1. net = {} /\ \A p \in Proc : reply[p] = "none" /\ call[p].pc = "idle" /\ call[p].from = Nobody
  BY IdleType DEF Init
<1> QED
  BY <1>1 DEF Rpc

CloseInv == TypeInv /\ Rpc /\ ClosesInv

LEMMA CloseInvNext ==
  ASSUME Faults = {}, OneCall
  PROVE  CloseInv /\ [Next]_vars => CloseInv'
<1> SUFFICES ASSUME CloseInv, [Next]_vars PROVE CloseInv'
  OBVIOUS
<1>1. TypeInv /\ Rpc /\ ClosesInv /\ TypeInv'
  BY TypeStep DEF CloseInv
<1>2. Rpc'
  BY <1>1, RpcEffectStep, RpcStep
<1>3. ~Sweep /\ (\A p \in Proc : ~PeerFails(p)) /\ \A k \in Kme : ~Restart(k)
  BY DEF Sweep, SweepStream, SweepChunk, SweepRecord, PeerFails, Restart, Fault
<1>4. CASE UNCHANGED vars
  <2>1. obj' = obj /\ cur' = cur /\ lives' = lives /\ call' = call /\ net' = net
    BY <1>4 DEF vars, streams, calls, history
  <2>2. QuietStreams /\ QuietCalls
    BY <2>1, PlainSame DEF QuietStreams, QuietCalls
  <2> QED
    BY <1>1, <1>2, <2>2, QuietCloses, ClosesStep DEF Closes, CloseInv
<1>5. CASE Next
  <2>1. Closes
    BY <1>1, <1>3, <1>5, BeginCloses, ContinueCloses, ServeCloses DEF Next
  <2> QED
    BY <1>1, <1>2, <2>1, ClosesStep DEF Closes, CloseInv
<1> QED
  BY <1>4, <1>5

\* Without faults and with one application process per KME, for any number of
\* streams, chunks and handlers and whoever holds the pool lock: when both
\* applications have closed a stream whose id was used once and no call is in
\* flight, both ends are closed, however the two closes crossed each other, the
\* announcement or a push (close's test of peer_closed after its await, on_close).
\* An id opened again is checked by TLC.
THEOREM ClosesMeet ==
  ASSUME Faults = {}, OneCall
  PROVE  Spec => [](/\ \A s \in Ksid : UsedOnce(s) => Settled(s)
                    /\ (\A s \in Ksid : UsedOnce(s)) => ClosedTogether)
<1>1. Init => CloseInv
  BY TypeInit, RpcInit, ClosesInit DEF CloseInv
<1>2. CloseInv /\ [Next]_vars => CloseInv'
  BY CloseInvNext
<1>3. CloseInv => \A s \in Ksid : UsedOnce(s) => Settled(s)
  <2> SUFFICES ASSUME CloseInv, NEW s \in Ksid, UsedOnce(s), net = {},
                      \A k \in Kme : Has(k, s) /\ The(k, s).localClosed, NEW k \in Kme
               PROVE  The(k, s).state # "CLOSING"
    BY DEF Settled
  <2>1. Peer[k] \in Kme /\ Peer[Peer[k]] = k
    BY EngineAssumption
  <2>2. The(k, s).peerClosed
    BY <2>1 DEF CloseInv, ClosesInv, OnItsWay
  <2>3. cur[k][s] \in Object
    BY TheType, TypeFacts DEF CloseInv
  <2> QED
    BY <2>2, <2>3 DEF CloseInv, ClosesInv, Waiting, The
<1>4. CloseInv => ((\A s \in Ksid : UsedOnce(s)) => ClosedTogether)
  BY <1>3 DEF ClosedTogether
<1> QED
  BY <1>1, <1>2, <1>3, <1>4, PTL DEF Spec
=============================================================================
