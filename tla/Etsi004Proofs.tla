---------------------------- MODULE Etsi004Proofs ----------------------------
(***************************************************************************)
(* Proofs about Etsi004, for any number of application calls and handlers  *)
(* in flight, any streams, indices, chunks, failures, expiries and         *)
(* restarts.                                                               *)
(***************************************************************************)
EXTENDS Etsi004, TLAPS

-----------------------------------------------------------------------------
(* Types.  A Stream never allocated more chunks than were made, and a call  *)
(* that pushes has a chunk to push.                                        *)

GoodRequest == {m \in Request : m.type = "chunk" => m.x # None}

Pushes == \A p \in Proc : call[p].pc = "chunk" => call[p].x # None

TypeInv ==
  /\ TypeOK /\ Pushes /\ net \subseteq GoodRequest
  /\ \A k \in Kme, s \in Ksid, n \in Object : obj[k][s][n].nextAlloc <= made

Objects == [Kme -> [Ksid -> [Object -> Stream]]]

LEMMA Numbers ==
  /\ MaxIndex \in Nat /\ MaxChunks \in Nat /\ MaxObjects \in Nat /\ MaxObjects >= 1
  /\ 0 \in Index /\ 1 \in Object /\ None \notin Object /\ None \notin Serial
BY BoundAssumption DEF Index, Object, None, Serial

LEMMA IdleType == Idle \in Call /\ Idle.pc = "idle" /\ Idle.from = Nobody
<1>1. (CHOOSE s \in Ksid : TRUE) \in Ksid
  BY EngineAssumption
<1> DEFINE some == CHOOSE s \in Ksid : TRUE
<1>2. Idle = [pc |-> "idle", s |-> some, n |-> 1, i |-> 0,
              x |-> None, predefined |-> FALSE, from |-> Nobody]
  BY DEF Idle
<1> HIDE DEF some
<1> QED
  BY <1>1, <1>2, Numbers DEF some, Call, Awaits

LEMMA NewStreamType ==
  /\ NewStream \in Stream
  /\ [NewStream EXCEPT !.localOpen = TRUE] \in Stream
  /\ [NewStream EXCEPT !.peerOpen = TRUE] \in Stream
<1>1. 0 \in 0 .. MaxChunks
  BY Numbers
<1>2. [i \in Index |-> None] \in [Index -> Serial \cup {None}] /\ {} \in SUBSET Index
  OBVIOUS
<1> DEFINE empty == [i \in Index |-> None]
           o == [state |-> "PENDING_PEER", localOpen |-> FALSE, peerOpen |-> FALSE,
                 localClosed |-> FALSE, peerClosed |-> FALSE, established |-> FALSE,
                 chunk |-> empty, delivered |-> {}, nextAlloc |-> 0]
<1>3. NewStream = o
  BY DEF NewStream
<1> HIDE DEF empty
<1>4. o \in Stream
  BY <1>1, <1>2 DEF Stream, States, empty
<1> HIDE DEF o
<1> QED
  BY <1>3, <1>4 DEF Stream

\* What the engine does to a Stream object keeps it one.
LEMMA StreamType ==
  ASSUME NEW o \in Stream
  PROVE  /\ [o EXCEPT !.localClosed = TRUE] \in Stream
         /\ [o EXCEPT !.peerClosed = TRUE] \in Stream
         /\ [o EXCEPT !.state = "CLOSING"] \in Stream
         /\ Closed(o) \in Stream
         /\ \A i \in Index : [o EXCEPT !.chunk[i] = None] \in Stream
         /\ \A i \in Index : Read(o, i) \in Stream
BY DEF Stream, States, Closed, Read, None

LEMMA JoinType ==
  ASSUME NEW o \in Stream
  PROVE  /\ [o EXCEPT !.localOpen = TRUE, !.state = "ESTABLISHED", !.established = TRUE]
              \in Stream
         /\ [o EXCEPT !.peerOpen = TRUE, !.state = "ESTABLISHED", !.established = TRUE]
              \in Stream
         /\ [o EXCEPT !.peerOpen = TRUE,
                      !.state = IF o.localOpen THEN "ESTABLISHED" ELSE @,
                      !.established = @ \/ o.localOpen] \in Stream
BY DEF Stream, States

LEMMA FillType ==
  ASSUME NEW o \in Stream, NEW i \in Index, NEW x \in Serial
  PROVE  [o EXCEPT !.chunk[i] = x] \in Stream
BY DEF Stream

LEMMA MakeType ==
  ASSUME NEW o \in Stream, NEW i \in Index, NEW x \in Serial, o.nextAlloc < x
  PROVE  /\ [o EXCEPT !.chunk[i] = x, !.nextAlloc = @ + 1] \in Stream
         /\ [o EXCEPT !.chunk[i] = x, !.nextAlloc = @ + 1].nextAlloc <= x
<1>1. o.nextAlloc \in 0 .. MaxChunks /\ x \in 1 .. MaxChunks
  BY DEF Stream, Serial
<1>2. o.nextAlloc + 1 \in 0 .. MaxChunks /\ o.nextAlloc + 1 <= x
  BY <1>1, Numbers
<1> QED
  BY <1>2 DEF Stream

\* One object is written.
LEMMA SetStreamStep ==
  ASSUME obj \in Objects, NEW k \in Kme, NEW s \in Ksid, NEW n \in Object, NEW o \in Stream,
         SetStream(k, s, n, o)
  PROVE  /\ obj' \in Objects
         /\ obj'[k][s][n] = o
         /\ \A j \in Kme, t \in Ksid, m \in Object :
              j # k \/ t # s \/ m # n => obj'[j][t][m] = obj[j][t][m]
BY DEF SetStream, Objects

LEMMA MineType ==
  ASSUME TypeOK, NEW p \in Proc
  PROVE  /\ Site[p] \in Kme /\ Peer[Site[p]] \in Kme
         /\ call[p] \in Call /\ call[p].s \in Ksid /\ call[p].n \in Object
         /\ call[p].i \in Index
         /\ Mine(p) \in Stream
<1>1. Site[p] \in Kme /\ call[p] \in Call
  BY EngineAssumption DEF TypeOK
<1>2. call[p].s \in Ksid /\ call[p].n \in Object /\ call[p].i \in Index
  BY <1>1 DEF Call
<1> QED
  BY <1>1, <1>2, EngineAssumption DEF TypeOK, Mine

LEMMA TheType ==
  ASSUME TypeOK, NEW k \in Kme, NEW s \in Ksid, Has(k, s)
  PROVE  cur[k][s] \in Object /\ The(k, s) \in Stream
BY Numbers DEF TypeOK, Has, The, Object, None
CallsType ==
  /\ call \in [Proc -> Call]
  /\ net \subseteq GoodRequest
  /\ reply \in [Proc -> Replies]
  /\ Pushes

RestType ==
  /\ cur \in [Kme -> [Ksid -> 0 .. MaxObjects]]
  /\ made \in 0 .. MaxChunks /\ confirmed \subseteq Serial
  /\ got \in [Kme -> [Ksid -> [Index -> Serial \cup {None}]]]
  /\ stored \in [Kme -> SUBSET Serial]
  /\ lives \in [Kme -> [Ksid -> Nat]]
  /\ faults \in 0 .. MaxFaults

ObjType ==
  /\ obj \in Objects
  /\ \A k \in Kme, s \in Ksid, n \in Object : obj[k][s][n].nextAlloc <= made

LEMMA TypeParts == TypeInv <=> CallsType /\ RestType /\ ObjType
BY DEF TypeInv, TypeOK, CallsType, RestType, ObjType, Objects, GoodRequest

LEMMA TypePartsNext == CallsType' /\ RestType' /\ ObjType' => TypeInv'
BY DEF TypeInv, TypeOK, CallsType, RestType, ObjType, Objects, GoodRequest

\* A request is sent.
LEMMA SendStep ==
  ASSUME CallsType, NEW p \in Proc, NEW c \in Call, NEW t \in Awaits,
         NEW inbox \in SUBSET net, Send(p, c, t, inbox), t = "chunk" => c.x # None
  PROVE  /\ net' \subseteq GoodRequest /\ call' \in [Proc -> Call] /\ Pushes'
         /\ call'[p] = [c EXCEPT !.pc = t] /\ \A q \in Proc \ {p} : call'[q] = call[q]
<1>1. [c EXCEPT !.pc = t] \in Call
  BY DEF Call
<1>2. [type |-> t, to |-> Peer[Site[p]], s |-> c.s, i |-> c.i, x |-> c.x, from |-> p] \in GoodRequest
  BY EngineAssumption DEF Call, Request, GoodRequest
<1>3. /\ call' \in [Proc -> Call]
      /\ call'[p] = [c EXCEPT !.pc = t] /\ \A q \in Proc \ {p} : call'[q] = call[q]
  BY <1>1 DEF Send, CallsType
<1>4. Pushes'
  BY <1>3 DEF Pushes, CallsType, Call
<1> QED
  BY <1>2, <1>3, <1>4 DEF Send, CallsType

\* A call ends, with an answer to the caller of a handler.
LEMMA FinishStep ==
  ASSUME CallsType, NEW p \in Proc, NEW c \in Call, NEW r \in Replies, Finish(p, c, r)
  PROVE  /\ call' \in [Proc -> Call] /\ reply' \in [Proc -> Replies] /\ Pushes'
         /\ call'[p] = Idle /\ \A q \in Proc \ {p} : call'[q] = call[q]
         /\ reply'[p] = "none"
         /\ \A q \in Proc \ {p} : reply'[q] = IF q = c.from THEN r ELSE reply[q]
BY IdleType DEF Finish, CallsType, Replies, Pushes

\* A request is answered within one step.
LEMMA AnswerStep ==
  ASSUME CallsType, NEW m \in net, NEW r \in Replies, Answer(m, r)
  PROVE  /\ net' = net \ {m} /\ call' = call /\ Pushes'
         /\ reply' \in [Proc -> Replies]
         /\ \A q \in Proc : reply'[q] = IF q = m.from THEN r ELSE reply[q]
BY DEF Answer, CallsType, Pushes

\* A Stream object enters the table.
LEMMA CreateStep ==
  ASSUME RestType, ObjType, NEW k \in Kme, NEW s \in Ksid, NEW o \in Stream,
         o.nextAlloc = 0, Create(k, s, o), made' = made
  PROVE  /\ ObjType'
         /\ cur' \in [Kme -> [Ksid -> 0 .. MaxObjects]]
         /\ lives' \in [Kme -> [Ksid -> Nat]]
         /\ got' \in [Kme -> [Ksid -> [Index -> Serial \cup {None}]]]
         /\ cur[k][s] = None
         /\ \E n \in Object :
              /\ Spare(k, s, n) /\ SetStream(k, s, n, o)
              /\ cur'[k][s] = n
              /\ \A j \in Kme, t \in Ksid : j # k \/ t # s => cur'[j][t] = cur[j][t]
         /\ \A j \in Kme, t \in Ksid :
              /\ lives'[j][t] = IF j = k /\ t = s THEN lives[k][s] + 1 ELSE lives[j][t]
              /\ got'[j][t] = IF j = k /\ t = s THEN [i \in Index |-> None] ELSE got[j][t]
<1>1. PICK n \in Object :
        /\ Spare(k, s, n) /\ SetStream(k, s, n, o)
        /\ cur' = [cur EXCEPT ![k][s] = n]
  BY DEF Create
<1>2. n \in 0 .. MaxObjects
  BY Numbers DEF Object
<1>3. /\ cur' \in [Kme -> [Ksid -> 0 .. MaxObjects]]
      /\ cur'[k][s] = n
      /\ \A j \in Kme, t \in Ksid : j # k \/ t # s => cur'[j][t] = cur[j][t]
  BY <1>1, <1>2 DEF RestType
<1>4. /\ lives' \in [Kme -> [Ksid -> Nat]]
      /\ \A j \in Kme, t \in Ksid :
           lives'[j][t] = IF j = k /\ t = s THEN lives[k][s] + 1 ELSE lives[j][t]
  BY DEF RestType, Create
<1> DEFINE unread == [i \in Index |-> None]
<1>5. unread \in [Index -> Serial \cup {None}]
  OBVIOUS
<1>6. got' = [got EXCEPT ![k][s] = unread]
  BY DEF Create
<1> HIDE DEF unread
<1>7. /\ got' \in [Kme -> [Ksid -> [Index -> Serial \cup {None}]]]
      /\ \A j \in Kme, t \in Ksid :
           got'[j][t] = IF j = k /\ t = s THEN unread ELSE got[j][t]
  BY <1>5, <1>6 DEF RestType
<1>8. ObjType'
  <2>1. 0 <= made
    BY Numbers DEF RestType
  <2> QED
    BY <1>1, <2>1, SetStreamStep DEF ObjType
<1> QED
  BY <1>1, <1>3, <1>4, <1>7, <1>8 DEF unread, Create
LEMMA WriteType ==
  ASSUME TypeInv, NEW k \in Kme, NEW s \in Ksid, NEW n \in Object, NEW o \in Stream,
         o.nextAlloc <= made, SetStream(k, s, n, o), made' = made
  PROVE  ObjType'
BY SetStreamStep, TypeParts DEF ObjType

\* None of the changes of a Stream but MakeChunk's touches nextAlloc.
LEMMA SameAlloc ==
  ASSUME NEW o \in Stream
  PROVE  /\ [o EXCEPT !.localClosed = TRUE].nextAlloc = o.nextAlloc
         /\ [o EXCEPT !.peerClosed = TRUE].nextAlloc = o.nextAlloc
         /\ [o EXCEPT !.state = "CLOSING"].nextAlloc = o.nextAlloc
         /\ Closed(o).nextAlloc = o.nextAlloc
         /\ \A i \in Index : Read(o, i).nextAlloc = o.nextAlloc
         /\ \A i \in Index : \A x : [o EXCEPT !.chunk[i] = x].nextAlloc = o.nextAlloc
         /\ [o EXCEPT !.localOpen = TRUE, !.state = "ESTABLISHED",
                      !.established = TRUE].nextAlloc = o.nextAlloc
         /\ [o EXCEPT !.peerOpen = TRUE, !.state = "ESTABLISHED",
                      !.established = TRUE].nextAlloc = o.nextAlloc
         /\ [o EXCEPT !.peerOpen = TRUE,
                      !.state = IF o.localOpen THEN "ESTABLISHED" ELSE @,
                      !.established = @ \/ o.localOpen].nextAlloc = o.nextAlloc
BY DEF Stream, Closed, Read

LEMMA MineAlloc ==
  ASSUME TypeInv, NEW p \in Proc
  PROVE  Mine(p).nextAlloc <= made
BY MineType DEF TypeInv, Mine

LEMMA TheAlloc ==
  ASSUME TypeInv, NEW k \in Kme, NEW s \in Ksid, Has(k, s)
  PROVE  The(k, s).nextAlloc <= made
BY TheType DEF TypeInv, The

LEMMA FaultType == ASSUME RestType, NEW f, Fault(f) PROVE faults' \in 0 .. MaxFaults
BY BoundAssumption DEF RestType, Fault

\* A call that only ends.
LEMMA GiveUpType ==
  ASSUME TypeInv, NEW p \in Proc, NEW c \in Call, NEW r \in Replies,
         NEW inbox \in SUBSET net, GiveUp(p, c, r, inbox)
  PROVE  TypeInv'
<1>1. CallsType'
  BY FinishStep, TypeParts DEF GiveUp, CallsType
<1>2. RestType' /\ ObjType'
  BY TypeParts DEF GiveUp, RestType, ObjType, streams, chunks, history
<1> QED
  BY <1>1, <1>2, TypePartsNext

LEMMA RestFrame ==
  ASSUME RestType, UNCHANGED <<cur, chunks, history, faults>>
  PROVE  RestType'
BY DEF RestType, chunks, history

LEMMA RemoveType ==
  ASSUME RestType, NEW k \in Kme, NEW s \in Ksid, Remove(k, s)
  PROVE  /\ cur' \in [Kme -> [Ksid -> 0 .. MaxObjects]]
         /\ \A j \in Kme, t \in Ksid :
              cur'[j][t] = IF j = k /\ t = s THEN None ELSE cur[j][t]
<1>1. None \in 0 .. MaxObjects
  BY Numbers DEF None
<1> QED
  BY <1>1 DEF RestType, Remove

LEMMA OpenType ==
  ASSUME TypeInv, NEW p \in Proc,
         \/ OpenRefused(p) \/ OpenAnnounced(p) \/ OpenJoined(p) \/ OpenTimeout(p)
         \/ OpenWithdrawn(p) \/ OpenConfirmed(p) \/ OpenNotConfirmed(p)
  PROVE  TypeInv'
<1> USE TypeParts, TypePartsNext
<1>1. /\ CallsType /\ RestType /\ ObjType
      /\ Site[p] \in Kme /\ call[p] \in Call /\ call[p].s \in Ksid /\ call[p].n \in Object
      /\ Mine(p) \in Stream
      /\ \A r \in {"none", "ok"} : r \in Replies
  BY MineType DEF TypeInv, Replies
<1>2. CallsType'
  <2>1. ASSUME Finish(p, call[p], "none"), net' = net PROVE CallsType'
    BY <1>1, <2>1, FinishStep DEF CallsType
  <2>2. ASSUME OpenAnnounced(p), call[p].predefined PROVE CallsType'
    <3>1. call' = [call EXCEPT ![p].pc = "wait"] /\ net' = net /\ Clear(p)
      BY <2>2 DEF OpenAnnounced
    <3>2. call' \in [Proc -> Call] /\ Pushes'
      BY <1>1, <3>1 DEF CallsType, Call, Pushes
    <3> QED
      BY <1>1, <3>1, <3>2 DEF CallsType, Clear, Replies
  <2>3. ASSUME OpenTimeout(p) PROVE CallsType'
    BY <1>1, <2>3, SendStep DEF OpenTimeout, CallsType, Awaits
  <2> QED
    BY <2>1, <2>2, <2>3 DEF OpenRefused, OpenAnnounced, OpenJoined, OpenTimeout,
       OpenWithdrawn, OpenConfirmed, OpenNotConfirmed
<1>3. ObjType'
  <2>1. CASE OpenConfirmed(p)
    BY <1>1, <2>1, JoinType, SameAlloc, MineAlloc, WriteType DEF OpenConfirmed, chunks
  <2> QED
    BY <1>1, <2>1 DEF OpenRefused, OpenAnnounced, OpenJoined, OpenTimeout,
       OpenWithdrawn, OpenNotConfirmed, ObjType, streams, chunks
<1>4. RestType'
  <2>1. CASE Remove(Site[p], call[p].s) /\ UNCHANGED <<chunks, history, faults>>
    BY <1>1, <2>1, Numbers DEF Remove, RestType, chunks, history, None
  <2>2. CASE UNCHANGED <<cur, chunks, history, faults>>
    BY <1>1, <2>2, RestFrame
  <2> QED
    BY <2>1, <2>2 DEF OpenRefused, OpenAnnounced, OpenJoined, OpenTimeout,
       OpenWithdrawn, OpenConfirmed, OpenNotConfirmed, streams
<1> QED
  BY <1>2, <1>3, <1>4

LEMMA BeginType ==
  ASSUME TypeInv, NEW p \in Proc, NEW s \in Ksid,
         (\E predefined \in BOOLEAN : OpenNew(p, s, predefined)) \/ OpenJoin(p, s)
         \/ Close(p, s)
  PROVE  TypeInv'
<1> USE TypeParts, TypePartsNext
<1> DEFINE k == Site[p]
<1>1. /\ CallsType /\ RestType /\ ObjType /\ k \in Kme
  BY MineType DEF TypeInv
<1>2. ASSUME NEW predefined \in BOOLEAN, OpenNew(p, s, predefined) PROVE TypeInv'
  <2> DEFINE o == [NewStream EXCEPT !.localOpen = TRUE]
             c == [Idle EXCEPT !.s = s, !.n = cur'[k][s], !.predefined = predefined]
  <2>1. Create(k, s, o) /\ Send(p, c, "announce", net) /\ UNCHANGED <<reply, chunks, stored, faults>>
    BY <1>2 DEF OpenNew
  <2>2. o \in Stream /\ o.nextAlloc = 0
    BY NewStreamType DEF NewStream
  <2> HIDE DEF o
  <2>3. /\ ObjType' /\ cur'[k][s] \in Object
        /\ cur' \in [Kme -> [Ksid -> 0 .. MaxObjects]]
        /\ lives' \in [Kme -> [Ksid -> Nat]]
        /\ got' \in [Kme -> [Ksid -> [Index -> Serial \cup {None}]]]
    BY <1>1, <2>1, <2>2, CreateStep DEF chunks
  <2>4. c \in Call
    BY <2>3, IdleType DEF Call
  <2> HIDE DEF c
  <2>5. CallsType'
    BY <1>1, <2>1, <2>4, SendStep DEF CallsType, Awaits
  <2>6. RestType'
    BY <1>1, <2>1, <2>3 DEF RestType, chunks
  <2> QED
    BY <2>3, <2>5, <2>6
<1>3. ASSUME Has(k, s) PROVE [Idle EXCEPT !.s = s, !.n = cur[k][s]] \in Call
  <2>1. cur[k][s] \in Object
    BY <1>1, <1>3, TheType DEF TypeInv
  <2> QED
    BY <2>1, IdleType DEF Call
<1>4. CASE OpenJoin(p, s)
  <2> DEFINE c == [Idle EXCEPT !.s = s, !.n = cur[k][s]]
  <2>1. /\ Has(k, s) /\ Send(p, c, "establish", net)
        /\ UNCHANGED <<streams, reply, chunks, history, faults>>
    BY <1>4 DEF OpenJoin
  <2>2. c \in Call
    BY <1>3, <2>1
  <2> HIDE DEF c
  <2>3. CallsType'
    BY <1>1, <2>1, <2>2, SendStep DEF CallsType, Awaits
  <2> QED
    BY <1>1, <2>1, <2>3, RestFrame DEF ObjType, streams, chunks
<1>5. CASE Close(p, s)
  <2> DEFINE c == [Idle EXCEPT !.s = s, !.n = cur[k][s]]
             o == [The(k, s) EXCEPT !.localClosed = TRUE]
  <2>1. /\ Has(k, s) /\ Send(p, c, "close", net)
        /\ SetStream(k, s, cur[k][s], o)
        /\ UNCHANGED <<cur, reply, chunks, history, faults>>
    BY <1>5 DEF Close, Open
  <2>2. c \in Call
    BY <1>3, <2>1
  <2>3. cur[k][s] \in Object /\ o \in Stream /\ o.nextAlloc <= made
    BY <1>1, <2>1, TheType, TheAlloc, StreamType, SameAlloc DEF TypeInv
  <2> HIDE DEF c, o
  <2>4. CallsType'
    BY <1>1, <2>1, <2>2, SendStep DEF CallsType, Awaits
  <2>5. ObjType'
    BY <1>1, <2>1, <2>3, WriteType DEF chunks
  <2> QED
    BY <1>1, <2>1, <2>4, <2>5, RestFrame
<1> QED
  BY <1>2, <1>4, <1>5
LEMMA DeliverType ==
  ASSUME TypeInv, NEW p \in Proc, NEW c \in Call, Deliver(p, c)
  PROVE  TypeInv'
<1> USE TypeParts, TypePartsNext
<1> DEFINE o == obj[Site[p]][c.s][c.n]
<1>1. /\ CallsType /\ RestType /\ ObjType /\ Site[p] \in Kme /\ "none" \in Replies
      /\ c.s \in Ksid /\ c.n \in Object /\ c.i \in Index
  BY MineType DEF TypeInv, Call, Replies
<1>2. o \in Stream /\ o.nextAlloc <= made /\ o.chunk[c.i] \in Serial \cup {None}
  BY <1>1 DEF ObjType, Objects, Stream
<1>3. /\ SetStream(Site[p], c.s, c.n, Read(o, c.i))
      /\ got' = [got EXCEPT ![Site[p]][c.s][c.i] = o.chunk[c.i]]
      /\ Finish(p, c, "none")
      /\ UNCHANGED <<cur, net, chunks, stored, lives, faults>>
  BY DEF Deliver
<1> HIDE DEF o
<1>4. ObjType'
  <2>1. Read(o, c.i) \in Stream /\ Read(o, c.i).nextAlloc <= made
    BY <1>1, <1>2, StreamType, SameAlloc
  <2> QED
    BY <1>1, <1>3, <2>1, WriteType DEF chunks
<1>5. CallsType'
  BY <1>1, <1>3, FinishStep DEF CallsType
<1>6. RestType'
  BY <1>1, <1>2, <1>3 DEF RestType, chunks
<1> QED
  BY <1>4, <1>5, <1>6

LEMMA MakeChunkType ==
  ASSUME TypeInv, NEW p \in Proc, NEW c \in Call, NEW inbox \in SUBSET net,
         MakeChunk(p, c, inbox)
  PROVE  TypeInv'
<1> USE TypeParts, TypePartsNext
<1> DEFINE o == obj[Allocator][c.s][c.n]
           x == made + 1
           q == [o EXCEPT !.chunk[c.i] = x, !.nextAlloc = @ + 1]
<1>1. /\ CallsType /\ RestType /\ ObjType /\ Allocator \in Kme
      /\ c.s \in Ksid /\ c.n \in Object /\ c.i \in Index
  BY EngineAssumption DEF TypeInv, Call
<1>2. o \in Stream /\ o.nextAlloc <= made
  BY <1>1 DEF ObjType, Objects
<1>3. x \in Serial /\ x \in 0 .. MaxChunks /\ made <= x /\ o.nextAlloc < x
  <2>1. made \in Nat /\ made < MaxChunks /\ o.nextAlloc \in Nat
    BY <1>1, <1>2, Numbers DEF MakeChunk, RestType, Stream
  <2> QED
    BY <1>2, <2>1, Numbers DEF Serial
<1>4. /\ made' = x /\ SetStream(Allocator, c.s, c.n, q)
      /\ stored' = [stored EXCEPT ![Allocator] = @ \cup {x}]
      /\ Send(p, [c EXCEPT !.x = x], "chunk", inbox)
      /\ UNCHANGED <<cur, reply, confirmed, got, lives, faults>>
  BY DEF MakeChunk
<1> HIDE DEF x
<1>5. q \in Stream /\ q.nextAlloc <= x
  BY <1>1, <1>2, <1>3, MakeType
<1> HIDE DEF q, o
<1>6. ObjType'
  <2>1. \A k \in Kme, s \in Ksid, n \in Object : obj[k][s][n].nextAlloc <= x
    <3>1. \A k \in Kme, s \in Ksid, n \in Object :
             obj[k][s][n].nextAlloc \in Nat /\ obj[k][s][n].nextAlloc <= made
      BY <1>1, Numbers DEF ObjType, Objects, Stream
    <3> QED
      BY <1>1, <1>3, <3>1, Numbers DEF RestType, Serial
  <2> QED
    BY <1>1, <1>4, <1>5, <2>1, SetStreamStep DEF ObjType
<1>7. CallsType'
  <2>1. [c EXCEPT !.x = x] \in Call /\ [c EXCEPT !.x = x].x # None
    BY <1>3, Numbers DEF Call
  <2> QED
    BY <1>1, <1>4, <2>1, SendStep DEF CallsType, Awaits
<1>8. RestType'
  BY <1>1, <1>3, <1>4 DEF RestType
<1> QED
  BY <1>6, <1>7, <1>8

LEMMA ObtainType ==
  ASSUME TypeInv, NEW p \in Proc, NEW c \in Call, NEW inbox \in SUBSET net,
         Obtain(p, c, inbox)
  PROVE  TypeInv'
<1> USE TypeParts, TypePartsNext
<1> DEFINE x == obj[Allocator][c.s][c.n].chunk[c.i]
<1>1. /\ CallsType /\ RestType /\ ObjType /\ "ok" \in Replies /\ "empty" \in Replies
      /\ x \in Serial \cup {None}
  BY EngineAssumption DEF TypeInv, Replies, Call, ObjType, Objects, Stream
<1>2. ASSUME x # None, Send(p, [c EXCEPT !.x = x], "chunk", inbox),
             UNCHANGED <<streams, reply, chunks, history, faults>>
      PROVE  TypeInv'
  <2>1. [c EXCEPT !.x = x] \in Call /\ [c EXCEPT !.x = x].x # None
    BY <1>1, <1>2 DEF Call
  <2> HIDE DEF x
  <2>2. CallsType'
    BY <1>1, <1>2, <2>1, SendStep DEF CallsType, Awaits
  <2> QED
    BY <1>1, <1>2, <2>2, RestFrame DEF ObjType, streams, chunks
<1>3. ASSUME call' = [call EXCEPT ![p] = [c EXCEPT !.pc = "take"]], net' = inbox,
             UNCHANGED <<streams, reply, chunks, history, faults>>
      PROVE  TypeInv'
  <2>1. CallsType'
    BY <1>1, <1>3 DEF CallsType, Call, Pushes
  <2> QED
    BY <1>1, <1>3, <2>1, RestFrame DEF ObjType, streams, chunks
<1>4. ASSUME Take(p, c, inbox) PROVE TypeInv'
  BY <1>1, <1>4, GiveUpType, MakeChunkType DEF Take
<1>5. ASSUME NEW r \in {"ok", "empty"}, GiveUp(p, c, r, inbox) PROVE TypeInv'
  BY <1>1, <1>5, GiveUpType
<1> QED
  BY <1>2, <1>3, <1>4, <1>5 DEF Obtain

LEMMA GetKeyType ==
  ASSUME TypeInv, NEW p \in Proc, NEW s \in Ksid, NEW i \in Index, GetKey(p, s, i)
  PROVE  TypeInv'
<1> USE TypeParts, TypePartsNext
<1> DEFINE k == Site[p]
           c == [Idle EXCEPT !.s = s, !.n = cur[k][s], !.i = i]
<1>1. /\ CallsType /\ RestType /\ ObjType /\ k \in Kme /\ "none" \in Replies
  BY MineType DEF TypeInv, Replies
<1>2. c \in Call
  <2>1. cur[k][s] \in Object
    BY <1>1, TheType DEF TypeInv, GetKey
  <2> QED
    BY <2>1, IdleType DEF Call
<1>3. \/ Deliver(p, c) \/ GiveUp(p, c, "none", net)
      \/ Obtain(p, c, net)
      \/ /\ Send(p, c, "allocate", net)
         /\ UNCHANGED <<streams, reply, chunks, history, faults>>
  BY DEF GetKey, DeliverIfItFits
<1> HIDE DEF c
<1>4. CASE Send(p, c, "allocate", net) /\ UNCHANGED <<streams, reply, chunks, history, faults>>
  <2>1. CallsType'
    BY <1>1, <1>2, <1>4, SendStep DEF CallsType, Awaits
  <2> QED
    BY <1>1, <1>4, <2>1, RestFrame DEF ObjType, streams, chunks
<1> QED
  BY <1>1, <1>2, <1>3, <1>4, DeliverType, GiveUpType, ObtainType

LEMMA ContinueType ==
  ASSUME TypeInv, NEW p \in Proc, Continue(p)
  PROVE  TypeInv'
<1> USE TypeParts, TypePartsNext
<1> DEFINE c == call[p]
           o == Mine(p)
<1>1. /\ CallsType /\ RestType /\ ObjType /\ Replies = {"none", "ok", "empty", "lost", "conflict", "failed"}
      /\ Site[p] \in Kme /\ c \in Call /\ c.s \in Ksid /\ c.n \in Object /\ c.i \in Index
      /\ o \in Stream /\ o.nextAlloc <= made /\ o = obj[Site[p]][c.s][c.n]
  BY MineType, MineAlloc DEF TypeInv, Replies, Mine
<1>2. \A q \in Stream, r \in Replies :
        /\ SetStream(Site[p], c.s, c.n, q) /\ q.nextAlloc = o.nextAlloc
        /\ Finish(p, c, r) /\ UNCHANGED <<cur, net, chunks, history, faults>>
        => TypeInv'
  <2> SUFFICES ASSUME NEW q \in Stream, NEW r \in Replies,
                      SetStream(Site[p], c.s, c.n, q), q.nextAlloc = o.nextAlloc,
                      Finish(p, c, r), UNCHANGED <<cur, net, chunks, history, faults>>
               PROVE  TypeInv'
    OBVIOUS
  <2>1. CallsType'
    BY <1>1, FinishStep DEF CallsType
  <2>2. ObjType'
    BY <1>1, WriteType DEF chunks
  <2> QED
    BY <1>1, <2>1, <2>2, RestFrame
<1>3. CASE TakeLater(p)
  BY <1>1, <1>3, GiveUpType, MakeChunkType DEF TakeLater, Take
<1>4. CASE ChunkStored(p)
  <2>1. Finish(p, c, "ok") /\ UNCHANGED <<cur, net, made, stored, lives, faults>>
    BY <1>4 DEF ChunkStored
  <2>2. CallsType'
    BY <1>1, <2>1, FinishStep DEF CallsType
  <2>3. confirmed' \subseteq Serial
    BY <1>1, <1>4 DEF ChunkStored, Hears, RestType, CallsType, Pushes, Call
  <2>4. CASE UNCHANGED <<obj, got>>
    BY <1>1, <2>1, <2>2, <2>3, <2>4 DEF RestType, ObjType
  <2>5. CASE /\ o.chunk[c.i] # None
             /\ SetStream(Site[p], c.s, c.n, Read(o, c.i))
             /\ got' = [got EXCEPT ![Site[p]][c.s][c.i] = o.chunk[c.i]]
    <3>1. o.chunk[c.i] \in Serial \cup {None}
      BY <1>1 DEF Stream
    <3>2. RestType'
      BY <1>1, <2>1, <2>3, <2>5, <3>1 DEF RestType
    <3>3. Read(o, c.i) \in Stream /\ Read(o, c.i).nextAlloc <= made
      BY <1>1, StreamType, SameAlloc
    <3> HIDE DEF o
    <3>4. ObjType'
      BY <1>1, <2>1, <2>5, <3>3, WriteType
    <3> QED
      BY <2>2, <3>2, <3>4
  <2> QED
    BY <1>4, <2>4, <2>5 DEF ChunkStored
<1>5. CASE ChunkRefused(p) \/ NotAllocated(p)
  BY <1>1, <1>5, GiveUpType DEF ChunkRefused, NotAllocated
<1>6. CASE PeerLostStream(p)
  <2>1. Closed(o) \in Stream /\ Closed(o).nextAlloc = o.nextAlloc
    BY <1>1, StreamType, SameAlloc
  <2> QED
    BY <1>1, <1>2, <1>6, <2>1 DEF PeerLostStream
<1>7. CASE Allocated(p)
  BY <1>1, <1>7, GiveUpType, DeliverType DEF Allocated, ReadObtained, DeliverIfItFits
<1>8. CASE CloseDone(p)
  <2>1. \A q \in {Closed(o), [o EXCEPT !.state = "CLOSING"]} :
          q \in Stream /\ q.nextAlloc = o.nextAlloc
    BY <1>1, StreamType, SameAlloc
  <2> QED
    BY <1>1, <1>2, <1>8, <2>1 DEF CloseDone
<1> QED
  BY <1>3, <1>4, <1>5, <1>6, <1>7, <1>8, OpenType DEF Continue
LEMMA RefuseType ==
  ASSUME TypeInv, NEW m \in net, NEW r \in Replies, Refuse(m, r)
  PROVE  TypeInv'
<1> USE TypeParts, TypePartsNext
<1>1. CallsType /\ RestType /\ ObjType
  BY DEF TypeInv
<1>2. CallsType'
  BY <1>1, AnswerStep DEF Refuse, CallsType
<1> QED
  BY <1>1, <1>2, RestFrame DEF Refuse, ObjType, streams, chunks

\* A handler that writes its Stream object.
LEMMA ServeType ==
  ASSUME TypeInv, NEW m \in net, NEW k \in Kme, Has(k, m.s), NEW o \in Stream,
         o.nextAlloc <= made, SetStream(k, m.s, cur[k][m.s], o), Answer(m, "ok"),
         UNCHANGED <<cur, chunks, got, lives, faults>>,
         stored' \in [Kme -> SUBSET Serial]
  PROVE  TypeInv'
<1> USE TypeParts, TypePartsNext
<1>1. /\ CallsType /\ RestType /\ ObjType /\ "ok" \in Replies
      /\ m.s \in Ksid
  BY DEF TypeInv, Replies, CallsType, GoodRequest, Request
<1>2. cur[k][m.s] \in Object
  BY <1>1, TheType DEF TypeInv
<1>3. CallsType'
  BY <1>1, AnswerStep DEF CallsType
<1>4. ObjType'
  BY <1>1, <1>2, WriteType DEF chunks
<1>5. RestType'
  BY <1>1 DEF RestType, chunks
<1> QED
  BY <1>3, <1>4, <1>5

LEMMA HandlerType ==
  ASSUME TypeInv, NEW m \in net, Serve(m)
  PROVE  TypeInv'
<1> USE TypeParts, TypePartsNext
<1> DEFINE k == m.to
           s == m.s
           o == The(k, s)
<1>1. /\ CallsType /\ RestType /\ ObjType
      /\ Replies = {"none", "ok", "empty", "lost", "conflict", "failed"}
      /\ k \in Kme /\ s \in Ksid /\ m.i \in Index
      /\ m.type = "chunk" => m.x \in Serial
      /\ Has(k, s) => o \in Stream /\ o.nextAlloc <= made
      /\ stored \in [Kme -> SUBSET Serial]
  BY TheType, TheAlloc DEF TypeInv, Replies, CallsType, GoodRequest, Request, RestType
<1>2. ASSUME NEW r \in Replies, Refuse(m, r) PROVE TypeInv'
  BY <1>2, RefuseType
<1>3. CASE OnAnnounce(m)
  <2> DEFINE joined == [o EXCEPT !.peerOpen = TRUE,
                                 !.state = IF o.localOpen THEN "ESTABLISHED" ELSE @,
                                 !.established = @ \/ o.localOpen]
  <2>1. CASE Refuse(m, "conflict")
    BY <1>1, <1>2, <2>1
  <2>2. CASE /\ Has(k, s) /\ SetStream(k, s, cur[k][s], joined) /\ Answer(m, "ok")
             /\ UNCHANGED <<cur, chunks, history, faults>>
    <3>1. joined \in Stream /\ joined.nextAlloc <= made
      BY <1>1, <2>2, JoinType, SameAlloc
    <3>2. UNCHANGED <<cur, chunks, got, lives, faults>> /\ stored' \in [Kme -> SUBSET Serial]
      BY <1>1, <2>2 DEF history
    <3> HIDE DEF joined
    <3> QED
      BY <1>1, <2>2, <3>1, <3>2, ServeType
  <2>3. CASE /\ Create(k, s, [NewStream EXCEPT !.peerOpen = TRUE])
             /\ Answer(m, "ok") /\ UNCHANGED <<chunks, stored, faults>>
    <3> DEFINE new == [NewStream EXCEPT !.peerOpen = TRUE]
    <3>1. new \in Stream /\ new.nextAlloc = 0
      BY NewStreamType DEF NewStream
    <3> HIDE DEF new
    <3>2. /\ ObjType'
          /\ cur' \in [Kme -> [Ksid -> 0 .. MaxObjects]]
          /\ lives' \in [Kme -> [Ksid -> Nat]]
          /\ got' \in [Kme -> [Ksid -> [Index -> Serial \cup {None}]]]
      BY <1>1, <2>3, <3>1, CreateStep DEF new, chunks
    <3>3. RestType'
      BY <1>1, <2>3, <3>2 DEF RestType, chunks
    <3>4. CallsType'
      BY <1>1, <2>3, AnswerStep DEF CallsType
    <3> QED
      BY <3>2, <3>3, <3>4
  <2> QED
    BY <1>3, <2>1, <2>2, <2>3 DEF OnAnnounce
<1>4. CASE OnEstablish(m)
  <2> DEFINE joined == [o EXCEPT !.peerOpen = TRUE, !.state = "ESTABLISHED",
                                 !.established = TRUE]
  <2>1. CASE Refuse(m, "lost")
    BY <1>1, <1>2, <2>1
  <2>2. CASE /\ Open(k, s) /\ SetStream(k, s, cur[k][s], joined) /\ Answer(m, "ok")
             /\ UNCHANGED <<cur, chunks, history, faults>>
    <3>1. Has(k, s) /\ joined \in Stream /\ joined.nextAlloc <= made
      BY <1>1, <2>2, JoinType, SameAlloc DEF Open
    <3>2. UNCHANGED <<cur, chunks, got, lives, faults>> /\ stored' \in [Kme -> SUBSET Serial]
      BY <1>1, <2>2 DEF history
    <3> HIDE DEF joined
    <3> QED
      BY <1>1, <2>2, <3>1, <3>2, ServeType
  <2> QED
    BY <1>4, <2>1, <2>2 DEF OnEstablish
<1>5. CASE OnWithdraw(m)
  <2>1. cur' \in [Kme -> [Ksid -> 0 .. MaxObjects]]
    <3>1. cur' = cur \/ Remove(k, s)
      BY <1>5 DEF OnWithdraw
    <3>2. cur' = cur => cur' \in [Kme -> [Ksid -> 0 .. MaxObjects]]
      BY <1>1 DEF RestType
    <3> QED
      BY <1>1, <3>1, <3>2, RemoveType
  <2>2. RestType' /\ ObjType'
    BY <1>1, <1>5, <2>1 DEF OnWithdraw, RestType, ObjType, chunks, history
  <2>3. CallsType'
    BY <1>1, <1>5, AnswerStep DEF OnWithdraw, CallsType
  <2> QED
    BY <2>2, <2>3
<1>6. CASE OnChunk(m)
  <2> DEFINE q == [o EXCEPT !.chunk[m.i] = m.x]
  <2>1. CASE Refuse(m, "lost") \/ Refuse(m, "ok") \/ Refuse(m, "conflict")
    BY <1>1, <1>2, <2>1
  <2>2. CASE /\ Open(k, s) /\ SetStream(k, s, cur[k][s], q) /\ Answer(m, "ok")
             /\ stored' = [stored EXCEPT ![k] = @ \cup {m.x}]
             /\ UNCHANGED <<cur, chunks, got, lives, faults>>
    <3>1. m.x \in Serial
      BY <1>1, <1>6 DEF OnChunk
    <3>2. Has(k, s) /\ q \in Stream /\ q.nextAlloc <= made
      BY <1>1, <2>2, <3>1, FillType, SameAlloc DEF Open
    <3>3. stored' \in [Kme -> SUBSET Serial]
      BY <1>1, <2>2, <3>1
    <3> HIDE DEF q
    <3> QED
      BY <1>1, <2>2, <3>2, <3>3, ServeType
  <2> QED
    BY <1>6, <2>1, <2>2 DEF OnChunk, StoreChunk
<1>7. CASE OnClose(m)
  <2> DEFINE closing == [o EXCEPT !.peerClosed = TRUE]
             q == IF closing.localClosed \/ ~closing.localOpen THEN Closed(closing) ELSE closing
  <2>1. CASE Refuse(m, "lost")
    BY <1>1, <1>2, <2>1
  <2>2. CASE /\ Has(k, s) /\ SetStream(k, s, cur[k][s], q) /\ Answer(m, "ok")
             /\ UNCHANGED <<cur, chunks, history, faults>>
    <3>1. closing \in Stream /\ closing.nextAlloc <= made
      BY <1>1, <2>2, StreamType, SameAlloc
    <3>2. q \in Stream /\ q.nextAlloc <= made
      BY <3>1, StreamType, SameAlloc
    <3>3. UNCHANGED <<cur, chunks, got, lives, faults>> /\ stored' \in [Kme -> SUBSET Serial]
      BY <1>1, <2>2 DEF history
    <3> HIDE DEF q
    <3> QED
      BY <1>1, <2>2, <3>2, <3>3, ServeType
  <2> QED
    BY <1>7, <2>1, <2>2 DEF OnClose
<1>8. ASSUME NEW h \in Handler, OnAllocate(h, m) PROVE TypeInv'
  <2> DEFINE c == [Idle EXCEPT !.s = s, !.n = cur[Allocator][s], !.i = m.i, !.from = m.from]
  <2>1. CASE Refuse(m, "lost") \/ Refuse(m, "empty")
    BY <1>1, <1>2, <2>1
  <2>2. CASE Open(Allocator, s) /\ Obtain(h, c, net \ {m})
    <3>1. cur[Allocator][s] \in Object /\ m.from \in Proc \cup {Nobody}
      BY <1>1, <2>2, EngineAssumption, TheType DEF TypeInv, Open, CallsType, GoodRequest, Request
    <3>2. c \in Call
      BY <1>1, <3>1, IdleType DEF Call
    <3> HIDE DEF c
    <3>3. h \in Proc /\ net \ {m} \in SUBSET net
      BY DEF Proc
    <3> QED
      BY <2>2, <3>2, <3>3, ObtainType
  <2> QED
    BY <1>8, <2>1, <2>2 DEF OnAllocate
<1> QED
  BY <1>3, <1>4, <1>5, <1>6, <1>7, <1>8 DEF Serve
LEMMA SweepType ==
  ASSUME TypeInv, Sweep
  PROVE  TypeInv'
<1> USE TypeParts, TypePartsNext
<1>1. CallsType /\ RestType /\ ObjType
  BY DEF TypeInv
<1>2. CallsType' /\ faults' \in 0 .. MaxFaults
  BY <1>1, FaultType DEF Sweep, SweepStream, SweepRecord, SweepChunk, CallsType, calls, Pushes
<1>3. PICK k \in Kme, s \in Ksid :
        SweepStream(k, s) \/ SweepRecord(k, s) \/ \E i \in Index : SweepChunk(k, s, i)
  BY DEF Sweep
<1>4. cur[k][s] \in Object /\ The(k, s) \in Stream /\ The(k, s).nextAlloc <= made
  BY <1>3, TheType, TheAlloc DEF TypeInv, SweepStream, SweepRecord, SweepChunk, Open
<1>5. ASSUME NEW q \in Stream, q.nextAlloc <= made, SetStream(k, s, cur[k][s], q),
             UNCHANGED <<cur, chunks, history>>
      PROVE  TypeInv'
  BY <1>1, <1>2, <1>4, <1>5, WriteType DEF RestType, chunks, history
<1>6. CASE SweepStream(k, s)
  BY <1>4, <1>5, <1>6, StreamType, SameAlloc DEF SweepStream
<1>7. ASSUME NEW i \in Index, SweepChunk(k, s, i) PROVE TypeInv'
  <2> DEFINE q == [The(k, s) EXCEPT !.chunk[i] = None]
  <2>1. SetStream(k, s, cur[k][s], q) /\ UNCHANGED <<cur, chunks, history>>
    BY <1>7 DEF SweepChunk
  <2>2. q \in Stream /\ q.nextAlloc <= made
    <3> DEFINE o == The(k, s)
    <3>1. o \in Stream /\ o.nextAlloc <= made
      BY <1>4
    <3> HIDE DEF o
    <3>2. [o EXCEPT !.chunk[i] = None] \in Stream
      BY <3>1, StreamType
    <3>3. [o EXCEPT !.chunk[i] = None].nextAlloc = o.nextAlloc
      BY <3>1, SameAlloc
    <3> QED
      BY <3>1, <3>2, <3>3 DEF o
  <2> HIDE DEF q
  <2> QED
    BY <1>5, <2>1, <2>2
<1>8. CASE SweepRecord(k, s)
  <2>1. cur' \in [Kme -> [Ksid -> 0 .. MaxObjects]]
    BY <1>1, <1>8, RemoveType DEF SweepRecord
  <2> QED
    BY <1>1, <1>2, <1>8, <2>1 DEF SweepRecord, RestType, ObjType, chunks, history
<1> QED
  BY <1>3, <1>6, <1>7, <1>8

LEMMA OrphanType ==
  ASSUME CallsType, NEW P, Orphan(P)
  PROVE  net' \subseteq GoodRequest
<1>1. PICK L \in SUBSET {m \in net : m.from \in P} :
        net' = {m \in net : m.from \notin P} \cup {[m EXCEPT !.from = Nobody] : m \in L}
  BY DEF Orphan
<1>2. \A m \in GoodRequest : [m EXCEPT !.from = Nobody] \in GoodRequest
  BY DEF GoodRequest, Request
<1> QED
  BY <1>1, <1>2 DEF CallsType

LEMMA FailType ==
  ASSUME TypeInv, (\E p \in Proc : PeerFails(p)) \/ \E k \in Kme : Restart(k)
  PROVE  TypeInv'
<1> USE TypeParts, TypePartsNext
<1>1. CallsType /\ RestType /\ ObjType /\ {"none", "failed"} \subseteq Replies
  BY DEF TypeInv, Replies
<1>2. \A c \in Call : [c EXCEPT !.from = Nobody] \in Call /\ [c EXCEPT !.from = Nobody].pc = c.pc
                      /\ [c EXCEPT !.from = Nobody].x = c.x
  BY DEF Call
<1>3. ASSUME NEW p \in Proc, PeerFails(p) PROVE TypeInv'
  <2>1. call' \in [Proc -> Call] /\ Pushes'
    BY <1>1, <1>2, <1>3 DEF PeerFails, CallsType, Pushes
  <2>2. reply' \in [Proc -> Replies]
    BY <1>1, <1>3 DEF PeerFails, CallsType
  <2>3. net' \subseteq GoodRequest /\ faults' \in 0 .. MaxFaults
    BY <1>1, <1>3, OrphanType, FaultType DEF PeerFails
  <2> QED
    BY <1>1, <1>3, <2>1, <2>2, <2>3
       DEF PeerFails, CallsType, RestType, ObjType, streams, chunks, history
<1>4. ASSUME NEW k \in Kme, Restart(k) PROVE TypeInv'
  <2> DEFINE P == {p \in Proc : Site[p] = k}
             callers == {call[p].from : p \in {q \in P : ~Free(q)}}
  <2>1. /\ cur' = [cur EXCEPT ![k] = [s \in Ksid |-> None]]
        /\ call' = [p \in Proc |-> IF p \in P THEN Idle ELSE
                      IF call[p].from \in P THEN [call[p] EXCEPT !.from = Nobody] ELSE call[p]]
        /\ reply' = [p \in Proc |-> IF p \in P THEN "none" ELSE
                       IF p \in callers THEN "failed" ELSE reply[p]]
        /\ Fault("restart") /\ Orphan(P) /\ UNCHANGED <<obj, chunks, history>>
    BY <1>4 DEF Restart
  <2> HIDE DEF P, callers
  <2>2. call' \in [Proc -> Call] /\ Pushes'
    BY <1>1, <1>2, <2>1, IdleType DEF CallsType, Pushes
  <2>3. reply' \in [Proc -> Replies]
    BY <1>1, <2>1 DEF CallsType
  <2>4. net' \subseteq GoodRequest /\ faults' \in 0 .. MaxFaults
    BY <1>1, <2>1, OrphanType, FaultType
  <2>5. cur' \in [Kme -> [Ksid -> 0 .. MaxObjects]]
    <3>1. [s \in Ksid |-> None] \in [Ksid -> 0 .. MaxObjects]
      BY Numbers DEF None
    <3> QED
      BY <1>1, <2>1, <3>1 DEF RestType
  <2> QED
    BY <1>1, <2>1, <2>2, <2>3, <2>4, <2>5
       DEF CallsType, RestType, ObjType, chunks, history
<1> QED
  BY <1>3, <1>4

LEMMA TypeInit == Init => TypeInv
<1> SUFFICES ASSUME Init PROVE TypeInv
  OBVIOUS
<1> USE TypeParts
<1>1. CallsType
  BY IdleType DEF Init, CallsType, Replies, Pushes
<1>2. RestType
  <2>1. None \in 0 .. MaxObjects /\ 0 \in 0 .. MaxChunks /\ 0 \in 0 .. MaxFaults
    BY Numbers, BoundAssumption DEF None
  <2> QED
    BY <2>1 DEF Init, RestType
<1>3. ObjType
  <2>1. NewStream.nextAlloc = 0 /\ made = 0
    BY DEF NewStream, Init
  <2>2. obj \in Objects /\ \A k \in Kme, s \in Ksid, n \in Object : obj[k][s][n] = NewStream
    BY NewStreamType DEF Init, Objects
  <2> QED
    BY <2>1, <2>2 DEF ObjType
<1> QED
  BY <1>1, <1>2, <1>3

LEMMA TypeStep == TypeInv /\ [Next]_vars => TypeInv'
<1> SUFFICES ASSUME TypeInv, [Next]_vars PROVE TypeInv'
  OBVIOUS
<1>1. ASSUME NEW p \in App, Begin(p) PROVE TypeInv'
  BY <1>1, BeginType, GetKeyType DEF Begin, Proc
<1>2. CASE UNCHANGED vars
  <2> QED
    BY <1>2, TypeParts, TypePartsNext
       DEF vars, streams, calls, chunks, history, CallsType, RestType, ObjType, Pushes
<1> QED
  BY <1>1, <1>2, ContinueType, HandlerType, SweepType, FailType DEF Next

\* Every reachable state is well typed: in particular a push always carries a
\* chunk, and no counter of a stream outruns the chunks that were made.
THEOREM StreamTypes == Spec => []TypeOK
<1>1. TypeInv => TypeOK
  BY DEF TypeInv
<1> QED
  BY TypeInit, TypeStep, <1>1, PTL DEF Spec
=============================================================================
