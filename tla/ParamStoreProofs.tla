-------------------------- MODULE ParamStoreProofs --------------------------
(***************************************************************************)
(* Proofs about ParamStore, for every set of backends and every bound on   *)
(* writes, changes, switches and rounds: the calls in progress on the two  *)
(* threads, and what a change that overlaps nothing else does.             *)
(***************************************************************************)
EXTENDS ParamStore, SequenceTheorems, FiniteSetTheorems, TLAPS

-----------------------------------------------------------------------------
(* The invariants.                                                         *)

\* A call of a stack: only the innermost goes on, the others wait for the
\* parameter they asked for; what params() pushed is a reload that holds the
\* lock; a call that reads has a parameter left, one that uses has them all.
Shape(c) ==
  /\ c.at = "get" => Len(c.got) < 3
  /\ c.at \in {"use", "subscribe"} => Len(c.got) = 3
  /\ c.at = "stat" => c.use = "notify"
  /\ c.at = "subscribe" => c.use = "boot"

\* What a call relies on: the object it will update, a pool not yet subscribed,
\* or room for one more backend.
Footing(c) ==
  /\ c.use = "notify" /\ c.at # "stat" => c.obj \in DOMAIN objects
  /\ c.use = "boot" => ~subscribed
  /\ c.use \in Backend => subscribed /\ Len(objects) <= MaxSwitches

Frame(t, i) ==
  /\ i < Len(stack[t]) => stack[t][i].at = "get"
  /\ i > 1 \/ t = "watchdog" => stack[t][i].use = "notify"
  /\ Shape(stack[t][i]) /\ Footing(stack[t][i])

Frames == \A t \in Thread : \A i \in 1 .. Len(stack[t]) : Frame(t, i)

\* The pool exists when it subscribes, and until then the loop is in its
\* constructor.
Booting ==
  /\ subscribed => current \in DOMAIN objects
  /\ ~subscribed =>
       /\ stack["loop"] # <<>> /\ stack["loop"][1].use = "boot"
       /\ pending = {} /\ round = NoRound
       /\ IF stack["loop"][1].at = "subscribe"
            THEN Len(objects) = 1 /\ current = 1
            ELSE objects = <<>> /\ current = 0

Rounds ==
  /\ round # NoRound => round.obj \in DOMAIN objects
  /\ round.done => round # NoRound /\ round.rate # None

TypeInv == TypeOK /\ Frames /\ Booting /\ Rounds

\* The value of the j-th parameter in force.
InForce(j) == WithDefault(FieldOrder[j], Effective[FieldOrder[j]])

UpToDate(i) == objects[i].cfg = [j \in DOMAIN FieldOrder |-> InForce(j)]

InUse == Complete => UpToDate(current)

\* The only call under way has read the parameters in force and will write
\* them to the backend in use, or to a new one.
LoneCall(t) ==
  /\ Len(stack[t]) = 1 /\ pending = {}
  /\ \A u \in Thread \ {t} : stack[u] = <<>>
  /\ \A j \in 1 .. Len(stack[t][1].got) : stack[t][1].got[j] = InForce(j)
  /\ stack[t][1].at = "raise" => ~Complete
  /\ stack[t][1].use = "notify" /\ stack[t][1].at # "stat" => stack[t][1].obj = current
  /\ stack[t][1].at = "subscribe" => UpToDate(current)
  /\ stack[t][1].use \in Backend => InUse

LoneCandidate ==
  /\ \A t \in Thread : stack[t] = <<>>
  /\ \E i \in pending : pending = {i} /\ UpToDate(i)
  /\ InUse

Applied ==
  ~disturbed => (Quiet /\ InUse) \/ LoneCandidate \/ \E t \in Thread : LoneCall(t)

\* A round no change overlapped: no listener is under way, and its backend has
\* the parameters in force.
SteadyRound ==
  steady => /\ \A t \in Thread : \A i \in 1 .. Len(stack[t]) : stack[t][i].use # "notify"
            /\ round # NoRound /\ Complete =>
                 /\ Rate(round.obj) = Effective["link"]
                 /\ round.rate \in {None, Effective["link"]}

Recorded == stats.steady => stats.gen \in 1 .. gen

RoundInv == SteadyRound /\ Recorded /\ FlagOfSteadyRound
-----------------------------------------------------------------------------
(* Stacks.                                                                 *)

LEMMA FieldsOfOrder ==
  /\ Len(FieldOrder) = 3 /\ DOMAIN FieldOrder = 1 .. 3
  /\ \A j \in 1 .. 3 : FieldOrder[j] \in Field
  /\ FieldOrder[1] = "link" /\ FieldOrder[2] = "block" /\ FieldOrder[3] = "eve"
BY DEF FieldOrder, Field

LEMMA ThreadsAreTwo == "loop" \in Thread /\ "watchdog" \in Thread
BY DEF Thread

\* What lies below the innermost call.
LEMMA BelowOf ==
  ASSUME NEW S, NEW s \in Seq(S), s # <<>>
  PROVE  /\ Len(s) \in Nat /\ Len(s) > 0 /\ s[Len(s)] \in S
         /\ SubSeq(s, 1, Len(s) - 1) \in Seq(S)
         /\ Len(SubSeq(s, 1, Len(s) - 1)) = Len(s) - 1
         /\ \A i \in 1 .. Len(s) - 1 : SubSeq(s, 1, Len(s) - 1)[i] = s[i]
<1>1. Len(s) \in Nat /\ Len(s) > 0 /\ \A i \in 1 .. Len(s) : s[i] \in S
  OBVIOUS
<1> DEFINE n == Len(s) - 1
<1>2. 1 \in Int /\ n \in Int /\ n >= 0 /\ \A i \in 1 .. n : s[i] \in S
  BY <1>1
<1> HIDE DEF n
<1>3. /\ SubSeq(s, 1, n) \in Seq(S)
      /\ Len(SubSeq(s, 1, n)) = IF 1 <= n THEN n - 1 + 1 ELSE 0
      /\ \A i \in 1 .. n - 1 + 1 : SubSeq(s, 1, n)[i] = s[1 + i - 1]
  BY <1>2, SubSeqProperties
<1>4. Len(SubSeq(s, 1, n)) = n
  <2> DEFINE l == Len(SubSeq(s, 1, n))
  <2>1. l = IF 1 <= n THEN n - 1 + 1 ELSE 0
    BY <1>3
  <2> HIDE DEF l
  <2>2. l = n
    BY <1>2, <2>1
  <2> QED
    BY <2>2 DEF l
<1>5. ASSUME NEW i \in 1 .. n PROVE SubSeq(s, 1, n)[i] = s[i]
  <2>1. i \in 1 .. n - 1 + 1 /\ 1 + i - 1 = i
    BY <1>2
  <2>2. SubSeq(s, 1, n)[i] = s[1 + i - 1]
    BY <1>3, <2>1
  <2> QED
    BY <2>1, <2>2
<1>6. s[Len(s)] \in S
  BY <1>1
<1> QED
  BY <1>1, <1>3, <1>4, <1>5, <1>6 DEF n

LEMMA AppendOf ==
  ASSUME NEW S, NEW s \in Seq(S), NEW e \in S
  PROVE  /\ Append(s, e) \in Seq(S) /\ Len(Append(s, e)) = Len(s) + 1
         /\ \A i \in 1 .. Len(s) : Append(s, e)[i] = s[i]
         /\ Append(s, e)[Len(s) + 1] = e
OBVIOUS

LEMMA ElementOf ==
  ASSUME NEW S, NEW s \in Seq(S), NEW i \in 1 .. Len(s) PROVE s[i] \in S
OBVIOUS

LEMMA EmptyIsZero ==
  ASSUME NEW S, NEW s \in Seq(S)
  PROVE  Len(s) \in Nat /\ (s = <<>> <=> Len(s) = 0)
OBVIOUS

\* The stack of one thread changed, the other's did not.
Others(t) == \A u \in Thread \ {t} : stack'[u] = stack[u]

\* A call was put on top ...
Pushed(t, c) ==
  /\ stack' \in [Thread -> Seq(Call)] /\ Others(t)
  /\ Len(stack'[t]) = Len(stack[t]) + 1 /\ stack'[t][Len(stack[t]) + 1] = c
  /\ \A i \in 1 .. Len(stack[t]) : stack'[t][i] = stack[t][i]

\* ... or in place of the innermost ...
Replaced(t, c) ==
  /\ stack' \in [Thread -> Seq(Call)] /\ Others(t)
  /\ Len(stack'[t]) = Len(stack[t]) /\ stack'[t][Len(stack[t])] = c
  /\ \A i \in 1 .. Len(stack[t]) - 1 : stack'[t][i] = stack[t][i]

\* ... or the innermost returned to the one below it.
Popped(t, eff) ==
  /\ stack' \in [Thread -> Seq(Call)] /\ Others(t)
  /\ Len(stack'[t]) = Len(stack[t]) - 1
  /\ Len(stack[t]) > 1 =>
       stack'[t][Len(stack[t]) - 1] = Take(stack[t][Len(stack[t]) - 1], eff)
  /\ \A i \in 1 .. Len(stack[t]) - 2 : stack'[t][i] = stack[t][i]

LEMMA PushPushes ==
  ASSUME TypeOK, NEW t \in Thread, NEW c \in Call, Push(t, c) PROVE Pushed(t, c)
<1>1. stack \in [Thread -> Seq(Call)]
  BY DEF TypeOK
<1>2. stack' = [stack EXCEPT ![t] = Append(stack[t], c)]
  BY DEF Push
<1>3. stack'[t] = Append(stack[t], c) /\ Others(t)
  BY <1>1, <1>2 DEF Others
<1>4. stack[t] \in Seq(Call)
  BY <1>1
<1>5. /\ Append(stack[t], c) \in Seq(Call) /\ Len(Append(stack[t], c)) = Len(stack[t]) + 1
      /\ \A i \in 1 .. Len(stack[t]) : Append(stack[t], c)[i] = stack[t][i]
      /\ Append(stack[t], c)[Len(stack[t]) + 1] = c
  BY <1>4, AppendOf
<1>6. stack' \in [Thread -> Seq(Call)]
  BY <1>1, <1>2, <1>5
<1> QED
  BY <1>3, <1>5, <1>6 DEF Pushed

LEMMA ReplaceReplaces ==
  ASSUME TypeOK, NEW t \in Thread, NEW c \in Call, stack[t] # <<>>, Replace(t, c)
  PROVE  Replaced(t, c)
<1>1. stack \in [Thread -> Seq(Call)] /\ stack[t] \in Seq(Call)
  BY DEF TypeOK
<1> DEFINE b == Below(t)
<1>2. /\ b \in Seq(Call) /\ Len(b) = Len(stack[t]) - 1 /\ Len(stack[t]) \in Nat
      /\ \A i \in 1 .. Len(stack[t]) - 1 : b[i] = stack[t][i]
  BY <1>1, BelowOf DEF Below
<1>3. stack' = [stack EXCEPT ![t] = Append(b, c)]
  BY DEF Replace
<1> HIDE DEF b
<1>4. stack'[t] = Append(b, c) /\ Others(t)
  BY <1>1, <1>3 DEF Others
<1>5. /\ Append(b, c) \in Seq(Call) /\ Len(Append(b, c)) = Len(b) + 1
      /\ \A i \in 1 .. Len(b) : Append(b, c)[i] = b[i]
      /\ Append(b, c)[Len(b) + 1] = c
  BY <1>2, AppendOf
<1>6. stack' \in [Thread -> Seq(Call)]
  BY <1>1, <1>3, <1>5
<1>7. Len(b) + 1 = Len(stack[t])
  BY <1>2
<1> QED
  BY <1>2, <1>4, <1>5, <1>6, <1>7 DEF Replaced

\* The next parameter: read, or a conversion of None.
LEMMA TakeReads ==
  ASSUME NEW c \in Call, c.at = "get", Len(c.got) < 3, NEW eff \in Params
  PROVE  LET j == Len(c.got) + 1
             value == WithDefault(FieldOrder[j], eff[FieldOrder[j]])
         IN /\ j \in 1 .. 3
            /\ Take(c, eff) \in Call
            /\ Take(c, eff).use = c.use /\ Take(c, eff).obj = c.obj
            /\ Take(c, eff).outer = c.outer
            /\ value = None => /\ Take(c, eff).at = "raise"
                               /\ Take(c, eff).got = c.got
            /\ value # None => /\ Take(c, eff).at = IF j = 3 THEN "use" ELSE "get"
                               /\ Take(c, eff).got = Append(c.got, value)
                               /\ value \in Value
<1> DEFINE j == Len(c.got) + 1
           value == WithDefault(FieldOrder[j], eff[FieldOrder[j]])
<1>1. j \in 1 .. 3
  BY DEF Call
<1>2. value \in Value \cup {None}
  BY <1>1, FieldsOfOrder DEF WithDefault, Params, Value
<1>3. CASE value = None
  <2>1. Take(c, eff) = [c EXCEPT !.at = "raise"]
    BY <1>3 DEF Take
  <2> QED
    BY <1>1, <1>3, <2>1 DEF Call
<1>4. CASE value # None
  <2>1. Take(c, eff) = [c EXCEPT !.got = Append(c.got, value), !.at = IF j = 3 THEN "use" ELSE "get"]
    BY <1>4, FieldsOfOrder DEF Take
  <2>2. Append(c.got, value) \in Seq(Value)
    BY <1>2, <1>4 DEF Call
  <2> HIDE DEF j, value
  <2>3. (IF j = 3 THEN "use" ELSE "get") \in {"stat", "get", "use", "raise", "subscribe"}
    OBVIOUS
  <2> QED
    BY <1>1, <1>2, <1>4, <2>1, <2>2, <2>3 DEF Call, j, value
<1> QED
  BY <1>3, <1>4
-----------------------------------------------------------------------------
(* The calls of a stack stay in shape.                                     *)

\* What the other calls rely on still holds.
FootingKept == \A d \in Call : Footing(d) => Footing(d)'

\* The constructor of the pool goes on.
SameBoot ==
  stack["loop"] # <<>> /\ stack["loop"][1].use = "boot" =>
    /\ stack'["loop"] # <<>> /\ stack'["loop"][1].use = "boot"
    /\ stack'["loop"][1].at = "subscribe" <=> stack["loop"][1].at = "subscribe"

LEMMA FrameElsewhere ==
  ASSUME TypeOK, Frames, FootingKept, NEW t \in Thread, NEW i \in 1 .. Len(stack[t]),
         stack'[t][i] = stack[t][i], Len(stack'[t]) <= Len(stack[t]) \/ stack[t][i].at = "get"
  PROVE  Frame(t, i)'
<1>1. stack[t][i] \in Call /\ Len(stack[t]) \in Nat
  BY ElementOf DEF TypeOK
<1>2. Frame(t, i)
  BY DEF Frames
<1>3. Footing(stack[t][i])'
  <2> DEFINE d == stack[t][i]
  <2>1. d \in Call /\ Footing(d)
    BY <1>1, <1>2 DEF Frame
  <2>2. PICK e \in Call : e = d
    BY <2>1
  <2>3. Footing(e)'
    BY <2>1, <2>2 DEF FootingKept
  <2>4. e = stack'[t][i]
    BY <2>2
  <2> QED
    BY <2>3, <2>2, <2>4 DEF Footing
<1> QED
  BY <1>1, <1>2, <1>3 DEF Frame, Shape, Footing

LEMMA PushFrames ==
  ASSUME TypeOK, Frames, FootingKept, NEW t \in Thread, NEW c \in Call, Pushed(t, c),
         stack[t] = <<>> \/ At(t, "get"),
         stack[t] # <<>> \/ t = "watchdog" => c.use = "notify",
         Shape(c), Footing(c)'
  PROVE  Frames' /\ SameBoot
<1>1. stack \in [Thread -> Seq(Call)] /\ stack' \in [Thread -> Seq(Call)]
  BY DEF TypeOK, Pushed
<1>2. \A u \in Thread : Len(stack[u]) \in Nat /\ Len(stack'[u]) \in Nat
  BY <1>1
<1>3. ASSUME NEW u \in Thread, NEW i \in 1 .. Len(stack'[u]) PROVE Frame(u, i)'
  <2>1. CASE u # t
    BY <2>1, <1>1, <1>2, FrameElsewhere DEF Pushed, Others
  <2>2. CASE u = t /\ i \in 1 .. Len(stack[t])
    <3>1. stack[t][i].at = "get"
      BY <2>2, <1>2, EmptyIsZero, <1>1 DEF At, Top, Frames, Frame
    <3> QED
      BY <2>2, <3>1, FrameElsewhere DEF Pushed
  <2>3. CASE u = t /\ i = Len(stack[t]) + 1
    <3>1. stack'[u][i] = c /\ ~(i < Len(stack'[u]))
      BY <2>3, <1>2 DEF Pushed
    <3>2. i > 1 => stack[t] # <<>>
      BY <2>3, <1>1, EmptyIsZero
    <3> QED
      BY <2>3, <3>1, <3>2 DEF Frame, Footing, Shape
  <2> QED
    BY <2>1, <2>2, <2>3, <1>2 DEF Pushed
<1>4. SameBoot
  <2> SUFFICES ASSUME stack["loop"] # <<>>
               PROVE  stack'["loop"] # <<>> /\ stack'["loop"][1] = stack["loop"][1]
    BY DEF SameBoot
  <2>1. Len(stack["loop"]) > 0
    BY <1>1, EmptyIsZero, ThreadsAreTwo
  <2>2. Len(stack'["loop"]) > 0 /\ stack'["loop"][1] = stack["loop"][1]
    BY <2>1, <1>2, ThreadsAreTwo DEF Pushed, Others
  <2> QED
    BY <2>2, <1>1, EmptyIsZero, ThreadsAreTwo
<1> QED
  BY <1>3, <1>4 DEF Frames

LEMMA ReplaceFrames ==
  ASSUME TypeOK, Frames, FootingKept, NEW t \in Thread, NEW c \in Call, Replaced(t, c),
         stack[t] # <<>>, c.use = Top(t).use, Shape(c), Footing(c)'
  PROVE  /\ Frames'
         /\ c.at # "subscribe" /\ Top(t).at # "subscribe" => SameBoot
<1>1. stack \in [Thread -> Seq(Call)] /\ stack' \in [Thread -> Seq(Call)]
  BY DEF TypeOK, Replaced
<1>2. \A u \in Thread : Len(stack[u]) \in Nat /\ Len(stack'[u]) \in Nat
  BY <1>1
<1>3. ASSUME NEW u \in Thread, NEW i \in 1 .. Len(stack'[u]) PROVE Frame(u, i)'
  <2>1. CASE u # t
    BY <2>1, <1>1, <1>2, FrameElsewhere DEF Replaced, Others
  <2>2. CASE u = t /\ i \in 1 .. Len(stack[t]) - 1
    <3>1. i \in 1 .. Len(stack[t]) /\ stack'[t][i] = stack[t][i] /\ Len(stack'[t]) <= Len(stack[t])
      BY <2>2, <1>2 DEF Replaced
    <3> QED
      BY <2>2, <3>1, FrameElsewhere
  <2>3. CASE u = t /\ i = Len(stack[t])
    <3>1. stack'[u][i] = c /\ ~(i < Len(stack'[u]))
      BY <2>3, <1>2 DEF Replaced
    <3>2. i > 1 \/ t = "watchdog" => c.use = "notify"
      BY <2>3, <1>2 DEF Frames, Frame, Top, Replaced
    <3> QED
      BY <2>3, <3>1, <3>2 DEF Frame, Footing, Shape
  <2> QED
    BY <2>1, <2>2, <2>3, <1>2 DEF Replaced
<1>4. ASSUME c.at # "subscribe", Top(t).at # "subscribe" PROVE SameBoot
  <2> SUFFICES ASSUME stack["loop"] # <<>>, stack["loop"][1].use = "boot"
               PROVE  /\ stack'["loop"] # <<>> /\ stack'["loop"][1].use = "boot"
                      /\ stack'["loop"][1].at = "subscribe" <=> stack["loop"][1].at = "subscribe"
    BY DEF SameBoot
  <2>1. Len(stack["loop"]) > 0
    BY <1>1, EmptyIsZero, ThreadsAreTwo
  <2>2. Len(stack'["loop"]) = Len(stack["loop"])
    BY ThreadsAreTwo DEF Replaced, Others
  <2>3. stack'["loop"] # <<>>
    BY <2>1, <2>2, <1>1, EmptyIsZero, ThreadsAreTwo
  <2>4. CASE t # "loop" \/ Len(stack["loop"]) > 1
    BY <2>3, <2>4, <2>1, <1>2, ThreadsAreTwo DEF Replaced, Others
  <2>5. CASE t = "loop" /\ Len(stack["loop"]) = 1
    BY <2>3, <2>5, <1>4 DEF Replaced, Top
  <2>6. (t # "loop" \/ Len(stack["loop"]) > 1) \/ (t = "loop" /\ Len(stack["loop"]) = 1)
    <3> DEFINE n == Len(stack["loop"])
    <3>1. n \in Nat /\ n > 0
      BY <2>1, <1>2, ThreadsAreTwo
    <3> HIDE DEF n
    <3>2. n > 1 \/ n = 1
      BY <3>1
    <3> QED
      BY <3>2 DEF n
  <2> QED
    BY <2>4, <2>5, <2>6
<1> QED
  BY <1>3, <1>4 DEF Frames

LEMMA PopFrames ==
  ASSUME TypeOK, Frames, FootingKept, NEW t \in Thread, NEW eff \in Params,
         Popped(t, eff), stack[t] # <<>>
  PROVE  Frames' /\ (Top(t).use # "boot" => SameBoot)
<1>1. stack \in [Thread -> Seq(Call)] /\ stack' \in [Thread -> Seq(Call)]
  BY DEF TypeOK, Popped
<1>2. /\ \A u \in Thread : Len(stack[u]) \in Nat /\ Len(stack'[u]) \in Nat
      /\ Len(stack[t]) > 0
  BY <1>1, EmptyIsZero
<1>c. ASSUME Len(stack[t]) > 1
      PROVE  LET n == Len(stack[t]) - 1 IN
             /\ n \in 1 .. Len(stack[t]) /\ stack[t][n] \in Call
             /\ stack[t][n].at = "get" /\ Len(stack[t][n].got) < 3
             /\ Frame(t, n) /\ stack'[t][n] = Take(stack[t][n], eff)
  <2> DEFINE n == Len(stack[t]) - 1
  <2>1. n \in 1 .. Len(stack[t]) /\ n < Len(stack[t])
    BY <1>2, <1>c
  <2>2. stack[t][n] \in Call /\ Frame(t, n)
    BY <2>1, <1>1, ElementOf DEF Frames
  <2>3. stack'[t][n] = Take(stack[t][n], eff)
    BY <1>c DEF Popped
  <2> QED
    BY <2>1, <2>2, <2>3 DEF Frame, Shape
<1>3. ASSUME NEW u \in Thread, NEW i \in 1 .. Len(stack'[u]) PROVE Frame(u, i)'
  <2>1. CASE u # t
    <3>1. stack'[u] = stack[u]
      BY <2>1 DEF Popped, Others
    <3>2. Len(stack'[u]) <= Len(stack[u]) /\ stack'[u][i] = stack[u][i] /\ i \in 1 .. Len(stack[u])
      BY <3>1, <1>2
    <3> QED
      BY <3>2, FrameElsewhere
  <2>2. CASE u = t /\ i \in 1 .. Len(stack[t]) - 2
    <3>1. i \in 1 .. Len(stack[t]) /\ stack'[t][i] = stack[t][i] /\ Len(stack'[t]) <= Len(stack[t])
      BY <2>2, <1>2 DEF Popped
    <3> QED
      BY <2>2, <3>1, FrameElsewhere
  <2>3. CASE u = t /\ i = Len(stack[t]) - 1
    <3>0. Len(stack[t]) > 1
      BY <2>3, <1>2
    <3> DEFINE c == stack[t][i]
    <3>1. /\ i \in 1 .. Len(stack[t]) /\ c \in Call
          /\ c.at = "get" /\ Len(c.got) < 3
          /\ Frame(t, i) /\ stack'[u][i] = Take(c, eff)
      BY <3>0, <1>c, <2>3
    <3> DEFINE d == Take(c, eff)
    <3>2. /\ d \in Call /\ d.use = c.use /\ d.obj = c.obj
          /\ d.at \in {"raise", "get", "use"}
          /\ d.at = "get" => Len(d.got) < 3
          /\ d.at = "use" => Len(d.got) = 3
      <4> DEFINE value == WithDefault(FieldOrder[Len(c.got) + 1], eff[FieldOrder[Len(c.got) + 1]])
      <4> HIDE DEF c
      <4>1. CASE value = None
        BY <4>1, <3>1, TakeReads
      <4>2. CASE value # None
        <5>1. /\ d \in Call /\ d.use = c.use /\ d.obj = c.obj
              /\ d.at = IF Len(c.got) + 1 = 3 THEN "use" ELSE "get"
              /\ d.got = Append(c.got, value) /\ value \in Value
          BY <4>2, <3>1, TakeReads
        <5>2. c.got \in Seq(Value)
          BY <3>1 DEF Call
        <5> HIDE DEF d, value
        <5>3. Len(d.got) = Len(c.got) + 1 /\ Len(c.got) \in Nat
          BY <5>1, <5>2, AppendOf
        <5> QED
          BY <5>1, <5>3, <3>1
      <4> QED
        BY <4>1, <4>2
    <3>3. stack'[u][i] = d
      BY <3>1
    <3>4. ~(i < Len(stack'[u]))
      BY <2>3, <1>2 DEF Popped
    <3>5. (i > 1 \/ u = "watchdog") => d.use = "notify"
      BY <3>1, <3>2, <2>3 DEF Frame
    <3>6. c.use = "notify" => c.obj \in DOMAIN objects'
      <4>1. PICK e \in Call : e = c
        BY <3>1
      <4>2. Footing(e)'
        BY <3>1, <4>1 DEF FootingKept, Frame
      <4> QED
        BY <4>1, <4>2, <3>1 DEF Footing
    <3>7. /\ c.use = "boot" => ~subscribed'
          /\ c.use \in Backend => subscribed' /\ Len(objects') <= MaxSwitches
      <4>1. PICK e \in Call : e = c
        BY <3>1
      <4>2. Footing(e)'
        BY <3>1, <4>1 DEF FootingKept, Frame
      <4> QED
        BY <4>1, <4>2 DEF Footing
    <3>8. PICK e \in Call : e = d
      BY <3>2
    <3> HIDE DEF c, d
    <3>9. Shape(e) /\ Footing(e)'
      BY <3>2, <3>6, <3>7, <3>8 DEF Shape, Footing
    <3> QED
      BY <3>3, <3>4, <3>5, <3>8, <3>9 DEF Frame, Shape, Footing
  <2> QED
    BY <2>1, <2>2, <2>3, <1>2 DEF Popped
<1>4. ASSUME Top(t).use # "boot" PROVE SameBoot
  <2> SUFFICES ASSUME stack["loop"] # <<>>, stack["loop"][1].use = "boot"
               PROVE  /\ stack'["loop"] # <<>> /\ stack'["loop"][1].use = "boot"
                      /\ stack'["loop"][1].at = "subscribe" <=> stack["loop"][1].at = "subscribe"
    BY DEF SameBoot
  <2>1. Len(stack["loop"]) > 0
    BY <1>1, EmptyIsZero, ThreadsAreTwo
  <2>2. CASE t # "loop"
    BY <2>2, <2>1, ThreadsAreTwo DEF Popped, Others
  <2>3. CASE t = "loop"
    <3>1. Len(stack["loop"]) > 1
      BY <2>3, <2>1, <1>2, <1>4 DEF Top
    <3>2. Len(stack'["loop"]) > 0
      BY <2>3, <3>1, <1>2 DEF Popped
    <3>3. stack'["loop"] # <<>>
      BY <3>2, <1>1, EmptyIsZero, ThreadsAreTwo
    <3>4. CASE Len(stack["loop"]) > 2
      BY <3>4, <3>3, <2>3, <1>2 DEF Popped
    <3>5. CASE Len(stack["loop"]) = 2
      <4> DEFINE c == stack["loop"][1]
      <4>1. c \in Call /\ c.at = "get" /\ Len(c.got) < 3 /\ stack'["loop"][1] = Take(c, eff)
        <5>1. Len(stack[t]) > 1 /\ Len(stack[t]) - 1 = 1
          BY <3>5, <2>3
        <5> QED
          BY <5>1, <2>3, <1>c
      <4> HIDE DEF c
      <4>2. Take(c, eff).use = c.use /\ Take(c, eff).at # "subscribe"
        BY <4>1, TakeReads
      <4> QED
        BY <4>1, <4>2, <3>3 DEF c
    <3>6. Len(stack["loop"]) > 2 \/ Len(stack["loop"]) = 2
      <4> DEFINE n == Len(stack["loop"])
      <4>1. n \in Nat /\ n > 1
        BY <3>1, <1>2, ThreadsAreTwo
      <4> HIDE DEF n
      <4>2. n > 2 \/ n = 2
        BY <4>1
      <4> QED
        BY <4>2 DEF n
    <3> QED
      BY <3>4, <3>5, <3>6
  <2> QED
    BY <2>2, <2>3
<1> QED
  BY <1>3, <1>4 DEF Frames
LEMMA ResumeReads ==
  ASSUME NEW b \in Seq(Call), NEW eff \in Params,
         b # <<>> => b[Len(b)].at = "get" /\ Len(b[Len(b)].got) < 3
  PROVE  /\ Resume(b, eff) \in Seq(Call) /\ Len(Resume(b, eff)) = Len(b)
         /\ b # <<>> => Resume(b, eff)[Len(b)] = Take(b[Len(b)], eff)
         /\ \A i \in 1 .. Len(b) - 1 : Resume(b, eff)[i] = b[i]
<1>1. CASE b = <<>>
  BY <1>1 DEF Resume
<1>2. CASE b # <<>>
  <2> DEFINE n == Len(b)
             d == Take(b[n], eff)
  <2>1. n \in Nat /\ n > 0 /\ b[n] \in Call /\ n \in DOMAIN b
    BY <1>2, BelowOf
  <2>2. d \in Call
    BY <1>2, <2>1, TakeReads
  <2>3. Resume(b, eff) = [b EXCEPT ![n] = d]
    BY <1>2 DEF Resume
  <2> HIDE DEF n, d
  <2> DEFINE r == [b EXCEPT ![n] = d]
  <2>4. n \in 1 .. Len(b)
    BY <2>1 DEF n
  <2>5. r \in Seq(Call) /\ Len(r) = Len(b) /\ \A i \in 1 .. Len(b) : r[i] = IF i = n THEN d ELSE b[i]
    BY <2>2, <2>4, ExceptSeq
  <2> HIDE DEF r
  <2>6. /\ Resume(b, eff) \in Seq(Call) /\ Len(Resume(b, eff)) = n
        /\ Resume(b, eff)[n] = d /\ \A i \in 1 .. n - 1 : Resume(b, eff)[i] = b[i]
    <3>1. Resume(b, eff) = r /\ Len(b) = n
      BY <2>3 DEF r, n
    <3>2. r[n] = d /\ \A i \in 1 .. n - 1 : r[i] = b[i]
      BY <3>1, <2>1, <2>5
    <3> QED
      BY <3>1, <3>2, <2>5
  <2> QED
    BY <2>6 DEF n, d
<1> QED
  BY <1>1, <1>2

LEMMA ReturnPops ==
  ASSUME TypeOK, Frames, NEW t \in Thread, NEW eff \in Params, stack[t] # <<>>,
         ReturnWith(t, eff)
  PROVE  Popped(t, eff)
<1>1. stack \in [Thread -> Seq(Call)] /\ stack[t] \in Seq(Call)
  BY DEF TypeOK
<1> DEFINE b == Below(t)
           r == Resume(b, eff)
<1>2. /\ b \in Seq(Call) /\ Len(b) = Len(stack[t]) - 1 /\ Len(stack[t]) \in Nat
      /\ Len(stack[t]) > 0
      /\ \A i \in 1 .. Len(stack[t]) - 1 : b[i] = stack[t][i]
  BY <1>1, BelowOf DEF Below
<1>3. stack' = [stack EXCEPT ![t] = r]
  BY DEF ReturnWith
<1> HIDE DEF b, r
<1>4. b # <<>> => b[Len(b)].at = "get" /\ Len(b[Len(b)].got) < 3
  <2> SUFFICES ASSUME b # <<>> PROVE b[Len(b)].at = "get" /\ Len(b[Len(b)].got) < 3
    OBVIOUS
  <2> DEFINE n == Len(stack[t]) - 1
  <2>1. n > 0
    BY <1>2, EmptyIsZero
  <2>2. n \in 1 .. Len(stack[t]) /\ n < Len(stack[t]) /\ b[n] = stack[t][n]
    BY <2>1, <1>2
  <2>3. Frame(t, n)
    BY <2>2 DEF Frames
  <2> QED
    BY <2>2, <2>3, <1>2 DEF Frame, Shape
<1>5. /\ r \in Seq(Call) /\ Len(r) = Len(b)
      /\ b # <<>> => r[Len(b)] = Take(b[Len(b)], eff)
      /\ \A i \in 1 .. Len(b) - 1 : r[i] = b[i]
  BY <1>2, <1>4, ResumeReads DEF r
<1>6. stack' \in [Thread -> Seq(Call)] /\ stack'[t] = r /\ Others(t)
  BY <1>1, <1>3, <1>5 DEF Others
<1>7. Len(stack[t]) > 1 => r[Len(stack[t]) - 1] = Take(stack[t][Len(stack[t]) - 1], eff)
  <2> DEFINE n == Len(stack[t]) - 1
  <2> SUFFICES ASSUME Len(stack[t]) > 1 PROVE r[n] = Take(stack[t][n], eff)
    OBVIOUS
  <2>1. n = Len(b) /\ b # <<>> /\ n \in 1 .. Len(stack[t]) - 1
    BY <1>2, EmptyIsZero
  <2>2. b[n] = stack[t][n]
    BY <2>1, <1>2
  <2> QED
    BY <2>1, <2>2, <1>5
<1>8. \A i \in 1 .. Len(stack[t]) - 2 : r[i] = stack[t][i]
  <2> SUFFICES ASSUME NEW i \in 1 .. Len(stack[t]) - 2 PROVE r[i] = stack[t][i]
    OBVIOUS
  <2>1. i \in 1 .. Len(b) - 1 /\ i \in 1 .. Len(stack[t]) - 1
    BY <1>2
  <2> QED
    BY <2>1, <1>2, <1>5
<1> QED
  BY <1>2, <1>5, <1>6, <1>7, <1>8 DEF Popped

-----------------------------------------------------------------------------
(* Types.                                                                  *)

LEMMA EffectiveType == ASSUME TypeOK PROVE Effective \in Params
BY DEF TypeOK, Effective, Params

LEMMA FootingStays ==
  ASSUME TypeOK, subscribed' = subscribed, DOMAIN objects' = DOMAIN objects,
         Len(objects') = Len(objects)
  PROVE  FootingKept
BY DEF FootingKept, Footing

\* The pool and the rounds are left alone.
LEMMA PoolStays ==
  ASSUME Booting, Rounds, SameBoot, UNCHANGED <<subscribed, backends, round>>
  PROVE  Booting' /\ Rounds'
<1>1. UNCHANGED <<subscribed, objects, current, pending, round>>
  BY DEF backends
<1>2. Rounds'
  BY <1>1 DEF Rounds
<1>3. Booting'
  BY <1>1 DEF Booting, SameBoot
<1> QED
  BY <1>2, <1>3

\* The call that notifies the listener.
LEMMA NotificationCall ==
  ASSUME TypeOK, NEW outer \in BOOLEAN, NEW eff \in Params
  PROVE  Notification(outer, eff) \in Call
BY DEF TypeOK, Notification, Call

LEMMA NotificationStands ==
  ASSUME NEW outer \in BOOLEAN, NEW eff \in Params, NEW c \in Call,
         c = Notification(outer, eff), current \in DOMAIN objects, UNCHANGED objects
  PROVE  Shape(c) /\ Footing(c)' /\ c.use = "notify"
<1>1. c.at = "get" /\ c.use = "notify" /\ c.obj = current /\ c.got = <<>>
  BY DEF Notification
<1>2. Len(c.got) < 3
  BY <1>1
<1> QED
  BY <1>1, <1>2, BackendAssumption DEF Footing, Shape
LEMMA PopLast ==
  ASSUME TypeOK, Frames, NEW eff \in Params, Popped("loop", eff), Len(stack["loop"]) = 1,
         \A d \in Call : d.use = "notify" /\ Footing(d) => Footing(d)'
  PROVE  Frames' /\ stack'["loop"] = <<>>
<1>1. stack \in [Thread -> Seq(Call)] /\ stack' \in [Thread -> Seq(Call)]
  BY DEF TypeOK, Popped
<1>2. Len(stack'["loop"]) = 0 /\ stack'["loop"] = <<>>
  BY <1>1, EmptyIsZero, ThreadsAreTwo DEF Popped
<1>3. stack'["watchdog"] = stack["watchdog"]
  BY DEF Popped, Others, Thread
<1>4. ASSUME NEW i \in 1 .. Len(stack["watchdog"]) PROVE Frame("watchdog", i)'
  <2>1. stack["watchdog"][i] \in Call /\ Frame("watchdog", i)
    BY <1>1, ElementOf, ThreadsAreTwo DEF Frames
  <2>2. PICK e \in Call : e = stack["watchdog"][i]
    BY <2>1
  <2>3. e.use = "notify" /\ Footing(e)
    BY <2>1, <2>2 DEF Frame
  <2>4. Footing(e)'
    BY <2>3
  <2> QED
    BY <2>1, <2>2, <2>4, <1>3 DEF Frame, Shape, Footing
<1> QED
  BY <1>2, <1>3, <1>4 DEF Frames, Thread

\* The stacks are left alone.
LEMMA StackStays ==
  ASSUME TypeOK, Frames, FootingKept, UNCHANGED stack PROVE Frames'
<1> SUFFICES ASSUME NEW t \in Thread, NEW i \in 1 .. Len(stack[t]) PROVE Frame(t, i)'
  BY DEF Frames
<1>1. stack'[t][i] = stack[t][i] /\ Len(stack'[t]) = Len(stack[t]) /\ Len(stack[t]) \in Nat
  BY DEF TypeOK
<1> QED
  BY <1>1, FrameElsewhere

\* A reload, and the call that it leaves on the stack.
ReadingCall(outer) ==
  [at |-> "stat", outer |-> outer, use |-> "notify", obj |-> 0, got |-> <<>>, eff |-> NoParams]

LEMMA ReadingCallType ==
  ASSUME NEW outer \in BOOLEAN
  PROVE  /\ ReadingCall(outer) \in Call /\ Shape(ReadingCall(outer))
         /\ NoParams \in Params
BY DEF ReadingCall, Call, NoParams, Params, Shape

LEMMA GenHasRoom ==
  /\ MaxGen \in Nat /\ MaxGen >= 1
  /\ MaxWrites \in Nat /\ MaxChanges \in Nat /\ MaxSwitches \in Nat /\ MaxRounds \in Nat
BY BackendAssumption DEF MaxGen

LEMMA ReadFileTypes ==
  ASSUME TypeInv, NEW t \in Thread, NEW outer \in BOOLEAN, ReadFile(t, outer),
         stack[t] = <<>> \/ At(t, "get"), changes' \in 0 .. MaxChanges
  PROVE  TypeInv' /\ Pushed(t, ReadingCall(outer))
<1> USE DEF TypeInv
<1>1. PICK c \in Call : c = ReadingCall(outer)
  BY ReadingCallType
<1>2. Pushed(t, c)
  BY <1>1, PushPushes DEF ReadFile, ReadingCall
<1>3. FootingKept
  BY FootingStays DEF ReadFile, backends
<1>4. Shape(c) /\ Footing(c)' /\ c.use = "notify"
  BY <1>1, ReadingCallType, BackendAssumption DEF ReadingCall, Footing
<1>5. Frames' /\ SameBoot
  BY <1>2, <1>3, <1>4, PushFrames
<1>6. Booting' /\ Rounds'
  BY <1>5, PoolStays DEF ReadFile, producer
<1>7. gen' \in 1 .. MaxGen
  BY GenHasRoom DEF ReadFile, Changed, TypeOK
<1>8. TypeOK'
  BY <1>2, <1>7 DEF TypeOK, ReadFile, Changed, Pushed, disk, backends, producer
<1> QED
  BY <1>1, <1>2, <1>5, <1>6, <1>8

LEMMA PollTypes == ASSUME TypeInv, NEW t \in Thread, Poll(t) PROVE TypeInv'
<1>1. stack[t] = <<>>
  BY DEF Poll, Idle, LoopIdle
<1> QED
  BY <1>1, ReadFileTypes DEF Poll, TypeInv, TypeOK

LEMMA ReloadTypes == ASSUME TypeInv, Reload PROVE TypeInv'
<1>1. stack["loop"] = <<>> /\ changes' \in 0 .. MaxChanges
  BY GenHasRoom DEF Reload, LoopIdle, TypeInv, TypeOK
<1> QED
  BY <1>1, ReadFileTypes, ThreadsAreTwo DEF Reload

\* The innermost call, at a step of its own.
LEMMA TopOf ==
  ASSUME TypeInv, NEW t \in Thread, stack[t] # <<>>
  PROVE  /\ Top(t) \in Call /\ Shape(Top(t)) /\ Footing(Top(t))
         /\ Len(stack[t]) \in Nat /\ Len(stack[t]) > 0
         /\ Top(t).use # "notify" => t = "loop" /\ Len(stack[t]) = 1
<1>1. /\ stack[t] \in Seq(Call) /\ Len(stack[t]) \in Nat /\ Len(stack[t]) > 0
      /\ stack[t][Len(stack[t])] \in Call
  BY BelowOf DEF TypeInv, TypeOK
<1>2. Len(stack[t]) \in 1 .. Len(stack[t])
  BY <1>1
<1>3. Frame(t, Len(stack[t]))
  BY <1>2 DEF TypeInv, Frames
<1>4. ~(Len(stack[t]) > 1) => Len(stack[t]) = 1
  <2> DEFINE n == Len(stack[t])
  <2>1. n \in Nat /\ n > 0
    BY <1>1
  <2> HIDE DEF n
  <2>2. ~(n > 1) => n = 1
    BY <2>1
  <2> QED
    BY <2>2 DEF n
<1> QED
  BY <1>1, <1>3, <1>4 DEF Frame, Top, Thread

LEMMA StatFileTypes == ASSUME TypeInv, NEW t \in Thread, StatFile(t) PROVE TypeInv'
<1> USE DEF TypeInv
<1>1. stack[t] # <<>> /\ Top(t).at = "stat" /\ Effective \in Params
  BY EffectiveType DEF StatFile, At
<1>2. Top(t) \in Call /\ Top(t).use = "notify"
  BY <1>1, TopOf DEF Shape
<1>3. FootingKept
  BY FootingStays DEF StatFile, backends
<1>4. stack' \in [Thread -> Seq(Call)] /\ Frames' /\ SameBoot
  <2>1. CASE subscribed
    <3>1. PICK outer \in BOOLEAN : outer = Top(t).outer
      BY <1>2 DEF Call
    <3>2. PICK eff \in Params : eff = Effective
      BY <1>1
    <3>3. PICK c \in Call : c = Notification(outer, eff)
      BY NotificationCall
    <3>4. Shape(c) /\ Footing(c)' /\ c.use = "notify"
      BY <2>1, <3>3, NotificationStands DEF Booting, StatFile, backends
    <3>5. Replaced(t, c)
      BY <1>1, <2>1, <3>1, <3>2, <3>3, ReplaceReplaces DEF StatFile
    <3>6. c.at # "subscribe" /\ Top(t).at # "subscribe"
      BY <1>1, <3>3 DEF Notification
    <3> QED
      BY <1>1, <1>2, <1>3, <3>4, <3>5, <3>6, ReplaceFrames DEF Replaced
  <2>2. CASE ~subscribed
    <3>1. PICK eff \in Params : eff = Effective
      BY <1>1
    <3>2. Popped(t, eff)
      BY <1>1, <2>2, <3>1, ReturnPops DEF StatFile
    <3> QED
      BY <1>1, <1>2, <1>3, <3>2, PopFrames DEF Popped
  <2> QED
    BY <2>1, <2>2
<1>5. Booting' /\ Rounds'
  BY <1>4, PoolStays DEF StatFile, producer
<1>6. TypeOK'
  BY <1>4 DEF TypeOK, StatFile, disk, backends, producer
<1> QED
  BY <1>4, <1>5, <1>6

LEMMA GetFieldTypes == ASSUME TypeInv, NEW t \in Thread, GetField(t) PROVE TypeInv'
<1> USE DEF TypeInv
<1>1. stack[t] # <<>> /\ Top(t).at = "get" /\ Effective \in Params
  BY EffectiveType DEF GetField, At
<1>2. CASE Stale
  BY <1>2, ReadFileTypes DEF GetField, TypeOK
<1>3. CASE ~Stale
  <2> USE <1>3
  <2>1. /\ Top(t) \in Call /\ Len(Top(t).got) < 3 /\ Footing(Top(t))
    BY <1>1, TopOf DEF Shape
  <2>2. PICK b \in Call : b = Top(t)
    BY <2>1
  <2>3. PICK eff \in Params : eff = Effective
    BY <1>1
  <2> DEFINE value == WithDefault(FieldOrder[Len(b.got) + 1], eff[FieldOrder[Len(b.got) + 1]])
             c == Take(b, eff)
  <2>4. /\ c \in Call /\ c.use = b.use /\ c.obj = b.obj /\ Shape(c) /\ c.at \in {"raise", "get", "use"}
    <3>1. b.at = "get" /\ Len(b.got) < 3
      BY <1>1, <2>1, <2>2
    <3>2. CASE value = None
      BY <3>1, <3>2, TakeReads DEF Shape
    <3>3. CASE value # None
      <4>1. /\ c \in Call /\ c.use = b.use /\ c.obj = b.obj
            /\ c.at = IF Len(b.got) + 1 = 3 THEN "use" ELSE "get"
            /\ c.got = Append(b.got, value) /\ value \in Value
        BY <3>1, <3>3, TakeReads
      <4>2. b.got \in Seq(Value)
        BY DEF Call
      <4> HIDE DEF c, value
      <4>3. Len(c.got) = Len(b.got) + 1 /\ Len(b.got) \in Nat
        BY <4>1, <4>2, AppendOf
      <4> QED
        BY <4>1, <4>3, <3>1 DEF Shape
    <3> QED
      BY <3>2, <3>3
  <2>5. PICK d \in Call : d = c
    BY <2>4
  <2>6. FootingKept
    BY FootingStays DEF GetField, backends
  <2>7. Footing(d)'
    <3>1. Footing(b)'
      BY <2>1, <2>2, <2>6 DEF FootingKept
    <3> HIDE DEF c
    <3> QED
      BY <3>1, <2>4, <2>5, <1>1, <2>2 DEF Footing
  <2>8. Replaced(t, d)
    <3>1. Replace(t, d)
      BY <2>2, <2>3, <2>5 DEF GetField
    <3> QED
      BY <1>1, <3>1, ReplaceReplaces
  <2>9. d.use = Top(t).use /\ Shape(d) /\ d.at # "subscribe" /\ Top(t).at # "subscribe"
    <3> HIDE DEF c
    <3> QED
      BY <2>4, <2>5, <2>2, <1>1
  <2>10. Frames' /\ SameBoot
    BY <1>1, <2>6, <2>7, <2>8, <2>9, ReplaceFrames
  <2>11. Booting' /\ Rounds'
    BY <2>10, PoolStays DEF GetField, producer
  <2>12. TypeOK'
    BY <2>8 DEF TypeOK, GetField, Replaced, disk, cache, backends, producer
  <2> QED
    BY <2>10, <2>11, <2>12
<1> QED
  BY <1>2, <1>3
LEMMA OverridesTypes ==
  ASSUME TypeInv,
         LoopIdle, gen < MaxGen, changes < MaxChanges, changes' = changes + 1,
         overrides' \in Params, Changed(~Quiet), Push("loop", Notification(FALSE, NoParams)),
         UNCHANGED <<disk, raw, mtime, subscribed, backends, producer>>
  PROVE  TypeInv'
<1> USE DEF TypeInv
<1>1. NoParams \in Params /\ stack["loop"] = <<>> /\ subscribed
  BY DEF NoParams, Params, LoopIdle
<1>2. PICK eff \in Params : eff = NoParams
  BY <1>1
<1>3. PICK c \in Call : c = Notification(FALSE, eff)
  BY NotificationCall
<1>4. Shape(c) /\ Footing(c)' /\ c.use = "notify"
  BY <1>1, <1>3, NotificationStands DEF Booting, backends
<1>5. Pushed("loop", c)
  BY <1>2, <1>3, PushPushes, ThreadsAreTwo
<1>6. FootingKept
  BY FootingStays DEF backends
<1>7. Frames' /\ SameBoot
  BY <1>1, <1>4, <1>5, <1>6, PushFrames, ThreadsAreTwo
<1>8. Booting' /\ Rounds'
  BY <1>7, PoolStays DEF producer
<1>9. gen' \in 1 .. MaxGen /\ changes' \in 0 .. MaxChanges
  BY GenHasRoom DEF Changed, TypeOK
<1>10. TypeOK'
  BY <1>5, <1>9 DEF TypeOK, Changed, Pushed, disk, backends, producer
<1> QED
  BY <1>7, <1>8, <1>10

LEMMA SetOverridesTypes ==
  ASSUME TypeInv, NEW patch \in Patches, SetOverrides(patch) PROVE TypeInv'
<1>1. overrides' \in Params
  BY DEF SetOverrides, Patches, Params, TypeInv, TypeOK
<1> QED
  BY <1>1, OverridesTypes DEF SetOverrides

LEMMA ClearOverridesTypes == ASSUME TypeInv, ClearOverrides PROVE TypeInv'
<1>1. overrides' \in Params
  BY DEF ClearOverrides, NoParams, Params
<1> QED
  BY <1>1, OverridesTypes DEF ClearOverrides

\* What a call that ends leaves.
LEMMA ReturnFrames ==
  ASSUME TypeInv, FootingKept, NEW t \in Thread, stack[t] # <<>>, Return(t),
         Top(t).use # "boot"
  PROVE  /\ stack' \in [Thread -> Seq(Call)] /\ Frames' /\ SameBoot
         /\ Popped(t, Top(t).eff)
<1>1. Top(t) \in Call
  BY TopOf
<1>2. PICK eff \in Params : eff = Top(t).eff
  BY <1>1 DEF Call
<1>3. Popped(t, eff)
  BY <1>2, ReturnPops DEF Return, TypeInv
<1> QED
  BY <1>2, <1>3, PopFrames DEF Popped, TypeInv

\* A call that has read every parameter holds a configuration.
LEMMA FullReading ==
  ASSUME NEW c \in Call, Len(c.got) = 3 PROVE c.got \in [1 .. Len(FieldOrder) -> Value]
<1>1. c.got \in Seq(Value)
  BY DEF Call
<1>2. c.got \in [1 .. Len(c.got) -> Value]
  BY <1>1, LenProperties
<1> QED
  BY <1>2, FieldsOfOrder

LEMMA ObjectType ==
  ASSUME TypeOK, NEW i \in DOMAIN objects
  PROVE  objects[i] \in [name : Backend, cfg : [1 .. Len(FieldOrder) -> Value]]
<1> DEFINE Object == [name : Backend, cfg : [1 .. Len(FieldOrder) -> Value]]
<1>1. objects \in Seq(Object)
  BY DEF TypeOK
<1> HIDE DEF Object
<1>2. objects[i] \in Object
  BY <1>1
<1> QED
  BY <1>2 DEF Object

LEMMA UpdatedObjects ==
  ASSUME TypeOK, NEW i \in DOMAIN objects, NEW cfg \in [1 .. Len(FieldOrder) -> Value],
         objects' = [objects EXCEPT ![i].cfg = cfg]
  PROVE  /\ objects' \in Seq([name : Backend, cfg : [1 .. Len(FieldOrder) -> Value]])
         /\ Len(objects') = Len(objects) /\ DOMAIN objects' = DOMAIN objects
         /\ objects'[i].cfg = cfg /\ \A j \in DOMAIN objects \ {i} : objects'[j] = objects[j]
<1> DEFINE Object == [name : Backend, cfg : [1 .. Len(FieldOrder) -> Value]]
           new == [objects[i] EXCEPT !.cfg = cfg]
<1>1. objects \in Seq(Object) /\ i \in 1 .. Len(objects) /\ objects[i] \in Object
  <2>1. objects \in Seq(Object)
    BY DEF TypeOK
  <2> HIDE DEF Object
  <2> QED
    BY <2>1
<1>2. new \in Object /\ new.cfg = cfg
  BY <1>1
<1>3. objects' = [objects EXCEPT ![i] = new]
  OBVIOUS
<1> HIDE DEF Object, new
<1>4. [objects EXCEPT ![i] = new] \in Seq(Object) /\ Len([objects EXCEPT ![i] = new]) = Len(objects)
  BY <1>1, <1>2, ExceptSeq
<1> QED
  BY <1>1, <1>2, <1>3, <1>4 DEF Object

LEMMA UpdateConfigTypes == ASSUME TypeInv, NEW t \in Thread, UpdateConfig(t) PROVE TypeInv'
<1> USE DEF TypeInv
<1>1. stack[t] # <<>> /\ Top(t).at = "use" /\ Top(t).use = "notify"
  BY DEF UpdateConfig, Using, At
<1>2. Top(t) \in Call /\ Len(Top(t).got) = 3 /\ Top(t).obj \in DOMAIN objects
  BY <1>1, TopOf DEF Shape, Footing
<1>3. PICK cfg : cfg = Top(t).got
  OBVIOUS
<1>4. cfg \in [1 .. Len(FieldOrder) -> Value]
  BY <1>2, <1>3, FullReading
<1>5. PICK i \in DOMAIN objects : i = Top(t).obj
  BY <1>2
<1>6. /\ objects' \in Seq([name : Backend, cfg : [1 .. Len(FieldOrder) -> Value]])
      /\ Len(objects') = Len(objects) /\ DOMAIN objects' = DOMAIN objects
  BY <1>3, <1>4, <1>5, UpdatedObjects DEF UpdateConfig
<1>7. FootingKept
  BY <1>6, FootingStays DEF UpdateConfig
<1>8. stack' \in [Thread -> Seq(Call)] /\ Frames' /\ SameBoot
  BY <1>1, <1>7, ReturnFrames DEF UpdateConfig
<1>9. Rounds'
  BY <1>6 DEF Rounds, UpdateConfig, producer
<1>10. Booting'
  <2>1. subscribed' = subscribed /\ current' = current /\ pending' = pending /\ round' = round
    BY DEF UpdateConfig, producer
  <2>2. CASE subscribed
    BY <2>1, <2>2, <1>6 DEF Booting
  <2>3. CASE ~subscribed
    <3>1. objects # <<>>
      BY <1>2
    <3>2. Len(objects) = 1 /\ current = 1 /\ stack["loop"][1].at = "subscribe"
      BY <2>3, <3>1 DEF Booting
    <3> QED
      BY <2>1, <2>3, <3>2, <1>6, <1>8 DEF Booting, SameBoot
  <2> QED
    BY <2>2, <2>3
<1>11. TypeOK'
  BY <1>6, <1>8 DEF TypeOK, UpdateConfig, disk, cache, producer
<1> QED
  BY <1>8, <1>9, <1>10, <1>11

LEMMA RaisedTypes == ASSUME TypeInv, NEW t \in Thread, Raised(t) PROVE TypeInv'
<1> USE DEF TypeInv
<1>1. FootingKept
  BY FootingStays DEF Raised, backends
<1>2. stack' \in [Thread -> Seq(Call)] /\ Frames' /\ SameBoot
  BY <1>1, ReturnFrames DEF Raised, At
<1>3. Booting' /\ Rounds'
  BY <1>2, PoolStays DEF Raised, producer
<1>4. TypeOK'
  BY <1>2 DEF TypeOK, Raised, disk, cache, backends, producer
<1> QED
  BY <1>2, <1>3, <1>4

\* The constructor of the pool, alone on the loop.
LEMMA BootCall ==
  ASSUME TypeInv, stack["loop"] # <<>>, Top("loop").use = "boot"
  PROVE  /\ Len(stack["loop"]) = 1 /\ Top("loop") = stack["loop"][1] /\ ~subscribed
         /\ pending = {} /\ round = NoRound
BY TopOf, ThreadsAreTwo DEF Footing, Top, TypeInv, Booting

LEMMA BootBackendTypes == ASSUME TypeInv, BootBackend PROVE TypeInv'
<1> USE DEF TypeInv
<1>1. stack["loop"] # <<>> /\ Top("loop").at = "use" /\ Top("loop").use = "boot"
  BY DEF BootBackend, Using, At
<1>2. Top("loop") \in Call /\ Len(Top("loop").got) = 3
  BY <1>1, TopOf, ThreadsAreTwo DEF Shape
<1>3. /\ Len(stack["loop"]) = 1 /\ Top("loop") = stack["loop"][1] /\ ~subscribed
      /\ pending = {} /\ round = NoRound /\ objects = <<>> /\ current = 0
  BY <1>1, BootCall DEF Booting
<1>4. PICK b \in Call : b = Top("loop")
  BY <1>2
<1> DEFINE d == [b EXCEPT !.at = "subscribe"]
<1>5. d \in Call /\ d.use = "boot" /\ d.at = "subscribe" /\ Len(d.got) = 3
  BY <1>1, <1>2, <1>4 DEF Call
<1>6. PICK c \in Call : c = d
  BY <1>5
<1>7. Replaced("loop", c)
  <2>1. Replace("loop", c)
    BY <1>4, <1>6 DEF BootBackend
  <2> QED
    BY <2>1, <1>1, ReplaceReplaces, ThreadsAreTwo
<1> DEFINE o == [name |-> Default, cfg |-> b.got]
<1>8. b.got \in [1 .. Len(FieldOrder) -> Value]
  BY <1>2, <1>4, FullReading
<1>9. objects' = <<o>> /\ o \in [name : Backend, cfg : [1 .. Len(FieldOrder) -> Value]]
  BY <1>4, <1>8, BackendAssumption DEF BootBackend
<1>10. /\ objects' \in Seq([name : Backend, cfg : [1 .. Len(FieldOrder) -> Value]])
       /\ Len(objects') = 1 /\ DOMAIN objects' = 1 .. 1
  <2> HIDE DEF o
  <2> QED
    BY <1>9
<1>11. FootingKept
  <2>1. subscribed' = subscribed /\ DOMAIN objects = {}
    BY <1>3 DEF BootBackend
  <2> QED
    BY <2>1, <1>3 DEF FootingKept, Footing
<1> HIDE DEF d, o
<1>12. Shape(c) /\ Footing(c)' /\ c.use = Top("loop").use
  <2>1. Footing(c)'
    <3>1. ~subscribed' /\ c.use = "boot"
      BY <1>3, <1>5, <1>6 DEF BootBackend
    <3> QED
      BY <3>1, BackendAssumption DEF Footing
  <2> QED
    BY <2>1, <1>1, <1>5, <1>6 DEF Shape
<1>13. Frames'
  BY <1>1, <1>7, <1>11, <1>12, ReplaceFrames, ThreadsAreTwo
<1>14. Booting'
  <2>1. Len(stack'["loop"]) = 1 /\ stack'["loop"][1] = c
    BY <1>3, <1>7 DEF Replaced
  <2>2. stack'["loop"] # <<>>
    BY <2>1
  <2> QED
    BY <2>1, <2>2, <1>3, <1>5, <1>6, <1>10 DEF Booting, BootBackend, producer
<1>15. Rounds'
  BY <1>3 DEF Rounds, BootBackend, producer, NoRound
<1>16. TypeOK'
  <2>1. Len(objects') <= 1 + MaxSwitches /\ current' \in 0 .. Len(objects')
    BY <1>10, GenHasRoom DEF BootBackend
  <2>2. pending' \subseteq DOMAIN objects'
    BY <1>3 DEF BootBackend
  <2>3. round' \in [obj : 0 .. Len(objects'), rate : Value \cup {None}, done : BOOLEAN]
    BY <1>3, <1>10 DEF BootBackend, producer, NoRound
  <2> QED
    BY <2>1, <2>2, <2>3, <1>7, <1>10 DEF TypeOK, BootBackend, Replaced, disk, cache, producer
<1> QED
  BY <1>13, <1>14, <1>15, <1>16
LEMMA SubscribeTypes == ASSUME TypeInv, Subscribe PROVE TypeInv'
<1> USE DEF TypeInv
<1>1. stack["loop"] # <<>> /\ Top("loop").at = "subscribe"
  BY DEF Subscribe, At
<1>2. Top("loop") \in Call /\ Top("loop").use = "boot"
  BY <1>1, TopOf, ThreadsAreTwo DEF Shape
<1>3. /\ Len(stack["loop"]) = 1 /\ Top("loop") = stack["loop"][1] /\ ~subscribed
      /\ pending = {} /\ round = NoRound /\ Len(objects) = 1 /\ current = 1
  BY <1>1, <1>2, BootCall DEF Booting
<1>4. PICK eff \in Params : eff = Top("loop").eff
  BY <1>2 DEF Call
<1>5. Popped("loop", eff)
  BY <1>1, <1>4, ReturnPops, ThreadsAreTwo DEF Subscribe, Return
<1>6. ASSUME NEW d \in Call, d.use = "notify", Footing(d) PROVE Footing(d)'
  BY <1>6, BackendAssumption DEF Footing, Subscribe, backends
<1>7. Frames'
  BY <1>3, <1>5, <1>6, PopLast
<1>8. UNCHANGED <<objects, current, pending, round>> /\ subscribed'
  BY DEF Subscribe, backends, producer
<1>9. Booting'
  <2>1. current \in DOMAIN objects
    BY <1>3 DEF TypeOK
  <2> QED
    BY <2>1, <1>8 DEF Booting
<1>10. Rounds'
  BY <1>8 DEF Rounds
<1>11. TypeOK'
  BY <1>5, <1>8 DEF TypeOK, Subscribe, Popped, disk, cache, producer
<1> QED
  BY <1>7, <1>9, <1>10, <1>11

LEMMA SwitchBackendTypes ==
  ASSUME TypeInv, NEW name \in Backend, SwitchBackend(name) PROVE TypeInv'
<1> USE DEF TypeInv
<1> DEFINE d == [at |-> "get", outer |-> FALSE, use |-> name, obj |-> 0, got |-> <<>>, eff |-> NoParams]
<1>1. d \in Call /\ Shape(d)
  <2>1. NoParams \in Params /\ <<>> \in Seq(Value) /\ Len(<<>>) = 0
    BY DEF NoParams, Params
  <2> QED
    BY <2>1 DEF Call, Shape
<1>2. PICK c \in Call : c = d
  BY <1>1
<1>3. stack["loop"] = <<>> /\ subscribed
  BY DEF SwitchBackend, LoopIdle
<1>4. Pushed("loop", c)
  BY <1>2, PushPushes, ThreadsAreTwo DEF SwitchBackend
<1>5. FootingKept
  BY FootingStays DEF SwitchBackend, backends
<1>6. Len(objects) <= MaxSwitches
  <2>1. pending \subseteq 1 .. Len(objects) /\ Len(objects) \in Nat
    BY DEF TypeOK
  <2>2. IsFiniteSet(pending)
    <3>1. IsFiniteSet(1 .. Len(objects))
      BY <2>1, FS_Interval
    <3> QED
      BY <2>1, <3>1, FS_Subset
  <2>3. Cardinality(pending) \in Nat
    BY <2>2, FS_CardinalityType
  <2> QED
    BY <2>1, <2>3, GenHasRoom DEF SwitchBackend
<1>7. Footing(c)'
  <2>1. c.use = name /\ name # "notify" /\ name # "boot"
    BY <1>2, BackendAssumption
  <2>2. subscribed' /\ Len(objects') <= MaxSwitches
    BY <1>3, <1>6 DEF SwitchBackend, backends
  <2> QED
    BY <2>1, <2>2 DEF Footing
<1>8. Shape(c)
  BY <1>1, <1>2
<1>9. Frames' /\ SameBoot
  BY <1>3, <1>4, <1>5, <1>7, <1>8, PushFrames, ThreadsAreTwo
<1>10. Booting' /\ Rounds'
  BY <1>9, PoolStays DEF SwitchBackend, producer
<1>11. TypeOK'
  BY <1>4 DEF TypeOK, SwitchBackend, Pushed, disk, cache, backends, producer
<1> QED
  BY <1>9, <1>10, <1>11

LEMMA BuildCandidateTypes ==
  ASSUME TypeInv, BuildCandidate
  PROVE  /\ TypeInv' /\ stack'["loop"] = <<>> /\ Len(stack["loop"]) = 1
         /\ Top("loop") = stack["loop"][1]
         /\ \A i \in 1 .. Len(objects) : objects'[i] = objects[i]
         /\ objects'[Len(objects) + 1].cfg = Top("loop").got
         /\ \E eff \in Params : Popped("loop", eff)
<1> USE DEF TypeInv
<1>1. PICK name \in Backend : Using("loop", name)
  BY DEF BuildCandidate
<1>2. stack["loop"] # <<>> /\ Top("loop").at = "use" /\ Top("loop").use = name
  BY <1>1 DEF Using, At
<1>3. /\ Top("loop") \in Call /\ Len(Top("loop").got) = 3 /\ Len(stack["loop"]) = 1
      /\ subscribed /\ Len(objects) <= MaxSwitches
  BY <1>2, TopOf, ThreadsAreTwo, BackendAssumption DEF Shape, Footing
<1>4. PICK b \in Call : b = Top("loop")
  BY <1>3
<1>5. PICK eff \in Params : eff = Top("loop").eff
  BY <1>3 DEF Call
<1>6. Popped("loop", eff)
  BY <1>2, <1>5, ReturnPops, ThreadsAreTwo DEF BuildCandidate, Return
<1> DEFINE o == [name |-> b.use, cfg |-> b.got]
           Object == [name : Backend, cfg : [1 .. Len(FieldOrder) -> Value]]
<1>7. b.got \in [1 .. Len(FieldOrder) -> Value]
  BY <1>3, <1>4, FullReading
<1>8. o \in Object /\ objects' = Append(objects, o) /\ o.cfg = b.got
  BY <1>2, <1>4, <1>7 DEF BuildCandidate
<1>9. objects \in Seq(Object) /\ Len(objects) \in Nat
  BY DEF TypeOK
<1> HIDE DEF o, Object
<1>10. /\ objects' \in Seq(Object) /\ Len(objects') = Len(objects) + 1
       /\ DOMAIN objects' = 1 .. Len(objects) + 1 /\ DOMAIN objects = 1 .. Len(objects)
       /\ \A i \in 1 .. Len(objects) : objects'[i] = objects[i]
       /\ objects'[Len(objects) + 1] = o
  BY <1>8, <1>9, AppendOf, LenProperties
<1>11. ASSUME NEW d \in Call, d.use = "notify", Footing(d) PROVE Footing(d)'
  BY <1>10, <1>11, <1>9, BackendAssumption DEF Footing, BuildCandidate
<1>12. Frames' /\ stack'["loop"] = <<>>
  BY <1>3, <1>6, <1>11, PopLast
<1>13. Booting' /\ Rounds'
  BY <1>3, <1>9, <1>10 DEF Booting, Rounds, BuildCandidate, producer
<1>14. TypeOK'
  <2>1. Len(objects') <= 1 + MaxSwitches
    BY <1>3, <1>9, <1>10, GenHasRoom
  <2>2. current' \in 0 .. Len(objects') /\ pending' \subseteq DOMAIN objects'
    BY <1>9, <1>10 DEF BuildCandidate, TypeOK
  <2>3. round' \in [obj : 0 .. Len(objects'), rate : Value \cup {None}, done : BOOLEAN]
    <3>1. round' = round /\ round \in [obj : 0 .. Len(objects), rate : Value \cup {None}, done : BOOLEAN]
      BY DEF BuildCandidate, producer, TypeOK
    <3>2. 0 .. Len(objects) \subseteq 0 .. Len(objects')
      BY <1>9, <1>10
    <3> QED
      BY <3>1, <3>2
  <2> QED
    BY <2>1, <2>2, <2>3, <1>6, <1>10 DEF TypeOK, BuildCandidate, Popped, disk, cache, producer, Object
<1> QED
  BY <1>3, <1>4, <1>6, <1>8, <1>10, <1>12, <1>13, <1>14 DEF Top

\* A request or a round that leaves the stacks alone once the pool is subscribed.
LEMMA SwapTypes == ASSUME TypeInv, NEW i \in pending, Swap(i) PROVE TypeInv'
<1> USE DEF TypeInv
<1>1. subscribed /\ i \in DOMAIN objects
  BY DEF Booting, TypeOK
<1>2. FootingKept
  BY FootingStays DEF Swap
<1>3. Frames'
  BY <1>2, StackStays DEF Swap
<1>4. Booting' /\ Rounds'
  BY <1>1 DEF Booting, Rounds, Swap, producer
<1>5. TypeOK'
  BY <1>1 DEF TypeOK, Swap, disk, cache, producer
<1> QED
  BY <1>3, <1>4, <1>5

LEMMA PreflightTypes == ASSUME TypeInv, NEW i \in pending, PreflightFails(i) PROVE TypeInv'
<1> USE DEF TypeInv
<1>1. subscribed
  BY DEF Booting
<1>2. FootingKept
  BY FootingStays DEF PreflightFails
<1>3. Frames'
  BY <1>2, StackStays DEF PreflightFails
<1>4. Booting' /\ Rounds'
  BY <1>1 DEF Booting, Rounds, PreflightFails, producer
<1>5. TypeOK'
  BY <1>1 DEF TypeOK, PreflightFails, disk, cache, producer
<1> QED
  BY <1>3, <1>4, <1>5

LEMMA EveObjects ==
  ASSUME TypeInv, NEW value \in Value, SetEve(value)
  PROVE  /\ objects' \in Seq([name : Backend, cfg : [1 .. Len(FieldOrder) -> Value]])
         /\ Len(objects') = Len(objects) /\ DOMAIN objects' = DOMAIN objects
         /\ \A i \in DOMAIN objects : objects'[i].cfg[1] = objects[i].cfg[1]
         /\ subscribed /\ current \in DOMAIN objects
<1>1. subscribed /\ current \in DOMAIN objects
  BY DEF SetEve, LoopIdle, TypeInv, Booting
<1>2. objects[current].cfg \in [1 .. Len(FieldOrder) -> Value]
  BY <1>1, ObjectType DEF TypeInv
<1>3. PICK cfg \in [1 .. Len(FieldOrder) -> Value] : cfg = [objects[current].cfg EXCEPT ![3] = value]
  BY <1>2
<1>4. PICK i \in DOMAIN objects : i = current
  BY <1>1
<1>5. cfg[1] = objects[i].cfg[1]
  BY <1>2, <1>3, <1>4, FieldsOfOrder
<1>6. objects' = [objects EXCEPT ![i].cfg = cfg]
  BY <1>3, <1>4 DEF SetEve
<1> QED
  BY <1>1, <1>5, <1>6, UpdatedObjects DEF TypeInv

LEMMA SetEveTypes == ASSUME TypeInv, NEW value \in Value, SetEve(value) PROVE TypeInv'
<1> USE DEF TypeInv
<1>1. /\ objects' \in Seq([name : Backend, cfg : [1 .. Len(FieldOrder) -> Value]])
      /\ Len(objects') = Len(objects) /\ DOMAIN objects' = DOMAIN objects
      /\ subscribed /\ current \in DOMAIN objects
  BY EveObjects
<1>2. FootingKept
  BY <1>1, FootingStays DEF SetEve
<1>3. Frames'
  BY <1>2, StackStays DEF SetEve
<1>4. Booting' /\ Rounds'
  BY <1>1 DEF Booting, Rounds, SetEve, producer
<1>5. changes' \in 0 .. MaxChanges
  BY GenHasRoom DEF SetEve, TypeOK
<1>6. TypeOK'
  BY <1>1, <1>5 DEF TypeOK, SetEve, disk, cache, producer
<1> QED
  BY <1>3, <1>4, <1>6

\* The rate of a backend is its first parameter.
LEMMA RateType == ASSUME TypeOK, NEW i \in DOMAIN objects PROVE Rate(i) \in Value
<1>1. objects[i] \in [name : Backend, cfg : [1 .. Len(FieldOrder) -> Value]]
  BY ObjectType
<1> QED
  BY <1>1, FieldsOfOrder DEF Rate

LEMMA StartRoundTypes == ASSUME TypeInv, StartRound PROVE TypeInv'
<1> USE DEF TypeInv
<1>1. subscribed /\ current \in DOMAIN objects /\ Rate(current) \in Value
  BY RateType DEF StartRound, LoopIdle, Booting
<1>2. FootingKept
  BY FootingStays DEF StartRound, backends
<1>3. Frames'
  BY <1>2, StackStays DEF StartRound
<1>4. UNCHANGED <<subscribed, objects, current, pending>> /\ round'.done = FALSE
      /\ round' \in [obj : 0 .. Len(objects), rate : Value \cup {None}, done : BOOLEAN]
      /\ round'.obj = current
  BY <1>1 DEF StartRound, backends, TypeOK
<1>5. Booting' /\ Rounds'
  BY <1>1, <1>4 DEF Booting, Rounds
<1>6. rounds' \in 0 .. MaxRounds /\ steady' \in BOOLEAN
  BY GenHasRoom DEF StartRound, TypeOK
<1>7. TypeOK'
  BY <1>4, <1>6 DEF TypeOK, StartRound, disk, cache
<1> QED
  BY <1>3, <1>5, <1>7

LEMMA EndRoundTypes ==
  ASSUME TypeInv, EndRound
  PROVE  /\ TypeInv' /\ round'.obj = round.obj /\ round' # NoRound
         /\ round'.rate = IF round.rate = None THEN Rate(round.obj) ELSE round.rate
<1> USE DEF TypeInv
<1>1. subscribed /\ round.obj \in DOMAIN objects /\ Rate(round.obj) \in Value
  BY RateType DEF EndRound, LoopIdle, Rounds
<1>2. FootingKept
  BY FootingStays DEF EndRound, backends
<1>3. Frames'
  BY <1>2, StackStays DEF EndRound
<1>4. UNCHANGED <<subscribed, objects, current, pending, rounds, stats>>
  BY DEF EndRound, backends
<1> DEFINE rate == IF round.rate = None THEN Rate(round.obj) ELSE round.rate
<1>5. round' = [round EXCEPT !.done = TRUE, !.rate = rate]
  BY DEF EndRound
<1>6. round \in [obj : 0 .. Len(objects), rate : Value \cup {None}, done : BOOLEAN]
  BY DEF TypeOK
<1>7. rate \in Value
  BY <1>1, <1>6
<1> HIDE DEF rate
<1>8. /\ round' \in [obj : 0 .. Len(objects), rate : Value \cup {None}, done : BOOLEAN]
      /\ round'.obj = round.obj /\ round'.rate = rate /\ round'.done = TRUE
  BY <1>5, <1>6, <1>7
<1>9. round' # NoRound /\ rate # None
  BY <1>7, <1>8, BackendAssumption DEF NoRound
<1>10. Booting' /\ Rounds'
  BY <1>1, <1>4, <1>8, <1>9 DEF Booting, Rounds
<1>11. TypeOK'
  BY <1>4, <1>8 DEF TypeOK, EndRound, disk, cache
<1> QED
  BY <1>3, <1>8, <1>9, <1>10, <1>11 DEF rate

LEMMA RecordTypes == ASSUME TypeInv, Record PROVE TypeInv'
<1> USE DEF TypeInv
<1>1. subscribed
  BY DEF Record, Booting, Rounds
<1>2. FootingKept
  BY FootingStays DEF Record, backends
<1>3. Frames'
  BY <1>2, StackStays DEF Record
<1>4. Booting' /\ Rounds'
  BY <1>1 DEF Booting, Rounds, Record, backends, NoRound
<1>5. NoRound \in [obj : 0 .. Len(objects), rate : Value \cup {None}, done : BOOLEAN]
  BY DEF NoRound, TypeOK
<1>6. stats' \in [rate : Value \cup {None}, gen : Nat \cup {None}, steady : BOOLEAN]
  BY GenHasRoom DEF Record, TypeOK
<1>7. TypeOK'
  BY <1>5, <1>6 DEF TypeOK, Record, disk, cache, backends
<1> QED
  BY <1>3, <1>4, <1>7

LEMMA WriteFileTypes ==
  ASSUME TypeInv, NEW content \in {NoParams, [f \in Field |-> 1]}, WriteFile(content)
  PROVE  TypeInv'
<1> USE DEF TypeInv
<1>1. FootingKept
  BY FootingStays DEF WriteFile, backends
<1>2. Frames'
  BY <1>1, StackStays DEF WriteFile
<1>3. Booting' /\ Rounds'
  BY DEF Booting, Rounds, WriteFile, backends, producer
<1>4. content \in Params
  BY DEF NoParams, Params, Value
<1>5. TypeOK'
  BY <1>4 DEF TypeOK, WriteFile, cache, backends, producer
<1> QED
  BY <1>2, <1>3, <1>5
LEMMA InitTypes == ASSUME Init PROVE TypeInv
<1> DEFINE c == [at |-> "get", outer |-> FALSE, use |-> "boot", obj |-> 0,
                 got |-> <<>>, eff |-> NoParams]
<1>1. c \in Call /\ Shape(c) /\ c.use = "boot" /\ c.at = "get"
  <2>1. NoParams \in Params /\ <<>> \in Seq(Value) /\ Len(<<>>) = 0
    BY DEF NoParams, Params
  <2> QED
    BY <2>1 DEF Call, Shape
<1>2. stack["loop"] = <<c>> /\ stack["watchdog"] = <<>> /\ stack = [t \in Thread |-> stack[t]]
  BY DEF Init, Thread
<1> HIDE DEF c
<1>3. stack \in [Thread -> Seq(Call)]
  <2>1. <<c>> \in Seq(Call) /\ <<>> \in Seq(Call)
    BY <1>1
  <2>2. \A t \in Thread : stack[t] \in Seq(Call)
    BY <1>2, <2>1 DEF Thread
  <2> QED
    BY <1>2, <2>2
<1>4. Len(stack["loop"]) = 1 /\ stack["loop"][1] = c /\ Len(stack["watchdog"]) = 0
      /\ stack["loop"] # <<>>
  BY <1>2
<1>5. Frame("loop", 1)
  <2>1. ~subscribed
    BY DEF Init
  <2>2. Footing(c)
    BY <1>1, <2>1, BackendAssumption DEF Footing
  <2> QED
    BY <1>1, <1>4, <2>2 DEF Frame, Footing, Shape
<1>6. Frames
  <2>1. \A i \in 1 .. Len(stack["loop"]) : i = 1
    BY <1>4
  <2>2. \A i \in 1 .. Len(stack["watchdog"]) : FALSE
    BY <1>4
  <2> QED
    BY <1>5, <2>1, <2>2 DEF Frames, Thread
<1>7. Booting
  BY <1>1, <1>4 DEF Booting, Init
<1>8. Rounds
  BY DEF Rounds, Init, NoRound
<1>9. TypeOK
  <2>1. file \in Params /\ raw \in Params /\ overrides \in Params
    BY DEF Init, Params, NoParams, Value
  <2>2. written \in Times /\ mtime \in Times /\ unused \subseteq Times
    BY DEF Init
  <2>3. gen \in 1 .. MaxGen /\ rounds \in 0 .. MaxRounds /\ changes \in 0 .. MaxChanges
    BY GenHasRoom DEF Init
  <2>4. /\ objects \in Seq([name : Backend, cfg : [1 .. Len(FieldOrder) -> Value]])
        /\ Len(objects) = 0
    <3> DEFINE Object == [name : Backend, cfg : [1 .. Len(FieldOrder) -> Value]]
    <3> HIDE DEF Object
    <3>1. objects \in Seq(Object) /\ Len(objects) = 0
      BY DEF Init
    <3> QED
      BY <3>1 DEF Object
  <2>5. Len(objects) <= 1 + MaxSwitches /\ current \in 0 .. Len(objects)
        /\ pending \subseteq DOMAIN objects
    BY <2>4, GenHasRoom DEF Init
  <2>6. round \in [obj : 0 .. Len(objects), rate : Value \cup {None}, done : BOOLEAN]
    BY <2>4 DEF Init, NoRound
  <2>7. stats \in [rate : Value \cup {None}, gen : Nat \cup {None}, steady : BOOLEAN]
    BY DEF Init
  <2>8. subscribed \in BOOLEAN /\ disturbed \in BOOLEAN /\ steady \in BOOLEAN
    BY DEF Init
  <2> QED
    BY <1>3, <2>1, <2>2, <2>3, <2>4, <2>5, <2>6, <2>7, <2>8 DEF TypeOK
<1> QED
  BY <1>6, <1>7, <1>8, <1>9 DEF TypeInv

LEMMA StutterTypes == ASSUME TypeInv, UNCHANGED vars PROVE TypeInv'
<1> USE DEF TypeInv, vars
<1>1. FootingKept
  BY FootingStays DEF backends
<1>2. Frames'
  BY <1>1, StackStays
<1>3. Booting' /\ Rounds'
  BY DEF Booting, Rounds, backends, producer
<1>4. TypeOK'
  BY DEF TypeOK, disk, cache, backends, producer
<1> QED
  BY <1>2, <1>3, <1>4

LEMMA NextTypes == ASSUME TypeInv, [Next]_vars PROVE TypeInv'
<1>1. ASSUME NEW t \in Thread, Continue(t) PROVE TypeInv'
  BY <1>1, StatFileTypes, GetFieldTypes, UpdateConfigTypes, RaisedTypes DEF Continue
<1>2. ASSUME Requests PROVE TypeInv'
  BY <1>2, ReloadTypes, ClearOverridesTypes, SetOverridesTypes, SwitchBackendTypes,
     SetEveTypes DEF Requests
<1>3. ASSUME Switching PROVE TypeInv'
  BY <1>3, BuildCandidateTypes, SwapTypes, PreflightTypes DEF Switching
<1> QED
  BY <1>1, <1>2, <1>3, PollTypes, BootBackendTypes, SubscribeTypes, StartRoundTypes,
     EndRoundTypes, RecordTypes, WriteFileTypes, StutterTypes DEF Next

\* The state has its types whatever the calls that the two threads nest: a
\* listener updates an object that exists, with a configuration it has read to the
\* end, and the list of backends keeps its bound.
THEOREM StoreTypes == Spec => []TypeOK
<1>1. Init => TypeInv
  BY InitTypes
<1>2. TypeInv /\ [Next]_vars => TypeInv'
  BY NextTypes
<1>3. TypeInv => TypeOK
  BY DEF TypeInv
<1> QED
  BY <1>1, <1>2, <1>3, PTL DEF Spec
-----------------------------------------------------------------------------
(* The last change.                                                        *)

LEMMA EffectiveStays ==
  ASSUME UNCHANGED <<raw, overrides>>
  PROVE  /\ Effective' = Effective /\ Complete' = Complete
         /\ \A j \in 1 .. 3 : InForce(j)' = InForce(j)
<1>1. Effective' = Effective
  BY DEF Effective
<1> QED
  BY <1>1 DEF Complete, InForce

LEMMA CompleteReads ==
  ASSUME NEW j \in 1 .. 3, InForce(j) = None PROVE ~Complete
BY FieldsOfOrder DEF Complete, InForce

\* When a call is under way and nothing was disturbed, it is the only one.
LEMMA LoneOf ==
  ASSUME TypeInv, Applied, ~disturbed, NEW t \in Thread, stack[t] # <<>>
  PROVE  LoneCall(t) /\ Top(t) = stack[t][1] /\ Len(stack[t]) = 1
<1>1. ~Quiet /\ ~LoneCandidate
  BY DEF Quiet, LoneCandidate
<1>2. PICK u \in Thread : LoneCall(u)
  BY <1>1 DEF Applied
<1>3. u = t
  BY <1>2 DEF LoneCall
<1> QED
  BY <1>2, <1>3 DEF LoneCall, Top

LEMMA QuietInUse == ASSUME TypeInv, Applied, ~disturbed, Quiet PROVE InUse
<1>1. \A t \in Thread : Len(stack[t]) = 0
  BY DEF Quiet
<1> QED
  BY <1>1 DEF Applied, Quiet, LoneCandidate, LoneCall

\* A change that overlaps nothing is the only call under way.
LEMMA ChangedApplied ==
  ASSUME TypeInv, Changed(~Quiet), UNCHANGED backends, NEW t \in Thread, NEW c \in Call,
         Pushed(t, c), c.got = <<>>, c.at \in {"stat", "get"}, c.use = "notify",
         c.at = "get" => c.obj = current
  PROVE  Applied'
<1> SUFFICES ASSUME Quiet PROVE LoneCall(t)'
  BY DEF Applied, Changed
<1>1. \A u \in Thread : stack[u] = <<>> /\ Len(stack[u]) = 0
  BY DEF Quiet
<1>2. /\ Len(stack'[t]) = 1 /\ stack'[t][1] = c
      /\ \A u \in Thread \ {t} : stack'[u] = <<>>
  BY <1>1 DEF Pushed, Others
<1>3. UNCHANGED current /\ pending' = {}
  BY DEF Quiet, backends
<1>4. \A j \in 1 .. Len(c.got) : FALSE
  BY DEF Call
<1> QED
  BY <1>2, <1>3, <1>4, BackendAssumption DEF LoneCall

LEMMA ReadFileApplied ==
  ASSUME TypeInv, NEW t \in Thread, NEW outer \in BOOLEAN, ReadFile(t, outer),
         Pushed(t, ReadingCall(outer))
  PROVE  Applied'
<1>1. PICK c \in Call : c = ReadingCall(outer)
  BY ReadingCallType
<1>2. c.got = <<>> /\ c.at = "stat" /\ c.use = "notify"
  BY <1>1 DEF ReadingCall
<1> QED
  BY <1>1, <1>2, ChangedApplied DEF ReadFile

LEMMA OverridesApplied ==
  ASSUME TypeInv, Changed(~Quiet), UNCHANGED backends,
         Push("loop", Notification(FALSE, NoParams))
  PROVE  Applied'
<1>1. NoParams \in Params
  BY DEF NoParams, Params
<1>2. PICK eff \in Params : eff = NoParams
  BY <1>1
<1>3. PICK c \in Call : c = Notification(FALSE, eff)
  BY NotificationCall DEF TypeInv
<1>4. Pushed("loop", c)
  BY <1>2, <1>3, PushPushes, ThreadsAreTwo DEF TypeInv
<1>5. c.got = <<>> /\ c.at = "get" /\ c.use = "notify" /\ c.obj = current
  BY <1>3 DEF Notification
<1> QED
  BY <1>4, <1>5, ChangedApplied, ThreadsAreTwo

\* The call goes on: the only one under way still is.
LEMMA LoneReplaced ==
  ASSUME NEW t \in Thread, LoneCall(t), NEW c \in Call, Replaced(t, c),
         UNCHANGED <<raw, overrides, objects, current, pending>>,
         \A j \in 1 .. Len(c.got) : j \in 1 .. 3 /\ c.got[j] = InForce(j),
         c.at = "raise" => ~Complete, c.at # "subscribe",
         c.use = "notify" => c.obj = current,
         c.use = stack[t][1].use
  PROVE  LoneCall(t)'
<1>1. /\ Len(stack'[t]) = 1 /\ stack'[t][1] = c
      /\ \A u \in Thread \ {t} : stack'[u] = <<>>
  BY DEF Replaced, Others, LoneCall
<1>2. /\ Complete' = Complete /\ \A j \in 1 .. 3 : InForce(j)' = InForce(j)
  BY EffectiveStays
<1>3. \A j \in 1 .. Len(c.got) : c.got[j] = InForce(j)'
  BY <1>2
<1>4. InUse' = InUse
  BY <1>2, FieldsOfOrder DEF InUse, UpToDate
<1> QED
  BY <1>1, <1>2, <1>3, <1>4 DEF LoneCall

LEMMA StatFileApplied ==
  ASSUME TypeInv, Applied, NEW t \in Thread, StatFile(t) PROVE Applied'
<1> SUFFICES ASSUME ~disturbed PROVE LoneCall(t)'
  BY DEF Applied, StatFile
<1>1. stack[t] # <<>> /\ Top(t).at = "stat" /\ Effective \in Params
  BY EffectiveType DEF StatFile, At, TypeInv
<1>2. LoneCall(t) /\ Top(t) = stack[t][1]
  BY <1>1, LoneOf
<1>3. Top(t) \in Call /\ Top(t).use = "notify"
  BY <1>1, TopOf DEF Shape
<1>4. subscribed
  <2> SUFFICES ASSUME ~subscribed PROVE FALSE
    OBVIOUS
  <2>1. stack["loop"] # <<>> /\ stack["loop"][1].use = "boot"
    BY DEF TypeInv, Booting
  <2>2. t = "loop"
    BY <1>2, <2>1, ThreadsAreTwo DEF LoneCall
  <2> QED
    BY <1>2, <1>3, <2>1, <2>2
<1>5. PICK outer \in BOOLEAN : outer = Top(t).outer
  BY <1>3 DEF Call
<1>6. PICK eff \in Params : eff = Effective
  BY <1>1
<1>7. PICK c \in Call : c = Notification(outer, eff)
  BY NotificationCall DEF TypeInv
<1>8. Replaced(t, c)
  BY <1>1, <1>4, <1>5, <1>6, <1>7, ReplaceReplaces DEF StatFile, TypeInv
<1>9. c.at = "get" /\ c.use = "notify" /\ c.obj = current /\ \A j \in 1 .. Len(c.got) : FALSE
  BY <1>7 DEF Notification
<1>10. UNCHANGED <<raw, overrides, objects, current, pending>>
  BY DEF StatFile, backends
<1> QED
  BY <1>2, <1>3, <1>8, <1>9, <1>10, LoneReplaced

\* The call that read a parameter, from GetField.
TakenCall(t) == Take(Top(t), Effective)

LEMMA TakenReplaces ==
  ASSUME TypeInv, NEW t \in Thread, GetField(t), ~Stale
  PROVE  \E c \in Call :
           /\ c = TakenCall(t) /\ Replaced(t, c) /\ c.use = Top(t).use /\ c.obj = Top(t).obj
           /\ c.at \in {"raise", "get", "use"}
<1>1. stack[t] # <<>> /\ Top(t).at = "get" /\ Effective \in Params
  BY EffectiveType DEF GetField, At, TypeInv
<1>2. Top(t) \in Call /\ Len(Top(t).got) < 3
  BY <1>1, TopOf DEF Shape
<1>3. PICK b \in Call : b = Top(t)
  BY <1>2
<1>4. PICK eff \in Params : eff = Effective
  BY <1>1
<1> DEFINE value == WithDefault(FieldOrder[Len(b.got) + 1], eff[FieldOrder[Len(b.got) + 1]])
           c == Take(b, eff)
<1>5. c \in Call /\ c.use = b.use /\ c.obj = b.obj /\ c.at \in {"raise", "get", "use"}
  <2>1. b.at = "get" /\ Len(b.got) < 3
    BY <1>1, <1>2, <1>3
  <2>2. CASE value = None
    BY <2>1, <2>2, TakeReads
  <2>3. CASE value # None
    BY <2>1, <2>3, TakeReads
  <2> QED
    BY <2>2, <2>3
<1>6. PICK d \in Call : d = c
  BY <1>5
<1>7. Replaced(t, d)
  <2>1. Replace(t, d)
    BY <1>3, <1>4, <1>6 DEF GetField
  <2> QED
    BY <1>1, <2>1, ReplaceReplaces DEF TypeInv
<1>8. d = TakenCall(t)
  BY <1>3, <1>4, <1>6 DEF TakenCall
<1> HIDE DEF c
<1> QED
  BY <1>3, <1>5, <1>6, <1>7, <1>8

LEMMA GetFieldApplied ==
  ASSUME TypeInv, Applied, NEW t \in Thread, GetField(t), ~Stale PROVE Applied'
<1> SUFFICES ASSUME ~disturbed PROVE LoneCall(t)'
  BY DEF Applied, GetField
<1>1. stack[t] # <<>> /\ Top(t).at = "get" /\ Effective \in Params
  BY EffectiveType DEF GetField, At, TypeInv
<1>2. LoneCall(t) /\ Top(t) = stack[t][1]
  BY <1>1, LoneOf
<1>3. PICK b \in Call : b = Top(t) /\ b.at = "get" /\ Len(b.got) < 3
  BY <1>1, TopOf DEF Shape
<1>4. PICK eff \in Params : eff = Effective
  BY <1>1
<1>5. PICK c \in Call :
        /\ c = TakenCall(t) /\ Replaced(t, c) /\ c.use = Top(t).use /\ c.obj = Top(t).obj
        /\ c.at \in {"raise", "get", "use"}
  BY TakenReplaces
<1> DEFINE n == Len(b.got) + 1
           value == WithDefault(FieldOrder[n], eff[FieldOrder[n]])
<1>6. c = Take(b, eff)
  BY <1>3, <1>4, <1>5 DEF TakenCall
<1>7. value = InForce(n)
  BY <1>4 DEF InForce
<1>8. /\ n \in 1 .. 3
      /\ value = None => c.at = "raise" /\ c.got = b.got
      /\ value # None => c.at # "raise" /\ c.got = Append(b.got, value)
  BY <1>3, <1>6, TakeReads
<1>9. b.got \in Seq(Value) /\ c.got \in Seq(Value)
  BY DEF Call
<1>10. \A j \in 1 .. Len(b.got) : b.got[j] = InForce(j) /\ j \in 1 .. 3
  BY <1>2, <1>3, <1>9 DEF LoneCall
<1> HIDE DEF value
<1>11. \A j \in 1 .. Len(c.got) : j \in 1 .. 3 /\ c.got[j] = InForce(j)
  <2>1. CASE value = None
    BY <2>1, <1>8, <1>10
  <2>2. CASE value # None
    <3>1. c.got = Append(b.got, value) /\ Len(b.got) \in Nat
      BY <2>2, <1>8, <1>9
    <3>2. Len(c.got) = n /\ c.got[n] = value /\ \A j \in 1 .. Len(b.got) : c.got[j] = b.got[j]
      BY <3>1, <1>9
    <3> SUFFICES ASSUME NEW j \in 1 .. Len(c.got) PROVE j \in 1 .. 3 /\ c.got[j] = InForce(j)
      OBVIOUS
    <3>3. j = n \/ j \in 1 .. Len(b.got)
      BY <3>1, <3>2
    <3> QED
      BY <3>2, <3>3, <1>7, <1>8, <1>10
  <2> QED
    BY <2>1, <2>2
<1>12. c.at = "raise" => ~Complete
  BY <1>7, <1>8, CompleteReads
<1>13. c.use = "notify" => c.obj = current
  BY <1>1, <1>2, <1>5 DEF LoneCall
<1>14. UNCHANGED <<raw, overrides, objects, current, pending>>
  BY DEF GetField, cache, backends
<1>15. c.use = stack[t][1].use /\ c.at # "subscribe"
  BY <1>2, <1>5
<1> QED
  BY <1>2, <1>5, <1>11, <1>12, <1>13, <1>14, <1>15, LoneReplaced
\* The only call returned: nothing is under way.
LEMMA LonePopped ==
  ASSUME NEW t \in Thread, NEW eff \in Params, Popped(t, eff), LoneCall(t)
  PROVE  \A u \in Thread : stack'[u] = <<>>
BY EmptyIsZero DEF Popped, Others, LoneCall

LEMMA FullIsInForce ==
  ASSUME NEW c \in Call, Len(c.got) = 3,
         \A j \in 1 .. Len(c.got) : c.got[j] = InForce(j)
  PROVE  c.got = [j \in DOMAIN FieldOrder |-> InForce(j)]
<1>1. c.got \in [1 .. 3 -> Value]
  BY FullReading, FieldsOfOrder
<1> QED
  BY <1>1, FieldsOfOrder

LEMMA UpToDateStays ==
  ASSUME UNCHANGED <<raw, overrides>>, NEW i, NEW k, objects'[k].cfg = objects[i].cfg
  PROVE  UpToDate(k)' <=> UpToDate(i)
<1>1. \A j \in 1 .. 3 : InForce(j)' = InForce(j)
  BY EffectiveStays
<1>2. [j \in DOMAIN FieldOrder |-> InForce(j)]' = [j \in DOMAIN FieldOrder |-> InForce(j)]
  BY <1>1, FieldsOfOrder
<1> QED
  BY <1>2 DEF UpToDate

LEMMA InUseStays ==
  ASSUME InUse, UNCHANGED <<raw, overrides, current>>, objects'[current].cfg = objects[current].cfg
  PROVE  InUse'
<1>1. PICK k : k = current
  OBVIOUS
<1>2. UpToDate(k)' <=> UpToDate(k)
  BY <1>1, UpToDateStays
<1>3. Complete' = Complete
  BY EffectiveStays
<1>4. k = current'
  BY <1>1
<1> QED
  BY <1>1, <1>2, <1>3, <1>4 DEF InUse, UpToDate

LEMMA UpdateConfigApplied ==
  ASSUME TypeInv, Applied, NEW t \in Thread, UpdateConfig(t) PROVE Applied'
<1> SUFFICES ASSUME ~disturbed PROVE Quiet' /\ InUse'
  BY DEF Applied, UpdateConfig
<1>1. stack[t] # <<>> /\ Top(t).at = "use" /\ Top(t).use = "notify"
  BY DEF UpdateConfig, Using, At
<1>2. LoneCall(t) /\ Top(t) = stack[t][1]
  BY <1>1, LoneOf
<1>3. PICK c \in Call : c = Top(t) /\ Len(c.got) = 3 /\ c.obj \in DOMAIN objects
  BY <1>1, TopOf DEF Shape, Footing
<1>4. c.obj = current /\ \A j \in 1 .. Len(c.got) : c.got[j] = InForce(j)
  BY <1>1, <1>2, <1>3 DEF LoneCall
<1>5. PICK i \in DOMAIN objects : i = current
  BY <1>3, <1>4
<1>6. PICK cfg \in [1 .. Len(FieldOrder) -> Value] : cfg = c.got
  BY <1>3, FullReading
<1>7. objects'[i].cfg = cfg
  BY <1>3, <1>4, <1>5, <1>6, UpdatedObjects DEF UpdateConfig, TypeInv
<1>8. \A u \in Thread : stack'[u] = <<>>
  <2>1. PICK eff \in Params : eff = Top(t).eff
    BY <1>3 DEF Call
  <2>2. Popped(t, eff)
    BY <1>1, <2>1, ReturnPops DEF UpdateConfig, Return, TypeInv
  <2> QED
    BY <1>2, <2>2, LonePopped
<1>9. Quiet'
  BY <1>2, <1>8 DEF Quiet, LoneCall, UpdateConfig
<1>10. UpToDate(i)'
  <2>1. c.got = [j \in DOMAIN FieldOrder |-> InForce(j)]
    BY <1>3, <1>4, FullIsInForce
  <2>2. \A j \in 1 .. 3 : InForce(j)' = InForce(j)
    BY EffectiveStays DEF UpdateConfig, cache
  <2>3. [j \in DOMAIN FieldOrder |-> InForce(j)]' = [j \in DOMAIN FieldOrder |-> InForce(j)]
    BY <2>2, FieldsOfOrder
  <2> QED
    BY <1>6, <1>7, <2>1, <2>3 DEF UpToDate
<1>11. i = current'
  BY <1>5 DEF UpdateConfig
<1> QED
  BY <1>9, <1>10, <1>11 DEF InUse, UpToDate

LEMMA RaisedApplied ==
  ASSUME TypeInv, Applied, NEW t \in Thread, Raised(t) PROVE Applied'
<1> SUFFICES ASSUME ~disturbed PROVE Quiet' /\ InUse'
  BY DEF Applied, Raised
<1>1. stack[t] # <<>> /\ Top(t).at = "raise"
  BY DEF Raised, At
<1>2. LoneCall(t) /\ Top(t) = stack[t][1]
  BY <1>1, LoneOf
<1>3. Top(t) \in Call
  BY <1>1, TopOf
<1>4. PICK eff \in Params : eff = Top(t).eff
  BY <1>3 DEF Call
<1>5. Popped(t, eff)
  BY <1>1, <1>4, ReturnPops DEF Raised, Return, TypeInv
<1>6. Quiet'
  BY <1>2, <1>5, LonePopped DEF Quiet, LoneCall, Raised, backends
<1>7. ~Complete'
  BY <1>1, <1>2, EffectiveStays DEF LoneCall, Raised, cache
<1> QED
  BY <1>6, <1>7 DEF InUse

LEMMA BootBackendApplied ==
  ASSUME TypeInv, Applied, BootBackend PROVE Applied'
<1> SUFFICES ASSUME ~disturbed PROVE LoneCall("loop")'
  BY ThreadsAreTwo DEF Applied, BootBackend
<1>1. stack["loop"] # <<>> /\ Top("loop").at = "use" /\ Top("loop").use = "boot"
  BY DEF BootBackend, Using, At
<1>2. LoneCall("loop") /\ Top("loop") = stack["loop"][1]
  BY <1>1, LoneOf, ThreadsAreTwo
<1>3. PICK b \in Call : b = Top("loop") /\ Len(b.got) = 3
  BY <1>1, TopOf, ThreadsAreTwo DEF Shape
<1> DEFINE d == [b EXCEPT !.at = "subscribe"]
<1>4. d \in Call /\ d.use = "boot" /\ d.at = "subscribe" /\ d.got = b.got
  BY <1>1, <1>3 DEF Call
<1>5. PICK c \in Call : c = d
  BY <1>4
<1>6. Replaced("loop", c)
  <2>1. Replace("loop", c)
    BY <1>3, <1>5 DEF BootBackend
  <2> QED
    BY <2>1, <1>1, ReplaceReplaces, ThreadsAreTwo DEF TypeInv
<1>7. /\ Len(stack'["loop"]) = 1 /\ stack'["loop"][1] = c
      /\ \A u \in Thread \ {"loop"} : stack'[u] = <<>>
  BY <1>2, <1>6 DEF Replaced, Others, LoneCall
<1>8. \A j \in 1 .. 3 : InForce(j)' = InForce(j)
  BY EffectiveStays DEF BootBackend, cache
<1>9. \A j \in 1 .. Len(b.got) : b.got[j] = InForce(j)
  BY <1>2, <1>3 DEF LoneCall
<1> HIDE DEF d
<1>10. \A j \in 1 .. Len(c.got) : c.got[j] = InForce(j)'
  BY <1>3, <1>4, <1>5, <1>8, <1>9
<1>11. objects'[1].cfg = b.got /\ current' = 1
  BY <1>3 DEF BootBackend
<1>12. UpToDate(1)'
  <2>1. b.got = [j \in DOMAIN FieldOrder |-> InForce(j)]
    BY <1>3, <1>9, FullIsInForce
  <2>2. [j \in DOMAIN FieldOrder |-> InForce(j)]' = [j \in DOMAIN FieldOrder |-> InForce(j)]
    BY <1>8, FieldsOfOrder
  <2> QED
    BY <1>11, <2>1, <2>2 DEF UpToDate
<1>13. pending' = {}
  BY <1>2 DEF LoneCall, BootBackend
<1>14. UpToDate(current)'
  BY <1>11, <1>12 DEF UpToDate
<1> QED
  BY <1>4, <1>5, <1>7, <1>10, <1>13, <1>14, BackendAssumption DEF LoneCall

LEMMA SubscribeApplied ==
  ASSUME TypeInv, Applied, Subscribe PROVE Applied'
<1> SUFFICES ASSUME ~disturbed PROVE Quiet' /\ InUse'
  BY DEF Applied, Subscribe
<1>1. stack["loop"] # <<>> /\ Top("loop").at = "subscribe"
  BY DEF Subscribe, At
<1>2. LoneCall("loop") /\ Top("loop") = stack["loop"][1]
  BY <1>1, LoneOf, ThreadsAreTwo
<1>3. Top("loop") \in Call
  BY <1>1, TopOf, ThreadsAreTwo
<1>4. PICK eff \in Params : eff = Top("loop").eff
  BY <1>3 DEF Call
<1>5. Popped("loop", eff)
  BY <1>1, <1>4, ReturnPops, ThreadsAreTwo DEF Subscribe, Return, TypeInv
<1>6. Quiet'
  BY <1>2, <1>5, LonePopped, ThreadsAreTwo DEF Quiet, LoneCall, Subscribe, backends
<1>7. InUse
  BY <1>1, <1>2 DEF LoneCall, InUse
<1> QED
  BY <1>6, <1>7, InUseStays DEF Subscribe, cache, backends

LEMMA SwitchBackendApplied ==
  ASSUME TypeInv, Applied, NEW name \in Backend, SwitchBackend(name) PROVE Applied'
<1> SUFFICES ASSUME ~disturbed, Quiet PROVE LoneCall("loop")'
  BY ThreadsAreTwo DEF Applied, SwitchBackend
<1>1. InUse
  BY QuietInUse
<1> DEFINE d == [at |-> "get", outer |-> FALSE, use |-> name, obj |-> 0, got |-> <<>>, eff |-> NoParams]
<1>2. d \in Call /\ d.at = "get" /\ d.use = name /\ Len(d.got) = 0
  <2>1. NoParams \in Params /\ <<>> \in Seq(Value) /\ Len(<<>>) = 0
    BY DEF NoParams, Params
  <2> QED
    BY <2>1 DEF Call
<1>3. PICK c \in Call : c = d
  BY <1>2
<1>4. Pushed("loop", c)
  BY <1>3, PushPushes, ThreadsAreTwo DEF SwitchBackend, TypeInv
<1> HIDE DEF d
<1>5. \A u \in Thread : stack[u] = <<>> /\ Len(stack[u]) = 0
  BY DEF Quiet
<1>6. /\ Len(stack'["loop"]) = 1 /\ stack'["loop"][1] = c
      /\ \A u \in Thread \ {"loop"} : stack'[u] = <<>>
  BY <1>4, <1>5, ThreadsAreTwo DEF Pushed, Others
<1>7. pending' = {}
  BY DEF Quiet, SwitchBackend, backends
<1>8. InUse'
  BY <1>1, InUseStays DEF SwitchBackend, cache, backends
<1>9. \A j \in 1 .. Len(c.got) : FALSE
  BY <1>2, <1>3
<1> QED
  BY <1>2, <1>3, <1>6, <1>7, <1>8, <1>9, BackendAssumption DEF LoneCall

LEMMA BuildCandidateApplied ==
  ASSUME TypeInv, Applied, BuildCandidate PROVE Applied'
<1> SUFFICES ASSUME ~disturbed PROVE LoneCandidate'
  BY DEF Applied, BuildCandidate
<1>1. PICK name \in Backend : Using("loop", name)
  BY DEF BuildCandidate
<1>2. stack["loop"] # <<>> /\ Top("loop").at = "use" /\ Top("loop").use = name
  BY <1>1 DEF Using, At
<1>3. LoneCall("loop") /\ Top("loop") = stack["loop"][1]
  BY <1>2, LoneOf, ThreadsAreTwo
<1>4. PICK c \in Call : c = Top("loop") /\ Len(c.got) = 3
  BY <1>2, TopOf, ThreadsAreTwo DEF Shape
<1>5. /\ \A i \in 1 .. Len(objects) : objects'[i] = objects[i]
      /\ objects'[Len(objects) + 1].cfg = c.got
      /\ \E eff \in Params : Popped("loop", eff)
  BY <1>4, BuildCandidateTypes
<1>6. \A u \in Thread : stack'[u] = <<>>
  BY <1>3, <1>5, LonePopped, ThreadsAreTwo
<1>7. \A j \in 1 .. 3 : InForce(j)' = InForce(j)
  BY EffectiveStays DEF BuildCandidate, cache
<1>8. PICK k : k = Len(objects) + 1
  OBVIOUS
<1>9. UpToDate(k)'
  <2>1. c.got = [j \in DOMAIN FieldOrder |-> InForce(j)]
    BY <1>3, <1>4, FullIsInForce DEF LoneCall
  <2>2. [j \in DOMAIN FieldOrder |-> InForce(j)]' = [j \in DOMAIN FieldOrder |-> InForce(j)]
    BY <1>7, FieldsOfOrder
  <2> QED
    BY <1>5, <1>8, <2>1, <2>2 DEF UpToDate
<1>10. pending' = {k}
  BY <1>3, <1>8 DEF BuildCandidate, LoneCall
<1>11. InUse'
  <2>1. InUse
    BY <1>2, <1>3 DEF LoneCall
  <2>2. subscribed
    BY <1>2, TopOf, ThreadsAreTwo DEF Footing
  <2>3. current \in 1 .. Len(objects)
    BY <2>2 DEF TypeInv, Booting, TypeOK
  <2> QED
    BY <1>5, <2>1, <2>3, InUseStays DEF BuildCandidate, cache
<1> QED
  BY <1>6, <1>9, <1>10, <1>11 DEF LoneCandidate

\* The candidate is the only thing under way.
LEMMA CandidateOf ==
  ASSUME TypeInv, Applied, ~disturbed, NEW i \in pending
  PROVE  LoneCandidate /\ pending = {i} /\ UpToDate(i)
BY DEF Applied, Quiet, LoneCall, LoneCandidate

LEMMA SwapApplied ==
  ASSUME TypeInv, Applied, NEW i \in pending, Swap(i) PROVE Applied'
<1> SUFFICES ASSUME ~disturbed PROVE Quiet' /\ InUse'
  BY DEF Applied, Swap
<1>1. LoneCandidate /\ pending = {i} /\ UpToDate(i)
  BY CandidateOf
<1>2. Quiet'
  BY <1>1 DEF Quiet, LoneCandidate, Swap
<1>3. UpToDate(i)'
  BY <1>1, UpToDateStays DEF Swap, cache
<1>4. i = current'
  BY DEF Swap
<1> QED
  BY <1>2, <1>3, <1>4 DEF InUse, UpToDate

LEMMA PreflightApplied ==
  ASSUME TypeInv, Applied, NEW i \in pending, PreflightFails(i) PROVE Applied'
<1> SUFFICES ASSUME ~disturbed PROVE Quiet' /\ InUse'
  BY DEF Applied, PreflightFails
<1>1. LoneCandidate /\ pending = {i}
  BY CandidateOf
<1>2. Quiet'
  BY <1>1 DEF Quiet, LoneCandidate, PreflightFails
<1> QED
  BY <1>1, <1>2, InUseStays DEF LoneCandidate, PreflightFails, cache

\* A step that leaves the parameters, the backends and the calls alone.
LEMMA AppliedStays ==
  ASSUME Applied, UNCHANGED <<raw, overrides, stack, backends, disturbed>> PROVE Applied'
<1>1. UNCHANGED <<objects, current, pending>>
  BY DEF backends
<1>2. /\ Complete' = Complete /\ \A j \in 1 .. 3 : InForce(j)' = InForce(j)
  BY EffectiveStays
<1>3. [j \in DOMAIN FieldOrder |-> InForce(j)]' = [j \in DOMAIN FieldOrder |-> InForce(j)]
  BY <1>2, FieldsOfOrder
<1>4. Quiet' = Quiet
  BY <1>1 DEF Quiet
<1>5. InUse' = InUse
  BY <1>1, <1>2, <1>3 DEF InUse, UpToDate
<1>6. LoneCandidate => LoneCandidate'
  BY <1>1, <1>3, <1>5 DEF LoneCandidate, UpToDate
<1>7. ASSUME NEW t \in Thread, LoneCall(t) PROVE LoneCall(t)'
  <2>1. \A j \in 1 .. Len(stack[t][1].got) : stack[t][1].got[j] = InForce(j)'
    <3>1. UNCHANGED Effective
      BY EffectiveStays
    <3> QED
      BY <1>7, <3>1 DEF LoneCall, InForce
  <2>2. UpToDate(current) => UpToDate(current)'
    BY <1>1, <1>3 DEF UpToDate
  <2> QED
    BY <1>1, <1>2, <1>5, <1>7, <2>1, <2>2 DEF LoneCall
<1> QED
  BY <1>4, <1>5, <1>6, <1>7 DEF Applied

LEMMA WriteFileApplied ==
  ASSUME TypeInv, Applied, NEW content, WriteFile(content) PROVE Applied'
<1> SUFFICES ASSUME ~disturbed, Quiet PROVE Quiet' /\ InUse'
  BY DEF Applied, WriteFile
<1>1. InUse
  BY QuietInUse
<1>2. Quiet'
  BY DEF Quiet, WriteFile, backends
<1> QED
  BY <1>1, <1>2, InUseStays DEF WriteFile, cache, backends
LEMMA NextApplied == ASSUME TypeInv, Applied, [Next]_vars PROVE Applied'
<1>1. ASSUME NEW t \in Thread, Poll(t) PROVE Applied'
  <2>1. stack[t] = <<>>
    BY <1>1 DEF Poll, Idle, LoopIdle
  <2>2. Pushed(t, ReadingCall(TRUE))
    BY <1>1, <2>1, ReadFileTypes DEF Poll, TypeInv, TypeOK
  <2> QED
    BY <1>1, <2>2, ReadFileApplied DEF Poll
<1>2. ASSUME NEW t \in Thread, GetField(t) PROVE Applied'
  <2>1. CASE Stale
    <3>1. ReadFile(t, TRUE) /\ Pushed(t, ReadingCall(TRUE))
      BY <1>2, <2>1, ReadFileTypes DEF GetField, TypeInv, TypeOK
    <3> QED
      BY <3>1, ReadFileApplied
  <2> QED
    BY <2>1, <1>2, GetFieldApplied
<1>3. ASSUME NEW t \in Thread, Continue(t) PROVE Applied'
  BY <1>3, <1>2, StatFileApplied, UpdateConfigApplied, RaisedApplied DEF Continue
<1>4. ASSUME Requests PROVE Applied'
  <2>1. CASE Reload
    <3>1. stack["loop"] = <<>> /\ changes' \in 0 .. MaxChanges
      BY <2>1, GenHasRoom DEF Reload, LoopIdle, TypeInv, TypeOK
    <3>2. Pushed("loop", ReadingCall(FALSE))
      BY <2>1, <3>1, ReadFileTypes, ThreadsAreTwo DEF Reload
    <3> QED
      BY <2>1, <3>2, ReadFileApplied, ThreadsAreTwo DEF Reload
  <2>2. CASE ClearOverrides
    BY <2>2, OverridesApplied DEF ClearOverrides
  <2>3. ASSUME NEW patch \in Patches, SetOverrides(patch) PROVE Applied'
    BY <2>3, OverridesApplied DEF SetOverrides
  <2>4. ASSUME NEW value \in Value, SetEve(value) PROVE Applied'
    BY <2>4 DEF SetEve, Applied
  <2> QED
    BY <1>4, <2>1, <2>2, <2>3, <2>4, SwitchBackendApplied DEF Requests
<1>5. ASSUME Switching PROVE Applied'
  BY <1>5, BuildCandidateApplied, SwapApplied, PreflightApplied DEF Switching
<1>6. ASSUME StartRound \/ EndRound \/ Record \/ UNCHANGED vars PROVE Applied'
  BY <1>6, AppliedStays DEF StartRound, EndRound, Record, vars, cache
<1> QED
  BY <1>1, <1>3, <1>4, <1>5, <1>6, BootBackendApplied, SubscribeApplied, WriteFileApplied
  DEF Next

-----------------------------------------------------------------------------
(* The rounds and their statistics.                                        *)

\* Every call of a stack does what one did before.
SameUses ==
  \A t \in Thread : \A i \in 1 .. Len(stack'[t]) :
    /\ i \in 1 .. Len(stack[t]) /\ stack'[t][i].use = stack[t][i].use

LEMMA ReplacedUses ==
  ASSUME TypeInv, NEW t \in Thread, NEW c \in Call, Replaced(t, c), stack[t] # <<>>,
         c.use = Top(t).use
  PROVE  SameUses
<1>1. \A u \in Thread : Len(stack[u]) \in Nat
  BY DEF TypeInv, TypeOK
<1> SUFFICES ASSUME NEW u \in Thread, NEW i \in 1 .. Len(stack'[u])
             PROVE  i \in 1 .. Len(stack[u]) /\ stack'[u][i].use = stack[u][i].use
  BY DEF SameUses
<1>2. CASE u # t
  BY <1>2 DEF Replaced, Others
<1>3. CASE u = t
  <2>1. i \in 1 .. Len(stack[t]) - 1 \/ i = Len(stack[t])
    BY <1>1, <1>3 DEF Replaced
  <2> QED
    BY <1>1, <1>3, <2>1 DEF Replaced, Top
<1> QED
  BY <1>2, <1>3

LEMMA PoppedUses ==
  ASSUME TypeInv, NEW t \in Thread, NEW eff \in Params, Popped(t, eff), stack[t] # <<>>
  PROVE  SameUses
<1>1. \A u \in Thread : Len(stack[u]) \in Nat
  BY DEF TypeInv, TypeOK
<1> SUFFICES ASSUME NEW u \in Thread, NEW i \in 1 .. Len(stack'[u])
             PROVE  i \in 1 .. Len(stack[u]) /\ stack'[u][i].use = stack[u][i].use
  BY DEF SameUses
<1>2. CASE u # t
  BY <1>2 DEF Popped, Others
<1>3. CASE u = t
  <2>1. i \in 1 .. Len(stack[t]) /\ i < Len(stack[t])
    BY <1>1, <1>3 DEF Popped
  <2>2. i \in 1 .. Len(stack[t]) - 2 \/ i = Len(stack[t]) - 1
    BY <1>1, <2>1
  <2>3. CASE i \in 1 .. Len(stack[t]) - 2
    BY <1>3, <2>1, <2>3 DEF Popped
  <2>4. CASE i = Len(stack[t]) - 1
    <3> DEFINE c == stack[t][i]
    <3>1. c \in Call
      BY <2>1, ElementOf DEF TypeInv, TypeOK
    <3>2. c.at = "get" /\ Len(c.got) < 3
      BY <2>1 DEF TypeInv, Frames, Frame, Shape
    <3>3. Len(stack[t]) > 1
      BY <1>1, <2>1, <2>4
    <3>4. stack'[t][i] = Take(c, eff)
      BY <2>4, <3>3 DEF Popped
    <3> HIDE DEF c
    <3>5. Take(c, eff).use = c.use
      BY <3>1, <3>2, TakeReads
    <3> QED
      BY <1>3, <2>1, <3>4, <3>5 DEF c
  <2> QED
    BY <2>2, <2>3, <2>4
<1> QED
  BY <1>2, <1>3

\* A call of the listener is under way: the round is not steady.
LEMMA NotifyingDisturbs ==
  ASSUME TypeInv, SteadyRound, NEW t \in Thread, stack[t] # <<>>, Top(t).use = "notify"
  PROVE  ~steady
<1>1. Len(stack[t]) \in 1 .. Len(stack[t])
  BY TopOf
<1> QED
  BY <1>1 DEF SteadyRound, Top

\* A change of the parameters: the rate recorded is of an earlier generation.
LEMMA ChangedRounds ==
  ASSUME TypeInv, RoundInv, NEW overlaps, Changed(overlaps), UNCHANGED stats PROVE RoundInv'
<1>1. gen \in Nat
  BY DEF TypeInv, TypeOK
<1> QED
  BY <1>1 DEF RoundInv, SteadyRound, Recorded, FlagOfSteadyRound, ReflectsCurrent, Changed

\* A step that leaves the parameters, the rate of the round's backend and the
\* statistics alone.
LEMMA RoundsStay ==
  ASSUME TypeInv, RoundInv, UNCHANGED <<raw, overrides, gen, stats, round, steady>>,
         round # NoRound => objects'[round.obj].cfg[1] = objects[round.obj].cfg[1],
         steady => \A t \in Thread : \A i \in 1 .. Len(stack'[t]) : stack'[t][i].use # "notify"
  PROVE  RoundInv'
<1>1. Effective' = Effective /\ Complete' = Complete
  BY EffectiveStays
<1> QED
  BY <1>1 DEF RoundInv, SteadyRound, Recorded, FlagOfSteadyRound, ReflectsCurrent, Rate

LEMMA UsesStay ==
  ASSUME SteadyRound, SameUses, steady
  PROVE  \A t \in Thread : \A i \in 1 .. Len(stack'[t]) : stack'[t][i].use # "notify"
BY DEF SteadyRound, SameUses

LEMMA ContinueRounds ==
  ASSUME TypeInv, RoundInv, NEW t \in Thread, Continue(t) PROVE RoundInv'
<1>1. SteadyRound
  BY DEF RoundInv
<1>2. CASE StatFile(t)
  <2>1. stack[t] # <<>> /\ Top(t).at = "stat"
    BY <1>2 DEF StatFile, At
  <2>2. ~steady
    BY <1>1, <2>1, TopOf, NotifyingDisturbs DEF Shape
  <2> QED
    BY <1>2, <2>2, RoundsStay DEF StatFile, backends, producer
<1>3. CASE GetField(t)
  <2>1. CASE Stale
    BY <1>3, <2>1, ChangedRounds DEF GetField, ReadFile, producer
  <2>2. CASE ~Stale
    <3>1. stack[t] # <<>>
      BY <1>3 DEF GetField, At
    <3>2. PICK c \in Call : Replaced(t, c) /\ c.use = Top(t).use
      BY <1>3, <2>2, TakenReplaces
    <3>3. SameUses
      BY <3>1, <3>2, ReplacedUses
    <3> QED
      BY <1>1, <1>3, <2>2, <3>3, UsesStay, RoundsStay DEF GetField, cache, backends, producer
  <2> QED
    BY <2>1, <2>2
<1>4. CASE UpdateConfig(t)
  <2>1. stack[t] # <<>> /\ Top(t).use = "notify" /\ Top(t).at = "use"
    BY <1>4 DEF UpdateConfig, Using, At
  <2>2. ~steady
    BY <1>1, <2>1, NotifyingDisturbs
  <2>3. UNCHANGED <<raw, overrides, gen, stats, round, steady>>
    BY <1>4 DEF UpdateConfig, cache, producer
  <2>4. Effective' = Effective /\ Complete' = Complete
    BY <2>3, EffectiveStays
  <2> QED
    BY <2>2, <2>3, <2>4
    DEF RoundInv, SteadyRound, Recorded, FlagOfSteadyRound, ReflectsCurrent
<1>5. CASE Raised(t)
  <2>1. stack[t] # <<>>
    BY <1>5 DEF Raised, At
  <2>2. Top(t) \in Call
    BY <2>1, TopOf
  <2>3. PICK eff \in Params : eff = Top(t).eff
    BY <2>2 DEF Call
  <2>4. Popped(t, eff)
    BY <1>5, <2>1, <2>3, ReturnPops DEF Raised, Return, TypeInv
  <2>5. SameUses
    BY <2>1, <2>4, PoppedUses
  <2> QED
    BY <1>1, <1>5, <2>5, UsesStay, RoundsStay DEF Raised, cache, backends, producer
<1> QED
  BY <1>2, <1>3, <1>4, <1>5 DEF Continue

LEMMA BootRounds ==
  ASSUME TypeInv, RoundInv, BootBackend \/ Subscribe PROVE RoundInv'
<1>1. SteadyRound
  BY DEF RoundInv
<1>2. stack["loop"] # <<>> /\ Top("loop").use = "boot"
  BY TopOf, ThreadsAreTwo DEF BootBackend, Subscribe, Using, At, Shape
<1>3. round = NoRound
  BY <1>2, BootCall
<1>4. Top("loop") \in Call
  BY <1>2, TopOf, ThreadsAreTwo
<1>5. SameUses
  <2>1. CASE BootBackend
    <3>1. PICK b \in Call : b = Top("loop")
      BY <1>4
    <3> DEFINE d == [b EXCEPT !.at = "subscribe"]
    <3>2. d \in Call /\ d.use = b.use
      BY DEF Call
    <3>3. PICK c \in Call : c = d
      BY <3>2
    <3>4. Replace("loop", c)
      BY <2>1, <3>1, <3>3 DEF BootBackend
    <3>5. Replaced("loop", c)
      BY <1>2, <3>4, ReplaceReplaces, ThreadsAreTwo DEF TypeInv
    <3> QED
      BY <1>2, <3>1, <3>2, <3>3, <3>5, ReplacedUses, ThreadsAreTwo
  <2>2. CASE Subscribe
    <3>1. PICK eff \in Params : eff = Top("loop").eff
      BY <1>4 DEF Call
    <3>2. Popped("loop", eff)
      BY <1>2, <2>2, <3>1, ReturnPops, ThreadsAreTwo DEF Subscribe, Return, TypeInv
    <3> QED
      BY <1>2, <3>2, PoppedUses, ThreadsAreTwo
  <2> QED
    BY <2>1, <2>2
<1>6. UNCHANGED <<raw, overrides, gen, stats, round, steady>>
  BY DEF BootBackend, Subscribe, cache, producer
<1> QED
  BY <1>1, <1>3, <1>5, <1>6, UsesStay, RoundsStay

LEMMA SwitchRounds ==
  ASSUME TypeInv, RoundInv, NEW name \in Backend, SwitchBackend(name) PROVE RoundInv'
<1>1. SteadyRound
  BY DEF RoundInv
<1> DEFINE d == [at |-> "get", outer |-> FALSE, use |-> name, obj |-> 0, got |-> <<>>, eff |-> NoParams]
<1>2. d \in Call /\ d.use = name
  <2>1. NoParams \in Params /\ <<>> \in Seq(Value)
    BY DEF NoParams, Params
  <2> QED
    BY <2>1 DEF Call
<1>3. PICK c \in Call : c = d
  BY <1>2
<1>4. Pushed("loop", c)
  BY <1>3, PushPushes, ThreadsAreTwo DEF SwitchBackend, TypeInv
<1> HIDE DEF d
<1>5. ASSUME steady, NEW t \in Thread, NEW i \in 1 .. Len(stack'[t])
      PROVE  stack'[t][i].use # "notify"
  <2>1. Len(stack["loop"]) = 0
    BY DEF SwitchBackend, LoopIdle
  <2>2. CASE t = "loop"
    <3>1. i = 1 /\ stack'[t][1] = c
      BY <2>1, <2>2, <1>4 DEF Pushed
    <3> QED
      BY <3>1, <1>2, <1>3, BackendAssumption
  <2>3. CASE t # "loop"
    BY <1>1, <1>4, <1>5, <2>3 DEF Pushed, Others, SteadyRound
  <2> QED
    BY <2>2, <2>3
<1>6. UNCHANGED <<raw, overrides, gen, stats, round, steady, objects>>
  BY DEF SwitchBackend, cache, producer, backends
<1> QED
  BY <1>5, <1>6, RoundsStay

LEMMA BuildRounds == ASSUME TypeInv, RoundInv, BuildCandidate PROVE RoundInv'
<1>1. SteadyRound
  BY DEF RoundInv
<1>2. stack["loop"] # <<>>
  BY DEF BuildCandidate, Using, At
<1>3. /\ \A i \in 1 .. Len(objects) : objects'[i] = objects[i]
      /\ \E eff \in Params : Popped("loop", eff)
  BY BuildCandidateTypes
<1>4. SameUses
  BY <1>2, <1>3, PoppedUses, ThreadsAreTwo
<1>5. round # NoRound => round.obj \in 1 .. Len(objects)
  BY DEF TypeInv, TypeOK, Rounds
<1>6. UNCHANGED <<raw, overrides, gen, stats, round, steady>>
  BY DEF BuildCandidate, cache, producer
<1> QED
  BY <1>1, <1>3, <1>4, <1>5, <1>6, UsesStay, RoundsStay

\* The same calls are under way.
LEMMA StackRounds ==
  ASSUME TypeInv, RoundInv, UNCHANGED <<raw, overrides, gen, stats, round, steady, stack>>,
         round # NoRound => objects'[round.obj].cfg[1] = objects[round.obj].cfg[1]
  PROVE  RoundInv'
<1>1. steady => \A t \in Thread : \A i \in 1 .. Len(stack'[t]) : stack'[t][i].use # "notify"
  BY DEF RoundInv, SteadyRound
<1> QED
  BY <1>1, RoundsStay

LEMMA SetEveRounds ==
  ASSUME TypeInv, RoundInv, NEW value \in Value, SetEve(value) PROVE RoundInv'
<1>1. round # NoRound => objects'[round.obj].cfg[1] = objects[round.obj].cfg[1]
  BY EveObjects DEF TypeInv, Rounds
<1> QED
  BY <1>1, StackRounds DEF SetEve, cache, producer

\* The modelled rate is the first of the parameters in force.
LEMMA RateInForce ==
  ASSUME NEW i, UpToDate(i) PROVE Rate(i) = Effective["link"]
<1>1. objects[i].cfg[1] = InForce(1)
  BY FieldsOfOrder DEF UpToDate
<1> QED
  BY <1>1, FieldsOfOrder DEF Rate, InForce, WithDefault

LEMMA StartRoundRounds ==
  ASSUME TypeInv, Applied, RoundInv, StartRound PROVE RoundInv'
<1>1. UNCHANGED <<raw, overrides, gen, stats, objects, current, stack>>
  BY DEF StartRound, cache, backends
<1>2. Effective' = Effective /\ Complete' = Complete
  BY <1>1, EffectiveStays
<1>3. SteadyRound'
  <2> SUFFICES ASSUME Quiet, ~disturbed PROVE SteadyRound'
    BY DEF StartRound, SteadyRound
  <2>1. InUse /\ \A t \in Thread : Len(stack[t]) = 0
    BY QuietInUse DEF Quiet
  <2>2. ASSUME Complete PROVE Rate(current) = Effective["link"]
    BY <2>1, <2>2, RateInForce DEF InUse
  <2>3. round'.obj = current /\ round'.rate \in {None, Rate(current)}
    BY DEF StartRound
  <2> QED
    BY <1>1, <1>2, <2>1, <2>2, <2>3 DEF SteadyRound, Rate
<1> QED
  BY <1>1, <1>2, <1>3 DEF RoundInv, Recorded, FlagOfSteadyRound, ReflectsCurrent

LEMMA EndRoundRounds ==
  ASSUME TypeInv, RoundInv, EndRound PROVE RoundInv'
<1>1. UNCHANGED <<raw, overrides, gen, stats, objects, current, stack, steady>>
  BY DEF EndRound, cache, backends
<1>2. Effective' = Effective /\ Complete' = Complete
  BY <1>1, EffectiveStays
<1>3. /\ round'.obj = round.obj /\ round # NoRound
      /\ round'.rate = IF round.rate = None THEN Rate(round.obj) ELSE round.rate
  BY EndRoundTypes DEF EndRound
<1>4. SteadyRound'
  BY <1>1, <1>2, <1>3 DEF RoundInv, SteadyRound, Rate
<1> QED
  BY <1>1, <1>2, <1>4 DEF RoundInv, Recorded, FlagOfSteadyRound, ReflectsCurrent

LEMMA RecordRounds ==
  ASSUME TypeInv, RoundInv, Record PROVE RoundInv'
<1>1. UNCHANGED <<raw, overrides, gen, objects, stack, steady>> /\ gen \in 1 .. gen
  BY DEF Record, cache, backends, TypeInv, TypeOK
<1>2. Effective' = Effective /\ Complete' = Complete
  BY <1>1, EffectiveStays
<1>3. /\ round.rate # None /\ round # NoRound /\ round' = NoRound
      /\ stats'.rate = round.rate /\ stats'.gen = gen /\ stats'.steady = steady
  BY DEF Record, TypeInv, Rounds
<1>4. SteadyRound'
  BY <1>1, <1>3 DEF RoundInv, SteadyRound
<1>5. Recorded'
  BY <1>1, <1>3 DEF Recorded
<1>6. FlagOfSteadyRound'
  BY <1>2, <1>3 DEF RoundInv, SteadyRound, FlagOfSteadyRound
<1> QED
  BY <1>4, <1>5, <1>6 DEF RoundInv

LEMMA NextRounds == ASSUME TypeInv, Applied, RoundInv, [Next]_vars PROVE RoundInv'
<1>1. ASSUME NEW t \in Thread, Poll(t) PROVE RoundInv'
  BY <1>1, ChangedRounds DEF Poll, ReadFile, producer
<1>2. ASSUME Requests PROVE RoundInv'
  <2>1. CASE Reload
    BY <2>1, ChangedRounds DEF Reload, ReadFile, producer
  <2>2. CASE ClearOverrides
    BY <2>2, ChangedRounds DEF ClearOverrides, producer
  <2>3. ASSUME NEW patch \in Patches, SetOverrides(patch) PROVE RoundInv'
    BY <2>3, ChangedRounds DEF SetOverrides, producer
  <2> QED
    BY <1>2, <2>1, <2>2, <2>3, SwitchRounds, SetEveRounds DEF Requests
<1>3. ASSUME Switching PROVE RoundInv'
  <2>1. ASSUME NEW i \in pending, Swap(i) \/ PreflightFails(i) PROVE RoundInv'
    BY <2>1, StackRounds DEF Swap, PreflightFails, cache, producer
  <2> QED
    BY <1>3, <2>1, BuildRounds DEF Switching
<1>4. ASSUME NEW content, WriteFile(content) PROVE RoundInv'
  BY <1>4, StackRounds DEF WriteFile, cache, producer, backends
<1>5. ASSUME UNCHANGED vars PROVE RoundInv'
  BY <1>5, StackRounds DEF vars, cache, producer, backends
<1> QED
  BY <1>1, <1>2, <1>3, <1>4, <1>5, ContinueRounds, BootRounds, StartRoundRounds,
     EndRoundRounds, RecordRounds DEF Next

-----------------------------------------------------------------------------
(* The theorems.                                                           *)

LEMMA InitInv == ASSUME Init PROVE Applied /\ RoundInv
<1> DEFINE c == [at |-> "get", outer |-> FALSE, use |-> "boot", obj |-> 0,
                 got |-> <<>>, eff |-> NoParams]
<1>1. stack["loop"] = <<c>> /\ stack["watchdog"] = <<>>
  BY DEF Init, Thread
<1>2. Len(c.got) = 0 /\ c.use = "boot" /\ c.at = "get"
  OBVIOUS
<1> HIDE DEF c
<1>3. Len(stack["loop"]) = 1 /\ stack["loop"][1] = c
  BY <1>1
<1>4. \A u \in Thread \ {"loop"} : stack[u] = <<>>
  BY <1>1 DEF Thread
<1>5. pending = {} /\ ~steady /\ ~stats.steady
  BY DEF Init
<1>6. LoneCall("loop")
  <2>1. \A j \in 1 .. Len(stack["loop"][1].got) : FALSE
    BY <1>2, <1>3
  <2> QED
    BY <1>2, <1>3, <1>4, <1>5, <2>1, BackendAssumption DEF LoneCall
<1> QED
  BY <1>5, <1>6, ThreadsAreTwo
  DEF Applied, RoundInv, SteadyRound, Recorded, FlagOfSteadyRound

LEMMA StoreInduction == Spec => [](TypeInv /\ Applied /\ RoundInv)
<1>1. Init => TypeInv /\ Applied /\ RoundInv
  BY InitTypes, InitInv
<1>2. TypeInv /\ Applied /\ RoundInv /\ [Next]_vars => (TypeInv /\ Applied /\ RoundInv)'
  BY NextTypes, NextApplied, NextRounds
<1> QED
  BY <1>1, <1>2, PTL DEF Spec

\* A reload, an override, a reset or a switch that overlapped nothing else leaves
\* the backend in use on the parameters in force, whatever raced before it.
THEOREM LastChangeReachesBackend == Spec => []LastChangeApplied
<1>1. TypeInv /\ Applied => LastChangeApplied
  BY QuietInUse DEF LastChangeApplied, InUse, UpToDate, InForce
<1> QED
  BY <1>1, StoreInduction, PTL

\* skr_reflects_current_config is never TRUE of a rate that a later change made
\* wrong, for the rounds that no change overlapped.
THEOREM SteadyFlagIsTrue == Spec => []FlagOfSteadyRound
<1>1. RoundInv => FlagOfSteadyRound
  BY DEF RoundInv
<1> QED
  BY <1>1, StoreInduction, PTL
=============================================================================
