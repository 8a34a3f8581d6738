------------------------- MODULE PpkRotationProofs -------------------------
(***************************************************************************)
(* Proofs about PpkRotation, for every set of nodes, combination of faults *)
(* and bound on intervals, IKE_SAs and restarts.                           *)
(***************************************************************************)
EXTENDS PpkRotation, TLAPS

-----------------------------------------------------------------------------
(* Types.  charon's newest IKE_SA is the one it numbered last, and an      *)
(* IKE_AUTH in flight still has a number to give.                          *)

TypeInv ==
  /\ TypeOK
  /\ sas # {} => uids \in {sa[1] : sa \in sas}
  /\ \A sa \in sas : sa[1] <= uids
  /\ auth # None => uids < MaxSas

LEMMA NewestIsLast == ASSUME TypeInv, sas # {} PROVE NewestSA = uids
<1> DEFINE ids == {sa[1] : sa \in sas}
           P(u) == \A sa \in sas : sa[1] <= u
<1>1. uids \in ids /\ P(uids) /\ \A u \in ids : u \in Nat
  BY DEF TypeInv, TypeOK
<1>2. \A u \in ids : P(u) => u = uids
  <2> SUFFICES ASSUME NEW u \in ids, P(u) PROVE u = uids
    OBVIOUS
  <2>1. uids <= u /\ u <= uids
    BY <1>1
  <2> QED
    BY <1>1, <2>1
<1>3. NewestSA = CHOOSE u \in ids : P(u)
  BY DEF NewestSA
<1> HIDE DEF ids, P
<1> QED
  BY <1>1, <1>2, <1>3

\* What arnika sees of a write that goes on or ends.
Continued(n) ==
  /\ at' \in [Node -> Steps] /\ psk' \in [Node -> Material]
  /\ job' \in [Node -> {"due", "key", "random", "done"}] /\ ack' \in BOOLEAN

LEMMA ReturnType == ASSUME TypeOK, NEW n \in Node, Return(n) PROVE Continued(n)
BY DEF TypeOK, Return, Continued, Steps

LEMMA ProceedType ==
  ASSUME TypeOK, NEW n \in Node, NEW step \in Steps, Proceed(n, step)
  PROVE  Continued(n)
BY DEF TypeOK, Proceed, Continued

LEMMA RetireType == ASSUME TypeOK, NEW n \in Node, Retire(n) PROVE Continued(n)
BY ReturnType, ProceedType DEF Retire, Steps

LEMMA CommitType ==
  ASSUME TypeOK, NEW n \in Node, Commit(n)
  PROVE  /\ Continued(n)
         /\ gen' \in [Node -> Nat] /\ loaded' \in [Node -> Nat] /\ old' \in [Node -> Nat]
<1>1. Continued(n)
  BY RetireType, ProceedType DEF Commit, Steps
<1> QED
  BY <1>1 DEF Commit, NextGen, TypeOK

LEMMA FailType ==
  ASSUME TypeOK, NEW n \in Node, Fail(n)
  PROVE  Continued(n) /\ clean' \in BOOLEAN /\ target' \in [Node -> 0 .. MaxSas]
<1>1. Random(n, interval) \in Material
  BY DEF TypeOK, Random, Material
<1>2. clean' \in BOOLEAN /\ ack' = ack
  BY DEF Fail
<1>3. target' \in [Node -> 0 .. MaxSas]
  <2>1. 0 \in 0 .. MaxSas /\ target' = [target EXCEPT ![n] = 0]
    BY NodeAssumption DEF Fail
  <2> QED
    BY <2>1 DEF TypeOK
<1> QED
  BY <1>1, <1>2, <1>3 DEF TypeOK, Fail, Continued, Steps

LEMMA TypeInit == Init => TypeInv
<1>1. Bootstrap \in Material
  BY NodeAssumption DEF Bootstrap, Agreed, Material, Interval
<1>2. 0 \in Interval /\ 0 \in 0 .. MaxSas /\ 0 \in 0 .. MaxRestarts /\ 0 \in Id
  BY NodeAssumption DEF Interval, Id
<1>3. {<<0, Bootstrap>>} \in SUBSET (Id \X Material)
  BY <1>1, <1>2
<1> SUFFICES ASSUME Init PROVE TypeInv
  OBVIOUS
<1>4. /\ gen \in [Node -> Nat] /\ loaded \in [Node -> Nat] /\ old \in [Node -> Nat]
      /\ retired \in [Node -> BOOLEAN] /\ at \in [Node -> Steps]
      /\ job \in [Node -> {"due", "key", "random", "done"}]
      /\ leaked \in [Node -> SUBSET Nat]
  BY DEF Init, Steps
<1>5. /\ psk \in [Node -> Material] /\ target \in [Node -> 0 .. MaxSas]
      /\ held \in [Node -> SUBSET (Id \X Material)]
  BY <1>1, <1>2, <1>3 DEF Init
<1>6. /\ sas = {} /\ auth = None /\ uids \in 0 .. MaxSas /\ interval \in Interval
      /\ backup \in Node /\ restarts \in 0 .. MaxRestarts
  BY <1>2, NodeAssumption DEF Init
<1>7. queued \in BOOLEAN /\ ack \in BOOLEAN /\ clean \in BOOLEAN
  BY DEF Init
<1> QED
  BY <1>4, <1>5, <1>6, <1>7 DEF TypeInv, TypeOK


\* A step of a write: charon's IKE_SAs stay.
LEMMA TypeRotate ==
  ASSUME TypeInv, NEW n \in Node, Rotate(n), UNCHANGED <<interval, backup, restarts>>
  PROVE  TypeInv'
<1> USE DEF TypeInv
<1> SUFFICES /\ Continued(n)
             /\ gen' \in [Node -> Nat] /\ loaded' \in [Node -> Nat] /\ old' \in [Node -> Nat]
             /\ retired' \in [Node -> BOOLEAN] /\ target' \in [Node -> 0 .. MaxSas]
             /\ held' \in [Node -> SUBSET (Id \X Material)]
             /\ leaked' \in [Node -> SUBSET Nat]
             /\ queued' \in BOOLEAN /\ clean' \in BOOLEAN
             /\ UNCHANGED <<sas, uids, auth>>
  BY DEF TypeOK, Continued
<1>1. CASE LoadPPK(n)
  <2>1. Continued(n)
    BY <1>1, ProceedType DEF LoadPPK, Steps
  <2>2. NextGen(n) \in Nat /\ psk[n] \in Material
    BY DEF TypeOK, NextGen
  <2>3. held' \in [Node -> SUBSET (Id \X Material)] /\ leaked' \in [Node -> SUBSET Nat]
    BY <1>1, <2>2 DEF LoadPPK, TypeOK, Id
  <2> QED
    BY <1>1, <2>1, <2>3 DEF LoadPPK, TypeOK, ike
<1>2. CASE AssertLoaded(n)
  <2>1. /\ Continued(n)
        /\ gen' \in [Node -> Nat] /\ loaded' \in [Node -> Nat] /\ old' \in [Node -> Nat]
    BY <1>2, ProceedType, CommitType DEF AssertLoaded, Steps, TypeOK
  <2> QED
    BY <1>2, <2>1 DEF AssertLoaded, TypeOK, ike
<1>3. CASE ListSas(n)
  <2>1. Continued(n)
    BY <1>3, ProceedType DEF ListSas, Steps
  <2>2. sas # {} => NewestSA \in 0 .. MaxSas
    BY NewestIsLast DEF TypeOK
  <2>3. target' \in [Node -> 0 .. MaxSas]
    BY <1>3, <2>2 DEF ListSas, TypeOK
  <2> QED
    BY <1>3, <2>1, <2>3 DEF ListSas, TypeOK, ike
<1>4. CASE Rekey(n)
  <2>1. /\ Continued(n)
        /\ gen' \in [Node -> Nat] /\ loaded' \in [Node -> Nat] /\ old' \in [Node -> Nat]
    BY <1>4, CommitType DEF Rekey
  <2>2. 0 \in 0 .. MaxSas /\ target' = [target EXCEPT ![n] = 0]
    BY <1>4, NodeAssumption DEF Rekey
  <2>3. target' \in [Node -> 0 .. MaxSas]
    BY <2>2 DEF TypeOK
  <2> QED
    BY <1>4, <2>1, <2>3 DEF Rekey, TypeOK
<1>5. CASE RekeyMatchesNothing(n) \/ CallFails(n)
  <2>1. Fail(n)
    BY <1>5 DEF RekeyMatchesNothing, CallFails
  <2> QED
    BY <2>1, FailType DEF Fail, TypeOK, ike
<1>6. CASE InitiateQueued(n)
  BY <1>6 DEF InitiateQueued, TypeOK, Continued, repo
<1>7. CASE InitiateReturns(n)
  <2>1. /\ Continued(n)
        /\ gen' \in [Node -> Nat] /\ loaded' \in [Node -> Nat] /\ old' \in [Node -> Nat]
    BY <1>7, CommitType DEF InitiateReturns
  <2> QED
    BY <1>7, <2>1 DEF InitiateReturns, TypeOK, ike
<1>8. CASE UnloadPrevious(n) \/ UnloadFails(n)
  <2>1. Continued(n)
    BY <1>8, RetireType DEF UnloadPrevious, UnloadFails
  <2>2. /\ held' \in [Node -> SUBSET (Id \X Material)]
        /\ leaked' \in [Node -> SUBSET Nat] /\ old' \in [Node -> Nat]
    BY <1>8 DEF UnloadPrevious, UnloadFails, TypeOK
  <2> QED
    BY <1>8, <2>1, <2>2 DEF UnloadPrevious, UnloadFails, TypeOK, ike
<1>9. CASE UnloadBootstrap(n)
  <2>1. Continued(n)
    BY <1>9, ProceedType DEF UnloadBootstrap, Steps
  <2>2. held' \in [Node -> SUBSET (Id \X Material)]
    BY <1>9 DEF UnloadBootstrap, TypeOK
  <2> QED
    BY <1>9, <2>1, <2>2 DEF UnloadBootstrap, TypeOK, ike
<1>10. CASE ConfirmRetired(n)
  <2>1. Continued(n)
    BY <1>10, ReturnType DEF ConfirmRetired
  <2>2. retired' \in [Node -> BOOLEAN]
    BY <1>10 DEF ConfirmRetired, TypeOK
  <2> QED
    BY <1>10, <2>1, <2>2 DEF ConfirmRetired, TypeOK, ike
<1>11. CASE RetireFails(n)
  <2>1. Continued(n)
    BY <1>11, ReturnType DEF RetireFails
  <2> QED
    BY <1>11, <2>1 DEF RetireFails, TypeOK, ike
<1> QED
  BY <1>1, <1>2, <1>3, <1>4, <1>5, <1>6, <1>7, <1>8, <1>9, <1>10, <1>11 DEF Rotate

LEMMA TypeStep == TypeInv /\ [Next]_vars => TypeInv'
<1> SUFFICES ASSUME TypeInv, [Next]_vars PROVE TypeInv'
  OBVIOUS
<1> USE DEF TypeInv
<1>1. ASSUME NEW n \in Node, Rotate(n), UNCHANGED <<interval, backup, restarts>>
      PROVE  TypeInv'
  BY <1>1, TypeRotate
<1>2. ASSUME NEW n \in Node, Reconcile(n) PROVE TypeInv'
  <2>1. \A g \in Generations(n) : g \in Nat
    BY DEF Generations, Ids, TypeOK, Id
  <2>2. /\ gen' \in [Node -> Nat] /\ loaded' \in [Node -> Nat]
        /\ held' \in [Node -> SUBSET (Id \X Material)]
        /\ leaked' \in [Node -> SUBSET Nat]
    <3>1. CASE Generations(n) = {}
      BY <1>2, <3>1 DEF Reconcile, TypeOK
    <3>2. CASE Generations(n) # {}
      <4>1. PICK newest \in Generations(n), stuck \in SUBSET Generations(n) :
              /\ gen' = [gen EXCEPT ![n] = newest]
              /\ loaded' = [loaded EXCEPT ![n] = newest]
              /\ held' = [held EXCEPT ![n] =
                            {cred \in held[n] : cred[1] \in {0, newest} \cup stuck}]
              /\ leaked' = [leaked EXCEPT ![n] = stuck]
        BY <1>2, <3>2 DEF Reconcile
      <4> QED
        BY <2>1, <4>1 DEF TypeOK
    <3> QED
      BY <3>1, <3>2
  <2>3. /\ retired' = [retired EXCEPT ![n] = FALSE] /\ at' = [at EXCEPT ![n] = "idle"]
        /\ job' = [job EXCEPT ![n] = "done"] /\ old' = [old EXCEPT ![n] = 0]
        /\ target' = [target EXCEPT ![n] = 0] /\ clean' = FALSE
        /\ restarts' = restarts + 1 /\ restarts < MaxRestarts
        /\ UNCHANGED <<psk, sas, uids, queued, auth, interval, backup, ack>>
    BY <1>2 DEF Reconcile, ike
  <2>4. 0 \in 0 .. MaxSas /\ restarts' \in 0 .. MaxRestarts
    BY <2>3, NodeAssumption DEF TypeOK
  <2>5. /\ retired' \in [Node -> BOOLEAN] /\ at' \in [Node -> Steps]
        /\ job' \in [Node -> {"due", "key", "random", "done"}] /\ old' \in [Node -> Nat]
        /\ target' \in [Node -> 0 .. MaxSas] /\ clean' \in BOOLEAN
    BY <2>3, <2>4 DEF TypeOK, Steps
  <2> QED
    BY <2>2, <2>3, <2>4, <2>5 DEF TypeOK
<1>3. ASSUME NEW n \in Node, WriteKey(n) \/ WriteWithoutAck(n) \/ WriteUnmatched(n)
      PROVE  TypeInv'
  <2>1. PICK kind \in {"key", "random"}, key \in Material : SetPSK(n, kind, key)
    <3>1. Agreed(interval) \in Material /\ Random(n, interval) \in Material
      BY DEF Agreed, Random, Material, TypeOK
    <3> QED
      BY <1>3, <3>1 DEF WriteKey, WriteWithoutAck, WriteUnmatched
  <2>2. clean' \in BOOLEAN
    BY <1>3 DEF WriteKey, WriteWithoutAck, WriteUnmatched, TypeOK
  <2>3. Continued(n)
    BY <2>1 DEF SetPSK, TypeOK, Continued, Steps
  <2> QED
    BY <2>1, <2>2, <2>3 DEF SetPSK, TypeOK, Continued, ike
<1>4. CASE NextInterval
  <2>1. interval' \in Interval
    BY <1>4, NodeAssumption DEF NextInterval, TypeOK, Interval
  <2>2. /\ job' \in [Node -> {"due", "key", "random", "done"}]
        /\ backup' \in Node /\ ack' \in BOOLEAN /\ clean' \in BOOLEAN
    BY <1>4 DEF NextInterval
  <2> QED
    BY <1>4, <2>1, <2>2 DEF NextInterval, TypeOK, repo, ike
<1>5. CASE Charon
  <2>1. CASE CharonQueues
    BY <2>1 DEF CharonQueues, TypeOK, repo, arnika
  <2>2. CASE AuthStart
    <3>1. Answers(Driver) \subseteq Material
      BY NodeAssumption DEF Answers, TypeOK
    <3> QED
      BY <2>2, <3>1 DEF AuthStart, TypeOK, repo, arnika
  <2>3. ASSUME NEW n \in Node, AuthSucceeds(n) PROVE TypeInv'
    <3>1. auth \in Material /\ auth # None /\ uids < MaxSas
      BY <2>3, NodeAssumption DEF AuthSucceeds, Answers, TypeOK
    <3>2. uids + 1 \in 1 .. MaxSas
      BY <3>1, NodeAssumption DEF TypeOK
    <3>3. /\ uids' = uids + 1 /\ sas' = sas \cup {<<uids + 1, auth>>} /\ auth' = None
          /\ UNCHANGED <<repo, held, queued, arnika>>
      BY <2>3 DEF AuthSucceeds
    <3>4. /\ \A sa \in sas' : sa[1] <= uids'
          /\ uids' \in {sa[1] : sa \in sas'}
      <4> DEFINE new == <<uids + 1, auth>>
      <4>1. sas' = sas \cup {new} /\ new[1] = uids + 1
        BY <3>3
      <4> HIDE DEF new
      <4>2. \A sa \in sas : sa[1] \in Nat /\ sa[1] <= uids + 1
        BY DEF TypeOK
      <4> QED
        BY <3>3, <4>1, <4>2 DEF TypeOK
    <3>5. TypeOK'
      BY <3>1, <3>2, <3>3 DEF TypeOK, repo, arnika
    <3> QED
      BY <3>3, <3>4, <3>5
  <2>4. ASSUME NEW n \in Node, AuthFails(n) PROVE TypeInv'
    BY <2>4 DEF AuthFails, TypeOK, repo, arnika
  <2>5. CASE ReplaceSA
    <3>1. sas # {} => NewestSA = uids /\ uids \in {sa[1] : sa \in sas}
      BY NewestIsLast
    <3>2. sas' = {sa \in sas : sa[1] = NewestSA}
      BY <2>5 DEF ReplaceSA
    <3>3. sas' \subseteq sas /\ (sas # {} => \E sa \in sas' : sa[1] = uids)
      BY <3>1, <3>2
    <3>4. /\ UNCHANGED <<repo, held, arnika>>
          /\ UNCHANGED <<uids, queued, auth>>
      BY <2>5 DEF ReplaceSA
    <3>5. TypeOK'
      BY <3>3, <3>4 DEF TypeOK, repo, arnika
    <3> QED
      BY <3>3, <3>4, <3>5
  <2> QED
    BY <1>5, <2>1, <2>2, <2>3, <2>4, <2>5 DEF Charon
<1>6. CASE UNCHANGED vars
  BY <1>6 DEF TypeOK, vars, repo, ike, arnika
<1> QED
  BY <1>1, <1>2, <1>3, <1>4, <1>5, <1>6 DEF Next

\* Every reachable state is well typed: in particular the IKE_SA reauthenticate
\* selects is one charon numbered, and the numbers stay in range.
THEOREM RotationTypes == Spec => []TypeOK
<1>1. TypeInv => TypeOK
  BY DEF TypeInv
<1> QED
  BY <1>1, TypeInit, TypeStep, PTL DEF Spec

-----------------------------------------------------------------------------
(* The credentials of a node.  What makes the claims inductive is the      *)
(* order of SetPSK: the next id is in charon before it becomes current,    *)
(* what is unloaded afterwards is older than the current one, and what an  *)
(* unload left behind is older still, so a load never takes its id.        *)

Loading == {"list", "rekey", "initiate"}
Committed == {"unload", "bootstrap", "confirm"}

CredInv(n) ==
  /\ held[n] # {}
  /\ loaded[n] = gen[n]
  /\ gen[n] # 0 => gen[n] \in Ids(n)
  /\ at[n] \in Loading => NextGen(n) \in Ids(n)
  /\ at[n] \in Committed => gen[n] # 0
  /\ at[n] = "unload" => old[n] # 0 /\ old[n] < gen[n] /\ old[n] \in Ids(n)
  /\ leaked[n] \subseteq 1 .. (gen[n] - 1)
  /\ retired[n] => 0 \notin Ids(n)
  /\ Ids(n) \subseteq {0, gen[n]} \cup leaked[n]
                      \cup (IF at[n] = "unload" THEN {old[n]} ELSE {})
                      \cup (IF at[n] \in Committed THEN {} ELSE {NextGen(n)})

\* A write without a fault: where the agreed key is, step by step, and that
\* nothing else stays.
WriteInv(n) ==
  /\ at[n] = "idle" <=> job[n] \in {"due", "done"}
  /\ job[n] = "key" => psk[n] = Agreed(interval)
  /\ clean /\ interval > 0 =>
       /\ job[n] # "random"
       /\ at[n] \in Loading \cup {"assert"} => <<NextGen(n), Agreed(interval)>> \in held[n]
       /\ at[n] \in Committed \/ job[n] = "done" => <<gen[n], Agreed(interval)>> \in held[n]
       /\ at[n] = "confirm" \/ job[n] = "done" => 0 \notin Ids(n)
       /\ job[n] = "done" => NextGen(n) \notin Ids(n)

RotationInv == \A n \in Node : CredInv(n) /\ WriteInv(n)

\* A node no step touched.
Untouched(m) ==
  UNCHANGED <<gen[m], loaded[m], retired[m], at[m], psk[m], old[m], held[m], job[m], leaked[m]>>

LEMMA RotationFrame ==
  ASSUME NEW m \in Node, CredInv(m), WriteInv(m), Untouched(m), interval' = interval,
         clean' => clean
  PROVE  CredInv(m)' /\ WriteInv(m)'
<1>1. Ids(m)' = Ids(m) /\ NextGen(m)' = NextGen(m)
  BY DEF Ids, NextGen, Untouched
<1>2. CredInv(m)'
  BY <1>1 DEF CredInv, Untouched
<1>3. WriteInv(m)'
  BY <1>1 DEF WriteInv, Untouched
<1> QED
  BY <1>2, <1>3

\* Where a write stands after it returned, and after it went on.
LEMMA ReturnStep ==
  ASSUME TypeOK, NEW n \in Node, Return(n)
  PROVE  /\ at'[n] = "idle" /\ job'[n] = "done" /\ psk' = psk
         /\ \A m \in Node \ {n} : at'[m] = at[m] /\ job'[m] = job[m]
BY DEF Return, TypeOK

LEMMA ProceedStep ==
  ASSUME TypeOK, NEW n \in Node, NEW step, Proceed(n, step)
  PROVE  /\ at'[n] = step /\ job'[n] = job[n] /\ psk' = psk
         /\ \A m \in Node \ {n} : at'[m] = at[m] /\ job'[m] = job[m]
BY DEF Proceed, TypeOK

LEMMA RetireStep ==
  ASSUME TypeOK, NEW n \in Node, Retire(n)
  PROVE  /\ psk' = psk
         /\ \/ retired[n] /\ at'[n] = "idle" /\ job'[n] = "done"
            \/ ~retired[n] /\ at'[n] = "bootstrap" /\ job'[n] = job[n]
         /\ \A m \in Node \ {n} : at'[m] = at[m] /\ job'[m] = job[m]
BY ReturnStep, ProceedStep DEF Retire

\* The commit: the loaded id becomes the current one, and the one before it
\* is what the next call unloads.
LEMMA CommitStep ==
  ASSUME TypeOK, NEW n \in Node, CredInv(n), WriteInv(n), Commit(n),
         at[n] \in Loading \cup {"assert"}, NextGen(n) \in Ids(n),
         UNCHANGED <<retired, held, leaked, clean, interval>>
  PROVE  /\ CredInv(n)' /\ WriteInv(n)'
         /\ \A m \in Node \ {n} : Untouched(m)
<1>1. /\ gen'[n] = gen[n] + 1 /\ loaded'[n] = gen[n] + 1 /\ old'[n] = loaded[n]
      /\ \A m \in Node \ {n} : UNCHANGED <<gen[m], loaded[m], old[m]>>
  BY DEF Commit, TypeOK, NextGen
<1>2. /\ psk' = psk /\ \A m \in Node \ {n} : at'[m] = at[m] /\ job'[m] = job[m]
      /\ \/ loaded[n] # 0 /\ at'[n] = "unload" /\ job'[n] = job[n]
         \/ loaded[n] = 0 /\ retired[n] /\ at'[n] = "idle" /\ job'[n] = "done"
         \/ loaded[n] = 0 /\ ~retired[n] /\ at'[n] = "bootstrap" /\ job'[n] = job[n]
  BY ProceedStep, RetireStep DEF Commit
<1>3. Ids(n)' = Ids(n) /\ gen[n] \in Nat /\ NextGen(n) = gen[n] + 1 /\ loaded[n] = gen[n]
  BY DEF Ids, TypeOK, NextGen, CredInv
<1>4. NextGen(n)' = gen[n] + 2
  BY <1>1, <1>3 DEF NextGen
<1>5. Ids(n) \subseteq {0, gen[n], gen[n] + 1} \cup leaked[n]
  BY <1>3 DEF CredInv, Loading, Committed
<1>6. leaked[n] \subseteq 1 .. (gen[n] - 1) /\ (retired[n] => 0 \notin Ids(n)) /\ held[n] # {}
  BY DEF CredInv
<1>7. CredInv(n)'
  BY <1>1, <1>2, <1>3, <1>4, <1>5, <1>6 DEF CredInv, Loading, Committed
<1>8. job[n] \in {"key", "random"} /\ (job[n] = "key" => psk[n] = Agreed(interval))
  BY DEF WriteInv, Loading, TypeOK
<1>9. clean /\ interval > 0 =>
        job[n] # "random" /\ <<gen[n] + 1, Agreed(interval)>> \in held[n]
  BY <1>3 DEF WriteInv
<1>10. Agreed(interval)' = Agreed(interval)
  BY DEF Agreed
<1>11. gen[n] + 2 \notin Ids(n)
  BY <1>3, <1>5, <1>6
<1>12. WriteInv(n)'
  BY <1>1, <1>2, <1>3, <1>4, <1>6, <1>8, <1>9, <1>10, <1>11 DEF WriteInv, Loading, Committed
<1> QED
  BY <1>1, <1>2, <1>7, <1>12 DEF Untouched

\* A failed write: nothing was committed, and the interval is no longer clean.
LEMMA FailStep ==
  ASSUME TypeOK, NEW n \in Node, CredInv(n), WriteInv(n), Fail(n), interval' = interval,
         at[n] \in Loading \cup {"load", "assert"}
  PROVE  /\ CredInv(n)' /\ WriteInv(n)'
         /\ \A m \in Node \ {n} : Untouched(m)
<1>1. /\ clean' = FALSE
      /\ UNCHANGED <<gen, loaded, retired, old, held, leaked>>
  BY DEF Fail
<1>2. /\ \/ at'[n] = "load" /\ job'[n] = "random"
         \/ at'[n] = "idle" /\ job'[n] = "done"
      /\ \A m \in Node \ {n} : UNCHANGED <<at[m], job[m], psk[m]>>
  BY DEF Fail, TypeOK
<1>3. Ids(n)' = Ids(n) /\ NextGen(n)' = NextGen(n)
  BY <1>1 DEF Ids, NextGen
<1>4. CredInv(n)'
  BY <1>1, <1>2, <1>3 DEF CredInv, Loading, Committed
<1>5. WriteInv(n)'
  BY <1>1, <1>2 DEF WriteInv
<1> QED
  BY <1>1, <1>2, <1>4, <1>5 DEF Untouched

\* load-shared: the next id answers for the new key, and no other id moved.
LEMMA LoadStep ==
  ASSUME TypeOK, NEW n \in Node, CredInv(n), WriteInv(n), LoadPPK(n), interval' = interval
  PROVE  /\ CredInv(n)' /\ WriteInv(n)'
         /\ \A m \in Node \ {n} : Untouched(m)
<1> DEFINE new == <<NextGen(n), psk[n]>>
<1>1. /\ held'[n] = {cred \in held[n] : cred[1] # NextGen(n)} \cup {new}
      /\ leaked'[n] = leaked[n] \ {NextGen(n)}
      /\ at'[n] = "assert" /\ job'[n] = job[n] /\ psk' = psk /\ at[n] = "load"
      /\ UNCHANGED <<gen, loaded, retired, old, clean>>
      /\ \A m \in Node \ {n} : UNCHANGED <<held[m], leaked[m], at[m], job[m]>>
  BY ProceedStep DEF LoadPPK, TypeOK
<1>2. new[1] = NextGen(n)
  OBVIOUS
<1>3. new = <<NextGen(n), psk[n]>>
  OBVIOUS
<1> HIDE DEF new
<1>4. Ids(n)' = Ids(n) \cup {NextGen(n)}
  BY <1>1, <1>2 DEF Ids
<1>5. gen[n] \in Nat /\ NextGen(n) = gen[n] + 1 /\ NextGen(n)' = gen[n] + 1
  BY <1>1 DEF TypeOK, NextGen
<1>6. leaked'[n] = leaked[n]
  BY <1>1, <1>5 DEF CredInv
<1>7. CredInv(n)'
  BY <1>1, <1>4, <1>5, <1>6 DEF CredInv, Loading, Committed
<1>8. job[n] \in {"key", "random"} /\ new \in held'[n]
  BY <1>1 DEF WriteInv, TypeOK
<1>9. WriteInv(n)'
  BY <1>1, <1>3, <1>5, <1>8 DEF WriteInv, Loading, Committed, Agreed
<1> QED
  BY <1>1, <1>7, <1>9 DEF Untouched

\* unload-shared of the previous generation, done or failed.
LEMMA UnloadStep ==
  ASSUME TypeOK, NEW n \in Node, CredInv(n), WriteInv(n), interval' = interval,
         UnloadPrevious(n) \/ UnloadFails(n)
  PROVE  /\ CredInv(n)' /\ WriteInv(n)'
         /\ \A m \in Node \ {n} : Untouched(m)
<1>1. /\ old'[n] = 0 /\ at[n] = "unload" /\ (clean' => clean) /\ Retire(n)
      /\ \/ /\ held'[n] = {cred \in held[n] : cred[1] # old[n]}
            /\ leaked' = leaked
         \/ /\ held' = held /\ clean' = FALSE
            /\ leaked'[n] = leaked[n] \cup {old[n]}
      /\ UNCHANGED <<gen, loaded, retired>>
      /\ \A m \in Node \ {n} : UNCHANGED <<held[m], leaked[m], old[m]>>
  BY DEF UnloadPrevious, UnloadFails, TypeOK
<1>2. /\ psk' = psk
      /\ \/ retired[n] /\ at'[n] = "idle" /\ job'[n] = "done"
         \/ ~retired[n] /\ at'[n] = "bootstrap" /\ job'[n] = job[n]
      /\ \A m \in Node \ {n} : UNCHANGED <<at[m], job[m]>>
  BY <1>1, RetireStep
<1>3. /\ gen[n] \in Nat /\ gen[n] # 0 /\ old[n] \in Nat /\ old[n] # 0 /\ old[n] < gen[n]
      /\ NextGen(n)' = gen[n] + 1
  BY <1>1 DEF TypeOK, CredInv, Committed, NextGen
<1>4. \/ Ids(n)' = Ids(n) \ {old[n]} /\ leaked'[n] = leaked[n]
      \/ Ids(n)' = Ids(n) /\ leaked'[n] = leaked[n] \cup {old[n]}
  BY <1>1 DEF Ids
<1>5. Ids(n) \subseteq {0, gen[n]} \cup leaked[n] \cup {old[n]}
  BY <1>1 DEF CredInv, Committed
<1>6. Ids(n)' \subseteq {0, gen[n]} \cup leaked'[n]
  BY <1>4, <1>5
<1>7. leaked'[n] \subseteq 1 .. (gen[n] - 1)
  BY <1>3, <1>4 DEF CredInv
<1>8. gen[n] \in Ids(n)' /\ held'[n] # {}
  <2>1. gen[n] \in Ids(n)'
    BY <1>3, <1>4 DEF CredInv
  <2> QED
    BY <2>1 DEF Ids
<1>9. CredInv(n)'
  BY <1>1, <1>2, <1>3, <1>4, <1>6, <1>7, <1>8 DEF CredInv, Loading, Committed
<1>10. clean' /\ interval > 0 =>
         job[n] # "random" /\ <<gen[n], Agreed(interval)>> \in held'[n]
  <2> DEFINE cred == <<gen[n], Agreed(interval)>>
  <2>1. cred[1] = gen[n]
    OBVIOUS
  <2>2. clean /\ interval > 0 => job[n] # "random" /\ cred \in held[n]
    BY <1>1 DEF WriteInv, Committed
  <2> HIDE DEF cred
  <2>3. clean' /\ interval > 0 => job[n] # "random" /\ cred \in held'[n]
    BY <1>1, <1>3, <2>1, <2>2
  <2> QED
    BY <2>3 DEF cred
<1>11. job[n] \in {"key", "random"} /\ (job[n] = "key" => psk[n] = Agreed(interval))
  BY <1>1 DEF WriteInv, TypeOK
<1>12. Agreed(interval)' = Agreed(interval) /\ gen[n] + 1 \notin Ids(n)'
  BY <1>3, <1>6, <1>7 DEF Agreed
<1>13. retired[n] => 0 \notin Ids(n)'
  BY <1>4 DEF CredInv
<1>14. WriteInv(n)'
  BY <1>1, <1>2, <1>3, <1>10, <1>11, <1>12, <1>13 DEF WriteInv, Loading, Committed
<1> QED
  BY <1>1, <1>2, <1>9, <1>14 DEF Untouched

\* retireBootstrap: unload-shared, get-shared, or the failure of either.
LEMMA BootstrapStep ==
  ASSUME TypeOK, NEW n \in Node, CredInv(n), WriteInv(n), interval' = interval,
         UnloadBootstrap(n) \/ ConfirmRetired(n) \/ RetireFails(n)
  PROVE  /\ CredInv(n)' /\ WriteInv(n)'
         /\ \A m \in Node \ {n} : Untouched(m)
<1>1. /\ gen[n] \in Nat /\ gen[n] # 0 /\ gen[n] \in Ids(n) /\ NextGen(n) = gen[n] + 1
      /\ job[n] \in {"key", "random"} /\ at[n] \in {"bootstrap", "confirm"}
      /\ Ids(n) \subseteq {0, gen[n]} \cup leaked[n] /\ leaked[n] \subseteq 1 .. (gen[n] - 1)
  BY DEF CredInv, WriteInv, Committed, TypeOK, NextGen,
         UnloadBootstrap, ConfirmRetired, RetireFails
<1>2. /\ UNCHANGED <<gen, loaded, old, leaked>> /\ psk' = psk
      /\ \A m \in Node \ {n} : UNCHANGED <<at[m], job[m]>>
  BY ProceedStep, ReturnStep DEF UnloadBootstrap, ConfirmRetired, RetireFails
<1>3. NextGen(n)' = gen[n] + 1 /\ Agreed(interval)' = Agreed(interval)
  BY <1>1, <1>2 DEF NextGen, Agreed
<1>4. CASE UnloadBootstrap(n)
  <2>1. /\ at'[n] = "confirm" /\ job'[n] = job[n] /\ retired' = retired /\ (clean' => clean)
        /\ \/ held'[n] = {cred \in held[n] : cred[1] # 0}
           \/ held'[n] = held[n] /\ clean' = FALSE
        /\ \A m \in Node \ {n} : held'[m] = held[m]
    BY <1>4, ProceedStep DEF UnloadBootstrap, TypeOK
  <2>2. Ids(n)' = Ids(n) \ {0} \/ (Ids(n)' = Ids(n) /\ clean' = FALSE)
    BY <2>1 DEF Ids
  <2>3. gen[n] \in Ids(n)' /\ held'[n] # {}
    <3>1. gen[n] \in Ids(n)'
      BY <1>1, <2>2
    <3> QED
      BY <3>1 DEF Ids
  <2>4. CredInv(n)'
    BY <1>1, <1>2, <1>3, <2>1, <2>2, <2>3 DEF CredInv, Loading, Committed
  <2>5. clean' /\ interval > 0 =>
          job[n] # "random" /\ <<gen[n], Agreed(interval)>> \in held'[n]
    <3> DEFINE cred == <<gen[n], Agreed(interval)>>
    <3>1. cred[1] = gen[n]
      OBVIOUS
    <3>2. clean /\ interval > 0 => job[n] # "random" /\ cred \in held[n]
      BY <1>1 DEF WriteInv, Committed
    <3> HIDE DEF cred
    <3>3. clean' /\ interval > 0 => job[n] # "random" /\ cred \in held'[n]
      BY <1>1, <2>1, <3>1, <3>2
    <3> QED
      BY <3>3 DEF cred
  <2>6. job[n] = "key" => psk[n] = Agreed(interval)
    BY DEF WriteInv
  <2>7. WriteInv(n)'
    BY <1>1, <1>2, <1>3, <2>1, <2>2, <2>5, <2>6 DEF WriteInv, Loading, Committed
  <2> QED
    BY <1>2, <2>1, <2>4, <2>7 DEF Untouched
<1>5. CASE ConfirmRetired(n) \/ RetireFails(n)
  <2>1. /\ at'[n] = "idle" /\ job'[n] = "done" /\ held' = held
        /\ (clean' => clean /\ at[n] = "confirm")
        /\ (retired'[n] => 0 \notin Ids(n))
        /\ \A m \in Node \ {n} : retired'[m] = retired[m]
    BY <1>5, ReturnStep DEF ConfirmRetired, RetireFails, TypeOK, CredInv
  <2>2. Ids(n)' = Ids(n)
    BY <2>1 DEF Ids
  <2>3. CredInv(n)'
    BY <1>1, <1>2, <1>3, <2>1, <2>2 DEF CredInv, Loading, Committed
  <2>4. clean' /\ interval > 0 => <<gen[n], Agreed(interval)>> \in held[n] /\ 0 \notin Ids(n)
    BY <1>1, <2>1 DEF WriteInv, Committed
  <2>5. WriteInv(n)'
    BY <1>1, <1>2, <1>3, <2>1, <2>2, <2>4 DEF WriteInv, Loading, Committed
  <2> QED
    BY <1>2, <2>1, <2>3, <2>5 DEF Untouched
<1> QED
  BY <1>4, <1>5

\* Every call of a write.
LEMMA RotateStep ==
  ASSUME TypeOK, NEW n \in Node, CredInv(n), WriteInv(n), Rotate(n), interval' = interval
  PROVE  /\ CredInv(n)' /\ WriteInv(n)' /\ (clean' => clean)
         /\ \A m \in Node \ {n} : Untouched(m)
<1>1. CASE LoadPPK(n)
  BY <1>1, LoadStep DEF LoadPPK
<1>2. CASE AssertLoaded(n)
  <2>1. CASE n = Driver
    <3>1. /\ at'[n] = "list" /\ job'[n] = job[n] /\ psk' = psk /\ at[n] = "assert"
          /\ NextGen(n) \in Ids(n)
          /\ UNCHANGED <<gen, loaded, old, retired, held, clean, leaked>>
          /\ \A m \in Node \ {n} : UNCHANGED <<at[m], job[m]>>
      BY <1>2, <2>1, ProceedStep DEF AssertLoaded
    <3>2. Ids(n)' = Ids(n) /\ NextGen(n)' = NextGen(n)
      BY <3>1 DEF Ids, NextGen
    <3>3. CredInv(n)'
      BY <3>1, <3>2 DEF CredInv, Loading, Committed
    <3>4. WriteInv(n)'
      BY <3>1, <3>2 DEF WriteInv, Loading, Committed, Agreed
    <3> QED
      BY <3>1, <3>3, <3>4 DEF Untouched
  <2>2. CASE n # Driver
    BY <1>2, <2>2, CommitStep DEF AssertLoaded
  <2> QED
    BY <2>1, <2>2
<1>3. CASE ListSas(n)
  <2>1. /\ at'[n] \in {"initiate", "rekey"} /\ job'[n] = job[n] /\ psk' = psk
        /\ at[n] = "list"
        /\ UNCHANGED <<gen, loaded, old, retired, held, clean, leaked>>
        /\ \A m \in Node \ {n} : UNCHANGED <<at[m], job[m]>>
    BY <1>3, ProceedStep DEF ListSas
  <2>2. Ids(n)' = Ids(n) /\ NextGen(n)' = NextGen(n)
    BY <2>1 DEF Ids, NextGen
  <2>3. CredInv(n)'
    BY <2>1, <2>2 DEF CredInv, Loading, Committed
  <2>4. WriteInv(n)'
    BY <2>1, <2>2 DEF WriteInv, Loading, Committed, Agreed
  <2> QED
    BY <2>1, <2>3, <2>4 DEF Untouched
<1>4. CASE Rekey(n) \/ InitiateReturns(n)
  <2>1. at[n] \in Loading /\ NextGen(n) \in Ids(n)
    BY <1>4 DEF Rekey, InitiateReturns, CredInv, Loading
  <2> QED
    BY <1>4, <2>1, CommitStep DEF Rekey, InitiateReturns
<1>5. CASE RekeyMatchesNothing(n) \/ CallFails(n)
  <2>1. Fail(n) /\ at[n] \in Loading \cup {"load", "assert"}
    BY <1>5 DEF RekeyMatchesNothing, CallFails, Loading
  <2> QED
    BY <2>1, FailStep DEF Fail
<1>6. CASE InitiateQueued(n)
  <2>1. \A m \in Node : Untouched(m)
    BY <1>6 DEF InitiateQueued, repo, Untouched
  <2> QED
    BY <1>6, <2>1, RotationFrame DEF InitiateQueued
<1>7. CASE UnloadPrevious(n) \/ UnloadFails(n)
  <2>1. clean' => clean
    BY <1>7 DEF UnloadPrevious, UnloadFails
  <2> QED
    BY <1>7, <2>1, UnloadStep
<1>8. CASE UnloadBootstrap(n) \/ ConfirmRetired(n) \/ RetireFails(n)
  <2>1. clean' => clean
    BY <1>8 DEF UnloadBootstrap, ConfirmRetired, RetireFails
  <2> QED
    BY <1>8, <2>1, BootstrapStep
<1> QED
  BY <1>1, <1>2, <1>3, <1>4, <1>5, <1>6, <1>7, <1>8 DEF Rotate

\* A new arnika: it adopts the highest generation, so what it could not
\* unload is older, and a bootstrap it has not seen retired is not latched.
LEMMA ReconcileStep ==
  ASSUME TypeOK, NEW n \in Node, CredInv(n), WriteInv(n), Reconcile(n)
  PROVE  /\ CredInv(n)' /\ WriteInv(n)'
         /\ \A m \in Node \ {n} : Untouched(m)
<1>1. /\ retired'[n] = FALSE /\ at'[n] = "idle" /\ job'[n] = "done" /\ old'[n] = 0
      /\ clean' = FALSE /\ psk' = psk /\ interval' = interval
      /\ \A m \in Node \ {n} : UNCHANGED <<retired[m], at[m], job[m], old[m]>>
  BY DEF Reconcile, TypeOK
<1>2. WriteInv(n)'
  BY <1>1 DEF WriteInv
<1>3. CASE Generations(n) = {}
  <2>1. gen'[n] = 0 /\ loaded'[n] = 0 /\ UNCHANGED <<held, leaked>>
        /\ \A m \in Node \ {n} : UNCHANGED <<gen[m], loaded[m]>>
    BY <1>3 DEF Reconcile, TypeOK
  <2>2. Ids(n)' = Ids(n) /\ NextGen(n)' = 1 /\ gen[n] = 0 /\ Ids(n) \subseteq {0}
    BY <1>3, <2>1 DEF Ids, NextGen, Generations, CredInv
  <2>3. CredInv(n)'
    BY <1>1, <2>1, <2>2 DEF CredInv, Loading, Committed
  <2> QED
    BY <1>1, <1>2, <2>1, <2>3 DEF Untouched
<1>4. CASE Generations(n) # {}
  <2>1. PICK newest \in Generations(n), stuck \in SUBSET Generations(n) :
          /\ \A g \in Generations(n) : g <= newest
          /\ newest \notin stuck
          /\ gen' = [gen EXCEPT ![n] = newest]
          /\ loaded' = [loaded EXCEPT ![n] = newest]
          /\ held' = [held EXCEPT ![n] =
                        {cred \in held[n] : cred[1] \in {0, newest} \cup stuck}]
          /\ leaked' = [leaked EXCEPT ![n] = stuck]
    BY <1>4 DEF Reconcile
  <2>2. \A g \in Generations(n) : g \in Nat /\ g # 0 /\ g \in Ids(n)
    BY DEF Generations, Ids, TypeOK, Id
  <2>3. /\ gen'[n] = newest /\ loaded'[n] = newest /\ leaked'[n] = stuck
        /\ held'[n] = {cred \in held[n] : cred[1] \in {0, newest} \cup stuck}
        /\ \A m \in Node \ {n} : UNCHANGED <<gen[m], loaded[m], held[m], leaked[m]>>
    BY <2>1 DEF TypeOK
  <2>4. Ids(n)' = Ids(n) \cap ({0, newest} \cup stuck)
    BY <2>3 DEF Ids
  <2>5. stuck \subseteq 1 .. (newest - 1)
    BY <2>1, <2>2
  <2>6. newest \in Ids(n)' /\ held'[n] # {}
    <3>1. newest \in Ids(n)'
      BY <2>2, <2>4
    <3> QED
      BY <3>1 DEF Ids
  <2>7. CredInv(n)'
    BY <1>1, <2>2, <2>3, <2>4, <2>5, <2>6 DEF CredInv, Loading, Committed
  <2> QED
    BY <1>1, <1>2, <2>3, <2>7 DEF Untouched
<1> QED
  BY <1>3, <1>4

\* arnika starts a write: nothing is loaded yet.
LEMMA SetPSKStep ==
  ASSUME TypeOK, NEW n \in Node, CredInv(n), WriteInv(n),
         WriteKey(n) \/ WriteWithoutAck(n) \/ WriteUnmatched(n)
  PROVE  /\ CredInv(n)' /\ WriteInv(n)' /\ (clean' => clean) /\ interval' = interval
         /\ \A m \in Node \ {n} : Untouched(m)
<1>0. PICK kind \in {"key", "random"} : \E key :
        /\ SetPSK(n, kind, key)
        /\ (kind = "key" => key = Agreed(interval) /\ clean' = clean)
        /\ (kind = "random" => clean' = FALSE)
  BY DEF WriteKey, WriteWithoutAck, WriteUnmatched
<1>1. PICK key :
        /\ SetPSK(n, kind, key)
        /\ (kind = "key" => key = Agreed(interval) /\ clean' = clean)
        /\ (kind = "random" => clean' = FALSE)
  BY <1>0
<1>2. /\ at'[n] = "load" /\ job'[n] = kind /\ psk'[n] = key /\ at[n] = "idle"
      /\ UNCHANGED <<gen, loaded, retired, old, held, leaked, interval>>
      /\ \A m \in Node \ {n} : UNCHANGED <<at[m], job[m], psk[m]>>
  BY <1>1 DEF SetPSK, TypeOK
<1>3. Ids(n)' = Ids(n) /\ NextGen(n)' = NextGen(n) /\ Agreed(interval)' = Agreed(interval)
  BY <1>2 DEF Ids, NextGen, Agreed
<1>4. CredInv(n)'
  BY <1>2, <1>3 DEF CredInv, Loading, Committed
<1>5. WriteInv(n)'
  BY <1>1, <1>2, <1>3 DEF WriteInv, Loading, Committed
<1>6. clean' => clean
  BY <1>1
<1> QED
  BY <1>2, <1>4, <1>5, <1>6 DEF Untouched

LEMMA RotationInit == Init => RotationInv
<1> SUFFICES ASSUME Init, NEW n \in Node PROVE CredInv(n) /\ WriteInv(n)
  BY DEF RotationInv
<1>1. /\ gen[n] = 0 /\ loaded[n] = 0 /\ retired[n] = FALSE /\ at[n] = "idle"
      /\ held[n] = {<<0, Bootstrap>>} /\ job[n] = "done" /\ leaked[n] = {} /\ interval = 0
  BY DEF Init
<1>2. Ids(n) = {0}
  BY <1>1 DEF Ids
<1> QED
  BY <1>1, <1>2 DEF CredInv, WriteInv, Loading, Committed

LEMMA RotationStep == TypeInv /\ RotationInv /\ [Next]_vars => RotationInv'
<1> SUFFICES ASSUME TypeInv, RotationInv, [Next]_vars, NEW m \in Node
             PROVE  CredInv(m)' /\ WriteInv(m)'
  BY DEF RotationInv
<1> USE DEF TypeInv
<1>0. \A n \in Node : CredInv(n) /\ WriteInv(n)
  BY DEF RotationInv
<1>1. ASSUME NEW n \in Node, Rotate(n), UNCHANGED <<interval, backup, restarts>>
      PROVE  CredInv(m)' /\ WriteInv(m)'
  BY <1>0, <1>1, RotateStep, RotationFrame
<1>2. ASSUME NEW n \in Node, Reconcile(n) PROVE CredInv(m)' /\ WriteInv(m)'
  <2>1. interval' = interval /\ clean' = FALSE
    BY <1>2 DEF Reconcile
  <2> QED
    BY <1>0, <1>2, <2>1, ReconcileStep, RotationFrame
<1>3. ASSUME NEW n \in Node, WriteKey(n) \/ WriteWithoutAck(n) \/ WriteUnmatched(n)
      PROVE  CredInv(m)' /\ WriteInv(m)'
  BY <1>0, <1>3, SetPSKStep, RotationFrame
<1>4. CASE NextInterval
  <2>1. /\ at[m] = "idle" /\ job'[m] = "due"
        /\ UNCHANGED <<gen, loaded, retired, at, old, held, leaked>>
    BY <1>4 DEF NextInterval, repo
  <2>2. Ids(m)' = Ids(m) /\ NextGen(m)' = NextGen(m)
    BY <2>1 DEF Ids, NextGen
  <2>3. CredInv(m)'
    BY <1>0, <2>1, <2>2 DEF CredInv
  <2>4. WriteInv(m)'
    BY <2>1 DEF WriteInv, Loading, Committed
  <2> QED
    BY <2>3, <2>4
<1>5. CASE Charon \/ UNCHANGED vars
  <2>1. UNCHANGED <<repo, held, arnika>>
    BY <1>5 DEF Charon, CharonQueues, AuthStart, AuthSucceeds, AuthFails, ReplaceSA, vars
  <2>2. Untouched(m) /\ interval' = interval /\ clean' = clean
    BY <2>1 DEF repo, arnika, Untouched
  <2> QED
    BY <1>0, <2>2, RotationFrame
<1> QED
  BY <1>1, <1>2, <1>3, <1>4, <1>5 DEF Next

LEMMA RotationSafety == Spec => [](TypeInv /\ RotationInv)
BY TypeInit, TypeStep, RotationInit, RotationStep, PTL DEF Spec

\* The generation SetPSK believes in is loaded in charon at every step of a
\* rotation, and so is the one before it until it is unloaded, through failed
\* calls, failed unloads and restarts of arnika.
THEOREM RotationNeverStrands == Spec => []NeverStranded
<1>1. TypeInv /\ RotationInv => NeverStranded
  BY DEF RotationInv, CredInv, NeverStranded
<1> QED
  BY <1>1, RotationSafety, PTL

\* Once retireBootstrap has latched, charon does not hold the bootstrap PPK:
\* no later rotation, failure or restart brings it back.
THEOREM BootstrapStaysRetired == Spec => []RetiredIsGone
<1>1. TypeInv /\ RotationInv => RetiredIsGone
  BY DEF RotationInv, CredInv, RetiredIsGone
<1> QED
  BY <1>1, RotationSafety, PTL

\* Credentials do not accumulate in charon beyond those whose unload failed.
THEOREM RotationLeavesNoOrphans == Spec => []NoOrphans
<1>1. TypeInv /\ RotationInv => NoOrphans
  BY DEF RotationInv, CredInv, NoOrphans
<1> QED
  BY <1>1, RotationSafety, PTL

\* After an interval without a fault both nodes hold the agreed key as their
\* current generation, whatever failed in the intervals before it.
THEOREM CleanRotationConverges == Spec => []CleanRotationAgrees
<1>1. TypeInv /\ RotationInv => CleanRotationAgrees
  <2> SUFFICES ASSUME TypeInv, RotationInv, interval > 0, Settled, clean, NEW n \in Node
               PROVE  <<gen[n], Agreed(interval)>> \in held[n] /\ Ids(n) \ leaked[n] = {gen[n]}
    BY DEF CleanRotationAgrees
  <2>1. job[n] = "done" /\ at[n] = "idle" /\ CredInv(n) /\ WriteInv(n)
    BY DEF Settled, RotationInv
  <2>2. gen[n] \in Nat /\ leaked[n] \subseteq 1 .. (gen[n] - 1)
    BY <2>1 DEF TypeInv, TypeOK, CredInv
  <2>3. /\ <<gen[n], Agreed(interval)>> \in held[n]
        /\ 0 \notin Ids(n) /\ NextGen(n) \notin Ids(n)
    BY <2>1 DEF WriteInv
  <2>4. gen[n] \in Ids(n) /\ gen[n] \notin leaked[n]
    BY <2>2, <2>3 DEF Ids
  <2> QED
    BY <2>1, <2>3, <2>4 DEF CredInv
<1> QED
  BY <1>1, RotationSafety, PTL
=============================================================================
