----------------------------- MODULE WebuiProofs -----------------------------
(***************************************************************************)
(* Proofs about the parts of the web UI, for every value of their bounds.  *)
(* The parts share no variable that two of them change in one behaviour,   *)
(* so that what a part's own steps keep holds while that part runs.        *)
(***************************************************************************)
EXTENDS MCWebui, Integers, FiniteSetTheorems, WellFoundedInduction, TLAPS

\* The smaller and the larger of two numbers, as FiniteSetsExt defines them.
LEMMA MinOfTwo ==
  ASSUME NEW a \in Nat, NEW b \in Nat
  PROVE  E2E!Min({a, b}) = IF a <= b THEN a ELSE b
<1> DEFINE m == IF a <= b THEN a ELSE b
<1>1. m \in {a, b} /\ \A y \in {a, b} : m <= y
  OBVIOUS
<1>2. ASSUME NEW x \in {a, b}, \A y \in {a, b} : x <= y PROVE x = m
  BY <1>2
<1> QED
  BY <1>1, <1>2 DEF E2E!Min

LEMMA MaxOfTwo ==
  ASSUME NEW a \in Int, NEW b \in Int
  PROVE  E2E!Max({a, b}) = IF a >= b THEN a ELSE b
<1> DEFINE m == IF a >= b THEN a ELSE b
<1>1. m \in {a, b} /\ \A y \in {a, b} : m >= y
  OBVIOUS
<1>2. ASSUME NEW x \in {a, b}, \A y \in {a, b} : x >= y PROVE x = m
  BY <1>2
<1> QED
  BY <1>1, <1>2 DEF E2E!Max

-----------------------------------------------------------------------------
(* /e2e.  What makes the properties inductive: which legs a cycle holds    *)
(* from the step that draws them on, and, as long as the failed layer has  *)
(* not changed in this cycle, that it holds exactly those it can.          *)

E2ELegs ==
  /\ step \in {3, 4} => qkd \in {mode, None} /\ (mode = "B" => qkd = None)
  /\ step = 4 => {pqc, derived} \subseteq {mode, None} /\ (mode = "A" => pqc = None)

E2ESteady ==
  steady =>
    /\ step \in {3, 4} => (qkd # None <=> failed # "qkd" /\ mode # "B")
    /\ step = 4 => /\ pqc # None <=> failed # "pqc" /\ mode # "A"
                   /\ derived # None <=> qkd # None \/ pqc # None

E2EInv ==
  /\ E2E!TypeOK
  /\ fatal = E2E!FailureIsFatal(mode, failed)
  /\ E2ELegs
  /\ E2ESteady
  /\ E2E!KeyWasDeposited
  /\ E2E!IdleHoldsNothing

LEMMA E2EImplies == E2EInv => E2E!CyclesSealOwnKeys
BY E2EAssumption
   DEF E2EInv, E2ELegs, E2ESteady, E2E!CyclesSealOwnKeys, E2E!LegsMatchMode,
       E2E!SealsWithKey, E2E!FailureIsFatal, E2E!TypeOK, E2E!Mode, E2E!E2ELayer

LEMMA E2EStart == E2E!Init => E2EInv
<1> SUFFICES ASSUME E2E!Init PROVE E2EInv
  OBVIOUS
<1> USE E2EAssumption DEF E2E!Init
<1>1. E2E!TypeOK
  <2>1. pool \in 0 .. PoolCapacity /\ step \in 0 .. 4 /\ {qkd, pqc, derived} = {None}
    OBVIOUS
  <2>2. {fatal, timer, psk, keyId, steady} \subseteq BOOLEAN
    OBVIOUS
  <2> QED
    BY <2>1, <2>2 DEF E2E!TypeOK, E2E!Mode
<1>2. fatal = E2E!FailureIsFatal(mode, failed)
  BY DEF E2E!FailureIsFatal
<1>3. E2ELegs /\ E2ESteady /\ E2E!KeyWasDeposited /\ E2E!IdleHoldsNothing
  BY DEF E2ELegs, E2ESteady, E2E!KeyWasDeposited, E2E!IdleHoldsNothing
<1> QED
  BY <1>1, <1>2, <1>3 DEF E2EInv

\* The work of a step, wherever it is called from: what it leaves for the next.
LEMMA E2EWork ==
  ASSUME E2EInv, NEW n \in 0 .. 4, n = step \/ (n = 1 /\ step = 0), E2E!Work(n),
         UNCHANGED <<mode, failed>>
  PROVE  /\ pool' \in 0 .. PoolCapacity /\ {qkd', pqc', derived'} \subseteq E2E!Mode \cup {None}
         /\ psk' \in BOOLEAN /\ keyId' \in BOOLEAN
         /\ n = 1 /\ failed # "qkd" => pool' >= 1
         /\ n = 2 => /\ qkd' \in {mode, None} /\ (mode = "B" => qkd' = None)
                     /\ qkd' # None <=> failed # "qkd" /\ mode # "B"
         /\ n = 3 => /\ qkd' = qkd
                     /\ {pqc', derived'} \subseteq {mode, None} /\ (mode = "A" => pqc' = None)
                     /\ pqc' # None <=> failed # "pqc" /\ mode # "A"
                     /\ derived' # None <=> qkd # None \/ pqc' # None
<1> USE E2EAssumption DEF E2EInv, E2E!TypeOK, E2E!Mode
<1>1. CASE n = 0
  BY <1>1 DEF E2E!Work, E2E!keys
<1>2. CASE n = 1
  BY <1>2, MinOfTwo DEF E2E!Work, E2E!Deposit, E2E!keys
<1>3. CASE n = 2
  <2>1. E2E!Exchange
    BY <1>3 DEF E2E!Work
  <2>2. E2E!Max({0, pool - 1}) \in 0 .. PoolCapacity
    BY MaxOfTwo
  <2> QED
    BY <1>3, <2>1, <2>2 DEF E2E!Exchange
<1>4. CASE n = 3
  <2>1. E2E!Derive
    BY <1>4 DEF E2E!Work
  <2> QED
    BY <1>4, <2>1 DEF E2E!Derive
<1>5. CASE n = 4
  <2>1. E2E!Seal
    BY <1>5 DEF E2E!Work
  <2> QED
    BY <1>5, <2>1 DEF E2E!Seal
<1> QED
  BY <1>1, <1>2, <1>3, <1>4, <1>5

LEMMA E2EStep == E2EInv /\ [E2E!Next]_(E2E!vars) => E2EInv'
<1> SUFFICES ASSUME E2EInv, [E2E!Next]_(E2E!vars) PROVE E2EInv'
  OBVIOUS
<1> USE E2EAssumption
<1> USE DEF E2EInv, E2E!TypeOK, E2ELegs, E2ESteady, E2E!KeyWasDeposited,
            E2E!IdleHoldsNothing, E2E!Mode, E2E!E2ELayer
<1>1. CASE E2E!Tick
  <2>1. /\ E2E!Work(step) /\ UNCHANGED <<mode, failed, fatal>> /\ status = "running"
        /\ E2E!HaltOr(step, "running") /\ E2E!Advance(~E2E!Halts(step))
    BY <1>1 DEF E2E!Tick
  <2>2. status' \in {"running", "paused"} /\ timer' \in BOOLEAN
    BY <2>1 DEF E2E!HaltOr
  <2>3. /\ steady' \in BOOLEAN
        /\ step = 4 => step' \in {0, 1}
        /\ step # 4 => step' = step + 1 /\ (step' # 1 => steady' = steady)
    BY <2>1 DEF E2E!Advance, E2E!Enter
  <2>4. step \in 0 .. 4 /\ step' \in 0 .. 4
    BY <2>3
  <2>5. /\ pool' \in 0 .. PoolCapacity /\ {qkd', pqc', derived'} \subseteq E2E!Mode \cup {None}
        /\ psk' \in BOOLEAN /\ keyId' \in BOOLEAN
        /\ step = 1 /\ failed # "qkd" => pool' >= 1
        /\ step = 2 => /\ qkd' \in {mode, None} /\ (mode = "B" => qkd' = None)
                       /\ qkd' # None <=> failed # "qkd" /\ mode # "B"
        /\ step = 3 => /\ qkd' = qkd
                       /\ {pqc', derived'} \subseteq {mode, None} /\ (mode = "A" => pqc' = None)
                       /\ pqc' # None <=> failed # "pqc" /\ mode # "A"
                       /\ derived' # None <=> qkd # None \/ pqc' # None
    BY <2>1, <2>4, E2EWork
  <2>6. E2E!TypeOK'
    BY <2>1, <2>2, <2>3, <2>4, <2>5
  <2>7. E2ELegs' /\ E2ESteady' /\ E2E!KeyWasDeposited'
    BY <2>1, <2>3, <2>4, <2>5
  <2>8. fatal' = E2E!FailureIsFatal(mode', failed') /\ E2E!IdleHoldsNothing'
    BY <2>1, <2>2
  <2> QED
    BY <2>6, <2>7, <2>8
<1>2. CASE E2E!Step
  <2> DEFINE n == IF step = 0 THEN 1 ELSE step
             label == IF status = "paused" THEN "paused" ELSE "stepped"
  <2>1. /\ E2E!Work(n) /\ UNCHANGED <<mode, failed, fatal>>
        /\ E2E!HaltOr(n, label) /\ steady' = (step = 0 \/ steady)
        /\ step' = IF n = 4 THEN 0 ELSE n + 1
    BY <1>2 DEF E2E!Step
  <2>2. status' \in {"paused", "stepped"} /\ timer' \in BOOLEAN
    BY <2>1 DEF E2E!HaltOr
  <2>3. n \in 1 .. 4 /\ (n = step \/ (n = 1 /\ step = 0))
    OBVIOUS
  <2> HIDE DEF n
  <2>5. /\ pool' \in 0 .. PoolCapacity /\ {qkd', pqc', derived'} \subseteq E2E!Mode \cup {None}
        /\ psk' \in BOOLEAN /\ keyId' \in BOOLEAN
        /\ n = 1 /\ failed # "qkd" => pool' >= 1
        /\ n = 2 => /\ qkd' \in {mode, None} /\ (mode = "B" => qkd' = None)
                    /\ qkd' # None <=> failed # "qkd" /\ mode # "B"
        /\ n = 3 => /\ qkd' = qkd
                    /\ {pqc', derived'} \subseteq {mode, None} /\ (mode = "A" => pqc' = None)
                    /\ pqc' # None <=> failed # "pqc" /\ mode # "A"
                    /\ derived' # None <=> qkd # None \/ pqc' # None
    BY <2>1, <2>3, E2EWork
  <2>6. E2E!TypeOK'
    BY <2>1, <2>2, <2>3, <2>5
  <2>7. E2ELegs' /\ E2ESteady' /\ E2E!KeyWasDeposited'
    BY <2>1, <2>3, <2>5
  <2>8. fatal' = E2E!FailureIsFatal(mode', failed') /\ E2E!IdleHoldsNothing'
    BY <2>1, <2>2
  <2> QED
    BY <2>6, <2>7, <2>8
<1>3. CASE E2E!Start
  <2> USE <1>3 DEF E2E!Start, E2E!Enter, E2E!keys
  <2>1. E2E!TypeOK'
    <3>1. step' \in 0 .. 4 /\ status' = "running"
      OBVIOUS
    <3>2. timer' \in BOOLEAN /\ steady' \in BOOLEAN
      OBVIOUS
    <3>3. UNCHANGED <<mode, failed, fatal, pool, qkd, pqc, derived, psk, keyId>>
      OBVIOUS
    <3> QED
      BY <3>1, <3>2, <3>3
  <2>2. fatal' = E2E!FailureIsFatal(mode', failed')
    BY DEF E2E!FailureIsFatal
  <2>3. E2ELegs' /\ E2ESteady' /\ E2E!KeyWasDeposited' /\ E2E!IdleHoldsNothing'
    OBVIOUS
  <2> QED
    BY <2>1, <2>2, <2>3
<1>4. CASE E2E!Pause \/ E2E!Resume
  <2> USE <1>4 DEF E2E!Pause, E2E!Resume, E2E!keys
  <2>1. E2E!TypeOK'
    OBVIOUS
  <2>2. fatal' = E2E!FailureIsFatal(mode', failed')
    BY DEF E2E!FailureIsFatal
  <2>3. E2ELegs' /\ E2ESteady' /\ E2E!KeyWasDeposited' /\ E2E!IdleHoldsNothing'
    OBVIOUS
  <2> QED
    BY <2>1, <2>2, <2>3
<1>5. CASE E2E!Reset \/ E2E!Abort
  <2> USE <1>5 DEF E2E!Reset, E2E!Abort, E2E!ClearKeyMaterial
  <2>1. E2E!TypeOK'
    <3>1. /\ status' = "idle" /\ step' \in 0 .. 4 /\ pool' \in 0 .. PoolCapacity
          /\ mode' = mode /\ failed' \in {failed, None} /\ {qkd', pqc', derived'} = {None}
      OBVIOUS
    <3>2. {fatal', timer', psk', keyId', steady'} \subseteq BOOLEAN
      OBVIOUS
    <3> QED
      BY <3>1, <3>2
  <2>2. fatal' = E2E!FailureIsFatal(mode', failed')
    BY DEF E2E!FailureIsFatal
  <2>3. E2ELegs' /\ E2ESteady' /\ E2E!KeyWasDeposited' /\ E2E!IdleHoldsNothing'
    OBVIOUS
  <2> QED
    BY <2>1, <2>2, <2>3
<1>6. CASE E2E!StepThrows
  BY <1>6 DEF E2E!StepThrows, E2E!keys, E2E!FailureIsFatal
<1>7. ASSUME NEW m \in E2E!Mode, E2E!SetMode(m) PROVE E2EInv'
  BY <1>7 DEF E2E!SetMode, E2E!keys, E2E!FailureIsFatal
<1>8. ASSUME NEW layer \in E2E!E2ELayer, E2E!InjectFailure(layer) PROVE E2EInv'
  BY <1>8 DEF E2E!InjectFailure, E2E!keys, E2E!FailureIsFatal
<1>9. CASE E2E!ClearFailure
  BY <1>9 DEF E2E!ClearFailure, E2E!keys, E2E!FailureIsFatal
<1>10. CASE UNCHANGED E2E!vars
  BY <1>10 DEF E2E!vars, E2E!keys, E2E!FailureIsFatal
<1> QED
  BY <1>1, <1>2, <1>3, <1>4, <1>5, <1>6, <1>7, <1>8, <1>9, <1>10 DEF E2E!Next

\* Whatever the order of ticks, buttons, failures and changes of mode, a cycle of
\* /e2e seals with keys of its own mode and leaves none behind.
THEOREM CyclesSealTheirKeys == Spec => []CyclesSealOwnKeys
<1> DEFINE Inv == part = "e2e" => E2EInv
<1>1. Init => Inv
  BY E2EStart DEF Init
<1>2. Inv /\ [Next]_vars => Inv'
  <2> SUFFICES ASSUME Inv, [Next]_vars, part' = "e2e" PROVE E2EInv'
    OBVIOUS
  <2>1. part = "e2e" /\ [E2E!Next]_(E2E!vars)
    BY DEF Next, vars, simVars, pageVars, e2eVars, E2E!vars, E2E!keys
  <2> QED
    BY <2>1, E2EStep
<1>3. Inv => CyclesSealOwnKeys
  BY E2EImplies DEF CyclesSealOwnKeys
<1> HIDE DEF Inv
<1> QED
  BY <1>1, <1>2, <1>3, PTL DEF Spec

-----------------------------------------------------------------------------
(* /paper-flow.  A cycle under way is accepted so far, which is what makes *)
(* the count of cycles add up; the timer runs exactly while the simulation *)
(* does, and what it has not credited yet is at most one gap of its ticks. *)

PaperTime ==
  /\ timer <=> status = "running"
  /\ timer => since <= TickGap
  /\ timer /\ failLayer # None => elapsed + since <= ran + TickGap
  /\ failLayer = None => elapsed = 0 /\ ran = 0 /\ triggered = {}
  /\ ran <= MaxElapsed

PaperInv ==
  /\ Paper!TypeOK
  /\ Paper!KeysOfThisCycle
  /\ Paper!CyclesAccountedFor
  /\ phase > 0 => accepted
  /\ status = "running" => phase > 0
  /\ Paper!FiredIsTriggered
  /\ Paper!PauseIsNotCredited
  /\ PaperTime

LEMMA UnderWay ==
  /\ Paper!Cardinality({0} \ {0}) = 0
  /\ \A n \in 1 .. 5 : Paper!Cardinality({n} \ {0}) = 1
<1>1. {0} \ {0} = {} /\ \A n \in 1 .. 5 : {n} \ {0} = {n}
  OBVIOUS
<1>2. Cardinality({}) = 0 /\ \A n \in 1 .. 5 : Cardinality({n}) = 1
  BY FS_EmptySet, FS_Singleton
<1>3. \A S : Paper!Cardinality(S) = Cardinality(S)
  BY DEF Paper!Cardinality, Cardinality
<1> QED
  BY <1>1, <1>2, <1>3

\* The stages are in the order of their times, and every layer has a first one.
LEMMA StagesInOrder ==
  /\ DOMAIN Paper!Stages = 1 .. 9
  /\ \A i \in 1 .. 9 : Paper!Stages[i].at \in Nat
  /\ \A i, j \in 1 .. 9 : i < j => Paper!Stages[i].at < Paper!Stages[j].at
<1>1. DOMAIN Paper!Stages = 1 .. 9
  BY DEF Paper!Stages
<1>2. /\ Paper!Stages[1].at = 0 /\ Paper!Stages[2].at = 3 /\ Paper!Stages[3].at = 4
      /\ Paper!Stages[4].at = 5 /\ Paper!Stages[5].at = 6 /\ Paper!Stages[6].at = 7
      /\ Paper!Stages[7].at = 8 /\ Paper!Stages[8].at = 9 /\ Paper!Stages[9].at = 12
  BY DEF Paper!Stages
<1>3. \A i \in 1 .. 9 : i = 1 \/ i = 2 \/ i = 3 \/ i = 4 \/ i = 5 \/ i = 6 \/ i = 7 \/ i = 8 \/ i = 9
  OBVIOUS
<1>4. \A i \in 1 .. 9 : Paper!Stages[i].at \in Nat
  BY <1>2, <1>3
<1>5. \A i, j \in 1 .. 9 : i < j => Paper!Stages[i].at < Paper!Stages[j].at
  BY <1>2, <1>3
<1> QED
  BY <1>1, <1>4, <1>5

LEMMA FirstStage == \A layer \in Paper!Layer : Paper!First(layer) \in 1 .. 9
<1> SUFFICES ASSUME NEW layer \in Paper!Layer PROVE Paper!First(layer) \in 1 .. 9
  OBVIOUS
<1>1. layer \in {"qkd", "arnika", "wireguard", "rosenpass", "data"}
  BY DEF Paper!Layer, Paper!PhaseOf
<1>2. /\ Paper!Stages[1].layer = "qkd" /\ Paper!Stages[2].layer = "arnika"
      /\ Paper!Stages[3].layer = "wireguard" /\ Paper!Stages[4].layer = "wireguard"
      /\ Paper!Stages[5].layer = "rosenpass" /\ Paper!Stages[6].layer = "rosenpass"
      /\ Paper!Stages[7].layer = "data" /\ Paper!Stages[8].layer = "data"
      /\ Paper!Stages[9].layer = "data"
  BY DEF Paper!Stages
<1>3. \A i \in 1 .. 9 : i = 1 \/ i = 2 \/ i = 3 \/ i = 4 \/ i = 5 \/ i = 6 \/ i = 7 \/ i = 8 \/ i = 9
  OBVIOUS
<1>4. \E i \in 1 .. 9 :
        Paper!Stages[i].layer = layer /\ \A j \in 1 .. 9 : Paper!Stages[j].layer = layer => i <= j
  <2>1. CASE layer = "qkd"
    BY <1>2, <1>3, <2>1
  <2>2. CASE layer = "arnika"
    BY <1>2, <1>3, <2>2
  <2>3. CASE layer = "wireguard"
    BY <1>2, <1>3, <2>3
  <2>4. CASE layer = "rosenpass"
    BY <1>2, <1>3, <2>4
  <2>5. CASE layer = "data"
    BY <1>2, <1>3, <2>5
  <2> QED
    BY <1>1, <2>1, <2>2, <2>3, <2>4, <2>5
<1> QED
  BY <1>4, StagesInOrder DEF Paper!First

\* A cascade begins with its first stage, and with no other.
LEMMA CascadeStarts ==
  ASSUME NEW layer \in Paper!Layer, NEW i \in 1 .. 9, i >= Paper!First(layer)
  PROVE  /\ Paper!Stages[i].at - Paper!Stages[Paper!First(layer)].at \in Nat
         /\ Paper!Stages[i].at - Paper!Stages[Paper!First(layer)].at <= 0
              <=> i = Paper!First(layer)
<1> DEFINE f == Paper!First(layer)
<1>1. f \in 1 .. 9 /\ i >= f
  BY FirstStage
<1> HIDE DEF f
<1>2. Paper!Stages[f].at \in Nat /\ Paper!Stages[i].at \in Nat
  BY <1>1, StagesInOrder
<1>3. f < i => Paper!Stages[f].at < Paper!Stages[i].at
  BY <1>1, StagesInOrder
<1>4. /\ Paper!Stages[i].at - Paper!Stages[f].at \in Nat
      /\ Paper!Stages[i].at - Paper!Stages[f].at <= 0 <=> i = f
  <2>1. CASE i = f
    BY <1>2, <2>1
  <2>2. CASE f < i
    BY <1>2, <1>3, <2>2
  <2> QED
    BY <1>1, <2>1, <2>2
<1> QED
  BY <1>4 DEF f

LEMMA PaperStart == Paper!Init => PaperInv
<1> SUFFICES ASSUME Paper!Init PROVE PaperInv
  OBVIOUS
<1> USE PaperAssumption DEF Paper!Init
<1>1. Paper!TypeOK
  <2>1. 0 \in 0 .. MaxCycles /\ 0 \in 0 .. MaxElapsed + MaxGap /\ 0 \in 0 .. MaxGap
    OBVIOUS
  <2>2. accepted \in BOOLEAN /\ timer \in BOOLEAN
    OBVIOUS
  <2> QED
    BY <2>1, <2>2 DEF Paper!TypeOK
<1>2. Paper!KeysOfThisCycle
  BY DEF Paper!KeysOfThisCycle
<1>3. Paper!CyclesAccountedFor
  <2>1. {phase} \ {0} = {0} \ {0}
    OBVIOUS
  <2>2. Paper!Cardinality({phase} \ {0}) = 0
    BY <2>1, UnderWay
  <2> QED
    BY <2>2 DEF Paper!CyclesAccountedFor
<1>4. Paper!FiredIsTriggered
  BY DEF Paper!FiredIsTriggered, Paper!Cascade
<1>5. Paper!PauseIsNotCredited /\ PaperTime
  <2>1. timer <=> status = "running"
    OBVIOUS
  <2> QED
    BY <2>1 DEF Paper!PauseIsNotCredited, PaperTime
<1> QED
  BY <1>1, <1>2, <1>3, <1>4, <1>5 DEF PaperInv

LEMMA CyclesInRange ==
  ASSUME PaperInv
  PROVE  /\ total \in Nat /\ succeeded \in Nat /\ lost \in Nat
         /\ phase = 0 => total = succeeded + lost
         /\ phase > 0 => total = succeeded + lost + 1
<1> USE PaperAssumption DEF PaperInv, Paper!TypeOK
<1>1. total \in Nat /\ succeeded \in Nat /\ lost \in Nat /\ phase \in 0 .. 5
  OBVIOUS
<1>2. CASE phase = 0
  <2>1. Paper!Cardinality({phase} \ {0}) = 0
    BY <1>2, UnderWay
  <2> QED
    BY <1>1, <1>2, <2>1 DEF Paper!CyclesAccountedFor
<1>3. CASE phase > 0
  <2>1. phase \in 1 .. 5
    BY <1>1, <1>3
  <2>2. Paper!Cardinality({phase} \ {0}) = 1
    BY <2>1, UnderWay
  <2> QED
    BY <1>1, <1>3, <2>2 DEF Paper!CyclesAccountedFor
<1> QED
  BY <1>1, <1>2, <1>3

\* What must be shown of the cycle after a step, without cardinalities.
CycleInv ==
  /\ phase \in 0 .. 5
  /\ {qkdKey, pqcSecret} \subseteq 1 .. MaxCycles \cup {None}
  /\ {total, succeeded, lost} \subseteq 0 .. MaxCycles /\ accepted \in BOOLEAN
  /\ Paper!KeysOfThisCycle
  /\ phase = 0 => total = succeeded + lost
  /\ phase > 0 => total = succeeded + lost + 1 /\ accepted

LEMMA CycleCounts == ASSUME CycleInv PROVE Paper!CyclesAccountedFor
<1> USE PaperAssumption DEF CycleInv
<1>1. CASE phase = 0
  <2>1. Paper!Cardinality({phase} \ {0}) = 0
    BY <1>1, UnderWay
  <2> QED
    BY <1>1, <2>1 DEF Paper!CyclesAccountedFor
<1>2. CASE phase \in 1 .. 5
  <2>1. Paper!Cardinality({phase} \ {0}) = 1
    BY <1>2, UnderWay
  <2> QED
    BY <1>2, <2>1 DEF Paper!CyclesAccountedFor
<1> QED
  BY <1>1, <1>2

LEMMA PaperCycle == PaperInv => CycleInv
<1> SUFFICES ASSUME PaperInv PROVE CycleInv
  OBVIOUS
<1>1. /\ phase = 0 => total = succeeded + lost
      /\ phase > 0 => total = succeeded + lost + 1
  BY CyclesInRange
<1> QED
  BY <1>1 DEF PaperInv, CycleInv, Paper!TypeOK

\* A cycle begins after the one before it is counted.
LEMMA CycleBegins ==
  ASSUME PaperInv, Paper!BeginCycle, total = succeeded' + lost',
         {succeeded', lost'} \subseteq 0 .. MaxCycles
  PROVE  CycleInv'
<1> USE PaperAssumption
<1>1. /\ total < MaxCycles /\ total' = total + 1 /\ phase' = 1
      /\ qkdKey' = None /\ pqcSecret' = None
  BY DEF Paper!BeginCycle
<1>2. accepted'
  BY DEF Paper!BeginCycle
<1>3. accepted' = TRUE
  BY DEF Paper!BeginCycle
<1>4. total \in 0 .. MaxCycles
  BY DEF PaperInv, Paper!TypeOK
<1>5. total' = succeeded' + lost' + 1 /\ total' \in 0 .. MaxCycles
  BY <1>1, <1>4
<1>6. Paper!KeysOfThisCycle'
  BY <1>1 DEF Paper!KeysOfThisCycle
<1> QED
  BY <1>1, <1>2, <1>3, <1>5, <1>6 DEF CycleInv

\* A phase: it yields its key, ends the cycle as lost in the phase of the failed
\* layer, or as succeeded, and under a running simulation begins the next.
LEMMA CyclePhase ==
  ASSUME PaperInv, phase > 0, Paper!RunPhase
  PROVE  CycleInv' /\ (status' = "running" => phase' > 0)
<1> USE PaperAssumption
<1>1. CycleInv /\ phase \in 1 .. 5 /\ accepted /\ total = succeeded + lost + 1
  BY PaperCycle DEF CycleInv
<1>2. {total, succeeded, lost} \subseteq 0 .. MaxCycles
  BY <1>1 DEF CycleInv
<1>3. /\ qkdKey' \in {qkdKey, total} /\ pqcSecret' \in {pqcSecret, total}
      => {qkdKey', pqcSecret'} \subseteq 1 .. MaxCycles \cup {None}
  BY <1>1, <1>2 DEF CycleInv
<1>4. CASE Paper!EndsCycle
  <2>1. /\ succeeded' = IF accepted /\ ~Paper!Fails THEN succeeded + 1 ELSE succeeded
        /\ lost' = IF Paper!Fails THEN lost + 1 ELSE lost
        /\ IF status' = "running"
             THEN Paper!BeginCycle
             ELSE /\ Paper!Yields /\ phase' = 0 /\ total' = total
                  /\ accepted' = (accepted /\ ~Paper!Fails)
    BY <1>4 DEF Paper!RunPhase
  <2>2. total = succeeded' + lost' /\ {succeeded', lost'} \subseteq 0 .. MaxCycles
    <3>1. CASE Paper!Fails
      BY <1>1, <1>2, <2>1, <3>1
    <3>2. CASE ~Paper!Fails
      BY <1>1, <1>2, <2>1, <3>2
    <3> QED
      BY <3>1, <3>2
  <2>3. CASE status' = "running"
    <3>1. CycleInv' /\ phase' = 1
      BY <2>1, <2>2, <2>3, CycleBegins DEF Paper!BeginCycle
    <3> QED
      BY <3>1
  <2>4. CASE status' # "running"
    <3>1. Paper!Yields /\ phase' = 0 /\ total' = total
      BY <2>1, <2>4
    <3>2. accepted' \in BOOLEAN
      BY <2>1, <2>4
    <3>3. {qkdKey', pqcSecret'} \subseteq 1 .. MaxCycles \cup {None}
      BY <1>3, <3>1 DEF Paper!Yields
    <3>4. Paper!KeysOfThisCycle'
      BY <3>1 DEF Paper!KeysOfThisCycle
    <3> QED
      BY <1>2, <2>2, <2>4, <3>1, <3>2, <3>3, <3>4 DEF CycleInv
  <2> QED
    BY <2>3, <2>4
<1>5. CASE ~Paper!EndsCycle
  <2>1. /\ phase' = phase + 1 /\ Paper!Yields /\ phase \in 1 .. 4 /\ ~Paper!Fails
        /\ UNCHANGED <<total, succeeded, lost>>
    BY <1>1, <1>5 DEF Paper!RunPhase, Paper!EndsCycle
  <2>2. accepted' = (accepted /\ ~Paper!Fails)
    BY <1>5 DEF Paper!RunPhase
  <2>3. accepted' = TRUE
    BY <1>1, <2>1, <2>2
  <2>4. /\ qkdKey' = IF phase = 2 THEN total ELSE qkdKey
        /\ pqcSecret' = IF phase = 4 THEN total ELSE pqcSecret
    BY <2>1 DEF Paper!Yields
  <2>5. Paper!KeysOfThisCycle'
    BY <1>1, <2>1, <2>4 DEF CycleInv, Paper!KeysOfThisCycle
  <2> QED
    BY <1>1, <1>2, <1>3, <2>1, <2>3, <2>4, <2>5 DEF CycleInv
<1> QED
  BY <1>4, <1>5

\* The same of the cascade.
CascadeInv ==
  /\ status \in {"idle", "running", "paused", "stepped"} /\ timer \in BOOLEAN
  /\ failLayer \in Paper!Layer \cup {None} /\ triggered \subseteq Paper!Cascade
  /\ elapsed \in 0 .. MaxElapsed + MaxGap /\ since \in 0 .. MaxGap
  /\ ran \in 0 .. MaxElapsed + MaxGap
  /\ Paper!FiredIsTriggered
  /\ Paper!PauseIsNotCredited
  /\ PaperTime

LEMMA PaperJoins ==
  PaperInv <=> CycleInv /\ CascadeInv /\ (status = "running" => phase > 0)
<1>1. ASSUME CycleInv, CascadeInv, status = "running" => phase > 0 PROVE PaperInv
  <2>1. Paper!CyclesAccountedFor
    BY <1>1, CycleCounts
  <2>2. Paper!TypeOK
    BY <1>1 DEF CycleInv, CascadeInv, Paper!TypeOK
  <2>3. phase > 0 => accepted
    BY <1>1 DEF CycleInv
  <2> QED
    BY <1>1, <2>1, <2>2, <2>3 DEF CycleInv, CascadeInv, PaperInv
<1>2. ASSUME PaperInv PROVE CascadeInv
  BY <1>2 DEF PaperInv, CascadeInv, Paper!TypeOK
<1>3. ASSUME PaperInv PROVE CycleInv /\ (status = "running" => phase > 0)
  BY <1>3, PaperCycle DEF PaperInv
<1> QED
  BY <1>1, <1>2, <1>3

\* A tick credits the time since the last one, and stamps what it reaches.
LEMMA CascadeMoves ==
  ASSUME CascadeInv, timer, Paper!AdvanceCascade, since' = 0, status' = "running",
         UNCHANGED timer
  PROVE  CascadeInv'
<1> USE PaperAssumption
<1>1. /\ elapsed \in Nat /\ since \in Nat /\ ran \in Nat /\ since <= TickGap
      /\ elapsed <= ran + TickGap /\ ran <= MaxElapsed /\ since <= MaxGap
      /\ elapsed <= MaxElapsed + MaxGap
      /\ failLayer # None => elapsed + since <= ran + TickGap
  BY DEF CascadeInv, PaperTime, Paper!PauseIsNotCredited
<1>2. timer' \in BOOLEAN /\ (timer' <=> status' = "running")
  BY DEF CascadeInv
<1>3. CASE failLayer = None
  <2>1. UNCHANGED <<failLayer, triggered, elapsed, ran>>
    BY <1>3 DEF Paper!AdvanceCascade, Paper!cascadeVars
  <2>2. Paper!FiredIsTriggered' /\ triggered' \subseteq Paper!Cascade'
    BY <2>1 DEF CascadeInv, Paper!FiredIsTriggered, Paper!Cascade, Paper!Offset
  <2>3. Paper!PauseIsNotCredited' /\ PaperTime'
    BY <1>1, <1>2, <1>3, <2>1 DEF CascadeInv, Paper!PauseIsNotCredited, PaperTime
  <2> QED
    BY <1>1, <1>2, <2>1, <2>2, <2>3 DEF CascadeInv
<1>4. CASE failLayer # None
  <2>1. /\ elapsed < MaxElapsed /\ elapsed' = elapsed + since
        /\ triggered' = triggered \cup {i \in Paper!Cascade : Paper!Offset(i) <= elapsed'}
        /\ UNCHANGED <<failLayer, ran>>
    BY <1>4 DEF Paper!AdvanceCascade
  <2>2. /\ elapsed' \in 0 .. MaxElapsed + MaxGap /\ elapsed <= elapsed'
        /\ elapsed' \in Nat /\ elapsed' + 0 <= ran + TickGap
    BY <1>1, <1>4, <2>1
  <2>3. \A i \in Paper!Cascade : Paper!Offset(i) \in Nat
    BY <1>4, CascadeStarts, StagesInOrder DEF CascadeInv, Paper!Cascade, Paper!Offset
  <2>4. triggered' = {i \in Paper!Cascade : Paper!Offset(i) <= elapsed'}
    BY <1>1, <2>1, <2>2, <2>3 DEF CascadeInv, Paper!FiredIsTriggered
  <2>5. Paper!FiredIsTriggered' /\ triggered' \subseteq Paper!Cascade'
    BY <2>1, <2>4 DEF Paper!FiredIsTriggered, Paper!Cascade, Paper!Offset
  <2>6. Paper!PauseIsNotCredited' /\ PaperTime'
    BY <1>1, <1>2, <1>4, <2>1, <2>2 DEF Paper!PauseIsNotCredited, PaperTime
  <2> QED
    BY <1>1, <1>2, <2>1, <2>2, <2>5, <2>6 DEF CascadeInv
<1> QED
  BY <1>3, <1>4

\* Steps of the cycle and of the controls that leave the outage alone.
LEMMA CascadeFrame ==
  ASSUME CascadeInv, UNCHANGED <<failLayer, triggered, elapsed, ran>>,
         status' \in {"idle", "running", "paused", "stepped"}, timer' \in BOOLEAN,
         timer' <=> status' = "running",
         since' \in 0 .. MaxGap, timer' => since' = 0 \/ (timer /\ since' = since)
  PROVE  CascadeInv'
<1> USE PaperAssumption
<1>1. Paper!FiredIsTriggered' /\ triggered' \subseteq Paper!Cascade'
  BY DEF CascadeInv, Paper!FiredIsTriggered, Paper!Cascade, Paper!Offset
<1>2. /\ elapsed \in Nat /\ since \in Nat /\ ran \in Nat
      /\ elapsed <= ran + TickGap /\ ran <= MaxElapsed
      /\ timer => since <= TickGap
      /\ timer /\ failLayer # None => elapsed + since <= ran + TickGap
      /\ failLayer = None => elapsed = 0 /\ ran = 0 /\ triggered = {}
  BY DEF CascadeInv, PaperTime, Paper!PauseIsNotCredited
<1>3. Paper!PauseIsNotCredited' /\ PaperTime'
  <2>1. timer' => since' <= TickGap
    BY <1>2
  <2>2. timer' /\ failLayer # None => elapsed + since' <= ran + TickGap
    BY <1>2
  <2> QED
    BY <1>2, <2>1, <2>2 DEF Paper!PauseIsNotCredited, PaperTime
<1> QED
  BY <1>1, <1>3 DEF CascadeInv

\* An outage begins with its first stage and with a clock at 0.
LEMMA CascadeBegins ==
  ASSUME CascadeInv, NEW layer \in Paper!Layer \cup {None},
         failLayer' = layer, elapsed' = 0, ran' = 0,
         triggered' = IF layer = None THEN {} ELSE {Paper!First(layer)},
         status' \in {"idle", "running", "paused", "stepped"}, timer' \in BOOLEAN,
         timer' <=> status' = "running", timer' => timer, UNCHANGED since
  PROVE  CascadeInv'
<1> USE PaperAssumption
<1>1. CASE layer = None
  <2>1. Paper!FiredIsTriggered' /\ triggered' \subseteq Paper!Cascade'
    BY <1>1 DEF Paper!FiredIsTriggered, Paper!Cascade
  <2> QED
    BY <1>1, <2>1 DEF CascadeInv, Paper!PauseIsNotCredited, PaperTime
<1>2. CASE layer # None
  <2> DEFINE f == Paper!First(layer)
  <2>1. /\ layer \in Paper!Layer /\ f \in 1 .. 9
        /\ Paper!Cascade' = {i \in 1 .. 9 : i >= f}
    BY <1>2, FirstStage, StagesInOrder DEF Paper!Cascade
  <2>2. \A i \in 1 .. 9 : i >= f =>
          (Paper!Stages[i].at - Paper!Stages[f].at <= 0 <=> i = f)
    BY <2>1, CascadeStarts
  <2>3. {i \in Paper!Cascade' : Paper!Stages[i].at - Paper!Stages[f].at <= 0} = {f}
    <3> HIDE DEF f
    <3> QED
      BY <2>1, <2>2
  <2>4. Paper!FiredIsTriggered'
    BY <1>2, <2>3 DEF Paper!FiredIsTriggered, Paper!Offset
  <2>5. triggered' \subseteq Paper!Cascade'
    BY <1>2, <2>1
  <2>6. Paper!PauseIsNotCredited' /\ PaperTime'
    BY <1>2 DEF CascadeInv, Paper!PauseIsNotCredited, PaperTime
  <2> QED
    BY <1>2, <2>1, <2>4, <2>5, <2>6 DEF CascadeInv
<1> QED
  BY <1>1, <1>2

LEMMA PaperStep ==
  CycleInv /\ CascadeInv /\ (status = "running" => phase > 0) /\ [Paper!Next]_(Paper!vars)
  => CycleInv' /\ CascadeInv' /\ (status' = "running" => phase' > 0)
<1> SUFFICES ASSUME CycleInv, CascadeInv, status = "running" => phase > 0,
                    [Paper!Next]_(Paper!vars)
             PROVE  CycleInv' /\ CascadeInv' /\ (status' = "running" => phase' > 0)
  OBVIOUS
<1> USE PaperAssumption
<1>1. PaperInv
  BY PaperJoins
<1>2. ASSUME UNCHANGED <<phase, qkdKey, pqcSecret, total, succeeded, accepted, lost>>
      PROVE  CycleInv'
  BY <1>2 DEF CycleInv, Paper!KeysOfThisCycle
<1>3. /\ timer <=> status = "running"
      /\ phase \in 0 .. 5 /\ since \in 0 .. MaxGap /\ timer \in BOOLEAN
      /\ status \in {"idle", "running", "paused", "stepped"}
  BY DEF CycleInv, CascadeInv, PaperTime
<1>4. ASSUME Paper!BeginCycle, UNCHANGED <<succeeded, lost>>, phase = 0
      PROVE  CycleInv' /\ phase' = 1
  <2>1. total = succeeded' + lost' /\ {succeeded', lost'} \subseteq 0 .. MaxCycles
    BY <1>4 DEF CycleInv
  <2> QED
    BY <1>1, <1>4, <2>1, CycleBegins DEF Paper!BeginCycle
<1>5. ASSUME NEW dwelt \in BOOLEAN, Paper!Tick(dwelt)
      PROVE  CycleInv' /\ CascadeInv' /\ (status' = "running" => phase' > 0)
  <2>1. /\ timer /\ status = "running" /\ Paper!AdvanceCascade
        /\ since' = 0 /\ status' = "running" /\ UNCHANGED timer
    BY <1>5 DEF Paper!Tick
  <2>2. CascadeInv'
    BY <2>1, CascadeMoves
  <2>3. CASE dwelt
    <3>1. Paper!RunPhase
      BY <1>5, <2>3 DEF Paper!Tick
    <3> QED
      BY <1>1, <2>1, <2>2, <3>1, CyclePhase
  <2>4. CASE ~dwelt
    <3>1. UNCHANGED <<phase, qkdKey, pqcSecret, total, succeeded, accepted, lost>>
      BY <1>5, <2>4 DEF Paper!Tick, Paper!cycleVars
    <3> QED
      BY <1>2, <2>1, <2>2, <3>1
  <2> QED
    BY <2>3, <2>4
<1>6. CASE Paper!Time
  <2>1. /\ UNCHANGED <<status, timer, failLayer, triggered, elapsed>>
        /\ since' = since + 1 /\ ran < MaxElapsed
        /\ ran' = IF status = "running" /\ failLayer # None THEN ran + 1 ELSE ran
        /\ timer => since < TickGap
        /\ ~timer => since < MaxGap
    BY <1>6 DEF Paper!Time
  <2>2. UNCHANGED <<phase, qkdKey, pqcSecret, total, succeeded, accepted, lost>>
    BY <1>6 DEF Paper!Time, Paper!cycleVars
  <2>3. /\ since' \in 0 .. MaxGap /\ (timer => since' <= TickGap)
        /\ ran' \in Nat /\ ran <= ran' /\ ran' <= MaxElapsed
    BY <1>3, <2>1 DEF CascadeInv
  <2>4. Paper!FiredIsTriggered' /\ triggered' \subseteq Paper!Cascade'
    BY <2>1 DEF CascadeInv, Paper!FiredIsTriggered, Paper!Cascade, Paper!Offset
  <2>5. elapsed \in Nat /\ ran \in Nat /\ elapsed <= ran + TickGap
    BY DEF CascadeInv, Paper!PauseIsNotCredited
  <2>6. timer' /\ failLayer' # None => elapsed' + since' <= ran' + TickGap
    BY <1>3, <2>1, <2>5 DEF CascadeInv, PaperTime
  <2>7. timer' <=> status' = "running"
    BY <1>3, <2>1
  <2>8. failLayer' = None => elapsed' = 0 /\ ran' = 0 /\ triggered' = {}
    BY <2>1 DEF CascadeInv, PaperTime
  <2>9. Paper!PauseIsNotCredited' /\ PaperTime'
    BY <2>1, <2>3, <2>5, <2>6, <2>7, <2>8 DEF Paper!PauseIsNotCredited, PaperTime
  <2>10. CascadeInv'
    BY <2>1, <2>3, <2>4, <2>9 DEF CascadeInv
  <2> QED
    BY <1>2, <2>1, <2>2, <2>10
<1>7. CASE Paper!Run
  <2>1. /\ status # "running" /\ status' = "running" /\ timer'
        /\ since' = IF timer THEN since ELSE 0
        /\ UNCHANGED <<failLayer, triggered, elapsed, ran>>
    BY <1>7 DEF Paper!Run, Paper!EnsureLoop, Paper!cascadeVars
  <2>2. timer' \in BOOLEAN
    BY <1>7 DEF Paper!Run, Paper!EnsureLoop
  <2>3. CascadeInv'
    BY <1>3, <2>1, <2>2, CascadeFrame
  <2>4. CASE phase = 0
    <3>1. Paper!BeginCycle /\ UNCHANGED <<succeeded, lost>>
      BY <1>7, <2>4 DEF Paper!Run
    <3> QED
      BY <1>4, <2>3, <2>4, <3>1
  <2>5. CASE phase # 0
    <3>1. UNCHANGED <<phase, qkdKey, pqcSecret, total, succeeded, accepted, lost>>
      BY <1>7, <2>5 DEF Paper!Run, Paper!cycleVars
    <3> QED
      BY <1>2, <1>3, <2>3, <2>5, <3>1
  <2> QED
    BY <2>4, <2>5
<1>8. CASE Paper!Pause
  <2>1. /\ status' = "paused" /\ UNCHANGED <<failLayer, triggered, elapsed, ran, since>>
        /\ UNCHANGED <<phase, qkdKey, pqcSecret, total, succeeded, accepted, lost>>
    BY <1>8 DEF Paper!Pause, Paper!cycleVars, Paper!cascadeVars
  <2>2. timer' \in BOOLEAN /\ ~timer'
    BY <1>8 DEF Paper!Pause
  <2>3. CascadeInv'
    BY <1>3, <2>1, <2>2, CascadeFrame
  <2> QED
    BY <1>2, <2>1, <2>3
<1>9. CASE Paper!StepFirst
  <2>1. /\ status # "running" /\ phase = 0 /\ status' = "stepped" /\ timer' = timer
        /\ Paper!BeginCycle
        /\ UNCHANGED <<failLayer, triggered, elapsed, ran, since, succeeded, lost>>
    BY <1>9 DEF Paper!StepFirst, Paper!cascadeVars
  <2>2. CascadeInv'
    BY <1>3, <2>1, CascadeFrame
  <2> QED
    BY <1>4, <2>1, <2>2
<1>10. CASE Paper!StepPhase
  <2>1. /\ status # "running" /\ phase > 0 /\ status' \in {"paused", "stepped"}
        /\ timer' = timer /\ Paper!RunPhase
        /\ UNCHANGED <<failLayer, triggered, elapsed, ran, since>>
    BY <1>10 DEF Paper!StepPhase, Paper!cascadeVars
  <2>2. CascadeInv'
    BY <1>3, <2>1, CascadeFrame
  <2> QED
    BY <1>1, <2>1, <2>2, CyclePhase
<1>11. CASE Paper!Reset
  <2>1. /\ status' = "idle" /\ phase' = 0 /\ total' = 0 /\ succeeded' = 0 /\ lost' = 0
        /\ qkdKey' = None /\ pqcSecret' = None /\ failLayer' = None /\ triggered' = {}
        /\ elapsed' = 0 /\ ran' = 0 /\ since' = since
    BY <1>11 DEF Paper!Reset
  <2>2. timer' \in BOOLEAN /\ ~timer' /\ accepted' \in BOOLEAN
    BY <1>11 DEF Paper!Reset
  <2>3. CascadeInv'
    BY <1>3, <2>1, <2>2, CascadeBegins
  <2>4. CycleInv'
    BY <2>1, <2>2 DEF CycleInv, Paper!KeysOfThisCycle
  <2> QED
    BY <2>1, <2>3, <2>4
<1>12. ASSUME NEW layer \in Paper!Layer, Paper!InjectFailure(layer)
       PROVE  CycleInv' /\ CascadeInv' /\ (status' = "running" => phase' > 0)
  <2>1. /\ failLayer' = layer /\ elapsed' = 0 /\ triggered' = {Paper!First(layer)} /\ ran' = 0
        /\ UNCHANGED <<status, timer, since>>
        /\ UNCHANGED <<phase, qkdKey, pqcSecret, total, succeeded, accepted, lost>>
    BY <1>12 DEF Paper!InjectFailure, Paper!cycleVars
  <2>2. layer # None
    BY DEF Paper!Layer, Paper!PhaseOf
  <2>3. CascadeInv'
    BY <1>3, <2>1, <2>2, CascadeBegins
  <2> QED
    BY <1>2, <2>1, <2>3
<1>13. CASE Paper!ClearFailure
  <2>1. /\ failLayer' = None /\ elapsed' = 0 /\ triggered' = {} /\ ran' = 0
        /\ UNCHANGED <<status, timer, since>>
        /\ UNCHANGED <<phase, qkdKey, pqcSecret, total, succeeded, accepted, lost>>
    BY <1>13 DEF Paper!ClearFailure, Paper!cycleVars
  <2>2. CascadeInv'
    BY <1>3, <2>1, CascadeBegins
  <2> QED
    BY <1>2, <2>1, <2>2
<1>14. CASE UNCHANGED Paper!vars
  <2>1. UNCHANGED <<failLayer, triggered, elapsed, ran, status, timer, since>>
    BY <1>14 DEF Paper!vars, Paper!cascadeVars
  <2>2. UNCHANGED <<phase, qkdKey, pqcSecret, total, succeeded, accepted, lost>>
    BY <1>14 DEF Paper!vars, Paper!cycleVars
  <2>3. CascadeInv'
    BY <1>3, <2>1, CascadeFrame
  <2> QED
    BY <1>2, <2>1, <2>2, <2>3
<1> QED
  BY <1>5, <1>6, <1>7, <1>8, <1>9, <1>10, <1>11, <1>12, <1>13, <1>14 DEF Paper!Next

\* Whatever is failed, cleared, stepped, paused and resumed, a cycle of
\* /paper-flow uses its own keys and is counted once, and the cascade of an outage
\* has one clock, which no pause moves.
THEOREM CyclesStayWhole == Spec => []CyclesAreWhole
<1> DEFINE Inv ==
      part = "paper" => CycleInv /\ CascadeInv /\ (status = "running" => phase > 0)
<1>1. Init => Inv
  BY PaperStart, PaperJoins DEF Init
<1>2. Inv /\ [Next]_vars => Inv'
  <2> SUFFICES ASSUME Inv, [Next]_vars, part' = "paper"
               PROVE  CycleInv' /\ CascadeInv' /\ (status' = "running" => phase' > 0)
    OBVIOUS
  <2>1. part = "paper" /\ [Paper!Next]_(Paper!vars)
    BY DEF Next, vars, simVars, pageVars, paperVars, Paper!vars, Paper!cycleVars,
           Paper!cascadeVars
  <2> QED
    BY <2>1, PaperStep
<1>3. Inv => CyclesAreWhole
  BY PaperJoins
     DEF CyclesAreWhole, PaperInv, Paper!CyclesAreWhole, Paper!CascadeKeepsTime
<1> HIDE DEF Inv
<1> QED
  BY <1>1, <1>2, <1>3, PTL DEF Spec

-----------------------------------------------------------------------------
(* /bb84.  While the page is open: until the parameters have come nothing  *)
(* runs; from then on the worker runs exactly while no tier is adopted,    *)
(* none is adopted before the pass is over, and until one has failed the   *)
(* source that runs continues the pool that was last shown.  Once it was   *)
(* left with the parameters there, the engine never runs again, and what   *)
(* may still change is what the history of the moment it was left names.   *)

NoneReverted == \A t \in Engine!Tier : trials[t] # "reverted"

EngineFed ==
  /\ loaded /\ ~left =>
       /\ running
       /\ inUse = None <=> worker # None
       /\ inUse = None <=> loop = "none"
       /\ \A t \in Engine!Tier : trials[t] = "adopted" <=> t = inUse
       /\ held = {inUse} \cap {"gpu", "gl"}
       /\ pass # "over" => inUse = None /\ NoneReverted
       /\ NoneReverted => /\ ~jumped
                          /\ worker # None => worker = lastPool
                          /\ inUse # None => tierPool = lastPool
  /\ ~loaded /\ ~left =>
       /\ ~running /\ ~jumped /\ worker = None /\ lastPool = 0
       /\ inUse = None /\ held = {} /\ trials = Engine!Untried
       /\ pass = "none" /\ loop = "none"

EngineLeft ==
  left /\ "load" \notin tardy =>
    /\ loaded /\ ~running
    /\ loop # "timer"
    /\ loop = "round" \/ worker # None => "round" \in tardy
    /\ pass \in {"init", "round", "wasm"} \/ held # {} => "pass" \in tardy

EngineEve ==
  /\ ~loaded /\ ~early => ~eve
  /\ Engine!EveAsShown

EngineInv == Engine!TypeOK /\ EngineFed /\ EngineLeft /\ EngineEve

LEMMA EngineImplies == EngineInv => Engine!EngineFollowsPage
<1> SUFFICES ASSUME EngineInv PROVE Engine!EngineFollowsPage
  OBVIOUS
<1> USE EngineAssumption
<1>1. Engine!OneSource
  <2> SUFFICES ASSUME loaded, ~left
               PROVE  /\ Engine!Sources = (IF inUse = None THEN {"worker"} ELSE {"tier"})
                      /\ \A t \in Engine!Tier : trials[t] = "adopted" <=> t = inUse
                      /\ held = {inUse} \cap {"gpu", "gl"}
    BY DEF Engine!OneSource
  <2>1. /\ inUse = None <=> worker # None
        /\ inUse = None <=> loop = "none"
    BY DEF EngineInv, EngineFed
  <2>2. Engine!Sources = (IF inUse = None THEN {"worker"} ELSE {"tier"})
    BY <2>1 DEF Engine!Sources
  <2> QED
    BY <2>2 DEF EngineInv, EngineFed
<1>2. Engine!PoolContinues
  <2> SUFFICES ASSUME jumped, ~left PROVE ~NoneReverted
    BY DEF Engine!PoolContinues, NoneReverted
  <2> QED
    BY DEF EngineInv, EngineFed
<1>3. Engine!LeavesNothing
  BY DEF EngineInv, EngineLeft, Engine!LeavesNothing
<1>4. Engine!EveAsShown
  BY DEF EngineInv, EngineEve
<1> QED
  BY <1>1, <1>2, <1>3, <1>4 DEF Engine!EngineFollowsPage

LEMMA EngineStart == Engine!Init => EngineInv
<1> SUFFICES ASSUME Engine!Init PROVE EngineInv
  OBVIOUS
<1> USE EngineAssumption DEF Engine!Init
<1>1. Engine!TypeOK
  <2>1. {loaded, left, eve, cfgEve, running, early, jumped} \subseteq BOOLEAN
    OBVIOUS
  <2>2. trials \in [Engine!Tier -> Engine!Outcome]
    BY DEF Engine!Untried, Engine!Outcome
  <2> QED
    BY <2>1, <2>2 DEF Engine!TypeOK
<1>2. EngineFed
  BY DEF EngineFed
<1>3. EngineLeft
  BY DEF EngineLeft
<1>4. EngineEve
  BY DEF EngineEve, Engine!EveAsShown
<1> QED
  BY <1>1, <1>2, <1>3, <1>4 DEF EngineInv

LEMMA PoolInRange ==
  \A n \in 0 .. PoolTop, kept \in BOOLEAN : Engine!AdvanceKeyPool(n, kept) \in 0 .. PoolTop
BY EngineAssumption DEF Engine!AdvanceKeyPool

\* The parts of a tier's adoption that two steps of the pass share.
LEMMA EngineAdopts ==
  ASSUME EngineInv, NEW tier \in Engine!Tier, NEW record \in [Engine!Tier -> Engine!Outcome],
         pass \in {"init", "round", "wasm"},
         ~left => \A t \in Engine!Tier : record[t] # "adopted" /\ record[t] # "reverted",
         Engine!Adopt(tier, record)
  PROVE  EngineInv'
<1> USE EngineAssumption
<1>1. /\ pass' = "over" /\ inUse' = tier /\ worker' = None /\ tierPool' = lastPool
      /\ trials' = [record EXCEPT ![tier] = "adopted"]
      /\ held' = held \cup ({tier} \cap {"gpu", "gl"})
      /\ loop' = IF running THEN (IF tier = "gpu" THEN "round" ELSE "timer") ELSE loop
      /\ UNCHANGED <<loaded, left, eve, cfgEve, early, tardy>>
      /\ UNCHANGED <<running, workerPps, lastPool, basis, jumped>>
  BY DEF Engine!Adopt, Engine!Seed, Engine!pageVars
<1>2. tier \in {"gpu", "gl", "wasm"} /\ tier # None
  BY DEF Engine!Tier
<1>3. /\ trials' \in [Engine!Tier -> Engine!Outcome]
      /\ ~left => \A t \in Engine!Tier : trials'[t] = "adopted" <=> t = tier
  BY <1>1 DEF Engine!Outcome
<1>4. ~left => \A t \in Engine!Tier : trials'[t] # "reverted"
  BY <1>1
<1>5. Engine!TypeOK'
  <2>1. /\ loop' \in {"none", "timer", "round"} /\ held' \subseteq {"gpu", "gl"}
        /\ inUse' \in Engine!Tier \cup {None} /\ {lastPool', tierPool'} \subseteq 0 .. PoolTop
    BY <1>1, <1>2 DEF EngineInv, Engine!TypeOK
  <2>2. {loaded', left', eve', cfgEve', running', early', jumped'} \subseteq BOOLEAN
    BY <1>1 DEF EngineInv, Engine!TypeOK
  <2>3. worker' \in 0 .. PoolTop \cup {None} /\ {workerPps', basis'} \subseteq Rate \cup {0}
    BY <1>1 DEF EngineInv, Engine!TypeOK
  <2>4. tardy' \subseteq {"load", "pass", "round"}
    BY <1>1 DEF EngineInv, Engine!TypeOK
  <2>5. trials' \in [Engine!Tier -> Engine!Outcome]
    BY <1>3
  <2>6. pass' = "over"
    BY <1>1
  <2> HIDE DEF EngineAssumption
  <2> QED
    BY <2>1, <2>2, <2>3, <2>4, <2>5, <2>6 DEF Engine!TypeOK
<1>6. EngineFed'
  <2>1. loaded /\ ~left =>
          /\ running' /\ inUse' # None /\ worker' = None /\ loop' # "none"
          /\ held' = {inUse'} \cap {"gpu", "gl"} /\ ~jumped'
    <3> SUFFICES ASSUME loaded, ~left
                 PROVE  /\ running' /\ inUse' # None /\ worker' = None /\ loop' # "none"
                        /\ held' = {inUse'} \cap {"gpu", "gl"} /\ ~jumped'
      OBVIOUS
    <3>1. running /\ inUse = None /\ NoneReverted /\ held = {inUse} \cap {"gpu", "gl"} /\ ~jumped
      BY DEF EngineInv, EngineFed
    <3> QED
      BY <1>1, <1>2, <3>1
  <2>2. ~(~loaded /\ ~left)
    BY DEF EngineInv, EngineFed
  <2> QED
    BY <1>1, <1>3, <2>1, <2>2 DEF EngineFed
<1>7. EngineLeft'
  BY <1>1 DEF EngineInv, EngineLeft
<1>8. EngineEve'
  BY <1>1 DEF EngineInv, EngineEve, Engine!EveAsShown
<1> QED
  BY <1>5, <1>6, <1>7, <1>8 DEF EngineInv

LEMMA EngineGoesOn ==
  ASSUME EngineInv, NEW record \in [Engine!Tier -> Engine!Outcome],
         NEW next \in {"round", "wasm", "over"},
         pass \in {"init", "round", "wasm"},
         ~left => \A t \in Engine!Tier : record[t] # "adopted" /\ record[t] # "reverted",
         Engine!GoOn(record, next)
  PROVE  EngineInv'
<1> USE EngineAssumption
<1>1. /\ trials' = record /\ pass' = next
      /\ UNCHANGED <<loaded, left, eve, cfgEve, early, tardy>>
      /\ UNCHANGED <<running, worker, workerPps, lastPool, inUse, tierPool, held, basis,
                     loop, jumped>>
  BY DEF Engine!GoOn, Engine!pageVars
<1>2. Engine!TypeOK'
  BY <1>1 DEF EngineInv, Engine!TypeOK
<1>3. EngineFed'
  <2>1. loaded /\ ~left => inUse = None /\ NoneReverted
    BY DEF EngineInv, EngineFed
  <2>2. loaded /\ ~left => \A t \in Engine!Tier : record[t] = "adopted" <=> t = inUse
    BY <2>1 DEF Engine!Tier
  <2>3. ~(~loaded /\ ~left)
    BY DEF EngineInv, EngineFed
  <2> QED
    BY <1>1, <2>1, <2>2, <2>3 DEF EngineInv, EngineFed, NoneReverted
<1>4. EngineLeft'
  BY <1>1 DEF EngineInv, EngineLeft
<1>5. EngineEve'
  BY <1>1 DEF EngineInv, EngineEve, Engine!EveAsShown
<1> QED
  BY <1>2, <1>3, <1>4, <1>5 DEF EngineInv

LEMMA EnginePass == ASSUME EngineInv, Engine!Pass PROVE EngineInv'
<1> USE EngineAssumption
<1>1. CASE Engine!BeginPass
  <2>1. /\ pass = "timer" /\ pass' = IF running /\ inUse = None THEN "init" ELSE "over"
        /\ basis' = workerPps
        /\ UNCHANGED <<loaded, left, eve, cfgEve, early, tardy>>
        /\ UNCHANGED <<running, worker, workerPps, lastPool, inUse, tierPool, held,
                       trials, loop, jumped>>
    BY <1>1 DEF Engine!BeginPass, Engine!pageVars
  <2>2. Engine!TypeOK'
    BY <2>1 DEF EngineInv, Engine!TypeOK
  <2>3. EngineFed'
    BY <2>1 DEF EngineInv, EngineFed, NoneReverted
  <2>4. EngineLeft'
    BY <2>1 DEF EngineInv, EngineLeft
  <2>5. EngineEve'
    BY <2>1 DEF EngineInv, EngineEve, Engine!EveAsShown
  <2> QED
    BY <2>2, <2>3, <2>4, <2>5 DEF EngineInv
<1>2. trials \in [Engine!Tier -> Engine!Outcome]
  BY DEF EngineInv, Engine!TypeOK
<1>3. pass \in {"init", "round", "wasm"} /\ ~left =>
        \A t \in Engine!Tier : trials[t] # "adopted" /\ trials[t] # "reverted"
  BY DEF EngineInv, EngineFed, NoneReverted, Engine!Tier
<1>4. CASE Engine!GpuInit
  BY <1>2, <1>3, <1>4, EngineGoesOn DEF Engine!GpuInit
<1>5. ASSUME NEW gpu \in Engine!Verdict, NEW gl \in Engine!Verdict, Engine!GpuTried(gpu, gl)
      PROVE  EngineInv'
  <2> DEFINE record == [trials EXCEPT !["gpu"] = gpu]
             both == [record EXCEPT !["gl"] = gl]
  <2>1. pass \in {"init", "round", "wasm"}
    BY <1>5 DEF Engine!GpuTried
  <2>2. record \in [Engine!Tier -> Engine!Outcome] /\ both \in [Engine!Tier -> Engine!Outcome]
    BY <1>2 DEF Engine!Verdict, Engine!Outcome
  <2>3. CASE gpu = "adopted"
    <3>1. Engine!Adopt("gpu", trials)
      BY <1>5, <2>3 DEF Engine!GpuTried
    <3> QED
      BY <1>2, <1>3, <2>1, <3>1, EngineAdopts DEF Engine!Tier
  <2>4. CASE gpu # "adopted" /\ gl = "adopted"
    <3>1. Engine!Adopt("gl", record)
      BY <1>5, <2>4 DEF Engine!GpuTried
    <3>2. ~left => \A t \in Engine!Tier : record[t] # "adopted" /\ record[t] # "reverted"
      BY <1>2, <1>3, <2>1, <2>4 DEF Engine!Verdict
    <3> HIDE DEF record
    <3> QED
      BY <2>1, <2>2, <3>1, <3>2, EngineAdopts DEF Engine!Tier
  <2>5. CASE gpu # "adopted" /\ gl # "adopted"
    <3>1. Engine!GoOn(both, "wasm")
      BY <1>5, <2>5 DEF Engine!GpuTried
    <3>2. ~left => \A t \in Engine!Tier : both[t] # "adopted" /\ both[t] # "reverted"
      BY <1>2, <1>3, <2>1, <2>2, <2>5 DEF Engine!Verdict
    <3> HIDE DEF both
    <3> QED
      BY <2>1, <2>2, <3>1, <3>2, EngineGoesOn
  <2> QED
    BY <2>3, <2>4, <2>5
<1>6. ASSUME NEW wasm \in Engine!Verdict, Engine!WasmTried(wasm) PROVE EngineInv'
  <2> DEFINE record == [trials EXCEPT !["wasm"] = wasm]
  <2>1. pass \in {"init", "round", "wasm"}
    BY <1>6 DEF Engine!WasmTried
  <2>2. record \in [Engine!Tier -> Engine!Outcome]
    BY <1>2 DEF Engine!Verdict, Engine!Outcome
  <2>3. CASE wasm = "adopted"
    <3>1. Engine!Adopt("wasm", trials)
      BY <1>6, <2>3 DEF Engine!WasmTried
    <3> QED
      BY <1>2, <1>3, <2>1, <3>1, EngineAdopts DEF Engine!Tier
  <2>4. CASE wasm # "adopted"
    <3>1. Engine!GoOn(record, "over")
      BY <1>6, <2>4 DEF Engine!WasmTried
    <3>2. ~left => \A t \in Engine!Tier : record[t] # "adopted" /\ record[t] # "reverted"
      BY <1>2, <1>3, <2>1, <2>4 DEF Engine!Verdict
    <3> HIDE DEF record
    <3> QED
      BY <2>1, <2>2, <3>1, <3>2, EngineGoesOn
  <2> QED
    BY <2>3, <2>4
<1> QED
  BY <1>1, <1>4, <1>5, <1>6 DEF Engine!Pass

LEMMA EngineStep == EngineInv /\ [Engine!Next]_(Engine!vars) => EngineInv'
<1> SUFFICES ASSUME EngineInv, [Engine!Next]_(Engine!vars) PROVE EngineInv'
  OBVIOUS
<1> USE EngineAssumption
<1>1. CASE Engine!Toggle
  <2>1. /\ ~left /\ eve' = ~eve /\ cfgEve' = ~eve /\ early' = (early \/ ~loaded)
        /\ UNCHANGED <<loaded, left, running, worker, workerPps, lastPool, inUse, tierPool,
                       held, trials, pass, basis, loop, tardy, jumped>>
    BY <1>1 DEF Engine!Toggle
  <2>2. Engine!TypeOK'
    <3>1. {eve', cfgEve', early'} \subseteq BOOLEAN
      BY <2>1
    <3> QED
      BY <2>1, <3>1 DEF EngineInv, Engine!TypeOK
  <2>3. EngineFed'
    BY <2>1 DEF EngineInv, EngineFed, NoneReverted
  <2>4. EngineLeft'
    BY <2>1 DEF EngineInv, EngineLeft
  <2>5. EngineEve'
    BY <2>1 DEF EngineInv, EngineEve, Engine!EveAsShown
  <2> QED
    BY <2>2, <2>3, <2>4, <2>5 DEF EngineInv
<1>2. CASE Engine!Load
  <2>1. /\ ~loaded /\ loaded' /\ ~cfgEve' /\ running' /\ pass' = "timer"
        /\ worker' = IF worker = None THEN 0 ELSE worker
        /\ UNCHANGED <<left, eve, workerPps, lastPool, inUse, tierPool, held, trials, basis,
                       loop, early, tardy, jumped>>
    BY <1>2 DEF Engine!Load, Engine!StartWorker
  <2>2. Engine!TypeOK'
    <3>1. {loaded', running', cfgEve'} \subseteq BOOLEAN
      BY <1>2 DEF Engine!Load
    <3>2. worker' \in 0 .. PoolTop \cup {None}
      BY <2>1 DEF EngineInv, Engine!TypeOK
    <3> QED
      BY <2>1, <3>1, <3>2 DEF EngineInv, Engine!TypeOK
  <2>3. EngineFed'
    <3>1. ~left => /\ ~jumped /\ worker' = 0 /\ lastPool = 0 /\ inUse = None /\ held = {}
                   /\ \A t \in Engine!Tier : trials[t] = "untried"
                   /\ loop = "none"
      BY <2>1 DEF EngineInv, EngineFed, Engine!Untried
    <3>2. ~left => None # 0 /\ \A t \in Engine!Tier : t # None
      BY DEF Engine!Tier
    <3> QED
      BY <2>1, <3>1, <3>2 DEF EngineFed, NoneReverted
  <2>4. EngineLeft'
    BY <2>1 DEF EngineInv, EngineLeft
  <2>5. EngineEve'
    <3>1. cfgEve' = FALSE
      BY <1>2 DEF Engine!Load
    <3>2. ~early => eve = FALSE
      BY <2>1 DEF EngineInv, EngineEve, Engine!TypeOK
    <3> QED
      BY <2>1, <3>1, <3>2 DEF EngineEve, Engine!EveAsShown
  <2> QED
    BY <2>2, <2>3, <2>4, <2>5 DEF EngineInv
<1>3. CASE Engine!Leave
  <2>1. /\ ~left /\ left' /\ tardy' = Engine!Pending /\ ~running' /\ worker' = None
        /\ inUse' = None /\ trials' = Engine!Untried /\ held' = {}
        /\ loop' = IF loop = "timer" THEN "none" ELSE loop
        /\ UNCHANGED <<loaded, eve, cfgEve, workerPps, lastPool, tierPool, pass, basis,
                       early, jumped>>
    BY <1>3 DEF Engine!Leave
  <2>2. Engine!TypeOK'
    <3>1. {left', running'} \subseteq BOOLEAN
      BY <1>3 DEF Engine!Leave
    <3>2. trials' \in [Engine!Tier -> Engine!Outcome]
      BY <2>1 DEF Engine!Untried, Engine!Outcome
    <3>3. tardy' \subseteq {"load", "pass", "round"} /\ loop' \in {"none", "timer", "round"}
      BY <2>1 DEF EngineInv, Engine!TypeOK, Engine!Pending
    <3> QED
      BY <2>1, <3>1, <3>2, <3>3 DEF EngineInv, Engine!TypeOK
  <2>3. EngineFed'
    BY <2>1 DEF EngineFed
  <2>4. EngineLeft'
    BY <2>1 DEF EngineInv, EngineFed, EngineLeft, Engine!Pending, Engine!TypeOK
  <2>5. EngineEve'
    BY <2>1 DEF EngineInv, EngineEve, Engine!EveAsShown
  <2> QED
    BY <2>2, <2>3, <2>4, <2>5 DEF EngineInv
<1>4. ASSUME NEW kept \in BOOLEAN, NEW rate \in Rate, Engine!WorkerRound(kept, rate)
      PROVE  EngineInv'
  <2>1. /\ worker # None /\ worker' = Engine!AdvanceKeyPool(worker, kept)
        /\ workerPps' = rate /\ lastPool' = worker'
        /\ UNCHANGED <<loaded, left, eve, cfgEve, early, tardy>>
        /\ UNCHANGED <<running, inUse, tierPool, held, trials, pass, basis, loop>>
    BY <1>4 DEF Engine!WorkerRound, Engine!Emit, Engine!pageVars
  <2>2. jumped' = (jumped \/ worker' # Engine!AdvanceKeyPool(lastPool, kept))
    BY <1>4 DEF Engine!WorkerRound, Engine!Emit
  <2>3. worker' \in 0 .. PoolTop
    BY <2>1, PoolInRange DEF EngineInv, Engine!TypeOK
  <2>4. Engine!TypeOK'
    <3>1. jumped' \in BOOLEAN
      BY <2>2
    <3>2. workerPps' \in Rate \cup {0}
      BY <2>1
    <3> QED
      BY <2>1, <2>3, <3>1, <3>2 DEF EngineInv, Engine!TypeOK
  <2>5. EngineFed'
    <3>1. loaded /\ ~left => inUse = None
      BY <2>1 DEF EngineInv, EngineFed
    <3>2. loaded /\ ~left /\ NoneReverted => ~jumped' /\ worker' = lastPool'
      <4> SUFFICES ASSUME loaded, ~left, NoneReverted PROVE ~jumped'
        BY <2>1
      <4>1. ~jumped /\ worker = lastPool
        BY <2>1 DEF EngineInv, EngineFed
      <4> QED
        BY <2>1, <2>2, <4>1
    <3>3. loaded \/ left
      BY <2>1 DEF EngineInv, EngineFed
    <3>4. worker' # None
      BY <2>3
    <3> QED
      BY <2>1, <3>1, <3>2, <3>3, <3>4 DEF EngineInv, EngineFed, NoneReverted
  <2>6. EngineLeft'
    BY <2>1 DEF EngineInv, EngineLeft
  <2>7. EngineEve'
    BY <2>1 DEF EngineInv, EngineEve, Engine!EveAsShown
  <2> QED
    BY <2>4, <2>5, <2>6, <2>7 DEF EngineInv
<1>5. CASE Engine!Pass
  BY <1>5, EnginePass
<1>6. CASE Engine!SubmitRound
  <2>1. /\ loop = "timer" /\ inUse = "gpu" /\ loop' = "round"
        /\ UNCHANGED <<loaded, left, eve, cfgEve, early, tardy>>
        /\ UNCHANGED <<running, worker, workerPps, lastPool, inUse, tierPool, held,
                       trials, pass, basis, jumped>>
    BY <1>6 DEF Engine!SubmitRound, Engine!pageVars
  <2>2. Engine!TypeOK'
    BY <2>1 DEF EngineInv, Engine!TypeOK
  <2>3. EngineFed'
    BY <2>1 DEF EngineInv, EngineFed, NoneReverted
  <2>4. EngineLeft'
    BY <2>1 DEF EngineInv, EngineLeft
  <2>5. EngineEve'
    BY <2>1 DEF EngineInv, EngineEve, Engine!EveAsShown
  <2> QED
    BY <2>2, <2>3, <2>4, <2>5 DEF EngineInv
<1>7. ASSUME NEW kept \in BOOLEAN, Engine!TierRound(kept) PROVE EngineInv'
  <2>1. /\ loop = (IF inUse \in {"gl", "wasm"} THEN "timer" ELSE "round")
        /\ tierPool' = Engine!AdvanceKeyPool(tierPool, kept) /\ lastPool' = tierPool'
        /\ loop' = IF running THEN "timer" ELSE "none"
        /\ UNCHANGED <<loaded, left, eve, cfgEve, early, tardy>>
        /\ UNCHANGED <<running, worker, workerPps, inUse, held, trials, pass, basis>>
    BY <1>7 DEF Engine!TierRound, Engine!Emit, Engine!pageVars
  <2>2. jumped' = (jumped \/ tierPool' # Engine!AdvanceKeyPool(lastPool, kept))
    BY <1>7 DEF Engine!TierRound, Engine!Emit
  <2>3. tierPool' \in 0 .. PoolTop
    BY <2>1, PoolInRange DEF EngineInv, Engine!TypeOK
  <2>4. Engine!TypeOK'
    <3>1. jumped' \in BOOLEAN
      BY <2>2
    <3>2. loop' \in {"none", "timer", "round"}
      BY <2>1
    <3> QED
      BY <2>1, <2>3, <3>1, <3>2 DEF EngineInv, Engine!TypeOK
  <2>5. EngineFed'
    <3>1. loaded /\ ~left => inUse # None /\ loop' = "timer"
      BY <2>1 DEF EngineInv, EngineFed
    <3>2. loaded /\ ~left /\ NoneReverted => ~jumped' /\ tierPool' = lastPool'
      <4> SUFFICES ASSUME loaded, ~left, NoneReverted PROVE ~jumped'
        BY <2>1
      <4>1. ~jumped /\ tierPool = lastPool
        BY <3>1 DEF EngineInv, EngineFed
      <4> QED
        BY <2>1, <2>2, <4>1
    <3>3. loaded \/ left
      BY <2>1 DEF EngineInv, EngineFed
    <3> QED
      BY <2>1, <3>1, <3>2, <3>3 DEF EngineInv, EngineFed, NoneReverted
  <2>6. EngineLeft'
    BY <2>1 DEF EngineInv, EngineLeft
  <2>7. EngineEve'
    BY <2>1 DEF EngineInv, EngineEve, Engine!EveAsShown
  <2> QED
    BY <2>4, <2>5, <2>6, <2>7 DEF EngineInv
<1>8. CASE Engine!TierThrows
  <2>1. /\ loop = (IF inUse \in {"gl", "wasm"} THEN "timer" ELSE "round")
        /\ trials' = IF inUse = None THEN trials ELSE Engine!RevertTier(inUse)
        /\ inUse' = None /\ held' = held \ {inUse} /\ loop' = "none"
        /\ worker' = IF worker = None THEN 0 ELSE worker
        /\ UNCHANGED <<loaded, left, eve, cfgEve, early, tardy>>
        /\ UNCHANGED <<running, workerPps, lastPool, tierPool, pass, basis, jumped>>
    BY <1>8 DEF Engine!TierThrows, Engine!StartWorker, Engine!pageVars
  <2>2. Engine!TypeOK'
    <3>1. trials' \in [Engine!Tier -> Engine!Outcome]
      BY <2>1 DEF EngineInv, Engine!TypeOK, Engine!RevertTier, Engine!Outcome
    <3>2. worker' \in 0 .. PoolTop \cup {None}
      <4>1. 0 \in 0 .. PoolTop /\ worker \in 0 .. PoolTop \cup {None}
        BY EngineAssumption DEF EngineInv, Engine!TypeOK
      <4>2. worker' = 0 \/ worker' = worker
        BY <2>1
      <4> QED
        BY <4>1, <4>2
    <3>3. held' \subseteq {"gpu", "gl"}
      BY <2>1 DEF EngineInv, Engine!TypeOK
    <3> QED
      BY <2>1, <3>1, <3>2, <3>3 DEF EngineInv, Engine!TypeOK
  <2>3. EngineFed'
    <3>1. loaded \/ left
      BY <2>1 DEF EngineInv, EngineFed
    <3>2. ASSUME loaded, ~left
          PROVE  /\ running /\ worker' # None /\ held' = {} /\ pass = "over"
                 /\ \A t \in Engine!Tier : trials'[t] # "adopted"
                 /\ \E t \in Engine!Tier : trials'[t] = "reverted"
      <4>1. /\ running /\ inUse # None /\ worker = None /\ pass = "over"
            /\ held = {inUse} \cap {"gpu", "gl"}
            /\ \A t \in Engine!Tier : trials[t] = "adopted" <=> t = inUse
        BY <2>1, <3>2 DEF EngineInv, EngineFed
      <4>2. inUse \in Engine!Tier /\ trials \in [Engine!Tier -> Engine!Outcome]
        BY <4>1 DEF EngineInv, Engine!TypeOK
      <4>3. trials' = [trials EXCEPT ![inUse] = "reverted"]
        BY <2>1, <4>1, <4>2 DEF Engine!RevertTier
      <4>4. worker' # None /\ held' = {}
        BY <2>1, <4>1
      <4> QED
        BY <4>1, <4>2, <4>3, <4>4
    <3>3. \A t \in Engine!Tier : t # None
      BY DEF Engine!Tier
    <3> QED
      BY <2>1, <3>1, <3>2, <3>3 DEF EngineFed, NoneReverted
  <2>4. EngineLeft'
    BY <2>1 DEF EngineInv, EngineLeft
  <2>5. EngineEve'
    BY <2>1 DEF EngineInv, EngineEve, Engine!EveAsShown
  <2> QED
    BY <2>2, <2>3, <2>4, <2>5 DEF EngineInv
<1>9. CASE UNCHANGED Engine!vars
  <2>1. /\ UNCHANGED <<loaded, left, eve, cfgEve, running, worker, workerPps, lastPool>>
        /\ UNCHANGED <<inUse, tierPool, held, trials, pass, basis, loop, early, tardy, jumped>>
    BY <1>9 DEF Engine!vars
  <2> QED
    BY <2>1 DEF EngineInv, Engine!TypeOK, EngineFed, NoneReverted, EngineLeft, EngineEve,
                Engine!EveAsShown
<1> QED
  BY <1>1, <1>2, <1>3, <1>4, <1>5, <1>6, <1>7, <1>8, <1>9 DEF Engine!Next

\* In every interleaving of rounds, the pass over the tiers, failures of devices
\* and the visitor: one source feeds the page, the pool that is shown continues,
\* and what is left when the page is was pending then.
THEOREM EngineDoesAsShown == Spec => []EngineFollowsPage
<1> DEFINE Inv == part = "engine" => EngineInv
<1>1. Init => Inv
  BY EngineStart DEF Init
<1>2. Inv /\ [Next]_vars => Inv'
  <2> SUFFICES ASSUME Inv, [Next]_vars, part' = "engine" PROVE EngineInv'
    OBVIOUS
  <2>1. part = "engine" /\ [Engine!Next]_(Engine!vars)
    BY DEF Next, vars, simVars, engineVars, Engine!vars
  <2> QED
    BY <2>1, EngineStep
<1>3. Inv => EngineFollowsPage
  BY EngineImplies DEF EngineFollowsPage
<1> HIDE DEF Inv
<1> QED
  BY <1>1, <1>2, <1>3, PTL DEF Spec

-----------------------------------------------------------------------------
(* The status of the stack.  What a sample, on its way, in the cache or on *)
(* the page, says of a container was seen since the sample began, or       *)
(* nobody could look; what is left to look up nobody has looked at yet.  A *)
(* single reading has done what its place says.                            *)

SeenIn(h, first, n) == {h[i][n] : i \in first .. Len(h)}

SampleHolds(h, s) ==
  /\ s \in Stack!Sample /\ s.since <= Len(h)
  /\ \A n \in Stack!Service :
       /\ s.rows[n] = "unknown" <=> n \in s.blind
       /\ n \notin s.blind => s.rows[n] \in SeenIn(h, s.since, n)

Refreshes ==
  [at : {"idle", "docker", "rows", "answer"}, todo : Seq(Stack!Service),
   sample : Stack!Sample]

PollHolds(h, q) ==
  /\ q \in Refreshes /\ SampleHolds(h, q.sample)
  /\ \A i \in DOMAIN q.todo : q.todo[i] \in q.sample.blind
  /\ \A i, j \in DOMAIN q.todo : i # j => q.todo[i] # q.todo[j]

PastIsKnown ==
  past \in Seq([Stack!Service -> Stack!Status]) /\ Len(past) \in 1 .. 2

TableInv ==
  /\ PastIsKnown
  /\ poll \in [Poller -> Refreshes] /\ \A p \in Poller : PollHolds(past, poll[p])
  /\ cached # None => SampleHolds(past, cached)
  /\ table # None => SampleHolds(past, table)

LEMMA SampleStays ==
  ASSUME NEW h, NEW g, NEW s, SampleHolds(h, s), Len(h) \in Nat, Len(g) \in Nat,
         Len(h) <= Len(g), \A i \in 1 .. Len(h) : g[i] = h[i]
  PROVE  SampleHolds(g, s)
<1>1. s \in Stack!Sample /\ s.since <= Len(g) /\ s.since \in 1 .. 2
  BY DEF SampleHolds, Stack!Sample
<1>2. \A n : SeenIn(h, s.since, n) \subseteq SeenIn(g, s.since, n)
  BY <1>1 DEF SeenIn
<1> QED
  BY <1>1, <1>2 DEF SampleHolds

\* A sample begins with nothing seen.
LEMMA SampleBegins ==
  ASSUME NEW h, Len(h) \in 1 .. 2, NEW first \in 1 .. Len(h)
  PROVE  SampleHolds(h, [rows |-> Stack!NoRows, since |-> first, blind |-> Stack!Service])
<1>1. Stack!NoRows \in [Stack!Service -> Stack!Status \cup {"unknown"}]
  BY DEF Stack!NoRows
<1>2. first \in 1 .. 1 + 1
  <2>1. \A m \in 1 .. 2 : \A k \in 1 .. m : k \in 1 .. 1 + 1
    OBVIOUS
  <2> QED
    BY <2>1, Zenon
<1>3. [rows |-> Stack!NoRows, since |-> first, blind |-> Stack!Service] \in Stack!Sample
  BY <1>1, <1>2 DEF Stack!Sample
<1>4. \A n \in Stack!Service : Stack!NoRows[n] = "unknown"
  BY DEF Stack!NoRows
<1> QED
  BY <1>3, <1>4 DEF SampleHolds

LEMMA TableImplies == TableInv => Stack!RowsWereSeen
<1> SUFFICES ASSUME TableInv, table # None, NEW n \in Stack!Service
             PROVE  /\ table.rows[n] = "unknown" <=> n \in table.blind
                    /\ n \notin table.blind => table.rows[n] \in Stack!Seen(table.since, n)
                    /\ Stack!Label(n, table.rows[n]) = "not deployed here" =>
                         n \in Gated /\ "absent" \in Stack!Seen(table.since, n)
  BY DEF Stack!RowsWereSeen
<1>1. /\ table.rows[n] = "unknown" <=> n \in table.blind
      /\ n \notin table.blind => table.rows[n] \in Stack!Seen(table.since, n)
  BY DEF TableInv, SampleHolds, SeenIn, Stack!Seen
<1>2. table.rows[n] \in {"running", "exited", "absent", "unknown"}
  BY DEF TableInv, SampleHolds, Stack!Sample, Stack!Status
<1>3. ASSUME Stack!Label(n, table.rows[n]) = "not deployed here"
      PROVE  n \in Gated /\ table.rows[n] = "absent"
  BY <1>2, <1>3 DEF Stack!Label
<1> QED
  BY <1>1, <1>3

LEMMA TableStart == Stack!Init => TableInv
<1> SUFFICES ASSUME Stack!Init PROVE TableInv
  OBVIOUS
<1>1. PastIsKnown
  <2> PICK c \in [Stack!Service -> Stack!Status] : past = <<c>>
    BY DEF Stack!Init
  <2> QED
    BY DEF PastIsKnown
<1>2. SampleHolds(past, Stack!Unseen)
  BY <1>1, SampleBegins DEF PastIsKnown, Stack!Unseen
<1>3. PollHolds(past, Stack!IdlePoll)
  BY <1>2 DEF PollHolds, Refreshes, SampleHolds, Stack!IdlePoll
<1> QED
  BY <1>1, <1>3 DEF Stack!Init, TableInv, PollHolds

\* One refresh went on; the samples of the others stand.
LEMMA RefreshGoesOn ==
  ASSUME TableInv, UNCHANGED past, NEW p \in Poller, poll' \in [Poller -> Refreshes],
         \A r \in Poller \ {p} : poll'[r] = poll[r], PollHolds(past, poll'[p]),
         cached' # None => SampleHolds(past, cached'),
         table' # None => SampleHolds(past, table')
  PROVE  TableInv'
BY DEF TableInv, PastIsKnown

LEMMA PresentIsKnown ==
  ASSUME PastIsKnown
  PROVE  /\ Len(past) \in 1 .. 2 /\ 1 \in 1 .. Len(past) /\ Len(past) \in 1 .. Len(past)
         /\ past[Len(past)] \in [Stack!Service -> Stack!Status]
<1>1. Len(past) \in 1 .. 2 /\ DOMAIN past = 1 .. Len(past)
      /\ past \in [1 .. Len(past) -> [Stack!Service -> Stack!Status]]
  BY DEF PastIsKnown
<1>2. 1 \in 1 .. Len(past) /\ Len(past) \in 1 .. Len(past)
  BY <1>1
<1> QED
  BY <1>1, <1>2

LEMMA TableStep == ASSUME TableInv, [Stack!Next]_(Stack!vars) PROVE TableInv'
<1>1. ASSUME UNCHANGED <<past, poll, cached, table>> PROVE TableInv'
  BY <1>1 DEF TableInv, PastIsKnown
<1>2. ASSUME NEW p \in Poller, Stack!Poll(p) PROVE TableInv'
  <2>1. UNCHANGED <<past, cached, table>>
    BY <1>2 DEF Stack!Poll
  <2>2. PICK q : /\ poll' = [poll EXCEPT ![p] = q]
                 /\ q = IF cached # None
                          THEN [at |-> "answer", todo |-> <<>>, sample |-> cached]
                          ELSE [at |-> "docker", todo |-> Services,
                                sample |-> [Stack!Unseen EXCEPT !.since = Len(past)]]
    BY <1>2 DEF Stack!Poll
  <2>3. PollHolds(past, q)
    <3>1. CASE cached # None
      BY <2>2, <3>1 DEF TableInv, PollHolds, Refreshes, SampleHolds
    <3>2. CASE cached = None
      <4> DEFINE s == [rows |-> Stack!NoRows, since |-> Len(past), blind |-> Stack!Service]
      <4>1. [Stack!Unseen EXCEPT !.since = Len(past)] = s
        BY DEF Stack!Unseen
      <4>2. SampleHolds(past, s)
        BY SampleBegins, PresentIsKnown DEF TableInv
      <4>3. \A i \in DOMAIN Services : Services[i] \in s.blind
        BY DEF Stack!Service
      <4> HIDE DEF s
      <4>4. q = [at |-> "docker", todo |-> Services, sample |-> s]
        BY <2>2, <3>2, <4>1
      <4> QED
        BY <4>2, <4>3, <4>4, StackAssumption DEF PollHolds, Refreshes, SampleHolds
    <3> QED
      BY <3>1, <3>2
  <2>4. poll' \in [Poller -> Refreshes] /\ poll'[p] = q
        /\ \A r \in Poller \ {p} : poll'[r] = poll[r]
    BY <2>2, <2>3 DEF TableInv, PollHolds
  <2> QED
    BY <2>1, <2>3, <2>4, RefreshGoesOn DEF TableInv
<1>3. ASSUME NEW p \in Poller, NEW got \in BOOLEAN, Stack!Connect(p, got) PROVE TableInv'
  <2>1. UNCHANGED <<past, cached, table>>
    BY <1>3 DEF Stack!Connect
  <2>2. poll[p] \in Refreshes /\ PollHolds(past, poll[p])
    BY DEF TableInv
  <2>3. /\ poll' = [poll EXCEPT ![p].at = "rows",
                                ![p].todo = IF got THEN poll[p].todo ELSE <<>>]
    BY <1>3 DEF Stack!Connect
  <2>4. PICK q : q = [at |-> "rows", todo |-> IF got THEN poll[p].todo ELSE <<>>,
                      sample |-> poll[p].sample]
    OBVIOUS
  <2>5. q \in Refreshes
    BY <2>2, <2>4 DEF Refreshes
  <2>6. PollHolds(past, q)
    BY <2>2, <2>4, <2>5 DEF PollHolds
  <2>7. /\ poll' \in [Poller -> Refreshes] /\ poll'[p] = q
        /\ \A r \in Poller \ {p} : poll'[r] = poll[r]
    <3>1. DOMAIN poll' = Poller /\ (\A r \in Poller \ {p} : poll'[r] = poll[r])
          /\ poll' = [r \in Poller |-> poll'[r]]
      BY <2>3 DEF TableInv
    <3>2. poll'[p] = [poll[p] EXCEPT !.at = "rows",
                                     !.todo = IF got THEN poll[p].todo ELSE <<>>]
      BY <2>3 DEF TableInv
    <3>3. poll'[p] = q
      BY <2>2, <2>4, <3>2 DEF Refreshes
    <3> QED
      BY <2>5, <3>1, <3>3 DEF TableInv
  <2> QED
    BY <2>1, <2>6, <2>7, RefreshGoesOn DEF TableInv
<1>4. ASSUME NEW p \in Poller, NEW got \in BOOLEAN, Stack!LookUp(p, got) PROVE TableInv'
  <2> DEFINE n == Head(poll[p].todo)
             s == poll[p].sample
             rest == Tail(poll[p].todo)
  <2>1. UNCHANGED <<past, cached, table>> /\ poll[p].todo # <<>>
    BY <1>4 DEF Stack!LookUp
  <2>2. poll[p] \in Refreshes /\ PollHolds(past, poll[p])
    BY DEF TableInv
  <2>3. /\ s \in Stack!Sample /\ n \in Stack!Service /\ n \in s.blind
        /\ rest \in Seq(Stack!Service)
        /\ \A i \in DOMAIN rest : rest[i] \in s.blind \ {n}
        /\ \A i, j \in DOMAIN rest : i # j => rest[i] # rest[j]
    <3>1. /\ poll[p].todo \in Seq(Stack!Service) /\ n = poll[p].todo[1]
          /\ 1 \in DOMAIN poll[p].todo
      BY <2>1, <2>2 DEF Refreshes
    <3>2. rest \in Seq(Stack!Service)
          /\ \A i \in DOMAIN rest : /\ i + 1 \in DOMAIN poll[p].todo /\ i + 1 # 1
                                    /\ i \in Nat /\ rest[i] = poll[p].todo[i + 1]
      BY <2>1, <3>1
    <3>3. s \in Stack!Sample /\ n \in Stack!Service
      BY <2>2, <3>1 DEF Refreshes
    <3>4. /\ \A i \in DOMAIN poll[p].todo : poll[p].todo[i] \in s.blind
          /\ \A i, j \in DOMAIN poll[p].todo : i # j => poll[p].todo[i] # poll[p].todo[j]
      BY <2>2 DEF PollHolds
    <3> HIDE DEF n, s, rest
    <3>5. \A i, j \in DOMAIN rest : i # j => i + 1 # j + 1
      BY <3>2
    <3> QED
      BY <3>1, <3>2, <3>3, <3>4, <3>5
  <2>4. PICK t : t = [rows |-> [s.rows EXCEPT ![n] = Stack!Row(n, got)], since |-> s.since,
                      blind |-> IF got THEN s.blind \ {n} ELSE s.blind]
    OBVIOUS
  <2>5. PICK q : q = [at |-> poll[p].at, todo |-> rest, sample |-> t]
    OBVIOUS
  <2>6. poll' = [poll EXCEPT ![p] = q]
    <3>1. poll' = [poll EXCEPT ![p].todo = rest, ![p].sample.rows[n] = Stack!Row(n, got),
                               ![p].sample.blind = IF got THEN s.blind \ {n} ELSE s.blind]
      BY <1>4, <2>2 DEF Stack!LookUp, TableInv, Refreshes, Stack!Sample
    <3>2. poll' = [poll EXCEPT ![p] = [poll[p] EXCEPT !.todo = rest,
                     !.sample.rows[n] = Stack!Row(n, got),
                     !.sample.blind = IF got THEN s.blind \ {n} ELSE s.blind]]
      BY <3>1, <2>2 DEF TableInv
    <3>3. q = [poll[p] EXCEPT !.todo = rest, !.sample.rows[n] = Stack!Row(n, got),
                     !.sample.blind = IF got THEN s.blind \ {n} ELSE s.blind]
      <4> DEFINE w == poll[p]
                 w1 == [w EXCEPT !.todo = rest]
                 w2 == [w1 EXCEPT !.sample.rows[n] = Stack!Row(n, got)]
                 w3 == [w2 EXCEPT !.sample.blind = IF got THEN s.blind \ {n} ELSE s.blind]
      <4>1. w = [at |-> w.at, todo |-> w.todo, sample |-> s]
        BY <2>2 DEF Refreshes
      <4>2. s = [rows |-> s.rows, since |-> s.since, blind |-> s.blind]
        BY <2>3 DEF Stack!Sample
      <4> HIDE DEF n, s, rest, w
      <4>3. w1 = [at |-> w.at, todo |-> rest, sample |-> s]
        BY <4>1
      <4>4. w2 = [at |-> w.at, todo |-> rest,
                  sample |-> [rows |-> [s.rows EXCEPT ![n] = Stack!Row(n, got)],
                              since |-> s.since, blind |-> s.blind]]
        <5>1. [s EXCEPT !.rows[n] = Stack!Row(n, got)]
                = [rows |-> [s.rows EXCEPT ![n] = Stack!Row(n, got)],
                   since |-> s.since, blind |-> s.blind]
          <6> DEFINE f == s.rows
                     b == s.since
                     c == s.blind
          <6>1. s = [rows |-> f, since |-> b, blind |-> c]
            BY <4>2
          <6> HIDE DEF f, b, c
          <6> QED
            BY <6>1 DEF f, b, c
        <5> DEFINE v == [s EXCEPT !.rows[n] = Stack!Row(n, got)]
        <5>2. w2 = [w1 EXCEPT !.sample = v]
          BY <4>3
        <5> HIDE DEF v, w1, w2
        <5>3. w2 = [at |-> w.at, todo |-> rest, sample |-> v]
          BY <4>3, <5>2
        <5> QED
          BY <5>1, <5>3 DEF v
      <4>5. w3 = [at |-> w.at, todo |-> rest,
                  sample |-> [rows |-> [s.rows EXCEPT ![n] = Stack!Row(n, got)],
                              since |-> s.since,
                              blind |-> IF got THEN s.blind \ {n} ELSE s.blind]]
        <5> DEFINE v == [s.rows EXCEPT ![n] = Stack!Row(n, got)]
        <5>1. w2 = [at |-> w.at, todo |-> rest,
                    sample |-> [rows |-> v, since |-> s.since, blind |-> s.blind]]
          BY <4>4
        <5> HIDE DEF v, w2
        <5>2. w3 = [at |-> w.at, todo |-> rest,
                    sample |-> [rows |-> v, since |-> s.since,
                                blind |-> IF got THEN s.blind \ {n} ELSE s.blind]]
          BY <5>1
        <5> QED
          BY <5>2 DEF v
      <4>6. w3 = q
        BY <2>4, <2>5, <4>5 DEF w
      <4> QED
        BY <4>6 DEF w
    <3> QED
      BY <3>2, <3>3
  <2>7. Stack!Row(n, got) \in Stack!Status \cup {"unknown"}
        /\ (got => Stack!Row(n, got) # "unknown"
                  /\ Stack!Row(n, got) \in SeenIn(past, s.since, n))
        /\ (~got => Stack!Row(n, got) = "unknown")
    <3>1. past[Len(past)] \in [Stack!Service -> Stack!Status]
      BY PresentIsKnown DEF TableInv
    <3>2. s.since \in 1 .. 1 + 1 /\ s.since <= Len(past)
      BY <2>2 DEF PollHolds, SampleHolds, Stack!Sample
    <3>3. Len(past) \in s.since .. Len(past)
      BY <3>2 DEF TableInv, PastIsKnown
    <3>4. past[Len(past)][n] \in SeenIn(past, s.since, n)
      BY <3>3 DEF SeenIn
    <3>5. past[Len(past)][n] \in Stack!Status
      BY <2>3, <3>1
    <3> HIDE DEF n, s
    <3> QED
      BY <3>4, <3>5 DEF Stack!Row, Stack!Now, Stack!Status
  <2>8. SampleHolds(past, t)
    <3>1. SampleHolds(past, s)
      BY <2>2 DEF PollHolds
    <3> HIDE DEF n, s, rest
    <3>2. s.rows \in [Stack!Service -> Stack!Status \cup {"unknown"}]
          /\ s.since \in 1 .. 1 + 1 /\ s.blind \subseteq Stack!Service
      BY <2>3 DEF Stack!Sample
    <3>3. t \in Stack!Sample
      <4>1. t.rows \in [Stack!Service -> Stack!Status \cup {"unknown"}]
        BY <2>4, <2>7, <3>2
      <4>2. (IF got THEN s.blind \ {n} ELSE s.blind) \subseteq Stack!Service
        BY <3>2
      <4> QED
        BY <2>4, <3>2, <4>1, <4>2 DEF Stack!Sample
    <3>4. ASSUME NEW m \in Stack!Service
          PROVE  /\ t.rows[m] = "unknown" <=> m \in t.blind
                 /\ m \notin t.blind => t.rows[m] \in SeenIn(past, s.since, m)
      <4>1. CASE m = n
        BY <2>3, <2>4, <2>7, <3>2, <4>1
      <4>2. CASE m # n
        <5>1. t.rows[m] = s.rows[m] /\ (m \in t.blind <=> m \in s.blind)
          BY <2>4, <3>2, <4>2
        <5> QED
          BY <3>1, <5>1 DEF SampleHolds
      <4> QED
        BY <4>1, <4>2
    <3> QED
      BY <2>4, <3>1, <3>3, <3>4 DEF SampleHolds
  <2>9. PollHolds(past, q)
    <3>1. q \in Refreshes
      BY <2>2, <2>3, <2>5, <2>8 DEF Refreshes, SampleHolds
    <3>2. s.blind \ {n} \subseteq t.blind
      BY <2>4
    <3> HIDE DEF n, s, rest
    <3> QED
      BY <2>3, <2>5, <2>8, <3>1, <3>2 DEF PollHolds
  <2> HIDE DEF n, s, rest
  <2>10. /\ poll' \in [Poller -> Refreshes] /\ poll'[p] = q
         /\ \A r \in Poller \ {p} : poll'[r] = poll[r]
    BY <2>6, <2>9 DEF TableInv, PollHolds
  <2> QED
    BY <2>1, <2>9, <2>10, RefreshGoesOn DEF TableInv
<1>5. ASSUME NEW p \in Poller, NEW reported \in SUBSET Stack!Service,
             Stack!Reply(p, reported)
      PROVE  TableInv'
  <2> DEFINE s == poll[p].sample
  <2>1. UNCHANGED <<past, table>>
    BY <1>5 DEF Stack!Reply
  <2>2. poll[p] \in Refreshes /\ PollHolds(past, poll[p]) /\ SampleHolds(past, s)
    BY DEF TableInv, PollHolds
  <2>3. s \in Stack!Sample
    BY <2>2 DEF Refreshes
  <2>4. PICK t : t = Stack!Reported(s, reported)
    OBVIOUS
  <2>5. /\ cached' = t
        /\ poll' = [poll EXCEPT ![p] = [at |-> "answer", todo |-> <<>>, sample |-> t]]
    BY <1>5, <2>4 DEF Stack!Reply
  <2> HIDE DEF s
  <2>6. /\ s.rows \in [Stack!Service -> Stack!Status \cup {"unknown"}]
        /\ s.since \in 1 .. 1 + 1 /\ s.blind \subseteq Stack!Service
    BY <2>3 DEF Stack!Sample
  <2>7. t = [rows |-> [n \in Stack!Service |-> IF n \in reported THEN s.rows[n] ELSE "unknown"],
             since |-> s.since, blind |-> s.blind \cup (Stack!Service \ reported)]
    BY <2>3, <2>4 DEF Stack!Reported, Stack!Sample
  <2>8. SampleHolds(past, t)
    <3>1. t \in Stack!Sample
      <4>1. t.rows \in [Stack!Service -> Stack!Status \cup {"unknown"}]
        BY <2>6, <2>7
      <4> QED
        BY <2>6, <2>7, <4>1 DEF Stack!Sample
    <3>2. \A m \in Stack!Service :
            t.rows[m] = (IF m \in reported THEN s.rows[m] ELSE "unknown")
      BY <2>7
    <3>3. t.since = s.since /\ t.blind = s.blind \cup (Stack!Service \ reported)
      BY <2>7
    <3> QED
      BY <2>2, <3>1, <3>2, <3>3 DEF SampleHolds
  <2>9. PICK q : q = [at |-> "answer", todo |-> <<>>, sample |-> t]
    OBVIOUS
  <2>10. PollHolds(past, q)
    <3>1. q \in Refreshes
      BY <2>8, <2>9 DEF Refreshes, SampleHolds
    <3> QED
      BY <2>8, <2>9, <3>1 DEF PollHolds
  <2>11. /\ poll' \in [Poller -> Refreshes] /\ poll'[p] = q
         /\ \A r \in Poller \ {p} : poll'[r] = poll[r]
    BY <2>5, <2>9, <2>10 DEF TableInv, PollHolds
  <2> QED
    BY <2>1, <2>5, <2>8, <2>10, <2>11, RefreshGoesOn DEF TableInv
<1>6. ASSUME NEW p \in Poller, NEW got \in BOOLEAN, Stack!Receive(p, got) PROVE TableInv'
  <2>1. UNCHANGED <<past, cached>> /\ poll' = [poll EXCEPT ![p] = Stack!IdlePoll]
    BY <1>6 DEF Stack!Receive
  <2>2. table' = poll[p].sample \/ table' = table
    BY <1>6 DEF Stack!Receive
  <2>3. PollHolds(past, Stack!IdlePoll)
    <3>1. SampleHolds(past, Stack!Unseen)
      BY SampleBegins, PresentIsKnown DEF TableInv, Stack!Unseen
    <3> QED
      BY <3>1 DEF PollHolds, Refreshes, SampleHolds, Stack!IdlePoll
  <2>4. /\ poll' \in [Poller -> Refreshes] /\ poll'[p] = Stack!IdlePoll
        /\ \A r \in Poller \ {p} : poll'[r] = poll[r]
    BY <2>1, <2>3 DEF TableInv, PollHolds
  <2>5. table' # None => SampleHolds(past, table')
    BY <2>2 DEF TableInv, PollHolds
  <2> QED
    BY <2>1, <2>3, <2>4, <2>5, RefreshGoesOn DEF TableInv
<1>7. CASE Stack!Expire
  <2>1. UNCHANGED <<past, poll, table>> /\ cached' = None
    BY <1>7 DEF Stack!Expire
  <2> QED
    BY <2>1 DEF TableInv, PastIsKnown
<1>8. ASSUME NEW n \in Stack!Service, NEW state \in Stack!Status, Stack!Change(n, state)
      PROVE  TableInv'
  <2>1. UNCHANGED <<poll, cached, table>> /\ Len(past) <= 1
        /\ past' = Append(past, [past[Len(past)] EXCEPT ![n] = state])
    BY <1>8 DEF Stack!Change, Stack!tableVars, Stack!Now
  <2>2. past \in Seq([Stack!Service -> Stack!Status]) /\ Len(past) \in 1 .. 2
    BY DEF TableInv, PastIsKnown
  <2>3. PICK c \in [Stack!Service -> Stack!Status] : past' = Append(past, c)
    <3>1. past[Len(past)] \in [Stack!Service -> Stack!Status]
      BY PresentIsKnown DEF TableInv
    <3> QED
      BY <2>1, <3>1
  <2>4. /\ past' \in Seq([Stack!Service -> Stack!Status]) /\ Len(past') = Len(past) + 1
        /\ \A i \in 1 .. Len(past) : past'[i] = past[i]
    BY <2>2, <2>3
  <2>5. Len(past') \in 1 .. 2 /\ Len(past) <= Len(past') /\ Len(past) \in Nat
    BY <2>1, <2>2, <2>4
  <2>6. \A s : SampleHolds(past, s) => SampleHolds(past', s)
    BY <2>4, <2>5, SampleStays
  <2>7. PastIsKnown'
    BY <2>4, <2>5 DEF PastIsKnown
  <2>8. \A q : PollHolds(past, q) => PollHolds(past', q)
    BY <2>6 DEF PollHolds
  <2> QED
    BY <2>1, <2>6, <2>7, <2>8 DEF TableInv
<1>9. ASSUME Stack!Read PROVE TableInv'
  <2>1. UNCHANGED <<past, poll, cached, table>>
    BY <1>9 DEF Stack!Read, Stack!Ask, Stack!Find, Stack!Exec, Stack!ReadLog, Stack!Answer,
                Stack!Done, Stack!tableVars
  <2> QED
    BY <1>1, <2>1
<1>10. CASE UNCHANGED Stack!vars
  <2>1. UNCHANGED <<past, poll, cached, table>>
    BY <1>10 DEF Stack!vars
  <2> QED
    BY <1>1, <2>1
<1> QED
  BY <1>2, <1>3, <1>4, <1>5, <1>6, <1>7, <1>8, <1>9, <1>10
     DEF Stack!Next, Stack!Refresh

\* A single reading.
Places == {"idle", "docker", "wg0", "wg1", "log", "reply", "done"}
Questions == {"wg", "logs", "health"}
Codes == {0, 200, 404, 405, 422, 503}

Readings ==
  [at : Places, what : Questions, request : Stack!Request, since : 1 .. 2,
   asked : BOOLEAN, ran : SUBSET Stack!Interface, log : SUBSET Stack!Line,
   lines : SUBSET Stack!Line, withheld : Nat, code : Codes]

ReadingFound(r) ==
  /\ r.at \in {"wg0", "wg1", "log", "reply"} \/ r.code = 200 => r.asked = TRUE
  /\ r.asked = TRUE \/ r.at = "docker" => r.request = Stack!Welcome
  /\ r.at \in {"wg0", "wg1"} => r.what = "wg"
  /\ r.at = "log" => r.what = "logs"
  /\ r.at = "reply" => r.what # "health"
  /\ r.at # "done" => r.code = 0

ReadingRan(h, r) ==
  /\ r.ran # {} => r.what = "wg" /\ "running" \in SeenIn(h, r.since, Stack!Node)
  /\ r.at \in {"idle", "docker", "wg0", "log"} => r.ran = {}
  /\ r.what = "wg" /\ r.code = 200 => "wg0" \in r.ran
  /\ r.what = "wg" /\ r.code = 404 => "wg0" \notin r.ran

ReadingShows(h, r) ==
  /\ r.what = "logs" /\ (r.at = "reply" \/ r.code = 200) =>
       /\ SeenIn(h, r.since, Stack!Node) # {"absent"}
       /\ r.lines = Stack!Redact(r.log).lines
       /\ r.withheld = Stack!Redact(r.log).withheld
  /\ r.what # "logs" \/ r.at \in {"docker", "log"} => r.lines = {} /\ r.withheld = 0

ReadingHolds(h, r) ==
  /\ r \in Readings /\ r.since <= Len(h)
  /\ ReadingFound(r) /\ ReadingRan(h, r) /\ ReadingShows(h, r)

LEMMA StackCount == \A S : Stack!Cardinality(S) = Cardinality(S)
BY DEF Stack!Cardinality, Cardinality

\* To redact once more changes nothing and counts nothing.
LEMMA RedactTwice ==
  ASSUME NEW log \in SUBSET Stack!Line
  PROVE  /\ Stack!Redact(log).lines \subseteq Stack!Line /\ Stack!Redact(log).withheld \in Nat
         /\ \A l \in Stack!Redact(log).lines : Stack!Withheld(l) => l.value = "hidden"
         /\ Stack!Redact(Stack!Redact(log).lines).lines = Stack!Redact(log).lines
         /\ Stack!Redact(Stack!Redact(log).lines).withheld = 0
         /\ Stack!Redact({}).lines = {} /\ Stack!Redact({}).withheld = 0
<1> DEFINE Hidden(l) == IF Stack!Withheld(l) THEN [l EXCEPT !.value = "hidden"] ELSE l
           lines == {Hidden(l) : l \in log}
<1>1. ASSUME NEW l \in Stack!Line
      PROVE  /\ Hidden(l) \in Stack!Line
             /\ Stack!Withheld(Hidden(l)) => Hidden(l).value = "hidden"
             /\ Hidden(Hidden(l)) = Hidden(l)
  BY DEF Stack!Line, Stack!Withheld
<1>2. \A S : Stack!Redact(S).lines = {Hidden(l) : l \in S}
             /\ Stack!Redact(S).withheld
                  = Cardinality({l \in S : Stack!Withheld(l) /\ l.value # "hidden"})
  BY StackCount DEF Stack!Redact
<1> HIDE DEF Hidden
<1>3. lines \subseteq Stack!Line
  BY <1>1
<1>4. \A l \in lines : Stack!Withheld(l) => l.value = "hidden"
  BY <1>1
<1>5. {Hidden(l) : l \in lines} = lines
  BY <1>1
<1>6. {l \in lines : Stack!Withheld(l) /\ l.value # "hidden"} = {}
  BY <1>4
<1>7. Cardinality({l \in log : Stack!Withheld(l) /\ l.value # "hidden"}) \in Nat
  <2>1. IsFiniteSet(Stack!Line)
    <3> DEFINE A(v) == [label |-> "banner", value |-> v]
               B(v) == [label |-> "key", value |-> v]
               all == {A("long"), A("short"), A("hidden"), B("long"), B("short"), B("hidden")}
    <3>1. Stack!Line \subseteq all
      BY DEF Stack!Line
    <3> HIDE DEF A, B
    <3>2. \A v, w, x : IsFiniteSet({v, w, x})
      <4> TAKE v, w, x
      <4>1. IsFiniteSet({v})
        BY FS_Singleton
      <4>2. IsFiniteSet({v} \cup {w})
        BY <4>1, FS_AddElement
      <4>3. IsFiniteSet(({v} \cup {w}) \cup {x})
        BY <4>2, FS_AddElement
      <4>4. {v, w, x} = ({v} \cup {w}) \cup {x}
        OBVIOUS
      <4> QED
        BY <4>3, <4>4
    <3>3. IsFiniteSet(all)
      <4>1. all = {A("long"), A("short"), A("hidden")} \cup {B("long"), B("short"), B("hidden")}
        OBVIOUS
      <4> HIDE DEF all
      <4> QED
        BY <3>2, <4>1, FS_Union
    <3> QED
      BY <3>1, <3>3, FS_Subset
  <2>2. {l \in log : Stack!Withheld(l) /\ l.value # "hidden"} \subseteq Stack!Line
    OBVIOUS
  <2> QED
    BY <2>1, <2>2, FS_Subset, FS_CardinalityType
<1>8. {l \in {} : Stack!Withheld(l) /\ l.value # "hidden"} = {} /\ {Hidden(l) : l \in {}} = {}
  OBVIOUS
<1>9. Cardinality({}) = 0
  BY FS_EmptySet
<1>10. Stack!Redact(log).lines = lines
  BY <1>2
<1> HIDE DEF lines
<1> QED
  BY <1>2, <1>3, <1>4, <1>5, <1>6, <1>7, <1>8, <1>9, <1>10

LEMMA ReadingImplies ==
  ASSUME ReadingHolds(past, reading)
  PROVE  /\ Stack!ReadingsAreReal /\ Stack!NothingIsHidden
         /\ Stack!LogsAreRedacted /\ Stack!OnlyTheFixedApi
<1> USE DEF ReadingHolds, Readings, Places, Questions, Codes
<1>1. Stack!ReadingsAreReal
  <2> SUFFICES ASSUME reading.at = "done", reading.code = 200
               PROVE  /\ reading.asked
                      /\ reading.what = "wg" => "running" \in Stack!Seen(reading.since, Stack!Node)
                      /\ reading.what = "logs" =>
                           Stack!Seen(reading.since, Stack!Node) # {"absent"}
    BY DEF Stack!ReadingsAreReal
  <2>1. reading.asked
    BY DEF ReadingFound
  <2>2. Stack!Seen(reading.since, Stack!Node) = SeenIn(past, reading.since, Stack!Node)
    BY DEF Stack!Seen, SeenIn
  <2> QED
    BY <2>1, <2>2 DEF ReadingRan, ReadingShows
<1>2. Stack!NothingIsHidden
  BY DEF ReadingRan, Stack!NothingIsHidden, Stack!Interface
<1>3. Stack!LogsAreRedacted
  <2> SUFFICES ASSUME reading.what = "logs", reading.code = 200
               PROVE  /\ \A l \in reading.lines : Stack!Withheld(l) => l.value = "hidden"
                      /\ reading.withheld
                           = Stack!Cardinality({l \in reading.log : Stack!Withheld(l)
                                                                    /\ l.value # "hidden"})
    BY DEF Stack!LogsAreRedacted
  <2>1. /\ reading.lines = Stack!Redact(reading.log).lines
        /\ reading.withheld = Stack!Redact(reading.log).withheld
    BY DEF ReadingShows
  <2>2. \A l \in reading.lines : Stack!Withheld(l) => l.value = "hidden"
    BY <2>1, RedactTwice
  <2>3. reading.withheld = Stack!Cardinality({l \in reading.log : Stack!Withheld(l)
                                                                  /\ l.value # "hidden"})
    BY <2>1 DEF Stack!Redact
  <2> QED
    BY <2>2, <2>3
<1>4. Stack!OnlyTheFixedApi
  BY DEF ReadingFound, Stack!OnlyTheFixedApi
<1> QED
  BY <1>1, <1>2, <1>3, <1>4

LEMMA NoReadingHolds == ASSUME PastIsKnown PROVE ReadingHolds(past, Stack!NoReading)
<1>1. Stack!Welcome \in Stack!Request
  BY DEF Stack!Welcome, Stack!Request
<1>2. Stack!NoReading \in Readings
  BY <1>1 DEF Readings, Places, Questions, Codes, Stack!NoReading
<1> QED
  BY <1>2 DEF ReadingHolds, ReadingFound, ReadingRan, ReadingShows, Stack!NoReading,
              PastIsKnown

\* What the containers become takes nothing from what was seen.
LEMMA ReadingStays ==
  ASSUME NEW h, NEW g, NEW r, ReadingHolds(h, r), Len(h) \in Nat, Len(g) \in Nat,
         Len(h) <= Len(g), \A i \in 1 .. Len(h) : g[i] = h[i]
  PROVE  ReadingHolds(g, r)
<1>1. r \in Readings /\ r.since <= Len(g) /\ r.since \in 1 .. 2
  BY DEF ReadingHolds, Readings
<1>2. SeenIn(h, r.since, Stack!Node) \subseteq SeenIn(g, r.since, Stack!Node)
  BY <1>1 DEF SeenIn
<1>3. SeenIn(h, r.since, Stack!Node) # {}
  <2>1. Len(h) \in r.since .. Len(h)
    BY <1>1 DEF ReadingHolds
  <2> QED
    BY <2>1 DEF SeenIn
<1> QED
  BY <1>1, <1>2, <1>3 DEF ReadingHolds, ReadingRan, ReadingShows

\* What the node is now, a reading that is under way has seen.
LEMMA NowIsSeen ==
  ASSUME PastIsKnown, reading \in Readings, reading.since <= Len(past)
  PROVE  past[Len(past)][Stack!Node] \in SeenIn(past, reading.since, Stack!Node)
<1>1. Len(past) \in reading.since .. Len(past)
  BY PresentIsKnown DEF Readings
<1> QED
  BY <1>1 DEF SeenIn

LEMMA ReadingStep ==
  ASSUME PastIsKnown, ReadingHolds(past, reading), [Stack!Next]_(Stack!vars)
  PROVE  ReadingHolds(past', reading')
<1>a. reading \in Readings
  BY DEF ReadingHolds
<1>0. /\ reading \in Readings /\ reading.since <= Len(past)
      /\ ReadingFound(reading) /\ ReadingRan(past, reading) /\ ReadingShows(past, reading)
  BY DEF ReadingHolds
<1>1. ASSUME UNCHANGED <<past, reading>> PROVE ReadingHolds(past', reading')
  BY <1>1
<1>2. ASSUME NEW what \in {"wg", "logs", "health"}, NEW r \in Stack!Request,
             Stack!Ask(what, r)
      PROVE  ReadingHolds(past', reading')
  <2>1. PICK c \in {0, 404, 405, 422} : c = Stack!Refusal(r)
    BY DEF Stack!Refusal
  <2>2. c = 0 => r = Stack!Welcome
    <3>1. c = 0 => r.get = TRUE /\ r.route = TRUE /\ r.name = TRUE /\ r.query = TRUE
      BY <2>1 DEF Stack!Refusal, Stack!Request
    <3> QED
      BY <3>1 DEF Stack!Request, Stack!Welcome
  <2>3. PICK first \in 1 .. 2 : first = Len(past)
    BY DEF PastIsKnown
  <2> DEFINE q == [at |-> IF c = 0 THEN "docker" ELSE "done", what |-> what, request |-> r,
                   since |-> first, asked |-> FALSE, ran |-> {}, log |-> {},
                   lines |-> {}, withheld |-> 0, code |-> c]
  <2>5. past' = past /\ reading' = q
    <3>1. /\ past' = past
          /\ reading' = [Stack!NoReading EXCEPT
               !.at = IF c = 0 THEN "docker" ELSE "done",
               !.what = what, !.request = r, !.since = first, !.code = c]
      BY <1>2, <2>1, <2>3 DEF Stack!Ask, Stack!tableVars
    <3> QED
      BY <3>1, Zenon DEF Stack!NoReading
  <2>6. q \in Readings
    BY DEF Readings, Places, Questions, Codes
  <2> QED
    BY <2>2, <2>3, <2>5, <2>6 DEF ReadingFound, ReadingRan, ReadingShows, ReadingHolds
<1>3. ASSUME NEW there \in BOOLEAN, NEW found \in BOOLEAN, Stack!Find(there, found)
      PROVE  ReadingHolds(past', reading')
  <2>1. PICK c \in {0, 200, 404, 503} :
          c = CASE found /\ reading.what = "health" -> 200
                [] ~found /\ reading.what = "health" -> 503
                [] ~found /\ reading.what # "health" -> 404
                [] OTHER -> 0
    OBVIOUS
  <2>3. PICK at \in {"wg0", "log", "done"} :
          at = IF found THEN Stack!Steps(reading.what) ELSE "done"
    BY DEF Stack!Steps
  <2>2. /\ past' = past /\ reading.at = "docker"
        /\ reading' = [reading EXCEPT !.asked = TRUE, !.at = at, !.code = c]
    BY <1>3, <2>1, <2>3 DEF Stack!Find, Stack!tableVars
  <2>4. /\ at = "wg0" => reading.what = "wg" /\ c = 0
        /\ at = "log" => reading.what = "logs" /\ c = 0
        /\ c = 200 => reading.what = "health"
    BY <1>0, <2>1, <2>3 DEF Stack!Steps, Readings, Questions
  <2>5. reading' \in Readings
    <3>1. at \in Places /\ c \in Codes
      BY DEF Places, Codes
    <3>2. [reading EXCEPT !.asked = TRUE, !.at = at, !.code = c] \in Readings
      BY <1>a, <3>1, Zenon DEF Readings
    <3> QED
      BY <2>2, <3>2, Zenon
  <2>6. /\ reading'.at = at /\ reading'.asked = TRUE /\ reading'.code = c
        /\ reading'.what = reading.what /\ reading'.request = reading.request
        /\ reading'.since = reading.since /\ reading'.ran = reading.ran
        /\ reading'.log = reading.log /\ reading'.lines = reading.lines
        /\ reading'.withheld = reading.withheld
    BY <1>a, <2>2, <2>3 DEF Readings
  <2> QED
    BY <1>0, <2>2, <2>4, <2>5, <2>6
       DEF ReadingFound, ReadingRan, ReadingShows, ReadingHolds
<1>4. ASSUME NEW i \in Stack!Interface, NEW got \in BOOLEAN, Stack!Exec(i, got)
      PROVE  ReadingHolds(past', reading')
  <2>1. PICK done \in SUBSET Stack!Interface :
          done = IF got THEN reading.ran \cup {i} ELSE reading.ran
    <3>1. reading.ran \cup {i} \in SUBSET Stack!Interface /\ reading.ran \in SUBSET Stack!Interface
      BY <1>a DEF Readings
    <3> QED
      BY <3>1
  <2>2. PICK at \in {"wg1", "reply"} : at = IF i = "wg0" THEN "wg1" ELSE "reply"
    OBVIOUS
  <2>3. /\ past' = past /\ reading.at = i
        /\ reading' = [reading EXCEPT !.at = at, !.ran = done]
    BY <1>0, <1>4, <2>1, <2>2 DEF Stack!Exec, Stack!tableVars, Readings
  <2>4. got => "running" \in SeenIn(past, reading.since, Stack!Node)
    BY <1>0, <1>4, NowIsSeen DEF Stack!Exec, Stack!Now
  <2>5. reading' \in Readings
    <3>1. at \in Places
      BY DEF Places
    <3>2. [reading EXCEPT !.at = at, !.ran = done] \in Readings
      BY <1>a, <3>1, Zenon DEF Readings
    <3> QED
      BY <2>3, <3>2, Zenon
  <2>6. /\ reading'.at = at /\ reading'.asked = reading.asked /\ reading'.code = reading.code
        /\ reading'.what = reading.what /\ reading'.request = reading.request
        /\ reading'.since = reading.since /\ reading'.ran = done
        /\ reading'.log = reading.log /\ reading'.lines = reading.lines
        /\ reading'.withheld = reading.withheld
    BY <1>a, <2>3 DEF Readings
  <2>7. reading.at \in {"wg0", "wg1"}
    BY <2>3 DEF Stack!Interface
  <2>8. done # {} => reading.what = "wg" /\ "running" \in SeenIn(past, reading.since, Stack!Node)
    BY <1>0, <2>1, <2>4, <2>7 DEF ReadingFound, ReadingRan
  <2>9. ReadingFound(reading')
    BY <1>0, <2>6, <2>7 DEF ReadingFound
  <2>10. ReadingRan(past, reading')
    BY <1>0, <2>6, <2>7, <2>8 DEF ReadingFound, ReadingRan
  <2>11. ReadingShows(past, reading')
    BY <1>0, <2>6, <2>7 DEF ReadingFound, ReadingShows
  <2> QED
    BY <1>0, <2>3, <2>5, <2>6, <2>9, <2>10, <2>11 DEF ReadingHolds
<1>5. ASSUME NEW log \in SUBSET Stack!Line, NEW got \in BOOLEAN, Stack!ReadLog(log, got)
      PROVE  ReadingHolds(past', reading')
  <2>1. past' = past /\ reading.at = "log" /\ reading.what = "logs"
    BY <1>0, <1>5 DEF Stack!ReadLog, Stack!tableVars, ReadingFound
  <2>2. CASE ~got
    <3>1. reading' = [reading EXCEPT !.at = "done", !.code = 404]
      BY <1>5, <2>2 DEF Stack!ReadLog
    <3>2. reading' \in Readings
      <4>1. "done" \in Places /\ 404 \in Codes
        BY DEF Places, Codes
      <4>2. [reading EXCEPT !.at = "done", !.code = 404] \in Readings
        BY <1>a, <4>1, Zenon DEF Readings
      <4> QED
        BY <3>1, <4>2, Zenon
    <3>3. /\ reading'.at = "done" /\ reading'.asked = reading.asked /\ reading'.code = 404
          /\ reading'.what = reading.what /\ reading'.request = reading.request
          /\ reading'.since = reading.since /\ reading'.ran = reading.ran
          /\ reading'.log = reading.log /\ reading'.lines = reading.lines
          /\ reading'.withheld = reading.withheld
      BY <1>a, <3>1 DEF Readings
    <3> QED
      BY <1>0, <2>1, <3>2, <3>3 DEF ReadingFound, ReadingRan, ReadingShows, ReadingHolds
  <2>3. CASE got
    <3>1. PICK lines \in SUBSET Stack!Line : lines = Stack!Redact(log).lines
      BY RedactTwice
    <3>2. PICK withheld \in Nat : withheld = Stack!Redact(log).withheld
      BY RedactTwice
    <3>3. reading' = [reading EXCEPT !.at = "reply", !.log = log, !.lines = lines,
                                     !.withheld = withheld]
      BY <1>5, <2>3, <3>1, <3>2 DEF Stack!ReadLog
    <3>4. reading' \in Readings
      <4>1. "reply" \in Places
        BY DEF Places
      <4>2. [reading EXCEPT !.at = "reply", !.log = log, !.lines = lines,
                            !.withheld = withheld] \in Readings
        BY <1>a, <4>1, Zenon DEF Readings
      <4> QED
        BY <3>3, <4>2, Zenon
    <3>5. /\ reading'.at = "reply" /\ reading'.asked = reading.asked
          /\ reading'.code = reading.code /\ reading'.log = log /\ reading'.lines = lines
          /\ reading'.what = reading.what /\ reading'.request = reading.request
          /\ reading'.since = reading.since /\ reading'.ran = reading.ran
          /\ reading'.withheld = withheld
      BY <1>a, <3>3 DEF Readings
    <3>6. SeenIn(past, reading.since, Stack!Node) # {"absent"}
      BY <1>0, <1>5, <2>3, NowIsSeen DEF Stack!ReadLog, Stack!Now
    <3>7. ReadingFound(reading')
      BY <1>0, <2>1, <3>5 DEF ReadingFound
    <3>8. ReadingRan(past, reading')
      BY <1>0, <2>1, <3>5 DEF ReadingFound, ReadingRan
    <3>9. ReadingShows(past, reading')
      BY <1>0, <2>1, <3>1, <3>2, <3>5, <3>6 DEF ReadingShows
    <3> QED
      BY <1>0, <2>1, <3>4, <3>5, <3>7, <3>8, <3>9 DEF ReadingHolds
  <2> QED
    BY <2>2, <2>3
<1>6. ASSUME NEW arrived \in BOOLEAN, Stack!Answer(arrived)
      PROVE  ReadingHolds(past', reading')
  <2>1. PICK lines \in SUBSET Stack!Line : lines = Stack!Redact(reading.lines).lines
    BY <1>0, RedactTwice DEF Readings
  <2>2. PICK withheld \in Nat : withheld = reading.withheld + Stack!Redact(reading.lines).withheld
    BY <1>0, RedactTwice DEF Readings
  <2>3. PICK c \in {200, 404, 503} :
          c = CASE ~arrived -> 503
                [] arrived /\ reading.what = "wg" /\ ~Stack!HasTunnel -> 404
                [] OTHER -> 200
    OBVIOUS
  <2>4. /\ past' = past /\ reading.what # "health"
        /\ reading' = [reading EXCEPT !.at = "done", !.lines = lines, !.withheld = withheld,
                                      !.code = c]
    BY <1>0, <1>6, <2>1, <2>2, <2>3 DEF Stack!Answer, Stack!tableVars, Readings
  <2>5. /\ reading.at \in {"reply", "docker", "wg0", "wg1", "log"}
        /\ c # 503 => reading.at = "reply"
        /\ c = 404 => reading.what = "wg" /\ "wg0" \notin reading.ran
        /\ c = 200 /\ reading.what = "wg" => "wg0" \in reading.ran
    BY <1>6, <2>3 DEF Stack!Answer, Stack!HasTunnel
  <2>6. reading' \in Readings
    <3>1. "done" \in Places /\ c \in Codes
      BY DEF Places, Codes
    <3>2. [reading EXCEPT !.at = "done", !.lines = lines, !.withheld = withheld,
                          !.code = c] \in Readings
      BY <1>a, <3>1, Zenon DEF Readings
    <3> QED
      BY <2>4, <3>2, Zenon
  <2>7. /\ reading'.at = "done" /\ reading'.asked = reading.asked
        /\ reading'.code = c /\ reading'.log = reading.log /\ reading'.lines = lines
        /\ reading'.what = reading.what /\ reading'.request = reading.request
        /\ reading'.since = reading.since /\ reading'.ran = reading.ran
        /\ reading'.withheld = withheld
    BY <1>a, <2>4 DEF Readings
  <2>8. reading.what \in {"wg", "logs"}
    BY <1>a, <2>4 DEF Readings, Questions
  <2>9. reading.what = "logs" /\ c = 200 =>
          /\ lines = Stack!Redact(reading.log).lines
          /\ withheld = Stack!Redact(reading.log).withheld
    <3> SUFFICES ASSUME reading.what = "logs", c = 200
                 PROVE  /\ lines = Stack!Redact(reading.log).lines
                        /\ withheld = Stack!Redact(reading.log).withheld
      OBVIOUS
    <3>1. /\ reading.lines = Stack!Redact(reading.log).lines
          /\ reading.withheld = Stack!Redact(reading.log).withheld
      BY <1>0, <2>5 DEF ReadingShows
    <3>2. reading.log \in SUBSET Stack!Line
      BY <1>0 DEF Readings
    <3>3. /\ Stack!Redact(Stack!Redact(reading.log).lines).lines
               = Stack!Redact(reading.log).lines
          /\ Stack!Redact(Stack!Redact(reading.log).lines).withheld = 0
          /\ Stack!Redact(reading.log).withheld \in Nat
      BY <3>2, RedactTwice
    <3> QED
      BY <2>1, <2>2, <3>1, <3>3
  <2>10. reading.what = "wg" => lines = {} /\ withheld = 0
    <3> SUFFICES ASSUME reading.what = "wg" PROVE lines = {} /\ withheld = 0
      OBVIOUS
    <3>1. reading.lines = {} /\ reading.withheld = 0
      BY <1>0 DEF ReadingShows
    <3>2. Stack!Redact({}).lines = {} /\ Stack!Redact({}).withheld = 0
      BY RedactTwice
    <3> QED
      BY <2>1, <2>2, <3>1, <3>2
  <2>11. ReadingFound(reading')
    BY <1>0, <2>5, <2>7 DEF ReadingFound
  <2>12. ReadingRan(past, reading')
    BY <1>0, <2>5, <2>7 DEF ReadingRan
  <2>13. ReadingShows(past, reading')
    BY <1>0, <2>5, <2>7, <2>8, <2>9, <2>10 DEF ReadingShows
  <2> QED
    BY <1>0, <2>4, <2>6, <2>7, <2>11, <2>12, <2>13 DEF ReadingHolds
<1>7. CASE Stack!Done
  <2>1. past' = past /\ reading' = Stack!NoReading
    BY <1>7 DEF Stack!Done, Stack!tableVars
  <2> QED
    BY <2>1, NoReadingHolds
<1>8. ASSUME NEW n \in Stack!Service, NEW state \in Stack!Status, Stack!Change(n, state)
      PROVE  ReadingHolds(past', reading')
  <2>1. PICK c : past' = Append(past, c)
    BY <1>8 DEF Stack!Change
  <2>2. reading' = reading
    BY <1>8 DEF Stack!Change
  <2>3. Len(past) \in Nat /\ Len(past') = Len(past) + 1
        /\ \A i \in 1 .. Len(past) : past'[i] = past[i]
    BY <2>1 DEF PastIsKnown
  <2>4. ReadingHolds(past', reading)
    BY <2>3, ReadingStays
  <2> QED
    BY <2>2, <2>4
<1>9. ASSUME NEW p \in Poller, Stack!Refresh(p) PROVE ReadingHolds(past', reading')
  <2>1. UNCHANGED <<past, reading>>
    BY <1>9 DEF Stack!Refresh, Stack!Poll, Stack!Connect, Stack!LookUp, Stack!Receive,
                Stack!Reply
  <2> QED
    BY <1>1, <2>1
<1>10. CASE Stack!Expire
  BY <1>1, <1>10 DEF Stack!Expire
<1>11. CASE UNCHANGED Stack!vars
  BY <1>1, <1>11 DEF Stack!vars
<1> QED
  BY <1>2, <1>3, <1>4, <1>5, <1>6, <1>7, <1>8, <1>9, <1>10, <1>11
     DEF Stack!Next, Stack!Read

\* In every interleaving of refreshes, single readings and changes of the
\* containers, whatever fails or expires: the rows, the readings and the logs of
\* the page tell what was seen, and no key.
THEOREM StackTellsTheTruth == Spec => []StackIsTold
<1> DEFINE Inv == part \in {"stack", "reading"} => TableInv /\ ReadingHolds(past, reading)
<1>1. Init => Inv
  <2> SUFFICES ASSUME Stack!Init PROVE TableInv /\ ReadingHolds(past, reading)
    BY DEF Init
  <2>1. TableInv
    BY TableStart
  <2>2. reading = Stack!NoReading
    BY DEF Stack!Init
  <2> QED
    BY <2>1, <2>2, NoReadingHolds DEF TableInv
<1>2. Inv /\ [Next]_vars => Inv'
  <2> SUFFICES ASSUME Inv, [Next]_vars, part' \in {"stack", "reading"}
               PROVE  TableInv' /\ ReadingHolds(past', reading')
    OBVIOUS
  <2>1. part \in {"stack", "reading"} /\ [Stack!Next]_(Stack!vars)
    BY DEF Next, vars, backendVars, stackVars, Stack!vars
  <2>2. TableInv /\ ReadingHolds(past, reading) /\ PastIsKnown
    BY <2>1 DEF TableInv
  <2> QED
    BY <2>1, <2>2, TableStep, ReadingStep
<1>3. Inv => StackIsTold
  <2> SUFFICES ASSUME TableInv, ReadingHolds(past, reading) PROVE Stack!StackIsTold
    BY DEF StackIsTold
  <2> QED
    BY TableImplies, ReadingImplies DEF Stack!StackIsTold
<1> HIDE DEF Inv
<1> QED
  BY <1>1, <1>2, <1>3, PTL DEF Spec

-----------------------------------------------------------------------------
(* The sampled routes.  A call has taken no longer than its probes may, so *)
(* an entry that is fresh was begun in time, with its stamp where that is  *)
(* taken early; and one of the two entries lives as long as the service is *)
(* to be spared.                                                           *)

Entries == [stamp : Nat, begun : Nat, ok : BOOLEAN]
Calls == [at : {"idle", "probe"}, begun : Nat, probe : Nat, left : Nat, ok : BOOLEAN]

EntryHolds(e) ==
  /\ e \in Entries /\ e.stamp <= e.begun /\ e.begun <= Samples!Oldest
  /\ e.stamp < Ttl => e.begun <= e.stamp + (IF Samples!StampedEarly THEN 0 ELSE Samples!Longest)

CallHolds(c) ==
  /\ c \in Calls /\ c.probe <= Timeout
  /\ c.at = "probe" => /\ c.left \in 1 .. Samples!Probes(sampled)
                       /\ c.begun <= (Samples!Probes(sampled) - c.left) * Timeout + c.probe
  /\ c.at = "idle" => c.left = 0 /\ c.begun = 0

\* One of the entries keeps the requests away for as long as is promised.
SpareHolds(e, f, rest) ==
  \/ rest = 0
  \/ e.stamp + rest <= Ttl
  \/ sampled = "agility" /\ f.stamp + rest <= Samples!FailureTtl

SampleInv ==
  /\ sampled \in Route
  /\ EntryHolds(sample) /\ EntryHolds(failure)
  /\ call \in [Thread -> Calls] /\ \A t \in Thread : CallHolds(call[t])
  /\ sampled = "agility" => sample.ok \/ ~(sample.stamp < Ttl)
  /\ spared \in 0 .. Ttl /\ SpareHolds(sample, failure, spared)
  /\ Samples!FreshEnough

\* Three probes at most, each of them limited.
LEMMA ProbesAreFew ==
  /\ Samples!Probes(sampled) \in {1, 2, 3}
  /\ Samples!Longest = Samples!Probes(sampled) * Timeout
  /\ Samples!Longest \in Nat /\ Samples!Oldest = Ttl + Samples!Longest + 1
  /\ Samples!Oldest \in Nat /\ Samples!FailureTtl \in Nat /\ Samples!FailureTtl <= Ttl
  /\ sampled # "agility" => Samples!FailureTtl = Ttl
<1>1. Samples!Probes(sampled) \in {1, 2, 3}
  BY DEF Samples!Probes
<1>2. Samples!Longest \in Nat
  BY <1>1, SampleAssumption DEF Samples!Longest
<1> QED
  BY <1>1, <1>2, SampleAssumption DEF Samples!Longest, Samples!Oldest, Samples!FailureTtl

LEMMA SampleTypes == SampleInv => Samples!TypeOK
<1> SUFFICES ASSUME SampleInv PROVE Samples!TypeOK
  OBVIOUS
<1>1. ASSUME NEW e \in {sample, failure}
      PROVE  e.stamp \in 0 .. Samples!Oldest /\ e.begun \in e.stamp .. Samples!Oldest
             /\ e.ok \in BOOLEAN
  BY ProbesAreFew DEF SampleInv, EntryHolds, Entries
<1>2. ASSUME NEW t \in Thread
      PROVE  /\ call[t].at \in {"idle", "probe"} /\ call[t].begun \in 0 .. Samples!Longest
             /\ call[t].probe \in 0 .. Timeout /\ call[t].left \in 0 .. Samples!Probes(sampled)
  <2>1. CallHolds(call[t])
    BY DEF SampleInv
  <2>2. CASE call[t].at = "idle"
    BY <2>1, <2>2, ProbesAreFew, SampleAssumption DEF CallHolds, Calls
  <2>3. CASE call[t].at = "probe"
    BY <2>1, <2>3, ProbesAreFew, SampleAssumption DEF CallHolds, Calls
  <2> QED
    BY <2>1, <2>2, <2>3 DEF CallHolds, Calls
<1>3. spared \in 0 .. Ttl /\ sampled \in Route
  BY ProbesAreFew DEF SampleInv
<1> QED
  BY <1>1, <1>2, <1>3 DEF Samples!TypeOK

LEMMA SampleStart == Samples!Init => SampleInv
<1> SUFFICES ASSUME Samples!Init PROVE SampleInv
  OBVIOUS
<1>1. EntryHolds(Samples!NoEntry)
  BY ProbesAreFew, SampleAssumption DEF EntryHolds, Entries, Samples!NoEntry
<1>2. CallHolds(Samples!NoCall)
  BY SampleAssumption DEF CallHolds, Calls, Samples!NoCall
<1>3. call \in [Thread -> Calls] /\ \A t \in Thread : CallHolds(call[t])
  BY <1>2 DEF Samples!Init, CallHolds
<1>4. spared = 0 /\ sample = Samples!NoEntry /\ failure = Samples!NoEntry
      /\ sampled \in Route /\ answer = Samples!NoAnswer
  BY DEF Samples!Init
<1>5. ~(sample.stamp < Ttl) /\ SpareHolds(sample, failure, spared) /\ spared \in 0 .. Ttl
  BY <1>4, ProbesAreFew, SampleAssumption DEF Samples!NoEntry, SpareHolds
<1>6. Samples!FreshEnough
  BY <1>4 DEF Samples!FreshEnough, Samples!NoAnswer
<1> QED
  BY <1>1, <1>3, <1>4, <1>5, <1>6, ProbesAreFew DEF SampleInv

\* What the route fixes stays while it does.
LEMMA RouteFixes ==
  ASSUME sampled' = sampled
  PROVE  /\ Samples!Probes(sampled)' = Samples!Probes(sampled)
         /\ Samples!Longest' = Samples!Longest /\ Samples!Oldest' = Samples!Oldest
         /\ Samples!FailureTtl' = Samples!FailureTtl
         /\ Samples!StampedEarly' = Samples!StampedEarly
BY DEF Samples!Probes, Samples!Longest, Samples!Oldest, Samples!FailureTtl,
       Samples!StampedEarly

\* An entry that time passes over: its sample ages with it.
LEMMA EntryAges ==
  ASSUME NEW e, EntryHolds(e)
  PROVE  EntryHolds([e EXCEPT !.stamp = Samples!Older(@), !.begun = Samples!Older(@)])
<1> DEFINE o == [e EXCEPT !.stamp = Samples!Older(@), !.begun = Samples!Older(@)]
<1>1. e \in Entries /\ e.stamp \in Nat /\ e.begun \in Nat
  BY DEF EntryHolds, Entries
<1>2. o.stamp = Samples!Older(e.stamp) /\ o.begun = Samples!Older(e.begun)
  BY <1>1 DEF Entries
<1>3. /\ Samples!Older(e.stamp) = IF e.stamp < Samples!Oldest THEN e.stamp + 1 ELSE e.stamp
      /\ Samples!Older(e.begun) = IF e.begun < Samples!Oldest THEN e.begun + 1 ELSE e.begun
  BY DEF Samples!Older
<1>4. Samples!Older(e.stamp) \in Nat /\ Samples!Older(e.begun) \in Nat
  BY <1>1, <1>3
<1>5. o \in Entries
  BY <1>1, <1>4 DEF Entries
<1> HIDE DEF o
<1>6. o.stamp <= o.begun /\ o.begun <= Samples!Oldest
  BY <1>1, <1>2, <1>3, ProbesAreFew DEF EntryHolds
<1>7. ASSUME o.stamp < Ttl
      PROVE  o.begun <= o.stamp + (IF Samples!StampedEarly THEN 0 ELSE Samples!Longest)
  <2>1. e.stamp < Samples!Oldest /\ o.stamp = e.stamp + 1 /\ e.stamp < Ttl
    BY <1>1, <1>2, <1>3, <1>7, ProbesAreFew, SampleAssumption DEF EntryHolds
  <2> QED
    BY <1>1, <1>2, <1>3, <2>1, ProbesAreFew, SampleAssumption DEF EntryHolds
<1>8. EntryHolds(o)
  BY <1>5, <1>6, <1>7 DEF EntryHolds
<1> QED
  BY <1>8 DEF o

\* A call that time passes over.
LEMMA CallAges ==
  ASSUME NEW c, CallHolds(c), c.at # "idle", c.probe < Timeout
  PROVE  CallHolds([c EXCEPT !.begun = @ + 1, !.probe = @ + 1])
<1> DEFINE d == [c EXCEPT !.begun = @ + 1, !.probe = @ + 1]
<1>1. c \in Calls /\ c.at = "probe" /\ c.begun \in Nat /\ c.probe \in Nat /\ c.left \in Nat
  BY DEF CallHolds, Calls
<1>2. /\ d \in Calls /\ d.at = "probe" /\ d.left = c.left
      /\ d.begun = c.begun + 1 /\ d.probe = c.probe + 1
  <2>1. c.begun + 1 \in Nat /\ c.probe + 1 \in Nat
    BY <1>1
  <2>2. d \in Calls
    BY <1>1, <2>1, Zenon DEF Calls
  <2> QED
    BY <1>1, <2>2, SMT DEF Calls
<1> HIDE DEF d
<1>3. d.probe <= Timeout
  BY <1>1, <1>2, SampleAssumption
<1>4. (Samples!Probes(sampled) - c.left) * Timeout \in Int
  BY <1>1, ProbesAreFew, SampleAssumption
<1>5. d.begun <= (Samples!Probes(sampled) - d.left) * Timeout + d.probe
  BY <1>1, <1>2, <1>4 DEF CallHolds
<1>6. CallHolds(d)
  BY <1>1, <1>2, <1>3, <1>5 DEF CallHolds
<1> QED
  BY <1>6 DEF d

\* A call whose probe is answered: it has used one probe more.
LEMMA ProbeReturns ==
  ASSUME NEW c, CallHolds(c), c.at = "probe", NEW got \in BOOLEAN,
         NEW d, d = [c EXCEPT !.left = @ - 1, !.probe = 0, !.ok = @ /\ got]
  PROVE  /\ d \in Calls /\ d.at = "probe"
         /\ d.begun \in Nat /\ d.begun <= Samples!Longest
         /\ d.left # 0 => CallHolds(d)
<1>1. c \in Calls /\ c.begun \in Nat /\ c.probe \in Nat /\ c.ok \in BOOLEAN
      /\ c.left \in 1 .. Samples!Probes(sampled) /\ c.left \in Nat /\ c.left - 1 \in Nat
  <2>1. c \in Calls /\ c.left \in 1 .. Samples!Probes(sampled)
    BY DEF CallHolds
  <2> QED
    BY <2>1, ProbesAreFew DEF Calls
<1>2. (c.ok /\ got) \in BOOLEAN
  OBVIOUS
<1>3. d \in Calls
  BY <1>1, <1>2, Zenon DEF Calls
<1>4. d.at = "probe" /\ d.left = c.left - 1 /\ d.probe = 0 /\ d.begun = c.begun
  BY <1>1, SMT DEF Calls
<1>5. c.begun <= (Samples!Probes(sampled) - c.left) * Timeout + c.probe /\ c.probe <= Timeout
  BY DEF CallHolds
<1>6. c.begun <= (Samples!Probes(sampled) - (c.left - 1)) * Timeout
  <2> DEFINE spent == Samples!Probes(sampled) - c.left
  <2>1. spent \in 0 .. 2 /\ Samples!Probes(sampled) - (c.left - 1) = spent + 1
    BY <1>1, ProbesAreFew
  <2> HIDE DEF spent
  <2>2. /\ 0 * Timeout = 0 /\ 1 * Timeout = Timeout /\ 2 * Timeout = Timeout + Timeout
        /\ 3 * Timeout = Timeout + Timeout + Timeout
    BY SampleAssumption
  <2>3. (spent + 1) * Timeout = spent * Timeout + Timeout /\ spent * Timeout \in Nat
    BY <2>1, <2>2, SampleAssumption
  <2>4. c.begun <= spent * Timeout + c.probe
    BY <1>5 DEF spent
  <2> QED
    BY <1>1, <1>5, <2>1, <2>3, <2>4, SampleAssumption
<1>7. c.begun <= Samples!Longest
  <2>1. /\ 0 * Timeout = 0 /\ 1 * Timeout = Timeout /\ 2 * Timeout = Timeout + Timeout
        /\ 3 * Timeout = Timeout + Timeout + Timeout
    BY SampleAssumption
  <2>2. PICK spent \in 0 .. 3 :
          spent = Samples!Probes(sampled) - (c.left - 1) /\ spent <= Samples!Probes(sampled)
    BY <1>1, ProbesAreFew
  <2>3. spent * Timeout <= Samples!Probes(sampled) * Timeout /\ spent * Timeout \in Nat
        /\ Samples!Probes(sampled) * Timeout \in Nat
    BY <2>1, <2>2, ProbesAreFew, SampleAssumption
  <2>4. c.begun <= spent * Timeout
    BY <1>6, <2>2
  <2> QED
    BY <1>1, <2>3, <2>4, ProbesAreFew
<1>8. ASSUME d.left # 0 PROVE CallHolds(d)
  <2>1. d.left \in 1 .. Samples!Probes(sampled)
    BY <1>1, <1>4, <1>8, ProbesAreFew
  <2>2. d.begun <= (Samples!Probes(sampled) - d.left) * Timeout + d.probe
    <3>1. (Samples!Probes(sampled) - d.left) * Timeout \in Int
      BY <2>1, ProbesAreFew, SampleAssumption
    <3> QED
      BY <1>4, <1>6, <3>1
  <2> QED
    BY <1>3, <1>4, <2>1, <2>2, SampleAssumption DEF CallHolds
<1> QED
  BY <1>1, <1>3, <1>4, <1>7, <1>8

\* What a finished call stores, whatever its route stamps it with.
LEMMA EntryIsRecent ==
  ASSUME NEW c, c \in Calls, c.begun <= Samples!Longest
  PROVE  /\ EntryHolds(Samples!Entry(c)) /\ Samples!Entry(c).ok = c.ok
         /\ Samples!Entry(c).stamp = IF Samples!StampedEarly THEN c.begun ELSE 0
<1> DEFINE e == Samples!Entry(c)
<1>1. c.begun \in Nat /\ c.ok \in BOOLEAN
  BY DEF Calls
<1>2. /\ e.stamp = (IF Samples!StampedEarly THEN c.begun ELSE 0) /\ e.begun = c.begun
      /\ e.ok = c.ok
  BY DEF Samples!Entry
<1>3. e \in Entries
  BY <1>1 DEF Samples!Entry, Entries
<1> HIDE DEF e
<1>4. e.stamp \in Nat /\ e.stamp <= e.begun
  BY <1>1, <1>2
<1>5. /\ e.begun <= Samples!Oldest
      /\ e.begun <= e.stamp + (IF Samples!StampedEarly THEN 0 ELSE Samples!Longest)
  BY <1>1, <1>2, <1>4, ProbesAreFew, SampleAssumption
<1>6. EntryHolds(e)
  BY <1>3, <1>4, <1>5 DEF EntryHolds
<1> QED
  BY <1>2, <1>6 DEF e

\* ... and that it spares the service for as long as is promised.
LEMMA EntrySpares ==
  ASSUME SampleInv, NEW c, c \in Calls, c.begun <= Samples!Longest
  PROVE  /\ Samples!Spares(c) \in 0 .. Ttl
         /\ c.ok \/ sampled \notin {"logs", "agility"}
              => SpareHolds(Samples!Entry(c), failure, Samples!Spares(c))
         /\ ~c.ok /\ sampled = "agility"
              => SpareHolds(sample, Samples!Entry(c), Samples!Spares(c))
         /\ ~c.ok /\ sampled = "logs" => Samples!Spares(c) = spared
<1>1. /\ c.begun \in Nat /\ c.ok \in BOOLEAN /\ spared \in 0 .. Ttl
      /\ SpareHolds(sample, failure, spared)
      /\ sample.stamp \in Nat /\ failure.stamp \in Nat
  BY DEF Calls, SampleInv, EntryHolds, Entries
<1>2. Samples!Entry(c).stamp = IF Samples!StampedEarly THEN c.begun ELSE 0
  BY EntryIsRecent
<1>3. CASE c.ok \/ sampled \notin {"logs", "agility"}
  <2>1. Samples!Spares(c) =
          IF ~Samples!StampedEarly THEN Ttl ELSE IF c.begun < Ttl THEN Ttl - c.begun ELSE 0
    BY <1>3 DEF Samples!Spares, Samples!Apart
  <2>2. Samples!Spares(c) \in 0 .. Ttl
    BY <1>1, <2>1, SampleAssumption
  <2>3. Samples!Spares(c) = 0 \/ Samples!Entry(c).stamp + Samples!Spares(c) <= Ttl
    BY <1>1, <1>2, <2>1, SampleAssumption
  <2>4. SpareHolds(Samples!Entry(c), failure, Samples!Spares(c))
    BY <2>3 DEF SpareHolds
  <2> QED
    BY <1>1, <1>3, <2>2, <2>4
<1>4. CASE ~c.ok /\ sampled = "agility"
  <2>1. Samples!Spares(c) = IF spared > Samples!FailureTtl THEN spared ELSE Samples!FailureTtl
    BY <1>4 DEF Samples!Spares, Samples!Apart
  <2>2. Samples!Entry(c).stamp = 0
    BY <1>2, <1>4 DEF Samples!StampedEarly
  <2>3. CASE spared > Samples!FailureTtl
    <3>1. sample.stamp + spared <= Ttl
      BY <1>1, <2>3, ProbesAreFew, SampleAssumption DEF SpareHolds
    <3> QED
      BY <1>1, <1>4, <2>1, <2>3, <3>1 DEF SpareHolds
  <2>4. CASE ~(spared > Samples!FailureTtl)
    <3>1. Samples!Spares(c) = Samples!FailureTtl /\ Samples!FailureTtl \in 0 .. Ttl
      BY <2>1, <2>4, ProbesAreFew, SampleAssumption
    <3>2. SpareHolds(sample, Samples!Entry(c), Samples!FailureTtl)
      BY <1>4, <2>2, ProbesAreFew DEF SpareHolds
    <3> QED
      BY <1>4, <3>1, <3>2
  <2> QED
    BY <2>3, <2>4
<1>5. CASE ~c.ok /\ sampled = "logs"
  <2>1. Samples!Spares(c) = spared
    BY <1>5 DEF Samples!Spares, Samples!Apart
  <2> QED
    BY <1>1, <1>5, <2>1
<1> QED
  BY <1>3, <1>4, <1>5

\* What is shared when a call ends, or another one starts.
LEMMA SampleFrame ==
  ASSUME SampleInv, sampled' = sampled,
         EntryHolds(sample'), EntryHolds(failure'),
         call' \in [Thread -> Calls], \A t \in Thread : CallHolds(call[t]'),
         sampled = "agility" => sample'.ok \/ ~(sample'.stamp < Ttl),
         spared' \in 0 .. Ttl, SpareHolds(sample', failure', spared'),
         answer'.cached =>
           answer'.begun < (IF answer'.ok THEN Ttl ELSE Samples!FailureTtl)
                           + (IF Samples!StampedEarly THEN 0 ELSE Samples!Longest)
  PROVE  SampleInv'
<1>1. EntryHolds(sample)' /\ EntryHolds(failure)'
  BY RouteFixes DEF EntryHolds
<1>2. \A t \in Thread : CallHolds(call[t])'
  BY RouteFixes, Zenon DEF CallHolds
<1>3. Samples!FreshEnough'
  BY RouteFixes DEF Samples!FreshEnough
<1>4. SpareHolds(sample, failure, spared)'
  BY RouteFixes DEF SpareHolds
<1>5. sampled' \in Route /\ (sampled = "agility" => sample.ok \/ ~(sample.stamp < Ttl))'
  BY DEF SampleInv
<1> QED
  BY <1>1, <1>2, <1>3, <1>4, <1>5 DEF SampleInv

\* Time passes over an answer, and other steps leave it or give one that is new.
LEMMA AnswerStays ==
  ASSUME SampleInv
  PROVE  answer.cached =>
           answer.begun < (IF answer.ok THEN Ttl ELSE Samples!FailureTtl)
                          + (IF Samples!StampedEarly THEN 0 ELSE Samples!Longest)
BY DEF SampleInv, Samples!FreshEnough

LEMMA SampleHit ==
  ASSUME SampleInv, NEW t \in Thread, Samples!Hit(t) PROVE SampleInv'
<1> DEFINE slack == IF Samples!StampedEarly THEN 0 ELSE Samples!Longest
<1>1. UNCHANGED <<sampled, sample, failure, call, spared>>
  BY DEF Samples!Hit
<1>2. /\ EntryHolds(sample) /\ EntryHolds(failure) /\ call \in [Thread -> Calls]
      /\ \A u \in Thread : CallHolds(call[u])
      /\ sampled = "agility" => sample.ok \/ ~(sample.stamp < Ttl)
      /\ spared \in 0 .. Ttl /\ SpareHolds(sample, failure, spared)
  BY DEF SampleInv
<1>3. ASSUME NEW e, EntryHolds(e), NEW ttl \in Nat, ttl <= Ttl, e.stamp < ttl
      PROVE  e.begun < ttl + slack
  <2>1. slack \in Nat /\ e.stamp \in Nat /\ e.begun \in Nat /\ e.begun <= e.stamp + slack
    BY <1>3, ProbesAreFew, SampleAssumption DEF EntryHolds, Entries
  <2> HIDE DEF slack
  <2> QED
    BY <1>3, <2>1
<1>4. answer'.begun < (IF answer'.ok THEN Ttl ELSE Samples!FailureTtl) + slack
  <2> HIDE DEF slack
  <2>1. CASE sample.stamp < Ttl /\ answer' = Samples!Answered(sample, TRUE)
    <3>1. answer'.begun = sample.begun /\ answer'.ok = sample.ok
      BY <2>1 DEF Samples!Answered
    <3>2. sample.ok \/ Samples!FailureTtl = Ttl
      BY <1>2, <2>1, ProbesAreFew
    <3>3. sample.begun < Ttl + slack
      BY <1>2, <1>3, <2>1, SampleAssumption
    <3> QED
      BY <3>1, <3>2, <3>3
  <2>2. CASE failure.stamp < Samples!FailureTtl /\ answer' = Samples!Answered(failure, TRUE)
    <3>1. answer'.begun = failure.begun /\ answer'.ok = failure.ok
      BY <2>2 DEF Samples!Answered
    <3>2. failure.begun < Samples!FailureTtl + slack
      BY <1>2, <1>3, <2>2, ProbesAreFew
    <3>3. failure.begun < Ttl + slack
      <4>1. failure.stamp < Ttl
        BY <1>2, <2>2, ProbesAreFew, SampleAssumption DEF EntryHolds, Entries
      <4> QED
        BY <1>2, <1>3, <4>1, SampleAssumption
    <3> QED
      BY <3>1, <3>2, <3>3
  <2> QED
    BY <2>1, <2>2 DEF Samples!Hit, Samples!Fresh
<1>5. \A u \in Thread : CallHolds(call[u]')
  BY <1>1, <1>2
<1> QED
  BY <1>1, <1>2, <1>4, <1>5, SampleFrame

LEMMA SampleMiss ==
  ASSUME SampleInv, NEW t \in Thread, Samples!Miss(t) PROVE SampleInv'
<1> DEFINE c == [Samples!NoCall EXCEPT !.at = "probe", !.left = Samples!Probes(sampled)]
<1>1. UNCHANGED <<sampled, sample, failure, answer, spared>> /\ call' = [call EXCEPT ![t] = c]
  BY DEF Samples!Miss
<1>2. /\ EntryHolds(sample) /\ EntryHolds(failure) /\ call \in [Thread -> Calls]
      /\ \A u \in Thread : CallHolds(call[u])
      /\ sampled = "agility" => sample.ok \/ ~(sample.stamp < Ttl)
      /\ spared \in 0 .. Ttl /\ SpareHolds(sample, failure, spared)
  BY DEF SampleInv
<1>3. c.at = "probe" /\ c.left = Samples!Probes(sampled) /\ c.begun = 0 /\ c.probe = 0
  BY DEF Samples!NoCall
<1>4. c \in Calls
  <2>1. Samples!NoCall \in Calls
    BY DEF Samples!NoCall, Calls
  <2>2. Samples!Probes(sampled) \in Nat
    BY ProbesAreFew
  <2> QED
    BY <2>1, <2>2, Zenon DEF Calls
<1> HIDE DEF c
<1>5. CallHolds(c)
  <2>1. c.left \in 1 .. Samples!Probes(sampled)
    BY <1>3, ProbesAreFew
  <2>2. (Samples!Probes(sampled) - c.left) * Timeout + c.probe = 0
    <3>1. Samples!Probes(sampled) - c.left = 0
      BY <1>3, ProbesAreFew
    <3>2. 0 * Timeout = 0
      BY SampleAssumption
    <3> QED
      BY <1>3, <3>1, <3>2
  <2> QED
    BY <1>3, <1>4, <2>1, <2>2, SampleAssumption DEF CallHolds
<1>6. call' \in [Thread -> Calls] /\ \A u \in Thread : CallHolds(call[u]')
  BY <1>1, <1>2, <1>4, <1>5
<1> QED
  BY <1>1, <1>2, <1>6, AnswerStays, SampleFrame

\* A call that starts: what was stored has lived as long as it was to spare the
\* service.
LEMMA MissSpares ==
  ASSUME SampleInv, NEW t \in Thread, Samples!Miss(t)
  PROVE  spared = 0
<1>1. /\ sample.stamp \in Nat /\ failure.stamp \in Nat /\ spared \in 0 .. Ttl
      /\ SpareHolds(sample, failure, spared)
  BY DEF SampleInv, EntryHolds, Entries
<1>2. ~(sample.stamp < Ttl) /\ ~(failure.stamp < Samples!FailureTtl)
  BY DEF Samples!Miss, Samples!Fresh
<1> QED
  BY <1>1, <1>2, ProbesAreFew, SampleAssumption DEF SpareHolds

LEMMA SampleFinishes ==
  ASSUME SampleInv, NEW t \in Thread, NEW c, c \in Calls, c.begun <= Samples!Longest,
         Samples!Finish(t, c)
  PROVE  SampleInv'
<1> DEFINE e == Samples!Entry(c)
<1>1. /\ sampled' = sampled /\ call' = [call EXCEPT ![t] = Samples!NoCall]
      /\ answer' = Samples!Answered(e, FALSE)
      /\ spared' = Samples!Spares(c)
  BY DEF Samples!Finish
<1>2. \/ /\ c.ok \/ sampled \notin {"logs", "agility"}
         /\ sample' = e /\ failure' = failure
      \/ /\ ~c.ok /\ sampled = "agility"
         /\ failure' = e /\ sample' = sample
      \/ /\ ~c.ok /\ sampled = "logs"
         /\ sample' = sample /\ failure' = failure
  BY DEF Samples!Finish, Samples!KeepsFailure, Samples!Apart
<1>3. /\ EntryHolds(sample) /\ EntryHolds(failure) /\ call \in [Thread -> Calls]
      /\ \A u \in Thread : CallHolds(call[u])
      /\ sampled = "agility" => sample.ok \/ ~(sample.stamp < Ttl)
      /\ SpareHolds(sample, failure, spared)
  BY DEF SampleInv
<1>4. EntryHolds(e) /\ e.ok = c.ok
  BY EntryIsRecent
<1>5. answer'.cached = FALSE
  BY <1>1 DEF Samples!Answered
<1>6. /\ spared' \in 0 .. Ttl
      /\ c.ok \/ sampled \notin {"logs", "agility"} => SpareHolds(e, failure, spared')
      /\ ~c.ok /\ sampled = "agility" => SpareHolds(sample, e, spared')
      /\ ~c.ok /\ sampled = "logs" => spared' = spared
  BY <1>1, EntrySpares
<1> HIDE DEF e
<1>7. Samples!NoCall \in Calls /\ CallHolds(Samples!NoCall)
  BY SampleAssumption DEF Samples!NoCall, CallHolds, Calls
<1>8. call' \in [Thread -> Calls] /\ \A u \in Thread : CallHolds(call[u]')
  BY <1>1, <1>3, <1>7
<1>9. EntryHolds(sample') /\ EntryHolds(failure')
  BY <1>2, <1>3, <1>4
<1>10. SpareHolds(sample', failure', spared')
  BY <1>2, <1>3, <1>6
<1>11. sampled = "agility" => sample'.ok \/ ~(sample'.stamp < Ttl)
  BY <1>2, <1>3, <1>4
<1> QED
  BY <1>1, <1>5, <1>6, <1>8, <1>9, <1>10, <1>11, SampleFrame

LEMMA SampleAnswered ==
  ASSUME SampleInv, NEW t \in Thread, NEW got \in BOOLEAN, Samples!ProbeAnswered(t, got)
  PROVE  SampleInv'
<1> PICK d : d = [call[t] EXCEPT !.left = @ - 1, !.probe = 0, !.ok = @ /\ got]
  OBVIOUS
<1>1. CallHolds(call[t]) /\ call[t].at = "probe"
  BY DEF SampleInv, Samples!ProbeAnswered
<1>2. /\ d \in Calls /\ d.at = "probe" /\ d.begun \in Nat /\ d.begun <= Samples!Longest
      /\ d.left # 0 => CallHolds(d)
  BY <1>1, ProbeReturns
<1>3. \/ Samples!Finish(t, d)
      \/ /\ d.left # 0 /\ call' = [call EXCEPT ![t] = d]
         /\ UNCHANGED <<sampled, sample, failure, answer, spared>>
  BY DEF Samples!ProbeAnswered
<1>4. CASE Samples!Finish(t, d)
  BY <1>2, <1>4, SampleFinishes
<1>5. CASE /\ d.left # 0 /\ call' = [call EXCEPT ![t] = d]
           /\ UNCHANGED <<sampled, sample, failure, answer, spared>>
  <2>1. /\ EntryHolds(sample) /\ EntryHolds(failure) /\ call \in [Thread -> Calls]
        /\ \A u \in Thread : CallHolds(call[u])
        /\ sampled = "agility" => sample.ok \/ ~(sample.stamp < Ttl)
        /\ spared \in 0 .. Ttl /\ SpareHolds(sample, failure, spared)
    BY DEF SampleInv
  <2>2. call' \in [Thread -> Calls] /\ \A u \in Thread : CallHolds(call[u]')
    BY <1>2, <1>5, <2>1
  <2> QED
    BY <1>5, <2>1, <2>2, AnswerStays, SampleFrame
<1> QED
  BY <1>3, <1>4, <1>5

\* Time takes from what is to be spared what it adds to an age.
LEMMA AgesInStep ==
  ASSUME NEW age \in Nat, NEW rest \in Nat \ {0}, NEW ttl \in Nat, age + rest <= ttl
  PROVE  Samples!Older(age) \in Nat /\ Samples!Older(age) + (rest - 1) <= ttl
<1>1. Samples!Older(age) = IF age < Samples!Oldest THEN age + 1 ELSE age
  BY DEF Samples!Older
<1> QED
  BY <1>1, ProbesAreFew

LEMMA SampleTick == ASSUME SampleInv, Samples!Tick PROVE SampleInv'
<1> DEFINE older(e) == [e EXCEPT !.stamp = Samples!Older(@), !.begun = Samples!Older(@)]
           aged(c) == [c EXCEPT !.begun = @ + 1, !.probe = @ + 1]
<1>1. /\ sampled' = sampled /\ sample' = older(sample) /\ failure' = older(failure)
      /\ call' = [t \in Thread |-> IF call[t].at = "idle" THEN call[t] ELSE aged(call[t])]
      /\ spared' = (IF spared = 0 THEN 0 ELSE spared - 1) /\ answer' = Samples!NoAnswer
      /\ \A t \in Thread : call[t].at = "probe" => call[t].probe < Timeout
  BY DEF Samples!Tick
<1>2. /\ EntryHolds(sample) /\ EntryHolds(failure) /\ call \in [Thread -> Calls]
      /\ \A u \in Thread : CallHolds(call[u])
      /\ sampled = "agility" => sample.ok \/ ~(sample.stamp < Ttl)
      /\ spared \in 0 .. Ttl /\ SpareHolds(sample, failure, spared)
  BY DEF SampleInv
<1>3. EntryHolds(sample') /\ EntryHolds(failure')
  BY <1>1, <1>2, EntryAges
<1>4. ASSUME NEW t \in Thread PROVE CallHolds(call[t]')
  <2>1. CallHolds(call[t])
    BY <1>2
  <2>2. CASE call[t].at = "idle"
    BY <1>1, <2>1, <2>2
  <2>3. CASE call[t].at # "idle"
    <3>1. call[t].at = "probe"
      BY <2>1, <2>3 DEF CallHolds, Calls
    <3>2. CallHolds(aged(call[t]))
      BY <1>1, <2>1, <2>3, <3>1, CallAges
    <3> QED
      BY <1>1, <2>3, <3>2
  <2> QED
    BY <2>2, <2>3
<1>5. call' \in [Thread -> Calls]
  <2>1. \A t \in Thread : call[t]' \in Calls
    BY <1>4 DEF CallHolds
  <2> QED
    BY <1>1, <2>1
<1>6. ASSUME NEW e, EntryHolds(e)
      PROVE  /\ e.stamp \in Nat /\ older(e).stamp = Samples!Older(e.stamp)
             /\ older(e).ok = e.ok
             /\ older(e).stamp < Ttl => e.stamp < Ttl
  <2>1. e \in Entries
    BY <1>6 DEF EntryHolds
  <2>2. e.stamp \in Nat /\ older(e).stamp = Samples!Older(e.stamp) /\ older(e).ok = e.ok
    BY <2>1 DEF Entries
  <2>3. Samples!Older(e.stamp) = IF e.stamp < Samples!Oldest THEN e.stamp + 1 ELSE e.stamp
    BY DEF Samples!Older
  <2> HIDE DEF older
  <2>4. older(e).stamp < Ttl => e.stamp < Ttl
    BY <2>2, <2>3, SampleAssumption
  <2> QED
    BY <2>2, <2>4
<1>7. sampled = "agility" => sample'.ok \/ ~(sample'.stamp < Ttl)
  BY <1>1, <1>2, <1>6
<1>8. spared' = (IF spared = 0 THEN 0 ELSE spared - 1) /\ spared' \in 0 .. Ttl
  <2>1. spared' = IF spared = 0 THEN 0 ELSE spared - 1
    BY DEF Samples!Tick
  <2>2. spared \in 0 .. Ttl
    BY <1>2
  <2> QED
    BY <2>1, <2>2, SampleAssumption
<1>9. SpareHolds(sample', failure', spared')
  <2> HIDE DEF older
  <2>1. CASE spared = 0
    BY <1>1, <2>1 DEF SpareHolds
  <2>2. CASE spared # 0
    <3>1. spared' = spared - 1 /\ spared \in Nat \ {0}
      <4>1. spared \in 0 .. Ttl
        BY <1>2
      <4> QED
        BY <1>8, <2>2, <4>1, SampleAssumption
    <3>2. CASE sample.stamp + spared <= Ttl
      <4>1. Samples!Older(sample.stamp) + (spared - 1) <= Ttl
        BY <1>2, <1>6, <3>1, <3>2, AgesInStep, SampleAssumption
      <4>2. sample'.stamp + spared' <= Ttl
        BY <1>1, <1>2, <1>6, <3>1, <4>1
      <4> QED
        BY <4>2 DEF SpareHolds
    <3>3. CASE sampled = "agility" /\ failure.stamp + spared <= Samples!FailureTtl
      <4>1. Samples!Older(failure.stamp) + (spared - 1) <= Samples!FailureTtl
        BY <1>2, <1>6, <3>1, <3>3, AgesInStep, ProbesAreFew
      <4>2. failure'.stamp + spared' <= Samples!FailureTtl
        BY <1>1, <1>2, <1>6, <3>1, <4>1
      <4> QED
        BY <3>3, <4>2 DEF SpareHolds
    <3> QED
      BY <1>2, <2>2, <3>2, <3>3 DEF SpareHolds
  <2> QED
    BY <2>1, <2>2
<1>10. answer'.cached = FALSE
  BY <1>1 DEF Samples!NoAnswer
<1> QED
  BY <1>1, <1>3, <1>4, <1>5, <1>7, <1>8, <1>9, <1>10, SampleFrame

LEMMA SampleStep == SampleInv /\ [Samples!Next]_(Samples!vars) => SampleInv'
<1> SUFFICES ASSUME SampleInv, [Samples!Next]_(Samples!vars) PROVE SampleInv'
  OBVIOUS
<1>1. ASSUME NEW t \in Thread, Samples!Hit(t) PROVE SampleInv'
  BY <1>1, SampleHit
<1>2. ASSUME NEW t \in Thread, Samples!Miss(t) PROVE SampleInv'
  BY <1>2, SampleMiss
<1>3. ASSUME NEW t \in Thread, NEW got \in BOOLEAN, Samples!ProbeAnswered(t, got)
      PROVE  SampleInv'
  BY <1>3, SampleAnswered
<1>4. CASE Samples!Tick
  BY <1>4, SampleTick
<1>5. CASE UNCHANGED Samples!vars
  <2>1. UNCHANGED <<sampled, sample, failure, call, answer, spared>>
    BY <1>5 DEF Samples!vars
  <2> QED
    BY <2>1, AnswerStays, SampleFrame DEF SampleInv
<1> QED
  BY <1>1, <1>2, <1>3, <1>4, <1>5 DEF Samples!Next

\* The service is asked again only when the time to live is over.
LEMMA SampleSpares ==
  ASSUME SampleInv, [Samples!Next]_(Samples!vars), NEW t \in Thread,
         call[t].at = "idle", call[t]'.at = "probe"
  PROVE  spared = 0
<1>1. call \in [Thread -> Calls]
  BY DEF SampleInv
<1>2. ASSUME NEW u \in Thread, Samples!Hit(u) PROVE FALSE
  BY <1>2 DEF Samples!Hit
<1>3. ASSUME NEW u \in Thread, Samples!Miss(u) PROVE spared = 0
  BY <1>3, MissSpares
<1>4. ASSUME NEW u \in Thread, NEW got \in BOOLEAN, Samples!ProbeAnswered(u, got) PROVE FALSE
  <2>1. call[u].at = "probe"
    BY <1>4 DEF Samples!ProbeAnswered
  <2>2. u # t
    BY <2>1
  <2>3. PICK c : call' = [call EXCEPT ![u] = c]
    BY <1>4, Zenon DEF Samples!ProbeAnswered, Samples!Finish
  <2> QED
    BY <1>1, <2>2, <2>3
<1>5. CASE Samples!Tick
  BY <1>5 DEF Samples!Tick
<1>6. CASE UNCHANGED Samples!vars
  BY <1>6 DEF Samples!vars
<1> QED
  BY <1>2, <1>3, <1>4, <1>5, <1>6 DEF Samples!Next

\* SamplesAreShared: an answer from the cache was begun recently enough, and what
\* was stored spares the service behind a route for the time to live, counted
\* from the request where the route stamps it so, however requests overlap.
THEOREM SamplesServeEveryone == Spec => SamplesAreShared
<1> DEFINE Inv == SampleInv
           Spares == \A t \in Thread :
             call[t].at = "idle" /\ call'[t].at = "probe" => spared = 0
<1>1. Init => Inv
  BY SampleStart DEF Init
<1>2. [Next]_vars => [Samples!Next]_(Samples!vars)
  BY DEF Next, vars, backendVars, sampleVars, Samples!vars
<1>3. Inv /\ [Next]_vars => Inv'
  BY <1>2, SampleStep
<1>4. Inv => Samples!FreshEnough
  BY DEF SampleInv
<1>5. Inv /\ [Next]_vars => [Spares]_(Samples!vars)
  BY <1>2, SampleSpares
<1> HIDE DEF Inv, Spares
<1>6. Spec => []Samples!FreshEnough /\ [][Spares]_(Samples!vars)
  BY <1>1, <1>3, <1>4, <1>5, PTL DEF Spec
<1> QED
  BY <1>6 DEF Spares, SamplesAreShared, Samples!SamplesAreShared, Samples!SparesService

-----------------------------------------------------------------------------
(* The route of the protocol lab.  The paths of its network are three, so  *)
(* one of the shortest always has the widest bottleneck; and where only    *)
(* failures decide, which paths are left does not depend on the stores.    *)

Straight == <<"s", "d">>
OverM == <<"s", "m", "d">>
OverN == <<"s", "n", "d">>

LEMMA LabLinks ==
  /\ {"s", "d"} \in LabLink /\ {"s", "m"} \in LabLink /\ {"m", "d"} \in LabLink
  /\ {"s", "n"} \in LabLink /\ {"n", "d"} \in LabLink
  /\ {"m", "n"} \notin LabLink /\ {"n", "m"} \notin LabLink
BY DEF LabLink, Hop

LEMMA LabNodes == Lab!Cardinality(LabNode) = 4
<1>1. Lab!Cardinality(LabNode) = Cardinality(LabNode)
  BY DEF Lab!Cardinality, Cardinality
<1>2. Cardinality({"s"}) = 1 /\ IsFiniteSet({"s"})
  BY FS_Singleton
<1>3. {"s", "m"} = {"s"} \cup {"m"} /\ "m" \notin {"s"}
  OBVIOUS
<1>4. Cardinality({"s", "m"}) = 2 /\ IsFiniteSet({"s", "m"})
  BY <1>2, <1>3, FS_AddElement
<1>5. {"s", "m", "n"} = {"s", "m"} \cup {"n"} /\ "n" \notin {"s", "m"}
  OBVIOUS
<1>6. Cardinality({"s", "m", "n"}) = 3 /\ IsFiniteSet({"s", "m", "n"})
  BY <1>4, <1>5, FS_AddElement
<1>7. LabNode = {"s", "m", "n"} \cup {"d"} /\ "d" \notin {"s", "m", "n"}
  BY DEF LabNode
<1>8. Cardinality(LabNode) = 4
  BY <1>6, <1>7, FS_AddElement
<1> QED
  BY <1>1, <1>8

\* A path without a repeated node goes straight or over one trusted node, and
\* none leads back to the source.
LEMMA PathsAreFew ==
  ASSUME NEW to_ \in {"s", "d"}, NEW p \in Lab!SimplePaths[to_]
  PROVE  to_ = "d" /\ p \in {Straight, OverM, OverN}
<1>1. /\ p \in UNION {[1 .. k -> LabNode] : k \in 2 .. 4}
      /\ p[1] = "s" /\ p[Len(p)] = to_ /\ Lab!IsInjective(p) /\ Lab!Hops(p) \subseteq LabLink
  BY LabNodes DEF Lab!SimplePaths, LabNode
<1>2. PICK k \in 2 .. 4 : p \in [1 .. k -> LabNode]
  BY <1>1
<1>3. p \in Seq(LabNode) /\ Len(p) = k /\ DOMAIN p = 1 .. k
  BY <1>2
<1>4. \A i, j \in 1 .. k : p[i] = p[j] => i = j
  BY <1>1, <1>3 DEF Lab!IsInjective
<1>5. \A i \in 1 .. k - 1 : {p[i], p[i + 1]} \in LabLink
  BY <1>1, <1>3 DEF Lab!Hops
<1>6. to_ = "d"
  BY <1>1, <1>3, <1>4
<1>7. CASE k = 2
  BY <1>1, <1>3, <1>6, <1>7 DEF Straight
<1>8. CASE k = 3
  <2>1. p[1] = "s" /\ p[3] = "d" /\ p[2] \in {"m", "n"}
    BY <1>1, <1>2, <1>3, <1>4, <1>6, <1>8 DEF LabNode
  <2>3. CASE p[2] = "m"
    <3>1. p = <<"s", "m", "d">>
      BY <1>3, <1>8, <2>1, <2>3
    <3> QED
      BY <1>6, <3>1 DEF OverM
  <2>4. CASE p[2] = "n"
    <3>1. p = <<"s", "n", "d">>
      BY <1>3, <1>8, <2>1, <2>4
    <3> QED
      BY <1>6, <3>1 DEF OverN
  <2> QED
    BY <2>1, <2>3, <2>4
<1>9. CASE k = 4
  <2>1. p[2] \in {"m", "n"} /\ p[3] \in {"m", "n"} /\ p[2] # p[3]
    BY <1>1, <1>2, <1>3, <1>4, <1>6, <1>9 DEF LabNode
  <2>2. {p[2], p[3]} \in LabLink
    BY <1>5, <1>9
  <2> QED
    BY <2>1, <2>2, LabLinks
<1> QED
  BY <1>2, <1>6, <1>7, <1>8, <1>9

\* The links of each path.
LEMMA PathHops ==
  /\ Lab!Hops(Straight) = {{"s", "d"}} /\ Len(Straight) = 2
  /\ Lab!Hops(OverM) = {{"s", "m"}, {"m", "d"}} /\ Len(OverM) = 3
  /\ Lab!Hops(OverN) = {{"s", "n"}, {"n", "d"}} /\ Len(OverN) = 3
<1>1. Len(Straight) = 2 /\ Straight[1] = "s" /\ Straight[2] = "d"
  BY DEF Straight
<1>2. Len(OverM) = 3 /\ OverM[1] = "s" /\ OverM[2] = "m" /\ OverM[3] = "d"
  BY DEF OverM
<1>3. Len(OverN) = 3 /\ OverN[1] = "s" /\ OverN[2] = "n" /\ OverN[3] = "d"
  BY DEF OverN
<1>4. 1 .. 2 - 1 = {1} /\ 1 .. 3 - 1 = {1, 2} /\ 1 + 1 = 2 /\ 2 + 1 = 3
  OBVIOUS
<1>5. Lab!Hops(Straight) = {{"s", "d"}}
  BY <1>1, <1>4 DEF Lab!Hops
<1>6. Lab!Hops(OverM) = {{"s", "m"}, {"m", "d"}}
  BY <1>2, <1>4 DEF Lab!Hops
<1>7. Lab!Hops(OverN) = {{"s", "n"}, {"n", "d"}}
  BY <1>3, <1>4 DEF Lab!Hops
<1> QED
  BY <1>1, <1>2, <1>3, <1>5, <1>6, <1>7

\* The least of one and of two numbers.
LEMMA LabMinimum ==
  ASSUME NEW a \in Int, NEW b \in Int
  PROVE  Lab!Min({a, b}) \in {a, b} /\ Lab!Min({a, b}) <= a /\ Lab!Min({a, b}) <= b
<1> DEFINE m == IF a <= b THEN a ELSE b
<1>1. m \in {a, b} /\ \A y \in {a, b} : m <= y
  OBVIOUS
<1> QED
  BY <1>1 DEF Lab!Min

\* What a path can carry is what the emptiest store of its links holds.
LEMMA BottleneckIsLeast ==
  ASSUME NEW at, NEW p \in {Straight, OverM, OverN}, NEW store \in [LabLink -> Int]
  PROVE  /\ Lab!Bottleneck(at, p, store) \in Int
         /\ at.accounting \in {"keys", "stores"} =>
              \A l \in Lab!Hops(p) : Lab!Bottleneck(at, p, store) <= store[l]
         /\ at.accounting \in {"keys", "stores"} =>
              \E l \in Lab!Hops(p) : Lab!Bottleneck(at, p, store) = store[l]
<1>1. PICK a \in LabLink, b \in LabLink : Lab!Hops(p) = {a, b}
  <2>1. \A l : {l} = {l, l}
    OBVIOUS
  <2>2. CASE p = Straight
    <3>1. Lab!Hops(p) = {{"s", "d"}, {"s", "d"}}
      BY <2>1, <2>2, PathHops
    <3> QED
      BY <3>1, LabLinks, Zenon
  <2>3. CASE p = OverM
    BY <2>3, PathHops, LabLinks
  <2>4. CASE p = OverN
    BY <2>4, PathHops, LabLinks
  <2> QED
    BY <2>2, <2>3, <2>4
<1>2. {store[l] : l \in Lab!Hops(p)} = {store[a], store[b]}
  BY <1>1
<1>3. store[a] \in Int /\ store[b] \in Int
  OBVIOUS
<1>4. CASE at.accounting \in {"keys", "stores"}
  <2>1. Lab!Bottleneck(at, p, store) = Lab!Min({store[a], store[b]})
    BY <1>2, <1>4 DEF Lab!Bottleneck
  <2>2. /\ Lab!Bottleneck(at, p, store) \in {store[a], store[b]}
        /\ Lab!Bottleneck(at, p, store) <= store[a]
        /\ Lab!Bottleneck(at, p, store) <= store[b]
    BY <1>3, <2>1, LabMinimum
  <2>3. \A l \in Lab!Hops(p) : l = a \/ l = b
    BY <1>1
  <2> QED
    BY <1>1, <1>3, <2>2, <2>3
<1>5. CASE at.accounting \notin {"keys", "stores"}
  BY <1>5 DEF Lab!Bottleneck
<1> QED
  BY <1>4, <1>5

\* One of the paths is best, and a best one is one of the shortest.
LEMMA BestExists ==
  ASSUME NEW at, NEW paths \in SUBSET {Straight, OverM, OverN}, paths # {},
         NEW store \in [LabLink -> Int]
  PROVE  /\ Lab!Best(at, paths, store) # {}
         /\ \A p \in Lab!Best(at, paths, store) :
              p \in paths /\ \A q \in paths : Len(p) <= Len(q)
<1> DEFINE shortest == {p \in paths : \A q \in paths : Len(p) <= Len(q)}
           wide(p) == Lab!Bottleneck(at, p, store)
<1>1. Lab!Best(at, paths, store) =
        {p \in shortest : \A q \in shortest : wide(p) >= wide(q)}
  BY DEF Lab!Best
<1>2. \A p \in {Straight, OverM, OverN} : wide(p) \in Int
  BY BottleneckIsLeast
<1>3. Len(Straight) = 2 /\ Len(OverM) = 3 /\ Len(OverN) = 3
  BY PathHops
<1> HIDE DEF wide
<1>4. shortest # {} /\ shortest \subseteq {Straight, OverM, OverN}
  <2>1. CASE Straight \in paths
    <3>1. \A q \in paths : Len(Straight) <= Len(q)
      BY <1>3
    <3>2. Straight \in shortest
      BY <2>1, <3>1
    <3> QED
      BY <3>2
  <2>2. CASE Straight \notin paths
    <3>1. shortest = paths
      BY <1>3, <2>2
    <3> QED
      BY <3>1
  <2> QED
    BY <2>1, <2>2
<1>5. \A p \in shortest : p \in paths /\ \A q \in paths : Len(p) <= Len(q)
  OBVIOUS
<1> HIDE DEF shortest
<1>6. \E p \in shortest : \A q \in shortest : wide(p) >= wide(q)
  <2> DEFINE wins(p, q) == p \in shortest /\ (q \in shortest => wide(p) >= wide(q))
  <2>1. PICK p \in {Straight, OverM, OverN} :
          wins(p, Straight) /\ wins(p, OverM) /\ wins(p, OverN)
    <3>1. \A p, q \in {Straight, OverM, OverN} : wide(p) >= wide(q) \/ wide(q) >= wide(p)
      BY <1>2
    <3>2. \A p, q, r \in {Straight, OverM, OverN} :
            wide(p) >= wide(q) /\ wide(q) >= wide(r) => wide(p) >= wide(r)
      BY <1>2
    <3>3. \A p \in {Straight, OverM, OverN} : wide(p) >= wide(p)
      BY <1>2
    <3>4. Straight \in shortest \/ OverM \in shortest \/ OverN \in shortest
      BY <1>4
    <3> QED
      BY <3>1, <3>2, <3>3, <3>4
  <2> QED
    BY <1>4, <2>1
<1> QED
  BY <1>1, <1>5, <1>6

\* What is chosen is a path that can carry the request, or nothing.
LEMMA ChoiceIsRanked ==
  ASSUME NEW at, NEW store, NEW need, NEW r \in Lab!Chosen(at, store, need)
  PROVE  r = None \/ r \in Lab!Ranked(at, store, need)
<1>1. Lab!Best(at, Lab!Ranked(at, store, need), store) \subseteq Lab!Ranked(at, store, need)
  BY DEF Lab!Best
<1>2. Lab!Primary(at, Lab!Ranked(at, store, need)) \subseteq Lab!Ranked(at, store, need)
  BY DEF Lab!Primary
<1>3. \/ r \in {None}
      \/ r \in Lab!Primary(at, Lab!Ranked(at, store, need))
      \/ at.prev \in Lab!Ranked(at, store, need) /\ r \in {at.prev}
      \/ r \in Lab!Best(at, Lab!Ranked(at, store, need), store)
  BY DEF Lab!Chosen
<1> QED
  BY <1>1, <1>2, <1>3

LEMMA RankedIsUp ==
  ASSUME NEW at, at.to \in {"s", "d"}, NEW store, NEW need,
         NEW p \in Lab!Ranked(at, store, need)
  PROVE  /\ at.to = "d" /\ p \in {Straight, OverM, OverN}
         /\ Lab!Hops(p) \cap at.links = {} /\ \A i \in DOMAIN p : p[i] \notin at.nodes
         /\ \A l \in Lab!Hops(p) : Lab!Usable(l, at, store, need)
<1>1. p \in Lab!SimplePaths[at.to] /\ \A l \in Lab!Hops(p) : Lab!Usable(l, at, store, need)
  BY DEF Lab!Ranked
<1>2. \A l \in Lab!Hops(p) : l \notin at.links
  BY <1>1 DEF Lab!Usable
<1> QED
  BY <1>1, <1>2, PathsAreFew DEF Lab!Ranked

\* Where only failures decide: the paths that they leave, and what is shown.
LabRated == LabLink \ {Hop("s", "d")}

Paths(acc, dest, ls, ns) ==
  {p \in Lab!SimplePaths[dest] :
     /\ Lab!Hops(p) \cap ls = {} /\ \A i \in DOMAIN p : p[i] \notin ns
     /\ acc = "keys" => Lab!Hops(p) \subseteq LabRated}

IsShown(r, acc, paths) ==
  IF paths = {} THEN r = None
  ELSE IF acc = "route-only" /\ OverM \in paths THEN r = OverM
  ELSE r \in paths /\ \A p \in paths : Len(r) <= Len(p)

LEMMA RankedIsLeft ==
  ASSUME NEW at, at.accounting \in {"keys", "route-only"}, at.to \in {"s", "d"},
         NEW store, NEW need,
         at.accounting = "keys" => \A l \in LabLink \ LabRated : store[l] = 0
  PROVE  Lab!Ranked(at, store, need) = Paths(at.accounting, at.to, at.links, at.nodes)
<1>1. ASSUME NEW l \in LabLink
      PROVE  Lab!Usable(l, at, store, need) <=>
               l \notin at.links /\ (at.accounting = "keys" => l \in LabRated)
  <2>1. CASE at.accounting = "keys"
    <3>1. l \notin LabRated => ~(store[l] > 0)
      BY <2>1
    <3> QED
      BY <2>1, <3>1 DEF Lab!Usable, LabRated
  <2>2. CASE at.accounting = "route-only"
    BY <2>2 DEF Lab!Usable
  <2> QED
    BY <2>1, <2>2
<1>2. ASSUME NEW p \in Lab!SimplePaths[at.to]
      PROVE  (\A l \in Lab!Hops(p) : Lab!Usable(l, at, store, need)) <=>
               /\ Lab!Hops(p) \cap at.links = {}
               /\ at.accounting = "keys" => Lab!Hops(p) \subseteq LabRated
  <2>1. Lab!Hops(p) \subseteq LabLink
    BY DEF Lab!SimplePaths, LabNode
  <2> QED
    BY <1>1, <2>1
<1> QED
  BY <1>2 DEF Lab!Ranked, Paths

LEMMA ChoiceIsShown ==
  ASSUME NEW at, at.accounting \in {"keys", "route-only"}, at.to \in {"s", "d"},
         NEW store \in [LabLink -> Int], NEW need,
         at.accounting = "keys" => \A l \in LabLink \ LabRated : store[l] = 0,
         NEW r \in Lab!Chosen(at, store, need)
  PROVE  IsShown(r, at.accounting, Paths(at.accounting, at.to, at.links, at.nodes))
<1> DEFINE paths == Lab!Ranked(at, store, need)
<1>1. paths = Paths(at.accounting, at.to, at.links, at.nodes)
  BY RankedIsLeft
<1>2. paths \in SUBSET {Straight, OverM, OverN}
  BY RankedIsUp
<1>3. Lab!Primary(at, paths) =
        IF at.accounting = "route-only" THEN paths \cap {OverM} ELSE {}
  BY DEF Lab!Primary, OverM
<1>4. /\ paths = {} => r = None
      /\ paths # {} => \/ r \in Lab!Primary(at, paths)
                       \/ /\ Lab!Primary(at, paths) = {} /\ at.prev \in paths /\ r = at.prev
                          /\ \A p \in Lab!Best(at, paths, store) : Len(p) >= Len(at.prev)
                       \/ /\ Lab!Primary(at, paths) = {}
                          /\ r \in Lab!Best(at, paths, store)
  <2> DEFINE stays == /\ at.prev \in paths
                      /\ \A p \in Lab!Best(at, paths, store) : Len(p) >= Len(at.prev)
  <2>1. paths = {} => r \in {None}
    BY DEF Lab!Chosen, Lab!Primary
  <2>2. paths # {} /\ Lab!Primary(at, paths) # {} => r \in Lab!Primary(at, paths)
    BY DEF Lab!Chosen
  <2>3. paths # {} /\ Lab!Primary(at, paths) = {} /\ stays => r \in {at.prev}
    BY DEF Lab!Chosen
  <2>4. paths # {} /\ Lab!Primary(at, paths) = {} /\ ~stays
        => r \in Lab!Best(at, paths, store)
    BY DEF Lab!Chosen
  <2> HIDE DEF paths
  <2> QED
    BY <2>1, <2>2, <2>3, <2>4, Zenon
<1> HIDE DEF paths
<1>5. \A p \in {Straight, OverM, OverN} : Len(p) \in Nat
  BY PathHops
<1>6. CASE paths # {} /\ Lab!Primary(at, paths) = {}
  <2>1. /\ Lab!Best(at, paths, store) # {}
        /\ \A p \in Lab!Best(at, paths, store) :
             p \in paths /\ \A q \in paths : Len(p) <= Len(q)
    BY <1>2, <1>6, BestExists
  <2>2. r \in paths /\ \A p \in paths : Len(r) <= Len(p)
    BY <1>2, <1>4, <1>5, <1>6, <2>1
  <2>3. ~(at.accounting = "route-only" /\ OverM \in paths)
    BY <1>3, <1>6
  <2> QED
    BY <1>1, <1>6, <2>2, <2>3 DEF IsShown
<1>7. CASE paths # {} /\ Lab!Primary(at, paths) # {}
  <2>1. at.accounting = "route-only" /\ OverM \in paths /\ r = OverM
    BY <1>3, <1>4, <1>7
  <2> QED
    BY <1>1, <1>7, <2>1 DEF IsShown
<1>8. CASE paths = {}
  BY <1>1, <1>4, <1>8 DEF IsShown
<1> QED
  BY <1>6, <1>7, <1>8

\* A route that is shown stays when the choice is made again.
LEMMA ChoiceStays ==
  ASSUME NEW at, at.accounting \in {"keys", "route-only"}, at.to \in {"s", "d"},
         NEW store \in [LabLink -> Int], NEW need,
         at.accounting = "keys" => \A l \in LabLink \ LabRated : store[l] = 0,
         IsShown(at.prev, at.accounting,
                 Paths(at.accounting, at.to, at.links, at.nodes)),
         NEW r \in Lab!Chosen(at, store, need)
  PROVE  r = at.prev
<1> DEFINE paths == Lab!Ranked(at, store, need)
<1>1. paths = Paths(at.accounting, at.to, at.links, at.nodes)
  BY RankedIsLeft
<1>2. paths \in SUBSET {Straight, OverM, OverN}
  BY RankedIsUp
<1>3. Lab!Primary(at, paths) =
        IF at.accounting = "route-only" THEN paths \cap {OverM} ELSE {}
  BY DEF Lab!Primary, OverM
<1>4. \A p \in Lab!Best(at, paths, store) : p \in paths
  BY DEF Lab!Best
<1>5. \A p \in {Straight, OverM, OverN} : Len(p) \in Nat
  BY PathHops
<1>6. CASE paths = {}
  <2>1. r \in {None}
    BY <1>6 DEF Lab!Chosen, Lab!Primary
  <2> HIDE DEF paths
  <2> QED
    BY <1>1, <1>6, <2>1 DEF IsShown
<1>7. CASE paths # {} /\ Lab!Primary(at, paths) # {}
  <2>1. r \in Lab!Primary(at, paths)
    BY <1>7 DEF Lab!Chosen
  <2> HIDE DEF paths
  <2> QED
    BY <1>1, <1>3, <1>7, <2>1 DEF IsShown
<1>8. CASE paths # {} /\ Lab!Primary(at, paths) = {}
  <2>1. at.prev \in paths /\ \A p \in paths : Len(at.prev) <= Len(p)
    <3> HIDE DEF paths
    <3> QED
      BY <1>1, <1>3, <1>8 DEF IsShown
  <2>2. \A p \in Lab!Best(at, paths, store) : Len(p) >= Len(at.prev)
    <3> HIDE DEF paths
    <3> QED
      BY <1>2, <1>4, <1>5, <2>1
  <2> QED
    BY <1>8, <2>1, <2>2 DEF Lab!Chosen
<1> QED
  BY <1>6, <1>7, <1>8

\* What left the stores at a node of the network.
Leaving(n) ==
  LET gone(l) == made[l] - stores[l] IN
  IF n = "s" THEN gone({"s", "d"}) + gone({"s", "m"}) + gone({"s", "n"})
  ELSE gone({"s", "d"}) + gone({"m", "d"}) + gone({"n", "d"})

RouteInv ==
  /\ Lab!DownNodesCutLinks /\ Lab!RouteIsUp
  /\ accounting \in {"keys", "route-only"} =>
       IsShown(route, accounting, Paths(accounting, to, links, nodes))

UnratedAreEmpty == accounting = "keys" => \A l \in LabLink \ LabRated : stores[l] = 0

PadsInv ==
  /\ stores \in [LabLink -> Nat] /\ made \in [LabLink -> Nat]
  /\ stock \in 0 .. Capacity /\ {buffered, ok, refused, relayed, asked} \subseteq Nat
  /\ UnratedAreEmpty
  /\ Lab!StoresKeepTheirMinimum /\ Lab!RequestsAccountedFor
  /\ accounting \in {"keys", "stores"} /\ to = "d" =>
       Leaving("s") = relayed /\ Leaving("d") = relayed

PageInv ==
  /\ status \in {"idle", "running", "paused", "stepped"} /\ timer \in BOOLEAN
  /\ accounting \in Lab!Accounting /\ to \in {"s", "d"}
  /\ links \subseteq LabLink /\ nodes \subseteq LabNode
  /\ route = None \/ route \in Lab!SimplePaths[to]
  /\ stream \in BOOLEAN /\ ticks \in 0 .. MaxTicks

LabInv == PageInv /\ RouteInv /\ PadsInv

\* Any choice that is made in the run and the faults there are gives a route
\* that is up and best.
LEMMA RouteChosen ==
  ASSUME NEW at, NEW store \in [LabLink -> Int], NEW need,
         at.accounting = accounting', at.to = to', at.links = links', at.nodes = nodes',
         to' \in {"s", "d"}, Lab!DownNodesCutLinks',
         accounting' = "keys" => \A l \in LabLink \ LabRated : store[l] = 0,
         route' \in Lab!Chosen(at, store, need)
  PROVE  RouteInv' /\ (route' = None \/ route' \in Lab!SimplePaths[to'])
<1>1. route' = None \/ route' \in Lab!Ranked(at, store, need)
  BY ChoiceIsRanked
<1>2. ASSUME route' \in Lab!Ranked(at, store, need)
      PROVE  /\ Lab!Hops(route') \cap links' = {}
             /\ \A i \in DOMAIN route' : route'[i] \notin nodes'
             /\ route' \in Lab!SimplePaths[to']
  <2>1. route' \in Lab!SimplePaths[at.to]
    BY <1>2 DEF Lab!Ranked
  <2>2. /\ Lab!Hops(route') \cap at.links = {}
        /\ \A i \in DOMAIN route' : route'[i] \notin at.nodes
    BY <1>2, RankedIsUp
  <2> QED
    BY <2>1, <2>2
<1>3. Lab!RouteIsUp'
  BY <1>1, <1>2 DEF Lab!RouteIsUp
<1>4. ASSUME accounting' \in {"keys", "route-only"}
      PROVE  IsShown(route', accounting', Paths(accounting', to', links', nodes'))
  <2>1. at.accounting \in {"keys", "route-only"} /\ at.to \in {"s", "d"}
    BY <1>4
  <2>2. at.accounting = "keys" => \A l \in LabLink \ LabRated : store[l] = 0
    OBVIOUS
  <2>3. IsShown(route', at.accounting, Paths(at.accounting, at.to, at.links, at.nodes))
    BY <2>1, <2>2, ChoiceIsShown
  <2> QED
    BY <2>3
<1> QED
  BY <1>1, <1>2, <1>3, <1>4 DEF RouteInv

\* Nothing that a choice depends on changes.
LEMMA RouteKept ==
  ASSUME LabInv, UNCHANGED <<accounting, to, links, nodes, route>>
  PROVE  RouteInv' /\ (route' = None \/ route' \in Lab!SimplePaths[to'])
BY DEF LabInv, PageInv, RouteInv, Lab!DownNodesCutLinks, Lab!RouteIsUp, Lab!Touching

\* A tick chooses once more, which changes nothing where only failures decide.
LEMMA TickChooses ==
  ASSUME LabInv, UNCHANGED <<accounting, to, links, nodes>>,
         NEW store \in [LabLink -> Int], NEW need,
         accounting = "keys" => \A l \in LabLink \ LabRated : store[l] = 0,
         route' \in Lab!Chosen(Lab!Here, store, need)
  PROVE  /\ RouteInv' /\ (route' = None \/ route' \in Lab!SimplePaths[to'])
         /\ accounting \in {"keys", "route-only"} => route' = route
<1>1. PICK at : at = Lab!Here
  OBVIOUS
<1>2. /\ at.accounting = accounting /\ at.to = to /\ at.links = links
      /\ at.nodes = nodes /\ at.prev = route
  BY <1>1 DEF Lab!Here
<1>3. Lab!DownNodesCutLinks'
  BY DEF LabInv, RouteInv, Lab!DownNodesCutLinks, Lab!Touching
<1>4. to \in {"s", "d"} /\ route' \in Lab!Chosen(at, store, need)
  BY <1>1 DEF LabInv, PageInv
<1>5. RouteInv' /\ (route' = None \/ route' \in Lab!SimplePaths[to'])
  BY <1>2, <1>3, <1>4, RouteChosen
<1>6. ASSUME accounting \in {"keys", "route-only"} PROVE route' = route
  <2>1. IsShown(at.prev, at.accounting, Paths(at.accounting, at.to, at.links, at.nodes))
    BY <1>2, <1>6 DEF LabInv, RouteInv
  <2>2. at.accounting = "keys" => \A l \in LabLink \ LabRated : store[l] = 0
    BY <1>2
  <2> QED
    BY <1>2, <1>4, <1>6, <2>1, <2>2, ChoiceStays
<1> QED
  BY <1>5, <1>6

\* The links are five, and each path has one at the source and one at the end.
LEMMA PathEnds ==
  ASSUME NEW p \in {Straight, OverM, OverN}
  PROVE  /\ \/ /\ {"s", "d"} \in Lab!Hops(p) /\ {"s", "m"} \notin Lab!Hops(p)
               /\ {"s", "n"} \notin Lab!Hops(p) /\ {"m", "d"} \notin Lab!Hops(p)
               /\ {"n", "d"} \notin Lab!Hops(p)
            \/ /\ {"s", "d"} \notin Lab!Hops(p) /\ {"s", "m"} \in Lab!Hops(p)
               /\ {"s", "n"} \notin Lab!Hops(p) /\ {"m", "d"} \in Lab!Hops(p)
               /\ {"n", "d"} \notin Lab!Hops(p)
            \/ /\ {"s", "d"} \notin Lab!Hops(p) /\ {"s", "m"} \notin Lab!Hops(p)
               /\ {"s", "n"} \in Lab!Hops(p) /\ {"m", "d"} \notin Lab!Hops(p)
               /\ {"n", "d"} \in Lab!Hops(p)
         /\ Lab!Hops(p) \subseteq LabLink
<1>1. /\ {"s", "d"} # {"s", "m"} /\ {"s", "d"} # {"m", "d"} /\ {"s", "d"} # {"s", "n"}
      /\ {"s", "d"} # {"n", "d"} /\ {"s", "m"} # {"m", "d"} /\ {"s", "m"} # {"s", "n"}
      /\ {"s", "m"} # {"n", "d"} /\ {"m", "d"} # {"s", "n"} /\ {"m", "d"} # {"n", "d"}
      /\ {"s", "n"} # {"n", "d"}
  BY "s" # "d" /\ "s" # "m" /\ "s" # "n" /\ "m" # "d" /\ "n" # "d" /\ "m" # "n"
<1>2. CASE p = Straight
  BY <1>1, <1>2, PathHops, LabLinks
<1>3. CASE p = OverM
  BY <1>1, <1>3, PathHops, LabLinks
<1>4. CASE p = OverN
  BY <1>1, <1>4, PathHops, LabLinks
<1> QED
  BY <1>2, <1>3, <1>4

LEMMA LabMaximum ==
  ASSUME NEW a \in Int, NEW b \in Int
  PROVE  Lab!Max({a, b}) \in {a, b} /\ Lab!Max({a, b}) >= a /\ Lab!Max({a, b}) >= b
<1> DEFINE m == IF a >= b THEN a ELSE b
<1>1. m \in {a, b} /\ \A y \in {a, b} : m >= y
  OBVIOUS
<1> QED
  BY <1>1 DEF Lab!Max

\* What is put into the stores and is not drawn leaves nothing behind.
LEMMA NoneDrawn ==
  ASSUME stores \in [LabLink -> Nat], made \in [LabLink -> Nat],
         NEW store \in [LabLink -> Nat], stores' = store,
         made' = [l \in LabLink |-> made[l] + store[l] - stores[l]]
  PROVE  Leaving("s")' = Leaving("s") /\ Leaving("d")' = Leaving("d")
<1>1. \A l \in LabLink : /\ made[l] \in Int /\ stores[l] \in Int /\ stores'[l] \in Int
                         /\ made'[l] - stores'[l] = made[l] - stores[l]
  OBVIOUS
<1> QED
  BY <1>1, LabLinks DEF Leaving

\* A pad of every hop leaves one store at the source and one at the end.
LEMMA PadsDrawn ==
  ASSUME stores \in [LabLink -> Nat], made \in [LabLink -> Nat],
         NEW store \in [LabLink -> Nat], NEW p \in {Straight, OverM, OverN}, NEW n \in Int,
         stores' = Lab!Drawn(p, store, n),
         made' = [l \in LabLink |-> made[l] + store[l] - stores[l]]
  PROVE  /\ Leaving("s")' = Leaving("s") + n /\ Leaving("d")' = Leaving("d") + n
         /\ stores' = [l \in LabLink |->
                         IF l \in Lab!Hops(p) THEN store[l] - n ELSE store[l]]
<1>1. stores' = [l \in LabLink |-> IF l \in Lab!Hops(p) THEN store[l] - n ELSE store[l]]
  BY DEF Lab!Drawn
<1>2. \A l \in LabLink :
        /\ made[l] \in Int /\ stores[l] \in Int /\ stores'[l] \in Int /\ made'[l] \in Int
        /\ made'[l] - stores'[l] =
             IF l \in Lab!Hops(p) THEN (made[l] - stores[l]) + n ELSE made[l] - stores[l]
  BY <1>1
<1> DEFINE was(l) == made[l] - stores[l]
           is(l) == made'[l] - stores'[l]
<1>3. /\ Leaving("s") = was({"s", "d"}) + was({"s", "m"}) + was({"s", "n"})
      /\ Leaving("d") = was({"s", "d"}) + was({"m", "d"}) + was({"n", "d"})
      /\ Leaving("s")' = is({"s", "d"}) + is({"s", "m"}) + is({"s", "n"})
      /\ Leaving("d")' = is({"s", "d"}) + is({"m", "d"}) + is({"n", "d"})
  BY DEF Leaving
<1>4. \A l \in LabLink : /\ was(l) \in Int
                         /\ l \in Lab!Hops(p) => is(l) = was(l) + n
                         /\ l \notin Lab!Hops(p) => is(l) = was(l)
  BY <1>2
<1> HIDE DEF was, is
<1>5. Leaving("s")' = Leaving("s") + n /\ Leaving("d")' = Leaving("d") + n
  BY <1>3, <1>4, PathEnds, LabLinks
<1> QED
  BY <1>1, <1>5

\* What a tick leaves alone.
TickFrame == UNCHANGED <<accounting, to, links, nodes>>

\* Free play: keys are generated, the stream is filled over the route, requests
\* are served from it.
LEMMA KeysTick ==
  ASSUME LabInv, TickFrame, accounting = "keys", NEW due \in 0 .. MaxDue,
         Lab!TickKeys(due)
  PROVE  /\ RouteInv' /\ (route' = None \/ route' \in Lab!SimplePaths[to'])
         /\ PadsInv' /\ stream' \in BOOLEAN /\ route' = route
<1>0. PICK store \in Lab!Generated : \E p \in Lab!Chosen(Lab!Here, store, 1) :
        LET open == stream \/ route # None
            room == Lab!Max({0, Low - buffered})
            n == IF open /\ p # None THEN Lab!Min({room, Lab!Bottleneck(Lab!Here, p, store)})
                 ELSE 0
            served == IF open /\ p # None THEN Lab!Min({due, buffered + n}) ELSE 0
        IN  /\ stream' = open /\ route' = p
            /\ stores' = IF n = 0 THEN store ELSE Lab!Drawn(p, store, n)
            /\ made' = [l \in LabLink |-> made[l] + store[l] - stores[l]]
            /\ relayed' = relayed + n
            /\ buffered' = buffered + n - served
            /\ Lab!Count(due, served, open)
            /\ UNCHANGED stock
  BY Zenon DEF Lab!TickKeys
<1>1. PICK p \in Lab!Chosen(Lab!Here, store, 1) :
        LET open == stream \/ route # None
            room == Lab!Max({0, Low - buffered})
            n == IF open /\ p # None THEN Lab!Min({room, Lab!Bottleneck(Lab!Here, p, store)})
                 ELSE 0
            served == IF open /\ p # None THEN Lab!Min({due, buffered + n}) ELSE 0
        IN  /\ stream' = open /\ route' = p
            /\ stores' = IF n = 0 THEN store ELSE Lab!Drawn(p, store, n)
            /\ made' = [l \in LabLink |-> made[l] + store[l] - stores[l]]
            /\ relayed' = relayed + n
            /\ buffered' = buffered + n - served
            /\ Lab!Count(due, served, open)
            /\ UNCHANGED stock
  BY <1>0
<1> DEFINE open == stream \/ route # None
           room == Lab!Max({0, Low - buffered})
           n == IF open /\ p # None THEN Lab!Min({room, Lab!Bottleneck(Lab!Here, p, store)})
                ELSE 0
           served == IF open /\ p # None THEN Lab!Min({due, buffered + n}) ELSE 0
<1>2. /\ stream' = open /\ route' = p
      /\ stores' = IF n = 0 THEN store ELSE Lab!Drawn(p, store, n)
      /\ made' = [l \in LabLink |-> made[l] + store[l] - stores[l]]
      /\ relayed' = relayed + n /\ buffered' = buffered + n - served
      /\ ok' = ok + served /\ refused' = refused + (due - served) /\ asked' = asked + due
      /\ stock' = stock
  BY <1>1 DEF Lab!Count
<1>3. /\ stores \in [LabLink -> Nat] /\ made \in [LabLink -> Nat] /\ stock \in 0 .. Capacity
      /\ buffered \in Nat /\ ok \in Nat /\ refused \in Nat /\ relayed \in Nat /\ asked \in Nat
      /\ \A l \in LabLink \ LabRated : stores[l] = 0
      /\ ok + refused = asked /\ relayed = ok + buffered
      /\ to = "d" => Leaving("s") = relayed /\ Leaving("d") = relayed
  BY DEF LabInv, PadsInv, UnratedAreEmpty, Lab!RequestsAccountedFor
<1>4. due \in Nat /\ Low \in Nat
  BY LabAssumption
<1>5. /\ store \in [LabLink -> Nat]
      /\ \A l \in LabLink : store[l] >= stores[l]
      /\ \A l \in LabLink \ LabRated : store[l] = 0
  <2>1. store \in [LabLink -> 0 .. Low]
    BY DEF Lab!Generated
  <2>2. \A l \in LabLink : /\ l \in LabRated \ links => store[l] >= stores[l]
                           /\ l \notin LabRated \ links => store[l] = stores[l]
    BY Zenon DEF Lab!Generated, LabRated
  <2> QED
    BY <1>3, <1>4, <2>1, <2>2
<1>6. /\ RouteInv' /\ (route' = None \/ route' \in Lab!SimplePaths[to'])
      /\ accounting \in {"keys", "route-only"} => route' = route
  <2>1. store \in [LabLink -> Int] /\ route' \in Lab!Chosen(Lab!Here, store, 1)
    BY <1>2, <1>5
  <2> QED
    BY <1>5, <2>1, TickChooses DEF TickFrame
<1>7. p # None => p \in {Straight, OverM, OverN} /\ to = "d"
  <2>1. route' # None => route' \in Lab!SimplePaths[to] /\ to \in {"s", "d"}
    BY <1>6 DEF TickFrame, LabInv, PageInv
  <2> QED
    BY <1>2, <2>1, PathsAreFew
<1>8. /\ n \in Nat /\ (n # 0 => p # None)
      /\ p # None => \A l \in Lab!Hops(p) : n <= store[l]
  <2>1. room \in Nat
    <3>1. 0 \in Int /\ Low - buffered \in Int
      BY <1>3, <1>4
    <3>2. room \in {0, Low - buffered} /\ room >= 0
      BY <3>1, LabMaximum
    <3> QED
      BY <3>1, <3>2
  <2>2. CASE open /\ p # None
    <3>1. PICK at : at = Lab!Here
      OBVIOUS
    <3>2. at.accounting \in {"keys", "stores"}
      BY <3>1 DEF Lab!Here
    <3>3. PICK b : b = Lab!Bottleneck(Lab!Here, p, store)
      OBVIOUS
    <3>4. /\ b \in Int /\ \A l \in Lab!Hops(p) : b <= store[l]
          /\ \E l \in Lab!Hops(p) : b = store[l]
      BY <1>5, <1>7, <2>2, <3>1, <3>2, <3>3, BottleneckIsLeast
    <3>5. Lab!Hops(p) \subseteq LabLink
      BY <1>7, <2>2, PathEnds
    <3>6. b \in Nat
      BY <1>5, <3>4, <3>5
    <3>7. n = Lab!Min({room, b})
      BY <2>2, <3>3
    <3>8. n \in {room, b} /\ n <= room /\ n <= b
      <4> HIDE DEF room
      <4>1. room \in Int /\ b \in Int
        BY <2>1, <3>6
      <4> QED
        BY <3>7, <4>1, LabMinimum
    <3> HIDE DEF n, room
    <3> QED
      BY <1>5, <2>1, <2>2, <3>4, <3>5, <3>6, <3>8
  <2>3. CASE ~(open /\ p # None)
    <3>1. n = 0
      BY <2>3
    <3> HIDE DEF n
    <3>2. p # None => Lab!Hops(p) \subseteq LabLink
      BY <1>7, PathEnds
    <3> QED
      BY <1>5, <3>1, <3>2
  <2> QED
    BY <2>2, <2>3
<1>9. served \in Nat /\ served <= due /\ served <= buffered + n
  <2> HIDE DEF n, open
  <2>1. buffered + n \in Nat
    BY <1>3, <1>8
  <2>2. CASE open /\ p # None
    <3>1. served = Lab!Min({due, buffered + n})
      BY <2>2
    <3> QED
      BY <1>4, <2>1, <3>1, LabMinimum
  <2>3. CASE ~(open /\ p # None)
    BY <1>4, <2>1, <2>3
  <2> QED
    BY <2>2, <2>3
<1>10. stream' \in BOOLEAN
  BY <1>2
<1> HIDE DEF n, served, open, room
<1>11. /\ stores' \in [LabLink -> Nat]
       /\ \A l \in LabLink : stores'[l] <= store[l]
       /\ to = "d" => Leaving("s")' = Leaving("s") + n /\ Leaving("d")' = Leaving("d") + n
  <2>1. CASE n = 0
    <3>1. stores' = store
      BY <1>2, <2>1
    <3>2. Leaving("s")' = Leaving("s") /\ Leaving("d")' = Leaving("d")
      BY <1>2, <1>3, <1>5, <3>1, NoneDrawn
    <3>3. to = "d" => Leaving("s") \in Nat /\ Leaving("d") \in Nat
      BY <1>3
    <3> QED
      BY <1>5, <2>1, <3>1, <3>2, <3>3
  <2>2. CASE n # 0
    <3>1. PICK m \in Int : m = n
      BY <1>8
    <3>2. /\ p \in {Straight, OverM, OverN} /\ stores' = Lab!Drawn(p, store, m)
          /\ stores \in [LabLink -> Nat] /\ made \in [LabLink -> Nat]
          /\ store \in [LabLink -> Nat]
          /\ made' = [l \in LabLink |-> made[l] + store[l] - stores[l]]
      BY <1>2, <1>3, <1>5, <1>7, <1>8, <2>2, <3>1
    <3>4. /\ Leaving("s")' = Leaving("s") + n /\ Leaving("d")' = Leaving("d") + n
          /\ stores' = [l \in LabLink |->
                          IF l \in Lab!Hops(p) THEN store[l] - n ELSE store[l]]
      BY <3>1, <3>2, PadsDrawn
    <3>3. \A l \in LabLink :
            /\ store[l] \in Nat
            /\ l \in Lab!Hops(p) => store[l] - n \in Nat /\ store[l] - n <= store[l]
      BY <1>5, <1>8, <2>2
    <3> QED
      BY <1>5, <3>3, <3>4
  <2> QED
    BY <2>1, <2>2
<1>12. made' \in [LabLink -> Nat]
  BY <1>2, <1>3, <1>5
<1>13. \A l \in LabLink \ LabRated : stores'[l] = 0
  BY <1>5, <1>11
<1>14. /\ buffered' \in Nat /\ ok' \in Nat /\ refused' \in Nat /\ relayed' \in Nat
       /\ asked' \in Nat /\ ok' + refused' = asked' /\ relayed' = ok' + buffered'
  BY <1>2, <1>3, <1>4, <1>8, <1>9
<1>15. Lab!StoresKeepTheirMinimum'
  <2>1. \A l \in LabLink : stores'[l] >= 0
    BY <1>11
  <2>2. accounting' # "stores"
    BY DEF TickFrame
  <2> QED
    BY <2>1, <2>2 DEF Lab!StoresKeepTheirMinimum
<1>16. PadsInv'
  BY <1>2, <1>3, <1>11, <1>12, <1>13, <1>14, <1>15
     DEF PadsInv, UnratedAreEmpty, TickFrame, Lab!RequestsAccountedFor
<1> QED
  BY <1>6, <1>10, <1>16

\* A replay of stores: the demand is drawn from each store of the route.
LEMMA StoresTick ==
  ASSUME LabInv, TickFrame, accounting = "stores", Lab!TickStores
  PROVE  /\ RouteInv' /\ (route' = None \/ route' \in Lab!SimplePaths[to'])
         /\ PadsInv' /\ stream' \in BOOLEAN
<1>1. /\ stores \in [LabLink -> Nat] /\ made \in [LabLink -> Nat] /\ stock \in 0 .. Capacity
      /\ buffered \in Nat /\ ok \in Nat /\ refused \in Nat /\ relayed \in Nat /\ asked \in Nat
      /\ ok + refused = asked /\ stream \in BOOLEAN
      /\ to = "d" => Leaving("s") = relayed /\ Leaving("d") = relayed
  BY DEF LabInv, PadsInv, PageInv, Lab!RequestsAccountedFor
<1>2. Need \in Nat /\ Threshold \in Nat
  BY LabAssumption
<1>3. \A l \in LabLink : stores[l] >= Threshold
  BY DEF LabInv, PadsInv, Lab!StoresKeepTheirMinimum
<1>4. PICK gen \in {{}, LabRated} :
        LET store == [l \in LabLink |-> IF l \in gen THEN stores[l] + Need ELSE stores[l]] IN
        \E p \in Lab!Chosen(Lab!Here, store, Need) :
          /\ route' = p
          /\ stores' = IF p = None THEN store ELSE Lab!Drawn(p, store, Need)
          /\ made' = [l \in LabLink |-> made[l] + store[l] - stores[l]]
          /\ relayed' = relayed + (IF p = None THEN 0 ELSE Need)
          /\ UNCHANGED <<stream, buffered, stock, ok, refused, asked>>
  BY Zenon DEF Lab!TickStores, LabRated
<1>5. PICK store :
        store = [l \in LabLink |-> IF l \in gen THEN stores[l] + Need ELSE stores[l]]
  OBVIOUS
<1>6. PICK p \in Lab!Chosen(Lab!Here, store, Need) :
        /\ route' = p
        /\ stores' = IF p = None THEN store ELSE Lab!Drawn(p, store, Need)
        /\ made' = [l \in LabLink |-> made[l] + store[l] - stores[l]]
        /\ relayed' = relayed + (IF p = None THEN 0 ELSE Need)
        /\ UNCHANGED <<stream, buffered, stock, ok, refused, asked>>
  BY <1>4, <1>5, Zenon
<1>7. /\ store \in [LabLink -> Nat]
      /\ \A l \in LabLink : store[l] >= stores[l] /\ store[l] >= Threshold
  BY <1>1, <1>2, <1>3, <1>5
<1>8. RouteInv' /\ (route' = None \/ route' \in Lab!SimplePaths[to'])
  <2>1. store \in [LabLink -> Int] /\ route' \in Lab!Chosen(Lab!Here, store, Need)
    BY <1>6, <1>7
  <2> QED
    BY <2>1, TickChooses DEF TickFrame
<1>9. ASSUME p # None
      PROVE  /\ p \in {Straight, OverM, OverN} /\ to = "d"
             /\ \A l \in Lab!Hops(p) : store[l] >= Threshold + Need
  <2>1. PICK at : at = Lab!Here
    OBVIOUS
  <2>2. at.to \in {"s", "d"} /\ at.to = to /\ at.accounting = "stores"
    BY <2>1 DEF Lab!Here, LabInv, PageInv
  <2>3. p \in Lab!Ranked(at, store, Need)
    BY <1>9, <2>1, ChoiceIsRanked
  <2>4. /\ p \in {Straight, OverM, OverN} /\ to = "d"
        /\ \A l \in Lab!Hops(p) : Lab!Usable(l, at, store, Need)
    BY <2>2, <2>3, RankedIsUp
  <2> QED
    BY <2>2, <2>4 DEF Lab!Usable
<1>10. /\ stores' \in [LabLink -> Nat] /\ \A l \in LabLink : stores'[l] >= Threshold
       /\ relayed' \in Nat
       /\ to = "d" => Leaving("s")' = relayed' /\ Leaving("d")' = relayed'
  <2>1. CASE p = None
    <3>1. stores' = store /\ relayed' = relayed
      BY <1>1, <1>6, <2>1
    <3>2. Leaving("s")' = Leaving("s") /\ Leaving("d")' = Leaving("d")
      BY <1>1, <1>6, <1>7, <3>1, NoneDrawn
    <3> QED
      BY <1>1, <1>7, <3>1, <3>2
  <2>2. CASE p # None
    <3>1. p \in {Straight, OverM, OverN} /\ stores' = Lab!Drawn(p, store, Need)
      BY <1>6, <1>9, <2>2
    <3>2. /\ Leaving("s")' = Leaving("s") + Need /\ Leaving("d")' = Leaving("d") + Need
          /\ stores' = [l \in LabLink |->
                          IF l \in Lab!Hops(p) THEN store[l] - Need ELSE store[l]]
      <4>1. /\ stores \in [LabLink -> Nat] /\ made \in [LabLink -> Nat]
            /\ store \in [LabLink -> Nat] /\ Need \in Int
            /\ made' = [l \in LabLink |-> made[l] + store[l] - stores[l]]
        BY <1>1, <1>2, <1>6, <1>7
      <4> QED
        BY <3>1, <4>1, PadsDrawn
    <3>3. \A l \in LabLink :
            /\ store[l] \in Nat /\ store[l] >= Threshold
            /\ l \in Lab!Hops(p) => store[l] - Need \in Nat /\ store[l] - Need >= Threshold
      BY <1>2, <1>7, <1>9, <2>2
    <3>4. relayed' = relayed + Need
      BY <1>6, <2>2
    <3> QED
      BY <1>1, <1>2, <3>2, <3>3, <3>4
  <2> QED
    BY <2>1, <2>2
<1>11. made' \in [LabLink -> Nat]
  BY <1>1, <1>6, <1>7
<1>12. accounting' = "stores" /\ to' = to
  BY DEF TickFrame
<1>13. Lab!StoresKeepTheirMinimum'
  BY <1>10, <1>12 DEF Lab!StoresKeepTheirMinimum
<1>14. /\ buffered' = buffered /\ stock' = stock /\ ok' = ok /\ refused' = refused
       /\ asked' = asked /\ stream' = stream
  BY <1>6
<1>15. PadsInv'
  BY <1>1, <1>10, <1>11, <1>12, <1>13, <1>14
     DEF PadsInv, UnratedAreEmpty, Lab!RequestsAccountedFor
<1> QED
  BY <1>1, <1>8, <1>14, <1>15

\* A service: requests are served from a stock that the route refills.
LEMMA ServiceTick ==
  ASSUME LabInv, TickFrame, accounting = "service-buffer", NEW due \in 0 .. MaxDue,
         Lab!TickService(due)
  PROVE  /\ RouteInv' /\ (route' = None \/ route' \in Lab!SimplePaths[to'])
         /\ PadsInv' /\ stream' \in BOOLEAN
<1>1. /\ stores \in [LabLink -> Nat] /\ made \in [LabLink -> Nat] /\ stock \in Nat
      /\ stock <= Capacity
      /\ buffered \in Nat /\ ok \in Nat /\ refused \in Nat /\ relayed \in Nat /\ asked \in Nat
      /\ ok + refused = asked /\ stream \in BOOLEAN /\ Lab!StoresKeepTheirMinimum
      /\ Capacity \in Nat /\ due \in Nat
  BY LabAssumption DEF LabInv, PadsInv, PageInv, Lab!RequestsAccountedFor
<1> DEFINE served == Lab!Min({due, stock})
           left0 == stock - served
           need == IF Lab!IsLow(left0) THEN Capacity - left0 ELSE 0
<1>2. PICK p \in Lab!Chosen(Lab!Here, stores, need) :
        /\ route' = p
        /\ stock' = IF Lab!IsLow(left0) /\ p # None THEN Capacity ELSE left0
  BY Zenon DEF Lab!TickService
<1>3. /\ ok' = ok + served /\ refused' = refused + (due - served) /\ asked' = asked + due
      /\ UNCHANGED <<stores, stream, buffered, made, relayed>>
  BY DEF Lab!TickService, Lab!Count
<1>4. served \in Nat /\ served <= due /\ served <= stock
  <2>1. due \in Int /\ stock \in Int
    BY <1>1
  <2>2. served \in {due, stock} /\ served <= due /\ served <= stock
    BY <2>1, LabMinimum
  <2> QED
    BY <1>1, <2>2
<1>5. route' \in Lab!Chosen(Lab!Here, stores, need)
  BY <1>2
<1> HIDE DEF need
<1>6. RouteInv' /\ (route' = None \/ route' \in Lab!SimplePaths[to'])
  <2>1. PICK n : n = need
    OBVIOUS
  <2>2. PICK store \in [LabLink -> Int] : store = stores
    BY <1>1
  <2>3. route' \in Lab!Chosen(Lab!Here, store, n)
    BY <1>5, <2>1, <2>2
  <2> QED
    BY <2>3, TickChooses DEF TickFrame
<1> HIDE DEF served
<1>7. stock' \in 0 .. Capacity
  BY <1>1, <1>2, <1>4
<1>8. /\ ok' \in Nat /\ refused' \in Nat /\ asked' \in Nat /\ ok' + refused' = asked'
  BY <1>1, <1>3, <1>4
<1>9. accounting' = "service-buffer"
  BY DEF TickFrame
<1>10. Lab!StoresKeepTheirMinimum'
  BY <1>1, <1>3, <1>9 DEF Lab!StoresKeepTheirMinimum
<1>11. PadsInv'
  BY <1>1, <1>3, <1>7, <1>8, <1>9, <1>10
     DEF PadsInv, UnratedAreEmpty, Lab!RequestsAccountedFor
<1> QED
  BY <1>1, <1>3, <1>6, <1>11

\* What the pads and the requests are counted from does not change.
LEMMA PadsKept ==
  ASSUME PadsInv, UNCHANGED <<accounting, to, stores, stock, buffered, ok, refused,
                              made, relayed, asked>>
  PROVE  PadsInv'
BY DEF PadsInv, UnratedAreEmpty, Leaving, Lab!StoresKeepTheirMinimum, Lab!RequestsAccountedFor

LEMMA RouteTick ==
  ASSUME LabInv, TickFrame, accounting = "route-only", Lab!TickRoute
  PROVE  /\ RouteInv' /\ (route' = None \/ route' \in Lab!SimplePaths[to'])
         /\ PadsInv' /\ stream' \in BOOLEAN /\ route' = route
<1>1. /\ route' \in Lab!Chosen(Lab!Here, stores, 0)
      /\ UNCHANGED <<stores, stream, buffered, stock, ok, refused, made, relayed, asked>>
  BY DEF Lab!TickRoute, Lab!storeVars
<1>2. PICK store \in [LabLink -> Int] : store = stores
  BY DEF LabInv, PadsInv
<1>3. route' \in Lab!Chosen(Lab!Here, store, 0)
  BY <1>1, <1>2
<1>4. /\ RouteInv' /\ (route' = None \/ route' \in Lab!SimplePaths[to'])
      /\ accounting \in {"keys", "route-only"} => route' = route
  BY <1>3, TickChooses DEF TickFrame
<1>5. PadsInv'
  BY <1>1, PadsKept DEF TickFrame, LabInv
<1> QED
  BY <1>1, <1>4, <1>5 DEF LabInv, PageInv

LEMMA LabAdvance ==
  ASSUME LabInv, Lab!Advance
  PROVE  /\ RouteInv' /\ (route' = None \/ route' \in Lab!SimplePaths[to'])
         /\ PadsInv' /\ stream' \in BOOLEAN /\ TickFrame
         /\ ticks' \in 0 .. MaxTicks
         /\ accounting \in {"keys", "route-only"} => route' = route
<1>1. TickFrame /\ accounting \in {"keys", "stores", "service-buffer", "route-only"}
  BY DEF Lab!Advance, Lab!loadVars, Lab!faultVars, TickFrame, LabInv, PageInv, Lab!Accounting
<1>2. ticks' \in 0 .. MaxTicks
  BY LabAssumption DEF Lab!Advance, LabInv, PageInv
<1>3. CASE accounting = "keys"
  <2>1. PICK due \in 0 .. MaxDue : Lab!TickKeys(due)
    BY <1>3, Zenon DEF Lab!Advance
  <2> QED
    BY <1>1, <1>2, <1>3, <2>1, KeysTick
<1>4. CASE accounting = "stores"
  BY <1>1, <1>2, <1>4, StoresTick DEF Lab!Advance
<1>5. CASE accounting = "service-buffer"
  <2>1. PICK due \in 0 .. MaxDue : Lab!TickService(due)
    BY <1>5, Zenon DEF Lab!Advance
  <2> QED
    BY <1>1, <1>2, <1>5, <2>1, ServiceTick
<1>6. CASE accounting = "route-only"
  BY <1>1, <1>2, <1>6, RouteTick DEF Lab!Advance
<1> QED
  BY <1>1, <1>3, <1>4, <1>5, <1>6

\* A failure or a repair: the route is chosen anew at once.
LEMMA FaultsChange ==
  ASSUME LabInv, UNCHANGED <<status, timer, accounting, to, ticks>>,
         UNCHANGED <<stores, stream, buffered, stock, ok, refused, made, relayed, asked>>,
         links' \subseteq LabLink, nodes' \subseteq LabNode,
         \A n \in nodes' : \A l \in LabLink : n \in l => l \in links',
         NEW at, at.accounting = accounting, at.to = to, at.links = links', at.nodes = nodes',
         route' \in Lab!Chosen(at, stores, 1)
  PROVE  LabInv'
<1>1. Lab!DownNodesCutLinks'
  BY DEF Lab!DownNodesCutLinks, Lab!Touching
<1>2. PICK store \in [LabLink -> Int] : store = stores
  BY DEF LabInv, PadsInv
<1>3. accounting' = "keys" => \A l \in LabLink \ LabRated : store[l] = 0
  BY <1>2 DEF LabInv, PadsInv, UnratedAreEmpty
<1>4. to' \in {"s", "d"} /\ route' \in Lab!Chosen(at, store, 1)
  BY <1>2 DEF LabInv, PageInv
<1>5. RouteInv' /\ (route' = None \/ route' \in Lab!SimplePaths[to'])
  BY <1>1, <1>3, <1>4, RouteChosen
<1>6. PadsInv'
  BY PadsKept DEF LabInv
<1>7. PageInv'
  BY <1>5 DEF LabInv, PageInv
<1> QED
  BY <1>5, <1>6, <1>7 DEF LabInv

LEMMA LabFails ==
  ASSUME LabInv, NEW ls \in SUBSET LabLink, NEW ns \in SUBSET LabNode,
         \A n \in ns : Lab!Touching(n) \subseteq ls,
         Lab!InjectFailure(ls, ns)
  PROVE  LabInv'
<1>1. /\ links' = links \cup ls /\ nodes' = nodes \cup ns
      /\ UNCHANGED <<status, timer, accounting, to, ticks>>
      /\ UNCHANGED <<stores, stream, buffered, stock, ok, refused, made, relayed, asked>>
  BY DEF Lab!InjectFailure, Lab!loadVars, Lab!storeVars
<1>2. PICK at : at = [Lab!Here EXCEPT !.links = links', !.nodes = nodes']
  OBVIOUS
<1>3. /\ at.accounting = accounting /\ at.to = to /\ at.links = links' /\ at.nodes = nodes'
  BY <1>2 DEF Lab!Here
<1>4. route' \in Lab!Chosen(at, stores, 1)
  BY <1>2 DEF Lab!InjectFailure
<1>5. links' \subseteq LabLink /\ nodes' \subseteq LabNode
  BY <1>1 DEF LabInv, PageInv
<1>6. \A n \in nodes' : \A l \in LabLink : n \in l => l \in links'
  BY <1>1 DEF LabInv, RouteInv, Lab!DownNodesCutLinks, Lab!Touching
<1> QED
  BY <1>1, <1>3, <1>4, <1>5, <1>6, FaultsChange

LEMMA LabClears == ASSUME LabInv, Lab!ClearFailures PROVE LabInv'
<1>1. /\ links' = {} /\ nodes' = {}
      /\ UNCHANGED <<status, timer, accounting, to, ticks>>
      /\ UNCHANGED <<stores, stream, buffered, stock, ok, refused, made, relayed, asked>>
  BY DEF Lab!ClearFailures, Lab!loadVars, Lab!storeVars
<1>2. PICK at : at = [Lab!Here EXCEPT !.links = {}, !.nodes = {}]
  OBVIOUS
<1>3. /\ at.accounting = accounting /\ at.to = to /\ at.links = links' /\ at.nodes = nodes'
  BY <1>1, <1>2 DEF Lab!Here
<1>4. route' \in Lab!Chosen(at, stores, 1)
  BY <1>2 DEF Lab!ClearFailures
<1> QED
  BY <1>1, <1>3, <1>4, FaultsChange

\* A link comes back only when no node that is down cuts it.
LEMMA LabRestores ==
  ASSUME LabInv, NEW l \in LabLink, Lab!RestoreLink(l) PROVE LabInv'
<1>1. /\ links' = IF l \cap nodes = {} THEN links \ {l} ELSE links
      /\ UNCHANGED <<status, timer, accounting, to, ticks, nodes>>
      /\ UNCHANGED <<stores, stream, buffered, stock, ok, refused, made, relayed, asked>>
  BY DEF Lab!RestoreLink, Lab!ComesUp, Lab!loadVars, Lab!storeVars
<1>2. PICK at : at = [Lab!Here EXCEPT !.links = links']
  OBVIOUS
<1>3. /\ at.accounting = accounting /\ at.to = to /\ at.links = links' /\ at.nodes = nodes'
  BY <1>1, <1>2 DEF Lab!Here
<1>4. route' \in Lab!Chosen(at, stores, 1)
  BY <1>2 DEF Lab!RestoreLink
<1>5. links' \subseteq LabLink /\ nodes' \subseteq LabNode
  BY <1>1 DEF LabInv, PageInv
<1>6. \A n \in nodes' : \A k \in LabLink : n \in k => k \in links'
  <2>1. \A n \in nodes : \A k \in LabLink : n \in k => k \in links
    BY DEF LabInv, RouteInv, Lab!DownNodesCutLinks, Lab!Touching
  <2> QED
    BY <1>1, <2>1
<1> QED
  BY <1>1, <1>3, <1>4, <1>5, <1>6, FaultsChange

\* A run that is loaded has no failure, and its stores have given nothing.
LEMMA LabLoads ==
  ASSUME LabInv, NEW a \in Lab!Accounting, NEW d \in {"s", "d"}, Lab!Load(a, d)
  PROVE  LabInv'
<1>1. PICK store : store = Lab!Fresh(a)
  OBVIOUS
<1>2. /\ status' = "idle" /\ timer' = FALSE /\ accounting' = a /\ to' = d
      /\ links' = {} /\ nodes' = {} /\ ticks' = 0
      /\ stores' = store /\ made' = store
      /\ stock' = (IF a = "service-buffer" THEN Capacity ELSE 0)
      /\ buffered' = 0 /\ ok' = 0 /\ refused' = 0 /\ relayed' = 0 /\ asked' = 0
  BY <1>1 DEF Lab!Load
<1>3. stream' = (a = "keys" /\ route' # None)
  BY DEF Lab!Load
<1>4. PICK at : at = [accounting |-> a, to |-> d, links |-> {}, nodes |-> {}, prev |-> None]
  OBVIOUS
<1>5. route' \in Lab!Chosen(at, store, 1)
  BY <1>1, <1>4 DEF Lab!Load
<1>6. store = [l \in LabLink |-> IF a = "stores" THEN Fill ELSE 0]
  BY <1>1 DEF Lab!Fresh
<1>7. store \in [LabLink -> Nat] /\ store \in [LabLink -> Int]
  BY <1>6, LabAssumption
<1>8. Lab!DownNodesCutLinks'
  BY <1>2 DEF Lab!DownNodesCutLinks
<1>9. RouteInv' /\ (route' = None \/ route' \in Lab!SimplePaths[to'])
  <2>1. /\ at.accounting = accounting' /\ at.to = to' /\ at.links = links'
        /\ at.nodes = nodes' /\ to' \in {"s", "d"}
    BY <1>2, <1>4
  <2>2. accounting' = "keys" => \A l \in LabLink \ LabRated : store[l] = 0
    BY <1>2, <1>6
  <2> QED
    BY <1>5, <1>7, <1>8, <2>1, <2>2, RouteChosen
<1>10. Leaving("s")' = 0 /\ Leaving("d")' = 0
  <2>1. \A l \in LabLink : stores'[l] \in Int /\ made'[l] - stores'[l] = 0
    BY <1>2, <1>7
  <2> QED
    BY <2>1, LabLinks DEF Leaving
<1>11. Lab!StoresKeepTheirMinimum'
  <2>1. \A l \in LabLink : stores'[l] >= IF a = "stores" THEN Threshold ELSE 0
    BY <1>2, <1>6, LabAssumption
  <2> QED
    BY <1>2, <2>1 DEF Lab!StoresKeepTheirMinimum
<1>12. UnratedAreEmpty'
  BY <1>2, <1>6 DEF UnratedAreEmpty
<1>13. Lab!RequestsAccountedFor'
  BY <1>2 DEF Lab!RequestsAccountedFor
<1>14. stock' \in 0 .. Capacity /\ ticks' \in 0 .. MaxTicks
  BY <1>2, LabAssumption
<1>15. PadsInv'
  BY <1>2, <1>7, <1>10, <1>11, <1>12, <1>13, <1>14 DEF PadsInv
<1>16. PageInv'
  BY <1>2, <1>3, <1>9, <1>14 DEF PageInv
<1> QED
  BY <1>9, <1>15, <1>16 DEF LabInv

LEMMA LabStart == Lab!Init => LabInv
<1> SUFFICES ASSUME Lab!Init PROVE LabInv
  OBVIOUS
<1>1. PICK store : store = Lab!Fresh("keys")
  OBVIOUS
<1>2. /\ status = "idle" /\ timer = FALSE /\ accounting = "keys" /\ to = "d"
      /\ links = {} /\ nodes = {} /\ ticks = 0 /\ stores = store /\ made = store
      /\ stream = TRUE /\ stock = 0
      /\ buffered = 0 /\ ok = 0 /\ refused = 0 /\ relayed = 0 /\ asked = 0
  BY <1>1 DEF Lab!Init
<1>3. store = [l \in LabLink |-> 0]
  BY <1>1 DEF Lab!Fresh
<1> DEFINE paths == {p \in Lab!SimplePaths["d"] : Lab!Hops(p) \subseteq LabRated}
<1>4. paths = Paths("keys", "d", {}, {})
  BY DEF Paths
<1>5. paths \in SUBSET {Straight, OverM, OverN}
  BY PathsAreFew
<1>6. route \in Lab!Best([accounting |-> "keys"], paths, store)
  BY <1>1 DEF Lab!Init, LabRated
<1>7. PICK at : at = [accounting |-> "keys"]
  OBVIOUS
<1> HIDE DEF paths
<1>8. route \in paths /\ \A p \in paths : Len(route) <= Len(p)
  <2>1. paths # {}
    BY <1>6 DEF Lab!Best
  <2>2. store \in [LabLink -> Int]
    BY <1>3
  <2> QED
    BY <1>5, <1>6, <1>7, <2>1, <2>2, BestExists
<1>9. RouteInv
  <2>1. IsShown(route, "keys", Paths("keys", "d", {}, {}))
    BY <1>4, <1>8 DEF IsShown
  <2> QED
    BY <1>2, <2>1 DEF RouteInv, Lab!DownNodesCutLinks, Lab!RouteIsUp
<1>10. Leaving("s") = 0 /\ Leaving("d") = 0
  <2>1. \A l \in LabLink : made[l] - stores[l] = 0
    BY <1>2, <1>3
  <2> QED
    BY <2>1, LabLinks DEF Leaving
<1>11. PadsInv
  BY <1>2, <1>3, <1>10, LabAssumption
     DEF PadsInv, UnratedAreEmpty, Lab!StoresKeepTheirMinimum, Lab!RequestsAccountedFor
<1>12. PageInv
  <2>1. route \in Lab!SimplePaths["d"]
    BY <1>4, <1>8 DEF Paths
  <2>2. ticks \in 0 .. MaxTicks
    BY <1>2, LabAssumption
  <2>3. timer \in BOOLEAN /\ stream \in BOOLEAN
    BY <1>2, Zenon
  <2> QED
    BY <1>2, <2>1, <2>2, <2>3, Zenon DEF PageInv, Lab!Accounting
<1> QED
  BY <1>9, <1>11, <1>12 DEF LabInv

LEMMA LabStep ==
  ASSUME LabInv, [Lab!Next]_(Lab!vars)
  PROVE  /\ LabInv'
         /\ ticks' > ticks /\ accounting \in {"keys", "route-only"} => route' = route
<1>0. ticks \in Nat /\ status \in {"idle", "running", "paused", "stepped"}
      /\ timer \in BOOLEAN
  BY DEF LabInv, PageInv
<1>1. ASSUME Lab!Advance, status' \in {"idle", "running", "paused", "stepped"},
             timer' \in BOOLEAN
      PROVE  LabInv' /\ (accounting \in {"keys", "route-only"} => route' = route)
  BY <1>1, LabAdvance DEF LabInv, PageInv, TickFrame
<1>2. CASE Lab!Tick
  <2>1. status' \in {"idle", "running", "paused", "stepped"} /\ timer' \in BOOLEAN
    BY <1>2 DEF Lab!Tick, Lab!StayRunning
  <2> QED
    BY <1>1, <1>2, <2>1 DEF Lab!Tick
<1>3. CASE Lab!Step
  <2>1. status' \in {"idle", "running", "paused", "stepped"} /\ timer' \in BOOLEAN
    BY <1>0, <1>3 DEF Lab!Step
  <2> QED
    BY <1>1, <1>3, <2>1 DEF Lab!Step
<1>4. ASSUME UNCHANGED <<accounting, to, links, nodes, route, ticks>>,
             UNCHANGED <<stores, stream, buffered, stock, ok, refused, made, relayed, asked>>,
             status' \in {"idle", "running", "paused", "stepped"}, timer' \in BOOLEAN
      PROVE  LabInv'
  BY <1>4, RouteKept, PadsKept DEF LabInv, PageInv
<1>5. CASE Lab!Run
  <2>1. /\ UNCHANGED <<accounting, to, links, nodes, route, ticks>>
        /\ UNCHANGED <<stores, stream, buffered, stock, ok, refused, made, relayed, asked>>
        /\ status' = "running" /\ timer' = TRUE
    BY <1>5 DEF Lab!Run, Lab!loadVars, Lab!faultVars, Lab!storeVars
  <2> QED
    BY <1>0, <1>4, <2>1
<1>6. CASE Lab!Pause
  <2>1. /\ UNCHANGED <<accounting, to, links, nodes, route, ticks>>
        /\ UNCHANGED <<stores, stream, buffered, stock, ok, refused, made, relayed, asked>>
        /\ status' = "paused" /\ timer' = FALSE
    BY <1>6 DEF Lab!Pause, Lab!loadVars, Lab!faultVars, Lab!storeVars
  <2> QED
    BY <1>0, <1>4, <2>1
<1>7. CASE Lab!ClearFailures
  BY <1>0, <1>7, LabClears DEF Lab!ClearFailures
<1>8. ASSUME NEW l \in {Hop("s", "d"), Hop("s", "m")},
             Lab!InjectFailure({l}, {}) \/ Lab!RestoreLink(l)
      PROVE  LabInv' /\ ticks' = ticks
  <2>1. l \in LabLink /\ {l} \in SUBSET LabLink /\ {} \in SUBSET LabNode
    BY DEF LabLink
  <2>2. CASE Lab!InjectFailure({l}, {})
    BY <2>1, <2>2, LabFails DEF Lab!InjectFailure
  <2>3. CASE Lab!RestoreLink(l)
    BY <2>1, <2>3, LabRestores DEF Lab!RestoreLink
  <2> QED
    BY <1>8, <2>2, <2>3
<1>9. ASSUME NEW n \in {"m", "d"}, Lab!InjectFailure(Lab!Touching(n), {n})
      PROVE  LabInv' /\ ticks' = ticks
  <2>1. /\ Lab!Touching(n) \in SUBSET LabLink /\ {n} \in SUBSET LabNode
        /\ \A m \in {n} : Lab!Touching(m) \subseteq Lab!Touching(n)
    BY DEF Lab!Touching, LabNode
  <2>2. ticks' = ticks
    BY <1>9 DEF Lab!InjectFailure
  <2> QED
    BY <1>9, <2>1, <2>2, LabFails
<1>10. ASSUME NEW a \in Lab!Accounting, NEW d \in {"s", "d"}, Lab!Load(a, d)
       PROVE  LabInv' /\ ticks' = 0
  BY <1>10, LabLoads DEF Lab!Load
<1>11. CASE UNCHANGED Lab!vars
  <2>1. /\ UNCHANGED <<accounting, to, links, nodes, route, ticks>>
        /\ UNCHANGED <<stores, stream, buffered, stock, ok, refused, made, relayed, asked>>
        /\ UNCHANGED <<status, timer>>
    BY <1>11 DEF Lab!vars, Lab!loadVars, Lab!faultVars, Lab!storeVars
  <2> QED
    BY <1>0, <1>4, <2>1
<1>12. (Lab!Run \/ Lab!Pause \/ Lab!ClearFailures) => ticks' = ticks
  BY DEF Lab!Run, Lab!Pause, Lab!ClearFailures
<1>13. ~(ticks > ticks) /\ ~(0 > ticks)
  BY <1>0
<1> QED
  BY <1>1, <1>2, <1>3, <1>5, <1>6, <1>7, <1>8, <1>9, <1>10, <1>11, <1>12, <1>13
     DEF Lab!Next, Lab!vars, Lab!Tick, Lab!Step

LEMMA ShownIsBest ==
  ASSUME RouteInv, to \in {"s", "d"} PROVE Lab!RouteIsBest
<1>1. PICK at : at = Lab!Here
  OBVIOUS
<1>2. /\ at.accounting = accounting /\ at.to = to /\ at.links = links /\ at.nodes = nodes
  BY <1>1 DEF Lab!Here
<1>3. PICK store : store = [l \in LabLink |-> 0]
  OBVIOUS
<1> DEFINE paths == Lab!Ranked(Lab!Here, [l \in LabLink |-> 0], 0)
<1>4. ASSUME accounting \in {"keys", "route-only"}
      PROVE  paths = Paths(accounting, to, links, nodes)
  <2>1. Lab!Ranked(at, store, 0) = Paths(at.accounting, at.to, at.links, at.nodes)
    BY <1>2, <1>3, <1>4, RankedIsLeft
  <2> QED
    BY <1>1, <1>2, <1>3, <2>1
<1>5. Lab!Primary(Lab!Here, paths) =
        IF accounting = "route-only" THEN paths \cap {OverM} ELSE {}
  BY DEF Lab!Primary, Lab!Here, OverM
<1> HIDE DEF paths
<1>6. ASSUME accounting \in {"keys", "route-only"}
      PROVE  /\ paths = {} => route = None
             /\ paths # {} /\ Lab!Primary(Lab!Here, paths) # {} => route = OverM
             /\ paths # {} /\ Lab!Primary(Lab!Here, paths) = {}
                => route \in paths /\ \A p \in paths : Len(route) <= Len(p)
  BY <1>4, <1>5, <1>6 DEF RouteInv, IsShown
<1>7. paths = {} => Lab!Primary(Lab!Here, paths) = {}
  BY <1>5
<1>8. ASSUME accounting \in {"keys", "route-only"}
      PROVE  CASE paths = {} -> route = None
               [] Lab!Primary(Lab!Here, paths) # {} -> route = OverM
               [] OTHER -> route \in paths /\ \A p \in paths : Len(route) <= Len(p)
  BY <1>6, <1>7, <1>8
<1> QED
  BY <1>8 DEF Lab!RouteIsBest, paths, OverM

\* RouteFollowsFailures: whatever fails and is restored, the route is up and a
\* best one at once, and a tick changes no route for an equal one.
THEOREM RouteGoesRound == Spec => RouteFollowsFailures
<1> DEFINE Inv == /\ part = "lab" => LabInv
                  /\ RouteInv /\ to \in {"s", "d"} /\ ticks \in Nat
           Holds == Lab!DownNodesCutLinks /\ Lab!RouteIsUp /\ Lab!RouteIsBest
           Steady == ticks' > ticks /\ accounting \in {"keys", "route-only"} => route' = route
<1>1. Init => Inv
  BY LabStart, LabAssumption DEF Init, LabInv, PageInv
<1>2. part = "lab" /\ [Next]_vars => [Lab!Next]_(Lab!vars)
  BY DEF Next, vars, simVars, pageVars, labVars, Lab!vars, Lab!loadVars, Lab!faultVars,
         Lab!storeVars
<1>3. [Next]_vars => part' = part
  BY DEF Next, vars
<1>4. part # "lab" /\ [Next]_vars => UNCHANGED labVars
  BY DEF Next, vars, simVars
<1>5. Inv /\ [Next]_vars => Inv' /\ Steady
  <2> SUFFICES ASSUME Inv, [Next]_vars PROVE Inv' /\ Steady
    OBVIOUS
  <2>1. CASE part = "lab"
    <3>1. LabInv' /\ Steady
      BY <1>2, <2>1, LabStep
    <3>2. part' = "lab" /\ RouteInv' /\ to' \in {"s", "d"} /\ ticks' \in 0 .. MaxTicks
      BY <1>3, <2>1, <3>1 DEF LabInv, PageInv
    <3> QED
      BY <3>1, <3>2, LabAssumption
  <2>2. CASE part # "lab"
    <3>1. UNCHANGED <<accounting, to, links, nodes, route, ticks>> /\ part' # "lab"
      BY <1>3, <1>4, <2>2 DEF labVars
    <3>2. RouteInv'
      BY <3>1 DEF RouteInv, Lab!DownNodesCutLinks, Lab!RouteIsUp, Lab!Touching
    <3> QED
      BY <3>1, <3>2
  <2> QED
    BY <2>1, <2>2
<1>6. Inv => Holds
  BY ShownIsBest DEF RouteInv
<1> HIDE DEF Inv, Holds, Steady
<1>7. Inv /\ [Next]_vars => [Steady]_(Lab!vars)
  BY <1>5
<1>8. Spec => []Holds /\ [][Steady]_(Lab!vars)
  BY <1>1, <1>5, <1>6, <1>7, PTL DEF Spec
<1> QED
  BY <1>8 DEF Holds, Steady, RouteFollowsFailures, Lab!RouteFollowsFailures

\* A fold over the subsets of three links, as FiniteSetsExt defines it: each
\* set gives what its first link adds to the fold of the others.
FirstOf(s) == CHOOSE x \in s : TRUE

Folding(g, f, S) ==
  [s \in SUBSET S |-> IF s = {} THEN 0 ELSE g[FirstOf(s)] + f[s \ {FirstOf(s)}]]

FoldsThree(f, g, a, b, c) ==
  /\ a # b /\ a # c /\ b # c
  /\ g[a] \in Int /\ g[b] \in Int /\ g[c] \in Int
  /\ f = Folding(g, f, {a, b, c})

GivesTheSum(f, g, a, b, c) == f[{a, b, c}] = g[a] + g[b] + g[c]

LEMMA FirstIsOne == \A s : s # {} => FirstOf(s) \in s
BY DEF FirstOf

\* Such a fold is the sum, whichever link comes first.
LEMMA FoldOfThree ==
  ASSUME NEW a, NEW b, NEW c, NEW g, NEW f, FoldsThree(f, g, a, b, c)
  PROVE  GivesTheSum(f, g, a, b, c)
<1> USE DEF FoldsThree, GivesTheSum
<1> DEFINE S == {a, b, c}
<1>1. f[{}] = 0
  BY DEF Folding
<1>2. ASSUME NEW s \in SUBSET S, s # {}
      PROVE  \E x \in s : f[s] = g[x] + f[s \ {x}]
  <2>1. f[s] = g[FirstOf(s)] + f[s \ {FirstOf(s)}]
    BY <1>2 DEF Folding
  <2> QED
    BY <1>2, <2>1, FirstIsOne
<1>3. ASSUME NEW x \in S PROVE f[{x}] = g[x]
  <2>1. f[{x}] = g[x] + f[{x} \ {x}]
    BY <1>2
  <2>2. {x} \ {x} = {} /\ g[x] \in Int
    OBVIOUS
  <2> QED
    BY <1>1, <2>1, <2>2
<1>4. ASSUME NEW x \in S, NEW y \in S, x # y PROVE f[{x, y}] = g[x] + g[y]
  <2>1. PICK z \in {x, y} : f[{x, y}] = g[z] + f[{x, y} \ {z}]
    BY <1>2
  <2>2. g[x] \in Int /\ g[y] \in Int /\ f[{x}] = g[x] /\ f[{y}] = g[y]
    BY <1>3
  <2>3. {x, y} \ {x} = {y} /\ {x, y} \ {y} = {x}
    BY <1>4
  <2>4. CASE z = x
    <3>1. f[{x, y}] = g[x] + g[y]
      BY <2>1, <2>2, <2>3, <2>4
    <3> QED
      BY <3>1
  <2>5. CASE z = y
    <3>1. f[{x, y}] = g[y] + g[x]
      BY <2>1, <2>2, <2>3, <2>5
    <3> QED
      BY <2>2, <3>1
  <2> QED
    BY <2>4, <2>5
<1>5. PICK z \in S : f[S] = g[z] + f[S \ {z}]
  BY <1>2
<1>6. S \ {a} = {b, c} /\ S \ {b} = {a, c} /\ S \ {c} = {a, b}
  OBVIOUS
<1>7. f[{b, c}] = g[b] + g[c] /\ f[{a, c}] = g[a] + g[c] /\ f[{a, b}] = g[a] + g[b]
  BY <1>4
<1>8. z = a \/ z = b \/ z = c
  OBVIOUS
<1>9. CASE z = a
  <2>1. f[S] = g[a] + f[S \ {a}] /\ f[S \ {a}] = g[b] + g[c]
    BY <1>5, <1>6, <1>7, <1>9
  <2> HIDE DEF S
  <2>2. f[S] = g[a] + g[b] + g[c]
    BY <2>1
  <2> QED
    BY <2>2 DEF S
<1>10. CASE z = b
  <2>1. f[S] = g[b] + f[S \ {b}] /\ f[S \ {b}] = g[a] + g[c]
    BY <1>5, <1>6, <1>7, <1>10
  <2> HIDE DEF S
  <2>2. f[S] = g[a] + g[b] + g[c]
    BY <2>1
  <2> QED
    BY <2>2 DEF S
<1>11. CASE z = c
  <2>1. f[S] = g[c] + f[S \ {c}] /\ f[S \ {c}] = g[a] + g[b]
    BY <1>5, <1>6, <1>7, <1>11
  <2> HIDE DEF S
  <2>2. f[S] = g[a] + g[b] + g[c]
    BY <2>1
  <2> QED
    BY <2>2 DEF S
<1> QED
  BY <1>8, <1>9, <1>10, <1>11

\* There is such a fold: three steps from any function reach it.
LEMMA FoldExists ==
  ASSUME NEW a, NEW b, NEW c, NEW g
  PROVE  \E f : f = Folding(g, f, {a, b, c})
<1> DEFINE S == {a, b, c}
<1>1. ASSUME NEW f, NEW s \in SUBSET S
      PROVE  Folding(g, f, S)[s] = IF s = {} THEN 0 ELSE g[FirstOf(s)] + f[s \ {FirstOf(s)}]
  BY DEF Folding
<1>2. PICK F0 : F0 = [s \in SUBSET S |-> 0]
  OBVIOUS
<1>3. PICK F1 : F1 = Folding(g, F0, S)
  OBVIOUS
<1>4. PICK F2 : F2 = Folding(g, F1, S)
  OBVIOUS
<1>5. PICK F3 : F3 = Folding(g, F2, S)
  OBVIOUS
<1> DEFINE alone(s) == \A x \in s : s \ {x} = {}
           two(s) == \A x \in s : alone(s \ {x})
<1>6. F0[{}] = 0 /\ F1[{}] = 0 /\ F2[{}] = 0 /\ F3[{}] = 0
  BY <1>1, <1>2, <1>3, <1>4, <1>5
<1>7. ASSUME NEW s \in SUBSET S, alone(s) PROVE F2[s] = F1[s]
  <2>1. CASE s = {}
    BY <1>6, <2>1
  <2>2. CASE s # {}
    <3>1. PICK x \in s : x = FirstOf(s)
      BY <2>2, FirstIsOne
    <3>2. F2[s] = g[x] + F1[s \ {x}] /\ F1[s] = g[x] + F0[s \ {x}] /\ s \ {x} = {}
      BY <1>1, <1>3, <1>4, <1>7, <2>2, <3>1
    <3> QED
      BY <1>6, <3>2
  <2> QED
    BY <2>1, <2>2
<1>8. ASSUME NEW s \in SUBSET S, two(s) PROVE F3[s] = F2[s]
  <2>1. CASE s = {}
    BY <1>6, <2>1
  <2>2. CASE s # {}
    <3>1. PICK x \in s : x = FirstOf(s)
      BY <2>2, FirstIsOne
    <3>2. F3[s] = g[x] + F2[s \ {x}] /\ F2[s] = g[x] + F1[s \ {x}]
      BY <1>1, <1>4, <1>5, <2>2, <3>1
    <3>3. s \ {x} \in SUBSET S /\ alone(s \ {x})
      BY <1>8
    <3> QED
      BY <1>7, <3>2, <3>3
  <2> QED
    BY <2>1, <2>2
<1>9. ASSUME NEW s \in SUBSET S PROVE F3[s] = Folding(g, F3, S)[s]
  <2>1. CASE s = {}
    BY <1>1, <1>6, <2>1
  <2>2. CASE s # {}
    <3>1. PICK x \in s : x = FirstOf(s)
      BY <2>2, FirstIsOne
    <3>2. F3[s] = g[x] + F2[s \ {x}] /\ Folding(g, F3, S)[s] = g[x] + F3[s \ {x}]
      BY <1>1, <1>5, <2>2, <3>1
    <3>3. s \ {x} \in SUBSET S /\ two(s \ {x})
      OBVIOUS
    <3> QED
      BY <1>8, <3>2, <3>3
  <2> QED
    BY <2>1, <2>2
<1>10. F3 = [s \in SUBSET S |-> F3[s]]
  BY <1>5 DEF Folding
<1>11. Folding(g, F3, S) = [s \in SUBSET S |-> Folding(g, F3, S)[s]]
  BY DEF Folding
<1> QED
  BY <1>9, <1>10, <1>11

\* The links at the source and at the destination.
LEMMA LinksAtEnds ==
  /\ Lab!Touching("s") = {{"s", "d"}, {"s", "m"}, {"s", "n"}}
  /\ Lab!Touching("d") = {{"s", "d"}, {"m", "d"}, {"n", "d"}}
  /\ {"s", "d"} # {"s", "m"} /\ {"s", "d"} # {"s", "n"} /\ {"s", "m"} # {"s", "n"}
  /\ {"s", "d"} # {"m", "d"} /\ {"s", "d"} # {"n", "d"} /\ {"m", "d"} # {"n", "d"}
BY DEF Lab!Touching, LabLink, Hop

\* What left the stores at both ends is what was relayed.
LEMMA PadsArePaid == ASSUME PadsInv PROVE Lab!OnePadPerHop
<1> SUFFICES ASSUME accounting \in {"keys", "stores"}, to = "d", NEW n \in {"s", "d"}
             PROVE  Lab!MapThenSumSet(LAMBDA l : made[l] - stores[l], Lab!Touching(n)) = relayed
  BY DEF Lab!OnePadPerHop
<1> DEFINE gone(l) == made[l] - stores[l]
<1>1. /\ \A l \in LabLink : gone(l) \in Int
      /\ Leaving("s") = relayed /\ Leaving("d") = relayed
  BY DEF PadsInv
<1>2. PICK a, b, c : /\ Lab!Touching(n) = {a, b, c} /\ a # b /\ a # c /\ b # c
                     /\ gone(a) \in Int /\ gone(b) \in Int /\ gone(c) \in Int
                     /\ gone(a) + gone(b) + gone(c) = relayed
  <2>1. CASE n = "s"
    <3>1. gone({"s", "d"}) + gone({"s", "m"}) + gone({"s", "n"}) = relayed
      BY <1>1 DEF Leaving
    <3>2. gone({"s", "d"}) \in Int /\ gone({"s", "m"}) \in Int /\ gone({"s", "n"}) \in Int
      BY <1>1, LabLinks
    <3>3. Lab!Touching(n) = {{"s", "d"}, {"s", "m"}, {"s", "n"}}
      BY <2>1, LinksAtEnds
    <3> HIDE DEF gone
    <3> QED
      BY <3>1, <3>2, <3>3, LinksAtEnds, Zenon
  <2>2. CASE n = "d"
    <3>1. gone({"s", "d"}) + gone({"m", "d"}) + gone({"n", "d"}) = relayed
      BY <1>1 DEF Leaving
    <3>2. gone({"s", "d"}) \in Int /\ gone({"m", "d"}) \in Int /\ gone({"n", "d"}) \in Int
      BY <1>1, LabLinks
    <3>3. Lab!Touching(n) = {{"s", "d"}, {"m", "d"}, {"n", "d"}}
      BY <2>2, LinksAtEnds
    <3> HIDE DEF gone
    <3> QED
      BY <3>1, <3>2, <3>3, LinksAtEnds, Zenon
  <2> QED
    BY <2>1, <2>2
<1> DEFINE S == Lab!Touching(n)
           folded(f) == [s \in SUBSET S |->
             IF s = {} THEN 0
             ELSE gone(CHOOSE x \in s : TRUE) + f[s \ {CHOOSE x \in s : TRUE}]]
           sum == CHOOSE f : f = folded(f)
<1>3. Lab!MapThenSumSet(LAMBDA l : made[l] - stores[l], Lab!Touching(n)) = sum[S]
  BY DEF Lab!MapThenSumSet, Lab!MapThenFoldSet
<1>4. PICK g : g = [l \in S |-> gone(l)]
  OBVIOUS
<1>5. \A f : folded(f) = Folding(g, f, S)
  <2>1. \A s \in SUBSET S : s # {} => g[FirstOf(s)] = gone(FirstOf(s))
    BY <1>4, FirstIsOne
  <2> QED
    BY <2>1 DEF Folding, FirstOf
<1>6. sum = folded(sum)
  <2>1. PICK f : f = Folding(g, f, {a, b, c})
    BY FoldExists
  <2>2. f = folded(f)
    BY <1>2, <1>5, <2>1
  <2> HIDE DEF folded
  <2> QED
    BY <2>2
<1> HIDE DEF sum, folded
<1>7. PICK f : f = sum /\ f = Folding(g, f, {a, b, c})
  BY <1>2, <1>5, <1>6
<1>8. /\ g[a] = gone(a) /\ g[b] = gone(b) /\ g[c] = gone(c)
      /\ g[a] \in Int /\ g[b] \in Int /\ g[c] \in Int
  BY <1>2, <1>4
<1> HIDE DEF gone
<1>9. f[{a, b, c}] = g[a] + g[b] + g[c]
  <2>1. FoldsThree(f, g, a, b, c)
    BY <1>2, <1>7, <1>8 DEF FoldsThree
  <2>2. GivesTheSum(f, g, a, b, c)
    BY <2>1, FoldOfThree
  <2> QED
    BY <2>2 DEF GivesTheSum
<1>10. sum[S] = relayed
  BY <1>2, <1>7, <1>8, <1>9
<1> QED
  BY <1>3, <1>10

-----------------------------------------------------------------------------
(* The key managers of the protocol lab.  What makes their properties      *)
(* inductive: a side was given exactly the chunks that its stream calls    *)
(* delivered, those are chunks the stream has, and a stream that one side  *)
(* alone opened never had any.                                             *)

StreamRecords ==
  [state : {"PENDING_PEER", "ESTABLISHED", "CLOSING", "CLOSED"},
   opened : SUBSET Streams!Side, closed : SUBSET Streams!Side,
   chunks : 0 .. MaxChunks, delivered : [Streams!Side -> SUBSET (0 .. MaxChunks - 1)]]

StreamHolds(s) ==
  /\ s.opened # {} /\ (s.state = "CLOSED") = (s.closed = Streams!Side)
  /\ s.state = "CLOSED" => s.chunks = 0
  /\ s.state # "CLOSED" =>
       \A side \in Streams!Side : s.delivered[side] \subseteq 0 .. s.chunks - 1
  /\ s.opened # Streams!Side =>
       /\ s.state # "ESTABLISHED" /\ s.chunks = 0
       /\ \A side \in Streams!Side : s.delivered[side] = {}

HandedHolds(side, c) ==
  /\ handed[side][c] \in {0, 1}
  /\ c.id \notin used => handed[side][c] = 0
  /\ Streams!Has(c.id) =>
       (handed[side][c] = 1) = (c.index \in streams[c.id].delivered[side])

StreamsInv ==
  /\ Streams!TypeOK
  /\ \A id \in Ksid : Streams!Has(id) => id \in used /\ StreamHolds(streams[id])
  /\ \A side \in Streams!Side, c \in Streams!Chunk : HandedHolds(side, c)
  /\ Streams!CounterIsGranted

\* Every set of numbers has a least one, and Min of FiniteSetsExt is it.
LEMMA LeastOfNumbers ==
  ASSUME NEW S \in SUBSET Nat, S # {}
  PROVE  /\ Streams!Min(S) \in S
         /\ \A y \in S : Streams!Min(S) <= y
<1>1. PICK R : R = {ss \in Nat \X Nat : ss[1] < ss[2]}
  OBVIOUS
<1>2. IsWellFoundedOn(R, Nat)
  BY <1>1, NatLessThanWellFounded DEF OpToRel
<1>3. PICK x \in S : \A y \in S : ~ (<<y, x>> \in R)
  BY <1>2, WFMin
<1>4. ASSUME NEW y \in S PROVE x <= y
  <2>1. <<y, x>> \in Nat \X Nat /\ <<y, x>>[1] = y /\ <<y, x>>[2] = x
    OBVIOUS
  <2>2. y < x => <<y, x>> \in R
    BY <1>1, <2>1
  <2> QED
    BY <1>3, <2>2
<1> QED
  BY <1>4 DEF Streams!Min

\* nextFor() finds a chunk as long as one is undelivered.
LEMMA NextIsFound ==
  ASSUME StreamsInv, NEW id \in Ksid, NEW side \in Streams!Side,
         Streams!Has(id), streams[id].state # "CLOSED", Streams!Undelivered(side, id) > 0
  PROVE  Streams!Readable(side, id, Streams!NextFor(side, id))
<1>1. PICK d : d = streams[id].delivered[side]
  OBVIOUS
<1>2. PICK n : n = streams[id].chunks
  OBVIOUS
<1>3. streams[id] \in StreamRecords /\ StreamHolds(streams[id])
  BY DEF StreamsInv, Streams!TypeOK, Streams!Has, StreamRecords
<1>4. n \in 0 .. MaxChunks /\ MaxChunks \in Nat /\ d \in SUBSET (0 .. n - 1)
  BY <1>1, <1>2, <1>3, StreamsAssumption DEF StreamRecords, StreamHolds
<1>5. Streams!Cardinality(d) = Cardinality(d)
  BY DEF Streams!Cardinality, Cardinality
<1>6. n - Cardinality(d) > 0
  BY <1>1, <1>2, <1>5 DEF Streams!Undelivered
<1>7. d # 0 .. n - 1
  <2>1. Cardinality(0 .. n - 1) = n
    BY <1>4, FS_Interval
  <2> QED
    BY <1>4, <1>6, <2>1
<1>8. PICK i \in 0 .. n - 1 : i \notin d
  BY <1>4, <1>7
<1>9. PICK S : S = 0 .. MaxChunks \ d
  OBVIOUS
<1>10. S \in SUBSET Nat /\ i \in S
  BY <1>4, <1>8, <1>9
<1>11. PICK m : m = Streams!Min(S)
  OBVIOUS
<1>12. m \in S /\ m <= i
  BY <1>10, <1>11, LeastOfNumbers
<1>13. m < n /\ m \notin d
  BY <1>4, <1>8, <1>9, <1>12
<1> QED
  BY <1>1, <1>2, <1>9, <1>11, <1>13 DEF Streams!Readable, Streams!NextFor

\* A counter-proposal is in whole keys and within the rate of its route, so the
\* manager has nothing to change when it is asked for.
LEMMA CounterMeets ==
  ASSUME NEW qos \in Streams!QoS, NEW bps \in {None} \cup Rates
  PROVE  Streams!Met(Streams!Counter(qos, bps), bps)
<1> USE StreamsAssumption
<1>1. qos.size \in Nat /\ qos.rate \in Nat
  BY DEF Streams!QoS
<1>2. PICK c : c = Streams!Counter(qos, bps)
  OBVIOUS
<1>3. ASSUME NEW q \in Nat PROVE (q * Key) % Key = 0 /\ q * Key \in Nat
  OBVIOUS
<1>4. ASSUME NEW size \in Nat PROVE Streams!Whole(size) \in Nat \ {0} /\ Streams!Whole(size) % Key = 0
  <2>1. PICK q \in Nat : q = (2 * size + Key) \div (2 * Key)
    OBVIOUS
  <2>2. PICK k : k = q * Key
    OBVIOUS
  <2>3. k \in Nat /\ k % Key = 0
    BY <1>3, <2>2
  <2>4. PICK m : m = IF k >= Key THEN k ELSE Key
    OBVIOUS
  <2>5. m \in {Key, k} /\ \A y \in {Key, k} : m >= y
    BY <2>3, <2>4
  <2>6. ASSUME NEW x \in {Key, k}, \A y \in {Key, k} : x >= y PROVE x = m
    BY <2>3, <2>5, <2>6
  <2>7. Streams!Max({Key, k}) = m
    BY <2>5, <2>6 DEF Streams!Max
  <2>8. m \in Nat \ {0}
    BY <2>3, <2>4
  <2>9. Key % Key = 0
    OBVIOUS
  <2> QED
    BY <2>1, <2>2, <2>3, <2>4, <2>7, <2>8, <2>9 DEF Streams!Whole
<1>5. c.size \in Nat \ {0} /\ c.size % Key = 0
  <2>1. Key % Key = 0
    OBVIOUS
  <2>2. c.size = IF qos.size = 0 THEN Key
                 ELSE IF qos.size % Key = 0 THEN qos.size ELSE Streams!Whole(qos.size)
    BY <1>2 DEF Streams!Counter
  <2> QED
    BY <1>1, <1>4, <2>1, <2>2
<1>6. c.rate = IF bps # None /\ qos.rate > bps THEN bps ELSE qos.rate
  BY <1>2 DEF Streams!Counter
<1>7. c.rate = IF bps # None /\ c.rate > bps THEN bps ELSE c.rate
  BY <1>1, <1>6
<1>8. c = [size |-> c.size, rate |-> c.rate, json |-> TRUE]
  BY <1>2 DEF Streams!Counter
<1>9. Streams!Counter(c, bps) = [size |-> c.size, rate |-> c.rate, json |-> TRUE]
  BY <1>5, <1>7 DEF Streams!Counter
<1>10. [c EXCEPT !.size = IF @ = 0 THEN Key ELSE @] = c
  BY <1>5, <1>8
<1> QED
  BY <1>2, <1>8, <1>9, <1>10 DEF Streams!Met

LEMMA StreamsStart == Streams!Init => StreamsInv
<1> SUFFICES ASSUME Streams!Init PROVE StreamsInv
  OBVIOUS
<1>1. Streams!TypeOK
  BY DEF Streams!Init, Streams!TypeOK
<1>2. \A id \in Ksid : ~Streams!Has(id)
  BY DEF Streams!Init, Streams!Has
<1>3. ASSUME NEW side \in Streams!Side, NEW c \in Streams!Chunk PROVE HandedHolds(side, c)
  <2>1. handed[side][c] = 0
    BY DEF Streams!Init
  <2>2. c.id \in Ksid
    BY DEF Streams!Chunk
  <2> QED
    BY <1>2, <2>1, <2>2 DEF HandedHolds
<1>4. Streams!CounterIsGranted
  BY DEF Streams!Init, Streams!CounterIsGranted
<1> QED
  BY <1>1, <1>2, <1>3, <1>4 DEF StreamsInv

\* A call that changes one stream, or gives it its id, and delivers nothing.
LEMMA StreamChanges ==
  ASSUME StreamsInv, NEW id \in Ksid, NEW d \in StreamRecords, StreamHolds(d),
         streams' = [streams EXCEPT ![id] = d], used' = used \cup {id},
         joined' = joined, handed' = handed, counter' = None,
         \/ Streams!Has(id) /\ d.delivered = streams[id].delivered
         \/ id \notin used /\ \A side \in Streams!Side : d.delivered[side] = {}
  PROVE  StreamsInv'
<1>1. Streams!TypeOK'
  BY DEF StreamsInv, Streams!TypeOK, StreamRecords
<1>2. \A i \in Ksid : streams'[i] = IF i = id THEN d ELSE streams[i]
  BY DEF StreamsInv, Streams!TypeOK
<1>3. ASSUME NEW i \in Ksid, Streams!Has(i)' PROVE i \in used' /\ StreamHolds(streams[i])'
  BY <1>2, <1>3 DEF StreamsInv, Streams!Has, StreamHolds
<1>4. ASSUME NEW side \in Streams!Side, NEW c \in Streams!Chunk PROVE HandedHolds(side, c)'
  <2>1. c.id \in Ksid
    BY DEF Streams!Chunk
  <2>2. HandedHolds(side, c)
    BY DEF StreamsInv
  <2> QED
    BY <1>2, <2>1, <2>2 DEF HandedHolds, Streams!Has
<1>5. Streams!CounterIsGranted'
  BY DEF Streams!CounterIsGranted
<1>6. Streams!Chunk' = Streams!Chunk /\ Streams!Side' = Streams!Side
  BY DEF Streams!Chunk, Streams!Side
<1> QED
  BY <1>1, <1>3, <1>4, <1>5, <1>6 DEF StreamsInv

\* The streams stay as they are, and a counter-proposal is one that is granted.
LEMMA StreamsStay ==
  ASSUME StreamsInv, UNCHANGED <<streams, used, handed>>,
         joined' \in {Down, None} \cup Rates, Streams!CounterIsGranted'
  PROVE  StreamsInv'
<1>1. Streams!TypeOK'
  BY DEF StreamsInv, Streams!TypeOK
<1>2. ASSUME NEW i \in Ksid, Streams!Has(i)' PROVE i \in used' /\ StreamHolds(streams[i])'
  BY <1>2 DEF StreamsInv, Streams!Has, StreamHolds
<1>3. ASSUME NEW side \in Streams!Side, NEW c \in Streams!Chunk PROVE HandedHolds(side, c)'
  BY DEF StreamsInv, HandedHolds, Streams!Has
<1> QED
  BY <1>1, <1>2, <1>3 DEF StreamsInv

\* A delivered chunk was not given to this side before.
LEMMA StreamDelivers ==
  ASSUME StreamsInv, NEW id \in Ksid, NEW side \in Streams!Side,
         NEW index \in 0 .. MaxChunks - 1 \cup {None}, Streams!GetKey(side, id, index)
  PROVE  StreamsInv'
<1>1. PICK s : s = streams[id]
  OBVIOUS
<1>2. PICK want : want = IF index = None THEN Streams!NextFor(side, id) ELSE index
  OBVIOUS
<1>3. s \in StreamRecords /\ StreamHolds(s) /\ id \in used
  BY <1>1 DEF StreamsInv, Streams!TypeOK, Streams!GetKey, Streams!Has, StreamRecords
<1>4. /\ want < s.chunks /\ want \notin s.delivered[side] /\ s.state \notin {"CLOSED", "PENDING_PEER"}
      /\ streams' = [streams EXCEPT ![id].delivered[side] = @ \cup {want}]
      /\ handed' = [handed EXCEPT ![side][[id |-> id, index |-> want]] = @ + 1]
      /\ counter' = None /\ used' = used /\ joined' = joined
  BY <1>1, <1>2 DEF Streams!GetKey, Streams!Readable
<1>5. want \in Nat
  <2>1. CASE index = None
    <3>1. PICK S : S = 0 .. MaxChunks \ s.delivered[side]
      OBVIOUS
    <3>2. /\ s.delivered[side] \in SUBSET (0 .. MaxChunks - 1) /\ MaxChunks \in Nat
      BY <1>3, StreamsAssumption DEF StreamRecords
    <3>3. MaxChunks \in S /\ S \in SUBSET Nat
      BY <3>1, <3>2
    <3>4. Streams!Min(S) \in S
      BY <3>3, LeastOfNumbers
    <3> QED
      BY <1>1, <1>2, <2>1, <3>1, <3>3, <3>4 DEF Streams!NextFor
  <2>2. CASE index # None
    BY <1>2, <2>2, StreamsAssumption
  <2> QED
    BY <2>1, <2>2
<1>6. s.chunks \in 0 .. MaxChunks /\ want \in 0 .. s.chunks - 1 /\ want \in 0 .. MaxChunks - 1
  BY <1>3, <1>4, <1>5, StreamsAssumption DEF StreamRecords
<1>7. PICK c0 : c0 = [id |-> id, index |-> want]
  OBVIOUS
<1>8. c0 \in Streams!Chunk /\ c0.id = id /\ c0.index = want
  BY <1>6, <1>7 DEF Streams!Chunk
<1>9. \A c \in Streams!Chunk : c.id = id /\ c.index = want => c = c0
  BY <1>7 DEF Streams!Chunk
<1>10. PICK dd : dd = [s.delivered EXCEPT ![side] = @ \cup {want}]
  OBVIOUS
<1>11. /\ dd \in [Streams!Side -> SUBSET (0 .. MaxChunks - 1)]
       /\ \A x \in Streams!Side : dd[x] = IF x = side THEN s.delivered[x] \cup {want} ELSE s.delivered[x]
  BY <1>3, <1>6, <1>10 DEF StreamRecords
<1>12. PICK d : d = [s EXCEPT !.delivered = dd]
  OBVIOUS
<1>13. d \in StreamRecords
  BY <1>3, <1>11, <1>12, Zenon DEF StreamRecords
<1>14. /\ d.state = s.state /\ d.opened = s.opened /\ d.closed = s.closed
       /\ d.chunks = s.chunks /\ d.delivered = dd
  BY <1>3, <1>12 DEF StreamRecords
<1>15. streams' = [streams EXCEPT ![id] = d]
  BY <1>1, <1>4, <1>10, <1>12
<1>16. StreamHolds(d)
  BY <1>3, <1>4, <1>6, <1>11, <1>14 DEF StreamHolds
<1>17. \A i \in Ksid : streams'[i] = IF i = id THEN d ELSE streams[i]
  BY <1>15 DEF StreamsInv, Streams!TypeOK
<1>18. handed[side][c0] = 0
  <2>1. HandedHolds(side, c0)
    BY <1>8 DEF StreamsInv
  <2>2. Streams!Has(id)
    BY DEF Streams!GetKey
  <2> QED
    BY <1>1, <1>4, <1>8, <2>1, <2>2 DEF HandedHolds
<1>19. /\ handed' \in [Streams!Side -> [Streams!Chunk -> Nat]]
       /\ handed'[side][c0] = 1
       /\ \A x \in Streams!Side, c \in Streams!Chunk :
            x # side \/ c # c0 => handed'[x][c] = handed[x][c]
  <2>1. handed \in [Streams!Side -> [Streams!Chunk -> Nat]]
    BY DEF StreamsInv, Streams!TypeOK
  <2>2. PICK h : h = [handed[side] EXCEPT ![c0] = @ + 1]
    OBVIOUS
  <2>3. h \in [Streams!Chunk -> Nat] /\ h[c0] = 1
    BY <1>8, <1>18, <2>1, <2>2
  <2>4. \A c \in Streams!Chunk : c # c0 => h[c] = handed[side][c]
    BY <2>1, <2>2
  <2>5. handed' = [handed EXCEPT ![side] = h]
    BY <1>4, <1>7, <2>2
  <2> QED
    BY <2>1, <2>3, <2>4, <2>5
<1>20. Streams!TypeOK'
  <2>1. streams \in [Ksid -> StreamRecords \cup {None}]
    BY DEF StreamsInv, Streams!TypeOK, StreamRecords
  <2>2. streams' \in [Ksid -> StreamRecords \cup {None}]
    BY <1>13, <1>15, <2>1
  <2>3. used' \subseteq Ksid /\ joined' \in {Down, None} \cup Rates
    BY <1>4 DEF StreamsInv, Streams!TypeOK
  <2> QED
    BY <1>19, <2>2, <2>3 DEF Streams!TypeOK, StreamRecords
<1>21. ASSUME NEW i \in Ksid, Streams!Has(i)' PROVE i \in used' /\ StreamHolds(streams[i])'
  <2>1. CASE i = id
    <3>1. streams'[i] = d
      BY <1>17, <2>1
    <3>2. StreamHolds(streams'[i])
      BY <1>16, <3>1
    <3> QED
      BY <1>3, <1>4, <2>1, <3>2 DEF StreamHolds
  <2>2. CASE i # id
    BY <1>4, <1>17, <1>21, <2>2 DEF StreamsInv, Streams!Has, StreamHolds
  <2> QED
    BY <2>1, <2>2
<1>22. ASSUME NEW x \in Streams!Side, NEW c \in Streams!Chunk PROVE HandedHolds(x, c)'
  <2>1. c.id \in Ksid
    BY DEF Streams!Chunk
  <2>2. HandedHolds(x, c)
    BY DEF StreamsInv
  <2>3. Streams!Has(id)
    BY DEF Streams!GetKey
  <2>4. CASE x = side /\ c = c0
    <3>1. handed'[x][c] = 1 /\ c.id \in used'
      BY <1>3, <1>4, <1>8, <1>19, <2>4
    <3>2. streams'[c.id].delivered[x] = dd[side] /\ c.index = want
      BY <1>8, <1>14, <1>17, <2>4
    <3>3. c.index \in streams'[c.id].delivered[x]
      BY <1>11, <3>2
    <3> QED
      BY <3>1, <3>3 DEF HandedHolds
  <2>5. CASE x # side \/ c # c0
    <3>1. handed'[x][c] = handed[x][c]
      BY <1>19, <2>5
    <3>2. CASE c.id # id
      BY <1>4, <1>17, <2>1, <2>2, <3>1, <3>2 DEF HandedHolds, Streams!Has
    <3>3. CASE c.id = id
      <4>1. (c.index \in dd[x]) = (c.index \in s.delivered[x])
        BY <1>9, <1>11, <2>5, <3>3
      <4> QED
        BY <1>1, <1>3, <1>4, <1>14, <1>17, <2>2, <2>3, <3>1, <3>3, <4>1
           DEF HandedHolds, Streams!Has
    <3> QED
      BY <3>2, <3>3
  <2> QED
    BY <2>4, <2>5
<1>23. Streams!CounterIsGranted'
  BY <1>4 DEF Streams!CounterIsGranted
<1>24. Streams!Chunk' = Streams!Chunk /\ Streams!Side' = Streams!Side
  BY DEF Streams!Chunk, Streams!Side
<1> QED
  BY <1>20, <1>21, <1>22, <1>23, <1>24 DEF StreamsInv

\* Each call, and a change of the route, keeps the invariant.
LEMMA StreamsStep == StreamsInv /\ [Streams!Next]_(Streams!vars) => StreamsInv'
<1> SUFFICES ASSUME StreamsInv, [Streams!Next]_(Streams!vars) PROVE StreamsInv'
  OBVIOUS
<1>1. /\ streams \in [Ksid -> StreamRecords \cup {None}]
      /\ used \subseteq Ksid /\ joined \in {Down, None} \cup Rates
  BY DEF StreamsInv, Streams!TypeOK, StreamRecords
<1>2. ASSUME NEW id \in Ksid, Streams!Has(id)
      PROVE  streams[id] \in StreamRecords /\ StreamHolds(streams[id]) /\ used = used \cup {id}
  BY <1>1, <1>2 DEF StreamsInv, Streams!Has
<1>3. ASSUME NEW side \in Streams!Side, NEW qos \in Streams!QoS, Streams!OpenNew(side, qos)
      PROVE  StreamsInv'
  <2>1. PICK d : d = [state |-> "PENDING_PEER", opened |-> {side}, closed |-> {},
                      chunks |-> 0, delivered |-> [x \in Streams!Side |-> {}]]
    OBVIOUS
  <2>2. PICK id \in Ksid \ used : used' = used \cup {id} /\ streams' = [streams EXCEPT ![id] = d]
    BY <1>3, <2>1 DEF Streams!OpenNew
  <2>3. 0 \in 0 .. MaxChunks
    BY StreamsAssumption
  <2>4. d \in StreamRecords
    BY <2>1, <2>3 DEF StreamRecords
  <2>5. StreamHolds(d) /\ \A x \in Streams!Side : d.delivered[x] = {}
    BY <2>1 DEF StreamHolds, Streams!Side
  <2>6. joined' = joined /\ handed' = handed /\ counter' = None
    BY <1>3 DEF Streams!OpenNew
  <2> QED
    BY <2>2, <2>4, <2>5, <2>6, StreamChanges
<1>4. ASSUME NEW qos \in Streams!QoS, Streams!Propose(qos) PROVE StreamsInv'
  <2>1. joined \in {None} \cup Rates
    BY <1>1, <1>4 DEF Streams!Propose
  <2>2. Streams!Met(Streams!Counter(qos, joined), joined)
    BY <2>1, CounterMeets
  <2>3. Streams!CounterIsGranted'
    BY <1>4, <2>2 DEF Streams!Propose, Streams!CounterIsGranted, Streams!Met, Streams!Counter
  <2> QED
    BY <1>1, <1>4, <2>3, StreamsStay DEF Streams!Propose
<1>5. ASSUME NEW side \in Streams!Side, NEW id \in Ksid, Streams!Join(side, id) PROVE StreamsInv'
  <2>1. PICK s : s = streams[id]
    OBVIOUS
  <2>2. s \in StreamRecords /\ StreamHolds(s) /\ used = used \cup {id} /\ Streams!Has(id)
    BY <1>2, <1>5, <2>1 DEF Streams!Join
  <2>3. PICK d : d = [s EXCEPT !.opened = @ \cup {side}, !.state = "ESTABLISHED"]
    OBVIOUS
  <2>4. s.state # "CLOSED" /\ side \notin s.opened
    BY <1>5, <2>1 DEF Streams!Join
  <2>5. s.opened \cup {side} = Streams!Side
    BY <2>2, <2>4 DEF StreamHolds, StreamRecords, Streams!Side
  <2>6. /\ d.opened = Streams!Side /\ d.state = "ESTABLISHED" /\ d.closed = s.closed
        /\ d.chunks = s.chunks /\ d.delivered = s.delivered
    BY <2>2, <2>3, <2>5 DEF StreamRecords
  <2>7. d \in StreamRecords
    BY <2>2, <2>3, <2>5, Zenon DEF StreamRecords
  <2>8. StreamHolds(d)
    BY <2>2, <2>4, <2>6 DEF StreamHolds, Streams!Side
  <2>9. streams' = [streams EXCEPT ![id] = d]
    BY <1>5, <2>1, <2>3 DEF Streams!Join
  <2> QED
    BY <1>5, <2>1, <2>2, <2>6, <2>7, <2>8, <2>9, StreamChanges DEF Streams!Join
<1>6. ASSUME NEW side \in Streams!Side, NEW id \in Ksid, Streams!Close(side, id) PROVE StreamsInv'
  <2>1. PICK s : s = streams[id]
    OBVIOUS
  <2>2. s \in StreamRecords /\ StreamHolds(s) /\ used = used \cup {id} /\ Streams!Has(id)
    BY <1>2, <1>6, <2>1 DEF Streams!Close
  <2>3. Streams!Other(side) \in Streams!Side /\ Streams!Other(side) # side
    BY DEF Streams!Other, Streams!Side
  <2>4. PICK last_ : last_ = [s EXCEPT !.closed = Streams!Side, !.state = "CLOSED", !.chunks = 0]
    OBVIOUS
  <2>5. PICK first : first = [s EXCEPT !.closed = @ \cup {side}, !.state = "CLOSING"]
    OBVIOUS
  <2>6. PICK d : d = IF Streams!Other(side) \in s.closed THEN last_ ELSE first
    OBVIOUS
  <2>7. streams' = [streams EXCEPT ![id] = d]
    BY <1>6, <2>1, <2>4, <2>5, <2>6 DEF Streams!Close
  <2>8. 0 \in 0 .. MaxChunks /\ s.closed \cup {side} \in SUBSET Streams!Side
    BY <2>2, StreamsAssumption DEF StreamRecords
  <2>9. last_ \in StreamRecords /\ first \in StreamRecords
    BY <2>2, <2>4, <2>5, <2>8, Zenon DEF StreamRecords
  <2>10. /\ last_.closed = Streams!Side /\ last_.state = "CLOSED" /\ last_.chunks = 0
         /\ last_.opened = s.opened /\ last_.delivered = s.delivered
    BY <2>2, <2>4 DEF StreamRecords
  <2>11. /\ first.closed = s.closed \cup {side} /\ first.state = "CLOSING" /\ first.chunks = s.chunks
         /\ first.opened = s.opened /\ first.delivered = s.delivered
    BY <2>2, <2>5 DEF StreamRecords
  <2>12. s.state # "CLOSED"
    BY <1>6, <2>1 DEF Streams!Close
  <2>13. StreamHolds(last_)
    BY <2>2, <2>10 DEF StreamHolds
  <2>14. Streams!Other(side) \notin s.closed => StreamHolds(first)
    BY <2>2, <2>3, <2>11, <2>12 DEF StreamHolds
  <2>15. d \in StreamRecords /\ StreamHolds(d) /\ d.delivered = s.delivered
    BY <2>6, <2>9, <2>10, <2>11, <2>13, <2>14
  <2> QED
    BY <1>6, <2>1, <2>2, <2>7, <2>15, StreamChanges DEF Streams!Close
<1>7. ASSUME NEW id \in Ksid, Streams!Supply(id) PROVE StreamsInv'
  <2>1. PICK s : s = streams[id]
    OBVIOUS
  <2>2. s \in StreamRecords /\ StreamHolds(s) /\ used = used \cup {id} /\ Streams!Has(id)
    BY <1>2, <1>7, <2>1 DEF Streams!Supply
  <2>3. s.state = "ESTABLISHED" /\ s.chunks < MaxChunks /\ s.chunks \in 0 .. MaxChunks
    BY <1>7, <2>1, <2>2 DEF Streams!Supply, StreamRecords
  <2>4. PICK d : d = [s EXCEPT !.chunks = @ + 1]
    OBVIOUS
  <2>5. s.chunks + 1 \in 0 .. MaxChunks
    BY <2>3, StreamsAssumption
  <2>6. d \in StreamRecords
    BY <2>2, <2>4, <2>5, Zenon DEF StreamRecords
  <2>7. /\ d.chunks = s.chunks + 1 /\ d.state = s.state /\ d.closed = s.closed
        /\ d.opened = s.opened /\ d.delivered = s.delivered
    BY <2>2, <2>4 DEF StreamRecords
  <2>8. 0 .. s.chunks - 1 \subseteq 0 .. (s.chunks + 1) - 1
    BY <2>3, StreamsAssumption
  <2>9. StreamHolds(d)
    BY <2>2, <2>3, <2>7, <2>8 DEF StreamHolds
  <2>10. streams' = [streams EXCEPT ![id] = d]
    BY <1>7, <2>1, <2>4 DEF Streams!Supply
  <2> QED
    BY <1>7, <2>1, <2>2, <2>6, <2>7, <2>9, <2>10, StreamChanges DEF Streams!Supply
<1>8. ASSUME NEW side \in Streams!Side, NEW id \in Ksid,
             NEW index \in 0 .. MaxChunks - 1 \cup {None}, Streams!GetKey(side, id, index)
      PROVE  StreamsInv'
  BY <1>8, StreamDelivers
<1>9. ASSUME Streams!Clear PROVE StreamsInv'
  <2>1. \A i \in Ksid : ~Streams!Has(i)'
    BY <1>9 DEF Streams!Clear, Streams!Has
  <2>2. Streams!TypeOK'
    BY <1>9 DEF Streams!Clear, StreamsInv, Streams!TypeOK
  <2>3. ASSUME NEW side \in Streams!Side, NEW c \in Streams!Chunk PROVE HandedHolds(side, c)'
    <3>1. c.id \in Ksid
      BY DEF Streams!Chunk
    <3>2. handed' = handed /\ used' = used
      BY <1>9 DEF Streams!Clear
    <3> QED
      BY <2>1, <3>1, <3>2 DEF StreamsInv, HandedHolds
  <2>4. Streams!CounterIsGranted'
    BY <1>9 DEF Streams!Clear, Streams!CounterIsGranted
  <2> QED
    BY <2>1, <2>2, <2>3, <2>4 DEF StreamsInv
<1>10. ASSUME Streams!RouteChanges PROVE StreamsInv'
  <2>1. Streams!CounterIsGranted'
    BY <1>10 DEF Streams!RouteChanges, Streams!CounterIsGranted
  <2> QED
    BY <1>10, <2>1, StreamsStay DEF Streams!RouteChanges
<1>11. CASE UNCHANGED Streams!vars
  <2>1. UNCHANGED <<streams, used, joined, counter, handed>>
    BY <1>11 DEF Streams!vars
  <2>2. Streams!CounterIsGranted'
    BY <2>1 DEF StreamsInv, Streams!CounterIsGranted, Streams!Met, Streams!Counter
  <2> QED
    BY <1>1, <2>1, <2>2, StreamsStay
<1> QED
  BY <1>3, <1>4, <1>5, <1>6, <1>7, <1>8, <1>9, <1>10, <1>11 DEF Streams!Next

LEMMA StreamsImply == StreamsInv => Streams!StreamsKeepKeys
<1> SUFFICES ASSUME StreamsInv PROVE Streams!StreamsKeepKeys
  OBVIOUS
<1>1. Streams!GivenOnce
  <2> SUFFICES ASSUME NEW side \in Streams!Side, NEW c \in Streams!Chunk
               PROVE  /\ handed[side][c] <= 1
                      /\ handed[side][c] = 1 /\ Streams!Has(c.id) =>
                           streams[c.id].opened = Streams!Side
    BY DEF Streams!GivenOnce
  <2>1. HandedHolds(side, c) /\ c.id \in Ksid
    BY DEF StreamsInv, Streams!Chunk
  <2>2. Streams!Has(c.id) => StreamHolds(streams[c.id])
    BY <2>1 DEF StreamsInv
  <2>3. handed[side][c] <= 1
    BY <2>1 DEF HandedHolds
  <2>4. handed[side][c] = 1 /\ Streams!Has(c.id) => streams[c.id].opened = Streams!Side
    BY <2>1, <2>2 DEF HandedHolds, StreamHolds
  <2> QED
    BY <2>3, <2>4
<1>2. Streams!NextIsReadable
  BY NextIsFound DEF Streams!NextIsReadable
<1>3. Streams!ClosedByBoth
  BY DEF StreamsInv, StreamHolds, Streams!ClosedByBoth
<1>4. Streams!CounterIsGranted
  BY DEF StreamsInv
<1> QED
  BY <1>1, <1>2, <1>3, <1>4 DEF Streams!StreamsKeepKeys

\* KeysAreAccountedFor: of the lab, every relayed key took one pad of every hop
\* and every request is served or refused, whatever fails meanwhile; of its key
\* managers, a side is given every chunk once, and a stream that both sides
\* closed stays closed.
THEOREM KeysAddUp == Spec => []KeysAreAccountedFor
<1> DEFINE Inv == (part = "lab" => LabInv) /\ (part = "streams" => StreamsInv)
<1>1. Init => Inv
  BY LabStart, StreamsStart DEF Init
<1>2. part = "lab" /\ [Next]_vars => [Lab!Next]_(Lab!vars)
  BY DEF Next, vars, simVars, pageVars, labVars, Lab!vars, Lab!loadVars, Lab!faultVars,
         Lab!storeVars
<1>3. part = "streams" /\ [Next]_vars => [Streams!Next]_(Streams!vars)
  BY DEF Next, vars, simVars, streamVars, Streams!vars
<1>4. [Next]_vars => part' = part
  BY DEF Next, vars
<1>5. Inv /\ [Next]_vars => Inv'
  BY <1>2, <1>3, <1>4, LabStep, StreamsStep
<1>6. Inv => KeysAreAccountedFor
  <2>1. PadsInv => Lab!KeysAreAccountedFor
    BY PadsArePaid DEF PadsInv, Lab!KeysAreAccountedFor
  <2> QED
    BY <2>1, StreamsImply DEF LabInv, KeysAreAccountedFor
<1> HIDE DEF Inv
<1> QED
  BY <1>1, <1>5, <1>6, PTL DEF Spec
=============================================================================
