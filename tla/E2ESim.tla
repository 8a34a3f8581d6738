------------------------------- MODULE E2ESim -------------------------------
(***************************************************************************)
(* The simulator of the page /e2e: a cycle of four steps (quantum plane,   *)
(* ETSI 014 exchange, hybrid derivation, sealing of packets) driven by a   *)
(* timer or by the Step button, in one of three modes, with a layer that   *)
(* the operator may fail and restore at any time.                          *)
(***************************************************************************)
EXTENDS Naturals, FiniteSetsExt

CONSTANTS
  None,
  PoolCapacity   \* KEY_POOL_CAPACITY

\* A: QKD only, B: PQC only, C: hybrid.
Mode == {"A", "B", "C"}
E2ELayer == {"qkd", "pqc", "data"}

VARIABLES
  status, step, mode, failed, fatal, timer,
  pool,     \* alicePool
  qkd,      \* the mode a QKD key was drawn in, None for an empty buffer
  pqc,      \* the same of the PQC secret
  derived,  \* the mode the PSK was derived in, None for an empty buffer
  psk,      \* a prefix of the PSK is on screen
  keyId,    \* an identifier of a QKD key is on screen
  steady    \* history: the failed layer has not changed since the cycle began

keys == <<qkd, pqc, derived, psk, keyId>>
vars == <<status, step, mode, failed, fatal, timer, pool, keys, steady>>

TypeOK ==
  /\ status \in {"idle", "running", "paused", "stepped"} /\ step \in 0 .. 4
  /\ mode \in Mode /\ failed \in E2ELayer \cup {None}
  /\ fatal \in BOOLEAN /\ timer \in BOOLEAN /\ pool \in 0 .. PoolCapacity
  /\ {qkd, pqc, derived} \subseteq Mode \cup {None}
  /\ psk \in BOOLEAN /\ keyId \in BOOLEAN /\ steady \in BOOLEAN

-----------------------------------------------------------------------------
\* failureIsFatal: the failed layer is the mode's only source of keys.
FailureIsFatal(m, layer) ==
  \/ layer = "data"
  \/ layer = "qkd" /\ m = "A"
  \/ layer = "pqc" /\ m = "B"

ClearKeyMaterial ==
  qkd' = None /\ pqc' = None /\ derived' = None /\ psk' = FALSE /\ keyId' = FALSE

\* enter(): a new cycle begins with step 1.
Enter(n) == step' = n /\ steady' = (n = 1 \/ steady)

\* advance(): a running simulation chains into the next cycle, a stepped one
\* does not.
Advance(chains) ==
  IF step = 4
    THEN IF chains THEN Enter(1) ELSE step' = 0 /\ UNCHANGED steady
    ELSE Enter(step + 1)

-----------------------------------------------------------------------------
(* runStepWork(): what step n does to the pool and to the keys.            *)

\* Step 1: the quantum plane deposits a key.
Deposit ==
  /\ pool' = IF failed = "qkd" THEN pool ELSE Min({pool + 1, PoolCapacity})
  /\ UNCHANGED keys

\* Step 2: the ETSI 014 exchange draws one, in the modes that use it.
Exchange ==
  /\ IF failed = "qkd" \/ mode = "B"
       THEN qkd' = None /\ pool' = pool
       ELSE qkd' = mode /\ pool' = Max({0, pool - 1})
  /\ UNCHANGED <<pqc, derived, psk, keyId>>

\* Step 3: the PSK is derived from the keys that are there, if one is.
Derive ==
  /\ pqc' = IF failed = "pqc" \/ mode = "A" THEN None ELSE mode
  /\ derived' = IF qkd = None /\ pqc' = None THEN None ELSE mode
  /\ psk' = (derived' # None)
  /\ UNCHANGED <<pool, qkd, keyId>>

\* Step 4 with nothing to seal with: the run ends.
Halts(n) == n = 4 /\ FailureIsFatal(mode, failed)

\* Step 4 seals with what step 3 left; the AEAD throws on an empty key.
SealThrows(n) == n = 4 /\ ~FailureIsFatal(mode, failed) /\ derived = None

Seal ==
  /\ keyId' = (keyId \/ ~FailureIsFatal(mode, failed))
  /\ UNCHANGED <<pool, qkd, pqc, derived, psk>>

Work(n) ==
  CASE n = 1 -> Deposit
    [] n = 2 -> Exchange
    [] n = 3 -> Derive
    [] n = 4 -> Seal
    [] OTHER -> UNCHANGED <<pool, keys>>

\* The status after the work: a halt is never relabelled.
HaltOr(n, label) ==
  /\ status' = IF Halts(n) THEN "paused" ELSE label
  /\ timer' = (timer /\ ~Halts(n))

\* tick(), when the dwell of the step is over.  A seal that throws leaves the
\* step as it is, and the next tick tries it again.
Tick ==
  /\ timer /\ status = "running" /\ ~SealThrows(step)
  /\ Work(step)
  /\ HaltOr(step, "running")
  /\ Advance(~Halts(step))
  /\ UNCHANGED <<mode, failed, fatal>>

-----------------------------------------------------------------------------
(* The controls, when the page offers them.                                *)

Start ==
  /\ status # "running"
  /\ status' = "running" /\ timer' = TRUE
  /\ IF step = 0 THEN Enter(1) ELSE UNCHANGED <<step, steady>>
  /\ UNCHANGED <<mode, failed, fatal, pool, keys>>

Pause ==
  /\ status = "running"
  /\ status' = "paused" /\ timer' = FALSE
  /\ UNCHANGED <<step, mode, failed, fatal, pool, keys, steady>>

\* At step 0 nothing begins a cycle: the first tick works step 0 and enters 1.
Resume ==
  /\ status = "paused"
  /\ status' = "running" /\ timer' = TRUE
  /\ UNCHANGED <<step, mode, failed, fatal, pool, keys, steady>>

\* Mode and packets per cycle survive.
Reset ==
  /\ status' = "idle" /\ step' = 0 /\ timer' = FALSE
  /\ failed' = None /\ fatal' = FALSE /\ pool' = 0
  /\ ClearKeyMaterial
  /\ UNCHANGED <<mode, steady>>

\* The failed layer and the pool survive.
Abort ==
  /\ status # "idle"
  /\ status' = "idle" /\ step' = 0 /\ timer' = FALSE
  /\ ClearKeyMaterial
  /\ UNCHANGED <<mode, failed, fatal, pool, steady>>

\* step() at step 0 enters the first step and works it in one press.
Step ==
  /\ status # "running"
  /\ LET n == IF step = 0 THEN 1 ELSE step
         label == IF status = "paused" THEN "paused" ELSE "stepped"
     IN  /\ ~SealThrows(n)
         /\ Work(n)
         /\ HaltOr(n, label)
         /\ IF n = 4 THEN step' = 0 ELSE step' = n + 1
         /\ steady' = (step = 0 \/ steady)
  /\ UNCHANGED <<mode, failed, fatal>>

\* A seal that throws under the button: the label is set, nothing else is.
StepThrows ==
  /\ status # "running" /\ SealThrows(step)
  /\ status' = "stepped"
  /\ UNCHANGED <<step, mode, failed, fatal, timer, pool, keys, steady>>

\* Mutant: the mode may change in the middle of a paused cycle.
SetsModeAnytime(m) ==
  /\ status # "running"
  /\ mode' = m /\ fatal' = FailureIsFatal(m, failed)
  /\ UNCHANGED <<status, step, failed, timer, pool, keys, steady>>

\* Only between two cycles.
SetMode(m) ==
  /\ step = 0
  /\ mode' = m /\ fatal' = FailureIsFatal(m, failed)
  /\ UNCHANGED <<status, step, failed, timer, pool, keys, steady>>

InjectFailure(layer) ==
  /\ failed # layer
  /\ failed' = layer /\ fatal' = FailureIsFatal(mode, layer) /\ steady' = FALSE
  /\ UNCHANGED <<status, step, mode, timer, pool, keys>>

ClearFailure ==
  /\ failed # None
  /\ failed' = None /\ fatal' = FALSE /\ steady' = FALSE
  /\ UNCHANGED <<status, step, mode, timer, pool, keys>>

Init ==
  /\ status = "idle" /\ step = 0 /\ mode = "C" /\ failed = None
  /\ fatal = FALSE /\ timer = FALSE /\ pool = 0
  /\ qkd = None /\ pqc = None /\ derived = None /\ psk = FALSE /\ keyId = FALSE
  /\ steady = TRUE

Next ==
  \/ Tick \/ Start \/ Pause \/ Resume \/ Reset \/ Abort \/ Step \/ StepThrows
  \/ \E m \in Mode : SetMode(m)
  \/ \E layer \in E2ELayer : InjectFailure(layer)
  \/ ClearFailure

Spec == Init /\ [][Next]_vars

-----------------------------------------------------------------------------

\* No cycle mixes two modes: what steps 2 and 3 left for the seal was made in
\* the mode that the seal runs in, and only the legs of that mode.
LegsMatchMode ==
  step = 4 => /\ {qkd, pqc, derived} \subseteq {mode, None}
              /\ mode = "A" => pqc = None
              /\ mode = "B" => qkd = None

\* A cycle during which the failed layer did not change seals with a key that
\* was derived from one, or the page says that it cannot.
SealsWithKey ==
  step = 4 /\ steady => (derived # None) = (fatal => failed = "data")

\* In a cycle without a change of failure the exchange draws a key that the
\* quantum plane deposited.
KeyWasDeposited == step = 2 /\ steady /\ failed # "qkd" => pool >= 1

\* Once aborted or reset, neither the buffers nor the screen hold key material.
IdleHoldsNothing ==
  status = "idle" => {qkd, pqc, derived} = {None} /\ ~psk /\ ~keyId

\* Whatever the order of buttons, ticks, failures and changes of mode, a cycle
\* works with the keys of its mode from the pool to the seal, and leaves none
\* behind when it is broken off (runStepWork, setMode, abort, reset).
CyclesSealOwnKeys == LegsMatchMode /\ SealsWithKey /\ KeyWasDeposited /\ IdleHoldsNothing

=============================================================================
