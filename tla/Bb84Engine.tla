----------------------------- MODULE Bb84Engine -----------------------------
(***************************************************************************)
(* The engine of /bb84: rounds of the protocol simulated by a web worker,  *)
(* then, when one of them is measurably faster, by WebGPU, WebGL2 or WASM. *)
(* The parameters are loaded first, every step of WebGPU and the start of  *)
(* WASM is awaited, and the visitor may leave the page at any moment.      *)
(***************************************************************************)
EXTENDS Naturals

CONSTANTS
  None,
  Rate,          \* pulses per second a tier may reach
  KeyYield,      \* key bits a round that is not aborted distils
  PoolDrain,     \* KEY_POOL_DRAIN_PER_ROUND
  PoolTop        \* KEY_POOL_CAPACITY

VARIABLES
  loaded,     \* the page has the parameters
  left,       \* the visitor has left the page
  eve, cfgEve,  \* the switch of the page, the configuration of the engine
  running,
  worker,     \* the pool of the web worker, None without one
  workerPps,  \* 0 before the worker has reported
  lastPool,   \* the pool size last emitted
  inUse,      \* the tier that was adopted
  tierPool,   \* its pool
  held,       \* the tiers whose device the engine holds
  trials,     \* the record of the tiers
  pass,       \* where the only pass over the tiers is
  basis,      \* the rate of the worker it compares with
  loop,       \* the loop of the adopted tier: its timer, or its round, is pending
  early, late, jumped   \* history

vars == <<loaded, left, eve, cfgEve, running, worker, workerPps, lastPool, inUse,
          tierPool, held, trials, pass, basis, loop, early, late, jumped>>
pageVars == <<loaded, left, eve, cfgEve, early, late>>

Tier == {"gpu", "gl", "wasm"}
Outcome == {"untried", "adopted", "slower", "missing", "threw", "reverted"}

TypeOK ==
  /\ {loaded, left, eve, cfgEve, running, early, jumped} \subseteq BOOLEAN
  /\ worker \in 0 .. PoolTop \cup {None} /\ {lastPool, tierPool} \subseteq 0 .. PoolTop
  /\ {workerPps, basis} \subseteq Rate \cup {0}
  /\ inUse \in Tier \cup {None} /\ held \subseteq {"gpu", "gl"}
  /\ trials \in [Tier -> Outcome]
  /\ pass \in {"none", "timer", "init", "round", "wasm", "over"}
  /\ loop \in {"none", "timer", "round"} /\ late \subseteq {"load", "pass", "round"}

-----------------------------------------------------------------------------

\* Mutant: the pool has no upper bound.
Uncapped(pool, kept) ==
  LET full == pool + (IF kept THEN KeyYield ELSE 0)
  IN IF full < PoolDrain THEN 0 ELSE full - PoolDrain

\* advanceKeyPool: a round that sifted nothing, or is aborted, only drains.
AdvanceKeyPool(pool, kept) ==
  LET full == pool + (IF kept THEN KeyYield ELSE 0)
      rest == IF full < PoolDrain THEN 0 ELSE full - PoolDrain
  IN IF rest > PoolTop THEN PoolTop ELSE rest

Untried == [t \in Tier |-> "untried"]

\* emit, of a round in which key was kept or not.
Emit(pool, kept) ==
  /\ lastPool' = pool
  /\ jumped' = (jumped \/ pool # AdvanceKeyPool(lastPool, kept))

\* startWorker: a new worker begins with an empty pool.
StartWorker == worker' = IF worker = None THEN 0 ELSE worker

\* revertTier: a tier that was adopted and then threw is no longer adopted.
RevertTier(tier) ==
  IF trials[tier] = "adopted" THEN [trials EXCEPT ![tier] = "reverted"] ELSE trials

-----------------------------------------------------------------------------
(* The page.                                                               *)

\* updateEve.
Toggle ==
  /\ ~left
  /\ eve' = ~eve /\ cfgEve' = ~eve
  /\ early' = (early \/ ~loaded)
  /\ UNCHANGED <<loaded, left, running, worker, workerPps, lastPool, inUse, tierPool, held,
                 trials, pass, basis, loop, late, jumped>>

\* The answer of /api/sim/params, or none: the configuration of the engine is
\* set, with the switch as it was at first, and start is called.
Load ==
  /\ ~loaded
  /\ loaded' = TRUE
  /\ cfgEve' = FALSE
  /\ running' = TRUE /\ StartWorker
  /\ pass' = "timer"
  /\ UNCHANGED <<left, eve, workerPps, lastPool, inUse, tierPool, held, trials, basis,
                 loop, early, late, jumped>>

\* History: what is pending at this moment and will go on.
Pending ==
  {x \in {"load", "pass", "round"} :
     \/ x = "load" /\ ~loaded
     \/ x = "pass" /\ pass \in {"init", "round", "wasm"}
     \/ x = "round" /\ loop = "round"}

\* dispose: the timer of the loop is cleared, that of the pass is not.
Leave ==
  /\ ~left
  /\ left' = TRUE /\ late' = Pending
  /\ running' = FALSE /\ worker' = None
  /\ inUse' = None /\ trials' = Untried /\ held' = {}
  /\ loop' = IF loop = "timer" THEN "none" ELSE loop
  /\ UNCHANGED <<loaded, eve, cfgEve, workerPps, lastPool, tierPool, pass, basis, early,
                 jumped>>

WorkerRound(kept, rate) ==
  /\ worker # None
  /\ worker' = AdvanceKeyPool(worker, kept)
  /\ workerPps' = rate
  /\ Emit(worker', kept)
  /\ UNCHANGED <<pageVars, running, inUse, tierPool, held, trials, pass, basis, loop>>

-----------------------------------------------------------------------------
(* tryUpgrade.                                                             *)

\* Its timer fires: nothing to do for an engine that was stopped.
BeginPass ==
  /\ pass = "timer"
  /\ pass' = IF running /\ inUse = None THEN "init" ELSE "over"
  /\ basis' = workerPps
  /\ UNCHANGED <<pageVars, running, worker, workerPps, lastPool, inUse, tierPool, held,
                 trials, loop, jumped>>

\* At least 15 % faster than the worker, which may not have reported yet.
Faster(rate) == 100 * rate >= 115 * (IF basis > 1 THEN basis ELSE 1)

\* How a tier fares: it is missing, it throws, or it reaches a rate.
Verdict == {"missing", "threw", "slower", "adopted"}
MayBe(verdict) ==
  /\ verdict = "adopted" => \E rate \in Rate : Faster(rate)
  /\ verdict = "slower" => \E rate \in Rate : ~Faster(rate)

\* Mutant: the pool of an adopted tier begins at 0.
FromNothing == 0

\* seedPool: an adopted tier continues from the pool that was last shown.
Seed == lastPool

\* adoptGpu, adoptGl, adoptWasm.  Nothing here asks whether the engine still
\* runs, only the loop does.  The first round follows at once; but for WebGPU,
\* which begins it here, it is that of the timer.
Adopt(tier, record) ==
  /\ pass' = "over"
  /\ inUse' = tier /\ worker' = None /\ tierPool' = Seed
  /\ trials' = [record EXCEPT ![tier] = "adopted"]
  /\ held' = held \cup ({tier} \cap {"gpu", "gl"})
  /\ loop' = IF running THEN (IF tier = "gpu" THEN "round" ELSE "timer") ELSE loop
  /\ UNCHANGED <<pageVars, running, workerPps, lastPool, basis, jumped>>

GoOn(record, next) ==
  /\ trials' = record /\ pass' = next
  /\ UNCHANGED <<pageVars, running, worker, workerPps, lastPool, inUse, tierPool, held,
                 basis, loop, jumped>>

\* The device of WebGPU is there; a round on it is awaited.
GpuInit == pass = "init" /\ GoOn(trials, "round")

\* WebGPU has been tried and, when it is not adopted, WebGL2 is at once.
GpuTried(gpu, gl) ==
  /\ \/ pass = "init" /\ gpu \in {"missing", "threw"}
     \/ pass = "round" /\ gpu # "missing"
  /\ MayBe(gpu) /\ MayBe(gl)
  /\ LET record == [trials EXCEPT !["gpu"] = gpu]
     IN CASE gpu = "adopted" -> Adopt("gpu", trials)
          [] gpu # "adopted" /\ gl = "adopted" -> Adopt("gl", record)
          [] OTHER -> GoOn([record EXCEPT !["gl"] = gl], "wasm")

\* Last, WASM.
WasmTried(wasm) ==
  /\ pass = "wasm" /\ MayBe(wasm)
  /\ IF wasm = "adopted" THEN Adopt("wasm", trials)
     ELSE GoOn([trials EXCEPT !["wasm"] = wasm], "over")

-----------------------------------------------------------------------------
(* The loop of the adopted tier.                                           *)

\* The timer of WebGPU fires: the round is awaited.
SubmitRound ==
  /\ loop = "timer" /\ inUse = "gpu"
  /\ loop' = "round"
  /\ UNCHANGED <<pageVars, running, worker, workerPps, lastPool, inUse, tierPool, held,
                 trials, pass, basis, jumped>>

\* A round is over: that of WebGPU was awaited, the others are run by the timer.
TierRound(kept) ==
  /\ loop = (IF inUse \in {"gl", "wasm"} THEN "timer" ELSE "round")
  /\ tierPool' = AdvanceKeyPool(tierPool, kept)
  /\ Emit(tierPool', kept)
  /\ loop' = IF running THEN "timer" ELSE "none"
  /\ UNCHANGED <<pageVars, running, worker, workerPps, inUse, held, trials, pass, basis>>

\* It throws, as the awaited round of a device does that is destroyed: the
\* engine goes back to a worker, whether it runs or not.
TierThrows ==
  /\ loop = (IF inUse \in {"gl", "wasm"} THEN "timer" ELSE "round")
  /\ trials' = IF inUse = None THEN trials ELSE RevertTier(inUse)
  /\ inUse' = None /\ held' = held \ {inUse} /\ loop' = "none"
  /\ StartWorker
  /\ UNCHANGED <<pageVars, running, workerPps, lastPool, tierPool, pass, basis, jumped>>

-----------------------------------------------------------------------------
Init ==
  /\ loaded = FALSE /\ left = FALSE /\ eve = FALSE /\ cfgEve = FALSE /\ running = FALSE
  /\ worker = None /\ workerPps = 0 /\ lastPool = 0
  /\ inUse = None /\ tierPool = 0 /\ held = {} /\ trials = Untried
  /\ pass = "none" /\ basis = 0 /\ loop = "none"
  /\ early = FALSE /\ late = {} /\ jumped = FALSE

Pass ==
  \/ BeginPass \/ GpuInit
  \/ \E gpu, gl \in Verdict : GpuTried(gpu, gl)
  \/ \E wasm \in Verdict : WasmTried(wasm)

Next ==
  \/ Toggle \/ Load \/ Leave
  \/ \E kept \in BOOLEAN : TierRound(kept) \/ \E rate \in Rate : WorkerRound(kept, rate)
  \/ Pass
  \/ SubmitRound \/ TierThrows

Spec == Init /\ [][Next]_vars

-----------------------------------------------------------------------------
(* Properties.                                                             *)

Sources == {x \in {"worker", "tier"} : IF x = "worker" THEN worker # None ELSE loop # "none"}

\* While the page is open exactly one source feeds it, the worker or the tier
\* that the record calls adopted, through adoptions and reverts (tryUpgrade,
\* revertTier): never two charts at once, and never none.
OneSource ==
  loaded /\ ~left =>
    /\ Sources = (IF inUse = None THEN {"worker"} ELSE {"tier"})
    /\ \A t \in Tier : trials[t] = "adopted" <=> t = inUse
    /\ held = {inUse} \cap {"gpu", "gl"}

\* The pool that is shown moves as its rounds do, whichever tier runs them; it
\* falls to that of a new worker only when an adopted tier has failed (emit,
\* adoptGpu, advanceKeyPool).
PoolContinues == jumped /\ ~left => \E t \in Tier : trials[t] = "reverted"

\* Once the page is left and what was pending then is over, no round goes on and
\* no device is held, unless one of the three awaits that ask nothing about it
\* was pending: the parameters, whose answer starts the engine; the pass, which
\* adopts a tier; the round of WebGPU, whose failure starts a worker (dispose).
LeavesNothing ==
  left /\ loaded /\ pass \in {"timer", "over"} =>
    /\ loop = "timer" => "load" \in late
    /\ worker # None => "load" \in late \/ "round" \in late
    /\ held # {} => "load" \in late \/ "pass" \in late

\* The engine simulates the eavesdropper the page says there is, unless the
\* switch was moved before the parameters had come (useEffect).
EveAsShown == eve = cfgEve \/ early

EngineFollowsPage == OneSource /\ PoolContinues /\ LeavesNothing /\ EveAsShown
=============================================================================
