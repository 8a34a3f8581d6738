------------------------------ MODULE PaperSim ------------------------------
(***************************************************************************)
(* The simulator of the page /paper-flow: cycles of five phases, a layer   *)
(* that the operator may fail, which ends the cycle in the layer's phase,  *)
(* and the cascade that the outage goes through while the simulation runs. *)
(***************************************************************************)
EXTENDS Naturals, FiniteSets

CONSTANTS
  None,
  MaxCycles,    \* bound: cycles begun since the last reset
  MaxElapsed,   \* bound: units of cascade time (a unit is 60 s of the code's)
  TickGap,      \* two ticks of the timer are at most this far apart
  MaxGap        \* bound: units of a pause that matter

VARIABLES
  status, phase,
  qkdKey, pqcSecret,   \* the cycle the key was made in, None without one
  total, succeeded,    \* cyclesTotal, cyclesSucceeded
  accepted,            \* cycleAccepted
  failLayer,
  triggered,           \* the cascade's stages with a triggered_at
  elapsed,             \* cascadeElapsedS
  timer,
  since,               \* time since lastTickAt
  ran,                 \* history: time in status running since the injection
  lost                 \* history: cycles since the last reset that failed

cycleVars == <<qkdKey, pqcSecret, total, succeeded, accepted, lost>>
cascadeVars == <<failLayer, triggered, elapsed, ran>>
vars == <<status, phase, cycleVars, cascadeVars, timer, since>>

\* PHASE_OF_LAYER: the phase in which a failed layer is met.
PhaseOf == [qkd |-> 1, arnika |-> 2, wireguard |-> 3, rosenpass |-> 4, data |-> 5]
Layer == DOMAIN PhaseOf

\* CASCADE_STAGES: when and to which layer the outage of the QKD plane spreads.
Stages == <<[at |-> 0, layer |-> "qkd"], [at |-> 3, layer |-> "arnika"],
            [at |-> 4, layer |-> "wireguard"], [at |-> 5, layer |-> "wireguard"],
            [at |-> 6, layer |-> "rosenpass"], [at |-> 7, layer |-> "rosenpass"],
            [at |-> 8, layer |-> "data"], [at |-> 9, layer |-> "data"],
            [at |-> 12, layer |-> "data"]>>

\* The stage that an outage of a layer begins with.
First(layer) ==
  CHOOSE i \in DOMAIN Stages :
    Stages[i].layer = layer /\ \A j \in DOMAIN Stages : Stages[j].layer = layer => i <= j

\* The stages of the cascade under way, and the time from its start to one.
Cascade == IF failLayer = None THEN {} ELSE {i \in DOMAIN Stages : i >= First(failLayer)}
Offset(i) == Stages[i].at - Stages[First(failLayer)].at

\* Key material is kept for as long as the cycle that made it.
TypeOK ==
  /\ status \in {"idle", "running", "paused", "stepped"} /\ phase \in 0 .. 5
  /\ {qkdKey, pqcSecret} \subseteq 1 .. MaxCycles \cup {None}
  /\ {total, succeeded, lost} \subseteq 0 .. MaxCycles
  /\ accepted \in BOOLEAN /\ timer \in BOOLEAN
  /\ failLayer \in Layer \cup {None} /\ triggered \subseteq Cascade
  /\ elapsed \in 0 .. MaxElapsed + MaxGap /\ since \in 0 .. MaxGap
  /\ ran \in 0 .. MaxElapsed + MaxGap

-----------------------------------------------------------------------------
\* Mutant: the keys of the last cycle stay.
BeginsWithOldKeys ==
  /\ total < MaxCycles
  /\ total' = total + 1 /\ accepted' = TRUE /\ phase' = 1
  /\ UNCHANGED <<qkdKey, pqcSecret>>

BeginCycle ==
  /\ total < MaxCycles
  /\ total' = total + 1 /\ accepted' = TRUE /\ phase' = 1
  /\ qkdKey' = None /\ pqcSecret' = None

Fails == failLayer # None /\ PhaseOf[failLayer] = phase

EndsCycle == Fails \/ phase = 5

\* Phase 2 yields the QKD key and phase 4 the PQC secret.
Yields ==
  /\ qkdKey' = IF phase = 2 /\ ~Fails THEN total ELSE qkdKey
  /\ pqcSecret' = IF phase = 4 /\ ~Fails THEN total ELSE pqcSecret

\* runPhase(), under the status after the call; a phase 5 without a secret
\* throws.
RunPhase ==
  /\ phase = 5 /\ ~Fails => pqcSecret # None
  /\ IF EndsCycle
       THEN LET ok == accepted /\ ~Fails IN
            /\ succeeded' = IF ok THEN succeeded + 1 ELSE succeeded
            /\ lost' = IF Fails THEN lost + 1 ELSE lost
            /\ IF status' = "running"
                 THEN BeginCycle
                 ELSE Yields /\ phase' = 0 /\ accepted' = ok /\ UNCHANGED total
       ELSE /\ phase' = phase + 1 /\ Yields
            /\ accepted' = (accepted /\ ~Fails)
            /\ UNCHANGED <<total, succeeded, lost>>

\* advanceCascade(): the time since the last tick is credited, and the stages
\* that it reaches are stamped.
AdvanceCascade ==
  IF failLayer = None
    THEN UNCHANGED cascadeVars
    ELSE /\ elapsed < MaxElapsed
         /\ elapsed' = elapsed + since
         /\ triggered' = triggered \cup {i \in Cascade : Offset(i) <= elapsed'}
         /\ UNCHANGED <<failLayer, ran>>

\* tick(): the cascade moves, and a phase that has dwelt long enough is run.
Tick(dwelt) ==
  /\ timer /\ status = "running"
  /\ AdvanceCascade
  /\ since' = 0
  /\ status' = "running"
  /\ IF dwelt THEN RunPhase ELSE UNCHANGED <<phase, cycleVars>>
  /\ UNCHANGED timer

\* The time that passes before the next tick, or in a pause.
Time ==
  /\ since < IF timer THEN TickGap ELSE MaxGap
  /\ since' = since + 1
  /\ ran < MaxElapsed
  /\ ran' = IF status = "running" /\ failLayer # None THEN ran + 1 ELSE ran
  /\ UNCHANGED <<status, phase, cycleVars, failLayer, triggered, elapsed, timer>>

-----------------------------------------------------------------------------
(* The controls, when the page offers them.                                *)

\* ensureLoop(): a resume does not credit the paused gap.
EnsureLoop == timer' = TRUE /\ since' = IF timer THEN since ELSE 0

\* start() and resume(): a cycle is begun where none is.
Run ==
  /\ status # "running"
  /\ status' = "running"
  /\ IF phase = 0 THEN BeginCycle /\ UNCHANGED <<succeeded, lost>>
                  ELSE UNCHANGED <<phase, cycleVars>>
  /\ EnsureLoop
  /\ UNCHANGED cascadeVars

Pause ==
  /\ status = "running"
  /\ status' = "paused" /\ timer' = FALSE
  /\ UNCHANGED <<phase, cycleVars, cascadeVars, since>>

\* step() with no cycle under way only begins one, and is stepped even if the
\* run was paused.
StepFirst ==
  /\ status # "running" /\ phase = 0
  /\ status' = "stepped"
  /\ BeginCycle
  /\ UNCHANGED <<cascadeVars, timer, since, succeeded, lost>>

\* step() later on runs the phase; a paused run stays paused.
StepPhase ==
  /\ status # "running" /\ phase > 0
  /\ status' = IF status = "paused" THEN "paused" ELSE "stepped"
  /\ RunPhase
  /\ UNCHANGED <<cascadeVars, timer, since>>

Reset ==
  /\ status' = "idle" /\ phase' = 0 /\ timer' = FALSE
  /\ total' = 0 /\ succeeded' = 0 /\ lost' = 0 /\ accepted' = TRUE
  /\ qkdKey' = None /\ pqcSecret' = None
  /\ failLayer' = None /\ triggered' = {} /\ elapsed' = 0 /\ ran' = 0
  /\ UNCHANGED since

\* A new outage replaces the one there is, and its cascade starts over with
\* its first stage.
InjectFailure(layer) ==
  /\ failLayer' = layer /\ elapsed' = 0 /\ triggered' = {First(layer)}
  /\ ran' = 0
  /\ UNCHANGED <<status, phase, cycleVars, timer, since>>

ClearFailure ==
  /\ failLayer # None
  /\ failLayer' = None /\ triggered' = {} /\ elapsed' = 0 /\ ran' = 0
  /\ UNCHANGED <<status, phase, cycleVars, timer, since>>

Init ==
  /\ status = "idle" /\ phase = 0 /\ qkdKey = None /\ pqcSecret = None
  /\ total = 0 /\ succeeded = 0 /\ accepted = TRUE /\ lost = 0
  /\ failLayer = None /\ triggered = {} /\ elapsed = 0 /\ ran = 0
  /\ timer = FALSE /\ since = 0

Next ==
  \/ \E dwelt \in BOOLEAN : Tick(dwelt)
  \/ Time \/ Run \/ Pause \/ StepFirst \/ StepPhase \/ Reset
  \/ \E layer \in Layer : InjectFailure(layer)
  \/ ClearFailure

Spec == Init /\ [][Next]_vars

-----------------------------------------------------------------------------
\* "A cycle reaches phase 5 only after its own phase 4 succeeded": the phases
\* behind the ones that yield keys work with the keys of this very cycle, and
\* the ones before them hold none, whatever was failed, cleared, stepped and
\* resumed meanwhile.
KeysOfThisCycle ==
  /\ phase > 2 => qkdKey = total
  /\ phase \in 1 .. 2 => qkdKey = None
  /\ phase > 4 => pqcSecret = total
  /\ phase \in 1 .. 4 => pqcSecret = None

\* Every cycle begun is counted once: as succeeded, as lost to a failure, or
\* as the one under way.
CyclesAccountedFor == total = succeeded + lost + Cardinality({phase} \ {0})

\* A cycle is one whole thing: it uses its own keys only and is counted once
\* (beginCycle, runPhase).
CyclesAreWhole == KeysOfThisCycle /\ CyclesAccountedFor

\* The figure's two readings of the cascade agree: a stage is stamped exactly
\* when the cascade's clock has reached it.
FiredIsTriggered == triggered = {i \in Cascade : Offset(i) <= elapsed}

\* The cascade's clock counts running time only, short of what lies between
\* two ticks: no pause is credited to the outage.
PauseIsNotCredited == elapsed <= ran + TickGap

\* The cascade has one clock, which runs while the simulation does, and its
\* stages follow it (advanceCascade, ensureLoop, injectFailure).
CascadeKeepsTime == FiredIsTriggered /\ PauseIsNotCredited

=============================================================================
