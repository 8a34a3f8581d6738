----------------------------- MODULE ParamStore -----------------------------
(***************************************************************************)
(* The parameters of a BB84 KME: config_loader's cache of the YAML file    *)
(* and the runtime overrides, the listener of the key pool that rebuilds   *)
(* the backend's configuration, the live switch of the backend and the     *)
(* modelled key rate with the generation it was derived at.                *)
(*                                                                         *)
(* Two threads run this code: the event loop, with every handler, and the  *)
(* watchdog, which polls params() for a new modification time.  Each has a *)
(* stack of calls, because the reload that params() makes calls the        *)
(* listener, whose cfg_from_yaml calls params() for each parameter.  The   *)
(* cache's RLock is held by a thread as long as a call of its stack is     *)
(* inside the lock.                                                        *)
(***************************************************************************)
EXTENDS Naturals, Sequences, FiniteSets

CONSTANTS
  Backend,       \* names of backends that POST /sim/backend may ask for
  Default,       \* the backend the KME starts with
  RateFirst,     \* backends that derive the rate from the parameters a round starts with
  NeedsService,  \* backends whose preflight awaits another service
  None,
  MaxWrites,     \* bound: writes of the file
  MaxChanges,    \* bound: override, reset, reload and Eve requests
  MaxSwitches,   \* bound: backends built by requests
  MaxRounds      \* bound: rounds

\* Three parameters stand for the 28 that cfg_from_yaml reads, in this order: one
\* that a patch may set, one that none may (EDITABLE_PARAMS), and one of those
\* that have a default.
Field == {"link", "block", "eve"}
FieldOrder == <<"link", "block", "eve">>
Editable == {"link", "eve"}
Value == {0, 1}
WithDefault(f, value) == IF f = "eve" /\ value = None THEN 0 ELSE value

\* A parameter missing from the file is None: a write that has truncated the
\* file is read as empty.
Params == [Field -> Value \cup {None}]
NoParams == [f \in Field |-> None]
Patches == {p \in Params : p # NoParams /\ \A f \in Field \ Editable : p[f] = None}

MaxGen == 1 + MaxWrites + MaxChanges

ASSUME BackendAssumption ==
  /\ Default \in Backend /\ "notify" \notin Backend /\ "boot" \notin Backend
  /\ RateFirst \subseteq Backend /\ NeedsService \subseteq Backend
  /\ None \notin Value
  /\ {MaxWrites, MaxChanges, MaxSwitches, MaxRounds} \subseteq Nat

VARIABLES
  file,       \* the parameters in the YAML file
  written,    \* its modification time: two writes never have the same one
  unused,     \* modification times no write has had
  raw,        \* _cache.raw
  overrides,  \* _cache.overrides, None where there is none
  gen,        \* _cache.generation
  mtime,      \* _cache.mtime
  stack,      \* stack[t]: the calls thread t is in, the innermost last
  subscribed, \* the pool's listener is registered
  objects,    \* the backend objects made so far: name and cfg
  current,    \* KeyPool.backend, an index of objects
  pending,    \* candidates of switch_backend, before the swap
  round,      \* the producer's round: its backend, and the rate when derived
  rounds,     \* bound: rounds started
  changes,    \* bound: requests served
  stats,      \* modelled_skr_bps, as the link it was derived for, and its generation
  disturbed,  \* history: the last change overlapped another, or Eve was set
  steady      \* history: no change since the round started, nothing disturbed it

disk == <<file, written, unused>>
cache == <<raw, overrides, gen, mtime>>
backends == <<objects, current, pending>>
producer == <<round, rounds, stats>>
vars == <<disk, cache, stack, subscribed, backends, producer, changes,
          disturbed, steady>>

Thread == {"loop", "watchdog"}
Times == 0 .. MaxWrites

\* A call: reload() from its read to its listener, set_overrides() and
\* clear_overrides() from their notification, or a cfg_from_yaml() of its own.
\* "outer": made by params(), which holds the lock until the call returns.
Call == [at : {"stat", "get", "use", "raise", "subscribe"}, outer : BOOLEAN,
         use : Backend \cup {"notify", "boot"}, obj : Nat,
         got : Seq(Value), eff : Params]

NoRound == [obj |-> 0, rate |-> None, done |-> FALSE]

TypeOK ==
  /\ file \in Params /\ raw \in Params /\ overrides \in Params
  /\ written \in Times /\ mtime \in Times /\ unused \subseteq Times
  /\ gen \in 1 .. MaxGen
  /\ stack \in [Thread -> Seq(Call)]
  /\ subscribed \in BOOLEAN /\ disturbed \in BOOLEAN /\ steady \in BOOLEAN
  /\ objects \in Seq([name : Backend, cfg : [1 .. Len(FieldOrder) -> Value]])
  /\ Len(objects) <= 1 + MaxSwitches
  /\ current \in 0 .. Len(objects) /\ pending \subseteq DOMAIN objects
  /\ round \in [obj : 0 .. Len(objects), rate : Value \cup {None}, done : BOOLEAN]
  /\ rounds \in 0 .. MaxRounds /\ changes \in 0 .. MaxChanges
  /\ stats \in [rate : Value \cup {None}, gen : Nat \cup {None}, steady : BOOLEAN]

-----------------------------------------------------------------------------
(* Reading the state.                                                      *)

\* _effective_locked: the file's values overlaid with the overrides.
Effective ==
  [f \in Field |-> IF overrides[f] # None THEN overrides[f] ELSE raw[f]]

\* Every parameter has a value or a default, so that cfg_from_yaml succeeds.
Complete == \A f \in Field : WithDefault(f, Effective[f]) # None

Stale == written # mtime

InLock(call) == call.at = "stat" \/ call.outer

LockFree(t) ==
  \A u \in Thread \ {t} : \A i \in DOMAIN stack[u] : ~InLock(stack[u][i])

\* No call is under way and no switch awaits its preflight.
Quiet == (\A t \in Thread : stack[t] = <<>>) /\ pending = {}

\* The event loop runs a handler to its next await: not between the end of a
\* round and its record, nor while a candidate's preflight is a no-op.
LoopIdle ==
  /\ subscribed /\ stack["loop"] = <<>> /\ ~round.done
  /\ \A i \in pending : objects[i].name \in NeedsService

Idle(t) == IF t = "loop" THEN LoopIdle ELSE stack[t] = <<>>

Top(t) == stack[t][Len(stack[t])]
Below(t) == SubSeq(stack[t], 1, Len(stack[t]) - 1)
At(t, step) == stack[t] # <<>> /\ Top(t).at = step

Replace(t, call) == stack' = [stack EXCEPT ![t] = Append(Below(t), call)]
Push(t, call) == stack' = [stack EXCEPT ![t] = Append(@, call)]

-----------------------------------------------------------------------------
(* config_loader.                                                          *)

\* Mutant: a missing parameter is taken for 0 with no conversion.
TakeAnything(call, eff) ==
  LET value == eff[FieldOrder[Len(call.got) + 1]]
  IN [call EXCEPT !.got = Append(@, value),
                  !.at = IF Len(call.got) + 1 = Len(FieldOrder)
                           THEN "use" ELSE "get"]

\* What cfg_from_yaml does with the value params() returned for the next
\* parameter: a conversion of None raises.
Take(call, eff) ==
  LET f == FieldOrder[Len(call.got) + 1]
      value == WithDefault(f, eff[f])
  IN IF value = None
       THEN [call EXCEPT !.at = "raise"]
       ELSE [call EXCEPT !.got = Append(@, value),
                         !.at = IF Len(call.got) + 1 = Len(FieldOrder)
                                  THEN "use" ELSE "get"]

\* A call returns to the params() it was made by, which returns the effective
\* parameters that reload() computed before it notified.
Resume(calls, eff) ==
  IF calls = <<>> THEN <<>> ELSE [calls EXCEPT ![Len(calls)] = Take(@, eff)]

ReturnWith(t, eff) == stack' = [stack EXCEPT ![t] = Resume(Below(t), eff)]

Return(t) == ReturnWith(t, Top(t).eff)

Notification(outer, eff) ==
  [at |-> "get", outer |-> outer, use |-> "notify", obj |-> current,
   got |-> <<>>, eff |-> eff]

\* The parameters changed: the round under way is no longer steady, and the
\* change disturbs, or is disturbed by, what else is under way.
Changed(overlaps) ==
  /\ gen' = gen + 1
  /\ steady' = FALSE
  /\ disturbed' = overlaps

\* reload(), in the lock: read the file ...
ReadFile(t, outer) ==
  /\ LockFree(t) /\ gen < MaxGen
  /\ raw' = file
  /\ Changed(~Quiet)
  /\ Push(t, [at |-> "stat", outer |-> outer, use |-> "notify", obj |-> 0,
              got |-> <<>>, eff |-> NoParams])
  /\ UNCHANGED <<disk, overrides, mtime, subscribed, backends, producer>>

\* Mutant: the modification time that was read is not kept.
StatForgets(t) ==
  /\ At(t, "stat")
  /\ IF subscribed THEN Replace(t, Notification(Top(t).outer, Effective))
                   ELSE ReturnWith(t, Effective)
  /\ UNCHANGED <<disk, cache, subscribed, backends, producer, changes,
                 disturbed, steady>>

\* ... then its modification time, leave the lock and notify the listener,
\* whose self.backend.update_config is looked up before its argument is built.
StatFile(t) ==
  /\ At(t, "stat")
  /\ mtime' = written
  /\ IF subscribed
       THEN Replace(t, Notification(Top(t).outer, Effective))
       ELSE ReturnWith(t, Effective)
  /\ UNCHANGED <<disk, raw, overrides, gen, subscribed, backends, producer,
                 changes, disturbed, steady>>

\* params() when the modification time differs: the watchdog's poll, or any
\* handler that reads a parameter.
Poll(t) ==
  /\ Idle(t) /\ Stale
  /\ ReadFile(t, TRUE)
  /\ UNCHANGED changes

\* POST /sim/reload.
Reload ==
  /\ LoopIdle /\ changes < MaxChanges
  /\ ReadFile("loop", FALSE)
  /\ changes' = changes + 1

\* cfg_from_yaml reads its parameters one by one, each through params().
GetField(t) ==
  /\ At(t, "get") /\ LockFree(t)
  /\ IF Stale
       THEN ReadFile(t, TRUE)
       ELSE /\ Replace(t, Take(Top(t), Effective))
            /\ UNCHANGED <<disk, cache, subscribed, backends, producer,
                           disturbed, steady>>
  /\ UNCHANGED changes

\* POST /sim/params: a patch is merged over the overrides in force.
SetOverrides(patch) ==
  /\ LoopIdle /\ LockFree("loop") /\ changes < MaxChanges /\ gen < MaxGen
  /\ changes' = changes + 1
  /\ overrides' = [f \in Field |-> IF patch[f] # None THEN patch[f] ELSE overrides[f]]
  /\ Changed(~Quiet)
  /\ Push("loop", Notification(FALSE, NoParams))
  /\ UNCHANGED <<disk, raw, mtime, subscribed, backends, producer>>

\* Mutant: a reset does not notify.
ClearUnheard ==
  /\ LoopIdle /\ LockFree("loop") /\ changes < MaxChanges /\ gen < MaxGen
  /\ changes' = changes + 1
  /\ overrides' = NoParams
  /\ Changed(~Quiet)
  /\ UNCHANGED <<disk, raw, mtime, stack, subscribed, backends, producer>>

\* POST /sim/params/reset.
ClearOverrides ==
  /\ LoopIdle /\ LockFree("loop") /\ changes < MaxChanges /\ gen < MaxGen
  /\ changes' = changes + 1
  /\ overrides' = NoParams
  /\ Changed(~Quiet)
  /\ Push("loop", Notification(FALSE, NoParams))
  /\ UNCHANGED <<disk, raw, mtime, subscribed, backends, producer>>

-----------------------------------------------------------------------------
(* The key pool's listener and backends.                                   *)

Using(t, use) == At(t, "use") /\ Top(t).use = use

\* _on_change: the object looked up when the notification began.
UpdateConfig(t) ==
  /\ Using(t, "notify")
  /\ objects' = [objects EXCEPT ![Top(t).obj].cfg = Top(t).got]
  /\ Return(t)
  /\ UNCHANGED <<disk, cache, subscribed, current, pending, producer, changes,
                 disturbed, steady>>

\* An exception is logged by the listener, or answers the switch with 500.
Raised(t) ==
  /\ At(t, "raise") /\ Top(t).use # "boot"
  /\ Return(t)
  /\ UNCHANGED <<disk, cache, subscribed, backends, producer, changes,
                 disturbed, steady>>

\* KeyPool.__init__ builds the default backend ...
BootBackend ==
  /\ Using("loop", "boot")
  /\ objects' = <<[name |-> Default, cfg |-> Top("loop").got]>>
  /\ current' = 1
  /\ Replace("loop", [Top("loop") EXCEPT !.at = "subscribe"])
  /\ UNCHANGED <<disk, cache, subscribed, pending, producer, changes,
                 disturbed, steady>>

\* ... and subscribes; the watchdog already runs.
Subscribe ==
  /\ At("loop", "subscribe") /\ LockFree("loop")
  /\ subscribed' = TRUE
  /\ Return("loop")
  /\ UNCHANGED <<disk, cache, backends, producer, changes, disturbed, steady>>

\* POST /sim/backend: cfg_from_yaml, the constructor, ...
SwitchBackend(name) ==
  /\ LoopIdle /\ Len(objects) + Cardinality(pending) <= MaxSwitches
  /\ Push("loop", [at |-> "get", outer |-> FALSE, use |-> name, obj |-> 0,
                   got |-> <<>>, eff |-> NoParams])
  /\ disturbed' = (disturbed \/ ~Quiet)
  /\ UNCHANGED <<disk, cache, subscribed, backends, producer, changes, steady>>

BuildCandidate ==
  /\ \E name \in Backend : Using("loop", name)
  /\ objects' = Append(objects, [name |-> Top("loop").use, cfg |-> Top("loop").got])
  /\ pending' = pending \cup {Len(objects) + 1}
  /\ Return("loop")
  /\ UNCHANGED <<disk, cache, subscribed, current, producer, changes,
                 disturbed, steady>>

\* ... the candidate's preflight, and the swap.
Swap(i) ==
  /\ i \in pending /\ stack["loop"] = <<>> /\ ~round.done
  /\ objects[i].name \in NeedsService => LoopIdle
  /\ pending' = pending \ {i}
  /\ current' = i
  /\ UNCHANGED <<disk, cache, stack, subscribed, objects, producer, changes,
                 disturbed, steady>>

\* The service does not answer: 503, and the running backend stays.
PreflightFails(i) ==
  /\ i \in pending /\ LoopIdle /\ objects[i].name \in NeedsService
  /\ pending' = pending \ {i}
  /\ UNCHANGED <<disk, cache, stack, subscribed, objects, current, producer,
                 changes, disturbed, steady>>

\* POST /sim/eve writes the configuration of the running backend in place.
SetEve(value) ==
  /\ LoopIdle /\ changes < MaxChanges
  /\ changes' = changes + 1
  /\ objects' = [objects EXCEPT ![current].cfg[3] = value]
  /\ disturbed' = TRUE
  /\ UNCHANGED <<disk, cache, stack, subscribed, current, pending, producer, steady>>

-----------------------------------------------------------------------------
(* Rounds of the producer and the statistics.                              *)

Rate(i) == objects[i].cfg[1]

\* run_round of the backend of the moment.
StartRound ==
  /\ LoopIdle /\ round = NoRound /\ rounds < MaxRounds
  /\ rounds' = rounds + 1
  /\ round' = [obj |-> current, done |-> FALSE,
               rate |-> IF objects[current].name \in RateFirst
                          THEN Rate(current) ELSE None]
  /\ steady' = (Quiet /\ ~disturbed)
  /\ UNCHANGED <<disk, cache, stack, subscribed, backends, stats, changes, disturbed>>

\* The worker thread is back: the other backends derive the rate now.
EndRound ==
  /\ LoopIdle /\ round # NoRound
  /\ round' = [round EXCEPT !.done = TRUE,
                            !.rate = IF @ = None THEN Rate(round.obj) ELSE @]
  /\ UNCHANGED <<disk, cache, stack, subscribed, backends, rounds, stats, changes,
                 disturbed, steady>>

\* _record: the rate, tagged with the generation of now.
Record ==
  /\ round.done /\ LockFree("loop")
  /\ stats' = [rate |-> round.rate, gen |-> gen, steady |-> steady]
  /\ round' = NoRound
  /\ UNCHANGED <<disk, cache, stack, subscribed, backends, rounds, changes,
                 disturbed, steady>>

\* Mutant: a rate recorded once is taken for current.
RecordedOnce == stats.gen # None

\* skr_reflects_current_config.
ReflectsCurrent == stats.gen = gen

-----------------------------------------------------------------------------
(* The file (external): it is edited, or replaced by an older copy; an      *)
(* editor truncates it first.                                              *)

WriteFile(content) ==
  /\ unused # {}
  /\ content = NoParams => subscribed
  /\ \E time \in unused : written' = time /\ unused' = unused \ {time}
  /\ file' = content
  /\ disturbed' = (disturbed \/ ~Quiet)
  /\ UNCHANGED <<cache, stack, subscribed, backends, producer, changes, steady>>

-----------------------------------------------------------------------------
\* lifespan: reload(), the watchdog, then KeyPool's constructor.
Init ==
  /\ file = [f \in Field |-> 0] /\ raw = file /\ overrides = NoParams
  /\ written \in Times /\ mtime = written /\ unused = Times \ {written}
  /\ gen = 1
  /\ stack = [t \in Thread |->
                IF t = "loop"
                  THEN <<[at |-> "get", outer |-> FALSE, use |-> "boot", obj |-> 0,
                          got |-> <<>>, eff |-> NoParams]>>
                  ELSE <<>>]
  /\ subscribed = FALSE
  /\ objects = <<>> /\ current = 0 /\ pending = {}
  /\ round = NoRound /\ rounds = 0 /\ changes = 0
  /\ stats = [rate |-> None, gen |-> None, steady |-> FALSE]
  /\ disturbed = FALSE /\ steady = FALSE

Continue(t) == StatFile(t) \/ GetField(t) \/ UpdateConfig(t) \/ Raised(t)

Requests ==
  \/ Reload \/ ClearOverrides
  \/ \E patch \in Patches : SetOverrides(patch)
  \/ \E name \in Backend : SwitchBackend(name)
  \/ \E value \in Value : SetEve(value)

Switching ==
  \/ BuildCandidate
  \/ \E i \in pending : Swap(i) \/ PreflightFails(i)

Next ==
  \/ \E t \in Thread : Poll(t) \/ Continue(t)
  \/ BootBackend \/ Subscribe
  \/ Requests \/ Switching
  \/ StartRound \/ EndRound \/ Record
  \/ \E content \in {NoParams, [f \in Field |-> 1]} : WriteFile(content)

Spec == Init /\ [][Next]_vars

\* The watchdog polls every second, and a call that started runs to its end.
Fairness ==
  /\ WF_vars(Poll("watchdog"))
  /\ \A t \in Thread : WF_vars(Continue(t))
  /\ WF_vars(BootBackend) /\ WF_vars(Subscribe) /\ WF_vars(BuildCandidate)
  /\ WF_vars(Record)

LiveSpec == Spec /\ Fairness

-----------------------------------------------------------------------------
(* Properties.                                                             *)

\* The last change reaches the backend if it overlapped nothing else, whatever
\* races and failed reads left behind before it: the backend in use then runs
\* on the effective parameters.
LastChangeApplied ==
  Quiet /\ subscribed /\ ~disturbed /\ Complete
  => objects[current].cfg =
       [i \in DOMAIN FieldOrder |-> WithDefault(FieldOrder[i], Effective[FieldOrder[i]])]

\* "Equal means current": when skr_reflects_current_config is TRUE for the rate
\* of a round no change overlapped, the rate is that of the effective parameters.
FlagOfSteadyRound ==
  stats.steady /\ ReflectsCurrent /\ Complete => stats.rate = Effective["link"]

\* The same without the restriction to such rounds, as PoolStats describes it:
\* FALSE "means the plotted rate predates the current parameters", TRUE that it
\* does not.
FlagIsTrue == ReflectsCurrent /\ Complete => stats.rate = Effective["link"]

\* Hot reload: a write of the file is noticed, also one that restores an older
\* modification time, and although the watchdog and the handlers block each other.
FileNoticed == (written # mtime) ~> (written = mtime)
=============================================================================
