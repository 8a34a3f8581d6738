------------------------------- MODULE MCWebui -------------------------------
(***************************************************************************)
(* The parts of the web UI for TLC: of its backend the key-rate verdict    *)
(* under changes of the physics, the store of exports, the sampled routes  *)
(* and the status of the stack, and of its pages the four simulators, the  *)
(* key managers of the protocol lab and the exports.  They share no state: *)
(* a behaviour is one of a single part, chosen at the start, while the     *)
(* other parts stay in an initial state.                                   *)
(***************************************************************************)
EXTENDS Naturals, Sequences, TLC

CONSTANTS
  None,
  Client, Posted, Reader, Param, Default, Backend,         \* verdict
  MaxChanges, MaxFaults,
  Saver, Name, Payload, MaxFiles, MaxBytes, MaxUpload,     \* store
  MaxSaves, MaxSeconds, MaxDeletes,
  Thread, Route, Ttl, Timeout,                             \* samples
  Services, Gated, Poller, MaxPolls,                       \* stack
  Toolbar, Duration, Interval, MinDelay, MaxRender,        \* exports
  MaxExports,
  Fetcher, MaxVersions, MaxRefreshes,                      \* gallery
  PoolCapacity,                                            \* e2e
  MaxCycles, MaxElapsed, TickGap, MaxGap,                  \* paper
  Low, Threshold, Fill, Need, Capacity, RefillAt, Cover,   \* lab
  MaxDue, MaxTicks,
  Down, Ksid, Key, Sizes, Asked, Rates, MaxChunks,         \* streams
  Rate, KeyYield, PoolDrain, PoolTop                       \* engine

\* None stands for null, which is no value of the pages; a sample lives for a
\* while, a pool has room, the timer of a page fires more often than a pause
\* lasts, a replayed store starts above its minimum, a chunk has bytes, and
\* STACK_SERVICES names every service once.
ASSUME SampleAssumption == Ttl \in Nat \ {0} /\ Timeout \in Nat

ASSUME E2EAssumption ==
  /\ None \notin {"A", "B", "C", "qkd", "pqc", "data"}
  /\ PoolCapacity \in Nat \ {0}

ASSUME PaperAssumption ==
  /\ None \notin {"qkd", "arnika", "wireguard", "rosenpass", "data"}
  /\ None \notin 0 .. MaxCycles
  /\ {MaxCycles, MaxElapsed, TickGap, MaxGap} \subseteq Nat /\ TickGap <= MaxGap

ASSUME LabAssumption ==
  /\ {Low, Threshold, Fill, Need, Capacity, RefillAt, Cover, MaxDue, MaxTicks} \subseteq Nat
  /\ Threshold <= Fill

ASSUME StreamsAssumption ==
  /\ Key \in Nat \ {0} /\ MaxChunks \in Nat
  /\ Sizes \cup Asked \cup Rates \subseteq Nat

ASSUME EngineAssumption ==
  /\ None \notin {"gpu", "gl", "wasm"} /\ None \notin 0 .. PoolTop
  /\ {KeyYield, PoolDrain, PoolTop} \subseteq Nat

VARIABLES
  part,
  kme, late, fan, cache, reader, draft, note, shown, loads, agreed, excuses,
  changes, edits, faults,
  files, saver, second, writes, saves, deletes, last,
  sampled, sample, failure, call, answer, spared,
  past, client, poll, cached, table, polls, reading,
  export, told, notice, recording, exports,
  gallery, list, problem, fetching, refreshes, config, fetched, crossed,
  status, timer,   \* of the page that is open
  step, mode, failed, fatal, pool, qkd, pqc, derived, psk, keyId, steady,
  phase, qkdKey, pqcSecret, total, succeeded, accepted, failLayer, triggered,
  elapsed, since, ran, lost,
  accounting, to, links, nodes, route, stores, stream, buffered, stock,
  ok, refused, ticks, made, relayed, asked,
  streams, used, joined, counter, handed,
  loaded, left, eve, cfgEve, running, worker, workerPps, lastPool, inUse,
  tierPool, held, trials, pass, basis, loop, early, tardy, jumped

\* The network of /protocol-lab: a direct link without a reported rate, and
\* two routes over a trusted node each.
Hop(a, b) == {a, b}
LabNode == {"s", "m", "n", "d"}
LabLink == {Hop("s", "d"), Hop("s", "m"), Hop("m", "d"), Hop("s", "n"), Hop("n", "d")}

Verdict == INSTANCE ControlPlane WITH Page <- {}, MaxEdits <- 0, MaxLoads <- 0
Store == INSTANCE ExportStore
Samples == INSTANCE Sampler WITH route <- sampled
Stack == INSTANCE StackStatus WITH cache <- cached, MaxChanges <- 1
Exports == INSTANCE Exporting WITH last <- fetched
E2E == INSTANCE E2ESim
Paper == INSTANCE PaperSim
Lab == INSTANCE RelayLab WITH
  Node <- LabNode, Link <- LabLink, Rated <- LabLink \ {Hop("s", "d")},
  Src <- "s", Dst <- "d", Preferred <- <<"s", "m", "d">>,
  FailingLinks <- {Hop("s", "d"), Hop("s", "m")}, FailingNodes <- {"m", "d"},
  stored <- stores
Streams == INSTANCE Km004 WITH route <- joined
Engine == INSTANCE Bb84Engine WITH late <- tardy

ASSUME StackAssumption ==
  /\ Services \in Seq(Stack!Service) /\ Services # <<>>
  /\ \A i, j \in DOMAIN Services : i # j => Services[i] # Services[j]
  /\ None \notin Stack!Sample

verdictVars == <<kme, late, fan, cache, reader, draft, note, shown, loads, agreed,
                 excuses, changes, edits, faults>>
storeVars == <<files, saver, second, writes, saves, deletes, last>>
sampleVars == <<sampled, sample, failure, call, answer, spared>>
stackVars == <<past, client, poll, cached, table, polls, reading>>
exportVars == <<export, told, notice, recording, exports, gallery, list, problem,
                fetching, refreshes, config, fetched, crossed>>
e2eVars == <<step, mode, failed, fatal, pool, qkd, pqc, derived, psk, keyId, steady>>
paperVars == <<phase, qkdKey, pqcSecret, total, succeeded, accepted, failLayer,
               triggered, elapsed, since, ran, lost>>
labVars == <<accounting, to, links, nodes, route, stores, stream, buffered, stock,
             ok, refused, ticks, made, relayed, asked>>
streamVars == <<streams, used, joined, counter, handed>>
engineVars == <<loaded, left, eve, cfgEve, running, worker, workerPps, lastPool, inUse,
                tierPool, held, trials, pass, basis, loop, early, tardy, jumped>>
pageVars == <<status, timer>>
backendVars == <<verdictVars, storeVars, sampleVars, stackVars>>
simVars == <<pageVars, e2eVars, paperVars, labVars, streamVars, engineVars>>
vars == <<part, backendVars, exportVars, simVars>>

Init ==
  /\ part \in {"verdict", "store", "samples", "stack", "reading", "exports", "gallery",
               "e2e", "paper", "lab", "streams", "engine"}
  /\ Verdict!Init /\ Store!Init /\ Samples!Init /\ Stack!Init /\ Exports!Init
  /\ E2E!Init /\ Paper!Init /\ Lab!Init /\ Streams!Init /\ Engine!Init
  /\ part # "store" => last = CHOOSE s \in Saver : TRUE
  /\ part # "samples" => sampled = CHOOSE r \in Route : TRUE
  /\ part \notin {"stack", "reading"} =>
       past = <<[n \in Stack!Service |-> "running"]>>
  /\ part # "lab" => route = <<"s", "m", "d">>

Next ==
  \/ /\ part = "verdict" /\ Verdict!Next
     /\ UNCHANGED <<part, storeVars, sampleVars, stackVars, exportVars, simVars>>
  \/ /\ part = "store" /\ Store!Next
     /\ UNCHANGED <<part, verdictVars, sampleVars, stackVars, exportVars, simVars>>
  \/ /\ part = "samples" /\ Samples!Next
     /\ UNCHANGED <<part, verdictVars, storeVars, stackVars, exportVars, simVars>>
  \/ /\ part = "stack" /\ Stack!Next
     /\ UNCHANGED <<reading, part, verdictVars, storeVars, sampleVars, exportVars, simVars>>
  \/ /\ part = "reading" /\ Stack!Next
     /\ UNCHANGED <<poll, part, verdictVars, storeVars, sampleVars, exportVars, simVars>>
  \/ /\ part = "exports" /\ Exports!Toolbars
     /\ UNCHANGED <<part, backendVars, simVars>>
  \/ /\ part = "gallery" /\ Exports!Picker
     /\ UNCHANGED <<part, backendVars, simVars>>
  \/ /\ part = "e2e" /\ E2E!Next
     /\ UNCHANGED <<part, backendVars, exportVars, paperVars, labVars, streamVars, engineVars>>
  \/ /\ part = "paper" /\ Paper!Next
     /\ UNCHANGED <<part, backendVars, exportVars, e2eVars, labVars, streamVars, engineVars>>
  \/ /\ part = "lab" /\ Lab!Next
     /\ UNCHANGED <<part, backendVars, exportVars, e2eVars, paperVars, streamVars, engineVars>>
  \/ /\ part = "streams" /\ Streams!Next
     /\ UNCHANGED <<part, backendVars, exportVars, pageVars, e2eVars, paperVars, labVars,
                    engineVars>>
  \/ /\ part = "engine" /\ Engine!Next
     /\ UNCHANGED <<part, backendVars, exportVars, pageVars, e2eVars, paperVars, labVars,
                    streamVars>>

Spec == Init /\ [][Next]_vars

\* The threads that save exports are interchangeable.
Savers == Permutations(Saver)

MCPosted == {[kind |-> "params", value |-> "long"], [kind |-> "reset", value |-> None]}

\* One container that is always defined, one that a profile adds.
MCServices == <<"alice", "sim">>

-----------------------------------------------------------------------------
(* The properties are stated and explained in the modules of the parts.     *)

\* The part that runs keeps its state within its types.
TypeOK ==
  CASE part = "verdict" -> Verdict!TypeOK
    [] part = "store" -> Store!TypeOK
    [] part = "samples" -> Samples!TypeOK
    [] part \in {"stack", "reading"} -> Stack!TypeOK
    [] part \in {"exports", "gallery"} -> Exports!TypeOK
    [] part = "e2e" -> E2E!TypeOK
    [] part = "paper" -> Paper!TypeOK
    [] part = "lab" -> Lab!TypeOK
    [] part = "streams" -> Streams!TypeOK
    [] part = "engine" -> Engine!TypeOK

\* The cached verdict is of the parameters in force.
VerdictIsCurrent == part = "verdict" => Verdict!VerdictIsCurrent

\* The store of exports is bounded and keeps what it should.
ExportsAreKept == part = "store" => Store!ExportsAreKept

\* An answer from a cache is not older than promised, and spares the service
\* that is sampled.
SamplesAreShared == Samples!SamplesAreShared

\* Containers, counts and refusals are told as they are, and secrets are not.
StackIsTold == part \in {"stack", "reading"} => Stack!StackIsTold

\* An export delivers its file whatever becomes of its upload, and a list says
\* what was read.
FilesAreDelivered == part \in {"exports", "gallery"} => Exports!FilesAreDelivered

\* A cycle of /e2e works with the keys of its mode and leaves none behind.
CyclesSealOwnKeys == part = "e2e" => E2E!CyclesSealOwnKeys

\* A cycle of /paper-flow uses its own keys, is counted once and is timed by the
\* running simulation.
CyclesAreWhole == part = "paper" => Paper!CyclesAreWhole /\ Paper!CascadeKeepsTime

\* The route of /protocol-lab goes round outages, takes up repairs, is steady.
RouteFollowsFailures == Lab!RouteFollowsFailures

\* The keys, pads and requests of /protocol-lab add up, and its key managers give
\* every chunk once to each side that is open.
KeysAreAccountedFor ==
  /\ part = "lab" => Lab!KeysAreAccountedFor
  /\ part = "streams" => Streams!StreamsKeepKeys

\* The engine of /bb84 does what its page says and leaves nothing behind.
EngineFollowsPage == part = "engine" => Engine!EngineFollowsPage

=============================================================================
