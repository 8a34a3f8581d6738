------------------------------ MODULE RelayLab ------------------------------
(***************************************************************************)
(* The simulator of the page /protocol-lab: keys are relayed over a        *)
(* published network of trusted nodes, one pad of every hop's store per    *)
(* key, under links and nodes that the operator fails and restores.  A run *)
(* is accounted in one of four ways: keys and a stream of ETSI GS QKD 004, *)
(* stores of bits with a threshold, a service's stock refilled by relay,   *)
(* or the route alone.                                                     *)
(***************************************************************************)
EXTENDS Naturals, FiniteSets, FiniteSetsExt, Sequences, SequencesExt

CONSTANTS
  None,
  Node, Link,         \* a link is the set of its two ends
  Rated,              \* the links with a reported rate
  Src, Dst,
  Preferred,          \* the route a replayed scenario names as its primary one
  Low,                \* LOW_WM: keys a link's store and the stream are filled to
  Threshold, Fill,    \* stores: the minimum, and what a store holds at first
  Need,               \* stores: the demand of one tick, in keys' worth of bits
  FailingLinks, FailingNodes,   \* those that the operator fails
  Capacity, RefillAt, \* service: the stock, refilled to Capacity
  Cover,              \* service: keys that a link's rate covers in one tick
  MaxDue,             \* bound: requests that fall due in one tick
  MaxTicks            \* bound: ticks of one run

Accounting == {"keys", "stores", "service-buffer", "route-only"}

VARIABLES
  status, timer, accounting,
  to,          \* demandTo; free play may set it to the source
  links, nodes,\* those that are down, by a failure or with their node
  route,       \* a sequence of nodes, or None
  stored,      \* storedKeys or storedBits of each link
  stream,      \* the stream is established
  buffered,    \* keys in the stream that are not delivered
  stock,       \* service.stored
  ok, refused, \* requests served and not served
  ticks,
  made,        \* history: what was put into each store
  relayed,     \* history: keys, or units of bits, that went over a route
  asked        \* history: requests that fell due

loadVars == <<accounting, to>>
faultVars == <<links, nodes>>
storeVars == <<stored, stream, buffered, stock, ok, refused, made, relayed, asked>>
vars == <<status, timer, loadVars, faultVars, route, storeVars, ticks>>

-----------------------------------------------------------------------------
(* Routes.                                                                 *)

Hops(p) == {{p[i], p[i + 1]} : i \in 1 .. Len(p) - 1}

\* simplePaths(): every path without a repeated node.
SimplePaths ==
  [n \in Node |->
    {p \in UNION {[1 .. k -> Node] : k \in 2 .. Cardinality(Node)} :
       p[1] = Src /\ p[Len(p)] = n /\ IsInjective(p) /\ Hops(p) \subseteq Link}]

\* What a choice is made in: the run, the faults and the route there is.
Here == [accounting |-> accounting, to |-> to, links |-> links, nodes |-> nodes,
         prev |-> route]

\* view(): whether a link can carry what is needed.
Usable(l, at, store, need) ==
  /\ l \notin at.links
  /\ CASE at.accounting = "keys" -> l \in Rated \/ store[l] > 0
       [] at.accounting = "stores" -> store[l] >= Threshold + need
       [] at.accounting = "service-buffer" -> l \in Rated /\ Cover >= need
       [] at.accounting = "route-only" -> TRUE

\* selectRoute(): the paths that can carry the request.
Ranked(at, store, need) ==
  {p \in SimplePaths[at.to] :
     /\ \A l \in Hops(p) : Usable(l, at, store, need)
     /\ \A i \in DOMAIN p : p[i] \notin at.nodes}

\* The bottleneck that routes of one length are ranked by, where stores count.
Bottleneck(at, p, store) ==
  IF at.accounting \in {"keys", "stores"} THEN Min({store[l] : l \in Hops(p)}) ELSE 0

\* rankRoutes(): fewest hops, then the widest bottleneck; the rates and names
\* that decide between equals are left out.
Best(at, paths, store) ==
  LET shortest == {p \in paths : \A q \in paths : Len(p) <= Len(q)} IN
  {p \in shortest : \A q \in shortest : Bottleneck(at, p, store) >= Bottleneck(at, q, store)}

Primary(at, paths) == IF at.accounting = "route-only" THEN paths \cap {Preferred} ELSE {}

\* Mutant: draining stores make equal routes alternate.
ChosenAnew(at, store, need) ==
  LET paths == Ranked(at, store, need) IN
  CASE paths = {} -> {None}
    [] Primary(at, paths) # {} -> Primary(at, paths)
    [] OTHER -> Best(at, paths, store)

\* chooseRoute(): sticky among routes of equal length, unless the scenario's
\* primary route can carry the request.
Chosen(at, store, need) ==
  LET paths == Ranked(at, store, need)
      best == Best(at, paths, store)
      stays == at.prev \in paths /\ \A p \in best : Len(p) >= Len(at.prev)
  IN  CASE paths = {} -> {None}
        [] Primary(at, paths) # {} -> Primary(at, paths)
        [] Primary(at, paths) = {} /\ stays -> {at.prev}
        [] OTHER -> best

TypeOK ==
  /\ status \in {"idle", "running", "paused", "stepped"} /\ timer \in BOOLEAN
  /\ accounting \in Accounting /\ to \in {Src, Dst}
  /\ links \subseteq Link /\ nodes \subseteq Node
  /\ route = None \/ route \in SimplePaths[to]
  /\ stored \in [Link -> Nat] /\ made \in [Link -> Nat]
  /\ stream \in BOOLEAN /\ stock \in 0 .. Capacity
  /\ {buffered, ok, refused, relayed, asked} \subseteq Nat
  /\ ticks \in 0 .. MaxTicks

-----------------------------------------------------------------------------
(* advance(): one tick, in the way the run is accounted.                   *)

\* A relayed key takes one pad of every hop.
Drawn(p, store, n) == [l \in Link |-> IF l \in Hops(p) THEN store[l] - n ELSE store[l]]

\* generateKeys(): whole keys, up to the watermark, on the rated links that
\* are up.
Generated ==
  {f \in [Link -> 0 .. Low] :
     \A l \in Link : IF l \in Rated \ links THEN f[l] >= stored[l] ELSE f[l] = stored[l]}

\* The requests of a tick: what is not served is refused.
Count(due, served, open) ==
  /\ ok' = ok + served
  /\ refused' = refused + (due - served)
  /\ asked' = asked + due

\* The stream is opened on the route of the last choice and filled up, the
\* stickiness keeping one route through the loop of the refill; then the
\* requests are served.
TickKeys(due) ==
  \E store \in Generated : \E p \in Chosen(Here, store, 1) :
    LET open == stream \/ route # None
        room == Max({0, Low - buffered})
        n == IF open /\ p # None THEN Min({room, Bottleneck(Here, p, store)}) ELSE 0
        served == IF open /\ p # None THEN Min({due, buffered + n}) ELSE 0
    IN  /\ stream' = open /\ route' = p
        /\ stored' = IF n = 0 THEN store ELSE Drawn(p, store, n)
        /\ made' = [l \in Link |-> made[l] + store[l] - stored[l]]
        /\ relayed' = relayed + n
        /\ buffered' = buffered + n - served
        /\ Count(due, served, open)
        /\ UNCHANGED stock

\* The demand of a tick, from each store of the route; some stores are filled
\* as fast as the demand.
TickStores ==
  \E gen \in {{}, Rated} :
    LET store == [l \in Link |-> IF l \in gen THEN stored[l] + Need ELSE stored[l]] IN
    \E p \in Chosen(Here, store, Need) :
      /\ route' = p
      /\ stored' = IF p = None THEN store ELSE Drawn(p, store, Need)
      /\ made' = [l \in Link |-> made[l] + store[l] - stored[l]]
      /\ relayed' = relayed + (IF p = None THEN 0 ELSE Need)
      /\ UNCHANGED <<stream, buffered, stock, ok, refused, asked>>

\* The stock is refilled as soon as it has come down to the mark.
IsLow(left) == left <= RefillAt

\* The requests are served from the stock, which is refilled over a route.
TickService(due) ==
  LET served == Min({due, stock})
      left == stock - served
      need == IF IsLow(left) THEN Capacity - left ELSE 0
  IN  /\ Count(due, served, TRUE)
      /\ \E p \in Chosen(Here, stored, need) :
           /\ route' = p
           /\ stock' = IF IsLow(left) /\ p # None THEN Capacity ELSE left
      /\ UNCHANGED <<stored, stream, buffered, made, relayed>>

TickRoute == route' \in Chosen(Here, stored, 0) /\ UNCHANGED storeVars

Advance ==
  /\ ticks < MaxTicks
  /\ ticks' = ticks + 1
  /\ CASE accounting = "keys" -> \E due \in 0 .. MaxDue : TickKeys(due)
       [] accounting = "stores" -> TickStores
       [] accounting = "service-buffer" -> \E due \in 0 .. MaxDue : TickService(due)
       [] accounting = "route-only" -> TickRoute
  /\ UNCHANGED <<loadVars, faultVars>>

\* A running replay of stores ends with its last route.
StayRunning ==
  LET halts == accounting = "stores" /\ route' = None IN
  /\ status' = IF halts THEN "paused" ELSE "running"
  /\ timer' = ~halts

\* onTimer(), when the dwell of the tick is over.
Tick ==
  /\ timer /\ status = "running"
  /\ Advance
  /\ StayRunning

-----------------------------------------------------------------------------
(* The controls, when the page offers them.                                *)

\* start() and resume().
Run ==
  /\ status # "running"
  /\ status' = "running" /\ timer' = TRUE
  /\ UNCHANGED <<loadVars, faultVars, route, storeVars, ticks>>

Pause ==
  /\ status = "running"
  /\ status' = "paused" /\ timer' = FALSE
  /\ UNCHANGED <<loadVars, faultVars, route, storeVars, ticks>>

\* step() is a tick; a paused run stays paused.
Step ==
  /\ status # "running"
  /\ Advance
  /\ status' = IF status = "paused" THEN "paused" ELSE "stepped"
  /\ UNCHANGED timer

Touching(n) == {l \in Link : n \in l}

\* injectFailure() of a link, or of a node with the links that touch it: the
\* route is chosen anew at once, for one key.
InjectFailure(ls, ns) ==
  /\ links' = links \cup ls /\ nodes' = nodes \cup ns
  /\ route' \in Chosen([Here EXCEPT !.links = links', !.nodes = nodes'], stored, 1)
  /\ UNCHANGED <<status, timer, loadVars, storeVars, ticks>>

\* clearFailure() of everything.
ClearFailures ==
  /\ links' = {} /\ nodes' = {}
  /\ route' \in Chosen([Here EXCEPT !.links = {}, !.nodes = {}], stored, 1)
  /\ UNCHANGED <<status, timer, loadVars, storeVars, ticks>>

\* A restored link is up if both its nodes are.
ComesUp(l) == l \cap nodes = {}

\* clearFailure() of one link, by an event of a replayed scenario.
RestoreLink(l) ==
  /\ accounting \in {"service-buffer", "route-only"}
  /\ links' = IF ComesUp(l) THEN links \ {l} ELSE links
  /\ route' \in Chosen([Here EXCEPT !.links = links'], stored, 1)
  /\ UNCHANGED <<status, timer, loadVars, nodes, storeVars, ticks>>

\* What the stores hold when a run is loaded.
Fresh(a) == [l \in Link |-> IF a = "stores" THEN Fill ELSE 0]

\* load(), by reset(), loadPreset() and setDemand(): everything but the
\* network and the scenario starts over, and the stream is opened.
Load(a, d) ==
  /\ d = Src => a = "keys"
  /\ status' = "idle" /\ timer' = FALSE
  /\ accounting' = a /\ to' = d
  /\ links' = {} /\ nodes' = {} /\ ticks' = 0
  /\ stored' = Fresh(a) /\ made' = Fresh(a)
  /\ route' \in Chosen([accounting |-> a, to |-> d, links |-> {}, nodes |-> {},
                         prev |-> None], Fresh(a), 1)
  /\ stream' = (a = "keys" /\ route' # None)
  /\ stock' = (IF a = "service-buffer" THEN Capacity ELSE 0)
  /\ buffered' = 0 /\ ok' = 0 /\ refused' = 0 /\ relayed' = 0 /\ asked' = 0

\* The page opens with free play on the first network.
Init ==
  /\ status = "idle" /\ timer = FALSE
  /\ accounting = "keys" /\ to = Dst
  /\ links = {} /\ nodes = {} /\ ticks = 0
  /\ stored = Fresh("keys") /\ made = Fresh("keys")
  /\ route \in Best([accounting |-> "keys"], {p \in SimplePaths[Dst] : Hops(p) \subseteq Rated},
                    Fresh("keys"))
  /\ stream = TRUE
  /\ stock = 0 /\ buffered = 0 /\ ok = 0 /\ refused = 0 /\ relayed = 0 /\ asked = 0

Next ==
  \/ Tick \/ Run \/ Pause \/ Step \/ ClearFailures
  \/ \E l \in FailingLinks : InjectFailure({l}, {}) \/ RestoreLink(l)
  \/ \E n \in FailingNodes : InjectFailure(Touching(n), {n})
  \/ \E a \in Accounting, d \in {Src, Dst} : Load(a, d)

Spec == Init /\ [][Next]_vars

-----------------------------------------------------------------------------
\* A node that is down takes its links with it, however failures of links and
\* of nodes and their repairs followed each other.
DownNodesCutLinks == \A n \in nodes : Touching(n) \subseteq links

\* No key is sent over a route with a link or a node that is down: the route
\* is chosen anew before anything uses it.
RouteIsUp ==
  route # None => Hops(route) \cap links = {} /\ \A i \in DOMAIN route : route[i] \notin nodes

\* Where only failures decide, the route is one of the shortest there are, or
\* the scenario's primary one when that is up, and there is none only when no
\* path is left: every outage is gone round and every repair is taken up.
RouteIsBest ==
  accounting \in {"keys", "route-only"} =>
    LET paths == Ranked(Here, [l \in Link |-> 0], 0) IN
    CASE paths = {} -> route = None
      [] Primary(Here, paths) # {} -> route = Preferred
      [] OTHER -> route \in paths /\ \A p \in paths : Len(route) <= Len(p)

\* Whatever fails and is restored in whatever order, the route is up and a best
\* one at once, and no tick changes it for an equal one because stores drain
\* (chooseRoute, injectFailure, clearFailure).
RouteFollowsFailures ==
  /\ [](DownNodesCutLinks /\ RouteIsUp /\ RouteIsBest)
  /\ [][ticks' > ticks /\ accounting \in {"keys", "route-only"} => route' = route]_vars

\* No store gives more than it has, and a replayed one stays at its minimum.
StoresKeepTheirMinimum ==
  \A l \in Link : stored[l] >= IF accounting = "stores" THEN Threshold ELSE 0

\* Every key that was relayed was paid for by one pad of every hop: what left
\* the stores at the source, and what left those at the destination, is what
\* was relayed.
OnePadPerHop ==
  accounting \in {"keys", "stores"} /\ to = Dst =>
    \A n \in {Src, Dst} :
      MapThenSumSet(LAMBDA l : made[l] - stored[l], Touching(n)) = relayed

\* Every request that fell due is served or refused, and every served one had
\* its key: no key is delivered twice or from nowhere.
RequestsAccountedFor ==
  /\ ok + refused = asked
  /\ accounting = "keys" => relayed = ok + buffered

\* No key comes from nowhere or is paid for twice, over any sequence of ticks,
\* outages and repairs (consumeStream, refillStream, relaySample).
KeysAreAccountedFor == StoresKeepTheirMinimum /\ OnePadPerHop /\ RequestsAccountedFor

=============================================================================
