------------------------------ MODULE Sampler ------------------------------
(***************************************************************************)
(* The sampled routes of the web UI backend: /api/stack, /api/wg,          *)
(* /api/logs, /api/vpn/protocols, /api/vpn/ppk-rotations, /api/stats,      *)
(* /api/pqc/agility.  Each answers from a cache with a time to live, or     *)
(* asks another service, one probe after the other, and stores what it got.*)
(* The requests of one route run in several threads (or coroutines), none  *)
(* waits for another, and the age of a sample is kept, not its clock time. *)
(***************************************************************************)
EXTENDS Naturals

CONSTANTS
  Thread,   \* requests that may overlap
  Route,    \* routes that are asked, among those below
  Ttl,      \* time to live of a sample
  Timeout   \* longest probe: STACK_STATUS_TIMEOUT_S

\* "stack", "stats" and "rotations" answer a probe that failed in place; "wg" and
\* "protocols" store the failure instead of a sample; "agility" stores it under a
\* key of its own with a shorter time to live; "logs" does not store it.

VARIABLES
  route,    \* the route that is asked
  sample,   \* its entry in the cache
  failure,  \* the entry of its failure, for a route that keeps one apart
  call,     \* call[t]: the request thread t serves
  answer,   \* history: the last answer, until time passes
  spared    \* history: time for which what was stored spares the service

vars == <<route, sample, failure, call, answer, spared>>

\* "stats" asks both KMEs, "rotations" both nodes, "protocols" WireGuard and both.
Probes(r) == CASE r = "protocols" -> 3 [] r \in {"stats", "rotations"} -> 2 [] OTHER -> 1

\* A failed probe is part of the answer, and the next one is made all the same.
InPlace == route \in {"stack", "stats", "rotations"}

\* The time is taken before the first probe, not when the answer is stored.
StampedEarly == route \in {"rotations", "protocols"}

\* Ages are counted up to a bound that no comparison reaches.
Longest == Probes(route) * Timeout
Oldest == Ttl + Longest + 1
Older(age) == IF age < Oldest THEN age + 1 ELSE age

NoEntry == [stamp |-> Oldest, begun |-> Oldest, ok |-> FALSE]
NoCall == [at |-> "idle", begun |-> 0, probe |-> 0, left |-> 0, ok |-> TRUE]
NoAnswer == [begun |-> 0, ok |-> TRUE, cached |-> FALSE]

FailureTtl == IF route = "agility" THEN 1 ELSE Ttl

TypeOK ==
  /\ route \in Route
  /\ \A e \in {sample, failure} :
       e.stamp \in 0 .. Oldest /\ e.begun \in e.stamp .. Oldest /\ e.ok \in BOOLEAN
  /\ \A t \in Thread : /\ call[t].at \in {"idle", "probe"} /\ call[t].begun \in 0 .. Longest
                       /\ call[t].probe \in 0 .. Timeout /\ call[t].left \in 0 .. Probes(route)
  /\ spared \in 0 .. Ttl

-----------------------------------------------------------------------------

\* _cached.
Fresh(entry, ttl) == entry.stamp < ttl

Answered(entry, cached) == [begun |-> entry.begun, ok |-> entry.ok, cached |-> cached]

\* A request that the cache answers: the sample, or the failure it holds.
Hit(t) ==
  /\ call[t].at = "idle"
  /\ \/ Fresh(sample, Ttl) /\ answer' = Answered(sample, TRUE)
     \/ /\ ~Fresh(sample, Ttl) /\ Fresh(failure, FailureTtl)
        /\ answer' = Answered(failure, TRUE)
  /\ UNCHANGED <<route, sample, failure, call, spared>>

\* A request that it does not: the first probe starts.
Miss(t) ==
  /\ call[t].at = "idle" /\ ~Fresh(sample, Ttl) /\ ~Fresh(failure, FailureTtl)
  /\ call' = [call EXCEPT ![t] = [NoCall EXCEPT !.at = "probe", !.left = Probes(route)]]
  /\ UNCHANGED <<route, sample, failure, answer, spared>>

\* Mutant: a failure is never stored.
NeverKeeps == FALSE

\* logs raises before it stores, the others store first.
KeepsFailure == route # "logs"

\* The entry of a request that is over, and whether its key is the failure's own.
Entry(c) ==
  [stamp |-> IF StampedEarly THEN c.begun ELSE 0, begun |-> c.begun, ok |-> c.ok]
Apart(c) == ~c.ok /\ route = "agility"

\* History: how long the service is not to be asked again, now that the request is
\* over.  A failure that is not stored, or is stored apart, shortens nothing.
Spares(c) ==
  CASE c.ok \/ route \notin {"logs", "agility"} ->
         IF ~StampedEarly THEN Ttl ELSE IF c.begun < Ttl THEN Ttl - c.begun ELSE 0
    [] Apart(c) -> IF spared > FailureTtl THEN spared ELSE FailureTtl
    [] OTHER -> spared

\* The request ends: it stores what it got, over what another one stored while it
\* was under way, and answers.
Finish(t, c) ==
  /\ call' = [call EXCEPT ![t] = NoCall]
  /\ answer' = Answered(Entry(c), FALSE)
  /\ IF c.ok \/ KeepsFailure
       THEN \/ ~Apart(c) /\ sample' = Entry(c) /\ UNCHANGED failure
            \/ Apart(c) /\ failure' = Entry(c) /\ UNCHANGED sample
       ELSE UNCHANGED <<sample, failure>>
  /\ spared' = Spares(c)
  /\ UNCHANGED route

\* A probe is answered: the next one is made, unless it was the last or failed.
ProbeAnswered(t, ok) ==
  /\ call[t].at = "probe"
  /\ LET c == [call[t] EXCEPT !.left = @ - 1, !.probe = 0, !.ok = @ /\ ok]
     IN IF c.left = 0 \/ (~ok /\ ~InPlace)
          THEN Finish(t, c)
          ELSE call' = [call EXCEPT ![t] = c] /\ UNCHANGED <<route, sample, failure, answer, spared>>

Tick ==
  /\ \A t \in Thread : call[t].at = "probe" => call[t].probe < Timeout
  /\ sample' = [sample EXCEPT !.stamp = Older(@), !.begun = Older(@)]
  /\ failure' = [failure EXCEPT !.stamp = Older(@), !.begun = Older(@)]
  /\ call' = [t \in Thread |->
       IF call[t].at = "idle" THEN call[t]
       ELSE [call[t] EXCEPT !.begun = @ + 1, !.probe = @ + 1]]
  /\ spared' = (IF spared = 0 THEN 0 ELSE spared - 1) /\ answer' = NoAnswer
  /\ UNCHANGED route
-----------------------------------------------------------------------------
Init ==
  /\ route \in Route
  /\ sample = NoEntry /\ failure = NoEntry
  /\ call = [t \in Thread |-> NoCall] /\ answer = NoAnswer
  /\ spared = 0

Next ==
  \/ \E t \in Thread : Hit(t) \/ Miss(t) \/ \E ok \in BOOLEAN : ProbeAnswered(t, ok)
  \/ Tick

Spec == Init /\ [][Next]_vars

-----------------------------------------------------------------------------
(* Properties.                                                             *)

\* However requests overlap, and although the older of two samples may replace
\* the newer one, an answer from the cache was begun no longer ago than its time
\* to live, the shorter one if it is a failure of agility, and the longest sample
\* together; on the routes that stamp early, than its time to live.
FreshEnough ==
  answer.cached =>
    answer.begun < (IF answer.ok THEN Ttl ELSE FailureTtl)
                   + (IF StampedEarly THEN 0 ELSE Longest)

\* What was stored spares the service, however many requests come: a sample, or a
\* failure, for its time to live.  It is counted from the store, and from the
\* request on the routes that stamp early: what took them as long as the time to
\* live spares the service nothing.
SparesService ==
  [][\A t \in Thread : call[t].at = "idle" /\ call'[t].at = "probe" => spared = 0]_vars

\* The requests of all visitors share one sample, that is fresh enough for the
\* last of them and spares the service that is asked (the routes with a cache).
SamplesAreShared == []FreshEnough /\ SparesService

=============================================================================
