---------------------------- MODULE ControlPlane ----------------------------
(***************************************************************************)
(* A change of the physics from the browser to the two KMEs: the pages     *)
(* /physics of the visitors, the three fan-out proxies of the web UI       *)
(* backend, which post to alice and then to bob, the two KMEs, and the     *)
(* cached key-rate verdict that /verify reads and a change drops.          *)
(*                                                                         *)
(* Every await lets another request run: a request is under way at a KME,  *)
(* an answer is under way to a browser, a verdict is computed while the    *)
(* parameters change.  A KME that is not reached in time may still serve   *)
(* the request later.                                                      *)
(***************************************************************************)
EXTENDS Naturals, FiniteSets

CONSTANTS
  Page,        \* open /physics pages
  Client,      \* other callers of the same routes
  Posted,      \* the changes they post
  Reader,      \* requests for the key-rate verdict that may overlap
  Param,       \* values of the one parameter that stands for all
  Default,     \* its value in qkd_params.yaml
  Backend,     \* names of backends
  None,
  MaxChanges,  \* bound: fan-outs started
  MaxEdits,    \* bound: drafts entered while an Apply is under way
  MaxFaults,   \* bound: failed, late or lost calls, and restarts
  MaxLoads     \* bound: loads of a page under way at once

Kme == {"alice", "bob"}
Visitor == Page \cup Client
Aspect == {"param", "backend"}
BackendAtBoot == CHOOSE b \in Backend : TRUE

ASSUME PlaneAssumption ==
  /\ Page \cap Client = {}
  /\ Default \in Param /\ None \notin Param \cup Backend /\ Backend # {}
  /\ Param \cap {"idle", "asked"} = {}
  /\ {MaxChanges, MaxEdits, MaxFaults, MaxLoads} \subseteq Nat

VARIABLES
  kme,      \* kme[k]: the parameter in force and the running backend
  late,     \* requests given up on that a KME may still serve
  fan,      \* fan[v]: the fan-out that visitor v started and waits for
  cache,    \* _pure_cache["keyrate"], as the parameter it was computed for
  reader,   \* reader[r]: a request for the verdict that missed the cache
  draft,    \* draft[v]: the edit not applied yet
  note,     \* note[v]: what the page says of the last request
  shown,    \* shown[v]: the parameter as last loaded
  loads,    \* loads[v]: answers to loads under way, as what they carry
  agreed,   \* history: aspects whose last change ran alone and was answered ok
  excuses,  \* history: why the cached verdict may be stale
  changes, edits, faults  \* the bounds' counters

server == <<kme, late, fan>>
verdict == <<cache, reader>>
pages == <<draft, note, shown, loads>>
history == <<agreed, excuses>>
counters == <<changes, edits, faults>>
vars == <<server, verdict, pages, history, counters>>

Change == [kind : {"params"}, value : Param] \cup [kind : {"reset"}, value : {None}]
          \cup [kind : {"backend"}, value : Backend]

ASSUME PostedAssumption == Posted \subseteq Change

\* "gave": what each KME answered; "did": history, the KMEs that applied it.
IdleFan == [at |-> "idle", change |-> [kind |-> "reset", value |-> None],
            gave |-> [k \in Kme |-> "nothing"], did |-> {}, alone |-> TRUE]
Outcome == {"nothing", "ok", "refused", "unreachable"}

TypeOK ==
  /\ kme \in [Kme -> [param : Param, backend : Backend]]
  /\ late \subseteq Kme \X Change
  /\ \A v \in Visitor :
       /\ fan[v].at \in {"idle", "alice", "bob", "reply", "replied"}
       /\ fan[v].gave \in [Kme -> Outcome]
       /\ fan[v].change \in Change
  /\ cache \in Param \cup {None}
  /\ \A r \in Reader : reader[r] \in {"idle", "asked"} \cup Param
  /\ draft \in [Page -> Param \cup {None}]
  /\ note \in [Page -> {"", "confirmed", "not confirmed"}]
  /\ shown \in [Page -> Param \cup {None}]
  /\ \A v \in Page : loads[v] \subseteq Param \cup {"asked"} /\ Cardinality(loads[v]) <= MaxLoads
  /\ agreed \subseteq Aspect /\ excuses \subseteq {"race", "raised", "external"}

-----------------------------------------------------------------------------
(* The KMEs.                                                               *)

AspectOf(change) == IF change.kind = "backend" THEN "backend" ELSE "param"

Applied(state, change) ==
  CASE change.kind = "params" -> [state EXCEPT !.param = change.value]
    [] change.kind = "reset" -> [state EXCEPT !.param = Default]
    [] change.kind = "backend" -> [state EXCEPT !.backend = change.value]

Fault == faults < MaxFaults /\ faults' = faults + 1

Busy(v) == fan[v].at # "idle"

InProgress == \E v \in Visitor : Busy(v)

\* The history of a change that overlapped something else.
Overlapped(aspects) ==
  [v \in Visitor |-> IF Busy(v) /\ AspectOf(fan[v].change) \in aspects
                       THEN [fan[v] EXCEPT !.alone = FALSE] ELSE fan[v]]

\* A KME restarts with the file's parameters and the backend it boots with.
Restart(k) ==
  /\ Fault
  /\ kme' = [kme EXCEPT ![k] = [param |-> Default, backend |-> BackendAtBoot]]
  /\ fan' = Overlapped(Aspect)
  /\ agreed' = {} /\ excuses' = excuses \cup {"external"}
  /\ UNCHANGED <<late, verdict, pages, changes, edits>>

\* A request given up on reaches its KME, or never does.
LateArrival(k, change) ==
  /\ <<k, change>> \in late
  /\ late' = late \ {<<k, change>>}
  /\ \/ kme' = [kme EXCEPT ![k] = Applied(@, change)]
     \/ kme' = kme
  /\ fan' = Overlapped({AspectOf(change)})
  /\ agreed' = agreed \ {AspectOf(change)}
  /\ excuses' = excuses \cup {"external"}
  /\ UNCHANGED <<verdict, pages, counters>>

-----------------------------------------------------------------------------
(* The fan-out of the web UI backend.                                      *)

\* _post_both: alice answers before bob is asked.
Then(k) == IF k = "alice" THEN "bob" ELSE "reply"

\* The KMEs that applied the change are a history of it.
Served(v, k, outcome, applied) ==
  LET one == fan[v]
  IN fan' = [fan EXCEPT ![v] = [one EXCEPT !.at = Then(k), !.gave[k] = outcome,
                                            !.did = one.did \cup applied]]

\* The KME applies the change and answers 200.
ServeOk(v, k) ==
  /\ fan[v].at = k
  /\ kme' = [kme EXCEPT ![k] = Applied(@, fan[v].change)]
  /\ Served(v, k, "ok", {k})
  /\ UNCHANGED <<late, verdict, pages, history, counters>>

\* The KME refuses: an unknown parameter or backend, a dependency not deployed.
ServeRefused(v, k) ==
  /\ fan[v].at = k /\ Fault
  /\ Served(v, k, "refused", {})
  /\ UNCHANGED <<kme, late, verdict, pages, history, changes, edits>>

\* The override is in force when reading the parameters for the answer raises.
ServeThenFails(v, k) ==
  /\ fan[v].at = k /\ fan[v].change.kind # "backend" /\ Fault
  /\ kme' = [kme EXCEPT ![k] = Applied(@, fan[v].change)]
  /\ Served(v, k, "refused", {k})
  /\ UNCHANGED <<late, verdict, pages, history, changes, edits>>

\* No connection, or no answer within the client's timeout.
ServeUnreachable(v, k) ==
  /\ fan[v].at = k /\ Fault
  /\ \/ late' = late
     \/ late' = late \cup {<<k, fan[v].change>>}
  /\ Served(v, k, "unreachable", {})
  /\ UNCHANGED <<kme, verdict, pages, history, changes, edits>>

\* Mutant: one KME that applied the change is enough.
AnyApplied(gave) == \E k \in Kme : gave[k] = "ok"

\* _fanout_result: "ok" means every peer was reached and answered.
AllApplied(gave) == \A k \in Kme : gave[k] = "ok"

\* The parameter proxy raises on a refusal before it drops the verdict; the
\* other two drop it first.
RaisesFirst(v) ==
  fan[v].change.kind = "params" /\ \E k \in Kme : fan[v].gave[k] = "refused"

\* Mutant: the verdict is left to its TTL.
NeverInvalidated(v) ==
  /\ UNCHANGED cache
  /\ excuses' = excuses

\* _invalidate_keyrate_cache.  A verdict that is being computed is stored
\* after it, and nothing tells it from a new one.
Invalidate(v) ==
  IF RaisesFirst(v)
    THEN /\ UNCHANGED cache
         /\ excuses' = excuses \cup {"raised"}
    ELSE /\ cache' = None
         /\ excuses' = (IF \E r \in Reader : reader[r] # "idle" THEN {"race"} ELSE {})
                       \cup (IF late # {} THEN {"external"} ELSE {})

\* The three proxies: drop the verdict, and answer or raise.
Reply(v) ==
  LET ok == AllApplied(fan[v].gave)
      aspect == AspectOf(fan[v].change)
  IN /\ fan[v].at = "reply"
     /\ Invalidate(v)
     /\ fan' = [fan EXCEPT ![v].at = "replied"]
     /\ agreed' = IF ok /\ fan[v].alone THEN agreed \cup {aspect} ELSE agreed \ {aspect}
     /\ UNCHANGED <<kme, late, reader, pages, counters>>

-----------------------------------------------------------------------------
(* The verdict of /verify.                                                 *)

\* A hit answers at once; a miss asks KME A.
Ask(r) ==
  /\ reader[r] = "idle" /\ cache = None
  /\ reader' = [reader EXCEPT ![r] = "asked"]
  /\ UNCHANGED <<server, cache, pages, history, counters>>

\* GET /sim/keyrate/crosscheck on KME A.
Crosscheck(r) ==
  /\ reader[r] = "asked"
  /\ reader' = [reader EXCEPT ![r] = kme["alice"].param]
  /\ UNCHANGED <<server, cache, pages, history, counters>>

\* The KME is unavailable or answers with an error, which is not stored.
CrosscheckFails(r) ==
  /\ reader[r] = "asked" /\ Fault
  /\ reader' = [reader EXCEPT ![r] = "idle"]
  /\ UNCHANGED <<server, cache, pages, history, changes, edits>>

Store(r) ==
  /\ reader[r] \in Param
  /\ cache' = reader[r]
  /\ reader' = [reader EXCEPT ![r] = "idle"]
  /\ UNCHANGED <<server, pages, history, counters>>

\* The TTL of the entry is over.
Expire ==
  /\ cache # None
  /\ cache' = None
  /\ excuses' = IF \E r \in Reader : reader[r] # "idle" THEN excuses ELSE {}
  /\ UNCHANGED <<server, reader, pages, agreed, counters>>

-----------------------------------------------------------------------------
(* The page /physics.                                                      *)

\* The inputs stay enabled while a request is under way.
Edit(v, value) ==
  /\ draft[v] # value
  /\ IF ~Busy(v) THEN edits' = edits
                       ELSE edits < MaxEdits /\ edits' = edits + 1
  /\ draft' = [draft EXCEPT ![v] = value]
  /\ UNCHANGED <<server, verdict, note, shown, loads, history, changes, faults>>

Request(v, change) ==
  /\ ~Busy(v) /\ changes < MaxChanges
  /\ changes' = changes + 1
  /\ LET others == Overlapped({AspectOf(change)})
     IN fan' = [others EXCEPT ![v] =
          [IdleFan EXCEPT !.at = "alice", !.change = change,
                          !.alone = (late = {} /\ \A w \in Visitor : Busy(w) =>
                                       AspectOf(fan[w].change) # AspectOf(change))]]
  /\ agreed' = agreed \ {AspectOf(change)}
  /\ UNCHANGED <<kme, late, verdict, excuses, edits, faults>>

\* A client posts a change of its own, and hears the answer.
Post(v, change) == Request(v, change) /\ UNCHANGED pages

Heard(v) ==
  /\ fan[v].at = "replied"
  /\ fan' = [fan EXCEPT ![v] = IdleFan]
  /\ UNCHANGED <<kme, late, verdict, pages, history, counters>>

\* What the page sends: its note is blanked, but not for a switch.
Send(v, change) ==
  /\ Request(v, change)
  /\ note' = [note EXCEPT ![v] = IF change.kind = "backend" THEN @ ELSE ""]
  /\ UNCHANGED <<draft, shown, loads>>

ApplyEdits(v) == draft[v] # None /\ Send(v, [kind |-> "params", value |-> draft[v]])

\* Mutant: a reset posts an override without a value.
ResetsByValue(v) == shown[v] # Default /\ Send(v, [kind |-> "params", value |-> None])

\* canReset: the page shows an override.
ResetParams(v) == shown[v] # Default /\ Send(v, [kind |-> "reset", value |-> None])

SwitchBackend(v, name) == Send(v, [kind |-> "backend", value |-> name])

\* Mutant: any HTTP 200 is a success.
AnyAnswerConfirms(v) == ~RaisesFirst(v)

\* fanoutFailure: HTTP 200 and ok: true in its body.
Confirms(v) == AllApplied(fan[v].gave)

\* Mutant: the draft is dropped whatever was answered.
AlwaysDrops(v) == fan[v].change.kind # "backend"

\* What the page drops: the drafts, after a confirmed Apply or any reset.
DropsDraft(v) ==
  fan[v].change.kind = "reset" \/ (fan[v].change.kind = "params" /\ Confirms(v))

\* Every request of the page is followed by a load.
Hear(v) ==
  /\ fan[v].at = "replied" /\ "asked" \notin loads[v]
  /\ Cardinality(loads[v]) < MaxLoads
  /\ note' = [note EXCEPT ![v] = IF Confirms(v) THEN "confirmed" ELSE "not confirmed"]
  /\ draft' = [draft EXCEPT ![v] = IF DropsDraft(v) THEN None ELSE @]
  /\ fan' = [fan EXCEPT ![v] = IdleFan]
  /\ loads' = [loads EXCEPT ![v] = @ \cup {"asked"}]
  /\ UNCHANGED <<kme, late, verdict, shown, history, counters>>

\* The answer does not reach the page, or the backend refused the request.
AnswerLost(v) ==
  /\ fan[v].at = "replied" /\ Fault /\ "asked" \notin loads[v]
  /\ Cardinality(loads[v]) < MaxLoads
  /\ note' = [note EXCEPT ![v] = "not confirmed"]
  /\ fan' = [fan EXCEPT ![v] = IdleFan]
  /\ loads' = [loads EXCEPT ![v] = @ \cup {"asked"}]
  /\ UNCHANGED <<kme, late, verdict, draft, shown, history, changes, edits>>

\* Mutant: the page does not poll while a draft is open.
PollsWithoutDraft(v) ==
  /\ draft[v] = None
  /\ "asked" \notin loads[v] /\ Cardinality(loads[v]) < MaxLoads
  /\ loads' = [loads EXCEPT ![v] = @ \cup {"asked"}]
  /\ UNCHANGED <<server, verdict, draft, note, shown, history, counters>>

\* The page polls every five seconds, whether or not a load is under way.
Poll(v) ==
  /\ "asked" \notin loads[v] /\ Cardinality(loads[v]) < MaxLoads
  /\ loads' = [loads EXCEPT ![v] = @ \cup {"asked"}]
  /\ UNCHANGED <<server, verdict, draft, note, shown, history, counters>>

\* GET /sim/params/editable is served by KME A.
ServeLoad(v) ==
  /\ "asked" \in loads[v]
  /\ loads' = [loads EXCEPT ![v] = (@ \ {"asked"}) \cup {kme["alice"].param}]
  /\ UNCHANGED <<server, verdict, draft, note, shown, history, counters>>

\* Answers arrive in any order.
Loaded(v, value) ==
  /\ value \in loads[v]
  /\ loads' = [loads EXCEPT ![v] = @ \ {value}]
  /\ shown' = [shown EXCEPT ![v] = value]
  /\ UNCHANGED <<server, verdict, draft, note, history, counters>>

\* The first load that fails shows the bundled defaults, later ones nothing new.
LoadFails(v) ==
  /\ "asked" \in loads[v] /\ Fault
  /\ loads' = [loads EXCEPT ![v] = @ \ {"asked"}]
  /\ shown' = [shown EXCEPT ![v] = IF @ = None THEN Default ELSE @]
  /\ UNCHANGED <<server, verdict, draft, note, history, changes, edits>>

-----------------------------------------------------------------------------
Init ==
  /\ kme = [k \in Kme |-> [param |-> Default, backend |-> BackendAtBoot]]
  /\ late = {} /\ fan = [v \in Visitor |-> IdleFan]
  /\ cache = None /\ reader = [r \in Reader |-> "idle"]
  /\ draft = [v \in Page |-> None]
  /\ note = [v \in Page |-> ""] /\ shown = [v \in Page |-> None]
  /\ loads = [v \in Page |-> {}]
  /\ agreed = Aspect /\ excuses = {}
  /\ changes = 0 /\ edits = 0 /\ faults = 0

FanOut(v) ==
  \/ \E k \in Kme : \/ ServeOk(v, k) \/ ServeRefused(v, k)
                    \/ ServeThenFails(v, k) \/ ServeUnreachable(v, k)
  \/ Reply(v)

Verify(r) == Ask(r) \/ Crosscheck(r) \/ CrosscheckFails(r) \/ Store(r)

OnPage(v) ==
  \/ \E value \in Param : Edit(v, value) \/ Loaded(v, value)
  \/ ApplyEdits(v) \/ ResetParams(v)
  \/ \E name \in Backend : SwitchBackend(v, name)
  \/ Hear(v) \/ AnswerLost(v)
  \/ Poll(v) \/ ServeLoad(v) \/ LoadFails(v)

Next ==
  \/ \E v \in Visitor : FanOut(v)
  \/ \E v \in Client : Heard(v) \/ \E change \in Posted : Post(v, change)
  \/ \E v \in Page : OnPage(v)
  \/ \E r \in Reader : Verify(r) \/ Expire
  \/ \E k \in Kme : Restart(k) \/ \E change \in Change : LateArrival(k, change)

Spec == Init /\ [][Next]_vars

\* Requests are answered, pages poll, and the TTL passes.
Fairness ==
  /\ \A v \in Visitor : WF_vars(FanOut(v))
  /\ \A v \in Page :
       /\ WF_vars(Hear(v))
       /\ WF_vars(Poll(v)) /\ WF_vars(ServeLoad(v))
       /\ \A value \in Param : WF_vars(Loaded(v, value))
  /\ \A r \in Reader : WF_vars(Crosscheck(r)) /\ WF_vars(Store(r))
  /\ WF_vars(Expire)
  /\ \A k \in Kme, change \in Change : WF_vars(LateArrival(k, change))

LiveSpec == Spec /\ Fairness

-----------------------------------------------------------------------------
(* Properties.                                                             *)

\* The two KMEs differ only where the last change of that kind was not
\* answered ok, overlapped another, or was followed by a restart or by a
\* request given up on: a half-applied change never passes for a whole one.
DivergenceIsReported == \A a \in agreed : kme["alice"][a] = kme["bob"][a]

\* A request is reported as applied only when both KMEs applied it while it ran.
ConfirmedIsApplied ==
  [][\A v \in Page : note'[v] = "confirmed" /\ Busy(v) /\ ~Busy(v)'
                        => fan[v].did = Kme]_vars

\* A draft the operator has not withdrawn is dropped only by an Apply that both
\* KMEs took, or with drafts entered while such an Apply or a reset was under way.
DraftIsKept ==
  [][\A v \in Page : draft[v] # None /\ draft'[v] = None /\ fan[v].change.kind = "params"
                        => fan[v].did = Kme]_vars

\* The verdict served from the cache is that of KME A's parameters when no
\* change is under way, except for a verdict that was being computed when a
\* change dropped the cache ("race"), an override answered with an error
\* ("raised"), and a restart or a late request ("external"); the TTL ends those.
VerdictIsCurrent ==
  ~InProgress /\ excuses = {} => cache \in {None, kme["alice"].param}

\* When the changes end, every page ends up with KME A's parameters, although
\* loads overlap and their answers are reordered.
CatchesUp == <>[](\A v \in Page : shown[v] = kme["alice"].param)
=============================================================================
