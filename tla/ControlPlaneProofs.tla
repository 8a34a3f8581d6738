------------------------- MODULE ControlPlaneProofs -------------------------
(***************************************************************************)
(* Proofs about ControlPlane, for every set of pages, other callers and    *)
(* readers, every set of parameters and backends, and every bound.         *)
(***************************************************************************)
EXTENDS ControlPlane, FiniteSetTheorems, TLAPS

-----------------------------------------------------------------------------
(* Types.  The fan-outs are records throughout, and what a page loads is a *)
(* finite set, so that counting the loads under way means something.       *)

FanOuts == [at : {"idle", "alice", "bob", "reply", "replied"}, change : Change,
            gave : [Kme -> Outcome], did : SUBSET Kme, alone : BOOLEAN]

TypeInv ==
  /\ kme \in [Kme -> [param : Param, backend : Backend]]
  /\ late \subseteq Kme \X Change
  /\ fan \in [Visitor -> FanOuts]
  /\ cache \in Param \cup {None}
  /\ reader \in [Reader -> {"idle", "asked"} \cup Param]
  /\ draft \in [Page -> Param \cup {None}]
  /\ note \in [Page -> {"", "confirmed", "not confirmed"}]
  /\ shown \in [Page -> Param \cup {None}]
  /\ loads \in [Page -> SUBSET (Param \cup {"asked"})]
  /\ \A v \in Page : IsFiniteSet(loads[v]) /\ Cardinality(loads[v]) <= MaxLoads
  /\ agreed \subseteq Aspect /\ excuses \subseteq {"race", "raised", "external"}

LEMMA TypeInvOK == TypeInv => TypeOK
BY DEF TypeInv, TypeOK, FanOuts

LEMMA AppliedType ==
  ASSUME NEW state \in [param : Param, backend : Backend], NEW change \in Change
  PROVE  Applied(state, change) \in [param : Param, backend : Backend]
BY PlaneAssumption DEF Applied, Change

LEMMA AspectType == \A change \in Change : AspectOf(change) \in Aspect
BY DEF AspectOf, Aspect

\* A change that overlaps others only marks them.
LEMMA OverlappedType ==
  ASSUME fan \in [Visitor -> FanOuts], NEW aspects
  PROVE  /\ Overlapped(aspects) \in [Visitor -> FanOuts]
         /\ \A v \in Visitor :
              /\ Overlapped(aspects)[v].at = fan[v].at
              /\ Overlapped(aspects)[v].change = fan[v].change
              /\ Overlapped(aspects)[v].gave = fan[v].gave
              /\ Overlapped(aspects)[v].did = fan[v].did
              /\ Overlapped(aspects)[v].alone =>
                   fan[v].alone /\ ~(Busy(v) /\ AspectOf(fan[v].change) \in aspects)
BY Zenon DEF Overlapped, FanOuts

LEMMA OverlappedAt ==
  ASSUME fan \in [Visitor -> FanOuts]
  PROVE  \A aspects : \A v \in Visitor : Overlapped(aspects)[v].at = fan[v].at
BY Zenon DEF Overlapped, FanOuts

\* An answer of one KME: the fan-out goes on to the next.
LEMMA ServedStep ==
  ASSUME TypeInv, NEW v \in Visitor, NEW k \in Kme, NEW outcome \in Outcome,
         NEW did \in SUBSET {k}, fan[v].at = k, Served(v, k, outcome, did)
  PROVE  /\ fan' \in [Visitor -> FanOuts]
         /\ \A w \in Visitor \ {v} : fan'[w] = fan[w]
         /\ fan'[v].at = Then(k) /\ fan'[v].change = fan[v].change
         /\ fan'[v].alone = fan[v].alone
         /\ fan'[v].gave = [fan[v].gave EXCEPT ![k] = outcome]
         /\ fan'[v].did = fan[v].did \cup did
<1>1. fan[v] \in FanOuts /\ Then(k) \in {"bob", "reply"}
  BY DEF TypeInv, Then
<1> DEFINE new == [fan[v] EXCEPT !.at = Then(k), !.gave = [fan[v].gave EXCEPT ![k] = outcome],
                                 !.did = fan[v].did \cup did]
<1>3. /\ new \in FanOuts /\ new.at = Then(k) /\ new.change = fan[v].change
      /\ new.alone = fan[v].alone /\ new.gave = [fan[v].gave EXCEPT ![k] = outcome]
      /\ new.did = fan[v].did \cup did
  BY <1>1 DEF FanOuts
<1>4. fan' = [fan EXCEPT ![v] = new]
  BY DEF Served
<1> HIDE DEF new
<1> QED
  BY <1>3, <1>4 DEF TypeInv

\* A fan-out that starts: the visitor's own is new, those it overlaps are
\* marked.
LEMMA RequestStep ==
  ASSUME TypeInv, NEW v \in Visitor, NEW change \in Change, Request(v, change)
  PROVE  /\ fan' \in [Visitor -> FanOuts]
         /\ fan'[v].at = "alice" /\ fan'[v].change = change
         /\ fan'[v].gave = IdleFan.gave /\ fan'[v].did = {}
         /\ fan'[v].alone => \A w \in Visitor : Busy(w) =>
                               AspectOf(fan[w].change) # AspectOf(change)
         /\ \A w \in Visitor \ {v} : fan'[w] = Overlapped({AspectOf(change)})[w]
<1> DEFINE others == Overlapped({AspectOf(change)})
           alone == late = {} /\ \A w \in Visitor : Busy(w) =>
                                   AspectOf(fan[w].change) # AspectOf(change)
           new == [IdleFan EXCEPT !.at = "alice", !.change = change, !.alone = alone]
<1>1. others \in [Visitor -> FanOuts]
  BY OverlappedType DEF TypeInv
<1>2. fan' = [others EXCEPT ![v] = new]
  BY DEF Request
<1>3. alone \in BOOLEAN
  OBVIOUS
<1>4. new.alone => alone
  BY DEF IdleFan
<1> HIDE DEF others, alone
<1>5. /\ new \in FanOuts /\ new.at = "alice" /\ new.change = change
      /\ new.gave = IdleFan.gave /\ new.did = {}
  BY <1>3 DEF FanOuts, IdleFan, Outcome
<1> HIDE DEF new
<1>6. /\ fan' \in [Visitor -> FanOuts] /\ fan'[v] = new
      /\ \A w \in Visitor \ {v} : fan'[w] = others[w]
  BY <1>1, <1>2, <1>5
<1> QED
  BY <1>4, <1>5, <1>6 DEF alone, others

LEMMA IdleFanType == IdleFan \in FanOuts /\ IdleFan.at = "idle" /\ IdleFan.change.kind = "reset"
BY DEF IdleFan, FanOuts, Change, Outcome

\* A load under way more, or one answered.
LEMMA LoadsType ==
  ASSUME TypeInv, NEW v \in Page, "asked" \notin loads[v], Cardinality(loads[v]) < MaxLoads,
         loads' = [loads EXCEPT ![v] = @ \cup {"asked"}]
  PROVE  /\ loads' \in [Page -> SUBSET (Param \cup {"asked"})]
         /\ \A w \in Page : IsFiniteSet(loads'[w]) /\ Cardinality(loads'[w]) <= MaxLoads
<1>1. /\ IsFiniteSet(loads[v]) /\ Cardinality(loads[v]) \in Nat
  BY FS_CardinalityType DEF TypeInv
<1>2. /\ IsFiniteSet(loads[v] \cup {"asked"})
      /\ Cardinality(loads[v] \cup {"asked"}) = Cardinality(loads[v]) + 1
  BY <1>1, FS_AddElement
<1>3. Cardinality(loads[v] \cup {"asked"}) <= MaxLoads
  BY <1>1, <1>2, PlaneAssumption
<1> QED
  BY <1>2, <1>3 DEF TypeInv

LEMMA AnsweredType ==
  ASSUME TypeInv, NEW v \in Page, NEW x \in loads[v],
         \/ loads' = [loads EXCEPT ![v] = @ \ {x}]
         \/ \E y \in Param : loads' = [loads EXCEPT ![v] = (@ \ {x}) \cup {y}]
  PROVE  /\ loads' \in [Page -> SUBSET (Param \cup {"asked"})]
         /\ \A w \in Page : IsFiniteSet(loads'[w]) /\ Cardinality(loads'[w]) <= MaxLoads
<1> DEFINE rest == loads[v] \ {x}
<1>1. IsFiniteSet(loads[v]) /\ Cardinality(loads[v]) \in Nat
  BY FS_CardinalityType DEF TypeInv
<1>2. IsFiniteSet(rest) /\ Cardinality(rest) = Cardinality(loads[v]) - 1
  BY <1>1, FS_RemoveElement
<1>3. PICK new : /\ loads' = [loads EXCEPT ![v] = new]
                 /\ new = rest \/ \E y \in Param : new = rest \cup {y}
  OBVIOUS
<1>4. rest \in SUBSET (Param \cup {"asked"})
  BY DEF TypeInv
<1> HIDE DEF rest
<1>5. new \in SUBSET (Param \cup {"asked"})
  BY <1>3, <1>4
<1>6. IsFiniteSet(new) /\ Cardinality(new) <= Cardinality(loads[v])
  <2>1. CASE new = rest
    BY <1>1, <1>2, <2>1
  <2>2. CASE \E y \in Param : new = rest \cup {y}
    <3>1. PICK y : new = rest \cup {y}
      BY <2>2
    <3>2. /\ IsFiniteSet(rest \cup {y})
          /\ Cardinality(rest \cup {y}) \in {Cardinality(rest), Cardinality(rest) + 1}
      BY <1>2, FS_AddElement
    <3>3. /\ IsFiniteSet(new)
          /\ Cardinality(new) \in {Cardinality(rest), Cardinality(rest) + 1}
      BY <3>1, <3>2, Zenon
    <3> QED
      BY <1>1, <1>2, <3>3
  <2> QED
    BY <1>3, <2>1, <2>2
<1>7. Cardinality(new) <= MaxLoads
  <2>1. Cardinality(new) \in Nat
    BY <1>6, FS_CardinalityType
  <2>2. Cardinality(loads[v]) <= MaxLoads /\ MaxLoads \in Nat
    BY PlaneAssumption DEF TypeInv
  <2> QED
    BY <1>1, <1>6, <2>1, <2>2
<1> QED
  BY <1>3, <1>5, <1>6, <1>7 DEF TypeInv

LEMMA TypeInit == Init => TypeInv
<1> SUFFICES ASSUME Init PROVE TypeInv
  OBVIOUS
<1>1. BackendAtBoot \in Backend
  BY PlaneAssumption DEF BackendAtBoot
<1>2. kme \in [Kme -> [param : Param, backend : Backend]]
  BY <1>1, PlaneAssumption DEF Init
<1>3. fan \in [Visitor -> FanOuts]
  BY IdleFanType DEF Init
<1>4. /\ loads \in [Page -> SUBSET (Param \cup {"asked"})]
      /\ \A v \in Page : IsFiniteSet(loads[v]) /\ Cardinality(loads[v]) <= MaxLoads
  <2>1. loads = [v \in Page |-> {}]
    BY DEF Init
  <2>2. IsFiniteSet({}) /\ Cardinality({}) <= MaxLoads
    BY FS_EmptySet, PlaneAssumption
  <2>3. \A v \in Page : loads[v] = {}
    BY <2>1
  <2>4. \A v \in Page : IsFiniteSet(loads[v]) /\ Cardinality(loads[v]) <= MaxLoads
    BY <2>2, <2>3, Zenon
  <2> QED
    BY <2>1, <2>4
<1>5. /\ draft \in [Page -> Param \cup {None}] /\ shown \in [Page -> Param \cup {None}]
      /\ note \in [Page -> {"", "confirmed", "not confirmed"}]
      /\ reader \in [Reader -> {"idle", "asked"} \cup Param]
  BY DEF Init
<1>6. late = {} /\ cache = None /\ agreed = Aspect /\ excuses = {}
  BY DEF Init
<1> QED
  BY <1>2, <1>3, <1>4, <1>5, <1>6 DEF TypeInv

\* The two KMEs and the web UI backend.
LEMMA TypeFanOut ==
  ASSUME TypeInv, NEW v \in Visitor, FanOut(v)
  PROVE  TypeInv'
<1>1. fan[v] \in FanOuts
  BY DEF TypeInv
<1>2. ASSUME NEW k \in Kme, ServeOk(v, k) \/ ServeRefused(v, k)
                            \/ ServeThenFails(v, k) \/ ServeUnreachable(v, k)
      PROVE  TypeInv'
  <2>1. PICK outcome \in Outcome, did \in SUBSET {k} : Served(v, k, outcome, did)
    BY <1>2 DEF ServeOk, ServeRefused, ServeThenFails, ServeUnreachable, Outcome
  <2>2. fan[v].at = k
    BY <1>2 DEF ServeOk, ServeRefused, ServeThenFails, ServeUnreachable
  <2>3. fan' \in [Visitor -> FanOuts]
    BY <2>1, <2>2, ServedStep
  <2>4. fan[v].change \in Change
    BY <1>1 DEF FanOuts
  <2>5. kme' \in [Kme -> [param : Param, backend : Backend]]
    <3>1. Applied(kme[k], fan[v].change) \in [param : Param, backend : Backend]
      BY <2>4, AppliedType DEF TypeInv
    <3>2. kme' = kme \/ kme' = [kme EXCEPT ![k] = Applied(kme[k], fan[v].change)]
      BY <1>2 DEF ServeOk, ServeRefused, ServeThenFails, ServeUnreachable
    <3> QED
      BY <3>1, <3>2 DEF TypeInv
  <2>6. late' \subseteq Kme \X Change
    <3>1. late' = late \/ late' = late \cup {<<k, fan[v].change>>}
      BY <1>2 DEF ServeOk, ServeRefused, ServeThenFails, ServeUnreachable
    <3>2. <<k, fan[v].change>> \in Kme \X Change
      BY <2>4
    <3>3. late \subseteq Kme \X Change
      BY DEF TypeInv
    <3> QED
      BY <3>1, <3>2, <3>3, Zenon
  <2>7. UNCHANGED <<verdict, pages, history>>
    BY <1>2 DEF ServeOk, ServeRefused, ServeThenFails, ServeUnreachable
  <2> QED
    BY <2>3, <2>5, <2>6, <2>7 DEF TypeInv, verdict, pages, history
<1>3. CASE Reply(v)
  <2>1. fan' \in [Visitor -> FanOuts]
    BY <1>1, <1>3 DEF Reply, TypeInv, FanOuts
  <2>2. agreed' \subseteq Aspect
    BY <1>1, <1>3, AspectType DEF Reply, TypeInv, FanOuts
  <2>3. /\ cache' \in Param \cup {None}
        /\ excuses' \subseteq {"race", "raised", "external"}
    BY <1>3 DEF Reply, Invalidate, TypeInv
  <2> QED
    BY <1>3, <2>1, <2>2, <2>3 DEF Reply, TypeInv, pages
<1> QED
  BY <1>2, <1>3 DEF FanOut

LEMMA TypeRequest ==
  ASSUME TypeInv, NEW v \in Visitor, NEW change \in Change, Request(v, change)
  PROVE  /\ kme' \in [Kme -> [param : Param, backend : Backend]]
         /\ late' \subseteq Kme \X Change
         /\ fan' \in [Visitor -> FanOuts]
         /\ cache' \in Param \cup {None}
         /\ reader' \in [Reader -> {"idle", "asked"} \cup Param]
         /\ agreed' \subseteq Aspect /\ excuses' \subseteq {"race", "raised", "external"}
<1>1. fan' \in [Visitor -> FanOuts]
  BY RequestStep
<1> QED
  BY <1>1 DEF Request, TypeInv, verdict

\* The pages.
LEMMA TypeOnPage ==
  ASSUME TypeInv, NEW v \in Page, OnPage(v)
  PROVE  TypeInv'
<1>1. v \in Visitor /\ fan[v] \in FanOuts
  BY DEF Visitor, TypeInv
<1>2. ASSUME NEW value \in Param, Edit(v, value) PROVE TypeInv'
  BY <1>2 DEF Edit, TypeInv, server, verdict, history
<1>3. ASSUME NEW value \in Param, Loaded(v, value) PROVE TypeInv'
  <2>1. /\ value \in loads[v] /\ loads' = [loads EXCEPT ![v] = loads[v] \ {value}]
        /\ shown' = [shown EXCEPT ![v] = value]
        /\ UNCHANGED <<server, verdict, draft, note, history>>
    BY <1>3 DEF Loaded
  <2>2. /\ loads' \in [Page -> SUBSET (Param \cup {"asked"})]
        /\ \A w \in Page : IsFiniteSet(loads'[w]) /\ Cardinality(loads'[w]) <= MaxLoads
    BY <2>1, AnsweredType
  <2> QED
    BY <2>1, <2>2 DEF TypeInv, server, verdict, history
<1>4. ASSUME NEW change \in Change, Send(v, change) PROVE TypeInv'
  BY <1>1, <1>4, TypeRequest DEF Send, TypeInv
<1>5. CASE ApplyEdits(v) \/ ResetParams(v) \/ \E name \in Backend : SwitchBackend(v, name)
  <2>1. \E change \in Change : Send(v, change)
    BY <1>5 DEF ApplyEdits, ResetParams, SwitchBackend, Change, TypeInv
  <2> QED
    BY <1>4, <2>1
<1>6. CASE Hear(v) \/ AnswerLost(v)
  <2>1. /\ loads' \in [Page -> SUBSET (Param \cup {"asked"})]
        /\ \A w \in Page : IsFiniteSet(loads'[w]) /\ Cardinality(loads'[w]) <= MaxLoads
    BY <1>6, LoadsType DEF Hear, AnswerLost
  <2>2. fan' = [fan EXCEPT ![v] = IdleFan]
    BY <1>6 DEF Hear, AnswerLost
  <2>3. fan' \in [Visitor -> FanOuts]
    BY <2>2, IdleFanType DEF TypeInv
  <2>4. /\ draft' \in [Page -> Param \cup {None}]
        /\ note' \in [Page -> {"", "confirmed", "not confirmed"}]
    BY <1>6 DEF Hear, AnswerLost, TypeInv
  <2> QED
    BY <1>6, <2>1, <2>3, <2>4 DEF Hear, AnswerLost, TypeInv, verdict, history
<1>7. CASE Poll(v)
  <2>1. /\ loads' \in [Page -> SUBSET (Param \cup {"asked"})]
        /\ \A w \in Page : IsFiniteSet(loads'[w]) /\ Cardinality(loads'[w]) <= MaxLoads
    BY <1>7, LoadsType DEF Poll
  <2> QED
    BY <1>7, <2>1 DEF Poll, TypeInv, server, verdict, history
<1>8. CASE ServeLoad(v)
  <2>1. kme["alice"].param \in Param
    BY DEF TypeInv, Kme
  <2>2. /\ loads' \in [Page -> SUBSET (Param \cup {"asked"})]
        /\ \A w \in Page : IsFiniteSet(loads'[w]) /\ Cardinality(loads'[w]) <= MaxLoads
    BY <1>8, <2>1, AnsweredType DEF ServeLoad
  <2> QED
    BY <1>8, <2>2 DEF ServeLoad, TypeInv, server, verdict, history
<1>9. CASE LoadFails(v)
  <2>1. "asked" \in loads[v] /\ loads' = [loads EXCEPT ![v] = loads[v] \ {"asked"}]
    BY <1>9 DEF LoadFails
  <2>2. /\ loads' \in [Page -> SUBSET (Param \cup {"asked"})]
        /\ \A w \in Page : IsFiniteSet(loads'[w]) /\ Cardinality(loads'[w]) <= MaxLoads
    BY <2>1, AnsweredType
  <2>3. shown' \in [Page -> Param \cup {None}]
    BY <1>9, PlaneAssumption DEF LoadFails, TypeInv
  <2> QED
    BY <1>9, <2>2, <2>3 DEF LoadFails, TypeInv, server, verdict, history
<1> QED
  BY <1>2, <1>3, <1>5, <1>6, <1>7, <1>8, <1>9 DEF OnPage

LEMMA TypeStep ==
  ASSUME TypeInv, [Next]_vars PROVE TypeInv'
<1>1. ASSUME NEW v \in Visitor, FanOut(v) PROVE TypeInv'
  BY <1>1, TypeFanOut
<1>2. ASSUME NEW v \in Client, Heard(v) PROVE TypeInv'
  <2>1. fan' \in [Visitor -> FanOuts]
    BY <1>2, IdleFanType DEF Heard, TypeInv
  <2> QED
    BY <1>2, <2>1 DEF Heard, TypeInv, verdict, pages, history
<1>3. ASSUME NEW v \in Client, NEW change \in Posted, Post(v, change) PROVE TypeInv'
  BY <1>3, TypeRequest, PostedAssumption DEF Post, TypeInv, pages, Visitor
<1>4. ASSUME NEW v \in Page, OnPage(v) PROVE TypeInv'
  BY <1>4, TypeOnPage
<1>5. ASSUME NEW r \in Reader, Verify(r) \/ Expire PROVE TypeInv'
  <2>1. cache' \in Param \cup {None} /\ excuses' \subseteq {"race", "raised", "external"}
    BY <1>5 DEF Verify, Ask, Crosscheck, CrosscheckFails, Store, Expire, TypeInv, history
  <2>2. reader' \in [Reader -> {"idle", "asked"} \cup Param]
    BY <1>5 DEF Verify, Ask, Crosscheck, CrosscheckFails, Store, Expire, TypeInv, Kme
  <2>3. UNCHANGED <<server, pages, agreed>>
    BY <1>5 DEF Verify, Ask, Crosscheck, CrosscheckFails, Store, Expire, history
  <2> QED
    BY <2>1, <2>2, <2>3 DEF TypeInv, server, pages
<1>6. ASSUME NEW k \in Kme, Restart(k) PROVE TypeInv'
  <2>1. BackendAtBoot \in Backend
    BY PlaneAssumption DEF BackendAtBoot
  <2>2. /\ kme' \in [Kme -> [param : Param, backend : Backend]]
        /\ fan' \in [Visitor -> FanOuts]
    BY <1>6, <2>1, PlaneAssumption, OverlappedType DEF Restart, TypeInv
  <2> QED
    BY <1>6, <2>2 DEF Restart, TypeInv, verdict, pages
<1>7. ASSUME NEW k \in Kme, NEW change \in Change, LateArrival(k, change) PROVE TypeInv'
  <2>1. Applied(kme[k], change) \in [param : Param, backend : Backend]
    BY AppliedType DEF TypeInv
  <2>2. kme' = [kme EXCEPT ![k] = Applied(kme[k], change)] \/ kme' = kme
    BY <1>7 DEF LateArrival
  <2>3. kme' \in [Kme -> [param : Param, backend : Backend]]
    BY <2>1, <2>2 DEF TypeInv
  <2>4. fan' \in [Visitor -> FanOuts]
    BY <1>7, OverlappedType DEF LateArrival, TypeInv
  <2> QED
    BY <1>7, <2>3, <2>4 DEF LateArrival, TypeInv, verdict, pages
<1>8. CASE UNCHANGED vars
  BY <1>8 DEF vars, server, verdict, pages, history, TypeInv
<1> QED
  BY <1>1, <1>2, <1>3, <1>4, <1>5, <1>6, <1>7, <1>8 DEF Next

\* Every reachable state is well typed: in particular no page ever has more
\* loads under way than the bound allows.
THEOREM PlaneTypes == Spec => []TypeOK
BY TypeInit, TypeStep, TypeInvOK, PTL DEF Spec

-----------------------------------------------------------------------------
(* A half-applied change.  A fan-out at work has no agreement on its       *)
(* aspect; one that ran alone knows what is in force at every KME that     *)
(* answered it ok, because whatever else sets that aspect marks it.        *)

AtWork(v) == fan[v].at \in {"alice", "bob", "reply"}
On(v) == AspectOf(fan[v].change)
Target(change) == IF change.kind = "reset" THEN Default ELSE change.value

FanInv ==
  /\ \A v, w \in Visitor :
       v # w /\ Busy(v) /\ Busy(w) /\ On(v) = On(w) => ~fan[v].alone
  /\ \A v \in Visitor : AtWork(v) => On(v) \notin agreed
  /\ \A v \in Visitor, k \in Kme :
       AtWork(v) /\ fan[v].alone /\ fan[v].gave[k] = "ok" => kme[k][On(v)] = Target(fan[v].change)
  /\ \A v \in Visitor, k \in Kme : fan[v].gave[k] = "ok" => k \in fan[v].did

\* The cached verdict.  It may only be stale while the change that made it so
\* is still to be answered, and so is every verdict being computed.
Superseding(v) ==
  fan[v].at \in {"bob", "reply"} /\ On(v) = "param" /\ "alice" \in fan[v].did

VerdictInv ==
  excuses = {} =>
    \/ \E v \in Visitor : Superseding(v)
    \/ /\ cache \in {None, kme["alice"].param}
       /\ \A r \in Reader : reader[r] \in {"idle", "asked", kme["alice"].param}

\* A change sets its own aspect and no other.
LEMMA AppliedAspect ==
  ASSUME NEW state \in [param : Param, backend : Backend], NEW change \in Change
  PROVE  /\ Applied(state, change)[AspectOf(change)] = Target(change)
         /\ \A a \in Aspect : a # AspectOf(change) => Applied(state, change)[a] = state[a]
<1>1. CASE change.kind = "params"
  BY <1>1 DEF Applied, Change, AspectOf, Aspect, Target
<1>2. CASE change.kind = "reset"
  BY <1>2 DEF Applied, Change, AspectOf, Aspect, Target
<1>3. CASE change.kind = "backend"
  BY <1>3 DEF Applied, Change, AspectOf, Aspect, Target
<1> QED
  BY <1>1, <1>2, <1>3 DEF Change

LEMMA FanFields ==
  ASSUME TypeInv, NEW v \in Visitor
  PROVE  /\ fan[v].change \in Change /\ On(v) \in Aspect /\ fan[v].alone \in BOOLEAN
         /\ fan[v].at \in {"idle", "alice", "bob", "reply", "replied"}
         /\ fan[v].gave \in [Kme -> Outcome] /\ fan[v].did \subseteq Kme
         /\ (Busy(v) <=> AtWork(v) \/ fan[v].at = "replied")
BY AspectType DEF TypeInv, FanOuts, On, AtWork, Busy

FanSafe == FanInv /\ DivergenceIsReported

LEMMA FanFrame ==
  ASSUME FanSafe, UNCHANGED <<kme, fan, agreed>>
  PROVE  FanSafe'
BY DEF FanSafe, FanInv, DivergenceIsReported, Busy, On, AtWork

\* A visitor that heard its answer is idle again.
LEMMA FanIdle ==
  ASSUME TypeInv, FanSafe, NEW v \in Visitor, fan' = [fan EXCEPT ![v] = IdleFan],
         UNCHANGED <<kme, agreed>>
  PROVE  FanSafe'
<1>1. fan'[v] = IdleFan /\ \A w \in Visitor \ {v} : fan'[w] = fan[w]
  BY DEF TypeInv
<1>2. IdleFan.at = "idle" /\ \A k \in Kme : IdleFan.gave[k] # "ok"
  BY DEF IdleFan
<1>3. ~Busy(v)' /\ ~AtWork(v)' /\ \A k \in Kme : fan'[v].gave[k] # "ok"
  BY <1>1, <1>2 DEF Busy, AtWork
<1>4. \A w \in Visitor \ {v} : /\ Busy(w)' = Busy(w) /\ AtWork(w)' = AtWork(w)
                              /\ On(w)' = On(w)
  BY <1>1 DEF Busy, AtWork, On
<1>5. FanInv'
  BY <1>1, <1>3, <1>4 DEF FanSafe, FanInv
<1> QED
  BY <1>5 DEF FanSafe, DivergenceIsReported

\* One KME's answer.
LEMMA FanServed ==
  ASSUME TypeInv, FanSafe, NEW v \in Visitor, NEW k \in Kme, NEW outcome \in Outcome,
         NEW did \in SUBSET {k}, fan[v].at = k, Served(v, k, outcome, did),
         outcome = "ok" => did = {k} /\ kme' = [kme EXCEPT ![k] = Applied(kme[k], fan[v].change)],
         kme' = kme \/ kme' = [kme EXCEPT ![k] = Applied(kme[k], fan[v].change)],
         agreed' = agreed
  PROVE  FanSafe'
<1>1. /\ \A w \in Visitor \ {v} : fan'[w] = fan[w]
      /\ fan'[v].at = Then(k) /\ fan'[v].change = fan[v].change
      /\ fan'[v].alone = fan[v].alone
      /\ fan'[v].gave = [fan[v].gave EXCEPT ![k] = outcome]
      /\ fan'[v].did = fan[v].did \cup did
  BY ServedStep
<1>2. AtWork(v) /\ Busy(v) /\ AtWork(v)' /\ Busy(v)'
  BY <1>1 DEF AtWork, Busy, Kme, Then
<1>3. \A w \in Visitor : /\ Busy(w)' = Busy(w) /\ AtWork(w)' = AtWork(w)
                         /\ On(w)' = On(w) /\ fan'[w].alone = fan[w].alone
  BY <1>1, <1>2 DEF Busy, AtWork, On
<1>4. /\ \A j \in Kme, a \in Aspect : a # On(v) => kme'[j][a] = kme[j][a]
      /\ outcome = "ok" => kme'[k][On(v)] = Target(fan[v].change)
      /\ \A j \in Kme \ {k} : kme'[j] = kme[j]
  <2>1. kme[k] \in [param : Param, backend : Backend] /\ kme \in [Kme -> [param : Param, backend : Backend]]
    BY DEF TypeInv
  <2>2. fan[v].change \in Change
    BY FanFields
  <2>3. /\ Applied(kme[k], fan[v].change)[On(v)] = Target(fan[v].change)
        /\ \A a \in Aspect : a # On(v) => Applied(kme[k], fan[v].change)[a] = kme[k][a]
    BY <2>1, <2>2, AppliedAspect DEF On
  <2> QED
    BY <2>1, <2>3
<1>5. ASSUME NEW w \in Visitor, NEW j \in Kme, AtWork(w)', fan'[w].alone, fan'[w].gave[j] = "ok"
      PROVE  kme'[j][On(w)'] = Target(fan'[w].change)
  <2>1. CASE w = v /\ j = k
    BY <1>1, <1>3, <1>4, <1>5, <2>1, FanFields
  <2>2. CASE w = v /\ j # k
    BY <1>1, <1>2, <1>3, <1>4, <1>5, <2>2, FanFields DEF FanSafe, FanInv
  <2>3. CASE w # v
    <3>1. Busy(w) /\ AtWork(w) /\ fan[w].alone /\ fan[w].gave[j] = "ok"
      BY <1>1, <1>3, <1>5, <2>3, FanFields
    <3>2. On(w) # On(v)
      BY <1>2, <2>3, <3>1 DEF FanSafe, FanInv
    <3> QED
      BY <1>1, <1>3, <1>4, <2>3, <3>1, <3>2, FanFields DEF FanSafe, FanInv
  <2> QED
    BY <2>1, <2>2, <2>3
<1>6. \A w \in Visitor, j \in Kme : fan'[w].gave[j] = "ok" => j \in fan'[w].did
  BY <1>1, FanFields DEF FanSafe, FanInv
<1>7. FanInv'
  BY <1>3, <1>5, <1>6 DEF FanSafe, FanInv
<1>8. DivergenceIsReported'
  <2>1. On(v) \notin agreed /\ agreed \subseteq Aspect
    BY <1>2 DEF FanSafe, FanInv, TypeInv
  <2>2. "alice" \in Kme /\ "bob" \in Kme
    BY DEF Kme
  <2>3. ASSUME NEW a \in agreed PROVE kme'["alice"][a] = kme'["bob"][a]
    <3>1. a \in Aspect /\ a # On(v) /\ kme["alice"][a] = kme["bob"][a]
      BY <2>1, <2>3 DEF FanSafe, DivergenceIsReported
    <3> QED
      BY <1>4, <2>2, <3>1
  <2> QED
    BY <2>3 DEF DivergenceIsReported
<1> QED
  BY <1>7, <1>8 DEF FanSafe

\* The answer to the visitor.
LEMMA FanReply ==
  ASSUME TypeInv, FanSafe, NEW v \in Visitor, Reply(v)
  PROVE  FanSafe'
<1>1. /\ fan[v].at = "reply" /\ fan' = [fan EXCEPT ![v].at = "replied"] /\ kme' = kme
      /\ \/ /\ AllApplied(fan[v].gave) /\ fan[v].alone
            /\ agreed' = agreed \cup {On(v)}
         \/ agreed' = agreed \ {On(v)}
  BY DEF Reply, On
<1>2. /\ \A w \in Visitor \ {v} : fan'[w] = fan[w]
      /\ fan'[v].at = "replied" /\ fan'[v].change = fan[v].change
      /\ fan'[v].alone = fan[v].alone /\ fan'[v].gave = fan[v].gave
      /\ fan'[v].did = fan[v].did
  <2>1. fan[v] \in FanOuts /\ fan \in [Visitor -> FanOuts]
    BY DEF TypeInv
  <2>2. fan'[v] = [fan[v] EXCEPT !.at = "replied"] /\ \A w \in Visitor \ {v} : fan'[w] = fan[w]
    BY <1>1, <2>1
  <2> QED
    BY <2>1, <2>2 DEF FanOuts
<1>3. AtWork(v) /\ Busy(v) /\ ~AtWork(v)' /\ Busy(v)'
  BY <1>1, <1>2 DEF AtWork, Busy
<1>4. \A w \in Visitor : /\ Busy(w)' = Busy(w) /\ (AtWork(w)' => AtWork(w) /\ w # v)
                         /\ On(w)' = On(w) /\ fan'[w].alone = fan[w].alone
                         /\ fan'[w].gave = fan[w].gave /\ fan'[w].did = fan[w].did
                         /\ fan'[w].change = fan[w].change
  BY <1>2, <1>3 DEF Busy, AtWork, On
<1>5. \A w \in Visitor : AtWork(w)' => On(w)' \notin agreed'
  <2> SUFFICES ASSUME NEW w \in Visitor, AtWork(w)' PROVE On(w) \notin agreed'
    BY <1>4
  <2>1. AtWork(w) /\ Busy(w) /\ w # v /\ On(w) \notin agreed
    BY <1>4, FanFields DEF FanSafe, FanInv
  <2>2. fan[v].alone => On(w) # On(v)
    BY <1>3, <2>1 DEF FanSafe, FanInv
  <2> QED
    BY <1>1, <2>1, <2>2
<1>6. FanInv'
  BY <1>1, <1>4, <1>5 DEF FanSafe, FanInv
<1>7. AllApplied(fan[v].gave) /\ fan[v].alone => kme["alice"][On(v)] = kme["bob"][On(v)]
  BY <1>3 DEF FanSafe, FanInv, AllApplied, Kme
<1>8. DivergenceIsReported'
  BY <1>1, <1>7 DEF FanSafe, DivergenceIsReported
<1> QED
  BY <1>6, <1>8 DEF FanSafe

\* A fan-out starts.
LEMMA FanRequest ==
  ASSUME TypeInv, FanSafe, NEW v \in Visitor, NEW change \in Change, Request(v, change)
  PROVE  FanSafe'
<1> DEFINE aspect == AspectOf(change)
<1>1. /\ fan'[v].at = "alice" /\ fan'[v].change = change
      /\ fan'[v].gave = IdleFan.gave /\ fan'[v].did = {}
      /\ fan'[v].alone => \A w \in Visitor : Busy(w) => On(w) # aspect
      /\ \A w \in Visitor \ {v} : fan'[w] = Overlapped({aspect})[w]
  BY RequestStep DEF On
<1>2. /\ ~Busy(v) /\ agreed' = agreed \ {aspect} /\ kme' = kme
  BY DEF Request
<1>3. \A w \in Visitor \ {v} :
        /\ fan'[w].at = fan[w].at /\ fan'[w].change = fan[w].change
        /\ fan'[w].gave = fan[w].gave /\ fan'[w].did = fan[w].did
        /\ (fan'[w].alone => fan[w].alone /\ ~(Busy(w) /\ On(w) = aspect))
  <2>1. fan \in [Visitor -> FanOuts]
    BY DEF TypeInv
  <2>2. \A w \in Visitor :
          /\ Overlapped({aspect})[w].at = fan[w].at
          /\ Overlapped({aspect})[w].change = fan[w].change
          /\ Overlapped({aspect})[w].gave = fan[w].gave
          /\ Overlapped({aspect})[w].did = fan[w].did
          /\ Overlapped({aspect})[w].alone =>
               fan[w].alone /\ ~(Busy(w) /\ AspectOf(fan[w].change) \in {aspect})
    BY <2>1, OverlappedType
  <2> QED
    BY <1>1, <2>2 DEF On
<1>4. \A k \in Kme : IdleFan.gave[k] # "ok"
  BY DEF IdleFan
<1>5. /\ Busy(v)' /\ On(v)' = aspect
      /\ \A w \in Visitor \ {v} : /\ Busy(w)' = Busy(w) /\ AtWork(w)' = AtWork(w)
                                  /\ On(w)' = On(w)
  BY <1>1, <1>3 DEF Busy, AtWork, On
<1> HIDE DEF aspect
<1>6. \A w, u \in Visitor :
        w # u /\ Busy(w)' /\ Busy(u)' /\ On(w)' = On(u)' => ~fan'[w].alone
  BY <1>1, <1>3, <1>5 DEF FanSafe, FanInv
<1>7. \A w \in Visitor : AtWork(w)' => On(w)' \notin agreed'
  BY <1>2, <1>5 DEF FanSafe, FanInv
<1>8. ASSUME NEW w \in Visitor, NEW k \in Kme, AtWork(w)', fan'[w].alone, fan'[w].gave[k] = "ok"
      PROVE  kme'[k][On(w)'] = Target(fan'[w].change)
  <2>1. w # v
    BY <1>1, <1>4, <1>8
  <2> QED
    BY <1>2, <1>3, <1>5, <1>8, <2>1 DEF FanSafe, FanInv
<1>9. \A w \in Visitor, k \in Kme : fan'[w].gave[k] = "ok" => k \in fan'[w].did
  BY <1>1, <1>3, <1>4 DEF FanSafe, FanInv
<1>10. FanInv'
  BY <1>6, <1>7, <1>8, <1>9 DEF FanInv
<1>11. DivergenceIsReported'
  BY <1>2 DEF FanSafe, DivergenceIsReported
<1> QED
  BY <1>10, <1>11 DEF FanSafe

\* What sets some aspects from outside marks the fan-outs of these aspects.
LEMMA FanOverlapped ==
  ASSUME TypeInv, FanSafe, NEW aspects \in SUBSET Aspect, fan' = Overlapped(aspects),
         agreed' = agreed \ aspects,
         \A k \in Kme, a \in Aspect \ aspects : kme'[k][a] = kme[k][a]
  PROVE  FanSafe'
<1>1. \A w \in Visitor :
        /\ fan'[w].at = fan[w].at /\ fan'[w].change = fan[w].change
        /\ fan'[w].gave = fan[w].gave /\ fan'[w].did = fan[w].did
        /\ (fan'[w].alone => fan[w].alone /\ ~(Busy(w) /\ On(w) \in aspects))
  <2>1. fan \in [Visitor -> FanOuts]
    BY DEF TypeInv
  <2>2. \A w \in Visitor :
          /\ Overlapped(aspects)[w].at = fan[w].at
          /\ Overlapped(aspects)[w].change = fan[w].change
          /\ Overlapped(aspects)[w].gave = fan[w].gave
          /\ Overlapped(aspects)[w].did = fan[w].did
          /\ Overlapped(aspects)[w].alone =>
               fan[w].alone /\ ~(Busy(w) /\ AspectOf(fan[w].change) \in aspects)
    BY <2>1, OverlappedType
  <2> QED
    BY <2>2 DEF On
<1>2. \A w \in Visitor : /\ Busy(w)' = Busy(w) /\ AtWork(w)' = AtWork(w) /\ On(w)' = On(w)
  BY <1>1 DEF Busy, AtWork, On
<1>3. ASSUME NEW w \in Visitor, NEW k \in Kme, AtWork(w)', fan'[w].alone, fan'[w].gave[k] = "ok"
      PROVE  kme'[k][On(w)'] = Target(fan'[w].change)
  <2>1. AtWork(w) /\ fan[w].alone /\ fan[w].gave[k] = "ok" /\ On(w) \in Aspect \ aspects
    BY <1>1, <1>2, <1>3, FanFields
  <2>2. kme[k][On(w)] = Target(fan[w].change)
    BY <2>1 DEF FanSafe, FanInv
  <2> QED
    BY <1>1, <1>2, <2>1, <2>2
<1>4. FanInv'
  BY <1>1, <1>2, <1>3 DEF FanSafe, FanInv
<1>5. ASSUME NEW a \in agreed' PROVE kme'["alice"][a] = kme'["bob"][a]
  <2>1. a \in agreed /\ a \in Aspect \ aspects /\ "alice" \in Kme /\ "bob" \in Kme
    BY <1>5 DEF TypeInv, Kme
  <2> QED
    BY <2>1 DEF FanSafe, DivergenceIsReported
<1> QED
  BY <1>4, <1>5 DEF FanSafe, DivergenceIsReported

LEMMA FanStep == ASSUME TypeInv, FanSafe, [Next]_vars PROVE FanSafe'
<1>1. ASSUME NEW v \in Visitor, FanOut(v) PROVE FanSafe'
  <2>1. ASSUME NEW k \in Kme, ServeOk(v, k) PROVE FanSafe'
    BY <2>1, FanServed DEF ServeOk, Outcome, history
  <2>2. ASSUME NEW k \in Kme, ServeRefused(v, k) PROVE FanSafe'
    BY <2>2, FanServed DEF ServeRefused, Outcome, history
  <2>3. ASSUME NEW k \in Kme, ServeThenFails(v, k) PROVE FanSafe'
    BY <2>3, FanServed DEF ServeThenFails, Outcome, history
  <2>4. ASSUME NEW k \in Kme, ServeUnreachable(v, k) PROVE FanSafe'
    BY <2>4, FanServed DEF ServeUnreachable, Outcome, history
  <2> QED
    BY <1>1, <2>1, <2>2, <2>3, <2>4, FanReply DEF FanOut
<1>2. ASSUME NEW v \in Client, Heard(v) PROVE FanSafe'
  BY <1>2, FanIdle DEF Heard, history, Visitor
<1>3. ASSUME NEW v \in Client, NEW change \in Posted, Post(v, change) PROVE FanSafe'
  BY <1>3, FanRequest, PostedAssumption DEF Post, Visitor
<1>4. ASSUME NEW v \in Page, OnPage(v) PROVE FanSafe'
  <2>1. v \in Visitor
    BY DEF Visitor
  <2>2. CASE ApplyEdits(v) \/ ResetParams(v) \/ \E name \in Backend : SwitchBackend(v, name)
    <3>1. \E change \in Change : Request(v, change)
      BY <2>2 DEF ApplyEdits, ResetParams, SwitchBackend, Send, Change, TypeInv
    <3> QED
      BY <2>1, <3>1, FanRequest
  <2>3. CASE Hear(v) \/ AnswerLost(v)
    BY <2>1, <2>3, FanIdle DEF Hear, AnswerLost, history
  <2>4. CASE \/ \E value \in Param : Edit(v, value) \/ Loaded(v, value)
             \/ Poll(v) \/ ServeLoad(v) \/ LoadFails(v)
    BY <2>4, FanFrame DEF Edit, Loaded, Poll, ServeLoad, LoadFails, server, history
  <2> QED
    BY <1>4, <2>2, <2>3, <2>4 DEF OnPage
<1>5. ASSUME NEW r \in Reader, Verify(r) \/ Expire PROVE FanSafe'
  BY <1>5, FanFrame
     DEF Verify, Ask, Crosscheck, CrosscheckFails, Store, Expire, server, history
<1>6. ASSUME NEW k \in Kme, Restart(k) PROVE FanSafe'
  <2>1. fan' = Overlapped(Aspect) /\ agreed' = agreed \ Aspect
    BY <1>6 DEF Restart, TypeInv
  <2> QED
    BY <2>1, FanOverlapped
<1>7. ASSUME NEW k \in Kme, NEW change \in Change, LateArrival(k, change) PROVE FanSafe'
  <2>1. /\ fan' = Overlapped({AspectOf(change)}) /\ agreed' = agreed \ {AspectOf(change)}
        /\ kme' = [kme EXCEPT ![k] = Applied(kme[k], change)] \/ kme' = kme
    BY <1>7 DEF LateArrival
  <2>2. \A a \in Aspect \ {AspectOf(change)} : Applied(kme[k], change)[a] = kme[k][a]
    <3>1. kme[k] \in [param : Param, backend : Backend]
      BY DEF TypeInv
    <3> QED
      BY <3>1, AppliedAspect
  <2>3. \A j \in Kme, a \in Aspect \ {AspectOf(change)} : kme'[j][a] = kme[j][a]
    BY <2>1, <2>2 DEF TypeInv
  <2> QED
    BY <2>1, <2>3, FanOverlapped, AspectType
<1>8. CASE UNCHANGED vars
  BY <1>8, FanFrame DEF vars, server, history
<1> QED
  BY <1>1, <1>2, <1>3, <1>4, <1>5, <1>6, <1>7, <1>8 DEF Next

LEMMA FanInit == Init => FanSafe
<1> SUFFICES ASSUME Init PROVE FanSafe
  OBVIOUS
<1>1. \A v \in Visitor : fan[v] = IdleFan
  BY DEF Init
<1>2. IdleFan.at = "idle" /\ \A k \in Kme : IdleFan.gave[k] # "ok"
  BY DEF IdleFan
<1>3. FanInv
  BY <1>1, <1>2 DEF FanInv, Busy, AtWork
<1>4. kme["alice"] = kme["bob"]
  BY DEF Init, Kme
<1> QED
  BY <1>3, <1>4 DEF FanSafe, DivergenceIsReported

\* The two KMEs agree on every aspect whose last change ran alone and was
\* answered ok: a half-applied change never passes for a whole one.
THEOREM DivergenceNeverHides == Spec => []DivergenceIsReported
<1>1. Init => TypeInv /\ FanSafe
  BY TypeInit, FanInit
<1>2. TypeInv /\ FanSafe /\ [Next]_vars => (TypeInv /\ FanSafe)'
  BY TypeStep, FanStep
<1>3. TypeInv /\ FanSafe => DivergenceIsReported
  BY DEF FanSafe
<1> QED
  BY <1>1, <1>2, <1>3, PTL DEF Spec

-----------------------------------------------------------------------------
(* What the page says and drops.                                           *)

\* A page that has its answer heard it in this step.
LEMMA HeardStep ==
  ASSUME TypeInv, FanSafe, [Next]_vars, NEW v \in Page
  PROVE  /\ note'[v] = "confirmed" /\ Busy(v) /\ ~Busy(v)' => Hear(v) /\ Confirms(v)
         /\ draft[v] # None /\ draft'[v] = None => Hear(v) /\ DropsDraft(v)
<1>0. v \in Visitor /\ v \notin Client
  BY PlaneAssumption DEF Visitor
<1> DEFINE Keeps == (Busy(v) => Busy(v)') /\ (draft[v] # None => draft'[v] # None)
<1>1. ASSUME NEW w \in Visitor, FanOut(w) PROVE Keeps
  <2>1. UNCHANGED pages
    BY <1>1 DEF FanOut, ServeOk, ServeRefused, ServeThenFails, ServeUnreachable, Reply
  <2>2. Busy(v) => Busy(v)'
    <3>1. ASSUME NEW k \in Kme, ServeOk(w, k) \/ ServeRefused(w, k)
                                \/ ServeThenFails(w, k) \/ ServeUnreachable(w, k)
          PROVE  Busy(v) => Busy(v)'
      <4>1. PICK outcome \in Outcome, did \in SUBSET {k} : Served(w, k, outcome, did)
        BY <3>1 DEF ServeOk, ServeRefused, ServeThenFails, ServeUnreachable, Outcome
      <4>2. fan[w].at = k
        BY <3>1 DEF ServeOk, ServeRefused, ServeThenFails, ServeUnreachable
      <4>3. fan'[w].at = Then(k) /\ \A u \in Visitor \ {w} : fan'[u] = fan[u]
        BY <4>1, <4>2, ServedStep
      <4> QED
        BY <1>0, <4>3 DEF Busy, Then
    <3>2. ASSUME Reply(w) PROVE Busy(v) => Busy(v)'
      <4>1. fan' = [fan EXCEPT ![w].at = "replied"] /\ fan \in [Visitor -> FanOuts]
        BY <3>2 DEF Reply, TypeInv
      <4>2. fan'[w].at = "replied" /\ \A u \in Visitor \ {w} : fan'[u] = fan[u]
        BY <4>1 DEF FanOuts
      <4> QED
        BY <1>0, <4>2 DEF Busy
    <3> QED
      BY <1>1, <3>1, <3>2 DEF FanOut
  <2> QED
    BY <2>1, <2>2 DEF pages
<1>2. ASSUME NEW w \in Client, Heard(w) PROVE Keeps
  BY <1>0, <1>2 DEF Heard, pages, Busy, TypeInv
<1>3. ASSUME NEW w \in Visitor, NEW change \in Change, Request(w, change)
      PROVE  Busy(v) => Busy(v)'
  <2>1. fan'[w].at = "alice" /\ \A u \in Visitor \ {w} : fan'[u].at = fan[u].at
    <3>1. /\ fan'[w].at = "alice"
          /\ \A u \in Visitor \ {w} : fan'[u] = Overlapped({AspectOf(change)})[u]
      BY <1>3, RequestStep
    <3>2. \A u \in Visitor : Overlapped({AspectOf(change)})[u].at = fan[u].at
      BY OverlappedAt DEF TypeInv
    <3> QED
      BY <3>1, <3>2
  <2> QED
    BY <1>0, <2>1 DEF Busy
<1>4. ASSUME NEW w \in Client, NEW change \in Posted, Post(w, change) PROVE Keeps
  BY <1>3, <1>4, PostedAssumption DEF Post, pages, Visitor
<1>5. ASSUME NEW w \in Page, OnPage(w)
      PROVE  \/ Keeps
             \/ Hear(v)
             \/ AnswerLost(v)
  <2>1. CASE ApplyEdits(w) \/ ResetParams(w) \/ \E name \in Backend : SwitchBackend(w, name)
    <3>1. PICK change \in Change : Send(w, change)
      BY <2>1 DEF ApplyEdits, ResetParams, SwitchBackend, Change, TypeInv
    <3>2. w \in Visitor /\ Request(w, change) /\ draft' = draft
      BY <3>1 DEF Send, Visitor
    <3> QED
      BY <1>3, <3>2
  <2>2. ASSUME Hear(w) \/ AnswerLost(w), w # v PROVE Keeps
    <3>1. fan'[v] = fan[v] /\ draft'[v] = draft[v]
      BY <1>0, <2>2 DEF Hear, AnswerLost, TypeInv
    <3> QED
      BY <3>1 DEF Busy
  <2>3. ASSUME NEW value \in Param, Edit(w, value) PROVE Keeps
    BY <2>3, PlaneAssumption DEF Edit, server, Busy, TypeInv
  <2>4. CASE \/ \E value \in Param : Loaded(w, value)
             \/ Poll(w) \/ ServeLoad(w) \/ LoadFails(w)
    BY <2>4 DEF Loaded, Poll, ServeLoad, LoadFails, server, Busy
  <2>5. CASE Hear(w) \/ AnswerLost(w)
    BY <2>2, <2>5
  <2> QED
    BY <1>5, <2>1, <2>3, <2>4, <2>5 DEF OnPage
<1>6. ASSUME NEW r \in Reader, Verify(r) \/ Expire PROVE Keeps
  BY <1>6 DEF Verify, Ask, Crosscheck, CrosscheckFails, Store, Expire, server, pages, Busy
<1>7. ASSUME NEW k \in Kme, Restart(k) \/ \E change \in Change : LateArrival(k, change)
      PROVE  Keeps
  <2>1. PICK aspects : fan' = Overlapped(aspects)
    BY <1>7 DEF Restart, LateArrival
  <2>2. Overlapped(aspects)[v].at = fan[v].at
    BY <1>0, OverlappedAt DEF TypeInv
  <2> QED
    BY <1>7, <2>1, <2>2 DEF Restart, LateArrival, pages, Busy
<1>8. ASSUME UNCHANGED vars PROVE Keeps
  BY <1>8 DEF vars, server, pages, Busy
<1>9. Keeps \/ Hear(v) \/ AnswerLost(v)
  <2> HIDE DEF Keeps
  <2>1. CASE \E w \in Client : Heard(w) \/ \E change \in Posted : Post(w, change)
    BY <2>1, <1>2, <1>4, Zenon
  <2>2. CASE \E k \in Kme : Restart(k) \/ \E change \in Change : LateArrival(k, change)
    BY <2>2, <1>7, Zenon
  <2>3. CASE \E r \in Reader : Verify(r) \/ Expire
    BY <2>3, <1>6, Zenon
  <2>4. CASE \E w \in Visitor : FanOut(w)
    BY <2>4, <1>1, Zenon
  <2>5. CASE \E w \in Page : OnPage(w)
    BY <2>5, <1>5, Zenon
  <2> QED
    BY <1>8, <2>1, <2>2, <2>3, <2>4, <2>5 DEF Next
<1>10. Hear(v) => /\ note'[v] = "confirmed" => Confirms(v)
                  /\ draft[v] # None /\ draft'[v] = None => DropsDraft(v)
  BY DEF Hear, TypeInv
<1>11. AnswerLost(v) => note'[v] # "confirmed" /\ draft' = draft
  BY DEF AnswerLost, TypeInv
<1> QED
  BY <1>9, <1>10, <1>11

\* The page says "applied" only of a request both KMEs applied while it ran.
THEOREM ConfirmationIsTrue == Spec => ConfirmedIsApplied
<1>1. Init => TypeInv /\ FanSafe
  BY TypeInit, FanInit
<1>2. TypeInv /\ FanSafe /\ [Next]_vars => (TypeInv /\ FanSafe)'
  BY TypeStep, FanStep
<1>3. TypeInv /\ FanSafe /\ [Next]_vars =>
        \A v \in Page : note'[v] = "confirmed" /\ Busy(v) /\ ~Busy(v)' => fan[v].did = Kme
  <2> SUFFICES ASSUME TypeInv, FanSafe, [Next]_vars, NEW v \in Page,
                      note'[v] = "confirmed", Busy(v), ~Busy(v)'
               PROVE  fan[v].did = Kme
    OBVIOUS
  <2>1. AllApplied(fan[v].gave) /\ v \in Visitor
    BY HeardStep DEF Confirms, Visitor
  <2> QED
    BY <2>1, FanFields DEF FanSafe, FanInv, AllApplied
<1> QED
  BY <1>1, <1>2, <1>3, PTL DEF Spec, ConfirmedIsApplied

\* An Apply drops the draft only when both KMEs took it.
THEOREM DraftSurvives == Spec => DraftIsKept
<1>1. Init => TypeInv /\ FanSafe
  BY TypeInit, FanInit
<1>2. TypeInv /\ FanSafe /\ [Next]_vars => (TypeInv /\ FanSafe)'
  BY TypeStep, FanStep
<1>3. TypeInv /\ FanSafe /\ [Next]_vars =>
        \A v \in Page : draft[v] # None /\ draft'[v] = None /\ fan[v].change.kind = "params"
                          => fan[v].did = Kme
  <2> SUFFICES ASSUME TypeInv, FanSafe, [Next]_vars, NEW v \in Page,
                      draft[v] # None, draft'[v] = None, fan[v].change.kind = "params"
               PROVE  fan[v].did = Kme
    OBVIOUS
  <2>1. AllApplied(fan[v].gave) /\ v \in Visitor
    BY HeardStep DEF DropsDraft, Confirms, Visitor
  <2> QED
    BY <2>1, FanFields DEF FanSafe, FanInv, AllApplied
<1> QED
  BY <1>1, <1>2, <1>3, PTL DEF Spec, DraftIsKept

-----------------------------------------------------------------------------
(* The cached verdict.                                                     *)

\* A step that neither ends a change that made the verdict stale nor takes
\* another parameter into the cache or to a reader.
LEMMA VerdictFrame ==
  ASSUME VerdictInv, excuses' = {} => excuses = {},
         kme'["alice"].param = kme["alice"].param,
         cache' \in {None, cache},
         \A r \in Reader : reader'[r] \in {"idle", "asked", kme["alice"].param, reader[r]},
         \A w \in Visitor : Superseding(w) => Superseding(w)'
  PROVE  VerdictInv'
<1> SUFFICES ASSUME excuses' = {}, \A w \in Visitor : ~Superseding(w)
             PROVE  /\ cache' \in {None, kme'["alice"].param}
                    /\ \A r \in Reader : reader'[r] \in {"idle", "asked", kme'["alice"].param}
  BY DEF VerdictInv
<1>1. /\ cache \in {None, kme["alice"].param}
      /\ \A r \in Reader : reader[r] \in {"idle", "asked", kme["alice"].param}
  BY DEF VerdictInv
<1> QED
  BY <1>1

\* The answer of one KME: a parameter changed at alice supersedes the verdict.
LEMMA VerdictServed ==
  ASSUME TypeInv, VerdictInv, NEW v \in Visitor, NEW k \in Kme, NEW outcome \in Outcome,
         NEW did \in SUBSET {k}, fan[v].at = k, Served(v, k, outcome, did),
         kme' = kme \/ (did = {k} /\ kme' = [kme EXCEPT ![k] = Applied(kme[k], fan[v].change)]),
         UNCHANGED <<verdict, excuses>>
  PROVE  VerdictInv'
<1>1. /\ \A w \in Visitor \ {v} : fan'[w] = fan[w]
      /\ fan'[v].at = Then(k) /\ fan'[v].change = fan[v].change
      /\ fan'[v].did = fan[v].did \cup did
  BY ONLY TypeInv, v \in Visitor, k \in Kme, outcome \in Outcome, did \in SUBSET {k},
          fan[v].at = k, Served(v, k, outcome, did), ServedStep
<1>2. \A w \in Visitor : Superseding(w) => Superseding(w)'
  BY <1>1 DEF Superseding, On, Then
<1>3. CASE k = "alice" /\ did = {k} /\ On(v) = "param"
  <2>1. Superseding(v)'
    BY <1>1, <1>3 DEF Superseding, On, Then
  <2> QED
    BY <2>1 DEF VerdictInv
<1>4. CASE kme' = kme
  BY <1>2, <1>4, VerdictFrame DEF verdict
<1>5. CASE k # "alice" \/ On(v) # "param"
  <2>1. fan[v].change \in Change /\ kme[k] \in [param : Param, backend : Backend]
    BY FanFields DEF TypeInv
  <2>2. On(v) # "param" => Applied(kme[k], fan[v].change).param = kme[k].param
    BY <2>1, AppliedAspect DEF On, Aspect
  <2>3. CASE k # "alice"
    <3>1. kme'["alice"] = kme["alice"]
      BY <2>3 DEF TypeInv, Kme
    <3> QED
      BY <1>2, <3>1, VerdictFrame DEF verdict
  <2>4. CASE On(v) # "param"
    <3>1. kme'["alice"].param = kme["alice"].param
      BY <2>2, <2>4 DEF TypeInv, Kme
    <3> QED
      BY <1>2, <3>1, VerdictFrame DEF verdict
  <2> QED
    BY <1>5, <2>3, <2>4
<1> QED
  BY <1>3, <1>4, <1>5

LEMMA VerdictStep == TypeInv /\ VerdictInv /\ [Next]_vars => VerdictInv'
<1> SUFFICES ASSUME TypeInv, VerdictInv, [Next]_vars PROVE VerdictInv'
  OBVIOUS
<1>1. ASSUME NEW v \in Visitor, FanOut(v) PROVE VerdictInv'
  <2>1. ASSUME NEW k \in Kme, ServeOk(v, k) PROVE VerdictInv'
    BY <2>1, VerdictServed DEF ServeOk, Outcome, history
  <2>2. ASSUME NEW k \in Kme, ServeRefused(v, k) PROVE VerdictInv'
    BY <2>2, VerdictServed DEF ServeRefused, Outcome, history
  <2>3. ASSUME NEW k \in Kme, ServeThenFails(v, k) PROVE VerdictInv'
    BY <2>3, VerdictServed DEF ServeThenFails, Outcome, history
  <2>4. ASSUME NEW k \in Kme, ServeUnreachable(v, k) PROVE VerdictInv'
    BY <2>4, VerdictServed DEF ServeUnreachable, Outcome, history
  <2>5. ASSUME Reply(v), excuses' = {} PROVE VerdictInv'
    <3>1. /\ cache' = None /\ reader' = reader
          /\ (IF \E r \in Reader : reader[r] # "idle" THEN {"race"} ELSE {}) = {}
      BY <2>5 DEF Reply, Invalidate
    <3> QED
      BY <3>1 DEF VerdictInv
  <2>6. excuses' # {} => VerdictInv'
    BY DEF VerdictInv
  <2> QED
    BY <1>1, <2>1, <2>2, <2>3, <2>4, <2>5, <2>6 DEF FanOut
<1>2. ASSUME NEW v \in Visitor, fan[v].at = "replied", fan' = [fan EXCEPT ![v] = IdleFan],
             UNCHANGED <<kme, verdict, excuses>>
      PROVE  VerdictInv'
  <2>1. \A w \in Visitor : w # v => fan'[w] = fan[w]
    BY <1>2 DEF TypeInv
  <2>2. \A w \in Visitor : Superseding(w) => Superseding(w)'
    BY <1>2, <2>1 DEF Superseding, On
  <2> QED
    BY <1>2, <2>2, VerdictFrame DEF verdict
<1>3. ASSUME NEW v \in Visitor, NEW change \in Change, Request(v, change) PROVE VerdictInv'
  <2>1. \A w \in Visitor \ {v} : fan'[w] = Overlapped({AspectOf(change)})[w]
    BY <1>3, RequestStep
  <2>2. \A w \in Visitor : /\ Overlapped({AspectOf(change)})[w].at = fan[w].at
                           /\ Overlapped({AspectOf(change)})[w].did = fan[w].did
                           /\ Overlapped({AspectOf(change)})[w].change = fan[w].change
    <3>1. fan \in [Visitor -> FanOuts]
      BY DEF TypeInv
    <3> QED
      BY <3>1, OverlappedType
  <2>3. ~Superseding(v)
    BY <1>3 DEF Request, Busy, Superseding
  <2>4. \A w \in Visitor : Superseding(w) => Superseding(w)'
    BY <2>1, <2>2, <2>3 DEF Superseding, On
  <2> QED
    BY <1>3, <2>4, VerdictFrame DEF Request, verdict
<1>4. ASSUME NEW v \in Client, Heard(v) \/ \E change \in Posted : Post(v, change)
      PROVE  VerdictInv'
  <2>1. v \in Visitor
    BY DEF Visitor
  <2>2. CASE Heard(v)
    BY <1>2, <2>1, <2>2 DEF Heard, history
  <2>3. CASE \E change \in Posted : Post(v, change)
    BY <1>3, <2>1, <2>3, PostedAssumption DEF Post
  <2> QED
    BY <1>4, <2>2, <2>3
<1>5. ASSUME UNCHANGED <<server, verdict, history>> PROVE VerdictInv'
  BY <1>5, VerdictFrame DEF server, verdict, history, Superseding, On
<1>6. ASSUME NEW v \in Page, OnPage(v) PROVE VerdictInv'
  <2>1. v \in Visitor
    BY DEF Visitor
  <2>2. CASE ApplyEdits(v) \/ ResetParams(v) \/ \E name \in Backend : SwitchBackend(v, name)
    <3>1. PICK change \in Change : Send(v, change)
      BY <2>2 DEF ApplyEdits, ResetParams, SwitchBackend, Change, TypeInv
    <3> QED
      BY <1>3, <2>1, <3>1 DEF Send
  <2>3. CASE Hear(v) \/ AnswerLost(v)
    BY <1>2, <2>1, <2>3 DEF Hear, AnswerLost, history
  <2>4. CASE \/ \E value \in Param : Edit(v, value) \/ Loaded(v, value)
             \/ Poll(v) \/ ServeLoad(v) \/ LoadFails(v)
    <3>1. UNCHANGED <<server, verdict, history>>
      BY <2>4 DEF Edit, Loaded, Poll, ServeLoad, LoadFails
    <3> QED
      BY <1>5, <3>1
  <2> QED
    BY <1>6, <2>2, <2>3, <2>4 DEF OnPage
<1>7. ASSUME NEW r \in Reader, Verify(r) \/ Expire PROVE VerdictInv'
  <2>1. CASE Ask(r) \/ Crosscheck(r) \/ CrosscheckFails(r)
    <3>1. /\ UNCHANGED <<kme, fan, cache, excuses>>
          /\ \A s \in Reader : reader'[s] \in {"idle", "asked", kme["alice"].param, reader[s]}
      BY <2>1 DEF Ask, Crosscheck, CrosscheckFails, TypeInv, server, history
    <3> QED
      BY <3>1, VerdictFrame DEF Superseding, On
  <2>2. CASE Store(r)
    <3>1. /\ UNCHANGED <<kme, fan, excuses>>
          /\ cache' = reader[r] /\ reader[r] \in Param
          /\ \A s \in Reader : reader'[s] \in {"idle", reader[s]}
      BY <2>2 DEF Store, TypeInv, server, history
    <3>2. reader[r] \notin {"idle", "asked"}
      BY <3>1, PlaneAssumption
    <3>3. \A w \in Visitor : Superseding(w)' = Superseding(w)
      BY <3>1 DEF Superseding, On
    <3> QED
      BY <3>1, <3>2, <3>3 DEF VerdictInv
  <2>3. CASE Expire
    <3>1. UNCHANGED <<kme, fan, reader>> /\ cache' = None
      BY <2>3 DEF Expire, server
    <3>2. CASE \E s \in Reader : reader[s] # "idle"
      <4>1. excuses' = excuses
        BY <2>3, <3>2 DEF Expire
      <4> QED
        BY <3>1, <4>1, VerdictFrame DEF Superseding, On
    <3>3. CASE \A s \in Reader : reader[s] = "idle"
      BY <3>1, <3>3 DEF VerdictInv
    <3> QED
      BY <3>2, <3>3
  <2> QED
    BY <1>7, <2>1, <2>2, <2>3 DEF Verify
<1>8. ASSUME NEW k \in Kme, Restart(k) \/ \E change \in Change : LateArrival(k, change)
      PROVE  VerdictInv'
  <2>1. excuses' # {}
    BY <1>8 DEF Restart, LateArrival
  <2> QED
    BY <2>1 DEF VerdictInv
<1>9. CASE UNCHANGED vars
  BY <1>5, <1>9 DEF vars
<1> QED
  BY <1>1, <1>4, <1>6, <1>7, <1>8, <1>9 DEF Next

\* With no change under way and no excuse, /verify serves the verdict of the
\* parameters KME A has in force.
THEOREM VerdictStaysCurrent == Spec => []VerdictIsCurrent
<1>1. Init => TypeInv /\ VerdictInv
  BY TypeInit DEF Init, VerdictInv
<1>2. TypeInv /\ VerdictInv /\ [Next]_vars => (TypeInv /\ VerdictInv)'
  BY TypeStep, VerdictStep
<1>3. TypeInv /\ VerdictInv => VerdictIsCurrent
  BY DEF VerdictInv, VerdictIsCurrent, InProgress, Busy, Superseding
<1> QED
  BY <1>1, <1>2, <1>3, PTL DEF Spec
=============================================================================
