---------------------------- MODULE PpkRotation ----------------------------
(***************************************************************************)
(* Rotation of the RFC 8784 PPK on the IPsec lane (services/arnika-vici).  *)
(* Two nodes run arnika, each with a swanvici.Repository that writes keys  *)
(* into its charon over VICI; the two charons share one IKE_SA.            *)
(*                                                                         *)
(* Modelled from the adapter's code: SetPSK, one step per VICI call, with  *)
(* its early returns, retireBootstrap and the reconciliation of a new      *)
(* process.  External, as the adapter uses them: arnika (one key per       *)
(* interval, the BACKUP installs and acknowledges before the PRIMARY       *)
(* installs, a random key when either cannot) and charon (a credential set *)
(* that resolves the one PPK_ID to any credential it holds, and IKE_AUTH   *)
(* with ppk_required and make_before_break).                               *)
(*                                                                         *)
(* Time.  SetPSK returns within one interval: getKeyWriterService refuses  *)
(* a VICI_REAUTH_TIMEOUT that is not shorter than INTERVAL.  What charon   *)
(* queued may still be under way when the next interval begins.            *)
(***************************************************************************)
EXTENDS Naturals, FiniteSets

CONSTANTS
  Node,         \* the two nodes
  Driver,       \* VICI_IKE_ROLE = initiator: its DriveReauth is set
  Faults,       \* a subset of AllFaults
  MaxInterval,  \* bound: arnika intervals
  MaxSas,       \* bound: IKE_SAs established
  MaxRestarts,  \* bound: arnika restarts of both nodes
  None

\* "vici": a VICI call may fail, and unload-shared may report a success that
\* removed nothing.  "input": a key_id or its ACK is lost, or the peers' inputs
\* differ, so a node installs a key its peer does not have.  "restart": arnika
\* is replaced by a new process while charon keeps its credentials.
AllFaults == {"vici", "input", "restart"}

\* Key material: agreed in an interval, or random bytes of one node.  The
\* bootstrap PPK, derived from ARNIKA_PSK on both nodes, counts as agreed in 0.
Interval == 0 .. MaxInterval
Material == (Node \cup {"agreed"}) \X Interval
Agreed(i) == <<"agreed", i>>
Random(n, i) == <<n, i>>
Bootstrap == Agreed(0)

\* Credential ids: 0 is BootstrapCredentialID, g > 0 is <prefix>-g.
Id == Nat

ASSUME NodeAssumption ==
  /\ Driver \in Node /\ "agreed" \notin Node /\ None \notin Material
  /\ Faults \subseteq AllFaults
  /\ MaxInterval \in Nat /\ MaxSas \in Nat /\ MaxRestarts \in Nat

VARIABLES
  gen,      \* gen[n]: Repository.generation
  loaded,   \* loaded[n]: the generation of loadedID, 0 for ""
  retired,  \* retired[n]: bootstrapRetired
  at,       \* at[n]: the VICI call SetPSK makes next, or "idle"
  psk,      \* psk[n]: the key being written
  old,      \* old[n]: SetPSK's local previous
  target,   \* target[n]: the unique id reauthenticate selected
  held,     \* held[n]: charon's PPKs, a set of <<id, material>>
  sas,      \* established IKE_SAs, a set of <<unique id, material>>
  uids,     \* unique ids given so far
  queued,   \* the driver's charon has an IKE_AUTH to start
  auth,     \* the PPK of the IKE_AUTH in flight, or None
  interval, \* the interval the two arnikas are in
  backup,   \* the BACKUP of the interval
  job,      \* job[n]: the write of this interval: due, key, random or done
  ack,      \* the BACKUP acknowledged the key_id
  clean,    \* history: no fault in this interval
  leaked,   \* history: leaked[n], generations whose unload failed
  restarts  \* bound: restarts so far

repo == <<gen, loaded, retired, at, psk, old, target>>
ike == <<sas, uids, queued, auth>>
arnika == <<interval, backup, job, ack, clean, leaked, restarts>>
vars == <<repo, held, ike, arnika>>

Steps == {"idle", "load", "assert", "list", "rekey", "initiate",
          "unload", "bootstrap", "confirm"}

TypeOK ==
  /\ gen \in [Node -> Nat] /\ loaded \in [Node -> Nat] /\ old \in [Node -> Nat]
  /\ retired \in [Node -> BOOLEAN]
  /\ at \in [Node -> Steps]
  /\ psk \in [Node -> Material]
  /\ target \in [Node -> 0 .. MaxSas]
  /\ held \in [Node -> SUBSET (Id \X Material)]
  /\ sas \subseteq (1 .. MaxSas) \X Material /\ uids \in 0 .. MaxSas
  /\ queued \in BOOLEAN /\ auth \in Material \cup {None}
  /\ interval \in Interval /\ backup \in Node
  /\ job \in [Node -> {"due", "key", "random", "done"}]
  /\ ack \in BOOLEAN /\ clean \in BOOLEAN
  /\ leaked \in [Node -> SUBSET Nat]
  /\ restarts \in 0 .. MaxRestarts

-----------------------------------------------------------------------------
(* Reading the state.                                                      *)

\* Mutant: the id is taken from the generation before.
NextGenBefore(n) == gen[n] - 1

NextGen(n) == gen[n] + 1
Ids(n) == {cred[1] : cred \in held[n]}
Answers(n) == {cred[2] : cred \in held[n]}
NewestSA == CHOOSE u \in {sa[1] : sa \in sas} : \A sa \in sas : sa[1] <= u

MayFail == "vici" \in Faults

-----------------------------------------------------------------------------
(* The two ways SetPSK returns, and what arnika does next.                 *)

\* nil: the write of the interval is done, and the BACKUP acknowledges.
Return(n) ==
  /\ at' = [at EXCEPT ![n] = "idle"]
  /\ job' = [job EXCEPT ![n] = "done"]
  /\ ack' = (ack \/ (n = backup /\ job[n] = "key"))
  /\ UNCHANGED psk

\* An error: arnika answers a failed write by InvalidateTunnel, a second
\* SetPSK with random bytes, and only logs an error of that one.
Fail(n) ==
  /\ clean' = FALSE
  /\ IF job[n] = "key"
       THEN /\ job' = [job EXCEPT ![n] = "random"]
            /\ psk' = [psk EXCEPT ![n] = Random(n, interval)]
            /\ at' = [at EXCEPT ![n] = "load"]
       ELSE /\ job' = [job EXCEPT ![n] = "done"]
            /\ at' = [at EXCEPT ![n] = "idle"]
            /\ UNCHANGED psk
  /\ target' = [target EXCEPT ![n] = 0]
  /\ UNCHANGED <<gen, loaded, retired, old, held, ike, ack, leaked>>

Proceed(n, step) ==
  /\ at' = [at EXCEPT ![n] = step]
  /\ UNCHANGED <<psk, job, ack>>

\* Mutant: the bootstrap credential is left in charon.
RetireNever(n) == Return(n)

\* retireBootstrap does nothing once it has latched.
Retire(n) == IF retired[n] THEN Return(n) ELSE Proceed(n, "bootstrap")

\* The new generation is committed before anything is unloaded.
Commit(n) ==
  /\ gen' = [gen EXCEPT ![n] = @ + 1]
  /\ loaded' = [loaded EXCEPT ![n] = NextGen(n)]
  /\ old' = [old EXCEPT ![n] = loaded[n]]
  /\ IF loaded[n] # 0 THEN Proceed(n, "unload") ELSE Retire(n)

-----------------------------------------------------------------------------
(* SetPSK, one action per VICI call.  An answer that is an error, or that  *)
(* carries no success=yes, is a VICI fault.                                *)

\* load-shared under the next id: a credential of that id is replaced.
LoadPPK(n) ==
  /\ at[n] = "load"
  /\ held' = [held EXCEPT ![n] =
                {cred \in @ : cred[1] # NextGen(n)} \cup {<<NextGen(n), psk[n]>>}]
  /\ leaked' = [leaked EXCEPT ![n] = @ \ {NextGen(n)}]
  /\ Proceed(n, "assert")
  /\ UNCHANGED <<gen, loaded, retired, old, target, ike, clean>>

\* get-shared lists the new id; a node that does not drive is then done.
AssertLoaded(n) ==
  /\ at[n] = "assert"
  /\ NextGen(n) \in Ids(n)
  /\ IF n = Driver
       THEN Proceed(n, "list") /\ UNCHANGED <<gen, loaded, old>>
       ELSE Commit(n)
  /\ UNCHANGED <<retired, target, held, ike, clean, leaked>>

\* reauthenticate: list-sas, then the newest IKE_SA by its unique id, or
\* initiate when there is none.
ListSas(n) ==
  /\ at[n] = "list"
  /\ IF sas = {}
       THEN Proceed(n, "initiate") /\ UNCHANGED target
       ELSE Proceed(n, "rekey") /\ target' = [target EXCEPT ![n] = NewestSA]
  /\ UNCHANGED <<gen, loaded, retired, old, held, ike, clean, leaked>>

\* rekey ike-id=target reauth=yes: it returns once charon has queued it.
Rekey(n) ==
  /\ at[n] = "rekey"
  /\ \E sa \in sas : sa[1] = target[n]
  /\ queued' = TRUE
  /\ target' = [target EXCEPT ![n] = 0]
  /\ Commit(n)
  /\ UNCHANGED <<retired, held, sas, uids, auth, clean, leaked>>

\* matches=0: the SA went away between the list and the rekey.
RekeyMatchesNothing(n) ==
  /\ at[n] = "rekey"
  /\ \A sa \in sas : sa[1] # target[n]
  /\ Fail(n)

\* initiate is queued, and returns when it succeeded, failed or timed out:
\* in all three cases the rotation goes on.
InitiateQueued(n) ==
  /\ at[n] = "initiate" /\ ~queued /\ auth = None /\ sas = {}
  /\ queued' = TRUE
  /\ UNCHANGED <<repo, held, sas, uids, auth, job, ack, clean, leaked>>

InitiateReturns(n) ==
  /\ at[n] = "initiate"
  /\ sas # {} \/ queued \/ auth # None
  /\ Commit(n)
  /\ UNCHANGED <<retired, target, held, ike, clean, leaked>>

\* A failure of any call up to the reauthentication is returned.
CallFails(n) ==
  /\ MayFail
  /\ at[n] \in {"load", "assert", "list", "rekey"}
  /\ Fail(n)

\* Mutant: loadedID is read after the commit moved it.
UnloadCurrent(n) ==
  /\ at[n] = "unload"
  /\ held' = [held EXCEPT ![n] = {cred \in @ : cred[1] # loaded[n]}]
  /\ old' = [old EXCEPT ![n] = 0]
  /\ Retire(n)
  /\ UNCHANGED <<gen, loaded, retired, target, ike, clean, leaked>>

\* unload-shared of the previous generation.
UnloadPrevious(n) ==
  /\ at[n] = "unload"
  /\ held' = [held EXCEPT ![n] = {cred \in @ : cred[1] # old[n]}]
  /\ old' = [old EXCEPT ![n] = 0]
  /\ Retire(n)
  /\ UNCHANGED <<gen, loaded, retired, target, ike, clean, leaked>>

\* Its failure is logged, and the id is not remembered.
UnloadFails(n) ==
  /\ MayFail
  /\ at[n] = "unload"
  /\ leaked' = [leaked EXCEPT ![n] = @ \cup {old[n]}]
  /\ old' = [old EXCEPT ![n] = 0]
  /\ clean' = FALSE
  /\ Retire(n)
  /\ UNCHANGED <<gen, loaded, retired, target, held, ike>>

\* retireBootstrap: unload-shared of the bootstrap credential ...
UnloadBootstrap(n) ==
  /\ at[n] = "bootstrap"
  /\ \/ held' = [held EXCEPT ![n] = {cred \in @ : cred[1] # 0}] /\ UNCHANGED clean
     \/ MayFail /\ UNCHANGED held /\ clean' = FALSE
  /\ Proceed(n, "confirm")
  /\ UNCHANGED <<gen, loaded, retired, old, target, ike, leaked>>

\* Mutant: the success of unload-shared is believed.
ConfirmUnseen(n) ==
  /\ at[n] = "confirm"
  /\ retired' = [retired EXCEPT ![n] = TRUE]
  /\ Return(n)
  /\ UNCHANGED <<gen, loaded, old, target, held, ike, clean, leaked>>

\* ... and get-shared, which alone lets it latch.
ConfirmRetired(n) ==
  /\ at[n] = "confirm"
  /\ retired' = [retired EXCEPT ![n] = 0 \notin Ids(n)]
  /\ Return(n)
  /\ UNCHANGED <<gen, loaded, old, target, held, ike, clean, leaked>>

\* Either call fails: not latched, and tried again after the next rotation.
RetireFails(n) ==
  /\ MayFail
  /\ at[n] \in {"bootstrap", "confirm"}
  /\ clean' = FALSE
  /\ Return(n)
  /\ UNCHANGED <<gen, loaded, retired, old, target, held, ike, leaked>>

\* A new arnika finds the credentials of the previous one: reconcile adopts
\* the highest generation and unloads the others, as far as charon lets it.
Generations(n) == Ids(n) \ {0}

\* Mutant: a new process starts at generation 0 and adopts nothing.
ReconcileNothing(n) ==
  /\ "restart" \in Faults /\ restarts < MaxRestarts
  /\ restarts' = restarts + 1
  /\ gen' = [gen EXCEPT ![n] = 0] /\ loaded' = [loaded EXCEPT ![n] = 0]
  /\ retired' = [retired EXCEPT ![n] = FALSE]
  /\ at' = [at EXCEPT ![n] = "idle"]
  /\ job' = [job EXCEPT ![n] = "done"]
  /\ old' = [old EXCEPT ![n] = 0] /\ target' = [target EXCEPT ![n] = 0]
  /\ clean' = FALSE
  /\ UNCHANGED <<psk, held, leaked, ike, interval, backup, ack>>

Reconcile(n) ==
  /\ "restart" \in Faults /\ restarts < MaxRestarts
  /\ restarts' = restarts + 1
  /\ IF Generations(n) = {}
       THEN /\ gen' = [gen EXCEPT ![n] = 0] /\ loaded' = [loaded EXCEPT ![n] = 0]
            /\ UNCHANGED <<held, leaked>>
       ELSE \E newest \in Generations(n), stuck \in SUBSET Generations(n) :
              /\ \A g \in Generations(n) : g <= newest
              /\ newest \notin stuck /\ (MayFail \/ stuck = {})
              /\ gen' = [gen EXCEPT ![n] = newest]
              /\ loaded' = [loaded EXCEPT ![n] = newest]
              /\ held' = [held EXCEPT ![n] =
                            {cred \in @ : cred[1] \in {0, newest} \cup stuck}]
              /\ leaked' = [leaked EXCEPT ![n] = stuck]
  /\ retired' = [retired EXCEPT ![n] = FALSE]
  /\ at' = [at EXCEPT ![n] = "idle"]
  /\ job' = [job EXCEPT ![n] = "done"]
  /\ old' = [old EXCEPT ![n] = 0] /\ target' = [target EXCEPT ![n] = 0]
  /\ clean' = FALSE
  /\ UNCHANGED <<psk, ike, interval, backup, ack>>

-----------------------------------------------------------------------------
(* arnika (external): one write per node and interval.                     *)

SetPSK(n, kind, key) ==
  /\ at[n] = "idle" /\ job[n] = "due"
  /\ job' = [job EXCEPT ![n] = kind]
  /\ psk' = [psk EXCEPT ![n] = key]
  /\ at' = [at EXCEPT ![n] = "load"]
  /\ UNCHANGED <<gen, loaded, retired, old, target, held, ike, interval, backup,
                 ack, leaked, restarts>>

\* The BACKUP installs first, the PRIMARY when it has the ACK.
WriteKey(n) ==
  /\ n = backup \/ ack
  /\ SetPSK(n, "key", Agreed(interval))
  /\ UNCHANGED clean

\* The PRIMARY of a BACKUP that could not install gets no ACK.
WriteWithoutAck(n) ==
  /\ n # backup /\ ~ack /\ job[backup] = "done"
  /\ SetPSK(n, "random", Random(n, interval))
  /\ clean' = FALSE

\* No key_id, no ACK in time, or inputs that differ: what this node installs,
\* its peer does not have.
WriteUnmatched(n) ==
  /\ "input" \in Faults
  /\ SetPSK(n, "random", Random(n, interval))
  /\ clean' = FALSE

NextInterval ==
  /\ interval < MaxInterval
  /\ \A n \in Node : job[n] = "done" /\ at[n] = "idle"
  /\ interval' = interval + 1
  /\ backup' \in Node
  /\ job' = [n \in Node |-> "due"]
  /\ ack' = FALSE
  /\ clean' = TRUE
  /\ UNCHANGED <<repo, held, ike, leaked, restarts>>

-----------------------------------------------------------------------------
(* charon (external): IKE_AUTH with ppk_required and make_before_break.    *)

\* charon initiates by itself at start (start_action, close_action), and
\* reauthenticates when reauth_time has passed.
CharonQueues ==
  /\ ~queued /\ auth = None
  /\ queued' = TRUE
  /\ UNCHANGED <<repo, held, sas, uids, auth, arnika>>

\* The initiator resolves PPK_ID to one of its credentials, whichever.
AuthStart ==
  /\ queued /\ auth = None /\ uids < MaxSas
  /\ queued' = FALSE
  /\ auth' \in Answers(Driver)
  /\ UNCHANGED <<repo, held, sas, uids, arnika>>

\* So does the responder.  The same key makes a new SA, ...
AuthSucceeds(n) ==
  /\ n # Driver
  /\ auth \in Answers(n)
  /\ uids' = uids + 1
  /\ sas' = sas \cup {<<uids + 1, auth>>}
  /\ auth' = None
  /\ UNCHANGED <<repo, held, queued, arnika>>

\* ... and any other AUTH_FAILED, which leaves the established SA in place.
AuthFails(n) ==
  /\ n # Driver
  /\ auth # None /\ \E key \in Answers(n) : key # auth
  /\ auth' = None
  /\ UNCHANGED <<repo, held, sas, uids, queued, arnika>>

\* unique = replace and make_before_break end in the newest SA alone.
ReplaceSA ==
  /\ Cardinality(sas) > 1
  /\ sas' = {sa \in sas : sa[1] = NewestSA}
  /\ UNCHANGED <<repo, held, uids, queued, auth, arnika>>

-----------------------------------------------------------------------------
Init ==
  /\ gen = [n \in Node |-> 0] /\ loaded = [n \in Node |-> 0]
  /\ retired = [n \in Node |-> FALSE]
  /\ at = [n \in Node |-> "idle"]
  /\ psk = [n \in Node |-> Bootstrap]
  /\ old = [n \in Node |-> 0] /\ target = [n \in Node |-> 0]
  /\ held = [n \in Node |-> {<<0, Bootstrap>>}]
  /\ sas = {} /\ uids = 0 /\ queued = TRUE /\ auth = None
  /\ interval = 0 /\ backup = Driver
  /\ job = [n \in Node |-> "done"]
  /\ ack = FALSE /\ clean = TRUE
  /\ leaked = [n \in Node |-> {}]
  /\ restarts = 0

Rotate(n) ==
  \/ LoadPPK(n) \/ AssertLoaded(n) \/ ListSas(n) \/ Rekey(n)
  \/ RekeyMatchesNothing(n) \/ InitiateQueued(n) \/ InitiateReturns(n)
  \/ CallFails(n) \/ UnloadPrevious(n) \/ UnloadFails(n)
  \/ UnloadBootstrap(n) \/ ConfirmRetired(n) \/ RetireFails(n)

Charon ==
  \/ CharonQueues \/ AuthStart \/ ReplaceSA
  \/ \E n \in Node : AuthSucceeds(n) \/ AuthFails(n)

Next ==
  \/ \E n \in Node : Rotate(n) /\ UNCHANGED <<interval, backup, restarts>>
  \/ \E n \in Node : Reconcile(n)
  \/ \E n \in Node : WriteKey(n) \/ WriteWithoutAck(n) \/ WriteUnmatched(n)
  \/ NextInterval
  \/ Charon

Spec == Init /\ [][Next]_vars

-----------------------------------------------------------------------------
(* Safety.                                                                 *)

Settled == \A n \in Node : job[n] = "done" /\ at[n] = "idle"

\* No step of a rotation strands a node without the PPK it counts on: the
\* generation of loadedID is the current one and is loaded in charon, through
\* failed calls, failed unloads and restarts, and so are both it and its
\* predecessor while the predecessor is still to be unloaded.
NeverStranded ==
  \A n \in Node : /\ held[n] # {}
                  /\ loaded[n] = gen[n]
                  /\ gen[n] # 0 => gen[n] \in Ids(n)
                  /\ at[n] = "unload" => old[n] \in Ids(n)

\* "PPK_ID is now answered only by QKD-derived material": once retireBootstrap
\* has latched, charon does not hold the bootstrap PPK.
RetiredIsGone == \A n \in Node : retired[n] => 0 \notin Ids(n)

\* Credentials do not accumulate: beside the current generation, the one being
\* loaded or left by a failed reauthentication, and the one being unloaded,
\* charon only holds generations whose unload failed.
NoOrphans ==
  \A n \in Node :
    Ids(n) \subseteq {0, gen[n], NextGen(n)} \cup leaked[n]
                     \cup (IF at[n] = "unload" THEN {old[n]} ELSE {})

\* A rotation without a fault brings the peers together again, whatever failed
\* in the intervals before it: both hold the agreed key as their current
\* generation, and nothing but it and what an earlier unload left.
CleanRotationAgrees ==
  interval > 0 /\ Settled /\ clean =>
    \A n \in Node : /\ <<gen[n], Agreed(interval)>> \in held[n]
                    /\ Ids(n) \ leaked[n] = {gen[n]}

=============================================================================
