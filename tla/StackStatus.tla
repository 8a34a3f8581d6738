---------------------------- MODULE StackStatus ----------------------------
(***************************************************************************)
(* The one service that may ask Docker, and what the web UI makes of its   *)
(* answers: the table of containers of the overview page, which the page   *)
(* polls through a cache of the backend, and single readings of one node,  *)
(* the health of the service itself among them.  Containers come and go,   *)
(* and every look at Docker and every answer may fail, at any moment.      *)
(* How long the backend caches is the matter of module Sampler.            *)
(***************************************************************************)
EXTENDS Naturals, Sequences, FiniteSets

CONSTANTS
  Services,    \* STACK_SERVICES, in the order in which they are looked up
  Gated,       \* those that only a profile of an overlay defines
  Poller,      \* refreshes of the page that may overlap
  None,        \* nothing cached, nothing shown
  MaxChanges,  \* bound: changes of containers
  MaxPolls     \* bound: refreshes

VARIABLES
  past,     \* what the containers have been; the last entry is what they are
  client,   \* whether stack-status has made its Docker client
  poll,     \* poll[p]: a refresh on its way through backend and stack-status
  cache,    \* the rows the backend has cached
  table,    \* the rows the page shows
  polls,
  reading   \* a single reading

vars == <<past, client, poll, cache, table, polls, reading>>
tableVars == <<poll, cache, table, polls>>

Service == {Services[i] : i \in DOMAIN Services}
Now == past[Len(past)]
Status == {"running", "exited", "absent"}

\* History: since is when the sample began, blind are the services that nobody
\* could look at.
Sample == [rows : [Service -> Status \cup {"unknown"}], since : 1 .. MaxChanges + 1,
           blind : SUBSET Service]

Interface == {"wg0", "wg1"}
Line == [label : {"banner", "key"}, value : {"long", "short", "hidden"}]
Request == [get : BOOLEAN, route : BOOLEAN, name : BOOLEAN, query : BOOLEAN]
Welcome == [get |-> TRUE, route |-> TRUE, name |-> TRUE, query |-> TRUE]

TypeOK ==
  /\ past \in Seq([Service -> Status]) /\ Len(past) \in 1 .. MaxChanges + 1
  /\ client \in BOOLEAN /\ polls \in 0 .. MaxPolls
  /\ cache \in Sample \cup {None} /\ table \in Sample \cup {None}
  /\ \A p \in Poller : /\ poll[p].at \in {"idle", "docker", "rows", "answer"}
                       /\ poll[p].sample \in Sample
  /\ reading.what \in {"wg", "logs", "health"} /\ reading.request \in Request
  /\ reading.lines \subseteq Line /\ reading.code \in {0, 200, 404, 405, 422, 503}

-----------------------------------------------------------------------------
(* The table of containers.                                                *)

NoRows == [n \in Service |-> "unknown"]
Unseen == [rows |-> NoRows, since |-> 1, blind |-> Service]
IdlePoll == [at |-> "idle", todo |-> <<>>, sample |-> Unseen]

\* refresh, which usePoll calls at once, at every tick and when the page becomes
\* visible, whether or not an earlier call is over; stack answers from its cache
\* or asks stack-status.
Poll(p) ==
  /\ poll[p].at = "idle" /\ polls < MaxPolls
  /\ polls' = polls + 1
  /\ poll' = [poll EXCEPT ![p] =
       IF cache # None
         THEN [at |-> "answer", todo |-> <<>>, sample |-> cache]
         ELSE [at |-> "docker", todo |-> Services,
               sample |-> [Unseen EXCEPT !.since = Len(past)]]]
  /\ UNCHANGED <<past, client, cache, table, reading>>

\* _docker: the client is made by the first request for which that succeeds.
Docker(ok) ==
  /\ client => ok
  /\ client' = ok

Connect(p, ok) ==
  /\ poll[p].at = "docker"
  /\ Docker(ok)
  /\ poll' = [poll EXCEPT ![p].at = "rows", ![p].todo = IF ok THEN @ ELSE <<>>]
  /\ UNCHANGED <<past, cache, table, polls, reading>>

\* Mutant: whatever fails reads as absent.
FailsAsAbsent(n, ok) == IF ok THEN Now[n] ELSE "absent"

\* _stack_rows: only Docker's 404 is absent, another failure is unknown.  An
\* image without a tag costs no status.
Row(n, ok) == IF ok THEN Now[n] ELSE "unknown"

LookUp(p, ok) ==
  /\ poll[p].at = "rows" /\ poll[p].todo # <<>>
  /\ LET n == Head(poll[p].todo)
     IN poll' = [poll EXCEPT
          ![p].todo = Tail(@),
          ![p].sample.rows[n] = Row(n, ok),
          ![p].sample.blind = IF ok THEN @ \ {n} ELSE @]
  /\ UNCHANGED <<past, client, cache, table, polls, reading>>

\* _stack_uncached: a service the reply does not report is unknown, all of them
\* when there is no reply, and the backend caches that too.
Reported(sample, reported) ==
  [sample EXCEPT !.rows = [n \in Service |-> IF n \in reported THEN @[n] ELSE "unknown"],
                 !.blind = @ \cup (Service \ reported)]

Reply(p, reported) ==
  /\ \/ poll[p].at = "rows" /\ poll[p].todo = <<>>
     \/ poll[p].at # "idle" /\ poll[p].at # "answer" /\ reported = {}
  /\ LET sample == Reported(poll[p].sample, reported)
     IN /\ cache' = sample
        /\ poll' = [poll EXCEPT ![p] = [at |-> "answer", todo |-> <<>>, sample |-> sample]]
  /\ UNCHANGED <<past, client, table, polls, reading>>

Expire ==
  /\ cache # None
  /\ cache' = None
  /\ UNCHANGED <<past, client, poll, table, polls, reading>>

\* The page shows the rows; after a failure it keeps the last ones and says so.
Receive(p, ok) ==
  /\ poll[p].at = "answer"
  /\ poll' = [poll EXCEPT ![p] = IdlePoll]
  /\ table' = IF ok THEN poll[p].sample ELSE table
  /\ UNCHANGED <<past, client, cache, polls, reading>>

\* _gating and chip: the label of a row.
Label(n, status) ==
  IF n \in Gated /\ status = "absent" THEN "not deployed here" ELSE status

\* A container is made, started, stopped or removed.
Change(n, status) ==
  /\ Len(past) <= MaxChanges /\ Now[n] # status
  /\ past' = Append(past, [Now EXCEPT ![n] = status])
  /\ UNCHANGED <<client, tableVars, reading>>

-----------------------------------------------------------------------------
(* Single readings: of the two tunnels of a node, of its log, of the        *)
(* health of the service.                                                   *)

Node == Services[1]

\* History: asked says that Docker was, log is what the container had written.
NoReading ==
  [at |-> "idle", what |-> "health", request |-> Welcome, since |-> 1, asked |-> FALSE,
   ran |-> {}, log |-> {}, lines |-> {}, withheld |-> 0, code |-> 0]

\* handle: the method, the route, the name and the query, in this order.
Refusal(r) ==
  CASE ~r.get -> 405
    [] r.get /\ ~(r.route /\ r.name) -> 404
    [] OTHER -> IF r.query THEN 0 ELSE 422

Ask(what, request) ==
  /\ reading.at = "idle"
  /\ reading' = [NoReading EXCEPT
       !.at = IF Refusal(request) = 0 THEN "docker" ELSE "done",
       !.what = what, !.request = request, !.since = Len(past), !.code = Refusal(request)]
  /\ UNCHANGED <<past, client, tableVars>>

Steps(what) == CASE what = "wg" -> "wg0" [] what = "logs" -> "log" [] OTHER -> "done"

\* containers.get, or ping: the health is 503 without an answer; a node that
\* cannot be looked up is an error in the reply, a 404 of the backend.
Find(made, found) ==
  /\ reading.at = "docker"
  /\ Docker(made)
  /\ found => made /\ (reading.what = "health" \/ Now[Node] # "absent")
  /\ reading' = [reading EXCEPT
       !.asked = TRUE,
       !.at = IF found THEN Steps(reading.what) ELSE "done",
       !.code = CASE found /\ reading.what = "health" -> 200
                  [] ~found /\ reading.what = "health" -> 503
                  [] ~found /\ reading.what # "health" -> 404
                  [] OTHER -> 0]
  /\ UNCHANGED <<past, tableVars>>

\* _run_fixed: each command for itself; none runs in a container that does not.
Exec(i, ok) ==
  /\ reading.at = i
  /\ ok => Now[Node] = "running"
  /\ reading' = [reading EXCEPT !.at = IF i = "wg0" THEN "wg1" ELSE "reply",
                                !.ran = IF ok THEN @ \cup {i} ELSE @]
  /\ UNCHANGED <<past, client, tableVars>>

Withheld(line) == line.label = "banner" \/ line.value = "long"

\* redact_log: any value of the banner of arnika, a value like a key elsewhere.
\* What is hidden already is not counted.
Redact(lines) ==
  [lines |-> {IF Withheld(l) THEN [l EXCEPT !.value = "hidden"] ELSE l : l \in lines},
   withheld |-> Cardinality({l \in lines : Withheld(l) /\ l.value # "hidden"})]

\* _read_log.
ReadLog(log, ok) ==
  /\ reading.at = "log"
  /\ ok => Now[Node] # "absent"
  /\ LET redacted == Redact(log)
     IN reading' = IF ok THEN [reading EXCEPT !.at = "reply", !.log = log,
                                 !.lines = redacted.lines, !.withheld = redacted.withheld]
                   ELSE [reading EXCEPT !.at = "done", !.code = 404]
  /\ UNCHANGED <<past, client, tableVars>>

\* wg_show: without wg0 there is no reading; what fails about wg1 is part of one.
HasTunnel == "wg0" \in reading.ran

\* The backend has the reply, or no reply in time; it redacts a log once more.
Answer(arrived) ==
  /\ reading.what # "health"
  /\ \/ reading.at = "reply"
     \/ ~arrived /\ reading.at \in {"docker", "wg0", "wg1", "log"}
  /\ LET redacted == Redact(reading.lines)
     IN reading' = [reading EXCEPT !.at = "done",
          !.lines = redacted.lines, !.withheld = @ + redacted.withheld,
          !.code = CASE ~arrived -> 503
                     [] arrived /\ reading.what = "wg" /\ ~HasTunnel -> 404
                     [] OTHER -> 200]
  /\ UNCHANGED <<past, client, tableVars>>

Done ==
  /\ reading.at = "done"
  /\ reading' = NoReading
  /\ UNCHANGED <<past, client, tableVars>>

-----------------------------------------------------------------------------
Init ==
  /\ past \in {<<c>> : c \in [Service -> Status]}
  /\ client = FALSE
  /\ poll = [p \in Poller |-> IdlePoll] /\ cache = None /\ table = None /\ polls = 0
  /\ reading = NoReading

Refresh(p) ==
  \/ Poll(p)
  \/ \E ok \in BOOLEAN : Connect(p, ok) \/ LookUp(p, ok) \/ Receive(p, ok)
  \/ \E reported \in SUBSET Service : Reply(p, reported)

Read ==
  \/ \E what \in {"wg", "logs", "health"}, r \in Request : Ask(what, r)
  \/ \E made, found \in BOOLEAN : Find(made, found)
  \/ \E i \in Interface, ok \in BOOLEAN : Exec(i, ok)
  \/ \E log \in SUBSET Line, ok \in BOOLEAN : ReadLog(log, ok)
  \/ \E arrived \in BOOLEAN : Answer(arrived)
  \/ Done

Next ==
  \/ \E p \in Poller : Refresh(p)
  \/ Expire
  \/ Read
  \/ \E n \in Service, status \in Status : Change(n, status)

Spec == Init /\ [][Next]_vars

-----------------------------------------------------------------------------
(* Properties.                                                             *)

\* What the container was between a moment and now.
Seen(since, n) == {past[i][n] : i \in since .. Len(past)}

\* A row of the page is unknown exactly when nobody could look at that
\* container, and otherwise it is what the container was at some moment since
\* the sample began; in particular it is absent, or even said to be not deployed,
\* only when there was no such container (_stack_rows, _stack_uncached, chip).
RowsWereSeen ==
  table # None =>
    \A n \in Service :
      /\ table.rows[n] = "unknown" <=> n \in table.blind
      /\ n \notin table.blind => table.rows[n] \in Seen(table.since, n)
      /\ Label(n, table.rows[n]) = "not deployed here" =>
           n \in Gated /\ "absent" \in Seen(table.since, n)

\* A reading of a node is answered with 200 exactly when the node was reached,
\* its first tunnel, or its log, was read while it ran, or was there, and the
\* reply arrived; what fails about the second tunnel hides nothing (wg_show, logs).
ReadingsAreReal ==
  reading.at = "done" /\ reading.code = 200 =>
    /\ reading.asked
    /\ reading.what = "wg" => "running" \in Seen(reading.since, Node)
    /\ reading.what = "logs" => Seen(reading.since, Node) # {"absent"}

\* What is missing is missing for a reason: a 404 of a node is not given for a
\* reading whose first tunnel was read.
NothingIsHidden ==
  reading.at = "done" /\ reading.code = 404 => reading.ran \subseteq {"wg1"}

\* No log that leaves the backend shows a key, however long a value of the
\* banner is, and the count says how many values were withheld, once each
\* although two services withhold them (redact_log).
LogsAreRedacted ==
  reading.at = "done" /\ reading.what = "logs" /\ reading.code = 200 =>
    /\ \A l \in reading.lines : Withheld(l) => l.value = "hidden"
    /\ reading.withheld = Cardinality({l \in reading.log : Withheld(l) /\ l.value # "hidden"})

\* Docker is asked for nothing but a request of the fixed API (handle).
OnlyTheFixedApi == reading.asked => reading.request = Welcome

StackIsTold ==
  RowsWereSeen /\ ReadingsAreReal /\ NothingIsHidden /\ LogsAreRedacted /\ OnlyTheFixedApi
=============================================================================
