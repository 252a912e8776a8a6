------------------------------- MODULE Server -------------------------------
(***************************************************************************)
(* The query server between tables that indexers go on committing to and   *)
(* clients with a deadline: the metadata cache and its polling             *)
(* (lakesearch-query/src/server/cache.rs), the object cache                *)
(* (object_cache.rs), HTTP search (server/handlers.rs) and Flight do_get   *)
(* (server/flight.rs).  A table is the append-only log that Commit         *)
(* implements: snapshot v is what its first v batches make of it, and it   *)
(* names one object per batch.  What a query does once it has its objects  *)
(* is Pipeline's; here it ends, fails or takes its time.                   *)
(***************************************************************************)
EXTENDS Naturals, FiniteSets

CONSTANTS
  Tables,       \* the registered tables
  Requests,     \* search requests
  Flight,       \* the requests that are a do_get; the others are HTTP
  TableOf,      \* TableOf[r]: the table r names, perhaps not a registered one
  ColumnSince,  \* ColumnSince[r]: the first snapshot with the column r names
  MaxCommits,   \* bound: batches of each table
  Nobody        \* not a request

ASSUME ServerAssumption ==
  /\ Flight \subseteq Requests
  /\ DOMAIN TableOf = Requests
  /\ ColumnSince \in [Requests -> Nat]
  /\ MaxCommits \in Nat \ {0}
  /\ Nobody \notin Requests

VARIABLES
  committed,  \* the snapshot current.json of each table names
  cached,     \* TableState of each table: current_metadata_path and metadata
  refresh,    \* where refresh_one of each table is
  found,      \* the path it read, while it reads the metadata
  loaded,     \* the objects in the object cache
  loader,     \* whose task loads an object
  pc,         \* where each request is
  snap,       \* the snapshot it planned with
  needs,      \* the objects it has not got yet
  waits,      \* those it waits for, its own loads included
  late,       \* whether its time is up
  began,      \* history: the snapshot of its table when it arrived
  overdue,    \* history: the streams that passed over their deadline at a poll
  hit         \* history: the requests during which one to the store failed

cacheVars == <<cached, refresh, found>>
loadVars == <<loaded, loader>>
requestVars == <<pc, snap, needs, waits, late>>
history == <<began, overdue, hit>>
vars == <<committed, cacheVars, loadVars, requestVars, history>>

HTTP == Requests \ Flight
Object == Tables \X (1..MaxCommits)
Active == {"pointer", "loading", "running"}
Answered == {"ok", "error", "timeout", "not_found", "bad_request", "gone"}

\* main.rs registers every table before it serves.
Init ==
  /\ committed \in [Tables -> 0..1]
  /\ cached = [t \in Tables |-> [path |-> committed[t], metadata |-> committed[t]]]
  /\ refresh = [t \in Tables |-> "asleep"]
  /\ found = [t \in Tables |-> 0]
  /\ loaded = {}
  /\ loader = [o \in Object |-> Nobody]
  /\ pc = [r \in Requests |-> "idle"]
  /\ snap = [r \in Requests |-> 0]
  /\ needs = [r \in Requests |-> {}]
  /\ waits = [r \in Requests |-> {}]
  /\ late = [r \in Requests |-> FALSE]
  /\ began = [r \in Requests |-> 0]
  /\ overdue = {}
  /\ hit = {}

\* An indexer commits, as Commit describes it.
CommitBatch(t) ==
  /\ committed[t] < MaxCommits
  /\ committed' = [committed EXCEPT ![t] = @ + 1]
  /\ UNCHANGED <<cacheVars, loadVars, requestVars, history>>

\* A request to the store fails.
Fails ==
  /\ hit' = hit \cup {r \in Requests : pc[r] \in Active}
  /\ UNCHANGED <<began, overdue>>
-----------------------------------------------------------------------------
(***************************************************************************)
(* start_polling and refresh_all: all tables at once, and none again       *)
(* before all are through.  refresh_one compares the path it reads with    *)
(* the one it knows, and changes path and metadata together; an error is   *)
(* logged, and leaves both as they are.                                    *)
(***************************************************************************)
Tick ==
  /\ \A t \in Tables : refresh[t] = "asleep"
  /\ refresh' = [t \in Tables |-> "pointer"]
  /\ UNCHANGED <<committed, cached, found, loadVars, requestVars, history>>

\* Mutant of ReadPointer: the path is kept before the metadata is read.
ReadPointerKeepsPath(t) ==
  /\ refresh[t] = "pointer"
  /\ found' = [found EXCEPT ![t] = committed[t]]
  /\ cached' = [cached EXCEPT ![t].path = committed[t]]
  /\ refresh' = [refresh EXCEPT ![t] = IF committed[t] = cached[t].path THEN "asleep" ELSE "metadata"]
  /\ UNCHANGED <<committed, loadVars, requestVars, history>>

ReadPointer(t) ==
  /\ refresh[t] = "pointer"
  /\ \/ /\ committed[t] = cached[t].path
        /\ refresh' = [refresh EXCEPT ![t] = "asleep"]
        /\ UNCHANGED found
     \/ /\ committed[t] # cached[t].path
        /\ refresh' = [refresh EXCEPT ![t] = "metadata"]
        /\ found' = [found EXCEPT ![t] = committed[t]]
  /\ UNCHANGED <<committed, cached, loadVars, requestVars, history>>

ReadMetadata(t) ==
  /\ refresh[t] = "metadata"
  /\ cached' = [cached EXCEPT ![t] = [path |-> found[t], metadata |-> found[t]]]
  /\ refresh' = [refresh EXCEPT ![t] = "asleep"]
  /\ found' = [found EXCEPT ![t] = 0]
  /\ UNCHANGED <<committed, loadVars, requestVars, history>>

RefreshFails(t) ==
  /\ refresh[t] \in {"pointer", "metadata"}
  /\ Fails
  /\ refresh' = [refresh EXCEPT ![t] = "asleep"]
  /\ found' = [found EXCEPT ![t] = 0]
  /\ UNCHANGED <<committed, cached, loadVars, requestVars>>
-----------------------------------------------------------------------------
(***************************************************************************)
(* A request.  The cached metadata says whether there is such a table and  *)
(* column; plan_query then reads current.json itself.                      *)
(***************************************************************************)
Arrive(r) ==
  LET t == TableOf[r]
  IN /\ pc[r] = "idle"
     /\ \/ /\ t \notin Tables
           /\ pc' = [pc EXCEPT ![r] = "not_found"]
           /\ UNCHANGED began
        \/ /\ t \in Tables
           /\ cached[t].metadata < ColumnSince[r]
           /\ pc' = [pc EXCEPT ![r] = "bad_request"]
           /\ UNCHANGED began
        \/ /\ t \in Tables
           /\ cached[t].metadata >= ColumnSince[r]
           /\ pc' = [pc EXCEPT ![r] = "pointer"]
           /\ began' = [began EXCEPT ![r] = committed[t]]
     /\ UNCHANGED <<committed, cacheVars, loadVars, snap, needs, waits, late, overdue, hit>>

\* Mutant of Objects: the batches are counted from zero.
ObjectsFromZero(t, v) == {t} \X (0..v)

Objects(t, v) == {t} \X (1..v)

PlanWith(r, v) ==
  /\ pc[r] = "pointer"
  /\ pc' = [pc EXCEPT ![r] = "loading"]
  /\ snap' = [snap EXCEPT ![r] = v]
  /\ needs' = [needs EXCEPT ![r] = Objects(TableOf[r], v)]
  /\ UNCHANGED <<committed, cacheVars, loadVars, waits, late, history>>

\* Mutant of Plan: it starts from the cached metadata.
PlanFromCache(r) == PlanWith(r, cached[TableOf[r]].metadata)

Plan(r) == PlanWith(r, committed[TableOf[r]])

(***************************************************************************)
(* get_bytes: from the cache, or by a load that all who ask for the object *)
(* share.  A dropped load is taken over by another who waits; a failed one *)
(* is the error of all who wait, and is not remembered (moka's             *)
(* try_get_with).  The cache may drop an object at any time.               *)
(***************************************************************************)
Get(r, o) ==
  /\ pc[r] = "loading"
  /\ o \in needs[r]
  /\ \/ /\ o \in loaded
        /\ needs' = [needs EXCEPT ![r] = @ \ {o}]
        /\ waits' = [waits EXCEPT ![r] = @ \ {o}]
        /\ UNCHANGED loader
     \/ /\ o \notin loaded
        /\ o \notin waits[r] \/ loader[o] = Nobody
        /\ waits' = [waits EXCEPT ![r] = @ \cup {o}]
        /\ loader' = [loader EXCEPT ![o] = IF @ = Nobody THEN r ELSE @]
        /\ UNCHANGED needs
  /\ UNCHANGED <<committed, cacheVars, loaded, pc, snap, late, history>>

LoadDone(o) ==
  /\ loader[o] # Nobody
  /\ loaded' = loaded \cup {o}
  /\ loader' = [loader EXCEPT ![o] = Nobody]
  /\ needs' = [r \in Requests |-> IF o \in waits[r] THEN needs[r] \ {o} ELSE needs[r]]
  /\ waits' = [r \in Requests |-> waits[r] \ {o}]
  /\ UNCHANGED <<committed, cacheVars, pc, snap, late, history>>

(***************************************************************************)
(* The futures of some queries are dropped: what they still had to get,    *)
(* and the loads they had begun.                                           *)
(***************************************************************************)
Stop(stopped, answer) ==
  /\ pc' = [r \in Requests |-> IF r \in stopped THEN answer ELSE pc[r]]
  /\ needs' = [r \in Requests |-> IF r \in stopped THEN {} ELSE needs[r]]
  /\ waits' = [r \in Requests |-> IF r \in stopped THEN {} ELSE waits[r]]
  /\ loader' = [o \in Object |-> IF loader[o] \in stopped THEN Nobody ELSE loader[o]]
  /\ UNCHANGED <<committed, cacheVars, loaded, snap, late>>

\* Mutant of LoadFails: the others go on waiting for it.
LoadFailsItsOwner(o) ==
  /\ loader[o] # Nobody
  /\ pc' = [pc EXCEPT ![loader[o]] = "error"]
  /\ Fails
  /\ UNCHANGED <<committed, cacheVars, loadVars, snap, needs, waits, late>>

LoadFails(o) ==
  /\ loader[o] # Nobody
  /\ Stop({r \in Requests : o \in waits[r]}, "error")
  /\ Fails

Evict(o) ==
  /\ o \in loaded
  /\ loaded' = loaded \ {o}
  /\ UNCHANGED <<committed, cacheVars, loader, requestVars, history>>

\* With all its objects the query runs; the clock of a Flight stream starts anew.
Launch(r) ==
  /\ pc[r] = "loading"
  /\ needs[r] = {}
  /\ pc' = [pc EXCEPT ![r] = "running"]
  /\ late' = [late EXCEPT ![r] = @ /\ r \in HTTP]
  /\ UNCHANGED <<committed, cacheVars, loadVars, snap, needs, waits, history>>

\* read_current, or the reading of the files, fails.
RequestFails(r) ==
  /\ pc[r] \in {"pointer", "running"}
  /\ Stop({r}, "error")
  /\ Fails

\* An HTTP request has its rows: in time, or at the poll that finds it late.
Complete(r) ==
  /\ pc[r] = "running"
  /\ r \in HTTP
  /\ Stop({r}, "ok")
  /\ UNCHANGED history

TimePasses(r) ==
  /\ pc[r] \in Active
  /\ ~late[r]
  /\ late' = [late EXCEPT ![r] = TRUE]
  /\ UNCHANGED <<committed, cacheVars, loadVars, pc, snap, needs, waits, history>>

\* Mutant of TimesOut: only the setup has a time limit, as for Flight.
TimesOutInSetup(r) == pc[r] \in {"pointer", "loading"}

\* tokio::time::timeout around the whole HTTP query, and the setup of a Flight one.
TimesOut(r) == pc[r] \in Active /\ (r \in Flight => pc[r] # "running")

\* Mutant of Timeout: whoever waits for a load of the query fails with it.
TimeoutFailsWaiters(r) ==
  /\ TimesOut(r)
  /\ late[r]
  /\ Stop({q \in Requests : q = r \/ \E o \in waits[q] : loader[o] = r}, "error")
  /\ UNCHANGED history

Timeout(r) ==
  /\ TimesOut(r)
  /\ late[r]
  /\ Stop({r}, "timeout")
  /\ UNCHANGED history

\* The client disconnects.
Leave(r) ==
  /\ pc[r] \in Active
  /\ Stop({r}, "gone")
  /\ UNCHANGED history

(***************************************************************************)
(* A poll of the stream of do_get, but for an item in time, which changes  *)
(* nothing here: the deadline is compared when there is an item, and only  *)
(* then, so nothing to give yet and the end of the stream pass over it.    *)
(***************************************************************************)
PassOver(r) == overdue' = IF late[r] THEN overdue \cup {r} ELSE overdue

PollStream(r) ==
  /\ pc[r] = "running"
  /\ r \in Flight
  /\ \/ /\ late[r]
        /\ Stop({r}, "timeout")
        /\ UNCHANGED history
     \/ /\ Stop({r}, "ok")
        /\ PassOver(r)
        /\ UNCHANGED <<began, hit>>
     \/ /\ PassOver(r)
        /\ UNCHANGED <<committed, cacheVars, loadVars, requestVars, began, hit>>

Next ==
  \/ \E t \in Tables : CommitBatch(t) \/ ReadPointer(t) \/ ReadMetadata(t) \/ RefreshFails(t)
  \/ Tick
  \/ \E o \in Object : LoadDone(o) \/ LoadFails(o) \/ Evict(o)
  \/ \E r \in Requests :
       \/ Arrive(r) \/ Plan(r) \/ Launch(r) \/ Complete(r) \/ PollStream(r)
       \/ RequestFails(r) \/ TimePasses(r) \/ Timeout(r) \/ Leave(r)
       \/ \E o \in Object : Get(r, o)

(***************************************************************************)
(* Time passes, a timer that went off is noticed, and the polling task     *)
(* wakes up.  Nothing says that the store answers.                         *)
(***************************************************************************)
Fairness ==
  /\ \A r \in Requests : WF_vars(TimePasses(r)) /\ WF_vars(Timeout(r))
  /\ WF_vars(Tick)

Spec == Init /\ [][Next]_vars /\ Fairness
-----------------------------------------------------------------------------
ServerTypeOK ==
  /\ committed \in [Tables -> 0..MaxCommits]
  /\ cached \in [Tables -> [path : Nat, metadata : Nat]]
  /\ refresh \in [Tables -> {"asleep", "pointer", "metadata"}]
  /\ found \in [Tables -> Nat]
  /\ loaded \subseteq Object
  /\ loader \in [Object -> Requests \cup {Nobody}]
  /\ pc \in [Requests -> {"idle"} \cup Active \cup Answered]
  /\ snap \in [Requests -> 0..MaxCommits]
  /\ needs \in [Requests -> SUBSET Object]
  /\ waits \in [Requests -> SUBSET Object]
  /\ late \in [Requests -> BOOLEAN]
  /\ began \in [Requests -> 0..MaxCommits]
  /\ overdue \subseteq Flight
  /\ hit \subseteq Requests

(***************************************************************************)
(* A query answers from a snapshot that has every batch committed before   *)
(* it arrived, however old the cached metadata is that it was validated    *)
(* with: whoever waits for the indexer to succeed finds what it indexed.   *)
(***************************************************************************)
ReadsCommitted ==
  \A r \in Requests : pc[r] \in {"loading", "running", "ok"} => snap[r] >= began[r]

(***************************************************************************)
(* An error is that of a fault that happened during the request: neither a *)
(* load that failed earlier nor the end of somebody else's query is passed *)
(* on by the object cache.                                                 *)
(***************************************************************************)
ErrorsAreFresh ==
  \A r \in Requests : pc[r] = "error" => r \in hit

(***************************************************************************)
(* A load that others wait for has somebody to drive it: a query that      *)
(* fails, times out or is left takes its loads with it, and whoever still  *)
(* waits can start anew.  And whoever waits still needs the object.        *)
(***************************************************************************)
NobodyIsStranded ==
  /\ \A o \in Object :
       loader[o] # Nobody => pc[loader[o]] = "loading" /\ o \in waits[loader[o]]
  /\ \A r \in Requests : waits[r] \subseteq needs[r]

(***************************************************************************)
(* Every HTTP request is answered, also when the store never answers.      *)
(***************************************************************************)
HttpAnswered == \A r \in HTTP : pc[r] \in Active ~> pc[r] \in Answered

StoreAnswers(t) == SF_vars(ReadPointer(t)) /\ SF_vars(ReadMetadata(t))

(***************************************************************************)
(* When each store answers time and again, the cached metadata of each     *)
(* table catches up with its last commit, whatever failed in between       *)
(* ("Background task polls for updates", cache.rs).                        *)
(***************************************************************************)
CacheCatchesUp ==
  (\A t \in Tables : StoreAnswers(t))
    => \A t \in Tables : <>[](cached[t].metadata = committed[t])

(***************************************************************************)
(* "Once `timeout` elapses from stream creation, every subsequent poll     *)
(* yields DEADLINE_EXCEEDED" (flight.rs).                                  *)
(***************************************************************************)
DeadlineEnforced == overdue = {}
=============================================================================
