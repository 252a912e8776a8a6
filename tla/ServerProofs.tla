---------------------------- MODULE ServerProofs ----------------------------
(***************************************************************************)
(* The safety of the query server, for any tables, requests and bounds:    *)
(* answers come from a snapshot no older than the request, an error is     *)
(* that of a fault during the request, and no load is left to nobody.      *)
(***************************************************************************)
EXTENDS Server, TLAPS

USE DEF Active, Answered

\* Only a request for a registered table gets further than Arrive.
Registered == \A r \in Requests : pc[r] \in Active => TableOf[r] \in Tables

\* A request that has not planned yet will see what was there when it began.
BeganInThePast ==
  \A r \in Requests : pc[r] = "pointer" => began[r] <= committed[TableOf[r]]

\* Only a query that is loading needs anything, and it waits for what it needs.
Waiting ==
  \A r \in Requests :
    /\ waits[r] \subseteq needs[r]
    /\ pc[r] # "loading" => needs[r] = {}

\* A load belongs to a query that still waits for it.
Driven ==
  \A o \in Object : loader[o] # Nobody => o \in waits[loader[o]]

\* Nobody loads what the cache has.
NoneTwice == \A o \in loaded : loader[o] = Nobody

TypeInv == ServerTypeOK /\ Registered

SafetyInv ==
  /\ TypeInv
  /\ BeganInThePast
  /\ ReadsCommitted
  /\ Waiting
  /\ Driven
  /\ NoneTwice
  /\ ErrorsAreFresh
-----------------------------------------------------------------------------
(***************************************************************************)
(* What Stop does: the futures are dropped, the other queries stay.        *)
(***************************************************************************)
LEMMA Stopping ==
  ASSUME ServerTypeOK, NEW S \in SUBSET Requests, NEW answer \in Answered,
         Stop(S, answer)
  PROVE  /\ pc' \in [Requests -> {"idle"} \cup Active \cup Answered]
         /\ needs' \in [Requests -> SUBSET Object]
         /\ waits' \in [Requests -> SUBSET Object]
         /\ loader' \in [Object -> Requests \cup {Nobody}]
         /\ \A r \in S : pc'[r] = answer /\ needs'[r] = {} /\ waits'[r] = {}
         /\ \A r \in Requests \ S :
              pc'[r] = pc[r] /\ needs'[r] = needs[r] /\ waits'[r] = waits[r]
         /\ \A o \in Object : loader[o] \in S => loader'[o] = Nobody
         /\ \A o \in Object : loader[o] \notin S => loader'[o] = loader[o]
         /\ UNCHANGED <<committed, cached, refresh, found, loaded, snap, late>>
  BY DEF Stop, ServerTypeOK, cacheVars

LEMMA TypeInit == Init => TypeInv
  <1> SUFFICES ASSUME Init PROVE TypeInv
    OBVIOUS
  <1>1. 0..1 \subseteq 0..MaxCommits
    BY ServerAssumption
  <1>2. committed \in [Tables -> 0..MaxCommits] /\ 0 \in 0..MaxCommits
    BY <1>1, ServerAssumption DEF Init
  <1>3. cached \in [Tables -> [path : Nat, metadata : Nat]]
    BY <1>2 DEF Init
  <1>4. Registered
    BY DEF Init, Registered
  <1> QED
    BY <1>2, <1>3, <1>4 DEF Init, TypeInv, ServerTypeOK

LEMMA TypeStep == TypeInv /\ [Next]_vars => TypeInv'
  <1> SUFFICES ASSUME TypeInv, [Next]_vars PROVE TypeInv'
    OBVIOUS
  <1> USE DEF TypeInv, ServerTypeOK, Registered, cacheVars, loadVars, requestVars, history
  <1>1. ASSUME NEW t \in Tables, CommitBatch(t) PROVE TypeInv'
    BY <1>1, ServerAssumption DEF CommitBatch
  <1>2. CASE Tick
    BY <1>2 DEF Tick
  <1>3. ASSUME NEW t \in Tables, ReadPointer(t) PROVE TypeInv'
    BY <1>3, ServerAssumption DEF ReadPointer
  <1>4. ASSUME NEW t \in Tables, ReadMetadata(t) PROVE TypeInv'
    BY <1>4 DEF ReadMetadata
  <1>5. ASSUME NEW t \in Tables, RefreshFails(t) PROVE TypeInv'
    BY <1>5 DEF RefreshFails, Fails
  <1>6. ASSUME NEW r \in Requests, Arrive(r) PROVE TypeInv'
    BY <1>6 DEF Arrive
  <1>7. ASSUME NEW r \in Requests, Plan(r) PROVE TypeInv'
    <2>1. TableOf[r] \in Tables /\ committed[TableOf[r]] \in 0..MaxCommits
      BY <1>7 DEF Plan, PlanWith
    <2>2. Objects(TableOf[r], committed[TableOf[r]]) \subseteq Object
      BY <2>1, ServerAssumption DEF Objects, Object
    <2> QED
      BY <1>7, <2>1, <2>2 DEF Plan, PlanWith
  <1>8. ASSUME NEW r \in Requests, NEW o \in Object, Get(r, o) PROVE TypeInv'
    BY <1>8 DEF Get
  <1>9. ASSUME NEW o \in Object, LoadDone(o) PROVE TypeInv'
    BY <1>9 DEF LoadDone
  <1>10. ASSUME NEW o \in Object, Evict(o) PROVE TypeInv'
    BY <1>10 DEF Evict
  <1>11. ASSUME NEW r \in Requests, Launch(r) PROVE TypeInv'
    BY <1>11 DEF Launch, HTTP
  <1>12. ASSUME NEW r \in Requests, TimePasses(r) PROVE TypeInv'
    BY <1>12 DEF TimePasses
  <1>13. ASSUME NEW S \in SUBSET Requests, NEW answer \in Answered, Stop(S, answer),
                began' = began, hit' \subseteq Requests, overdue' \subseteq Flight
         PROVE  TypeInv'
    <2>1. ASSUME NEW r \in Requests, pc'[r] \in Active PROVE TableOf[r] \in Tables
      BY <1>13, <2>1, Stopping
    <2> QED
      BY <1>13, <2>1, Stopping
  <1>14. ASSUME NEW o \in Object, LoadFails(o) PROVE TypeInv'
    BY <1>13, <1>14 DEF LoadFails, Fails
  <1>15. ASSUME NEW r \in Requests,
                RequestFails(r) \/ Complete(r) \/ Timeout(r) \/ Leave(r)
         PROVE  TypeInv'
    BY <1>13, <1>15 DEF RequestFails, Fails, Complete, Timeout, Leave
  <1>16. ASSUME NEW r \in Requests, PollStream(r) PROVE TypeInv'
    <2>1. overdue' \subseteq Flight /\ began' = began /\ hit' = hit
      BY <1>16 DEF PollStream, PassOver
    <2>2. CASE UNCHANGED <<committed, cacheVars, loadVars, requestVars>>
      BY <2>1, <2>2
    <2>3. CASE \E answer \in Answered : Stop({r}, answer)
      BY <1>13, <2>1, <2>3
    <2> QED
      BY <1>16, <2>2, <2>3 DEF PollStream
  <1>17. CASE UNCHANGED vars
    BY <1>17 DEF vars
  <1> QED
    BY <1>1, <1>2, <1>3, <1>4, <1>5, <1>6, <1>7, <1>8, <1>9, <1>10, <1>11, <1>12,
       <1>14, <1>15, <1>16, <1>17 DEF Next

(***************************************************************************)
(* The variables of the server keep their types.                           *)
(***************************************************************************)
THEOREM ServerTypeCorrect == Spec => []ServerTypeOK
  <1>1. Init => TypeInv
    BY TypeInit
  <1>2. TypeInv /\ [Next]_vars => TypeInv'
    BY TypeStep
  <1>3. TypeInv => ServerTypeOK
    BY DEF TypeInv
  <1> QED
    BY <1>1, <1>2, <1>3, PTL DEF Spec
-----------------------------------------------------------------------------
LEMMA SafetyInit == Init => SafetyInv
  <1> SUFFICES ASSUME Init PROVE SafetyInv
    OBVIOUS
  <1>1. TypeInv
    BY TypeInit
  <1>2. Driven
    BY DEF Init, Driven
  <1> QED
    BY <1>1, <1>2 DEF Init, SafetyInv, NoneTwice, BeganInThePast, ReadsCommitted, Waiting, ErrorsAreFresh

(***************************************************************************)
(* Stopping some queries keeps the invariant, if those that end with an    *)
(* error met a fault and those that answer had their snapshot.             *)
(***************************************************************************)
LEMMA StopSafe ==
  ASSUME SafetyInv, TypeInv', NEW S \in SUBSET Requests, NEW answer \in Answered,
         Stop(S, answer), began' = began, hit \subseteq hit',
         answer = "error" => S \subseteq hit',
         answer = "ok" => \A r \in S : pc[r] = "running"
  PROVE  SafetyInv'
  <1> USE DEF SafetyInv, TypeInv
  <1>1. BeganInThePast'
    BY Stopping DEF BeganInThePast
  <1>2. ReadsCommitted'
    BY Stopping DEF ReadsCommitted
  <1>3. Waiting'
    BY Stopping DEF Waiting
  <1>4. ASSUME NEW o \in Object, loader'[o] # Nobody PROVE o \in waits'[loader'[o]]
    <2>1. loader[o] \in Requests \ S /\ loader'[o] = loader[o]
      BY <1>4, Stopping DEF ServerTypeOK
    <2> QED
      BY <1>4, <2>1, Stopping DEF Driven
  <1>5. ErrorsAreFresh'
    BY Stopping DEF ErrorsAreFresh
  <1>6. NoneTwice'
    BY Stopping DEF NoneTwice, ServerTypeOK
  <1> QED
    BY <1>1, <1>2, <1>3, <1>4, <1>5, <1>6 DEF Driven

LEMMA SafetyStep == SafetyInv /\ [Next]_vars => SafetyInv'
  <1> SUFFICES ASSUME SafetyInv, [Next]_vars PROVE SafetyInv'
    OBVIOUS
  <1>0. TypeInv'
    BY TypeStep DEF SafetyInv
  <1> USE <1>0 DEF SafetyInv, TypeInv
  <1>1. ASSUME NEW t \in Tables, CommitBatch(t) PROVE SafetyInv'
    <2>1. BeganInThePast'
      <3> SUFFICES ASSUME NEW r \in Requests, pc[r] = "pointer"
                   PROVE  began[r] <= committed'[TableOf[r]]
        BY <1>1 DEF CommitBatch, BeganInThePast, requestVars, history
      <3>1. TableOf[r] \in Tables /\ began[r] <= committed[TableOf[r]]
        BY DEF BeganInThePast, Registered
      <3>2. committed'[TableOf[r]] \in {committed[TableOf[r]], committed[TableOf[r]] + 1}
        BY <1>1, <3>1 DEF CommitBatch, ServerTypeOK
      <3> QED
        BY <3>1, <3>2, ServerAssumption DEF ServerTypeOK
    <2> QED
      BY <1>1, <2>1 DEF CommitBatch, requestVars, loadVars, history,
         ReadsCommitted, Waiting, Driven, NoneTwice, ErrorsAreFresh
  <1>2. ASSUME UNCHANGED <<committed, loader, requestVars, began>>, hit \subseteq hit',
               loaded' \subseteq loaded
        PROVE  SafetyInv'
    BY <1>2 DEF requestVars, BeganInThePast, ReadsCommitted, Waiting, Driven, NoneTwice, ErrorsAreFresh
  <1>3. CASE Tick
    BY <1>2, <1>3 DEF Tick, loadVars, history
  <1>4. ASSUME NEW t \in Tables, ReadPointer(t) \/ ReadMetadata(t) \/ RefreshFails(t)
        PROVE  SafetyInv'
    BY <1>2, <1>4 DEF ReadPointer, ReadMetadata, RefreshFails, Fails, loadVars, history
  <1>5. ASSUME NEW o \in Object, Evict(o) PROVE SafetyInv'
    BY <1>2, <1>5 DEF Evict, history
  <1>6. ASSUME NEW r \in Requests, Arrive(r) PROVE SafetyInv'
    <2>1. /\ UNCHANGED <<committed, loader, loaded, snap, needs, waits, hit>>
          /\ pc[r] = "idle" /\ pc'[r] \in {"not_found", "bad_request", "pointer"}
          /\ \A q \in Requests : q # r => pc'[q] = pc[q] /\ began'[q] = began[q]
          /\ pc'[r] = "pointer" => began'[r] = committed[TableOf[r]] /\ TableOf[r] \in Tables
      BY <1>6 DEF Arrive, ServerTypeOK, loadVars
    <2>2. BeganInThePast'
      BY <2>1, ServerAssumption DEF BeganInThePast, ServerTypeOK
    <2> QED
      BY <2>1, <2>2 DEF ReadsCommitted, Waiting, Driven, NoneTwice, ErrorsAreFresh
  <1>7. ASSUME NEW r \in Requests, Plan(r) PROVE SafetyInv'
    <2>1. /\ UNCHANGED <<committed, loader, loaded, waits, began, hit>>
          /\ pc[r] = "pointer" /\ pc'[r] = "loading"
          /\ snap'[r] = committed[TableOf[r]]
          /\ \A q \in Requests : q # r =>
               pc'[q] = pc[q] /\ snap'[q] = snap[q] /\ needs'[q] = needs[q]
      BY <1>7 DEF Plan, PlanWith, ServerTypeOK, loadVars, history
    <2>2. waits[r] = {}
      BY <2>1 DEF Waiting
    <2>3. ReadsCommitted'
      <3>1. began[r] <= committed[TableOf[r]] /\ committed[TableOf[r]] \in Nat /\ began[r] \in Nat
        BY <2>1, ServerAssumption DEF BeganInThePast, Registered, ServerTypeOK
      <3> QED
        BY <2>1, <3>1 DEF ReadsCommitted
    <2> QED
      BY <2>1, <2>2, <2>3 DEF BeganInThePast, Waiting, Driven, NoneTwice, ErrorsAreFresh
  <1>8. ASSUME NEW r \in Requests, NEW o \in Object, Get(r, o) PROVE SafetyInv'
    <2>1. UNCHANGED <<committed, loaded, pc, snap, began, hit>> /\ pc[r] = "loading"
      BY <1>8 DEF Get, history
    <2>2. CASE o \in loaded
      <3>1. /\ loader' = loader /\ needs'[r] = needs[r] \ {o} /\ waits'[r] = waits[r] \ {o}
            /\ \A q \in Requests : q # r => needs'[q] = needs[q] /\ waits'[q] = waits[q]
        BY <1>8, <2>2 DEF Get, ServerTypeOK
      <3>2. Waiting'
        BY <2>1, <3>1 DEF Waiting
      <3>3. ASSUME NEW p \in Object, loader'[p] # Nobody PROVE p \in waits'[loader'[p]]
        BY <2>2, <3>1, <3>3 DEF Driven, NoneTwice, ServerTypeOK
      <3> QED
        BY <2>1, <3>1, <3>2, <3>3 DEF Driven, NoneTwice, BeganInThePast, ReadsCommitted, ErrorsAreFresh
    <2>3. CASE o \notin loaded
      <3>1. /\ needs' = needs /\ waits'[r] = waits[r] \cup {o} /\ o \in needs[r]
            /\ \A q \in Requests : q # r => waits'[q] = waits[q]
            /\ \A p \in Object : p # o => loader'[p] = loader[p]
            /\ loader'[o] = IF loader[o] = Nobody THEN r ELSE loader[o]
        BY <1>8, <2>3 DEF Get, ServerTypeOK
      <3>2. Waiting'
        BY <2>1, <3>1 DEF Waiting
      <3>3. ASSUME NEW p \in Object, loader'[p] # Nobody PROVE p \in waits'[loader'[p]]
        <4>1. CASE loader[p] = Nobody
          BY <3>1, <3>3, <4>1
        <4>2. CASE loader[p] # Nobody
          BY <3>1, <4>2 DEF Driven, ServerTypeOK
        <4> QED
          BY <4>1, <4>2
      <3>4. NoneTwice'
        BY <2>1, <2>3, <3>1 DEF NoneTwice, ServerTypeOK
      <3> QED
        BY <2>1, <3>1, <3>2, <3>3, <3>4 DEF Driven, BeganInThePast, ReadsCommitted, ErrorsAreFresh
    <2> QED
      BY <2>2, <2>3
  <1>9. ASSUME NEW o \in Object, LoadDone(o) PROVE SafetyInv'
    <2>1. /\ UNCHANGED <<committed, pc, snap, began, hit>>
          /\ loaded' = loaded \cup {o}
          /\ loader'[o] = Nobody
          /\ \A p \in Object : p # o => loader'[p] = loader[p]
          /\ \A r \in Requests :
               /\ waits'[r] = waits[r] \ {o}
               /\ needs'[r] = IF o \in waits[r] THEN needs[r] \ {o} ELSE needs[r]
      BY <1>9 DEF LoadDone, ServerTypeOK, history
    <2>2. Waiting'
      BY <2>1 DEF Waiting
    <2>3. ASSUME NEW p \in Object, loader'[p] # Nobody PROVE p \in waits'[loader'[p]]
      <3>1. p # o /\ loader[p] \in Requests /\ p \in waits[loader[p]]
        BY <2>1, <2>3 DEF Driven, ServerTypeOK
      <3> QED
        BY <2>1, <3>1
    <2> QED
      BY <2>1, <2>2, <2>3 DEF Driven, NoneTwice, ServerTypeOK,
         BeganInThePast, ReadsCommitted, ErrorsAreFresh
  <1>10. ASSUME NEW r \in Requests, Launch(r) PROVE SafetyInv'
    <2>1. /\ UNCHANGED <<committed, loader, loaded, snap, needs, waits, began, hit>>
          /\ pc[r] = "loading" /\ needs[r] = {} /\ pc'[r] = "running"
          /\ \A q \in Requests : q # r => pc'[q] = pc[q]
      BY <1>10 DEF Launch, ServerTypeOK, loadVars, history
    <2> QED
      BY <2>1 DEF BeganInThePast, ReadsCommitted, Waiting, Driven, NoneTwice, ErrorsAreFresh
  <1>11. ASSUME NEW r \in Requests, TimePasses(r) PROVE SafetyInv'
    BY <1>11 DEF TimePasses, loadVars, history,
       BeganInThePast, ReadsCommitted, Waiting, Driven, NoneTwice, ErrorsAreFresh
  <1>12. ASSUME NEW o \in Object, LoadFails(o) PROVE SafetyInv'
    <2> DEFINE S == {r \in Requests : o \in waits[r]}
    <2>1. \A r \in S : pc[r] = "loading"
      BY DEF Waiting
    <2>2. began' = began /\ hit \subseteq hit' /\ S \subseteq hit' /\ Stop(S, "error")
      BY <1>12, <2>1 DEF LoadFails, Fails
    <2> HIDE DEF S
    <2>3. S \in SUBSET Requests
      BY DEF S
    <2> QED
      BY <2>2, <2>3, StopSafe
  <1>13. ASSUME NEW r \in Requests, RequestFails(r) PROVE SafetyInv'
    <2>1. began' = began /\ hit \subseteq hit' /\ {r} \subseteq hit' /\ Stop({r}, "error")
      BY <1>13 DEF RequestFails, Fails
    <2> QED
      BY <2>1, StopSafe
  <1>14. ASSUME NEW r \in Requests, Complete(r) \/ Timeout(r) \/ Leave(r) PROVE SafetyInv'
    <2>1. began' = began /\ hit' = hit
      BY <1>14 DEF Complete, Timeout, Leave, history
    <2>2. \E answer \in Answered : /\ Stop({r}, answer)
                                   /\ answer # "error"
                                   /\ answer = "ok" => pc[r] = "running"
      BY <1>14 DEF Complete, Timeout, Leave
    <2> QED
      BY <2>1, <2>2, StopSafe
  <1>15. ASSUME NEW r \in Requests, PollStream(r) PROVE SafetyInv'
    <2>1. began' = began /\ hit' = hit /\ pc[r] = "running"
      BY <1>15 DEF PollStream, history
    <2>2. CASE UNCHANGED <<committed, cacheVars, loadVars, requestVars>>
      BY <1>2, <2>1, <2>2 DEF loadVars
    <2>3. CASE Stop({r}, "timeout") \/ Stop({r}, "ok")
      BY <2>1, <2>3, StopSafe
    <2> QED
      BY <1>15, <2>2, <2>3 DEF PollStream
  <1>16. CASE UNCHANGED vars
    BY <1>2, <1>16 DEF vars, loadVars, history
  <1> QED
    BY <1>1, <1>3, <1>4, <1>5, <1>6, <1>7, <1>8, <1>9, <1>10, <1>11, <1>12, <1>13,
       <1>14, <1>15, <1>16 DEF Next

LEMMA Safe == Spec => []SafetyInv
  BY SafetyInit, SafetyStep, PTL DEF Spec

(***************************************************************************)
(* A query reads a snapshot with every batch committed before it arrived,  *)
(* however old the cached metadata.                                        *)
(***************************************************************************)
THEOREM QueriesReadCommitted == Spec => []ReadsCommitted
  <1>1. SafetyInv => ReadsCommitted
    BY DEF SafetyInv
  <1> QED
    BY <1>1, Safe, PTL

(***************************************************************************)
(* Neither an earlier failure nor the end of another query is an error of  *)
(* this one.                                                               *)
(***************************************************************************)
THEOREM ErrorsAreOwn == Spec => []ErrorsAreFresh
  <1>1. SafetyInv => ErrorsAreFresh
    BY DEF SafetyInv
  <1> QED
    BY <1>1, Safe, PTL

(***************************************************************************)
(* A load that others wait for is driven by a query that waits as well.    *)
(***************************************************************************)
THEOREM LoadsAreDriven == Spec => []NobodyIsStranded
  <1>1. SafetyInv => NobodyIsStranded
    <2> SUFFICES ASSUME SafetyInv PROVE NobodyIsStranded
      OBVIOUS
    <2>1. ASSUME NEW o \in Object, loader[o] # Nobody
          PROVE  pc[loader[o]] = "loading" /\ o \in waits[loader[o]]
      <3>1. loader[o] \in Requests /\ o \in waits[loader[o]]
        BY <2>1 DEF SafetyInv, TypeInv, ServerTypeOK, Driven
      <3> QED
        BY <3>1 DEF SafetyInv, Waiting
    <2> QED
      BY <2>1 DEF NobodyIsStranded, SafetyInv, Waiting
  <1> QED
    BY <1>1, Safe, PTL
=============================================================================
