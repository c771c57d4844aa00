----------------------------- MODULE ConsoleProofs -----------------------------
(***************************************************************************)
(* Theorems about the parts of the console, for any number of tabs, pages, *)
(* requests and reviewers, and about the console that runs them.           *)
(***************************************************************************)
EXTENDS Console, FiniteSetTheorems, SequenceTheorems, TLAPS

-----------------------------------------------------------------------------
(* The keys of the writes (Idempotency), for every number of keys, payloads, *)
(* requests in flight and executions, and every retention.                  *)

\* Executions end after they start, and not in the future.
Ordered == \A e \in DOMAIN log : log[e].start <= log[e].ended /\ log[e].ended <= now

\* A running request is the only one of its execution, which has not ended and
\* is within its time.
InFlight == \A r \in Requests : Running(r) =>
    /\ reqs[r].exec \in DOMAIN log
    /\ log[reqs[r].exec].key = reqs[r].key
    /\ log[reqs[r].exec].payload = reqs[r].payload
    /\ log[reqs[r].exec].status = "running"
    /\ now <= log[reqs[r].exec].start + MaxDuration
    /\ \A s \in Requests : Running(s) /\ reqs[s].exec = reqs[r].exec => s = r

\* While the retention of an execution lasts, its key has a row as young as it.
Held == \A e \in DOMAIN log :
    /\ now <= log[e].start + Retention =>
          records[log[e].key] # NoRecord /\ records[log[e].key].at >= log[e].start
    /\ log[e].status = "stored" /\ now <= log[e].ended + Retention =>
          records[log[e].key] # NoRecord /\ records[log[e].key].at >= log[e].ended

\* Until then the row of an execution without a stored response is its claim.
Claim == \A e \in DOMAIN log :
    log[e].status # "stored" /\ now <= log[e].start + Retention =>
        records[log[e].key] = Processing(log[e].payload, log[e].start)

\* A completed row holds the response of an execution of its key and payload.
Origin == \A k \in Keys : records[k].state = "completed" =>
    /\ records[k].reply \in DOMAIN log
    /\ log[records[k].reply].key = k
    /\ log[records[k].reply].payload = records[k].payload
    /\ log[records[k].reply].status = "stored"

IInv == /\ TypeOK /\ Ordered /\ InFlight /\ Held /\ Claim /\ Origin
        /\ OncePerRetention /\ ReplayIsOriginal

-----------------------------------------------------------------------------
LEMMA InitIInv == Init => IInv
  BY TimeAssumption, BoundAssumption DEF Init, IInv, TypeOK, Ordered, InFlight, Held,
     Claim, Origin, OncePerRetention, ReplayIsOriginal, Running, Idle, NoRecord,
     Record, Request, Exec

\* The log as a function.
LEMMA LogType ==
  ASSUME TypeOK
  PROVE  /\ Len(log) \in Nat
         /\ DOMAIN log = 1..Len(log)
         /\ \A e \in DOMAIN log : /\ log[e] \in Exec
                                 /\ log[e].key \in Keys
                                 /\ log[e].payload \in Payloads
                                 /\ log[e].start \in Nat
                                 /\ log[e].ended \in Nat
  <1>1. log \in Seq(Exec)
    BY DEF TypeOK
  <1>2. /\ Len(log) \in Nat
        /\ log \in [1..Len(log) -> Exec]
        /\ DOMAIN log = 1..Len(log)
    BY <1>1, LenProperties
  <1> QED
    BY <1>2 DEF Exec

\* What is left of the table after a cleanup.
LEMMA PurgeType ==
  ASSUME TypeOK
  PROVE  /\ Purge \in [Keys -> Record]
         /\ \A k \in Keys : Purge[k] = records[k] \/ Purge[k] = NoRecord
         /\ \A k \in Keys : records[k] # NoRecord /\ Purge[k] = NoRecord =>
                records[k].at < now - Retention
  BY DEF TypeOK, Purge, Expired, Record, NoRecord

\* The cleanup removes no row that Held, Claim or Origin speak of.
LEMMA PurgeKeeps ==
  ASSUME IInv
  PROVE  \A e \in DOMAIN log :
            now <= log[e].start + Retention
               \/ (log[e].status = "stored" /\ now <= log[e].ended + Retention)
            => Purge[log[e].key] = records[log[e].key] /\ Purge[log[e].key] # NoRecord
  <1> SUFFICES ASSUME NEW e \in DOMAIN log,
                      now <= log[e].start + Retention
                        \/ (log[e].status = "stored" /\ now <= log[e].ended + Retention)
               PROVE  Purge[log[e].key] = records[log[e].key]
                      /\ Purge[log[e].key] # NoRecord
    OBVIOUS
  <1>1. /\ log[e].key \in Keys
        /\ log[e].start \in Nat /\ log[e].ended \in Nat /\ now \in Nat
        /\ records[log[e].key] \in Record
    BY LogType DEF IInv, TypeOK
  <1>2. /\ records[log[e].key] # NoRecord
        /\ \/ now <= records[log[e].key].at + Retention
           \/ records[log[e].key].at \notin Nat
    BY <1>1, TimeAssumption DEF IInv, Held
  <1>3. records[log[e].key].at \in Nat
    BY <1>1, <1>2 DEF Record, NoRecord
  <1>4. ~(records[log[e].key].at < now - Retention)
    BY <1>1, <1>2, <1>3, TimeAssumption
  <1> QED
    BY <1>1, <1>2, <1>4 DEF Purge, Expired

\* A key is claimed only when its row is gone.
LEMMA ClaimFree ==
  ASSUME TypeOK, NEW r \in Requests, NEW k \in Keys, NEW p \in Payloads, Start(r, k, p)
  PROVE  Purge[k] = NoRecord
  <1>1. Purge[k] \in Record
    BY PurgeType
  <1>2. Verdict(Purge[k], p) = "started"
    BY DEF Start
  <1>3. CASE Purge[k] # NoRecord
    <2>1. Purge[k].state \in {"processing", "completed"}
      BY <1>1, <1>3 DEF Record
    <2>2. Verdict(Purge[k], p) \in {"mismatch", Purge[k].state}
      BY <1>3, Zenon DEF Verdict
    <2> QED BY <1>2, <2>1, <2>2
  <1> QED BY <1>3

\* What Start does to the log: one more execution, the others as they were.
LEMMA StartLog ==
  ASSUME TypeOK, NEW r \in Requests, NEW k \in Keys, NEW p \in Payloads, Start(r, k, p)
  PROVE  LET n == Len(log) + 1
             x == [key |-> k, payload |-> p, start |-> now, ended |-> now,
                   status |-> "running"]
         IN  /\ n \in Nat \ {0} /\ n \notin DOMAIN log
             /\ log' \in Seq(Exec)
             /\ DOMAIN log' = DOMAIN log \cup {n}
             /\ log'[n] = x
             /\ \A e \in DOMAIN log : log'[e] = log[e] /\ e < n /\ e \in Nat
  <1> DEFINE x == [key |-> k, payload |-> p, start |-> now, ended |-> now,
                   status |-> "running"]
  <1>1. x \in Exec /\ log \in Seq(Exec)
    BY DEF TypeOK, Exec
  <1>2. log' = Append(log, x)
    BY DEF Start
  <1> HIDE DEF x
  <1>3. /\ log' \in Seq(Exec)
        /\ Len(log') = Len(log) + 1
        /\ \A e \in 1..Len(log) : log'[e] = log[e]
        /\ log'[Len(log) + 1] = x
    BY <1>1, <1>2
  <1>4. DOMAIN log' = 1..(Len(log) + 1) /\ DOMAIN log = 1..Len(log) /\ Len(log) \in Nat
    BY <1>1, <1>3, LenProperties
  <1> QED
    BY <1>3, <1>4 DEF x

LEMMA StartStep ==
  ASSUME IInv, NEW r \in Requests, NEW k \in Keys, NEW p \in Payloads, Start(r, k, p)
  PROVE  IInv'
  <1> DEFINE n == Len(log) + 1
             x == [key |-> k, payload |-> p, start |-> now, ended |-> now,
                   status |-> "running"]
             q == [pc |-> "running", exec |-> n, key |-> k, payload |-> p]
  <1>1. TypeOK /\ Purge[k] = NoRecord /\ now \in Nat
    BY ClaimFree DEF IInv, TypeOK
  <1>2. /\ n \in Nat \ {0} /\ n \notin DOMAIN log
        /\ log' \in Seq(Exec)
        /\ DOMAIN log' = DOMAIN log \cup {n}
        /\ log'[n] = x
        /\ \A e \in DOMAIN log : log'[e] = log[e] /\ e < n /\ e \in Nat
    BY <1>1, StartLog
  <1>3. /\ now' = now
        /\ records' = [Purge EXCEPT ![k] = Processing(p, now)]
        /\ reqs' = [reqs EXCEPT ![r] = q]
        /\ ~Running(r)
    BY DEF Start, Answer
  <1>4. /\ records' \in [Keys -> Record]
        /\ records'[k] = Processing(p, now)
        /\ \A j \in Keys \ {k} : records'[j] = Purge[j]
    BY <1>1, <1>3, PurgeType DEF Processing, Record
  <1>5. /\ reqs' \in [Requests -> Request]
        /\ reqs'[r] = q
        /\ \A s \in Requests \ {r} : reqs'[s] = reqs[s]
    BY <1>1, <1>2, <1>3 DEF TypeOK, Request
  <1>6. /\ x.key = k /\ x.payload = p /\ x.start = now /\ x.ended = now
        /\ x.status = "running"
        /\ q.pc = "running" /\ q.exec = n /\ q.key = k /\ q.payload = p
        /\ Processing(p, now).state = "processing" /\ Processing(p, now).at = now
        /\ Processing(p, now) # NoRecord
    BY DEF Processing, NoRecord
  <1>7. \A e \in DOMAIN log : /\ log[e].key \in Keys
                              /\ log[e].start \in Nat /\ log[e].ended \in Nat
                              /\ log[e].start <= log[e].ended /\ log[e].ended <= now
    BY <1>1, LogType DEF IInv, Ordered
  <1>8. \A e \in DOMAIN log : log[e].key = k =>
            /\ now > log[e].start + Retention
            /\ log[e].status = "stored" => now > log[e].ended + Retention
    <2> SUFFICES ASSUME NEW e \in DOMAIN log, log[e].key = k
                 PROVE  /\ now > log[e].start + Retention
                        /\ log[e].status = "stored" => now > log[e].ended + Retention
      OBVIOUS
    <2>1. ~(now <= log[e].start + Retention
              \/ (log[e].status = "stored" /\ now <= log[e].ended + Retention))
      BY <1>1, PurgeKeeps
    <2> QED BY <2>1, <1>1, <1>7, TimeAssumption
  <1> HIDE DEF n, x, q
  <1>9. TypeOK'
    BY <1>1, <1>2, <1>3, <1>4, <1>5 DEF TypeOK
  <1>10. Ordered'
    BY <1>1, <1>2, <1>3, <1>6, <1>7 DEF Ordered
  <1>11. InFlight'
    <2>1. \A s \in Requests \ {r} : Running(s) =>
             /\ reqs[s].exec \in DOMAIN log
             /\ reqs[s].exec # n
      BY <1>2 DEF IInv, InFlight
    <2>2. \A s \in Requests \ {r} : Running(s)' <=> Running(s)
      BY <1>5 DEF Running
    <2>3. ASSUME NEW s \in Requests, Running(s)'
          PROVE  /\ reqs'[s].exec \in DOMAIN log'
                 /\ log'[reqs'[s].exec].key = reqs'[s].key
                 /\ log'[reqs'[s].exec].payload = reqs'[s].payload
                 /\ log'[reqs'[s].exec].status = "running"
                 /\ now' <= log'[reqs'[s].exec].start + MaxDuration
      <3>1. CASE s = r
        BY <1>1, <1>2, <1>3, <1>5, <1>6, <3>1, TimeAssumption
      <3>2. CASE s # r
        BY <1>2, <1>3, <1>5, <2>1, <2>2, <2>3, <3>2 DEF IInv, InFlight
      <3> QED BY <3>1, <3>2
    <2>4. ASSUME NEW s \in Requests, NEW t \in Requests, Running(s)', Running(t)',
                 reqs'[s].exec = reqs'[t].exec
          PROVE  s = t
      <3>1. CASE s = r
        BY <1>5, <1>6, <2>1, <2>2, <2>4, <3>1
      <3>2. CASE t = r
        BY <1>5, <1>6, <2>1, <2>2, <2>4, <3>2
      <3>3. CASE s # r /\ t # r
        BY <1>5, <2>2, <2>4, <3>3 DEF IInv, InFlight
      <3> QED BY <3>1, <3>2, <3>3
    <2> QED BY <2>3, <2>4 DEF InFlight
  <1>12. Held'
    <2> SUFFICES ASSUME NEW e \in DOMAIN log'
                 PROVE  /\ now' <= log'[e].start + Retention =>
                             records'[log'[e].key] # NoRecord
                             /\ records'[log'[e].key].at >= log'[e].start
                        /\ log'[e].status = "stored" /\ now' <= log'[e].ended + Retention =>
                             records'[log'[e].key] # NoRecord
                             /\ records'[log'[e].key].at >= log'[e].ended
      BY DEF Held
    <2>1. CASE e = n
      BY <1>1, <1>2, <1>3, <1>4, <1>6, <2>1
    <2>2. CASE e \in DOMAIN log /\ log[e].key = k
      BY <1>1, <1>2, <1>3, <1>7, <1>8, <2>2, TimeAssumption
    <2>3. CASE e \in DOMAIN log /\ log[e].key # k
      <3>1. log'[e] = log[e] /\ records'[log'[e].key] = Purge[log[e].key]
        BY <1>2, <1>4, <1>7, <2>3
      <3> QED BY <1>3, <2>3, <3>1, PurgeKeeps DEF IInv, Held
    <2> QED BY <1>2, <2>1, <2>2, <2>3
  <1>13. Claim'
    <2> SUFFICES ASSUME NEW e \in DOMAIN log', log'[e].status # "stored",
                        now' <= log'[e].start + Retention
                 PROVE  records'[log'[e].key] = Processing(log'[e].payload, log'[e].start)
      BY DEF Claim
    <2>1. CASE e = n
      BY <1>2, <1>4, <1>6, <2>1
    <2>2. CASE e \in DOMAIN log /\ log[e].key = k
      BY <1>1, <1>2, <1>3, <1>7, <1>8, <2>2, TimeAssumption
    <2>3. CASE e \in DOMAIN log /\ log[e].key # k
      <3>1. log'[e] = log[e] /\ records'[log'[e].key] = Purge[log[e].key]
        BY <1>2, <1>4, <1>7, <2>3
      <3> QED BY <1>3, <2>3, <3>1, PurgeKeeps DEF IInv, Claim
    <2> QED BY <1>2, <2>1, <2>2, <2>3
  <1>14. Origin'
    <2> SUFFICES ASSUME NEW j \in Keys, records'[j].state = "completed"
                 PROVE  /\ records'[j].reply \in DOMAIN log'
                        /\ log'[records'[j].reply].key = j
                        /\ log'[records'[j].reply].payload = records'[j].payload
                        /\ log'[records'[j].reply].status = "stored"
      BY DEF Origin
    <2>1. j # k /\ records'[j] = records[j]
      BY <1>1, <1>4, <1>6, PurgeType DEF NoRecord
    <2> QED BY <1>2, <2>1 DEF IInv, Origin
  <1>15. OncePerRetention'
    <2> SUFFICES ASSUME NEW e \in DOMAIN log', NEW f \in DOMAIN log',
                        e < f, log'[e].key = log'[f].key
                 PROVE  /\ log'[f].start > log'[e].start + Retention
                        /\ log'[e].status = "stored" =>
                              log'[f].start > log'[e].ended + Retention
      BY DEF OncePerRetention
    <2>1. e \in DOMAIN log
      BY <1>2
    <2>2. CASE f = n
      BY <1>2, <1>6, <1>8, <2>1, <2>2
    <2>3. CASE f \in DOMAIN log
      BY <1>2, <2>1, <2>3 DEF IInv, OncePerRetention
    <2> QED BY <1>2, <2>2, <2>3
  <1>16. ReplayIsOriginal'
    BY <1>2, <1>5, <1>6 DEF IInv, ReplayIsOriginal
  <1> QED
    BY <1>9, <1>10, <1>11, <1>12, <1>13, <1>14, <1>15, <1>16 DEF IInv

-----------------------------------------------------------------------------
\* A cleanup alone keeps the parts of the invariant about the table.
LEMMA PurgeStep ==
  ASSUME IInv, records' = Purge, UNCHANGED <<now, log>>
  PROVE  Ordered' /\ Held' /\ Claim' /\ Origin' /\ OncePerRetention'
         /\ records' \in [Keys -> Record]
  <1>1. Ordered' /\ OncePerRetention'
    BY DEF IInv, Ordered, OncePerRetention
  <1>2. Held'
    BY PurgeKeeps DEF IInv, Held
  <1>3. Claim'
    BY PurgeKeeps DEF IInv, Claim
  <1>4. Origin'
    <2> SUFFICES ASSUME NEW k \in Keys, records'[k].state = "completed"
                 PROVE  records'[k] = records[k]
      BY DEF IInv, Origin
    <2> QED BY PurgeType DEF IInv, NoRecord
  <1> QED BY <1>1, <1>2, <1>3, <1>4, PurgeType DEF IInv

LEMMA RefuseStep ==
  ASSUME IInv, NEW r \in Requests, NEW k \in Keys, NEW p \in Payloads, Refuse(r, k, p)
  PROVE  IInv'
  <1>1. /\ records' = Purge /\ UNCHANGED <<now, log>>
        /\ reqs' = [reqs EXCEPT ![r] = Idle]
    BY DEF Refuse
  <1>2. TypeOK'
    BY <1>1, PurgeStep DEF IInv, TypeOK, Request
  <1>3. reqs'[r] = Idle /\ \A s \in Requests \ {r} : reqs'[s] = reqs[s]
    BY <1>1 DEF IInv, TypeOK
  <1>4. InFlight'
    BY <1>1, <1>3 DEF IInv, InFlight, Running, Idle
  <1>5. ReplayIsOriginal'
    BY <1>1, <1>3 DEF IInv, ReplayIsOriginal, Idle
  <1> QED BY <1>1, <1>2, <1>4, <1>5, PurgeStep DEF IInv

LEMMA ReplayStep ==
  ASSUME IInv, NEW r \in Requests, NEW k \in Keys, NEW p \in Payloads, Replay(r, k, p)
  PROVE  IInv'
  <1> DEFINE q == [pc |-> "replayed", exec |-> Purge[k].reply, key |-> k, payload |-> p]
  <1>1. /\ records' = Purge /\ UNCHANGED <<now, log>>
        /\ reqs' = [reqs EXCEPT ![r] = q]
        /\ Verdict(Purge[k], p) = "completed"
    BY DEF Replay, Answer
  <1>2. Purge[k] # NoRecord /\ Purge[k].payload = p /\ Purge[k].state = "completed"
    <2>1. CASE Purge[k] = NoRecord
      <3>1. Verdict(Purge[k], p) = "started"
        BY <2>1 DEF Verdict
      <3> QED BY <1>1, <3>1
    <2>2. CASE Purge[k] # NoRecord /\ Purge[k].payload # p
      <3>1. Verdict(Purge[k], p) = "mismatch"
        BY <2>2 DEF Verdict
      <3> QED BY <1>1, <3>1
    <2>3. CASE Purge[k] # NoRecord /\ Purge[k].payload = p
      BY <1>1, <2>3 DEF Verdict
    <2> QED BY <2>1, <2>2, <2>3
  <1>3. Purge[k] = records[k]
    BY <1>2, PurgeType DEF IInv
  <1>4. /\ Purge[k].reply \in DOMAIN log
        /\ log[Purge[k].reply].key = k
        /\ log[Purge[k].reply].payload = p
        /\ log[Purge[k].reply].status = "stored"
    BY <1>2, <1>3 DEF IInv, Origin
  <1>5. Purge[k].reply \in Nat
    BY <1>4, LogType DEF IInv
  <1>6. q \in Request /\ q.pc = "replayed" /\ q.exec = Purge[k].reply
           /\ q.key = k /\ q.payload = p
    BY <1>5 DEF Request
  <1> HIDE DEF q
  <1>7. reqs'[r] = q /\ \A s \in Requests \ {r} : reqs'[s] = reqs[s]
    BY <1>1 DEF IInv, TypeOK
  <1>8. TypeOK'
    BY <1>1, <1>6, PurgeStep DEF IInv, TypeOK
  <1>9. InFlight'
    BY <1>1, <1>6, <1>7 DEF IInv, InFlight, Running
  <1>10. ReplayIsOriginal'
    BY <1>1, <1>4, <1>6, <1>7 DEF IInv, ReplayIsOriginal
  <1> QED BY <1>1, <1>8, <1>9, <1>10, PurgeStep DEF IInv

\* What the end of a handler does to the log and the requests.
LEMMA FinishLog ==
  ASSUME IInv, NEW r \in Requests, Running(r), now' = now,
         NEW st \in {"stored", "unstored", "unknown"}, Finish(r, st)
  PROVE  /\ reqs[r].exec \in DOMAIN log
         /\ log' \in Seq(Exec) /\ DOMAIN log' = DOMAIN log
         /\ log'[reqs[r].exec] = [log[reqs[r].exec] EXCEPT !.status = st, !.ended = now]
         /\ \A e \in DOMAIN log : e # reqs[r].exec => log'[e] = log[e]
         /\ \A e \in DOMAIN log : log'[e].key = log[e].key
                                  /\ log'[e].payload = log[e].payload
                                  /\ log'[e].start = log[e].start
         /\ log'[reqs[r].exec].status = st /\ log'[reqs[r].exec].ended = now
         /\ reqs' \in [Requests -> Request] /\ reqs'[r] = Idle
         /\ \A s \in Requests \ {r} : reqs'[s] = reqs[s]
  <1> DEFINE n == reqs[r].exec
             x == [log[n] EXCEPT !.status = st, !.ended = now]
  <1>1. n \in DOMAIN log /\ log \in Seq(Exec) /\ n \in 1..Len(log) /\ now \in Nat
    BY LogType DEF IInv, InFlight, TypeOK
  <1>2. x \in Exec /\ x.status = st /\ x.ended = now /\ x.key = log[n].key
        /\ x.payload = log[n].payload /\ x.start = log[n].start
    BY <1>1, LogType DEF IInv, Exec
  <1>3. log' = [log EXCEPT ![n] = x]
    BY DEF Finish
  <1> HIDE DEF x
  <1>4. /\ log' \in Seq(Exec) /\ Len(log') = Len(log)
        /\ \A j \in 1..Len(log) : log'[j] = IF j = n THEN x ELSE log[j]
    BY <1>1, <1>2, <1>3, ExceptSeq
  <1>5. DOMAIN log' = 1..Len(log) /\ DOMAIN log = 1..Len(log)
    BY <1>1, <1>4, LenProperties
  <1>6. /\ reqs' \in [Requests -> Request] /\ reqs'[r] = Idle
        /\ \A s \in Requests \ {r} : reqs'[s] = reqs[s]
    BY DEF Finish, IInv, TypeOK, Request
  <1> QED BY <1>1, <1>2, <1>4, <1>5, <1>6 DEF x

\* The parts of the invariant that do not depend on the table.
LEMMA FinishStep ==
  ASSUME IInv, NEW r \in Requests, Running(r), now' = now,
         NEW st \in {"stored", "unstored", "unknown"}, Finish(r, st)
  PROVE  Ordered' /\ InFlight' /\ ReplayIsOriginal'
  <1>0. /\ reqs[r].exec \in DOMAIN log
        /\ DOMAIN log' = DOMAIN log
        /\ \A e \in DOMAIN log : e # reqs[r].exec => log'[e] = log[e]
        /\ \A e \in DOMAIN log : log'[e].key = log[e].key
                                 /\ log'[e].payload = log[e].payload
                                 /\ log'[e].start = log[e].start
        /\ log'[reqs[r].exec].ended = now
        /\ reqs'[r] = Idle
        /\ \A s \in Requests \ {r} : reqs'[s] = reqs[s]
    BY FinishLog
  <1>1. Ordered'
    BY <1>0, LogType DEF IInv, Ordered, TypeOK
  <1>2. InFlight'
    <2>1. \A s \in Requests : Running(s)' <=> Running(s) /\ s # r
      BY <1>0 DEF Running, Idle
    <2>2. \A s \in Requests : Running(s) /\ s # r => reqs[s].exec # reqs[r].exec
      BY DEF IInv, InFlight
    <2> QED BY <2>1, <2>2, <1>0 DEF IInv, InFlight
  <1>3. ReplayIsOriginal'
    <2> SUFFICES ASSUME NEW s \in Requests, reqs'[s].pc = "replayed"
                 PROVE  /\ reqs'[s].exec \in DOMAIN log'
                        /\ log'[reqs'[s].exec].key = reqs'[s].key
                        /\ log'[reqs'[s].exec].payload = reqs'[s].payload
                        /\ log'[reqs'[s].exec].status = "stored"
      BY DEF ReplayIsOriginal
    <2>1. s # r /\ reqs'[s] = reqs[s]
      BY <1>0 DEF Idle
    <2>2. log[reqs[r].exec].status # "stored"
      BY DEF IInv, InFlight
    <2> QED BY <2>1, <2>2, <1>0 DEF IInv, ReplayIsOriginal
  <1> QED BY <1>1, <1>2, <1>3

\* The row of a running request is its own claim, and no other execution of its
\* key is within its retention.
LEMMA RunningClaim ==
  ASSUME IInv, NEW r \in Requests, Running(r)
  PROVE  /\ reqs[r].key \in Keys /\ reqs[r].payload \in Payloads
         /\ records[reqs[r].key]
              = Processing(reqs[r].payload, log[reqs[r].exec].start)
         /\ log[reqs[r].exec].start <= now
         /\ \A e \in DOMAIN log :
               log[e].key = reqs[r].key /\ e # reqs[r].exec =>
                  now > log[e].start + Retention /\ e < reqs[r].exec
  <1> DEFINE n == reqs[r].exec
  <1>1. n \in DOMAIN log /\ log[n].key = reqs[r].key /\ log[n].payload = reqs[r].payload
        /\ log[n].status = "running" /\ now <= log[n].start + MaxDuration
    BY DEF IInv, InFlight
  <1>2. \A e \in DOMAIN log : /\ e \in Nat /\ log[e].key \in Keys
                              /\ log[e].payload \in Payloads
                              /\ log[e].start \in Nat /\ log[e].ended \in Nat
                              /\ log[e].start <= log[e].ended /\ log[e].ended <= now
    BY LogType DEF IInv, Ordered
  <1>3. now \in Nat /\ now <= log[n].start + Retention
    BY <1>1, <1>2, TimeAssumption DEF IInv, TypeOK
  <1>4. ASSUME NEW e \in DOMAIN log, log[e].key = reqs[r].key, e # n
        PROVE  now > log[e].start + Retention /\ e < n
    <2>1. CASE e < n
      <3>1. log[n].start > log[e].start + Retention
        BY <1>1, <1>4, <2>1 DEF IInv, OncePerRetention
      <3> QED BY <1>1, <1>2, <1>3, <2>1, <3>1, TimeAssumption
    <2>2. CASE n < e
      <3>1. log[e].start > log[n].start + Retention
        BY <1>1, <1>4, <2>2 DEF IInv, OncePerRetention
      <3>2. FALSE
        BY <1>1, <1>2, <1>3, <3>1, TimeAssumption
      <3> QED BY <3>2
    <2> QED BY <1>1, <1>2, <1>4, <2>1, <2>2
  <1> QED BY <1>1, <1>2, <1>3, <1>4 DEF IInv, Claim

LEMMA EndStep ==
  ASSUME IInv, NEW r \in Requests, End(r)
  PROVE  IInv'
  <1> DEFINE n == reqs[r].exec
             k == reqs[r].key
             p == reqs[r].payload
             c == Completed(p, now, n)
  <1>1. Running(r) /\ now' = now /\ Finish(r, "stored")
        /\ records' = [records EXCEPT ![k] = Complete(records[k], p, n)]
    BY DEF End
  <1>2. /\ k \in Keys /\ p \in Payloads
        /\ records[k] = Processing(p, log[n].start)
        /\ log[n].start <= now
        /\ \A e \in DOMAIN log : log[e].key = k /\ e # n =>
              now > log[e].start + Retention /\ e < n
    BY <1>1, RunningClaim
  <1>3. /\ n \in DOMAIN log
        /\ log' \in Seq(Exec) /\ DOMAIN log' = DOMAIN log
        /\ \A e \in DOMAIN log : e # n => log'[e] = log[e]
        /\ \A e \in DOMAIN log : log'[e].key = log[e].key
                                 /\ log'[e].payload = log[e].payload
                                 /\ log'[e].start = log[e].start
        /\ log'[n].status = "stored" /\ log'[n].ended = now
        /\ reqs' \in [Requests -> Request]
    BY <1>1, FinishLog
  <1>4. log[n].key = k /\ log[n].payload = p /\ log[n].status = "running"
    BY <1>1 DEF IInv, InFlight
  <1>5. \A e \in DOMAIN log : /\ e \in Nat \ {0} /\ log[e].key \in Keys
                              /\ log[e].start \in Nat /\ log[e].ended \in Nat
                              /\ log[e].start <= log[e].ended /\ log[e].ended <= now
    BY LogType DEF IInv, Ordered
  <1>6. Complete(records[k], p, n) = c
    BY <1>2 DEF Complete, Processing
  <1>7. c \in Record /\ c.state = "completed" /\ c.payload = p /\ c.at = now
        /\ c.reply = n /\ c # NoRecord
    BY <1>2, <1>3, <1>5 DEF Completed, Record, NoRecord, IInv, TypeOK
  <1> HIDE DEF c
  <1>8. /\ records' \in [Keys -> Record] /\ records'[k] = c
        /\ \A j \in Keys \ {k} : records'[j] = records[j]
    BY <1>1, <1>2, <1>6, <1>7 DEF IInv, TypeOK
  <1> HIDE DEF n, k, p
  <1>9. TypeOK'
    BY <1>1, <1>3, <1>8 DEF IInv, TypeOK
  <1>10. Held'
    <2> SUFFICES ASSUME NEW e \in DOMAIN log
                 PROVE  /\ now <= log'[e].start + Retention =>
                             records'[log'[e].key] # NoRecord
                             /\ records'[log'[e].key].at >= log'[e].start
                        /\ log'[e].status = "stored" /\ now <= log'[e].ended + Retention =>
                             records'[log'[e].key] # NoRecord
                             /\ records'[log'[e].key].at >= log'[e].ended
      BY <1>1, <1>3 DEF Held
    <2>1. CASE log[e].key = k
      <3>1. log'[e].ended <= now /\ log'[e].ended \in Nat /\ now \in Nat
        BY SMTT(40), <1>3, <1>5 DEF IInv, TypeOK
      <3> QED BY <1>3, <1>5, <1>7, <1>8, <2>1, <3>1
    <2>2. CASE log[e].key # k
      BY <1>3, <1>4, <1>5, <1>8, <2>2 DEF IInv, Held
    <2> QED BY <2>1, <2>2
  <1>11. Claim'
    <2> SUFFICES ASSUME NEW e \in DOMAIN log, log'[e].status # "stored",
                        now <= log'[e].start + Retention
                 PROVE  records'[log'[e].key] = Processing(log'[e].payload, log'[e].start)
      BY <1>1, <1>3 DEF Claim
    <2>1. e # n /\ log'[e] = log[e]
      BY <1>3
    <2>2. log[e].key # k
      BY <1>2, <1>5, <2>1, TimeAssumption DEF IInv, TypeOK
    <2> QED BY <1>5, <1>8, <2>1, <2>2 DEF IInv, Claim
  <1>12. Origin'
    <2> SUFFICES ASSUME NEW j \in Keys, records'[j].state = "completed"
                 PROVE  /\ records'[j].reply \in DOMAIN log'
                        /\ log'[records'[j].reply].key = j
                        /\ log'[records'[j].reply].payload = records'[j].payload
                        /\ log'[records'[j].reply].status = "stored"
      BY DEF Origin
    <2>1. CASE j = k
      BY <1>3, <1>4, <1>7, <1>8, <2>1
    <2>2. CASE j # k
      BY <1>3, <1>8, <2>2 DEF IInv, Origin
    <2> QED BY <2>1, <2>2
  <1>13. OncePerRetention'
    <2> SUFFICES ASSUME NEW e \in DOMAIN log, NEW f \in DOMAIN log,
                        e < f, log[e].key = log[f].key
                 PROVE  /\ log'[f].start > log'[e].start + Retention
                        /\ log'[e].status = "stored" =>
                              log'[f].start > log'[e].ended + Retention
      BY <1>3 DEF OncePerRetention
    <2>1. e # n
      BY <1>2, <1>3, <1>4, <1>5
    <2> QED BY <1>3, <2>1 DEF IInv, OncePerRetention
  <1> QED
    BY <1>1, <1>9, <1>10, <1>11, <1>12, <1>13, FinishStep DEF IInv

\* EndUnstored and Abandon leave the claim in the table.
LEMMA LostStep ==
  ASSUME IInv, NEW r \in Requests, EndUnstored(r) \/ Abandon(r)
  PROVE  IInv'
  <1>1. PICK st \in {"unstored", "unknown"} :
           Running(r) /\ UNCHANGED <<now, records>> /\ Finish(r, st)
    BY DEF EndUnstored, Abandon
  <1>2. /\ reqs[r].exec \in DOMAIN log
        /\ log' \in Seq(Exec) /\ DOMAIN log' = DOMAIN log
        /\ \A e \in DOMAIN log : e # reqs[r].exec => log'[e] = log[e]
        /\ \A e \in DOMAIN log : log'[e].key = log[e].key
                                 /\ log'[e].payload = log[e].payload
                                 /\ log'[e].start = log[e].start
        /\ log'[reqs[r].exec].status = st
        /\ reqs' \in [Requests -> Request]
    BY <1>1, FinishLog
  <1>3. log[reqs[r].exec].status = "running"
    BY <1>1 DEF IInv, InFlight
  <1>4. TypeOK'
    BY <1>1, <1>2 DEF IInv, TypeOK
  <1>5. \A e \in DOMAIN log : /\ log'[e].status # "stored" <=> log[e].status # "stored"
                              /\ log'[e].status = "stored" => log'[e].ended = log[e].ended
    BY <1>2, <1>3
  <1>6. Held'
    BY <1>1, <1>2, <1>5 DEF IInv, Held
  <1>7. Claim'
    BY <1>1, <1>2, <1>5 DEF IInv, Claim
  <1>8. Origin'
    BY <1>1, <1>2, <1>5 DEF IInv, Origin
  <1>9. OncePerRetention'
    BY <1>2, <1>5 DEF IInv, OncePerRetention
  <1> QED
    BY <1>1, <1>4, <1>6, <1>7, <1>8, <1>9, FinishStep DEF IInv

LEMMA CrashStep ==
  ASSUME IInv, Crash
  PROVE  IInv'
  <1>1. /\ UNCHANGED <<now, records>>
        /\ reqs' = [r \in Requests |-> Idle]
        /\ log' = [e \in DOMAIN log |->
                     IF log[e].status = "running"
                     THEN [log[e] EXCEPT !.status = "unknown"] ELSE log[e]]
    BY DEF Crash
  <1>2. DOMAIN log' = DOMAIN log
    BY <1>1
  <1>3. \A e \in DOMAIN log :
           /\ log'[e] \in Exec
           /\ log'[e].key = log[e].key /\ log'[e].payload = log[e].payload
           /\ log'[e].start = log[e].start /\ log'[e].ended = log[e].ended
           /\ log'[e].status = "stored" <=> log[e].status = "stored"
    BY <1>1, LogType DEF IInv, Exec
  <1>4. log' \in Seq(Exec)
    <2>1. Len(log) \in Nat /\ DOMAIN log = 1..Len(log)
      BY LogType DEF IInv
    <2>2. log' \in [1..Len(log) -> Exec]
      BY <1>1, <1>3, <2>1
    <2> QED BY <2>1, <2>2, SeqDef
  <1>5. TypeOK'
    BY <1>1, <1>4 DEF IInv, TypeOK, Request
  <1>6. Ordered' /\ OncePerRetention'
    BY <1>1, <1>2, <1>3 DEF IInv, Ordered, OncePerRetention
  <1>7. InFlight' /\ ReplayIsOriginal'
    BY <1>1 DEF InFlight, ReplayIsOriginal, Running, Idle
  <1>8. Held' /\ Claim'
    BY <1>1, <1>2, <1>3 DEF IInv, Held, Claim
  <1>9. Origin'
    BY <1>1, <1>2, <1>3 DEF IInv, Origin
  <1> QED BY <1>5, <1>6, <1>7, <1>8, <1>9 DEF IInv

LEMMA TickStep ==
  ASSUME IInv, Tick
  PROVE  IInv'
  <1>1. UNCHANGED <<records, reqs, log>> /\ now' = now + 1 /\ now \in Nat
        /\ \A r \in Requests : Running(r) => now < log[reqs[r].exec].start + MaxDuration
    BY DEF Tick, IInv, TypeOK
  <1>2. \A e \in DOMAIN log : log[e].start \in Nat /\ log[e].ended \in Nat
    BY LogType DEF IInv
  <1>3. TypeOK' /\ OncePerRetention' /\ ReplayIsOriginal' /\ Origin'
    BY <1>1 DEF IInv, TypeOK, OncePerRetention, ReplayIsOriginal, Origin
  <1>4. Ordered'
    BY <1>1, <1>2 DEF IInv, Ordered
  <1>5. Held' /\ Claim'
    BY <1>1, <1>2, TimeAssumption DEF IInv, Held, Claim
  <1>6. InFlight'
    BY <1>1, <1>2, TimeAssumption DEF IInv, InFlight, Running
  <1> QED BY <1>3, <1>4, <1>5, <1>6 DEF IInv

\* The invariant holds in every reachable state.
LEMMA Inductive == Spec => []IInv
  <1>1. ASSUME IInv, [Next]_vars PROVE IInv'
    <2>1. CASE \E r \in Requests, k \in Keys, p \in Payloads :
                  Start(r, k, p) \/ Refuse(r, k, p) \/ Replay(r, k, p)
      BY <1>1, <2>1, StartStep, RefuseStep, ReplayStep
    <2>2. CASE \E r \in Requests : End(r) \/ EndUnstored(r) \/ Abandon(r)
      BY <1>1, <2>2, EndStep, LostStep
    <2>3. CASE Crash
      BY <1>1, <2>3, CrashStep
    <2>4. CASE Tick
      BY <1>1, <2>4, TickStep
    <2>5. CASE UNCHANGED vars
      BY <1>1, <2>5 DEF vars, IInv, TypeOK, Ordered, InFlight, Held, Claim, Origin,
         OncePerRetention, ReplayIsOriginal, Running
    <2> QED BY <1>1, <2>1, <2>2, <2>3, <2>4, <2>5 DEF Next
  <1> QED BY <1>1, InitIInv, PTL DEF Spec

\* A key's write is done at most once per retention, for every number of
\* clients and every interleaving of their requests, disconnects and crashes.
THEOREM OnceTheorem == Spec => []OncePerRetention
  BY Inductive, PTL DEF IInv

\* A replayed response is the stored response of an execution of the same key
\* and payload.
THEOREM ReplayTheorem == Spec => []ReplayIsOriginal
  BY Inductive, PTL DEF IInv

\* Two handlers never run at once for one key.
THEOREM OverlapTheorem == Spec => []NoOverlap
  <1>1. IInv => NoOverlap
    <2> SUFFICES ASSUME IInv, NEW r \in Requests, NEW s \in Requests,
                        Running(r), Running(s), reqs[r].key = reqs[s].key
                 PROVE  r = s
      BY DEF NoOverlap
    <2>1. reqs[s].exec \in DOMAIN log /\ log[reqs[s].exec].key = reqs[r].key
          /\ reqs[r].exec \in DOMAIN log /\ log[reqs[r].exec].key = reqs[s].key
      BY DEF IInv, InFlight
    <2>2. reqs[s].exec \in Nat /\ reqs[r].exec \in Nat
      BY <2>1, LogType DEF IInv
    <2>3. reqs[s].exec = reqs[r].exec
      BY <2>1, <2>2, RunningClaim
    <2> QED BY <2>3 DEF IInv, InFlight
  <1> QED BY <1>1, Inductive, PTL

\* A key whose outcome is unknown keeps failing closed until the retention ends.
THEOREM FailsClosedTheorem == Spec => []FailsClosed
  <1>1. IInv => FailsClosed
    <2> SUFFICES ASSUME IInv, NEW e \in DOMAIN log,
                        log[e].status \in {"unstored", "unknown"},
                        now <= log[e].start + Retention
                 PROVE  records[log[e].key].state = "processing"
      BY DEF FailsClosed
    <2>1. records[log[e].key] = Processing(log[e].payload, log[e].start)
      BY DEF IInv, Claim
    <2> QED BY <2>1 DEF Processing
  <1> QED BY <1>1, Inductive, PTL

-----------------------------------------------------------------------------
(* The login (AdminSession).                                               *)

\* Every reachable state of the login is well typed: however logins, logouts and
\* late answers overlap, a tab or the storage holds a token that was issued.
THEOREM SessionTypeTheorem == SessionSpec => []SessionTypeOK
<1>1. SessionInit => SessionTypeOK
  BY SessionAssumption DEF SessionInit, SessionTypeOK, Tokens
<1>2. SessionTypeOK /\ [SessionNext]_sessionVars => SessionTypeOK'
  <2> SUFFICES ASSUME SessionTypeOK, [SessionNext]_sessionVars
               PROVE  SessionTypeOK'
    OBVIOUS
  <2> USE SessionAssumption DEF SessionTypeOK, Tokens
  <2>1. ASSUME NEW t \in Tabs, Login(t) PROVE SessionTypeOK'
    BY <2>1 DEF Login
  <2>2. ASSUME NEW t \in Tabs, LoggedIn(t) PROVE SessionTypeOK'
    <3>1. CASE UNCHANGED <<issued, saved, token>>
      BY <2>2, <3>1 DEF LoggedIn
    <3>2. CASE /\ issued < MaxLogins /\ issued' = issued + 1 /\ saved' = issued'
               /\ token' = [token EXCEPT ![t] = issued']
      <4>1. 0..issued \subseteq 0..issued' /\ 1..issued \subseteq 1..issued' /\ issued' \in 0..issued'
        BY <3>2
      <4>2. token' \in [Tabs -> 0..issued']
        BY <3>2, <4>1
      <4> QED
        BY <2>2, <3>2, <4>1, <4>2 DEF LoggedIn
    <3> QED
      BY <2>2, <3>1, <3>2 DEF LoggedIn
  <2>3. ASSUME NEW t \in Tabs, OpenTab(t) PROVE SessionTypeOK'
    BY <2>3 DEF OpenTab
  <2>4. ASSUME NEW t \in Tabs, LoginPage(t) PROVE SessionTypeOK'
    BY <2>4 DEF LoginPage
  <2>5. ASSUME NEW t \in Tabs, Logout(t) PROVE SessionTypeOK'
    BY <2>5 DEF Logout, Forget
  <2>6. ASSUME NEW t \in Tabs, CallApi(t) PROVE SessionTypeOK'
    BY <2>6 DEF CallApi
  <2>7. ASSUME NEW t \in Tabs, NEW k \in Tokens, Answered(t, k) PROVE SessionTypeOK'
    BY SMTT(40), <2>7 DEF Answered, Forget
  <2>8. ASSUME NEW k \in Tokens, Expire(k) PROVE SessionTypeOK'
    BY <2>8 DEF Expire
  <2>9. CASE UNCHANGED sessionVars
    BY <2>9 DEF sessionVars
  <2> QED
    BY <2>1, <2>2, <2>3, <2>4, <2>5, <2>6, <2>7, <2>8, <2>9 DEF SessionNext
<1> QED
  BY <1>1, <1>2, PTL DEF SessionSpec

-----------------------------------------------------------------------------
\* A late answer never logs a user out whose login the server still accepts:
\* the answer that clears the stored login was about the login of its tab, and
\* that one had expired (handleUnauthorized, setUnauthorizedHandler).
THEOREM LoginKeptTheorem == SessionSpec => LoginKept
<1> DEFINE LoginEnded == \E t \in Tabs : token[t] \in expired /\ token'[t] = 0
<1>1. SessionTypeOK /\ [SessionNext]_sessionVars
        => [saved # 0 /\ saved' = 0 /\ open' # open => LoginEnded]_sessionVars
  <2> SUFFICES ASSUME SessionTypeOK, SessionNext, saved # 0, saved' = 0, open' # open
               PROVE  LoginEnded
    OBVIOUS
  <2>1. PICK t \in Tabs, k \in Tokens : Answered(t, k)
    \* Nobody else touches both the stored login and the calls.
    <3>1. ASSUME NEW t \in Tabs, LoggedIn(t) PROVE FALSE
      BY <3>1 DEF LoggedIn, SessionTypeOK
    <3>2. ASSUME NEW t \in Tabs, Login(t) \/ OpenTab(t) \/ LoginPage(t) \/ CallApi(t) PROVE FALSE
      BY <3>2 DEF Login, OpenTab, LoginPage, CallApi
    <3>3. ASSUME NEW t \in Tabs, Logout(t) PROVE FALSE
      BY <3>3 DEF Logout
    <3>4. ASSUME NEW k \in Tokens, Expire(k) PROVE FALSE
      BY <3>4 DEF Expire
    <3> QED
      BY <3>1, <3>2, <3>3, <3>4 DEF SessionNext
  <2>2. k \in expired /\ SameLogin(t, k) /\ Forget(t)
    BY <2>1 DEF Answered
  <2>3. token[t] \in expired /\ token'[t] = 0
    BY <2>2 DEF SameLogin, Forget, SessionTypeOK
  <2> QED
    BY <2>3
<1> QED
  BY <1>1, SessionTypeTheorem, PTL DEF SessionSpec, LoginKept

-----------------------------------------------------------------------------
(* The guided start (Onboarding).                                          *)

\* What an answer has to be, for good, before the onboarding may count it.
Proven(i) == /\ i \in 1..Len(answers)
             /\ answers[i].sufficient /\ answers[i].cites = pack.document

PageRecord == [seen : Overview, asked : Nat]

\* The pack is being installed exactly while an installation is at work, and a
\* run that has its answer has it from the pack, which is not touched again.
OInv ==
    /\ answers \in Seq(Message) /\ Len(answers) \in 0..MaxAnswers
    /\ \A p \in Pages : pages[p].asked \in 0..Len(answers)
    /\ alive \in BOOLEAN
    /\ installer # "none" => alive /\ pack.status = "installing"
    /\ alive /\ installer = "none" => pack.status # "installing"
    /\ state.answer # 0 => pack.status = "ready" /\ Proven(state.answer)
    /\ state.status = "completed" => state.answer # 0
    /\ pages \in [Pages -> PageRecord]
    /\ state \in State /\ pack \in Pack /\ sampleDoc \in SampleDocument
    /\ sampleFaq \in {"nobody", "pack", "admin"}
    /\ installer \in {"none", "indexing", "ingesting", "saving", "finishing"}
    /\ crashes \in 0..MaxCrashes

LEMMA OnboardingStarts == OnboardingInit => OInv
  BY OnboardingAssumption
  DEF OnboardingInit, OInv, PageRecord, Proven, Seen, State, Pack, SampleDocument, Overview, Message

-----------------------------------------------------------------------------
(* The pages.                                                              *)

\* A tab that sees the rows keeps the question it asked.
LEMMA ShowsTyped ==
  ASSUME pages \in [Pages -> PageRecord], NEW p \in Pages, NEW row \in State, NEW packRow \in Pack,
         Shows(p, row, packRow)
  PROVE  pages' \in [Pages -> PageRecord] /\ \A q \in Pages : pages'[q].asked = pages[q].asked
<1> DEFINE seen == [status |-> row.status, run |-> row.run, answer |-> row.answer,
                    ready |-> packRow.status = "ready"]
<1>1. seen \in Overview
  BY DEF State, Pack, Overview
<1> QED
  BY <1>1 DEF Shows, PageRecord

LEMMA PagesKeep ==
  ASSUME OInv, NEW p \in Pages,
         Load(p) \/ StartRun(p) \/ Ask(p) \/ RecordAnswer(p) \/ Review(p) \/ Dismiss(p)
  PROVE  OInv'
<1> USE OnboardingAssumption DEF OInv, Proven, process
<1>1. CASE Load(p)
  BY <1>1, ShowsTyped DEF Load
<1>2. CASE StartRun(p)
  <2>1. state' \in State /\ state'.answer = state.answer
        /\ (state'.status = "completed" => state.status = "completed")
    BY <1>2 DEF StartRun, State
  <2>2. Shows(p, state', pack)
    BY <1>2 DEF StartRun
  <2> QED
    BY <1>2, <2>1, <2>2, ShowsTyped DEF StartRun
<1>3. CASE Ask(p)
  <2>1. PICK cited \in {0} \cup {d \in {sampleDoc.id} : sampleDoc.status = "ready"}, ok \in BOOLEAN :
          answers' = Append(answers, [cites |-> cited, sufficient |-> ok])
    BY <1>3 DEF Ask
  <2>2. [cites |-> cited, sufficient |-> ok] \in Message
    BY DEF Message, SampleDocument
  <2>3. answers' \in Seq(Message) /\ Len(answers') = Len(answers) + 1 /\ Len(answers) \in Nat
        /\ \A i \in 1..Len(answers) : answers'[i] = answers[i]
    BY <2>1, <2>2
  <2>4. pages' \in [Pages -> PageRecord] /\ \A q \in Pages : pages'[q].asked \in 0..Len(answers')
    BY <1>3, <2>3 DEF Ask, PageRecord
  <2> QED
    BY <1>3, <2>3, <2>4 DEF Ask
<1>4. CASE RecordAnswer(p)
  <2>1. pages[p].asked \in 1..Len(answers)
    BY <1>4 DEF RecordAnswer, PageRecord
  <2>2. CASE state.status = "in_progress" /\ pack.status = "ready" /\ Grounded(answers[pages[p].asked])
    <3>1. /\ state' = [state EXCEPT !.answer = IF @ = 0 THEN pages[p].asked ELSE @]
          /\ pages' = [pages EXCEPT ![p] = [seen |-> [Seen EXCEPT !.answer = state'.answer], asked |-> 0]]
      BY <1>4, <2>2 DEF RecordAnswer
    <3>2. state' \in State /\ state'.answer # 0 /\ Proven(state'.answer)
      <4>1. CASE state.answer = 0
        BY SMTT(40), <2>1, <2>2, <3>1, <4>1 DEF State, Grounded, PageRecord
      <4>2. CASE state.answer # 0
        BY <3>1, <4>2 DEF State
      <4> QED
        BY <4>1, <4>2
    <3>3. [Seen EXCEPT !.answer = state'.answer] \in Overview
      BY <3>2 DEF State, Pack, Overview, Seen
    <3>4. pages' \in [Pages -> PageRecord] /\ \A q \in Pages : pages'[q].asked \in 0..Len(answers)
      BY <3>1, <3>3 DEF PageRecord
    <3>5. state'.status = "in_progress"
      BY <2>2, <3>1 DEF State
    <3> QED
      BY <1>4, <2>2, <3>2, <3>4, <3>5 DEF RecordAnswer
  <2>3. CASE ~(state.status = "in_progress" /\ pack.status = "ready" /\ Grounded(answers[pages[p].asked]))
    <3>1. pages' = [pages EXCEPT ![p].asked = 0] /\ UNCHANGED state
      BY <1>4, <2>3 DEF RecordAnswer
    <3>2. pages' \in [Pages -> PageRecord] /\ \A q \in Pages : pages'[q].asked \in 0..Len(answers)
      BY <3>1 DEF PageRecord
    <3> QED
      BY <1>4, <3>1, <3>2 DEF RecordAnswer
  <2> QED
    BY <2>2, <2>3
<1>5. CASE Review(p)
  <2>1. state' \in State /\ state'.answer = state.answer /\ state.answer # 0
    BY <1>5 DEF Review, State
  <2>2. Shows(p, state', pack)
    BY <1>5 DEF Review
  <2> QED
    BY <1>5, <2>1, <2>2, ShowsTyped DEF Review
<1>6. CASE Dismiss(p)
  <2>1. state' \in State /\ state'.answer = state.answer
        /\ (state'.status = "completed" => state.status = "completed")
    BY <1>6 DEF Dismiss, State
  <2>2. Shows(p, state', pack)
    BY <1>6 DEF Dismiss
  <2> QED
    BY <1>6, <2>1, <2>2, ShowsTyped DEF Dismiss
<1> QED
  BY <1>1, <1>2, <1>3, <1>4, <1>5, <1>6

-----------------------------------------------------------------------------
(* The installation.                                                       *)

LEMMA InstallKeeps ==
  ASSUME OInv, Installs \/ \E p \in Pages : Install(p)
  PROVE  OInv'
<1> USE OnboardingAssumption DEF OInv, Proven, Overview, State, Pack, SampleDocument, process
<1>1. ASSUME NEW p \in Pages, Install(p) PROVE OInv'
  <2>1. pages' \in [Pages -> PageRecord] /\ \A q \in Pages : pages'[q].asked = pages[q].asked
    <3>1. Shows(p, state, pack) \/ UNCHANGED pages
      BY <1>1 DEF Install
    <3> QED
      BY <3>1, ShowsTyped
  <2> QED
    BY <1>1, <2>1 DEF Install, InstallFails, Yielded
<1>2. CASE ResolveDocument
  BY <1>2 DEF ResolveDocument, InstallFails
<1>3. CASE Ingested
  BY <1>3 DEF Ingested, InstallFails
<1>4. CASE SaveDocument
  BY <1>4 DEF SaveDocument
<1>5. CASE MarkReady
  BY <1>5 DEF MarkReady
<1> QED
  BY <1>1, <1>2, <1>3, <1>4, <1>5 DEF Installs

LEMMA OthersKeep ==
  ASSUME OInv, EditFaq \/ DeleteDocument \/ Die \/ Boot \/ UNCHANGED onboardingVars
  PROVE  OInv'
<1> USE OnboardingAssumption DEF OInv, Proven, Overview, State, Pack, SampleDocument, process
<1>1. CASE EditFaq
  BY <1>1 DEF EditFaq
<1>2. CASE DeleteDocument
  BY <1>2 DEF DeleteDocument
<1>3. CASE Die
  <2>1. pages' \in [Pages -> PageRecord] /\ \A q \in Pages : pages'[q].asked = 0
    BY <1>3 DEF Die, PageRecord
  <2> QED
    <3>1. alive' = FALSE /\ installer' = "none" /\ crashes' \in 0..MaxCrashes
      BY <1>3 DEF Die
    <3>2. UNCHANGED <<state, pack, sampleFaq, sampleDoc, answers>>
      BY <1>3 DEF Die
    <3>3. \A q \in Pages : pages'[q].asked \in 0..Len(answers')
      BY <2>1, <3>2
    <3> HIDE DEF Pack, State, SampleDocument, Overview
    <3> QED
      BY <2>1, <3>1, <3>2, <3>3
<1>4. CASE Boot
  BY <1>4 DEF Boot, Interrupted
<1>5. CASE UNCHANGED onboardingVars
  BY <1>5 DEF onboardingVars
<1> QED
  BY <1>1, <1>2, <1>3, <1>4, <1>5

\* Every reachable state is well typed and keeps the record of the run true.
THEOREM OnboardingInvariant == OnboardingSpec => []OInv
<1>1. OInv /\ [OnboardingNext]_onboardingVars => OInv'
  BY PagesKeep, InstallKeeps, OthersKeep DEF OnboardingNext
<1> QED
  BY <1>1, OnboardingStarts, PTL DEF OnboardingSpec

\* An onboarding that is completed rests on a sufficient answer that cited the
\* document of the installed pack, whatever was retried, dismissed, edited,
\* deleted or interrupted in between (recordGuidedAnswer, evidenceReviewed).
THEOREM ProvenTheorem == OnboardingSpec => []CompletedIsProven
<1>1. OInv => CompletedIsProven
  BY DEF OInv, CompletedIsProven, Proven
<1> QED
  BY <1>1, OnboardingInvariant, PTL

\* A pack that says it is being installed has an installation at work, across
\* crashes: no administrator waits for one that nobody carries out
\* (claimPack, markPackFailed, createTables).
THEOREM InstallTheorem == OnboardingSpec => []InstallIsWorked
<1>1. OInv => InstallIsWorked
  BY DEF OInv, InstallIsWorked
<1> QED
  BY <1>1, OnboardingInvariant, PTL

-----------------------------------------------------------------------------
(* The details.                                                            *)

\* All the requests of the present number are about one document, d; it is the
\* one selected, now or when its answer arrives, and the rows are its own once
\* they came.
About(d) ==
    /\ \A q \in lookups : q.id = details.latest => q.document = d
    /\ details.selected \in {d, "none"}
    /\ d # "none" /\ ~details.loading /\ ~details.failed => details.rows = d

DetailsInv ==
    /\ details.latest \in Nat
    /\ \A q \in lookups : q.id \in Nat /\ q.id <= details.latest
    /\ \E d \in Files \cup {"none"} : About(d)

\* details is a record of which the code reads and writes these fields.
Details == [selected : Files \cup {"none"}, latest : Nat, rows : Files \cup {"none"},
            loading : BOOLEAN, failed : BOOLEAN]
LookupSet == [kind : {"document", "rows"}, document : Files, id : Nat,
              stage : {"sent", "ok", "failed"}]

DInv == details \in Details /\ lookups \subseteq LookupSet /\ DetailsInv

LEMMA LookupFields ==
  ASSUME NEW kind \in {"document", "rows"}, NEW d \in Files, NEW id \in Nat
  PROVE  /\ Lookup(kind, d, id) \in LookupSet
         /\ Lookup(kind, d, id).id = id /\ Lookup(kind, d, id).document = d
  BY DEF Lookup, LookupSet

LEMMA DetailsStep == DInv /\ [DetailsNext]_pageVars => DInv'
<1> SUFFICES ASSUME DInv, [DetailsNext]_pageVars PROVE DInv'
  OBVIOUS
<1> USE PagesAssumption DEF DInv, DetailsInv
<1>1. ASSUME NEW d \in Files, OpenDetails(d) PROVE DInv'
  <2>1. details' = [details EXCEPT !.selected = d, !.latest = @ + 1, !.loading = TRUE, !.failed = FALSE]
    BY <1>1 DEF OpenDetails
  <2>2. lookups' = lookups \cup {Lookup("document", d, details.latest + 1),
                                 Lookup("rows", d, details.latest + 1)}
    BY <1>1 DEF OpenDetails
  <2>0. details.latest + 1 \in Nat /\ \A kind \in {"document", "rows"} :
          LET l == Lookup(kind, d, details.latest + 1) IN
          l \in LookupSet /\ l.id = details.latest + 1 /\ l.document = d
    BY LookupFields
  <2>3. details' \in Details /\ lookups' \subseteq LookupSet
    BY <2>1, <2>2, <2>0 DEF Details
  <2>4. /\ details'.latest = details.latest + 1 /\ details'.selected = d /\ details'.loading
    BY <2>1 DEF Details
  <2>5. \A q \in lookups' : q \in lookups \/ (q.id = details.latest + 1 /\ q.document = d)
    <3>1. SUFFICES ASSUME NEW q \in lookups', q \notin lookups
                   PROVE  q.id = details.latest + 1 /\ q.document = d
      OBVIOUS
    <3>2. q = Lookup("document", d, details.latest + 1) \/ q = Lookup("rows", d, details.latest + 1)
      BY <2>2, <3>1
    <3> QED
      BY <2>0, <3>2
  <2>6. About(d)'
    BY <2>4, <2>5 DEF About
  <2> QED
    BY <2>3, <2>4, <2>5, <2>6
<1>2. CASE TurnRows
  <2>1. details' = [details EXCEPT !.loading = TRUE]
        /\ lookups' = lookups \cup {Lookup("rows", details.selected, details.latest)}
        /\ details.selected # "none"
    BY <1>2 DEF TurnRows
  <2>0. /\ Lookup("rows", details.selected, details.latest) \in LookupSet
        /\ Lookup("rows", details.selected, details.latest).id = details.latest
        /\ Lookup("rows", details.selected, details.latest).document = details.selected
    BY <2>1, LookupFields DEF Details
  <2>2. details' \in Details /\ lookups' \subseteq LookupSet
    BY <2>0, <2>1 DEF Details
  <2>3. /\ details'.latest = details.latest /\ details'.selected = details.selected
        /\ details'.loading
    BY <2>1 DEF Details
  <2>4. \A q \in lookups' : q \in lookups
                            \/ (q.id = details.latest /\ q.document = details.selected)
    <3>1. SUFFICES ASSUME NEW q \in lookups', q \notin lookups
                   PROVE  q.id = details.latest /\ q.document = details.selected
      OBVIOUS
    <3>2. q = Lookup("rows", details.selected, details.latest)
      BY <2>1, <3>1
    <3> QED
      BY <2>0, <3>2
  <2>5. PICK d \in Files \cup {"none"} : About(d)
    OBVIOUS
  <2>6. About(d)'
    BY <2>1, <2>3, <2>4, <2>5 DEF About
  <2> QED
    BY <2>2, <2>3, <2>4, <2>6
<1>3. CASE CloseDetails
  <2>1. details' = [selected |-> "none", latest |-> details.latest + 1, rows |-> "none",
                    loading |-> FALSE, failed |-> FALSE] /\ UNCHANGED lookups
    BY <1>3 DEF CloseDetails
  <2>2. details' \in Details
    BY <2>1 DEF Details
  <2>3. About("none")'
    BY <2>1 DEF About
  <2> QED
    BY <2>1, <2>2, <2>3
<1>4. CASE Deleted
  <2>1. details' = [details EXCEPT !.selected = "none"] /\ UNCHANGED lookups
    BY <1>4 DEF Deleted
  <2>2. /\ details' \in Details /\ details'.latest = details.latest /\ details'.selected = "none"
        /\ details'.loading = details.loading /\ details'.failed = details.failed
        /\ details'.rows = details.rows
    BY <2>1 DEF Details
  <2>3. PICK d \in Files \cup {"none"} : About(d)
    OBVIOUS
  <2>4. About(d)'
    BY <2>1, <2>2, <2>3 DEF About
  <2> QED
    BY <2>1, <2>2, <2>4
<1>5. ASSUME NEW q \in lookups, ServeLookup(q) PROVE DInv'
  <2>1. PICK stage \in {"ok", "failed"} : lookups' = (lookups \ {q}) \cup {[q EXCEPT !.stage = stage]}
    BY <1>5 DEF ServeLookup
  <2>2. [q EXCEPT !.stage = stage] \in LookupSet /\ [q EXCEPT !.stage = stage].id = q.id
        /\ [q EXCEPT !.stage = stage].document = q.document
    BY DEF LookupSet
  <2>3. lookups' \subseteq LookupSet /\ UNCHANGED details
    BY <1>5, <2>1, <2>2 DEF ServeLookup
  <2>4. \A x \in lookups' : \E y \in lookups : x.id = y.id /\ x.document = y.document
    BY <2>1, <2>2
  <2>5. PICK d \in Files \cup {"none"} : About(d)
    OBVIOUS
  <2>6. About(d)'
    BY <2>3, <2>4, <2>5 DEF About
  <2> QED
    BY <2>3, <2>4, <2>6
<1>6. ASSUME NEW q \in lookups, LookedUp(q) PROVE DInv'
  <2>1. lookups' \subseteq lookups
    BY <1>6 DEF LookedUp
  <2>2. PICK d \in Files \cup {"none"} : About(d)
    OBVIOUS
  <2>3. q \in LookupSet
    OBVIOUS
  <2>4. CASE ~IsLatestLookup(q)
    BY <1>6, <2>1, <2>2, <2>4 DEF LookedUp, About
  <2>5. CASE IsLatestLookup(q) /\ q.kind = "document"
    <3>1. details' = [details EXCEPT !.selected = IF q.stage = "ok" THEN q.document ELSE "none"]
      BY <1>6, <2>5 DEF LookedUp
    <3>2. q.document = d
      BY <2>2, <2>5 DEF About, IsLatestLookup
    <3>3. /\ details' \in Details /\ details'.latest = details.latest
          /\ details'.selected \in {d, "none"}
          /\ details'.loading = details.loading /\ details'.failed = details.failed
          /\ details'.rows = details.rows
      BY <2>3, <3>1, <3>2 DEF Details, LookupSet
    <3>4. About(d)'
      BY <2>1, <2>2, <3>3 DEF About
    <3> QED
      BY <2>1, <3>3, <3>4
  <2>6. CASE IsLatestLookup(q) /\ q.kind # "document"
    <3>1. details' = IF q.stage = "ok"
                     THEN [details EXCEPT !.rows = q.document, !.loading = FALSE, !.failed = FALSE]
                     ELSE [details EXCEPT !.loading = FALSE, !.failed = TRUE]
      BY <1>6, <2>6 DEF LookedUp
    <3>2. q.document = d
      BY <2>2, <2>6 DEF About, IsLatestLookup
    <3>3. /\ details' \in Details /\ details'.latest = details.latest
          /\ details'.selected = details.selected
          /\ details'.failed \/ details'.rows = d
      BY <2>3, <3>1, <3>2 DEF Details, LookupSet
    <3>4. About(d)'
      BY <2>1, <2>2, <3>3 DEF About
    <3> QED
      BY <2>1, <3>3, <3>4
  <2> QED
    BY <2>4, <2>5, <2>6
<1>7. CASE UNCHANGED pageVars
  BY <1>7 DEF pageVars, About
<1> QED
  BY <1>1, <1>2, <1>3, <1>4, <1>5, <1>6, <1>7 DEF DetailsNext

LEMMA DetailsStart == PagesInit => DInv
<1> SUFFICES ASSUME PagesInit PROVE DInv
  OBVIOUS
<1>1. details = [selected |-> "none", latest |-> 0, rows |-> "none", loading |-> FALSE, failed |-> FALSE]
      /\ lookups = {}
  BY DEF PagesInit
<1>2. About("none")
  BY <1>1 DEF About
<1> QED
  BY <1>1, <1>2 DEF DInv, DetailsInv, Details

\* Whichever documents are opened, paged, closed or deleted, and in whatever
\* order the answers come, the chunks and blocks under the details of a document
\* are that document's (openDetails, fetchChunks, fetchBlocks).
THEOREM RowsTheorem == DetailsSpec => []RowsAreOfSelected
<1>1. DInv => RowsAreOfSelected
  BY DEF DInv, DetailsInv, RowsAreOfSelected, About
<1> QED
  BY <1>1, DetailsStart, DetailsStep, PTL DEF DetailsSpec

-----------------------------------------------------------------------------
(* The list.                                                               *)

ListRecord == [writes : BOOLEAN, typed : Filters, query : Query, latest : Nat, shown : Query,
               version : Nat, loading : BOOLEAN, failed : BOOLEAN, written : Nat]
FetchSet == [id : Nat, query : Query, version : Nat, stage : {"sent", "ok", "failed"}]

ListTyped ==
    /\ list \in ListRecord /\ fetches \subseteq FetchSet /\ stored \in Nat
    /\ write \in [stage : {"none", "sent", "ok", "failed"}, query : Query, upload : BOOLEAN]
    /\ \A q \in fetches : q.id <= list.latest

\* A list that only browses: the latest request asks what the list says it shows.
Browses ==
    /\ write.stage = "none"
    /\ \A q \in fetches : q.id = list.latest => q.query = list.query
    /\ ~list.loading /\ ~list.failed => list.shown = list.query

\* A list that writes: the latest request was sent after the last write, so what
\* it was answered is no older.
Follows ==
    /\ list.written <= stored
    /\ \A q \in fetches : q.id = list.latest /\ q.stage # "sent" => q.version >= list.written
    /\ ~list.loading /\ ~list.failed => list.version >= list.written

LInv == ListTyped /\ IF list.writes THEN Follows ELSE Browses

\* What a fetch leaves: a list that loads, and requests of which the last asks
\* for the last of the queries.
LEMMA FetchFields ==
  ASSUME ListTyped, NEW changed \in ListRecord, changed.latest = list.latest,
         NEW queries \in Seq(Query), queries # <<>>, Fetch(changed, queries)
  PROVE  /\ list' \in ListRecord /\ fetches' \subseteq FetchSet
         /\ list'.latest > list.latest /\ list'.loading
         /\ list'.writes = changed.writes /\ list'.query = changed.query
         /\ list'.written = changed.written
         /\ \A q \in fetches' : q.id <= list'.latest
         /\ \A q \in fetches' : q.id = list'.latest =>
               q.stage = "sent" /\ q.query = queries[Len(queries)]
<1>1. Len(queries) \in Nat \ {0} /\ DOMAIN queries = 1..Len(queries)
  OBVIOUS
<1>2. list' = [changed EXCEPT !.latest = @ + Len(queries), !.loading = TRUE]
  BY DEF Fetch
<1>3. /\ list' \in ListRecord /\ list'.latest = list.latest + Len(queries) /\ list'.loading
      /\ list'.writes = changed.writes /\ list'.query = changed.query
      /\ list'.written = changed.written
  <2>1. changed.latest + Len(queries) \in Nat /\ changed.latest \in Nat
    BY <1>1 DEF ListRecord
  <2> QED
    BY <1>2, <2>1 DEF ListRecord
<1>4. list.latest \in Nat
  BY DEF ListTyped, ListRecord
<1>5. ASSUME NEW q \in fetches', q \notin fetches
      PROVE  \E i \in 1..Len(queries) :
               q = [id |-> list.latest + i, query |-> queries[i], version |-> 0, stage |-> "sent"]
  BY <1>1, <1>5 DEF Fetch
<1>6. ASSUME NEW q \in fetches', q \notin fetches
      PROVE  /\ q \in FetchSet /\ q.id <= list'.latest /\ q.stage = "sent"
             /\ (q.id = list'.latest => q.query = queries[Len(queries)])
  <2>1. PICK i \in 1..Len(queries) :
          q = [id |-> list.latest + i, query |-> queries[i], version |-> 0, stage |-> "sent"]
    BY <1>5, <1>6
  <2>2. q.id = list.latest + i /\ q.query = queries[i] /\ q.stage = "sent" /\ queries[i] \in Query
    BY <1>1, <2>1
  <2>3. q \in FetchSet
    BY <1>1, <1>4, <2>1, <2>2 DEF FetchSet
  <2> QED
    BY <1>1, <1>3, <1>4, <2>2, <2>3
<1>7. ASSUME NEW q \in fetches PROVE q \in FetchSet /\ q.id < list'.latest
  BY <1>1, <1>3, <1>4 DEF ListTyped, FetchSet
<1> QED
  BY <1>1, <1>3, <1>4, <1>6, <1>7 DEF FetchSet

\* A request for the query of the list keeps the invariant.
LEMMA FetchKeeps ==
  ASSUME LInv, NEW changed \in ListRecord, changed.latest = list.latest,
         changed.writes = list.writes,
         NEW queries \in Seq(Query), queries # <<>>, Fetch(changed, queries),
         list.writes => changed.written <= stored',
         ~list.writes => queries[Len(queries)] = changed.query,
         stored' = stored,
         write' \in [stage : {"none", "sent", "ok", "failed"}, query : Query, upload : BOOLEAN],
         ~list.writes => write' = write
  PROVE  LInv'
<1>1. ListTyped /\ list.latest \in Nat /\ stored \in Nat
  BY DEF LInv, ListTyped, ListRecord
<1>2. /\ list' \in ListRecord /\ fetches' \subseteq FetchSet
      /\ list'.latest > list.latest /\ list'.loading
      /\ list'.writes = changed.writes /\ list'.query = changed.query
      /\ list'.written = changed.written
      /\ \A q \in fetches' : q.id <= list'.latest
      /\ \A q \in fetches' : q.id = list'.latest =>
            q.stage = "sent" /\ q.query = queries[Len(queries)]
  BY <1>1, FetchFields
<1>3. ListTyped'
  BY <1>1, <1>2 DEF ListTyped
<1>4. CASE list.writes
  BY <1>2, <1>3, <1>4 DEF LInv, Follows
<1>5. CASE ~list.writes
  BY <1>2, <1>3, <1>5 DEF LInv, Browses
<1> QED
  BY <1>4, <1>5

LEMMA OnePage == ASSUME NEW x \in Query PROVE /\ <<x>> \in Seq(Query) /\ <<x>> # <<>>
                                              /\ <<x>>[Len(<<x>>)] = x
  OBVIOUS

LEMMA FirstPageQuery == ASSUME NEW f \in Filters PROVE FirstPage(f) \in Query
  BY DEF FirstPage, Query

LEMMA ListStep == LInv /\ [ListNext]_pageVars => LInv'
<1> SUFFICES ASSUME LInv, [ListNext]_pageVars PROVE LInv'
  OBVIOUS
<1> DEFINE Writes == [stage : {"none", "sent", "ok", "failed"}, query : Query, upload : BOOLEAN]
<1>0. /\ ListTyped /\ list \in ListRecord /\ list.query \in Query /\ list.typed \in Filters
      /\ list.latest \in Nat /\ stored \in Nat /\ write \in Writes
      /\ (~list.writes => write.stage = "none") /\ (list.writes => list.written <= stored)
  BY DEF LInv, ListTyped, ListRecord, Browses, Follows
<1>1. ASSUME NEW f \in Filters, Type(f) PROVE LInv'
  <2>1. /\ list' = [list EXCEPT !.typed = f] /\ UNCHANGED <<fetches, write, stored>>
    BY <1>1 DEF Type
  <2>2. /\ list' \in ListRecord /\ list'.writes = list.writes /\ list'.query = list.query
        /\ list'.latest = list.latest /\ list'.shown = list.shown /\ list'.version = list.version
        /\ list'.loading = list.loading /\ list'.failed = list.failed /\ list'.written = list.written
    BY <1>0, <2>1 DEF ListRecord
  <2> QED
    BY <2>1, <2>2 DEF LInv, ListTyped, Browses, Follows
<1>2. CASE Search
  <2> DEFINE x == FirstPage(list.typed)  changed == [list EXCEPT !.query = x]
  <2>1. Fetch(changed, <<x>>) /\ UNCHANGED <<write, stored>>
    BY <1>2 DEF Search
  <2>2. x \in Query
    BY <1>0, FirstPageQuery
  <2>3. /\ changed \in ListRecord /\ changed.latest = list.latest /\ changed.query = x
        /\ changed.writes = list.writes /\ changed.written = list.written
    BY <1>0, <2>2 DEF ListRecord
  <2> HIDE DEF x, changed
  <2> QED
    BY <1>0, <2>1, <2>2, <2>3, OnePage, FetchKeeps
<1>3. CASE Reset
  <2> DEFINE x == FirstPage("all")  changed == [list EXCEPT !.typed = "all", !.query = x]
  <2>1. /\ UNCHANGED <<write, stored>>
        /\ \/ list.query = x /\ list' = changed /\ UNCHANGED fetches
           \/ Fetch(changed, <<x>>)
    BY <1>3 DEF Reset
  <2>2. x \in Query
    BY PagesAssumption, FirstPageQuery
  <2>3. /\ changed \in ListRecord /\ changed.latest = list.latest /\ changed.query = x
        /\ changed.writes = list.writes /\ changed.written = list.written
        /\ changed.shown = list.shown /\ changed.version = list.version
        /\ changed.loading = list.loading /\ changed.failed = list.failed
    BY <1>0, <2>2, PagesAssumption DEF ListRecord
  <2> HIDE DEF x, changed
  <2>4. CASE Fetch(changed, <<x>>)
    BY <1>0, <2>1, <2>2, <2>3, <2>4, OnePage, FetchKeeps
  <2>5. CASE list.query = x /\ list' = changed /\ UNCHANGED fetches
    BY <2>1, <2>3, <2>5 DEF LInv, ListTyped, Browses, Follows
  <2> QED
    BY <2>1, <2>4, <2>5
<1>4. ASSUME NEW n \in 1..2, TurnPage(n) PROVE LInv'
  <2> DEFINE x == [list.query EXCEPT !.page = n]  changed == [list EXCEPT !.query = x]
  <2>1. Fetch(changed, <<x>>) /\ UNCHANGED <<write, stored>>
    BY <1>4 DEF TurnPage
  <2>2. x \in Query
    BY <1>0 DEF Query
  <2>3. /\ changed \in ListRecord /\ changed.latest = list.latest /\ changed.query = x
        /\ changed.writes = list.writes /\ changed.written = list.written
    BY <1>0, <2>2 DEF ListRecord
  <2> HIDE DEF x, changed
  <2> QED
    BY <1>0, <2>1, <2>2, <2>3, OnePage, FetchKeeps
<1>5. CASE Refresh
  <2>1. Fetch(list, <<list.query>>) /\ UNCHANGED <<write, stored>>
    BY <1>5 DEF Refresh
  <2> QED
    BY <1>0, <2>1, OnePage, FetchKeeps
<1>6. CASE Write
  <2>1. /\ list.writes /\ UNCHANGED <<list, fetches, stored>>
        /\ \E upload \in BOOLEAN : write' = [stage |-> "sent", query |-> list.query, upload |-> upload]
    BY <1>6 DEF Write
  <2>2. write' \in Writes
    BY <1>0, <2>1
  <2> QED
    BY <2>1, <2>2 DEF LInv, ListTyped, Follows
<1>7. CASE ServeWrite
  <2>1. /\ write.stage = "sent" /\ UNCHANGED <<list, fetches>>
        /\ write' \in Writes /\ stored' \in Nat /\ stored' >= stored
    BY <1>0, <1>7 DEF ServeWrite
  <2>2. list.writes
    BY <1>0, <2>1
  <2>3. list.written \in Nat
    BY <1>0 DEF ListRecord
  <2> QED
    BY <1>0, <2>1, <2>2, <2>3 DEF LInv, ListTyped, Follows
<1>8. CASE Written
  <2> DEFINE x == [list.query EXCEPT !.page = 1]  seen == [list EXCEPT !.written = stored]
             turned == [seen EXCEPT !.query = x]
  <2>1. /\ write.stage # "none" /\ write' = NoWrite /\ UNCHANGED stored
        /\ \/ UNCHANGED <<list, fetches>>
           \/ Fetch(turned, <<write.query, x>>)
           \/ Fetch(seen, <<write.query>>)
    BY <1>8 DEF Written
  <2>2. list.writes /\ x \in Query /\ write.query \in Query /\ NoWrite \in Writes
    BY <1>0, <2>1, PagesAssumption, FirstPageQuery DEF Query, NoWrite
  <2>3. /\ seen \in ListRecord /\ seen.latest = list.latest
        /\ seen.writes = list.writes /\ seen.written = stored
        /\ turned \in ListRecord /\ turned.latest = list.latest
        /\ turned.writes = list.writes /\ turned.written = stored
    BY <1>0, <2>2 DEF ListRecord
  <2>4. <<write.query, x>> \in Seq(Query) /\ <<write.query, x>> # <<>>
    BY <2>2
  <2>8. write' \in Writes /\ stored' = stored /\ stored <= stored'
    BY <1>0, <2>1, <2>2
  <2> HIDE DEF x, seen, turned
  <2>5. CASE Fetch(turned, <<write.query, x>>)
    <3>1. turned.written <= stored'
      BY <2>3, <2>8
    <3> QED
      BY <2>2, <2>3, <2>4, <2>5, <2>8, <3>1, FetchKeeps
  <2>6. CASE Fetch(seen, <<write.query>>)
    <3>1. seen.written <= stored'
      BY <2>3, <2>8
    <3>2. <<write.query>> \in Seq(Query) /\ <<write.query>> # <<>>
      BY <2>2
    <3> QED
      BY <2>2, <2>3, <2>6, <2>8, <3>1, <3>2, FetchKeeps
  <2>7. CASE UNCHANGED <<list, fetches>>
    BY <2>1, <2>2, <2>7 DEF LInv, ListTyped, Follows
  <2> QED
    BY <2>1, <2>5, <2>6, <2>7
<1>9. ASSUME NEW q \in fetches, ServeFetch(q) PROVE LInv'
  <2>1. PICK stage \in {"ok", "failed"} :
          fetches' = (fetches \ {q}) \cup {[q EXCEPT !.stage = stage, !.version = stored]}
    BY <1>9 DEF ServeFetch
  <2>2. UNCHANGED <<list, write, stored>> /\ q \in FetchSet
    BY <1>0, <1>9 DEF ServeFetch, ListTyped
  <2> DEFINE served == [q EXCEPT !.stage = stage, !.version = stored]
  <2>3. /\ served \in FetchSet /\ served.id = q.id /\ served.query = q.query
        /\ served.version = stored
    BY <1>0, <2>2 DEF FetchSet
  <2> HIDE DEF served
  <2>4. \A o \in fetches' : o \in fetches \/ o = served
    BY <2>1 DEF served
  <2>5. ListTyped'
    BY <1>0, <2>2, <2>3, <2>4 DEF ListTyped
  <2> QED
    BY <1>0, <2>2, <2>3, <2>4, <2>5 DEF LInv, Browses, Follows
<1>10. ASSUME NEW q \in fetches, Fetched(q) PROVE LInv'
  <2>1. /\ q.stage # "sent" /\ fetches' = fetches \ {q} /\ UNCHANGED <<write, stored>>
        /\ q \in FetchSet
    BY <1>0, <1>10 DEF Fetched, ListTyped
  <2>2. CASE ~IsLatest(q)
    <3>1. UNCHANGED list
      BY <1>10, <2>2 DEF Fetched
    <3> QED
      BY <2>1, <3>1 DEF LInv, ListTyped, Browses, Follows
  <2>3. CASE IsLatest(q) /\ q.stage = "failed"
    <3>1. list' = [list EXCEPT !.loading = FALSE, !.failed = TRUE]
      BY <1>10, <2>3 DEF Fetched
    <3>2. /\ list' \in ListRecord /\ list'.writes = list.writes /\ list'.query = list.query
          /\ list'.latest = list.latest /\ list'.failed /\ list'.written = list.written
      BY <1>0, <3>1 DEF ListRecord
    <3> QED
      BY <2>1, <3>2 DEF LInv, ListTyped, Browses, Follows
  <2>4. CASE IsLatest(q) /\ q.stage # "failed"
    <3>1. list' = [list EXCEPT !.loading = FALSE, !.failed = FALSE, !.shown = q.query,
                               !.version = q.version]
      BY <1>10, <2>4 DEF Fetched
    <3>2. /\ list' \in ListRecord /\ list'.writes = list.writes /\ list'.query = list.query
          /\ list'.latest = list.latest /\ list'.shown = q.query /\ list'.version = q.version
          /\ list'.written = list.written
      BY <1>0, <2>1, <3>1 DEF ListRecord, FetchSet
    <3>3. q.id = list.latest
      BY <2>4 DEF IsLatest
    <3> QED
      BY <2>1, <3>2, <3>3 DEF LInv, ListTyped, Browses, Follows
  <2> QED
    BY <2>2, <2>3, <2>4
<1>11. CASE UNCHANGED pageVars
  BY <1>11 DEF pageVars, LInv, ListTyped, Browses, Follows
<1> QED
  BY <1>1, <1>2, <1>3, <1>4, <1>5, <1>6, <1>7, <1>8, <1>9, <1>10, <1>11 DEF ListNext

LEMMA ListStarts == PagesInit => LInv
<1> SUFFICES ASSUME PagesInit PROVE LInv
  OBVIOUS
<1>0. FirstPage("all") \in Query
  BY PagesAssumption, FirstPageQuery
<1>1. PICK writes \in BOOLEAN :
       list = [writes |-> writes, typed |-> "all", query |-> FirstPage("all"), latest |-> 1,
               shown |-> FirstPage("all"), version |-> 0, loading |-> TRUE, failed |-> FALSE,
               written |-> 0]
  BY DEF PagesInit
<1>2. /\ list \in ListRecord /\ list.latest = 1 /\ list.query = FirstPage("all") /\ list.loading
      /\ list.written = 0
  BY <1>0, <1>1, PagesAssumption DEF ListRecord
<1>3. /\ fetches = {[id |-> 1, query |-> FirstPage("all"), version |-> 0, stage |-> "sent"]}
      /\ write = NoWrite /\ stored = 1
  BY DEF PagesInit
<1>4. fetches \subseteq FetchSet
      /\ \A q \in fetches : q.id = 1 /\ q.query = FirstPage("all") /\ q.stage = "sent"
  BY <1>0, <1>3 DEF FetchSet
<1>5. write.stage = "none"
      /\ write \in [stage : {"none", "sent", "ok", "failed"}, query : Query, upload : BOOLEAN]
  BY <1>0, <1>3 DEF NoWrite
<1> QED
  BY <1>2, <1>3, <1>4, <1>5 DEF LInv, ListTyped, Browses, Follows

\* Whatever is typed, searched, paged, refreshed and written, and in whatever
\* order the answers come: a list that only browses answers the query above it,
\* and one that writes shows its last write, unless it says that it is loading or
\* that it failed (fetchEscalations, fetchFaqs, fetchDocuments).
THEOREM ListTheorem == ListSpec => []ListIsCurrent
<1>1. LInv => ListIsCurrent
  BY DEF LInv, ListIsCurrent, Browses, Follows
<1> QED
  BY <1>1, ListStarts, ListStep, PTL DEF ListSpec

-----------------------------------------------------------------------------
(* The review of a draft.                                                  *)

\* A reviewer, or a call, knows a revision and a text of it.  Both are of a
\* document that was extracted once, and if its draft has that revision still,
\* they are what it is: Exact before the text is corrected, Covers after.
Exact(draft, revision, text) ==
    draft.number = 1 => /\ revision <= draft.revision
                        /\ revision = draft.revision => text = draft.text
Covers(draft, revision, text) ==
    draft.number = 1 => /\ revision <= draft.revision
                        /\ revision = draft.revision => draft.text.edits \subseteq text.edits

DialogOK(dialog, known) ==
    /\ dialog.dirty => dialog.text # NoText
    /\ dialog.text # NoText =>
          LET draft == known[dialog.text.document]
          IN  /\ Covers(draft, dialog.revision, dialog.text)
              /\ ~dialog.dirty => Exact(draft, dialog.revision, dialog.text)

\* What a call carries, on its way to the server and back.
CallOK(c, known) ==
    LET draft == known[c.document] IN
    /\ c.kind = "save" /\ c.stage = "sent" => c.text # NoText /\ Covers(draft, c.revision, c.text)
    /\ c.kind = "publish" /\ c.stage = "sent" => Exact(draft, c.revision, c.shown)
    /\ c.stage = "building" =>
          c.kind = "publish" /\ Exact(draft, c.revision, c.shown) /\ Exact(draft, c.revision, c.text)
    /\ c.kind \in {"load", "save"} /\ c.stage = "ok" =>
          c.text # NoText /\ c.text.document = c.document /\ Exact(draft, c.revision, c.text)

RInv ==
    /\ ReviewTypeOK
    /\ IsFiniteSet(calls) /\ Cardinality(calls) <= MaxCalls
    /\ \A d \in Documents : drafts[d].text.document = d
    /\ \A c \in calls : c.kind = "save" /\ c.stage = "sent" => c.text.document = c.document
    /\ \A r \in Reviewers : DialogOK(dialogs[r], drafts)
    /\ \A c \in calls : CallOK(c, drafts)

\* A draft goes on: to its next revision, another status or another extraction.
GoesOn(old, new) ==
    new.number = 1 => /\ old.number = 1 /\ old.revision <= new.revision
                      /\ old.revision = new.revision => old.text = new.text

LEMMA TextIsText == NoText \notin Text /\ \A t \in Text : t.document \in Documents
  BY ReviewAssumption DEF NoText, Text

\* What was known of a draft stays true of it.
LEMMA KnownStays ==
  ASSUME NEW old \in Draft, NEW new \in Draft, GoesOn(old, new), NEW revision \in Nat, NEW text
  PROVE  /\ Exact(old, revision, text) => Exact(new, revision, text)
         /\ Covers(old, revision, text) => Covers(new, revision, text)
  BY ReviewAssumption DEF Draft, GoesOn, Exact, Covers

LEMMA DraftsGoOn ==
  ASSUME ReviewTypeOK, drafts' \in [Documents -> Draft], \A d \in Documents : GoesOn(drafts[d], drafts'[d])
  PROVE  /\ \A dialog \in Dialog : DialogOK(dialog, drafts) => DialogOK(dialog, drafts')
         /\ \A c \in Call : CallOK(c, drafts) => CallOK(c, drafts')
  <1>1. ASSUME NEW dialog \in Dialog, DialogOK(dialog, drafts) PROVE DialogOK(dialog, drafts')
    <2>1. CASE dialog.text # NoText
      <3>1. dialog.text.document \in Documents /\ dialog.revision \in Nat
        BY <2>1, TextIsText, ReviewAssumption DEF Dialog, MaybeText
      <3>. DEFINE d == dialog.text.document
      <3>2. drafts[d] \in Draft /\ drafts'[d] \in Draft /\ GoesOn(drafts[d], drafts'[d])
        BY <3>1 DEF ReviewTypeOK
      <3>3. /\ Exact(drafts[d], dialog.revision, dialog.text) => Exact(drafts'[d], dialog.revision, dialog.text)
            /\ Covers(drafts[d], dialog.revision, dialog.text) => Covers(drafts'[d], dialog.revision, dialog.text)
        BY <3>1, <3>2, KnownStays
      <3>. QED  BY <1>1, <2>1, <3>3 DEF DialogOK
    <2>2. CASE dialog.text = NoText
      BY <1>1, <2>2 DEF DialogOK
    <2>. QED  BY <2>1, <2>2
  <1>2. ASSUME NEW c \in Call, CallOK(c, drafts) PROVE CallOK(c, drafts')
    <2>. DEFINE d == c.document
    <2>1. d \in Documents /\ c.revision \in Nat
      BY ReviewAssumption DEF Call
    <2>2. drafts[d] \in Draft /\ drafts'[d] \in Draft /\ GoesOn(drafts[d], drafts'[d])
      BY <2>1 DEF ReviewTypeOK
    <2>3. \A text : /\ Exact(drafts[d], c.revision, text) => Exact(drafts'[d], c.revision, text)
                    /\ Covers(drafts[d], c.revision, text) => Covers(drafts'[d], c.revision, text)
      BY <2>1, <2>2, KnownStays
    <2>. QED  BY <1>2, <2>3 DEF CallOK
  <1>. QED  BY <1>1, <1>2

\* A free number is left as long as another call may be sent.
LEMMA FreeIdIsFree ==
  ASSUME NEW others, IsFiniteSet(others), Cardinality(others) < MaxCalls
  PROVE  FreeId(others) \in 1..MaxCalls
  <1>1. MaxCalls \in Nat /\ Cardinality(others) \in Nat
    BY FS_CardinalityType, ReviewAssumption
  <1>2. IsFiniteSet(1..MaxCalls) /\ Cardinality(1..MaxCalls) = MaxCalls
    BY <1>1, FS_Interval
  <1>3. \E i \in 1..MaxCalls : \A c \in others : c.id # i
    <2>. SUFFICES ASSUME \A i \in 1..MaxCalls : \E c \in others : c.id = i
                  PROVE  FALSE
      OBVIOUS
    <2>. DEFINE f == [i \in 1..MaxCalls |-> CHOOSE c \in others : c.id = i]
    <2>1. f \in [1..MaxCalls -> others] /\ \A i \in 1..MaxCalls : f[i].id = i
      OBVIOUS
    <2>. HIDE DEF f
    <2>2. \E x, y \in 1..MaxCalls : x # y /\ f[x] = f[y]
      BY <1>2, <2>1, FS_PigeonHole
    <2>. QED  BY <2>1, <2>2
  <1>. QED  BY <1>3 DEF FreeId

LEMMA CallsKeep ==
  ASSUME RInv, NEW others \in SUBSET calls, Cardinality(others) < MaxCalls,
         drafts' \in [Documents -> Draft], \A d \in Documents : GoesOn(drafts[d], drafts'[d]),
         NEW c \in Call, CallOK(c, drafts'),
         c.kind = "save" /\ c.stage = "sent" => c.text.document = c.document,
         calls' = others \cup {c}
  PROVE  /\ calls' \in SUBSET Call /\ IsFiniteSet(calls') /\ Cardinality(calls') <= MaxCalls
         /\ \A x \in calls' : x.kind = "save" /\ x.stage = "sent" => x.text.document = x.document
         /\ \A x \in calls' : CallOK(x, drafts')
  <1>1. IsFiniteSet(others) /\ calls \subseteq Call
    BY FS_Subset DEF RInv, ReviewTypeOK
  <1>2. /\ IsFiniteSet(others \cup {c})
        /\ Cardinality(others \cup {c}) \in {Cardinality(others), Cardinality(others) + 1}
        /\ Cardinality(others) \in Nat /\ MaxCalls \in Nat
    BY <1>1, FS_AddElement, FS_CardinalityType, ReviewAssumption
  <1>3. \A x \in others : CallOK(x, drafts')
    BY <1>1, DraftsGoOn DEF RInv
  <1>4. Cardinality(calls') <= MaxCalls
    BY <1>2
  <1>. QED  BY <1>1, <1>2, <1>3, <1>4 DEF RInv

LEMMA CallsDrop ==
  ASSUME RInv, NEW c \in calls
  PROVE  /\ calls \ {c} \in SUBSET calls /\ IsFiniteSet(calls \ {c}) /\ Cardinality(calls \ {c}) < MaxCalls
         /\ c \in Call
  <1>1. IsFiniteSet(calls) /\ Cardinality(calls) \in Nat /\ Cardinality(calls) <= MaxCalls /\ calls \subseteq Call
    BY FS_CardinalityType DEF RInv, ReviewTypeOK
  <1>2. IsFiniteSet(calls \ {c}) /\ Cardinality(calls \ {c}) = Cardinality(calls) - 1
    BY <1>1, FS_RemoveElement
  <1>. QED  BY <1>1, <1>2, ReviewAssumption

LEMMA DraftsRest ==
  ASSUME RInv, UNCHANGED drafts
  PROVE  /\ drafts' \in [Documents -> Draft] /\ \A d \in Documents : GoesOn(drafts[d], drafts'[d])
         /\ \A d \in Documents : drafts'[d].text.document = d
  <1>1. \A d \in Documents : drafts[d] \in Draft
    BY DEF RInv, ReviewTypeOK
  <1>2. \A draft \in Draft : GoesOn(draft, draft)
    BY ReviewAssumption DEF Draft, GoesOn
  <1>. QED  BY <1>1, <1>2 DEF RInv, ReviewTypeOK

LEMMA DialogsKeep ==
  ASSUME RInv, UNCHANGED drafts, NEW r \in Reviewers, NEW dialog \in Dialog, DialogOK(dialog, drafts),
         Update(r, dialog)
  PROVE  dialogs' \in [Reviewers -> Dialog] /\ \A q \in Reviewers : DialogOK(dialogs'[q], drafts')
  <1>1. dialogs \in [Reviewers -> Dialog] /\ dialogs' = [dialogs EXCEPT ![r] = dialog]
    BY DEF RInv, ReviewTypeOK, Update
  <1>. QED  BY <1>1 DEF RInv

LEMMA NewLoad ==
  ASSUME NEW r \in Reviewers, NEW d \in Documents, NEW others,
         IsFiniteSet(others), Cardinality(others) < MaxCalls
  PROVE  LET load == NewCall(r, "load", d, others)
         IN  load \in Call /\ load.kind = "load" /\ load.stage = "sent"
  <1>1. NewCall(r, "load", d, others) =
          [id |-> FreeId(others), by |-> r, kind |-> "load", document |-> d, stage |-> "sent", revision |-> 0,
           text |-> NoText, shown |-> NoText, status |-> "none", during |-> "none"]
    BY DEF NewCall
  <1>2. FreeId(others) \in 1..MaxCalls
    BY FreeIdIsFree
  <1>. QED  BY <1>1, <1>2, ReviewAssumption DEF Call, Status, MaybeText

\* A load that is part of a save or of a publication.
LEMMA LoadDuring ==
  ASSUME NEW load \in Call, NEW during \in {"none", "saving", "publishing"}
  PROVE  LET new == [load EXCEPT !.during = during]
         IN  new \in Call /\ new.kind = load.kind /\ new.stage = load.stage
  BY DEF Call

LEMMA NewWrite ==
  ASSUME ReviewTypeOK, NEW r \in Reviewers, NEW d \in Documents, NEW kind \in {"save", "publish"}, NEW others,
         IsFiniteSet(others), Cardinality(others) < MaxCalls
  PROVE  LET c == NewCall(r, kind, d, others)
         IN  /\ c \in Call /\ c.kind = kind /\ c.stage = "sent" /\ c.document = d
             /\ c.revision = dialogs[r].revision
             /\ kind = "save" => c.text = dialogs[r].text
             /\ kind = "publish" => c.shown = dialogs[r].text
  <1>1. FreeId(others) \in 1..MaxCalls
    BY FreeIdIsFree
  <1>2. dialogs[r].revision \in 0..MaxRevision /\ dialogs[r].text \in MaybeText /\ NoText \in MaybeText
    BY DEF ReviewTypeOK, Dialog, MaybeText
  <1>3. CASE kind = "save"
    <2>1. NewCall(r, kind, d, others) =
            [id |-> FreeId(others), by |-> r, kind |-> "save", document |-> d, stage |-> "sent",
             revision |-> dialogs[r].revision, text |-> dialogs[r].text, shown |-> NoText, status |-> "none",
             during |-> "none"]
      BY <1>3 DEF NewCall
    <2>. QED  BY <1>1, <1>2, <1>3, <2>1 DEF Call, Status
  <1>4. CASE kind = "publish"
    <2>1. NewCall(r, kind, d, others) =
            [id |-> FreeId(others), by |-> r, kind |-> "publish", document |-> d, stage |-> "sent",
             revision |-> dialogs[r].revision, text |-> NoText, shown |-> dialogs[r].text, status |-> "none",
             during |-> "none"]
      BY <1>4 DEF NewCall
    <2>. QED  BY <1>1, <1>2, <1>4, <2>1 DEF Call, Status
  <1>. QED  BY <1>3, <1>4

\* A step of a dialog that sends nothing, and one that sends.
LEMMA Quiet ==
  ASSUME RInv, NEW r \in Reviewers, NEW dialog \in Dialog, DialogOK(dialog, drafts), Update(r, dialog),
         UNCHANGED <<drafts, calls, failures>>
  PROVE  RInv'
  <1>1. dialogs' \in [Reviewers -> Dialog] /\ \A q \in Reviewers : DialogOK(dialogs'[q], drafts')
    BY DialogsKeep
  <1>. QED  BY <1>1 DEF RInv, ReviewTypeOK

LEMMA Sends ==
  ASSUME RInv, NEW r \in Reviewers, NEW dialog \in Dialog, DialogOK(dialog, drafts), Update(r, dialog),
         NEW others \in SUBSET calls, Cardinality(others) < MaxCalls, NEW c \in Call, CallOK(c, drafts),
         c.kind = "save" /\ c.stage = "sent" => c.text.document = c.document,
         calls' = others \cup {c}, UNCHANGED <<drafts, failures>>
  PROVE  RInv'
  <1>1. dialogs' \in [Reviewers -> Dialog] /\ \A q \in Reviewers : DialogOK(dialogs'[q], drafts')
    BY DialogsKeep
  <1>2. /\ drafts' \in [Documents -> Draft] /\ \A d \in Documents : GoesOn(drafts[d], drafts'[d])
        /\ \A d \in Documents : drafts'[d].text.document = d
    BY DraftsRest
  <1>3. /\ calls' \in SUBSET Call /\ IsFiniteSet(calls') /\ Cardinality(calls') <= MaxCalls
        /\ \A x \in calls' : x.kind = "save" /\ x.stage = "sent" => x.text.document = x.document
        /\ \A x \in calls' : CallOK(x, drafts')
    BY <1>2, CallsKeep
  <1>. QED  BY <1>1, <1>2, <1>3 DEF RInv, ReviewTypeOK

LEMMA ClearedOK ==
  ASSUME RInv, NEW r \in Reviewers, NEW d \in Documents \cup {"none"}
  PROVE  /\ Cleared(r, d) \in Dialog /\ Cleared(r, d).text = NoText /\ ~Cleared(r, d).dirty
         /\ DialogOK(Cleared(r, d), drafts)
  <1>1. dialogs[r] \in Dialog
    BY DEF RInv, ReviewTypeOK
  <1>2. Cleared(r, d) \in Dialog /\ Cleared(r, d).text = NoText /\ Cleared(r, d).dirty = FALSE
    <2>1. 0 \in 0..MaxRevision /\ "none" \in Status /\ NoText \in MaybeText
      BY ReviewAssumption DEF Status, MaybeText
    <2>. QED  BY <1>1, <2>1 DEF Cleared, Dialog
  <1>. QED  BY <1>2 DEF DialogOK

\* The flags of a dialog say nothing of what it knows.
LEMMA FlagsOK ==
  ASSUME NEW known, NEW dialog \in Dialog, DialogOK(dialog, known), NEW other \in Dialog,
         other.text = dialog.text, other.revision = dialog.revision, other.dirty = dialog.dirty
  PROVE  DialogOK(other, known)
  BY DEF DialogOK

LEMMA DialogSteps ==
  ASSUME RInv, AnswersStay, NEW r \in Reviewers,
         \/ \E d \in Documents : Open(r, d)
         \/ Close(r) \/ Reload(r) \/ Edit(r) \/ Save(r) \/ Publish(r)
  PROVE  RInv'
  <1>1. dialogs[r] \in Dialog /\ DialogOK(dialogs[r], drafts) /\ IsFiniteSet(calls)
    BY DEF RInv, ReviewTypeOK
  <1>2. ASSUME NEW d \in Documents, Open(r, d) PROVE RInv'
    <2>. DEFINE dialog == [Cleared(r, d) EXCEPT !.loading = TRUE]
                load == NewCall(r, "load", d, calls)
    <2>1. dialog \in Dialog /\ DialogOK(dialog, drafts)
      <3>1. Cleared(r, d) \in Dialog /\ DialogOK(Cleared(r, d), drafts)
        BY ClearedOK
      <3>2. /\ dialog \in Dialog /\ dialog.text = Cleared(r, d).text
            /\ dialog.revision = Cleared(r, d).revision /\ dialog.dirty = Cleared(r, d).dirty
        BY <3>1 DEF Dialog
      <3>. HIDE DEF dialog
      <3>. QED  BY <3>1, <3>2, FlagsOK
    <2>2. /\ Cardinality(calls) < MaxCalls /\ calls' = calls \cup {load} /\ Update(r, dialog)
          /\ UNCHANGED <<drafts, failures>>
      BY <1>2 DEF Open, Send, MayCall
    <2>3. load \in Call /\ load.kind = "load" /\ load.stage = "sent"
      BY <1>1, <2>2, NewLoad
    <2>4. CallOK(load, drafts)
      BY <2>3 DEF CallOK
    <2>. HIDE DEF dialog, load
    <2>. QED  BY <2>1, <2>2, <2>3, <2>4, Sends
  <1>3. CASE Close(r)
    <2>1. Update(r, Cleared(r, "none")) /\ UNCHANGED <<drafts, calls, failures>>
      BY <1>3 DEF Close
    <2>. QED  BY <2>1, ClearedOK, Quiet
  <1>4. CASE Reload(r)
    <2>. DEFINE dialog == [dialogs[r] EXCEPT !.loading = TRUE]
                load == NewCall(r, "load", dialogs[r].document, calls)
    <2>1. dialog \in Dialog /\ DialogOK(dialog, drafts)
      <3>1. /\ dialog \in Dialog /\ dialog.text = dialogs[r].text
            /\ dialog.revision = dialogs[r].revision /\ dialog.dirty = dialogs[r].dirty
        BY <1>1 DEF Dialog
      <3>. HIDE DEF dialog
      <3>. QED  BY <1>1, <3>1, FlagsOK
    <2>2. /\ Cardinality(calls) < MaxCalls /\ calls' = calls \cup {load} /\ Update(r, dialog)
          /\ UNCHANGED <<drafts, failures>> /\ dialogs[r].document \in Documents
      BY <1>1, <1>4 DEF Reload, Send, MayCall, Dialog
    <2>3. load \in Call /\ load.kind = "load" /\ load.stage = "sent"
      BY <1>1, <2>2, NewLoad
    <2>4. CallOK(load, drafts)
      BY <2>3 DEF CallOK
    <2>. HIDE DEF dialog, load
    <2>. QED  BY <2>1, <2>2, <2>3, <2>4, Sends
  <1>5. CASE Edit(r)
    <2>. DEFINE old == dialogs[r]
                text == [old.text EXCEPT !.edits = @ \cup {r}]
                dialog == [old EXCEPT !.text = text, !.dirty = TRUE]
    <2>1. old.text \in Text /\ UNCHANGED <<drafts, calls, failures>>
      BY <1>1, <1>5 DEF Edit, Dialog, MaybeText
    <2>2. Update(r, dialog)
      BY <1>1, <1>5, <2>1 DEF Edit, Update, Dialog, Text
    <2>3. text \in Text /\ text.document = old.text.document /\ old.text.edits \subseteq text.edits
      BY <2>1 DEF Text
    <2>4. Covers(drafts[text.document], old.revision, old.text)
      BY <1>1, <2>1, <2>3, TextIsText DEF DialogOK
    <2>5. Covers(drafts[text.document], old.revision, text)
      BY <2>3, <2>4 DEF Covers
    <2>. HIDE DEF text
    <2>6. dialog \in Dialog /\ dialog.text = text /\ dialog.dirty = TRUE /\ dialog.revision = old.revision
      BY <1>1, <2>3 DEF Dialog, MaybeText
    <2>. HIDE DEF dialog, old
    <2>7. DialogOK(dialog, drafts)
      BY <2>3, <2>5, <2>6, TextIsText DEF DialogOK
    <2>. QED  BY <2>1, <2>2, <2>6, <2>7, Quiet
  <1>6. CASE Save(r) \/ Publish(r)
    <2>1. PICK kind \in {"save", "publish"} :
             /\ dialogs[r].document # "none" /\ dialogs[r].text # NoText
             /\ kind = "publish" => ~dialogs[r].dirty
             /\ Send(r, kind, dialogs[r].document) /\ UNCHANGED <<drafts, failures>>
             /\ \/ Update(r, [dialogs[r] EXCEPT !.saving = TRUE])
                \/ Update(r, [dialogs[r] EXCEPT !.publishing = TRUE])
      BY <1>1, <1>6 DEF Save, Publish, DialogOK
    <2>. DEFINE d == dialogs[r].document
                c == NewCall(r, kind, d, calls)
    <2>2. d \in Documents /\ dialogs[r].text \in Text /\ dialogs[r].text.document = d
      BY <1>1, <2>1 DEF AnswersStay, Dialog, MaybeText
    <2>3. Cardinality(calls) < MaxCalls /\ calls' = calls \cup {c}
      BY <2>1 DEF Send, MayCall
    <2>4. /\ c \in Call /\ c.kind = kind /\ c.stage = "sent" /\ c.document = d /\ c.revision = dialogs[r].revision
          /\ kind = "save" => c.text = dialogs[r].text
          /\ kind = "publish" => c.shown = dialogs[r].text
      BY <1>1, <2>2, <2>3, NewWrite DEF RInv
    <2>5. /\ Covers(drafts[d], dialogs[r].revision, dialogs[r].text)
          /\ kind = "publish" => Exact(drafts[d], dialogs[r].revision, dialogs[r].text)
      BY <1>1, <2>1, <2>2 DEF DialogOK
    <2>. HIDE DEF c
    <2>6. CallOK(c, drafts)
      BY <2>1, <2>4, <2>5 DEF CallOK
    <2>7. ASSUME NEW dialog \in {[dialogs[r] EXCEPT !.saving = TRUE], [dialogs[r] EXCEPT !.publishing = TRUE]}
          PROVE  dialog \in Dialog /\ DialogOK(dialog, drafts)
      <3>1. /\ dialog \in Dialog /\ dialog.text = dialogs[r].text
            /\ dialog.revision = dialogs[r].revision /\ dialog.dirty = dialogs[r].dirty
        BY <1>1 DEF Dialog
      <3>. QED  BY <1>1, <3>1, FlagsOK
    <2>8. c.kind = "save" /\ c.stage = "sent" => c.text.document = c.document
      BY <2>2, <2>4
    <2>9. PICK dialog \in {[dialogs[r] EXCEPT !.saving = TRUE], [dialogs[r] EXCEPT !.publishing = TRUE]} :
             Update(r, dialog)
      BY <2>1
    <2>. QED  BY <2>1, <2>3, <2>4, <2>6, <2>7, <2>8, <2>9, Sends
  <1>. QED  BY <1>2, <1>3, <1>4, <1>5, <1>6

\* A step of the server.
LEMMA Serves ==
  ASSUME RInv, UNCHANGED dialogs, failures' \in 0..MaxFailures,
         drafts' \in [Documents -> Draft], \A d \in Documents : GoesOn(drafts[d], drafts'[d]),
         \A d \in Documents : drafts'[d].text.document = d,
         NEW others \in SUBSET calls, Cardinality(others) < MaxCalls, NEW c \in Call, CallOK(c, drafts'),
         c.kind = "save" /\ c.stage = "sent" => c.text.document = c.document,
         calls' = others \cup {c}
  PROVE  RInv'
  <1>1. /\ calls' \in SUBSET Call /\ IsFiniteSet(calls') /\ Cardinality(calls') <= MaxCalls
        /\ \A x \in calls' : x.kind = "save" /\ x.stage = "sent" => x.text.document = x.document
        /\ \A x \in calls' : CallOK(x, drafts')
    BY CallsKeep
  <1>2. \A r \in Reviewers : dialogs[r] \in Dialog /\ DialogOK(dialogs[r], drafts')
    BY DraftsGoOn DEF RInv, ReviewTypeOK
  <1>. QED  BY <1>1, <1>2 DEF RInv, ReviewTypeOK

LEMMA OneDraft ==
  ASSUME RInv, NEW d \in Documents, NEW new \in Draft, GoesOn(drafts[d], new), new.text.document = d,
         drafts' = [drafts EXCEPT ![d] = new]
  PROVE  /\ drafts' \in [Documents -> Draft] /\ drafts'[d] = new
         /\ \A e \in Documents : GoesOn(drafts[e], drafts'[e])
         /\ \A e \in Documents : drafts'[e].text.document = e
  <1>1. drafts \in [Documents -> Draft]
    BY DEF RInv, ReviewTypeOK
  <1>2. \A draft \in Draft : GoesOn(draft, draft)
    BY ReviewAssumption DEF Draft, GoesOn
  <1>. QED  BY <1>1, <1>2 DEF RInv

LEMMA EndedOK ==
  ASSUME NEW c \in Call, NEW stage \in {"ok", "conflict", "failed"}, stage = "ok" => c.kind = "publish", NEW known
  PROVE  /\ Ended(c, stage) \in Call /\ CallOK(Ended(c, stage), known)
         /\ Ended(c, stage).stage = stage /\ Ended(c, stage).kind = c.kind
  <1>1. 0 \in 0..MaxRevision /\ NoText \in MaybeText
    BY ReviewAssumption DEF MaybeText
  <1>2. /\ Ended(c, stage) \in Call
        /\ Ended(c, stage).stage = stage /\ Ended(c, stage).kind = c.kind
    BY <1>1 DEF Ended, Call
  <1>. QED  BY <1>2 DEF CallOK

\* The call ends without a draft, and all drafts stay as they are.
LEMMA JustEnds ==
  ASSUME RInv, NEW c \in calls, NEW stage \in {"ok", "conflict", "failed"}, stage = "ok" => c.kind = "publish",
         Ends(c, stage), UNCHANGED <<drafts, dialogs>>, UNCHANGED failures \/ Fails
  PROVE  RInv'
  <1>1. /\ calls \ {c} \in SUBSET calls /\ Cardinality(calls \ {c}) < MaxCalls /\ c \in Call
    BY CallsDrop
  <1>2. /\ drafts' \in [Documents -> Draft] /\ \A d \in Documents : GoesOn(drafts[d], drafts'[d])
        /\ \A d \in Documents : drafts'[d].text.document = d
    BY DraftsRest
  <1>3. /\ Ended(c, stage) \in Call /\ CallOK(Ended(c, stage), drafts') /\ Ended(c, stage).stage # "sent"
    BY <1>1, EndedOK
  <1>4. failures' \in 0..MaxFailures
    BY ReviewAssumption DEF RInv, ReviewTypeOK, Fails
  <1>5. calls' = (calls \ {c}) \cup {Ended(c, stage)}
    BY DEF Ends, Reply
  <1>. QED  BY <1>1, <1>2, <1>3, <1>4, <1>5, Serves

LEMMA WithDraftOK ==
  ASSUME NEW c \in Call, c.kind \in {"load", "save"}, NEW known \in [Documents -> Draft],
         known[c.document].text.document = c.document
  PROVE  /\ WithDraft(c, known[c.document]) \in Call /\ CallOK(WithDraft(c, known[c.document]), known)
         /\ WithDraft(c, known[c.document]).stage = "ok"
  <1>. DEFINE draft == known[c.document]
              answer == WithDraft(c, draft)
  <1>1. c.document \in Documents /\ draft \in Draft
    BY DEF Call
  <1>2. /\ draft.revision \in 0..MaxRevision /\ draft.revision \in Nat /\ draft.status \in Status
        /\ draft.text \in MaybeText /\ draft.text # NoText
    BY <1>1, TextIsText, ReviewAssumption DEF Draft, MaybeText
  <1>. HIDE DEF draft
  <1>3. /\ answer \in Call /\ answer.stage = "ok" /\ answer.kind = c.kind /\ answer.document = c.document
        /\ answer.revision = draft.revision /\ answer.text = draft.text
    BY <1>2 DEF WithDraft, Call
  <1>. HIDE DEF answer
  <1>4. Exact(draft, answer.revision, answer.text)
    BY <1>2, <1>3 DEF Exact
  <1>5. CallOK(answer, known)
    BY <1>2, <1>3, <1>4 DEF CallOK, draft
  <1>. QED  BY <1>3, <1>5 DEF answer, draft

LEMMA SaveServed ==
  ASSUME RInv, NEW c \in calls, ServeSave(c)
  PROVE  RInv'
  <1>. DEFINE d == c.document
              draft == drafts[d]
              written == [draft EXCEPT !.revision = @ + 1, !.text = c.text]
  <1>1. /\ calls \ {c} \in SUBSET calls /\ Cardinality(calls \ {c}) < MaxCalls /\ c \in Call
    BY CallsDrop
  <1>2. /\ c.kind = "save" /\ c.stage = "sent" /\ UNCHANGED dialogs
        /\ c.text \in Text /\ c.text.document = d /\ d \in Documents /\ draft \in Draft
    BY <1>1 DEF ServeSave, RInv, ReviewTypeOK, CallOK, Call, MaybeText
  <1>3. CASE Ends(c, "conflict") /\ UNCHANGED <<drafts, failures>>
    BY <1>2, <1>3, JustEnds
  <1>4. CASE /\ IsCurrent(draft, c.revision) /\ draft.number + draft.revision <= MaxRevision
             /\ drafts' = [drafts EXCEPT ![d] = written]
             /\ \/ Reply(c, WithDraft(c, written)) /\ UNCHANGED failures
                \/ Ends(c, "failed") /\ Fails
    <2>1. written \in Draft /\ GoesOn(draft, written) /\ written.text.document = d
      <3>1. draft.number \in Nat \ {0} /\ draft.revision \in Nat /\ draft.revision + 1 \in 1..MaxRevision
        BY <1>2, <1>4, ReviewAssumption DEF Draft
      <3>2. /\ written \in Draft /\ written.number = draft.number /\ written.revision = draft.revision + 1
            /\ written.text = c.text
        <4>. HIDE DEF draft
        <4>. QED  BY <1>2, <3>1 DEF Draft
      <3>. HIDE DEF written, draft
      <3>. QED  BY <1>2, <3>1, <3>2 DEF GoesOn
    <2>. HIDE DEF written
    <2>2. /\ drafts' \in [Documents -> Draft] /\ drafts'[d] = written
          /\ \A e \in Documents : GoesOn(drafts[e], drafts'[e])
          /\ \A e \in Documents : drafts'[e].text.document = e
      BY <1>2, <1>4, <2>1, OneDraft
    <2>3. failures' \in 0..MaxFailures
      BY <1>4, ReviewAssumption DEF RInv, ReviewTypeOK, Fails
    <2>4. CASE Reply(c, WithDraft(c, written))
      <3>1. /\ WithDraft(c, written) \in Call /\ CallOK(WithDraft(c, written), drafts')
            /\ WithDraft(c, written).stage = "ok"
        BY <1>1, <1>2, <2>2, WithDraftOK
      <3>2. calls' = (calls \ {c}) \cup {WithDraft(c, written)}
        BY <2>4 DEF Reply
      <3>. QED  BY <1>1, <1>2, <2>2, <2>3, <3>1, <3>2, Serves
    <2>5. CASE Ends(c, "failed")
      <3>1. /\ Ended(c, "failed") \in Call /\ CallOK(Ended(c, "failed"), drafts') /\ Ended(c, "failed").stage # "sent"
        BY <1>1, EndedOK
      <3>2. calls' = (calls \ {c}) \cup {Ended(c, "failed")}
        BY <2>5 DEF Ends, Reply
      <3>. QED  BY <1>1, <1>2, <2>2, <2>3, <3>1, <3>2, Serves
    <2>. QED  BY <1>4, <2>4, <2>5
  <1>. QED  BY <1>3, <1>4 DEF ServeSave

LEMMA PublishServed ==
  ASSUME RInv, NEW c \in calls, ServePublish(c)
  PROVE  RInv'
  <1>. DEFINE draft == drafts[c.document]
              built == [c EXCEPT !.stage = "building", !.text = draft.text]
  <1>1. /\ calls \ {c} \in SUBSET calls /\ Cardinality(calls \ {c}) < MaxCalls /\ c \in Call
    BY CallsDrop
  <1>2. /\ c.kind = "publish" /\ c.stage = "sent" /\ UNCHANGED <<drafts, dialogs, failures>>
        /\ c.document \in Documents /\ draft \in Draft
    BY <1>1 DEF ServePublish, RInv, ReviewTypeOK, Call
  <1>3. CASE Ends(c, "conflict")
    BY <1>2, <1>3, JustEnds
  <1>4. CASE IsCurrent(draft, c.revision) /\ Reply(c, built)
    <2>1. Exact(draft, c.revision, c.shown)
      BY <1>2 DEF RInv, CallOK
    <2>2. draft.text \in MaybeText /\ draft.revision = c.revision /\ draft.revision \in Nat
      BY <1>2, <1>4, ReviewAssumption DEF Draft, MaybeText, IsCurrent
    <2>3. Exact(draft, c.revision, draft.text)
      BY <2>2 DEF Exact
    <2>. HIDE DEF draft
    <2>4. /\ built \in Call /\ built.stage = "building" /\ built.kind = "publish" /\ built.text = draft.text
          /\ built.document = c.document /\ built.revision = c.revision /\ built.shown = c.shown
      BY <1>1, <1>2, <2>2 DEF Call
    <2>5. calls' = (calls \ {c}) \cup {built}
      BY <1>4 DEF Reply
    <2>. HIDE DEF built
    <2>6. CallOK(built, drafts)
      BY <2>1, <2>3, <2>4 DEF CallOK, draft
    <2>7. /\ drafts' \in [Documents -> Draft] /\ \A d \in Documents : GoesOn(drafts[d], drafts'[d])
          /\ \A d \in Documents : drafts'[d].text.document = d
      BY <1>2, DraftsRest
    <2>8. failures' \in 0..MaxFailures /\ CallOK(built, drafts')
      BY <1>2, <2>6 DEF RInv, ReviewTypeOK
    <2>. QED  BY <1>1, <1>2, <2>4, <2>5, <2>7, <2>8, Serves
  <1>. QED  BY <1>3, <1>4 DEF ServePublish

\* The draft changes its status or its failure, and the call ends.
LEMMA PublishDone ==
  ASSUME RInv, NEW c \in calls, Published(c) \/ PublicationFails(c)
  PROVE  RInv'
  <1>. DEFINE d == c.document
              draft == drafts[d]
  <1>1. /\ calls \ {c} \in SUBSET calls /\ Cardinality(calls \ {c}) < MaxCalls /\ c \in Call
    BY CallsDrop
  <1>2. /\ c.stage = "building" /\ c.kind = "publish" /\ UNCHANGED dialogs
        /\ d \in Documents /\ draft \in Draft /\ draft.text.document = d
    BY <1>1 DEF Published, PublicationFails, RInv, ReviewTypeOK, Call, CallOK
  <1>3. \E new \in Draft : /\ drafts' = [drafts EXCEPT ![d] = new]
                           /\ new.number = draft.number /\ new.revision = draft.revision /\ new.text = draft.text
    <2>1. CASE Published(c)
      <3>. DEFINE new == [draft EXCEPT !.status = "published"]
      <3>1. /\ new \in Draft /\ new.number = draft.number /\ new.revision = draft.revision /\ new.text = draft.text
        BY <1>2 DEF Draft, Status
      <3>2. drafts' = [drafts EXCEPT ![d] = new]
        BY <2>1 DEF Published
      <3>. QED  BY <3>1, <3>2
    <2>2. CASE PublicationFails(c)
      <3>. DEFINE failed == (draft.status = "open")
                  new == [draft EXCEPT !.failed = failed]
      <3>1. failed \in BOOLEAN
        OBVIOUS
      <3>2. drafts' = [drafts EXCEPT ![d] = new]
        BY <2>2 DEF PublicationFails
      <3>. HIDE DEF failed
      <3>3. /\ new \in Draft /\ new.number = draft.number /\ new.revision = draft.revision /\ new.text = draft.text
        BY <1>2, <3>1 DEF Draft
      <3>. QED  BY <3>2, <3>3
    <2>. QED  BY <2>1, <2>2
  <1>4. PICK new \in Draft : /\ drafts' = [drafts EXCEPT ![d] = new]
                             /\ new.number = draft.number /\ new.revision = draft.revision /\ new.text = draft.text
    BY <1>3
  <1>5. GoesOn(draft, new) /\ new.text.document = d
    <2>1. draft.revision \in Nat
      BY <1>2, ReviewAssumption DEF Draft
    <2>. HIDE DEF draft
    <2>2. GoesOn(draft, new)
      BY <1>4, <2>1 DEF GoesOn
    <2>. QED  BY <1>2, <1>4, <2>2
  <1>6. /\ drafts' \in [Documents -> Draft] /\ \A e \in Documents : GoesOn(drafts[e], drafts'[e])
        /\ \A e \in Documents : drafts'[e].text.document = e
    BY <1>2, <1>4, <1>5, OneDraft
  <1>7. PICK stage \in {"ok", "failed"} : Ends(c, stage)
    BY DEF Published, PublicationFails
  <1>8. /\ Ended(c, stage) \in Call /\ CallOK(Ended(c, stage), drafts') /\ Ended(c, stage).stage # "sent"
    BY <1>1, <1>2, EndedOK
  <1>9. calls' = (calls \ {c}) \cup {Ended(c, stage)} /\ failures' \in 0..MaxFailures
    <2>1. UNCHANGED failures \/ Fails
      BY DEF Published, PublicationFails
    <2>. QED  BY <1>7, <2>1, ReviewAssumption DEF Ends, Reply, RInv, ReviewTypeOK, Fails
  <1>. QED  BY <1>1, <1>2, <1>6, <1>8, <1>9, Serves

LEMMA LoadServed ==
  ASSUME RInv, NEW c \in calls, ServeLoad(c)
  PROVE  RInv'
  <1>. DEFINE answer == WithDraft(c, drafts[c.document])
  <1>1. /\ calls \ {c} \in SUBSET calls /\ Cardinality(calls \ {c}) < MaxCalls /\ c \in Call
    BY CallsDrop
  <1>2. /\ c.kind = "load" /\ calls' = (calls \ {c}) \cup {answer} /\ UNCHANGED <<drafts, dialogs, failures>>
        /\ c.document \in Documents
    BY <1>1 DEF ServeLoad, Reply, Call
  <1>3. /\ drafts' \in [Documents -> Draft] /\ \A d \in Documents : GoesOn(drafts[d], drafts'[d])
        /\ \A d \in Documents : drafts'[d].text.document = d
    BY <1>2, DraftsRest
  <1>4. drafts \in [Documents -> Draft] /\ drafts[c.document].text.document = c.document
    BY <1>2 DEF RInv, ReviewTypeOK
  <1>5. answer \in Call /\ CallOK(answer, drafts) /\ answer.stage = "ok"
    BY <1>1, <1>2, <1>4, WithDraftOK
  <1>6. CallOK(answer, drafts') /\ failures' \in 0..MaxFailures
    BY <1>2, <1>5 DEF RInv, ReviewTypeOK
  <1>. HIDE DEF answer
  <1>. QED  BY <1>1, <1>2, <1>3, <1>5, <1>6, Serves

LEMMA Reextracted ==
  ASSUME RInv, NEW d \in Documents, Reextract(d)
  PROVE  RInv'
  <1>. DEFINE new == Extraction(d, drafts[d].number + 1)
  <1>1. /\ drafts' = [drafts EXCEPT ![d] = new] /\ drafts[d].number < MaxDrafts
        /\ UNCHANGED <<dialogs, calls, failures>>
    BY DEF Reextract
  <1>2. drafts[d] \in Draft /\ drafts[d].number + 1 \in 1..MaxDrafts /\ drafts[d].number + 1 # 1
    BY <1>1, ReviewAssumption DEF RInv, ReviewTypeOK, Draft
  <1>3. new \in Draft /\ new.number = drafts[d].number + 1 /\ new.text.document = d
    BY <1>2, ReviewAssumption DEF Extraction, Draft, Text, Status
  <1>. HIDE DEF new
  <1>4. GoesOn(drafts[d], new)
    BY <1>2, <1>3 DEF GoesOn
  <1>5. /\ drafts' \in [Documents -> Draft] /\ \A e \in Documents : GoesOn(drafts[e], drafts'[e])
        /\ \A e \in Documents : drafts'[e].text.document = e
    BY <1>1, <1>3, <1>4, OneDraft
  <1>6. /\ \A r \in Reviewers : DialogOK(dialogs[r], drafts')
        /\ \A c \in calls : CallOK(c, drafts')
    BY <1>5, DraftsGoOn DEF RInv, ReviewTypeOK
  <1>. QED  BY <1>1, <1>5, <1>6 DEF RInv, ReviewTypeOK

-----------------------------------------------------------------------------
\* An answer is taken: the call is over, and the dialog of its reviewer changes.
LEMMA Takes ==
  ASSUME RInv, NEW c \in calls, NEW dialog \in Dialog, DialogOK(dialog, drafts), Update(c.by, dialog),
         calls' = calls \ {c}, UNCHANGED <<drafts, failures>>
  PROVE  RInv'
  <1>1. /\ calls \ {c} \in SUBSET calls /\ IsFiniteSet(calls \ {c}) /\ Cardinality(calls \ {c}) < MaxCalls /\ c \in Call
    BY CallsDrop
  <1>2. c.by \in Reviewers /\ Cardinality(calls \ {c}) \in Nat
    BY <1>1, FS_CardinalityType DEF Call
  <1>3. dialogs' \in [Reviewers -> Dialog] /\ \A q \in Reviewers : DialogOK(dialogs'[q], drafts')
    BY <1>2, DialogsKeep
  <1>4. Cardinality(calls') <= MaxCalls
    BY <1>1, <1>2, ReviewAssumption
  <1>. QED  BY <1>1, <1>3, <1>4 DEF RInv, ReviewTypeOK

LEMMA WithAnswerOK ==
  ASSUME RInv, NEW c \in calls, c.kind \in {"load", "save"}, c.stage = "ok", NEW dialog \in Dialog
  PROVE  WithAnswer(dialog, c) \in Dialog /\ DialogOK(WithAnswer(dialog, c), drafts)
  <1>. DEFINE new == WithAnswer(dialog, c)
  <1>1. /\ c \in Call /\ c.text # NoText /\ c.text.document = c.document
        /\ Exact(drafts[c.document], c.revision, c.text)
    BY DEF RInv, ReviewTypeOK, CallOK
  <1>2. /\ new \in Dialog /\ new.text = c.text /\ new.revision = c.revision /\ new.dirty = FALSE
    BY <1>1 DEF WithAnswer, Dialog, Call
  <1>. HIDE DEF new
  <1>3. Covers(drafts[c.document], c.revision, c.text)
    BY <1>1 DEF Exact, Covers
  <1>4. DialogOK(new, drafts)
    BY <1>1, <1>2, <1>3 DEF DialogOK
  <1>. QED  BY <1>2, <1>4 DEF new

LEMMA AnswerTaken ==
  ASSUME RInv, NEW c \in calls, Loaded(c) \/ Saved(c) \/ PublishEnds(c)
  PROVE  RInv'
  <1>. DEFINE old == dialogs[c.by]
  <1>1. c \in Call /\ c.by \in Reviewers /\ old \in Dialog /\ DialogOK(old, drafts)
    BY CallsDrop DEF RInv, ReviewTypeOK, Call
  <1>2. calls' = calls \ {c} /\ UNCHANGED <<drafts, failures>>
    BY DEF Loaded, Saved, PublishEnds
  <1>3. ASSUME NEW dialog \in Dialog, dialog.text = old.text, dialog.revision = old.revision, dialog.dirty = old.dirty
        PROVE  DialogOK(dialog, drafts)
    BY <1>1, <1>3, FlagsOK
  <1>4. CASE Loaded(c)
    <2>. DEFINE rest == AtRest(old, c.during)
                dialog == [rest EXCEPT !.loading = FALSE]
    <2>1. rest \in Dialog /\ rest.text = old.text /\ rest.revision = old.revision /\ rest.dirty = old.dirty
      <3>1. (old.saving /\ c.during # "saving") \in BOOLEAN /\ (old.publishing /\ c.during # "publishing") \in BOOLEAN
        OBVIOUS
      <3>. DEFINE saving == old.saving /\ c.during # "saving"
                  publishing == old.publishing /\ c.during # "publishing"
      <3>2. rest = [old EXCEPT !.saving = saving, !.publishing = publishing]
        BY <1>1 DEF AtRest, Dialog
      <3>. HIDE DEF saving, publishing, rest, old
      <3>3. saving \in BOOLEAN /\ publishing \in BOOLEAN
        BY <3>1 DEF saving, publishing
      <3>. QED  BY <1>1, <3>2, <3>3 DEF Dialog
    <2>. HIDE DEF rest
    <2>2. /\ dialog \in Dialog /\ dialog.text = old.text /\ dialog.revision = old.revision /\ dialog.dirty = old.dirty
      BY <2>1 DEF Dialog
    <2>3. /\ c.kind = "load" /\ c.stage \in {"ok", "failed"}
          /\ Update(c.by, IF c.stage = "ok" THEN WithAnswer(dialog, c) ELSE dialog)
      BY <1>4 DEF Loaded, rest
    <2>. HIDE DEF dialog, old
    <2>4. CASE c.stage = "ok"
      BY <1>2, <2>2, <2>3, <2>4, WithAnswerOK, Takes
    <2>5. CASE c.stage # "ok"
      BY <1>2, <1>3, <2>2, <2>3, <2>5, Takes
    <2>. QED  BY <2>4, <2>5
  <1>5. CASE Saved(c)
    <2>. DEFINE dialog == [old EXCEPT !.saving = FALSE]
    <2>1. /\ dialog \in Dialog /\ dialog.text = old.text /\ dialog.revision = old.revision /\ dialog.dirty = old.dirty
      BY <1>1 DEF Dialog
    <2>2. /\ c.kind = "save" /\ c.stage \in {"ok", "failed"}
          /\ Update(c.by, IF c.stage = "ok" THEN WithAnswer(dialog, c) ELSE dialog)
      BY <1>5 DEF Saved
    <2>. HIDE DEF dialog, old
    <2>3. CASE c.stage = "ok"
      BY <1>2, <2>1, <2>2, <2>3, WithAnswerOK, Takes
    <2>4. CASE c.stage # "ok"
      BY <1>2, <1>3, <2>1, <2>2, <2>4, Takes
    <2>. QED  BY <2>3, <2>4
  <1>6. CASE PublishEnds(c)
    <2>. DEFINE new == IF c.stage = "ok" THEN Cleared(c.by, "none") ELSE old
                dialog == [new EXCEPT !.publishing = FALSE]
    <2>1. new \in Dialog /\ DialogOK(new, drafts)
      BY <1>1, ClearedOK
    <2>2. Update(c.by, dialog)
      BY <1>6 DEF PublishEnds
    <2>. HIDE DEF new
    <2>3. /\ dialog \in Dialog /\ dialog.text = new.text /\ dialog.revision = new.revision /\ dialog.dirty = new.dirty
      BY <2>1 DEF Dialog
    <2>. HIDE DEF dialog
    <2>4. DialogOK(dialog, drafts)
      BY <2>1, <2>3, FlagsOK
    <2>. QED  BY <1>2, <2>2, <2>3, <2>4, Takes
  <1>. QED  BY <1>4, <1>5, <1>6

LEMMA RefusalTaken ==
  ASSUME RInv, NEW c \in calls, Refused(c)
  PROVE  RInv'
  <1>. DEFINE dialog == [dialogs[c.by] EXCEPT !.loading = TRUE]
              during == IF c.kind = "save" THEN "saving" ELSE "publishing"
              load == [NewCall(c.by, "load", c.document, calls \ {c}) EXCEPT !.during = during]
  <1>1. /\ calls \ {c} \in SUBSET calls /\ IsFiniteSet(calls \ {c}) /\ Cardinality(calls \ {c}) < MaxCalls
        /\ c \in Call /\ c.by \in Reviewers /\ c.document \in Documents
    BY CallsDrop DEF Call
  <1>2. Update(c.by, dialog) /\ calls' = (calls \ {c}) \cup {load} /\ UNCHANGED <<drafts, failures>>
    BY DEF Refused
  <1>3. dialogs[c.by] \in Dialog /\ DialogOK(dialogs[c.by], drafts)
    BY <1>1 DEF RInv, ReviewTypeOK
  <1>4. /\ dialog \in Dialog /\ dialog.text = dialogs[c.by].text
        /\ dialog.revision = dialogs[c.by].revision /\ dialog.dirty = dialogs[c.by].dirty
    BY <1>3 DEF Dialog
  <1>5. during \in {"none", "saving", "publishing"}
    OBVIOUS
  <1>. HIDE DEF dialog, during
  <1>6. DialogOK(dialog, drafts)
    BY <1>3, <1>4, FlagsOK
  <1>7. load \in Call /\ load.kind = "load" /\ load.stage = "sent"
    <2>. DEFINE new == NewCall(c.by, "load", c.document, calls \ {c})
    <2>1. new \in Call /\ new.kind = "load" /\ new.stage = "sent"
      BY <1>1, NewLoad
    <2>. HIDE DEF new
    <2>2. /\ [new EXCEPT !.during = during] \in Call
          /\ [new EXCEPT !.during = during].kind = new.kind /\ [new EXCEPT !.during = during].stage = new.stage
      BY <1>5, <2>1, LoadDuring
    <2>. QED  BY <2>1, <2>2 DEF new
  <1>8. CallOK(load, drafts)
    BY <1>7 DEF CallOK
  <1>. HIDE DEF load
  <1>. QED  BY <1>1, <1>2, <1>4, <1>6, <1>7, <1>8, Sends

-----------------------------------------------------------------------------
LEMMA ReviewStarts == ReviewInit => RInv
  <1>. SUFFICES ASSUME ReviewInit PROVE RInv
    OBVIOUS
  <1>1. \A d \in Documents : Extraction(d, 1) \in Draft /\ Extraction(d, 1).text.document = d
    BY ReviewAssumption DEF Extraction, Draft, Text, Status
  <1>2. Closed \in Dialog /\ Closed.text = NoText /\ Closed.dirty = FALSE
    BY ReviewAssumption DEF Closed, Dialog, Status, MaybeText
  <1>3. DialogOK(Closed, drafts)
    BY <1>2 DEF DialogOK
  <1>4. IsFiniteSet(calls) /\ Cardinality(calls) <= MaxCalls
    BY FS_EmptySet, ReviewAssumption DEF ReviewInit
  <1>. QED  BY <1>1, <1>2, <1>3, <1>4, ReviewAssumption DEF ReviewInit, RInv, ReviewTypeOK

LEMMA ReviewStep ==
  ASSUME RInv, AnswersStay, [ReviewNext]_reviewVars
  PROVE  RInv'
  <1>1. ASSUME NEW c \in calls, CallFails(c) PROVE RInv'
    BY <1>1, JustEnds DEF CallFails
  <1>2. CASE UNCHANGED reviewVars
    BY <1>2 DEF reviewVars, RInv, ReviewTypeOK
  <1>. QED  BY <1>1, <1>2, DialogSteps, LoadServed, SaveServed, PublishServed, PublishDone, AnswerTaken,
                RefusalTaken, Reextracted DEF ReviewNext

LEMMA EditsKept ==
  ASSUME RInv, [ReviewNext]_reviewVars, NEW d \in Documents, OneExtraction(d)
  PROVE  drafts[d].text.edits \subseteq drafts'[d].text.edits
  <1>1. drafts \in [Documents -> Draft] /\ drafts[d] \in Draft
    BY DEF RInv, ReviewTypeOK
  <1>2. CASE UNCHANGED drafts
    BY <1>2
  <1>3. ASSUME NEW c \in calls, ServeSave(c), ~UNCHANGED drafts
        PROVE  drafts[d].text.edits \subseteq drafts'[d].text.edits
    <2>. DEFINE written == [drafts[c.document] EXCEPT !.revision = @ + 1, !.text = c.text]
    <2>1. /\ c.kind = "save" /\ c.stage = "sent" /\ IsCurrent(drafts[c.document], c.revision)
          /\ drafts' = [drafts EXCEPT ![c.document] = written]
          /\ c \in Call /\ CallOK(c, drafts)
      BY <1>3 DEF ServeSave, RInv, ReviewTypeOK
    <2>2. CASE d = c.document
      <3>1. drafts'[d] = written /\ written.number = drafts[d].number /\ written.text = c.text
        BY <1>1, <2>1, <2>2 DEF Draft
      <3>2. drafts[d].number = 1 /\ drafts[d].revision = c.revision
        BY <2>1, <2>2, <3>1 DEF OneExtraction, IsCurrent
      <3>. QED  BY <2>1, <2>2, <3>1, <3>2 DEF CallOK, Covers
    <2>3. CASE d # c.document
      BY <1>1, <2>1, <2>3
    <2>. QED  BY <2>2, <2>3
  <1>4. ASSUME NEW c \in calls, Published(c) \/ PublicationFails(c)
        PROVE  drafts[d].text.edits \subseteq drafts'[d].text.edits
    <2>1. drafts'[d].text = drafts[d].text
      BY <1>1, <1>4 DEF Published, PublicationFails, Draft
    <2>. QED  BY <2>1
  <1>5. ASSUME NEW e \in Documents, Reextract(e)
        PROVE  drafts[d].text.edits \subseteq drafts'[d].text.edits
    <2>1. CASE e = d
      <3>1. drafts'[d].number = drafts[d].number + 1
        BY <1>1, <1>5, <2>1 DEF Reextract, Extraction
      <3>. QED  BY <1>1, <3>1, ReviewAssumption DEF OneExtraction, Draft
    <2>2. CASE e # d
      BY <1>1, <1>5, <2>2 DEF Reextract
    <2>. QED  BY <2>1, <2>2
  <1>. QED  BY <1>2, <1>3, <1>4, <1>5
            DEF ReviewNext, reviewVars, Open, Close, Reload, Edit, Save, Publish, ServeLoad, ServePublish,
                CallFails, Loaded, Saved, PublishEnds, Refused

LEMMA ShownPublished ==
  ASSUME RInv, [ReviewNext]_reviewVars, NEW d \in Documents, OneExtraction(d),
         drafts[d].status = "open", drafts'[d].status = "published"
  PROVE  \E c \in calls \ calls' : c.document = d /\ c.kind = "publish" /\ c.text = c.shown
  <1>1. drafts \in [Documents -> Draft] /\ drafts[d] \in Draft
    BY DEF RInv, ReviewTypeOK
  <1>2. ~UNCHANGED drafts
    OBVIOUS
  <1>3. ASSUME NEW c \in calls, ServeSave(c) PROVE FALSE
    <2>. DEFINE written == [drafts[c.document] EXCEPT !.revision = @ + 1, !.text = c.text]
    <2>1. IsCurrent(drafts[c.document], c.revision) /\ drafts' = [drafts EXCEPT ![c.document] = written]
      BY <1>2, <1>3 DEF ServeSave
    <2>. QED  BY <1>1, <2>1 DEF IsCurrent, Draft
  <1>4. ASSUME NEW c \in calls, PublicationFails(c) PROVE FALSE
    BY <1>1, <1>4 DEF PublicationFails, Draft
  <1>5. ASSUME NEW e \in Documents, Reextract(e) PROVE FALSE
    BY <1>1, <1>5 DEF Reextract, Extraction
  <1>6. ASSUME NEW c \in calls, Published(c)
        PROVE  \E x \in calls \ calls' : x.document = d /\ x.kind = "publish" /\ x.text = x.shown
    <2>1. /\ c.stage = "building" /\ IsCurrent(drafts[c.document], c.revision) /\ CallOK(c, drafts) /\ c \in Call
          /\ drafts' = [drafts EXCEPT ![c.document].status = "published"]
      BY <1>6 DEF Published, RInv, ReviewTypeOK
    <2>2. c.document = d
      BY <1>1, <2>1
    <2>3. drafts'[d].number = drafts[d].number
      BY <1>1, <2>1, <2>2 DEF Draft
    <2>4. c.kind = "publish" /\ c.text = drafts[d].text /\ c.shown = drafts[d].text
      BY <2>1, <2>2, <2>3 DEF CallOK, Exact, OneExtraction, IsCurrent
    <2>5. c \notin calls'
      <3>1. PICK stage \in {"ok", "failed"} : calls' = (calls \ {c}) \cup {Ended(c, stage)}
        BY <1>6 DEF Published, Ends, Reply
      <3>2. Ended(c, stage).stage = stage
        BY <2>1, EndedOK, <2>4
      <3>. QED  BY <2>1, <3>1, <3>2
    <2>. QED  BY <2>2, <2>4, <2>5
  <1>. QED  BY <1>2, <1>3, <1>4, <1>5, <1>6
            DEF ReviewNext, reviewVars, Open, Close, Reload, Edit, Save, Publish, ServeLoad, ServePublish,
                CallFails, Loaded, Saved, PublishEnds, Refused

\* For any number of reviewers, documents, extractions, revisions and calls under
\* way, and as long as no answer comes after another document was opened: what
\* was saved stays in a draft that was extracted once (replaceDraftBlocks).
THEOREM SavedTheorem == ReviewSpec /\ []AnswersStay => SavedEditsKept
  <1>. DEFINE Kept == \A d \in Documents : OneExtraction(d) => drafts[d].text.edits \subseteq drafts'[d].text.edits
  <1>1. RInv /\ AnswersStay /\ [ReviewNext]_reviewVars => RInv'
    BY ReviewStep
  <1>2. RInv /\ [ReviewNext]_reviewVars => [Kept]_reviewVars
    BY EditsKept
  <1>. QED  BY <1>1, <1>2, ReviewStarts, PTL DEF ReviewSpec, SavedEditsKept

\* Under the same hypothesis: what is published is what the reviewer who published
\* it had on the screen at the click (publishReviewDraft).
THEOREM PublishedTheorem == ReviewSpec /\ []AnswersStay => PublishedAsShown
  <1>. DEFINE AsShown == \A d \in Documents :
                OneExtraction(d) /\ drafts[d].status = "open" /\ drafts'[d].status = "published" =>
                   \E c \in calls \ calls' : c.document = d /\ c.kind = "publish" /\ c.text = c.shown
  <1>1. RInv /\ AnswersStay /\ [ReviewNext]_reviewVars => RInv'
    BY ReviewStep
  <1>2. RInv /\ [ReviewNext]_reviewVars => [AsShown]_reviewVars
    BY ShownPublished
  <1>. QED  BY <1>1, <1>2, ReviewStarts, PTL DEF ReviewSpec, PublishedAsShown

\* With one document no answer can be another's, so that both hold as they stand.
THEOREM OneDocumentTheorem ==
  ASSUME \E d : Documents = {d}
  PROVE  ReviewSpec => []AnswersStay /\ SavedEditsKept /\ PublishedAsShown
  <1>1. RInv => AnswersStay
    <2>. SUFFICES ASSUME RInv, NEW r \in Reviewers, dialogs[r].document # "none", dialogs[r].text # NoText
                  PROVE  dialogs[r].text.document = dialogs[r].document
      BY DEF AnswersStay
    <2>1. dialogs[r].document \in Documents \cup {"none"} /\ dialogs[r].text \in Text
      BY DEF RInv, ReviewTypeOK, Dialog, MaybeText
    <2>2. dialogs[r].text.document \in Documents
      BY <2>1, TextIsText
    <2>. QED  BY <2>1, <2>2
  <1>2. RInv /\ AnswersStay /\ [ReviewNext]_reviewVars => RInv'
    BY ReviewStep
  <1>. QED  BY <1>1, <1>2, ReviewStarts, SavedTheorem, PublishedTheorem, PTL DEF ReviewSpec

-----------------------------------------------------------------------------
(* The console: its parts take turns, and no part disturbs another.        *)

\* What a part does is a step of its own specification, and nothing to the rest.
LEMMA ConsoleParts == ConsoleSpec => ReviewSpec /\ OnboardingSpec /\ SessionSpec /\ Spec
<1>1. ConsoleInit => ReviewInit /\ OnboardingInit /\ SessionInit /\ Init
  BY DEF ConsoleInit
<1>2. [ConsoleNext]_consoleVars =>
        /\ [ReviewNext]_reviewVars /\ [OnboardingNext]_onboardingVars
        /\ [SessionNext]_sessionVars /\ [Next]_vars
  BY DEF ConsoleNext, consoleVars, Reviews, Starts, LogsIn, Lists, Looks, Repeats
<1> QED
  BY <1>1, <1>2, PTL DEF ConsoleSpec, ReviewSpec, OnboardingSpec, SessionSpec, Spec

\* The lists and the details share a module and not a step.
LEMMA ConsolePages == ConsoleSpec => [](LInv /\ DInv)
<1>1. ConsoleInit => LInv /\ DInv
  BY ListStarts, DetailsStart DEF ConsoleInit
<1>2. LInv /\ DInv /\ [ConsoleNext]_consoleVars => LInv' /\ DInv'
  <2> SUFFICES ASSUME LInv, DInv, [ConsoleNext]_consoleVars
               PROVE  LInv' /\ DInv'
    OBVIOUS
  <2>1. \/ [ListNext]_pageVars /\ UNCHANGED detailVars
        \/ [DetailsNext]_pageVars /\ UNCHANGED listVars
    <3>1. ListNext => UNCHANGED detailVars
      BY DEF ListNext, Type, Search, Reset, Refresh, Write, ServeWrite, Written, TurnPage,
             ServeFetch, Fetched
    <3>2. DetailsNext => UNCHANGED listVars
      BY DEF DetailsNext, OpenDetails, TurnRows, CloseDetails, Deleted, ServeLookup, LookedUp
    <3>3. ListNext \/ DetailsNext \/ UNCHANGED pageVars
      BY DEF ConsoleNext, consoleVars, Reviews, Starts, LogsIn, Lists, Looks, Repeats
    <3>4. UNCHANGED pageVars => UNCHANGED detailVars /\ UNCHANGED listVars
      BY DEF pageVars, listVars, detailVars
    <3> QED
      BY <3>1, <3>2, <3>3, <3>4
  <2>2. CASE [ListNext]_pageVars /\ UNCHANGED detailVars
    <3>1. LInv'
      BY <2>2, ListStep
    <3>2. DInv'
      BY <2>2 DEF detailVars, DInv, DetailsInv, About
    <3> QED
      BY <3>1, <3>2
  <2>3. CASE [DetailsNext]_pageVars /\ UNCHANGED listVars
    <3>1. DInv'
      BY <2>3, DetailsStep
    <3>2. LInv'
      BY <2>3 DEF listVars, LInv, ListTyped, Browses, Follows
    <3> QED
      BY <3>1, <3>2
  <2> QED
    BY <2>1, <2>2, <2>3
<1> QED
  BY <1>1, <1>2, PTL DEF ConsoleSpec

\* The console keeps what its parts keep: a completed start rests on an answer
\* from the installed pack, a pack being installed has an installation at work, a
\* list and the details show what they say they show, a write is carried out
\* once per retention, no late answer ends a login that is accepted, and while
\* answers stay with their document no saved correction of a draft is lost.
THEOREM ConsoleTheorem ==
  ConsoleSpec => /\ []CompletedIsProven /\ []InstallIsWorked
                 /\ []ListIsCurrent /\ []RowsAreOfSelected
                 /\ []OncePerRetention /\ LoginKept
                 /\ []AnswersStay => SavedEditsKept /\ PublishedAsShown
<1>1. LInv => ListIsCurrent
  BY DEF LInv, ListIsCurrent, Browses, Follows
<1>2. DInv => RowsAreOfSelected
  BY DEF DInv, DetailsInv, RowsAreOfSelected, About
<1> QED
  BY <1>1, <1>2, ConsoleParts, ConsolePages, ProvenTheorem, InstallTheorem, LoginKeptTheorem,
     OnceTheorem, SavedTheorem, PublishedTheorem, PTL
=============================================================================
