------------------------- MODULE DeployLifecycleProofs -------------------------
(***************************************************************************)
(* Proofs about DeployLifecycle for every set of Deploy calls, every fault *)
(* and any number of crashes and of operations on the last record.         *)
(***************************************************************************)
EXTENDS DeployLifecycle, TLAPS

--------------------------------------------------------------------------------
(* The strengthening: what a copy of a record, read earlier, still says of it. *)

\* The copy of record d is not newer than the record, and while no one wrote
\* the record since, the copy is the record.
Copy(d, aVersion, aStatus) ==
    /\ d \in Calls /\ status[d] # "none" /\ aStatus # "none"
    /\ aVersion <= version[d]
    /\ aVersion = version[d] => aStatus = status[d]
    /\ aStatus \in Terminal => status[d] = aStatus

\* No two calls took the same time, none a time the clock has not shown, and a
\* record has the time of a call that took one.
Timed ==
    /\ \A d \in Calls : stamp[d] <= now
    /\ \A c, d \in Calls : c # d /\ stamp[c] # 0 => stamp[c] # stamp[d]
    /\ \A d \in Calls : hpc[d] \in {"put", "done"} => stamp[d] # 0
    /\ \A d \in Calls : status[d] = "none" => version[d] = 0

\* A call is recorded when its handler is done, and before its goroutine runs.
Recorded ==
    \A d \in Calls :
        /\ status[d] # "none" => hpc[d] = "done"
        /\ mpc[d] # "none" => status[d] # "none"

\* The record a handler saw is settled before its own is written.
HandlerInv(h) ==
    /\ seen[h] = None => seenStatus[h] = "none"
    /\ seen[h] # None => Copy(seen[h], seenVersion[h], seenStatus[h])
    /\ hpc[h] \in {"record", "put", "done"} /\ seen[h] # None => status[seen[h]] \in Terminal

Handlers == \A h \in Calls : HandlerInv(h)

MonitorInv(d) ==
    /\ mpc[d] \in {"wait", "set"} => Copy(d, mver[d], "running")
    /\ mpc[d] \in {"rollback", "switch"} => status[d] = "failed"
    /\ mpc[d] = "switch" => target[d] \in Calls /\ status[target[d]] = "success"

Monitors == \A d \in Calls : MonitorInv(d)

Toucher == tpc = "put" => Copy(touched, touchedVersion, touchedStatus)

CopyInv == TypeOK /\ Timed /\ Recorded /\ Handlers /\ Monitors /\ Toucher

--------------------------------------------------------------------------------
(* Typing *)

LEMMA TypedInit == Init => TypeOK
<1> SUFFICES ASSUME Init PROVE TypeOK
  OBVIOUS
<1> USE EarlierAssumption DEF Init
<1>1. /\ service \in Calls \union {None} /\ registered \in BOOLEAN
      /\ now \in Nat /\ stamp \in [Calls -> Nat]
  OBVIOUS
<1>2. status \in [Calls -> Status] /\ version \in [Calls -> Nat]
  BY DEF Status, Terminal
<1>3. /\ hpc \in [Calls -> HandlerPcs] /\ seen \in [Calls -> Calls \union {None}]
      /\ seenVersion \in [Calls -> Nat] /\ seenStatus \in [Calls -> Status]
  BY DEF HandlerPcs, Status
<1>4. /\ mpc \in [Calls -> MonitorPcs] /\ mver \in [Calls -> Nat]
      /\ verdict \in [Calls -> {"none", "success", "timedOut", "rollback"}]
      /\ target \in [Calls -> Calls \union {None}] /\ resumed \in [Calls -> BOOLEAN]
  BY DEF MonitorPcs
<1>5. /\ tpc \in {"idle", "put"} /\ touched \in Calls \union {None}
      /\ touchedVersion \in Nat /\ touchedStatus \in Status /\ touches \in Nat
      /\ up \in BOOLEAN /\ crashes \in Nat
  BY DEF Status
<1> QED
  BY <1>1, <1>2, <1>3, <1>4, <1>5 DEF TypeOK

\* The last and the second to last record are records.
LEMMA LatestAreRecords ==
    /\ \A d \in LastDeploy : d \in Calls /\ status[d] # "none"
    /\ \A d \in SecondToLast : d \in Calls /\ status[d] # "none"
  BY DEF LastDeploy, SecondToLast, Newest, Records

\* A handler past its first read changes its position, the table and the
\* service; a goroutine its own variables, the table and the service.
LEMMA HandlerFrame ==
  ASSUME NEW h \in Calls, Deploy(h)
  PROVE  /\ UNCHANGED <<seen, seenVersion, seenStatus, verdict, target, resumed,
                        toucher, server>>
         /\ ~Record(h) => UNCHANGED <<mpc, mver>>
         /\ ~TakeTime(h) => UNCHANGED <<now, stamp>>
  BY DEF Deploy, Reject, CheckService, CreateService, CreateServiceFails, RegisterService,
       RegisterServiceFails,
         UpdateDeployment, NothingToAbort, AbortSeen, AbortFails, TakeTime, Record,
         RecordFails, handlerGoes, monitors, table

LEMMA MonitorFrame ==
  ASSUME NEW d \in Calls, Monitor(d)
  PROVE  UNCHANGED <<resumed, handlers, toucher, server>>
  BY DEF Monitor, GiveUp, Observe, SetStatus, SetStatusFails, NoSecondToLast,
         ChooseTarget, NoStableVersion, RollBack, monitorGoes, table

LEMMA TypedStep == TypeOK /\ [Next]_vars => TypeOK'
<1> SUFFICES ASSUME TypeOK, [Next]_vars PROVE TypeOK'
  OBVIOUS
<1> USE DEF TypeOK
<1>1. ASSUME NEW h \in Calls, ReadLast(h) PROVE TypeOK'
  <2>1. hpc' \in [Calls -> HandlerPcs]
    BY <1>1 DEF ReadLast, HandlerPcs
  <2>2. /\ seen' \in [Calls -> Calls \union {None}]
        /\ seenVersion' \in [Calls -> Nat] /\ seenStatus' \in [Calls -> Status]
    <3>1. CASE UNCHANGED <<seen, seenVersion, seenStatus>>
      BY <3>1
    <3>2. ASSUME NEW last \in LastDeploy,
                 seen' = [seen EXCEPT ![h] = last],
                 seenVersion' = [seenVersion EXCEPT ![h] = version[last]],
                 seenStatus' = [seenStatus EXCEPT ![h] = status[last]]
          PROVE  /\ seen' \in [Calls -> Calls \union {None}]
                 /\ seenVersion' \in [Calls -> Nat] /\ seenStatus' \in [Calls -> Status]
      <4>1. last \in Calls
        BY LatestAreRecords
      <4> QED
        BY <3>2, <4>1
    <3> QED
      BY <1>1, <3>1, <3>2 DEF ReadLast
  <2> QED
    BY <1>1, <2>1, <2>2 DEF ReadLast, table, monitors, toucher, server
<1>2. ASSUME NEW h \in Calls, Deploy(h) PROVE TypeOK'
  <2> USE DEF handlerGoes
  <2>1. hpc' \in [Calls -> HandlerPcs]
    BY <1>2 DEF Deploy, Reject, CheckService, CreateService, CreateServiceFails, RegisterService,
       RegisterServiceFails,
       UpdateDeployment, NothingToAbort, AbortSeen, AbortFails, TakeTime, Record, RecordFails,
       HandlerPcs
  <2>2. service' \in Calls \union {None}
    BY <1>2 DEF Deploy, Reject, CheckService, CreateService, CreateServiceFails, RegisterService,
       RegisterServiceFails,
       UpdateDeployment, NothingToAbort, AbortSeen, AbortFails, TakeTime, Record, RecordFails
  <2>0. registered' \in BOOLEAN
    BY <1>2 DEF Deploy, Reject, CheckService, CreateService, CreateServiceFails,
       RegisterService, RegisterServiceFails, UpdateDeployment, NothingToAbort,
       AbortSeen, AbortFails, TakeTime, Record, RecordFails
  <2>9. now' \in Nat /\ stamp' \in [Calls -> Nat]
    <3>1. CASE TakeTime(h)
      <4>1. now \in Nat /\ stamp \in [Calls -> Nat]
        OBVIOUS
      <4>2. now' = now + 1 /\ stamp' = [stamp EXCEPT ![h] = now + 1]
        BY <3>1 DEF TakeTime
      <4> HIDE DEF TypeOK
      <4> QED
        BY <4>1, <4>2
    <3>2. CASE ~TakeTime(h)
      BY <1>2, <3>2, HandlerFrame
    <3> QED
      BY <3>1, <3>2
  <2>3. CASE Record(h)
    <3>2. status' \in [Calls -> Status] /\ version' \in [Calls -> Nat]
      BY <2>3 DEF Record, Status
    <3>3. mpc' \in [Calls -> MonitorPcs] /\ mver' \in [Calls -> Nat]
      BY <2>3 DEF Record, MonitorPcs
    <3> QED
      BY <1>2, <2>0, <2>1, <2>2, <2>9, <3>2, <3>3, HandlerFrame DEF toucher, server
  <2>4. CASE AbortSeen(h)
    <3>1. status' = [status EXCEPT ![seen[h]] = "aborted"] /\ "aborted" \in Status
      BY <2>4 DEF AbortSeen, Status, Terminal
    <3>2. /\ seenVersion[h] + 1 \in Nat
          /\ version' = [version EXCEPT ![seen[h]] = seenVersion[h] + 1]
      BY <2>4 DEF AbortSeen
    <3>3. status' \in [Calls -> Status] /\ version' \in [Calls -> Nat]
      BY <3>1, <3>2
    <3> QED
      BY <2>0, <2>1, <2>2, <2>4, <2>9, <3>3 DEF AbortSeen, monitors, toucher, server
  <2>5. CASE ~Record(h) /\ ~AbortSeen(h)
    <3>1. UNCHANGED table
      BY <1>2, <2>5 DEF Deploy, Reject, CheckService, CreateService, CreateServiceFails, RegisterService,
       RegisterServiceFails,
         UpdateDeployment, NothingToAbort, AbortFails, TakeTime, RecordFails
    <3> QED
      BY <1>2, <2>0, <2>1, <2>2, <2>5, <2>9, <3>1, HandlerFrame DEF toucher, server, table
  <2> QED
    BY <2>3, <2>4, <2>5
<1>3. ASSUME NEW d \in Calls, Monitor(d) PROVE TypeOK'
  <2> USE DEF monitorGoes
  <2>1. mpc' \in [Calls -> MonitorPcs]
    BY <1>3 DEF Monitor, GiveUp, Observe, SetStatus, SetStatusFails, NoSecondToLast,
       ChooseTarget, NoStableVersion, RollBack, MonitorPcs
  <2>2. service' \in Calls \union {None}
    BY <1>3 DEF Monitor, GiveUp, Observe, SetStatus, SetStatusFails, NoSecondToLast,
       ChooseTarget, NoStableVersion, RollBack
  <2>3. target' \in [Calls -> Calls \union {None}]
    <3>1. CASE ChooseTarget(d)
      BY <3>1, LatestAreRecords DEF ChooseTarget
    <3>2. CASE ~ChooseTarget(d)
      BY <1>3, <3>2 DEF Monitor, GiveUp, Observe, SetStatus, SetStatusFails,
         NoSecondToLast, NoStableVersion, RollBack
    <3> QED
      BY <3>1, <3>2
  <2>4. verdict' \in [Calls -> {"none", "success", "timedOut", "rollback"}]
    BY <1>3 DEF Monitor, GiveUp, Observe, SetStatus, SetStatusFails, NoSecondToLast,
       ChooseTarget, NoStableVersion, RollBack
  <2>5. mver' \in [Calls -> Nat]
    BY <1>3 DEF Monitor, GiveUp, Observe, SetStatus, SetStatusFails, NoSecondToLast,
       ChooseTarget, NoStableVersion, RollBack
  <2>6. status' \in [Calls -> Status] /\ version' \in [Calls -> Nat]
    <3>1. CASE SetStatus(d)
      <4>1. {"success", "failed"} \subseteq Status
        BY DEF Status, Terminal
      <4> QED
        BY <3>1, <4>1 DEF SetStatus
    <3>2. CASE ~SetStatus(d)
      <4>1. UNCHANGED table
        BY <1>3, <3>2 DEF Monitor, GiveUp, Observe, SetStatusFails, NoSecondToLast,
           ChooseTarget, NoStableVersion, RollBack
      <4> QED
        BY <4>1 DEF table
    <3> QED
      BY <3>1, <3>2
  <2> QED
    BY <1>3, <2>1, <2>2, <2>3, <2>4, <2>5, <2>6, MonitorFrame DEF handlers, toucher, server
<1>4. CASE ReadToTouch
  <2>1. touched' \in Calls /\ touchedVersion' \in Nat /\ touchedStatus' \in Status
    BY <1>4, LatestAreRecords DEF ReadToTouch
  <2>2. touches' \in Nat /\ tpc' = "put"
    BY <1>4 DEF ReadToTouch
  <2> QED
    BY <1>4, <2>1, <2>2 DEF ReadToTouch, table, handlers, monitors, server
<1>5. CASE Touch
  <2>1. status' = [status EXCEPT ![touched] = touchedStatus]
        /\ version' = [version EXCEPT ![touched] = touchedVersion + 1]
    BY <1>5 DEF Touch
  <2>2. touchedStatus \in Status /\ touchedVersion + 1 \in Nat
    OBVIOUS
  <2>3. status' \in [Calls -> Status] /\ version' \in [Calls -> Nat]
    BY <2>1, <2>2
  <2> QED
    BY <1>5, <2>3 DEF Touch, handlers, monitors, server
<1>6. CASE TouchFails
  BY <1>6 DEF TouchFails, table, handlers, monitors, server
<1>7. CASE Crash
  <2>1. hpc' \in [Calls -> HandlerPcs] /\ mpc' \in [Calls -> MonitorPcs]
    BY <1>7 DEF Crash, HandlerPcs, MonitorPcs
  <2>2. up' = FALSE /\ crashes' = crashes + 1 /\ tpc' = "idle"
    BY <1>7 DEF Crash
  <2>3. crashes' \in Nat
    <3>1. crashes \in Nat
      OBVIOUS
    <3> HIDE DEF TypeOK
    <3> QED
      BY <2>2, <3>1
  <2>4. /\ status' \in [Calls -> Status]
        /\ version' \in [Calls -> Nat] /\ service' \in Calls \union {None}
    BY <1>7 DEF Crash, table
  <2> QED
    BY <1>7, <2>1, <2>2, <2>3, <2>4 DEF Crash
<1>8. CASE Resume
  <2>1. mpc' \in [Calls -> MonitorPcs] /\ mver' \in [Calls -> Nat]
    BY <1>8 DEF Resume, MonitorPcs
  <2>2. resumed' \in [Calls -> BOOLEAN]
    <3>1. \A d \in Calls : (resumed[d] \/ FoundRunning(d)) \in BOOLEAN
      OBVIOUS
    <3> QED
      BY <1>8, <3>1, Zenon DEF Resume
  <2> QED
    BY <1>8, <2>1, <2>2 DEF Resume, table, handlers, toucher
<1>9. CASE UNCHANGED vars
  BY <1>9 DEF vars, table, handlers, monitors, toucher, server
<1> QED
  BY <1>1, <1>2, <1>3, <1>4, <1>5, <1>6, <1>7, <1>8, <1>9 DEF Next

\* Every variable keeps its type.
THEOREM TypeCorrect == Spec => []TypeOK
<1> QED
  BY TypedInit, TypedStep, PTL DEF Spec

--------------------------------------------------------------------------------
(* What a step does to the table *)

\* A step never lowers a version, changes a record without raising its version,
\* removes a record, or revises the outcome of a deployment.
TableStep ==
    \A d \in Calls :
        /\ version[d] <= version'[d]
        /\ status[d] # "none" =>
              /\ status'[d] # "none"
              /\ version'[d] = version[d] => status'[d] = status[d]
        /\ status[d] \in Terminal => status'[d] = status[d]

\* A call that is about to be recorded has no record yet.
LEMMA RecordIsNew ==
  ASSUME CopyInv, NEW h \in Calls, Record(h)
  PROVE  status[h] = "none" /\ version[h] = 0
  BY DEF CopyInv, Recorded, Timed, Record

\* An abort finds the record it saw, still running.
LEMMA AbortFindsRunning ==
  ASSUME CopyInv, NEW h \in Calls, AbortSeen(h)
  PROVE  seen[h] \in Calls /\ status[seen[h]] = "running"
<1>1. seenStatus[h] = "running" /\ version[seen[h]] = seenVersion[h]
  BY DEF AbortSeen
<1>2. seen[h] # None
  BY <1>1 DEF CopyInv, Handlers, HandlerInv
<1>3. Copy(seen[h], seenVersion[h], seenStatus[h])
  BY <1>2 DEF CopyInv, Handlers, HandlerInv
<1> QED
  BY <1>1, <1>3 DEF Copy

\* A goroutine that sets a status finds its deployment running.
LEMMA SetFindsRunning ==
  ASSUME CopyInv, NEW d \in Calls, SetStatus(d)
  PROVE  status[d] = "running"
  BY DEF SetStatus, CopyInv, Monitors, MonitorInv, Copy

\* An operation on the last record puts back the status it has.
LEMMA TouchKeepsStatus ==
  ASSUME CopyInv, Touch
  PROVE  /\ touched \in Calls /\ status' = status
         /\ version' = [version EXCEPT ![touched] = version[touched] + 1]
<1>1. Copy(touched, touchedVersion, touchedStatus) /\ version[touched] = touchedVersion
  BY DEF Touch, CopyInv, Toucher
<1>2. touched \in Calls /\ touchedStatus = status[touched]
  BY <1>1 DEF Copy
<1>3. status \in [Calls -> Status]
  BY DEF CopyInv, TypeOK
<1> QED
  BY <1>1, <1>2, <1>3 DEF Touch

\* The steps that leave the table alone.
LEMMA OtherStepsKeepTable ==
  ASSUME [Next]_vars,
         \A d \in Calls : ~Record(d) /\ ~AbortSeen(d) /\ ~SetStatus(d),
         ~Touch
  PROVE  UNCHANGED table
<1>1. ASSUME NEW h \in Calls, ReadLast(h) PROVE UNCHANGED table
  BY <1>1 DEF ReadLast
<1>2. ASSUME NEW h \in Calls, Deploy(h) PROVE UNCHANGED table
  BY <1>2 DEF Deploy, Reject, CheckService, CreateService, CreateServiceFails, RegisterService,
       RegisterServiceFails,
     UpdateDeployment, NothingToAbort, AbortFails, TakeTime, RecordFails
<1>3. ASSUME NEW d \in Calls, Monitor(d) PROVE UNCHANGED table
  BY <1>3 DEF Monitor, GiveUp, Observe, SetStatusFails, NoSecondToLast,
     ChooseTarget, NoStableVersion, RollBack
<1>4. CASE ReadToTouch \/ TouchFails \/ Crash \/ Resume
  BY <1>4 DEF ReadToTouch, TouchFails, Crash, Resume
<1>5. CASE UNCHANGED vars
  BY <1>5 DEF vars
<1> QED
  BY <1>1, <1>2, <1>3, <1>4, <1>5 DEF Next

LEMMA TableSteps ==
  ASSUME CopyInv, [Next]_vars
  PROVE  TableStep
<1>0. /\ status \in [Calls -> Status] /\ version \in [Calls -> Nat]
      /\ mver \in [Calls -> Nat]
  BY DEF CopyInv, TypeOK
<1>1. ASSUME NEW h \in Calls, Record(h) PROVE TableStep
  <2>1. \A d \in Calls : d # h => status'[d] = status[d] /\ version'[d] = version[d]
    BY <1>0, <1>1 DEF Record
  <2>2. status[h] = "none" /\ version[h] = 0 /\ version'[h] = 1
    BY <1>0, <1>1, RecordIsNew DEF Record
  <2> QED
    BY <1>0, <2>1, <2>2 DEF TableStep, Terminal
<1>2. ASSUME NEW h \in Calls, AbortSeen(h) PROVE TableStep
  <2>1. seen[h] \in Calls /\ status[seen[h]] = "running"
    BY <1>2, AbortFindsRunning
  <2>2. \A d \in Calls : d # seen[h] =>
            status'[d] = status[d] /\ version'[d] = version[d]
    BY <1>0, <1>2 DEF AbortSeen
  <2>3. /\ version'[seen[h]] = version[seen[h]] + 1
        /\ status'[seen[h]] = "aborted"
    BY <1>0, <1>2, <2>1 DEF AbortSeen
  <2> QED
    BY <1>0, <2>1, <2>2, <2>3 DEF TableStep, Terminal
<1>3. ASSUME NEW d \in Calls, SetStatus(d) PROVE TableStep
  <2>1. \A c \in Calls : c # d => status'[c] = status[c] /\ version'[c] = version[c]
    BY <1>0, <1>3 DEF SetStatus
  <2>2. /\ status[d] = "running" /\ version'[d] = version[d] + 1
        /\ status'[d] \in {"success", "failed"}
    BY <1>0, <1>3, SetFindsRunning DEF SetStatus
  <2> QED
    BY <1>0, <2>1, <2>2 DEF TableStep, Terminal
<1>4. CASE Touch
  BY <1>0, <1>4, TouchKeepsStatus DEF TableStep
<1>5. CASE UNCHANGED table
  BY <1>0, <1>5 DEF table, TableStep
<1> QED
  BY <1>1, <1>2, <1>3, <1>4, <1>5, OtherStepsKeepTable

\* A copy stays a copy, whatever happens to the table.
LEMMA CopyKept ==
  ASSUME TypeOK, TypeOK', TableStep
  PROVE  \A d \in Calls, v \in Nat, s \in Status : Copy(d, v, s) =>
             /\ status'[d] # "none" /\ s # "none"
             /\ v <= version'[d]
             /\ v = version'[d] => s = status'[d]
             /\ s \in Terminal => status'[d] = s
<1> SUFFICES ASSUME NEW d \in Calls, NEW v \in Nat, NEW s \in Status, Copy(d, v, s)
             PROVE  /\ status'[d] # "none" /\ s # "none"
                    /\ v <= version'[d]
                    /\ v = version'[d] => s = status'[d]
                    /\ s \in Terminal => status'[d] = s
  OBVIOUS
<1>1. version[d] \in Nat /\ version'[d] \in Nat
  BY DEF TypeOK
<1>2. version[d] <= version'[d]
  BY DEF TableStep
<1>3. v = version'[d] => version'[d] = version[d]
  BY <1>1, <1>2 DEF Copy
<1> QED
  BY <1>1, <1>2, <1>3 DEF Copy, TableStep

--------------------------------------------------------------------------------
(* The strengthening is inductive *)

LEMMA CopyInvInit == Init => CopyInv
<1> SUFFICES ASSUME Init PROVE CopyInv
  OBVIOUS
<1> USE EarlierAssumption, NoneAssumption
<1>1. Timed
  BY DEF Init, Timed
<1>2. Recorded /\ Handlers /\ Monitors /\ Toucher
  BY DEF Init, Recorded, Handlers, HandlerInv, Monitors, MonitorInv, Toucher
<1> QED
  BY <1>1, <1>2, TypedInit DEF CopyInv

\* Only TakeTime changes a stamp: it gives the next time to a call without one.
LEMMA TimedStep ==
  ASSUME CopyInv, [Next]_vars
  PROVE  Timed'
<1>0. /\ status \in [Calls -> Status] /\ version \in [Calls -> Nat]
      /\ stamp \in [Calls -> Nat] /\ now \in Nat /\ hpc \in [Calls -> HandlerPcs]
      /\ Timed
  BY DEF CopyInv, TypeOK
<1>1. \A d \in Calls : status'[d] = "none" => version'[d] = 0
  <2>1. ASSUME NEW d \in Calls, status'[d] = "none" PROVE version'[d] = 0
    <3>1. status[d] = "none" /\ version[d] = 0
      BY <1>0, <2>1, TableSteps DEF TableStep, Timed
    <3>2. ASSUME NEW h \in Calls, Record(h) PROVE h # d /\ version'[d] = version[d]
      BY <1>0, <2>1, <3>2 DEF Record
    <3>3. ASSUME NEW h \in Calls, AbortSeen(h) PROVE version'[d] = version[d]
      BY <1>0, <3>1, <3>3, AbortFindsRunning DEF AbortSeen
    <3>4. ASSUME NEW c \in Calls, SetStatus(c) PROVE version'[d] = version[d]
      BY <1>0, <3>1, <3>4, SetFindsRunning DEF SetStatus
    <3>5. CASE Touch
      <4>1. status[touched] # "none"
        BY <3>5 DEF Touch, CopyInv, Toucher, Copy
      <4> QED
        BY <1>0, <3>1, <3>5, <4>1, TouchKeepsStatus
    <3>6. UNCHANGED table => version'[d] = version[d]
      BY DEF table
    <3> QED
      BY <3>1, <3>2, <3>3, <3>4, <3>5, <3>6, OtherStepsKeepTable
  <2> QED
    BY <2>1
<1>2. ASSUME NEW h \in Calls, TakeTime(h) PROVE Timed'
  <2>1. /\ now' = now + 1 /\ stamp'[h] = now + 1 /\ hpc'[h] = "put"
        /\ \A d \in Calls : d # h => stamp'[d] = stamp[d] /\ hpc'[d] = hpc[d]
    BY <1>0, <1>2 DEF TakeTime
  <2>2. \A d \in Calls : stamp[d] \in Nat /\ stamp[d] <= now
    BY <1>0 DEF Timed
  <2>3. \A d \in Calls : stamp'[d] <= now'
    BY <1>0, <2>1, <2>2
  <2>4. \A c, d \in Calls : c # d /\ stamp'[c] # 0 => stamp'[c] # stamp'[d]
    BY <1>0, <2>1, <2>2 DEF Timed
  <2>5. \A d \in Calls : hpc'[d] \in {"put", "done"} => stamp'[d] # 0
    BY <1>0, <2>1 DEF Timed
  <2> QED
    BY <1>1, <2>3, <2>4, <2>5 DEF Timed
<1>3. ASSUME UNCHANGED <<now, stamp>>,
             \A d \in Calls : hpc'[d] \in {"put", "done"} => hpc[d] \in {"put", "done"}
      PROVE  Timed'
  BY <1>0, <1>1, <1>3 DEF Timed
<1>4. ASSUME NEW h \in Calls, ReadLast(h) PROVE Timed'
  BY <1>0, <1>3, <1>4 DEF ReadLast
<1>5. ASSUME NEW h \in Calls, Deploy(h), ~TakeTime(h) PROVE Timed'
  <2>1. \A d \in Calls : hpc'[d] \in {"put", "done"} => hpc[d] \in {"put", "done"}
    BY <1>0, <1>5 DEF Deploy, Reject, CheckService, CreateService, CreateServiceFails,
       RegisterService, RegisterServiceFails, UpdateDeployment, NothingToAbort,
       AbortSeen, AbortFails, Record, RecordFails, handlerGoes
  <2> QED
    BY <1>3, <1>5, <2>1, HandlerFrame
<1>6. ASSUME UNCHANGED handlers PROVE Timed'
  BY <1>3, <1>6 DEF handlers
<1>7. CASE Crash
  BY <1>0, <1>3, <1>7 DEF Crash
<1>8. CASE ReadToTouch \/ Touch \/ TouchFails \/ Resume \/ UNCHANGED vars
  BY <1>6, <1>8 DEF ReadToTouch, Touch, TouchFails, Resume, vars
<1> QED
  BY <1>2, <1>4, <1>5, <1>6, <1>7, <1>8, MonitorFrame DEF Next, handlers

\* Only a handler records its call, and only that or Resume starts a goroutine.
LEMMA RecordedStep ==
  ASSUME CopyInv, [Next]_vars
  PROVE  Recorded'
<1>0. /\ hpc \in [Calls -> HandlerPcs] /\ mpc \in [Calls -> MonitorPcs]
      /\ status \in [Calls -> Status] /\ Recorded
  BY DEF CopyInv, TypeOK
<1>1. ASSUME NEW h \in Calls, Record(h) PROVE Recorded'
  BY <1>0, <1>1 DEF Record, Recorded
<1>2. ASSUME \A d \in Calls : ~Record(d) PROVE Recorded'
  <2>1. \A d \in Calls : status'[d] # "none" <=> status[d] # "none"
    <3>1. ASSUME NEW h \in Calls, AbortSeen(h)
          PROVE  \A d \in Calls : status'[d] # "none" <=> status[d] # "none"
      BY <1>0, <3>1, AbortFindsRunning DEF AbortSeen
    <3>2. ASSUME NEW c \in Calls, SetStatus(c)
          PROVE  \A d \in Calls : status'[d] # "none" <=> status[d] # "none"
      BY <1>0, <3>2, SetFindsRunning DEF SetStatus
    <3> QED
      BY <1>2, <3>1, <3>2, TouchKeepsStatus, OtherStepsKeepTable DEF table
  <2>2. \A d \in Calls : hpc[d] = "done" => hpc'[d] = "done"
    <3>1. ASSUME NEW h \in Calls, ReadLast(h)
          PROVE  \A d \in Calls : hpc[d] = "done" => hpc'[d] = "done"
      BY <1>0, <3>1 DEF ReadLast
    <3>2. ASSUME NEW h \in Calls, Deploy(h)
          PROVE  \A d \in Calls : hpc[d] = "done" => hpc'[d] = "done"
      BY <1>0, <1>2, <3>2 DEF Deploy, Reject, CheckService, CreateService,
         CreateServiceFails, RegisterService, RegisterServiceFails, UpdateDeployment,
         NothingToAbort, AbortSeen, AbortFails, TakeTime, RecordFails, handlerGoes
    <3>3. CASE Crash
      BY <3>3 DEF Crash
    <3>4. CASE ReadToTouch \/ Touch \/ TouchFails \/ Resume \/ UNCHANGED vars
      BY <3>4 DEF ReadToTouch, Touch, TouchFails, Resume, vars, handlers
    <3> QED
      BY <3>1, <3>2, <3>3, <3>4, MonitorFrame DEF Next, handlers
  <2>3. \A d \in Calls : mpc'[d] # "none" => mpc[d] # "none" \/ status[d] # "none"
    <3>1. ASSUME NEW h \in Calls, ReadLast(h) PROVE mpc' = mpc
      BY <3>1 DEF ReadLast, monitors
    <3>2. ASSUME NEW h \in Calls, Deploy(h) PROVE mpc' = mpc
      BY <1>2, <3>2, HandlerFrame
    <3>3. ASSUME NEW c \in Calls, Monitor(c)
          PROVE  mpc[c] # "none" /\ \A d \in Calls : d # c => mpc'[d] = mpc[d]
      BY <1>0, <3>3 DEF Monitor, GiveUp, Observe, SetStatus, SetStatusFails,
         NoSecondToLast, ChooseTarget, NoStableVersion, RollBack, monitorGoes
    <3>4. CASE Crash
      BY <3>4 DEF Crash
    <3>5. CASE Resume
      BY <3>5 DEF Resume, FoundRunning
    <3>6. CASE ReadToTouch \/ Touch \/ TouchFails \/ UNCHANGED vars
      BY <3>6 DEF ReadToTouch, Touch, TouchFails, vars, monitors
    <3> QED
      BY <3>1, <3>2, <3>3, <3>4, <3>5, <3>6 DEF Next
  <2> QED
    BY <1>0, <2>1, <2>2, <2>3 DEF Recorded
<1> QED
  BY <1>1, <1>2

LEMMA HandlersStep ==
  ASSUME CopyInv, [Next]_vars
  PROVE  Handlers'
<1>0. TypeOK /\ TypeOK' /\ TableStep /\ Handlers
  BY TypedStep, TableSteps DEF CopyInv
<1>1. \A h \in Calls : hpc[h] \in {"record", "put", "done"} /\ seen[h] # None
                           => status'[seen[h]] \in Terminal
  BY <1>0 DEF Handlers, HandlerInv, TableStep, TypeOK
<1>2. ASSUME NEW h \in Calls,
             seen'[h] = seen[h], seenVersion'[h] = seenVersion[h],
             seenStatus'[h] = seenStatus[h],
             hpc'[h] \in {"record", "put", "done"} /\ seen[h] # None
                 => status'[seen[h]] \in Terminal
      PROVE  HandlerInv(h)'
  <2>1. seen[h] # None => Copy(seen[h], seenVersion[h], seenStatus[h])
    BY <1>0 DEF Handlers, HandlerInv
  <2>2. seen[h] # None =>
            /\ seen[h] \in Calls /\ status'[seen[h]] # "none" /\ seenStatus[h] # "none"
            /\ seenVersion[h] <= version'[seen[h]]
            /\ seenVersion[h] = version'[seen[h]] => seenStatus[h] = status'[seen[h]]
            /\ seenStatus[h] \in Terminal => status'[seen[h]] = seenStatus[h]
    <3>1. seenVersion[h] \in Nat /\ seenStatus[h] \in Status
      BY <1>0 DEF TypeOK
    <3>2. seen[h] # None => seen[h] \in Calls
      BY <2>1 DEF Copy
    <3> QED
      BY <1>0, <2>1, <3>1, <3>2, CopyKept
  <2>3. seen[h] = None => seenStatus[h] = "none"
    BY <1>0 DEF Handlers, HandlerInv
  <2> QED
    BY <1>2, <2>2, <2>3 DEF HandlerInv, Copy
<1>3. ASSUME NEW g \in Calls, ReadLast(g) PROVE Handlers'
  <2>1. ASSUME NEW h \in Calls, h # g PROVE HandlerInv(h)'
    <3>1. seen'[h] = seen[h] /\ seenVersion'[h] = seenVersion[h]
          /\ seenStatus'[h] = seenStatus[h] /\ hpc'[h] = hpc[h]
      BY <1>0, <1>3, <2>1 DEF ReadLast, TypeOK
    <3> QED
      BY <1>1, <1>2, <3>1
  <2>2. hpc'[g] = "read"
    BY <1>0, <1>3 DEF ReadLast, TypeOK
  <2>3. ASSUME UNCHANGED <<seen, seenVersion, seenStatus>> PROVE HandlerInv(g)'
    BY <1>2, <2>2, <2>3
  <2>4. ASSUME NEW last \in LastDeploy, seen' = [seen EXCEPT ![g] = last],
               seenVersion' = [seenVersion EXCEPT ![g] = version[last]],
               seenStatus' = [seenStatus EXCEPT ![g] = status[last]]
        PROVE  HandlerInv(g)'
    <3>1. last \in Calls /\ status[last] # "none"
      BY LatestAreRecords
    <3>2. /\ seen'[g] = last /\ seenVersion'[g] = version[last]
          /\ seenStatus'[g] = status[last]
          /\ status' = status /\ version' = version
      BY <1>0, <1>3, <2>4 DEF ReadLast, TypeOK, table
    <3>3. version[last] \in Nat
      BY <1>0, <3>1 DEF TypeOK
    <3> QED
      <4>1. Copy(seen[g], seenVersion[g], seenStatus[g])'
        BY <3>1, <3>2, <3>3 DEF Copy
      <4>2. seen'[g] # None
        BY <3>1, <3>2, NoneAssumption
      <4> QED
        BY <2>2, <4>1, <4>2 DEF HandlerInv
  <2>5. HandlerInv(g)'
    BY <1>3, <2>3, <2>4 DEF ReadLast
  <2> QED
    BY <2>1, <2>5 DEF Handlers
<1>4. ASSUME NEW g \in Calls, Deploy(g) PROVE Handlers'
  <2>0. UNCHANGED <<seen, seenVersion, seenStatus>>
    BY <1>4, HandlerFrame
  <2>1. ASSUME NEW h \in Calls, h # g PROVE hpc'[h] = hpc[h]
    BY <1>0, <1>4, <2>1 DEF Deploy, Reject, CheckService, CreateService,
       CreateServiceFails, RegisterService, RegisterServiceFails, UpdateDeployment,
       NothingToAbort, AbortSeen, AbortFails, TakeTime, Record, RecordFails, handlerGoes,
       TypeOK
  <2>2. hpc'[g] \in {"record", "put", "done"} /\ seen[g] # None => status'[seen[g]] \in Terminal
    <3>1. CASE NothingToAbort(g)
      <4>1. ASSUME seen[g] # None PROVE status'[seen[g]] \in Terminal
        <5>1. Copy(seen[g], seenVersion[g], seenStatus[g])
          BY <1>0, <4>1 DEF Handlers, HandlerInv
        <5>2. seenStatus[g] \in Terminal /\ seen[g] \in Calls
          BY <1>0, <3>1, <5>1 DEF NothingToAbort, Copy, TypeOK, Status
        <5> QED
          BY <1>0, <5>1, <5>2 DEF Copy, TableStep
      <4> QED
        BY <4>1
    <3>2. CASE AbortSeen(g)
      <4>1. seen[g] \in Calls
        BY <3>2, AbortFindsRunning
      <4> QED
        BY <1>0, <3>2, <4>1 DEF AbortSeen, TypeOK, Terminal
    <3>3. CASE TakeTime(g) \/ Record(g)
      BY <1>1, <3>3 DEF TakeTime, Record
    <3>4. CASE ~NothingToAbort(g) /\ ~AbortSeen(g) /\ ~TakeTime(g) /\ ~Record(g)
      BY <1>0, <1>4, <3>4 DEF Deploy, Reject, CheckService, CreateService,
         CreateServiceFails, RegisterService, RegisterServiceFails, UpdateDeployment,
         AbortFails, RecordFails, handlerGoes, TypeOK
    <3> QED
      BY <3>1, <3>2, <3>3, <3>4
  <2> QED
    BY <1>1, <1>2, <2>0, <2>1, <2>2 DEF Handlers
<1>5. ASSUME UNCHANGED <<seen, seenVersion, seenStatus>>,
             \A h \in Calls : hpc'[h] \in {hpc[h], "failed"}
      PROVE  Handlers'
  BY <1>1, <1>2, <1>5 DEF Handlers
<1>6. ASSUME NEW d \in Calls, Monitor(d) PROVE Handlers'
  BY <1>5, <1>6, MonitorFrame DEF handlers
<1>7. CASE Crash
  BY <1>5, <1>7 DEF Crash
<1>8. CASE ReadToTouch \/ Touch \/ TouchFails \/ Resume \/ UNCHANGED vars
  BY <1>5, <1>8 DEF ReadToTouch, Touch, TouchFails, Resume, vars, handlers
<1> QED
  BY <1>3, <1>4, <1>6, <1>7, <1>8 DEF Next

LEMMA ToucherStep ==
  ASSUME CopyInv, [Next]_vars
  PROVE  Toucher'
<1>0. TypeOK /\ TypeOK' /\ TableStep /\ Toucher
  BY TypedStep, TableSteps DEF CopyInv
<1>1. CASE ReadToTouch
  <2>1. PICK last \in LastDeploy : /\ touched' = last
                                  /\ touchedVersion' = version[last]
                                  /\ touchedStatus' = status[last]
    BY <1>1 DEF ReadToTouch
  <2>2. last \in Calls /\ status[last] # "none"
    BY LatestAreRecords
  <2>3. version[last] \in Nat
    BY <1>0, <2>2 DEF TypeOK
  <2> QED
    BY <1>1, <2>1, <2>2, <2>3 DEF ReadToTouch, Toucher, Copy, table
<1>2. CASE Touch \/ TouchFails \/ Crash
  BY <1>2 DEF Touch, TouchFails, Crash, Toucher
<1>3. ASSUME UNCHANGED toucher PROVE Toucher'
  <2>1. touchedVersion \in Nat /\ touchedStatus \in Status
    BY <1>0 DEF TypeOK
  <2>2. tpc = "put" => Copy(touched, touchedVersion, touchedStatus) /\ touched \in Calls
    BY <1>0 DEF Toucher, Copy
  <2> QED
    BY <1>0, <1>3, <2>1, <2>2, CopyKept DEF toucher, Toucher, Copy
<1>4. ASSUME NEW h \in Calls, ReadLast(h) PROVE UNCHANGED toucher
  BY <1>4 DEF ReadLast
<1>5. CASE Resume \/ UNCHANGED vars
  BY <1>3, <1>5 DEF Resume, vars
<1> QED
  BY <1>1, <1>2, <1>3, <1>4, <1>5, HandlerFrame, MonitorFrame DEF Next

LEMMA MonitorsStep ==
  ASSUME CopyInv, [Next]_vars
  PROVE  Monitors'
<1>0. TypeOK /\ TypeOK' /\ TableStep /\ Monitors
  BY TypedStep, TableSteps DEF CopyInv
<1>1. ASSUME NEW d \in Calls, mpc'[d] = mpc[d], mver'[d] = mver[d], target'[d] = target[d]
      PROVE  MonitorInv(d)'
  <2>1. mver[d] \in Nat /\ "running" \in Status
    BY <1>0 DEF TypeOK, Status
  <2>2. mpc[d] \in {"wait", "set"} => Copy(d, mver[d], "running")'
    BY <1>0, <1>1, <2>1, CopyKept DEF Monitors, MonitorInv, Copy
  <2>3. mpc[d] \in {"rollback", "switch"} => status'[d] = "failed"
    BY <1>0 DEF Monitors, MonitorInv, TableStep, Terminal
  <2>4. mpc[d] = "switch" => target[d] \in Calls /\ status'[target[d]] = "success"
    BY <1>0 DEF Monitors, MonitorInv, TableStep, Terminal
  <2> QED
    BY <1>1, <2>2, <2>3, <2>4 DEF MonitorInv
<1>2. ASSUME NEW h \in Calls, Record(h) PROVE Monitors'
  <2>1. ASSUME NEW d \in Calls, d # h PROVE MonitorInv(d)'
    <3>1. mpc'[d] = mpc[d] /\ mver'[d] = mver[d] /\ target'[d] = target[d]
      BY <1>0, <1>2, <2>1 DEF Record, TypeOK
    <3> QED
      BY <1>1, <3>1
  <2>2. /\ mpc'[h] = "wait" /\ mver'[h] = 1
        /\ status'[h] = "running" /\ version'[h] = 1
    BY <1>0, <1>2 DEF Record, TypeOK
  <2>3. MonitorInv(h)'
    BY <2>2 DEF MonitorInv, Copy, Terminal
  <2> QED
    BY <2>1, <2>3 DEF Monitors
<1>3. ASSUME NEW c \in Calls, Monitor(c) PROVE Monitors'
  <2>1. ASSUME NEW d \in Calls, d # c
        PROVE  mpc'[d] = mpc[d] /\ mver'[d] = mver[d] /\ target'[d] = target[d]
    BY <1>0, <1>3, <2>1 DEF Monitor, GiveUp, Observe, SetStatus, SetStatusFails,
       NoSecondToLast, ChooseTarget, NoStableVersion, RollBack, monitorGoes, TypeOK
  <2>2. MonitorInv(c)'
    <3>1. CASE Observe(c)
      <4>1. mpc'[c] = "set" /\ mver'[c] = mver[c] /\ status' = status /\ version' = version
        BY <1>0, <3>1 DEF Observe, monitorGoes, TypeOK, table
      <4>2. Copy(c, mver[c], "running")
        BY <1>0, <3>1 DEF Observe, Monitors, MonitorInv
      <4> QED
        BY <4>1, <4>2 DEF MonitorInv, Copy
    <3>2. CASE SetStatus(c)
      <4>1. mpc'[c] = (IF verdict[c] = "rollback" THEN "rollback" ELSE "ended")
        BY <1>0, <3>2 DEF SetStatus, monitorGoes, TypeOK
      <4>2. verdict[c] = "rollback" => status'[c] = "failed"
        BY <1>0, <3>2 DEF SetStatus, TypeOK
      <4> QED
        BY <4>1, <4>2 DEF MonitorInv
    <3>3. CASE ChooseTarget(c)
      <4>1. PICK t \in SecondToLast :
                status[t] = "success" /\ target' = [target EXCEPT ![c] = t]
        BY <3>3 DEF ChooseTarget
      <4>2. /\ mpc'[c] = "switch" /\ target'[c] = t /\ status' = status
            /\ status[t] = "success" /\ t \in Calls
        BY <1>0, <3>3, <4>1, LatestAreRecords DEF ChooseTarget, monitorGoes, TypeOK, table
      <4>3. status[c] = "failed"
        BY <1>0, <3>3 DEF ChooseTarget, Monitors, MonitorInv
      <4> QED
        BY <1>0, <4>2, <4>3 DEF MonitorInv
    <3>4. CASE GiveUp(c) \/ SetStatusFails(c) \/ NoSecondToLast(c)
                 \/ NoStableVersion(c) \/ RollBack(c)
      <4>1. mpc'[c] \in {"gaveUp", "ended", "noStable"}
        BY <1>0, <3>4 DEF GiveUp, SetStatusFails, NoSecondToLast, NoStableVersion,
           RollBack, monitorGoes, TypeOK
      <4> QED
        BY <4>1 DEF MonitorInv
    <3> QED
      BY <1>3, <3>1, <3>2, <3>3, <3>4 DEF Monitor
  <2> QED
    BY <1>1, <2>1, <2>2 DEF Monitors
<1>4. CASE Crash
  BY <1>4 DEF Crash, Monitors, MonitorInv
<1>5. CASE Resume
  <2>1. ASSUME NEW d \in Calls, FoundRunning(d) PROVE MonitorInv(d)'
    <3>1. /\ mpc'[d] = "wait" /\ mver'[d] = version[d] /\ status[d] = "running"
          /\ status' = status /\ version' = version
      BY <1>5, <2>1 DEF Resume, FoundRunning, table
    <3>2. version[d] \in Nat
      BY <1>0 DEF TypeOK
    <3> QED
      BY <3>1, <3>2 DEF MonitorInv, Copy, Terminal
  <2>2. ASSUME NEW d \in Calls, ~FoundRunning(d) PROVE MonitorInv(d)'
    <3>1. mpc'[d] = mpc[d] /\ mver'[d] = mver[d] /\ target'[d] = target[d]
      BY <1>5, <2>2 DEF Resume
    <3> QED
      BY <1>1, <3>1
  <2> QED
    BY <2>1, <2>2 DEF Monitors
<1>6. ASSUME UNCHANGED <<mpc, mver, target>> PROVE Monitors'
  BY <1>1, <1>6 DEF Monitors
<1>7. ASSUME NEW h \in Calls, ReadLast(h) PROVE Monitors'
  BY <1>6, <1>7 DEF ReadLast, monitors
<1>8. ASSUME NEW h \in Calls, Deploy(h), ~Record(h) PROVE Monitors'
  BY <1>6, <1>8, HandlerFrame
<1>9. CASE ReadToTouch \/ Touch \/ TouchFails \/ UNCHANGED vars
  BY <1>6, <1>9 DEF ReadToTouch, Touch, TouchFails, vars, monitors
<1> QED
  BY <1>2, <1>3, <1>4, <1>5, <1>7, <1>8, <1>9 DEF Next

LEMMA CopyInvHolds == Spec => []CopyInv
<1>1. CopyInv /\ [Next]_vars => CopyInv'
  BY TypedStep, TimedStep, RecordedStep, HandlersStep, MonitorsStep, ToucherStep
     DEF CopyInv
<1> QED
  BY CopyInvInit, <1>1, PTL DEF Spec

--------------------------------------------------------------------------------
(* The theorems *)

\* The record a Deploy call saw as the last one is settled by the time its own
\* record exists.
THEOREM PreviousIsSettled == Spec => []SeenIsSettled
<1>1. CopyInv => SeenIsSettled
  BY DEF CopyInv, Recorded, Handlers, HandlerInv, SeenIsSettled
<1> QED
  BY CopyInvHolds, <1>1, PTL

\* A goroutine rolls back only after it recorded its deployment as failed, and
\* only to a recorded success.
THEOREM RollbackJustified == Spec => []RollbackIsJustified
<1>1. CopyInv => RollbackIsJustified
  BY DEF CopyInv, Monitors, MonitorInv, RollbackIsJustified
<1> QED
  BY CopyInvHolds, <1>1, PTL

\* The sort key of a record stays while the record is there, and a new record
\* gets a key no other record has.
LEMMA TimesAreKept ==
  ASSUME CopyInv, [Next]_vars
  PROVE  /\ (\A d \in Calls : ~Record(d)) => recordTime' = recordTime
         /\ \A h \in Calls : Record(h) =>
                /\ recordTime' = [recordTime EXCEPT ![h] = stamp[h]]
                /\ stamp[h] \in Nat \ {0} /\ \A c \in Calls : stamp[h] # recordTime[c]
<1>0. /\ status \in [Calls -> Status] /\ stamp \in [Calls -> Nat] /\ Timed /\ Recorded
  BY DEF CopyInv, TypeOK
<1>1. ASSUME \A d \in Calls : ~Record(d) PROVE recordTime' = recordTime
  <2>1. \A d \in Calls : status'[d] = "none" <=> status[d] = "none"
    <3>1. ASSUME NEW h \in Calls, AbortSeen(h)
          PROVE  \A d \in Calls : status'[d] = "none" <=> status[d] = "none"
      BY <1>0, <3>1, AbortFindsRunning DEF AbortSeen
    <3>2. ASSUME NEW c \in Calls, SetStatus(c)
          PROVE  \A d \in Calls : status'[d] = "none" <=> status[d] = "none"
      BY <1>0, <3>2, SetFindsRunning DEF SetStatus
    <3> QED
      BY <1>1, <3>1, <3>2, TouchKeepsStatus, OtherStepsKeepTable DEF table
  <2>2. \A d \in Calls : status[d] # "none" => stamp'[d] = stamp[d]
    <3>1. ASSUME NEW h \in Calls, TakeTime(h)
          PROVE  \A d \in Calls : status[d] # "none" => stamp'[d] = stamp[d]
      <4>1. status[h] = "none"
        BY <1>0, <3>1 DEF TakeTime, Recorded
      <4> QED
        BY <1>0, <3>1, <4>1 DEF TakeTime
    <3>2. ASSUME NEW h \in Calls, ReadLast(h) PROVE UNCHANGED stamp
      BY <3>2 DEF ReadLast
    <3>3. ASSUME NEW h \in Calls, Deploy(h), ~TakeTime(h) PROVE UNCHANGED stamp
      BY <3>3, HandlerFrame
    <3>4. ASSUME NEW d \in Calls, Monitor(d) PROVE UNCHANGED stamp
      BY <3>4, MonitorFrame DEF handlers
    <3>5. CASE ReadToTouch \/ Touch \/ TouchFails \/ Crash \/ Resume \/ UNCHANGED vars
      BY <3>5 DEF ReadToTouch, Touch, TouchFails, Crash, Resume, vars, handlers
    <3> QED
      BY <3>1, <3>2, <3>3, <3>4, <3>5 DEF Next
  <2>3. \A d \in Calls : (IF status'[d] = "none" THEN 0 ELSE stamp'[d])
                          = (IF status[d] = "none" THEN 0 ELSE stamp[d])
    BY <2>1, <2>2
  <2> QED
    BY <2>3 DEF recordTime
<1>2. ASSUME NEW h \in Calls, Record(h)
      PROVE  /\ recordTime' = [recordTime EXCEPT ![h] = stamp[h]]
             /\ stamp[h] \in Nat \ {0} /\ \A c \in Calls : stamp[h] # recordTime[c]
  <2>1. status[h] = "none" /\ stamp[h] # 0
    BY <1>0, <1>2, RecordIsNew DEF Record, Timed
  <2>2. \A c \in Calls : stamp[h] # recordTime[c]
    BY <1>0, <2>1 DEF recordTime, Timed
  <2>3. \A d \in Calls : (IF status'[d] = "none" THEN 0 ELSE stamp'[d])
                          = (IF d = h THEN stamp[h] ELSE recordTime[d])
    BY <1>0, <1>2 DEF Record, recordTime
  <2>4. recordTime' = [d \in Calls |-> IF d = h THEN stamp[h] ELSE recordTime[d]]
    BY <2>3 DEF recordTime
  <2>5. recordTime' = [recordTime EXCEPT ![h] = stamp[h]]
    BY <2>4 DEF recordTime
  <2> QED
    BY <1>0, <2>1, <2>2, <2>5
<1> QED
  BY <1>1, <1>2

\* The table keeps its history: deployments are only added, each starts
\* running with a time of its own which it keeps, and an outcome is never
\* revised.
THEOREM HistoryIsKept == Spec => HistorySpec
<1>1. Init => History!Init
  <2> SUFFICES ASSUME Init PROVE History!Init
    OBVIOUS
  <2>1. status \in [Calls -> {"none"} \union History!Outcomes]
    BY DEF Init, History!Outcomes
  <2>2. recordTime \in [Calls -> Nat]
    BY CopyInvInit DEF CopyInv, TypeOK, recordTime
  <2>3. \A d \in Calls : status[d] = "none" <=> recordTime[d] = 0
    BY DEF Init, recordTime
  <2>4. \A c, d \in Calls : c # d /\ recordTime[c] # 0 => recordTime[c] # recordTime[d]
    BY DEF Init, recordTime
  <2> QED
    BY <2>1, <2>2, <2>3, <2>4 DEF History!Init
<1>2. CopyInv /\ [Next]_vars => [History!Next]_<<recordTime, status>>
  <2> SUFFICES ASSUME CopyInv, [Next]_vars PROVE [History!Next]_<<recordTime, status>>
    OBVIOUS
  <2>1. ASSUME NEW h \in Calls, Record(h) PROVE History!Next
    <3>1. /\ recordTime' = [recordTime EXCEPT ![h] = stamp[h]]
          /\ stamp[h] \in Nat \ {0} /\ \A c \in Calls : stamp[h] # recordTime[c]
      BY <2>1, TimesAreKept
    <3>2. recordTime'[h] = stamp[h]
      BY <3>1 DEF recordTime
    <3>3. status[h] = "none" /\ status' = [status EXCEPT ![h] = "running"]
      BY <2>1, RecordIsNew DEF Record
    <3> QED
      BY <3>1, <3>2, <3>3 DEF History!Next, History!Start
  <2>2. ASSUME \A d \in Calls : ~Record(d),
               NEW d \in Calls, status[d] = "running", NEW o \in History!Outcomes,
               status' = [status EXCEPT ![d] = o]
        PROVE  History!Next
    BY <2>2, TimesAreKept DEF History!Next, History!Settle
  <2>3. ASSUME \A d \in Calls : ~Record(d), NEW h \in Calls, AbortSeen(h)
        PROVE  History!Next
    BY <2>2, <2>3, AbortFindsRunning DEF AbortSeen, History!Outcomes
  <2>4. ASSUME \A d \in Calls : ~Record(d), NEW d \in Calls, SetStatus(d)
        PROVE  History!Next
    <3>1. PICK o \in History!Outcomes : status' = [status EXCEPT ![d] = o]
      BY <2>4 DEF SetStatus, History!Outcomes
    <3> QED
      BY <2>2, <2>4, <3>1, SetFindsRunning
  <2>5. ASSUME \A d \in Calls : ~Record(d), Touch \/ UNCHANGED table
        PROVE  UNCHANGED <<recordTime, status>>
    BY <2>5, TouchKeepsStatus, TimesAreKept DEF table
  <2> QED
    BY <2>1, <2>3, <2>4, <2>5, OtherStepsKeepTable
<1> QED
  BY <1>1, <1>2, CopyInvHolds, PTL DEF Spec, HistorySpec, History!Spec

================================================================================
