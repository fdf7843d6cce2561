---------------------------- MODULE DeployLifecycle ----------------------------
(***************************************************************************)
(* The life of the deployments of one ECS service in ecs-deploy: the       *)
(* Deploy handler of the API controller, the goroutine that waits for the  *)
(* service to become stable, its rollback, the operations that rewrite the *)
(* last deployment record (scaling, manual tasks, autoscaling policies),   *)
(* and a crash of the API server followed by Resume.                       *)
(*                                                                         *)
(* A deployment record is a row of the DynamoDB table, replaced as a whole *)
(* under the condition that its version is the one that was read.  Rows    *)
(* are sorted by the time NewDeployment takes before it puts the row; the  *)
(* clock gives no time twice.  A task definition is named by the Deploy    *)
(* call that registered it.                                                *)
(***************************************************************************)
EXTENDS Naturals, FiniteSets

CONSTANTS
    Calls,        \* the Deploy requests; each is made once
    None,         \* no task definition, no call
    Earlier,      \* a deployment that succeeded before, or None
    Faults,       \* which AWS calls may fail
    ResumeLimit,  \* how many of the latest records Resume looks at (20)
    MaxTouches,   \* bound on the operations that rewrite the last record
    MaxCrashes    \* bound on the crashes of the API server

\* "reject": nothing was changed yet when the call failed; "create": the ECS
\* service could not be created; "update": it was not updated; "recreate": it
\* was deleted and not created again; "table": DynamoDB refused a request;
\* "describe": the service could not be described.
FaultKinds == {"reject", "create", "update", "recreate", "table", "describe"}

ASSUME FaultsAssumption == Faults \subseteq FaultKinds
ASSUME NoneAssumption   == None \notin Calls
ASSUME EarlierAssumption == Earlier \in Calls \union {None}
ASSUME BoundsAssumption == {ResumeLimit, MaxTouches, MaxCrashes} \subseteq Nat

Terminal == {"success", "failed", "aborted"}
Status   == {"none", "running"} \union Terminal

VARIABLES
    \* the DynamoDB table of deployments
    status, version,
    \* the task definition the ECS service is configured with
    service,
    \* whether the registry of services has the service
    registered,
    \* the clock, and the time (sort key) each Deploy took for its record
    now, stamp,
    \* Deploy handlers: position and the record read as ddLast
    hpc, seen, seenVersion, seenStatus,
    \* LaunchWaitUntilServicesStable: position, copy of the version, verdict,
    \* rollback target, and whether Resume started it
    mpc, mver, verdict, target, resumed,
    \* the writer of scaling properties and manual tasks
    tpc, touched, touchedVersion, touchedStatus, touches,
    \* the API server
    up, crashes

table    == <<status, version>>
handlers == <<hpc, seen, seenVersion, seenStatus, registered, now, stamp>>
monitors == <<mpc, mver, verdict, target, resumed>>
toucher  == <<tpc, touched, touchedVersion, touchedStatus, touches>>
server   == <<up, crashes>>
vars == <<table, service, handlers, monitors, toucher, server>>

\* The table is empty, or the service runs an earlier deployment; only a Deploy
\* that found the service in ECS has registered it.
Init ==
    /\ registered \in IF Earlier = None THEN {FALSE} ELSE BOOLEAN
    /\ now = IF Earlier = None THEN 0 ELSE 1
    /\ stamp = [d \in Calls |-> IF d = Earlier THEN 1 ELSE 0]
    /\ status = [d \in Calls |-> IF d = Earlier THEN "success" ELSE "none"]
    /\ version = [d \in Calls |-> IF d = Earlier THEN 2 ELSE 0]
    /\ service = Earlier
    /\ hpc = [h \in Calls |-> IF h = Earlier THEN "done" ELSE "idle"]
    /\ seen = [h \in Calls |-> None] /\ seenVersion = [h \in Calls |-> 0]
    /\ seenStatus = [h \in Calls |-> "none"]
    /\ mpc = [d \in Calls |-> "none"] /\ mver = [d \in Calls |-> 0]
    /\ verdict = [d \in Calls |-> "none"] /\ target = [d \in Calls |-> None]
    /\ resumed = [d \in Calls |-> FALSE]
    /\ tpc = "idle" /\ touched = None /\ touchedVersion = 0
    /\ touchedStatus = "none" /\ touches = 0
    /\ up = TRUE /\ crashes = 0

Records == {d \in Calls : status[d] # "none"}
Newest(S) == {d \in S : \A c \in S : stamp[c] <= stamp[d]}

\* The record GetLastDeploy finds, and the one after it.
LastDeploy == Newest(Records)
SecondToLast == Newest(Records \ LastDeploy)

--------------------------------------------------------------------------------
(* Controller.Deploy *)

\* GetLastDeploy.
ReadLast(h) ==
    /\ up /\ hpc[h] = "idle"
    /\ hpc' = [hpc EXCEPT ![h] = "read"]
    /\ \/ Records = {} /\ UNCHANGED <<seen, seenVersion, seenStatus>>
       \/ \E last \in LastDeploy :
             /\ seen' = [seen EXCEPT ![h] = last]
             /\ seenVersion' = [seenVersion EXCEPT ![h] = version[last]]
             /\ seenStatus' = [seenStatus EXCEPT ![h] = status[last]]
    /\ UNCHANGED <<table, service, registered, now, stamp, monitors, toucher, server>>

handlerGoes(h, where) ==
    /\ up /\ hpc' = [hpc EXCEPT ![h] = where]
    /\ UNCHANGED <<seen, seenVersion, seenStatus, now, stamp, monitors, toucher, server>>

\* Validation, the IAM role or the task definition fails.
Reject(h) ==
    /\ hpc[h] = "read" /\ "reject" \in Faults
    /\ handlerGoes(h, "failed") /\ UNCHANGED <<table, service, registered>>

\* ServiceExists
CheckService(h) ==
    /\ hpc[h] = "read"
    /\ handlerGoes(h, IF service = None THEN "create" ELSE "register")
    /\ UNCHANGED <<table, service, registered>>

CreateService(h) ==
    /\ hpc[h] = "create" /\ service = None
    /\ service' = h
    /\ handlerGoes(h, "abort") /\ UNCHANGED <<table, registered>>

CreateServiceFails(h) ==
    /\ hpc[h] = "create" /\ (service # None \/ "create" \in Faults)
    /\ handlerGoes(h, "failed") /\ UNCHANGED <<table, service, registered>>

\* ServiceExistsInDynamo, whose error Deploy ignores, and createServiceInDynamo.
RegisterService(h) ==
    /\ hpc[h] = "register"
    /\ registered' = TRUE \/ ("table" \in Faults /\ UNCHANGED registered)
    /\ handlerGoes(h, "update") /\ UNCHANGED <<table, service>>

RegisterServiceFails(h) ==
    /\ hpc[h] = "register" /\ ~registered /\ "table" \in Faults
    /\ handlerGoes(h, "failed") /\ UNCHANGED <<table, service, registered>>

\* updateDeployment, whose error Deploy ignores: the service is switched, or
\* left alone, or lost while it is recreated behind another load balancer.
UpdateDeployment(h) ==
    /\ hpc[h] = "update"
    /\ \/ service # None /\ service' = h
       \/ (service = None \/ "update" \in Faults) /\ UNCHANGED service
       \/ "recreate" \in Faults /\ seen[h] # None /\ service' = None
    /\ handlerGoes(h, "abort") /\ UNCHANGED <<table, registered>>

NothingToAbort(h) ==
    /\ hpc[h] = "abort" /\ seenStatus[h] # "running"
    /\ handlerGoes(h, "record") /\ UNCHANGED <<table, service, registered>>

\* SetDeploymentStatus(ddLast, "aborted")
AbortSeen(h) ==
    /\ hpc[h] = "abort" /\ seenStatus[h] = "running"
    /\ version[seen[h]] = seenVersion[h]
    /\ status' = [status EXCEPT ![seen[h]] = "aborted"]
    /\ version' = [version EXCEPT ![seen[h]] = @ + 1]
    /\ handlerGoes(h, "record") /\ UNCHANGED <<service, registered>>

\* Mutant of AbortFails: the error is ignored.
AbortFailureIgnored(h) ==
    /\ hpc[h] = "abort" /\ seenStatus[h] = "running"
    /\ version[seen[h]] # seenVersion[h]
    /\ handlerGoes(h, "record") /\ UNCHANGED <<table, service, registered>>

\* The record changed since it was read: Deploy returns an error, after the
\* service was switched.
AbortFails(h) ==
    /\ hpc[h] = "abort" /\ seenStatus[h] = "running"
    /\ version[seen[h]] # seenVersion[h] \/ "table" \in Faults
    /\ handlerGoes(h, "failed") /\ UNCHANGED <<table, service, registered>>

\* NewDeployment takes the time of the record, reads the last record for its
\* scaling data, and puts the record: another call may do all three in between.
TakeTime(h) ==
    /\ up /\ hpc[h] = "record"
    /\ now' = now + 1
    /\ stamp' = [stamp EXCEPT ![h] = now + 1]
    /\ hpc' = [hpc EXCEPT ![h] = "put"]
    /\ UNCHANGED <<table, service, registered, seen, seenVersion, seenStatus,
                   monitors, toucher, server>>

\* The put, and the start of the goroutine.
Record(h) ==
    /\ up /\ hpc[h] = "put"
    /\ status' = [status EXCEPT ![h] = "running"]
    /\ version' = [version EXCEPT ![h] = 1]
    /\ mpc' = [mpc EXCEPT ![h] = "wait"] /\ mver' = [mver EXCEPT ![h] = 1]
    /\ hpc' = [hpc EXCEPT ![h] = "done"]
    /\ UNCHANGED <<service, registered, now, stamp, seen, seenVersion, seenStatus,
                   verdict, target, resumed, toucher, server>>

RecordFails(h) ==
    /\ hpc[h] = "put" /\ "table" \in Faults
    /\ handlerGoes(h, "failed") /\ UNCHANGED <<table, service, registered>>

Deploy(h) ==
    \/ Reject(h) \/ CheckService(h) \/ CreateService(h) \/ CreateServiceFails(h)
    \/ RegisterService(h) \/ RegisterServiceFails(h) \/ UpdateDeployment(h)
    \/ NothingToAbort(h) \/ AbortSeen(h) \/ AbortFails(h)
    \/ TakeTime(h) \/ Record(h) \/ RecordFails(h)

--------------------------------------------------------------------------------
(* LaunchWaitUntilServicesStable and Rollback *)

monitorGoes(d, where) ==
    /\ up /\ mpc' = [mpc EXCEPT ![d] = where]
    /\ UNCHANGED <<resumed, handlers, toucher, server>>

\* The service cannot be described: the goroutine returns, the record stays.
GiveUp(d) ==
    /\ mpc[d] = "wait" /\ ("describe" \in Faults \/ service = None)
    /\ monitorGoes(d, "gaveUp")
    /\ UNCHANGED <<table, service, mver, verdict, target>>

\* More than one ECS deployment, another task definition or no task at all
\* calls for a rollback; a timeout with everything in place does not.
Observe(d) ==
    /\ mpc[d] = "wait"
    /\ \E v \in {"success", "timedOut", "rollback"} :
          /\ v # "rollback" => service = d
          /\ verdict' = [verdict EXCEPT ![d] = v]
    /\ monitorGoes(d, "set")
    /\ UNCHANGED <<table, service, mver, target>>

\* Mutant of SetStatus: the verdict itself is stored.
SetVerdict(d) ==
    /\ mpc[d] = "set" /\ version[d] = mver[d]
    /\ status' = [status EXCEPT ![d] = verdict[d]]
    /\ version' = [version EXCEPT ![d] = @ + 1]
    /\ mver' = [mver EXCEPT ![d] = @ + 1] /\ verdict' = [verdict EXCEPT ![d] = "none"]
    /\ monitorGoes(d, IF verdict[d] = "rollback" THEN "rollback" ELSE "ended")
    /\ UNCHANGED <<service, target>>

\* SetDeploymentStatus and SetDeploymentStatusWithReason on the goroutine's
\* own copy of the record.
SetStatus(d) ==
    /\ mpc[d] = "set" /\ version[d] = mver[d]
    /\ status' = [status EXCEPT ![d] =
                    IF verdict[d] = "success" THEN "success" ELSE "failed"]
    /\ version' = [version EXCEPT ![d] = @ + 1]
    /\ mver' = [mver EXCEPT ![d] = @ + 1] /\ verdict' = [verdict EXCEPT ![d] = "none"]
    /\ monitorGoes(d, IF verdict[d] = "rollback" THEN "rollback" ELSE "ended")
    /\ UNCHANGED <<service, target>>

\* Mutant of SetStatusFails: the rollback goes on after a conflict.
ConflictRollsBack(d) ==
    /\ mpc[d] = "set" /\ version[d] # mver[d]
    /\ mver' = [mver EXCEPT ![d] = @ + 1] /\ verdict' = [verdict EXCEPT ![d] = "none"]
    /\ monitorGoes(d, IF verdict[d] = "rollback" THEN "rollback" ELSE "ended")
    /\ UNCHANGED <<table, service, target>>

SetStatusFails(d) ==
    /\ mpc[d] = "set" /\ (version[d] # mver[d] \/ "table" \in Faults)
    /\ mver' = [mver EXCEPT ![d] = @ + 1] /\ verdict' = [verdict EXCEPT ![d] = "none"]
    /\ monitorGoes(d, "ended")
    /\ UNCHANGED <<table, service, target>>

\* Rollback looks at the second to last record only: the longer list it reads
\* otherwise is kept in a variable of the inner block and never looked at.
NoSecondToLast(d) ==
    /\ mpc[d] = "rollback" /\ (SecondToLast = {} \/ "table" \in Faults)
    /\ monitorGoes(d, "ended")
    /\ UNCHANGED <<table, service, mver, verdict, target>>

ChooseTarget(d) ==
    /\ mpc[d] = "rollback"
    /\ \E c \in SecondToLast :
          status[c] = "success" /\ target' = [target EXCEPT ![d] = c]
    /\ monitorGoes(d, "switch")
    /\ UNCHANGED <<table, service, mver, verdict>>

NoStableVersion(d) ==
    /\ mpc[d] = "rollback" /\ \E c \in SecondToLast : status[c] # "success"
    /\ monitorGoes(d, "noStable")
    /\ UNCHANGED <<table, service, mver, verdict, target>>

\* UpdateService on the cluster of the receiver, which Resume leaves empty;
\* the error is ignored.
RollBack(d) ==
    /\ mpc[d] = "switch"
    /\ \/ ~resumed[d] /\ service # None /\ service' = target[d]
       \/ (resumed[d] \/ service = None \/ "update" \in Faults) /\ UNCHANGED service
    /\ target' = [target EXCEPT ![d] = None]
    /\ monitorGoes(d, "ended")
    /\ UNCHANGED <<table, mver, verdict>>

Monitor(d) ==
    \/ GiveUp(d) \/ Observe(d) \/ SetStatus(d) \/ SetStatusFails(d)
    \/ NoSecondToLast(d) \/ ChooseTarget(d) \/ NoStableVersion(d) \/ RollBack(d)

--------------------------------------------------------------------------------
(* SetScalingProperty, SetAutoscalingProperties and SetManualTasksArn: after   *)
(* GetClusterName has found the service in the registry, read the last record, *)
(* then put it back changed if its version is still the one that was read.     *)

ReadToTouch ==
    /\ up /\ tpc = "idle" /\ touches < MaxTouches /\ registered
    /\ tpc' = "put" /\ touches' = touches + 1
    /\ \E last \in LastDeploy :
          /\ touched' = last
          /\ touchedVersion' = version[last] /\ touchedStatus' = status[last]
    /\ UNCHANGED <<table, service, handlers, monitors, server>>

\* Mutant of Touch: the record is put back without a condition.
TouchUnconditionally ==
    /\ up /\ tpc = "put"
    /\ status' = [status EXCEPT ![touched] = touchedStatus]
    /\ version' = [version EXCEPT ![touched] = touchedVersion + 1]
    /\ tpc' = "idle"
    /\ UNCHANGED <<service, handlers, monitors, touched, touchedVersion,
                   touchedStatus, touches, server>>

Touch ==
    /\ up /\ tpc = "put" /\ version[touched] = touchedVersion
    /\ status' = [status EXCEPT ![touched] = touchedStatus]
    /\ version' = [version EXCEPT ![touched] = touchedVersion + 1]
    /\ tpc' = "idle"
    /\ UNCHANGED <<service, handlers, monitors, touched, touchedVersion,
                   touchedStatus, touches, server>>

TouchFails ==
    /\ up /\ tpc = "put" /\ (version[touched] # touchedVersion \/ "table" \in Faults)
    /\ tpc' = "idle"
    /\ UNCHANGED <<table, service, handlers, monitors, touched, touchedVersion,
                   touchedStatus, touches, server>>

--------------------------------------------------------------------------------
(* The API server *)

Crash ==
    /\ up /\ crashes < MaxCrashes
    /\ up' = FALSE /\ crashes' = crashes + 1
    /\ hpc' = [h \in Calls |-> IF hpc[h] \in {"idle", "done"} THEN hpc[h] ELSE "failed"]
    /\ mpc' = [d \in Calls |-> "none"]
    /\ tpc' = "idle"
    /\ UNCHANGED <<table, service, registered, now, stamp, seen, seenVersion, seenStatus,
                   mver, verdict, target, resumed,
                   touched, touchedVersion, touchedStatus, touches>>

\* Mutant of Resume: the running deployments are forgotten.
ResumeNothing ==
    /\ ~up /\ up' = TRUE
    /\ UNCHANGED <<table, service, handlers, monitors, toucher, crashes>>

\* Resume starts a goroutine for every record it finds running among the
\* latest ones.
FoundRunning(d) ==
    /\ status[d] = "running"
    /\ Cardinality({c \in Records : stamp[c] > stamp[d]}) < ResumeLimit

Resume ==
    /\ ~up /\ up' = TRUE
    /\ mpc' = [d \in Calls |-> IF FoundRunning(d) THEN "wait" ELSE mpc[d]]
    /\ mver' = [d \in Calls |-> IF FoundRunning(d) THEN version[d] ELSE mver[d]]
    /\ resumed' = [d \in Calls |-> resumed[d] \/ FoundRunning(d)]
    /\ UNCHANGED <<table, service, handlers, verdict, target, toucher, crashes>>

--------------------------------------------------------------------------------
Next ==
    \/ \E h \in Calls : ReadLast(h) \/ Deploy(h) \/ Monitor(h)
    \/ ReadToTouch \/ Touch \/ TouchFails \/ Crash \/ Resume

Spec == Init /\ [][Next]_vars

\* A request that was accepted runs on, the waiter of the AWS library ends
\* after a bounded number of attempts, and the server is restarted.
Fairness ==
    /\ \A h \in Calls : WF_vars(Deploy(h)) /\ WF_vars(Monitor(h))
    /\ WF_vars(Resume)

FairSpec == Spec /\ Fairness

\* The sort keys of the records in the table.
recordTime == [d \in Calls |-> IF status[d] = "none" THEN 0 ELSE stamp[d]]

History == INSTANCE DeployHistory WITH time <- recordTime
HistorySpec == History!Spec

--------------------------------------------------------------------------------
(* Properties *)

HandlerPcs == {"idle", "read", "create", "register", "update", "abort", "record",
               "put", "done", "failed"}
MonitorPcs == {"none", "wait", "set", "rollback", "switch", "ended", "gaveUp", "noStable"}

\* Every variable has its type.
TypeOK ==
    /\ status \in [Calls -> Status] /\ version \in [Calls -> Nat]
    /\ service \in Calls \union {None} /\ registered \in BOOLEAN
    /\ now \in Nat /\ stamp \in [Calls -> Nat]
    /\ hpc \in [Calls -> HandlerPcs] /\ seen \in [Calls -> Calls \union {None}]
    /\ seenVersion \in [Calls -> Nat] /\ seenStatus \in [Calls -> Status]
    /\ mpc \in [Calls -> MonitorPcs] /\ mver \in [Calls -> Nat]
    /\ verdict \in [Calls -> {"none", "success", "timedOut", "rollback"}]
    /\ target \in [Calls -> Calls \union {None}] /\ resumed \in [Calls -> BOOLEAN]
    /\ tpc \in {"idle", "put"} /\ touched \in Calls \union {None}
    /\ touchedVersion \in Nat /\ touchedStatus \in Status /\ touches \in Nat
    /\ up \in BOOLEAN /\ crashes \in Nat

\* The record a Deploy call saw as the last one is settled by the time its own
\* record exists: two records stay running together only when their calls
\* overlapped ("Mark previous deployment as aborted if still running").
SeenIsSettled ==
    \A h \in Calls :
        (status[h] # "none" /\ seen[h] # None) => status[seen[h]] \in Terminal

\* A goroutine rolls the service back only after it recorded its own
\* deployment as failed (never one that was aborted or succeeded meanwhile),
\* and only to a deployment recorded as a success.
RollbackIsJustified ==
    \A d \in Calls :
        /\ mpc[d] \in {"rollback", "switch"} => status[d] = "failed"
        /\ mpc[d] = "switch" => status[target[d]] = "success"

\* A deployment is settled unless its record was rewritten under the goroutine
\* or the goroutine could not describe the service.
SettlesUnlessTouched ==
    \A d \in Calls : (status[d] = "running") ~>
        (status[d] # "running" \/ version[d] > 1 \/ mpc[d] = "gaveUp")

\* Every recorded deployment ends as a success, a failure or aborted ("run
\* goroutine to update status of service").
DeploymentSettles ==
    \A d \in Calls : (status[d] = "running") ~> (status[d] \in Terminal)

\* Rollback reports "no stable version found" only if there is none.
NoStableVersionIsTrue ==
    [][\A d \in Calls : (mpc[d] # "noStable" /\ mpc'[d] = "noStable") =>
            \A c \in Calls : status[c] # "success"]_vars

================================================================================
