---------------------------- MODULE ServiceRegistry ----------------------------
(***************************************************************************)
(* The service registry of ecs-deploy: one row of the DynamoDB table, the  *)
(* record __SERVICES, with an element per service.  Deploy handlers add    *)
(* services and change their limits and listeners, the migration of a      *)
(* starting API server rewrites the limits of all services and the version *)
(* of the API.  Everyone reads the record, changes the copy, and puts it   *)
(* back under the condition that the version is still the one that was     *)
(* read.  Limits and listeners are named by the writer they come from.     *)
(***************************************************************************)
EXTENDS Naturals

CONSTANTS
    Services,     \* names of services
    Deploys,      \* Deploy requests
    Before,       \* the writer of what was in the registry before
    None,         \* no limits: the service is not registered; no listeners
    MaxTries,     \* puts CreateService tries (4)
    Faults        \* which calls may fail: "ecs", "read", "put"

Writers == Deploys \union {Before}

ASSUME FaultsAssumption == Faults \subseteq {"ecs", "read", "put"}
ASSUME TriesAssumption == MaxTries \in Nat \ {0}
ASSUME NoneAssumption == None \notin Writers

Records == [version   : Nat,
            api       : {"old", "new"},
            limits    : [Services -> Writers \union {None}],
            listeners : [Services -> Writers \union {None}]]

VARIABLES
    db,        \* the record __SERVICES
    ecs,       \* the services that exist in ECS
    \* Deploy handlers: position, service, copy of the record and the number of
    \* the put CreateService is at (0 before, one more than MaxTries when it gave up)
    pc, svc, ds, attempt,
    \* migration: position, copy of the record, services still to do
    migration, mds, todo

deploys   == <<pc, svc, ds, attempt>>
migrating == <<migration, mds, todo>>
vars == <<db, ecs, deploys, migrating>>

\* The registry may hold services already, and ECS these and others.
Init ==
    /\ \E known, others \in SUBSET Services, version \in {"old", "new"} :
          /\ db = [version   |-> 1,
                   api       |-> version,
                   limits    |-> [s \in Services |-> IF s \in known THEN Before ELSE None],
                   listeners |-> [s \in Services |-> None]]
          /\ ecs = known \union others
    /\ pc = [w \in Deploys |-> "idle"] /\ svc \in [Deploys -> Services]
    /\ ds = [w \in Deploys |-> db] /\ attempt = [w \in Deploys |-> 0]
    /\ migration = IF db.api = "new" THEN "done" ELSE "list"
    /\ mds = db /\ todo = {}

--------------------------------------------------------------------------------
(* The copies: what each operation makes of the record it read. *)

registered(r, s) == r.limits[s] # None

changed(r, api, limits, listeners) ==
    [version |-> r.version + 1, api |-> api, limits |-> limits, listeners |-> listeners]

\* dsElement replaces the element of the service, or is appended.
withService(r, s, w) ==
    changed(r, r.api, [r.limits EXCEPT ![s] = w], [r.listeners EXCEPT ![s] = None])
withLimits(r, s, w) ==
    changed(r, r.api, [r.limits EXCEPT ![s] = w], r.listeners)
withListeners(r, s, w) ==
    changed(r, r.api, r.limits, [r.listeners EXCEPT ![s] = w])
withApi(r) == changed(r, "new", r.limits, r.listeners)

--------------------------------------------------------------------------------
(* Controller.Deploy and Service.CreateService *)

goes(w, from, to) == pc[w] = from /\ pc' = [pc EXCEPT ![w] = to]

\* ServiceExists
CheckService(w) ==
    /\ goes(w, "idle", IF svc[w] \in ecs THEN "lookup" ELSE "create")
    /\ UNCHANGED <<db, ecs, svc, ds, attempt, migrating>>

\* createService makes the ECS service; the registry is not told.
CreateInEcs(w) ==
    /\ goes(w, "create", "done")
    /\ svc[w] \notin ecs /\ ecs' = ecs \union {svc[w]}
    /\ UNCHANGED <<db, svc, ds, attempt, migrating>>

CreateInEcsFails(w) ==
    /\ goes(w, "create", "failed")
    /\ svc[w] \in ecs \/ "ecs" \in Faults
    /\ UNCHANGED <<db, ecs, svc, ds, attempt, migrating>>

\* ServiceExistsInDynamo: an error is taken for "exists".
Lookup(w) ==
    /\ \/ registered(db, svc[w]) /\ goes(w, "lookup", "update")
       \/ ~registered(db, svc[w]) /\ goes(w, "lookup", "read")
       \/ "read" \in Faults /\ goes(w, "lookup", "update")
    /\ UNCHANGED <<db, ecs, svc, ds, attempt, migrating>>

Read(w) ==
    /\ goes(w, "read", "put")
    /\ ds' = [ds EXCEPT ![w] = db] /\ attempt' = [attempt EXCEPT ![w] = 1]
    /\ UNCHANGED <<db, ecs, svc, migrating>>

\* Mutant of Put: the condition is dropped.
PutUnconditionally(w) ==
    /\ goes(w, "put", "update")
    /\ db' = withService(ds[w], svc[w], w)
    /\ UNCHANGED <<ecs, svc, ds, attempt, migrating>>

\* The conditional put of CreateService.
Put(w) ==
    /\ goes(w, "put", "update")
    /\ db.version = ds[w].version
    /\ db' = withService(ds[w], svc[w], w)
    /\ UNCHANGED <<ecs, svc, ds, attempt, migrating>>

\* Mutants of Conflict: one more turn of the loop, and none at all.
ConflictOnceMore(w) ==
    /\ db.version # ds[w].version
    /\ goes(w, "put", IF attempt[w] > MaxTries THEN "update" ELSE "put")
    /\ ds' = [ds EXCEPT ![w] = db]
    /\ attempt' = [attempt EXCEPT ![w] = @ + 1]
    /\ UNCHANGED <<db, ecs, svc, migrating>>

ConflictForgotten(w) ==
    /\ db.version # ds[w].version
    /\ goes(w, "put", "update")
    /\ UNCHANGED <<db, ecs, svc, ds, attempt, migrating>>

\* The condition failed: read again and try again; after the last attempt
\* CreateService leaves the loop and returns nil.
Conflict(w) ==
    /\ db.version # ds[w].version
    /\ goes(w, "put", IF attempt[w] = MaxTries THEN "update" ELSE "put")
    /\ ds' = [ds EXCEPT ![w] = db]
    /\ attempt' = [attempt EXCEPT ![w] = @ + 1]
    /\ UNCHANGED <<db, ecs, svc, migrating>>

\* DynamoDB fails while CreateService reads, puts or reads again.
CreateServiceFails(w) ==
    /\ \/ "read" \in Faults /\ goes(w, "read", "failed")
       \/ "put" \in Faults /\ goes(w, "put", "failed")
       \/ "read" \in Faults /\ db.version # ds[w].version /\ goes(w, "put", "failed")
    /\ UNCHANGED <<db, ecs, svc, ds, attempt, migrating>>

--------------------------------------------------------------------------------
(* updateDeployment: listeners when the load balancer changed, limits when    *)
(* they changed, in this order.  Its errors are ignored.                      *)

Skip(w) ==
    /\ goes(w, "update", "limits") \/ goes(w, "limits", "done")
    /\ UNCHANGED <<db, ecs, svc, ds, attempt, migrating>>

\* UpdateServiceListeners and UpdateServiceLimits read the record and look for
\* the service.
ReadToUpdate(w) ==
    /\ registered(db, svc[w])
    /\ goes(w, "update", "putListeners") \/ goes(w, "limits", "putLimits")
    /\ ds' = [ds EXCEPT ![w] = db]
    /\ UNCHANGED <<db, ecs, svc, attempt, migrating>>

UpdateServiceListeners(w) ==
    /\ goes(w, "putListeners", "limits")
    /\ db.version = ds[w].version /\ db' = withListeners(ds[w], svc[w], w)
    /\ UNCHANGED <<ecs, svc, ds, attempt, migrating>>

UpdateServiceLimits(w) ==
    /\ goes(w, "putLimits", "done")
    /\ db.version = ds[w].version /\ db' = withLimits(ds[w], svc[w], w)
    /\ UNCHANGED <<ecs, svc, ds, attempt, migrating>>

UpdateFails(w) ==
    /\ goes(w, "putListeners", "limits") \/ goes(w, "putLimits", "done")
    /\ db.version # ds[w].version \/ "put" \in Faults
    /\ UNCHANGED <<db, ecs, svc, ds, attempt, migrating>>

Deploy(w) ==
    \/ CheckService(w) \/ CreateInEcs(w) \/ CreateInEcsFails(w)
    \/ Lookup(w) \/ Read(w) \/ Put(w) \/ Conflict(w) \/ CreateServiceFails(w)
    \/ Skip(w) \/ ReadToUpdate(w) \/ UpdateServiceListeners(w)
    \/ UpdateServiceLimits(w) \/ UpdateFails(w)

--------------------------------------------------------------------------------
(* Migration.run, while a server of the old version still serves. *)

migrationGoes(from, to) == migration = from /\ migration' = to

ListServices ==
    /\ migrationGoes("list", "next")
    /\ todo' = {s \in Services : registered(db, s)}
    /\ UNCHANGED <<db, ecs, deploys, mds>>

\* UpdateServiceLimits for one service of the list, SetApiVersion after the last.
MigrationReads ==
    /\ migrationGoes("next", "put")
    /\ mds' = db
    /\ UNCHANGED <<db, ecs, deploys, todo>>

MigrateLimits ==
    /\ \E s \in todo :
          /\ db.version = mds.version /\ registered(mds, s)
          /\ db' = withLimits(mds, s, Before)
          /\ todo' = todo \ {s}
    /\ migrationGoes("put", "next")
    /\ UNCHANGED <<ecs, deploys, mds>>

\* The errors are ignored.
MigrateLimitsFails ==
    /\ db.version # mds.version \/ Faults \intersect {"read", "put"} # {}
    /\ \E s \in todo : todo' = todo \ {s}
    /\ migrationGoes("put", "next")
    /\ UNCHANGED <<db, ecs, deploys, mds>>

SetApiVersion ==
    /\ todo = {} /\ migrationGoes("put", "done")
    /\ db.version = mds.version /\ db' = withApi(mds)
    /\ UNCHANGED <<ecs, deploys, mds, todo>>

SetApiVersionFails ==
    /\ todo = {} /\ migrationGoes("put", "done")
    /\ db.version # mds.version \/ Faults \intersect {"read", "put"} # {}
    /\ UNCHANGED <<db, ecs, deploys, mds, todo>>

\* GetServices or GetLastDeploy fails: the server does not start.
MigrationStops ==
    /\ "read" \in Faults
    /\ migrationGoes("list", "failed") \/ (todo # {} /\ migrationGoes("next", "failed"))
    /\ UNCHANGED <<db, ecs, deploys, mds, todo>>

Migrate ==
    \/ ListServices \/ MigrationReads \/ MigrateLimits \/ MigrateLimitsFails
    \/ SetApiVersion \/ SetApiVersionFails \/ MigrationStops

--------------------------------------------------------------------------------
Next == Migrate \/ \E w \in Deploys : Deploy(w)

Spec == Init /\ [][Next]_vars

Promise == INSTANCE RegistryPromise WITH
               limits <- db.limits, listeners <- db.listeners, api <- db.api
PromiseSpec == Promise!Spec

--------------------------------------------------------------------------------
(* Properties *)

DeployPcs == {"idle", "create", "lookup", "read", "put", "update", "putListeners",
              "limits", "putLimits", "done", "failed"}

\* Every variable has its type; CreateService tries no more than MaxTries puts.
TypeOK ==
    /\ db \in Records /\ ecs \subseteq Services
    /\ pc \in [Deploys -> DeployPcs] /\ svc \in [Deploys -> Services]
    /\ ds \in [Deploys -> Records] /\ attempt \in [Deploys -> 0..(MaxTries + 1)]
    /\ migration \in {"list", "next", "put", "done", "failed"}
    /\ mds \in Records /\ todo \subseteq Services

\* When CreateService returned nil the service is registered, unless it lost
\* the race for the record MaxTries times.
RegisteredUnlessOverrun ==
    \A w \in Deploys :
        attempt[w] \in 1..MaxTries /\ pc[w] \notin {"put", "failed"}
            => registered(db, svc[w])

\* A deployed service is registered ("Registers services in DynamoDB").
DeployedIsRegistered ==
    \A w \in Deploys : pc[w] = "done" => registered(db, svc[w])

================================================================================
