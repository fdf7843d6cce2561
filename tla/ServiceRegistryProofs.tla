------------------------- MODULE ServiceRegistryProofs -------------------------
(***************************************************************************)
(* Proofs about ServiceRegistry for every set of services and of Deploy    *)
(* requests, every number of tries and every fault.                        *)
(***************************************************************************)
EXTENDS ServiceRegistry, TLAPS

--------------------------------------------------------------------------------
(* The strengthening *)

\* A copy of the record is not newer than the record, and of the same version
\* only if it is the record.
Snapshot(r) == r.version <= db.version /\ (r.version = db.version => r = db)

Copies ==
    /\ \A w \in Deploys :
          /\ pc[w] \in {"put", "putListeners", "putLimits"} => Snapshot(ds[w])
          /\ pc[w] \in {"putListeners", "putLimits"} => registered(ds[w], svc[w])
    /\ migration = "put" => Snapshot(mds)

\* The loop of CreateService starts at its first attempt.
Attempts ==
    \A w \in Deploys :
        /\ pc[w] \in {"idle", "create", "lookup", "read"} => attempt[w] = 0
        /\ pc[w] = "put" => attempt[w] \in 1..MaxTries

RegistryInv == TypeOK /\ Copies /\ Attempts /\ RegisteredUnlessOverrun

--------------------------------------------------------------------------------
(* The operators on copies *)

LEMMA WithService ==
  \A r \in Records, s \in Services, w \in Writers :
      /\ withService(r, s, w) \in Records
      /\ withService(r, s, w).version = r.version + 1
      /\ withService(r, s, w).api = r.api
      /\ withService(r, s, w).limits = [r.limits EXCEPT ![s] = w]
      /\ withService(r, s, w).listeners = [r.listeners EXCEPT ![s] = None]
  BY DEF Records, withService, changed

LEMMA WithLimits ==
  \A r \in Records, s \in Services, w \in Writers :
      /\ withLimits(r, s, w) \in Records
      /\ withLimits(r, s, w).version = r.version + 1
      /\ withLimits(r, s, w).api = r.api
      /\ withLimits(r, s, w).limits = [r.limits EXCEPT ![s] = w]
      /\ withLimits(r, s, w).listeners = r.listeners
  BY DEF Records, withLimits, changed

LEMMA WithListeners ==
  \A r \in Records, s \in Services, w \in Writers :
      /\ withListeners(r, s, w) \in Records
      /\ withListeners(r, s, w).version = r.version + 1
      /\ withListeners(r, s, w).api = r.api
      /\ withListeners(r, s, w).limits = r.limits
      /\ withListeners(r, s, w).listeners = [r.listeners EXCEPT ![s] = w]
  BY DEF Records, withListeners, changed

LEMMA WithApi ==
  \A r \in Records :
      /\ withApi(r) \in Records
      /\ withApi(r).version = r.version + 1
      /\ withApi(r).api = "new"
      /\ withApi(r).limits = r.limits
      /\ withApi(r).listeners = r.listeners
  BY DEF Records, withApi, changed

LEMMA Tries == MaxTries \in Nat /\ MaxTries > 0
  BY TriesAssumption

--------------------------------------------------------------------------------
(* Typing *)

LEMMA TypedInit == Init => TypeOK
<1> SUFFICES ASSUME Init PROVE TypeOK
  OBVIOUS
<1>1. db \in Records /\ ecs \subseteq Services
  BY DEF Init, Records, Writers
<1>2. /\ pc \in [Deploys -> DeployPcs] /\ svc \in [Deploys -> Services]
      /\ attempt \in [Deploys -> 0..(MaxTries + 1)]
  BY Tries DEF Init, DeployPcs
<1>3. ds \in [Deploys -> Records] /\ mds \in Records
  BY <1>1 DEF Init
<1>4. migration \in {"list", "next", "put", "done", "failed"} /\ todo \subseteq Services
  BY DEF Init
<1> QED
  BY <1>1, <1>2, <1>3, <1>4 DEF TypeOK

\* A Deploy call leaves the migration and the services of the calls alone, a
\* migration the calls and ECS.
LEMMA DeployFrame ==
  ASSUME NEW w \in Deploys, Deploy(w)
  PROVE  UNCHANGED <<svc, migrating>>
  BY DEF Deploy, CheckService, CreateInEcs, CreateInEcsFails, Lookup, Read, Put,
         Conflict, CreateServiceFails, Skip, ReadToUpdate, UpdateServiceListeners,
         UpdateServiceLimits, UpdateFails

LEMMA MigrateFrame == Migrate => UNCHANGED <<ecs, deploys>>
  BY DEF Migrate, ListServices, MigrationReads, MigrateLimits, MigrateLimitsFails,
         SetApiVersion, SetApiVersionFails, MigrationStops

\* Only four actions write the record.
LEMMA Writes ==
  ASSUME [Next]_vars
  PROVE  \/ \E w \in Deploys : Put(w) \/ UpdateServiceListeners(w) \/ UpdateServiceLimits(w)
         \/ MigrateLimits \/ SetApiVersion
         \/ db' = db
<1>1. ASSUME NEW w \in Deploys, Deploy(w)
      PROVE  Put(w) \/ UpdateServiceListeners(w) \/ UpdateServiceLimits(w) \/ db' = db
  BY <1>1 DEF Deploy, CheckService, CreateInEcs, CreateInEcsFails, Lookup, Read,
     Conflict, CreateServiceFails, Skip, ReadToUpdate, UpdateFails
<1>2. ASSUME Migrate PROVE MigrateLimits \/ SetApiVersion \/ db' = db
  BY <1>2 DEF Migrate, ListServices, MigrationReads, MigrateLimitsFails,
     SetApiVersionFails, MigrationStops
<1> QED
  BY <1>1, <1>2 DEF Next, vars

LEMMA TypedStep == TypeOK /\ Attempts /\ [Next]_vars => TypeOK'
<1> SUFFICES ASSUME TypeOK, Attempts, [Next]_vars PROVE TypeOK'
  OBVIOUS
<1>0. Deploys \subseteq Writers /\ Before \in Writers
  BY DEF Writers
<1>1. db' \in Records
  <2>1. ASSUME NEW w \in Deploys,
               Put(w) \/ UpdateServiceListeners(w) \/ UpdateServiceLimits(w)
        PROVE  db' \in Records
    <3>1. ds[w] \in Records /\ svc[w] \in Services /\ w \in Writers
      BY <1>0 DEF TypeOK
    <3>2. \/ db' = withService(ds[w], svc[w], w) \/ db' = withLimits(ds[w], svc[w], w)
          \/ db' = withListeners(ds[w], svc[w], w)
      BY <2>1 DEF Put, UpdateServiceListeners, UpdateServiceLimits
    <3>3. withService(ds[w], svc[w], w) \in Records
      BY <3>1, WithService
    <3>4. withListeners(ds[w], svc[w], w) \in Records
      BY <3>1, WithListeners
    <3>5. withLimits(ds[w], svc[w], w) \in Records
      BY <3>1, WithLimits
    <3> QED
      BY <3>2, <3>3, <3>4, <3>5
  <2>2. ASSUME MigrateLimits PROVE db' \in Records
    <3>1. PICK s \in Services : db' = withLimits(mds, s, Before)
      BY <2>2 DEF MigrateLimits, TypeOK
    <3>2. mds \in Records
      BY DEF TypeOK
    <3> QED
      BY <1>0, <3>1, <3>2, WithLimits
  <2>3. ASSUME SetApiVersion PROVE db' \in Records
    BY <2>3, WithApi DEF SetApiVersion, TypeOK
  <2> QED
    BY <2>1, <2>2, <2>3, Writes DEF TypeOK
<1>2. ASSUME NEW w \in Deploys, Deploy(w) PROVE TypeOK'
  <2>1. pc' \in [Deploys -> DeployPcs]
    BY <1>2 DEF Deploy, CheckService, CreateInEcs, CreateInEcsFails, Lookup, Read, Put,
       Conflict, CreateServiceFails, Skip, ReadToUpdate, UpdateServiceListeners,
       UpdateServiceLimits, UpdateFails, goes, TypeOK, DeployPcs
  <2>2. ds' \in [Deploys -> Records]
    BY <1>2 DEF Deploy, CheckService, CreateInEcs, CreateInEcsFails, Lookup, Read,
       Put, Conflict, CreateServiceFails, Skip, ReadToUpdate, UpdateServiceListeners,
       UpdateServiceLimits, UpdateFails, TypeOK
  <2>3. attempt' \in [Deploys -> 0..(MaxTries + 1)]
    <3>1. CASE Read(w)
      BY <3>1, Tries DEF Read, TypeOK
    <3>2. CASE Conflict(w)
      <4>1. attempt[w] + 1 \in 0..(MaxTries + 1)
        BY <3>2, Tries DEF Conflict, goes, Attempts
      <4> QED
        BY <3>2, <4>1 DEF Conflict, TypeOK
    <3>3. CASE ~Read(w) /\ ~Conflict(w)
      BY <1>2, <3>3 DEF Deploy, CheckService, CreateInEcs, CreateInEcsFails, Lookup,
         Put, CreateServiceFails, Skip, ReadToUpdate, UpdateServiceListeners,
         UpdateServiceLimits, UpdateFails, TypeOK
    <3> QED
      BY <3>1, <3>2, <3>3
  <2>4. ecs' \subseteq Services
    BY <1>2 DEF Deploy, CheckService, CreateInEcs, CreateInEcsFails, Lookup, Read, Put,
       Conflict, CreateServiceFails, Skip, ReadToUpdate, UpdateServiceListeners,
       UpdateServiceLimits, UpdateFails, TypeOK
  <2> QED
    BY <1>1, <1>2, <2>1, <2>2, <2>3, <2>4, DeployFrame DEF TypeOK, migrating
<1>3. ASSUME Migrate PROVE TypeOK'
  <2>1. mds' \in Records /\ todo' \subseteq Services
        /\ migration' \in {"list", "next", "put", "done", "failed"}
    BY <1>3 DEF Migrate, ListServices, MigrationReads, MigrateLimits,
       MigrateLimitsFails, SetApiVersion, SetApiVersionFails, MigrationStops,
       migrationGoes, TypeOK
  <2> QED
    BY <1>1, <1>3, <2>1, MigrateFrame DEF TypeOK, deploys
<1>4. CASE UNCHANGED vars
  BY <1>4 DEF vars, deploys, migrating, TypeOK
<1> QED
  BY <1>2, <1>3, <1>4 DEF Next

--------------------------------------------------------------------------------
(* The strengthening is inductive *)

LEMMA AttemptsStep ==
  ASSUME TypeOK, Attempts, [Next]_vars
  PROVE  Attempts'
<1>1. ASSUME NEW w \in Deploys, Deploy(w) PROVE Attempts'
  <2>1. ASSUME NEW v \in Deploys, v # w PROVE pc'[v] = pc[v] /\ attempt'[v] = attempt[v]
    BY <1>1, <2>1 DEF Deploy, CheckService, CreateInEcs, CreateInEcsFails, Lookup, Read,
       Put, Conflict, CreateServiceFails, Skip, ReadToUpdate, UpdateServiceListeners,
       UpdateServiceLimits, UpdateFails, goes, TypeOK
  <2>2. /\ pc'[w] \in {"idle", "create", "lookup", "read"} => attempt'[w] = 0
        /\ pc'[w] = "put" => attempt'[w] \in 1..MaxTries
    <3>1. CASE Read(w)
      BY <3>1, Tries DEF Read, goes, TypeOK
    <3>2. CASE Conflict(w)
      <4>1. pc[w] = "put" /\ attempt[w] \in 1..MaxTries /\ attempt'[w] = attempt[w] + 1
        BY <3>2 DEF Conflict, goes, Attempts, TypeOK
      <4>2. pc'[w] = (IF attempt[w] = MaxTries THEN "update" ELSE "put")
        BY <3>2 DEF Conflict, goes, TypeOK
      <4> QED
        BY <4>1, <4>2, Tries
    <3>3. CASE ~Read(w) /\ ~Conflict(w)
      <4>1. attempt' = attempt
        BY <1>1, <3>3 DEF Deploy, CheckService, CreateInEcs, CreateInEcsFails, Lookup,
           Put, CreateServiceFails, Skip, ReadToUpdate, UpdateServiceListeners,
           UpdateServiceLimits, UpdateFails
      <4>2. \/ pc[w] \in {"idle", "create", "lookup"} /\ pc'[w] # "put"
            \/ pc'[w] \in {"update", "putListeners", "limits", "putLimits", "done", "failed"}
        BY <1>1, <3>3 DEF Deploy, CheckService, CreateInEcs, CreateInEcsFails, Lookup,
           Put, CreateServiceFails, Skip, ReadToUpdate, UpdateServiceListeners,
           UpdateServiceLimits, UpdateFails, goes, TypeOK
      <4> QED
        BY <4>1, <4>2 DEF Attempts
    <3> QED
      BY <3>1, <3>2, <3>3
  <2> QED
    BY <2>1, <2>2 DEF Attempts
<1>2. ASSUME Migrate \/ UNCHANGED vars PROVE Attempts'
  BY <1>2, MigrateFrame DEF vars, deploys, Attempts
<1> QED
  BY <1>1, <1>2 DEF Next

\* A step leaves the record alone, or gives it the next version and keeps
\* every service that is registered.
WriteStep ==
    /\ db' = db \/ db'.version = db.version + 1
    /\ \A s \in Services : registered(db, s) => registered(db', s)

LEMMA WriteSteps ==
  ASSUME RegistryInv, [Next]_vars
  PROVE  WriteStep
<1>0. Deploys \subseteq Writers /\ Before \in Writers /\ None \notin Writers
  BY NoneAssumption DEF Writers
<1>1. db \in Records
  BY DEF RegistryInv, TypeOK
<1>1a. db.limits \in [Services -> Writers \union {None}]
  BY <1>1 DEF Records
<1>2. ASSUME NEW w \in Deploys,
             Put(w) \/ UpdateServiceListeners(w) \/ UpdateServiceLimits(w)
      PROVE  WriteStep
  <2>1. ds[w] = db /\ svc[w] \in Services /\ w \in Writers
    BY <1>0, <1>2 DEF RegistryInv, TypeOK, Copies, Snapshot, Put,
       UpdateServiceListeners, UpdateServiceLimits, goes
  <2>2. \/ db' = withService(db, svc[w], w) \/ db' = withLimits(db, svc[w], w)
        \/ db' = withListeners(db, svc[w], w)
    BY <1>2, <2>1 DEF Put, UpdateServiceListeners, UpdateServiceLimits
  <2>3. /\ db'.version = db.version + 1
        /\ db'.limits = [db.limits EXCEPT ![svc[w]] = w] \/ db'.limits = db.limits
    <3>1. CASE db' = withService(db, svc[w], w)
      <4>1. db'.version = db.version + 1
        BY <1>1, <2>1, <3>1, WithService
      <4>2. db'.limits = [db.limits EXCEPT ![svc[w]] = w]
        BY <3>1 DEF withService, changed
      <4> QED
        BY <4>1, <4>2
    <3>2. CASE db' = withLimits(db, svc[w], w)
      BY <1>1, <2>1, <3>2, WithLimits
    <3>3. CASE db' = withListeners(db, svc[w], w)
      BY <1>1, <2>1, <3>3, WithListeners
    <3> QED
      BY <2>2, <3>1, <3>2, <3>3
  <2> QED
    BY <1>0, <1>1a, <2>1, <2>3 DEF WriteStep, registered
<1>3. ASSUME MigrateLimits PROVE WriteStep
  <2>1. mds = db
    BY <1>3 DEF RegistryInv, Copies, Snapshot, MigrateLimits, migrationGoes
  <2>2. PICK s \in Services : db' = withLimits(db, s, Before)
    BY <1>3, <2>1 DEF MigrateLimits, RegistryInv, TypeOK
  <2>3. db'.version = db.version + 1 /\ db'.limits = [db.limits EXCEPT ![s] = Before]
    BY <1>0, <1>1, <2>2, WithLimits
  <2> QED
    BY <1>0, <1>1a, <2>3 DEF WriteStep, registered
<1>4. ASSUME SetApiVersion PROVE WriteStep
  <2>1. mds = db
    BY <1>4 DEF RegistryInv, Copies, Snapshot, SetApiVersion, migrationGoes
  <2>2. db' = withApi(db)
    BY <1>4, <2>1 DEF SetApiVersion
  <2> QED
    BY <1>1, <2>2, WithApi DEF WriteStep, registered
<1>5. CASE db' = db
  BY <1>5 DEF WriteStep
<1> QED
  BY <1>2, <1>3, <1>4, <1>5, Writes

LEMMA CopiesStep ==
  ASSUME RegistryInv, [Next]_vars
  PROVE  Copies'
<1>0. TypeOK /\ TypeOK' /\ WriteStep /\ Copies
  BY TypedStep, WriteSteps DEF RegistryInv
<1>1. \A r \in Records : Snapshot(r) =>
          r.version <= db'.version /\ (r.version = db'.version => r = db')
  BY <1>0 DEF TypeOK, Records, WriteStep, Snapshot
<1>2. db.version \in Nat
  BY <1>0 DEF TypeOK, Records
<1>3. ASSUME NEW w \in Deploys, Deploy(w) PROVE Copies'
  <2>0. svc' = svc /\ migration' = migration /\ mds' = mds
    BY <1>3, DeployFrame DEF migrating
  <2>1. ASSUME NEW v \in Deploys, v # w PROVE pc'[v] = pc[v] /\ ds'[v] = ds[v]
    BY <1>0, <1>3, <2>1 DEF Deploy, CheckService, CreateInEcs, CreateInEcsFails, Lookup,
       Read, Put, Conflict, CreateServiceFails, Skip, ReadToUpdate,
       UpdateServiceListeners, UpdateServiceLimits, UpdateFails, goes, TypeOK
  <2>2. \/ pc'[w] \notin {"put", "putListeners", "putLimits"}
        \/ /\ ds'[w] = db /\ db' = db
           /\ pc'[w] \in {"putListeners", "putLimits"} => registered(db, svc[w])
    BY <1>0, <1>3 DEF Deploy, CheckService, CreateInEcs, CreateInEcsFails, Lookup, Read,
       Put, Conflict, CreateServiceFails, Skip, ReadToUpdate, UpdateServiceListeners,
       UpdateServiceLimits, UpdateFails, goes, TypeOK
  <2>3. /\ pc'[w] \in {"put", "putListeners", "putLimits"} => Snapshot(ds[w])'
        /\ pc'[w] \in {"putListeners", "putLimits"} => registered(ds[w], svc[w])'
    BY <1>2, <2>0, <2>2 DEF Snapshot, registered
  <2>4. ASSUME NEW v \in Deploys, v # w
        PROVE  /\ pc'[v] \in {"put", "putListeners", "putLimits"} => Snapshot(ds[v])'
               /\ pc'[v] \in {"putListeners", "putLimits"} => registered(ds[v], svc[v])'
    BY <1>0, <1>1, <2>0, <2>1, <2>4 DEF Copies, Snapshot, registered, TypeOK
  <2>5. migration' = "put" => Snapshot(mds)'
    BY <1>0, <1>1, <2>0 DEF Copies, Snapshot, TypeOK
  <2> QED
    BY <2>3, <2>4, <2>5 DEF Copies
<1>4. ASSUME Migrate PROVE Copies'
  <2>1. ASSUME NEW v \in Deploys
        PROVE  /\ pc'[v] \in {"put", "putListeners", "putLimits"} => Snapshot(ds[v])'
               /\ pc'[v] \in {"putListeners", "putLimits"} => registered(ds[v], svc[v])'
    BY <1>0, <1>1, <1>4, MigrateFrame DEF deploys, Copies, Snapshot, registered, TypeOK
  <2>2. migration' = "put" => mds' = db /\ db' = db
    BY <1>4 DEF Migrate, ListServices, MigrationReads, MigrateLimits, MigrateLimitsFails,
       SetApiVersion, SetApiVersionFails, MigrationStops, migrationGoes
  <2> QED
    BY <1>2, <2>1, <2>2 DEF Copies, Snapshot
<1>5. CASE UNCHANGED vars
  BY <1>0, <1>5 DEF vars, deploys, migrating, Copies, Snapshot, registered
<1> QED
  BY <1>3, <1>4, <1>5 DEF Next

LEMMA RegisteredStep ==
  ASSUME RegistryInv, [Next]_vars
  PROVE  RegisteredUnlessOverrun'
<1>0. TypeOK /\ WriteStep /\ Attempts /\ RegisteredUnlessOverrun
  BY WriteSteps DEF RegistryInv
<1>1. ASSUME NEW w \in Deploys, Deploy(w) PROVE RegisteredUnlessOverrun'
  <2>0. svc' = svc
    BY <1>1, DeployFrame
  <2>1. ASSUME NEW v \in Deploys, v # w
        PROVE  attempt'[v] \in 1..MaxTries /\ pc'[v] \notin {"put", "failed"}
                   => registered(db', svc'[v])
    <3>1. pc'[v] = pc[v] /\ attempt'[v] = attempt[v]
      BY <1>0, <1>1, <2>1 DEF Deploy, CheckService, CreateInEcs, CreateInEcsFails,
         Lookup, Read, Put, Conflict, CreateServiceFails, Skip, ReadToUpdate,
         UpdateServiceListeners, UpdateServiceLimits, UpdateFails, goes, TypeOK
    <3> QED
      BY <1>0, <2>0, <3>1 DEF RegisteredUnlessOverrun, WriteStep, TypeOK
  <2>2. attempt'[w] \in 1..MaxTries /\ pc'[w] \notin {"put", "failed"}
            => registered(db', svc'[w])
    <3>1. CASE Put(w)
      <4>1. ds[w] \in Records /\ svc[w] \in Services /\ w \in Writers /\ w # None
        BY <1>0, NoneAssumption DEF TypeOK, Writers
      <4>2. db'.limits = [ds[w].limits EXCEPT ![svc[w]] = w]
        BY <3>1, <4>1, WithService DEF Put
      <4>3. ds[w].limits \in [Services -> Writers \union {None}]
        BY <4>1 DEF Records
      <4> QED
        BY <2>0, <4>1, <4>2, <4>3 DEF registered
    <3>2. CASE Read(w)
      BY <1>0, <3>2 DEF Read, goes, TypeOK
    <3>3. CASE Conflict(w)
      <4>1. attempt[w] \in 1..MaxTries /\ attempt'[w] = attempt[w] + 1
        BY <1>0, <3>3 DEF Conflict, goes, Attempts, TypeOK
      <4>2. pc'[w] = (IF attempt[w] = MaxTries THEN "update" ELSE "put")
        BY <1>0, <3>3 DEF Conflict, goes, TypeOK
      <4> QED
        BY <4>1, <4>2, Tries
    <3>4. CASE ~Put(w) /\ ~Read(w) /\ ~Conflict(w)
      <4>1. attempt' = attempt
        BY <1>1, <3>4 DEF Deploy, CheckService, CreateInEcs, CreateInEcsFails, Lookup,
           CreateServiceFails, Skip, ReadToUpdate, UpdateServiceListeners,
           UpdateServiceLimits, UpdateFails
      <4>2. pc'[w] \notin {"put", "failed"} => pc[w] \notin {"put", "failed"}
        BY <1>0, <1>1, <3>4 DEF Deploy, CheckService, CreateInEcs, CreateInEcsFails,
           Lookup, CreateServiceFails, Skip, ReadToUpdate, UpdateServiceListeners,
           UpdateServiceLimits, UpdateFails, goes, TypeOK
      <4> QED
        BY <1>0, <2>0, <4>1, <4>2 DEF RegisteredUnlessOverrun, WriteStep, TypeOK
    <3> QED
      BY <3>1, <3>2, <3>3, <3>4
  <2> QED
    BY <2>1, <2>2 DEF RegisteredUnlessOverrun, registered
<1>2. ASSUME Migrate PROVE RegisteredUnlessOverrun'
  BY <1>0, <1>2, MigrateFrame
     DEF deploys, RegisteredUnlessOverrun, WriteStep, registered, TypeOK
<1>3. CASE UNCHANGED vars
  BY <1>0, <1>3 DEF vars, deploys, RegisteredUnlessOverrun, registered
<1> QED
  BY <1>1, <1>2, <1>3 DEF Next

LEMMA RegistryInvHolds == Spec => []RegistryInv
<1>1. Init => RegistryInv
  <2> SUFFICES ASSUME Init PROVE RegistryInv
    OBVIOUS
  <2>1. Copies /\ Attempts /\ RegisteredUnlessOverrun
    BY DEF Init, Copies, Attempts, RegisteredUnlessOverrun
  <2> QED
    BY <2>1, TypedInit DEF RegistryInv
<1>2. RegistryInv /\ [Next]_vars => RegistryInv'
  BY TypedStep, AttemptsStep, CopiesStep, RegisteredStep DEF RegistryInv
<1> QED
  BY <1>1, <1>2, PTL DEF Spec

--------------------------------------------------------------------------------
(* The theorems *)

\* Every variable keeps its type, the count of the attempts included.
THEOREM TypeCorrect == Spec => []TypeOK
<1>1. RegistryInv => TypeOK
  BY DEF RegistryInv
<1> QED
  BY RegistryInvHolds, <1>1, PTL

\* When CreateService returned nil the service is registered, unless it lost
\* the race for the record at every attempt.
THEOREM RegisteredOrOverrun == Spec => []RegisteredUnlessOverrun
<1>1. RegistryInv => RegisteredUnlessOverrun
  BY DEF RegistryInv
<1> QED
  BY RegistryInvHolds, <1>1, PTL

\* No write is lost: every put changes one entry of the registry and nothing
\* that another writer put there.
THEOREM KeepsPromise == Spec => PromiseSpec
<1> USE DEF Promise!entries
<1>0. Deploys \subseteq Writers /\ Before \in Writers
  BY DEF Writers
<1>1. Init => Promise!Init
  <2> SUFFICES ASSUME Init PROVE Promise!Init
    OBVIOUS
  <2>1. db \in Records
    BY TypedInit DEF TypeOK
  <2> QED
    BY <2>1 DEF Init, Promise!Init, Records
<1>2. RegistryInv /\ [Next]_vars
          => [Promise!Next]_<<db.limits, db.listeners, db.api>>
  <2> SUFFICES ASSUME RegistryInv, [Next]_vars
               PROVE  [Promise!Next]_<<db.limits, db.listeners, db.api>>
    OBVIOUS
  <2>0. db \in Records
    BY DEF RegistryInv, TypeOK
  <2>1. ASSUME NEW w \in Deploys, Put(w) PROVE Promise!Next
    <3>1. ds[w] = db /\ svc[w] \in Services /\ w \in Writers
      BY <1>0, <2>1 DEF RegistryInv, TypeOK, Copies, Snapshot, Put, goes
    <3>2. db' = withService(db, svc[w], w)
      BY <2>1, <3>1 DEF Put
    <3>3. /\ db'.limits = [db.limits EXCEPT ![svc[w]] = w]
          /\ db'.listeners = [db.listeners EXCEPT ![svc[w]] = None]
          /\ db'.api = db.api
      BY <2>0, <3>1, <3>2, WithService
    <3> QED
      BY <3>1, <3>3 DEF Promise!Next, Promise!Register
  <2>2. ASSUME NEW w \in Deploys, UpdateServiceListeners(w) PROVE Promise!Next
    <3>1. ds[w] = db /\ svc[w] \in Services /\ w \in Writers /\ registered(db, svc[w])
      BY <1>0, <2>2 DEF RegistryInv, TypeOK, Copies, Snapshot, UpdateServiceListeners, goes
    <3>2. db' = withListeners(db, svc[w], w)
      BY <2>2, <3>1 DEF UpdateServiceListeners
    <3> QED
      BY <2>0, <3>1, <3>2, WithListeners
         DEF Promise!Next, Promise!UpdateListeners, registered
  <2>3. ASSUME NEW w \in Deploys, UpdateServiceLimits(w) PROVE Promise!Next
    <3>1. ds[w] = db /\ svc[w] \in Services /\ w \in Writers /\ registered(db, svc[w])
      BY <1>0, <2>3 DEF RegistryInv, TypeOK, Copies, Snapshot, UpdateServiceLimits, goes
    <3>2. db' = withLimits(db, svc[w], w)
      BY <2>3, <3>1 DEF UpdateServiceLimits
    <3> QED
      BY <2>0, <3>1, <3>2, WithLimits
         DEF Promise!Next, Promise!UpdateLimits, registered
  <2>4. ASSUME MigrateLimits PROVE Promise!Next
    <3>1. mds = db
      BY <2>4 DEF RegistryInv, Copies, Snapshot, MigrateLimits, migrationGoes
    <3>2. PICK s \in Services : registered(db, s) /\ db' = withLimits(db, s, Before)
      BY <2>4, <3>1 DEF MigrateLimits, RegistryInv, TypeOK
    <3> QED
      BY <1>0, <2>0, <3>2, WithLimits DEF Promise!Next, Promise!UpdateLimits, registered
  <2>5. ASSUME SetApiVersion PROVE Promise!Next
    <3>1. db' = withApi(db)
      BY <2>5 DEF RegistryInv, Copies, Snapshot, SetApiVersion, migrationGoes
    <3> QED
      BY <2>0, <3>1, WithApi DEF Promise!Next, Promise!SetApiVersion
  <2> QED
    BY <2>1, <2>2, <2>3, <2>4, <2>5, Writes
<1> QED
  BY <1>1, <1>2, RegistryInvHolds, PTL DEF Spec, PromiseSpec, Promise!Spec
================================================================================
