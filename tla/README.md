# Verification of the multi-cloud projects

This directory holds TLA+ models of the programs in this repository, the TLC
configurations that model-check them, and proofs for TLAPS. `PROJECT.json`
lists components, runs, mutants, hazards, findings and theorems, and maps every
definition that stands for code to the lines it stands for.

- check a run: `tlc -config MCMultiDownload_faults.cfg MCMultiDownload.tla`
- check the proofs of a module: `tlapm MultiDownloadProofs.tla`

1. [The repository](#1-the-repository)
2. [Inventory](#2-inventory)
3. [Multi-source download](#3-multi-source-download)
4. [Deployment lifecycle](#4-deployment-lifecycle)
5. [Service registry](#5-service-registry)
6. [Widgets](#6-widgets)
7. [Pages](#7-pages)
8. [Mutants](#8-mutants)
9. [Hazards](#9-hazards)
10. [Plan](#10-plan)

## 1. The repository

The repository collects 37 projects that do not call each other. Most of them
are templates (CloudFormation, ARM, Terraform, Packer, Ansible), samples, or
copies of libraries. Two of them are programs of size with state of their own
and concurrency over it, and they come first:

- **ecs-deploy** (`src/Continuous Deployment for AWS ECS`, Go): an API server
  that deploys services to AWS ECS and keeps what it did in one DynamoDB table.
- **the file sharing library** (`src/Sharing files among Multi Cloud storage`,
  Java): one interface to several cloud storages, with OAuth 2 and
  multi-threaded transfers.

The third subject is the **code in the browser** of several projects: the
widgets of Bootstrap they are built from, a chat page that fails over between
the brokers of several clouds, a page of albums, sortable tables, and the
validation of forms. Nothing runs in parallel there, but clicks, timers, ends of
transitions and answers of servers arrive in any order, and every callback
finds a page that others have changed since it was registered.

Four smaller programs have an algorithm or a protocol worth a small model
(striping with parity, the CloudFormation resource handler, the crawler worker,
the HTCondor autoscaler); they come later in the plan. The rest has no state,
or state that only a framework or a cloud changes; `PROJECT.json` gives the
reason for each component.

## 2. Inventory

### 2.1 ecs-deploy

All servers, goroutines and restarts meet in **one DynamoDB table** (partition
key `ServiceName`, sort key `Time`). No lock protects it: a writer reads a row,
changes its copy, and puts the whole row back, in some places under the
condition that the `Version` is the one it read, in others without.

| component | state | operations | interacts through |
|---|---|---|---|
| Deployment lifecycle (`api/controller.go`, `provider/ecs/ecs.go`, `service/service.go`) | one row per deployment: status, version; the ECS service's task definition; goroutines in memory | `Deploy`, `LaunchWaitUntilServicesStable`, `Rollback`, `SetDeploymentStatus`, scaling and manual tasks, `Resume` | rows of the table; ECS |
| Service registry (`service/service.go`, `api/migration.go`) | the row `__SERVICES`: all services, their limits and listeners, the API version | `CreateService`, `UpdateServiceLimits`, `UpdateServiceListeners`, `SetApiVersion`, `Migration.run` | the row; `Deploy` |
| Cluster autoscaling (`api/autoscaling.go`, `provider/ecs/autoscaling.go`) | the rows `__CLUSTERS` (snapshots of free resources and scaling operations) and `__AUTOSCALINGPULL` (a lease); desired capacity in AWS; pending operations in goroutines | `processEcsMessage`, `launchProcessPendingScalingOp`, `processLifecycleMessage`, the polling loop | unconditional puts; looks for running deployments |
| Service autoscaling policies (`api/controller.go`, `cloudwatch.go`) | policy names in the last deployment record | `putServiceAutoscaling`, `deleteServiceAutoscalingPolicy` | rewrites the last record |
| Load balancers, parameter store, IAM, ECR | in AWS | wrappers of AWS calls | called by `Deploy` in sequence |
| HTTP API, SAML, export, command line tools | sessions and tokens kept by libraries | request handling, rendering | calls the above |

What is hard: a `Deploy` call holds what it read over a dozen AWS calls; the
goroutine holds its copy up to a quarter of an hour; several servers may run;
a restart loses goroutines; many errors are ignored; ECS and the table are
written one after the other.

What makes it correct: an outcome in the table is final and is the outcome of
what ran; every deployment gets an outcome; a rollback follows a recorded
failure and leads to a recorded success; a deployed service is registered; no
write to a shared row undoes another; the autoscaler does not scale twice for
one reason nor take away capacity under a deployment.

### 2.2 The file sharing library

| component | state | operations | interacts through |
|---|---|---|---|
| Multi-source download (`filesystem/FileDownload*.java`, `DataChunk.java`) | a blocking queue of chunks, a pool of threads, one file | `operationExecute`, `run`, `write`, `abort`, `terminate` | the queue, the writer, interrupts |
| Multi-destination upload (`filesystem/FileUpload*.java`) | one thread per destination; header, parameter and property maps of the operation, shared by the threads | `operationExecute`, `run`, `getPreparedRequest`, `getParsedSessionResponse`, `abort` | the shared maps, under the monitor of the operation |
| Facade and operations (`MultiCloud.java`, `filesystem/Operation.java`) | references `op` and `auth`, the last error, lists of sources and destinations | 18 operations, `abortOperation`, `abortAuthorization`, `refreshAccount` | one lock, released between the test and the assignment |
| OAuth 2 (`oauth2/`) | grant, token, error, `ready`; redirect server and token request threads | `authorize`, `onRedirect`, `obtainAccessToken`, `getToken`, `close` | a wait object, joins |
| Credential store, accounts, clouds (`utils/`) | maps, serialised to files as a whole | store, retrieve, delete, load, save | called by facade and OAuth 2 |

What is hard: chunks that change hands between threads; an abort from the
outside at any moment; exceptions and interrupts that are swallowed; a success that is
inferred from the emptiness of a queue or the absence of a flag; check-then-act
over a released lock; writes of a file that a crash cuts short.

What makes it correct: a chunk has one owner; success means a complete file;
failure has a cause; the operation returns; abort ends it; the file stays as it is
after it returned; at most one operation runs per facade.

### 2.3 Code in the browser

| component | state | operations | interacts through |
|---|---|---|---|
| Widgets of Bootstrap (`js/bootstrap.js` of the Azure DevOps project) | classes and attributes of elements; flags of an instance per element; timers, and handlers that wait for the end of a transition | methods, clicks, keys, mouse and focus, ends of transitions | the document: a method reads the classes that others wrote |
| Chat over Solace brokers (`MultiCloudChat.js`) | sessions, flags per cloud, whether the topic is subscribed, a drawing | events of sessions, subscribe, unsubscribe, connect, disconnect, loading of images | flags of the clouds; the messaging library; brokers that refuse a request or answer too late |
| Albums page (`albums.js`, `app.js`) and its server (`AlbumController.java`) | the array on the page, the editor in place, the dialog, the route; the table of albums | list, save, delete, edit in place, change of the route | requests to the server and their callbacks |
| Sortable tables (`jquery.tablesorter.js`) | cache of rows, sort list, counts and classes of the headers, timers; the defaults shared by all tables | click, shift and click, `sorton`, `update`, `updateCell`, `appendCache` | timers; the shared defaults; the rows, which the page changes |
| Form validation (`jquery.validate.js`, `jquery.validate.unobtrusive.js`) | rules from attributes and the validator's copy of them, what it found wrong, messages and their classes, the summary | `parse`, checks on keys, on leaving a field and on submit, `validate`, callbacks for errors, success, summary and reset | keys, focus and submit of the form; fields the page adds |

What is hard: an operation takes two transitions and can be overtaken between
them; handlers pile up on one element; a flag is set before a listener may
prevent what it stands for; an instance is thrown away while its handlers wait;
timers were set for a state that is gone; answers come in another order than
requests.

What makes it correct: when nothing moves any more, what the user sees agrees
with what the code believes and with what the server, the broker or the form
holds; what waits is served; what covers the page goes away.

### 2.4 Smaller programs

| component | state | what makes it correct |
|---|---|---|
| Striping with parity (`Distributed storage for Multi-Cloud/multicloudapis/views.py`) | chunks on two clouds, their exclusive or on a third | joining gives back the file that was split, for every size, also with one cloud missing |
| CloudFormation handler (`CloudFormation Multi-Cloud/lambda`) | resources on two other clouds, identifiers kept by CloudFormation | one answer per request; a resource exists exactly while its stack wants it |
| Crawler worker (`application/worker/main.go`) | a queue and a table | one movie per message |
| HTCondor autoscaler (`htcondor/autoscaler/autoscaler.py`) | none between runs | no busy node is deleted; the size asked for is reached |

### 2.5 Modules

| module | role |
|---|---|
| `MultiDownload`, `DownloadPromise` | download: detailed and abstract specification |
| `DeployLifecycle`, `DeployHistory` | deployments of one service: detailed and abstract |
| `ServiceRegistry`, `RegistryPromise` | the registry row: detailed and abstract |
| `Alert`, `ButtonGroup`, `Carousel`, `Collapse`, `Dropdown`, `Modal`, `Tooltip`, `ScrollSpy`, `Tab` | one widget each |
| `MultiCloudChat`, `AlbumsPage`, `TableSorter`, `FormValidation` | one page or plug-in each |
| `MCWidgets`, `MCApps` | the widgets and the pages, composed for TLC |
| `WidgetsProofs` | theorems about all nine widgets |
| the other `*Proofs` | theorems about the module of that name |
| `MC*` and `MC*_<run>.cfg` | instances for TLC |

## 3. Multi-source download

### 3.1 Model

`MultiDownload` has three kinds of actors: the caller in `operationExecute`
(`Main`), one thread per source (`Worker(w)`), and another caller in `abort()`
(`Abort`). The interleaving is at the level of single calls on shared objects:
`queue.isEmpty()`, `queue.take()`, `queue.put()`, `client.execute()`, the read
of the body, `writer.write()`, `thread.join()`, `writer.close()`. In particular the test for emptiness (`Leave`,
`SeeWork`) and the blocking `take()` (`Take`, `TakeInterrupted`) are separate
actions.

| code | model |
|---|---|
| `FileDownloadOp` fields `queue`, `pool`, `isAborted`, the result | `queue`, `pool`, `isAborted`, `outcome` |
| the sources that pass the test of size and checksum | `Prepare` keeps any nonempty subset |
| `prepareRequest(null)` that throws for one of them | `RequestUnprepared`: the call returns before any thread is started |
| the loop of joins; an `InterruptedException` it swallows | `joinAt`, `Join`; `JoinInterrupted`, and `skipped` for the threads it leaves running |
| the writer, closed after the joins | `open`, `CloseWriter` |
| chunk size and number of chunks | `NumChunks`; bytes are abstracted to the chunk they belong to |
| `FileDownloadThread.terminate`, `failCount`, the request object's headers | `terminate`, `failCount`, `header` |
| the position in `run()` | `pc`: check, take, request, put, read |
| a swallowed `IOException` or `InterruptedException` | `RequestFails`, `ReadFails`, `TakeInterrupted`, `PutInterrupted` |
| the iterator of `abort()` and its `ConcurrentModificationException` | `cursor`, `seenSize`, `AbortThrows` |

Three details of the code are kept because properties depend on them. The
request object is reused by a thread, so a `Range` header left behind by a
failed `execute()` accompanies the next one (`header` is a set; the server may
answer any of them). The writer writes its whole buffer whatever part of it was
read (`Mixed`), and nothing once it is closed: what a thread does that an
interrupt left behind is lost without a word. An exception that `run()` does not
catch ends the thread (`NoEntity`).

`Faults` says what may go wrong around the program, a request that cannot be
prepared and an interrupt of the caller among it; a run or a theorem states the
faults it allows. `abort()` may also come when the operation has returned, for
whoever calls it holds a reference to it. `skipped` is history: no guard reads it.

### 3.2 Runs

| run | instance | shows |
|---|---|---|
| `download_faults` | 2 threads, 2 chunks, threshold 2, all faults, abort at any moment, fair; 599 thousand states | `TypeOK`, `ChunkHasOneOwner`, `FailureHasACause`, `QuietAfterReturn`; liveness `SettlesOrStarves`, `AbortEndsDownload` |
| `download_clean` | 3 threads, 3 chunks, threshold 2, refusals only, symmetric threads; 34 thousand states | `SuccessIsComplete`, `StoredInPlace`, and `PromiseSpec`: the threads implement `DownloadPromise` |
| `download_lost` | 2 threads, 2 chunks, only connections fail | `SuccessIsComplete` is violated |
| `download_hang` | 2 threads, 2 chunks, no fault at all, fair | `DownloadReturns` is violated |

Bounds. The threads differ only in where they are; what can go wrong between
threads shows with two of them. With two chunks both can hold one while the queue is
empty, one can wait for what the other puts back, and one can starve; in
`download_clean` three threads contend for three chunks. Two threads are also what a
walk of `abort()` and a loop of joins need to be cut short in their middle. A threshold
of 2 distinguishes the first refusal from the last one.
`FAIL_THRESHOLD` is a constant so that the proofs hold for its value in the code.
Threads are interchangeable, so `download_clean`, a safety run, uses symmetry;
the run with liveness does not.

Fairness. `Main`, every `Worker(w)` and the abort in progress are weakly fair:
the JVM schedules runnable threads, and a request gets an answer or an error.
Nothing is assumed of the calling of `abort()`, and `take()` on an empty queue is
not enabled, so it may block for ever. `SettlesOrStarves` therefore says exactly
what holds: each thread ends, or blocks in `take()` on a queue that stays empty.
The latter is the finding `download_hang`. A thread that was never started, since a
request could not be prepared, is the third case. What nothing in the program makes
happen (`MainDisturbed`) is not fair.

CHECK_DEADLOCK is off because a finished download stops, as does one that hangs.

### 3.3 Findings

- `download_lost`: `run()` takes a chunk and swallows an `IOException` without
  putting it back; `operationExecute` takes the empty queue for success. One
  broken connection gives a file with a hole and a success.
- `download_hang`: a thread sees a last chunk, another takes it, the first
  blocks in `take()` for ever and `join()` never returns. No fault is needed.

### 3.4 Proofs

`MultiDownloadProofs` proves for every set of sources, every number of chunks,
every threshold and, where the table does not say otherwise, all faults:

| theorem | says |
|---|---|
| `TypeCorrect` | `[]TypeOK`; a thread is refused at most `FAIL_THRESHOLD` times |
| `OneOwner` | `[]ChunkHasOneOwner` |
| `Quiet` | `QuietAfterReturn`: after the return the file stays as it is, and only threads whose join was interrupted go on |
| `FailureExplained` | `[]FailureHasACause`: no source, a source without a request, a thread that gave up or died, an abort, or an interrupted join |
| `CleanSuccess` | `[]SuccessIsComplete`, if servers only refuse requests and nobody aborts |
| `Implements` | `PromiseSpec`, under the same assumption |
| `EachInItsPlace` | `[]StoredInPlace`, if connections neither break nor end early; aborts, refusals, answers without a body and failing disks are allowed |

Assumptions: those named in `MultiDownload` (positive numbers of chunks and
refusals, faults of the listed kinds), and where stated `Clean` (refusals only,
no abort) or `Unbroken` (neither `io` nor `short` is among the faults).

Argument. `Typed` adds to the types that a running thread's count is below the
threshold, without which the increment would leave the type, and that a thread
holds a chunk exactly while it works on it. `Phases` ties the threads to the
caller: they have not started before the join, those the joins have passed have
ended unless an interrupt made the caller go on, and at the return the writer is closed
or no thread was ever started. With both, `ChunkHasOneOwner` is inductive (`OwnerInv`). `CauseInv` says that a queue
with chunks in it has a thread that is still running or a cause of failure; it
is needed because a thread that leaves on an empty queue must not be the one
that makes the download fail when a refused chunk comes back. Once the caller has found
chunks left (`blame`) there is a cause, whatever a thread left behind still takes from
the queue. `CleanInv` says
that a thread has no leftover header when it makes a request and that every
chunk is waiting, held or stored (`Accounted`); then an empty queue after the
join means a complete file, and each step of the threads is a step of
`DownloadPromise` or leaves `file` and `outcome` alone. `PlaceInv` is what
`StoredInPlace` needs where `Clean` is too much to ask: the header of a thread is
that of the chunk it holds *or the thread is told to end*, which is the only way
a request is lost without a broken connection; a thread told to end sends no
other. Both faults it excludes are real counterexamples (section 3.3 for `io`;
`Mixed` for `short`).

Liveness (`SettlesOrStarves`, `AbortEndsDownload`) is only model-checked.

## 4. Deployment lifecycle

### 4.1 Model

`DeployLifecycle` follows the deployments of one ECS service. An actor is a
request to `Deploy`, which is also the name of the task definition it registers
and of the record it writes; its goroutine; the operations that rewrite the
last record; and the server, which may crash.

| code | model |
|---|---|
| rows of the table; `Status`, `Version`, `Time` of a row | `status` (not "none"), `version`, `recordTime` |
| the clock; `Time: time.Now()` of a record that is about to be put | `now`; `stamp` |
| whether the row `__SERVICES` has this service | `registered` |
| the ECS service's task definition, or that it does not exist | `service` |
| `ddLast` of a handler | `seen`, `seenVersion`, `seenStatus` |
| the handler between two AWS calls that matter | `hpc`: `ReadLast`, `CheckService`, `CreateService` or `RegisterService` and `UpdateDeployment`, `AbortSeen`, `TakeTime`, `Record` |
| `LaunchWaitUntilServicesStable` and `Rollback` | `mpc`: `Observe`, `SetStatus`, `ChooseTarget` or `NoStableVersion`, `RollBack` |
| `dd` of the goroutine | `mver` (its status is always "running") |
| `SetScalingProperty`, `SetAutoscalingProperties`, `SetManualTasksArn` | `ReadToTouch`, `Touch`, `TouchFails` |
| process exit; `Resume` | `Crash`; `Resume` |

Reads and conditional puts of a row are atomic, as DynamoDB makes them; between
any two of them everybody else may move. What the goroutine sees of ECS is
nondeterministic, but for one thing: it can only see its own task definition
in place while the service is configured with it. Errors the code ignores are
ignored in the model: `UpdateDeployment` goes on to "abort" whatever happened,
a goroutine whose put fails ends without a word (`SetStatusFails`).

`NewDeployment` takes the time, which is the sort key, before it reads the last
record and puts its own (`service.go:245, 247, 255`). `TakeTime` and `Record` are
therefore two steps, and overlapping calls may put their records in the other
order: `LastDeploy`, the record with the greatest time, need not be the one that
was put last. Scaling, manual tasks and autoscaling policies start with
`GetClusterName`, which refuses a service that is not in the registry: `ReadToTouch`
needs `registered`, and the first `Deploy`, which creates the ECS service, does not
register it.

Faithful to the code also where it surprises: `Rollback` only ever looks at the
second to last record, because the longer list it then reads is kept in a
variable of an inner block; a resumed goroutine has no cluster name, so that its
rollback changes nothing.

Not modelled: load balancer rules and policies that `Deploy` sets up; records
of version 0 written by old servers, which are put unconditionally; the text
of reasons. `Resume` looks at the last 20 records of all services; here these
are the last `ResumeLimit` of the one service, which is the same when the other
services' records push the oldest ones out.

### 4.2 Runs

| run | instance | shows |
|---|---|---|
| `deploy_fresh` | 3 calls, new service, all faults, 1 rewriting operation, 1 crash, `ResumeLimit` 1; 2.1 million states | `TypeOK`, `SeenIsSettled`, `RollbackIsJustified`; `HistorySpec`: the table implements `DeployHistory` |
| `deploy_live` | 2 calls after an earlier success, all faults except those of DynamoDB, 1 rewriting operation, 1 crash, fair; 103 thousand states | `SettlesUnlessTouched` |
| `deploy_stuck` | 1 call after an earlier success and 1 rewriting operation, no fault, fair | `DeploymentSettles` is violated |
| `deploy_rollback` | 2 calls after an earlier success, no fault | `NoStableVersionIsTrue` is violated |

Bounds. Three calls are the least with which a call overlaps another that
overlaps a third, and with which a rollback has a target that is neither the
first nor the last record. One rewriting operation is enough to hit every pair
of read and put; its record is whichever is the last one then. One crash puts
every other position of every actor before or after a restart. `ResumeLimit` 1
in `deploy_fresh` makes the limit bite; 2 in `deploy_live` covers the two
records that can be running at once, as 20 does in the code for a moderate
number of services. `MaxTouches` and `MaxCrashes` bound `ReadToTouch` and
`Crash` in their guards; the theorems hold for any value of them. Calls are
interchangeable in `deploy_fresh` (no earlier call), a safety run.

Fairness. A request that was read goes on, a goroutine goes on (the waiter of
the AWS library gives up after a bounded number of attempts), and a crashed
server is restarted (ECS runs it as a service). No request has to arrive.
`deploy_live` leaves out failures of DynamoDB because a failed put is not
retried: with them nothing at all can be promised. CHECK_DEADLOCK is off
because the system rests when all calls are done.

### 4.3 Findings

- `deploy_stuck`: scaling a service, or running a manual task, while it is being
  deployed raises the version of the record, so the goroutine's put fails, its
  error is dropped, and the deployment is shown as running until the next
  `Deploy` or restart. Autoscaling downwards is suspended all that time.
- `deploy_rollback`: a failure that follows a failure reports that there is no
  stable version, although one is in the table.

`SettlesUnlessTouched` is the other side of the first finding: with the table
working, being rewritten or not being able to describe the service are the
*only* ways to stay running, crashes included.

### 4.4 Proofs

`DeployLifecycleProofs` proves for every set of calls, all faults, any limits
and any number of crashes and rewriting operations:

| theorem | says |
|---|---|
| `TypeCorrect` | `[]TypeOK` |
| `PreviousIsSettled` | `[]SeenIsSettled` |
| `RollbackJustified` | `[]RollbackIsJustified` |
| `HistoryIsKept` | `HistorySpec`: deployments are only added, each starts running with a time of its own which it keeps, outcomes are final |

Assumptions: `None` is not a call, `Earlier` is a call or `None`, faults of the
listed kinds, the bounds are natural numbers.

Argument. Everything rests on what an old copy of a record still says:
`Copy(d, v, s)` holds when the version `v` is not newer than the record's, equal
versions mean equal statuses, and a settled copy is still right. The inductive
invariant `CopyInv` states it of the copies of all handlers (`Handlers`),
goroutines (`Monitors`) and of the rewriting operation (`Toucher`), with
`Timed` (a call that is about to put its record has a time no other call has) and
`Recorded` (a row exists only when
its handler is done). None of the properties is inductive alone: that an abort
meets a running record follows from the copy and the version. The lemma
`TableSteps` reduces all actions to four ways in which the table can change, and
`CopyKept` shows once that each keeps every copy; the steps of the abstract
specification are the same four.

Only model-checked: `SettlesUnlessTouched`.

## 5. Service registry

### 5.1 Model

`ServiceRegistry` is about one row with all services in it. Writers are `Deploy`
requests on any server, for any service, and the migration a starting server
runs while others serve.

| code | model |
|---|---|
| the row `__SERVICES` | `db`: version, API version, limits and listeners per service |
| a limit or a listener list | the name of the writer it comes from, or `None` |
| the services ECS knows | `ecs` |
| `Deploy` up to and including `updateDeployment` | `pc`: lookup, read, put, update, limits |
| `CreateService`: read, put, read again, at most four times | `Read`, `Put`, `Conflict`, `CreateServiceFails`; `attempt`, `MaxTries` |
| `UpdateServiceListeners`, `UpdateServiceLimits` | `ReadToUpdate` and the action of the same name, or `UpdateFails` |
| `Migration.run` | `ListServices`, `MigrationReads`, `MigrateLimits`, `SetApiVersion` and their failures |

`CreateService` replaces the element of a service that is there already, without
its listeners: `withService` resets them. The branch of `Deploy` that creates the
ECS service does not register it (`CreateInEcs` ends the call).

`DeployLifecycle` and `ServiceRegistry` model the same handler with respect to
different rows. The registry does not look at deployments. The lifecycle looks at
one bit of the registry, whether the service is in it, because the operations that
rewrite the last record ask for its cluster name first; `DeployLifecycle` keeps that
bit as `registered`, set by the step of `Deploy` that registers the service. It
leaves out that a concurrent writer may overrun the entry, which `ServiceRegistry`
models: the service is then refused and its record left alone.

Not modelled: `InitDB` on an empty table (an unconditional put: it is listed
among the hazards), the handler `initService`, which no route reaches, and the
values of limits.

### 5.2 Runs

| run | instance | shows |
|---|---|---|
| `registry_writers` | 2 `Deploy` calls, 2 services, the migration, 4 tries as in the code, all faults; 884 thousand states | `TypeOK`, `RegisteredUnlessOverrun`; `PromiseSpec`: every put is an atomic change of one entry |
| `registry_new` | 1 call, 1 service, no fault | `DeployedIsRegistered` is violated |

Bounds. Two services distinguish a lost entry of another service from one's own;
two calls and the migration are three concurrent writers of the row, and each
call may be for either service. `MaxTries` has its value in the code. A call and
the migration make a bounded number of puts, so with two calls the conflicts that
exhaust four tries need the migration; they do occur (the mutant of `TypeOK`
depends on them). Calls and services are interchangeable; the runs check safety
only. CHECK_DEADLOCK is off because the calls end.

### 5.3 Findings

- `registry_new`: the first `Deploy` of a service leaves it out of the registry,
  against "Registers services in DynamoDB" (`README.md:4` of ecs-deploy). Until a
  second `Deploy` the list of services and the autoscaler do not know it.

### 5.4 Proofs

`ServiceRegistryProofs` proves for every set of services and of calls, any number
of tries and all faults:

| theorem | says |
|---|---|
| `TypeCorrect` | `[]TypeOK`; no more than `MaxTries` puts are attempted |
| `RegisteredOrOverrun` | `[]RegisteredUnlessOverrun` |
| `KeepsPromise` | `PromiseSpec`: no write is lost |

Assumptions: `MaxTries` is positive, `None` is not a writer, faults of the listed
kinds.

Argument. `Snapshot(r)`: a copy is not newer than the row, and equals it while the
versions are equal. `RegistryInv` holds it of every copy that is about to be put
(`Copies`), and keeps the count of tries within bounds where it is used
(`Attempts`). A put under the condition then starts from the row itself, so it is
an operator applied to `db`, and the lemmas `WithService`, `WithLimits`,
`WithListeners` and `WithApi` give its effect, which is a step of
`RegistryPromise`. That a registered service stays registered
(`RegisteredUnlessOverrun`) follows from the same four effects.

## 6. Widgets

### 6.1 Model

Each module is one widget of `bootstrap.js` (version 4.1.3). A method is an
operator from the widget to the widget after it (`slide(c, ...)`, `openPanel(r)`),
or, where listeners decide in the middle of a method that calls others, to the set of
widgets it may leave (`hideTip(t)`, `showComplete(t)`), since methods call each other and
run to their end; an action is what the browser calls: a click, a key, the mouse, a
timer, or the end of a transition, which runs all handlers that wait for it in their
order. Listeners of the page may prevent an event: the show or hide of what was clicked,
the hide of any of the panels that an opening panel hides (`keepOpen`), and every show
and hide of a tip.

| module | state it keeps apart | what arrives in any order |
|---|---|---|
| `Alert` | whether the element is in the page, its class, handlers that wait | clicks during the fade |
| `ButtonGroup` | the class `active` against the checked input or `aria-pressed` | clicks, focus; inputs may be disabled |
| `Carousel` | active items, the slide under way, the event `slid` that is due, requests that wait for it, interval and timers | ticks, controls, requests, hover, touch, end of the slide, `dispose` |
| `Collapse` | classes of a panel, class of its trigger, handlers, the instance and its flag | clicks on panels, ends of transitions, `dispose`, prevented events, also those of the other panels |
| `Dropdown` | open menus, `aria-expanded`, instances, the focus | clicks on toggles, menus and the page, keys, `dispose` |
| `Modal` | flags, display, classes of the body, backdrops in the page, handlers of four kinds | show, hide, drags and clicks around the dialog, four ends of transitions, `dispose` |
| `Tooltip` | `_hoverState`, `_activeTrigger`, one timer, classes of the tip, the mark of Popper, handlers | mouse, focus, clicks, timer, calls of `toggle` and `show`, enable, an enclosing modal that hides, `dispose` |
| `ScrollSpy` | measured offsets against the sections where they are, `_activeTarget` against the marked link | scrolling, sections that move, content that grows or shrinks, `refresh`, `dispose` |
| `Tab` | the active link against the panes, handlers on the pane that fades | clicks during the fade |

Ghosts record what a property has to leave out because the code does
not promise it, and nothing else: `cut` and `extra` (an
instance disposed while it moved its panel; a panel that a listener kept open when
another opened, or that opened beside such a panel), `spoilt` (a dialog shown again
while its backdrop faded or disposed while it was shown, or a show that a
listener prevented), `why` (what has happened to a tip since its last show or hide: a
method showed it, its hide was prevented or left it in the page, it was hidden and shown
again to fix its transition, the first half of that was prevented, a hide waits behind
such a fix, or it was disposed), `hasty` (a click during
the fade of a tab), `processed` and `fresh` (nothing moved since the last scroll
event; the mark is that of a disposed spy). Ghosts depend on ghosts, and nothing else
on them.

When the end of a transition runs the end of a hide and then the end of a show, the first
destroys the popper that the show has made and with it the mark of its place (`placed`,
the attribute `x-placement`); the second finds no mark, hides the tip and shows it again
without a fade (`fixTransition`), and the hide clears what held the tip. Popper is a copy
of a library: what is modelled of it is that creating a popper leaves the mark at once
and destroying it removes the mark.

Simplifications. Positions, heights during a transition, the trap of
the focus and the texts are left out. Popover is `Tooltip` with another test for
content (`isWithContent`). Methods of a disposed widget are not called; where
the page makes a new instance later, the action that disposes makes it. A modal
is not disposed while its backdrop fades away. One carousel, modal or tooltip per page: they share nothing with others of their
kind, but for the menus, panels, buttons and tabs, of which there are several.
`ModalEnterEnd` waits for a backdrop that fades since before, as both take the
same time. `bootstrap.bundle.js` is the same code with Popper in front of it.

### 6.2 Run `widgets`

`MCWidgets` puts each widget on a page of its own; `page` tells which, and the
others rest in one initial state. They share no state in the code, so nothing is
lost by this and one run asks all nine; 276 thousand states.

| property | says |
|---|---|
| `WidgetsTypeOK` | types, timers and handlers within their bounds |
| `ClosedIsHeardOnce` | however often an alert is clicked while it fades, one `closed` is heard, when it is gone |
| `ButtonsShowTheirInputs` | what the user sees is what is sent; one exception: a disabled radio button puts out the active one |
| `CarouselShowsOneItem`, `CarouselServes` | one item, the one the indicators show, and one timer; a request that waits will be served |
| `AccordionOpensOne`, `TriggersAgree` | one panel of a prepared accordion is open, apart from those that a listener kept open and those opened beside them; triggers tell which panels are |
| `OneMenuOpen` | one menu is open, and its toggle tells |
| `ModalAtRest`, `ModalAnswersAgain` | dialog, body and backdrop agree when nothing moves; the flag that keeps the modal deaf is reset |
| `TooltipAtRest`, `TooltipGoes` | the tip is in the page, and pointed at, exactly while it is shown; a tip nobody asks for goes. The exceptions of each are named in `why` |
| `ScrollSpyMarks` | the section in view is marked, for measured offsets that are right |
| `TabShowsItsPane` | the pane of the active link is shown, and alone unless clicks came during a fade |

The properties state exceptions on purpose: they are what the code does not keep,
found by checking the sentence without them, and each names the sequence that
leads there. Those that follow a veto are the page's own doing. With a weaker model the
exception would not be needed; with a mutant it does not help.

Bounds. `MaxClicks` 2, `MaxQueued` 2, `MaxWaits` 3 and `MaxHasty` 2 let a second
handler meet the first, and a third meet both; more of the same handlers only
repeat what these do. Three items of a carousel are the least with which the next and
the previous differ; three panels and menus let one open while two others move
or are open; `DisabledToggles` and `DisabledInputs` hold one of three. A content
of 3 to 5 lines in a window of 2 has offsets above, at and below the bottom, and
two sections can share an offset or trade places. All options (animation, wrap,
interval, backdrop, delay, content) are chosen in the initial state.

Fairness. `ModalFairness` and `TooltipFairness` say that a transition that
started ends and a timer fires: `transitionEndEmulator` triggers the event after
the duration if the browser has not, and `setTimeout` is the browser's promise.
Nothing is assumed of the user. CHECK_DEADLOCK is off because a page may come to
rest: an alert that is gone, a carousel that was disposed.

### 6.3 Proofs

`WidgetsProofs` proves every invariant of the run, each for a widget on its own
(`AlertSpec`, `ModalSpec`, ...: `Init` and `Next` of its module), for any number
of its buttons, panels, menus, tabs, items and sections, and all bounds on
clicks and handlers:

| theorem | says | what makes it inductive |
|---|---|---|
| `AlertsAreHeardOnce` | `[]ClosedIsHeardOnce` | the listener is bound exactly while the alert is in the page, and hears when it goes |
| `ButtonsAreRight`, `OneRadioAtATime` | `[]ButtonsShowTheirInputs`; no two radio buttons are active | `toggle` takes the class from the *first* active button only; `OneRadio` is why that is enough |
| `OneItemShows`, `RequestsAreServed` | `[]CarouselShowsOneItem`, `[]CarouselServes` | `CarouselInv`: what a slide, its event, the timers and the requests that wait know of each other |
| `AccordionsOpenOne`, `TriggersAreRight` | `[]AccordionOpensOne`, `[]TriggersAgree` | of the panels of a prepared accordion that no listener has kept open, one that opens is the only one that opens or is open; a panel moves exactly while handlers wait |
| `MenusOpenAlone` | `[]OneMenuOpen` | menus that have an instance and whose hide no listener prevents are closed by whatever opens another |
| `ModalsRest` | `[]ModalAtRest` | one handler waits at a time, but for a dialog shown again while its old backdrop fades; for each, what the end of its transition will find |
| `TooltipsRest` | `[]TooltipAtRest` | of a tip that goes, a hide is the last handler that waits; of one that was shown again, a show is, or the transition was fixed: the ends that ran before the fix are followed one by one (`TooltipGood`) |
| `SpiesMark` | `[]ScrollSpyMarks` | sections in the order of their offsets have one that holds the line |
| `TabsShowTheirPane` | `[]TabShowsItsPane` | the last handler that waits is that of the active link |
| `WidgetsKeepTypes` | `WidgetsSpec => []WidgetsTypeOK` | the conjunction of all of these invariants |

Assumed: the bounds are numbers, radio buttons and items are numbered, the kinds
of buttons are disjoint, and sections, of which there are finitely many, and tabs
and panels are numbered in the order of the page.

The end of a transition runs *all* handlers that wait, a fold over their
sequence (`served`, `completedAll`, `handlersRun`). The proofs about those actions
go by induction on the length of the sequence: `FoldExists` shows that there is
a function with the values of the fold at each part of the sequence, and `EveryNumber`, which follows
from the well-foundedness of `<`, replaces the induction rule that needs an
operator for its parameter. `measured` (the offsets of a scroll spy) is *the*
sorted sequence of a finite set; that there is one is proved the same way.
`ModalAnswersAgain` and `TooltipGoes` are liveness and stay with TLC.

## 7. Pages

### 7.1 Model

**`MultiCloudChat`**. `checkers` and `chatter` are the sessions; a session that
failed to connect is kept, as in the code. `up` and `connected` are what
`cloudPropertiesMap` says. `updateCanvas` clears the picture and starts to load
the map; `MapLoads` draws it and the line by the flags *of then*; `MarkLoads`
draws the crosses. Several drawings overlap. Brokers start and stop
(`BrokerTurns`); the messaging API is external, and reports what its
documentation's events mean here: up, failed, reconnecting, reconnected,
disconnected. `broker` is the subscription at the broker, with the requests it has not
got to (`sent`) and the answers on their way (`done`). It carries requests out in their
order (`BrokerSubscribes`) or refuses them. An answer (`SubscriptionOk`) turns the flag
of the page over, without telling which request it answers. After ten seconds without an
answer the page is told of an error (`SubscriptionTimeout`), and the broker may have
carried the request out or carry it out `late`. The page changes its flag only by an
answer, so flag and broker can part; the ghost `sure` says since when they have not:
it is lost when two requests overlap or one is given up, and regained by the next
request that is confirmed with no other beside it (`lone`).

**`AlbumsPage`**. `queries` and `writes` are in flight; the server
(`AlbumController.java`) serves them and answers in any order, refuses writes, or carries
one out without an answer reaching the page (`WriteFails`). A save of an album that was
deleted meanwhile makes it anew (`places`): under its id with Redis and Mongo, and with
JPA, which generates ids, under a new one that the page has never heard of. `list`
replaces the array, so only the last query fills the page (`fills`). The callback of the editor in place calls
`list()`, which is not defined in its controller: such a write has
`lists |-> FALSE`. `unheard` is a ghost: albums with a write after which the list
was not asked for, the album the server made among them. What a query that fills no
array reads is left out, as nobody looks at it.

**`TableSorter`**. `dom` is the order on the page, `cache` the rows with their
keys and positions, sorted in place. A click and `update` act when their timer
fires; timers of the same delay fire in their order. `sorton`, `updateCell` and
`appendCache` act at once, and `AppendCache` puts the cached rows into the page as they
are. A click on a table without rows does nothing. `shared` is the sort list
that belongs to the defaults, which `$.extend` copies by reference, and
`headersOf` the table whose headers the shared `headerList` holds. A count is
kept by its parity, which is all that is read. `history` is a ghost: rows the
page removed, a sort or `appendCache` between a removal and its update (`raced`),
changes since the last sort.

**`FormValidation`**. `rules` are the options of the form, `checked` the
validator's copy of them, which a later `parse` does not reach; `told` is the container
next to each field (its class, and whether it has a message), `summary` the list. Both
scripts are modelled. `jquery.validate.js` decides when to check: a key checks a field
that was found wrong or was the last one checked (`TypeInto`), leaving a field checks it
when it is not empty or was found wrong (`MoveFocus`), a submit checks all fields and
moves the focus to one that is wrong (`SubmitForm`, `focusInvalid`), and `validate` checks
them for a script that sends the form itself. `jquery.validate.unobtrusive.js` puts the
messages where they are seen (`onError`, `onSuccess`, `onErrors`, `onReset`). The
validator finds the message of a field by a class that `onError` has taken away, so
`resetForm` removes none: the ghost `kept` has the fields with a message from before a
reset. A text is empty, good or bad, and a form that is right stays on the page until the
answer to it comes. Left out: fields to tick or choose, hidden fields and groups, rules
asked of the server (`remote`) and the submit that waits for them, `cancel` buttons.

### 7.2 Run `apps`

`MCApps` opens one page at a time: they belong to different sites. The tables
come as one table with changes and as two that share the defaults; 2.1 million
states.

| property | says |
|---|---|
| `CanvasShowsClouds` | once no image loads, the picture is that of the flags |
| `ChatShowsItsCloud` | the cloud of a session that is up is the connected one, and no other |
| `SubscribedMeansIt` | with nothing on its way the flag tells whether the broker delivers, also after errors and timeouts, once a request without another beside it has been confirmed |
| `ListShowsTheTable` | with nothing in flight the list is what the server has, apart from albums whose last write the page was not told of or did not list after |
| `EditorHasATitle` | an editor on the page has a title, and saves no undefined one |
| `CacheFollowsThePage` | with no timer running, the cache holds the rows in the order of the page, with the keys of their texts |
| `RowsFollowTheMarks` | the rows are in the order the headers show |
| `RemovedRowsStayAway` | a removed row comes back only when a sort or `appendCache` overtook the update |
| `MessagesFollowTheFields` | a field that is not being edited is marked exactly when it was found wrong since the last reset and still is; a message is next to a marked field, or was left there by a reset; late fields get none; what a refused form lists was found wrong |

Bounds. Two clouds let a failover have a source and a destination; two loading
images and two requests overlap. Two titles let an old answer differ from a new one, and
two albums let one that was deleted come back under another name. Clouds, albums and
titles are names that nothing tells apart, so the run uses their symmetry (it checks
safety only). Two writes and two queries give every order of a pair, and a third follows
when one is answered. Two rows and two columns, with texts that are numbers, words or
become one, give a tie, both parsers and a parser that changes; more rows only repeat what
two rows do to each other, and the theorems are about any number. Two timers give a sort
and an update in both orders. `MaxChanges` 2 lets a change of rows overlap one of a cell,
and a removed row be added again; `Edits` is a text the page writes that changes both the
order and the type of its column. Of two tables the first is clicked in one column only,
which is enough to share a list with the other. Three fields: required, optional, and
required but added late.
There is no fairness and no deadlock: every page always has something to do.

### 7.3 Proofs

| module | theorem | says |
|---|---|---|
| `MultiCloudChatProofs` | `ChatTypes` | `[]ChatTypeOK` |
| | `PictureIsRight` | `[]CanvasShowsClouds` |
| | `CloudIsRight` | `[]ChatShowsItsCloud` |
| | `FlagIsRight` | `[]SubscribedMeansIt`, for any number of requests that overlap, are refused or given up |
| `AlbumsPageProofs` | `AlbumsTypes` | `[]AlbumsTypeOK` |
| | `EditorIsRight` | `[]EditorHasATitle` |
| | `ListIsRight` | `[]ListShowsTheTable` |
| `TableSorterProofs` | `TablesTypes` | `[]TablesTypeOK` |
| | `CacheKeepsUp` | `[]CacheFollowsThePage` |
| | `RowsAreInOrder` | `[]RowsFollowTheMarks` |
| | `RemovalsLast` | `[]RemovedRowsStayAway` |
| `FormValidationProofs` | `FormTypes` | `[]FormTypeOK`: the validator's rules are among the page's, and what it found wrong among the fields it has rules of |
| | `MessagesAreRight` | `[]MessagesFollowTheFields` |

They hold for every set of clouds, albums, titles, tables, columns, rows and
fields, and all bounds. Assumed: the bounds are positive (`MaxChanges` may be
0), the names "none", "new" and "no" are not used for clouds, albums or fields,
required and late fields are fields, tables are numbered, no row is twice on the
page at first, and cells hold the four texts of the model.

Arguments. `PictureInv` says what the picture is between two drawings: once no
map loads, the line is right and the crosses are among the right ones. A step
either leaves flags and picture alone (`Undrawn`), or calls `updateCanvas` and so
has a map to load. `FlagInv` says what is on its way where the flag is right or will be:
a lone request is either on its way to the broker, asking for the opposite of the flag,
or carried out with its answer on the way (`LoneInv`); while the ghost is `sure` nothing but
a lone request is on its way, and until the broker gets to it the flag is right.
`EditorInv` drops the route and the dialog, which
only hide the editor: without that, closing a dialog would have to be known to
show nothing wrong. `FormInv` splits `MessagesFollowTheFields` by field into the class
(`MarkRight`) and the message (`MessageRight`), and adds the types and that the validator's
rules stay those of the first parse; without the last a field that was added late could be
found wrong. `ElementStep` says once what the check of one field changes and leaves alone,
`FormStep` the same of a check of all.

For `ListShowsTheTable` the invariant follows one album at a time (`Fresh`): what the
page shows of it, or what the query that will fill the page has read, is what the server
has, or a write of it is in flight, or it is in `unheard`. Only the last query fills the
page (`fills`), so the query in question is never overtaken. A write is about the album
it changed, once it was served (`about`): an album that the server makes under a new name
is covered by the write that made it, from there on until the page lists or is told. The
part `DeletedIsGone` is what keeps a deleted album from being saved unnoticed.

`TableInv` says of a table what holds while timers run: without an update that
waits (`untold`) the cache follows the page entry for entry; with one, the
table has changed since the last sort. A removed row may still be in the cache
while the update waits, and gets from there to the page only by a sort or by
`appendCache`, which is then a race. `marks` and the sort list may differ while a sort waits
(`unsorted`). The order of `multisort` is proved to be a strict total order on
cached entries (`BeforeTransitive`, `BeforeTotal`, from the distinct positions),
so a sorted sequence exists (`OrderExists`) and has all of them
(`OrderHasAll`); `Appended` says what the page shows afterwards.

All invariants of the run are proved.

## 8. Mutants

Each property of a passing run is paired with a mutation of the code's model: a
definition such as `PutBackForever`, next to the one it mutates and marked
"Mutant". They are plausible slips: a dropped version condition
(`TouchUnconditionally`, `PutUnconditionally`), an ignored error
(`AbortFailureIgnored`, `ConflictRollsBack`), a missing reset
(`AnsweredKeepsHeader`), a missing count or threshold (`PutBackUncounted`,
`PutBackForever`), an off-by-one in a retry loop (`ConflictOnceMore`), a missing
interrupt (`NeverInterrupted`), a chunk that is forgotten (`RefusedForgotten`), a
restart that resumes nothing (`ResumeNothing`). With the mutant in the place of
the original, TLC finds the property violated. Mutants belong to no `Next`. Those of the
browser code are marked "A bug": a class that is toggled before it is read
(`ToggleCheckboxClassFirst`), a timer that is not cleared (`cycleOnTop`), a flag
that is not reset (`ModalDialogEndBusy`), an answer that is taken for the last
one (`abandonedShown`), a copy sorted in the place of the cache
(`sortTableCopy`), a host that is not looked at (`ChatterReconnectedAnywhere`).

## 9. Hazards

`PROJECT.json` lists the hazards at their lines, with the properties about them.
Those without a property are of parts that are not modelled, and name the module
of the plan. Found on the way, outside what is modelled, and not in that list:
in ecs-deploy, a version conflict or failing put while the previous deployment is
aborted (`controller.go:129`), updates of limits and listeners that are not
retried (`controller.go:277`), a migration that sets the API version after a
conflict (`migration.go:51`), a Deploy that was overtaken and registers a service
again (`service.go:191`), two servers that start on an empty table
(`service.go:114`), snapshots put back unconditionally (`autoscaling.go:158`,
`autoscaling.go:250`), a scale down that looks for deployments too early
(`autoscaling.go:318`), a desired capacity that is read and set
(`provider/ecs/autoscaling.go:220`), a lease that is not renewed
(`service.go:704`); in the file library, `terminate()` before there is a request
(`FileUploadThread.java:212`) and exceptions that leave `op` set
(`MultiCloud.java:222`); elsewhere, the last piece of a striped file
(`views.py:99`), an identifier that depends on the log stream
(`lambda/index.py:65`), and a message deleted after its insert
(`worker/main.go:147`).

## 10. Plan

Done: `MultiDownload`, `DeployLifecycle`, `ServiceRegistry`, in the order of what
could be lost (file content, the state of a running service, the registry); then
the code in the browser, which is most of the code of the repository that keeps
state of its own.

Next, in this order:

1. **Proofs of what is modelled**: every invariant of the runs is proved. What is
   left are abstract specifications of the pages in the browser (a chat that shows
   one cloud, a list that is a register) with the step by step refinement.
2. **`ClusterAutoscaling`**: handlers of notifications and lifecycle hooks, pending
   operations, the polling lock, over rows that are put *without* a condition.
   Abstract specification: one scaling step per cooldown, within the minimum and
   the maximum. Two handlers, one cluster of two nodes, one pending operation and
   one restart; clocks abstracted to "within the cooldown" and "after".
3. **`MultiUpload`** and **`CloudFacade`**: upload threads over shared maps; the
   facade's `op` and `auth` with two callers and an abort, with the credential
   store behind it. Abstract specification: at most one operation at a time, the
   operation that runs is the one that `abortOperation` reaches.
4. **`Striping`**: the split into chunks as recursive functions against the
   identity as the reference; a pure module.
5. The authorization code grant; the CloudFormation handler; the crawler worker.
6. What the partly modelled browser components leave out: `sortForce` and
   locked orders of tables; rules asked of a server, fields to tick or choose.

### Not modelled

Infrastructure templates and pipelines are declarations without a program.
Scripts around terraform, git and ansible, the build files for Grunt and gulp, and
web applications generated from a framework's template have no state beyond the
tools'. Copies of libraries (jQuery, Popper, pbr) are other projects' code; of
`jquery.validate` and `tablesorter`, copies as well, what the pages rest on is modelled. `PROJECT.json` gives the reason for each component.

### What cannot be proved here

Liveness under fairness (`SettlesOrStarves`, `AbortEndsDownload`,
`SettlesUnlessTouched`, `ModalAnswersAgain`, `TooltipGoes`) is checked by TLC and
not proved. The modules with theorems declare no recursive operator. The provers
do not unfold `FoldLeft`, `SortSeq` or `SelectSeq`: where a theorem is about what
such an operator would compute, the module either folds a named operator whose
effect on one element is a lemma, with the induction over prefixes in the
proofs, or states the result as the one sequence with the property that the code
establishes (`measured`, `multisort`, `atPlaces`). TLC evaluates the same
definitions in the runs. That `AppsSpec` steps as the pages do one at a time is
not proved: the theorems about pages and widgets are about the specification of
each, whose steps are those of the runs; only `WidgetsTypeOK` is proved of the
composition.
