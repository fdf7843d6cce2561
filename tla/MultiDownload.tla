----------------------------- MODULE MultiDownload -----------------------------
(***************************************************************************)
(* The multi-threaded, multi-source download of the file sharing library:  *)
(* FileDownloadOp cuts a file into chunks, puts them in a blocking queue   *)
(* and starts one FileDownloadThread per source; the threads take chunks,  *)
(* request them with a Range header and write them through one writer.     *)
(* A user thread may call abort() at any moment.                           *)
(*                                                                         *)
(* Bytes are abstracted to chunks: the content stored at the place of      *)
(* chunk c is the number of the chunk it belongs to, or Mixed.             *)
(***************************************************************************)
EXTENDS Naturals, Sequences

CONSTANTS
    Sources,          \* the clouds that may hold the file
    NumChunks,        \* chunks the file is cut into
    FAIL_THRESHOLD,   \* refused requests after which a thread gives up
    Faults,           \* what may go wrong around the program
    MayAbort          \* whether the user may call abort()

\* "status": an answer with status 400 or more; "io": an IOException of the
\* connection; "short": a body shorter than the range; "entity": an answer
\* without a body; "disk": the file cannot be opened or written; "request": a
\* source whose request cannot be prepared; "interrupt": the user interrupts the
\* thread that runs operationExecute while it joins.
FaultKinds == {"status", "io", "short", "entity", "disk", "request", "interrupt"}

ASSUME ChunksAssumption    == NumChunks \in Nat \ {0}
ASSUME ThresholdAssumption == FAIL_THRESHOLD \in Nat \ {0}
ASSUME FaultsAssumption    == Faults \subseteq FaultKinds
ASSUME AbortAssumption     == MayAbort \in BOOLEAN

Chunks == 1..NumChunks
Hole   == 0                    \* nothing stored at this place of the file
Mixed  == NumChunks + 1        \* bytes that belong to no single chunk
NoChunk == 0                   \* a thread that holds no chunk

VARIABLES
    \* FileDownloadOp
    mainPc,       \* where operationExecute is
    pool,         \* the threads created so far
    joinAt,       \* the position in the pool the joins have reached
    skipped,      \* history: the threads whose join an interrupt cut short
    open,         \* the writer has its file
    isAborted,
    outcome,      \* how operationExecute ended
    abortPc,      \* where the caller of abort() is
    cursor,       \* abort(): position of the iterator over the pool
    seenSize,     \* abort(): size of the pool when the iterator was made
    \* shared by the threads
    queue,        \* chunks that wait for a thread
    file,         \* what the writer stored at each place
    \* FileDownloadThread
    sources,      \* the sources kept: one thread each
    pc,           \* where run() is
    held,         \* the chunk the thread works on
    header,       \* the Range headers left on the thread's request
    body,         \* the chunk the server is sending
    terminate,
    failCount

opVars     == <<mainPc, pool, sources, outcome, joinAt, skipped, open>>
abortVars  == <<isAborted, abortPc, cursor, seenSize>>
threadVars == <<pc, held, header, body, terminate, failCount>>
vars == <<opVars, abortVars, threadVars, queue, file>>

Range_(s) == {s[i] : i \in DOMAIN s}
Finished == {"done", "dead"}

--------------------------------------------------------------------------------
(* FileDownloadOp *)

\* The constructor keeps the sources that have the file and a request.
Init ==
    /\ sources \in SUBSET Sources
    /\ mainPc = "begin" /\ pool = <<>> /\ outcome = "none"
    /\ joinAt = 1 /\ skipped = {} /\ open = FALSE
    /\ isAborted = FALSE /\ abortPc = "idle" /\ cursor = 0 /\ seenSize = 0
    /\ queue = <<>>
    /\ file = [c \in Chunks |-> Hole]
    /\ pc = [w \in Sources |-> "new"]
    /\ held = [w \in Sources |-> NoChunk]
    /\ header = [w \in Sources |-> {}]
    /\ body = [w \in Sources |-> Hole]
    /\ terminate = [w \in Sources |-> FALSE]
    /\ failCount = [w \in Sources |-> 0]

\* No source left: "No source specified."
NoSource ==
    /\ mainPc = "begin" /\ sources = {}
    /\ mainPc' = "returned" /\ outcome' = "failed"
    /\ UNCHANGED <<pool, sources, joinAt, skipped, open, abortVars, threadVars,
                   queue, file>>

\* Drops the sources whose file differs from the first one's, fills the queue
\* with the chunks in the order of the file and opens the file.
Prepare ==
    /\ mainPc = "begin"
    /\ sources' \in (SUBSET sources) \ {{}}
    /\ queue' = [i \in Chunks |-> i]
    /\ mainPc' = "build" /\ open' = TRUE
    /\ UNCHANGED <<pool, outcome, joinAt, skipped, abortVars, threadVars, file>>

AddThread(w) ==
    /\ mainPc = "build" /\ w \in sources \ Range_(pool)
    /\ pool' = Append(pool, w)
    /\ UNCHANGED <<mainPc, sources, outcome, joinAt, skipped, open, abortVars,
                   threadVars, queue, file>>

\* prepareRequest(null) throws: no thread is started, not even those created
\* before, and the writer stays open.
RequestUnprepared(w) ==
    /\ "request" \in Faults
    /\ mainPc = "build" /\ w \in sources \ Range_(pool)
    /\ mainPc' = "returned" /\ outcome' = "failed"
    /\ UNCHANGED <<pool, sources, joinAt, skipped, open, abortVars, threadVars,
                   queue, file>>

StartThreads ==
    /\ mainPc = "build" /\ Range_(pool) = sources
    /\ mainPc' = "join"
    /\ pc' = [w \in Sources |-> IF w \in sources THEN "check" ELSE pc[w]]
    /\ UNCHANGED <<pool, sources, outcome, joinAt, skipped, open, abortVars,
                   queue, file, held, header, body, terminate, failCount>>

Join ==
    /\ mainPc = "join" /\ joinAt \in DOMAIN pool /\ pc[pool[joinAt]] \in Finished
    /\ joinAt' = joinAt + 1
    /\ UNCHANGED <<mainPc, pool, sources, outcome, skipped, open, abortVars,
                   threadVars, queue, file>>

\* join() throws InterruptedException, which is swallowed: the loop goes on
\* with the next thread and leaves this one running.
JoinInterrupted ==
    /\ "interrupt" \in Faults
    /\ mainPc = "join" /\ joinAt \in DOMAIN pool /\ pc[pool[joinAt]] \notin Finished
    /\ joinAt' = joinAt + 1 /\ skipped' = skipped \union {pool[joinAt]}
    /\ UNCHANGED <<mainPc, pool, sources, outcome, open, abortVars, threadVars,
                   queue, file>>

\* Mutant: the writer is left to the garbage collector.
WriterLeftOpen ==
    /\ mainPc = "join" /\ joinAt = Len(pool) + 1
    /\ mainPc' = "closed"
    /\ UNCHANGED <<pool, sources, outcome, joinAt, skipped, open, abortVars,
                   threadVars, queue, file>>

CloseWriter ==
    /\ mainPc = "join" /\ joinAt = Len(pool) + 1
    /\ mainPc' = "closed" /\ open' = FALSE
    /\ UNCHANGED <<pool, sources, outcome, joinAt, skipped, abortVars, threadVars,
                   queue, file>>

\* Mutant: does not look at the queue.
SucceedBlindly ==
    /\ mainPc = "closed"
    /\ mainPc' = "returned" /\ outcome' = "success"
    /\ UNCHANGED <<pool, sources, joinAt, skipped, open, abortVars, threadVars,
                   queue, file>>

\* An empty queue is a success,
Succeed ==
    /\ mainPc = "closed" /\ queue = <<>>
    /\ mainPc' = "returned" /\ outcome' = "success"
    /\ UNCHANGED <<pool, sources, joinAt, skipped, open, abortVars, threadVars,
                   queue, file>>

FindWorkLeft ==
    /\ mainPc = "closed" /\ queue # <<>>
    /\ mainPc' = "blame"
    /\ UNCHANGED <<pool, sources, outcome, joinAt, skipped, open, abortVars,
                   threadVars, queue, file>>

\* else the operation fails, or returns without a result when it was aborted:
\* the flag is read under the lock that abort() holds.
Conclude ==
    /\ mainPc = "blame" /\ abortPc # "loop"
    /\ outcome' = IF isAborted THEN "aborted" ELSE "failed"
    /\ mainPc' = "returned"
    /\ UNCHANGED <<pool, sources, joinAt, skipped, open, abortVars, threadVars,
                   queue, file>>

Main == NoSource \/ Prepare \/ (\E w \in Sources : AddThread(w))
        \/ StartThreads \/ Join \/ CloseWriter \/ Succeed \/ FindWorkLeft \/ Conclude

\* What nothing in the program makes happen.
MainDisturbed == JoinInterrupted \/ \E w \in Sources : RequestUnprepared(w)

--------------------------------------------------------------------------------
(* abort(), called by another thread.  It walks the pool with an iterator     *)
(* while operationExecute may still be adding to it without the lock.         *)

AbortCall ==
    /\ MayAbort /\ abortPc = "idle"
    /\ abortPc' = "loop" /\ cursor' = 0 /\ seenSize' = Len(pool)
    /\ UNCHANGED <<opVars, isAborted, threadVars, queue, file>>

\* terminate(): sets the flag, aborts the request and interrupts the thread.
AbortThread ==
    /\ abortPc = "loop" /\ cursor < Len(pool) /\ seenSize = Len(pool)
    /\ cursor' = cursor + 1
    /\ terminate' = [terminate EXCEPT ![pool[cursor + 1]] = TRUE]
    /\ UNCHANGED <<opVars, isAborted, abortPc, seenSize, pc, held, header, body,
                   failCount, queue, file>>

\* The pool grew under the iterator: ConcurrentModificationException.
AbortThrows ==
    /\ abortPc = "loop" /\ cursor # Len(pool) /\ seenSize # Len(pool)
    /\ abortPc' = "threw"
    /\ UNCHANGED <<opVars, isAborted, cursor, seenSize, threadVars, queue, file>>

AbortReturns ==
    /\ abortPc = "loop" /\ cursor = Len(pool)
    /\ abortPc' = "returned" /\ isAborted' = TRUE
    /\ UNCHANGED <<opVars, cursor, seenSize, threadVars, queue, file>>

Abort == AbortCall \/ AbortThread \/ AbortThrows \/ AbortReturns

--------------------------------------------------------------------------------
(* FileDownloadThread.run.  A thread reaches take() and put() with its flag   *)
(* set only when abort() set it, and then its interrupt is pending too.       *)

goto(w, where) == pc' = [pc EXCEPT ![w] = where]
drop(w) ==
    /\ held' = [held EXCEPT ![w] = NoChunk]
    /\ body' = [body EXCEPT ![w] = Hole]

\* Mutant: a thread stops after any refusal.
LeaveAfterRefusal(w) ==
    /\ pc[w] = "check" /\ (terminate[w] \/ queue = <<>> \/ failCount[w] > 0)
    /\ goto(w, "done")
    /\ UNCHANGED <<opVars, abortVars, held, header, body, terminate, failCount,
                   queue, file>>

Leave(w) ==
    /\ pc[w] = "check" /\ (terminate[w] \/ queue = <<>>)
    /\ goto(w, "done")
    /\ UNCHANGED <<opVars, abortVars, held, header, body, terminate, failCount,
                   queue, file>>

SeeWork(w) ==
    /\ pc[w] = "check" /\ ~terminate[w] /\ queue # <<>>
    /\ goto(w, "take")
    /\ UNCHANGED <<opVars, abortVars, held, header, body, terminate, failCount,
                   queue, file>>

\* Blocks while the queue is empty.
Take(w) ==
    /\ pc[w] = "take" /\ ~terminate[w] /\ queue # <<>>
    /\ held' = [held EXCEPT ![w] = Head(queue)]
    /\ header' = [header EXCEPT ![w] = @ \union {Head(queue)}]
    /\ queue' = Tail(queue)
    /\ goto(w, "request")
    /\ UNCHANGED <<opVars, abortVars, body, terminate, failCount, file>>

\* Mutant: terminate() without interrupt().
NeverInterrupted(w) == FALSE /\ UNCHANGED vars

TakeInterrupted(w) ==
    /\ pc[w] = "take" /\ terminate[w]
    /\ goto(w, "check")
    /\ UNCHANGED <<opVars, abortVars, held, header, body, terminate, failCount,
                   queue, file>>

\* execute() throws: the chunk is forgotten and the header stays.
RequestFails(w) ==
    /\ pc[w] = "request" /\ ("io" \in Faults \/ terminate[w])
    /\ goto(w, "check") /\ drop(w)
    /\ UNCHANGED <<opVars, abortVars, header, terminate, failCount,
                   queue, file>>

\* Mutant: a refused chunk is not put back.
RefusedForgotten(w) ==
    /\ pc[w] = "request" /\ "status" \in Faults /\ ~terminate[w]
    /\ goto(w, "check") /\ drop(w)
    /\ header' = [header EXCEPT ![w] = {}]
    /\ UNCHANGED <<opVars, abortVars, terminate, failCount, queue, file>>

Refused(w) ==
    /\ pc[w] = "request" /\ "status" \in Faults /\ ~terminate[w]
    /\ goto(w, "put")
    /\ header' = [header EXCEPT ![w] = {}]
    /\ UNCHANGED <<opVars, abortVars, held, body, terminate, failCount, queue, file>>

\* Mutants: no threshold, no count, and the error page written as well.
PutBackForever(w) ==
    /\ pc[w] = "put" /\ ~terminate[w]
    /\ queue' = Append(queue, held[w]) /\ drop(w)
    /\ failCount' = [failCount EXCEPT ![w] = @ + 1]
    /\ goto(w, "check")
    /\ UNCHANGED <<opVars, abortVars, header, terminate, file>>

PutBackUncounted(w) ==
    /\ pc[w] = "put" /\ ~terminate[w]
    /\ queue' = Append(queue, held[w]) /\ drop(w)
    /\ goto(w, "check")
    /\ UNCHANGED <<opVars, abortVars, header, terminate, failCount, file>>

PutBackAndWrite(w) ==
    /\ pc[w] = "put" /\ ~terminate[w]
    /\ queue' = Append(queue, held[w]) /\ drop(w)
    /\ file' = [file EXCEPT ![held[w]] = Mixed]
    /\ goto(w, "check")
    /\ UNCHANGED <<opVars, abortVars, header, terminate, failCount>>

PutBack(w) ==
    /\ pc[w] = "put" /\ ~terminate[w]
    /\ queue' = Append(queue, held[w]) /\ drop(w)
    /\ failCount' = [failCount EXCEPT ![w] = @ + 1]
    /\ terminate' = [terminate EXCEPT ![w] = failCount[w] + 1 >= FAIL_THRESHOLD]
    /\ goto(w, "check")
    /\ UNCHANGED <<opVars, abortVars, header, file>>

\* put() throws InterruptedException: the chunk is forgotten.
PutInterrupted(w) ==
    /\ pc[w] = "put" /\ terminate[w]
    /\ goto(w, "check") /\ drop(w)
    /\ UNCHANGED <<opVars, abortVars, header, terminate, failCount,
                   queue, file>>

\* Mutant: removeHeaders() is missing.
AnsweredKeepsHeader(w) ==
    /\ pc[w] = "request" /\ ~terminate[w]
    /\ \E r \in header[w] : body' = [body EXCEPT ![w] = r]
    /\ goto(w, "read")
    /\ UNCHANGED <<opVars, abortVars, held, header, terminate, failCount, queue, file>>

\* A request with two Range headers may be answered for either.
Answered(w) ==
    /\ pc[w] = "request" /\ ~terminate[w]
    /\ \E r \in header[w] : body' = [body EXCEPT ![w] = r]
    /\ header' = [header EXCEPT ![w] = {}]
    /\ goto(w, "read")
    /\ UNCHANGED <<opVars, abortVars, held, terminate, failCount, queue, file>>

\* getEntity() is null: the exception ends the thread.
NoEntity(w) ==
    /\ pc[w] = "read" /\ "entity" \in Faults
    /\ goto(w, "dead") /\ drop(w)
    /\ UNCHANGED <<opVars, abortVars, header, terminate, failCount,
                   queue, file>>

ReadFails(w) ==
    /\ pc[w] = "read" /\ ("io" \in Faults \/ terminate[w])
    /\ goto(w, "check") /\ drop(w)
    /\ UNCHANGED <<opVars, abortVars, header, terminate, failCount,
                   queue, file>>

\* The whole buffer is written whatever part of it was read, and a failure of
\* the writer, a closed one included, goes unnoticed.
Write(w) ==
    /\ pc[w] = "read"
    /\ \/ open /\ file' = [file EXCEPT ![held[w]] = body[w]]
       \/ open /\ "short" \in Faults /\ file' = [file EXCEPT ![held[w]] = Mixed]
       \/ (~open \/ "disk" \in Faults) /\ UNCHANGED file
    /\ goto(w, "check") /\ drop(w)
    /\ UNCHANGED <<opVars, abortVars, header, terminate, failCount, queue>>

Worker(w) ==
    \/ Leave(w) \/ SeeWork(w) \/ Take(w) \/ TakeInterrupted(w)
    \/ RequestFails(w) \/ Refused(w) \/ PutBack(w) \/ PutInterrupted(w)
    \/ Answered(w) \/ NoEntity(w) \/ ReadFails(w) \/ Write(w)

--------------------------------------------------------------------------------
Next == Main \/ MainDisturbed \/ Abort \/ (\E w \in Sources : Worker(w))

Spec == Init /\ [][Next]_vars

\* Threads and the two callers are scheduled by the JVM, and a server or its
\* connection eventually answers or fails.
Fairness ==
    /\ WF_vars(Main) /\ WF_vars(AbortThread \/ AbortThrows \/ AbortReturns)
    /\ \A w \in Sources : WF_vars(Worker(w))

FairSpec == Spec /\ Fairness

--------------------------------------------------------------------------------
(* What the operation promises when nothing but refusals goes wrong. *)

Clean == Faults \subseteq {"status"} /\ ~MayAbort

Promise == INSTANCE DownloadPromise
PromiseSpec == Promise!Spec

--------------------------------------------------------------------------------
(* Properties *)

MainPcs   == {"begin", "build", "join", "closed", "blame", "returned"}
AbortPcs  == {"idle", "loop", "threw", "returned"}
ThreadPcs == {"new", "check", "take", "request", "put", "read"} \union Finished
Outcomes  == {"none", "success", "failed", "aborted"}

\* Every variable has its type.
TypeOK ==
    /\ mainPc \in MainPcs /\ outcome \in Outcomes
    /\ sources \in SUBSET Sources /\ pool \in Seq(Sources)
    /\ joinAt \in Nat /\ skipped \in SUBSET Sources /\ open \in BOOLEAN
    /\ isAborted \in BOOLEAN /\ abortPc \in AbortPcs
    /\ cursor \in Nat /\ seenSize \in Nat
    /\ queue \in Seq(Chunks)
    /\ file \in [Chunks -> 0..(NumChunks + 1)]
    /\ pc \in [Sources -> ThreadPcs]
    /\ held \in [Sources -> 0..NumChunks]
    /\ header \in [Sources -> SUBSET Chunks]
    /\ body \in [Sources -> 0..NumChunks]
    /\ terminate \in [Sources -> BOOLEAN]
    /\ failCount \in [Sources -> 0..FAIL_THRESHOLD]

Waiting(c) == \E i \in DOMAIN queue : queue[i] = c
HeldBy(c)  == {w \in Sources : held[w] = c}

\* A chunk has at most one owner: it waits in the queue at most once, at most
\* one thread works on it, never both, and once something is stored at its
\* place it is never downloaded again (FileDownloadThread's take and put).
ChunkHasOneOwner ==
    /\ \A i, j \in DOMAIN queue : i # j => queue[i] # queue[j]
    /\ \A w, v \in Sources :
          (w # v /\ held[w] # NoChunk) => held[w] # held[v]
    /\ \A w \in Sources : held[w] # NoChunk =>
          ~Waiting(held[w]) /\ file[held[w]] = Hole
    /\ \A i \in DOMAIN queue : file[queue[i]] = Hole

\* Once operationExecute has returned the file stays as it is, even when an
\* interrupt of a join left threads behind: the writer is closed before the
\* return.  Only a thread left behind goes on, and only with one of those the
\* queue can change (the joins of FileDownloadOp).
QuietAfterReturn ==
    [][mainPc = "returned" =>
          /\ UNCHANGED file
          /\ skipped = {} => UNCHANGED queue
          /\ \A w \in Sources \ skipped : held'[w] = held[w] /\ pc'[w] = pc[w]]_vars

\* operationExecute reports a failure only if it had no source, if it could not
\* make a thread for one, if some thread gave up for good (refused
\* FAIL_THRESHOLD times, killed by an exception, or terminated by an abort()
\* that did not finish its walk), or if an interrupt made it leave a thread.
FailureHasACause ==
    outcome = "failed" =>
        \/ sources = {} \/ Range_(pool) # sources
        \/ \E w \in sources : failCount[w] = FAIL_THRESHOLD \/ pc[w] = "dead"
        \/ abortPc \in {"threw", "returned"}
        \/ skipped # {}

\* A success means that every chunk is in the file at its place ("close the
\* file after writing all the data and set the result").
SuccessIsComplete ==
    outcome = "success" => \A c \in Chunks : file[c] = c

\* Whatever is stored is the right content: a thread's leftover Range header
\* never makes it store one chunk at the place of another.
StoredInPlace == \A c \in Chunks : file[c] \in {Hole, c}

\* Every thread eventually leaves its loop, starves in take() on a queue that
\* stays empty, or is never started because the call has returned before.
SettlesOrStarves ==
    <>[](\A w \in sources :
            \/ pc[w] \in Finished
            \/ pc[w] = "take" /\ queue = <<>>
            \/ pc[w] = "new" /\ mainPc = "returned")

\* An abort() that walked all the threads ends the operation, even one whose
\* threads starve in take().
AbortEndsDownload ==
    (sources # {} /\ \A w \in sources : terminate[w]) ~> (mainPc = "returned")

\* operationExecute returns.
DownloadReturns == <>(mainPc = "returned")

================================================================================
