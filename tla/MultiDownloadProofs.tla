-------------------------- MODULE MultiDownloadProofs --------------------------
(***************************************************************************)
(* Proofs about MultiDownload for every set of sources, number of chunks,  *)
(* threshold and set of faults.                                            *)
(***************************************************************************)
EXTENDS MultiDownload, SequenceTheorems, TLAPS

\* The number of chunks and the threshold are positive.
LEMMA Positive ==
    /\ NumChunks \in Nat /\ NumChunks > 0
    /\ FAIL_THRESHOLD \in Nat /\ FAIL_THRESHOLD > 0
  BY ChunksAssumption, ThresholdAssumption

--------------------------------------------------------------------------------
(* The strengthening: what the position of a thread says of its data. *)

\* A thread that reached the threshold has set its own flag.
CountBelowThreshold ==
    \A w \in Sources : failCount[w] = FAIL_THRESHOLD => terminate[w]

\* A thread holds a chunk exactly while it requests, returns or reads it.
HoldsWhenBusy ==
    \A w \in Sources : held[w] # NoChunk <=> pc[w] \in {"request", "put", "read"}

Typed == TypeOK /\ CountBelowThreshold /\ HoldsWhenBusy

\* No thread runs before the queue is filled or without a source; the joins
\* pass only threads that have ended or that an interrupt left behind; the
\* queue is empty before it is filled, and the writer is open at most until the
\* joins are over.
Phases ==
    /\ \A w \in Sources \ sources : pc[w] = "new"
    /\ mainPc \in {"begin", "build"} => \A w \in Sources : pc[w] = "new"
    /\ mainPc = "begin" => queue = <<>> /\ file = [c \in Chunks |-> Hole]
    /\ mainPc \in {"begin", "build"} => joinAt = 1 /\ skipped = {}
    /\ mainPc = "join" => joinAt <= Len(pool) + 1 /\ Range_(pool) = sources
    /\ mainPc = "join" => \A i \in 1..Len(pool) :
          i < joinAt => pool[i] \in skipped \/ pc[pool[i]] \in Finished
    /\ mainPc \in {"closed", "blame", "returned"} =>
          \A w \in Sources \ skipped : pc[w] \in Finished \union {"new"}
    /\ mainPc \in {"join", "closed", "blame"} => \A w \in sources : pc[w] # "new"
    /\ mainPc \in {"closed", "blame"} => ~open
    /\ mainPc \in {"build", "join"} => open
    /\ mainPc = "returned" => ~open \/ \A w \in Sources : pc[w] = "new"
    /\ mainPc = "returned" <=> outcome # "none"
    /\ mainPc \in {"build", "join", "closed", "blame"} => sources # {}

OwnerInv == Typed /\ Phases /\ ChunkHasOneOwner

--------------------------------------------------------------------------------
(* Typing *)

LEMMA TypedInit == Init => Typed
<1> SUFFICES ASSUME Init PROVE Typed
  OBVIOUS
<1> USE Positive DEF Init, Hole, NoChunk
<1>1. /\ file \in [Chunks -> 0..(NumChunks + 1)]
      /\ held \in [Sources -> 0..NumChunks]
      /\ body \in [Sources -> 0..NumChunks]
      /\ failCount \in [Sources -> 0..FAIL_THRESHOLD]
  OBVIOUS
<1>2. /\ header \in [Sources -> SUBSET Chunks]
      /\ terminate \in [Sources -> BOOLEAN]
      /\ pc \in [Sources -> ThreadPcs]
  BY DEF ThreadPcs
<1>3. CountBelowThreshold /\ HoldsWhenBusy
  BY DEF CountBelowThreshold, HoldsWhenBusy
<1>4. /\ sources \in SUBSET Sources /\ pool \in Seq(Sources)
      /\ queue \in Seq(Chunks)
      /\ cursor \in Nat /\ seenSize \in Nat
  OBVIOUS
<1>5. /\ mainPc \in MainPcs /\ outcome \in Outcomes
      /\ isAborted \in BOOLEAN /\ abortPc \in AbortPcs
  BY DEF MainPcs, AbortPcs, Outcomes
<1> QED
  BY <1>1, <1>2, <1>3, <1>4, <1>5 DEF Typed, TypeOK

LEMMA TypedStep == Typed /\ Phases /\ [Next]_vars => Typed'
<1> USE Positive
<1> SUFFICES ASSUME Typed, Phases, [Next]_vars PROVE Typed'
  OBVIOUS
<1> USE DEF Typed, CountBelowThreshold, HoldsWhenBusy, NoChunk, TypeOK, MainPcs, AbortPcs, ThreadPcs, Outcomes, Finished
<1>1. CASE NoSource
  BY <1>1 DEF NoSource, abortVars, threadVars
<1>2. CASE Prepare
  <2>1. queue' \in Seq(Chunks)
    BY <1>2 DEF Prepare, Chunks
  <2> QED
    BY <1>2, <2>1 DEF Prepare, abortVars, threadVars
<1>3. ASSUME NEW w \in Sources, AddThread(w) PROVE Typed'
  <2>1. pool' \in Seq(Sources)
    BY <1>3 DEF AddThread
  <2> QED
    BY <1>3, <2>1 DEF AddThread, abortVars, threadVars
<1>12. ASSUME NEW w \in Sources, RequestUnprepared(w) PROVE Typed'
  BY <1>12 DEF RequestUnprepared, abortVars, threadVars
<1>13. CASE Join
  BY <1>13 DEF Join, abortVars, threadVars
<1>14. CASE JoinInterrupted
  <2>1. pool[joinAt] \in Sources
    BY <1>14 DEF JoinInterrupted
  <2> QED
    BY <1>14, <2>1 DEF JoinInterrupted, abortVars, threadVars
<1>15. CASE CloseWriter
  BY <1>15 DEF CloseWriter, abortVars, threadVars
<1>16. CASE Succeed
  BY <1>16 DEF Succeed, abortVars, threadVars
<1>17. CASE FindWorkLeft
  BY <1>17 DEF FindWorkLeft, abortVars, threadVars
<1>4. CASE StartThreads
  <2>1. pc' \in [Sources -> ThreadPcs]
    BY <1>4 DEF StartThreads
  <2>2. \A w \in Sources : pc'[w] \in {"request", "put", "read"}
                            <=> pc[w] \in {"request", "put", "read"}
    BY <1>4 DEF StartThreads, Phases
  <2>3. TypeOK'
    BY <1>4, <2>1 DEF StartThreads, abortVars
  <2>4. HoldsWhenBusy'
    BY <1>4, <2>2 DEF StartThreads
  <2> QED
    BY <1>4, <2>3, <2>4 DEF StartThreads
<1>5. CASE Conclude
  BY <1>5 DEF Conclude, abortVars, threadVars
<1>6. CASE AbortCall
  BY <1>6 DEF AbortCall, opVars, threadVars
<1>7. CASE AbortThread
  BY <1>7 DEF AbortThread, opVars
<1>8. CASE AbortThrows
  BY <1>8 DEF AbortThrows, opVars, threadVars
<1>9. CASE AbortReturns
  BY <1>9 DEF AbortReturns, opVars, threadVars
<1>10. ASSUME NEW w \in Sources, Worker(w) PROVE Typed'
  <2> USE DEF opVars, abortVars, goto, drop, NoChunk, Hole
  <2>1. CASE Leave(w)
    BY <2>1 DEF Leave
  <2>2. CASE SeeWork(w)
    BY <2>2 DEF SeeWork
  <2>3. CASE Take(w)
    <3>1. Head(queue) \in Chunks /\ Tail(queue) \in Seq(Chunks)
      BY <2>3 DEF Take
    <3>2. Chunks \subseteq 0..NumChunks
      BY DEF Chunks
    <3>3. /\ held' \in [Sources -> 0..NumChunks]
          /\ header' \in [Sources -> SUBSET Chunks]
          /\ pc' \in [Sources -> ThreadPcs]
      BY <2>3, <3>1, <3>2 DEF Take
    <3>4. Head(queue) # 0
      BY <3>1 DEF Chunks
    <3>5. HoldsWhenBusy'
      BY <2>3, <3>4 DEF Take
    <3> QED
      BY <2>3, <3>1, <3>3, <3>5 DEF Take
  <2>4. CASE TakeInterrupted(w)
    BY <2>4 DEF TakeInterrupted
  <2>5. CASE RequestFails(w)
    BY <2>5 DEF RequestFails
  <2>6. CASE Refused(w)
    BY <2>6 DEF Refused
  <2>7. CASE PutBack(w)
    <3>1. Append(queue, held[w]) \in Seq(Chunks)
      BY <2>7 DEF PutBack, Chunks
    <3>2. failCount[w] # FAIL_THRESHOLD
      BY <2>7 DEF PutBack
    <3>3. failCount[w] + 1 \in 0..FAIL_THRESHOLD
      BY <3>2
    <3>4. /\ failCount' \in [Sources -> 0..FAIL_THRESHOLD]
          /\ terminate' \in [Sources -> BOOLEAN]
          /\ pc' \in [Sources -> ThreadPcs]
          /\ held' \in [Sources -> 0..NumChunks]
          /\ body' \in [Sources -> 0..NumChunks]
      BY <2>7, <3>3 DEF PutBack
    <3>5. CountBelowThreshold'
      <4>1. failCount'[w] = failCount[w] + 1
            /\ (terminate'[w] <=> failCount[w] + 1 >= FAIL_THRESHOLD)
        BY <2>7 DEF PutBack
      <4>2. \A v \in Sources \ {w} :
                failCount'[v] = failCount[v] /\ terminate'[v] = terminate[v]
        BY <2>7 DEF PutBack
      <4>3. failCount'[w] = FAIL_THRESHOLD => terminate'[w]
        BY <3>3, <4>1
      <4>4. \A v \in Sources \ {w} :
                failCount'[v] = FAIL_THRESHOLD => terminate'[v]
        BY <4>2
      <4> QED
        BY <4>3, <4>4
    <3>6. HoldsWhenBusy'
      BY <2>7 DEF PutBack
    <3> QED
      BY <2>7, <3>1, <3>4, <3>5, <3>6 DEF PutBack
  <2>8. CASE PutInterrupted(w)
    BY <2>8 DEF PutInterrupted
  <2>9. CASE Answered(w)
    <3>1. body' \in [Sources -> 0..NumChunks]
      BY <2>9 DEF Answered, Chunks
    <3>2. /\ header' \in [Sources -> SUBSET Chunks]
          /\ pc' \in [Sources -> ThreadPcs]
      BY <2>9 DEF Answered
    <3>3. HoldsWhenBusy'
      BY <2>9 DEF Answered
    <3> QED
      BY <2>9, <3>1, <3>2, <3>3 DEF Answered
  <2>10. CASE NoEntity(w)
    BY <2>10 DEF NoEntity
  <2>11. CASE ReadFails(w)
    BY <2>11 DEF ReadFails
  <2>12. CASE Write(w)
    <3>1. body[w] \in 0..(NumChunks + 1) /\ Mixed \in 0..(NumChunks + 1)
      BY DEF Mixed
    <3>2. file' \in [Chunks -> 0..(NumChunks + 1)]
      BY <2>12, <3>1 DEF Write
    <3>3. /\ held' \in [Sources -> 0..NumChunks]
          /\ body' \in [Sources -> 0..NumChunks]
          /\ pc' \in [Sources -> ThreadPcs]
      BY <2>12 DEF Write
    <3>4. HoldsWhenBusy'
      BY <2>12 DEF Write
    <3> QED
      BY <2>12, <3>2, <3>3, <3>4 DEF Write
  <2> QED
    BY <1>10, <2>1, <2>2, <2>3, <2>4, <2>5, <2>6, <2>7, <2>8, <2>9, <2>10, <2>11,
       <2>12 DEF Worker
<1>11. CASE UNCHANGED vars
  BY <1>11 DEF vars, opVars, abortVars, threadVars
<1> QED
  BY <1>1, <1>2, <1>3, <1>4, <1>5, <1>6, <1>7, <1>8, <1>9, <1>10, <1>11, <1>12, <1>13,
     <1>14, <1>15, <1>16, <1>17
     DEF Next, Main, MainDisturbed, Abort
--------------------------------------------------------------------------------
(* Phases *)

\* The data of a thread changes only while the joins wait for it, or after an
\* interrupt left it behind.
LEMMA WorkerRunsInJoin ==
    ASSUME Phases, Typed, NEW w \in Sources, Worker(w)
    PROVE  /\ mainPc = "join" \/ (w \in skipped /\ mainPc \in {"closed", "blame", "returned"})
           /\ mainPc # "join" => ~open
           /\ w \in sources
<1>1. pc[w] \notin Finished \union {"new"}
  BY DEF Finished, Worker, Leave, SeeWork, Take, TakeInterrupted, RequestFails, Refused,
     PutBack, PutInterrupted, Answered, NoEntity, ReadFails, Write
<1> QED
  BY <1>1 DEF Phases, Typed, TypeOK, MainPcs

LEMMA WorkerKeepsMain ==
    ASSUME NEW w \in Sources, Worker(w)
    PROVE  UNCHANGED <<opVars, abortVars>>
  BY DEF Worker, Leave, SeeWork, Take, TakeInterrupted, RequestFails, Refused,
     PutBack, PutInterrupted, Answered, NoEntity, ReadFails, Write, opVars, abortVars

LEMMA AbortKeepsData ==
    ASSUME Abort
    PROVE  UNCHANGED <<opVars, pc, held, header, body, failCount, queue, file>>
  BY DEF Abort, AbortCall, AbortThread, AbortThrows, AbortReturns, opVars, threadVars

\* The steps of operationExecute that leave the threads' data alone, all but the
\* filling of the queue and the start.
MainQuietly ==
    \/ NoSource \/ Join \/ CloseWriter \/ Succeed \/ FindWorkLeft \/ Conclude
    \/ JoinInterrupted
    \/ \E w \in Sources : AddThread(w) \/ RequestUnprepared(w)

LEMMA MainKeepsData ==
    ASSUME MainQuietly \/ UNCHANGED vars
    PROVE  UNCHANGED <<sources, abortVars, threadVars, queue, file>>
  BY DEF MainQuietly, NoSource, Join, CloseWriter, Succeed, FindWorkLeft, Conclude,
     JoinInterrupted, AddThread, RequestUnprepared, vars, opVars

LEMMA NextCases ==
    ASSUME [Next]_vars
    PROVE  \/ Prepare \/ StartThreads \/ MainQuietly \/ Abort \/ UNCHANGED vars
           \/ \E w \in Sources : Worker(w)
  BY DEF Next, Main, MainDisturbed, MainQuietly

LEMMA PhasesInit == Init => Phases
  BY DEF Init, Phases

LEMMA PhasesStep == Typed /\ Phases /\ [Next]_vars => Phases'
<1> SUFFICES ASSUME Typed, Phases, [Next]_vars PROVE Phases'
  OBVIOUS
<1>t. /\ pool \in Seq(Sources) /\ joinAt \in Nat /\ Len(pool) \in Nat
      /\ DOMAIN pool = 1..Len(pool) /\ \A i \in 1..Len(pool) : pool[i] \in Sources
  BY DEF Typed, TypeOK
<1>1. CASE NoSource
  BY <1>1 DEF NoSource, abortVars, threadVars, Phases
<1>2. CASE Prepare
  BY <1>2 DEF Prepare, abortVars, threadVars, Phases
<1>3. ASSUME NEW w \in Sources, AddThread(w) \/ RequestUnprepared(w) PROVE Phases'
  BY <1>3 DEF AddThread, RequestUnprepared, abortVars, threadVars, Phases
<1>4. CASE StartThreads
  BY <1>4, <1>t DEF StartThreads, abortVars, Phases, Typed, TypeOK, Range_
<1>5. CASE Join
  <2>1. \A i \in 1..Len(pool) : i < joinAt + 1 => i < joinAt \/ i = joinAt
    BY <1>t
  <2>2. mainPc = "join" /\ joinAt + 1 <= Len(pool) + 1 /\ pc[pool[joinAt]] \in Finished
        /\ joinAt' = joinAt + 1
        /\ UNCHANGED <<mainPc, pool, sources, outcome, skipped, open, pc, queue, file>>
    BY <1>5, <1>t DEF Join, threadVars
  <2> QED
    BY <2>1, <2>2 DEF Phases
<1>6. CASE JoinInterrupted
  <2>1. \A i \in 1..Len(pool) : i < joinAt + 1 => i < joinAt \/ i = joinAt
    BY <1>t
  <2>2. mainPc = "join" /\ joinAt + 1 <= Len(pool) + 1
        /\ skipped' = skipped \union {pool[joinAt]} /\ joinAt' = joinAt + 1
        /\ UNCHANGED <<mainPc, pool, sources, outcome, open, pc, queue, file>>
    BY <1>6, <1>t DEF JoinInterrupted, threadVars
  <2> QED
    BY <2>1, <2>2 DEF Phases
<1>7. CASE CloseWriter
  <2>1. /\ mainPc = "join" /\ joinAt = Len(pool) + 1 /\ mainPc' = "closed" /\ ~open'
        /\ UNCHANGED <<pool, sources, outcome, joinAt, skipped, pc, queue, file>>
    BY <1>7 DEF CloseWriter, threadVars
  <2>2. \A w \in sources : w \in skipped \/ pc[w] \in Finished
    <3> SUFFICES ASSUME NEW w \in sources PROVE w \in skipped \/ pc[w] \in Finished
      OBVIOUS
    <3>1. PICK i \in 1..Len(pool) : pool[i] = w
      BY <2>1, <1>t DEF Phases, Range_
    <3>2. i < joinAt
      BY <2>1, <1>t
    <3> QED
      BY <2>1, <3>1, <3>2 DEF Phases
  <2>3. \A w \in sources : pc[w] # "new"
    BY <2>1 DEF Phases
  <2> QED
    BY <2>1, <2>2, <2>3 DEF Phases
<1>8. CASE Succeed \/ FindWorkLeft \/ Conclude
  BY <1>8 DEF Succeed, FindWorkLeft, Conclude, threadVars, Phases
<1>9. CASE Abort
  BY <1>9, AbortKeepsData DEF Phases, opVars
<1>10. ASSUME NEW w \in Sources, Worker(w) PROVE Phases'
  <2>1. /\ mainPc = "join" \/ (w \in skipped /\ mainPc \in {"closed", "blame", "returned"})
        /\ UNCHANGED <<mainPc, pool, sources, outcome, joinAt, skipped, open>>
        /\ w \in sources /\ (mainPc # "join" => ~open)
    BY <1>10, WorkerRunsInJoin, WorkerKeepsMain DEF opVars
  <2>2. \A v \in Sources \ {w} : pc'[v] = pc[v]
    BY <1>10 DEF Worker, Leave, SeeWork, Take, TakeInterrupted, RequestFails, Refused,
       PutBack, PutInterrupted, Answered, NoEntity, ReadFails, Write, goto, Typed, TypeOK
  <2>3. pc[w] \notin Finished /\ pc'[w] # "new"
    BY <1>10 DEF Finished, Worker, Leave, SeeWork, Take, TakeInterrupted, RequestFails, Refused,
       PutBack, PutInterrupted, Answered, NoEntity, ReadFails, Write, goto, Typed, TypeOK
  <2>4. \A i \in 1..Len(pool) : i < joinAt /\ mainPc = "join" =>
            pool[i] \in skipped \/ (pc[pool[i]] \in Finished /\ pool[i] # w)
    BY <2>3 DEF Phases
  <2>5. \A i \in 1..Len(pool) : i < joinAt /\ mainPc = "join" =>
            pool[i] \in skipped \/ pc'[pool[i]] \in Finished
    BY <2>2, <2>4, <1>t
  <2>6. \A v \in Sources : v \notin skipped /\ mainPc # "join" => v # w
    BY <2>1
  <2>7. /\ \A v \in Sources \ sources : pc'[v] = "new"
        /\ mainPc \notin {"begin", "build"}
    BY <2>1, <2>2 DEF Phases
  <2>8. \A v \in sources : mainPc \in {"join", "closed", "blame"} => pc'[v] # "new"
    BY <2>2, <2>3 DEF Phases, Typed, TypeOK
  <2>9. mainPc \in {"closed", "blame", "returned"} =>
            \A v \in Sources \ skipped : pc'[v] \in Finished \union {"new"}
    BY <2>2, <2>6 DEF Phases
  <2> QED
    BY <2>1, <2>5, <2>7, <2>8, <2>9 DEF Phases
<1>11. CASE UNCHANGED vars
  BY <1>11 DEF vars, opVars, abortVars, threadVars, Phases
<1> QED
  BY <1>1, <1>2, <1>3, <1>4, <1>5, <1>6, <1>7, <1>8, <1>9, <1>10, <1>11, NextCases
     DEF MainQuietly

\* Every variable has its type in every reachable state.
THEOREM TypeCorrect == Spec => []TypeOK
<1>1. Init => Typed /\ Phases
  BY TypedInit, PhasesInit
<1>2. Typed /\ Phases /\ [Next]_vars => (Typed /\ Phases)'
  BY TypedStep, PhasesStep
<1>3. Typed => TypeOK
  BY DEF Typed
<1> QED
  BY <1>1, <1>2, <1>3, PTL DEF Spec

--------------------------------------------------------------------------------
(* One owner per chunk *)

LEMMA OwnerStep ==
    Typed /\ Phases /\ ChunkHasOneOwner /\ [Next]_vars => ChunkHasOneOwner'
<1> SUFFICES ASSUME Typed, Phases, ChunkHasOneOwner, [Next]_vars
             PROVE  ChunkHasOneOwner'
  OBVIOUS
<1>t. /\ queue \in Seq(Chunks)
      /\ held \in [Sources -> 0..NumChunks]
      /\ file \in [Chunks -> 0..(NumChunks + 1)]
      /\ pc \in [Sources -> ThreadPcs]
      /\ \A w \in Sources : held[w] # NoChunk <=> pc[w] \in {"request", "put", "read"}
  BY DEF Typed, TypeOK, HoldsWhenBusy
<1> USE Positive
<1>1. CASE Prepare
  <2>1. \A w \in Sources : held[w] = NoChunk
    BY <1>1, <1>t DEF Prepare, Phases
  <2> QED
    BY <1>1, <2>1 DEF Prepare, threadVars, Phases, ChunkHasOneOwner, Waiting, Chunks
<1>2. ASSUME NEW w \in Sources, Take(w) PROVE ChunkHasOneOwner'
  <2> DEFINE c == queue[1]
  <2>1. /\ Len(queue) \in Nat /\ Len(queue) > 0
        /\ Head(queue) = c /\ c \in Chunks
        /\ Len(queue') = Len(queue) - 1
        /\ \A i \in 1..Len(queue') : queue'[i] = queue[i + 1]
        /\ DOMAIN queue = 1..Len(queue) /\ DOMAIN queue' = 1..Len(queue')
    BY <1>2, <1>t DEF Take
  <2>2. held' = [held EXCEPT ![w] = c] /\ file' = file /\ c # NoChunk
    BY <1>2, <2>1 DEF Take, Chunks, NoChunk
  <2>s. \A i \in DOMAIN queue' : i + 1 \in DOMAIN queue /\ i + 1 # 1
    BY <2>1
  <2>3. \A i, j \in DOMAIN queue' : i # j => queue'[i] # queue'[j]
    <3> SUFFICES ASSUME NEW i \in DOMAIN queue', NEW j \in DOMAIN queue', i # j
                 PROVE  queue'[i] # queue'[j]
      OBVIOUS
    <3>1. i \in Nat /\ j \in Nat /\ i + 1 # j + 1
      BY <2>1
    <3>2. queue[i + 1] # queue[j + 1]
      BY <3>1, <2>s DEF ChunkHasOneOwner
    <3> QED
      BY <3>2, <2>1
  <2>4. /\ file[c] = Hole
        /\ \A v \in Sources : held[v] # c
    BY <2>1, <2>2, <1>t DEF ChunkHasOneOwner, Waiting
  <2>5. \A i \in DOMAIN queue' : queue'[i] # c /\ file[queue'[i]] = Hole
    <3> SUFFICES ASSUME NEW i \in DOMAIN queue'
                 PROVE  queue'[i] # c /\ file[queue'[i]] = Hole
      OBVIOUS
    <3>1. queue'[i] = queue[i + 1] /\ i + 1 \in DOMAIN queue /\ 1 \in DOMAIN queue
      BY <2>1, <2>s
    <3> QED
      BY <3>1, <2>s DEF ChunkHasOneOwner
  <2>7. \A v \in Sources \ {w} : held[v] # NoChunk =>
            \A i \in DOMAIN queue' : queue'[i] # held[v]
    BY <2>1, <2>s DEF ChunkHasOneOwner, Waiting
  <2>8. \A v \in Sources : held'[v] # NoChunk =>
            /\ \A i \in DOMAIN queue' : queue'[i] # held'[v]
            /\ file[held'[v]] = Hole
    BY <2>2, <2>4, <2>5, <2>7, <1>t DEF ChunkHasOneOwner
  <2>9. \A u, v \in Sources :
            (u # v /\ held'[u] # NoChunk) => held'[u] # held'[v]
    BY <2>2, <2>4, <1>t DEF ChunkHasOneOwner
  <2> QED
    BY <2>2, <2>3, <2>5, <2>8, <2>9 DEF ChunkHasOneOwner, Waiting
<1>3. ASSUME NEW w \in Sources, PutBack(w) PROVE ChunkHasOneOwner'
  <2> DEFINE c == held[w]
  <2>1. held' = [held EXCEPT ![w] = NoChunk] /\ file' = file
        /\ queue' = Append(queue, c) /\ c # NoChunk /\ c \in Chunks
    BY <1>3, <1>t DEF PutBack, drop, Chunks, NoChunk
  <2>2. /\ Len(queue) \in Nat /\ Len(queue') = Len(queue) + 1
        /\ queue'[Len(queue) + 1] = c
        /\ \A i \in 1..Len(queue) : queue'[i] = queue[i]
        /\ DOMAIN queue = 1..Len(queue) /\ DOMAIN queue' = 1..Len(queue')
    BY <2>1, <1>t
  <2>3. ~Waiting(c) /\ file[c] = Hole
    BY <2>1 DEF ChunkHasOneOwner
  <2>4. \A i, j \in DOMAIN queue' : i # j => queue'[i] # queue'[j]
    BY <2>2, <2>3 DEF ChunkHasOneOwner, Waiting
  <2>5. \A i \in DOMAIN queue' : file'[queue'[i]] = Hole
    BY <2>1, <2>2, <2>3 DEF ChunkHasOneOwner
  <2>6. \A v \in Sources \ {w} : held[v] # NoChunk => held[v] # c /\ ~Waiting(held[v])
    BY <2>1 DEF ChunkHasOneOwner
  <2>7. \A v \in Sources \ {w} : held[v] # NoChunk =>
            \A i \in DOMAIN queue' : queue'[i] # held[v]
    BY <2>2, <2>6 DEF Waiting
  <2>8. \A v \in Sources : held'[v] # NoChunk =>
            /\ \A i \in DOMAIN queue' : queue'[i] # held'[v]
            /\ file'[held'[v]] = Hole
    BY <2>1, <2>7, <1>t DEF ChunkHasOneOwner
  <2>9. \A u, v \in Sources :
            (u # v /\ held'[u] # NoChunk) => held'[u] # held'[v]
    BY <2>1, <1>t DEF ChunkHasOneOwner
  <2> QED
    BY <2>4, <2>5, <2>8, <2>9 DEF ChunkHasOneOwner, Waiting
<1>4. ASSUME NEW w \in Sources, Write(w) PROVE ChunkHasOneOwner'
  <2>1. /\ queue' = queue /\ held' = [held EXCEPT ![w] = NoChunk]
        /\ held[w] \in Chunks
        /\ \A c \in Chunks \ {held[w]} : file'[c] = file[c]
    BY <1>4, <1>t DEF Write, drop, Chunks, NoChunk
  <2>2. \A i \in DOMAIN queue : queue[i] \in Chunks /\ queue[i] # held[w]
    <3>1. \A i \in DOMAIN queue : queue[i] \in Chunks
      BY <1>t
    <3>2. held[w] # NoChunk
      BY <2>1 DEF Chunks, NoChunk
    <3> QED
      BY <3>1, <3>2 DEF ChunkHasOneOwner, Waiting
  <2>3. \A v \in Sources \ {w} : held[v] # NoChunk =>
            held[v] \in Chunks /\ held[v] # held[w]
    BY <2>1, <1>t DEF ChunkHasOneOwner, Chunks, NoChunk
  <2> QED
    BY <2>1, <2>2, <2>3, <1>t DEF ChunkHasOneOwner, Waiting
<1>5. ASSUME NEW w \in Sources,
             RequestFails(w) \/ PutInterrupted(w) \/ NoEntity(w) \/ ReadFails(w)
      PROVE  ChunkHasOneOwner'
  <2>1. queue' = queue /\ file' = file /\ held' = [held EXCEPT ![w] = NoChunk]
    BY <1>5 DEF RequestFails, PutInterrupted, NoEntity, ReadFails, drop
  <2> QED
    BY <2>1, <1>t DEF ChunkHasOneOwner, Waiting
<1>6. ASSUME UNCHANGED <<queue, file, held>> PROVE ChunkHasOneOwner'
  BY <1>6 DEF ChunkHasOneOwner, Waiting
<1>7. ASSUME NEW w \in Sources,
             Leave(w) \/ SeeWork(w) \/ TakeInterrupted(w) \/ Refused(w) \/ Answered(w)
      PROVE  UNCHANGED <<queue, file, held>>
  BY <1>7 DEF Leave, SeeWork, TakeInterrupted, Refused, Answered
<1>8. ASSUME StartThreads \/ MainQuietly \/ Abort \/ UNCHANGED vars
      PROVE  UNCHANGED <<queue, file, held>>
  BY <1>8, AbortKeepsData, MainKeepsData DEF StartThreads, threadVars
<1> QED
  BY <1>1, <1>2, <1>3, <1>4, <1>5, <1>6, <1>7, <1>8, NextCases DEF Worker

LEMMA OwnerInvHolds == Spec => []OwnerInv
<1>1. Init => OwnerInv
  BY TypedInit, PhasesInit
     DEF OwnerInv, Init, ChunkHasOneOwner, Waiting, NoChunk
<1>2. OwnerInv /\ [Next]_vars => OwnerInv'
  BY TypedStep, PhasesStep, OwnerStep DEF OwnerInv
<1> QED
  BY <1>1, <1>2, PTL DEF Spec

\* A chunk is never in the hands of two threads, nor downloaded again.
THEOREM OneOwner == Spec => []ChunkHasOneOwner
  BY OwnerInvHolds, PTL DEF OwnerInv

\* A thread works with its own chunk and place, and a closed writer stores nothing.
LEMMA WorkerIsLocal ==
    ASSUME OwnerInv, NEW w \in Sources, Worker(w)
    PROVE  /\ ~open => UNCHANGED file
           /\ \A v \in Sources \ {w} : held'[v] = held[v] /\ pc'[v] = pc[v]
  BY DEF Worker, Leave, SeeWork, Take, TakeInterrupted, RequestFails, Refused, PutBack,
     PutInterrupted, Answered, NoEntity, ReadFails, Write, goto, drop, OwnerInv, Typed, TypeOK

\* After operationExecute returned nobody changes the file, and only a thread that an
\* interrupt left behind changes anything else.
THEOREM Quiet == Spec => QuietAfterReturn
<1> DEFINE Still ==
        /\ UNCHANGED file
        /\ skipped = {} => UNCHANGED queue
        /\ \A w \in Sources \ skipped : held'[w] = held[w] /\ pc'[w] = pc[w]
<1>1. OwnerInv /\ [Next]_vars => (mainPc = "returned" => Still)
  <2> SUFFICES ASSUME OwnerInv, [Next]_vars, mainPc = "returned"
               PROVE  Still
    OBVIOUS
  <2>1. ASSUME NEW w \in Sources, Worker(w) PROVE Still
    <3>1. w \in skipped /\ ~open
      BY <2>1, WorkerRunsInJoin DEF OwnerInv
    <3> QED
      BY <2>1, <3>1, WorkerIsLocal
  <2>2. ~Prepare /\ ~StartThreads
    BY DEF Prepare, StartThreads
  <2>3. CASE MainQuietly \/ Abort \/ UNCHANGED vars
    BY <2>3, AbortKeepsData, MainKeepsData DEF threadVars
  <2> QED
    BY <2>1, <2>2, <2>3, NextCases
<1> QED
  BY <1>1, OwnerInvHolds, PTL DEF QuietAfterReturn, Spec
--------------------------------------------------------------------------------
(* A failure has a cause *)

Cause ==
    \/ \E w \in sources : failCount[w] = FAIL_THRESHOLD \/ pc[w] = "dead"
    \/ abortPc # "idle"
    \/ skipped # {}

\* Work that is left always has a thread that will see it, or a cause.
CauseInv ==
    /\ isAborted => abortPc = "returned"
    /\ \A w \in Sources : terminate[w] => failCount[w] = FAIL_THRESHOLD \/ abortPc # "idle"
    /\ (mainPc \in {"join", "closed"} /\ queue # <<>>) =>
          Cause \/ \E w \in sources : pc[w] \notin Finished
    /\ mainPc = "blame" => Cause
    /\ FailureHasACause

LEMMA CauseStep == OwnerInv /\ CauseInv /\ [Next]_vars => CauseInv'
<1> SUFFICES ASSUME OwnerInv, CauseInv, [Next]_vars PROVE CauseInv'
  OBVIOUS
<1>t. /\ pc \in [Sources -> ThreadPcs] /\ terminate \in [Sources -> BOOLEAN]
      /\ failCount \in [Sources -> 0..FAIL_THRESHOLD]
      /\ sources \subseteq Sources /\ Phases
  BY DEF OwnerInv, Typed, TypeOK
<1> USE Positive DEF FailureHasACause, Cause, Finished
<1>1. CASE NoSource
  BY <1>1 DEF NoSource, abortVars, threadVars, CauseInv
<1>2. CASE Prepare
  <2>1. outcome' = "none"
    BY <1>2, <1>t DEF Prepare, Phases
  <2> QED
    BY <1>2, <2>1 DEF Prepare, abortVars, threadVars, CauseInv
<1>3. ASSUME NEW w \in Sources, AddThread(w) PROVE CauseInv'
  <2>1. outcome' = "none"
    BY <1>3, <1>t DEF AddThread, Phases
  <2> QED
    BY <1>3, <2>1 DEF AddThread, abortVars, threadVars, CauseInv
<1>4. CASE StartThreads
  <2>1. \E w \in sources : pc'[w] = "check"
    BY <1>4, <1>t DEF StartThreads, Phases
  <2>2. outcome' = "none"
    BY <1>4, <1>t DEF StartThreads, Phases
  <2> QED
    BY <1>4, <2>1, <2>2 DEF StartThreads, abortVars, CauseInv
<1>5. CASE Conclude
  <2>1. Cause
    BY <1>5 DEF CauseInv, Conclude
  <2>3. outcome' = "failed" => abortPc # "loop"
    BY <1>5 DEF Conclude
  <2>4. abortPc \in AbortPcs
    BY DEF OwnerInv, Typed, TypeOK
  <2>5. FailureHasACause'
    BY <1>5, <2>1, <2>3, <2>4 DEF Conclude, abortVars, threadVars, AbortPcs
  <2> QED
    BY <1>5, <2>5 DEF Conclude, abortVars, threadVars, CauseInv
<1>6. CASE Abort
  <2>1. abortPc' # "idle"
    BY <1>6 DEF Abort, AbortCall, AbortThread, AbortThrows, AbortReturns
  <2>2. isAborted' => abortPc' = "returned"
    BY <1>6 DEF Abort, AbortCall, AbortThread, AbortThrows, AbortReturns, CauseInv
  <2>3. abortPc \in {"threw", "returned"} => FALSE
    BY <1>6 DEF Abort, AbortCall, AbortThread, AbortThrows, AbortReturns
  <2> QED
    BY <1>6, <2>1, <2>2, <2>3, AbortKeepsData DEF CauseInv, opVars
<1>7. ASSUME NEW w \in Sources, Worker(w) PROVE CauseInv'
  <2>1. /\ mainPc = "join" \/ (skipped # {} /\ mainPc \in {"closed", "blame", "returned"})
        /\ UNCHANGED <<mainPc, pool, sources, outcome, isAborted, skipped>>
        /\ abortPc' = abortPc /\ w \in sources
    BY <1>7, WorkerRunsInJoin, WorkerKeepsMain DEF OwnerInv, opVars, abortVars
  <2>2. mainPc = "join" => outcome = "none"
    BY <1>t DEF Phases
  <2>3. CASE Leave(w)
    <3>1. terminate[w] => Cause
      BY <2>1, <2>3 DEF CauseInv
    <3>2. queue # <<>> => Cause
      BY <2>3, <3>1 DEF Leave
    <3>3. Cause => Cause'
      BY <2>1, <2>3, <1>t DEF Leave, goto
    <3> QED
      BY <2>1, <2>2, <2>3, <3>2, <3>3 DEF Leave, CauseInv
  <2>4. CASE PutBack(w)
    <3>1. pc'[w] = "check"
      BY <2>4, <1>t DEF PutBack, goto
    <3>2. \A v \in Sources :
             terminate'[v] => failCount'[v] = FAIL_THRESHOLD \/ abortPc' # "idle"
      <4>1. terminate'[w] => failCount'[w] = FAIL_THRESHOLD
        <5>1. failCount'[w] = failCount[w] + 1 /\ failCount[w] \in 0..FAIL_THRESHOLD
          BY <2>4, <1>t DEF PutBack
        <5>2. terminate'[w] <=> failCount[w] + 1 >= FAIL_THRESHOLD
          BY <2>4, <1>t DEF PutBack
        <5>3. failCount[w] # FAIL_THRESHOLD
          BY <2>4 DEF PutBack, OwnerInv, Typed, CountBelowThreshold
        <5> QED
          BY <5>1, <5>2, <5>3
      <4>2. \A v \in Sources \ {w} :
              terminate'[v] = terminate[v] /\ failCount'[v] = failCount[v]
        BY <2>4, <1>t DEF PutBack
      <4> QED
        BY <2>1, <4>1, <4>2 DEF CauseInv
    <3> QED
      BY <2>1, <2>2, <3>1, <3>2 DEF CauseInv
  <2>5. CASE NoEntity(w)
    <3>1. pc'[w] = "dead"
      BY <2>5, <1>t DEF NoEntity, goto
    <3> QED
      BY <2>1, <2>2, <2>5, <3>1 DEF NoEntity, CauseInv
  <2>6. ASSUME pc'[w] \notin Finished, UNCHANGED <<terminate, failCount>> PROVE CauseInv'
    BY <2>1, <2>2, <2>6 DEF CauseInv
  <2>7. ASSUME SeeWork(w) \/ Take(w) \/ TakeInterrupted(w) \/ RequestFails(w)
               \/ Refused(w) \/ PutInterrupted(w) \/ Answered(w) \/ ReadFails(w) \/ Write(w)
        PROVE pc'[w] \notin Finished /\ UNCHANGED <<terminate, failCount>>
    BY <2>7, <1>t DEF SeeWork, Take, TakeInterrupted, RequestFails, Refused,
       PutInterrupted, Answered, ReadFails, Write, goto
  <2> QED
    BY <1>7, <2>3, <2>4, <2>5, <2>6, <2>7 DEF Worker
<1>8. CASE UNCHANGED vars
  BY <1>8 DEF vars, opVars, abortVars, threadVars, CauseInv
<1>9. ASSUME NEW w \in Sources, RequestUnprepared(w) PROVE CauseInv'
  <2>1. Range_(pool') # sources'
    BY <1>9 DEF RequestUnprepared
  <2> QED
    BY <1>9, <2>1 DEF RequestUnprepared, abortVars, threadVars, CauseInv
<1>10. CASE Join \/ JoinInterrupted
  <2>1. outcome' = "none"
    BY <1>10, <1>t DEF Join, JoinInterrupted, Phases
  <2> QED
    BY <1>10, <2>1 DEF Join, JoinInterrupted, abortVars, threadVars, CauseInv
<1>11. CASE CloseWriter
  <2>1. outcome' = "none"
    BY <1>11, <1>t DEF CloseWriter, Phases
  <2> QED
    BY <1>11, <2>1 DEF CloseWriter, abortVars, threadVars, CauseInv
<1>12. CASE Succeed
  BY <1>12 DEF Succeed, abortVars, threadVars, CauseInv
<1>13. CASE FindWorkLeft
  <2>1. outcome' = "none"
    BY <1>13, <1>t DEF FindWorkLeft, Phases
  <2>2. skipped # {} \/ \A v \in sources : pc[v] \in Finished
    BY <1>13, <1>t DEF FindWorkLeft, Phases
  <2>3. Cause
    BY <1>13, <2>2 DEF FindWorkLeft, CauseInv
  <2> QED
    BY <1>13, <2>1, <2>3 DEF FindWorkLeft, abortVars, threadVars, CauseInv
<1> QED
  BY <1>1, <1>2, <1>3, <1>4, <1>5, <1>6, <1>7, <1>8, <1>9, <1>10, <1>11, <1>12, <1>13,
     NextCases DEF MainQuietly

\* A download that had a thread for every source fails only because a thread gave
\* up, died, was told to stop or was left behind by an interrupt, never because
\* threads left too early.
THEOREM FailureExplained == Spec => []FailureHasACause
<1>1. Init => CauseInv
  BY DEF Init, CauseInv, FailureHasACause
<1>2. CauseInv => FailureHasACause
  BY DEF CauseInv
<1> QED
  BY <1>1, <1>2, CauseStep, OwnerInvHolds, PTL DEF Spec

--------------------------------------------------------------------------------
(* The promise, when the servers only refuse requests *)

Accounted ==
    (mainPc # "begin" /\ sources # {}) =>
        \A c \in Chunks : file[c] = c \/ Waiting(c) \/ \E w \in Sources : held[w] = c

\* Without connection failures and abort() a thread asks for the chunk it
\* holds, receives it, and never forgets it.
CleanInv ==
    /\ abortPc = "idle" /\ ~isAborted /\ skipped = {}
    /\ mainPc = "blame" => queue # <<>>
    /\ \A w \in Sources :
          /\ terminate[w] => pc[w] \in {"check", "done"}
          /\ header[w] = IF pc[w] = "request" THEN {held[w]} ELSE {}
          /\ pc[w] = "read" => body[w] = held[w]
    /\ StoredInPlace
    /\ Accounted

LEMMA CleanStep ==
    ASSUME Clean
    PROVE  OwnerInv /\ CleanInv /\ [Next]_vars => CleanInv'
<1> SUFFICES ASSUME OwnerInv, CleanInv, [Next]_vars PROVE CleanInv'
  OBVIOUS
<1>t. /\ pc \in [Sources -> ThreadPcs] /\ terminate \in [Sources -> BOOLEAN]
      /\ held \in [Sources -> 0..NumChunks] /\ body \in [Sources -> 0..NumChunks]
      /\ header \in [Sources -> SUBSET Chunks]
      /\ file \in [Chunks -> 0..(NumChunks + 1)] /\ queue \in Seq(Chunks)
      /\ sources \subseteq Sources /\ Phases
      /\ \A w \in Sources : held[w] # NoChunk <=> pc[w] \in {"request", "put", "read"}
  BY DEF OwnerInv, Typed, TypeOK, HoldsWhenBusy
<1> USE Positive
<1>1. CASE Prepare
  <2>1. \A c \in Chunks : Waiting(c)'
    BY <1>1 DEF Prepare, Waiting, Chunks
  <2> QED
    BY <1>1, <2>1 DEF Prepare, CleanInv, Accounted, StoredInPlace, abortVars, threadVars
<1>2. CASE StartThreads
  BY <1>2, <1>t DEF StartThreads, CleanInv, Accounted, StoredInPlace, Waiting, abortVars,
     Phases
<1>3. ASSUME MainQuietly \/ UNCHANGED vars
      PROVE  CleanInv'
  <2>1. /\ UNCHANGED <<abortVars, threadVars, queue, file, sources>>
        /\ mainPc = "begin" /\ sources # {} => mainPc' = "begin"
        /\ skipped' = skipped
        /\ mainPc' = "blame" => mainPc = "blame" \/ queue # <<>>
    BY <1>3 DEF MainQuietly, NoSource, Join, CloseWriter, Succeed, FindWorkLeft, Conclude,
       JoinInterrupted, AddThread, RequestUnprepared, vars, opVars, Clean
  <2>2. Accounted'
    BY <2>1 DEF CleanInv, Accounted, Waiting, threadVars
  <2> QED
    BY <2>1, <2>2 DEF CleanInv, StoredInPlace, abortVars, threadVars
<1>4. ~Abort
  BY DEF Clean, CleanInv, Abort, AbortCall, AbortThread, AbortThrows, AbortReturns
<1>5. ASSUME NEW w \in Sources, Worker(w) PROVE CleanInv'
  <2>1. mainPc = "join" /\ UNCHANGED <<mainPc, sources, isAborted, skipped>>
    BY <1>5, WorkerRunsInJoin, WorkerKeepsMain DEF OwnerInv, CleanInv, opVars, abortVars
  <2>2. abortPc' = abortPc
    BY <1>5, WorkerKeepsMain DEF abortVars
  <2>3. ASSUME Leave(w) \/ SeeWork(w) PROVE CleanInv'
    <3>1. /\ UNCHANGED <<held, header, body, terminate, queue, file>>
          /\ \/ pc' = [pc EXCEPT ![w] = "done"]
             \/ pc' = [pc EXCEPT ![w] = "take"] /\ ~terminate[w]
          /\ pc[w] = "check"
      BY <2>3 DEF Leave, SeeWork, goto
    <3>2. Accounted'
      BY <2>1, <3>1 DEF CleanInv, Accounted, Waiting
    <3> QED
      BY <2>1, <2>2, <3>1, <3>2, <1>t DEF CleanInv, StoredInPlace
  <2>4. CASE Take(w)
    <3> DEFINE c == queue[1]
    <3>1. /\ Len(queue) \in Nat /\ Len(queue) > 0 /\ Head(queue) = c
          /\ c \in Chunks /\ DOMAIN queue = 1..Len(queue)
          /\ DOMAIN queue' = 1..(Len(queue) - 1)
          /\ \A i \in 1..(Len(queue) - 1) : queue'[i] = queue[i + 1]
      BY <2>4, <1>t DEF Take
    <3>2. /\ held' = [held EXCEPT ![w] = c] /\ pc' = [pc EXCEPT ![w] = "request"]
          /\ header' = [header EXCEPT ![w] = @ \union {c}]
          /\ UNCHANGED <<body, terminate, file>> /\ ~terminate[w] /\ pc[w] = "take"
      BY <2>4, <3>1 DEF Take, goto
    <3>3. \A i \in DOMAIN queue : i # 1 => i - 1 \in DOMAIN queue' /\ queue'[i - 1] = queue[i]
      BY <3>1
    <3>4. \A d \in Chunks : Waiting(d) => d = c \/ \E i \in DOMAIN queue' : queue'[i] = d
      BY <3>1, <3>3 DEF Waiting
    <3>5. Accounted'
      <4>1. \A v \in Sources : held[v] # NoChunk => held'[v] = held[v]
        BY <3>2, <1>t
      <4>2. held'[w] = c
        BY <3>2, <1>t
      <4>3. \A d \in Chunks : d # NoChunk
        BY DEF Chunks, NoChunk
      <4> QED
        BY <2>1, <3>2, <3>4, <4>1, <4>2, <4>3 DEF Accounted, CleanInv, Waiting
    <3>6. header'[w] = {c} /\ held'[w] = c /\ pc'[w] = "request"
      BY <3>2, <1>t DEF CleanInv
    <3> QED
      BY <2>1, <2>2, <3>2, <3>5, <3>6, <1>t DEF CleanInv, StoredInPlace
  <2>5. CASE Refused(w)
    BY <2>1, <2>2, <2>5, <1>t
       DEF Refused, goto, CleanInv, Accounted, StoredInPlace, Waiting
  <2>6. CASE PutBack(w)
    <3>1. /\ queue' = Append(queue, held[w]) /\ held' = [held EXCEPT ![w] = NoChunk]
          /\ pc' = [pc EXCEPT ![w] = "check"] /\ pc[w] = "put"
          /\ body' = [body EXCEPT ![w] = Hole] /\ UNCHANGED <<header, file>>
          /\ held[w] \in Chunks
      BY <2>6, <1>t DEF PutBack, goto, drop, Chunks, NoChunk
    <3>2. \A v \in Sources \ {w} : terminate'[v] = terminate[v]
      BY <2>6, <1>t DEF PutBack
    <3>3. \A d \in Chunks : (Waiting(d) \/ d = held[w]) =>
              \E i \in DOMAIN queue' : queue'[i] = d
      <4>1. /\ Len(queue) \in Nat /\ DOMAIN queue = 1..Len(queue)
            /\ DOMAIN queue' = 1..(Len(queue) + 1)
            /\ queue'[Len(queue) + 1] = held[w]
            /\ \A i \in 1..Len(queue) : queue'[i] = queue[i]
        BY <3>1, <1>t
      <4>2. Len(queue) + 1 \in DOMAIN queue' /\ DOMAIN queue \subseteq DOMAIN queue'
        BY <4>1
      <4> QED
        BY <4>1, <4>2 DEF Waiting
    <3>4. Accounted'
      BY <2>1, <3>1, <3>3, <1>t DEF Accounted, CleanInv, Waiting, NoChunk, Chunks
    <3> QED
      BY <2>1, <2>2, <3>1, <3>2, <3>4, <1>t DEF CleanInv, StoredInPlace
  <2>7. CASE Answered(w)
    <3>1. /\ UNCHANGED <<held, terminate, queue, file>> /\ ~terminate[w]
          /\ pc' = [pc EXCEPT ![w] = "read"] /\ pc[w] = "request"
          /\ header' = [header EXCEPT ![w] = {}]
          /\ body' = [body EXCEPT ![w] = held[w]]
      BY <2>7 DEF Answered, goto, CleanInv
    <3>2. Accounted'
      BY <2>1, <3>1 DEF CleanInv, Accounted, Waiting
    <3> QED
      BY <2>1, <2>2, <3>1, <3>2, <1>t DEF CleanInv, StoredInPlace
  <2>8. CASE Write(w)
    <3>0. open
      BY <2>1, <1>t DEF Phases
    <3>1. /\ file' = [file EXCEPT ![held[w]] = held[w]] /\ queue' = queue
          /\ held' = [held EXCEPT ![w] = NoChunk] /\ held[w] \in Chunks
          /\ body' = [body EXCEPT ![w] = Hole]
          /\ pc' = [pc EXCEPT ![w] = "check"] /\ UNCHANGED <<header, terminate>>
          /\ pc[w] = "read"
      BY <2>8, <3>0, <1>t DEF Write, goto, drop, Clean, CleanInv, Chunks, NoChunk
    <3>2. StoredInPlace'
      BY <3>1, <1>t DEF CleanInv, StoredInPlace
    <3>3. Accounted'
      BY <2>1, <3>1, <1>t DEF Accounted, CleanInv, Waiting, NoChunk, Chunks
    <3> QED
      BY <2>1, <2>2, <3>1, <3>2, <3>3, <1>t DEF CleanInv
  <2>9. ~(TakeInterrupted(w) \/ RequestFails(w) \/ PutInterrupted(w) \/ NoEntity(w)
          \/ ReadFails(w))
    BY DEF TakeInterrupted, RequestFails, PutInterrupted, NoEntity, ReadFails, Clean,
       CleanInv
  <2> QED
    BY <1>5, <2>3, <2>4, <2>5, <2>6, <2>7, <2>8, <2>9 DEF Worker
<1> QED
  BY <1>1, <1>2, <1>3, <1>4, <1>5, NextCases

LEMMA CleanInvHolds == ASSUME Clean PROVE Spec => []CleanInv
<1>1. Init => CleanInv
  BY DEF Init, CleanInv, StoredInPlace, Accounted, Hole
<1> QED
  BY <1>1, CleanStep, OwnerInvHolds, PTL DEF Spec

\* When a download succeeds, everything it holds is in the file.
LEMMA NothingLeft ==
    ASSUME OwnerInv, CleanInv, Succeed
    PROVE  \A c \in Chunks : file[c] = c
<1>1. \A w \in Sources : held[w] = NoChunk
  BY DEF Succeed, Finished, OwnerInv, Typed, HoldsWhenBusy, Phases, CleanInv
<1> QED
  BY <1>1 DEF CleanInv, Accounted, Waiting, Succeed, Chunks, NoChunk, OwnerInv, Phases

\* Without aborts, broken connections and interrupts the threads run only before the
\* joins are over; the outcome is decided once.
LEMMA OutcomeIsDecided ==
    ASSUME Clean, OwnerInv, CleanInv, [Next]_vars
    PROVE  \/ UNCHANGED outcome /\ (outcome # "none" => UNCHANGED file)
           \/ NoSource \/ Succeed \/ Conclude
<1>1. ASSUME NEW w \in Sources, Worker(w) PROVE outcome' = outcome /\ outcome = "none"
  BY <1>1, WorkerRunsInJoin, WorkerKeepsMain DEF OwnerInv, Phases, CleanInv, opVars
<1>2. Prepare \/ StartThreads => outcome' = outcome /\ file' = file
  BY DEF Prepare, StartThreads
<1>3. MainQuietly => UNCHANGED <<outcome, file>> \/ NoSource \/ Succeed \/ Conclude
  BY DEF MainQuietly, Join, CloseWriter, FindWorkLeft, JoinInterrupted, AddThread,
     RequestUnprepared, Clean
<1>4. UNCHANGED vars => outcome' = outcome /\ file' = file
  BY DEF vars, opVars
<1> QED
  BY <1>1, <1>2, <1>3, <1>4, AbortKeepsData, NextCases DEF opVars

\* With servers that only refuse requests, success means the whole file.
THEOREM CleanSuccess == ASSUME Clean PROVE Spec => []SuccessIsComplete
<1>1. Init => SuccessIsComplete
  BY DEF Init, SuccessIsComplete
<1>2. OwnerInv /\ CleanInv /\ SuccessIsComplete /\ [Next]_vars => SuccessIsComplete'
  <2> SUFFICES ASSUME OwnerInv, CleanInv, SuccessIsComplete, [Next]_vars
               PROVE  SuccessIsComplete'
    OBVIOUS
  <2>1. CASE NoSource \/ Conclude
    BY <2>1 DEF NoSource, Conclude, SuccessIsComplete
  <2>2. CASE Succeed
    BY <2>2, NothingLeft DEF Succeed, SuccessIsComplete
  <2>3. CASE UNCHANGED outcome /\ (outcome # "none" => UNCHANGED file)
    BY <2>3 DEF SuccessIsComplete
  <2> QED
    BY <2>1, <2>2, <2>3, OutcomeIsDecided
<1> QED
  BY <1>1, <1>2, OwnerInvHolds, CleanInvHolds, PTL DEF Spec

--------------------------------------------------------------------------------
(* The place of what is stored, when connections do not break.  Aborts are     *)
(* allowed: a thread that lost a request to one never sends another.           *)

Unbroken == Faults \intersect {"io", "short"} = {}

\* A leftover Range header belongs to a thread that is told to end.
PlaceInv ==
    /\ \A w \in Sources :
          /\ terminate[w] \/ header[w] = IF pc[w] = "request" THEN {held[w]} ELSE {}
          /\ pc[w] = "read" => body[w] = held[w]
    /\ StoredInPlace

LEMMA PlaceStep ==
    ASSUME Unbroken
    PROVE  OwnerInv /\ PlaceInv /\ [Next]_vars => PlaceInv'
<1> SUFFICES ASSUME OwnerInv, PlaceInv, [Next]_vars PROVE PlaceInv'
  OBVIOUS
<1>t. /\ pc \in [Sources -> ThreadPcs] /\ terminate \in [Sources -> BOOLEAN]
      /\ held \in [Sources -> 0..NumChunks] /\ body \in [Sources -> 0..NumChunks]
      /\ header \in [Sources -> SUBSET Chunks]
      /\ file \in [Chunks -> 0..(NumChunks + 1)] /\ queue \in Seq(Chunks)
      /\ sources \subseteq Sources
      /\ mainPc = "build" => \A w \in Sources : pc[w] = "new"
      /\ \A w \in Sources : held[w] # NoChunk <=> pc[w] \in {"request", "put", "read"}
  BY DEF OwnerInv, Typed, TypeOK, HoldsWhenBusy, Phases
<1>1. CASE UNCHANGED <<pc, held, header, body, terminate, file>>
  BY <1>1 DEF PlaceInv, StoredInPlace
<1>2. CASE StartThreads
  BY <1>2, <1>t DEF StartThreads, PlaceInv, StoredInPlace
<1>3. CASE AbortThread
  BY <1>3, <1>t DEF AbortThread, PlaceInv, StoredInPlace
<1>5. CASE MainQuietly \/ UNCHANGED vars
  <2>1. UNCHANGED threadVars /\ UNCHANGED file
    BY <1>5, MainKeepsData
  <2> QED
    BY <2>1, <1>1 DEF threadVars
<1>6. CASE Prepare
  BY <1>6, <1>1 DEF Prepare, threadVars
<1>4. ASSUME NEW w \in Sources, Worker(w) PROVE PlaceInv'
  <2> USE DEF goto, drop
  <2>1. CASE Leave(w) \/ SeeWork(w) \/ TakeInterrupted(w)
    BY <2>1, <1>t DEF Leave, SeeWork, TakeInterrupted, PlaceInv, StoredInPlace
  <2>2. CASE Take(w)
    BY <2>2, <1>t DEF Take, PlaceInv, StoredInPlace
  <2>3. CASE RequestFails(w) \/ PutInterrupted(w) \/ ReadFails(w)
    <3>1. terminate[w]
      BY <2>3 DEF RequestFails, PutInterrupted, ReadFails, Unbroken
    <3>2. /\ pc' = [pc EXCEPT ![w] = "check"] /\ held' = [held EXCEPT ![w] = NoChunk]
          /\ body' = [body EXCEPT ![w] = Hole] /\ UNCHANGED <<header, terminate, file>>
      BY <2>3 DEF RequestFails, PutInterrupted, ReadFails
    <3> QED
      BY <3>1, <3>2, <1>t DEF PlaceInv, StoredInPlace
  <2>4. CASE Refused(w)
    BY <2>4, <1>t DEF Refused, PlaceInv, StoredInPlace
  <2>5. CASE PutBack(w)
    BY <2>5, <1>t DEF PutBack, PlaceInv, StoredInPlace
  <2>6. CASE Answered(w)
    <3>1. /\ pc' = [pc EXCEPT ![w] = "read"] /\ body' = [body EXCEPT ![w] = held[w]]
          /\ header' = [header EXCEPT ![w] = {}] /\ UNCHANGED <<held, terminate, file>>
      BY <2>6 DEF Answered, PlaceInv
    <3> QED
      BY <3>1, <1>t DEF PlaceInv, StoredInPlace
  <2>7. CASE NoEntity(w)
    BY <2>7, <1>t DEF NoEntity, PlaceInv, StoredInPlace
  <2>8. CASE Write(w)
    <3>1. /\ file' = [file EXCEPT ![held[w]] = held[w]] \/ UNCHANGED file
          /\ held[w] \in Chunks
      BY <2>8, <1>t DEF Write, Unbroken, PlaceInv, Chunks, NoChunk
    <3>2. StoredInPlace'
      BY <3>1, <1>t DEF PlaceInv, StoredInPlace
    <3> QED
      BY <2>8, <3>2, <1>t DEF Write, PlaceInv
  <2> QED
    BY <1>4, <2>1, <2>2, <2>3, <2>4, <2>5, <2>6, <2>7, <2>8 DEF Worker
<1> QED
  BY <1>1, <1>2, <1>3, <1>4, <1>5, <1>6, NextCases
     DEF Abort, AbortCall, AbortThrows, AbortReturns, threadVars

\* No leftover Range header makes a thread store one chunk at the place of another, as
\* long as connections neither break nor end early: servers may refuse requests, answer
\* without a body, the disk may fail and the user may abort.
THEOREM EachInItsPlace == ASSUME Unbroken PROVE Spec => []StoredInPlace
<1>1. Init => PlaceInv
  BY DEF Init, PlaceInv, StoredInPlace, Hole
<1>2. PlaceInv => StoredInPlace
  BY DEF PlaceInv
<1> QED
  BY <1>1, <1>2, PlaceStep, OwnerInvHolds, PTL DEF Spec

\* The threads together implement the promise of a sequential download.
THEOREM Implements == ASSUME Clean PROVE Spec => PromiseSpec
<1> USE DEF Promise!Chunks, Chunks, Promise!Hole, Hole
<1>1. Init => Promise!Init
  BY DEF Init, Promise!Init
<1>2. OwnerInv /\ CleanInv /\ [Next]_vars => [Promise!Next]_<<file, outcome>>
  <2> SUFFICES ASSUME OwnerInv, CleanInv, [Next]_vars
               PROVE  [Promise!Next]_<<file, outcome>>
    OBVIOUS
  <2> USE Positive DEF Promise!Next
  <2>1. CASE NoSource
    <3>1. file[1] = Hole /\ outcome = "none" /\ outcome' = "failed" /\ file' = file
      BY <2>1 DEF NoSource, OwnerInv, Phases
    <3> QED
      BY <3>1 DEF Promise!Fail
  <2>2. CASE Succeed
    <3>1. outcome = "none" /\ file' = file
      BY <2>2 DEF Succeed, OwnerInv, Phases
    <3> QED
      BY <2>2, <3>1, NothingLeft DEF Succeed, Promise!Succeed
  <2>6. CASE Conclude
    <3>1. outcome = "none" /\ file' = file /\ queue # <<>>
      BY <2>6 DEF Conclude, OwnerInv, Phases, CleanInv
    <3>2. queue[1] \in Chunks /\ 1 \in DOMAIN queue
      BY <3>1 DEF OwnerInv, Typed, TypeOK
    <3>3. file[queue[1]] = Hole
      BY <3>2 DEF OwnerInv, ChunkHasOneOwner
    <3> QED
      BY <2>6, <3>1, <3>2, <3>3 DEF Conclude, CleanInv, Promise!Fail
  <2>3. ASSUME NEW w \in Sources, Write(w) PROVE Promise!Store(held[w])
                                                  /\ held[w] \in Chunks
    <3>1. outcome = "none" /\ outcome' = outcome /\ open
      <4>1. Worker(w)
        BY <2>3 DEF Worker
      <4>2. mainPc = "join"
        BY <4>1, WorkerRunsInJoin DEF OwnerInv, CleanInv
      <4> QED
        BY <4>1, <4>2, WorkerKeepsMain DEF OwnerInv, Phases, opVars
    <3>2. held[w] \in Chunks /\ file[held[w]] = Hole
      BY <2>3 DEF Write, OwnerInv, Typed, TypeOK, HoldsWhenBusy, ChunkHasOneOwner, NoChunk
    <3>3. file' = [file EXCEPT ![held[w]] = held[w]]
      BY <2>3, <3>1 DEF Write, Clean, CleanInv
    <3> QED
      BY <3>1, <3>2, <3>3 DEF Promise!Store
  <2>4. ASSUME NEW w \in Sources, Worker(w), ~Write(w) PROVE UNCHANGED <<file, outcome>>
    BY <2>4 DEF Worker, Leave, SeeWork, Take, TakeInterrupted, RequestFails, Refused,
       PutBack, PutInterrupted, Answered, NoEntity, ReadFails, opVars
  <2>5. CASE UNCHANGED outcome /\ ~\E w \in Sources : Worker(w)
    <3>1. UNCHANGED file
      BY <2>5, AbortKeepsData, MainKeepsData, NextCases DEF Prepare, StartThreads
    <3> QED
      BY <2>5, <3>1
  <2> QED
    BY <2>1, <2>2, <2>3, <2>4, <2>5, <2>6, OutcomeIsDecided
<1> QED
  BY <1>1, <1>2, OwnerInvHolds, CleanInvHolds, PTL DEF Spec, PromiseSpec, Promise!Spec
================================================================================
