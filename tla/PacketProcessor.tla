--------------------------- MODULE PacketProcessor ---------------------------
(***************************************************************************)
(* The multi-threaded front end of the library (src/src/processor.cpp): a  *)
(* fixed set of worker threads, each with its own queue, mutex, condition  *)
(* variable and decoder; callers that submit packets, flush, start, stop   *)
(* and destroy the processor; and the user's handler, which runs on the    *)
(* worker threads and may call the processor again.                        *)
(*                                                                         *)
(* A caller is a client thread or a worker thread inside a handler         *)
(* callback. Every access to shared state is a step of its own; a critical *)
(* section of a worker's mutex is one step, because everything else that   *)
(* touches the queue takes the same mutex. The one write of `running`      *)
(* outside the mutex, in start(), is a step of its own as well.            *)
(***************************************************************************)
EXTENDS Integers, Sequences, FiniteSets

CONSTANTS
    NumThreads,   \* config.numThreads
    RoundRobin,   \* TRUE for DistributionStrategy::RoundRobin, FALSE for FlowPinned
    Packets,      \* the packets a run may submit, each at most once
    Malformed,    \* those of them that decode() answers with an error
    HashOf,       \* the FlowPinned hash of each packet's bytes, see FlowHash
    Clients,      \* the threads of the program that uses the processor
    Ops,          \* what each caller may call
    Disciplined,  \* TRUE if no caller stops or destroys while a submit is in progress
    NoPacket      \* not a packet

\* The constructor builds at least one worker.
Workers == 1..(IF NumThreads = 0 THEN 1 ELSE NumThreads)

Callers == Clients \cup Workers

OpNames == {"submit", "flush", "setHandler", "start", "stop", "destroy"}

ASSUME ProcessorAssumption ==
    /\ NumThreads \in Nat
    /\ RoundRobin \in BOOLEAN
    /\ Disciplined \in BOOLEAN
    /\ HashOf \in [Packets -> Nat]
    /\ Clients \cap Workers = {}
    /\ Ops \in [Callers -> SUBSET OpNames]
    /\ NoPacket \notin Packets

VARIABLES
    \* the processor object
    life,        \* "alive", "dying" (inside the destructor) or "dead"
    fault,       \* the program has been terminated by the C++ runtime
    started,     \* Impl::started
    handler,     \* is a handler installed in Impl::handler?
    rr,          \* Impl::roundRobinCounter
    processed,   \* Impl::packetsProcessed
    dropped,     \* Impl::packetsDropped
    \* each worker
    running,     \* WorkerThread::running
    joinable,    \* WorkerThread::thread owns a thread
    queue,       \* WorkerThread::queue
    wpc,         \* where its thread is in workerLoop
    seen,        \* was a handler installed when its thread was created?
    item,        \* workerLoop's local item
    \* each caller
    pc,          \* where it is in the operation it called
    target,      \* submit's workerIdx, or the worker its loop is at
    held,        \* the packet submit is to enqueue
    \* history
    fresh,       \* packets not submitted yet
    pushed,      \* every packet that was ever enqueued at each worker, in order
    handled,     \* every packet that each worker has decoded, in order
    overtaken,   \* packets whose submit saw `started` set but had not enqueued
                 \* them when a stop cleared it
    snap         \* how much was enqueued at each worker when a caller began
                 \* its flush, or cleared `started`

control == <<life, fault, started, handler, rr>>
counters == <<processed, dropped>>
threads == <<running, joinable, wpc, seen, item>>
calls == <<pc, target, held, snap>>
history == <<fresh, pushed, handled, overtaken>>
vars == <<control, counters, threads, queue, calls, history>>

WorkerLabels == {"none", "lock", "waiting", "decode", "callback", "count", "exited"}

SubmitLabels == {"dispatch", "push", "notify"}
StartLabels == {"startFlag", "spawn"}
StopLabels == {"stopFlag", "stopNotify", "join", "destruct"}
CallerLabels == {"idle", "flush"} \cup SubmitLabels \cup StartLabels \cup StopLabels

\* Every variable has its type.
TypeOK ==
    /\ life \in {"alive", "dying", "dead"}
    /\ fault \in BOOLEAN
    /\ started \in BOOLEAN
    /\ handler \in BOOLEAN
    /\ rr \in Nat
    /\ processed \in Nat
    /\ dropped \in Nat
    /\ running \in [Workers -> BOOLEAN]
    /\ joinable \in [Workers -> BOOLEAN]
    /\ queue \in [Workers -> Seq(Packets)]
    /\ wpc \in [Workers -> WorkerLabels]
    /\ seen \in [Workers -> BOOLEAN]
    /\ item \in [Workers -> Packets \cup {NoPacket}]
    /\ pc \in [Callers -> CallerLabels]
    /\ target \in [Callers -> Workers]
    /\ held \in [Callers -> Packets \cup {NoPacket}]
    /\ snap \in [Callers -> [Workers -> Nat]]
    /\ fresh \subseteq Packets
    /\ pushed \in [Workers -> Seq(Packets)]
    /\ handled \in [Workers -> Seq(Packets)]
    /\ overtaken \subseteq Packets
    \* a submit under way and a worker about to decode hold a packet
    /\ \A c \in Callers : pc[c] \in {"dispatch", "push"} => held[c] \in Packets
    /\ \A w \in Workers : wpc[w] = "decode" => item[w] \in Packets

Init ==
    /\ life = "alive"
    /\ fault = FALSE
    /\ started = FALSE
    /\ handler = FALSE
    /\ rr = 0
    /\ processed = 0
    /\ dropped = 0
    /\ running = [w \in Workers |-> FALSE]
    /\ joinable = [w \in Workers |-> FALSE]
    /\ queue = [w \in Workers |-> <<>>]
    /\ wpc = [w \in Workers |-> "none"]
    /\ seen = [w \in Workers |-> FALSE]
    /\ item = [w \in Workers |-> NoPacket]
    /\ pc = [c \in Callers |-> "idle"]
    /\ target = [c \in Callers |-> 1]
    /\ held = [c \in Callers |-> NoPacket]
    /\ snap = [c \in Callers |-> [w \in Workers |-> 0]]
    /\ fresh = Packets
    /\ pushed = [w \in Workers |-> <<>>]
    /\ handled = [w \in Workers |-> <<>>]
    /\ overtaken = {}

-----------------------------------------------------------------------------
(* Control of the calls.                                                   *)

\* c may call op: a client between two calls while the object lives, a worker
\* between two calls of the handler callback it is running.
CanCall(c, op) ==
    /\ ~fault
    /\ op \in Ops[c]
    /\ pc[c] = "idle"
    /\ IF c \in Clients THEN life = "alive" ELSE wpc[c] = "callback"

At(c, label) == ~fault /\ pc[c] = label

Goto(c, label) == pc' = [pc EXCEPT ![c] = label]

\* Mutant of NextWorker: the loop stops one worker short.
NextWorkerShort(c, body, after) ==
    IF target[c] + 2 \in Workers
    THEN /\ target' = [target EXCEPT ![c] = @ + 1]
         /\ Goto(c, body)
    ELSE /\ Goto(c, after)
         /\ UNCHANGED target

\* A loop over the workers: on to the next one, or to `after` behind the last.
NextWorker(c, body, after) ==
    IF target[c] + 1 \in Workers
    THEN /\ target' = [target EXCEPT ![c] = @ + 1]
         /\ Goto(c, body)
    ELSE /\ Goto(c, after)
         /\ UNCHANGED target

\* What is enqueued at each worker so far, kept by a flush or a stop.
Snapshot(c) == snap' = [snap EXCEPT ![c] = [w \in Workers |-> Len(pushed[w])]]

\* The packets of the submits that passed the check of `started` but have not
\* enqueued yet.
Uncommitted == {held[c] : c \in {d \in Callers : pc[d] \in {"dispatch", "push"}}}

\* Mutant of Wake: the notification is forgotten.
WakeNobody(w) == wpc' = [wpc EXCEPT ![w] = @]

\* notify_one on worker w's condition variable: only its own thread waits there.
Wake(w) == wpc' = [wpc EXCEPT ![w] = IF @ = "waiting" THEN "lock" ELSE @]

-----------------------------------------------------------------------------
(* submit(): the check of `started`, the choice of a worker, the push under *)
(* that worker's mutex, and the notification after the mutex is released.   *)

Submit(c, p) ==
    /\ CanCall(c, "submit")
    /\ p \in fresh
    /\ fresh' = fresh \ {p}
    /\ IF started
       THEN Goto(c, "dispatch") /\ held' = [held EXCEPT ![c] = p]
       ELSE UNCHANGED <<pc, held>>
    /\ UNCHANGED <<control, counters, threads, queue, target, snap,
                   pushed, handled, overtaken>>

\* Mutant of RoundRobinWorker: one worker too many.
RoundRobinBeyond == (rr % (Cardinality(Workers) + 1)) + 1

RoundRobinWorker == (rr % Cardinality(Workers)) + 1

PinnedWorker(p) == (HashOf[p] % Cardinality(Workers)) + 1

Dispatch(c) ==
    /\ At(c, "dispatch")
    /\ Goto(c, "push")
    /\ target' = [target EXCEPT ![c] =
                     IF RoundRobin THEN RoundRobinWorker ELSE PinnedWorker(held[c])]
    /\ rr' = IF RoundRobin THEN rr + 1 ELSE rr
    /\ UNCHANGED <<life, fault, started, handler, counters, threads, queue,
                   held, snap, history>>

Push(c) ==
    /\ At(c, "push")
    /\ Goto(c, "notify")
    /\ queue' = [queue EXCEPT ![target[c]] = Append(@, held[c])]
    /\ pushed' = [pushed EXCEPT ![target[c]] = Append(@, held[c])]
    /\ held' = [held EXCEPT ![c] = NoPacket]
    /\ UNCHANGED <<control, counters, threads, target, snap, fresh, handled, overtaken>>

Notify(c) ==
    /\ At(c, "notify")
    /\ Goto(c, "idle")
    /\ Wake(target[c])
    /\ UNCHANGED <<control, counters, running, joinable, seen, item, queue,
                   target, held, snap, history>>

-----------------------------------------------------------------------------
(* flush(): worker after worker, spin until its queue is seen empty.       *)

Flush(c) ==
    /\ CanCall(c, "flush")
    /\ Goto(c, "flush")
    /\ target' = [target EXCEPT ![c] = 1]
    /\ Snapshot(c)
    /\ UNCHANGED <<control, counters, threads, queue, held, history>>

FlushPass(c) ==
    /\ At(c, "flush")
    /\ queue[target[c]] = <<>>
    /\ NextWorker(c, "flush", "idle")
    /\ UNCHANGED <<control, counters, threads, queue, held, snap, history>>

-----------------------------------------------------------------------------
(* setHandler() and start(). The threads get the handler installed when    *)
(* they are created; `running` is set outside the mutex.                   *)

SetHandler(c) ==
    /\ CanCall(c, "setHandler")
    /\ \E h \in BOOLEAN : handler' = h
    /\ UNCHANGED <<life, fault, started, rr, counters, threads, queue, calls, history>>

Start(c) ==
    /\ CanCall(c, "start")
    /\ started' = TRUE
    /\ IF started
       THEN UNCHANGED <<pc, target>>
       ELSE Goto(c, "startFlag") /\ target' = [target EXCEPT ![c] = 1]
    /\ UNCHANGED <<life, fault, handler, rr, counters, threads, queue,
                   held, snap, history>>

StartFlag(c) ==
    /\ At(c, "startFlag")
    /\ Goto(c, "spawn")
    /\ running' = [running EXCEPT ![target[c]] = TRUE]
    /\ UNCHANGED <<control, counters, joinable, wpc, seen, item, queue,
                   target, held, snap, history>>

\* Assigning to a std::thread that still owns a thread calls std::terminate.
Spawn(c) ==
    /\ At(c, "spawn")
    /\ IF joinable[target[c]]
       THEN fault' = TRUE /\ UNCHANGED <<threads, pc, target>>
       ELSE /\ joinable' = [joinable EXCEPT ![target[c]] = TRUE]
            /\ wpc' = [wpc EXCEPT ![target[c]] = "lock"]
            /\ seen' = [seen EXCEPT ![target[c]] = handler]
            /\ NextWorker(c, "startFlag", "idle")
            /\ UNCHANGED <<fault, running, item>>
    /\ UNCHANGED <<life, started, handler, rr, counters, queue, held, snap, history>>

-----------------------------------------------------------------------------
(* stop() and the destructor: clear `started`; for each worker clear       *)
(* `running` under its mutex and notify; then join each thread in turn.    *)

\* What a stop does after its last join, or when there is nothing to stop:
\* it returns, or goes on with the destruction of the object.
AfterStop(c) == IF c \in Clients /\ life' = "dying" THEN "destruct" ELSE "idle"

\* The caller's discipline: no submit is in progress.
NoSubmitInProgress == \A c \in Callers : pc[c] \notin SubmitLabels

ClearStarted(c) ==
    /\ Disciplined => NoSubmitInProgress
    /\ started' = FALSE
    /\ IF started
       THEN /\ Goto(c, "stopFlag")
            /\ target' = [target EXCEPT ![c] = 1]
            /\ Snapshot(c)
            /\ overtaken' = overtaken \cup Uncommitted
       ELSE /\ Goto(c, AfterStop(c))
            /\ UNCHANGED <<target, snap, overtaken>>
    /\ UNCHANGED <<fault, handler, rr, counters, threads, queue, held,
                   fresh, pushed, handled>>

Stop(c) ==
    /\ CanCall(c, "stop")
    /\ life' = life
    /\ ClearStarted(c)

\* The object is destroyed when no client is inside a call; worker threads may be.
Destroy(c) ==
    /\ CanCall(c, "destroy")
    /\ c \in Clients
    /\ \A d \in Clients : pc[d] = "idle"
    /\ life' = "dying"
    /\ ClearStarted(c)

StopFlag(c) ==
    /\ At(c, "stopFlag")
    /\ Goto(c, "stopNotify")
    /\ running' = [running EXCEPT ![target[c]] = FALSE]
    /\ UNCHANGED <<control, counters, joinable, wpc, seen, item, queue,
                   target, held, snap, history>>

\* Mutant of StopNotify: the joins begin behind the first worker.
StopNotifySkips(c) ==
    /\ At(c, "stopNotify")
    /\ Wake(target[c])
    /\ IF target[c] + 1 \in Workers
       THEN Goto(c, "stopFlag") /\ target' = [target EXCEPT ![c] = @ + 1]
       ELSE Goto(c, "join") /\ UNCHANGED target
    /\ UNCHANGED <<control, counters, running, joinable, seen, item, queue,
                   held, snap, history>>

StopNotify(c) ==
    /\ At(c, "stopNotify")
    /\ Wake(target[c])
    /\ IF target[c] + 1 \in Workers
       THEN Goto(c, "stopFlag") /\ target' = [target EXCEPT ![c] = @ + 1]
       ELSE Goto(c, "join") /\ target' = [target EXCEPT ![c] = 1]
    /\ UNCHANGED <<control, counters, running, joinable, seen, item, queue,
                   held, snap, history>>

\* A thread without an owner is skipped; a thread that joins itself is
\* terminated by the exception join() throws; any other is waited for.
Join(c) ==
    /\ At(c, "join")
    /\ IF joinable[target[c]] /\ c = target[c]
       THEN fault' = TRUE /\ UNCHANGED <<joinable, wpc, pc, target, life>>
       ELSE /\ life' = life
            /\ joinable[target[c]] => wpc[target[c]] = "exited"
            /\ joinable' = [joinable EXCEPT ![target[c]] = FALSE]
            /\ wpc' = [wpc EXCEPT ![target[c]] = IF joinable[target[c]] THEN "none" ELSE @]
            /\ NextWorker(c, "join", AfterStop(c))
            /\ UNCHANGED fault
    /\ UNCHANGED <<started, handler, rr, counters, running, seen, item, queue,
                   held, snap, history>>

\* ~Impl: destroying a std::thread that still owns a thread calls std::terminate.
Destruct(c) ==
    /\ At(c, "destruct")
    /\ Goto(c, "idle")
    /\ life' = "dead"
    /\ fault' = \E w \in Workers : joinable[w]
    /\ UNCHANGED <<started, handler, rr, counters, threads, queue,
                   target, held, snap, history>>

-----------------------------------------------------------------------------
(* workerLoop().                                                           *)

WorkerAt(w, label) == ~fault /\ wpc[w] = label

MoveWorker(w, label) == wpc' = [wpc EXCEPT ![w] = label]

\* cv.wait: the predicate is false, the mutex is released and the thread blocks.
WorkerWait(w) ==
    /\ WorkerAt(w, "lock")
    /\ queue[w] = <<>>
    /\ running[w]
    /\ MoveWorker(w, "waiting")
    /\ UNCHANGED <<control, counters, running, joinable, seen, item, queue, calls, history>>

\* A condition variable may wake up on its own; the predicate is checked again.
SpuriousWakeup(w) ==
    /\ WorkerAt(w, "waiting")
    /\ MoveWorker(w, "lock")
    /\ UNCHANGED <<control, counters, running, joinable, seen, item, queue, calls, history>>

\* Mutant of WorkerExit: a stopped worker does not drain its queue.
WorkerExitEager(w) ==
    /\ WorkerAt(w, "lock")
    /\ ~running[w]
    /\ MoveWorker(w, "exited")
    /\ UNCHANGED <<control, counters, running, joinable, seen, item, queue, calls, history>>

WorkerExit(w) ==
    /\ WorkerAt(w, "lock")
    /\ queue[w] = <<>>
    /\ ~running[w]
    /\ MoveWorker(w, "exited")
    /\ UNCHANGED <<control, counters, running, joinable, seen, item, queue, calls, history>>

\* Mutant of WorkerPop: the newest packet is taken first.
WorkerPopNewest(w) ==
    /\ WorkerAt(w, "lock")
    /\ queue[w] # <<>>
    /\ MoveWorker(w, "decode")
    /\ item' = [item EXCEPT ![w] = queue[w][Len(queue[w])]]
    /\ queue' = [queue EXCEPT ![w] = SubSeq(@, 1, Len(@) - 1)]
    /\ UNCHANGED <<control, counters, running, joinable, seen, calls, history>>

WorkerPop(w) ==
    /\ WorkerAt(w, "lock")
    /\ queue[w] # <<>>
    /\ MoveWorker(w, "decode")
    /\ item' = [item EXCEPT ![w] = Head(queue[w])]
    /\ queue' = [queue EXCEPT ![w] = Tail(@)]
    /\ UNCHANGED <<control, counters, running, joinable, seen, calls, history>>

\* decode() outside the mutex, then the call of onPacket or onError, if the
\* thread was given a handler.
WorkerDecode(w) ==
    /\ WorkerAt(w, "decode")
    /\ MoveWorker(w, IF seen[w] THEN "callback" ELSE "count")
    /\ handled' = [handled EXCEPT ![w] = Append(@, item[w])]
    /\ UNCHANGED <<control, counters, running, joinable, seen, item, queue, calls,
                   fresh, pushed, overtaken>>

\* The callback has returned (it is inside no call of the processor).
WorkerReturn(w) ==
    /\ WorkerAt(w, "callback")
    /\ pc[w] = "idle"
    /\ MoveWorker(w, "count")
    /\ UNCHANGED <<control, counters, running, joinable, seen, item, queue, calls, history>>

\* Mutant of WorkerCount: a malformed packet is counted as processed, too.
WorkerCountBoth(w) ==
    /\ WorkerAt(w, "count")
    /\ MoveWorker(w, "lock")
    /\ dropped' = IF item[w] \in Malformed THEN dropped + 1 ELSE dropped
    /\ processed' = processed + 1
    /\ item' = [item EXCEPT ![w] = NoPacket]
    /\ UNCHANGED <<control, running, joinable, seen, queue, calls, history>>

WorkerCount(w) ==
    /\ WorkerAt(w, "count")
    /\ MoveWorker(w, "lock")
    /\ IF item[w] \in Malformed
       THEN dropped' = dropped + 1 /\ UNCHANGED processed
       ELSE processed' = processed + 1 /\ UNCHANGED dropped
    /\ item' = [item EXCEPT ![w] = NoPacket]
    /\ UNCHANGED <<control, running, joinable, seen, queue, calls, history>>

-----------------------------------------------------------------------------

\* Every step a call takes once it has begun.
CallStep(c) ==
    \/ Dispatch(c) \/ Push(c) \/ Notify(c)
    \/ FlushPass(c)
    \/ StartFlag(c) \/ Spawn(c)
    \/ StopFlag(c) \/ StopNotify(c) \/ Join(c) \/ Destruct(c)

BeginCall(c) ==
    \/ \E p \in Packets : Submit(c, p)
    \/ Flush(c) \/ SetHandler(c) \/ Start(c) \/ Stop(c) \/ Destroy(c)

\* Every step of a worker's thread that the scheduler owes it.
WorkerStep(w) ==
    \/ WorkerWait(w) \/ WorkerExit(w) \/ WorkerPop(w)
    \/ WorkerDecode(w) \/ WorkerReturn(w) \/ WorkerCount(w)

\* The program has ended.
Ended == (fault \/ life = "dead") /\ UNCHANGED vars

Next ==
    \/ \E c \in Callers : BeginCall(c) \/ CallStep(c)
    \/ \E w \in Workers : WorkerStep(w) \/ SpuriousWakeup(w)
    \/ Ended

Spec == Init /\ [][Next]_vars

\* Threads that can run are scheduled, a contended mutex is eventually granted,
\* and handler callbacks return. Nobody is obliged to call anything.
Fairness ==
    /\ \A c \in Callers : WF_vars(CallStep(c))
    /\ \A w \in Workers : WF_vars(WorkerStep(w))

FairSpec == Spec /\ Fairness

-----------------------------------------------------------------------------
(* Properties.                                                             *)

\* The packet a worker has taken off its queue and not decoded yet.
InFlight(w) == IF wpc[w] = "decode" THEN <<item[w]>> ELSE <<>>

\* Every packet accepted for a worker is in exactly one place, and the order in
\* which it was accepted is kept through the queue, the worker and its handler
\* calls: nothing is lost, duplicated or overtaken, across stops and restarts.
FifoConservation ==
    \A w \in Workers : pushed[w] = (handled[w] \o InFlight(w)) \o queue[w]

HandledSet == UNION {{handled[w][i] : i \in DOMAIN handled[w]} : w \in Workers}
Uncounted == {item[w] : w \in {v \in Workers : wpc[v] \in {"callback", "count"}}}

\* packetsProcessed() and packetsDropped() account for every decoded packet,
\* except those whose handler call has not returned or has just returned.
CountersAccount ==
    /\ processed = Cardinality((HandledSet \ Uncounted) \ Malformed)
    /\ dropped = Cardinality((HandledSet \ Uncounted) \cap Malformed)

\* A worker asleep on its condition variable has nothing to do, or the thread
\* that gave it something to do is about to notify it: no wakeup is lost.
NoLostWakeup ==
    \A w \in Workers :
        wpc[w] = "waiting" /\ (queue[w] # <<>> \/ ~running[w]) =>
            \E c \in Callers : pc[c] \in {"notify", "stopNotify"} /\ target[c] = w

\* The C++ runtime never terminates the program: no thread object is assigned,
\* destroyed or joined by itself while it owns a thread.
NoTerminate == ~fault

Controlling(c) == pc[c] \in StartLabels \cup StopLabels

\* While the processor is stopped, what is left in a queue was put there by a
\* submit that a stop overtook between its check of `started` and its push.
StrandedOnlyByRace ==
    ~started /\ (\A c \in Callers : ~Controlling(c)) =>
        \A w \in Workers : \A i \in DOMAIN queue[w] : queue[w][i] \in overtaken

\* How many packets each worker has taken off its queue, and has finished with.
Popped(w) == Len(handled[w]) + Len(InFlight(w))
Completed(w) == Len(handled[w]) - (IF wpc[w] \in {"callback", "count"} THEN 1 ELSE 0)

\* When flush() returns, every packet enqueued before it was called has left its
\* queue, although the workers are visited one after the other.
FlushCovers ==
    [][\A c \in Callers : pc[c] = "flush" /\ pc'[c] # "flush" =>
           \A w \in Workers : Popped(w)' >= snap[c][w]]_vars

\* When stop() returns, no worker thread is left and every packet enqueued before
\* it cleared `started` has been decoded, handed to the handler and counted.
StopDrains ==
    [][\A c \in Callers : pc[c] = "join" /\ pc'[c] # "join" =>
           \A w \in Workers : ~joinable'[w] /\ wpc'[w] = "none"
                              /\ Completed(w)' >= snap[c][w]]_vars

\* stop() and the destructor return.
StopReturns ==
    \A c \in Callers : pc[c] \in StopLabels ~> pc[c] = "idle"

\* flush() returns.
FlushReturns ==
    \A c \in Callers : pc[c] = "flush" ~> pc[c] = "idle"

-----------------------------------------------------------------------------
\* The processor is a dispatch service that is open from the moment start() sets
\* `started` until the stop() that clears it returns.
Service == INSTANCE DispatchService
    WITH open <- started \/ (\E c \in Callers : pc[c] \in {"stopFlag", "stopNotify", "join"}),
         accepted <- pushed,
         completed <- [w \in Workers |-> Completed(w)]

\* Used with discipline, the processor implements that service: each packet is
\* accepted once and only while it is open, is completed in its worker's order
\* and eventually, and the service never closes on an unfinished packet.
ImplementsService == Service!Spec

=============================================================================
