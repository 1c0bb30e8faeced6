----------------------- MODULE PacketProcessorControl -----------------------
(***************************************************************************)
(* What start(), stop() and the destructor keep in order when one thread   *)
(* of the program owns the processor: any number of other clients and the  *)
(* handlers may submit, flush and set handlers at the same time, but only  *)
(* the owner starts, stops and destroys. Under it the processor implements *)
(* the dispatch service step by step, for any number of workers, clients   *)
(* and packets, when stop and the destructor are called while no submit is *)
(* in progress.                                                            *)
(***************************************************************************)
EXTENDS PacketProcessorProofs

\* Client o is the only caller that starts, stops or destroys the processor.
OwnedBy(o) == o \in Clients /\ \A c \in Callers \ {o} : Ops[c] \cap {"start", "stop", "destroy"} = {}

SingleOwner == \E o \in Clients : OwnedBy(o)

-----------------------------------------------------------------------------
(* How far the owner is in starting or stopping the workers.               *)

\* Before, between and behind its loops over the workers, the flag and the thread
\* of every worker are what the loops have made of them so far.
Stage(o) ==
    /\ ~Controlling(o) =>
          \A w \in Workers : (running[w] <=> started) /\ (joinable[w] <=> started)
    /\ pc[o] = "startFlag" =>
          started /\ \A w \in Workers : (running[w] <=> w < target[o]) /\ (joinable[w] <=> w < target[o])
    /\ pc[o] = "spawn" =>
          started /\ \A w \in Workers : (running[w] <=> w <= target[o]) /\ (joinable[w] <=> w < target[o])
    /\ pc[o] = "stopFlag" =>
          ~started /\ \A w \in Workers : (running[w] <=> w >= target[o]) /\ joinable[w]
    /\ pc[o] = "stopNotify" =>
          ~started /\ \A w \in Workers : (running[w] <=> w > target[o]) /\ joinable[w]
    /\ pc[o] = "join" =>
          ~started /\ \A w \in Workers : ~running[w] /\ (joinable[w] <=> w >= target[o])
    /\ pc[o] = "destruct" =>
          ~started /\ \A w \in Workers : ~running[w] /\ ~joinable[w]

\* Nobody but the owner is in a start or a stop, and nothing was terminated.
Controlled(o) == ~fault /\ (\A c \in Callers \ {o} : ~Controlling(c)) /\ Stage(o)

\* A step of anybody else leaves to the owner what it controls.
LEMMA OwnerOrOther ==
    ASSUME TypeOK, NEW o, OwnedBy(o), Controlled(o), [Next]_vars
    PROVE  \/ BeginCall(o)
           \/ CallStep(o)
           \/ /\ UNCHANGED <<life, fault, started, running, joinable, overtaken>>
              /\ pc'[o] = pc[o] /\ target'[o] = target[o] /\ snap'[o] = snap[o]
              /\ \A c \in Callers \ {o} : ~Controlling(c)'
<1> DEFINE Other == /\ UNCHANGED <<life, fault, started, running, joinable, overtaken>>
                    /\ pc'[o] = pc[o] /\ target'[o] = target[o] /\ snap'[o] = snap[o]
                    /\ \A c \in Callers \ {o} : ~Controlling(c)'
<1>0. o \in Callers
  BY DEF OwnedBy, Callers
<1> USE DEF control, counters, threads, calls, history
<1>1. ASSUME NEW c \in Callers \ {o}, BeginCall(c)
      PROVE  Other
  <2>1. "start" \notin Ops[c] /\ "stop" \notin Ops[c] /\ "destroy" \notin Ops[c]
    BY DEF OwnedBy
  <2>2. (\E p \in Packets : Submit(c, p)) \/ Flush(c) \/ SetHandler(c)
    BY <1>1, <2>1 DEF BeginCall, Start, Stop, Destroy, CanCall
  <2>3. \/ UNCHANGED <<pc, target, snap>>
        \/ /\ pc'[c] \in {"dispatch", "flush"}
           /\ \A d \in Callers \ {c} : pc'[d] = pc[d] /\ target'[d] = target[d] /\ snap'[d] = snap[d]
    BY <2>2 DEF Submit, Flush, SetHandler, Snapshot, Goto, TypeOK
  <2>4. UNCHANGED <<life, fault, started, running, joinable, overtaken>>
    BY <2>2 DEF Submit, Flush, SetHandler
  <2> QED
    BY <1>0, <2>3, <2>4 DEF Controlled, Controlling, StartLabels, StopLabels
<1>2. ASSUME NEW c \in Callers \ {o}, CallStep(c)
      PROVE  Other
  <2>1. pc[c] \notin StartLabels \cup StopLabels
    BY DEF Controlled, Controlling
  <2>2. Dispatch(c) \/ Push(c) \/ Notify(c) \/ FlushPass(c)
    BY <1>2, <2>1 DEF CallStep, StartFlag, Spawn, StopFlag, StopNotify, Join, Destruct, At,
                      StartLabels, StopLabels
  <2>3. /\ pc'[c] \in {"push", "notify", "idle", "flush"}
        /\ snap' = snap
        /\ \A d \in Callers \ {c} : pc'[d] = pc[d] /\ target'[d] = target[d]
    BY <2>2 DEF Dispatch, Push, Notify, FlushPass, NextWorker, At, Goto, TypeOK
  <2>4. UNCHANGED <<life, fault, started, running, joinable, overtaken>>
    BY <2>2 DEF Dispatch, Push, Notify, FlushPass
  <2> QED
    BY <1>0, <2>3, <2>4 DEF Controlled, Controlling, StartLabels, StopLabels
<1>3. ASSUME NEW w \in Workers, WorkerStep(w) \/ SpuriousWakeup(w)
      PROVE  Other
  <2>1. UNCHANGED <<life, fault, started, running, joinable, overtaken, pc, target, snap>>
    BY <1>3 DEF WorkerStep, WorkerWait, SpuriousWakeup, WorkerExit, WorkerPop,
                WorkerDecode, WorkerReturn, WorkerCount
  <2> QED
    BY <2>1 DEF Controlled, Controlling
<1>4. CASE UNCHANGED vars
  BY <1>4 DEF vars, Controlled, Controlling
<1> QED
  BY <1>1, <1>2, <1>3, <1>4 DEF Next, Ended

\* The owner's calls begin outside of its loops, with their first worker.
LEMMA OwnerBegins ==
    ASSUME TypeOK, NEW o, OwnedBy(o), Controlled(o), BeginCall(o)
    PROVE  Controlled(o)'
<1>0. o \in Callers
  BY DEF OwnedBy, Callers
<1> USE DEF control, counters, threads, calls, history
<1>1. /\ pc[o] = "idle" /\ ~Controlling(o)
      /\ \A w \in Workers : (running[w] <=> started) /\ (joinable[w] <=> started)
  <2>1. pc[o] = "idle"
    BY DEF BeginCall, Submit, Flush, SetHandler, Start, Stop, Destroy, CanCall
  <2> QED
    BY <2>1 DEF Controlled, Stage, Controlling, StartLabels, StopLabels
<1>2. /\ UNCHANGED <<fault, running, joinable>>
      /\ \A c \in Callers \ {o} : pc'[c] = pc[c]
  <2>1. CASE Stop(o) \/ Destroy(o)
    <3>1. ClearStarted(o)
      BY <2>1 DEF Stop, Destroy
    <3> QED
      BY <3>1 DEF ClearStarted, Goto, TypeOK
  <2>2. CASE ~(Stop(o) \/ Destroy(o))
    BY <2>2 DEF BeginCall, Submit, Flush, SetHandler, Start, Goto, TypeOK
  <2> QED
    BY <2>1, <2>2
<1>3. \A w \in Workers : w >= 1 /\ ~(w < 1)
  BY WorkersAreCounted
<1>4. Stage(o)'
  <2>1. CASE (\E p \in Packets : Submit(o, p)) \/ Flush(o) \/ SetHandler(o)
    <3>1. started' = started /\ pc'[o] \in {"idle", "dispatch", "flush"}
      BY <1>0, <1>1, <2>1 DEF Submit, Flush, SetHandler, Goto, TypeOK
    <3> QED
      BY <1>1, <1>2, <3>1 DEF Stage, Controlling, StartLabels, StopLabels
  <2>2. CASE Start(o)
    <3>1. CASE started
      BY <1>1, <1>2, <2>2, <3>1 DEF Start, Stage, Controlling, StartLabels, StopLabels
    <3>2. CASE ~started
      <4>1. started' /\ pc'[o] = "startFlag" /\ target'[o] = 1
        BY <1>0, <2>2, <3>2 DEF Start, Goto, TypeOK
      <4> QED
        BY <1>1, <1>2, <1>3, <3>2, <4>1 DEF Stage, Controlling, StartLabels, StopLabels, TypeOK
    <3> QED
      BY <3>1, <3>2
  <2>3. CASE Stop(o) \/ Destroy(o)
    <3>1. ClearStarted(o)
      BY <2>3 DEF Stop, Destroy
    <3>2. CASE started
      <4>1. ~started' /\ pc'[o] = "stopFlag" /\ target'[o] = 1
        BY <1>0, <3>1, <3>2 DEF ClearStarted, Goto, TypeOK
      <4> QED
        BY <1>1, <1>2, <1>3, <3>2, <4>1 DEF Stage, Controlling, StartLabels, StopLabels, TypeOK
    <3>3. CASE ~started
      <4>1. ~started' /\ pc'[o] \in {"destruct", "idle"}
        BY <1>0, <3>1, <3>3 DEF ClearStarted, Goto, AfterStop, TypeOK
      <4> QED
        BY <1>1, <1>2, <3>3, <4>1 DEF Stage, Controlling, StartLabels, StopLabels, TypeOK
    <3> QED
      BY <3>2, <3>3
  <2> QED
    BY <2>1, <2>2, <2>3 DEF BeginCall
<1> QED
  BY <1>2, <1>4 DEF Controlled, Controlling

\* The owner's loops change one worker at a time, and in order.
LEMMA OwnerContinues ==
    ASSUME TypeOK, NEW o, OwnedBy(o), Controlled(o), CallStep(o)
    PROVE  Controlled(o)'
<1> DEFINE t == target[o]
<1>0. /\ o \in Callers /\ o \notin Workers
      /\ t \in Workers /\ Workers \subseteq Nat
      /\ t + 1 \notin Workers => \A w \in Workers : w <= t
      /\ \A w \in Workers : w >= 1
  <2>1. o \in Callers /\ o \notin Workers
    BY ProcessorAssumption DEF OwnedBy, Callers
  <2>2. t \in Workers
    BY <2>1 DEF TypeOK
  <2> HIDE DEF t
  <2> QED
    BY <2>1, <2>2, WorkersAreCounted
<1> HIDE DEF t
<1> USE DEF control, counters, threads, calls, history
<1>1. CASE Dispatch(o) \/ Push(o) \/ Notify(o) \/ FlushPass(o)
  <2>1. UNCHANGED <<fault, started, running, joinable>>
    BY <1>1 DEF Dispatch, Push, Notify, FlushPass
  <2>2. /\ ~Controlling(o) /\ ~Controlling(o)'
        /\ \A c \in Callers \ {o} : pc'[c] = pc[c]
    BY <1>0, <1>1, SMTT(20) DEF Dispatch, Push, Notify, FlushPass, NextWorker, At, Goto, TypeOK,
                      Controlling, StartLabels, StopLabels
  <2> QED
    BY <2>1, <2>2 DEF Controlled, Stage, Controlling, StartLabels, StopLabels
<1>2. CASE StartFlag(o)
  <2>1. /\ pc[o] = "startFlag" /\ pc'[o] = "spawn" /\ target'[o] = t
        /\ running' = [running EXCEPT ![t] = TRUE] /\ UNCHANGED <<fault, started, joinable>>
        /\ \A c \in Callers \ {o} : pc'[c] = pc[c]
    BY <1>0, <1>2 DEF StartFlag, At, Goto, TypeOK, t
  <2>2. started /\ \A w \in Workers : (running[w] <=> w < t) /\ (joinable[w] <=> w < t)
    BY <2>1 DEF Controlled, Stage, t
  <2>3. \A w \in Workers : (running'[w] <=> w <= t) /\ (joinable'[w] <=> w < t)
    BY <1>0, <2>1, <2>2 DEF TypeOK
  <2> QED
    BY <2>1, <2>2, <2>3 DEF Controlled, Stage, Controlling, StartLabels, StopLabels
<1>3. CASE Spawn(o)
  <2>1. pc[o] = "spawn"
    BY <1>3 DEF Spawn, At
  <2>2. started /\ \A w \in Workers : (running[w] <=> w <= t) /\ (joinable[w] <=> w < t)
    BY <2>1 DEF Controlled, Stage, t
  <2>3. ~joinable[t]
    BY <1>0, <2>2
  <2>4. /\ joinable' = [joinable EXCEPT ![t] = TRUE] /\ UNCHANGED <<fault, started, running>>
        /\ NextWorker(o, "startFlag", "idle")
    BY <1>3, <2>3 DEF Spawn, t
  <2>5. \A w \in Workers : (joinable'[w] <=> w <= t)
    <3> TAKE w \in Workers
    <3>1. CASE w = t
      BY <1>0, <2>4, <3>1 DEF TypeOK
    <3>2. CASE w # t
      <4>1. joinable'[w] = joinable[w]
        BY <2>4, <3>2 DEF TypeOK
      <4> QED
        BY <1>0, <2>2, <3>2, <4>1
    <3> QED
      BY <3>1, <3>2
  <2>6. \A c \in Callers \ {o} : pc'[c] = pc[c]
    BY <2>4 DEF NextWorker, Goto, TypeOK
  <2>7. CASE t + 1 \in Workers
    <3>1. pc'[o] = "startFlag" /\ target'[o] = t + 1
      BY <1>0, <2>4, <2>7 DEF NextWorker, Goto, TypeOK, t
    <3>2. \A w \in Workers : (w <= t) <=> (w < t + 1)
      BY <1>0
    <3>3. \A w \in Workers : (running'[w] <=> w < target'[o]) /\ (joinable'[w] <=> w < target'[o])
      BY <2>2, <2>4, <2>5, <3>1, <3>2
    <3> QED
      BY <2>2, <2>4, <2>6, <3>1, <3>3 DEF Controlled, Stage, Controlling, StartLabels, StopLabels
  <2>8. CASE t + 1 \notin Workers
    <3>1. pc'[o] = "idle"
      BY <1>0, <2>4, <2>8 DEF NextWorker, Goto, TypeOK, t
    <3>2. \A w \in Workers : (running'[w] <=> started') /\ (joinable'[w] <=> started')
      BY <1>0, <2>2, <2>4, <2>5, <2>8
    <3> QED
      BY <2>4, <2>6, <3>1, <3>2 DEF Controlled, Stage, Controlling, StartLabels, StopLabels
  <2> QED
    BY <2>7, <2>8
<1>4. CASE StopFlag(o)
  <2>1. /\ pc[o] = "stopFlag" /\ pc'[o] = "stopNotify" /\ target'[o] = t
        /\ running' = [running EXCEPT ![t] = FALSE] /\ UNCHANGED <<fault, started, joinable>>
        /\ \A c \in Callers \ {o} : pc'[c] = pc[c]
    BY <1>0, <1>4 DEF StopFlag, At, Goto, TypeOK, t
  <2>2. ~started /\ \A w \in Workers : (running[w] <=> w >= t) /\ joinable[w]
    BY <2>1 DEF Controlled, Stage, t
  <2>3. \A w \in Workers : (running'[w] <=> w > t) /\ joinable'[w]
    BY <1>0, <2>1, <2>2 DEF TypeOK
  <2> QED
    BY <2>1, <2>2, <2>3 DEF Controlled, Stage, Controlling, StartLabels, StopLabels
<1>5. CASE StopNotify(o)
  <2>1. /\ pc[o] = "stopNotify" /\ UNCHANGED <<fault, started, running, joinable>>
        /\ \A c \in Callers \ {o} : pc'[c] = pc[c]
    BY <1>5 DEF StopNotify, At, Goto, TypeOK
  <2>2. ~started /\ \A w \in Workers : (running[w] <=> w > t) /\ joinable[w]
    BY <2>1 DEF Controlled, Stage, t
  <2>3. CASE t + 1 \in Workers
    <3>1. pc'[o] = "stopFlag" /\ target'[o] = t + 1
      BY <1>0, <1>5, <2>3 DEF StopNotify, Goto, TypeOK, t
    <3>2. \A w \in Workers : (w > t) <=> (w >= t + 1)
      BY <1>0
    <3> QED
      BY <2>1, <2>2, <3>1, <3>2 DEF Controlled, Stage, Controlling, StartLabels, StopLabels
  <2>4. CASE t + 1 \notin Workers
    <3>1. pc'[o] = "join" /\ target'[o] = 1
      BY <1>0, <1>5, <2>4 DEF StopNotify, Goto, TypeOK, t
    <3>2. \A w \in Workers : ~(w > t) /\ w >= 1
      BY <1>0, <2>4
    <3> QED
      BY <2>1, <2>2, <3>1, <3>2 DEF Controlled, Stage, Controlling, StartLabels, StopLabels, TypeOK
  <2> QED
    BY <2>3, <2>4
<1>6. CASE Join(o)
  <2>1. pc[o] = "join"
    BY <1>6 DEF Join, At
  <2>2. ~started /\ \A w \in Workers : ~running[w] /\ (joinable[w] <=> w >= t)
    BY <2>1 DEF Controlled, Stage, t
  <2>3. /\ joinable' = [joinable EXCEPT ![t] = FALSE] /\ UNCHANGED <<fault, started, running>>
        /\ NextWorker(o, "join", AfterStop(o))
    BY <1>0, <1>6 DEF Join, t
  <2>4. \A w \in Workers : (joinable'[w] <=> w > t)
    BY <1>0, <2>2, <2>3 DEF TypeOK
  <2>5. \A c \in Callers \ {o} : pc'[c] = pc[c]
    BY <2>3 DEF NextWorker, Goto, TypeOK
  <2>6. CASE t + 1 \in Workers
    <3>1. pc'[o] = "join" /\ target'[o] = t + 1
      BY <1>0, <2>3, <2>6 DEF NextWorker, Goto, TypeOK, t
    <3>2. \A w \in Workers : (w > t) <=> (w >= t + 1)
      BY <1>0
    <3> QED
      BY <2>2, <2>3, <2>4, <2>5, <3>1, <3>2 DEF Controlled, Stage, Controlling, StartLabels, StopLabels
  <2>7. CASE t + 1 \notin Workers
    <3>1. pc'[o] \in {"destruct", "idle"}
      BY <1>0, <2>3, <2>7 DEF NextWorker, AfterStop, Goto, TypeOK, t
    <3>2. \A w \in Workers : ~running'[w] /\ ~joinable'[w]
      BY <1>0, <2>2, <2>3, <2>4, <2>7
    <3>3. \A w \in Workers : (running'[w] <=> started') /\ (joinable'[w] <=> started')
      <4>1. running' \in [Workers -> BOOLEAN] /\ joinable' \in [Workers -> BOOLEAN]
        BY <2>3 DEF TypeOK
      <4> QED
        BY <2>2, <2>3, <3>2, <4>1
    <3> QED
      BY <2>2, <2>3, <2>5, <3>1, <3>2, <3>3
         DEF Controlled, Stage, Controlling, StartLabels, StopLabels
  <2> QED
    BY <2>6, <2>7
<1>7. CASE Destruct(o)
  <2>1. pc[o] = "destruct" /\ pc'[o] = "idle"
    BY <1>0, <1>7 DEF Destruct, At, Goto, TypeOK
  <2>2. ~started /\ \A w \in Workers : ~running[w] /\ ~joinable[w]
    BY <2>1 DEF Controlled, Stage
  <2>3. UNCHANGED <<started, running, joinable>> /\ ~fault'
    BY <1>7, <2>2 DEF Destruct
  <2>4. \A c \in Callers \ {o} : pc'[c] = pc[c]
    BY <1>7 DEF Destruct, Goto, TypeOK
  <2> QED
    BY <2>1, <2>2, <2>3, <2>4 DEF Controlled, Stage, Controlling, StartLabels, StopLabels, TypeOK
<1> QED
  BY <1>1, <1>2, <1>3, <1>4, <1>5, <1>6, <1>7 DEF CallStep

\* The stages follow each other.
LEMMA ControlledNext ==
    ASSUME NEW o, OwnedBy(o)
    PROVE  TypeOK /\ Controlled(o) /\ [Next]_vars => Controlled(o)'
<1> SUFFICES ASSUME TypeOK, Controlled(o), [Next]_vars
             PROVE  Controlled(o)'
  OBVIOUS
<1>1. CASE /\ UNCHANGED <<life, fault, started, running, joinable, overtaken>>
           /\ pc'[o] = pc[o] /\ target'[o] = target[o] /\ snap'[o] = snap[o]
           /\ \A c \in Callers \ {o} : ~Controlling(c)'
  BY <1>1 DEF Controlled, Stage, Controlling
<1> QED
  BY <1>1, OwnerOrOther, OwnerBegins, OwnerContinues

\* Initially nothing is started.
LEMMA ControlledInit ==
    ASSUME NEW o, OwnedBy(o)
    PROVE  Init => Controlled(o)
<1>1. o \in Callers
  BY DEF OwnedBy, Callers
<1> QED
  BY <1>1 DEF Init, Controlled, Stage, Controlling, StartLabels, StopLabels

\* If one thread owns the processor, no std::thread is assigned or destroyed while
\* it owns a thread, and none joins itself, however often the owner starts, stops
\* and destroys and whatever other threads and the handlers submit meanwhile.
THEOREM NeverTerminates == ASSUME SingleOwner PROVE Spec => []NoTerminate
<1> PICK o : OwnedBy(o)
  BY DEF SingleOwner
<1>1. Init => TypeOK /\ Controlled(o)
  BY TypeInit, ControlledInit
<1>2. TypeOK /\ Controlled(o) /\ [Next]_vars => (TypeOK /\ Controlled(o))'
  BY TypeNext, ControlledNext
<1>3. TypeOK /\ Controlled(o) => NoTerminate
  BY DEF Controlled, NoTerminate
<1> QED
  BY <1>1, <1>2, <1>3, PTL DEF Spec

-----------------------------------------------------------------------------
(* What a stop leaves behind.                                              *)

\* A thread leaves workerLoop only after its `running` was cleared.
ExitedStopped == \A w \in Workers : wpc[w] = "exited" => ~running[w]

\* While the processor is stopped, the packets of the submits under way, and those
\* in the queues of workers that are gone, were overtaken by a stop.
Overtaken ==
    ~started =>
        /\ \A c \in Callers : Holding(c) => held[c] \in overtaken
        /\ \A w \in Workers : wpc[w] \in {"none", "exited"} =>
              \A i \in DOMAIN queue[w] : queue[w][i] \in overtaken

\* A worker's step adds to no queue; it leaves the loop stopped, with an empty queue.
LEMMA WorkerLeaves ==
    ASSUME TypeOK, NEW w \in Workers, WorkerStep(w) \/ SpuriousWakeup(w)
    PROVE  /\ UNCHANGED <<started, running, pc, held, overtaken, target, snap, pushed>>
           /\ wpc[w] # "none" /\ wpc'[w] # "none"
           /\ wpc'[w] = "exited" => ~running[w] /\ queue[w] = <<>> /\ queue' = queue
                                    /\ wpc[w] # "decode" /\ handled' = handled
           /\ \A v \in Workers \ {w} : wpc'[v] = wpc[v] /\ queue'[v] = queue[v]
                                       /\ handled'[v] = handled[v]
<1> USE DEF control, counters, threads, calls, history, WorkerAt, MoveWorker, TypeOK, WorkerLabels
<1>1. CASE WorkerWait(w)
  BY <1>1 DEF WorkerWait
<1>2. CASE SpuriousWakeup(w)
  BY <1>2 DEF SpuriousWakeup
<1>3. CASE WorkerExit(w)
  BY <1>3 DEF WorkerExit
<1>4. CASE WorkerPop(w)
  BY <1>4 DEF WorkerPop
<1>5. CASE WorkerDecode(w)
  BY <1>5 DEF WorkerDecode
<1>6. CASE WorkerReturn(w)
  BY <1>6 DEF WorkerReturn
<1>7. CASE WorkerCount(w)
  BY <1>7 DEF WorkerCount
<1> QED
  BY <1>1, <1>2, <1>3, <1>4, <1>5, <1>6, <1>7 DEF WorkerStep

\* A caller's step sends no worker out of its loop, and takes a thread away only
\* once it has left it.
LEMMA CallerLeaves ==
    ASSUME TypeOK, ThreadOwned, NEW c \in Callers, BeginCall(c) \/ CallStep(c)
    PROVE  /\ handled' = handled
           /\ \A w \in Workers : /\ wpc'[w] = "exited" => wpc[w] = "exited"
                                 /\ wpc'[w] = "none" => wpc[w] \in {"none", "exited"}
<1> USE DEF control, counters, threads, calls, history
<1>1. CASE BeginCall(c)
  BY <1>1 DEF BeginCall, Submit, Flush, SetHandler, Start, Stop, Destroy, ClearStarted
<1>2. CASE Dispatch(c) \/ Push(c) \/ FlushPass(c) \/ StartFlag(c) \/ StopFlag(c) \/ Destruct(c)
  BY <1>2 DEF Dispatch, Push, FlushPass, StartFlag, StopFlag, Destruct
<1>3. CASE Notify(c) \/ StopNotify(c)
  BY <1>3 DEF Notify, StopNotify, Wake, TypeOK
<1>4. CASE Spawn(c)
  BY <1>4 DEF Spawn, TypeOK
<1>5. CASE Join(c)
  BY <1>5 DEF Join, TypeOK, ThreadOwned
<1> QED
  BY <1>1, <1>2, <1>3, <1>4, <1>5 DEF CallStep

\* `running` is set again only for a worker without a thread.
LEMMA ExitedStoppedNext ==
    ASSUME NEW o, OwnedBy(o)
    PROVE  TypeOK /\ ThreadOwned /\ Controlled(o) /\ ExitedStopped /\ [Next]_vars => ExitedStopped'
<1> SUFFICES ASSUME TypeOK, ThreadOwned, Controlled(o), ExitedStopped, [Next]_vars
             PROVE  ExitedStopped'
  OBVIOUS
<1>0. o \in Callers
  BY DEF OwnedBy, Callers
<1> USE DEF control, counters, threads, calls, history
<1>1. ASSUME NEW w \in Workers, WorkerStep(w) \/ SpuriousWakeup(w)
      PROVE  ExitedStopped'
  BY <1>1, WorkerLeaves DEF ExitedStopped
<1>2. ASSUME NEW c \in Callers, BeginCall(c) \/ CallStep(c)
      PROVE  ExitedStopped'
  <2>1. CASE \A w \in Workers : running'[w] => running[w]
    BY <1>2, <2>1, CallerLeaves DEF ExitedStopped
  <2>2. CASE StartFlag(c)
    <3>1. c = o
      BY <2>2 DEF StartFlag, At, Controlled, Controlling, StartLabels
    <3>2. target[o] \in Workers /\ ~joinable[target[o]]
      BY <1>0, <2>2, <3>1, WorkersAreCounted DEF StartFlag, At, Controlled, Stage, TypeOK
    <3>3. wpc[target[o]] = "none"
      BY <3>2 DEF ThreadOwned
    <3> QED
      BY <2>2, <3>1, <3>3 DEF StartFlag, ExitedStopped, TypeOK
  <2>3. CASE BeginCall(c) \/ Dispatch(c) \/ Push(c) \/ Notify(c) \/ FlushPass(c)
             \/ Spawn(c) \/ StopNotify(c) \/ Join(c) \/ Destruct(c)
    <3>1. running' = running
      BY <2>3 DEF BeginCall, Submit, Flush, SetHandler, Start, Stop, Destroy, ClearStarted,
                  Dispatch, Push, Notify, FlushPass, Spawn, StopNotify, Join, Destruct
    <3> QED
      BY <2>1, <3>1
  <2>4. CASE StopFlag(c)
    <3>1. \A w \in Workers : running'[w] => running[w]
      BY <2>4 DEF StopFlag, TypeOK
    <3> QED
      BY <2>1, <3>1
  <2> QED
    BY <1>2, <2>2, <2>3, <2>4 DEF CallStep
<1>3. CASE UNCHANGED vars
  BY <1>3 DEF vars, ExitedStopped
<1> QED
  BY <1>1, <1>2, <1>3 DEF Next, Ended

\* A stop finds every worker in its loop; a worker leaves it with an empty queue;
\* later pushes come from the submits that the stop overtook.
LEMMA OvertakenNext ==
    ASSUME NEW o, OwnedBy(o)
    PROVE  TypeOK /\ ThreadOwned /\ Controlled(o) /\ ExitedStopped /\ Overtaken /\ [Next]_vars
             => Overtaken'
<1> SUFFICES ASSUME TypeOK, ThreadOwned, Controlled(o), ExitedStopped, Overtaken, [Next]_vars,
                    ~started'
             PROVE  /\ \A c \in Callers : Holding(c)' => held'[c] \in overtaken'
                    /\ \A w \in Workers : wpc'[w] \in {"none", "exited"} =>
                          \A i \in DOMAIN queue'[w] : queue'[w][i] \in overtaken'
  BY DEF Overtaken
<1> DEFINE Goal == /\ \A c \in Callers : Holding(c)' => held'[c] \in overtaken'
                   /\ \A w \in Workers : wpc'[w] \in {"none", "exited"} =>
                         \A i \in DOMAIN queue'[w] : queue'[w][i] \in overtaken'
<1>0. o \in Callers
  BY DEF OwnedBy, Callers
<1> USE DEF control, counters, threads, calls, history
<1>1. ASSUME NEW w \in Workers, WorkerStep(w) \/ SpuriousWakeup(w)
      PROVE  Goal
  <2>1. ~started /\ UNCHANGED <<pc, held, overtaken>>
    BY <1>1, WorkerLeaves
  <2>2. \A c \in Callers : Holding(c)' => held'[c] \in overtaken'
    BY <2>1 DEF Overtaken, Holding
  <2>3. \A v \in Workers \ {w} : wpc'[v] = wpc[v] /\ queue'[v] = queue[v]
    BY <1>1, WorkerLeaves
  <2>4. wpc'[w] \in {"none", "exited"} => DOMAIN queue'[w] = {}
    BY <1>1, WorkerLeaves, EmptySeq
  <2> QED
    BY <2>1, <2>2, <2>3, <2>4 DEF Overtaken
<1>2. ASSUME NEW c \in Callers, Stop(c) \/ Destroy(c)
      PROVE  Goal
  <2>1. ClearStarted(c) /\ c = o /\ pc[c] = "idle"
    BY <1>2 DEF Stop, Destroy, OwnedBy, CanCall
  <2>2. UNCHANGED <<queue, held, wpc>>
    BY <2>1 DEF ClearStarted
  <2>3. \A d \in Callers : Holding(d)' => Holding(d)
    BY <2>1, ClearStartedType DEF Holding
  <2>4. CASE started
    <3>1. overtaken' = overtaken \cup Uncommitted
      BY <2>1, <2>4 DEF ClearStarted
    <3>2. \A d \in Callers : Holding(d) => held[d] \in Uncommitted
      BY DEF Holding, Uncommitted
    <3>3. \A w \in Workers : wpc[w] \notin {"none", "exited"}
      <4>1. \A w \in Workers : running[w] /\ joinable[w]
        BY <2>1, <2>4 DEF Controlled, Stage, Controlling, StartLabels, StopLabels
      <4> QED
        BY <4>1 DEF ThreadOwned, ExitedStopped
    <3> QED
      BY <2>2, <2>3, <3>1, <3>2, <3>3
  <2>5. CASE ~started
    <3>1. overtaken' = overtaken
      BY <2>1, <2>5 DEF ClearStarted
    <3> QED
      BY <2>2, <2>3, <2>5, <3>1 DEF Overtaken
  <2> QED
    BY <2>4, <2>5
<1>3. ASSUME NEW c \in Callers, BeginCall(c), ~(Stop(c) \/ Destroy(c))
      PROVE  Goal
  <2>1. ~started /\ UNCHANGED <<queue, wpc, overtaken, held>>
    BY <1>3 DEF BeginCall, Submit, Flush, SetHandler, Start
  <2>2. \A d \in Callers : Holding(d)' => Holding(d)
    BY <1>3, <2>1 DEF BeginCall, Submit, Flush, SetHandler, Start, Goto, TypeOK, Holding
  <2> QED
    BY <2>1, <2>2 DEF Overtaken
<1>4. ASSUME NEW c \in Callers, Push(c)
      PROVE  Goal
  <2>1. /\ ~started /\ UNCHANGED <<wpc, overtaken>>
        /\ held[c] \in overtaken /\ held[c] \in Packets /\ target[c] \in Workers
    BY <1>4 DEF Push, At, TypeOK, Overtaken, Holding
  <2>2. \A d \in Callers : Holding(d)' => Holding(d) /\ held'[d] = held[d]
    BY <1>4 DEF Push, Goto, Holding, TypeOK
  <2>3. \A w \in Workers \ {target[c]} : queue'[w] = queue[w]
    BY <1>4 DEF Push, TypeOK
  <2>4. \A i \in DOMAIN queue'[target[c]] :
           queue'[target[c]][i] = held[c] \/
           (i \in DOMAIN queue[target[c]] /\ queue'[target[c]][i] = queue[target[c]][i])
    <3>1. /\ queue'[target[c]] = Append(queue[target[c]], held[c])
          /\ queue[target[c]] \in Seq(Packets)
      BY <1>4, <2>1 DEF Push, TypeOK
    <3> QED
      BY <2>1, <3>1, AppendProperties, LenProperties
  <2> QED
    BY <2>1, <2>2, <2>3, <2>4 DEF Overtaken
<1>5. ASSUME NEW c \in Callers, CallStep(c), ~Push(c)
      PROVE  Goal
  <2>1. ~started /\ UNCHANGED <<queue, overtaken, held>>
    <3>1. CASE Dispatch(c) \/ Notify(c) \/ FlushPass(c) \/ StartFlag(c)
      BY <3>1 DEF Dispatch, Notify, FlushPass, StartFlag
    <3>2. CASE Spawn(c) \/ StopFlag(c) \/ StopNotify(c)
      BY <3>2 DEF Spawn, StopFlag, StopNotify
    <3>3. CASE Join(c)
      BY <3>3 DEF Join
    <3>4. CASE Destruct(c)
      BY <3>4 DEF Destruct
    <3> QED
      BY <1>5, <3>1, <3>2, <3>3, <3>4 DEF CallStep
  <2>2. \A d \in Callers : Holding(d)' => Holding(d)
    <3>1. CASE Spawn(c) \/ Join(c)
      BY <3>1, ThreadLoopMoves DEF Holding
    <3>2. CASE ~(Spawn(c) \/ Join(c))
      BY <1>5, <3>2 DEF CallStep, Dispatch, Notify, FlushPass, StartFlag, StopFlag,
                StopNotify, Destruct, NextWorker, At, Goto, Holding, TypeOK
    <3> QED
      BY <3>1, <3>2
  <2>3. \A w \in Workers : wpc'[w] \in {"none", "exited"} => wpc[w] \in {"none", "exited"}
    BY <1>5, CallerLeaves
  <2> QED
    BY <2>1, <2>2, <2>3 DEF Overtaken
<1>6. CASE UNCHANGED vars
  BY <1>6 DEF vars, Overtaken, Holding
<1> QED
  BY <1>1, <1>2, <1>3, <1>4, <1>5, <1>6 DEF Next, Ended

\* If one thread owns the processor: while it is stopped, what is left in a queue was
\* put there by a submit that a stop overtook.
THEOREM StrandedCorrect == ASSUME SingleOwner PROVE Spec => []StrandedOnlyByRace
<1> PICK o : OwnedBy(o)
  BY DEF SingleOwner
<1> DEFINE Inv == TypeOK /\ ThreadOwned /\ Controlled(o) /\ ExitedStopped /\ Overtaken
<1>1. Init => Inv
  <2>1. Init => ThreadOwned /\ ExitedStopped /\ Overtaken
    <3>1. Init => \A w \in Workers : DOMAIN queue[w] = {}
      BY DEF Init
    <3> QED
      BY <3>1 DEF Init, ThreadOwned, ExitedStopped, Overtaken, Holding
  <2> QED
    BY <2>1, TypeInit, ControlledInit
<1>2. Inv /\ [Next]_vars => Inv'
  BY TypeNext, ThreadOwnedNext, ControlledNext, ExitedStoppedNext, OvertakenNext
<1>3. Inv => StrandedOnlyByRace
  <2> SUFFICES ASSUME Inv, ~started, \A c \in Callers : ~Controlling(c), NEW w \in Workers
               PROVE  \A i \in DOMAIN queue[w] : queue[w][i] \in overtaken
    BY DEF StrandedOnlyByRace
  <2>1. ~joinable[w]
    BY DEF OwnedBy, Callers, Controlled, Stage
  <2> QED
    BY <2>1 DEF ThreadOwned, Overtaken
<1> QED
  BY <1>1, <1>2, <1>3, PTL DEF Spec

-----------------------------------------------------------------------------
(* What a stop has waited for when it returns.                             *)

\* What was enqueued at a worker when the owner's stop cleared `started` is handled
\* once the worker's thread has left its loop.
Drained(o) ==
    pc[o] \in {"stopFlag", "stopNotify", "join"} =>
        \A w \in Workers :
            /\ snap[o][w] <= Len(pushed[w])
            /\ wpc[w] \in {"none", "exited"} => snap[o][w] <= Len(handled[w])

\* A worker that leaves its loop has handled all that was ever enqueued there.
LEMMA ExitedEmpty ==
    ASSUME TypeOK, FifoConservation, NEW w \in Workers, queue[w] = <<>>, wpc[w] # "decode"
    PROVE  Len(pushed[w]) = Len(handled[w])
<1>1. Popped(w) = Len(handled[w]) + 0
  BY DEF Popped, InFlight
<1>2. Len(queue[w]) = 0
  OBVIOUS
<1>3. Len(handled[w]) \in Nat
  BY LenProperties DEF TypeOK
<1> QED
  BY <1>1, <1>2, <1>3, PoppedOrQueued DEF QueueAccounts

\* A stop begins with every worker in its loop, and each leaves it drained.
LEMMA DrainedNext ==
    ASSUME NEW o, OwnedBy(o)
    PROVE  TypeOK /\ ThreadOwned /\ FifoConservation /\ Controlled(o) /\ ExitedStopped
             /\ Drained(o) /\ [Next]_vars => Drained(o)'
<1> SUFFICES ASSUME TypeOK, ThreadOwned, FifoConservation, Controlled(o), ExitedStopped,
                    Drained(o), [Next]_vars, NEW w \in Workers,
                    pc'[o] \in {"stopFlag", "stopNotify", "join"}
             PROVE  /\ snap'[o][w] <= Len(pushed'[w])
                    /\ wpc'[w] \in {"none", "exited"} => snap'[o][w] <= Len(handled'[w])
  BY DEF Drained
<1>0. o \in Callers
  BY DEF OwnedBy, Callers
<1>1. Len(pushed[w]) <= Len(pushed'[w]) /\ Len(pushed[w]) \in Nat /\ Len(pushed'[w]) \in Nat
      /\ Len(handled[w]) \in Nat /\ snap[o][w] \in Nat
  BY <1>0, PoppedGrows, TypeNext, LenProperties DEF TypeOK
<1> USE DEF control, counters, threads, calls, history
<1>2. ASSUME NEW c \in Callers, BeginCall(c) \/ CallStep(c),
             pc[o] \in {"stopFlag", "stopNotify", "join"}, snap'[o] = snap[o]
      PROVE  /\ snap'[o][w] <= Len(pushed'[w])
             /\ wpc'[w] \in {"none", "exited"} => snap'[o][w] <= Len(handled'[w])
  BY <1>1, <1>2, CallerLeaves DEF Drained
<1>3. ASSUME NEW v \in Workers, WorkerStep(v) \/ SpuriousWakeup(v)
      PROVE  /\ snap'[o][w] <= Len(pushed'[w])
             /\ wpc'[w] \in {"none", "exited"} => snap'[o][w] <= Len(handled'[w])
  <2>1. pc' = pc /\ snap' = snap /\ pushed' = pushed
    BY <1>3, WorkerLeaves
  <2>2. snap[o][w] <= Len(pushed[w])
        /\ (wpc[w] \in {"none", "exited"} => snap[o][w] <= Len(handled[w]))
    BY <2>1 DEF Drained
  <2>3. CASE v # w
    BY <1>3, <2>1, <2>2, <2>3, WorkerLeaves
  <2>4. CASE v = w
    <3>1. ASSUME wpc'[w] = "exited"
          PROVE  snap'[o][w] <= Len(handled'[w])
      BY <1>3, <2>1, <2>2, <2>4, <3>1, WorkerLeaves, ExitedEmpty
    <3> QED
      BY <1>3, <2>1, <2>2, <2>4, <3>1, WorkerLeaves
  <2> QED
    BY <2>3, <2>4
<1>4. CASE Stop(o) \/ Destroy(o)
  <2>1. ClearStarted(o) /\ pc[o] = "idle"
    BY <1>4 DEF Stop, Destroy, CanCall
  <2>2. started /\ Snapshot(o)
    BY <1>0, <2>1 DEF ClearStarted, AfterStop, Goto, TypeOK
  <2>3. snap'[o][w] = Len(pushed[w]) /\ wpc' = wpc
    BY <1>0, <2>1, <2>2 DEF ClearStarted, Snapshot, TypeOK
  <2>4. wpc[w] \notin {"none", "exited"}
    <3>1. running[w] /\ joinable[w]
      BY <2>1, <2>2 DEF Controlled, Stage, Controlling, StartLabels, StopLabels
    <3> QED
      BY <3>1 DEF ThreadOwned, ExitedStopped
  <2> QED
    BY <1>1, <2>3, <2>4
<1>5. CASE BeginCall(o) /\ ~(Stop(o) \/ Destroy(o))
  <2>1. pc'[o] \in {"idle", "dispatch", "flush", "startFlag"}
    BY <1>0, <1>5 DEF BeginCall, Submit, Flush, SetHandler, Start, CanCall, Goto, TypeOK
  <2> QED
    BY <2>1
<1>6. CASE CallStep(o)
  <2>1. snap' = snap
    BY <1>6 DEF CallStep, Dispatch, Push, Notify, FlushPass, StartFlag, Spawn, StopFlag,
                StopNotify, Join, Destruct
  <2>2. pc[o] \in {"stopFlag", "stopNotify", "join"}
    <3>1. CASE Dispatch(o) \/ Push(o) \/ Notify(o) \/ StartFlag(o) \/ Destruct(o)
      BY <1>0, <3>1 DEF Dispatch, Push, Notify, StartFlag, Destruct, Goto, TypeOK
    <3>2. CASE FlushPass(o)
      BY <1>0, <3>2 DEF FlushPass, NextWorker, At, Goto, TypeOK
    <3>4. CASE Spawn(o)
      BY <1>0, <3>4, ThreadLoopMoves DEF Spawn, Join, At
    <3>3. CASE StopFlag(o) \/ StopNotify(o) \/ Join(o)
      BY <3>3 DEF StopFlag, StopNotify, Join, At
    <3> QED
      BY <1>6, <3>1, <3>2, <3>3, <3>4 DEF CallStep
  <2> QED
    BY <1>0, <1>2, <1>6, <2>1, <2>2
<1>7. ASSUME NEW c \in Callers \ {o}, BeginCall(c) \/ CallStep(c)
      PROVE  pc'[o] = pc[o] /\ snap'[o] = snap[o]
  <2>1. CASE BeginCall(c)
    <3>1. (\E p \in Packets : Submit(c, p)) \/ Flush(c) \/ SetHandler(c)
      BY <2>1 DEF OwnedBy, BeginCall, Start, Stop, Destroy, CanCall
    <3> QED
      BY <1>0, <3>1 DEF Submit, Flush, SetHandler, Snapshot, Goto, TypeOK
  <2>2. CASE CallStep(c)
    <3>1. Dispatch(c) \/ Push(c) \/ Notify(c) \/ FlushPass(c)
      BY <2>2 DEF Controlled, Controlling, CallStep, StartFlag, Spawn, StopFlag, StopNotify,
                  Join, Destruct, At, StartLabels, StopLabels
    <3> QED
      BY <1>0, <3>1 DEF Dispatch, Push, Notify, FlushPass, NextWorker, Goto, TypeOK
  <2> QED
    BY <1>7, <2>1, <2>2
<1>8. CASE UNCHANGED vars
  BY <1>8 DEF vars, Drained
<1> QED
  BY <1>2, <1>3, <1>4, <1>5, <1>6, <1>7, <1>8 DEF Next, Ended

\* If one thread owns the processor: when stop(), or the destructor's, returns, no
\* worker thread is left and every packet enqueued before it began is handled and
\* counted, whatever other threads submit or flush meanwhile.
THEOREM StopCorrect == ASSUME SingleOwner PROVE Spec => StopDrains
<1> PICK o : OwnedBy(o)
  BY DEF SingleOwner
<1> DEFINE Inv == /\ TypeOK /\ ThreadOwned /\ FifoConservation
                  /\ Controlled(o) /\ ExitedStopped /\ Drained(o)
<1>1. Init => Inv
  <2>1. o \in Callers
    BY DEF OwnedBy, Callers
  <2>2. Init => ThreadOwned /\ ExitedStopped /\ Drained(o)
    BY <2>1 DEF Init, ThreadOwned, ExitedStopped, Drained
  <2> QED
    BY <2>2, TypeInit, FifoInit, ControlledInit
<1>2. Inv /\ [Next]_vars => Inv'
  BY TypeNext, ThreadOwnedNext, FifoNext, ControlledNext, ExitedStoppedNext, DrainedNext
<1>3. Inv /\ Inv' /\ [Next]_vars =>
        [\A c \in Callers : pc[c] = "join" /\ pc'[c] # "join" =>
            \A w \in Workers : ~joinable'[w] /\ wpc'[w] = "none"
                               /\ Completed(w)' >= snap[c][w]]_vars
  <2> SUFFICES ASSUME Inv, Inv', [Next]_vars, NEW c \in Callers,
                      pc[c] = "join", pc'[c] # "join", NEW w \in Workers
               PROVE  ~joinable'[w] /\ wpc'[w] = "none" /\ Completed(w)' >= snap[c][w]
    OBVIOUS
  <2>1. c = o
    BY DEF Controlled, Controlling, StopLabels
  <2>2. Join(o)
    <3>1. CallStep(o)
      BY <2>1, OwnerOrOther DEF BeginCall, Submit, Flush, SetHandler, Start, Stop, Destroy, CanCall
    <3> QED
      BY <2>1, <3>1 DEF CallStep, Dispatch, Push, Notify, FlushPass, StartFlag, Spawn, StopFlag,
                        StopNotify, Destruct, At
  <2>3. pc'[o] \in {"destruct", "idle"}
    BY <2>1, <2>2 DEF Join, NextWorker, AfterStop, Goto, TypeOK
  <2>4. ~joinable'[w]
    <3>1. started' = started /\ ~started
      BY <2>1, <2>2 DEF Join, Controlled, Stage
    <3> QED
      BY <2>3, <3>1 DEF Controlled, Stage, Controlling, StartLabels, StopLabels
  <2>5. wpc'[w] = "none"
    BY <2>4 DEF ThreadOwned
  <2>6. snap[o][w] <= Len(handled[w]) /\ handled' = handled
    <3>1. wpc[w] \in {"none", "exited"}
      BY <2>1, <2>2, <2>5, CallerLeaves DEF CallStep
    <3> QED
      BY <2>1, <2>2, <3>1, CallerLeaves DEF CallStep, Drained
  <2>7. Len(handled[w]) \in Nat /\ snap[o][w] \in Nat
    BY <2>1, LenProperties DEF TypeOK
  <2>8. Completed(w)' = Len(handled[w])
    BY <2>5, <2>6, <2>7 DEF Completed
  <2> QED
    BY <2>1, <2>4, <2>5, <2>6, <2>7, <2>8
<1> QED
  BY <1>1, <1>2, <1>3, PTL DEF Spec, StopDrains

-----------------------------------------------------------------------------
(* The processor implements the dispatch service.                          *)

\* A stop has cleared `started` and not joined every worker yet.
Closing == \E c \in Callers : pc[c] \in {"stopFlag", "stopNotify", "join"}

-----------------------------------------------------------------------------
(* Nothing arrives at a stopped processor.                                 *)

\* While the processor is stopped nobody submits, and a worker that has left its
\* loop has left nothing behind.
Quiet ==
    ~started => NoSubmitInProgress /\ \A w \in Workers : wpc[w] \in {"none", "exited"} => queue[w] = <<>>

\* A submit begins only when `started` is set, a disciplined stop only when no submit
\* is in progress.
LEMMA QuietNext ==
    ASSUME Disciplined, NEW o, OwnedBy(o)
    PROVE  TypeOK /\ ThreadOwned /\ Controlled(o) /\ ExitedStopped /\ Quiet /\ [Next]_vars => Quiet'
<1> SUFFICES ASSUME TypeOK, ThreadOwned, Controlled(o), ExitedStopped, Quiet, [Next]_vars, ~started'
             PROVE  /\ NoSubmitInProgress'
                    /\ \A w \in Workers : wpc'[w] \in {"none", "exited"} => queue'[w] = <<>>
  BY DEF Quiet
<1> DEFINE Goal == /\ NoSubmitInProgress'
                   /\ \A w \in Workers : wpc'[w] \in {"none", "exited"} => queue'[w] = <<>>
<1> USE DEF control, counters, threads, calls, history
<1>1. ASSUME NEW w \in Workers, WorkerStep(w) \/ SpuriousWakeup(w)
      PROVE  Goal
  <2>1. ~started /\ pc' = pc
    BY <1>1, WorkerLeaves
  <2>2. NoSubmitInProgress'
    BY <2>1 DEF Quiet, NoSubmitInProgress
  <2>3. \A v \in Workers \ {w} : wpc'[v] = wpc[v] /\ queue'[v] = queue[v]
    BY <1>1, WorkerLeaves
  <2>4. wpc'[w] \in {"none", "exited"} => queue'[w] = <<>>
    BY <1>1, WorkerLeaves
  <2> QED
    BY <2>1, <2>2, <2>3, <2>4 DEF Quiet
<1>2. ASSUME NEW c \in Callers, Stop(c) \/ Destroy(c)
      PROVE  Goal
  <2>1. ClearStarted(c) /\ c = o /\ pc[c] = "idle"
    BY <1>2 DEF Stop, Destroy, OwnedBy, CanCall
  <2>2. UNCHANGED <<queue, wpc>> /\ NoSubmitInProgress
    BY <2>1 DEF ClearStarted
  <2>3. NoSubmitInProgress'
    <3>1. pc'[c] \notin SubmitLabels /\ \A d \in Callers \ {c} : pc'[d] = pc[d]
      <4>1. AfterStop(c) \in {"idle", "destruct"}
        BY DEF AfterStop
      <4> QED
        BY <2>1, <4>1 DEF ClearStarted, Goto, SubmitLabels, TypeOK
    <3> QED
      BY <2>2, <3>1 DEF NoSubmitInProgress
  <2>4. CASE started
    <3>1. \A w \in Workers : wpc[w] \notin {"none", "exited"}
      <4>1. \A w \in Workers : running[w] /\ joinable[w]
        BY <2>1, <2>4 DEF Controlled, Stage, Controlling, StartLabels, StopLabels
      <4> QED
        BY <4>1 DEF ThreadOwned, ExitedStopped
    <3> QED
      BY <2>2, <2>3, <3>1
  <2>5. CASE ~started
    BY <2>2, <2>3, <2>5 DEF Quiet
  <2> QED
    BY <2>4, <2>5
<1>3. ASSUME NEW c \in Callers, BeginCall(c), ~(Stop(c) \/ Destroy(c))
      PROVE  Goal
  <2>1. ~started /\ UNCHANGED <<queue, wpc>>
    BY <1>3 DEF BeginCall, Submit, Flush, SetHandler, Start
  <2>2. UNCHANGED pc \/ (pc'[c] = "flush" /\ \A d \in Callers \ {c} : pc'[d] = pc[d])
    BY <1>3, <2>1 DEF BeginCall, Submit, Flush, SetHandler, Start, Goto, TypeOK
  <2> QED
    BY <2>1, <2>2 DEF Quiet, NoSubmitInProgress, SubmitLabels
<1>4. ASSUME NEW c \in Callers, Dispatch(c) \/ Push(c) \/ Notify(c)
      PROVE  Goal
  <2>1. ~started /\ pc[c] \in SubmitLabels
    BY <1>4 DEF Dispatch, Push, Notify, At, SubmitLabels
  <2> QED
    BY <2>1 DEF Quiet, NoSubmitInProgress
<1>5. ASSUME NEW c \in Callers, CallStep(c), ~(Dispatch(c) \/ Push(c) \/ Notify(c))
      PROVE  Goal
  <2>1. ~started /\ UNCHANGED queue
    <3>1. CASE FlushPass(c) \/ StartFlag(c) \/ StopFlag(c) \/ StopNotify(c)
      BY <3>1 DEF FlushPass, StartFlag, StopFlag, StopNotify
    <3>2. CASE Spawn(c)
      BY <3>2 DEF Spawn
    <3>3. CASE Join(c)
      BY <3>3 DEF Join
    <3>4. CASE Destruct(c)
      BY <3>4 DEF Destruct
    <3> QED
      BY <1>5, <3>1, <3>2, <3>3, <3>4 DEF CallStep
  <2>2. \A d \in Callers : pc'[d] \in SubmitLabels => pc[d] \in SubmitLabels
    <3>1. CASE Spawn(c) \/ Join(c)
      BY <3>1, ThreadLoopMoves DEF SubmitLabels
    <3>2. CASE FlushPass(c) \/ StartFlag(c) \/ StopFlag(c) \/ StopNotify(c) \/ Destruct(c)
      BY <3>2 DEF FlushPass, StartFlag, StopFlag, StopNotify, Destruct, NextWorker, Goto,
                  SubmitLabels, TypeOK
    <3> QED
      BY <1>5, <3>1, <3>2 DEF CallStep
  <2>3. \A w \in Workers : wpc'[w] \in {"none", "exited"} => wpc[w] \in {"none", "exited"}
    BY <1>5, CallerLeaves
  <2> QED
    BY <2>1, <2>2, <2>3 DEF Quiet, NoSubmitInProgress
<1>6. CASE UNCHANGED vars
  BY <1>6 DEF vars, Quiet, NoSubmitInProgress
<1> QED
  BY <1>1, <1>2, <1>3, <1>4, <1>5, <1>6 DEF Next, Ended

-----------------------------------------------------------------------------
(* Every step is a step of the service, or none.                           *)

\* What the service sees of the processor.
IsOpen == started \/ Closing
CompletedAt == [w \in Workers |-> Completed(w)]

\* A step the service does not see.
Unseen == IsOpen' = IsOpen /\ pushed' = pushed /\ CompletedAt' = CompletedAt

\* A worker completes a packet when it counts it, and only then.
LEMMA WorkerServes ==
    ASSUME TypeOK, ThreadOwned, FifoConservation, LastDecoded, [Next]_vars,
           NEW w \in Workers, WorkerStep(w) \/ SpuriousWakeup(w)
    PROVE  Unseen \/ Service!Complete(w)
<1>0. UNCHANGED <<started, pc, pushed>>
  BY WorkerLeaves
<1>1. IsOpen' = IsOpen
  BY <1>0 DEF IsOpen, Closing
<1>2. handled \in [Workers -> Seq(Packets)] /\ wpc \in [Workers -> WorkerLabels]
  BY DEF TypeOK
<1>3. \A v \in Workers : Len(handled[v]) \in Nat
  BY <1>2, LenProperties
<1> USE DEF control, counters, threads, calls, history
<1>4. CASE WorkerDecode(w)
  <2>1. \A v \in Workers \ {w} : Completed(v)' = Completed(v)
    BY <1>2, <1>4 DEF WorkerDecode, MoveWorker, Completed
  <2>2. Completed(w)' = Completed(w)
    <3>1. item[w] \in Packets
      BY <1>4 DEF WorkerDecode, WorkerAt, TypeOK
    <3>2. Len(handled'[w]) = Len(handled[w]) + 1
      BY <1>2, <1>4, <3>1, AppendProperties DEF WorkerDecode
    <3>3. wpc[w] = "decode" /\ wpc'[w] \in {"callback", "count"}
      BY <1>2, <1>4 DEF WorkerDecode, WorkerAt, MoveWorker
    <3> QED
      BY <1>3, <3>2, <3>3 DEF Completed
  <2> QED
    BY <1>0, <1>1, <2>1, <2>2 DEF Unseen, CompletedAt
<1>5. CASE WorkerCount(w)
  <2>1. /\ wpc[w] = "count" /\ wpc' = [wpc EXCEPT ![w] = "lock"] /\ handled' = handled
    BY <1>5 DEF WorkerCount, WorkerAt, MoveWorker
  <2>2. \A v \in Workers \ {w} : Completed(v)' = Completed(v)
    BY <1>2, <2>1 DEF Completed
  <2>3. Completed(w)' = Completed(w) + 1 /\ Completed(w) = Len(handled[w]) - 1
    BY <1>2, <1>3, <2>1 DEF Completed
  <2>4. CompletedAt' = [CompletedAt EXCEPT ![w] = @ + 1]
    BY <2>2, <2>3 DEF CompletedAt
  <2>5. Len(handled[w]) <= Len(pushed[w])
    <3>1. Len(handled[w]) > 0
      BY <2>1 DEF LastDecoded, Processing
    <3>2. Len(handled[w]) \in DOMAIN pushed[w]
      BY <1>3, <3>1, HandledWerePushed
    <3> QED
      BY <1>3, <3>2, LenProperties DEF TypeOK
  <2>6. Len(pushed[w]) \in Nat
    BY LenProperties DEF TypeOK
  <2>7. CompletedAt[w] < Len(pushed[w])
    BY <1>3, <2>3, <2>5, <2>6 DEF CompletedAt
  <2> QED
    BY <1>0, <1>1, <2>4, <2>7 DEF Service!Complete, CompletedAt, IsOpen, Closing
<1>6. CASE ~WorkerDecode(w) /\ ~WorkerCount(w)
  <2>1. handled' = handled /\ \A v \in Workers : Completed(v)' = Completed(v)
    BY <1>2, <1>6 DEF WorkerStep, WorkerWait, SpuriousWakeup, WorkerExit, WorkerPop, WorkerReturn,
                WorkerAt, MoveWorker, Completed
  <2> QED
    BY <1>0, <1>1, <2>1 DEF Unseen, CompletedAt
<1> QED
  BY <1>4, <1>5, <1>6

\* A call that begins opens the service if it is a start() that finds it stopped.
LEMMA BeginServes ==
    ASSUME TypeOK, ThreadOwned, NEW o, OwnedBy(o), Controlled(o), [Next]_vars,
           NEW c \in Callers, BeginCall(c)
    PROVE  Unseen \/ Service!Open
<1>0. o \in Callers
  BY DEF OwnedBy, Callers
<1> USE DEF control, counters, threads, calls, history
<1>1. pushed' = pushed /\ CompletedAt' = CompletedAt
  <2>1. UNCHANGED <<pushed, handled, wpc>>
    BY DEF BeginCall, Submit, Flush, SetHandler, Start, Stop, Destroy, ClearStarted
  <2>2. \A w \in Workers : Completed(w)' = Completed(w)
    BY <2>1 DEF Completed
  <2> QED
    BY <2>1, <2>2 DEF CompletedAt
<1>2. pc[c] = "idle"
  BY DEF BeginCall, Submit, Flush, SetHandler, Start, Stop, Destroy, CanCall
<1>3. ASSUME \A d \in Callers \ {c} : pc'[d] = pc[d],
             pc'[c] \notin {"stopFlag", "stopNotify", "join"}
      PROVE  Closing' <=> Closing
  BY <1>2, <1>3 DEF Closing
<1>4. CASE (\E p \in Packets : Submit(c, p)) \/ Flush(c) \/ SetHandler(c)
  <2>1. started' = started
    BY <1>4 DEF Submit, Flush, SetHandler
  <2>2. /\ \A d \in Callers \ {c} : pc'[d] = pc[d]
        /\ pc'[c] \notin {"stopFlag", "stopNotify", "join"}
    BY <1>2, <1>4 DEF Submit, Flush, SetHandler, Goto, TypeOK
  <2> QED
    BY <1>1, <1>3, <2>1, <2>2 DEF Unseen, IsOpen
<1>5. CASE Start(c)
  <2>1. /\ \A d \in Callers \ {c} : pc'[d] = pc[d]
        /\ pc'[c] \notin {"stopFlag", "stopNotify", "join"}
    BY <1>2, <1>5 DEF Start, Goto, TypeOK
  <2>2. started'
    BY <1>5 DEF Start
  <2>3. c = o
    BY <1>5 DEF Start, CanCall, OwnedBy
  <2>4. ~Closing
    BY <1>2, <2>3 DEF Closing, Controlled, Controlling, StopLabels
  <2>5. CASE started
    BY <1>1, <2>2, <2>5 DEF Unseen, IsOpen
  <2>6. CASE ~started
    BY <1>1, <2>2, <2>4, <2>6 DEF Service!Open, IsOpen, Closing, CompletedAt
  <2> QED
    BY <2>5, <2>6
<1>6. CASE Stop(c) \/ Destroy(c)
  <2>1. ClearStarted(c)
    BY <1>6 DEF Stop, Destroy
  <2>2. CASE started
    <3>1. pc'[c] = "stopFlag"
      BY <2>1, <2>2 DEF ClearStarted, Goto, TypeOK
    <3> QED
      BY <1>1, <2>2, <3>1 DEF Unseen, IsOpen, Closing
  <2>3. CASE ~started
    <3>1. AfterStop(c) \notin {"stopFlag", "stopNotify", "join"}
      BY DEF AfterStop
    <3>2. ~started'
      BY <2>1 DEF ClearStarted
    <3>3. /\ \A d \in Callers \ {c} : pc'[d] = pc[d]
          /\ pc'[c] \notin {"stopFlag", "stopNotify", "join"}
      BY <2>1, <2>3, <3>1 DEF ClearStarted, Goto, TypeOK
    <3> QED
      BY <1>1, <1>3, <2>3, <3>2, <3>3 DEF Unseen, IsOpen
  <2> QED
    BY <2>2, <2>3
<1> QED
  BY <1>4, <1>5, <1>6 DEF BeginCall

\* A push is the acceptance of a new packet by an open service.
LEMMA PushServes ==
    ASSUME TypeOK, ThreadOwned, PacketsOnce, Quiet, [Next]_vars, NEW c \in Callers, Push(c)
    PROVE  Service!Accept(target[c], held[c])
<1> USE DEF control, counters, threads, calls, history
<1>1. pc[c] = "push" /\ Holding(c)
  BY DEF Push, At, Holding
<1>2. started /\ started' = started
  BY <1>1 DEF Push, Quiet, NoSubmitInProgress, SubmitLabels
<1>3. CompletedAt' = CompletedAt
  <2>1. UNCHANGED <<handled, wpc>>
    BY DEF Push
  <2>2. \A w \in Workers : Completed(w)' = Completed(w)
    BY <2>1 DEF Completed
  <2> QED
    BY <2>2 DEF CompletedAt
<1>4. \A v \in Workers : \A i \in 1..Len(pushed[v]) : pushed[v][i] # held[c]
  <2>1. \A v \in Workers : DOMAIN pushed[v] = 1..Len(pushed[v])
    BY LenProperties DEF TypeOK
  <2> QED
    BY <1>1, <2>1 DEF PacketsOnce
<1> QED
  BY <1>2, <1>3, <1>4 DEF Push, Service!Accept, CompletedAt

\* The owner's last join closes a service that has completed all it accepted.
LEMMA JoinServes ==
    ASSUME TypeOK, ThreadOwned, FifoConservation, Quiet, NEW o, OwnedBy(o),
           Controlled(o), Controlled(o)', ThreadOwned', [Next]_vars, Join(o)
    PROVE  Unseen \/ Service!Close
<1>0. o \in Callers
  BY DEF OwnedBy, Callers
<1> USE DEF control, counters, threads, calls, history
<1>1. pc[o] = "join" /\ ~started /\ started' = started /\ pushed' = pushed
  BY DEF Join, At, Controlled, Stage
<1>2. CompletedAt' = CompletedAt
  <2>1. handled' = handled
    BY DEF Join
  <2>2. \A w \in Workers : (wpc'[w] \in {"callback", "count"}) <=> (wpc[w] \in {"callback", "count"})
    BY DEF Join, TypeOK
  <2>3. \A w \in Workers : Completed(w)' = Completed(w)
    BY <2>1, <2>2 DEF Completed
  <2> QED
    BY <2>3 DEF CompletedAt
<1>3. IsOpen
  BY <1>0, <1>1 DEF IsOpen, Closing
<1>4. CASE pc'[o] = "join"
  BY <1>0, <1>1, <1>2, <1>3, <1>4 DEF Unseen, IsOpen, Closing
<1>5. CASE pc'[o] # "join"
  <2>1. pc'[o] \in {"destruct", "idle"} /\ \A d \in Callers \ {o} : pc'[d] = pc[d]
    BY <1>0, <1>1, <1>5 DEF Join, NextWorker, AfterStop, Goto, TypeOK
  <2>2. ~IsOpen'
    BY <1>1, <2>1 DEF IsOpen, Closing, Controlled, Controlling, StopLabels
  <2>3. ASSUME NEW w \in Workers
        PROVE  CompletedAt[w] = Len(pushed[w])
    <3>1. ~joinable'[w]
      BY <1>1, <2>1 DEF Controlled, Stage, Controlling, StartLabels, StopLabels
    <3>2. wpc'[w] = "none"
      BY <3>1 DEF ThreadOwned
    <3>3. wpc[w] \in {"none", "exited"}
      BY <1>0, <3>2, CallerLeaves DEF CallStep
    <3>4. queue[w] = <<>>
      BY <1>1, <3>3 DEF Quiet
    <3>5. Len(pushed[w]) = Len(handled[w]) /\ Len(handled[w]) \in Nat
      BY <3>3, <3>4, ExitedEmpty, LenProperties DEF TypeOK
    <3>6. Completed(w) = Len(handled[w])
      <4>1. wpc[w] \notin {"callback", "count"}
        BY <3>3
      <4> QED
        BY <3>5, <4>1 DEF Completed
    <3> QED
      BY <3>5, <3>6 DEF CompletedAt
  <2> QED
    BY <1>1, <1>2, <1>3, <2>2, <2>3 DEF Service!Close, IsOpen, Closing, CompletedAt
<1> QED
  BY <1>4, <1>5

\* Every other step of a call is invisible.
LEMMA CallServes ==
    ASSUME TypeOK, ThreadOwned, NEW o, OwnedBy(o), Controlled(o), [Next]_vars,
           NEW c \in Callers, CallStep(c), ~Push(c), ~Join(c)
    PROVE  Unseen
<1> USE DEF control, counters, threads, calls, history
<1>1. started' = started /\ pushed' = pushed /\ handled' = handled
  <2>1. CASE Dispatch(c) \/ Notify(c) \/ FlushPass(c) \/ StartFlag(c)
    BY <2>1 DEF Dispatch, Notify, FlushPass, StartFlag
  <2>2. CASE Spawn(c)
    BY <2>2 DEF Spawn
  <2>3. CASE StopFlag(c) \/ StopNotify(c)
    BY <2>3 DEF StopFlag, StopNotify
  <2>4. CASE Destruct(c)
    BY <2>4 DEF Destruct
  <2> QED
    BY <2>1, <2>2, <2>3, <2>4 DEF CallStep
<1>2. CompletedAt' = CompletedAt
  <2>1. \A w \in Workers : (wpc'[w] \in {"callback", "count"}) <=> (wpc[w] \in {"callback", "count"})
    <3>1. CASE Dispatch(c) \/ FlushPass(c) \/ StartFlag(c) \/ StopFlag(c) \/ Destruct(c)
      BY <3>1 DEF Dispatch, FlushPass, StartFlag, StopFlag, Destruct
    <3>2. CASE Notify(c) \/ StopNotify(c)
      BY <3>2 DEF Notify, StopNotify, Wake, TypeOK
    <3>3. CASE Spawn(c)
      BY <3>3 DEF Spawn, TypeOK, ThreadOwned
    <3> QED
      BY <3>1, <3>2, <3>3 DEF CallStep
  <2>2. \A w \in Workers : Completed(w)' = Completed(w)
    BY <1>1, <2>1 DEF Completed
  <2> QED
    BY <2>2 DEF CompletedAt
<1>3. Closing' <=> Closing
  <2>1. CASE Dispatch(c) \/ Notify(c) \/ FlushPass(c) \/ StartFlag(c) \/ Spawn(c) \/ Destruct(c)
    <3>1. /\ pc[c] \notin {"stopFlag", "stopNotify", "join"}
          /\ pc'[c] \notin {"stopFlag", "stopNotify", "join"}
          /\ \A d \in Callers \ {c} : pc'[d] = pc[d]
      BY <2>1 DEF Dispatch, Notify, FlushPass, StartFlag, Spawn, Destruct, NextWorker,
                  At, Goto, TypeOK
    <3> QED
      BY <3>1 DEF Closing
  <2>2. CASE StopFlag(c) \/ StopNotify(c)
    <3>1. /\ pc[c] \in {"stopFlag", "stopNotify", "join"}
          /\ pc'[c] \in {"stopFlag", "stopNotify", "join"}
      BY <2>2 DEF StopFlag, StopNotify, At, Goto, TypeOK
    <3> QED
      BY <3>1 DEF Closing
  <2> QED
    BY <2>1, <2>2 DEF CallStep
<1> QED
  BY <1>1, <1>2, <1>3 DEF Unseen, IsOpen

\* Whatever the processor does is a step of the service, or none.
LEMMA ServesNext ==
    ASSUME NEW o, OwnedBy(o), TypeOK, ThreadOwned, ThreadOwned', FifoConservation, PacketsOnce,
           LastDecoded, Controlled(o), Controlled(o)', Quiet, [Next]_vars
    PROVE  Unseen \/ Service!Next
<1>1. ASSUME NEW c \in Callers, BeginCall(c)
      PROVE  Unseen \/ Service!Next
  BY <1>1, BeginServes DEF Service!Next
<1>2. ASSUME NEW c \in Callers, CallStep(c)
      PROVE  Unseen \/ Service!Next
  <2>1. CASE Push(c)
    <3>1. target[c] \in Workers /\ held[c] \in Packets
      BY <2>1 DEF Push, At, TypeOK
    <3> QED
      BY <2>1, <3>1, PushServes DEF Service!Next
  <2>2. CASE Join(c)
    <3>1. c = o
      BY <2>2 DEF Join, At, Controlled, Controlling, StopLabels
    <3> QED
      BY <2>2, <3>1, JoinServes DEF Service!Next
  <2>3. CASE ~Push(c) /\ ~Join(c)
    BY <1>2, <2>3, CallServes
  <2> QED
    BY <2>1, <2>2, <2>3
<1>3. ASSUME NEW w \in Workers, WorkerStep(w) \/ SpuriousWakeup(w)
      PROVE  Unseen \/ Service!Next
  BY <1>3, WorkerServes DEF Service!Next
<1>4. CASE UNCHANGED vars
  BY <1>4 DEF vars, Unseen, IsOpen, Closing, CompletedAt, Completed, control, threads, calls, history
<1> QED
  BY <1>1, <1>2, <1>3, <1>4 DEF Next, Ended

\* If one thread owns the processor and stops it only between submits, the processor
\* implements the safety of the dispatch service: each packet is accepted once and
\* only while the service is open, completed in its worker's order, and the service
\* closes only when everything it accepted is completed.
THEOREM ServiceImplemented == ASSUME SingleOwner, Disciplined PROVE Spec => Service!Safety
<1> PICK o : OwnedBy(o)
  BY DEF SingleOwner
<1> DEFINE Inv == /\ TypeOK /\ ThreadOwned /\ FifoConservation /\ PacketsOnce /\ LastDecoded
                  /\ Controlled(o) /\ ExitedStopped /\ Quiet
<1>1. Init => Inv
  <2>1. Init => ThreadOwned /\ LastDecoded /\ PacketsOnce
    <3>1. Init => \A w \in Workers : DOMAIN pushed[w] = {}
      BY DEF Init
    <3> QED
      BY <3>1 DEF Init, ThreadOwned, LastDecoded, Processing, PacketsOnce, Holding
  <2>2. Init => ExitedStopped /\ Quiet
    BY DEF Init, ExitedStopped, Quiet, NoSubmitInProgress, SubmitLabels
  <2> QED
    BY <2>1, <2>2, TypeInit, FifoInit, ControlledInit
<1>2. Inv /\ [Next]_vars => Inv'
  BY TypeNext, ThreadOwnedNext, FifoNext, OnceNext, LastDecodedNext, ControlledNext,
     ExitedStoppedNext, QuietNext
<1>3. Init => Service!Init
  BY DEF Init, Service!Init, Completed
<1>4. Inv /\ Inv' /\ [Next]_vars => [Service!Next]_(Service!vars)
  <2> SUFFICES ASSUME Inv, Inv', [Next]_vars
               PROVE  Service!Next \/ UNCHANGED Service!vars
    OBVIOUS
  <2>1. Unseen => UNCHANGED Service!vars
    BY DEF Unseen, IsOpen, Closing, CompletedAt, Service!vars
  <2> QED
    BY <2>1, ServesNext
<1> QED
  BY <1>1, <1>2, <1>3, <1>4, PTL DEF Spec, Service!Safety
=============================================================================
