------------------------ MODULE PacketProcessorProofs ------------------------
(***************************************************************************)
(* What holds of the packet processor for any number of workers, clients   *)
(* and packets, whoever may call what and whenever: types, order, wakeups, *)
(* flush and the counters.                                                 *)
(***************************************************************************)
EXTENDS PacketProcessor, TLAPS, FiniteSetTheorems, SequenceTheorems

-----------------------------------------------------------------------------
(* The workers.                                                            *)

\* The workers are numbered from 1 and there is at least one.
LEMMA WorkersAreCounted ==
    /\ Cardinality(Workers) \in Nat \ {0}
    /\ Workers = 1..Cardinality(Workers)
    /\ Workers \subseteq Nat
<1> DEFINE N == IF NumThreads = 0 THEN 1 ELSE NumThreads
<1>1. N \in Nat \ {0}
  BY ProcessorAssumption
<1>2. Workers = 1..N
  BY DEF Workers
<1>3. Cardinality(1..N) = N
  <2> HIDE DEF N
  <2>1. Cardinality(1..N) = IF 1 > N THEN 0 ELSE N - 1 + 1
    BY <1>1, FS_Interval
  <2> QED
    BY <2>1, <1>1
<1> QED
  BY <1>1, <1>2, <1>3

\* A loop over the workers begins at a worker.
LEMMA FirstWorker == 1 \in Workers
BY WorkersAreCounted

\* An index taken modulo the number of workers is the index of a worker.
LEMMA RemainderIsWorker ==
    ASSUME NEW n \in Nat
    PROVE  (n % Cardinality(Workers)) + 1 \in Workers
<1> DEFINE N == Cardinality(Workers)
<1>1. N \in Nat \ {0} /\ Workers = 1..N
  BY WorkersAreCounted
<1> HIDE DEF N
<1>2. n % N \in 0..(N - 1)
  BY <1>1
<1> QED
  BY <1>1, <1>2 DEF N

-----------------------------------------------------------------------------
(* Types.                                                                  *)

\* Every variable has its type initially.
LEMMA TypeInit == Init => TypeOK
<1> SUFFICES ASSUME Init
             PROVE  TypeOK
  OBVIOUS
<1>1. /\ target \in [Callers -> Workers]
      /\ pc \in [Callers -> CallerLabels]
      /\ wpc \in [Workers -> WorkerLabels]
      /\ snap \in [Callers -> [Workers -> Nat]]
  BY FirstWorker DEF Init, CallerLabels, WorkerLabels
<1>2. /\ queue \in [Workers -> Seq(Packets)]
      /\ pushed \in [Workers -> Seq(Packets)]
      /\ handled \in [Workers -> Seq(Packets)]
  BY DEF Init
<1>3. /\ \A c \in Callers : pc[c] \in {"dispatch", "push"} => held[c] \in Packets
      /\ \A w \in Workers : wpc[w] = "decode" => item[w] \in Packets
  BY DEF Init
<1> QED
  BY <1>1, <1>2, <1>3 DEF Init, TypeOK

\* A loop over the workers stays within them and enters no submit.
LEMMA NextWorkerType ==
    ASSUME TypeOK, NEW c \in Callers, NEW body, NEW after,
           {body, after} \subseteq CallerLabels \ {"dispatch", "push"},
           NextWorker(c, body, after)
    PROVE  /\ pc' \in [Callers -> CallerLabels]
           /\ target' \in [Callers -> Workers]
           /\ \A d \in Callers : pc'[d] \in {"dispatch", "push"} => pc[d] = pc'[d]
BY DEF TypeOK, NextWorker, Goto

\* A loop that starts or joins the workers moves its caller to the next worker, back to
\* the program or to the end of the destructor, and nobody else.
LEMMA ThreadLoopMoves ==
    ASSUME TypeOK, NEW c \in Callers, Spawn(c) \/ Join(c)
    PROVE  \A d \in Callers :
              \/ pc'[d] = pc[d]
              \/ d = c /\ Spawn(c) /\ pc'[d] \in {"startFlag", "idle"}
              \/ d = c /\ Join(c) /\ pc'[d] \in {"join", "destruct", "idle"}
<1>1. AfterStop(c) \in {"destruct", "idle"}
  BY DEF AfterStop
<1>2. CASE \/ Spawn(c) /\ NextWorker(c, "startFlag", "idle")
           \/ Join(c) /\ NextWorker(c, "join", AfterStop(c))
  BY <1>1, <1>2 DEF NextWorker, Goto, TypeOK
<1>3. \/ pc' = pc
      \/ Spawn(c) /\ NextWorker(c, "startFlag", "idle")
      \/ Join(c) /\ NextWorker(c, "join", AfterStop(c))
  BY DEF Spawn, Join
<1> QED
  BY <1>2, <1>3

\* Clearing `started` moves the caller on to the rest of stop(), or back.
LEMMA ClearStartedType ==
    ASSUME TypeOK, NEW c \in Callers, ClearStarted(c)
    PROVE  /\ pc' \in [Callers -> CallerLabels]
           /\ target' \in [Callers -> Workers]
           /\ snap' \in [Callers -> [Workers -> Nat]]
           /\ overtaken' \subseteq Packets
           /\ \A d \in Callers : pc'[d] \in {"dispatch", "push"} => pc[d] = pc'[d]
<1>1. AfterStop(c) \in {"destruct", "idle"}
  BY DEF AfterStop
<1>2. Uncommitted \subseteq Packets
  BY DEF TypeOK, Uncommitted
<1>3. [w \in Workers |-> Len(pushed[w])] \in [Workers -> Nat]
  BY DEF TypeOK
<1>4. pc' = [pc EXCEPT ![c] = pc'[c]] /\ pc'[c] \in {"stopFlag", "destruct", "idle"}
  BY <1>1 DEF ClearStarted, Goto, TypeOK
<1>5. /\ pc' \in [Callers -> CallerLabels]
      /\ \A d \in Callers : pc'[d] \in {"dispatch", "push"} => pc[d] = pc'[d]
  BY <1>4 DEF TypeOK, CallerLabels, StopLabels
<1>6. target' \in [Callers -> Workers]
  BY FirstWorker DEF ClearStarted, TypeOK
<1>7. snap' \in [Callers -> [Workers -> Nat]]
  BY <1>3 DEF ClearStarted, Snapshot, TypeOK
<1>8. overtaken' \subseteq Packets
  BY <1>2 DEF ClearStarted, TypeOK
<1> QED
  BY <1>5, <1>6, <1>7, <1>8

\* Every step of the processor keeps every type.
LEMMA TypeNext == TypeOK /\ [Next]_vars => TypeOK'
<1> SUFFICES ASSUME TypeOK, [Next]_vars
             PROVE  TypeOK'
  OBVIOUS
<1> USE DEF TypeOK, control, counters, threads, calls, history,
            CallerLabels, SubmitLabels, StartLabels, StopLabels, WorkerLabels
<1>1. ASSUME NEW c \in Callers, NEW p \in Packets, Submit(c, p)
      PROVE  TypeOK'
  BY <1>1 DEF Submit, CanCall, Goto
<1>2. ASSUME NEW c \in Callers, Flush(c)
      PROVE  TypeOK'
  BY <1>2, FirstWorker DEF Flush, CanCall, Goto, Snapshot
<1>3. ASSUME NEW c \in Callers, SetHandler(c)
      PROVE  TypeOK'
  BY <1>3 DEF SetHandler
<1>4. ASSUME NEW c \in Callers, Start(c)
      PROVE  TypeOK'
  BY <1>4, FirstWorker DEF Start, Goto
<1>5. ASSUME NEW c \in Callers, Stop(c)
      PROVE  TypeOK'
  <2>1. ClearStarted(c) /\ life' = life
    BY <1>5 DEF Stop
  <2> QED
    BY <2>1, ClearStartedType DEF ClearStarted
<1>6. ASSUME NEW c \in Callers, Destroy(c)
      PROVE  TypeOK'
  <2>1. ClearStarted(c) /\ life' = "dying"
    BY <1>6 DEF Destroy
  <2> QED
    BY <2>1, ClearStartedType DEF ClearStarted
<1>7. ASSUME NEW c \in Callers, Dispatch(c)
      PROVE  TypeOK'
  <2>1. RoundRobinWorker \in Workers
    BY RemainderIsWorker DEF RoundRobinWorker
  <2>2. ~RoundRobin => PinnedWorker(held[c]) \in Workers
    BY <1>7, RemainderIsWorker, ProcessorAssumption DEF Dispatch, At, PinnedWorker
  <2> QED
    BY <1>7, <2>1, <2>2 DEF Dispatch, At, Goto
<1>8. ASSUME NEW c \in Callers, Push(c)
      PROVE  TypeOK'
  BY <1>8 DEF Push, At, Goto
<1>9. ASSUME NEW c \in Callers, Notify(c)
      PROVE  TypeOK'
  BY <1>9 DEF Notify, At, Goto, Wake
<1>10. ASSUME NEW c \in Callers, FlushPass(c)
       PROVE  TypeOK'
  <2>1. NextWorker(c, "flush", "idle")
    BY <1>10 DEF FlushPass
  <2> QED
    BY <1>10, <2>1, NextWorkerType DEF FlushPass
<1>11. ASSUME NEW c \in Callers, StartFlag(c)
       PROVE  TypeOK'
  BY <1>11 DEF StartFlag, At, Goto
<1>12. ASSUME NEW c \in Callers, Spawn(c)
       PROVE  TypeOK'
  <2>1. CASE joinable[target[c]]
    BY <1>12, <2>1 DEF Spawn
  <2>2. CASE ~joinable[target[c]]
    <3>1. NextWorker(c, "startFlag", "idle")
      BY <1>12, <2>2 DEF Spawn
    <3> QED
      BY <1>12, <2>2, <3>1, NextWorkerType DEF Spawn
  <2> QED
    BY <2>1, <2>2
<1>13. ASSUME NEW c \in Callers, StopFlag(c)
       PROVE  TypeOK'
  BY <1>13 DEF StopFlag, At, Goto
<1>14. ASSUME NEW c \in Callers, StopNotify(c)
       PROVE  TypeOK'
  <2>1. /\ wpc' \in [Workers -> WorkerLabels]
        /\ \A w \in Workers : wpc'[w] = "decode" => wpc[w] = "decode"
    BY <1>14 DEF StopNotify, Wake
  <2>2. /\ pc' \in [Callers -> CallerLabels]
        /\ target' \in [Callers -> Workers]
        /\ \A d \in Callers : pc'[d] \in {"dispatch", "push"} => pc[d] = pc'[d]
    BY <1>14, FirstWorker DEF StopNotify, At, Goto
  <2> QED
    BY <1>14, <2>1, <2>2 DEF StopNotify
<1>15. ASSUME NEW c \in Callers, Join(c)
       PROVE  TypeOK'
  <2>1. CASE joinable[target[c]] /\ c = target[c]
    BY <1>15, <2>1 DEF Join
  <2>2. CASE ~(joinable[target[c]] /\ c = target[c])
    <3>1. AfterStop(c) \in {"destruct", "idle"}
      BY DEF AfterStop
    <3>2. NextWorker(c, "join", AfterStop(c))
      BY <1>15, <2>2 DEF Join
    <3>3. /\ pc' \in [Callers -> CallerLabels]
          /\ target' \in [Callers -> Workers]
          /\ \A d \in Callers : pc'[d] \in {"dispatch", "push"} => pc[d] = pc'[d]
      BY <3>1, <3>2, NextWorkerType
    <3>4. /\ joinable' \in [Workers -> BOOLEAN]
          /\ wpc' \in [Workers -> WorkerLabels]
          /\ \A w \in Workers : wpc'[w] = "decode" => wpc[w] = "decode"
      BY <1>15, <2>2 DEF Join
    <3>5. UNCHANGED <<life, fault, started, handler, rr, counters, running, seen, item, queue,
                      held, snap, history>>
      BY <1>15, <2>2 DEF Join
    <3> QED
      BY <3>3, <3>4, <3>5
  <2> QED
    BY <2>1, <2>2
<1>16. ASSUME NEW c \in Callers, Destruct(c)
       PROVE  TypeOK'
  BY <1>16 DEF Destruct, At, Goto
<1>17. ASSUME NEW w \in Workers,
              WorkerWait(w) \/ SpuriousWakeup(w) \/ WorkerExit(w) \/ WorkerReturn(w)
       PROVE  TypeOK'
  <2>1. UNCHANGED <<control, counters, running, joinable, seen, item, queue, calls, history>>
    BY <1>17 DEF WorkerWait, SpuriousWakeup, WorkerExit, WorkerReturn
  <2>2. PICK l \in WorkerLabels \ {"decode"} : MoveWorker(w, l)
    BY <1>17 DEF WorkerWait, SpuriousWakeup, WorkerExit, WorkerReturn
  <2>3. /\ wpc' \in [Workers -> WorkerLabels]
        /\ \A v \in Workers : wpc'[v] = "decode" => wpc[v] = "decode"
    BY <2>2 DEF MoveWorker
  <2> QED
    BY <2>1, <2>3
<1>18. ASSUME NEW w \in Workers, WorkerPop(w)
       PROVE  TypeOK'
  BY <1>18 DEF WorkerPop, MoveWorker
<1>19. ASSUME NEW w \in Workers, WorkerDecode(w)
       PROVE  TypeOK'
  BY <1>19 DEF WorkerDecode, WorkerAt, MoveWorker
<1>20. ASSUME NEW w \in Workers, WorkerCount(w)
       PROVE  TypeOK'
  BY <1>20 DEF WorkerCount, MoveWorker
<1>21. CASE UNCHANGED vars
  BY <1>21 DEF vars
<1> QED
  BY <1>1, <1>2, <1>3, <1>4, <1>5, <1>6, <1>7, <1>8, <1>9, <1>10, <1>11, <1>12,
     <1>13, <1>14, <1>15, <1>16, <1>17, <1>18, <1>19, <1>20, <1>21
     DEF Next, BeginCall, CallStep, WorkerStep, Ended

\* Every variable of the processor keeps its type; in particular a worker index
\* is always that of a worker, and what is enqueued is a packet.
THEOREM TypeCorrect == Spec => []TypeOK
BY TypeInit, TypeNext, PTL DEF Spec

-----------------------------------------------------------------------------
(* A worker has a place in workerLoop exactly while its std::thread object  *)
(* owns a thread.                                                          *)

ThreadOwned == \A w \in Workers : wpc[w] # "none" <=> joinable[w]

\* A step of a worker's thread moves that thread and nobody else's.
LEMMA WorkerStepMoves ==
    ASSUME NEW w \in Workers, WorkerStep(w) \/ SpuriousWakeup(w)
    PROVE  \E l \in WorkerLabels \ {"none"} :
              joinable' = joinable /\ wpc[w] # "none" /\ wpc' = [wpc EXCEPT ![w] = l]
<1> USE DEF MoveWorker, WorkerLabels, WorkerAt
<1>1. CASE WorkerWait(w)
  BY <1>1 DEF WorkerWait
<1>2. CASE SpuriousWakeup(w)
  BY <1>2 DEF SpuriousWakeup
<1>3. CASE WorkerExit(w)
  BY <1>3 DEF WorkerExit
<1>4. CASE WorkerPop(w)
  BY <1>4 DEF WorkerPop
<1>5. CASE WorkerDecode(w)
  BY <1>5 DEF WorkerDecode
<1>6. CASE WorkerReturn(w)
  BY <1>6 DEF WorkerReturn
<1>7. CASE WorkerCount(w)
  BY <1>7 DEF WorkerCount
<1> QED
  BY <1>1, <1>2, <1>3, <1>4, <1>5, <1>6, <1>7 DEF WorkerStep

\* The only steps that give a worker a thread, or take it away, are start()'s
\* and stop()'s; every other one moves an existing thread.
LEMMA ThreadOwnedNext == TypeOK /\ ThreadOwned /\ [Next]_vars => ThreadOwned'
<1> SUFFICES ASSUME TypeOK, ThreadOwned, [Next]_vars
             PROVE  ThreadOwned'
  OBVIOUS
<1> USE DEF TypeOK, ThreadOwned, WorkerLabels, control, counters, threads, calls, history
<1>1. ASSUME UNCHANGED <<wpc, joinable>>
      PROVE  ThreadOwned'
  BY <1>1
<1>2. ASSUME NEW c \in Callers, BeginCall(c)
      PROVE  ThreadOwned'
  BY <1>1, <1>2
     DEF BeginCall, Submit, Flush, SetHandler, Start, Stop, Destroy, ClearStarted
<1>3. ASSUME NEW c \in Callers, Dispatch(c) \/ Push(c) \/ FlushPass(c) \/ StartFlag(c)
                                \/ StopFlag(c) \/ Destruct(c)
      PROVE  ThreadOwned'
  BY <1>1, <1>3 DEF Dispatch, Push, FlushPass, StartFlag, StopFlag, Destruct
<1>4. ASSUME NEW c \in Callers, Notify(c) \/ StopNotify(c)
      PROVE  ThreadOwned'
  <2>1. joinable' = joinable /\ Wake(target[c])
    BY <1>4 DEF Notify, StopNotify
  <2>2. \A w \in Workers : wpc'[w] = "none" <=> wpc[w] = "none"
    BY <2>1 DEF Wake
  <2> QED
    BY <2>1, <2>2
<1>5. ASSUME NEW c \in Callers, Spawn(c)
      PROVE  ThreadOwned'
  <2>1. CASE UNCHANGED <<wpc, joinable>>
    BY <1>1, <2>1
  <2>2. CASE /\ joinable' = [joinable EXCEPT ![target[c]] = TRUE]
             /\ wpc' = [wpc EXCEPT ![target[c]] = "lock"]
    BY <2>2
  <2> QED
    BY <1>5, <2>1, <2>2 DEF Spawn
<1>6. ASSUME NEW c \in Callers, Join(c)
      PROVE  ThreadOwned'
  <2>1. CASE UNCHANGED <<wpc, joinable>>
    BY <1>1, <2>1
  <2>2. CASE /\ joinable' = [joinable EXCEPT ![target[c]] = FALSE]
             /\ wpc' = [wpc EXCEPT ![target[c]] = IF joinable[target[c]] THEN "none" ELSE @]
    <3>1. target[c] \in Workers
      OBVIOUS
    <3>2. wpc'[target[c]] = "none"
      BY <2>2, <3>1
    <3> QED
      BY <2>2, <3>1, <3>2
  <2> QED
    BY <1>6, <2>1, <2>2 DEF Join
<1>7. ASSUME NEW w \in Workers, WorkerStep(w) \/ SpuriousWakeup(w)
      PROVE  ThreadOwned'
  <2>1. PICK l \in WorkerLabels \ {"none"} :
           joinable' = joinable /\ wpc[w] # "none" /\ wpc' = [wpc EXCEPT ![w] = l]
    BY <1>7, WorkerStepMoves
  <2> QED
    BY <2>1
<1>8. CASE UNCHANGED vars
  BY <1>1, <1>8 DEF vars
<1> QED
  BY <1>2, <1>3, <1>4, <1>5, <1>6, <1>7, <1>8 DEF Next, CallStep, Ended

-----------------------------------------------------------------------------
(* Conservation and order of the packets of each worker.                   *)

\* Appending to the end of a concatenation.
LEMMA AppendToConcat ==
    ASSUME NEW S, NEW s \in Seq(S), NEW t \in Seq(S), NEW e \in S
    PROVE  s \o Append(t, e) = Append(s \o t, e)
<1>1. Append(t, e) = t \o <<e>> /\ Append(s \o t, e) = (s \o t) \o <<e>>
  BY ConcatProperties, AppendIsConcat
<1>2. <<e>> \in Seq(S)
  OBVIOUS
<1> QED
  BY <1>1, <1>2, ConcatAssociative

\* Moving the first element of a sequence to the end of the one before it.
LEMMA HeadToTheLeft ==
    ASSUME NEW S, NEW s \in Seq(S), NEW t \in Seq(S), t # <<>>
    PROVE  (s \o <<Head(t)>>) \o Tail(t) = s \o t
<1>1. <<Head(t)>> \in Seq(S) /\ Tail(t) \in Seq(S)
  BY HeadTailProperties
<1>2. <<Head(t)>> \o Tail(t) = t
  <2>1. Len(<<Head(t)>> \o Tail(t)) = Len(t)
    BY <1>1, ConcatProperties, HeadTailProperties, EmptySeq
  <2>2. \A i \in 1..Len(t) : (<<Head(t)>> \o Tail(t))[i] = t[i]
    BY <1>1, ConcatProperties, HeadTailProperties, EmptySeq
  <2>3. <<Head(t)>> \o Tail(t) \in Seq(S)
    BY <1>1, ConcatProperties
  <2> QED
    BY <2>1, <2>2, <2>3, SeqEqual
<1> QED
  BY <1>1, <1>2, ConcatAssociative

\* Nothing is enqueued initially.
LEMMA FifoInit == Init => FifoConservation
BY ConcatEmptySeq DEF Init, FifoConservation, InFlight

\* A step preserves the order if it leaves the queues and the histories alone and
\* neither makes a worker decode nor stops it from decoding.
LEMMA FifoFrame ==
    ASSUME FifoConservation, UNCHANGED <<queue, pushed, handled, item>>,
           \A w \in Workers : wpc'[w] = "decode" <=> wpc[w] = "decode"
    PROVE  FifoConservation'
BY DEF FifoConservation, InFlight

\* Only a push, a pop and a decode touch the sequences of a worker, and each keeps
\* every packet in its place.
LEMMA FifoNext == TypeOK /\ ThreadOwned /\ FifoConservation /\ [Next]_vars => FifoConservation'
<1> SUFFICES ASSUME TypeOK, ThreadOwned, FifoConservation, [Next]_vars
             PROVE  FifoConservation'
  OBVIOUS
<1> USE DEF control, counters, threads, calls, history
<1>1. ASSUME NEW c \in Callers, BeginCall(c)
      PROVE  FifoConservation'
  BY <1>1, FifoFrame
     DEF BeginCall, Submit, Flush, SetHandler, Start, Stop, Destroy, ClearStarted
<1>2. ASSUME NEW c \in Callers, Dispatch(c) \/ FlushPass(c) \/ StartFlag(c)
                                \/ StopFlag(c) \/ Destruct(c)
      PROVE  FifoConservation'
  BY <1>2, FifoFrame DEF Dispatch, FlushPass, StartFlag, StopFlag, Destruct
<1>3. ASSUME NEW c \in Callers, Notify(c) \/ StopNotify(c)
      PROVE  FifoConservation'
  <2>1. UNCHANGED <<queue, pushed, handled, item>> /\ Wake(target[c])
    BY <1>3 DEF Notify, StopNotify
  <2>2. \A w \in Workers : wpc'[w] = "decode" <=> wpc[w] = "decode"
    BY <2>1 DEF Wake, TypeOK
  <2> QED
    BY <2>1, <2>2, FifoFrame
<1>4. ASSUME NEW c \in Callers, Spawn(c)
      PROVE  FifoConservation'
  <2>1. UNCHANGED <<queue, pushed, handled, item>>
    BY <1>4 DEF Spawn
  <2>2. \A w \in Workers : wpc'[w] = "decode" <=> wpc[w] = "decode"
    BY <1>4 DEF Spawn, TypeOK, ThreadOwned
  <2> QED
    BY <2>1, <2>2, FifoFrame
<1>5. ASSUME NEW c \in Callers, Join(c)
      PROVE  FifoConservation'
  <2>1. UNCHANGED <<queue, pushed, handled, item>>
    BY <1>5 DEF Join
  <2>2. \A w \in Workers : wpc'[w] = "decode" <=> wpc[w] = "decode"
    BY <1>5 DEF Join, TypeOK
  <2> QED
    BY <2>1, <2>2, FifoFrame
<1>6. ASSUME NEW c \in Callers, Push(c)
      PROVE  FifoConservation'
  <2> DEFINE t == target[c]
  <2>1. t \in Workers /\ held[c] \in Packets
    BY <1>6 DEF Push, At, TypeOK
  <2>2. handled[t] \o InFlight(t) \in Seq(Packets)
    BY <2>1, ConcatProperties, EmptySeq DEF TypeOK, InFlight
  <2>3. /\ pushed' = [pushed EXCEPT ![t] = Append(@, held[c])]
        /\ queue' = [queue EXCEPT ![t] = Append(@, held[c])]
        /\ UNCHANGED <<handled, wpc, item>>
    BY <1>6 DEF Push
  <2>4. pushed'[t] = (handled[t] \o InFlight(t)) \o queue'[t]
    <3>1. pushed'[t] = Append(pushed[t], held[c]) /\ queue'[t] = Append(queue[t], held[c])
      BY <2>1, <2>3 DEF TypeOK
    <3>2. queue[t] \in Seq(Packets) /\ pushed[t] = (handled[t] \o InFlight(t)) \o queue[t]
      BY <2>1 DEF TypeOK, FifoConservation
    <3> DEFINE s == handled[t] \o InFlight(t)
    <3>3. s \in Seq(Packets)
      BY <2>2
    <3> HIDE DEF s
    <3>4. s \o Append(queue[t], held[c]) = Append(s \o queue[t], held[c])
      <4>1. \A q \in Seq(Packets), e \in Packets : s \o Append(q, e) = Append(s \o q, e)
        BY <3>3, AppendToConcat
      <4> QED
        BY <2>1, <3>2, <4>1
    <3>5. pushed[t] = s \o queue[t]
      BY <3>2 DEF s
    <3>6. pushed'[t] = s \o queue'[t]
      BY <3>1, <3>4, <3>5
    <3> QED
      BY <3>6 DEF s
  <2> QED
    BY <2>1, <2>3, <2>4 DEF TypeOK, FifoConservation, InFlight
<1>7. ASSUME NEW w \in Workers, WorkerPop(w)
      PROVE  FifoConservation'
  <2>1. /\ wpc[w] = "lock" /\ queue[w] # <<>>
        /\ wpc' = [wpc EXCEPT ![w] = "decode"]
        /\ item' = [item EXCEPT ![w] = Head(queue[w])]
        /\ queue' = [queue EXCEPT ![w] = Tail(@)]
        /\ UNCHANGED <<pushed, handled>>
    BY <1>7 DEF WorkerPop, WorkerAt, MoveWorker
  <2>2. handled[w] \in Seq(Packets) /\ queue[w] \in Seq(Packets)
    BY DEF TypeOK
  <2>3. pushed[w] = handled[w] \o queue[w]
    BY <2>1, <2>2, ConcatEmptySeq DEF FifoConservation, InFlight
  <2>4. pushed'[w] = (handled'[w] \o InFlight(w)') \o queue'[w]
    BY <2>1, <2>2, <2>3, HeadToTheLeft, SMTT(20) DEF TypeOK, InFlight
  <2> QED
    BY <2>1, <2>4 DEF TypeOK, FifoConservation, InFlight
<1>8. ASSUME NEW w \in Workers, WorkerDecode(w)
      PROVE  FifoConservation'
  <2>1. /\ wpc[w] = "decode" /\ wpc'[w] # "decode"
        /\ \A v \in Workers \ {w} : wpc'[v] = wpc[v]
        /\ handled' = [handled EXCEPT ![w] = Append(@, item[w])]
        /\ UNCHANGED <<pushed, queue, item>>
    BY <1>8 DEF WorkerDecode, WorkerAt, MoveWorker, TypeOK
  <2>2. handled[w] \in Seq(Packets) /\ queue[w] \in Seq(Packets) /\ item[w] \in Packets
    BY <2>1 DEF TypeOK
  <2>3. handled'[w] = handled[w] \o <<item[w]>>
    BY <2>1, <2>2, AppendIsConcat DEF TypeOK
  <2>4. handled'[w] \o InFlight(w)' = handled[w] \o InFlight(w)
    <3>1. handled'[w] \in Seq(Packets)
      BY <2>1, <2>2 DEF TypeOK
    <3> QED
      BY <2>1, <2>3, <3>1, ConcatEmptySeq DEF InFlight
  <2> QED
    BY <2>1, <2>4 DEF TypeOK, FifoConservation, InFlight
<1>9. ASSUME NEW w \in Workers, WorkerCount(w)
      PROVE  FifoConservation'
  <2>1. /\ wpc[w] # "decode" /\ wpc' = [wpc EXCEPT ![w] = "lock"]
        /\ \A v \in Workers \ {w} : item'[v] = item[v]
        /\ UNCHANGED <<pushed, queue, handled>>
    BY <1>9 DEF WorkerCount, WorkerAt, MoveWorker, TypeOK
  <2> QED
    BY <2>1 DEF TypeOK, FifoConservation, InFlight
<1>10. ASSUME NEW w \in Workers,
              WorkerWait(w) \/ SpuriousWakeup(w) \/ WorkerExit(w) \/ WorkerReturn(w)
       PROVE  FifoConservation'
  <2>1. UNCHANGED <<queue, pushed, handled, item>>
    BY <1>10 DEF WorkerWait, SpuriousWakeup, WorkerExit, WorkerReturn
  <2>2. \A v \in Workers : wpc'[v] = "decode" <=> wpc[v] = "decode"
    BY <1>10 DEF WorkerWait, SpuriousWakeup, WorkerExit, WorkerReturn,
                 WorkerAt, MoveWorker, TypeOK
  <2> QED
    BY <2>1, <2>2, FifoFrame
<1>11. CASE UNCHANGED vars
  BY <1>11, FifoFrame DEF vars
<1> QED
  BY <1>1, <1>2, <1>3, <1>4, <1>5, <1>6, <1>7, <1>8, <1>9, <1>10, <1>11
     DEF Next, CallStep, WorkerStep, Ended

\* For any callers and any interleaving of starts, stops, submits and callbacks,
\* every packet that submit() enqueued at a worker is in its queue, in its hands
\* or has been handled by it, once, in the order of the submits.
THEOREM FifoCorrect == Spec => []FifoConservation
<1>1. Init => TypeOK /\ ThreadOwned /\ FifoConservation
  <2>1. Init => ThreadOwned
    BY DEF Init, ThreadOwned
  <2> QED
    BY <2>1, TypeInit, FifoInit
<1>2. TypeOK /\ ThreadOwned /\ FifoConservation /\ [Next]_vars
        => (TypeOK /\ ThreadOwned /\ FifoConservation)'
  BY TypeNext, ThreadOwnedNext, FifoNext
<1> QED
  BY <1>1, <1>2, PTL DEF Spec

-----------------------------------------------------------------------------
(* No wakeup is lost.                                                      *)

\* Worker w sleeps although it has something to do; a caller is about to wake it.
Overslept(w) == wpc[w] = "waiting" /\ (queue[w] # <<>> \/ ~running[w])
Waker(c, w) == pc[c] \in {"notify", "stopNotify"} /\ target[c] = w

\* A step that lets no worker oversleep and takes no waker away is harmless.
LEMMA WakeupFrame ==
    ASSUME NoLostWakeup,
           \A w \in Workers : Overslept(w)' => Overslept(w),
           \A c \in Callers, w \in Workers : Waker(c, w) => Waker(c, w)'
    PROVE  NoLostWakeup'
BY DEF NoLostWakeup, Overslept, Waker

\* Whoever gives a sleeping worker something to do notifies it before anything else.
LEMMA WakeupNext == TypeOK /\ NoLostWakeup /\ [Next]_vars => NoLostWakeup'
<1> SUFFICES ASSUME TypeOK, NoLostWakeup, [Next]_vars
             PROVE  NoLostWakeup'
  OBVIOUS
<1> USE DEF control, counters, threads, calls, history
<1>1. ASSUME NEW c \in Callers, BeginCall(c)
      PROVE  NoLostWakeup'
  <2>1. UNCHANGED <<wpc, queue, running>>
    BY <1>1 DEF BeginCall, Submit, Flush, SetHandler, Start, Stop, Destroy, ClearStarted
  <2>2. /\ UNCHANGED pc \/ (pc[c] = "idle" /\ \A d \in Callers \ {c} : pc'[d] = pc[d])
        /\ \A d \in Callers \ {c} : target'[d] = target[d]
        /\ UNCHANGED pc => UNCHANGED target
    <3>1. CASE Stop(c) \/ Destroy(c)
      <4>1. pc[c] = "idle" /\ ClearStarted(c)
        BY <3>1 DEF Stop, Destroy, CanCall
      <4> QED
        BY <4>1 DEF ClearStarted, Goto, TypeOK
    <3>2. CASE ~(Stop(c) \/ Destroy(c))
      BY <1>1, <3>2 DEF BeginCall, Submit, Flush, SetHandler, Start, CanCall, Goto, TypeOK
    <3> QED
      BY <3>1, <3>2
  <2>3. \A d \in Callers, w \in Workers : Waker(d, w) => Waker(d, w)'
    BY <2>2 DEF Waker
  <2>4. \A w \in Workers : Overslept(w)' => Overslept(w)
    BY <2>1 DEF Overslept
  <2> QED
    BY <2>3, <2>4, WakeupFrame
<1>2. ASSUME NEW c \in Callers, Dispatch(c) \/ FlushPass(c) \/ StartFlag(c) \/ Spawn(c)
                                \/ Join(c) \/ Destruct(c)
      PROVE  NoLostWakeup'
  <2>1. /\ pc[c] \notin {"notify", "stopNotify"}
        /\ \A d \in Callers \ {c} : pc'[d] = pc[d] /\ target'[d] = target[d]
    BY <1>2 DEF Dispatch, FlushPass, StartFlag, Spawn, Join, Destruct,
                At, Goto, NextWorker, TypeOK
  <2>2. \A d \in Callers, w \in Workers : Waker(d, w) => Waker(d, w)'
    BY <2>1 DEF Waker
  <2>3. \A w \in Workers : Overslept(w)' => Overslept(w)
    BY <1>2 DEF Overslept, Dispatch, FlushPass, StartFlag, Spawn, Join, Destruct, TypeOK
  <2> QED
    BY <2>2, <2>3, WakeupFrame
<1>3. ASSUME NEW c \in Callers, Push(c) \/ StopFlag(c)
      PROVE  NoLostWakeup'
  <2> PICK t \in Workers : t = target[c]
    BY DEF TypeOK
  <2>1. /\ pc[c] \notin {"notify", "stopNotify"} /\ target' = target
        /\ \A d \in Callers \ {c} : pc'[d] = pc[d]
    BY <1>3 DEF Push, StopFlag, At, Goto, TypeOK
  <2>2. pc'[c] \in {"notify", "stopNotify"}
    BY <1>3 DEF Push, StopFlag, Goto, TypeOK
  <2>3. \A w \in Workers \ {t} : Overslept(w)' => Overslept(w)
    BY <1>3 DEF Overslept, Push, StopFlag, TypeOK
  <2>4. \A d \in Callers, w \in Workers : Waker(d, w) => Waker(d, w)'
    BY <2>1 DEF Waker
  <2>5. Waker(c, t)'
    BY <2>1, <2>2 DEF Waker
  <2>6. \A w \in Workers : Overslept(w) => \E d \in Callers : Waker(d, w)
    BY DEF NoLostWakeup, Overslept, Waker
  <2>7. \A w \in Workers : Overslept(w)' => \E d \in Callers : Waker(d, w)'
    BY <2>3, <2>4, <2>5, <2>6
  <2> QED
    BY <2>7 DEF NoLostWakeup, Overslept, Waker
<1>4. ASSUME NEW c \in Callers, Notify(c) \/ StopNotify(c)
      PROVE  NoLostWakeup'
  <2> PICK t \in Workers : t = target[c]
    BY DEF TypeOK
  <2>1. /\ Wake(t) /\ UNCHANGED <<queue, running>>
        /\ \A d \in Callers \ {c} : pc'[d] = pc[d] /\ target'[d] = target[d]
    BY <1>4 DEF Notify, StopNotify, Goto, TypeOK
  <2>2. ~Overslept(t)'
    <3>1. wpc'[t] # "waiting"
      BY <2>1 DEF Wake, TypeOK
    <3> QED
      BY <3>1 DEF Overslept
  <2>3. \A w \in Workers \ {t} : Overslept(w)' => Overslept(w)
    BY <2>1 DEF Overslept, Wake, TypeOK
  <2>4. \A d \in Callers, w \in Workers \ {t} : Waker(d, w) => Waker(d, w)'
    BY <2>1 DEF Waker
  <2>5. \A w \in Workers : Overslept(w) => \E d \in Callers : Waker(d, w)
    BY DEF NoLostWakeup, Overslept, Waker
  <2>6. \A w \in Workers : Overslept(w)' => \E d \in Callers : Waker(d, w)'
    BY <2>2, <2>3, <2>4, <2>5
  <2> QED
    BY <2>6 DEF NoLostWakeup, Overslept, Waker
<1>5. ASSUME NEW w \in Workers, WorkerStep(w) \/ SpuriousWakeup(w)
      PROVE  NoLostWakeup'
  <2>1. UNCHANGED <<pc, target, running>>
    BY <1>5 DEF WorkerStep, WorkerWait, SpuriousWakeup, WorkerExit, WorkerPop,
                WorkerDecode, WorkerReturn, WorkerCount
  <2>2. \A v \in Workers \ {w} : wpc'[v] = wpc[v] /\ queue'[v] = queue[v]
    <3>1. \A v \in Workers \ {w} : wpc'[v] = wpc[v]
      BY <1>5, WorkerStepMoves DEF TypeOK
    <3> QED
      BY <1>5, <3>1 DEF WorkerStep, WorkerWait, SpuriousWakeup, WorkerExit, WorkerPop,
                        WorkerDecode, WorkerReturn, WorkerCount, TypeOK
  <2>3. ~Overslept(w)'
    <3>1. CASE WorkerWait(w)
      BY <3>1 DEF WorkerWait, Overslept, TypeOK
    <3>2. CASE ~WorkerWait(w)
      BY <1>5, <3>2
         DEF WorkerStep, SpuriousWakeup, WorkerExit, WorkerPop, WorkerDecode,
             WorkerReturn, WorkerCount, MoveWorker, Overslept, TypeOK
    <3> QED
      BY <3>1, <3>2
  <2>4. \A v \in Workers : Overslept(v)' => Overslept(v)
    BY <2>1, <2>2, <2>3 DEF Overslept
  <2>5. \A d \in Callers, v \in Workers : Waker(d, v) => Waker(d, v)'
    BY <2>1 DEF Waker
  <2> QED
    BY <2>4, <2>5, WakeupFrame
<1>6. CASE UNCHANGED vars
  BY <1>6 DEF vars, NoLostWakeup
<1> QED
  BY <1>1, <1>2, <1>3, <1>4, <1>5, <1>6 DEF Next, CallStep, Ended

\* However the calls interleave, a worker that sleeps on its condition variable
\* with a packet in its queue, or after stop() cleared `running`, is about to be
\* notified.
THEOREM WakeupCorrect == Spec => []NoLostWakeup
<1>1. Init => NoLostWakeup
  BY DEF Init, NoLostWakeup
<1> QED
  BY <1>1, TypeInit, TypeNext, WakeupNext, PTL DEF Spec

-----------------------------------------------------------------------------
(* What a flush has waited for when it returns.                            *)

\* Of each packet that was enqueued when the flush began: it was enqueued at one
\* of the workers, and it has left the queue if the flush is past that worker.
FlushProgress ==
    \A c \in Callers : pc[c] = "flush" =>
        \A w \in Workers :
            /\ snap[c][w] <= Len(pushed[w])
            /\ w < target[c] => snap[c][w] <= Popped(w)

\* What was enqueued at a worker has left its queue or is still there.
QueueAccounts ==
    \A w \in Workers :
        /\ Popped(w) \in Nat
        /\ Len(pushed[w]) \in Nat
        /\ Len(queue[w]) \in Nat
        /\ Len(pushed[w]) = Popped(w) + Len(queue[w])

\* FifoConservation in numbers.
LEMMA PoppedOrQueued == TypeOK /\ FifoConservation => QueueAccounts
<1> SUFFICES ASSUME TypeOK, FifoConservation, NEW w \in Workers
             PROVE  /\ Popped(w) \in Nat
                    /\ Len(pushed[w]) \in Nat
                    /\ Len(queue[w]) \in Nat
                    /\ Len(pushed[w]) = Popped(w) + Len(queue[w])
  BY DEF QueueAccounts
<1>1. handled[w] \in Seq(Packets) /\ InFlight(w) \in Seq(Packets) /\ queue[w] \in Seq(Packets)
  BY EmptySeq DEF TypeOK, InFlight
<1>2. Len(handled[w] \o InFlight(w)) = Len(handled[w]) + Len(InFlight(w))
  BY <1>1, ConcatProperties
<1>3. handled[w] \o InFlight(w) \in Seq(Packets)
  BY <1>1, ConcatProperties
<1>4. Len((handled[w] \o InFlight(w)) \o queue[w]) = Len(handled[w] \o InFlight(w)) + Len(queue[w])
  BY <1>1, <1>3, ConcatProperties
<1>5. Len(handled[w]) \in Nat /\ Len(InFlight(w)) \in Nat /\ Len(queue[w]) \in Nat
  BY <1>1, LenProperties
<1>6. pushed[w] = (handled[w] \o InFlight(w)) \o queue[w]
  BY DEF FifoConservation
<1>7. Len(pushed[w]) = (Len(handled[w]) + Len(InFlight(w))) + Len(queue[w])
  BY <1>2, <1>4, <1>6
<1>8. Popped(w) = Len(handled[w]) + Len(InFlight(w))
  BY DEF Popped
<1>9. Popped(w) \in Nat
  BY <1>5, <1>8
<1>10. Len(pushed[w]) = Popped(w) + Len(queue[w])
  BY <1>7, <1>8
<1> QED
  BY <1>5, <1>9, <1>10

\* FifoConservation in numbers, after a step.
LEMMA PoppedOrQueuedNext == (TypeOK /\ FifoConservation)' => QueueAccounts'
BY PoppedOrQueued, PTL

\* A step leaves a worker's queue alone, enqueues one packet or takes one off.
LEMMA QueueStep ==
    ASSUME TypeOK, [Next]_vars, NEW w \in Workers
    PROVE  \/ queue'[w] = queue[w] /\ pushed'[w] = pushed[w]
           \/ \E p \in Packets : queue'[w] = Append(queue[w], p) /\ pushed'[w] = Append(pushed[w], p)
           \/ queue[w] # <<>> /\ queue'[w] = Tail(queue[w]) /\ pushed'[w] = pushed[w]
<1> USE DEF control, counters, threads, calls, history
<1>1. CASE UNCHANGED <<queue, pushed>>
  BY <1>1
<1>2. ASSUME NEW c \in Callers, Push(c)
      PROVE  \/ queue'[w] = queue[w] /\ pushed'[w] = pushed[w]
             \/ \E p \in Packets : queue'[w] = Append(queue[w], p) /\ pushed'[w] = Append(pushed[w], p)
  <2>1. held[c] \in Packets /\ target[c] \in Workers
    BY <1>2 DEF Push, At, TypeOK
  <2> QED
    BY <1>2, <2>1 DEF Push, TypeOK
<1>3. ASSUME NEW v \in Workers, WorkerPop(v)
      PROVE  \/ queue'[w] = queue[w] /\ pushed'[w] = pushed[w]
             \/ queue[w] # <<>> /\ queue'[w] = Tail(queue[w]) /\ pushed'[w] = pushed[w]
  BY <1>3 DEF WorkerPop, TypeOK
<1>4. ASSUME NEW c \in Callers, BeginCall(c)
      PROVE  UNCHANGED <<queue, pushed>>
  BY <1>4 DEF BeginCall, Submit, Flush, SetHandler, Start, Stop, Destroy, ClearStarted
<1>5. ASSUME NEW c \in Callers, CallStep(c), ~Push(c)
      PROVE  UNCHANGED <<queue, pushed>>
  BY <1>5 DEF CallStep, Dispatch, Notify, FlushPass, StartFlag, Spawn, StopFlag,
              StopNotify, Join, Destruct
<1>6. ASSUME NEW v \in Workers, WorkerStep(v) \/ SpuriousWakeup(v), ~WorkerPop(v)
      PROVE  UNCHANGED <<queue, pushed>>
  BY <1>6 DEF WorkerStep, WorkerWait, SpuriousWakeup, WorkerExit, WorkerDecode,
              WorkerReturn, WorkerCount
<1>7. CASE UNCHANGED vars
  BY <1>1, <1>7 DEF vars
<1> QED
  BY <1>1, <1>2, <1>3, <1>4, <1>5, <1>6, <1>7 DEF Next, Ended

\* The packets enqueued at a worker, and those that have left its queue, only grow.
LEMMA PoppedGrows ==
    ASSUME TypeOK, ThreadOwned, FifoConservation, [Next]_vars, NEW w \in Workers
    PROVE  /\ Popped(w) <= Popped(w)'
           /\ Len(pushed[w]) <= Len(pushed'[w])
           /\ Popped(w)' \in Nat
           /\ Len(pushed'[w]) = Popped(w)' + Len(queue'[w])
<1>1. TypeOK' /\ FifoConservation'
  BY TypeNext, FifoNext
<1>2. /\ Popped(w)' \in Nat
      /\ Len(pushed'[w]) \in Nat
      /\ Len(pushed'[w]) = Popped(w)' + Len(queue'[w])
  BY <1>1, PoppedOrQueuedNext DEF QueueAccounts
<1>3. /\ Popped(w) \in Nat
      /\ Len(pushed[w]) \in Nat
      /\ Len(pushed[w]) = Popped(w) + Len(queue[w])
  BY PoppedOrQueued DEF QueueAccounts
<1>4. queue[w] \in Seq(Packets) /\ pushed[w] \in Seq(Packets)
  BY DEF TypeOK
<1>5. Len(queue[w]) \in Nat
  BY <1>4, LenProperties
<1>6. CASE queue'[w] = queue[w] /\ pushed'[w] = pushed[w]
  BY <1>2, <1>3, <1>5, <1>6
<1>7. ASSUME NEW p \in Packets, queue'[w] = Append(queue[w], p),
             pushed'[w] = Append(pushed[w], p)
      PROVE  Popped(w) <= Popped(w)' /\ Len(pushed[w]) <= Len(pushed'[w])
  <2>1. Len(queue'[w]) = Len(queue[w]) + 1 /\ Len(pushed'[w]) = Len(pushed[w]) + 1
    BY <1>4, <1>7, AppendProperties
  <2> QED
    BY <1>2, <1>3, <1>5, <2>1
<1>8. CASE queue[w] # <<>> /\ queue'[w] = Tail(queue[w]) /\ pushed'[w] = pushed[w]
  <2>1. Len(queue'[w]) = Len(queue[w]) - 1
    BY <1>4, <1>8, HeadTailProperties
  <2> QED
    BY <1>2, <1>3, <1>5, <1>8, <2>1
<1> QED
  BY <1>2, <1>6, <1>7, <1>8, QueueStep

\* Only the caller itself begins, continues or ends its flush.
LEMMA FlushStep ==
    ASSUME TypeOK, [Next]_vars, NEW c \in Callers
    PROVE  \/ Flush(c)
           \/ FlushPass(c)
           \/ pc[c] # "flush" /\ pc'[c] # "flush"
           \/ pc'[c] = pc[c] /\ target'[c] = target[c] /\ snap'[c] = snap[c]
<1> DEFINE Others(d) == \A e \in Callers \ {d} :
                            pc'[e] = pc[e] /\ target'[e] = target[e] /\ snap'[e] = snap[e]
<1> USE DEF control, counters, threads, calls, history, TypeOK, Goto, At, CanCall
<1>1. ASSUME NEW d \in Callers, (\E p \in Packets : Submit(d, p))
                                \/ SetHandler(d) \/ Start(d)
      PROVE  Others(d) /\ pc[d] # "flush" /\ pc'[d] # "flush"
  BY <1>1 DEF Submit, SetHandler, Start
<1>2. ASSUME NEW d \in Callers, Stop(d) \/ Destroy(d)
      PROVE  Others(d) /\ pc[d] # "flush" /\ pc'[d] # "flush"
  <2>1. pc[d] # "flush" /\ ClearStarted(d)
    BY <1>2 DEF Stop, Destroy
  <2>2. AfterStop(d) # "flush"
    BY DEF AfterStop
  <2> QED
    BY <2>1, <2>2 DEF ClearStarted, Snapshot
<1>3. ASSUME NEW d \in Callers, Flush(d) \/ FlushPass(d)
      PROVE  Others(d)
  BY <1>3 DEF Flush, FlushPass, Snapshot, NextWorker
<1>4. ASSUME NEW d \in Callers, Dispatch(d) \/ Push(d) \/ Notify(d) \/ StartFlag(d)
                                \/ StopFlag(d) \/ StopNotify(d) \/ Destruct(d)
      PROVE  Others(d) /\ pc[d] # "flush" /\ pc'[d] # "flush"
  <2>1. CASE Dispatch(d) \/ Push(d) \/ Notify(d)
    BY <2>1 DEF Dispatch, Push, Notify
  <2>2. CASE StartFlag(d) \/ StopFlag(d) \/ StopNotify(d) \/ Destruct(d)
    BY <2>2 DEF StartFlag, StopFlag, StopNotify, Destruct
  <2> QED
    BY <1>4, <2>1, <2>2
<1>5. ASSUME NEW d \in Callers, Spawn(d) \/ Join(d)
      PROVE  Others(d) /\ pc[d] # "flush" /\ pc'[d] # "flush"
  <2>1. pc[d] \in {"spawn", "join"} /\ snap' = snap
    BY <1>5 DEF Spawn, Join
  <2>2. \A e \in Callers \ {d} : target'[e] = target[e]
    BY <1>5 DEF Spawn, Join, NextWorker
  <2> HIDE DEF TypeOK
  <2> QED
    BY <1>5, <2>1, <2>2, ThreadLoopMoves
<1>6. ASSUME NEW w \in Workers, WorkerStep(w) \/ SpuriousWakeup(w)
      PROVE  UNCHANGED <<pc, target, snap>>
  BY <1>6 DEF WorkerStep, WorkerWait, SpuriousWakeup, WorkerExit, WorkerPop,
              WorkerDecode, WorkerReturn, WorkerCount
<1>7. CASE UNCHANGED vars
  BY <1>7 DEF vars
<1> QED
  BY <1>1, <1>2, <1>3, <1>4, <1>5, <1>6, <1>7 DEF Next, BeginCall, CallStep, Ended

\* A pass of a flush takes nothing off a queue and nothing back from a worker.
LEMMA FlushPassFrame ==
    ASSUME NEW c \in Callers, FlushPass(c)
    PROVE  UNCHANGED <<queue, pushed, handled, wpc, item, snap>>
BY DEF FlushPass, control, counters, threads, calls, history

\* A flush that leaves a worker has waited for all that was enqueued there.
LEMMA FlushPassWaited ==
    ASSUME TypeOK, FifoConservation, FlushProgress, NEW c \in Callers, FlushPass(c),
           NEW w \in Workers, w <= target[c]
    PROVE  snap[c][w] <= Popped(w)
<1>1. pc[c] = "flush" /\ queue[target[c]] = <<>>
  BY DEF FlushPass, At
<1>2. snap[c][w] <= Len(pushed[w]) /\ (w < target[c] => snap[c][w] <= Popped(w))
  BY <1>1 DEF FlushProgress
<1>3. CASE w = target[c]
  <2>1. Len(queue[w]) = 0
    BY <1>1, <1>3, EmptySeq
  <2> QED
    BY <1>2, <2>1, PoppedOrQueued DEF QueueAccounts
<1>4. w \in Nat /\ target[c] \in Nat
  BY WorkersAreCounted DEF TypeOK
<1> QED
  BY <1>2, <1>3, <1>4

\* Every step keeps what a flush has waited for so far.
LEMMA FlushProgressNext ==
    TypeOK /\ ThreadOwned /\ FifoConservation /\ FlushProgress /\ [Next]_vars => FlushProgress'
<1> SUFFICES ASSUME TypeOK, ThreadOwned, FifoConservation, FlushProgress, [Next]_vars,
                    NEW c \in Callers, pc'[c] = "flush",
                    NEW w \in Workers
             PROVE  /\ snap'[c][w] <= Len(pushed'[w])
                    /\ w < target'[c] => snap'[c][w] <= Popped(w)'
  BY DEF FlushProgress
<1>1. /\ Popped(w) <= Popped(w)'
      /\ Len(pushed[w]) <= Len(pushed'[w])
      /\ Popped(w)' \in Nat /\ Popped(w) \in Nat /\ Len(pushed[w]) \in Nat
      /\ Len(pushed'[w]) \in Nat
  BY PoppedGrows, PoppedOrQueued, TypeNext, LenProperties DEF TypeOK, QueueAccounts
<1>2. snap[c][w] \in Nat /\ target[c] \in Nat /\ w \in Nat
  BY WorkersAreCounted DEF TypeOK
<1>3. CASE Flush(c)
  <2>1. snap'[c][w] = Len(pushed[w]) /\ target'[c] = 1
    BY <1>3 DEF Flush, Snapshot, TypeOK
  <2>2. ~(w < 1)
    BY WorkersAreCounted
  <2> QED
    BY <1>1, <2>1, <2>2
<1>4. CASE FlushPass(c)
  <2>1. target'[c] = target[c] + 1 /\ snap' = snap
    BY <1>4 DEF FlushPass, NextWorker, Goto, TypeOK
  <2>2. pc[c] = "flush"
    BY <1>4 DEF FlushPass, At
  <2>3. snap[c][w] <= Len(pushed[w])
    BY <2>2 DEF FlushProgress
  <2>4. w < target[c] + 1 => snap[c][w] <= Popped(w)
    BY <1>2, <1>4, FlushPassWaited
  <2> QED
    BY <1>1, <1>2, <2>1, <2>3, <2>4
<1>5. CASE pc'[c] = pc[c] /\ target'[c] = target[c] /\ snap'[c] = snap[c]
  <2>1. /\ snap[c][w] <= Len(pushed[w])
        /\ w < target[c] => snap[c][w] <= Popped(w)
    BY <1>5 DEF FlushProgress
  <2> QED
    BY <1>1, <1>2, <1>5, <2>1
<1> QED
  BY <1>3, <1>4, <1>5, FlushStep

\* For any number of workers and any concurrent calls: when flush() returns,
\* every packet enqueued before it was called has left its queue.
THEOREM FlushCorrect == Spec => FlushCovers
<1> DEFINE Inv == TypeOK /\ ThreadOwned /\ FifoConservation /\ FlushProgress
<1>1. Init => Inv
  <2>1. Init => ThreadOwned /\ FlushProgress
    BY DEF Init, ThreadOwned, FlushProgress
  <2> QED
    BY <2>1, TypeInit, FifoInit
<1>2. Inv /\ [Next]_vars => Inv'
  BY TypeNext, ThreadOwnedNext, FifoNext, FlushProgressNext
<1>3. Inv /\ [Next]_vars =>
        [\A c \in Callers : pc[c] = "flush" /\ pc'[c] # "flush" =>
            \A w \in Workers : Popped(w)' >= snap[c][w]]_vars
  <2> SUFFICES ASSUME Inv, [Next]_vars, NEW c \in Callers, pc[c] = "flush", pc'[c] # "flush",
                      NEW w \in Workers
               PROVE  Popped(w)' >= snap[c][w]
    OBVIOUS
  <2>1. FlushPass(c)
    <3>1. ~Flush(c)
      BY DEF Flush, CanCall
    <3> QED
      BY <3>1, FlushStep
  <2>2. w <= target[c]
    <3>1. target[c] + 1 \notin Workers
      BY <2>1 DEF FlushPass, NextWorker, Goto, TypeOK
    <3>2. target[c] \in Workers
      BY DEF TypeOK
    <3> QED
      BY <3>1, <3>2, WorkersAreCounted
  <2>3. snap[c][w] <= Popped(w)
    BY <2>1, <2>2, FlushPassWaited
  <2>4. Popped(w) <= Popped(w)' /\ Popped(w)' \in Nat
    BY PoppedGrows
  <2>5. Popped(w) \in Nat /\ snap[c][w] \in Nat
    BY PoppedOrQueued DEF TypeOK, QueueAccounts
  <2> QED
    BY <2>3, <2>4, <2>5
<1> QED
  BY <1>1, <1>2, <1>3, PTL DEF Spec, FlushCovers


-----------------------------------------------------------------------------
(* No packet is enqueued twice.                                            *)

\* Caller c is between the check of `started` and its push.
Holding(c) == pc[c] \in {"dispatch", "push"}

\* Packets are enqueued once, at one worker; those not submitted yet and those
\* in the hands of a submit have not been enqueued; no two submits hold the same.
PacketsOnce ==
    /\ \A v, w \in Workers : \A i \in DOMAIN pushed[v], j \in DOMAIN pushed[w] :
          pushed[v][i] = pushed[w][j] => v = w /\ i = j
    /\ \A w \in Workers : \A i \in DOMAIN pushed[w] : pushed[w][i] \notin fresh
    /\ \A c \in Callers : Holding(c) =>
          /\ held[c] \notin fresh
          /\ \A w \in Workers : \A i \in DOMAIN pushed[w] : pushed[w][i] # held[c]
          /\ \A d \in Callers : Holding(d) /\ held[d] = held[c] => d = c

\* A step that enqueues nothing, and gives no caller a packet, keeps that.
LEMMA OnceFrame ==
    ASSUME PacketsOnce, UNCHANGED <<pushed, held>>, fresh' \subseteq fresh,
           \A c \in Callers : Holding(c)' => Holding(c)
    PROVE  PacketsOnce'
BY DEF PacketsOnce

\* A submit takes its packet from those not submitted yet and enqueues it once.
LEMMA OnceNext == TypeOK /\ PacketsOnce /\ [Next]_vars => PacketsOnce'
<1> SUFFICES ASSUME TypeOK, PacketsOnce, [Next]_vars
             PROVE  PacketsOnce'
  OBVIOUS
<1> USE DEF control, counters, threads, calls, history
<1>1. ASSUME NEW c \in Callers, NEW p \in Packets, Submit(c, p)
      PROVE  PacketsOnce'
  <2>1. CASE UNCHANGED <<pc, held>>
    BY <1>1, <2>1, OnceFrame DEF Submit, Holding
  <2>2. CASE Goto(c, "dispatch") /\ held' = [held EXCEPT ![c] = p]
    <3>1. /\ p \in fresh /\ fresh' = fresh \ {p} /\ pushed' = pushed
          /\ held'[c] = p
          /\ \A d \in Callers \ {c} : held'[d] = held[d] /\ (Holding(d)' <=> Holding(d))
      BY <1>1, <2>2 DEF Submit, Goto, Holding, TypeOK
    <3> QED
      BY <3>1 DEF PacketsOnce
  <2> QED
    BY <1>1, <2>1, <2>2 DEF Submit
<1>2. ASSUME NEW c \in Callers, Push(c)
      PROVE  PacketsOnce'
  <2> DEFINE t == target[c]
  <2>1. t \in Workers /\ held[c] \in Packets /\ Holding(c)
    BY <1>2 DEF Push, At, TypeOK, Holding
  <2>2. /\ pushed' = [pushed EXCEPT ![t] = Append(@, held[c])]
        /\ ~Holding(c)' /\ fresh' = fresh
        /\ \A d \in Callers \ {c} : held'[d] = held[d] /\ (Holding(d)' <=> Holding(d))
    BY <1>2 DEF Push, Goto, TypeOK, Holding
  <2> HIDE DEF t
  <2>3. \A w \in Workers \ {t} : pushed'[w] = pushed[w]
    BY <2>1, <2>2 DEF TypeOK
  <2>4. pushed'[t] = Append(pushed[t], held[c]) /\ pushed[t] \in Seq(Packets)
    BY <2>1, <2>2 DEF TypeOK
  <2>5. /\ DOMAIN pushed'[t] = DOMAIN pushed[t] \cup {Len(pushed[t]) + 1}
        /\ Len(pushed[t]) + 1 \notin DOMAIN pushed[t]
        /\ pushed'[t][Len(pushed[t]) + 1] = held[c]
        /\ \A i \in DOMAIN pushed[t] : pushed'[t][i] = pushed[t][i]
    BY <2>1, <2>4, AppendProperties, LenProperties
  <2> HIDE DEF Holding
  <2> DEFINE n == Len(pushed[t]) + 1
  <2> HIDE DEF n
  <2>6. /\ DOMAIN pushed'[t] = DOMAIN pushed[t] \cup {n} /\ n \notin DOMAIN pushed[t]
        /\ pushed'[t][n] = held[c]
        /\ \A i \in DOMAIN pushed[t] : pushed'[t][i] = pushed[t][i]
    BY <2>5 DEF n
  <2>7. \A w \in Workers : \A i \in DOMAIN pushed[w] : pushed[w][i] # held[c]
    BY <2>1 DEF PacketsOnce
  <2>8. \A v, w \in Workers : \A i \in DOMAIN pushed'[v], j \in DOMAIN pushed'[w] :
           pushed'[v][i] = pushed'[w][j] => v = w /\ i = j
    BY <2>1, <2>3, <2>6, <2>7 DEF PacketsOnce
  <2>9. \A w \in Workers : \A i \in DOMAIN pushed'[w] : pushed'[w][i] \notin fresh'
    BY <2>1, <2>2, <2>3, <2>6 DEF PacketsOnce
  <2>10. ASSUME NEW d \in Callers, Holding(d)'
         PROVE  /\ held'[d] \notin fresh'
                /\ \A w \in Workers : \A i \in DOMAIN pushed'[w] : pushed'[w][i] # held'[d]
                /\ \A e \in Callers : Holding(e)' /\ held'[e] = held'[d] => e = d
    BY <2>1, <2>2, <2>3, <2>6, <2>10 DEF PacketsOnce
  <2> QED
    BY <2>8, <2>9, <2>10 DEF PacketsOnce
<1>3. ASSUME NEW c \in Callers, Dispatch(c) \/ Notify(c) \/ FlushPass(c) \/ StartFlag(c)
                                \/ StopFlag(c) \/ StopNotify(c) \/ Destruct(c)
                                \/ Flush(c) \/ SetHandler(c) \/ Start(c)
      PROVE  PacketsOnce'
  <2>1. UNCHANGED <<pushed, held, fresh>>
    BY <1>3 DEF Dispatch, Notify, FlushPass, StartFlag, StopFlag, StopNotify, Destruct,
                Flush, SetHandler, Start
  <2>2. \A d \in Callers : Holding(d)' => Holding(d)
    <3>1. CASE Dispatch(c) \/ Notify(c) \/ Flush(c) \/ SetHandler(c) \/ Start(c)
      BY <3>1 DEF Dispatch, Notify, Flush, SetHandler, Start, At, Goto, Holding, TypeOK
    <3>2. CASE FlushPass(c) \/ StartFlag(c)
      BY <3>2 DEF FlushPass, StartFlag, NextWorker, At, Goto, Holding, TypeOK
    <3>3. CASE StopFlag(c) \/ StopNotify(c) \/ Destruct(c)
      BY <3>3 DEF StopFlag, StopNotify, Destruct, At, Goto, Holding, TypeOK
    <3> QED
      BY <1>3, <3>1, <3>2, <3>3
  <2> QED
    BY <2>1, <2>2, OnceFrame
<1>4. ASSUME NEW c \in Callers, Spawn(c) \/ Join(c)
      PROVE  PacketsOnce'
  <2>1. UNCHANGED <<pushed, held, fresh>>
    BY <1>4 DEF Spawn, Join
  <2>2. \A d \in Callers : Holding(d)' => Holding(d)
    BY <1>4, ThreadLoopMoves DEF Holding
  <2> QED
    BY <2>1, <2>2, OnceFrame
<1>5. ASSUME NEW c \in Callers, Stop(c) \/ Destroy(c)
      PROVE  PacketsOnce'
  <2>1. ClearStarted(c)
    BY <1>5 DEF Stop, Destroy
  <2>2. \A d \in Callers : Holding(d)' => Holding(d)
    BY <2>1, ClearStartedType DEF Holding
  <2> QED
    BY <2>1, <2>2, OnceFrame DEF ClearStarted
<1>6. ASSUME NEW w \in Workers, WorkerStep(w) \/ SpuriousWakeup(w)
      PROVE  PacketsOnce'
  <2>1. UNCHANGED <<pushed, held, fresh, pc>>
    BY <1>6 DEF WorkerStep, WorkerWait, SpuriousWakeup, WorkerExit, WorkerPop,
                WorkerDecode, WorkerReturn, WorkerCount
  <2> QED
    BY <2>1, OnceFrame DEF Holding
<1>7. CASE UNCHANGED vars
  BY <1>7, OnceFrame DEF vars, Holding
<1> QED
  BY <1>1, <1>2, <1>3, <1>4, <1>5, <1>6, <1>7 DEF Next, BeginCall, CallStep, Ended

-----------------------------------------------------------------------------
(* What the worker threads have in their hands.                            *)

\* Worker w has decoded its item and not counted it yet.
Processing(w) == wpc[w] \in {"callback", "count"}

\* The item of such a worker is the packet it decoded last.
LastDecoded ==
    \A w \in Workers : Processing(w) =>
        Len(handled[w]) > 0 /\ item[w] = handled[w][Len(handled[w])]

\* What a worker has handled, and the packet it is about to decode, are the first
\* packets that were enqueued there.
LEMMA HandledWerePushed ==
    ASSUME TypeOK, FifoConservation, NEW w \in Workers
    PROVE  /\ DOMAIN handled[w] = 1..Len(handled[w]) /\ Len(handled[w]) \in Nat
           /\ DOMAIN handled[w] \subseteq DOMAIN pushed[w]
           /\ \A i \in DOMAIN handled[w] : pushed[w][i] = handled[w][i]
           /\ wpc[w] = "decode" => /\ Len(handled[w]) + 1 \in DOMAIN pushed[w]
                                   /\ pushed[w][Len(handled[w]) + 1] = item[w]
<1> DEFINE h == handled[w]
           f == InFlight(w)
           q == queue[w]
<1>1. h \in Seq(Packets) /\ q \in Seq(Packets) /\ f \in Seq(Packets)
  BY EmptySeq DEF TypeOK, InFlight
<1>2. pushed[w] = (h \o f) \o q
  BY DEF FifoConservation
<1>3. wpc[w] = "decode" => Len(f) = 1 /\ f[1] = item[w]
  BY DEF InFlight
<1> HIDE DEF h, f, q
<1>4. h \o f \in Seq(Packets)
  BY <1>1, ConcatProperties
<1>5. /\ Len(h) \in Nat /\ Len(f) \in Nat /\ Len(q) \in Nat
      /\ Len(h \o f) = Len(h) + Len(f)
      /\ Len(pushed[w]) = Len(h) + Len(f) + Len(q)
      /\ DOMAIN h = 1..Len(h) /\ DOMAIN pushed[w] = 1..Len(pushed[w])
  BY <1>1, <1>2, <1>4, ConcatProperties, LenProperties DEF TypeOK
<1>6. \A i \in 1..(Len(h) + Len(f)) : pushed[w][i] = (h \o f)[i]
  BY <1>1, <1>2, <1>4, <1>5, ConcatProperties
<1>7. \A i \in 1..Len(h) : pushed[w][i] = h[i]
  BY <1>1, <1>5, <1>6, ConcatProperties
<1>8. Len(f) = 1 => pushed[w][Len(h) + 1] = f[1]
  BY <1>1, <1>5, <1>6, ConcatProperties
<1> QED
  BY <1>3, <1>5, <1>7, <1>8 DEF h

\* Only a decode and a count change what the workers have decoded and not counted.
LEMMA ProcessingFrame ==
    ASSUME TypeOK, ThreadOwned, [Next]_vars,
           \A w \in Workers : ~WorkerDecode(w) /\ ~WorkerCount(w)
    PROVE  /\ UNCHANGED <<handled, processed, dropped>>
           /\ \A w \in Workers : Processing(w)' <=> Processing(w)
           /\ \A w \in Workers : Processing(w) => item'[w] = item[w]
<1> USE DEF control, counters, threads, calls, history
<1>1. ASSUME NEW c \in Callers, BeginCall(c)
      PROVE  UNCHANGED <<handled, processed, dropped, wpc, item>>
  BY <1>1 DEF BeginCall, Submit, Flush, SetHandler, Start, Stop, Destroy, ClearStarted
<1>2. ASSUME NEW c \in Callers, CallStep(c)
      PROVE  /\ UNCHANGED <<handled, processed, dropped, item>>
             /\ \A w \in Workers : Processing(w)' <=> Processing(w)
  <2>1. CASE Dispatch(c) \/ Push(c) \/ FlushPass(c) \/ StartFlag(c) \/ StopFlag(c) \/ Destruct(c)
    BY <2>1 DEF Dispatch, Push, FlushPass, StartFlag, StopFlag, Destruct, Processing
  <2>2. CASE Notify(c) \/ StopNotify(c)
    BY <2>2 DEF Notify, StopNotify, Wake, Processing, TypeOK
  <2>3. CASE Spawn(c)
    BY <2>3 DEF Spawn, Processing, TypeOK, ThreadOwned
  <2>4. CASE Join(c)
    BY <2>4 DEF Join, Processing, TypeOK
  <2> QED
    BY <1>2, <2>1, <2>2, <2>3, <2>4 DEF CallStep
<1>3. ASSUME NEW v \in Workers, WorkerStep(v) \/ SpuriousWakeup(v)
      PROVE  /\ UNCHANGED <<handled, processed, dropped>>
             /\ \A w \in Workers : Processing(w)' <=> Processing(w)
             /\ \A w \in Workers : Processing(w) => item'[w] = item[w]
  BY <1>3 DEF WorkerStep, WorkerWait, SpuriousWakeup, WorkerExit, WorkerPop, WorkerReturn,
              WorkerAt, MoveWorker, Processing, TypeOK
<1>4. CASE UNCHANGED vars
  BY <1>4 DEF vars, Processing
<1> QED
  BY <1>1, <1>2, <1>3, <1>4 DEF Next, Ended, Processing

\* A decode makes the packet the last one its worker has handled.
LEMMA LastDecodedNext == TypeOK /\ ThreadOwned /\ LastDecoded /\ [Next]_vars => LastDecoded'
<1> SUFFICES ASSUME TypeOK, ThreadOwned, LastDecoded, [Next]_vars
             PROVE  LastDecoded'
  OBVIOUS
<1>1. CASE \A w \in Workers : ~WorkerDecode(w) /\ ~WorkerCount(w)
  BY <1>1, ProcessingFrame DEF LastDecoded
<1>2. ASSUME NEW w \in Workers, WorkerDecode(w)
      PROVE  LastDecoded'
  <2>1. /\ handled' = [handled EXCEPT ![w] = Append(@, item[w])] /\ item' = item
        /\ \A v \in Workers \ {w} : Processing(v)' <=> Processing(v)
        /\ item[w] \in Packets
    BY <1>2 DEF WorkerDecode, WorkerAt, MoveWorker, TypeOK, Processing
  <2>2. Len(handled'[w]) > 0 /\ item'[w] = handled'[w][Len(handled'[w])]
    BY <2>1, AppendProperties, LenProperties DEF TypeOK
  <2> QED
    BY <2>1, <2>2 DEF LastDecoded, TypeOK
<1>3. ASSUME NEW w \in Workers, WorkerCount(w)
      PROVE  LastDecoded'
  BY <1>3 DEF WorkerCount, MoveWorker, Processing, LastDecoded, TypeOK, history
<1> QED
  BY <1>1, <1>2, <1>3

-----------------------------------------------------------------------------
(* The counters.                                                           *)

\* The packets that are decoded and counted.
Counted == HandledSet \ Uncounted

\* The two counters are the numbers of counted packets of either kind.
CountsAreRight == IsFiniteSet(Counted) /\ CountersAccount

\* Appending an element to a sequence adds it to the sequence's range.
LEMMA RangeOfAppend ==
    ASSUME NEW S, NEW s \in Seq(S), NEW e \in S
    PROVE  {Append(s, e)[i] : i \in DOMAIN Append(s, e)} = {s[i] : i \in DOMAIN s} \cup {e}
<1>1. /\ Len(s) \in Nat /\ DOMAIN s = 1..Len(s)
      /\ DOMAIN Append(s, e) = 1..(Len(s) + 1)
      /\ Append(s, e)[Len(s) + 1] = e
      /\ \A i \in 1..Len(s) : Append(s, e)[i] = s[i]
  BY AppendProperties, LenProperties
<1>2. 1..(Len(s) + 1) = 1..Len(s) \cup {Len(s) + 1}
  BY <1>1
<1> QED
  BY <1>1, <1>2

\* A set of packets that gains one, in numbers of malformed and other packets.
LEMMA CountOneMore ==
    ASSUME NEW S, IsFiniteSet(S), NEW x, x \notin S,
           NEW T, T = S \cup {x}
    PROVE  /\ IsFiniteSet(T)
           /\ Cardinality(T \cap Malformed) =
                 IF x \in Malformed THEN Cardinality(S \cap Malformed) + 1 ELSE Cardinality(S \cap Malformed)
           /\ Cardinality(T \ Malformed) =
                 IF x \in Malformed THEN Cardinality(S \ Malformed) ELSE Cardinality(S \ Malformed) + 1
<1>1. IsFiniteSet(T)
  BY FS_AddElement
<1>2. IsFiniteSet(S \cap Malformed) /\ IsFiniteSet(S \ Malformed)
  BY FS_Intersection, FS_Difference
<1>3. CASE x \in Malformed
  <2>1. T \cap Malformed = (S \cap Malformed) \cup {x} /\ T \ Malformed = S \ Malformed
    BY <1>3
  <2>2. x \notin S \cap Malformed
    OBVIOUS
  <2> QED
    BY <1>1, <1>2, <1>3, <2>1, <2>2, FS_AddElement
<1>4. CASE x \notin Malformed
  <2>1. T \cap Malformed = S \cap Malformed /\ T \ Malformed = (S \ Malformed) \cup {x}
    BY <1>4
  <2>2. x \notin S \ Malformed
    OBVIOUS
  <2> QED
    BY <1>1, <1>2, <1>4, <2>1, <2>2, FS_AddElement
<1> QED
  BY <1>3, <1>4

\* The packet a worker is about to decode has not been handled by any.
LEMMA NextIsNew ==
    ASSUME TypeOK, FifoConservation, PacketsOnce, NEW w \in Workers, wpc[w] = "decode"
    PROVE  item[w] \notin HandledSet
<1> SUFFICES ASSUME NEW v \in Workers, NEW i \in DOMAIN handled[v], handled[v][i] = item[w]
             PROVE  FALSE
  BY DEF HandledSet
<1>1. /\ Len(handled[w]) + 1 \in DOMAIN pushed[w]
      /\ pushed[w][Len(handled[w]) + 1] = item[w]
  BY HandledWerePushed
<1>2. i \in DOMAIN pushed[v] /\ pushed[v][i] = handled[v][i]
  BY HandledWerePushed
<1>3. v = w /\ i = Len(handled[w]) + 1
  BY <1>1, <1>2 DEF PacketsOnce
<1>4. Len(handled[w]) \in Nat /\ DOMAIN handled[w] = 1..Len(handled[w])
  BY HandledWerePushed
<1> QED
  BY <1>3, <1>4

\* The item of a worker that has decoded it and not counted it is one of the
\* packets handled, and no other worker's.
LEMMA ItemIsOwn ==
    ASSUME TypeOK, FifoConservation, PacketsOnce, LastDecoded, NEW w \in Workers, Processing(w)
    PROVE  /\ item[w] \in HandledSet
           /\ \A v \in Workers : Processing(v) /\ item[v] = item[w] => v = w
<1>1. \A v \in Workers : Processing(v) =>
        /\ Len(handled[v]) \in DOMAIN handled[v]
        /\ item[v] = handled[v][Len(handled[v])]
  <2> TAKE v \in Workers
  <2> HAVE Processing(v)
  <2>1. Len(handled[v]) > 0 /\ item[v] = handled[v][Len(handled[v])]
    BY DEF LastDecoded
  <2>2. Len(handled[v]) \in Nat /\ DOMAIN handled[v] = 1..Len(handled[v])
    BY HandledWerePushed
  <2> QED
    BY <2>1, <2>2
<1>2. item[w] \in HandledSet
  BY <1>1 DEF HandledSet
<1>3. ASSUME NEW v \in Workers, Processing(v), item[v] = item[w]
      PROVE  v = w
  <2>1. /\ Len(handled[v]) \in DOMAIN pushed[v]
        /\ pushed[v][Len(handled[v])] = item[v]
    BY <1>1, <1>3, HandledWerePushed
  <2>2. /\ Len(handled[w]) \in DOMAIN pushed[w]
        /\ pushed[w][Len(handled[w])] = item[w]
    BY <1>1, HandledWerePushed
  <2> QED
    BY <1>3, <2>1, <2>2 DEF PacketsOnce
<1> QED
  BY <1>2, <1>3

\* A decode adds a packet to those handled and to those not counted yet; a count
\* moves one packet to the counted ones and adds one to the counter of its kind.
LEMMA CountsNext ==
    TypeOK /\ ThreadOwned /\ FifoConservation /\ PacketsOnce /\ LastDecoded
        /\ CountsAreRight /\ [Next]_vars => CountsAreRight'
<1> SUFFICES ASSUME TypeOK, ThreadOwned, FifoConservation, PacketsOnce, LastDecoded,
                    CountsAreRight, [Next]_vars
             PROVE  CountsAreRight'
  OBVIOUS
<1>1. Uncounted = {item[w] : w \in {v \in Workers : Processing(v)}}
  BY DEF Uncounted, Processing
<1>2. Uncounted' = {item'[w] : w \in {v \in Workers : Processing(v)'}}
  BY DEF Uncounted, Processing
<1>3. CASE \A w \in Workers : ~WorkerDecode(w) /\ ~WorkerCount(w)
  <2>1. /\ UNCHANGED <<handled, processed, dropped>>
        /\ \A w \in Workers : Processing(w)' <=> Processing(w)
        /\ \A w \in Workers : Processing(w) => item'[w] = item[w]
    BY <1>3, ProcessingFrame
  <2>2. Uncounted' = Uncounted
    BY <1>1, <1>2, <2>1
  <2>3. HandledSet' = HandledSet
    BY <2>1 DEF HandledSet
  <2> QED
    BY <2>1, <2>2, <2>3 DEF CountsAreRight, CountersAccount, Counted
<1>4. ASSUME NEW w \in Workers, WorkerDecode(w)
      PROVE  CountsAreRight'
  <2>1. /\ wpc[w] = "decode" /\ ~Processing(w) /\ Processing(w)'
        /\ \A v \in Workers \ {w} : Processing(v)' <=> Processing(v)
        /\ handled' = [handled EXCEPT ![w] = Append(@, item[w])]
        /\ item' = item /\ UNCHANGED <<processed, dropped>>
    BY <1>4 DEF WorkerDecode, WorkerAt, MoveWorker, TypeOK, Processing, counters
  <2>2. Uncounted' = Uncounted \cup {item[w]}
    BY <1>1, <1>2, <2>1
  <2>3. HandledSet' = HandledSet \cup {item[w]}
    <3>1. handled[w] \in Seq(Packets) /\ item[w] \in Packets
      BY <2>1 DEF TypeOK
    <3>2. {handled'[w][i] : i \in DOMAIN handled'[w]}
            = {handled[w][i] : i \in DOMAIN handled[w]} \cup {item[w]}
      <4>1. handled'[w] = Append(handled[w], item[w])
        BY <2>1 DEF TypeOK
      <4> QED
        BY <3>1, <4>1, RangeOfAppend
    <3>3. \A v \in Workers \ {w} : handled'[v] = handled[v]
      BY <2>1 DEF TypeOK
    <3> QED
      BY <3>2, <3>3 DEF HandledSet
  <2>4. item[w] \notin HandledSet
    BY <2>1, NextIsNew
  <2>5. Counted' = Counted
    BY <2>2, <2>3, <2>4 DEF Counted
  <2> QED
    BY <2>1, <2>5 DEF CountsAreRight, CountersAccount, Counted
<1>5. ASSUME NEW w \in Workers, WorkerCount(w)
      PROVE  CountsAreRight'
  <2>1. /\ Processing(w) /\ ~Processing(w)' /\ handled' = handled
        /\ \A v \in Workers \ {w} : (Processing(v)' <=> Processing(v)) /\ item'[v] = item[v]
    BY <1>5 DEF WorkerCount, WorkerAt, MoveWorker, TypeOK, Processing, history
  <2>2. HandledSet' = HandledSet
    BY <2>1 DEF HandledSet
  <2>3. item[w] \in HandledSet /\ \A v \in Workers : Processing(v) /\ item[v] = item[w] => v = w
    BY <2>1, ItemIsOwn
  <2>4. Uncounted' = Uncounted \ {item[w]} /\ item[w] \in Uncounted
    BY <1>1, <1>2, <2>1, <2>3
  <2>5. Counted' = Counted \cup {item[w]} /\ item[w] \notin Counted
    BY <2>2, <2>3, <2>4 DEF Counted
  <2>6. /\ IsFiniteSet(Counted')
        /\ Cardinality(Counted' \cap Malformed) =
              IF item[w] \in Malformed THEN Cardinality(Counted \cap Malformed) + 1
                                       ELSE Cardinality(Counted \cap Malformed)
        /\ Cardinality(Counted' \ Malformed) =
              IF item[w] \in Malformed THEN Cardinality(Counted \ Malformed)
                                       ELSE Cardinality(Counted \ Malformed) + 1
    <3>1. IsFiniteSet(Counted)
      BY DEF CountsAreRight
    <3>2. Counted' = Counted \cup {item[w]} /\ item[w] \notin Counted
      BY <2>5
    <3> QED
      BY ONLY <3>1, <3>2, CountOneMore
  <2>7. /\ processed = Cardinality(Counted \ Malformed)
        /\ dropped = Cardinality(Counted \cap Malformed)
    BY DEF CountsAreRight, CountersAccount, Counted
  <2>8. /\ processed' = Cardinality(Counted' \ Malformed)
        /\ dropped' = Cardinality(Counted' \cap Malformed)
    BY <1>5, <2>6, <2>7 DEF WorkerCount
  <2> QED
    BY <2>6, <2>8 DEF CountsAreRight, CountersAccount, Counted
<1> QED
  BY <1>3, <1>4, <1>5

\* However the calls interleave: the two counters add up to the packets decoded so
\* far, each counted once and as what it is, except those whose handler call has
\* not returned or has just returned.
THEOREM CountersCorrect == Spec => []CountersAccount
<1> DEFINE Inv == /\ TypeOK /\ ThreadOwned /\ FifoConservation
                  /\ PacketsOnce /\ LastDecoded /\ CountsAreRight
<1>1. Init => Inv
  <2> SUFFICES ASSUME Init
               PROVE  Inv
    OBVIOUS
  <2>1. TypeOK /\ FifoConservation
    BY TypeInit, FifoInit
  <2>2. ThreadOwned /\ LastDecoded
    BY DEF Init, ThreadOwned, LastDecoded, Processing
  <2>3. PacketsOnce
    BY DEF Init, PacketsOnce, Holding
  <2>4. HandledSet = {}
    BY DEF Init, HandledSet
  <2>5. Counted = {}
    BY <2>4 DEF Counted
  <2>6. CountsAreRight
    <3>1. Counted \ Malformed = {} /\ Counted \cap Malformed = {}
      BY <2>5
    <3>2. processed = 0 /\ dropped = 0
      BY DEF Init
    <3> QED
      BY <2>5, <3>1, <3>2, FS_EmptySet DEF CountsAreRight, CountersAccount, Counted
  <2> QED
    BY <2>1, <2>2, <2>3, <2>6
<1>2. Inv /\ [Next]_vars => Inv'
  BY TypeNext, ThreadOwnedNext, FifoNext, OnceNext, LastDecodedNext, CountsNext
<1>3. Inv => CountersAccount
  BY DEF CountsAreRight
<1> QED
  BY <1>1, <1>2, <1>3, PTL DEF Spec
=============================================================================
